----------------------------- MODULE Favorites -----------------------------
(***************************************************************************)
(* The favourites of buyers: the heart of the raffle page and the page of  *)
(* favourites (raffle-content.tsx, dashboard/favorites/page.tsx), which    *)
(* both change before the backend has answered, and favorites.service.ts.  *)
(* One raffle; a buyer may have several tabs.                              *)
(***************************************************************************)
EXTENDS Clients

CONSTANTS
    Buyers,             \* users who do not own the raffle
    TabUsers            \* the buyers that the tabs may belong to

ASSUME TabUsersAssumption == Buyers \subseteq Nat \ {0} /\ TabUsers \subseteq [Tabs -> Buyers]

VARIABLES
    user, place,        \* per tab: its buyer and the page that is open
    favorite,           \* the buyers who have the raffle as a favourite
    heart, heartQuery,  \* per tab: the heart shown; IS_FAVORITE under way
    crossed             \* ghost: the tabs whose heart something else disturbed

heartVars == <<user, place, favorite, heart, heartQuery, crossed>>

Places == {"raffle", "favorites"}
Siblings(t) == {s \in Tabs \ {t} : user[s] = user[t]}
BusyHeart(t) == req[t].group = "favorite"

\* IS_FAVORITE (or the list of the favourites page): answered some time later.
isFavoriteRead(t) ==
    /\ heartQuery[t] = "unasked"
    /\ heartQuery' = [heartQuery EXCEPT ![t] = IF user[t] \in favorite THEN "yes" ELSE "no"]
    /\ crossed' = IF \E s \in Siblings(t) : BusyHeart(s) THEN crossed \cup {t} ELSE crossed
    /\ UNCHANGED <<user, place, favorite, heart, clientVars>>

\* The effect overwrites whatever the heart shows.
isFavoriteAnswer(t) ==
    /\ heartQuery[t] \in {"yes", "no"}
    /\ heart' = [heart EXCEPT ![t] = heartQuery[t] = "yes"]
    /\ heartQuery' = [heartQuery EXCEPT ![t] = "answered"]
    /\ UNCHANGED <<user, place, favorite, crossed, clientVars>>

\* The heart changes at once; the favourites page only removes, and only what
\* its list shows.
handleFavoriteClick(t) ==
    /\ place[t] = "raffle" \/ (place[t] = "favorites" /\ heart[t])
    /\ Start(t, "hearts", "favorite",
             [NoReq EXCEPT !.op = IF heart[t] THEN "removeFavorite" ELSE "addFavorite",
                           !.pc = "sent", !.ok = heartQuery[t] = "answered"])
    /\ heart' = [heart EXCEPT ![t] = ~@]
    /\ crossed' = crossed \cup Siblings(t)
                          \cup (IF heartQuery[t] = "answered" THEN {} ELSE {t})
    /\ UNCHANGED <<user, place, favorite, heartQuery>>

addFavoriteRead(t) ==
    /\ At(t, "addFavorite", "sent")
    /\ To(t, IF user[t] \in favorite THEN "done" ELSE "create")
    /\ UNCHANGED heartVars

\* (userId, raffleId) is unique.
addFavoriteCreate(t) ==
    /\ At(t, "addFavorite", "create")
    /\ favorite' = favorite \cup {user[t]}
    /\ To(t, IF user[t] \in favorite THEN "failed" ELSE "done")
    /\ UNCHANGED <<user, place, heart, heartQuery, crossed>>

removeFavoriteRead(t) ==
    /\ At(t, "removeFavorite", "sent")
    /\ To(t, IF user[t] \in favorite THEN "delete" ELSE "failed")
    /\ UNCHANGED heartVars

MutRemoveFavoriteDelete(t) ==
    /\ At(t, "removeFavorite", "delete")
    /\ To(t, IF user[t] \in favorite THEN "done" ELSE "failed")
    /\ UNCHANGED heartVars

removeFavoriteDelete(t) ==
    /\ At(t, "removeFavorite", "delete")
    /\ favorite' = favorite \ {user[t]}
    /\ To(t, IF user[t] \in favorite THEN "done" ELSE "failed")
    /\ UNCHANGED <<user, place, heart, heartQuery, crossed>>

\* onError: the raffle page undoes the click, the favourites page reads its
\* list again.
Undone(t) == IF place[t] = "raffle" THEN req[t].op = "removeFavorite"
             ELSE user[t] \in favorite

favoriteAnswer(t) ==
    /\ BusyHeart(t) /\ req[t].pc \in {"done", "failed"}
    /\ heart' = [heart EXCEPT ![t] = IF req[t].pc = "failed" THEN Undone(t) ELSE @]
    /\ crossed' = IF req[t].pc = "done" /\ req[t].alone /\ req[t].ok
                  THEN crossed \ {t} ELSE crossed
    /\ Done(t)
    /\ UNCHANGED <<user, place, favorite, heartQuery>>

-----------------------------------------------------------------------------
\* The pages take a request that is lost for one that failed.
StopHearts ==
    LET hit == {t \in Tabs : BusyHeart(t)}
    IN /\ heart' = [t \in Tabs |-> IF t \in hit THEN Undone(t) ELSE heart[t]]
       /\ crossed' = crossed \cup hit
       /\ UNCHANGED <<user, place, favorite, heartQuery>>

\* Either the pages are being opened, or their queries have been answered.
HeartsInit ==
    /\ user \in TabUsers /\ place \in [Tabs -> Places]
    /\ favorite \in SUBSET Buyers
    /\ \/ /\ heart = [t \in Tabs |-> FALSE]
          /\ heartQuery = [t \in Tabs |-> "unasked"]
       \/ /\ heart = [t \in Tabs |-> user[t] \in favorite]
          /\ heartQuery = [t \in Tabs |-> "answered"]
    /\ crossed = {}

HeartStep(t) ==
    \/ isFavoriteRead(t) \/ isFavoriteAnswer(t) \/ handleFavoriteClick(t)
    \/ addFavoriteRead(t) \/ addFavoriteCreate(t)
    \/ removeFavoriteRead(t) \/ removeFavoriteDelete(t) \/ favoriteAnswer(t)

-----------------------------------------------------------------------------
(* Properties *)

\* While nothing is under way the heart of a page is what the backend stores,
\* unless another tab of the buyer or a crash came in between, or the buyer
\* clicked before the page's own query was answered, which the answer then
\* overwrites.  A later click that succeeds alone repairs it.
HeartTellsTheTruth ==
    \A t \in Tabs \ crossed :
        (heartQuery[t] = "answered" /\ ~BusyHeart(t))
            => (heart[t] <=> user[t] \in favorite)
=============================================================================
