------------------------------ MODULE Listings ------------------------------
(***************************************************************************)
(* The public catalogue of one seller: publishing within the limit of the  *)
(* seller's level, relaunching a cancelled raffle at a suggested price,    *)
(* reports and moderation, the cached list of raffles, the confirmation of *)
(* deliveries with the seller's reputation (raffles.service.ts,            *)
(* reports.service.ts, reputation.service.ts, users.service.ts), and the   *)
(* pages that send the requests.  Purchases, draws and payouts are in      *)
(* RaffleSale and Settlement.                                              *)
(***************************************************************************)
EXTENDS SellerAccounts

CONSTANTS
    Reporters,              \* users who report raffles
    AUTO_HIDE_THRESHOLD,    \* ReportsService.AUTO_HIDE_THRESHOLD
    MaxRaffles,             \* bound: raffles created
    NUEVO, BRONCE,          \* active raffles allowed at the two lowest levels
    BronceSales             \* completed sales of the second level

ASSUME ListingsAssumption ==
    /\ Reporters \subseteq Nat /\ IsFiniteSet(Reporters)
    /\ AUTO_HIDE_THRESHOLD \in Nat \ {0} /\ MaxRaffles \in Nat
    /\ NUEVO \in Nat \ {0} /\ BRONCE \in Nat /\ NUEVO <= BRONCE /\ BronceSales \in Nat

RaffleIds == 1 .. MaxRaffles
\* Raffles that the cron cancelled with a suggestion; the seller's own
\* cancellation makes none.
Suggested == {2}
RaffleStates == {"none", "ACTIVA", "CANCELADA", "EN_ENTREGA", "FINALIZADA"}

VARIABLES
    estado, hidden, delivery,   \* per raffle: estado, isHidden, deliveryStatus
    report,             \* per raffle and reporter: none, open or reviewed
    banned,             \* user.role = BANNED: "no", "admin" or "report"
    aceptada,           \* the raffles whose price suggestion was accepted
    offer,              \* the tabs with the relaunch dialog open
    ventas, maxRifas,   \* totalVentasCompletadas and maxRifasSimultaneas
    review,             \* the raffles with a review
    cache, tracked,     \* the cached list; whether listCacheKeys has its key
    wipes,              \* invalidations under way, per stage
    stale,              \* ghost: why the cached list may be old
    relaunches,         \* ghost: raffles created by relaunching
    counted,            \* ghost: confirmations lost half-way
    granted,            \* ghost: the highest limit the seller has had
    exempt              \* ghost: raffles published or shown again after a ban

raffleVars == <<estado, hidden, delivery>>
moderationVars == <<report, banned, exempt>>
reputationVars == <<ventas, maxRifas, review, counted, granted>>
cacheVars == <<cache, tracked, wipes, stale>>
suggestionVars == <<aceptada, offer, relaunches>>
listingVars == <<raffleVars, moderationVars, reputationVars, cacheVars,
                 suggestionVars>>

NoList == {0}           \* no cached list (raffles are numbered from 1)
NoWipes == [captured |-> 0, missed |-> 0, deleted |-> 0]

Active == {r \in RaffleIds : estado[r] = "ACTIVA"}
Listed == {r \in Active : ~hidden[r]}
Unused == {r \in RaffleIds : /\ estado[r] = "none"
                             /\ \A s \in 1 .. r - 1 : estado[s] # "none"}
OpenReports(r) == {u \in Reporters : report[r][u] = "open"}
Request(op, pc, r) == [NoReq EXCEPT !.op = op, !.pc = pc, !.id = r]
Reading == {t \in Tabs : req[t].op = "findAll"}

-----------------------------------------------------------------------------
(* The cached list of the first page.  setListCache stores the list and then *)
(* notes its key; invalidateRaffleCache takes the noted keys, deletes their   *)
(* entries and, when that is done, forgets every key.                         *)

MutInvalidate ==
    /\ wipes' = [wipes EXCEPT !.missed = @ + 1]
    /\ stale' = IF Reading # {} THEN stale \cup {"raced"} ELSE stale
    /\ UNCHANGED <<cache, tracked>>

\* Called, and not awaited, by the handlers that change raffles.
invalidateRaffleCache ==
    /\ wipes' = IF tracked THEN [wipes EXCEPT !.captured = @ + 1]
                ELSE [wipes EXCEPT !.missed = @ + 1]
    /\ stale' = IF Reading # {} THEN stale \cup {"raced"} ELSE stale
    /\ UNCHANGED <<cache, tracked>>

\* Moderation changes what is listed and does not invalidate.
SilentChange ==
    /\ stale' = IF cache # NoList \/ Reading # {} THEN stale \cup {"hidden"}
                ELSE stale
    /\ UNCHANGED <<cache, tracked, wipes>>

deleteEntries ==
    /\ wipes.captured > 0
    /\ wipes' = [wipes EXCEPT !.captured = @ - 1, !.deleted = @ + 1]
    /\ cache' = NoList
    /\ stale' = IF Reading = {} THEN {} ELSE stale
    /\ UNCHANGED <<tracked, raffleVars, moderationVars, reputationVars,
                   suggestionVars, clientVars>>

clearKeys ==
    /\ \E stage \in {"missed", "deleted"} :
          /\ wipes[stage] > 0
          /\ wipes' = [wipes EXCEPT ![stage] = @ - 1]
    /\ tracked' = FALSE
    /\ UNCHANGED <<cache, stale, raffleVars, moderationVars, reputationVars,
                   suggestionVars, clientVars>>

\* CACHE_TTL has passed.
entryExpires ==
    /\ cache # NoList
    /\ cache' = NoList
    /\ stale' = IF Reading = {} THEN {} ELSE stale
    /\ UNCHANGED <<tracked, wipes, raffleVars, moderationVars, reputationVars,
                   suggestionVars, clientVars>>

\* findAll found nothing in the cache, reads the table, answers, and stores the
\* list without waiting for it.
findAllMiss(t) ==
    /\ cache = NoList
    /\ Start(t, "listings", "list", Request("findAll", "missed", 0))
    /\ UNCHANGED listingVars

findAllRead(t) ==
    /\ At(t, "findAll", "missed")
    /\ req' = [req EXCEPT ![t].pc = "read", ![t].seen = Listed]
    /\ UNCHANGED <<budget, ghostVars, listingVars>>

setListCache(t) ==
    /\ At(t, "findAll", "read")
    /\ cache' = req[t].seen
    /\ stale' = IF wipes # NoWipes THEN stale \cup {"raced"} ELSE stale
    /\ To(t, "stored")
    /\ UNCHANGED <<tracked, wipes, raffleVars, moderationVars, reputationVars,
                   suggestionVars>>

noteKey(t) ==
    /\ At(t, "findAll", "stored")
    /\ tracked' = TRUE
    /\ stale' = IF wipes # NoWipes THEN stale \cup {"raced"} ELSE stale
    /\ Done(t)
    /\ UNCHANGED <<cache, wipes, raffleVars, moderationVars, reputationVars,
                   suggestionVars>>

-----------------------------------------------------------------------------
(* Publishing.  A banned seller's requests are refused by the JWT strategy. *)

Publishes(r) ==
    /\ estado' = [estado EXCEPT ![r] = "ACTIVA"]
    /\ exempt' = IF banned = "report" THEN exempt \cup {r} ELSE exempt
    /\ invalidateRaffleCache
    /\ UNCHANGED <<hidden, delivery, report, banned, reputationVars>>

\* The create page shows its form to a seller it takes for verified.
CreateOffered == "VERIFIED" \in kycShown

\* create checks the account, the address and the identity of the seller it read.
createRead(t) ==
    /\ CreateOffered /\ banned = "no"
    /\ status = "CONNECTED" /\ addresses # {} /\ kyc = "VERIFIED"
    /\ Start(t, "listings", "publish", Request("create", "checked", 0))
    /\ UNCHANGED listingVars

MutCanCreate(t) ==
    /\ At(t, "create", "checked")
    /\ IF Cardinality(Active) <= maxRifas THEN To(t, "allowed") ELSE Done(t)
    /\ UNCHANGED listingVars

canSellerCreateRaffle(t) ==
    /\ At(t, "create", "checked")
    /\ IF Cardinality(Active) < maxRifas THEN To(t, "allowed") ELSE Done(t)
    /\ UNCHANGED listingVars

createWrite(t) ==
    /\ At(t, "create", "allowed")
    /\ \E r \in Unused : Publishes(r)
    /\ Done(t)
    /\ UNCHANGED suggestionVars

\* The link of the cancellation mail opens a dialog of the sales page unless the
\* suggestion is already used.
RelaunchOffered(r) == r \notin aceptada

\* A dialog that is open stays until its request succeeds.
RelaunchDialog(t) == t \in offer

\* The backend does not look at whether the suggestion is used, nor at the limit.
relaunchRead(t) ==
    /\ banned = "no"
    /\ \E r \in RaffleIds :
          /\ RelaunchDialog(t) \/ RelaunchOffered(r)
          /\ estado[r] = "CANCELADA" /\ r \in Suggested
          /\ Start(t, "listings", "publish", Request("relaunch", "found", r))
    /\ offer' = offer \cup {t}
    /\ UNCHANGED <<aceptada, relaunches, raffleVars, moderationVars, reputationVars,
                   cacheVars>>

relaunchCreate(t) ==
    /\ At(t, "relaunch", "found")
    /\ \E r \in Unused : Publishes(r)
    /\ relaunches' = relaunches + 1
    /\ To(t, "created")
    /\ UNCHANGED <<aceptada, offer>>

relaunchAccept(t) ==
    /\ At(t, "relaunch", "created")
    /\ aceptada' = aceptada \cup {req[t].id}
    /\ offer' = offer \ {t}
    /\ Done(t)
    /\ UNCHANGED <<relaunches, raffleVars, moderationVars, reputationVars,
                   cacheVars>>

\* The sales page cancels the selected raffles in one request.
bulkCancelRaffles(t) ==
    /\ banned = "no"
    /\ \E selected \in SUBSET Active \ {{}} :
          Start(t, "listings", "list", [Request("cancel", "next", 0) EXCEPT !.seen = selected])
    /\ UNCHANGED listingVars

\* One after the other is read and then written; one that is no longer active
\* is left out.
cancelRead(t) ==
    /\ At(t, "cancel", "next")
    /\ IF req[t].seen \cap Active = {}
       THEN Done(t)
       ELSE /\ \E r \in req[t].seen \cap Active :
                 req' = [req EXCEPT ![t].pc = "found", ![t].id = r, ![t].seen = @ \ {r}]
            /\ UNCHANGED <<budget, ghostVars>>
    /\ UNCHANGED listingVars

cancelWrite(t) ==
    /\ At(t, "cancel", "found")
    /\ estado' = [estado EXCEPT ![req[t].id] = "CANCELADA"]
    /\ invalidateRaffleCache
    /\ To(t, "next")
    /\ UNCHANGED <<hidden, delivery, moderationVars, reputationVars,
                   suggestionVars>>

-----------------------------------------------------------------------------
(* Reports *)

createReportRead(t) ==
    /\ \E r \in Active, u \in Reporters :
          /\ report[r][u] = "none"
          /\ Start(t, "listings", "report",
                   [Request("createReport", "found", r) EXCEPT !.by = u])
    /\ UNCHANGED listingVars

\* (raffleId, reporterId) is unique: a second row throws.
createReportWrite(t) ==
    LET r == req[t].id
        u == req[t].by
    IN /\ At(t, "createReport", "found")
       /\ IF report[r][u] # "none"
          THEN Done(t) /\ UNCHANGED report
          ELSE To(t, "created") /\ report' = [report EXCEPT ![r][u] = "open"]
       /\ UNCHANGED <<raffleVars, banned, exempt, reputationVars, cacheVars,
                      suggestionVars>>

MutCountReports(t) ==
    /\ At(t, "createReport", "created")
    /\ IF Cardinality(OpenReports(req[t].id)) > AUTO_HIDE_THRESHOLD
       THEN To(t, "hide") ELSE Done(t)
    /\ UNCHANGED listingVars

countReports(t) ==
    /\ At(t, "createReport", "created")
    /\ IF Cardinality(OpenReports(req[t].id)) >= AUTO_HIDE_THRESHOLD
       THEN To(t, "hide") ELSE Done(t)
    /\ UNCHANGED listingVars

hideRaffle(t) ==
    /\ req[t].pc = "hide"
    /\ hidden' = [hidden EXCEPT ![req[t].id] = TRUE]
    /\ SilentChange
    /\ Done(t)
    /\ UNCHANGED <<estado, delivery, moderationVars, reputationVars,
                   suggestionVars>>

\* The reports tab dismisses or hides; the request may also ban the seller.
ReviewDecisions == {"done", "hide", "ban"}

\* reviewReport marks the report and then acts on the administrator's decision.
reviewReport(t) ==
    \E r \in RaffleIds, u \in Reporters, next \in ReviewDecisions :
        /\ report[r][u] # "none"
        /\ Start(t, "listings", "report", Request("reviewReport", next, r))
        /\ report' = [report EXCEPT ![r][u] = "reviewed"]
        /\ UNCHANGED <<raffleVars, banned, exempt, reputationVars, cacheVars,
                       suggestionVars>>

reviewReportAnswer(t) ==
    /\ At(t, "reviewReport", "done")
    /\ Done(t)
    /\ UNCHANGED listingVars

banSeller(t) ==
    /\ At(t, "reviewReport", "ban")
    /\ banned' = "report"
    /\ To(t, "hideAll")
    /\ UNCHANGED <<report, exempt, raffleVars, reputationVars, cacheVars,
                   suggestionVars>>

hideAllOfSeller(t) ==
    /\ At(t, "reviewReport", "hideAll")
    /\ hidden' = [r \in RaffleIds |-> hidden[r] \/ estado[r] # "none"]
    /\ exempt' = {}
    /\ SilentChange
    /\ Done(t)
    /\ UNCHANGED <<estado, delivery, report, banned, reputationVars,
                   suggestionVars>>

unhideRaffle(t) ==
    \E r \in RaffleIds :
        /\ hidden[r]
        /\ Start(t, "listings", "report", Request("unhideRaffle", "shown", r))
        /\ hidden' = [hidden EXCEPT ![r] = FALSE]
        /\ exempt' = exempt \cup {r}
        /\ SilentChange
        /\ UNCHANGED <<estado, delivery, report, banned, reputationVars,
                       suggestionVars>>

unhideReviewAll(t) ==
    /\ At(t, "unhideRaffle", "shown")
    /\ report' = [report EXCEPT ![req[t].id] =
                    [u \in Reporters |-> IF @[u] = "open" THEN "reviewed" ELSE @[u]]]
    /\ Done(t)
    /\ UNCHANGED <<banned, exempt, raffleVars, reputationVars, cacheVars,
                   suggestionVars>>

\* banUser and unbanUser of the users tab write the role alone.
banUser ==
    /\ budget["listings"] > 0
    /\ budget' = [budget EXCEPT !["listings"] = @ - 1]
    /\ banned' = IF banned = "no" THEN "admin" ELSE "no"
    /\ exempt' = {}
    /\ UNCHANGED <<req, ghostVars, report, raffleVars, reputationVars,
                   cacheVars, suggestionVars>>

-----------------------------------------------------------------------------
(* Deliveries and reputation *)

confirmDeliveryRead(t) ==
    /\ \E r \in RaffleIds :
          /\ delivery[r] = "SHIPPED"
          /\ Start(t, "listings", "delivery", Request("confirm", "found", r))
    /\ UNCHANGED listingVars

\* The counter goes up before the delivery is written.
confirmIncrement(t) ==
    /\ At(t, "confirm", "found")
    /\ ventas' = ventas + 1
    /\ To(t, "counted")
    /\ UNCHANGED <<maxRifas, review, counted, granted, raffleVars, moderationVars,
                   cacheVars, suggestionVars>>

confirmWrite(t) ==
    /\ At(t, "confirm", "counted")
    /\ delivery' = [delivery EXCEPT ![req[t].id] = "CONFIRMED"]
    /\ estado' = [estado EXCEPT ![req[t].id] = "EN_ENTREGA"]
    /\ invalidateRaffleCache
    /\ Done(t)
    /\ UNCHANGED <<hidden, moderationVars, reputationVars, suggestionVars>>

\* A payout completes (Settlement).
payoutCompletes ==
    /\ \E r \in RaffleIds :
          /\ estado[r] = "EN_ENTREGA" /\ delivery[r] = "CONFIRMED"
          /\ estado' = [estado EXCEPT ![r] = "FINALIZADA"]
    /\ UNCHANGED <<hidden, delivery, moderationVars, reputationVars, cacheVars,
                   suggestionVars, clientVars>>

\* The tickets page asks the winner of a confirmed delivery for a review.
ReviewOffered(r) == delivery[r] = "CONFIRMED"

\* createSellerReview: one review per raffle, then the seller is recalculated.
reviewRead(t) ==
    /\ \E r \in RaffleIds \ review :
          /\ ReviewOffered(r)
          /\ Start(t, "listings", "delivery", Request("review", "found", r))
    /\ UNCHANGED listingVars

reviewWrite(t) ==
    /\ At(t, "review", "found")
    /\ IF req[t].id \in review
       THEN Done(t) /\ UNCHANGED review
       ELSE To(t, "created") /\ review' = review \cup {req[t].id}
    /\ UNCHANGED <<ventas, maxRifas, counted, granted, raffleVars, moderationVars,
                   cacheVars, suggestionVars>>

Finished == {r \in RaffleIds : estado[r] = "FINALIZADA"}

recalculateRead(t) ==
    /\ At(t, "review", "created")
    /\ req' = [req EXCEPT ![t].pc = "computed", ![t].seen = Finished]
    /\ UNCHANGED <<budget, ghostVars, listingVars>>

\* Ratings below 3.5 or lost disputes keep or push the seller at the first level.
calculateSellerLevel(sales) ==
    {NUEVO} \cup (IF sales >= BronceSales THEN {BRONCE} ELSE {})

MutRecalculate(t) ==
    /\ At(t, "review", "computed")
    /\ ventas' = ventas + Cardinality(req[t].seen)
    /\ maxRifas' \in calculateSellerLevel(Cardinality(req[t].seen))
    /\ granted' = IF maxRifas' > granted THEN maxRifas' ELSE granted
    /\ Done(t)
    /\ UNCHANGED <<review, counted, raffleVars, moderationVars, cacheVars,
                   suggestionVars>>

recalculateSellerReputation(t) ==
    /\ At(t, "review", "computed")
    /\ ventas' = Cardinality(req[t].seen)
    /\ maxRifas' \in calculateSellerLevel(Cardinality(req[t].seen))
    /\ granted' = IF maxRifas' > granted THEN maxRifas' ELSE granted
    /\ Done(t)
    /\ UNCHANGED <<review, counted, raffleVars, moderationVars, cacheVars,
                   suggestionVars>>

-----------------------------------------------------------------------------
\* A crash loses the keys and the invalidations, which live in memory.
StopListings ==
    /\ tracked' = FALSE /\ wipes' = NoWipes
    /\ stale' = IF cache # NoList THEN stale \cup {"crash"} ELSE {}
    /\ counted' = counted + Cardinality({t \in Tabs : At(t, "confirm", "counted")})
    /\ UNCHANGED <<cache, ventas, maxRifas, review, granted, raffleVars, moderationVars,
                   suggestionVars>>

\* One raffle is active, one was cancelled with a price suggestion, one is
\* waiting for its winner to confirm.
ListingsInit ==
    /\ estado = [r \in RaffleIds |-> IF r = 1 THEN "ACTIVA"
                                     ELSE IF r = 2 THEN "CANCELADA"
                                     ELSE IF r = 3 THEN "EN_ENTREGA" ELSE "none"]
    /\ hidden = [r \in RaffleIds |-> FALSE]
    /\ delivery = [r \in RaffleIds |-> IF r = 3 THEN "SHIPPED" ELSE "PENDING"]
    /\ report = [r \in RaffleIds |-> [u \in Reporters |-> "none"]]
    /\ banned = "no" /\ exempt = {}
    /\ aceptada = {} /\ offer = Tabs /\ relaunches = 0
    /\ ventas = 0 /\ maxRifas = NUEVO /\ review = {} /\ counted = 0 /\ granted = NUEVO
    /\ cache = NoList /\ tracked = FALSE /\ wipes = NoWipes /\ stale = {}

ListingStep(t) ==
    \/ findAllMiss(t) \/ findAllRead(t) \/ setListCache(t) \/ noteKey(t)
    \/ createRead(t) \/ canSellerCreateRaffle(t) \/ createWrite(t)
    \/ relaunchRead(t) \/ relaunchCreate(t) \/ relaunchAccept(t)
    \/ bulkCancelRaffles(t) \/ cancelRead(t) \/ cancelWrite(t)
    \/ createReportRead(t) \/ createReportWrite(t) \/ countReports(t) \/ hideRaffle(t)
    \/ reviewReport(t) \/ reviewReportAnswer(t) \/ banSeller(t) \/ hideAllOfSeller(t)
    \/ unhideRaffle(t) \/ unhideReviewAll(t)
    \/ confirmDeliveryRead(t) \/ confirmIncrement(t) \/ confirmWrite(t)
    \/ reviewRead(t) \/ reviewWrite(t) \/ recalculateRead(t)
    \/ recalculateSellerReputation(t)

ListingBackground ==
    \/ deleteEntries \/ clearKeys \/ entryExpires \/ banUser \/ payoutCompletes

-----------------------------------------------------------------------------
(* Properties *)

ListingsTypeOK ==
    /\ estado \in [RaffleIds -> RaffleStates]
    /\ hidden \in [RaffleIds -> BOOLEAN]
    /\ delivery \in [RaffleIds -> {"PENDING", "SHIPPED", "CONFIRMED"}]
    /\ report \in [RaffleIds -> [Reporters -> {"none", "open", "reviewed"}]]
    /\ banned \in {"no", "admin", "report"} /\ exempt \subseteq RaffleIds
    /\ aceptada \subseteq RaffleIds /\ offer \subseteq Tabs /\ relaunches \in Nat
    /\ ventas \in Nat /\ maxRifas \in {NUEVO, BRONCE} /\ review \subseteq RaffleIds
    /\ counted \in Nat /\ granted \in {NUEVO, BRONCE}
    /\ cache = NoList \/ cache \subseteq RaffleIds
    /\ tracked \in BOOLEAN /\ wipes \in [DOMAIN NoWipes -> Nat]
    /\ stale \subseteq {"raced", "hidden", "crash"}

\* The requests that moderate raffle r.
Moderating(r) == {t \in Busy("report") : req[t].id = r}

\* A raffle with as many open reports as the threshold is hidden, however the
\* reports, reviews and administrators interleave, unless the handler that
\* would hide it is still under way or was lost to a crash.  A seller banned for
\* a report has no raffle listed but those whose publication was under way or
\* that an administrator showed again.
ModerationHolds ==
    "report" \notin lost =>
       /\ \A r \in RaffleIds :
             (~hidden[r] /\ Moderating(r) = {})
                => Cardinality(OpenReports(r)) < AUTO_HIDE_THRESHOLD
       /\ (banned = "report" /\ Quiet("report"))
             => \A r \in RaffleIds :
                   estado[r] # "none" /\ ~hidden[r] => r \in exempt

\* The seller has no more active raffles than the highest limit granted so far,
\* but for creations that overlapped and for relaunches, which are not limited;
\* of those a suggestion yields no more than there were dialogs open, unless a
\* crash left one unmarked.
ActiveWithinLimit ==
    /\ Cardinality(Active) <= granted + overlaps["publish"] + relaunches
    /\ "publish" \notin lost => relaunches <= Cardinality(Tabs)

\* Sales are counted once per confirmed delivery, but for confirmations that
\* overlapped or were lost between the counter and the raffle.
SalesAreNotInflated ==
    ventas <= Cardinality({r \in RaffleIds : delivery[r] = "CONFIRMED"})
              + Cardinality({t \in Tabs : At(t, "confirm", "counted")})
              + overlaps["delivery"] + counted

\* A cached list is the current one once reads and invalidations are over,
\* unless moderation changed it, a read overlapped a change, or a crash lost
\* the noted keys.
CachedListIsCurrent ==
    (cache # NoList /\ Reading = {} /\ wipes = NoWipes /\ stale = {})
        => cache = Listed
=============================================================================
