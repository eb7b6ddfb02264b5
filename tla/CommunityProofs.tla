-------------------------- MODULE CommunityProofs --------------------------
(***************************************************************************)
(* Proofs about Community: the seller's account, the catalogue, the        *)
(* favourites and the raffle page, served by one backend to any number of  *)
(* tabs.                                                                   *)
(*                                                                         *)
(* Each property speaks of the requests of one group.  ReqInv says which   *)
(* steps the requests of a group go through; StartEffect and MoveEffect    *)
(* that a step of one group leaves the requests of the others alone        *)
(* (Only), so that each property has an invariant over its own group.      *)
(* CommunityInv is the conjunction of those.  For each part an Effect      *)
(* lemma says that its steps keep its invariant, and a Frame lemma that    *)
(* the steps of the others do; CommunityStep puts the two together.        *)
(***************************************************************************)
EXTENDS Community, SumsProofs, FiniteSetTheorems, WellFoundedInduction, TLAPS

-----------------------------------------------------------------------------
(* Requests *)

Groups == {"kyc", "account", "address", "list", "publish", "report", "delivery",
           "favorite", "buy"}

Ops == {"none", "updateKyc", "approveKyc", "rejectKyc", "connect", "identify",
        "disconnect", "create", "update", "setDefault", "delete", "findAll", "cancel",
        "relaunch", "createReport", "reviewReport", "unhideRaffle", "confirm",
        "review", "addFavorite", "removeFavorite", "RANDOM", "CHOOSE_NUMBERS"}

Stages == {"idle", "read", "written", "deleted", "cleared", "found", "missed", "stored",
        "next", "checked", "allowed", "created", "hide", "done", "ban", "hideAll",
        "shown", "counted", "computed", "sent", "create", "delete", "failed", "bought"}

ReqType == [group : Groups \cup {"none"}, op : Ops, pc : Stages, id : Nat, by : Nat,
            ok : BOOLEAN, seen : SUBSET (RaffleIds \cup Numbers), alone : BOOLEAN]

\* Where a request of group g may be in its handler.
ShapeAs(g, op, pc, ok) ==
    \/ g = "kyc" /\ op \in {"updateKyc", "approveKyc", "rejectKyc"} /\ pc = "read"
    \/ g = "account" /\ op \in {"connect", "identify"} /\ pc \in {"read", "written"}
    \/ g = "account" /\ op = "disconnect" /\ pc = "deleted"
    \/ g = "address" /\ op \in {"create", "update"} /\ pc = "read"
    \/ g = "address" /\ op \in {"create", "update"} /\ pc = "cleared" /\ ok
    \/ g = "address" /\ op = "setDefault" /\ pc \in {"read", "cleared"} /\ ok
    \/ g = "address" /\ op = "delete" /\ pc = "read"
    \/ g = "address" /\ op = "delete" /\ pc \in {"deleted", "found"} /\ ok
    \/ g = "list" /\ op = "findAll" /\ pc \in {"missed", "read", "stored"}
    \/ g = "list" /\ op = "cancel" /\ pc \in {"next", "found"}
    \/ g = "publish" /\ op = "create" /\ pc \in {"checked", "allowed"}
    \/ g = "publish" /\ op = "relaunch" /\ pc \in {"found", "created"}
    \/ g = "report" /\ op = "createReport" /\ pc \in {"found", "created", "hide"}
    \/ g = "report" /\ op = "reviewReport" /\ pc \in {"done", "hide", "ban", "hideAll"}
    \/ g = "report" /\ op = "unhideRaffle" /\ pc = "shown"
    \/ g = "delivery" /\ op = "confirm" /\ pc \in {"found", "counted"}
    \/ g = "delivery" /\ op = "review" /\ pc \in {"found", "created", "computed"}
    \/ g = "favorite" /\ op = "addFavorite" /\ pc \in {"sent", "create", "done", "failed"}
    \/ g = "favorite" /\ op = "removeFavorite" /\ pc \in {"sent", "delete", "done", "failed"}
    \/ g = "buy" /\ op \in {"RANDOM", "CHOOSE_NUMBERS"} /\ pc \in {"sent", "bought"}

ShapeOf(g, r) == ShapeAs(g, r.op, r.pc, r.ok)
Shaped(r) == r = NoReq \/ (r.group \in Groups /\ ShapeOf(r.group, r))

ReqInv ==
    /\ req \in [Tabs -> ReqType]
    /\ \A t \in Tabs : Shaped(req[t])
    /\ budget \in [Areas -> Nat]
    /\ overlaps \in [Counted -> Nat]
    /\ disturbed \subseteq Repaired /\ lost \subseteq Missed

\* A request that runs alone is the only one of its group, and a group that
\* nothing has disturbed has at most one request, which runs alone.
AloneInv ==
    /\ \A t, u \in Tabs : req[t].group # "none" /\ req[t].alone /\ req[u].group = req[t].group
                             => u = t
    /\ \A t \in Tabs : req[t].group \in Repaired \ disturbed => req[t].alone

-----------------------------------------------------------------------------
(* What holds of each group *)

\* Whatever has read the identity before its approval is noted as late.
LateInv == kyc = "VERIFIED" => Busy("kyc") \subseteq late

AccountInv ==
    /\ \A t \in Busy("account") : req[t].alone =>
          /\ req[t].pc = "written" => account.status = StatusOf(req[t].ok)
          /\ req[t].pc = "deleted" => account.status = "NOT_CONNECTED"
    /\ StatusMirrorsAccount

OneDefault ==
    IF addresses = {} THEN defaults = {} ELSE \E a \in addresses : defaults = {a}

Creating == {t \in Tabs : req[t].group = "address" /\ req[t].op = "create"}

AddressInv ==
    /\ \A t \in Busy("address") : req[t].alone =>
          /\ req[t].op \in {"update", "setDefault"} => req[t].id \in addresses
          /\ req[t].pc = "cleared" => defaults \subseteq (IF req[t].op = "update"
                                                          THEN {req[t].id} ELSE {})
    /\ "address" \notin disturbed =>
          /\ Quiet("address") => OneDefault
          /\ \A t \in Busy("address") :
                /\ req[t].pc = "read" =>
                      /\ OneDefault
                      /\ req[t].op = "create" => req[t].ok \/ addresses # {}
                      /\ req[t].op = "delete" =>
                            /\ req[t].id \in addresses
                            /\ req[t].ok <=> req[t].id \in defaults
                /\ req[t].pc \in {"deleted", "found"} => defaults = {}
                /\ req[t].pc = "found" => req[t].id \in addresses
    /\ Cardinality(addresses) + Cardinality(Creating) <= MAX_ADDRESSES + overlaps["address"]

\* A request that will hide raffle r or take its reports away.
WillModerate(t, r) ==
    /\ req[t].group = "report" /\ req[t].id = r
    /\ \/ req[t].op = "createReport" /\ req[t].pc = "created"
       \/ req[t].pc \in {"hide", "shown"}

ModerationInv ==
    /\ "report" \notin lost => \A r \in RaffleIds :
          ~hidden[r] /\ Cardinality(OpenReports(r)) >= AUTO_HIDE_THRESHOLD
              => \E t \in Tabs : WillModerate(t, r)
    /\ (/\ "report" \notin lost /\ banned = "report"
        /\ \A t \in Busy("report") : req[t].pc # "hideAll")
             => \A r \in RaffleIds : estado[r] # "none" /\ ~hidden[r] => r \in exempt

\* What requests on raffles were sent for exists, and a raffle that is shipped.
ListExist ==
    \A t \in Tabs : req[t].group = "list" =>
        /\ req[t].seen \subseteq RaffleIds
        /\ req[t].pc = "found" => req[t].id \in RaffleIds /\ estado[req[t].id] # "none"
ReportExist ==
    \A t \in Tabs : req[t].group = "report" =>
        req[t].id \in RaffleIds /\ (req[t].op = "createReport" => req[t].by \in Reporters)
DeliveryExist ==
    /\ \A t \in Tabs : req[t].group = "delivery" =>
          req[t].id \in RaffleIds /\ (req[t].op = "confirm" => delivery[req[t].id] # "PENDING")
    /\ \A r \in RaffleIds : delivery[r] # "PENDING" => estado[r] # "none"

AllowedTabs == {t \in Tabs : At(t, "create", "allowed")}
Relaunched == {t \in Tabs : At(t, "relaunch", "created")}

LimitInv ==
    /\ Cardinality(Active) + Cardinality(AllowedTabs)
          <= granted + overlaps["publish"] + relaunches
    /\ Cardinality(Busy("publish")) <= 1 + overlaps["publish"]
    /\ maxRifas <= granted

RelaunchInv ==
    /\ offer # Tabs => 2 \in aceptada
    /\ \A t \in Tabs : req[t].op = "relaunch" => t \in offer /\ req[t].id = 2 /\ 2 \in RaffleIds
    /\ "publish" \notin lost =>
          relaunches + Cardinality(offer) <= Cardinality(Tabs) + Cardinality(Relaunched)

Confirmed == {r \in RaffleIds : delivery[r] = "CONFIRMED"}
Confirming == {t \in Tabs : req[t].op = "confirm"}
Uncounted == {t \in Tabs : At(t, "confirm", "found")}
CountedTabs == {t \in Tabs : At(t, "confirm", "counted")}
Going == Confirmed \cup {req[t].id : t \in Confirming}

SalesInv ==
    /\ ventas + Cardinality(Uncounted)
          <= Cardinality(Going) + overlaps["delivery"] + counted
    /\ Cardinality(Confirmed) + Cardinality(Confirming)
          <= Cardinality(Going) + overlaps["delivery"]
    /\ \A r \in RaffleIds : estado[r] = "FINALIZADA" => r \in Confirmed
    /\ \A t \in Tabs : At(t, "review", "computed") => req[t].seen \subseteq Confirmed

CacheInv ==
    stale = {} =>
       /\ cache # NoList =>
             \/ wipes.captured > 0
             \/ /\ wipes = NoWipes /\ cache = Listed
                /\ tracked \/ \E t \in Tabs : At(t, "findAll", "stored")
       /\ \A t \in Tabs : At(t, "findAll", "read") => req[t].seen = Listed

HeartsTypeOK ==
    /\ user \in [Tabs -> Buyers] /\ place \in [Tabs -> Places]
    /\ favorite \subseteq Buyers
    /\ heart \in [Tabs -> BOOLEAN]
    /\ heartQuery \in [Tabs -> {"unasked", "yes", "no", "answered"}]
    /\ crossed \subseteq Tabs

Favored(t) == user[t] \in favorite
Adds(t) == req[t].op = "addFavorite"

HeartInv ==
    /\ \A t \in Busy("favorite") :
          /\ Siblings(t) \subseteq crossed
          /\ req[t].ok => heartQuery[t] = "answered" /\ (heart[t] <=> Adds(t))
          /\ ~req[t].ok => t \in crossed
          /\ (t \notin crossed \/ req[t].alone) /\ req[t].pc = "done"
                => (Favored(t) <=> Adds(t))
          /\ t \notin crossed =>
                /\ req[t].pc = "sent" => (Adds(t) <=> ~Favored(t))
                /\ req[t].pc = "create" => ~Favored(t)
                /\ req[t].pc = "delete" => Favored(t)
                /\ req[t].pc # "failed"
    /\ \A t \in Tabs \ crossed : ~BusyHeart(t) =>
          /\ heartQuery[t] = "answered" => (heart[t] <=> Favored(t))
          /\ heartQuery[t] = "yes" => Favored(t)
          /\ heartQuery[t] = "no" => ~Favored(t)

PageType == [price : Nat, onSale : BOOLEAN, sold : Nat, credit : Nat, own : Nat,
             counted : BOOLEAN, taken : SUBSET Numbers, refetch : BOOLEAN,
             previews : SUBSET Nat]
BillType == [shown : Nat, read : Nat, own : Nat, percent : Nat, chosen : Nat,
             charged : Nat, at : Nat, regained : BOOLEAN]

BuyerTypeOK ==
    /\ price \in Prices /\ onSale \in BOOLEAN
    /\ owner \in [Numbers -> Buyers \cup {0}]
    /\ paid \in [Numbers -> Nat] /\ refunded \subseteq Numbers
    /\ credit \in [Buyers -> Nat] /\ grant \in [Buyers -> BOOLEAN]
    /\ page \in [Tabs -> PageType] /\ bill \in [Tabs -> BillType]

\* What the backend charges for request r at price x if it uses the grant or not.
Charge(r, x, uses) ==
    (IF uses THEN buildBonusPreview(r.id * x) ELSE r.id * x)
    + (IF r.op = "CHOOSE_NUMBERS" THEN selectionPremium(x, r.id) ELSE 0)

\* A page has never counted more sold tickets than there are numbers taken.
PageInv == \A t \in Tabs : page[t].sold <= Cardinality(Taken)

\* For what the request of tab t asks for there is no pack, as long as the buyer
\* has the tickets that its page has counted.
NoPack(t) == evaluateSimpleRandomPack(req[t].id, Available, Minus(MAX_TICKETS, bill[t].own)) = 0

\* What the shown total covers.
Covered(x) == x.shown + x.chosen

Fair(x) == x.at <= x.read /\ x.percent >= PremiumPercent =>
               x.charged <= Covered(x) + (IF x.regained THEN MaxDiscount ELSE 0)

\* The clauses for the bill of a tab.
TabBill(u) ==
    /\ req[u].group = "buy" /\ req[u].pc = "sent" =>
          /\ bill[u].percent >= PremiumPercent =>
                \A x \in Nat : x <= bill[u].read => Charge(req[u], x, req[u].ok) <= Covered(bill[u])
          /\ req[u].ok /\ req[u].op = "RANDOM" => NoPack(u)
          /\ req[u].seen \subseteq Numbers
    /\ Fair(bill[u])

BillInv == \A u \in Tabs : TabBill(u)

-----------------------------------------------------------------------------
(* What a step does to the requests *)

\* The fields of two requests that handlers read.
Alike(a, b) ==
    /\ a.op = b.op /\ a.pc = b.pc /\ a.id = b.id /\ a.by = b.by
    /\ a.ok = b.ok /\ a.seen = b.seen

\* A step leaves the requests of group h and what is noted of it.
Apart(h) ==
    /\ \A u \in Tabs : (req[u].group = h \/ req'[u].group = h) => req'[u] = req[u]
    /\ h \in Counted => overlaps'[h] = overlaps[h]
    /\ h \in disturbed' <=> h \in disturbed
    /\ h \in lost' <=> h \in lost

Others(t) == \A u \in Tabs \ {t} : req'[u] = req[u]

\* A step of group g keeps the requests in shape and disturbs no other group.
Only(g) == ReqInv' /\ (AloneInv => AloneInv') /\ \A h \in Groups \ {g} : Apart(h)

\* A request without a group is no request.
LEMMA NoneIsNoReq ==
    ASSUME ReqInv, NEW t \in Tabs
    PROVE  /\ req[t].group = "none" <=> req[t] = NoReq
           /\ req[t].group = "none" => req[t].op = "none" /\ req[t].pc = "idle" /\ ~req[t].alone
           /\ req[t].group # "none" => req[t].group \in Groups /\ ShapeOf(req[t].group, req[t])
  <1>1. Shaped(req[t]) BY DEF ReqInv
  <1>2. CASE req[t] = NoReq BY <1>2 DEF NoReq
  <1>3. CASE req[t].group \in Groups /\ ShapeOf(req[t].group, req[t])
    BY <1>3 DEF NoReq, Groups
  <1> QED BY <1>1, <1>2, <1>3 DEF Shaped

\* What the start of a request leaves.
LEMMA StartEffect ==
    ASSUME ReqInv, NEW t \in Tabs, NEW g \in Groups, NEW area \in Areas, NEW r \in ReqType,
           ShapeOf(g, r), Start(t, area, g, r)
    PROVE  /\ Only(g)
           /\ req[t] = NoReq
           /\ req'[t].group = g /\ Alike(req'[t], r)
           /\ req'[t].alone <=> (g \in Repaired \cup {"favorite"} /\ Quiet(g))
           /\ \A u \in Tabs \ {t} : req'[u].group = req[u].group /\ Alike(req'[u], req[u])
           /\ \A u \in Tabs \ {t} : req'[u].alone <=> (req[u].alone /\ req[u].group # g)
           /\ g \in Counted => overlaps'[g] = overlaps[g] + (IF Quiet(g) THEN 0 ELSE 1)
           /\ disturbed \subseteq disturbed'
           /\ lost' = lost
  <1> DEFINE a == g \in Repaired \cup {"favorite"} /\ Quiet(g)
             first == [r EXCEPT !.group = g, !.alone = a]
             next(u) == IF u = t THEN first
                        ELSE IF u \in Busy(g) THEN [req[u] EXCEPT !.alone = FALSE] ELSE req[u]
  <1>1. /\ req[t] = NoReq /\ budget[area] > 0
        /\ budget' = [budget EXCEPT ![area] = @ - 1]
        /\ req' = [u \in Tabs |-> next(u)]
        /\ overlaps' = [h \in Counted |-> overlaps[h] + IF h = g /\ ~Quiet(g) THEN 1 ELSE 0]
        /\ disturbed' = (IF Quiet(g) THEN disturbed ELSE disturbed \cup ({g} \cap Repaired))
        /\ lost' = lost
    BY DEF Start
  <1>3. a \in BOOLEAN OBVIOUS
  <1>2. first \in ReqType /\ first.group = g /\ Alike(first, r) /\ (first.alone <=> a)
    <2> HIDE DEF a
    <2>2. first \in ReqType BY <1>3 DEF ReqType
    <2>3. first.group = g /\ Alike(first, r) BY DEF ReqType, Alike
    <2>4. first.alone = a BY DEF ReqType
    <2> QED BY <1>3, <2>2, <2>3, <2>4
  <1>4. ShapeOf(g, first) BY <1>2 DEF ShapeOf, Alike
  <1> HIDE DEF first, a
  <1>5. ASSUME NEW u \in Tabs \ {t}
        PROVE  /\ next(u) \in ReqType /\ next(u).group = req[u].group /\ Alike(next(u), req[u])
               /\ next(u).alone <=> (req[u].alone /\ req[u].group # g)
               /\ req[u].group # g => next(u) = req[u]
               /\ req[u].group # "none" => ShapeOf(next(u).group, next(u))
    <2>1. req[u] \in ReqType BY DEF ReqInv
    <2>2. CASE u \in Busy(g)
      <3>1. next(u) = [req[u] EXCEPT !.alone = FALSE] BY <2>2
      <3>2. req[u].group = g BY <2>2 DEF Busy
      <3>3. /\ next(u) \in ReqType /\ next(u).group = g /\ Alike(next(u), req[u])
            /\ next(u).alone = FALSE
        BY <2>1, <3>1, <3>2 DEF ReqType, Alike
      <3>4. ShapeOf(g, req[u]) BY <3>2, NoneIsNoReq DEF Groups
      <3>5. ShapeOf(g, next(u)) BY <3>3, <3>4 DEF ShapeOf, Alike
      <3> QED BY <3>2, <3>3, <3>5
    <2>3. CASE u \notin Busy(g)
      <3>1. next(u) = req[u] /\ req[u].group # g BY <2>3 DEF Busy
      <3>2. req[u].group # "none" => ShapeOf(req[u].group, req[u]) BY NoneIsNoReq
      <3> QED BY <2>1, <3>1, <3>2 DEF Alike
    <2> QED BY <2>2, <2>3
  <1>6. /\ req'[t] = first
        /\ \A u \in Tabs \ {t} : req'[u] = next(u)
    BY <1>1
  <1>7. \A u \in Tabs : req'[u] \in ReqType BY <1>2, <1>5, <1>6
  <1>8. req' \in [Tabs -> ReqType]
    <2>1. req' = [u \in Tabs |-> req'[u]] BY <1>1
    <2> QED BY <1>7, <2>1
  <1> HIDE DEF next
  <1>9. \A u \in Tabs : Shaped(req'[u])
    <2>1. Shaped(req'[t]) BY <1>2, <1>4, <1>6 DEF Shaped
    <2>2. ASSUME NEW u \in Tabs \ {t} PROVE Shaped(req'[u])
      <3>1. CASE req[u].group = "none"
        BY <1>5, <1>6, <3>1, NoneIsNoReq DEF Shaped, Groups
      <3>2. CASE req[u].group # "none"
        BY <1>5, <1>6, <3>2, NoneIsNoReq DEF Shaped
      <3> QED BY <3>1, <3>2
    <2> QED BY <2>1, <2>2
  <1>10. ReqInv'
    <2>1. budget' \in [Areas -> Nat] BY <1>1 DEF ReqInv
    <2>2. overlaps' \in [Counted -> Nat] BY <1>1 DEF ReqInv
    <2>3. disturbed' \subseteq Repaired /\ lost' \subseteq Missed BY <1>1 DEF ReqInv
    <2> QED BY <1>8, <1>9, <2>1, <2>2, <2>3 DEF ReqInv
  <1>11. ASSUME NEW h \in Groups \ {g} PROVE Apart(h)
    <2>1. \A u \in Tabs : (req[u].group = h \/ req'[u].group = h) => req'[u] = req[u]
      BY <1>1, <1>2, <1>5, <1>6 DEF NoReq, Groups
    <2>2. h \in Counted => overlaps'[h] = overlaps[h] BY <1>1 DEF ReqInv
    <2> QED BY <1>1, <2>1, <2>2 DEF Apart
  <1>12. ASSUME AloneInv PROVE AloneInv'
    <2>1. ASSUME NEW u \in Tabs, NEW v \in Tabs, req'[u].group # "none", req'[u].alone,
                 req'[v].group = req'[u].group
          PROVE  v = u
      <3>1. CASE u = t
        <4>1. Quiet(g) /\ req'[u].group = g BY <1>2, <1>6, <2>1, <3>1 DEF a
        <4>2. \A w \in Tabs \ {t} : req'[w].group # g
          BY <1>5, <1>6, <4>1 DEF Quiet, Busy
        <4> QED BY <2>1, <3>1, <4>1, <4>2
      <3>2. CASE u # t
        <4>1. req[u].alone /\ req'[u].group = req[u].group /\ req[u].group # g
          BY <1>5, <1>6, <2>1, <3>2
        <4>2. v # t BY <1>2, <1>6, <2>1, <4>1
        <4>3. req[v].group = req[u].group BY <1>5, <1>6, <2>1, <4>1, <4>2
        <4> QED BY <1>12, <2>1, <4>1, <4>3 DEF AloneInv
      <3> QED BY <3>1, <3>2
    <2>2. ASSUME NEW u \in Tabs, req'[u].group \in Repaired \ disturbed' PROVE req'[u].alone
      <3>1. CASE u = t
        BY <1>1, <1>2, <1>6, <2>2, <3>1 DEF a, Quiet
      <3>2. CASE u # t
        <4>1. req'[u].group = req[u].group BY <1>5, <1>6, <3>2
        <4>2. req[u].group \in Repaired \ disturbed BY <1>1, <2>2, <4>1
        <4>3. req[u].group # g
          <5>1. SUFFICES ASSUME req[u].group = g PROVE FALSE OBVIOUS
          <5>2. ~Quiet(g) BY <5>1 DEF Quiet, Busy
          <5> QED BY <1>1, <2>2, <4>1, <5>1, <5>2
        <4>4. req[u].alone BY <1>12, <4>2 DEF AloneInv
        <4> QED BY <1>5, <1>6, <3>2, <4>3, <4>4
      <3> QED BY <3>1, <3>2
    <2> QED BY <2>1, <2>2 DEF AloneInv
  <1>13. g \in Counted => overlaps'[g] = overlaps[g] + (IF Quiet(g) THEN 0 ELSE 1)
    BY <1>1 DEF ReqInv
  <1>14. Only(g) BY <1>10, <1>11, <1>12 DEF Only
  <1>15. \A u \in Tabs \ {t} : /\ req'[u].group = req[u].group /\ Alike(req'[u], req[u])
                               /\ req'[u].alone <=> (req[u].alone /\ req[u].group # g)
    BY <1>5, <1>6
  <1>16. /\ req'[t].group = g /\ Alike(req'[t], r)
         /\ req'[t].alone <=> (g \in Repaired \cup {"favorite"} /\ Quiet(g))
    BY <1>2, <1>6 DEF a
  <1> QED BY <1>1, <1>13, <1>14, <1>15, <1>16

LEMMA BusyIsNotCalm ==
    ASSUME NEW t \in Tabs, NEW g \in Groups, req'[t].group = g
    PROVE  ~Quiet(g)' /\ ~Calm(g)'
  BY DEF Calm, Quiet, Busy

\* What a handler leaves that goes on or ends.
LEMMA MoveEffect ==
    ASSUME ReqInv, NEW t \in Tabs, NEW g \in Groups, req[t].group = g, NEW new \in ReqType,
           \/ new = NoReq
           \/ new.group = g /\ ShapeOf(g, new) /\ new.alone = req[t].alone,
           req' = [req EXCEPT ![t] = new],
           budget' = budget, overlaps' = overlaps, lost' = lost,
           \/ disturbed' = disturbed
           \/ disturbed' = disturbed \ {g} /\ req[t].alone /\ new = NoReq
    PROVE  Only(g) /\ Others(t) /\ req'[t] = new
  <1>1. Others(t) /\ req'[t] = new BY DEF Others, ReqInv
  <1>2. g # "none" BY DEF Groups
  <1>3. /\ new.group \in {"none", g}
        /\ new.group = "none" => ~new.alone
        /\ new.group = g => new.alone = req[t].alone
    BY <1>2 DEF NoReq
  <1>4. Shaped(new) BY DEF Shaped
  <1>5. ReqInv'
    <2>1. req' \in [Tabs -> ReqType] BY DEF ReqInv
    <2>2. \A u \in Tabs : Shaped(req'[u]) BY <1>1, <1>4 DEF ReqInv, Others
    <2> QED BY <2>1, <2>2 DEF ReqInv
  <1>6. ASSUME NEW h \in Groups \ {g} PROVE Apart(h)
    BY <1>1, <1>3 DEF Apart, Others, ReqInv, Groups
  <1>7. ASSUME AloneInv PROVE AloneInv'
    <2>1. ASSUME NEW u \in Tabs, NEW v \in Tabs, req'[u].group # "none", req'[u].alone,
                 req'[v].group = req'[u].group
          PROVE  v = u
      <3>1. req[u].group = req'[u].group /\ req[u].alone
        <4>1. CASE u = t BY <1>1, <1>2, <1>3, <2>1, <4>1
        <4>2. CASE u # t BY <1>1, <2>1, <4>2 DEF Others
        <4> QED BY <4>1, <4>2
      <3>2. req[v].group = req'[u].group
        BY <1>1, <1>3, <2>1 DEF Others
      <3> QED BY <1>7, <2>1, <3>1, <3>2 DEF AloneInv
    <2>2. ASSUME NEW u \in Tabs, req'[u].group \in Repaired \ disturbed' PROVE req'[u].alone
      <3>1. req'[u].group # "none" BY <2>2 DEF Repaired
      <3>2. req[u].group = req'[u].group /\ (req'[u].alone <=> req[u].alone)
        <4>1. CASE u = t BY <1>1, <1>2, <1>3, <3>1, <4>1
        <4>2. CASE u # t BY <1>1, <4>2 DEF Others
        <4> QED BY <4>1, <4>2
      <3>3. CASE req[u].group \notin disturbed BY <1>7, <2>2, <3>2, <3>3 DEF AloneInv
      <3>4. CASE req[u].group \in disturbed
        <4>1. req[u].group = g /\ req[t].alone /\ new = NoReq BY <2>2, <3>2, <3>4
        <4>2. req[t].group # "none" /\ req[u].group = req[t].group BY <1>2, <4>1
        <4>3. u = t BY <1>7, <4>1, <4>2 DEF AloneInv
        <4> QED BY <1>1, <1>2, <1>3, <3>1, <3>2, <4>1, <4>3 DEF NoReq
      <3> QED BY <3>3, <3>4
    <2> QED BY <2>1, <2>2 DEF AloneInv
  <1> QED BY <1>1, <1>5, <1>6, <1>7 DEF Only

LEMMA ToEffect ==
    ASSUME ReqInv, NEW t \in Tabs, NEW g \in Groups, req[t].group = g, NEW pc \in Stages,
           ShapeAs(g, req[t].op, pc, req[t].ok), To(t, pc)
    PROVE  /\ Only(g) /\ Others(t)
           /\ req'[t].group = g /\ req'[t].alone = req[t].alone
           /\ req'[t].op = req[t].op /\ req'[t].pc = pc /\ req'[t].id = req[t].id
           /\ req'[t].by = req[t].by /\ req'[t].ok = req[t].ok /\ req'[t].seen = req[t].seen
           /\ overlaps' = overlaps /\ disturbed' = disturbed /\ lost' = lost
  <1> DEFINE new == [req[t] EXCEPT !.pc = pc]
  <1>1. req[t] \in ReqType BY DEF ReqInv
  <1>2. /\ new \in ReqType
        /\ new.group = g /\ new.alone = req[t].alone
        /\ new.op = req[t].op /\ new.pc = pc /\ new.id = req[t].id
        /\ new.by = req[t].by /\ new.ok = req[t].ok /\ new.seen = req[t].seen
    BY <1>1 DEF ReqType
  <1>3. req' = [req EXCEPT ![t] = new] /\ budget' = budget
        /\ overlaps' = overlaps /\ disturbed' = disturbed /\ lost' = lost
    BY DEF To, ghostVars
  <1> HIDE DEF new
  <1>4. ShapeOf(g, new) BY <1>2 DEF ShapeOf
  <1>5. Only(g) /\ Others(t) /\ req'[t] = new BY <1>2, <1>3, <1>4, MoveEffect
  <1> QED BY <1>2, <1>3, <1>5

LEMMA NoReqType == NoReq \in ReqType /\ NoReq.group = "none"
  BY DEF NoReq, ReqType, Stages, Ops, Groups

LEMMA DoneEffect ==
    ASSUME ReqInv, NEW t \in Tabs, NEW g \in Groups, req[t].group = g, Done(t)
    PROVE  /\ Only(g) /\ Others(t) /\ req'[t] = NoReq /\ req'[t].group = "none"
           /\ overlaps' = overlaps /\ disturbed' = disturbed /\ lost' = lost
  <1>1. req' = [req EXCEPT ![t] = NoReq] /\ budget' = budget
        /\ overlaps' = overlaps /\ disturbed' = disturbed /\ lost' = lost
    BY DEF Done, ghostVars
  <1> QED BY <1>1, NoReqType, MoveEffect

LEMMA SettlesEffect ==
    ASSUME ReqInv, NEW t \in Tabs, NEW g \in Groups, req[t].group = g, Settles(t)
    PROVE  /\ Only(g) /\ Others(t) /\ req'[t] = NoReq /\ req'[t].group = "none"
           /\ overlaps' = overlaps /\ lost' = lost
           /\ disturbed' = (IF req[t].alone THEN disturbed \ {g} ELSE disturbed)
  <1>1. req' = [req EXCEPT ![t] = NoReq] /\ budget' = budget
        /\ overlaps' = overlaps /\ lost' = lost
        /\ disturbed' = (IF req[t].alone THEN disturbed \ {g} ELSE disturbed)
    BY DEF Settles
  <1>2. \/ disturbed' = disturbed
        \/ disturbed' = disturbed \ {g} /\ req[t].alone /\ NoReq = NoReq
    BY <1>1
  <1> QED BY <1>1, <1>2, NoReqType, MoveEffect

-----------------------------------------------------------------------------
(* Identity check *)

KycTypeOK ==
    /\ kyc \in KycStatuses /\ cuit \in BOOLEAN /\ kycShown \subseteq KycStatuses
    /\ late \subseteq Tabs

KycStep(t) ==
    \/ updateKycRead(t) \/ updateKycWrite(t)
    \/ reviewKycRead(t) \/ approveKyc(t) \/ rejectKyc(t)

\* What VerifiedIsKept says of a step.
KeepsVerified ==
    (kyc = "VERIFIED" /\ kyc' # "VERIFIED")
        => \E t \in late : req[t].pc = "read" /\ req'[t] = NoReq

LEMMA KycRequestType ==
    ASSUME NEW op \in {"updateKyc", "approveKyc", "rejectKyc"}, NEW ok \in BOOLEAN
    PROVE  KycRequest(op, ok) \in ReqType /\ ShapeOf("kyc", KycRequest(op, ok))
  BY DEF KycRequest, NoReq, ReqType, Stages, Ops, Groups, ShapeOf, ShapeAs

LEMMA KycEffect ==
    ASSUME ReqInv, KycTypeOK, LateInv, NEW t \in Tabs, KycStep(t)
    PROVE  Only("kyc") /\ KycTypeOK' /\ LateInv' /\ KeepsVerified
           /\ UNCHANGED <<accountVars, addressVars>>
  <1>0. "kyc" \in Groups /\ "accounts" \in Areas BY DEF Groups, Areas
  <1>1. CASE updateKycRead(t)
    <2>1. PICK withCuit \in BOOLEAN : Start(t, "accounts", "kyc", KycRequest("updateKyc", withCuit))
      BY <1>1 DEF updateKycRead
    <2>2. Only("kyc") BY <1>0, <2>1, KycRequestType, StartEffect
    <2>3. kyc # "VERIFIED" /\ UNCHANGED sellerVars BY <1>1 DEF updateKycRead
    <2> QED BY <2>2, <2>3 DEF sellerVars, kycVars, KycTypeOK, LateInv, KeepsVerified
  <1>2. CASE reviewKycRead(t)
    <2>1. PICK op \in KycDecisions : Start(t, "accounts", "kyc", KycRequest(op, FALSE))
      BY <1>2 DEF reviewKycRead
    <2>2. Only("kyc") BY <1>0, <2>1, KycRequestType, StartEffect DEF KycDecisions
    <2>3. kyc # "VERIFIED" /\ UNCHANGED sellerVars BY <1>2 DEF reviewKycRead
    <2> QED BY <2>2, <2>3 DEF sellerVars, kycVars, KycTypeOK, LateInv, KeepsVerified
  <1>3. CASE updateKycWrite(t) \/ rejectKyc(t) \/ approveKyc(t)
    <2>1. /\ Done(t) /\ req[t].op \in {"updateKyc", "approveKyc", "rejectKyc"} /\ req[t].pc = "read"
      BY <1>3 DEF updateKycWrite, approveKyc, rejectKyc, At
    <2>2. req[t].group = "kyc"
      BY <2>1, NoneIsNoReq DEF ShapeOf, ShapeAs
    <2>3. Only("kyc") /\ Others(t) /\ req'[t] = NoReq /\ req'[t].group = "none"
      BY <1>0, <2>1, <2>2, DoneEffect
    <2>4. /\ kyc' \in KycStatuses /\ kycShown' = kycShown \cup {kyc'}
          /\ \/ kyc' # "VERIFIED" /\ late' = late \ {t}
             \/ late' = Busy("kyc") \ {t}
          /\ cuit' \in {cuit, cuit \/ req[t].ok}
          /\ UNCHANGED <<accountVars, addressVars>>
      BY <1>3 DEF updateKycWrite, approveKyc, rejectKyc, SetKyc, KycStatuses
    <2>5. KycTypeOK'
      <3>1. req[t].ok \in BOOLEAN BY DEF ReqInv, ReqType
      <3>2. cuit' \in BOOLEAN BY <2>4, <3>1 DEF KycTypeOK
      <3> QED BY <2>4, <3>2 DEF KycTypeOK, Busy
    <2>6. LateInv'
      BY <2>3, <2>4 DEF LateInv, Busy, Others
    <2>7. KeepsVerified
      BY <2>1, <2>2, <2>3 DEF LateInv, Busy, KeepsVerified
    <2> QED BY <2>3, <2>4, <2>5, <2>6, <2>7
  <1> QED BY <1>1, <1>2, <1>3 DEF KycStep

-----------------------------------------------------------------------------
(* Payment account *)

AccountTypeOK ==
    /\ status \in AccountStatuses /\ accountShown \in BOOLEAN
    /\ account \in [exists : BOOLEAN, linked : BOOLEAN, status : AccountStatuses]

AccountStep(t) ==
    \/ connectRead(t) \/ connectAccount(t) \/ identifyRead(t) \/ identifyAccount(t)
    \/ accountUser(t) \/ disconnectAccount(t) \/ disconnectUser(t)

\* The clauses of AccountInv for the tabs and for the group.
TabAccount(u) ==
    (req[u].group = "account" /\ req[u].alone) =>
        /\ req[u].pc = "written" => account.status = StatusOf(req[u].ok)
        /\ req[u].pc = "deleted" => account.status = "NOT_CONNECTED"

LEMMA AccountParts ==
    /\ AccountInv <=> (\A u \in Tabs : TabAccount(u))
                      /\ (Calm("account") => status = account.status)
  /\ AccountInv' <=> (\A u \in Tabs : TabAccount(u)')
                       /\ (Calm("account")' => status' = account'.status)
  BY DEF AccountInv, TabAccount, StatusMirrorsAccount, Busy

LEMMA AccountRequestType ==
    ASSUME NEW op \in {"connect", "identify"}, NEW ok \in BOOLEAN
    PROVE  /\ [NoReq EXCEPT !.op = op, !.pc = "read", !.ok = ok] \in ReqType
           /\ ShapeOf("account", [NoReq EXCEPT !.op = op, !.pc = "read", !.ok = ok])
           /\ [NoReq EXCEPT !.op = "disconnect", !.pc = "deleted"] \in ReqType
           /\ ShapeOf("account", [NoReq EXCEPT !.op = "disconnect", !.pc = "deleted"])
           /\ [NoReq EXCEPT !.op = "disconnect", !.pc = "deleted"].pc = "deleted"
           /\ [NoReq EXCEPT !.op = op, !.pc = "read", !.ok = ok].pc = "read"
  BY DEF NoReq, ReqType, Stages, Ops, Groups, ShapeOf, ShapeAs

LEMMA AccountEffect ==
    ASSUME ReqInv, AloneInv, AccountTypeOK, AccountInv, NEW t \in Tabs, AccountStep(t)
    PROVE  Only("account") /\ AccountTypeOK' /\ AccountInv'
           /\ UNCHANGED <<kycVars, addressVars>>
  <1>0. "account" \in Groups /\ "accounts" \in Areas /\ "account" \in Repaired
    BY DEF Groups, Areas, Repaired
  <1>a. \A u \in Tabs : TabAccount(u) BY DEF AccountInv, TabAccount, Busy
  <1>1. CASE connectRead(t) \/ identifyRead(t)
    <2>1. PICK op \in {"connect", "identify"}, ok \in BOOLEAN :
             Start(t, "accounts", "account", [NoReq EXCEPT !.op = op, !.pc = "read", !.ok = ok])
      BY <1>1 DEF connectRead, identifyRead
    <2>2. UNCHANGED sellerVars BY <1>1 DEF connectRead, identifyRead
    <2> DEFINE r == [NoReq EXCEPT !.op = op, !.pc = "read", !.ok = ok]
    <2>3. /\ r \in ReqType /\ ShapeOf("account", r) /\ r.pc = "read"
          /\ Start(t, "accounts", "account", r)
      BY <2>1, AccountRequestType
    <2> HIDE DEF r
    <2>4. /\ Only("account") /\ req'[t].group = "account" /\ req'[t].pc = "read"
          /\ \A u \in Tabs \ {t} : /\ req'[u].group = req[u].group /\ Alike(req'[u], req[u])
                                   /\ req'[u].alone => req[u].alone
      BY <1>0, <2>3, StartEffect DEF Alike
    <2>5. account' = account /\ status' = status /\ accountShown' = accountShown
          /\ UNCHANGED <<kycVars, addressVars>>
      BY <2>2 DEF sellerVars, accountVars
    <2>6. AccountInv'
      <3>1. ASSUME NEW u \in Tabs PROVE TabAccount(u)'
        <4>1. CASE u = t BY <2>4, <4>1 DEF TabAccount
        <4>2. CASE u # t
          <5>1. TabAccount(u) BY <1>a
          <5> QED BY <2>4, <2>5, <4>2, <5>1 DEF TabAccount, Alike
        <4> QED BY <4>1, <4>2
      <3>2. ~Calm("account")' BY <1>0, <2>4, BusyIsNotCalm
      <3> QED BY <3>1, <3>2, AccountParts
    <2> QED BY <2>4, <2>5, <2>6 DEF AccountTypeOK
  <1>2. CASE connectAccount(t) \/ identifyAccount(t)
    <2>1. /\ req[t].op \in {"connect", "identify"} /\ req[t].pc = "read" /\ To(t, "written")
          /\ account'.status = StatusOf(req[t].ok)
          /\ account' \in [exists : BOOLEAN, linked : BOOLEAN, status : AccountStatuses]
          /\ accountShown' \in BOOLEAN
          /\ UNCHANGED <<status, kycVars, addressVars>>
      <3>1. PICK linked \in BOOLEAN :
               /\ SetAccount([exists |-> TRUE, linked |-> linked, status |-> StatusOf(req[t].ok)])
               /\ req[t].op \in {"connect", "identify"} /\ req[t].pc = "read" /\ To(t, "written")
        BY <1>2 DEF connectAccount, identifyAccount, At, AccountTypeOK
      <3>2. StatusOf(req[t].ok) \in AccountStatuses BY DEF StatusOf, AccountStatuses
      <3>3. accountShown' \in BOOLEAN BY <3>1 DEF SetAccount, AccountTypeOK
      <3> QED BY <3>1, <3>2, <3>3 DEF SetAccount
    <2>2. req[t].group = "account" BY <2>1, NoneIsNoReq DEF ShapeOf, ShapeAs
    <2>3. "written" \in Stages /\ ShapeAs("account", req[t].op, "written", req[t].ok)
      BY <2>1 DEF Stages, ShapeAs
    <2>4. /\ Only("account") /\ Others(t) /\ req'[t].group = "account" /\ req'[t].pc = "written"
          /\ req'[t].ok = req[t].ok /\ req'[t].alone = req[t].alone
      BY <1>0, <2>1, <2>2, <2>3, ToEffect
    <2>5. AccountInv'
      <3>1. ASSUME NEW u \in Tabs PROVE TabAccount(u)'
        <4>1. CASE u = t BY <2>1, <2>4, <4>1 DEF TabAccount, StatusOf
        <4>2. CASE u # t
          <5>1. ~(req[u].group = "account" /\ req[u].alone)
            BY <2>2, <4>2, <1>0 DEF AloneInv, Groups
          <5> QED BY <2>4, <4>2, <5>1 DEF TabAccount, Others
        <4> QED BY <4>1, <4>2
      <3>2. ~Calm("account")' BY <1>0, <2>4, BusyIsNotCalm
      <3> QED BY <3>1, <3>2, AccountParts
    <2> QED BY <2>1, <2>4, <2>5 DEF AccountTypeOK
  <1>3. CASE accountUser(t) \/ disconnectUser(t)
    <2>1. /\ \/ req[t].op \in {"connect", "identify"} /\ req[t].pc = "written"
                  /\ status' = StatusOf(req[t].ok)
             \/ req[t].op = "disconnect" /\ req[t].pc = "deleted" /\ status' = "NOT_CONNECTED"
          /\ Settles(t)
          /\ UNCHANGED <<account, accountShown, kycVars, addressVars>>
      BY <1>3 DEF accountUser, disconnectUser, At
    <2>2. req[t].group = "account" BY <2>1, NoneIsNoReq DEF ShapeOf, ShapeAs
    <2>3. /\ Only("account") /\ Others(t) /\ req'[t].group = "none"
          /\ disturbed' = (IF req[t].alone THEN disturbed \ {"account"} ELSE disturbed)
      BY <1>0, <2>1, <2>2, SettlesEffect
    <2>4. TabAccount(t) BY <1>a
    <2>5. req[t].alone => status' = account'.status
      BY <2>1, <2>2, <2>4 DEF TabAccount, StatusOf
    <2>6. ~req[t].alone => "account" \in disturbed'
      BY <1>0, <2>2, <2>3 DEF AloneInv
    <2>7. AccountInv'
      <3>1. ASSUME NEW u \in Tabs PROVE TabAccount(u)'
        <4>1. CASE u = t BY <2>3, <4>1 DEF TabAccount
        <4>2. CASE u # t BY <1>a, <2>1, <2>3, <4>2 DEF TabAccount, Others
        <4> QED BY <4>1, <4>2
      <3>2. Calm("account")' => status' = account'.status BY <2>5, <2>6 DEF Calm
      <3> QED BY <3>1, <3>2, AccountParts
    <2>8. status' \in AccountStatuses BY <2>1 DEF AccountStatuses, StatusOf
    <2> QED BY <2>1, <2>3, <2>7, <2>8 DEF AccountTypeOK
  <1>4. CASE disconnectAccount(t)
    <2> DEFINE r == [NoReq EXCEPT !.op = "disconnect", !.pc = "deleted"]
    <2>1. Start(t, "accounts", "account", r) /\ SetAccount(NoAccount)
      BY <1>4 DEF disconnectAccount
    <2>2. r \in ReqType /\ ShapeOf("account", r) /\ r.pc = "deleted" BY AccountRequestType
    <2> HIDE DEF r
    <2>3. /\ Only("account") /\ req'[t].group = "account" /\ req'[t].pc = "deleted"
          /\ \A u \in Tabs \ {t} : /\ req'[u].group = req[u].group
                                   /\ req'[u].alone => req[u].group # "account"
      BY <1>0, <2>1, <2>2, StartEffect DEF Alike
    <2>4. account' = NoAccount /\ accountShown' \in BOOLEAN
          /\ UNCHANGED <<status, kycVars, addressVars>>
      BY <2>1 DEF SetAccount, AccountTypeOK, NoAccount
    <2>5. AccountInv'
      <3>1. ASSUME NEW u \in Tabs PROVE TabAccount(u)'
        BY <2>3, <2>4 DEF TabAccount, NoAccount
      <3>2. ~Calm("account")' BY <1>0, <2>3, BusyIsNotCalm
      <3> QED BY <3>1, <3>2, AccountParts
    <2>6. account' \in [exists : BOOLEAN, linked : BOOLEAN, status : AccountStatuses]
      BY <2>4 DEF NoAccount, AccountStatuses
    <2> QED BY <2>3, <2>4, <2>5, <2>6 DEF AccountTypeOK
  <1> QED BY <1>1, <1>2, <1>3, <1>4 DEF AccountStep

-----------------------------------------------------------------------------
(* Counting *)

LEMMA Counting ==
    ASSUME NEW U, IsFiniteSet(U)
    PROVE  /\ \A S \in SUBSET U : IsFiniteSet(S) /\ Cardinality(S) \in Nat
           /\ \A S \in SUBSET U : S = {} <=> Cardinality(S) = 0
           /\ \A S, T \in SUBSET U : T \subseteq S => Cardinality(T) <= Cardinality(S)
           /\ \A S, T \in SUBSET U, x \in U :
                 T \subseteq S \cup {x} => Cardinality(T) <= Cardinality(S) + 1
           /\ \A S, T \in SUBSET U, x \in U :
                 x \in S /\ T \subseteq S \ {x} => Cardinality(T) + 1 <= Cardinality(S)
  <1>1. ASSUME NEW S \in SUBSET U PROVE IsFiniteSet(S) /\ Cardinality(S) \in Nat
    BY FS_Subset, FS_CardinalityType
  <1>2. ASSUME NEW S \in SUBSET U PROVE S = {} <=> Cardinality(S) = 0
    BY <1>1, FS_EmptySet
  <1>3. ASSUME NEW S \in SUBSET U, NEW T \in SUBSET U, T \subseteq S
        PROVE  Cardinality(T) <= Cardinality(S)
    BY <1>1, <1>3, FS_Subset
  <1>4. ASSUME NEW S \in SUBSET U, NEW T \in SUBSET U, NEW x \in U, T \subseteq S \cup {x}
        PROVE  Cardinality(T) <= Cardinality(S) + 1
    <2>1. Cardinality(S \cup {x}) <= Cardinality(S) + 1 BY <1>1, FS_AddElement
    <2>2. Cardinality(T) <= Cardinality(S \cup {x}) BY <1>3, <1>4
    <2> QED BY <1>1, <2>1, <2>2
  <1>5. ASSUME NEW S \in SUBSET U, NEW T \in SUBSET U, NEW x \in S, T \subseteq S \ {x}
        PROVE  Cardinality(T) + 1 <= Cardinality(S)
    <2>1. Cardinality(S \ {x}) = Cardinality(S) - 1 BY <1>1, FS_RemoveElement
    <2>2. Cardinality(T) <= Cardinality(S \ {x}) BY <1>3, <1>5
    <2> QED BY <1>1, <2>1, <2>2
  <1> QED BY <1>1, <1>2, <1>3, <1>4, <1>5

LEMMA TabsFinite == IsFiniteSet(Tabs)
  BY BudgetsAssumption

\* A finite set of numbers has a least element: the one with fewest below it.
LEMMA LeastElement ==
    ASSUME NEW S \in SUBSET Nat, IsFiniteSet(S), S # {}
    PROVE  \E a \in S : \A b \in S : a <= b
  <1> DEFINE Below(a) == {b \in S : b < a}
             F == {Below(a) : a \in S}
  <1>1. IsWellFoundedOn(StrictSubsetOrdering(S), SUBSET S)
    BY FS_StrictSubsetOrderingWellFounded, FS_FiniteSubsetsOfFinite
  <1>2. F \subseteq SUBSET S /\ F # {} OBVIOUS
  <1>3. \A a \in S : Below(a) \in F /\ Below(a) \in SUBSET S OBVIOUS
  <1>4. \A T \in F : \E a \in S : T = Below(a) OBVIOUS
  <1>5. ASSUME NEW a \in S, NEW b \in S, b < a
        PROVE  Below(b) \subseteq Below(a) /\ b \in Below(a) /\ b \notin Below(b)
    <2>1. a \in Nat /\ b \in Nat /\ \A c \in S : c \in Nat OBVIOUS
    <2>2. \A c \in S : c < b => c < a BY <1>5, <2>1
    <2>3. ~(b < b) BY <2>1
    <2> QED BY <1>5, <2>2, <2>3
  <1> HIDE DEF F, Below
  <1>6. PICK T \in F : \A U \in F : ~(<<U, T>> \in StrictSubsetOrdering(S))
    BY <1>1, <1>2, WFMin
  <1>7. PICK a \in S : T = Below(a) BY <1>4
  <1>8. ASSUME NEW b \in S, b < a PROVE FALSE
    <2>1. <<Below(b), T>> \in StrictSubsetOrdering(S)
      BY <1>3, <1>5, <1>7, <1>8 DEF StrictSubsetOrdering
    <2> QED BY <1>3, <1>6, <2>1
  <1> QED BY <1>8

-----------------------------------------------------------------------------
(* Shipping addresses *)

AddressTypeOK ==
    created \in 0 .. MaxCreated /\ addresses \subseteq AddressIds /\ defaults \subseteq addresses

AddressStep(t) ==
    \/ createAddressRead(t) \/ clearDefaults(t) \/ createAddress(t)
    \/ updateAddressRead(t) \/ updateAddress(t)
    \/ setDefaultRead(t) \/ setDefault(t)
    \/ deleteAddressRead(t) \/ deleteAddress(t) \/ findOldest(t) \/ promoteOldest(t)

\* The clauses of AddressInv.
TabAddress(u) ==
    (req[u].group = "address" /\ req[u].alone) =>
        /\ req[u].op \in {"update", "setDefault"} => req[u].id \in addresses
        /\ req[u].pc = "cleared" => defaults \subseteq (IF req[u].op = "update"
                                                        THEN {req[u].id} ELSE {})
PhaseAddress(u) ==
    req[u].group = "address" =>
        /\ req[u].pc = "read" =>
              /\ OneDefault
              /\ req[u].op = "create" => req[u].ok \/ addresses # {}
              /\ req[u].op = "delete" =>
                    /\ req[u].id \in addresses
                    /\ req[u].ok <=> req[u].id \in defaults
        /\ req[u].pc \in {"deleted", "found"} => defaults = {}
        /\ req[u].pc = "found" => req[u].id \in addresses
CountAddress ==
    Cardinality(addresses) + Cardinality(Creating) <= MAX_ADDRESSES + overlaps["address"]

LEMMA AddressParts ==
    /\ AddressInv <=>
          /\ \A u \in Tabs : TabAddress(u)
          /\ "address" \notin disturbed => /\ Quiet("address") => OneDefault
                                           /\ \A u \in Tabs : PhaseAddress(u)
          /\ CountAddress
    /\ AddressInv' <=>
          /\ \A u \in Tabs : TabAddress(u)'
          /\ "address" \notin disturbed' => /\ Quiet("address")' => OneDefault'
                                            /\ \A u \in Tabs : PhaseAddress(u)'
          /\ CountAddress'
  BY DEF AddressInv, TabAddress, PhaseAddress, CountAddress, Busy

LEMMA AddressesFinite ==
    /\ IsFiniteSet(AddressIds) /\ AddressIds \subseteq Nat
    /\ MAX_ADDRESSES \in Nat \ {0} /\ MaxCreated \in Nat \ {0}
  BY AddressesAssumption, FS_Interval DEF AddressIds

LEMMA AddressCounts ==
    ASSUME ReqInv, AddressTypeOK
    PROVE  /\ Cardinality(addresses) \in Nat /\ Cardinality(Creating) \in Nat
           /\ overlaps["address"] \in Nat /\ Creating \in SUBSET Tabs
  <1>1. Creating \in SUBSET Tabs BY DEF Creating
  <1>2. addresses \in SUBSET AddressIds BY DEF AddressTypeOK
  <1>3. Cardinality(addresses) \in Nat BY <1>2, AddressesFinite, Counting
  <1>4. Cardinality(Creating) \in Nat BY <1>1, TabsFinite, Counting
  <1>5. overlaps["address"] \in Nat BY DEF ReqInv, Counted
  <1> QED BY <1>1, <1>3, <1>4, <1>5

\* The start of a request on the addresses.
LEMMA AddressStart ==
    ASSUME ReqInv, AloneInv, AddressTypeOK, AddressInv, NEW t \in Tabs,
           NEW op \in {"create", "update", "setDefault", "delete"}, NEW id \in Nat, NEW ok \in BOOLEAN,
           StartAddress(t, AddressRequest(op, id, ok)),
           op \in {"update", "setDefault"} => id \in addresses,
           op = "setDefault" => ok,
           op = "create" => ok \/ addresses # {},
           op = "create" => Cardinality(addresses) < MAX_ADDRESSES,
           op = "delete" => id \in addresses /\ (ok <=> id \in defaults)
    PROVE  Only("address") /\ AddressTypeOK' /\ AddressInv' /\ UNCHANGED <<kycVars, accountVars>>
  <1> DEFINE r == AddressRequest(op, id, ok)
  <1>0. "address" \in Groups /\ "accounts" \in Areas /\ "address" \in Repaired /\ "address" \in Counted
    BY DEF Groups, Areas, Repaired, Counted
  <1>1. /\ r \in ReqType /\ r.op = op /\ r.pc = "read" /\ r.id = id /\ r.ok = ok
        /\ Start(t, "accounts", "address", r) /\ UNCHANGED sellerVars
    BY DEF AddressRequest, NoReq, ReqType, Stages, Ops, Groups, StartAddress
  <1> HIDE DEF r
  <1>2. ShapeOf("address", r) BY <1>1 DEF ShapeOf, ShapeAs
  <1>3. /\ Only("address") /\ req'[t].group = "address" /\ req[t] = NoReq
        /\ req'[t].op = op /\ req'[t].pc = "read" /\ req'[t].id = id /\ req'[t].ok = ok
        /\ \A u \in Tabs \ {t} : /\ req'[u].group = req[u].group /\ Alike(req'[u], req[u])
                                 /\ req'[u].alone => req[u].group # "address"
        /\ overlaps'["address"] = overlaps["address"] + (IF Quiet("address") THEN 0 ELSE 1)
        /\ disturbed \subseteq disturbed'
    BY <1>0, <1>1, <1>2, StartEffect DEF Alike
  <1>3a. ~Quiet("address") => "address" \in disturbed'
    BY <1>0, <1>1 DEF Start
  <1>4. /\ addresses' = addresses /\ defaults' = defaults /\ created' = created
        /\ UNCHANGED <<kycVars, accountVars>>
    BY <1>1 DEF sellerVars, addressVars
  <1>5. ASSUME NEW u \in Tabs PROVE TabAddress(u)'
    <2>1. CASE u = t BY <1>3, <1>4, <2>1 DEF TabAddress
    <2>2. CASE u # t BY <1>3, <2>2 DEF TabAddress
    <2> QED BY <2>1, <2>2
  <1>6. ASSUME "address" \notin disturbed', NEW u \in Tabs PROVE PhaseAddress(u)'
    <2>1. Quiet("address") /\ "address" \notin disturbed BY <1>3, <1>3a, <1>6
    <2>2. OneDefault BY <2>1, AddressParts
    <2>3. OneDefault' BY <1>4, <2>2 DEF OneDefault
    <2>4. CASE u = t BY <1>3, <1>4, <2>3, <2>4 DEF PhaseAddress
    <2>5. CASE u # t BY <1>3, <2>1, <2>5 DEF PhaseAddress, Quiet, Busy
    <2> QED BY <2>4, <2>5
  <1>7. CountAddress'
    <2>1. CountAddress BY AddressParts
    <2>2. Creating' \subseteq Creating \cup {t} BY <1>3 DEF Creating, Alike
    <2>3. Creating' \in SUBSET Tabs /\ Creating \in SUBSET Tabs BY DEF Creating
    <2>4. CASE op = "create" /\ Quiet("address")
      <3>1. Creating' \subseteq {} \cup {t} BY <1>3, <2>4 DEF Creating, Quiet, Busy
      <3>2. Cardinality(Creating') <= Cardinality({}) + 1 /\ Cardinality(Creating') \in Nat
        BY <2>3, <3>1, TabsFinite, Counting
      <3> QED BY <1>3, <1>4, <2>4, <3>2, AddressCounts, AddressesFinite, FS_EmptySet DEF CountAddress
    <2>5. CASE op = "create" /\ ~Quiet("address")
      <3>1. Cardinality(Creating') <= Cardinality(Creating) + 1 /\ Cardinality(Creating') \in Nat
        BY <2>2, <2>3, TabsFinite, Counting
      <3> QED BY <1>3, <1>4, <2>1, <2>5, <3>1, AddressCounts, AddressesFinite DEF CountAddress
    <2>6. CASE op # "create"
      <3>1. Creating' \subseteq Creating BY <1>3, <2>6 DEF Creating, Alike
      <3>2. Cardinality(Creating') <= Cardinality(Creating) /\ Cardinality(Creating') \in Nat
        BY <2>3, <3>1, TabsFinite, Counting
      <3> QED BY <1>3, <1>4, <2>1, <3>2, AddressCounts, AddressesFinite DEF CountAddress
    <2> QED BY <2>4, <2>5, <2>6
  <1>8. ~Quiet("address")' BY <1>0, <1>3, BusyIsNotCalm
  <1>9. AddressInv' BY <1>5, <1>6, <1>7, <1>8, AddressParts
  <1> QED BY <1>3, <1>4, <1>9 DEF AddressTypeOK

\* A step of a request on the addresses: what it must show of itself.
LEMMA AddressMove ==
    ASSUME ReqInv, AloneInv, AddressTypeOK, AddressInv, NEW t \in Tabs,
           req[t].group = "address", Only("address"), Others(t), req'[t].group \in {"none", "address"},
           overlaps' = overlaps,
           disturbed' = disturbed \/ (req[t].alone /\ disturbed' = disturbed \ {"address"}),
           TabAddress(t)',
           "address" \notin disturbed' => /\ req'[t].group = "none" => OneDefault'
                                          /\ PhaseAddress(t)',
           CountAddress'
    PROVE  AddressInv'
  <1>1. ASSUME NEW u \in Tabs \ {t}, req[u].group = "address"
        PROVE  ~req[u].alone /\ ~req[t].alone /\ "address" \in disturbed'
    <2>1. ~req[u].alone /\ ~req[t].alone BY <1>1 DEF AloneInv
    <2>2. "address" \in disturbed BY <2>1 DEF AloneInv, Repaired
    <2> QED BY <2>1, <2>2
  <1>2. ASSUME NEW u \in Tabs PROVE TabAddress(u)'
    <2>1. CASE u = t BY <2>1
    <2>2. CASE u # t BY <1>1, <2>2 DEF TabAddress, Others
    <2> QED BY <2>1, <2>2
  <1>3. ASSUME "address" \notin disturbed', NEW u \in Tabs PROVE PhaseAddress(u)'
    <2>1. CASE u = t BY <1>3, <2>1
    <2>2. CASE u # t BY <1>1, <1>3, <2>2 DEF PhaseAddress, Others
    <2> QED BY <2>1, <2>2
  <1>4. ASSUME "address" \notin disturbed', Quiet("address")' PROVE OneDefault'
    BY <1>4 DEF Quiet, Busy
  <1> QED BY <1>2, <1>3, <1>4, AddressParts

\* No request starts to create and no address is added.
LEMMA CountShrinks ==
    ASSUME ReqInv, AddressTypeOK, AddressInv, NEW t \in Tabs, Others(t),
           req'[t].group = "address" /\ req'[t].op = "create"
              => req[t].group = "address" /\ req[t].op = "create",
           addresses' \subseteq addresses, overlaps' = overlaps
    PROVE  CountAddress'
  <1>1. CountAddress BY AddressParts
  <1>2. Creating' \subseteq Creating /\ Creating' \in SUBSET Tabs /\ Creating \in SUBSET Tabs
    BY DEF Creating, Others
  <1>3. Cardinality(Creating') <= Cardinality(Creating) /\ Cardinality(Creating') \in Nat
    BY <1>2, TabsFinite, Counting
  <1>4. addresses \in SUBSET AddressIds /\ addresses' \in SUBSET AddressIds BY DEF AddressTypeOK
  <1>5. Cardinality(addresses') <= Cardinality(addresses) /\ Cardinality(addresses') \in Nat
    BY <1>4, AddressesFinite, Counting
  <1> QED BY <1>1, <1>3, <1>5, AddressCounts, AddressesFinite DEF CountAddress

LEMMA AddressGroup ==
    ASSUME ReqInv, NEW t \in Tabs
    PROVE  /\ req[t].op \in {"update", "setDefault", "delete"} => req[t].group = "address"
           /\ req[t].op = "create" /\ req[t].pc \in {"read", "cleared"} => req[t].group = "address"
           /\ req[t].op = "setDefault" => req[t].ok
           /\ req[t].pc \in {"deleted", "found"} /\ req[t].op = "delete" => req[t].ok
           /\ req[t].ok \in BOOLEAN /\ req[t].id \in Nat /\ req[t].alone \in BOOLEAN
           /\ req[t].op = "create" => req[t].group \in {"address", "publish"}
  BY NoneIsNoReq DEF ReqInv, ReqType, ShapeOf, ShapeAs

LEMMA AddressStarts ==
    ASSUME ReqInv, AloneInv, AddressTypeOK, AddressInv, NEW t \in Tabs,
           createAddressRead(t) \/ updateAddressRead(t) \/ setDefaultRead(t) \/ deleteAddressRead(t)
    PROVE  Only("address") /\ AddressTypeOK' /\ AddressInv' /\ UNCHANGED <<kycVars, accountVars>>
  <1>0. addresses \subseteq Nat BY AddressesFinite DEF AddressTypeOK
  <1>1. CASE createAddressRead(t)
    <2>1. PICK isDefault \in BOOLEAN :
             StartAddress(t, AddressRequest("create", 0, isDefault \/ addresses = {}))
      BY <1>1 DEF createAddressRead
    <2> DEFINE ok == isDefault \/ addresses = {}
    <2>2. ok \in BOOLEAN /\ (ok \/ addresses # {}) /\ StartAddress(t, AddressRequest("create", 0, ok))
      BY <2>1
    <2>3. Cardinality(addresses) < MAX_ADDRESSES BY <1>1 DEF createAddressRead
    <2> HIDE DEF ok
    <2> QED BY <2>2, <2>3, AddressStart
  <1>2. CASE updateAddressRead(t)
    BY <1>0, <1>2, AddressStart DEF updateAddressRead
  <1>3. CASE setDefaultRead(t)
    BY <1>0, <1>3, AddressStart DEF setDefaultRead
  <1>4. CASE deleteAddressRead(t)
    <2>1. PICK a \in addresses : StartAddress(t, AddressRequest("delete", a, a \in defaults))
      BY <1>4 DEF deleteAddressRead
    <2> DEFINE ok == a \in defaults
    <2>2. ok \in BOOLEAN /\ (ok <=> a \in defaults) /\ StartAddress(t, AddressRequest("delete", a, ok))
      BY <2>1
    <2> HIDE DEF ok
    <2> QED BY <1>0, <2>2, AddressStart
  <1> QED BY <1>1, <1>2, <1>3, <1>4

LEMMA ClearEffect ==
    ASSUME ReqInv, AloneInv, AddressTypeOK, AddressInv, NEW t \in Tabs, clearDefaults(t)
    PROVE  Only("address") /\ AddressTypeOK' /\ AddressInv' /\ UNCHANGED <<kycVars, accountVars>>
  <1>0. "address" \in Groups /\ "cleared" \in Stages BY DEF Groups, Stages
  <1>1. /\ req[t].pc = "read" /\ req[t].ok /\ req[t].op \in {"create", "update", "setDefault"}
        /\ defaults' = (IF req[t].op = "update" THEN defaults \cap {req[t].id} ELSE {})
        /\ To(t, "cleared") /\ UNCHANGED <<addresses, created, kycVars, accountVars>>
    BY DEF clearDefaults
  <1>2. req[t].group = "address" BY <1>1, AddressGroup
  <1>3. ShapeAs("address", req[t].op, "cleared", req[t].ok) BY <1>1 DEF ShapeAs
  <1>4. /\ Only("address") /\ Others(t) /\ req'[t].group = "address" /\ req'[t].pc = "cleared"
        /\ req'[t].op = req[t].op /\ req'[t].id = req[t].id /\ req'[t].alone = req[t].alone
        /\ overlaps' = overlaps /\ disturbed' = disturbed
    BY <1>0, <1>1, <1>2, <1>3, ToEffect
  <1>5. TabAddress(t) BY AddressParts
  <1>6. TabAddress(t)'
    BY <1>1, <1>2, <1>4, <1>5 DEF TabAddress
  <1>7. PhaseAddress(t)' BY <1>4 DEF PhaseAddress
  <1>8. CountAddress' BY <1>1, <1>2, <1>4, CountShrinks
  <1>9. AddressInv' BY <1>2, <1>4, <1>6, <1>7, <1>8, AddressMove
  <1>10. AddressTypeOK' BY <1>1 DEF AddressTypeOK
  <1> QED BY <1>1, <1>4, <1>9, <1>10

LEMMA CreateEffect ==
    ASSUME ReqInv, AloneInv, AddressTypeOK, AddressInv, NEW t \in Tabs, createAddress(t)
    PROVE  Only("address") /\ AddressTypeOK' /\ AddressInv' /\ UNCHANGED <<kycVars, accountVars>>
  <1>0. "address" \in Groups BY DEF Groups
  <1>1. /\ req[t].op = "create" /\ req[t].pc = (IF req[t].ok THEN "cleared" ELSE "read")
        /\ created < MaxCreated /\ created' = created + 1
        /\ addresses' = addresses \cup {created'}
        /\ defaults' = (IF req[t].ok THEN defaults \cup {created'} ELSE defaults)
        /\ IF req[t].ok THEN Settles(t) ELSE Done(t)
        /\ UNCHANGED <<kycVars, accountVars>>
    BY DEF createAddress, At
  <1>2. req[t].group = "address" BY <1>1, AddressGroup
  <1>3. /\ Only("address") /\ Others(t) /\ req'[t].group = "none" /\ overlaps' = overlaps
        /\ disturbed' = (IF req[t].ok /\ req[t].alone THEN disturbed \ {"address"} ELSE disturbed)
    <2>1. CASE req[t].ok BY <1>0, <1>1, <1>2, <2>1, SettlesEffect
    <2>2. CASE ~req[t].ok BY <1>0, <1>1, <1>2, <2>2, DoneEffect
    <2> QED BY <2>1, <2>2
  <1>4. TabAddress(t) /\ ("address" \notin disturbed => PhaseAddress(t)) BY AddressParts
  <1>5. ASSUME "address" \notin disturbed' PROVE OneDefault'
    <2>1. CASE req[t].ok
      <3>1. req[t].alone
        BY <1>2, <1>3, <1>5, <2>1 DEF AloneInv, Repaired
      <3>2. defaults = {} BY <1>1, <1>2, <1>4, <2>1, <3>1 DEF TabAddress
      <3>3. defaults' = {created'} /\ created' \in addresses' BY <1>1, <2>1, <3>2
      <3> QED BY <3>3 DEF OneDefault
    <2>2. CASE ~req[t].ok
      <3>1. PhaseAddress(t) BY <1>3, <1>4, <1>5, <2>2
      <3>2. OneDefault /\ addresses # {} BY <1>1, <1>2, <2>2, <3>1 DEF PhaseAddress
      <3>3. PICK a \in addresses : defaults = {a} BY <3>2 DEF OneDefault
      <3> QED BY <1>1, <2>2, <3>3 DEF OneDefault
    <2> QED BY <2>1, <2>2
  <1>6. CountAddress'
    <2>1. CountAddress BY AddressParts
    <2>2. Creating' \subseteq Creating \ {t} /\ t \in Creating
      BY <1>1, <1>2, <1>3 DEF Creating, Others
    <2>3. Creating \in SUBSET Tabs /\ Creating' \in SUBSET Tabs BY DEF Creating
    <2>4. Cardinality(Creating') + 1 <= Cardinality(Creating) /\ Cardinality(Creating') \in Nat
      BY <2>2, <2>3, TabsFinite, Counting
    <2>5. created' \in AddressIds /\ addresses \in SUBSET AddressIds
      BY <1>1, AddressesFinite DEF AddressIds, AddressTypeOK
    <2>6. addresses' \in SUBSET AddressIds /\ addresses' \subseteq addresses \cup {created'}
      BY <1>1, <2>5
    <2>7. Cardinality(addresses') <= Cardinality(addresses) + 1 /\ Cardinality(addresses') \in Nat
      BY <2>5, <2>6, AddressesFinite, Counting
    <2> QED BY <1>3, <2>1, <2>4, <2>7, AddressCounts, AddressesFinite DEF CountAddress
  <1>7. TabAddress(t)' /\ PhaseAddress(t)' BY <1>3 DEF TabAddress, PhaseAddress
  <1>8. AddressInv' BY <1>2, <1>3, <1>5, <1>6, <1>7, AddressMove
  <1>9. AddressTypeOK' BY <1>1, AddressesFinite DEF AddressTypeOK, AddressIds
  <1> QED BY <1>1, <1>3, <1>8, <1>9

LEMMA WriteDefaultEffect ==
    ASSUME ReqInv, AloneInv, AddressTypeOK, AddressInv, NEW t \in Tabs,
           updateAddress(t) \/ setDefault(t)
    PROVE  Only("address") /\ AddressTypeOK' /\ AddressInv' /\ UNCHANGED <<kycVars, accountVars>>
  <1>0. "address" \in Groups BY DEF Groups
  <1>1. /\ req[t].op \in {"update", "setDefault"} /\ req[t].pc = (IF req[t].ok THEN "cleared" ELSE "read")
        /\ defaults' = (IF req[t].ok THEN defaults \cup ({req[t].id} \cap addresses) ELSE defaults)
        /\ IF req[t].ok THEN Settles(t) ELSE Done(t)
        /\ UNCHANGED <<addresses, created, kycVars, accountVars>>
    BY AddressGroup DEF updateAddress, setDefault, At
  <1>2. req[t].group = "address" BY <1>1, AddressGroup
  <1>3. /\ Only("address") /\ Others(t) /\ req'[t].group = "none" /\ overlaps' = overlaps
        /\ disturbed' = (IF req[t].ok /\ req[t].alone THEN disturbed \ {"address"} ELSE disturbed)
    <2>1. CASE req[t].ok BY <1>0, <1>1, <1>2, <2>1, SettlesEffect
    <2>2. CASE ~req[t].ok BY <1>0, <1>1, <1>2, <2>2, DoneEffect
    <2> QED BY <2>1, <2>2
  <1>4. TabAddress(t) /\ ("address" \notin disturbed => PhaseAddress(t)) BY AddressParts
  <1>5. ASSUME "address" \notin disturbed' PROVE OneDefault'
    <2>1. CASE req[t].ok
      <3>1. req[t].alone
        BY <1>2, <1>3, <1>5, <2>1 DEF AloneInv, Repaired
      <3>2. defaults \subseteq {req[t].id} /\ req[t].id \in addresses
        BY <1>1, <1>2, <1>4, <2>1, <3>1 DEF TabAddress
      <3>3. defaults' = {req[t].id} BY <1>1, <2>1, <3>2
      <3> QED BY <1>1, <3>2, <3>3 DEF OneDefault
    <2>2. CASE ~req[t].ok
      <3>1. OneDefault BY <1>1, <1>2, <1>3, <1>4, <1>5, <2>2 DEF PhaseAddress
      <3> QED BY <1>1, <2>2, <3>1 DEF OneDefault
    <2> QED BY <2>1, <2>2
  <1>6. CountAddress' BY <1>1, <1>3, CountShrinks
  <1>7. TabAddress(t)' /\ PhaseAddress(t)' BY <1>3 DEF TabAddress, PhaseAddress
  <1>8. AddressInv' BY <1>2, <1>3, <1>5, <1>6, <1>7, AddressMove
  <1>9. AddressTypeOK' BY <1>1 DEF AddressTypeOK
  <1> QED BY <1>1, <1>3, <1>8, <1>9

LEMMA DeleteEffect ==
    ASSUME ReqInv, AloneInv, AddressTypeOK, AddressInv, NEW t \in Tabs, deleteAddress(t)
    PROVE  Only("address") /\ AddressTypeOK' /\ AddressInv' /\ UNCHANGED <<kycVars, accountVars>>
  <1>0. "address" \in Groups /\ "deleted" \in Stages BY DEF Groups, Stages
  <1>1. /\ req[t].op = "delete" /\ req[t].pc = "read"
        /\ addresses' = addresses \ {req[t].id} /\ defaults' = defaults \ {req[t].id}
        /\ IF req[t].ok /\ req[t].id \in addresses THEN To(t, "deleted") ELSE Done(t)
        /\ UNCHANGED <<created, kycVars, accountVars>>
    BY DEF deleteAddress, At
  <1>2. req[t].group = "address" BY <1>1, AddressGroup
  <1>3. /\ Only("address") /\ Others(t) /\ overlaps' = overlaps /\ disturbed' = disturbed
        /\ \/ req'[t].group = "none" /\ ~(req[t].ok /\ req[t].id \in addresses)
           \/ /\ req'[t].group = "address" /\ req'[t].pc = "deleted" /\ req'[t].op = "delete"
              /\ req[t].ok
    <2>1. CASE req[t].ok /\ req[t].id \in addresses
      <3>1. ShapeAs("address", req[t].op, "deleted", req[t].ok) BY <1>1, <2>1 DEF ShapeAs
      <3> QED BY <1>0, <1>1, <1>2, <2>1, <3>1, ToEffect
    <2>2. CASE ~(req[t].ok /\ req[t].id \in addresses) BY <1>0, <1>1, <1>2, <2>2, DoneEffect
    <2> QED BY <2>1, <2>2
  <1>5. ASSUME "address" \notin disturbed'
        PROVE  (req'[t].group = "none" => OneDefault') /\ PhaseAddress(t)'
    <2>1. PhaseAddress(t) BY <1>3, <1>5, AddressParts
    <2>2. OneDefault /\ req[t].id \in addresses /\ (req[t].ok <=> req[t].id \in defaults)
      BY <1>1, <1>2, <2>1 DEF PhaseAddress
    <2>3. PICK a \in addresses : defaults = {a} BY <2>2 DEF OneDefault
    <2>4. CASE req[t].ok
      <3>1. defaults' = {} BY <1>1, <2>2, <2>3, <2>4
      <3> QED BY <1>3, <2>2, <2>4, <3>1 DEF PhaseAddress
    <2>5. CASE ~req[t].ok
      <3>1. a # req[t].id BY <2>2, <2>3, <2>5
      <3>2. a \in addresses' /\ defaults' = {a} BY <1>1, <2>3, <3>1
      <3> QED BY <1>3, <2>5, <3>2 DEF PhaseAddress, OneDefault
    <2> QED BY <2>4, <2>5
  <1>6. CountAddress' BY <1>1, <1>3, CountShrinks
  <1>7. TabAddress(t)' BY <1>3 DEF TabAddress
  <1>8. AddressInv' BY <1>2, <1>3, <1>5, <1>6, <1>7, AddressMove
  <1>9. AddressTypeOK' BY <1>1 DEF AddressTypeOK
  <1> QED BY <1>1, <1>3, <1>8, <1>9

LEMMA OldestEffect ==
    ASSUME ReqInv, AloneInv, AddressTypeOK, AddressInv, NEW t \in Tabs, findOldest(t)
    PROVE  Only("address") /\ AddressTypeOK' /\ AddressInv' /\ UNCHANGED <<kycVars, accountVars>>
  <1>0. "address" \in Groups BY DEF Groups
  <1> DEFINE least == CHOOSE a \in addresses : \A b \in addresses : a <= b
             new == [req[t] EXCEPT !.pc = "found", !.id = least]
  <1>1. /\ req[t].op = "delete" /\ req[t].pc = "deleted"
        /\ IF addresses = {} THEN Done(t)
           ELSE req' = [req EXCEPT ![t].pc = "found", ![t].id = least]
                /\ UNCHANGED <<budget, ghostVars>>
        /\ UNCHANGED sellerVars
    BY DEF findOldest, At
  <1>2. req[t].group = "address" /\ req[t].ok BY <1>1, AddressGroup
  <1>3. UNCHANGED <<addresses, defaults, created, kycVars, accountVars>>
    BY <1>1 DEF sellerVars, addressVars
  <1>4. /\ Only("address") /\ Others(t) /\ overlaps' = overlaps /\ disturbed' = disturbed
        /\ \/ req'[t].group = "none" /\ addresses = {}
           \/ /\ req'[t].group = "address" /\ req'[t].pc = "found" /\ req'[t].op = "delete"
              /\ req'[t].id \in addresses
    <2>1. CASE addresses = {} BY <1>0, <1>1, <1>2, <2>1, DoneEffect
    <2>2. CASE addresses # {}
      <3>1. addresses \in SUBSET AddressIds BY DEF AddressTypeOK
      <3>2. addresses \in SUBSET Nat /\ IsFiniteSet(addresses)
        BY <3>1, AddressesFinite, FS_Subset
      <3>3. \E a \in addresses : \A b \in addresses : a <= b BY <2>2, <3>2, LeastElement
      <3>4. least \in addresses BY <3>3
      <3> HIDE DEF least
      <3>5. req' = [req EXCEPT ![t] = new] BY <1>1, <2>2 DEF ReqInv
      <3>6. req[t] \in ReqType BY DEF ReqInv
      <3>7. /\ new \in ReqType /\ new.group = req[t].group /\ new.alone = req[t].alone
            /\ new.op = req[t].op /\ new.pc = "found" /\ new.ok = req[t].ok /\ new.id = least
        BY <3>2, <3>4, <3>6 DEF ReqType, Stages
      <3>8. ShapeOf("address", new) BY <1>1, <1>2, <3>7 DEF ShapeOf, ShapeAs
      <3>9. budget' = budget /\ overlaps' = overlaps /\ disturbed' = disturbed /\ lost' = lost
        BY <1>1, <2>2 DEF ghostVars
      <3> HIDE DEF new
      <3>10. Only("address") /\ Others(t) /\ req'[t] = new
        <4>1. req[t].group = "address" /\ new.group = "address" BY <1>2, <3>7
        <4> HIDE <1>1
        <4> QED BY <1>0, <3>5, <3>7, <3>8, <3>9, <4>1, MoveEffect
      <3> QED BY <1>1, <1>2, <3>4, <3>7, <3>9, <3>10
    <2> QED BY <2>1, <2>2
  <1>5. ASSUME "address" \notin disturbed'
        PROVE  (req'[t].group = "none" => OneDefault') /\ PhaseAddress(t)'
    <2>1. PhaseAddress(t) BY <1>4, <1>5, AddressParts
    <2>2. defaults' = {} BY <1>1, <1>2, <1>3, <2>1 DEF PhaseAddress
    <2> QED BY <1>3, <1>4, <2>2 DEF PhaseAddress, OneDefault
  <1>6. CountAddress' BY <1>3, <1>4, CountShrinks
  <1>7. TabAddress(t)' BY <1>4 DEF TabAddress
  <1>8. AddressInv' BY <1>2, <1>4, <1>5, <1>6, <1>7, AddressMove
  <1>9. AddressTypeOK' BY <1>3 DEF AddressTypeOK
  <1> QED BY <1>3, <1>4, <1>8, <1>9

LEMMA PromoteEffect ==
    ASSUME ReqInv, AloneInv, AddressTypeOK, AddressInv, NEW t \in Tabs, promoteOldest(t)
    PROVE  Only("address") /\ AddressTypeOK' /\ AddressInv' /\ UNCHANGED <<kycVars, accountVars>>
  <1>0. "address" \in Groups BY DEF Groups
  <1>1. /\ req[t].op = "delete" /\ req[t].pc = "found" /\ Done(t)
        /\ defaults' = defaults \cup ({req[t].id} \cap addresses)
        /\ UNCHANGED <<addresses, created, kycVars, accountVars>>
    BY DEF promoteOldest, At
  <1>2. req[t].group = "address" BY <1>1, AddressGroup
  <1>3. Only("address") /\ Others(t) /\ req'[t].group = "none" /\ overlaps' = overlaps
        /\ disturbed' = disturbed
    BY <1>0, <1>1, <1>2, DoneEffect
  <1>5. ASSUME "address" \notin disturbed' PROVE OneDefault'
    <2>1. PhaseAddress(t) BY <1>3, <1>5, AddressParts
    <2>2. defaults = {} /\ req[t].id \in addresses BY <1>1, <1>2, <2>1 DEF PhaseAddress
    <2>3. defaults' = {req[t].id} BY <1>1, <2>2
    <2> QED BY <1>1, <2>2, <2>3 DEF OneDefault
  <1>6. CountAddress' BY <1>1, <1>3, CountShrinks
  <1>7. TabAddress(t)' /\ PhaseAddress(t)' BY <1>3 DEF TabAddress, PhaseAddress
  <1>8. AddressInv' BY <1>2, <1>3, <1>5, <1>6, <1>7, AddressMove
  <1>9. AddressTypeOK' BY <1>1 DEF AddressTypeOK
  <1> QED BY <1>1, <1>3, <1>8, <1>9

LEMMA AddressEffect ==
    ASSUME ReqInv, AloneInv, AddressTypeOK, AddressInv, NEW t \in Tabs, AddressStep(t)
    PROVE  Only("address") /\ AddressTypeOK' /\ AddressInv' /\ UNCHANGED <<kycVars, accountVars>>
  BY AddressStarts, ClearEffect, CreateEffect, WriteDefaultEffect, DeleteEffect, OldestEffect,
     PromoteEffect DEF AddressStep

-----------------------------------------------------------------------------
(* The catalogue: the list cache and the seller's cancellations *)

ListStep(t) ==
    \/ findAllMiss(t) \/ findAllRead(t) \/ setListCache(t) \/ noteKey(t)
    \/ bulkCancelRaffles(t) \/ cancelRead(t) \/ cancelWrite(t)

LEMMA RaffleIdsFinite ==
    /\ RaffleIds \subseteq Nat /\ IsFiniteSet(RaffleIds) /\ 0 \notin RaffleIds
    /\ AUTO_HIDE_THRESHOLD \in Nat \ {0} /\ NUEVO \in Nat \ {0} /\ BRONCE \in Nat
    /\ IsFiniteSet(Reporters) /\ Reporters \subseteq Nat
  BY ListingsAssumption, FS_Interval DEF RaffleIds

LEMMA RequestType ==
    ASSUME NEW op \in Ops, NEW pc \in Stages, NEW r \in Nat
    PROVE  /\ Request(op, pc, r) \in ReqType
           /\ Request(op, pc, r).op = op /\ Request(op, pc, r).pc = pc
           /\ Request(op, pc, r).id = r /\ Request(op, pc, r).seen = {}
           /\ Request(op, pc, r).ok = FALSE
  <1>1. NoReq \in ReqType BY NoReqType
  <1>2. [NoReq EXCEPT !.op = op, !.pc = pc, !.id = r] \in ReqType BY <1>1 DEF ReqType
  <1>3. NoReq.seen = {} /\ NoReq.ok = FALSE BY DEF NoReq
  <1> QED BY <1>1, <1>2, <1>3 DEF Request, ReqType

\* The start of such a request.
LEMMA RequestStart ==
    ASSUME ReqInv, NEW t \in Tabs, NEW g \in Groups, NEW area \in Areas, NEW q \in ReqType,
           ShapeAs(g, q.op, q.pc, q.ok), Start(t, area, g, q)
    PROVE  /\ Only(g) /\ req[t] = NoReq /\ req[t].group = "none"
           /\ req[t].op = "none" /\ req[t].pc = "idle"
           /\ req'[t].group = g /\ req'[t].op = q.op /\ req'[t].pc = q.pc /\ req'[t].id = q.id
           /\ req'[t].by = q.by /\ req'[t].seen = q.seen /\ req'[t].ok = q.ok
           /\ \A u \in Tabs \ {t} :
                 /\ req'[u].group = req[u].group /\ req'[u].op = req[u].op
                 /\ req'[u].pc = req[u].pc /\ req'[u].id = req[u].id
                 /\ req'[u].by = req[u].by /\ req'[u].seen = req[u].seen
           /\ g \in Counted => overlaps'[g] = overlaps[g] + (IF Quiet(g) THEN 0 ELSE 1)
           /\ lost' = lost
  <1>1. ShapeOf(g, q) BY DEF ShapeOf
  <1>2. /\ Only(g) /\ req[t] = NoReq /\ req'[t].group = g /\ Alike(req'[t], q)
        /\ \A u \in Tabs \ {t} : req'[u].group = req[u].group /\ Alike(req'[u], req[u])
        /\ g \in Counted => overlaps'[g] = overlaps[g] + (IF Quiet(g) THEN 0 ELSE 1)
        /\ lost' = lost
    BY <1>1, StartEffect
  <1>3. req[t].group = "none" /\ req[t].op = "none" /\ req[t].pc = "idle"
    BY <1>2 DEF NoReq
  <1> QED BY <1>2, <1>3 DEF Alike

\* The requests for the list go on as they are.
FindersSame ==
    \A u \in Tabs : req[u].op = "findAll" \/ req'[u].op = "findAll" => Alike(req'[u], req[u])

LEMMA FindersFrame ==
    ASSUME ReqInv, ReqInv', Apart("list")
    PROVE  FindersSame
  <1>1. ASSUME NEW u \in Tabs, req[u].op = "findAll" \/ req'[u].op = "findAll"
        PROVE  req'[u] = req[u]
    <2>1. Shaped(req[u]) /\ Shaped(req'[u]) BY DEF ReqInv
    <2>2. req[u].group = "list" \/ req'[u].group = "list"
      BY <1>1, <2>1 DEF Shaped, ShapeOf, ShapeAs, NoReq
    <2> QED BY <2>2 DEF Apart
  <1> QED BY <1>1 DEF FindersSame, Alike

LEMMA CacheFrame ==
    ASSUME CacheInv, FindersSame, Listed' = Listed, UNCHANGED cacheVars
    PROVE  CacheInv'
  <1>1. \A u \in Tabs : At(u, "findAll", "stored") => At(u, "findAll", "stored")'
    BY DEF FindersSame, Alike, At
  <1>2. \A u \in Tabs : At(u, "findAll", "read")' => At(u, "findAll", "read") /\ req'[u].seen = req[u].seen
    BY DEF FindersSame, Alike, At
  <1>3. cache' = cache /\ tracked' = tracked /\ wipes' = wipes /\ stale' = stale BY DEF cacheVars
  <1> QED BY <1>1, <1>2, <1>3 DEF CacheInv

LEMMA WipesType ==
    ASSUME ListingsTypeOK
    PROVE  /\ wipes \in [{"captured", "missed", "deleted"} -> Nat]
           /\ wipes.captured \in Nat /\ wipes.missed \in Nat /\ wipes.deleted \in Nat
  <1>1. DOMAIN NoWipes = {"captured", "missed", "deleted"} BY DEF NoWipes
  <1>2. wipes \in [DOMAIN NoWipes -> Nat] BY DEF ListingsTypeOK
  <1> QED BY <1>1, <1>2

LEMMA CacheInvalidated ==
    ASSUME ListingsTypeOK, CacheInv, FindersSame, invalidateRaffleCache
    PROVE  CacheInv' /\ cache' = cache /\ tracked' = tracked
           /\ wipes' \in [DOMAIN NoWipes -> Nat] /\ stale' \subseteq {"raced", "hidden", "crash"}
  <1>1. /\ wipes' = (IF tracked THEN [wipes EXCEPT !.captured = @ + 1]
                     ELSE [wipes EXCEPT !.missed = @ + 1])
        /\ stale' = (IF Reading # {} THEN stale \cup {"raced"} ELSE stale)
        /\ cache' = cache /\ tracked' = tracked
    BY DEF invalidateRaffleCache
  <1>2. /\ wipes'.captured \in Nat /\ wipes'.captured >= wipes.captured
        /\ tracked => wipes'.captured > 0
    BY <1>1, WipesType
  <1>3. wipes' \in [DOMAIN NoWipes -> Nat]
    <2>1. DOMAIN NoWipes = {"captured", "missed", "deleted"} BY DEF NoWipes
    <2>2. wipes' \in [{"captured", "missed", "deleted"} -> Nat] BY <1>1, WipesType
    <2> QED BY <2>1, <2>2
  <1>4. stale' \subseteq {"raced", "hidden", "crash"} BY <1>1 DEF ListingsTypeOK
  <1>5. ASSUME stale' = {}
        PROVE  /\ cache' # NoList => wipes'.captured > 0
               /\ \A u \in Tabs : ~At(u, "findAll", "read")'
    <2>1. stale = {} /\ Reading = {} BY <1>1, <1>5
    <2>2. \A u \in Tabs : req[u].op # "findAll" BY <2>1 DEF Reading
    <2>3. \A u \in Tabs : ~At(u, "findAll", "read")' BY <2>2 DEF FindersSame, Alike, At
    <2>4. ASSUME cache # NoList PROVE wipes'.captured > 0
      <3>1. ~\E u \in Tabs : At(u, "findAll", "stored") BY <2>2 DEF At
      <3>2. wipes.captured > 0 \/ tracked BY <2>1, <2>4, <3>1 DEF CacheInv
      <3> QED BY <1>2, <3>2, WipesType
    <2> QED BY <1>1, <2>3, <2>4
  <1>6. CacheInv' BY <1>5 DEF CacheInv
  <1> QED BY <1>1, <1>3, <1>4, <1>6

LEMMA CacheSilent ==
    ASSUME ListingsTypeOK, CacheInv, FindersSame, SilentChange
    PROVE  CacheInv' /\ UNCHANGED <<cache, tracked, wipes>>
           /\ stale' \subseteq {"raced", "hidden", "crash"}
  <1>1. /\ stale' = (IF cache # NoList \/ Reading # {} THEN stale \cup {"hidden"} ELSE stale)
        /\ UNCHANGED <<cache, tracked, wipes>>
    BY DEF SilentChange
  <1>2. ASSUME stale' = {} PROVE cache' = NoList /\ \A u \in Tabs : ~At(u, "findAll", "read")'
    <2>1. cache = NoList /\ Reading = {} BY <1>1, <1>2
    <2>2. \A u \in Tabs : ~At(u, "findAll", "read")'
      BY <2>1 DEF Reading, FindersSame, Alike, At
    <2> QED BY <1>1, <2>1, <2>2
  <1>3. CacheInv' BY <1>2 DEF CacheInv
  <1> QED BY <1>1, <1>3 DEF ListingsTypeOK

\* What a step on the list does to the raffles: nothing, or one is cancelled.
CancelsOne ==
    \E r \in RaffleIds : /\ estado[r] # "none"
                         /\ estado' = [estado EXCEPT ![r] = "CANCELADA"]

\* A request of the list goes on: what is to show of it alone.
LEMMA ListExistMove ==
    ASSUME ReqInv, ListExist, NEW t \in Tabs,
           \A u \in Tabs \ {t} : req'[u].group = req[u].group /\ Alike(req'[u], req[u]),
           \A q \in RaffleIds : estado[q] # "none" => estado'[q] # "none",
           req'[t].group = "list" =>
              /\ req'[t].seen \subseteq RaffleIds
              /\ req'[t].pc = "found" => req'[t].id \in RaffleIds /\ estado'[req'[t].id] # "none"
    PROVE  ListExist'
  BY DEF ListExist, Alike

LEMMA OthersAlike ==
    ASSUME NEW t, Others(t)
    PROVE  \A u \in Tabs \ {t} : req'[u].group = req[u].group /\ Alike(req'[u], req[u])
  BY DEF Others, Alike

LEMMA MissEffect ==
    ASSUME ReqInv, ListingsTypeOK, ListExist, CacheInv, NEW t \in Tabs, findAllMiss(t)
    PROVE  Only("list") /\ ListExist' /\ CacheInv' /\ UNCHANGED listingVars
  <1>0. /\ "list" \in Groups /\ "listings" \in Areas /\ "findAll" \in Ops /\ "missed" \in Stages
        /\ 0 \in Nat
    BY DEF Groups, Areas, Ops, Stages
  <1> DEFINE r == Request("findAll", "missed", 0)
  <1>a. Start(t, "listings", "list", r) /\ UNCHANGED listingVars BY DEF findAllMiss
  <1>b. r \in ReqType BY <1>0, RequestType
  <1>c. r.pc = "missed" /\ r.op = "findAll" /\ r.seen = {} BY DEF Request, NoReq
  <1> HIDE DEF r
  <1>1. /\ Start(t, "listings", "list", r) /\ r \in ReqType /\ ShapeOf("list", r)
        /\ r.pc = "missed" /\ r.op = "findAll" /\ r.seen = {}
    BY <1>a, <1>b, <1>c DEF ShapeOf, ShapeAs
  <1>2. UNCHANGED listingVars BY <1>a
  <1>3. /\ Only("list") /\ req[t] = NoReq /\ req'[t].pc = "missed" /\ req'[t].seen = {}
        /\ \A u \in Tabs \ {t} : req'[u].group = req[u].group /\ Alike(req'[u], req[u])
    BY <1>0, <1>1, StartEffect DEF Alike
  <1>4. /\ estado' = estado /\ hidden' = hidden
        /\ cache' = cache /\ tracked' = tracked /\ wipes' = wipes /\ stale' = stale
    BY <1>2 DEF listingVars, raffleVars, cacheVars
  <1>5. Listed' = Listed BY <1>4 DEF Listed, Active
  <1>6. \A u \in Tabs : At(u, "findAll", "stored") => At(u, "findAll", "stored")'
    BY <1>3 DEF Alike, At, NoReq
  <1>7. \A u \in Tabs : At(u, "findAll", "read")' => At(u, "findAll", "read") /\ req'[u].seen = req[u].seen
    BY <1>3 DEF Alike, At
  <1>8. CacheInv' BY <1>4, <1>5, <1>6, <1>7 DEF CacheInv
  <1>9. ListExist' BY <1>3, <1>4, ListExistMove
  <1> QED BY <1>2, <1>3, <1>8, <1>9

LEMMA FindReadEffect ==
    ASSUME ReqInv, ListingsTypeOK, ListExist, CacheInv, NEW t \in Tabs, findAllRead(t)
    PROVE  Only("list") /\ ListExist' /\ CacheInv' /\ UNCHANGED listingVars
  <1>0. "list" \in Groups /\ "read" \in Stages BY DEF Groups, Stages
  <1>a. /\ At(t, "findAll", "missed")
        /\ req' = [req EXCEPT ![t].pc = "read", ![t].seen = Listed]
        /\ UNCHANGED <<budget, ghostVars, listingVars>>
    BY DEF findAllRead
  <1>1. /\ req[t].op = "findAll" /\ req[t].pc = "missed" /\ UNCHANGED listingVars
        /\ budget' = budget /\ overlaps' = overlaps /\ disturbed' = disturbed /\ lost' = lost
    BY <1>a DEF At, ghostVars
  <1> DEFINE new == [req[t] EXCEPT !.pc = "read", !.seen = Listed]
  <1>1a. req' = [req EXCEPT ![t] = new] BY <1>a DEF ReqInv
  <1>2. req[t].group = "list" BY <1>1, NoneIsNoReq DEF ShapeOf, ShapeAs
  <1>3. Listed \subseteq RaffleIds BY DEF Listed, Active
  <1>4. req[t] \in ReqType BY DEF ReqInv
  <1>5. /\ new \in ReqType /\ new.group = "list" /\ new.alone = req[t].alone
        /\ new.op = "findAll" /\ new.pc = "read" /\ new.seen = Listed /\ new.ok = req[t].ok
    BY <1>0, <1>1, <1>2, <1>3, <1>4 DEF ReqType
  <1>6. ShapeOf("list", new) BY <1>5 DEF ShapeOf, ShapeAs
  <1>7. Only("list") /\ Others(t) /\ req'[t] = new
    <2> HIDE DEF new
    <2> QED BY <1>0, <1>1, <1>1a, <1>2, <1>5, <1>6, MoveEffect
  <1> HIDE DEF new
  <1>8. /\ estado' = estado /\ hidden' = hidden
        /\ cache' = cache /\ tracked' = tracked /\ wipes' = wipes /\ stale' = stale
    BY <1>1 DEF listingVars, raffleVars, cacheVars
  <1>9. Listed' = Listed BY <1>8 DEF Listed, Active
  <1>10. \A u \in Tabs : At(u, "findAll", "stored") => At(u, "findAll", "stored")'
    BY <1>1, <1>7 DEF Others, At
  <1>11. \A u \in Tabs : At(u, "findAll", "read")' =>
             req'[u].seen = Listed \/ (At(u, "findAll", "read") /\ req'[u].seen = req[u].seen)
    BY <1>5, <1>7 DEF Others, At
  <1>12. CacheInv' BY <1>8, <1>9, <1>10, <1>11 DEF CacheInv
  <1>13. ListExist' BY <1>3, <1>5, <1>7, <1>8, OthersAlike, ListExistMove
  <1> QED BY <1>1, <1>7, <1>12, <1>13

LEMMA StoreEffect ==
    ASSUME ReqInv, ListingsTypeOK, ListExist, CacheInv, NEW t \in Tabs,
           setListCache(t) \/ noteKey(t)
    PROVE  Only("list") /\ ListingsTypeOK' /\ ListExist' /\ CacheInv'
           /\ UNCHANGED <<raffleVars, moderationVars, reputationVars, suggestionVars>>
  <1>0. "list" \in Groups /\ "stored" \in Stages BY DEF Groups, Stages
  <1>1. /\ req[t].op = "findAll" /\ wipes' = wipes
        /\ stale' = (IF wipes # NoWipes THEN stale \cup {"raced"} ELSE stale)
        /\ \/ req[t].pc = "read" /\ cache' = req[t].seen /\ tracked' = tracked /\ To(t, "stored")
           \/ req[t].pc = "stored" /\ cache' = cache /\ tracked' = TRUE /\ Done(t)
        /\ UNCHANGED <<raffleVars, moderationVars, reputationVars, suggestionVars>>
    BY DEF setListCache, noteKey, At
  <1>2. req[t].group = "list" BY <1>1, NoneIsNoReq DEF ShapeOf, ShapeAs
  <1>3. ShapeAs("list", req[t].op, "stored", req[t].ok) BY <1>1 DEF ShapeAs
  <1>4. /\ Only("list") /\ Others(t)
        /\ \/ /\ req[t].pc = "read" /\ cache' = req[t].seen /\ tracked' = tracked
              /\ req'[t].group = "list" /\ req'[t].op = "findAll" /\ req'[t].pc = "stored"
              /\ req'[t].seen = req[t].seen
           \/ /\ req[t].pc = "stored" /\ cache' = cache /\ tracked' = TRUE
              /\ req'[t] = NoReq /\ req'[t].group = "none"
    <2>1. CASE req[t].pc = "read" /\ cache' = req[t].seen /\ tracked' = tracked /\ To(t, "stored")
      BY <1>0, <1>1, <1>2, <1>3, <2>1, ToEffect
    <2>2. CASE req[t].pc = "stored" /\ cache' = cache /\ tracked' = TRUE /\ Done(t)
      BY <1>0, <1>2, <2>2, DoneEffect
    <2> QED BY <1>1, <2>1, <2>2
  <1>5. estado' = estado /\ hidden' = hidden BY <1>1 DEF raffleVars
  <1>6. Listed' = Listed BY <1>5 DEF Listed, Active
  <1>7. req[t].seen \subseteq RaffleIds BY <1>2 DEF ListExist
  <1>8. ListExist'
    <2>1. req'[t].group = "list" => req'[t].seen \subseteq RaffleIds /\ req'[t].pc # "found"
      BY <1>4, <1>7
    <2> QED BY <1>4, <1>5, <2>1, OthersAlike, ListExistMove
  <1>9. \A u \in Tabs : At(u, "findAll", "read")' => At(u, "findAll", "read") /\ req'[u].seen = req[u].seen
    BY <1>4 DEF Others, At, NoReq
  <1>10. CacheInv'
    <2>1. SUFFICES ASSUME stale' = {}
                   PROVE  /\ cache' # NoList =>
                             \/ wipes'.captured > 0
                             \/ /\ wipes' = NoWipes /\ cache' = Listed'
                                /\ tracked' \/ \E u \in Tabs : At(u, "findAll", "stored")'
                          /\ \A u \in Tabs : At(u, "findAll", "read")' => req'[u].seen = Listed'
      BY DEF CacheInv
    <2>2. stale = {} /\ wipes = NoWipes BY <1>1, <2>1
    <2>3. \A u \in Tabs : At(u, "findAll", "read")' => req'[u].seen = Listed'
      BY <1>6, <1>9, <2>2 DEF CacheInv
    <2>4. CASE req[t].pc = "read"
      <3>1. At(t, "findAll", "read") BY <1>1, <2>4 DEF At
      <3>2. cache' = Listed' BY <1>4, <1>6, <2>2, <2>4, <3>1 DEF CacheInv
      <3>3. At(t, "findAll", "stored")' BY <1>4, <2>4 DEF At
      <3> QED BY <1>1, <2>2, <2>3, <3>2, <3>3
    <2>5. CASE req[t].pc = "stored"
      BY <1>1, <1>4, <1>6, <2>2, <2>3, <2>5 DEF CacheInv
    <2> QED BY <1>1, <2>4, <2>5
  <1>11. ListingsTypeOK'
    <2>1. cache' = NoList \/ cache' \subseteq RaffleIds
      BY <1>4, <1>7 DEF ListingsTypeOK
    <2>2. tracked' \in BOOLEAN BY <1>4 DEF ListingsTypeOK
    <2>3. stale' \subseteq {"raced", "hidden", "crash"} BY <1>1 DEF ListingsTypeOK
    <2> QED BY <1>1, <2>1, <2>2, <2>3
            DEF ListingsTypeOK, raffleVars, moderationVars, reputationVars, suggestionVars
  <1> QED BY <1>1, <1>4, <1>8, <1>10, <1>11

LEMMA CancelStartEffect ==
    ASSUME ReqInv, ListingsTypeOK, ListExist, CacheInv, NEW t \in Tabs, bulkCancelRaffles(t)
    PROVE  Only("list") /\ ListExist' /\ CacheInv' /\ UNCHANGED listingVars
  <1>0. /\ "list" \in Groups /\ "listings" \in Areas /\ "cancel" \in Ops /\ "next" \in Stages
        /\ 0 \in Nat
    BY DEF Groups, Areas, Ops, Stages
  <1>1. PICK selected \in SUBSET Active :
           Start(t, "listings", "list", [Request("cancel", "next", 0) EXCEPT !.seen = selected])
    BY DEF bulkCancelRaffles
  <1>2. UNCHANGED listingVars BY DEF bulkCancelRaffles
  <1>3. Request("cancel", "next", 0) \in ReqType /\ Request("cancel", "next", 0).op = "cancel"
        /\ Request("cancel", "next", 0).pc = "next"
    <2>1. Request("cancel", "next", 0) \in ReqType BY <1>0, RequestType
    <2>2. Request("cancel", "next", 0).op = "cancel" /\ Request("cancel", "next", 0).pc = "next"
      BY DEF Request, NoReq
    <2> QED BY <2>1, <2>2
  <1> DEFINE r == [Request("cancel", "next", 0) EXCEPT !.seen = selected]
  <1>4. selected \subseteq RaffleIds BY DEF Active
  <1>5. /\ r \in ReqType /\ r.op = "cancel" /\ r.pc = "next" /\ r.seen = selected
        /\ Start(t, "listings", "list", r)
    BY <1>1, <1>3, <1>4 DEF ReqType
  <1> HIDE DEF r
  <1>6. ShapeOf("list", r) BY <1>5 DEF ShapeOf, ShapeAs
  <1>7. /\ Only("list") /\ req[t] = NoReq /\ req'[t].op = "cancel" /\ req'[t].pc = "next"
        /\ req'[t].seen = selected
        /\ \A u \in Tabs \ {t} : req'[u].group = req[u].group /\ Alike(req'[u], req[u])
    BY <1>0, <1>5, <1>6, StartEffect DEF Alike
  <1>8. estado' = estado /\ hidden' = hidden /\ UNCHANGED cacheVars
    BY <1>2 DEF listingVars, raffleVars
  <1>9. FindersSame
    <2>1. req[t].op = "none" BY <1>7 DEF NoReq
    <2> QED BY <1>7, <2>1 DEF FindersSame
  <1>10. Listed' = Listed BY <1>8 DEF Listed, Active
  <1>11. CacheInv' BY <1>8, <1>9, <1>10, CacheFrame
  <1>12. ListExist' BY <1>4, <1>7, <1>8, ListExistMove
  <1> QED BY <1>2, <1>7, <1>11, <1>12

LEMMA CancelReadEffect ==
    ASSUME ReqInv, ListingsTypeOK, ListExist, CacheInv, NEW t \in Tabs, cancelRead(t)
    PROVE  Only("list") /\ ListExist' /\ CacheInv' /\ UNCHANGED listingVars
  <1>0. "list" \in Groups BY DEF Groups
  <1> DEFINE next(r) == [req EXCEPT ![t].pc = "found", ![t].id = r, ![t].seen = @ \ {r}]
  <1>a. /\ At(t, "cancel", "next") /\ UNCHANGED listingVars
        /\ IF req[t].seen \cap Active = {} THEN Done(t)
           ELSE /\ \E r \in req[t].seen \cap Active : req' = next(r)
                /\ UNCHANGED <<budget, ghostVars>>
    BY Zenon DEF cancelRead
  <1> HIDE DEF next
  <1>1. /\ req[t].op = "cancel" /\ req[t].pc = "next" /\ UNCHANGED listingVars
        /\ Done(t) \/ /\ \E r \in req[t].seen \cap Active : req' = next(r)
                      /\ UNCHANGED <<budget, ghostVars>>
    BY <1>a DEF At
  <1>2. req[t].group = "list" BY <1>1, NoneIsNoReq DEF ShapeOf, ShapeAs
  <1>3. estado' = estado /\ hidden' = hidden /\ UNCHANGED cacheVars
    BY <1>1 DEF listingVars, raffleVars
  <1>4. req[t].seen \subseteq RaffleIds /\ req[t] \in ReqType BY <1>2 DEF ListExist, ReqInv
  <1>5. /\ Only("list") /\ Others(t)
        /\ \/ req'[t] = NoReq /\ req'[t].group = "none" /\ req'[t].op # "findAll"
           \/ /\ req'[t].op = "cancel" /\ req'[t].seen \subseteq RaffleIds
              /\ req'[t].id \in RaffleIds /\ estado[req'[t].id] # "none"
    <2>1. CASE Done(t) BY <1>0, <1>2, <2>1, DoneEffect DEF NoReq
    <2>2. CASE ~Done(t)
      <3>1. PICK r \in req[t].seen \cap Active : req' = next(r) BY <1>1, <2>2
      <3> DEFINE new == [req[t] EXCEPT !.pc = "found", !.id = r, !.seen = @ \ {r}]
      <3>2. req' = [req EXCEPT ![t] = new] BY <3>1 DEF next, ReqInv
      <3>3. r \in RaffleIds /\ r \in Nat /\ estado[r] # "none"
        BY <1>4, RaffleIdsFinite DEF Active
      <3>4. /\ new \in ReqType /\ new.group = "list" /\ new.alone = req[t].alone
            /\ new.op = "cancel" /\ new.pc = "found" /\ new.id = r /\ new.seen = req[t].seen \ {r}
            /\ new.ok = req[t].ok
        BY <1>1, <1>2, <1>4, <3>3 DEF ReqType, Stages
      <3>5. budget' = budget /\ overlaps' = overlaps /\ disturbed' = disturbed /\ lost' = lost
        BY <1>1, <2>2 DEF ghostVars
      <3> HIDE DEF new
      <3>6. ShapeOf("list", new) BY <3>4 DEF ShapeOf, ShapeAs
      <3>7. Only("list") /\ Others(t) /\ req'[t] = new
        BY <1>0, <1>2, <3>2, <3>4, <3>5, <3>6, MoveEffect
      <3> QED BY <1>4, <3>3, <3>4, <3>7
    <2> QED BY <2>1, <2>2
  <1>6. FindersSame
    BY <1>1, <1>5 DEF FindersSame, Others, Alike
  <1>7. Listed' = Listed BY <1>3 DEF Listed, Active
  <1>8. CacheInv' BY <1>3, <1>6, <1>7, CacheFrame
  <1>9. ListExist'
    <2>1. \A q \in RaffleIds : estado[q] # "none" => estado'[q] # "none" BY <1>3
    <2>2. req'[t].group = "list" =>
              /\ req'[t].seen \subseteq RaffleIds
              /\ req'[t].pc = "found" => req'[t].id \in RaffleIds /\ estado'[req'[t].id] # "none"
      BY <1>3, <1>5
    <2> QED BY <1>5, <2>1, <2>2, OthersAlike, ListExistMove
  <1> QED BY <1>1, <1>5, <1>8, <1>9

LEMMA CancelWriteEffect ==
    ASSUME ReqInv, ListingsTypeOK, ListExist, CacheInv, NEW t \in Tabs, cancelWrite(t)
    PROVE  Only("list") /\ ListingsTypeOK' /\ ListExist' /\ CacheInv' /\ CancelsOne
           /\ UNCHANGED <<hidden, delivery, moderationVars, reputationVars, suggestionVars>>
  <1>0. "list" \in Groups /\ "next" \in Stages BY DEF Groups, Stages
  <1>1. /\ req[t].op = "cancel" /\ req[t].pc = "found" /\ To(t, "next")
        /\ estado' = [estado EXCEPT ![req[t].id] = "CANCELADA"]
        /\ invalidateRaffleCache
        /\ UNCHANGED <<hidden, delivery, moderationVars, reputationVars, suggestionVars>>
    BY DEF cancelWrite, At
  <1>2. req[t].group = "list" BY <1>1, NoneIsNoReq DEF ShapeOf, ShapeAs
  <1>3. ShapeAs("list", req[t].op, "next", req[t].ok) BY <1>1 DEF ShapeAs
  <1>4. /\ Only("list") /\ Others(t) /\ req'[t].op = "cancel" /\ req'[t].pc = "next"
        /\ req'[t].seen = req[t].seen
    BY <1>0, <1>1, <1>2, <1>3, ToEffect
  <1>5. req[t].id \in RaffleIds /\ estado[req[t].id] # "none" /\ req[t].seen \subseteq RaffleIds
    BY <1>1, <1>2 DEF ListExist
  <1>6. /\ estado' \in [RaffleIds -> RaffleStates]
        /\ \A q \in RaffleIds : estado[q] # "none" => estado'[q] # "none"
    BY <1>1, <1>5 DEF ListingsTypeOK, RaffleStates
  <1>7. FindersSame BY <1>1, <1>4 DEF FindersSame, Others, Alike
  <1>8. CacheInv' /\ cache' = cache /\ tracked' = tracked
           /\ wipes' \in [DOMAIN NoWipes -> Nat] /\ stale' \subseteq {"raced", "hidden", "crash"}
    BY <1>1, <1>7, CacheInvalidated
  <1>9. ListExist' BY <1>4, <1>5, <1>6, OthersAlike, ListExistMove
  <1>10. ListingsTypeOK'
    BY <1>1, <1>6, <1>8 DEF ListingsTypeOK, moderationVars, reputationVars, suggestionVars
  <1>11. CancelsOne BY <1>1, <1>5 DEF CancelsOne
  <1> QED BY <1>1, <1>4, <1>8, <1>9, <1>10, <1>11

LEMMA ListEffect ==
    ASSUME ReqInv, ListingsTypeOK, ListExist, CacheInv, NEW t \in Tabs, ListStep(t)
    PROVE  /\ Only("list") /\ ListingsTypeOK' /\ ListExist' /\ CacheInv'
           /\ estado' = estado \/ CancelsOne
           /\ UNCHANGED <<hidden, delivery, moderationVars, reputationVars, suggestionVars>>
  <1>1. CASE findAllMiss(t) \/ findAllRead(t) \/ bulkCancelRaffles(t) \/ cancelRead(t)
    <2>1. Only("list") /\ ListExist' /\ CacheInv' /\ UNCHANGED listingVars
      BY <1>1, MissEffect, FindReadEffect, CancelStartEffect, CancelReadEffect
    <2>2. UNCHANGED <<raffleVars, moderationVars, reputationVars, cacheVars, suggestionVars>>
      BY <2>1 DEF listingVars
    <2>3. ListingsTypeOK'
      BY <2>2 DEF ListingsTypeOK, raffleVars, moderationVars, reputationVars, cacheVars,
                  suggestionVars
    <2> QED BY <2>1, <2>2, <2>3 DEF raffleVars
  <1>2. CASE setListCache(t) \/ noteKey(t)
    BY <1>2, StoreEffect DEF raffleVars
  <1>3. CASE cancelWrite(t)
    BY <1>3, CancelWriteEffect
  <1> QED BY <1>1, <1>2, <1>3 DEF ListStep

-----------------------------------------------------------------------------
(* Publishing and relaunching *)

PublishStep(t) ==
    \/ createRead(t) \/ canSellerCreateRaffle(t) \/ createWrite(t)
    \/ relaunchRead(t) \/ relaunchCreate(t) \/ relaunchAccept(t)

\* The counts of the publish group, as the invariants use them.
LEMMA PublishCounts ==
    ASSUME ListingsTypeOK, ReqInv
    PROVE  /\ Cardinality(Active) \in Nat /\ Cardinality(AllowedTabs) \in Nat
           /\ Cardinality(Relaunched) \in Nat /\ Cardinality(Busy("publish")) \in Nat
           /\ Cardinality(offer) \in Nat /\ Cardinality(Tabs) \in Nat
           /\ granted \in Nat /\ relaunches \in Nat /\ maxRifas \in Nat
           /\ overlaps["publish"] \in Nat
  <1>1. /\ Active \in SUBSET RaffleIds /\ AllowedTabs \in SUBSET Tabs
        /\ Relaunched \in SUBSET Tabs /\ Busy("publish") \in SUBSET Tabs
        /\ offer \in SUBSET Tabs /\ Tabs \in SUBSET Tabs
    BY DEF Active, AllowedTabs, Relaunched, Busy, ListingsTypeOK
  <1>2. /\ Cardinality(Active) \in Nat /\ Cardinality(AllowedTabs) \in Nat
        /\ Cardinality(Relaunched) \in Nat /\ Cardinality(Busy("publish")) \in Nat
        /\ Cardinality(offer) \in Nat /\ Cardinality(Tabs) \in Nat
    BY <1>1, Counting, TabsFinite, RaffleIdsFinite
  <1>3. granted \in Nat /\ relaunches \in Nat /\ maxRifas \in Nat
    BY RaffleIdsFinite DEF ListingsTypeOK
  <1>4. overlaps["publish"] \in Nat BY DEF ReqInv, Counted
  <1> QED BY <1>2, <1>3, <1>4

LEMMA AllowedAreBusy ==
    ASSUME ReqInv
    PROVE  /\ \A u \in Tabs : req[u].op \in {"create", "relaunch"} /\
                              req[u].pc \in {"checked", "allowed", "created", "found"}
                              /\ (req[u].op = "create" => req[u].pc \in {"checked", "allowed"})
                                 => req[u].group = "publish"
           /\ AllowedTabs \subseteq Busy("publish")
           /\ Relaunched \subseteq Busy("publish")
  <1>1. ASSUME NEW u \in Tabs, req[u].op \in {"create", "relaunch"},
               req[u].pc \in {"checked", "allowed", "created", "found"},
               req[u].op = "create" => req[u].pc \in {"checked", "allowed"}
        PROVE  req[u].group = "publish"
    BY <1>1, NoneIsNoReq DEF ShapeOf, ShapeAs
  <1> QED BY <1>1 DEF AllowedTabs, Relaunched, Busy, At

LEMMA InvalidateType ==
    ASSUME ListingsTypeOK, invalidateRaffleCache
    PROVE  /\ cache' = cache /\ tracked' = tracked
           /\ wipes' \in [DOMAIN NoWipes -> Nat] /\ stale' \subseteq {"raced", "hidden", "crash"}
  <1>1. /\ wipes' = (IF tracked THEN [wipes EXCEPT !.captured = @ + 1]
                     ELSE [wipes EXCEPT !.missed = @ + 1])
        /\ stale' = (IF Reading # {} THEN stale \cup {"raced"} ELSE stale)
        /\ cache' = cache /\ tracked' = tracked
    BY DEF invalidateRaffleCache
  <1>2. DOMAIN NoWipes = {"captured", "missed", "deleted"} BY DEF NoWipes
  <1>3. wipes' \in [{"captured", "missed", "deleted"} -> Nat] BY <1>1, WipesType
  <1> QED BY <1>1, <1>2, <1>3 DEF ListingsTypeOK

LEMMA SilentType ==
    ASSUME ListingsTypeOK, SilentChange
    PROVE  /\ cache' = cache /\ tracked' = tracked /\ wipes' = wipes
           /\ stale' \subseteq {"raced", "hidden", "crash"}
  BY DEF SilentChange, ListingsTypeOK

\* What publishing changes outside of its group.
PublishesOne == \E r \in RaffleIds : estado[r] = "none" /\ Publishes(r)
PublishFrame ==
    /\ UNCHANGED <<hidden, delivery, report, banned, reputationVars>>
    /\ (UNCHANGED <<estado, exempt, cacheVars>>) \/ PublishesOne

LEMMA PublishStarts ==
    ASSUME ReqInv, ListingsTypeOK, LimitInv, RelaunchInv, NEW t \in Tabs,
           createRead(t) \/ relaunchRead(t)
    PROVE  Only("publish") /\ UNCHANGED listingVars /\ LimitInv' /\ RelaunchInv'
  <1>0. /\ "publish" \in Groups /\ "listings" \in Areas /\ "create" \in Ops /\ "relaunch" \in Ops
        /\ "checked" \in Stages /\ "found" \in Stages /\ 0 \in Nat /\ "publish" \in Counted
    BY DEF Groups, Areas, Ops, Stages, Counted
  <1>1. /\ Only("publish") /\ UNCHANGED listingVars /\ req[t].group = "none" /\ req[t].op = "none"
        /\ req'[t].group = "publish"
        /\ \/ req'[t].op = "create" /\ req'[t].pc = "checked"
           \/ /\ req'[t].op = "relaunch" /\ req'[t].pc = "found"
              /\ req'[t].id = 2 /\ 2 \in RaffleIds /\ t \in offer
        /\ \A u \in Tabs \ {t} :
                 /\ req'[u].group = req[u].group /\ req'[u].op = req[u].op
                 /\ req'[u].pc = req[u].pc /\ req'[u].id = req[u].id
        /\ overlaps'["publish"] = overlaps["publish"] + (IF Quiet("publish") THEN 0 ELSE 1)
        /\ lost' = lost
    <2>1. CASE createRead(t)
      <3> DEFINE q == Request("create", "checked", 0)
      <3>1. Start(t, "listings", "publish", q) /\ UNCHANGED listingVars BY <2>1 DEF createRead
      <3>2. q \in ReqType BY <1>0, RequestType
      <3>3. q.op = "create" /\ q.pc = "checked" /\ q.id = 0 /\ q.ok = FALSE BY DEF Request, NoReq
      <3>4. ShapeAs("publish", q.op, q.pc, q.ok) BY <3>3 DEF ShapeAs
      <3> HIDE DEF q
      <3> QED
        <4> HIDE <2>1
        <4> QED BY <1>0, <3>1, <3>2, <3>3, <3>4, RequestStart
    <2>2. CASE relaunchRead(t)
      <3>1. PICK r \in RaffleIds :
               /\ RelaunchDialog(t) \/ RelaunchOffered(r)
               /\ r \in Suggested
               /\ Start(t, "listings", "publish", Request("relaunch", "found", r))
        BY <2>2 DEF relaunchRead
      <3>2. /\ offer' = offer \cup {t}
            /\ UNCHANGED <<aceptada, relaunches, raffleVars, moderationVars, reputationVars,
                           cacheVars>>
        BY <2>2 DEF relaunchRead
      <3>3. r = 2 BY <3>1 DEF Suggested
      <3>4. t \in offer
        BY <3>1, <3>3 DEF RelaunchInv, RelaunchDialog, RelaunchOffered
      <3>5. UNCHANGED listingVars
        <4>1. offer' = offer BY <3>2, <3>4
        <4> QED BY <3>2, <4>1 DEF listingVars, suggestionVars
      <3> DEFINE q == Request("relaunch", "found", r)
      <3>6. q \in ReqType BY <1>0, RequestType, RaffleIdsFinite
      <3>7. q.op = "relaunch" /\ q.pc = "found" /\ q.id = r /\ q.ok = FALSE BY DEF Request, NoReq
      <3>8. ShapeAs("publish", q.op, q.pc, q.ok) BY <3>7 DEF ShapeAs
      <3>9. Start(t, "listings", "publish", q) /\ r \in Nat BY <3>1, RaffleIdsFinite
      <3> HIDE DEF q
      <3> QED BY <1>0, <3>3, <3>4, <3>5, <3>6, <3>7, <3>8, <3>9, RequestStart
    <2> QED BY <2>1, <2>2
  <1>2. /\ estado' = estado /\ granted' = granted /\ maxRifas' = maxRifas
        /\ relaunches' = relaunches /\ offer' = offer /\ aceptada' = aceptada
    BY <1>1 DEF listingVars, raffleVars, reputationVars, suggestionVars
  <1>3. AllowedTabs' = AllowedTabs /\ Relaunched' = Relaunched /\ Active' = Active
        /\ Busy("publish")' = Busy("publish") \cup {t}
    BY <1>1, <1>2 DEF AllowedTabs, Relaunched, Active, Busy, At
  <1>4. Cardinality(Busy("publish")') <= Cardinality(Busy("publish")) + 1
        /\ (Quiet("publish") => Cardinality(Busy("publish")) = 0)
    BY <1>3, Counting, TabsFinite DEF Busy, Quiet
  <1>5. LimitInv'
    <2>1. /\ Cardinality(Busy("publish")') \in Nat
      BY <1>3, Counting, TabsFinite DEF Busy
    <2> QED BY <1>1, <1>2, <1>3, <1>4, <2>1, PublishCounts DEF LimitInv
  <1>6. RelaunchInv'
    BY <1>1, <1>2, <1>3 DEF RelaunchInv
  <1> QED BY <1>1, <1>5, <1>6

LEMMA LimitCheckEffect ==
    ASSUME ReqInv, ListingsTypeOK, LimitInv, RelaunchInv, NEW t \in Tabs,
           canSellerCreateRaffle(t)
    PROVE  Only("publish") /\ UNCHANGED listingVars /\ LimitInv' /\ RelaunchInv'
  <1>0. "publish" \in Groups /\ "allowed" \in Stages BY DEF Groups, Stages
  <1>1. /\ req[t].op = "create" /\ req[t].pc = "checked" /\ UNCHANGED listingVars
        /\ \/ Cardinality(Active) < maxRifas /\ To(t, "allowed")
           \/ Done(t)
    BY DEF canSellerCreateRaffle, At
  <1>2. req[t].group = "publish" BY <1>1, AllowedAreBusy
  <1>3. ShapeAs("publish", req[t].op, "allowed", req[t].ok) BY <1>1 DEF ShapeAs
  <1>4. /\ Only("publish") /\ Others(t) /\ overlaps' = overlaps /\ lost' = lost
        /\ \/ Cardinality(Active) < maxRifas /\ req'[t].group = "publish" /\ req'[t].op = "create"
           \/ req'[t].group = "none" /\ req'[t].op = "none"
    <2>1. CASE Cardinality(Active) < maxRifas /\ To(t, "allowed")
      BY <1>0, <1>1, <1>2, <1>3, <2>1, ToEffect
    <2>2. CASE Done(t) BY <1>0, <1>2, <2>2, DoneEffect DEF NoReq
    <2> QED BY <1>1, <2>1, <2>2
  <1>5. /\ estado' = estado /\ granted' = granted /\ maxRifas' = maxRifas
        /\ relaunches' = relaunches /\ offer' = offer /\ aceptada' = aceptada
    BY <1>1 DEF listingVars, raffleVars, reputationVars, suggestionVars
  <1>6. /\ Relaunched' = Relaunched /\ Active' = Active
        /\ Busy("publish")' \subseteq Busy("publish")
        /\ \/ Cardinality(Active) < maxRifas
           \/ AllowedTabs' \subseteq AllowedTabs
    <2>1. Relaunched' = Relaunched BY <1>1, <1>4 DEF Relaunched, At, Others
    <2>2. Active' = Active BY <1>5 DEF Active
    <2>3. Busy("publish")' \subseteq Busy("publish") BY <1>2, <1>4 DEF Busy, Others
    <2>4. req'[t].op = "none" => AllowedTabs' \subseteq AllowedTabs
      BY <1>4 DEF AllowedTabs, At, Others
    <2> QED BY <1>4, <2>1, <2>2, <2>3, <2>4
  <1>8. AllowedTabs' \subseteq Busy("publish")'
    BY <1>4, AllowedAreBusy DEF AllowedTabs, Busy, At, Others
  <1>9. /\ Cardinality(Busy("publish")') <= Cardinality(Busy("publish"))
        /\ Cardinality(AllowedTabs') <= Cardinality(Busy("publish")')
        /\ Cardinality(AllowedTabs') \in Nat /\ Cardinality(Busy("publish")') \in Nat
        /\ AllowedTabs' \subseteq AllowedTabs => Cardinality(AllowedTabs') <= Cardinality(AllowedTabs)
    <2>1. /\ AllowedTabs' \in SUBSET Tabs /\ Busy("publish")' \in SUBSET Tabs
          /\ AllowedTabs \in SUBSET Tabs /\ Busy("publish") \in SUBSET Tabs
      BY DEF AllowedTabs, Busy
    <2> QED BY <1>6, <1>8, <2>1, Counting, TabsFinite
  <1>10. LimitInv'
    BY <1>4, <1>5, <1>6, <1>9, PublishCounts DEF LimitInv
  <1>11. RelaunchInv'
    BY <1>1, <1>4, <1>5, <1>6 DEF RelaunchInv, Others
  <1> QED BY <1>1, <1>4, <1>10, <1>11

LEMMA PublishesEffect ==
    ASSUME ReqInv, ListingsTypeOK, LimitInv, RelaunchInv, NEW t \in Tabs,
           createWrite(t) \/ relaunchCreate(t)
    PROVE  Only("publish") /\ ListingsTypeOK' /\ LimitInv' /\ RelaunchInv' /\ PublishFrame
  <1>0. "publish" \in Groups /\ "created" \in Stages BY DEF Groups, Stages
  <1>1. PICK r \in Unused : Publishes(r) BY DEF createWrite, relaunchCreate
  <1>2. /\ aceptada' = aceptada /\ offer' = offer
        /\ \/ /\ req[t].op = "create" /\ req[t].pc = "allowed" /\ Done(t)
              /\ relaunches' = relaunches
           \/ /\ req[t].op = "relaunch" /\ req[t].pc = "found" /\ To(t, "created")
              /\ relaunches' = relaunches + 1
    BY DEF createWrite, relaunchCreate, At, suggestionVars
  <1>3. req[t].group = "publish" BY <1>2, AllowedAreBusy
  <1>4. /\ Only("publish") /\ Others(t) /\ overlaps' = overlaps /\ lost' = lost
        /\ \/ /\ req[t].op = "create" /\ req[t].pc = "allowed" /\ relaunches' = relaunches
              /\ req'[t].group = "none" /\ req'[t].op = "none"
           \/ /\ req[t].op = "relaunch" /\ req[t].pc = "found" /\ relaunches' = relaunches + 1
              /\ req'[t].group = "publish" /\ req'[t].op = "relaunch" /\ req'[t].pc = "created"
              /\ req'[t].id = req[t].id
    <2>1. CASE req[t].op = "create" /\ req[t].pc = "allowed" /\ Done(t) /\ relaunches' = relaunches
      BY <1>0, <1>3, <2>1, DoneEffect DEF NoReq
    <2>2. CASE req[t].op = "relaunch" /\ req[t].pc = "found" /\ To(t, "created")
               /\ relaunches' = relaunches + 1
      <3>1. ShapeAs("publish", req[t].op, "created", req[t].ok) BY <2>2 DEF ShapeAs
      <3> QED BY <1>0, <1>3, <2>2, <3>1, ToEffect
    <2> QED BY <1>2, <2>1, <2>2
  <1>5. /\ r \in RaffleIds /\ estado[r] = "none" /\ estado' = [estado EXCEPT ![r] = "ACTIVA"]
        /\ exempt' = (IF banned = "report" THEN exempt \cup {r} ELSE exempt)
        /\ invalidateRaffleCache
        /\ UNCHANGED <<hidden, delivery, report, banned, reputationVars>>
    BY <1>1 DEF Publishes, Unused
  <1>6. PublishFrame BY <1>1, <1>5 DEF PublishFrame, PublishesOne
  <1>7. estado' \in [RaffleIds -> RaffleStates] /\ Active' = Active \cup {r}
    BY <1>5 DEF ListingsTypeOK, RaffleStates, Active
  <1>8. ListingsTypeOK'
    <2>1. exempt' \subseteq RaffleIds BY <1>5 DEF ListingsTypeOK
    <2>2. relaunches' \in Nat BY <1>4 DEF ListingsTypeOK
    <2> QED BY <1>2, <1>5, <1>7, <2>1, <2>2, InvalidateType DEF ListingsTypeOK, reputationVars
  <1>9. /\ granted' = granted /\ maxRifas' = maxRifas BY <1>5 DEF reputationVars
  <1>11. /\ Cardinality(Active') <= Cardinality(Active) + 1
         /\ Cardinality(Active') \in Nat
    <2>1. Active \in SUBSET RaffleIds /\ Active' \in SUBSET RaffleIds BY <1>5, <1>7 DEF Active
    <2> QED BY <1>5, <1>7, <2>1, Counting, RaffleIdsFinite
  <1>12. /\ AllowedTabs \in SUBSET Tabs /\ AllowedTabs' \in SUBSET Tabs
         /\ Relaunched \in SUBSET Tabs /\ Relaunched' \in SUBSET Tabs
         /\ Busy("publish") \in SUBSET Tabs /\ Busy("publish")' \in SUBSET Tabs
         /\ Busy("publish")' \subseteq Busy("publish")
    BY <1>3, <1>4 DEF AllowedTabs, Relaunched, Busy, Others
  <1>13. /\ Cardinality(Busy("publish")') <= Cardinality(Busy("publish"))
         /\ Cardinality(AllowedTabs') \in Nat /\ Cardinality(Busy("publish")') \in Nat
         /\ Cardinality(Relaunched') \in Nat
    BY <1>12, Counting, TabsFinite
  <1>14. CASE relaunches' = relaunches /\ req[t].op = "create" /\ req[t].pc = "allowed"
              /\ req'[t].op = "none"
    <2>1. t \in AllowedTabs /\ AllowedTabs' \subseteq AllowedTabs \ {t} /\ Relaunched' = Relaunched
      BY <1>4, <1>14 DEF AllowedTabs, Relaunched, At, Others
    <2>2. Cardinality(AllowedTabs') + 1 <= Cardinality(AllowedTabs)
      BY <1>12, <2>1, Counting, TabsFinite
    <2>3. LimitInv'
      BY <1>4, <1>9, <1>11, <1>13, <1>14, <2>2, PublishCounts DEF LimitInv
    <2>4. RelaunchInv' BY <1>2, <1>4, <1>14, <2>1 DEF RelaunchInv, Others
    <2> QED BY <1>4, <1>6, <1>8, <2>3, <2>4
  <1>15. CASE /\ relaunches' = relaunches + 1 /\ req[t].op = "relaunch" /\ req[t].pc = "found"
              /\ req'[t].op = "relaunch" /\ req'[t].pc = "created" /\ req'[t].id = req[t].id
    <2>1. t \notin Relaunched /\ t \in Relaunched' /\ Relaunched \subseteq Relaunched' \ {t}
          /\ AllowedTabs' = AllowedTabs
      BY <1>4, <1>15 DEF AllowedTabs, Relaunched, At, Others
    <2>2. Cardinality(Relaunched) + 1 <= Cardinality(Relaunched')
      BY <1>12, <2>1, Counting, TabsFinite
    <2>3. LimitInv'
      BY <1>4, <1>9, <1>11, <1>13, <1>15, <2>1, PublishCounts DEF LimitInv
    <2>4. RelaunchInv'
      BY <1>2, <1>4, <1>13, <1>15, <2>2, PublishCounts DEF RelaunchInv, Others
    <2> QED BY <1>4, <1>6, <1>8, <2>3, <2>4
  <1> QED BY <1>4, <1>14, <1>15

LEMMA AcceptEffect ==
    ASSUME ReqInv, ListingsTypeOK, LimitInv, RelaunchInv, NEW t \in Tabs, relaunchAccept(t)
    PROVE  Only("publish") /\ ListingsTypeOK' /\ LimitInv' /\ RelaunchInv' /\ PublishFrame
  <1>0. "publish" \in Groups BY DEF Groups
  <1>1. /\ req[t].op = "relaunch" /\ req[t].pc = "created" /\ Done(t)
        /\ aceptada' = aceptada \cup {req[t].id} /\ offer' = offer \ {t}
        /\ UNCHANGED <<relaunches, raffleVars, moderationVars, reputationVars, cacheVars>>
    BY DEF relaunchAccept, At
  <1>2. req[t].group = "publish" BY <1>1, AllowedAreBusy
  <1>3. /\ Only("publish") /\ Others(t) /\ overlaps' = overlaps /\ lost' = lost
        /\ req'[t].group = "none" /\ req'[t].op = "none"
    BY <1>0, <1>1, <1>2, DoneEffect DEF NoReq
  <1>4. t \in offer /\ req[t].id = 2 /\ 2 \in RaffleIds BY <1>1 DEF RelaunchInv
  <1>5. PublishFrame BY <1>1 DEF PublishFrame, raffleVars, moderationVars
  <1>6. ListingsTypeOK'
    BY <1>1, <1>4 DEF ListingsTypeOK, raffleVars, moderationVars, reputationVars, cacheVars
  <1>7. /\ estado' = estado /\ granted' = granted /\ maxRifas' = maxRifas
        /\ relaunches' = relaunches
    BY <1>1 DEF raffleVars, reputationVars
  <1>8. /\ Active' = Active /\ AllowedTabs' = AllowedTabs
        /\ Busy("publish")' \subseteq Busy("publish")
        /\ t \in Relaunched /\ Relaunched' = Relaunched \ {t}
    BY <1>1, <1>2, <1>3, <1>7 DEF Active, AllowedTabs, Relaunched, Busy, Others, At
  <1>9. /\ Cardinality(Busy("publish")') <= Cardinality(Busy("publish"))
        /\ Cardinality(Relaunched') = Cardinality(Relaunched) - 1
        /\ Cardinality(offer') = Cardinality(offer) - 1
        /\ Cardinality(Busy("publish")') \in Nat
    <2>1. Busy("publish")' \in SUBSET Tabs /\ Busy("publish") \in SUBSET Tabs
          /\ IsFiniteSet(Relaunched) /\ IsFiniteSet(offer)
      BY <1>8, Counting, TabsFinite DEF Busy, Relaunched, ListingsTypeOK
    <2>2. /\ Cardinality(Relaunched') = Cardinality(Relaunched) - 1
          /\ Cardinality(offer') = Cardinality(offer) - 1
      BY <1>1, <1>4, <1>8, <2>1, FS_RemoveElement
    <2> QED BY <1>8, <2>1, <2>2, Counting, TabsFinite
  <1>10. LimitInv'
    BY <1>3, <1>7, <1>8, <1>9, PublishCounts DEF LimitInv
  <1>11. RelaunchInv'
    <2>1. 2 \in aceptada' BY <1>1, <1>4
    <2>2. \A u \in Tabs : req'[u].op = "relaunch" => u \in offer' /\ req'[u].id = 2 /\ 2 \in RaffleIds
      BY <1>1, <1>3 DEF RelaunchInv, Others
    <2>3. "publish" \notin lost' =>
             relaunches' + Cardinality(offer') <= Cardinality(Tabs) + Cardinality(Relaunched')
      BY <1>3, <1>7, <1>9, PublishCounts DEF RelaunchInv
    <2> QED BY <2>1, <2>2, <2>3 DEF RelaunchInv
  <1> QED BY <1>3, <1>5, <1>6, <1>10, <1>11

LEMMA PublishEffect ==
    ASSUME ReqInv, ListingsTypeOK, LimitInv, RelaunchInv, NEW t \in Tabs, PublishStep(t)
    PROVE  Only("publish") /\ ListingsTypeOK' /\ LimitInv' /\ RelaunchInv' /\ PublishFrame
  <1>1. CASE createRead(t) \/ relaunchRead(t) \/ canSellerCreateRaffle(t)
    <2>1. Only("publish") /\ UNCHANGED listingVars /\ LimitInv' /\ RelaunchInv'
      BY <1>1, PublishStarts, LimitCheckEffect
    <2>2. UNCHANGED <<raffleVars, moderationVars, reputationVars, cacheVars, suggestionVars>>
      BY <2>1 DEF listingVars
    <2>3. ListingsTypeOK'
      BY <2>2 DEF ListingsTypeOK, raffleVars, moderationVars, reputationVars, cacheVars,
                  suggestionVars
    <2>4. PublishFrame BY <2>2 DEF PublishFrame, raffleVars, moderationVars
    <2> QED BY <2>1, <2>3, <2>4
  <1>2. CASE createWrite(t) \/ relaunchCreate(t) BY <1>2, PublishesEffect
  <1>3. CASE relaunchAccept(t) BY <1>3, AcceptEffect
  <1> QED BY <1>1, <1>2, <1>3 DEF PublishStep

-----------------------------------------------------------------------------
(* Reports and moderation *)

ReportStep(t) ==
    \/ createReportRead(t) \/ createReportWrite(t) \/ countReports(t) \/ hideRaffle(t)
    \/ reviewReport(t) \/ reviewReportAnswer(t) \/ banSeller(t) \/ hideAllOfSeller(t)
    \/ unhideRaffle(t) \/ unhideReviewAll(t)

\* What moderation changes outside of its group.
ReportFrame ==
    /\ UNCHANGED <<estado, delivery, reputationVars, suggestionVars>>
    /\ (UNCHANGED <<hidden, cacheVars>>) \/ SilentChange

TooMany(r) == ~hidden[r] /\ Cardinality(OpenReports(r)) >= AUTO_HIDE_THRESHOLD
Unlisted(r) == estado[r] # "none" /\ ~hidden[r] => r \in exempt
HidesAll(t) == req[t].group = "report" /\ req[t].pc = "hideAll"

LEMMA ModerationParts ==
    ModerationInv <=>
       /\ "report" \notin lost => \A r \in RaffleIds : TooMany(r) => \E t \in Tabs : WillModerate(t, r)
       /\ "report" \notin lost /\ banned = "report" /\ (\A t \in Tabs : ~HidesAll(t))
             => \A r \in RaffleIds : Unlisted(r)
  BY DEF ModerationInv, TooMany, Unlisted, HidesAll, Busy

\* A request of moderation goes on: what is to show of it alone.
LEMMA ModerationMove ==
    ASSUME ModerationInv, NEW t \in Tabs, lost' = lost,
           \A u \in Tabs \ {t} : /\ req'[u].group = req[u].group /\ req'[u].op = req[u].op
                                 /\ req'[u].pc = req[u].pc /\ req'[u].id = req[u].id,
           \A r \in RaffleIds :
              TooMany(r)' => WillModerate(t, r)' \/ (TooMany(r) /\ ~WillModerate(t, r)),
           banned' = "report" /\ ~HidesAll(t)' =>
              \/ \A r \in RaffleIds : Unlisted(r)'
              \/ /\ banned = "report" /\ ~HidesAll(t)
                 /\ \A r \in RaffleIds : Unlisted(r) => Unlisted(r)'
    PROVE  ModerationInv'
  <1>1. ASSUME NEW u \in Tabs \ {t}
        PROVE  /\ \A r \in RaffleIds : WillModerate(u, r) => WillModerate(u, r)'
               /\ HidesAll(u) => HidesAll(u)'
    BY DEF WillModerate, HidesAll
  <1>2. ASSUME "report" \notin lost', NEW r \in RaffleIds, TooMany(r)'
        PROVE  \E s \in Tabs : WillModerate(s, r)'
    <2>1. CASE WillModerate(t, r)' BY <2>1
    <2>2. CASE TooMany(r) /\ ~WillModerate(t, r)
      <3>1. PICK s \in Tabs : WillModerate(s, r) BY <1>2, <2>2, ModerationParts
      <3> QED BY <1>1, <2>2, <3>1
    <2> QED BY <1>2, <2>1, <2>2
  <1>3. ASSUME "report" \notin lost', banned' = "report", \A s \in Tabs : ~HidesAll(s)'
        PROVE  \A r \in RaffleIds : Unlisted(r)'
    <2>1. CASE banned = "report" /\ ~HidesAll(t) /\ \A r \in RaffleIds : Unlisted(r) => Unlisted(r)'
      <3>1. \A s \in Tabs : ~HidesAll(s) BY <1>1, <1>3, <2>1
      <3> QED BY <1>3, <2>1, <3>1, ModerationParts
    <2> QED BY <1>3, <2>1
  <1> QED BY <1>2, <1>3 DEF ModerationInv, TooMany, Unlisted, HidesAll, Busy

LEMMA ReportCounts ==
    ASSUME NEW r \in RaffleIds
    PROVE  /\ Cardinality(OpenReports(r)) \in Nat /\ Cardinality(OpenReports(r)') \in Nat
           /\ OpenReports(r)' \subseteq OpenReports(r) =>
                 Cardinality(OpenReports(r)') <= Cardinality(OpenReports(r))
           /\ OpenReports(r)' = {} => Cardinality(OpenReports(r)') = 0
  <1>1. OpenReports(r) \in SUBSET Reporters /\ OpenReports(r)' \in SUBSET Reporters
    BY DEF OpenReports
  <1> QED BY <1>1, Counting, RaffleIdsFinite

\* Reports that only become fewer, on raffles that are not shown again.
LEMMA FewerReports ==
    ASSUME NEW r \in RaffleIds, OpenReports(r)' \subseteq OpenReports(r), hidden[r] => hidden'[r],
           hidden'[r] \in BOOLEAN, TooMany(r)'
    PROVE  TooMany(r)
  <1>1. Cardinality(OpenReports(r)') >= AUTO_HIDE_THRESHOLD /\ ~hidden'[r] BY DEF TooMany
  <1>2. Cardinality(OpenReports(r)) >= AUTO_HIDE_THRESHOLD
    BY <1>1, ReportCounts, RaffleIdsFinite
  <1> QED BY <1>1, <1>2 DEF TooMany

LEMMA ReportGroup ==
    ASSUME ReqInv, NEW t \in Tabs
    PROVE  /\ req[t].op \in {"createReport", "reviewReport", "unhideRaffle"} => req[t].group = "report"
           /\ req[t].pc = "hide" => req[t].group = "report"
           /\ req[t].group = "report" =>
                 \/ req[t].op = "createReport" /\ req[t].pc \in {"found", "created", "hide"}
                 \/ req[t].op = "reviewReport" /\ req[t].pc \in {"done", "hide", "ban", "hideAll"}
                 \/ req[t].op = "unhideRaffle" /\ req[t].pc = "shown"
  <1>1. CASE req[t].group = "none" BY <1>1, NoneIsNoReq
  <1>2. CASE req[t].group # "none" BY <1>2, NoneIsNoReq DEF ShapeOf, ShapeAs
  <1> QED BY <1>1, <1>2

LEMMA ReportExistMove ==
    ASSUME ReportExist, NEW t \in Tabs,
           \A u \in Tabs \ {t} : /\ req'[u].group = req[u].group /\ req'[u].op = req[u].op
                                 /\ req'[u].id = req[u].id /\ req'[u].by = req[u].by,
           req'[t].group = "report" =>
              req'[t].id \in RaffleIds /\ (req'[t].op = "createReport" => req'[t].by \in Reporters)
    PROVE  ReportExist'
  BY DEF ReportExist

\* What the steps of moderation are to show.
ReportKeeps ==
    Only("report") /\ ListingsTypeOK' /\ ReportExist' /\ ModerationInv' /\ ReportFrame

LEMMA ReportReadEffect ==
    ASSUME ReqInv, ListingsTypeOK, ReportExist, ModerationInv, NEW t \in Tabs, createReportRead(t)
    PROVE  ReportKeeps
  <1>0. /\ "report" \in Groups /\ "listings" \in Areas /\ "createReport" \in Ops
        /\ "found" \in Stages
    BY DEF Groups, Areas, Ops, Stages
  <1>1. PICK r \in Active, u \in Reporters :
           Start(t, "listings", "report", [Request("createReport", "found", r) EXCEPT !.by = u])
    BY DEF createReportRead
  <1>2. UNCHANGED listingVars BY DEF createReportRead
  <1> DEFINE q == [Request("createReport", "found", r) EXCEPT !.by = u]
  <1>3. r \in RaffleIds /\ r \in Nat /\ u \in Nat BY RaffleIdsFinite DEF Active
  <1>4. q \in ReqType
    <2>1. Request("createReport", "found", r) \in ReqType BY <1>0, <1>3, RequestType
    <2> QED BY <1>3, <2>1 DEF ReqType
  <1>5. q.op = "createReport" /\ q.pc = "found" /\ q.id = r /\ q.by = u /\ q.ok = FALSE
    BY DEF Request, NoReq
  <1>6. Start(t, "listings", "report", q) BY <1>1
  <1> HIDE DEF q
  <1>7. ShapeAs("report", q.op, q.pc, q.ok) BY <1>5 DEF ShapeAs
  <1>8. /\ Only("report") /\ lost' = lost /\ req[t].pc = "idle"
        /\ req'[t].op = "createReport" /\ req'[t].pc = "found" /\ req'[t].id = r /\ req'[t].by = u
        /\ \A s \in Tabs \ {t} :
                 /\ req'[s].group = req[s].group /\ req'[s].op = req[s].op
                 /\ req'[s].pc = req[s].pc /\ req'[s].id = req[s].id
                 /\ req'[s].by = req[s].by /\ req'[s].seen = req[s].seen
    BY <1>0, <1>4, <1>5, <1>6, <1>7, RequestStart
  <1>9. UNCHANGED <<raffleVars, moderationVars, reputationVars, cacheVars, suggestionVars>>
    BY <1>2 DEF listingVars
  <1>10. ListingsTypeOK'
    BY <1>9 DEF ListingsTypeOK, raffleVars, moderationVars, reputationVars, cacheVars,
                suggestionVars
  <1>11. ReportFrame BY <1>9 DEF ReportFrame, raffleVars
  <1>12. ReportExist' BY <1>3, <1>8, ReportExistMove
  <1>13. ModerationInv'
    <2>1. \A s \in RaffleIds : (TooMany(s)' <=> TooMany(s)) /\ (Unlisted(s)' <=> Unlisted(s))
      BY <1>9 DEF TooMany, Unlisted, OpenReports, raffleVars, moderationVars
    <2>2. \A s \in RaffleIds : ~WillModerate(t, s) BY <1>8 DEF WillModerate
    <2>3. ~HidesAll(t) BY <1>8 DEF HidesAll
    <2>4. banned' = banned BY <1>9 DEF moderationVars
    <2> QED BY <1>8, <2>1, <2>2, <2>3, <2>4, ModerationMove
  <1> QED BY <1>8, <1>10, <1>11, <1>12, <1>13 DEF ReportKeeps

LEMMA ReportWriteEffect ==
    ASSUME ReqInv, ListingsTypeOK, ReportExist, ModerationInv, NEW t \in Tabs, createReportWrite(t)
    PROVE  ReportKeeps
  <1>0. "report" \in Groups /\ "created" \in Stages BY DEF Groups, Stages
  <1>1. /\ req[t].op = "createReport" /\ req[t].pc = "found"
        /\ \/ Done(t) /\ report' = report
           \/ To(t, "created") /\ report' = [report EXCEPT ![req[t].id][req[t].by] = "open"]
        /\ UNCHANGED <<raffleVars, banned, exempt, reputationVars, cacheVars, suggestionVars>>
    BY DEF createReportWrite, At
  <1>2. req[t].group = "report" BY <1>1, ReportGroup
  <1>3. req[t].id \in RaffleIds /\ req[t].by \in Reporters BY <1>1, <1>2 DEF ReportExist
  <1>4. /\ Only("report") /\ Others(t) /\ lost' = lost
        /\ \/ req'[t].group = "none" /\ report' = report
           \/ /\ req'[t].group = "report" /\ req'[t].op = "createReport" /\ req'[t].pc = "created"
              /\ req'[t].id = req[t].id /\ req'[t].by = req[t].by
              /\ report' = [report EXCEPT ![req[t].id][req[t].by] = "open"]
    <2>1. CASE Done(t) /\ report' = report BY <1>0, <1>2, <2>1, DoneEffect
    <2>2. CASE To(t, "created") /\ report' = [report EXCEPT ![req[t].id][req[t].by] = "open"]
      <3>1. ShapeAs("report", req[t].op, "created", req[t].ok) BY <1>1 DEF ShapeAs
      <3> QED BY <1>0, <1>1, <1>2, <2>2, <3>1, ToEffect
    <2> QED BY <1>1, <2>1, <2>2
  <1>5. report' \in [RaffleIds -> [Reporters -> {"none", "open", "reviewed"}]]
    <2>1. report \in [RaffleIds -> [Reporters -> {"none", "open", "reviewed"}]]
      BY DEF ListingsTypeOK
    <2>2. CASE report' = [report EXCEPT ![req[t].id][req[t].by] = "open"]
      <3> DEFINE row == [report[req[t].id] EXCEPT ![req[t].by] = "open"]
      <3>1. row \in [Reporters -> {"none", "open", "reviewed"}] BY <1>3, <2>1
      <3>2. report' = [report EXCEPT ![req[t].id] = row] BY <2>2
      <3> HIDE DEF row
      <3> QED BY <1>3, <2>1, <3>1, <3>2
    <2> QED BY <1>4, <2>1, <2>2
  <1>6. ListingsTypeOK'
    BY <1>1, <1>5 DEF ListingsTypeOK, raffleVars, reputationVars, cacheVars, suggestionVars
  <1>7. ReportFrame BY <1>1 DEF ReportFrame, raffleVars
  <1>8. ReportExist' BY <1>3, <1>4, ReportExistMove DEF Others
  <1>9. estado' = estado /\ hidden' = hidden /\ exempt' = exempt /\ banned' = banned
    BY <1>1 DEF raffleVars
  <1>10. ASSUME NEW r \in RaffleIds, TooMany(r)'
         PROVE  WillModerate(t, r)' \/ (TooMany(r) /\ ~WillModerate(t, r))
    <2>1. ~WillModerate(t, r) BY <1>1 DEF WillModerate
    <2>2. CASE report' = report
      BY <1>9, <1>10, <2>1, <2>2 DEF TooMany, OpenReports
    <2>3. CASE report' # report /\ r = req[t].id
      BY <1>4, <2>3 DEF WillModerate
    <2>4. CASE report' # report /\ r # req[t].id
      <3>1. report'[r] = report[r] BY <1>4, <2>4 DEF ListingsTypeOK
      <3> QED BY <1>9, <1>10, <2>1, <3>1 DEF TooMany, OpenReports
    <2> QED BY <2>2, <2>3, <2>4
  <1>11. ModerationInv'
    <2>1. ~HidesAll(t) BY <1>1 DEF HidesAll
    <2>2. \A r \in RaffleIds : Unlisted(r) => Unlisted(r)' BY <1>9 DEF Unlisted
    <2>3. \A u \in Tabs \ {t} : /\ req'[u].group = req[u].group /\ req'[u].op = req[u].op
                                /\ req'[u].pc = req[u].pc /\ req'[u].id = req[u].id
      BY <1>4 DEF Others
    <2>4. banned' = banned BY <1>9
    <2> QED BY <1>4, <1>10, <2>1, <2>2, <2>3, <2>4, ModerationMove
  <1> QED BY <1>4, <1>6, <1>7, <1>8, <1>11 DEF ReportKeeps

LEMMA CountEffect ==
    ASSUME ReqInv, ListingsTypeOK, ReportExist, ModerationInv, NEW t \in Tabs,
           countReports(t) \/ reviewReportAnswer(t)
    PROVE  ReportKeeps
  <1>0. "report" \in Groups /\ "hide" \in Stages BY DEF Groups, Stages
  <1>1. /\ UNCHANGED listingVars
        /\ \/ /\ req[t].op = "createReport" /\ req[t].pc = "created"
              /\ \/ To(t, "hide")
                 \/ Done(t) /\ ~(Cardinality(OpenReports(req[t].id)) >= AUTO_HIDE_THRESHOLD)
           \/ req[t].op = "reviewReport" /\ req[t].pc = "done" /\ Done(t)
    BY DEF countReports, reviewReportAnswer, At
  <1>2. req[t].group = "report" BY <1>1, ReportGroup
  <1>3. req[t].id \in RaffleIds /\ (req[t].op = "createReport" => req[t].by \in Reporters)
    BY <1>2 DEF ReportExist
  <1>4. /\ Only("report") /\ Others(t) /\ lost' = lost
        /\ \/ /\ req'[t].group = "report" /\ req[t].op = "createReport" /\ req'[t].pc = "hide"
              /\ req'[t].id = req[t].id /\ req'[t].by = req[t].by
           \/ /\ req'[t].group = "none"
              /\ ~(Cardinality(OpenReports(req[t].id)) >= AUTO_HIDE_THRESHOLD)
           \/ req'[t].group = "none" /\ req[t].op = "reviewReport" /\ req[t].pc = "done"
    <2>1. CASE req[t].op = "createReport" /\ req[t].pc = "created" /\ To(t, "hide")
      <3>1. ShapeAs("report", req[t].op, "hide", req[t].ok) BY <2>1 DEF ShapeAs
      <3> QED BY <1>0, <1>2, <2>1, <3>1, ToEffect
    <2>2. CASE /\ Done(t)
               /\ \/ ~(Cardinality(OpenReports(req[t].id)) >= AUTO_HIDE_THRESHOLD)
                  \/ req[t].op = "reviewReport" /\ req[t].pc = "done"
      BY <1>0, <1>2, <2>2, DoneEffect
    <2> QED BY <1>1, <2>1, <2>2
  <1>5. UNCHANGED <<raffleVars, moderationVars, reputationVars, cacheVars, suggestionVars>>
    BY <1>1 DEF listingVars
  <1>6. ListingsTypeOK'
    BY <1>5 DEF ListingsTypeOK, raffleVars, moderationVars, reputationVars, cacheVars,
                suggestionVars
  <1>7. ReportFrame BY <1>5 DEF ReportFrame, raffleVars
  <1>8. ReportExist' BY <1>3, <1>4, ReportExistMove DEF Others
  <1>9. /\ \A r \in RaffleIds : (TooMany(r)' <=> TooMany(r)) /\ (Unlisted(r)' <=> Unlisted(r))
        /\ banned' = banned
    BY <1>5 DEF TooMany, Unlisted, OpenReports, raffleVars, moderationVars
  <1>10. ASSUME NEW r \in RaffleIds, TooMany(r)'
         PROVE  WillModerate(t, r)' \/ (TooMany(r) /\ ~WillModerate(t, r))
    <2>1. TooMany(r) BY <1>9, <1>10
    <2>2. CASE req'[t].pc = "hide" /\ req'[t].group = "report" /\ req'[t].id = req[t].id
      BY <2>1, <2>2 DEF WillModerate
    <2>3. CASE ~(Cardinality(OpenReports(req[t].id)) >= AUTO_HIDE_THRESHOLD)
      BY <2>1, <2>3 DEF TooMany, WillModerate
    <2>4. CASE req[t].op = "reviewReport" /\ req[t].pc = "done"
      BY <2>1, <2>4 DEF WillModerate
    <2> QED BY <1>4, <2>2, <2>3, <2>4
  <1>11. ModerationInv'
    <2>1. ~HidesAll(t) BY <1>1 DEF HidesAll
    <2>2. \A u \in Tabs \ {t} : /\ req'[u].group = req[u].group /\ req'[u].op = req[u].op
                                /\ req'[u].pc = req[u].pc /\ req'[u].id = req[u].id
      BY <1>4 DEF Others
    <2> QED BY <1>4, <1>9, <1>10, <2>1, <2>2, ModerationMove
  <1> QED BY <1>4, <1>6, <1>7, <1>8, <1>11 DEF ReportKeeps

LEMMA HideEffect ==
    ASSUME ReqInv, ListingsTypeOK, ReportExist, ModerationInv, NEW t \in Tabs,
           hideRaffle(t) \/ hideAllOfSeller(t)
    PROVE  ReportKeeps
  <1>0. "report" \in Groups BY DEF Groups
  <1>1. /\ SilentChange /\ Done(t)
        /\ UNCHANGED <<estado, delivery, report, banned, reputationVars, suggestionVars>>
        /\ \/ /\ req[t].pc = "hide" /\ exempt' = exempt
              /\ hidden' = [hidden EXCEPT ![req[t].id] = TRUE]
           \/ /\ req[t].op = "reviewReport" /\ req[t].pc = "hideAll" /\ exempt' = {}
              /\ hidden' = [r \in RaffleIds |-> hidden[r] \/ estado[r] # "none"]
    BY DEF hideRaffle, hideAllOfSeller, At, moderationVars
  <1>2. req[t].group = "report" BY <1>1, ReportGroup
  <1>3. req[t].id \in RaffleIds BY <1>2 DEF ReportExist
  <1>4. Only("report") /\ Others(t) /\ lost' = lost /\ req'[t].group = "none"
    BY <1>0, <1>1, <1>2, DoneEffect
  <1>5. /\ hidden' \in [RaffleIds -> BOOLEAN] /\ \A r \in RaffleIds : hidden[r] => hidden'[r]
        /\ exempt' \subseteq RaffleIds
    BY <1>1, <1>3 DEF ListingsTypeOK
  <1>6. ListingsTypeOK'
    <2>1. /\ cache' = cache /\ tracked' = tracked /\ wipes' = wipes
          /\ stale' \subseteq {"raced", "hidden", "crash"}
      BY <1>1, SilentType
    <2> QED BY <1>1, <1>5, <2>1 DEF ListingsTypeOK, reputationVars, suggestionVars
  <1>7. ReportFrame BY <1>1 DEF ReportFrame
  <1>8. ReportExist' BY <1>4, ReportExistMove DEF Others
  <1>10. ASSUME NEW r \in RaffleIds, TooMany(r)'
         PROVE  TooMany(r) /\ ~WillModerate(t, r)
    <2>1. OpenReports(r)' = OpenReports(r) BY <1>1 DEF OpenReports
    <2>2. TooMany(r) BY <1>5, <1>10, <2>1, FewerReports
    <2>3. ~WillModerate(t, r)
      <3>1. CASE req[t].pc = "hide" /\ hidden' = [hidden EXCEPT ![req[t].id] = TRUE]
        <4>1. hidden'[req[t].id] BY <1>3, <3>1 DEF ListingsTypeOK
        <4> QED BY <1>10, <4>1 DEF TooMany, WillModerate
      <3>2. CASE req[t].op = "reviewReport" /\ req[t].pc = "hideAll"
        BY <3>2 DEF WillModerate
      <3> QED BY <1>1, <3>1, <3>2
    <2> QED BY <2>2, <2>3
  <1>11. ModerationInv'
    <2>1. \/ \A r \in RaffleIds : Unlisted(r)'
          \/ ~HidesAll(t) /\ \A r \in RaffleIds : Unlisted(r) => Unlisted(r)'
      <3>1. CASE req[t].pc = "hide" /\ exempt' = exempt
        BY <1>1, <1>5, <3>1 DEF Unlisted, HidesAll
      <3>2. CASE hidden' = [r \in RaffleIds |-> hidden[r] \/ estado[r] # "none"]
        BY <1>1, <3>2 DEF Unlisted
      <3> QED BY <1>1, <3>1, <3>2
    <2>2. \A u \in Tabs \ {t} : /\ req'[u].group = req[u].group /\ req'[u].op = req[u].op
                                /\ req'[u].pc = req[u].pc /\ req'[u].id = req[u].id
      BY <1>4 DEF Others
    <2> QED BY <1>1, <1>4, <1>10, <2>1, <2>2, ModerationMove
  <1> QED BY <1>4, <1>6, <1>7, <1>8, <1>11 DEF ReportKeeps

\* A row of reports in which one or all open ones are reviewed.
LEMMA ReviewedType ==
    ASSUME ListingsTypeOK, NEW r \in RaffleIds, NEW row \in [Reporters -> {"none", "open", "reviewed"}],
           report' = [report EXCEPT ![r] = row],
           \A u \in Reporters : row[u] = "open" => report[r][u] = "open"
    PROVE  /\ report' \in [RaffleIds -> [Reporters -> {"none", "open", "reviewed"}]]
           /\ \A q \in RaffleIds : OpenReports(q)' \subseteq OpenReports(q)
           /\ OpenReports(r)' = {u \in Reporters : row[u] = "open"}
  <1>1. report \in [RaffleIds -> [Reporters -> {"none", "open", "reviewed"}]]
    BY DEF ListingsTypeOK
  <1>2. report' \in [RaffleIds -> [Reporters -> {"none", "open", "reviewed"}]] BY <1>1
  <1>3. report'[r] = row /\ \A q \in RaffleIds \ {r} : report'[q] = report[q] BY <1>1
  <1>4. \A q \in RaffleIds : OpenReports(q)' \subseteq OpenReports(q) BY <1>3 DEF OpenReports
  <1> QED BY <1>2, <1>3, <1>4 DEF OpenReports

LEMMA ReviewEffect ==
    ASSUME ReqInv, ListingsTypeOK, ReportExist, ModerationInv, NEW t \in Tabs, reviewReport(t)
    PROVE  ReportKeeps
  <1>0. /\ "report" \in Groups /\ "listings" \in Areas /\ "reviewReport" \in Ops
        /\ ReviewDecisions \subseteq Stages
    BY DEF Groups, Areas, Ops, Stages, ReviewDecisions
  <1>1. PICK r \in RaffleIds, u \in Reporters, next \in ReviewDecisions :
           /\ Start(t, "listings", "report", Request("reviewReport", next, r))
           /\ report' = [report EXCEPT ![r][u] = "reviewed"]
           /\ UNCHANGED <<raffleVars, banned, exempt, reputationVars, cacheVars, suggestionVars>>
    BY DEF reviewReport
  <1> DEFINE q == Request("reviewReport", next, r)
             row == [report[r] EXCEPT ![u] = "reviewed"]
  <1>3. r \in Nat /\ next \in Stages BY <1>0, RaffleIdsFinite
  <1>4. q \in ReqType BY <1>0, <1>3, RequestType
  <1>5. q.op = "reviewReport" /\ q.pc = next /\ q.id = r /\ q.ok = FALSE
    BY DEF Request, NoReq
  <1>6. Start(t, "listings", "report", q) BY <1>1
  <1> HIDE DEF q
  <1>7. ShapeAs("report", q.op, q.pc, q.ok) BY <1>5 DEF ShapeAs, ReviewDecisions
  <1>8. /\ Only("report") /\ lost' = lost /\ req[t].pc = "idle"
        /\ req'[t].op = "reviewReport" /\ req'[t].id = r
        /\ \A s \in Tabs \ {t} :
                 /\ req'[s].group = req[s].group /\ req'[s].op = req[s].op
                 /\ req'[s].pc = req[s].pc /\ req'[s].id = req[s].id
                 /\ req'[s].by = req[s].by /\ req'[s].seen = req[s].seen
    BY <1>0, <1>4, <1>5, <1>6, <1>7, RequestStart
  <1>9. /\ report' \in [RaffleIds -> [Reporters -> {"none", "open", "reviewed"}]]
        /\ \A s \in RaffleIds : OpenReports(s)' \subseteq OpenReports(s)
    <2>1. report' = [report EXCEPT ![r] = row] BY <1>1
    <2>2. row \in [Reporters -> {"none", "open", "reviewed"}] BY DEF ListingsTypeOK
    <2>3. \A v \in Reporters : row[v] = "open" => report[r][v] = "open" BY DEF ListingsTypeOK
    <2> HIDE DEF row
    <2> QED BY <2>1, <2>2, <2>3, ReviewedType
  <1>10. ListingsTypeOK'
    BY <1>1, <1>9 DEF ListingsTypeOK, raffleVars, reputationVars, cacheVars, suggestionVars
  <1>11. ReportFrame BY <1>1 DEF ReportFrame, raffleVars
  <1>12. ReportExist' BY <1>8, ReportExistMove
  <1>13. estado' = estado /\ hidden' = hidden /\ exempt' = exempt /\ banned' = banned
    BY <1>1 DEF raffleVars
  <1>14. ModerationInv'
    <2>1. \A s \in RaffleIds : Unlisted(s) => Unlisted(s)' BY <1>13 DEF Unlisted
    <2>2. \A s \in RaffleIds : TooMany(s)' => TooMany(s)
      BY <1>9, <1>13, FewerReports DEF ListingsTypeOK
    <2>3. \A s \in RaffleIds : ~WillModerate(t, s) BY <1>8 DEF WillModerate
    <2>4. ~HidesAll(t) BY <1>8 DEF HidesAll
    <2> QED BY <1>8, <1>13, <2>1, <2>2, <2>3, <2>4, ModerationMove
  <1> QED BY <1>8, <1>10, <1>11, <1>12, <1>14 DEF ReportKeeps

LEMMA BanEffect ==
    ASSUME ReqInv, ListingsTypeOK, ReportExist, ModerationInv, NEW t \in Tabs, banSeller(t)
    PROVE  ReportKeeps
  <1>0. "report" \in Groups /\ "hideAll" \in Stages BY DEF Groups, Stages
  <1>1. /\ req[t].op = "reviewReport" /\ req[t].pc = "ban" /\ banned' = "report" /\ To(t, "hideAll")
        /\ UNCHANGED <<report, exempt, raffleVars, reputationVars, cacheVars, suggestionVars>>
    BY DEF banSeller, At
  <1>2. req[t].group = "report" BY <1>1, ReportGroup
  <1>3. req[t].id \in RaffleIds BY <1>2 DEF ReportExist
  <1>4. ShapeAs("report", req[t].op, "hideAll", req[t].ok) BY <1>1 DEF ShapeAs
  <1>5. /\ Only("report") /\ Others(t) /\ lost' = lost /\ req'[t].group = "report"
        /\ req'[t].op = "reviewReport" /\ req'[t].pc = "hideAll" /\ req'[t].id = req[t].id
    BY <1>0, <1>1, <1>2, <1>4, ToEffect
  <1>6. ListingsTypeOK'
    BY <1>1 DEF ListingsTypeOK, raffleVars, reputationVars, cacheVars, suggestionVars
  <1>7. ReportFrame BY <1>1 DEF ReportFrame, raffleVars
  <1>8. ReportExist' BY <1>3, <1>5, ReportExistMove DEF Others
  <1>9. ModerationInv'
    <2>1. \A r \in RaffleIds : TooMany(r)' => TooMany(r)
      BY <1>1 DEF TooMany, OpenReports, raffleVars
    <2>2. \A r \in RaffleIds : ~WillModerate(t, r) BY <1>1 DEF WillModerate
    <2>3. HidesAll(t)' BY <1>5 DEF HidesAll
    <2>4. \A u \in Tabs \ {t} : /\ req'[u].group = req[u].group /\ req'[u].op = req[u].op
                                /\ req'[u].pc = req[u].pc /\ req'[u].id = req[u].id
      BY <1>5 DEF Others
    <2> QED BY <1>5, <2>1, <2>2, <2>3, <2>4, ModerationMove
  <1> QED BY <1>5, <1>6, <1>7, <1>8, <1>9 DEF ReportKeeps

LEMMA UnhideEffect ==
    ASSUME ReqInv, ListingsTypeOK, ReportExist, ModerationInv, NEW t \in Tabs, unhideRaffle(t)
    PROVE  ReportKeeps
  <1>0. /\ "report" \in Groups /\ "listings" \in Areas /\ "unhideRaffle" \in Ops
        /\ "shown" \in Stages
    BY DEF Groups, Areas, Ops, Stages
  <1>1. PICK r \in RaffleIds :
           /\ Start(t, "listings", "report", Request("unhideRaffle", "shown", r))
           /\ hidden' = [hidden EXCEPT ![r] = FALSE]
           /\ exempt' = exempt \cup {r}
           /\ SilentChange
           /\ UNCHANGED <<estado, delivery, report, banned, reputationVars, suggestionVars>>
    BY DEF unhideRaffle
  <1> DEFINE q == Request("unhideRaffle", "shown", r)
  <1>3. r \in Nat BY RaffleIdsFinite
  <1>4. q \in ReqType BY <1>0, <1>3, RequestType
  <1>5. q.op = "unhideRaffle" /\ q.pc = "shown" /\ q.id = r /\ q.ok = FALSE
    BY DEF Request, NoReq
  <1>6. Start(t, "listings", "report", q) BY <1>1
  <1> HIDE DEF q
  <1>7. ShapeAs("report", q.op, q.pc, q.ok) BY <1>5 DEF ShapeAs
  <1>8. /\ Only("report") /\ lost' = lost /\ req[t].pc = "idle" /\ req'[t].group = "report"
        /\ req'[t].op = "unhideRaffle" /\ req'[t].pc = "shown" /\ req'[t].id = r
        /\ \A s \in Tabs \ {t} :
                 /\ req'[s].group = req[s].group /\ req'[s].op = req[s].op
                 /\ req'[s].pc = req[s].pc /\ req'[s].id = req[s].id
                 /\ req'[s].by = req[s].by /\ req'[s].seen = req[s].seen
    BY <1>0, <1>4, <1>5, <1>6, <1>7, RequestStart
  <1>9. /\ hidden' \in [RaffleIds -> BOOLEAN] /\ exempt' \subseteq RaffleIds
        /\ \A s \in RaffleIds \ {r} : hidden'[s] = hidden[s]
    BY <1>1 DEF ListingsTypeOK
  <1>10. ListingsTypeOK'
    <2>1. /\ cache' = cache /\ tracked' = tracked /\ wipes' = wipes
          /\ stale' \subseteq {"raced", "hidden", "crash"}
      BY <1>1, SilentType
    <2> QED BY <1>1, <1>9, <2>1 DEF ListingsTypeOK, reputationVars, suggestionVars
  <1>11. ReportFrame BY <1>1 DEF ReportFrame
  <1>12. ReportExist' BY <1>8, ReportExistMove
  <1>13. ModerationInv'
    <2>1. \A s \in RaffleIds : Unlisted(s) => Unlisted(s)' BY <1>1, <1>9 DEF Unlisted
    <2>2. ASSUME NEW s \in RaffleIds, TooMany(s)'
          PROVE  WillModerate(t, s)' \/ (TooMany(s) /\ ~WillModerate(t, s))
      <3>1. CASE s = r BY <1>8, <3>1 DEF WillModerate
      <3>2. CASE s # r
        <4>1. TooMany(s) BY <1>1, <1>9, <2>2, <3>2 DEF TooMany, OpenReports
        <4>2. ~WillModerate(t, s) BY <1>8 DEF WillModerate
        <4> QED BY <4>1, <4>2
      <3> QED BY <3>1, <3>2
    <2>3. ~HidesAll(t) BY <1>8 DEF HidesAll
    <2> QED BY <1>1, <1>8, <2>1, <2>2, <2>3, ModerationMove
  <1> QED BY <1>8, <1>10, <1>11, <1>12, <1>13 DEF ReportKeeps

LEMMA UnhideReviewEffect ==
    ASSUME ReqInv, ListingsTypeOK, ReportExist, ModerationInv, NEW t \in Tabs, unhideReviewAll(t)
    PROVE  ReportKeeps
  <1>0. "report" \in Groups BY DEF Groups
  <1>1. /\ req[t].op = "unhideRaffle" /\ req[t].pc = "shown" /\ Done(t)
        /\ report' = [report EXCEPT ![req[t].id] =
                        [u \in Reporters |-> IF report[req[t].id][u] = "open" THEN "reviewed"
                                              ELSE report[req[t].id][u]]]
        /\ UNCHANGED <<banned, exempt, raffleVars, reputationVars, cacheVars, suggestionVars>>
    BY DEF unhideReviewAll, At
  <1>2. req[t].group = "report" BY <1>1, ReportGroup
  <1>3. PICK r \in RaffleIds : r = req[t].id BY <1>2 DEF ReportExist
  <1> DEFINE row == [u \in Reporters |-> IF report[r][u] = "open" THEN "reviewed" ELSE report[r][u]]
  <1>4. Only("report") /\ Others(t) /\ lost' = lost /\ req'[t].group = "none"
    BY <1>0, <1>1, <1>2, DoneEffect
  <1>5. /\ report' \in [RaffleIds -> [Reporters -> {"none", "open", "reviewed"}]]
        /\ \A s \in RaffleIds : OpenReports(s)' \subseteq OpenReports(s)
        /\ OpenReports(r)' = {}
    <2>1. row \in [Reporters -> {"none", "open", "reviewed"}] BY DEF ListingsTypeOK
    <2>2. \A v \in Reporters : row[v] # "open" OBVIOUS
    <2>3. report' = [report EXCEPT ![r] = row] BY <1>1, <1>3
    <2> HIDE DEF row
    <2> QED BY <2>1, <2>2, <2>3, ReviewedType
  <1>6. ListingsTypeOK'
    BY <1>1, <1>5 DEF ListingsTypeOK, raffleVars, reputationVars, cacheVars, suggestionVars
  <1>7. ReportFrame BY <1>1 DEF ReportFrame, raffleVars
  <1>8. ReportExist' BY <1>4, ReportExistMove DEF Others
  <1>9. estado' = estado /\ hidden' = hidden /\ exempt' = exempt /\ banned' = banned
    BY <1>1 DEF raffleVars
  <1>10. ASSUME NEW s \in RaffleIds, TooMany(s)'
         PROVE  TooMany(s) /\ ~WillModerate(t, s)
    <2>1. TooMany(s) BY <1>5, <1>9, <1>10, FewerReports DEF ListingsTypeOK
    <2>2. s # r
      BY <1>5, <1>10, ReportCounts, RaffleIdsFinite DEF TooMany
    <2> QED BY <1>3, <2>1, <2>2 DEF WillModerate
  <1>11. ModerationInv'
    <2>1. ~HidesAll(t) BY <1>1 DEF HidesAll
    <2>2. \A s \in RaffleIds : Unlisted(s) => Unlisted(s)' BY <1>9 DEF Unlisted
    <2>3. \A u \in Tabs \ {t} : /\ req'[u].group = req[u].group /\ req'[u].op = req[u].op
                                /\ req'[u].pc = req[u].pc /\ req'[u].id = req[u].id
      BY <1>4 DEF Others
    <2> QED BY <1>4, <1>9, <1>10, <2>1, <2>2, <2>3, ModerationMove
  <1> QED BY <1>4, <1>6, <1>7, <1>8, <1>11 DEF ReportKeeps

LEMMA ReportEffect ==
    ASSUME ReqInv, ListingsTypeOK, ReportExist, ModerationInv, NEW t \in Tabs, ReportStep(t)
    PROVE  Only("report") /\ ListingsTypeOK' /\ ReportExist' /\ ModerationInv' /\ ReportFrame
  BY ReportReadEffect, ReportWriteEffect, CountEffect, HideEffect, ReviewEffect, BanEffect,
     UnhideEffect, UnhideReviewEffect DEF ReportStep, ReportKeeps

-----------------------------------------------------------------------------
(* Deliveries and reputation *)

DeliveryStep(t) ==
    \/ confirmDeliveryRead(t) \/ confirmIncrement(t) \/ confirmWrite(t)
    \/ reviewRead(t) \/ reviewWrite(t) \/ recalculateRead(t)
    \/ recalculateSellerReputation(t)

\* What deliveries change outside of their group.
SendsOne ==
    /\ \E r \in RaffleIds : estado[r] # "none" /\ estado' = [estado EXCEPT ![r] = "EN_ENTREGA"]
    /\ invalidateRaffleCache
DeliveryFrame ==
    /\ UNCHANGED <<hidden, moderationVars, suggestionVars>>
    /\ granted' >= granted /\ (maxRifas <= granted => maxRifas' <= granted')
    /\ (UNCHANGED <<estado, cacheVars>>) \/ SendsOne
DeliveryKeeps ==
    Only("delivery") /\ ListingsTypeOK' /\ DeliveryExist' /\ SalesInv' /\ DeliveryFrame

LEMMA DeliveryGroup ==
    ASSUME ReqInv, NEW t \in Tabs
    PROVE  /\ req[t].op \in {"confirm", "review"} => req[t].group = "delivery"
           /\ req[t].op = "confirm" => req[t].pc \in {"found", "counted"}
           /\ req[t].group = "delivery" => req[t].op \in {"confirm", "review"}
  <1>1. CASE req[t].group = "none" BY <1>1, NoneIsNoReq
  <1>2. CASE req[t].group # "none" BY <1>2, NoneIsNoReq DEF ShapeOf, ShapeAs
  <1> QED BY <1>1, <1>2

LEMMA GoingSets ==
    ASSUME ReqInv, DeliveryExist
    PROVE  /\ Confirmed \in SUBSET RaffleIds /\ Going \in SUBSET RaffleIds
           /\ Confirming \in SUBSET Tabs /\ Uncounted \in SUBSET Tabs
           /\ Uncounted \subseteq Confirming
  <1>1. \A t \in Confirming : req[t].id \in RaffleIds
    BY DeliveryGroup DEF Confirming, DeliveryExist
  <1> QED BY <1>1 DEF Confirmed, Going, Confirming, Uncounted, At

LEMMA SalesCounts ==
    ASSUME ReqInv, ListingsTypeOK, DeliveryExist
    PROVE  /\ Cardinality(Confirmed) \in Nat /\ Cardinality(Going) \in Nat
           /\ Cardinality(Confirming) \in Nat /\ Cardinality(Uncounted) \in Nat
           /\ Cardinality(Uncounted) <= Cardinality(Confirming)
           /\ ventas \in Nat /\ counted \in Nat /\ overlaps["delivery"] \in Nat
  <1>1. /\ Cardinality(Confirmed) \in Nat /\ Cardinality(Going) \in Nat
    BY GoingSets, Counting, RaffleIdsFinite
  <1>2. /\ Cardinality(Confirming) \in Nat /\ Cardinality(Uncounted) \in Nat
        /\ Cardinality(Uncounted) <= Cardinality(Confirming)
    BY GoingSets, Counting, TabsFinite
  <1>3. ventas \in Nat /\ counted \in Nat BY DEF ListingsTypeOK
  <1>4. overlaps["delivery"] \in Nat BY DEF ReqInv, Counted
  <1> QED BY <1>1, <1>2, <1>3, <1>4

LEMMA DeliveryExistMove ==
    ASSUME DeliveryExist, NEW t \in Tabs,
           \A u \in Tabs \ {t} : /\ req'[u].group = req[u].group /\ req'[u].op = req[u].op
                                 /\ req'[u].id = req[u].id,
           \A r \in RaffleIds : delivery[r] # "PENDING" => delivery'[r] # "PENDING",
           \A r \in RaffleIds : delivery'[r] # "PENDING" =>
               delivery[r] # "PENDING" /\ (estado[r] # "none" => estado'[r] # "none"),
           req'[t].group = "delivery" =>
               req'[t].id \in RaffleIds /\ (req'[t].op = "confirm" => delivery'[req'[t].id] # "PENDING")
    PROVE  DeliveryExist'
  BY DEF DeliveryExist

LEMMA ConfirmReadEffect ==
    ASSUME ReqInv, ListingsTypeOK, DeliveryExist, SalesInv, NEW t \in Tabs, confirmDeliveryRead(t)
    PROVE  DeliveryKeeps
  <1>0. /\ "delivery" \in Groups /\ "listings" \in Areas /\ "confirm" \in Ops
        /\ "found" \in Stages /\ "delivery" \in Counted
    BY DEF Groups, Areas, Ops, Stages, Counted
  <1>1. PICK r \in RaffleIds :
           delivery[r] = "SHIPPED" /\ Start(t, "listings", "delivery", Request("confirm", "found", r))
    BY DEF confirmDeliveryRead
  <1>2. UNCHANGED listingVars BY DEF confirmDeliveryRead
  <1> DEFINE q == Request("confirm", "found", r)
  <1>3. r \in Nat BY RaffleIdsFinite
  <1>4. q \in ReqType BY <1>0, <1>3, RequestType
  <1>5. q.op = "confirm" /\ q.pc = "found" /\ q.id = r /\ q.ok = FALSE BY DEF Request, NoReq
  <1>6. Start(t, "listings", "delivery", q) BY <1>1
  <1> HIDE DEF q
  <1>7. ShapeAs("delivery", q.op, q.pc, q.ok) BY <1>5 DEF ShapeAs
  <1>8. /\ Only("delivery") /\ req[t].op = "none" /\ req'[t].group = "delivery"
        /\ req'[t].op = "confirm" /\ req'[t].pc = "found" /\ req'[t].id = r
        /\ \A s \in Tabs \ {t} :
                 /\ req'[s].group = req[s].group /\ req'[s].op = req[s].op
                 /\ req'[s].pc = req[s].pc /\ req'[s].id = req[s].id
                 /\ req'[s].by = req[s].by /\ req'[s].seen = req[s].seen
        /\ overlaps'["delivery"] = overlaps["delivery"] + (IF Quiet("delivery") THEN 0 ELSE 1)
    BY <1>0, <1>4, <1>5, <1>6, <1>7, RequestStart
  <1>9. UNCHANGED <<raffleVars, moderationVars, reputationVars, cacheVars, suggestionVars>>
    BY <1>2 DEF listingVars
  <1>9a. /\ estado' = estado /\ delivery' = delivery /\ ventas' = ventas /\ maxRifas' = maxRifas
         /\ counted' = counted /\ granted' = granted
    BY <1>9 DEF raffleVars, reputationVars
  <1>10. ListingsTypeOK'
    BY <1>9 DEF ListingsTypeOK, raffleVars, moderationVars, reputationVars, cacheVars,
                suggestionVars
  <1>11. DeliveryFrame
    <2>1. granted' >= granted BY <1>9a, RaffleIdsFinite DEF ListingsTypeOK
    <2> QED BY <1>9, <1>9a, <2>1 DEF DeliveryFrame, raffleVars
  <1>12. DeliveryExist' BY <1>1, <1>8, <1>9a, DeliveryExistMove
  <1>13. /\ Confirmed' = Confirmed /\ Confirming' = Confirming \cup {t} /\ t \notin Confirming
         /\ Uncounted' = Uncounted \cup {t} /\ t \notin Uncounted
         /\ Going' = Going \cup {r} /\ r \notin Confirmed
    <2>1. Confirmed' = Confirmed /\ r \notin Confirmed BY <1>1, <1>9a DEF Confirmed
    <2>2. Confirming' = Confirming \cup {t} /\ t \notin Confirming BY <1>8 DEF Confirming
    <2>3. Uncounted' = Uncounted \cup {t} /\ t \notin Uncounted BY <1>8 DEF Uncounted, At
    <2>4. Going' = Going \cup {r}
      <3>1. {req'[s].id : s \in Confirming'} = {req[s].id : s \in Confirming} \cup {r}
        BY <1>8, <2>2 DEF Confirming
      <3> QED BY <2>1, <3>1 DEF Going
    <2> QED BY <2>1, <2>2, <2>3, <2>4
  <1>14. /\ Cardinality(Confirming') = Cardinality(Confirming) + 1
         /\ Cardinality(Uncounted') = Cardinality(Uncounted) + 1
         /\ Cardinality(Going') = Cardinality(Going) + (IF r \in Going THEN 0 ELSE 1)
    <2>1. IsFiniteSet(Confirming) /\ IsFiniteSet(Uncounted) /\ IsFiniteSet(Going)
      BY GoingSets, Counting, TabsFinite, RaffleIdsFinite
    <2>2. Cardinality(Confirming') = Cardinality(Confirming) + 1 BY <1>13, <2>1, FS_AddElement
    <2>3. Cardinality(Uncounted') = Cardinality(Uncounted) + 1 BY <1>13, <2>1, FS_AddElement
    <2>4. Cardinality(Going \cup {r}) = (IF r \in Going THEN Cardinality(Going) ELSE Cardinality(Going) + 1)
      BY <2>1, FS_AddElement
    <2> QED BY <1>13, <2>2, <2>3, <2>4, SalesCounts
  <1>15. Quiet("delivery") => r \notin Going
    <2>1. Quiet("delivery") => Confirming = {} BY DeliveryGroup DEF Quiet, Busy, Confirming
    <2> QED BY <1>13, <2>1 DEF Going
  <1>16. SalesInv'
    <2>1. /\ ventas' + Cardinality(Uncounted')
                <= Cardinality(Going') + overlaps'["delivery"] + counted'
          /\ Cardinality(Confirmed') + Cardinality(Confirming')
                <= Cardinality(Going') + overlaps'["delivery"]
      BY <1>8, <1>9a, <1>13, <1>14, <1>15, SalesCounts DEF SalesInv
    <2>2. \A s \in Tabs : At(s, "review", "computed")' => req'[s].seen \subseteq Confirmed'
      BY <1>8, <1>13 DEF SalesInv, At
    <2>3. \A s \in RaffleIds : estado'[s] = "FINALIZADA" => s \in Confirmed'
      BY <1>9a, <1>13 DEF SalesInv
    <2> QED BY <2>1, <2>2, <2>3 DEF SalesInv
  <1> QED BY <1>8, <1>10, <1>11, <1>12, <1>16 DEF DeliveryKeeps

\* The counter goes up, or the delivery is written.
LEMMA ConfirmEffect ==
    ASSUME ReqInv, ListingsTypeOK, DeliveryExist, SalesInv, NEW t \in Tabs,
           confirmIncrement(t) \/ confirmWrite(t)
    PROVE  DeliveryKeeps
  <1>0. "delivery" \in Groups /\ "counted" \in Stages BY DEF Groups, Stages
  <1>1. /\ req[t].op = "confirm"
        /\ UNCHANGED <<hidden, moderationVars, maxRifas, review, counted, granted, suggestionVars>>
        /\ \/ /\ req[t].pc = "found" /\ To(t, "counted") /\ ventas' = ventas + 1
              /\ UNCHANGED <<estado, delivery, cacheVars>>
           \/ /\ req[t].pc = "counted" /\ Done(t) /\ ventas' = ventas
              /\ delivery' = [delivery EXCEPT ![req[t].id] = "CONFIRMED"]
              /\ estado' = [estado EXCEPT ![req[t].id] = "EN_ENTREGA"]
              /\ invalidateRaffleCache
    BY DEF confirmIncrement, confirmWrite, At, raffleVars, reputationVars
  <1>2. req[t].group = "delivery" BY <1>1, DeliveryGroup
  <1>3. PICK r \in RaffleIds : r = req[t].id /\ delivery[r] # "PENDING"
    BY <1>1, <1>2 DEF DeliveryExist
  <1>4. /\ Only("delivery") /\ Others(t) /\ overlaps' = overlaps
        /\ \/ /\ req[t].pc = "found" /\ ventas' = ventas + 1
              /\ UNCHANGED <<estado, delivery, cacheVars>>
              /\ req'[t].group = "delivery" /\ req'[t].op = "confirm" /\ req'[t].pc = "counted"
              /\ req'[t].id = req[t].id
           \/ /\ req[t].pc = "counted" /\ ventas' = ventas
              /\ delivery' = [delivery EXCEPT ![r] = "CONFIRMED"]
              /\ estado' = [estado EXCEPT ![r] = "EN_ENTREGA"]
              /\ invalidateRaffleCache
              /\ req'[t].group = "none" /\ req'[t].op = "none"
    <2>1. CASE req[t].pc = "found" /\ To(t, "counted")
      <3>1. ShapeAs("delivery", req[t].op, "counted", req[t].ok) BY <1>1 DEF ShapeAs
      <3> QED BY <1>0, <1>1, <1>2, <2>1, <3>1, ToEffect
    <2>2. CASE req[t].pc = "counted" /\ Done(t) BY <1>0, <1>1, <1>2, <1>3, <2>2, DoneEffect DEF NoReq
    <2> QED BY <1>1, <2>1, <2>2
  <1>5. /\ estado[r] # "none"
        /\ \A u \in Tabs \ {t} : /\ req'[u].group = req[u].group /\ req'[u].op = req[u].op
                                 /\ req'[u].pc = req[u].pc /\ req'[u].id = req[u].id
                                 /\ req'[u].seen = req[u].seen
    BY <1>3, <1>4 DEF DeliveryExist, Others
  <1>6. /\ delivery' \in [RaffleIds -> {"PENDING", "SHIPPED", "CONFIRMED"}]
        /\ estado' \in [RaffleIds -> RaffleStates]
        /\ \A s \in RaffleIds : /\ delivery'[s] # "PENDING" <=> delivery[s] # "PENDING"
                                /\ estado[s] # "none" => estado'[s] # "none"
                                /\ estado'[s] = "FINALIZADA" => estado[s] = "FINALIZADA"
    BY <1>3, <1>4 DEF ListingsTypeOK, RaffleStates
  <1>7. ListingsTypeOK'
    <2>1. /\ cache' = NoList \/ cache' \subseteq RaffleIds
          /\ tracked' \in BOOLEAN /\ wipes' \in [DOMAIN NoWipes -> Nat]
          /\ stale' \subseteq {"raced", "hidden", "crash"}
      <3>1. CASE UNCHANGED cacheVars BY <3>1 DEF cacheVars, ListingsTypeOK
      <3>2. CASE invalidateRaffleCache BY <3>2, InvalidateType DEF ListingsTypeOK
      <3> QED BY <1>4, <3>1, <3>2
    <2>2. ventas' \in Nat BY <1>4 DEF ListingsTypeOK
    <2> QED BY <1>1, <1>6, <2>1, <2>2 DEF ListingsTypeOK, moderationVars, suggestionVars
  <1>8. DeliveryFrame
    <2>1. granted' >= granted BY <1>1, RaffleIdsFinite DEF ListingsTypeOK
    <2>2. (UNCHANGED <<estado, cacheVars>>) \/ SendsOne BY <1>4, <1>5 DEF SendsOne
    <2> QED BY <1>1, <2>1, <2>2 DEF DeliveryFrame
  <1>9. DeliveryExist'
    <2>1. req'[t].group = "delivery" => req'[t].id \in RaffleIds /\ delivery'[req'[t].id] # "PENDING"
      BY <1>3, <1>4, <1>6
    <2> QED BY <1>5, <1>6, <2>1, DeliveryExistMove
  <1>10. /\ Going' = Going /\ Confirmed \subseteq Confirmed'
         /\ \/ /\ ventas' = ventas + 1 /\ t \in Uncounted /\ Uncounted' = Uncounted \ {t}
               /\ Confirmed' = Confirmed /\ Confirming' = Confirming
            \/ /\ ventas' = ventas /\ Uncounted' = Uncounted
               /\ Confirmed' = Confirmed \cup {r}
               /\ t \in Confirming /\ Confirming' = Confirming \ {t}
    <2>1. CASE req[t].pc = "found"
      <3>1. t \in Uncounted /\ Uncounted' = Uncounted \ {t} /\ Confirming' = Confirming
        BY <1>1, <1>4, <1>5, <2>1 DEF Uncounted, Confirming, At
      <3>2. Confirmed' = Confirmed BY <1>4, <2>1 DEF Confirmed
      <3>3. {req'[s].id : s \in Confirming'} = {req[s].id : s \in Confirming}
        <4>1. \A s \in Confirming : req'[s].id = req[s].id
          BY <1>4, <1>5, <2>1 DEF Confirming
        <4> QED BY <3>1, <4>1
      <3> QED BY <1>4, <2>1, <3>1, <3>2, <3>3 DEF Going
    <2>2. CASE req[t].pc = "counted"
      <3>1. Uncounted' = Uncounted /\ t \in Confirming /\ Confirming' = Confirming \ {t}
        BY <1>1, <1>4, <1>5, <2>2 DEF Uncounted, Confirming, At
      <3>2. Confirmed' = Confirmed \cup {r}
        BY <1>3, <1>4, <2>2 DEF Confirmed, ListingsTypeOK
      <3>3. {req[s].id : s \in Confirming} = {req'[s].id : s \in Confirming'} \cup {r}
        <4>1. \A s \in Confirming \ {t} : req'[s].id = req[s].id
          BY <1>5 DEF Confirming
        <4>2. {req[s].id : s \in Confirming} = {req[s].id : s \in Confirming \ {t}} \cup {r}
          BY <1>3, <3>1
        <4> QED BY <3>1, <4>1, <4>2
      <3> QED BY <1>4, <2>2, <3>1, <3>2, <3>3 DEF Going
    <2> QED BY <1>4, <2>1, <2>2
  <1>11. /\ IsFiniteSet(Uncounted) /\ IsFiniteSet(Confirming) /\ IsFiniteSet(Confirmed)
    BY GoingSets, Counting, TabsFinite, RaffleIdsFinite
  <1>12. SalesInv'
    <2>1. /\ ventas' + Cardinality(Uncounted')
                <= Cardinality(Going') + overlaps'["delivery"] + counted'
          /\ Cardinality(Confirmed') + Cardinality(Confirming')
                <= Cardinality(Going') + overlaps'["delivery"]
      <3>1. CASE /\ ventas' = ventas + 1 /\ t \in Uncounted /\ Uncounted' = Uncounted \ {t}
                 /\ Confirmed' = Confirmed /\ Confirming' = Confirming
        <4>1. Cardinality(Uncounted') = Cardinality(Uncounted) - 1
          BY <1>11, <3>1, FS_RemoveElement
        <4> QED BY <1>1, <1>4, <1>10, <3>1, <4>1, SalesCounts DEF SalesInv
      <3>2. CASE /\ ventas' = ventas /\ Uncounted' = Uncounted
                 /\ Confirmed' = Confirmed \cup {r}
                 /\ t \in Confirming /\ Confirming' = Confirming \ {t}
        <4>1. Cardinality(Confirming') = Cardinality(Confirming) - 1
          BY <1>11, <3>2, FS_RemoveElement
        <4>2. Cardinality(Confirmed \cup {r})
                = (IF r \in Confirmed THEN Cardinality(Confirmed) ELSE Cardinality(Confirmed) + 1)
          BY <1>11, FS_AddElement
        <4>3. Cardinality(Confirmed') <= Cardinality(Confirmed) + 1 /\ Cardinality(Confirmed') \in Nat
          BY <3>2, <4>2, SalesCounts
        <4> QED BY <1>1, <1>4, <1>10, <3>2, <4>1, <4>3, SalesCounts DEF SalesInv
      <3> QED BY <1>10, <3>1, <3>2
    <2>2. \A s \in Tabs : At(s, "review", "computed")' => req'[s].seen \subseteq Confirmed'
      BY <1>4, <1>5, <1>10 DEF SalesInv, At
    <2>3. \A s \in RaffleIds : estado'[s] = "FINALIZADA" => s \in Confirmed'
      BY <1>6, <1>10 DEF SalesInv
    <2> QED BY <2>1, <2>2, <2>3 DEF SalesInv
  <1> QED BY <1>4, <1>7, <1>8, <1>9, <1>12 DEF DeliveryKeeps

\* A request for a review goes on: what is to show of it alone.
LEMMA SalesMove ==
    ASSUME ReqInv, ListingsTypeOK, DeliveryExist, SalesInv, NEW t \in Tabs,
           req[t].op # "confirm", req'[t].op # "confirm",
           \A u \in Tabs \ {t} : /\ req'[u].group = req[u].group /\ req'[u].op = req[u].op
                                 /\ req'[u].pc = req[u].pc /\ req'[u].id = req[u].id
                                 /\ req'[u].seen = req[u].seen,
           estado' = estado, delivery' = delivery, counted' = counted,
           overlaps'["delivery"] \in Nat, overlaps'["delivery"] >= overlaps["delivery"],
           ventas' = ventas \/ (ventas' \in Nat /\ ventas' <= Cardinality(Confirmed)),
           req'[t].group = "delivery" => req'[t].id \in RaffleIds,
           At(t, "review", "computed")' => req'[t].seen \subseteq Confirmed
    PROVE  SalesInv' /\ DeliveryExist'
  <1>1. Confirmed' = Confirmed BY DEF Confirmed
  <1>2. Confirming' = Confirming BY DEF Confirming
  <1>3. Uncounted' = Uncounted BY DEF Uncounted, At
  <1>4. Going' = Going
    <2>1. \A s \in Confirming : req'[s].id = req[s].id BY DEF Confirming
    <2>2. {req'[s].id : s \in Confirming'} = {req[s].id : s \in Confirming} BY <1>2, <2>1
    <2> QED BY <1>1, <2>2 DEF Going
  <1>5. /\ ventas' + Cardinality(Uncounted')
              <= Cardinality(Going') + overlaps'["delivery"] + counted'
        /\ Cardinality(Confirmed') + Cardinality(Confirming')
              <= Cardinality(Going') + overlaps'["delivery"]
    <2>1. CASE ventas' = ventas
      BY <1>1, <1>2, <1>3, <1>4, <2>1, SalesCounts DEF SalesInv
    <2>2. CASE ventas' \in Nat /\ ventas' <= Cardinality(Confirmed)
      BY <1>1, <1>2, <1>3, <1>4, <2>2, SalesCounts DEF SalesInv
    <2> QED BY <2>1, <2>2
  <1>6. \A s \in Tabs : At(s, "review", "computed")' => req'[s].seen \subseteq Confirmed'
    BY <1>1 DEF SalesInv, At
  <1>7. \A s \in RaffleIds : estado'[s] = "FINALIZADA" => s \in Confirmed'
    BY <1>1 DEF SalesInv
  <1>8. SalesInv' BY <1>5, <1>6, <1>7 DEF SalesInv
  <1>9. DeliveryExist' BY DeliveryExistMove
  <1> QED BY <1>8, <1>9

LEMMA ReviewReadEffect ==
    ASSUME ReqInv, ListingsTypeOK, DeliveryExist, SalesInv, NEW t \in Tabs, reviewRead(t)
    PROVE  DeliveryKeeps
  <1>0. /\ "delivery" \in Groups /\ "listings" \in Areas /\ "review" \in Ops
        /\ "found" \in Stages /\ "delivery" \in Counted
    BY DEF Groups, Areas, Ops, Stages, Counted
  <1>1. PICK r \in RaffleIds : Start(t, "listings", "delivery", Request("review", "found", r))
    BY DEF reviewRead
  <1>2. UNCHANGED listingVars BY DEF reviewRead
  <1> DEFINE q == Request("review", "found", r)
  <1>3. r \in Nat BY RaffleIdsFinite
  <1>4. q \in ReqType BY <1>0, <1>3, RequestType
  <1>5. q.op = "review" /\ q.pc = "found" /\ q.id = r /\ q.ok = FALSE BY DEF Request, NoReq
  <1>6. Start(t, "listings", "delivery", q) BY <1>1
  <1> HIDE DEF q
  <1>7. ShapeAs("delivery", q.op, q.pc, q.ok) BY <1>5 DEF ShapeAs
  <1>8. /\ Only("delivery") /\ req[t].op = "none"
        /\ req'[t].op = "review" /\ req'[t].pc = "found" /\ req'[t].id = r
        /\ \A s \in Tabs \ {t} :
                 /\ req'[s].group = req[s].group /\ req'[s].op = req[s].op
                 /\ req'[s].pc = req[s].pc /\ req'[s].id = req[s].id
                 /\ req'[s].by = req[s].by /\ req'[s].seen = req[s].seen
        /\ overlaps'["delivery"] = overlaps["delivery"] + (IF Quiet("delivery") THEN 0 ELSE 1)
    BY <1>0, <1>4, <1>5, <1>6, <1>7, RequestStart
  <1>9. UNCHANGED <<raffleVars, moderationVars, reputationVars, cacheVars, suggestionVars>>
    BY <1>2 DEF listingVars
  <1>10. /\ estado' = estado /\ delivery' = delivery /\ ventas' = ventas /\ maxRifas' = maxRifas
         /\ counted' = counted /\ granted' = granted
    BY <1>9 DEF raffleVars, reputationVars
  <1>11. ListingsTypeOK'
    BY <1>9 DEF ListingsTypeOK, raffleVars, moderationVars, reputationVars, cacheVars,
                suggestionVars
  <1>12. DeliveryFrame
    <2>1. granted' >= granted BY <1>10, RaffleIdsFinite DEF ListingsTypeOK
    <2> QED BY <1>9, <1>10, <2>1 DEF DeliveryFrame, raffleVars
  <1>13. overlaps'["delivery"] \in Nat /\ overlaps'["delivery"] >= overlaps["delivery"]
    BY <1>8, SalesCounts
  <1>14. ~At(t, "review", "computed")' BY <1>8 DEF At
  <1>15. SalesInv' /\ DeliveryExist' BY <1>8, <1>10, <1>13, <1>14, SalesMove
  <1> QED BY <1>8, <1>11, <1>12, <1>15 DEF DeliveryKeeps

LEMMA ReviewWriteEffect ==
    ASSUME ReqInv, ListingsTypeOK, DeliveryExist, SalesInv, NEW t \in Tabs, reviewWrite(t)
    PROVE  DeliveryKeeps
  <1>0. "delivery" \in Groups /\ "created" \in Stages BY DEF Groups, Stages
  <1>1. /\ req[t].op = "review"
        /\ \/ Done(t) /\ review' = review
           \/ To(t, "created") /\ review' = review \cup {req[t].id}
        /\ UNCHANGED <<ventas, maxRifas, counted, granted, raffleVars, moderationVars, cacheVars,
                       suggestionVars>>
    BY DEF reviewWrite, At
  <1>2. req[t].group = "delivery" BY <1>1, DeliveryGroup
  <1>3. req[t].id \in RaffleIds BY <1>2 DEF DeliveryExist
  <1>4. /\ Only("delivery") /\ Others(t) /\ overlaps' = overlaps
        /\ \/ req'[t].group = "none" /\ req'[t].op = "none"
           \/ req'[t].op = "review" /\ req'[t].pc = "created" /\ req'[t].id = req[t].id
    <2>1. CASE Done(t) BY <1>0, <1>2, <2>1, DoneEffect DEF NoReq
    <2>2. CASE To(t, "created")
      <3>1. ShapeAs("delivery", req[t].op, "created", req[t].ok) BY <1>1 DEF ShapeAs
      <3> QED BY <1>0, <1>1, <1>2, <2>2, <3>1, ToEffect
    <2> QED BY <1>1, <2>1, <2>2
  <1>5. estado' = estado /\ delivery' = delivery /\ hidden' = hidden BY <1>1 DEF raffleVars
  <1>6. ListingsTypeOK'
    <2>1. review' \subseteq RaffleIds BY <1>1, <1>3 DEF ListingsTypeOK
    <2> QED BY <1>1, <2>1 DEF ListingsTypeOK, raffleVars, moderationVars, cacheVars, suggestionVars
  <1>7. DeliveryFrame
    <2>1. granted' >= granted BY <1>1, RaffleIdsFinite DEF ListingsTypeOK
    <2> QED BY <1>1, <1>5, <2>1 DEF DeliveryFrame
  <1>8. overlaps'["delivery"] \in Nat /\ overlaps'["delivery"] >= overlaps["delivery"]
    BY <1>4, SalesCounts
  <1>9. ~At(t, "review", "computed")' BY <1>4 DEF At
  <1>10. req[t].op # "confirm" /\ req'[t].op # "confirm"
         /\ (req'[t].group = "delivery" => req'[t].id \in RaffleIds)
    BY <1>1, <1>3, <1>4
  <1>11. \A u \in Tabs \ {t} : /\ req'[u].group = req[u].group /\ req'[u].op = req[u].op
                               /\ req'[u].pc = req[u].pc /\ req'[u].id = req[u].id
                               /\ req'[u].seen = req[u].seen
    BY <1>4 DEF Others
  <1>12. SalesInv' /\ DeliveryExist' BY <1>1, <1>5, <1>8, <1>9, <1>10, <1>11, SalesMove
  <1> QED BY <1>4, <1>6, <1>7, <1>12 DEF DeliveryKeeps

LEMMA RecalculateReadEffect ==
    ASSUME ReqInv, ListingsTypeOK, DeliveryExist, SalesInv, NEW t \in Tabs, recalculateRead(t)
    PROVE  DeliveryKeeps
  <1>0. "delivery" \in Groups /\ "computed" \in Stages BY DEF Groups, Stages
  <1>a. /\ At(t, "review", "created")
        /\ req' = [req EXCEPT ![t].pc = "computed", ![t].seen = Finished]
        /\ UNCHANGED <<budget, ghostVars, listingVars>>
    BY DEF recalculateRead
  <1>1. /\ req[t].op = "review" /\ UNCHANGED listingVars
        /\ budget' = budget /\ overlaps' = overlaps /\ disturbed' = disturbed /\ lost' = lost
    BY <1>a DEF At, ghostVars
  <1>2. req[t].group = "delivery" BY <1>1, DeliveryGroup
  <1>3. req[t].id \in RaffleIds BY <1>2 DEF DeliveryExist
  <1>4. Finished \subseteq Confirmed /\ Finished \subseteq RaffleIds BY DEF Finished, SalesInv
  <1> DEFINE new == [req[t] EXCEPT !.pc = "computed", !.seen = Finished]
  <1>5. req' = [req EXCEPT ![t] = new] BY <1>a DEF ReqInv
  <1>6. req[t] \in ReqType BY DEF ReqInv
  <1>7. /\ new \in ReqType /\ new.group = "delivery" /\ new.alone = req[t].alone
        /\ new.op = "review" /\ new.pc = "computed" /\ new.seen = Finished /\ new.ok = req[t].ok
        /\ new.id = req[t].id
    BY <1>0, <1>1, <1>2, <1>4, <1>6 DEF ReqType
  <1> HIDE DEF new
  <1>8. ShapeOf("delivery", new) BY <1>7 DEF ShapeOf, ShapeAs
  <1>9. Only("delivery") /\ Others(t) /\ req'[t] = new
    BY <1>0, <1>1, <1>2, <1>5, <1>7, <1>8, MoveEffect
  <1>10. UNCHANGED <<raffleVars, moderationVars, reputationVars, cacheVars, suggestionVars>>
    BY <1>1 DEF listingVars
  <1>11. /\ estado' = estado /\ delivery' = delivery /\ ventas' = ventas /\ maxRifas' = maxRifas
         /\ counted' = counted /\ granted' = granted
    BY <1>10 DEF raffleVars, reputationVars
  <1>12. ListingsTypeOK'
    BY <1>10 DEF ListingsTypeOK, raffleVars, moderationVars, reputationVars, cacheVars,
                 suggestionVars
  <1>13. DeliveryFrame
    <2>1. granted' >= granted BY <1>11, RaffleIdsFinite DEF ListingsTypeOK
    <2> QED BY <1>10, <1>11, <2>1 DEF DeliveryFrame, raffleVars
  <1>14. overlaps'["delivery"] \in Nat /\ overlaps'["delivery"] >= overlaps["delivery"]
    BY <1>1, SalesCounts
  <1>15. \A u \in Tabs \ {t} : /\ req'[u].group = req[u].group /\ req'[u].op = req[u].op
                               /\ req'[u].pc = req[u].pc /\ req'[u].id = req[u].id
                               /\ req'[u].seen = req[u].seen
    BY <1>9 DEF Others
  <1>16. /\ req[t].op # "confirm" /\ req'[t].op # "confirm"
         /\ (req'[t].group = "delivery" => req'[t].id \in RaffleIds)
         /\ (At(t, "review", "computed")' => req'[t].seen \subseteq Confirmed)
    BY <1>1, <1>3, <1>4, <1>7, <1>9
  <1>17. SalesInv' /\ DeliveryExist' BY <1>11, <1>14, <1>15, <1>16, SalesMove
  <1> QED BY <1>9, <1>12, <1>13, <1>17 DEF DeliveryKeeps

LEMMA RecalculateEffect ==
    ASSUME ReqInv, ListingsTypeOK, DeliveryExist, SalesInv, NEW t \in Tabs,
           recalculateSellerReputation(t)
    PROVE  DeliveryKeeps
  <1>0. "delivery" \in Groups BY DEF Groups
  <1>1. /\ At(t, "review", "computed") /\ Done(t)
        /\ ventas' = Cardinality(req[t].seen)
        /\ maxRifas' \in calculateSellerLevel(Cardinality(req[t].seen))
        /\ granted' = (IF maxRifas' > granted THEN maxRifas' ELSE granted)
        /\ UNCHANGED <<review, counted, raffleVars, moderationVars, cacheVars, suggestionVars>>
    BY DEF recalculateSellerReputation
  <1>2. req[t].op = "review" /\ req[t].group = "delivery" BY <1>1, DeliveryGroup DEF At
  <1>3. req[t].seen \subseteq Confirmed BY <1>1 DEF SalesInv
  <1>4. ventas' \in Nat /\ ventas' <= Cardinality(Confirmed)
    <2>1. req[t].seen \in SUBSET RaffleIds /\ Confirmed \in SUBSET RaffleIds
      BY <1>3, GoingSets
    <2> QED BY <1>1, <1>3, <2>1, Counting, RaffleIdsFinite
  <1>5. maxRifas' \in {NUEVO, BRONCE} /\ granted' \in {NUEVO, BRONCE}
        /\ granted' >= granted /\ maxRifas' <= granted'
    <2>1. maxRifas' \in {NUEVO, BRONCE}
      <3> DEFINE n == Cardinality(req[t].seen)
      <3> HIDE DEF n
      <3>1. calculateSellerLevel(n) \subseteq {NUEVO, BRONCE} BY DEF calculateSellerLevel
      <3> QED BY <1>1, <3>1 DEF n
    <2>2. granted \in {NUEVO, BRONCE} BY DEF ListingsTypeOK
    <2> QED BY <1>1, <2>1, <2>2, RaffleIdsFinite
  <1>6. Only("delivery") /\ Others(t) /\ overlaps' = overlaps /\ req'[t].group = "none"
        /\ req'[t].op = "none"
    BY <1>0, <1>1, <1>2, DoneEffect DEF NoReq
  <1>7. estado' = estado /\ delivery' = delivery /\ hidden' = hidden BY <1>1 DEF raffleVars
  <1>8. ListingsTypeOK'
    BY <1>1, <1>4, <1>5 DEF ListingsTypeOK, raffleVars, moderationVars, cacheVars, suggestionVars
  <1>9. DeliveryFrame BY <1>1, <1>5, <1>7 DEF DeliveryFrame
  <1>10. overlaps'["delivery"] \in Nat /\ overlaps'["delivery"] >= overlaps["delivery"]
    BY <1>6, SalesCounts
  <1>11. \A u \in Tabs \ {t} : /\ req'[u].group = req[u].group /\ req'[u].op = req[u].op
                               /\ req'[u].pc = req[u].pc /\ req'[u].id = req[u].id
                               /\ req'[u].seen = req[u].seen
    BY <1>6 DEF Others
  <1>12. /\ req[t].op # "confirm" /\ req'[t].op # "confirm" /\ req'[t].group # "delivery"
         /\ ~At(t, "review", "computed")'
    BY <1>2, <1>6 DEF At
  <1>13. SalesInv' /\ DeliveryExist'
    BY <1>1, <1>4, <1>7, <1>10, <1>11, <1>12, SalesMove
  <1> QED BY <1>6, <1>8, <1>9, <1>13 DEF DeliveryKeeps

LEMMA DeliveryEffect ==
    ASSUME ReqInv, ListingsTypeOK, DeliveryExist, SalesInv, NEW t \in Tabs, DeliveryStep(t)
    PROVE  Only("delivery") /\ ListingsTypeOK' /\ DeliveryExist' /\ SalesInv' /\ DeliveryFrame
  BY ConfirmReadEffect, ConfirmEffect, ReviewReadEffect, ReviewWriteEffect, RecalculateReadEffect,
     RecalculateEffect DEF DeliveryStep, DeliveryKeeps

-----------------------------------------------------------------------------
(* The catalogue as a whole: a step of one group leaves what holds of the   *)
(* others.                                                                  *)

\* Raffles are never taken away.
Grows == \A r \in RaffleIds : estado[r] # "none" => estado'[r] # "none"

LEMMA ExistFrame ==
    ASSUME Grows
    PROVE  /\ ListExist /\ Apart("list") => ListExist'
           /\ ReportExist /\ Apart("report") => ReportExist'
           /\ DeliveryExist /\ Apart("delivery") /\ delivery' = delivery => DeliveryExist'
  <1>1. ASSUME ListExist, Apart("list") PROVE ListExist'
    BY <1>1 DEF Grows, ListExist, Apart
  <1>2. ASSUME ReportExist, Apart("report") PROVE ReportExist'
    BY <1>2 DEF ReportExist, Apart
  <1>3. ASSUME DeliveryExist, Apart("delivery"), delivery' = delivery PROVE DeliveryExist'
    BY <1>3 DEF Grows, DeliveryExist, Apart
  <1> QED BY <1>1, <1>2, <1>3

\* A step that leaves the requests on publications leaves what counts them.
LEMMA PublishSame ==
    ASSUME ReqInv, ReqInv', Apart("publish")
    PROVE  /\ AllowedTabs' = AllowedTabs /\ Relaunched' = Relaunched
           /\ Busy("publish")' = Busy("publish")
           /\ \A u \in Tabs : req'[u].op = "relaunch" => req'[u] = req[u]
  <1>1. ASSUME NEW u \in Tabs,
               \/ req[u].op = "relaunch" \/ req'[u].op = "relaunch"
               \/ At(u, "create", "allowed") \/ At(u, "create", "allowed")'
        PROVE  req'[u] = req[u]
    <2>1. Shaped(req[u]) /\ Shaped(req'[u]) BY DEF ReqInv
    <2>2. req[u].group = "publish" \/ req'[u].group = "publish"
      BY <1>1, <2>1 DEF Shaped, ShapeOf, ShapeAs, NoReq, At
    <2> QED BY <2>2 DEF Apart
  <1>2. AllowedTabs' = AllowedTabs BY <1>1 DEF AllowedTabs, At
  <1>3. Relaunched' = Relaunched BY <1>1 DEF Relaunched, At
  <1>4. Busy("publish")' = Busy("publish") BY DEF Busy, Apart
  <1> QED BY <1>1, <1>2, <1>3, <1>4

LEMMA DeliverySame ==
    ASSUME ReqInv, ReqInv', Apart("delivery"), delivery' = delivery
    PROVE  /\ Confirmed' = Confirmed /\ Confirming' = Confirming /\ Uncounted' = Uncounted
           /\ Going' = Going
           /\ \A u \in Tabs : At(u, "review", "computed")' =>
                 At(u, "review", "computed") /\ req'[u] = req[u]
  <1>1. ASSUME NEW u \in Tabs,
               \/ req[u].op \in {"confirm", "review"} \/ req'[u].op \in {"confirm", "review"}
        PROVE  req'[u] = req[u]
    <2>1. Shaped(req[u]) /\ Shaped(req'[u]) BY DEF ReqInv
    <2>2. req[u].group = "delivery" \/ req'[u].group = "delivery"
      BY <1>1, <2>1 DEF Shaped, ShapeOf, ShapeAs, NoReq
    <2> QED BY <2>2 DEF Apart
  <1>2. Confirmed' = Confirmed BY DEF Confirmed
  <1>3. Confirming' = Confirming BY <1>1 DEF Confirming
  <1>4. Uncounted' = Uncounted BY <1>1 DEF Uncounted, At
  <1>5. Going' = Going
    <2>1. \A s \in Confirming : req'[s].id = req[s].id BY <1>1 DEF Confirming
    <2>2. {req'[s].id : s \in Confirming'} = {req[s].id : s \in Confirming} BY <1>3, <2>1
    <2> QED BY <1>2, <2>2 DEF Going
  <1>6. \A u \in Tabs : At(u, "review", "computed")' =>
           At(u, "review", "computed") /\ req'[u] = req[u]
    BY <1>1 DEF At
  <1> QED BY <1>2, <1>3, <1>4, <1>5, <1>6

LEMMA PublishInvFrame ==
    ASSUME ReqInv, ReqInv', Apart("publish"), ListingsTypeOK, ListingsTypeOK', suggestionVars' = suggestionVars,
           granted' >= granted, maxRifas <= granted => maxRifas' <= granted', Active' \subseteq Active,
           LimitInv, RelaunchInv
    PROVE  LimitInv' /\ RelaunchInv'
  <1>1. /\ AllowedTabs' = AllowedTabs /\ Relaunched' = Relaunched
        /\ Busy("publish")' = Busy("publish")
        /\ \A u \in Tabs : req'[u].op = "relaunch" => req'[u] = req[u]
    BY PublishSame
  <1>2. aceptada' = aceptada /\ offer' = offer /\ relaunches' = relaunches BY DEF suggestionVars
  <1>3. overlaps'["publish"] = overlaps["publish"] /\ ("publish" \in lost' <=> "publish" \in lost)
    BY DEF Apart, Counted
  <1>4. Cardinality(Active') <= Cardinality(Active) /\ Cardinality(Active') \in Nat
    <2>1. Active \in SUBSET RaffleIds /\ Active' \in SUBSET RaffleIds BY DEF Active
    <2> QED BY <2>1, Counting, RaffleIdsFinite
  <1>5. granted' \in Nat /\ maxRifas' \in Nat BY RaffleIdsFinite DEF ListingsTypeOK
  <1>6. LimitInv' BY <1>1, <1>2, <1>3, <1>4, <1>5, PublishCounts DEF LimitInv
  <1>7. RelaunchInv' BY <1>1, <1>2, <1>3 DEF RelaunchInv
  <1> QED BY <1>6, <1>7

LEMMA SalesInvFrame ==
    ASSUME ReqInv, ReqInv', Apart("delivery"), delivery' = delivery, ventas' = ventas,
           counted' = counted, SalesInv,
           \A r \in RaffleIds : estado'[r] = "FINALIZADA" =>
                                   estado[r] = "FINALIZADA" \/ delivery[r] = "CONFIRMED"
    PROVE  SalesInv'
  <1>1. /\ Confirmed' = Confirmed /\ Confirming' = Confirming /\ Uncounted' = Uncounted
        /\ Going' = Going
        /\ \A u \in Tabs : At(u, "review", "computed")' =>
                 At(u, "review", "computed") /\ req'[u] = req[u]
    BY DeliverySame
  <1>2. overlaps'["delivery"] = overlaps["delivery"] BY DEF Apart, Counted
  <1>3. \A r \in RaffleIds : estado'[r] = "FINALIZADA" => r \in Confirmed'
    BY <1>1 DEF SalesInv, Confirmed
  <1> QED BY <1>1, <1>2, <1>3 DEF SalesInv

LEMMA ModerationInvFrame ==
    ASSUME Apart("report"), hidden' = hidden, report' = report, banned' = banned, ModerationInv,
           exempt \subseteq exempt',
           \A r \in RaffleIds : estado'[r] # "none" =>
                 estado[r] # "none" \/ (banned = "report" => r \in exempt')
    PROVE  ModerationInv'
  <1>1. \A u \in Tabs, r \in RaffleIds : WillModerate(u, r) => WillModerate(u, r)'
    BY DEF WillModerate, Apart
  <1>2. \A u \in Tabs : HidesAll(u) => HidesAll(u)' BY DEF HidesAll, Apart
  <1>3. "report" \in lost' <=> "report" \in lost BY DEF Apart
  <1>4. \A r \in RaffleIds : TooMany(r)' => TooMany(r) BY DEF TooMany, OpenReports
  <1>5. ASSUME "report" \notin lost', NEW r \in RaffleIds, TooMany(r)'
        PROVE  \E s \in Tabs : WillModerate(s, r)'
    <2>1. PICK s \in Tabs : WillModerate(s, r) BY <1>3, <1>4, <1>5, ModerationParts
    <2> QED BY <1>1, <2>1
  <1>6. ASSUME "report" \notin lost', banned' = "report", \A s \in Tabs : ~HidesAll(s)'
        PROVE  \A r \in RaffleIds : Unlisted(r)'
    <2>1. \A r \in RaffleIds : Unlisted(r) BY <1>2, <1>3, <1>6, ModerationParts
    <2> QED BY <1>6, <2>1 DEF Unlisted
  <1> QED BY <1>5, <1>6 DEF ModerationInv, TooMany, Unlisted, HidesAll, Busy

\* What holds of the catalogue.
ListingInv ==
    /\ ListingsTypeOK /\ ListExist /\ ReportExist /\ DeliveryExist
    /\ LimitInv /\ RelaunchInv /\ ModerationInv /\ SalesInv /\ CacheInv

ListingGroups == {"list", "publish", "report", "delivery"}

LEMMA GroupsDiffer ==
    /\ "list" \in Groups /\ "publish" \in Groups /\ "report" \in Groups /\ "delivery" \in Groups
    /\ "list" # "publish" /\ "list" # "report" /\ "list" # "delivery"
    /\ "publish" # "report" /\ "publish" # "delivery" /\ "report" # "delivery"
    /\ ListingGroups \subseteq Groups
  BY DEF Groups, ListingGroups

LEMMA ListKeepsListings ==
    ASSUME ReqInv, ListingInv, NEW t \in Tabs, ListStep(t)
    PROVE  Only("list") /\ ListingInv'
  <1>1. /\ ReqInv' /\ Only("list") /\ ListingsTypeOK' /\ ListExist' /\ CacheInv'
        /\ estado' = estado \/ CancelsOne
        /\ UNCHANGED <<hidden, delivery, moderationVars, reputationVars, suggestionVars>>
    BY ListEffect DEF ListingInv, Only
  <1>2. Apart("publish") /\ Apart("report") /\ Apart("delivery")
    BY <1>1, GroupsDiffer DEF Only
  <1>3. /\ \A r \in RaffleIds : estado[r] # "none" <=> estado'[r] # "none"
        /\ Active' \subseteq Active
        /\ \A r \in RaffleIds : estado'[r] = "FINALIZADA" => estado[r] = "FINALIZADA"
    <2>1. CASE estado' = estado BY <2>1 DEF Active
    <2>2. CASE CancelsOne
      <3>1. PICK r \in RaffleIds : estado[r] # "none" /\ estado' = [estado EXCEPT ![r] = "CANCELADA"]
        BY <2>2 DEF CancelsOne
      <3>2. \A q \in RaffleIds : estado'[q] = (IF q = r THEN "CANCELADA" ELSE estado[q])
        BY <3>1 DEF ListingInv, ListingsTypeOK
      <3> QED BY <3>1, <3>2 DEF Active
    <2> QED BY <1>1, <2>1, <2>2
  <1>4. /\ report' = report /\ banned' = banned /\ exempt' = exempt
        /\ ventas' = ventas /\ counted' = counted /\ granted' = granted /\ maxRifas' = maxRifas
    BY <1>1 DEF moderationVars, reputationVars
  <1>5. granted' >= granted BY <1>4, RaffleIdsFinite DEF ListingInv, ListingsTypeOK
  <1>6. ReportExist' /\ DeliveryExist'
    BY <1>1, <1>2, <1>3, ExistFrame DEF Grows, ListingInv
  <1>7. LimitInv' /\ RelaunchInv'
    BY <1>1, <1>2, <1>3, <1>4, <1>5, PublishInvFrame DEF ListingInv
  <1>8. SalesInv' BY <1>1, <1>2, <1>3, <1>4, SalesInvFrame DEF ListingInv
  <1>9. ModerationInv' BY <1>1, <1>2, <1>3, <1>4, ModerationInvFrame DEF ListingInv
  <1> QED BY <1>1, <1>6, <1>7, <1>8, <1>9 DEF ListingInv

LEMMA PublishKeepsListings ==
    ASSUME ReqInv, ListingInv, NEW t \in Tabs, PublishStep(t)
    PROVE  Only("publish") /\ ListingInv'
  <1>1. ReqInv' /\ Only("publish") /\ ListingsTypeOK' /\ LimitInv' /\ RelaunchInv' /\ PublishFrame
    BY PublishEffect DEF ListingInv, Only
  <1>2. Apart("list") /\ Apart("report") /\ Apart("delivery")
    BY <1>1, GroupsDiffer DEF Only
  <1>3. UNCHANGED <<hidden, delivery, report, banned, reputationVars>>
    BY <1>1 DEF PublishFrame
  <1>4. ventas' = ventas /\ counted' = counted BY <1>3 DEF reputationVars
  <1>5. FindersSame BY <1>1, <1>2, FindersFrame
  <1>6. /\ Grows /\ CacheInv' /\ exempt \subseteq exempt'
        /\ \A r \in RaffleIds : estado'[r] # "none" =>
                 estado[r] # "none" \/ (banned = "report" => r \in exempt')
        /\ \A r \in RaffleIds : estado'[r] = "FINALIZADA" => estado[r] = "FINALIZADA"
    <2>1. CASE UNCHANGED <<estado, exempt, cacheVars>>
      <3>1. Listed' = Listed BY <1>3, <2>1 DEF Listed, Active
      <3> QED BY <1>5, <2>1, <3>1, CacheFrame DEF Grows, ListingInv
    <2>2. CASE PublishesOne
      <3>1. PICK r \in RaffleIds : estado[r] = "none" /\ Publishes(r) BY <2>2 DEF PublishesOne
      <3>2. /\ estado' = [estado EXCEPT ![r] = "ACTIVA"]
            /\ exempt' = (IF banned = "report" THEN exempt \cup {r} ELSE exempt)
            /\ invalidateRaffleCache
        BY <3>1 DEF Publishes
      <3>3. CacheInv' BY <1>5, <3>2, CacheInvalidated DEF ListingInv
      <3>4. \A q \in RaffleIds : estado'[q] = (IF q = r THEN "ACTIVA" ELSE estado[q])
        BY <3>1, <3>2 DEF ListingInv, ListingsTypeOK
      <3> QED BY <3>1, <3>2, <3>3, <3>4 DEF Grows
    <2> QED BY <1>1, <2>1, <2>2 DEF PublishFrame
  <1>7. ListExist' /\ ReportExist' /\ DeliveryExist'
    BY <1>2, <1>3, <1>6, ExistFrame DEF ListingInv
  <1>8. SalesInv' BY <1>1, <1>2, <1>3, <1>4, <1>6, SalesInvFrame DEF ListingInv
  <1>9. ModerationInv' BY <1>2, <1>3, <1>6, ModerationInvFrame DEF ListingInv
  <1> QED BY <1>1, <1>6, <1>7, <1>8, <1>9 DEF ListingInv

LEMMA ReportKeepsListings ==
    ASSUME ReqInv, ListingInv, NEW t \in Tabs, ReportStep(t)
    PROVE  Only("report") /\ ListingInv'
  <1>1. /\ ReqInv' /\ Only("report") /\ ListingsTypeOK' /\ ReportExist' /\ ModerationInv'
        /\ ReportFrame
    BY ReportEffect DEF ListingInv, Only
  <1>2. Apart("list") /\ Apart("publish") /\ Apart("delivery")
    BY <1>1, GroupsDiffer DEF Only
  <1>3. UNCHANGED <<estado, delivery, reputationVars, suggestionVars>>
    BY <1>1 DEF ReportFrame
  <1>4. /\ ventas' = ventas /\ counted' = counted /\ granted' = granted /\ maxRifas' = maxRifas
        /\ Active' = Active /\ Grows
    BY <1>3 DEF reputationVars, Active, Grows
  <1>5. FindersSame BY <1>1, <1>2, FindersFrame
  <1>6. CacheInv'
    <2>1. CASE UNCHANGED <<hidden, cacheVars>>
      <3>1. Listed' = Listed BY <1>4, <2>1 DEF Listed
      <3> QED BY <1>5, <2>1, <3>1, CacheFrame DEF ListingInv
    <2>2. CASE SilentChange BY <1>5, <2>2, CacheSilent DEF ListingInv
    <2> QED BY <1>1, <2>1, <2>2 DEF ReportFrame
  <1>7. granted' >= granted BY <1>4, RaffleIdsFinite DEF ListingInv, ListingsTypeOK
  <1>8. ListExist' /\ DeliveryExist' BY <1>2, <1>3, <1>4, ExistFrame DEF ListingInv
  <1>9. LimitInv' /\ RelaunchInv'
    BY <1>1, <1>2, <1>3, <1>4, <1>7, PublishInvFrame DEF ListingInv
  <1>10. SalesInv' BY <1>1, <1>2, <1>3, <1>4, SalesInvFrame DEF ListingInv
  <1> QED BY <1>1, <1>6, <1>8, <1>9, <1>10 DEF ListingInv

LEMMA DeliveryKeepsListings ==
    ASSUME ReqInv, ListingInv, NEW t \in Tabs, DeliveryStep(t)
    PROVE  Only("delivery") /\ ListingInv'
  <1>1. /\ ReqInv' /\ Only("delivery") /\ ListingsTypeOK' /\ DeliveryExist' /\ SalesInv'
        /\ DeliveryFrame
    BY DeliveryEffect DEF ListingInv, Only
  <1>2. Apart("list") /\ Apart("publish") /\ Apart("report")
    BY <1>1, GroupsDiffer DEF Only
  <1>3. /\ UNCHANGED <<hidden, moderationVars, suggestionVars>>
        /\ granted' >= granted /\ (maxRifas <= granted => maxRifas' <= granted')
    BY <1>1 DEF DeliveryFrame
  <1>4. report' = report /\ banned' = banned /\ exempt' = exempt BY <1>3 DEF moderationVars
  <1>5. FindersSame BY <1>1, <1>2, FindersFrame
  <1>6. /\ CacheInv' /\ Active' \subseteq Active
        /\ \A r \in RaffleIds : estado'[r] # "none" <=> estado[r] # "none"
    <2>1. CASE UNCHANGED <<estado, cacheVars>>
      <3>1. Listed' = Listed BY <1>3, <2>1 DEF Listed, Active
      <3> QED BY <1>5, <2>1, <3>1, CacheFrame DEF ListingInv, Active
    <2>2. CASE SendsOne
      <3>1. PICK r \in RaffleIds : estado[r] # "none" /\ estado' = [estado EXCEPT ![r] = "EN_ENTREGA"]
        BY <2>2 DEF SendsOne
      <3>2. CacheInv' BY <1>5, <2>2, CacheInvalidated DEF ListingInv, SendsOne
      <3>3. \A q \in RaffleIds : estado'[q] = (IF q = r THEN "EN_ENTREGA" ELSE estado[q])
        BY <3>1 DEF ListingInv, ListingsTypeOK
      <3> QED BY <3>1, <3>2, <3>3 DEF Active
    <2> QED BY <1>1, <2>1, <2>2 DEF DeliveryFrame
  <1>7. Grows BY <1>6 DEF Grows
  <1>8. ListExist' /\ ReportExist' BY <1>2, <1>7, ExistFrame DEF ListingInv
  <1>9. LimitInv' /\ RelaunchInv'
    BY <1>1, <1>2, <1>3, <1>6, PublishInvFrame DEF ListingInv
  <1>10. ModerationInv' BY <1>2, <1>3, <1>4, <1>6, ModerationInvFrame DEF ListingInv
  <1> QED BY <1>1, <1>6, <1>8, <1>9, <1>10 DEF ListingInv

LEMMA ListingEffect ==
    ASSUME ReqInv, ListingInv, NEW t \in Tabs, ListingStep(t)
    PROVE  /\ ReqInv' /\ (AloneInv => AloneInv') /\ ListingInv'
           /\ \A h \in Groups \ ListingGroups : Apart(h)
  <1>1. ListStep(t) \/ PublishStep(t) \/ ReportStep(t) \/ DeliveryStep(t)
    BY DEF ListingStep, ListStep, PublishStep, ReportStep, DeliveryStep
  <1>2. ListingInv' /\ \E g \in ListingGroups : Only(g)
    BY <1>1, ListKeepsListings, PublishKeepsListings, ReportKeepsListings, DeliveryKeepsListings
    DEF ListingGroups
  <1> QED BY <1>2 DEF Only

\* A step of the rest of the system.
LEMMA ListingFrame ==
    ASSUME ReqInv, ReqInv', ListingInv, UNCHANGED listingVars, \A h \in ListingGroups : Apart(h)
    PROVE  ListingInv'
  <1>1. Apart("list") /\ Apart("publish") /\ Apart("report") /\ Apart("delivery")
    BY DEF ListingGroups
  <1>2. UNCHANGED <<raffleVars, moderationVars, reputationVars, cacheVars, suggestionVars>>
    BY DEF listingVars
  <1>3. /\ estado' = estado /\ hidden' = hidden /\ delivery' = delivery /\ report' = report
        /\ banned' = banned /\ exempt' = exempt /\ ventas' = ventas /\ counted' = counted
        /\ granted' = granted /\ maxRifas' = maxRifas
    BY <1>2 DEF raffleVars, moderationVars, reputationVars
  <1>4. ListingsTypeOK'
    BY <1>2 DEF ListingInv, ListingsTypeOK, raffleVars, moderationVars, reputationVars,
                cacheVars, suggestionVars
  <1>5. Active' = Active /\ Listed' = Listed /\ Grows BY <1>3 DEF Active, Listed, Grows
  <1>6. granted' >= granted BY <1>3, RaffleIdsFinite DEF ListingInv, ListingsTypeOK
  <1>7. CacheInv' BY <1>1, <1>2, <1>5, FindersFrame, CacheFrame DEF ListingInv
  <1>8. ListExist' /\ ReportExist' /\ DeliveryExist' BY <1>1, <1>3, <1>5, ExistFrame DEF ListingInv
  <1>9. LimitInv' /\ RelaunchInv'
    BY <1>1, <1>2, <1>3, <1>4, <1>5, <1>6, PublishInvFrame DEF ListingInv
  <1>10. SalesInv' BY <1>1, <1>3, SalesInvFrame DEF ListingInv
  <1>11. ModerationInv' BY <1>1, <1>3, ModerationInvFrame DEF ListingInv
  <1> QED BY <1>4, <1>7, <1>8, <1>9, <1>10, <1>11 DEF ListingInv

\* A step between the requests.
LEMMA StillFrame ==
    ASSUME ReqInv, req' = req, UNCHANGED ghostVars, budget' \in [Areas -> Nat]
    PROVE  /\ ReqInv' /\ (AloneInv => AloneInv') /\ \A h \in Groups : Apart(h)
  <1>1. overlaps' = overlaps /\ disturbed' = disturbed /\ lost' = lost BY DEF ghostVars
  <1>2. ReqInv' BY <1>1 DEF ReqInv
  <1>3. AloneInv => AloneInv' BY <1>1 DEF AloneInv
  <1> QED BY <1>1, <1>2, <1>3 DEF Apart

LEMMA CacheBackground ==
    ASSUME ReqInv, ListingInv, deleteEntries \/ clearKeys \/ entryExpires
    PROVE  /\ ListingsTypeOK' /\ CacheInv'
           /\ UNCHANGED <<raffleVars, moderationVars, reputationVars, suggestionVars, clientVars>>
  <1>1. /\ UNCHANGED <<raffleVars, moderationVars, reputationVars, suggestionVars, clientVars>>
        /\ req' = req
    BY DEF deleteEntries, clearKeys, entryExpires, clientVars
  <1>a. estado' = estado /\ hidden' = hidden BY <1>1 DEF raffleVars
  <1>2. Listed' = Listed BY <1>a DEF Listed, Active
  <1>3. CASE deleteEntries \/ entryExpires
    <2>1. /\ cache' = NoList /\ tracked' = tracked
          /\ stale' = (IF Reading = {} THEN {} ELSE stale)
          /\ \/ wipes' = wipes
             \/ /\ wipes.captured > 0
                /\ wipes' = [wipes EXCEPT !.captured = @ - 1, !.deleted = @ + 1]
      BY <1>3 DEF deleteEntries, entryExpires
    <2>2. wipes' \in [DOMAIN NoWipes -> Nat]
      <3>1. DOMAIN NoWipes = {"captured", "missed", "deleted"} BY DEF NoWipes
      <3>2. wipes \in [{"captured", "missed", "deleted"} -> Nat]
        BY WipesType DEF ListingInv
      <3>3. CASE wipes' = wipes BY <3>1, <3>2, <3>3
      <3>4. CASE /\ wipes.captured > 0
                 /\ wipes' = [wipes EXCEPT !.captured = @ - 1, !.deleted = @ + 1]
        <4>1. wipes.captured - 1 \in Nat /\ wipes.deleted + 1 \in Nat BY <3>2, <3>4
        <4> QED BY <3>1, <3>2, <3>4, <4>1
      <3> QED BY <2>1, <3>3, <3>4
    <2>3. CacheInv'
      <3>1. ASSUME stale' = {}, NEW u \in Tabs, At(u, "findAll", "read")'
            PROVE  req'[u].seen = Listed'
        <4>1. At(u, "findAll", "read") BY <1>1, <3>1 DEF At
        <4>2. u \in Reading BY <4>1 DEF At, Reading
        <4>3. stale = {} BY <2>1, <3>1, <4>2
        <4> QED BY <1>1, <1>2, <4>1, <4>3 DEF ListingInv, CacheInv
      <3> QED BY <2>1, <3>1 DEF CacheInv
    <2>4. ListingsTypeOK'
      <3>1. cache' = NoList /\ tracked' \in BOOLEAN /\ stale' \subseteq {"raced", "hidden", "crash"}
        BY <2>1 DEF ListingInv, ListingsTypeOK
      <3> QED BY <1>1, <2>2, <3>1
          DEF ListingInv, ListingsTypeOK, raffleVars, moderationVars, reputationVars, suggestionVars
    <2> QED BY <1>1, <2>3, <2>4
  <1>4. CASE clearKeys
    <2>1. PICK stage \in {"missed", "deleted"} :
             wipes[stage] > 0 /\ wipes' = [wipes EXCEPT ![stage] = @ - 1]
      BY <1>4 DEF clearKeys
    <2>2. tracked' = FALSE /\ cache' = cache /\ stale' = stale BY <1>4 DEF clearKeys
    <2>3. wipes' \in [DOMAIN NoWipes -> Nat] /\ wipes'.captured = wipes.captured /\ wipes # NoWipes
      <3>1. DOMAIN NoWipes = {"captured", "missed", "deleted"} BY DEF NoWipes
      <3>2. wipes' \in [{"captured", "missed", "deleted"} -> Nat] /\ wipes'.captured = wipes.captured
        BY <2>1, WipesType DEF ListingInv
      <3>3. wipes # NoWipes BY <2>1 DEF NoWipes
      <3> QED BY <3>1, <3>2, <3>3
    <2>4. CacheInv'
      <3>1. \A u \in Tabs : At(u, "findAll", "read")' => At(u, "findAll", "read") /\ req'[u].seen = req[u].seen
        BY <1>1 DEF At
      <3> QED BY <1>2, <2>2, <2>3, <3>1 DEF ListingInv, CacheInv
    <2>5. ListingsTypeOK'
      BY <1>1, <2>2, <2>3
      DEF ListingInv, ListingsTypeOK, raffleVars, moderationVars, reputationVars, suggestionVars
    <2> QED BY <1>1, <2>4, <2>5
  <1> QED BY <1>3, <1>4

\* Everything apart: what a step between the requests leaves.
Nothing == ReqInv' /\ (AloneInv => AloneInv') /\ \A h \in Groups : Apart(h)

LEMMA CacheBackgroundEffect ==
    ASSUME ReqInv, ListingInv, deleteEntries \/ clearKeys \/ entryExpires
    PROVE  Nothing /\ ListingInv'
  <1>1. /\ ListingsTypeOK' /\ CacheInv'
        /\ UNCHANGED <<raffleVars, moderationVars, reputationVars, suggestionVars, clientVars>>
    BY CacheBackground
  <1>2. Nothing
    <2>1. req' = req /\ UNCHANGED ghostVars /\ budget' \in [Areas -> Nat]
      BY <1>1 DEF clientVars, ReqInv
    <2> QED BY <2>1, StillFrame DEF Nothing
  <1>3. ReqInv' /\ Apart("list") /\ Apart("publish") /\ Apart("report") /\ Apart("delivery")
    BY <1>2, GroupsDiffer DEF Nothing
  <1>4. /\ estado' = estado /\ hidden' = hidden /\ delivery' = delivery /\ report' = report
        /\ banned' = banned /\ exempt' = exempt /\ ventas' = ventas /\ maxRifas' = maxRifas
        /\ counted' = counted /\ granted' = granted
    BY <1>1 DEF raffleVars, moderationVars, reputationVars
  <1>5. Active' = Active /\ Grows BY <1>4 DEF Active, Grows
  <1>6. granted' >= granted BY <1>4, RaffleIdsFinite DEF ListingInv, ListingsTypeOK
  <1>7. ListExist' /\ ReportExist' /\ DeliveryExist' BY <1>3, <1>4, <1>5, ExistFrame DEF ListingInv
  <1>8. suggestionVars' = suggestionVars BY <1>1
  <1>9. LimitInv' /\ RelaunchInv'
    BY <1>1, <1>3, <1>4, <1>5, <1>6, <1>8, PublishInvFrame DEF ListingInv
  <1>10. SalesInv' BY <1>3, <1>4, SalesInvFrame DEF ListingInv
  <1>11. ModerationInv' BY <1>3, <1>4, ModerationInvFrame DEF ListingInv
  <1> QED BY <1>1, <1>2, <1>7, <1>9, <1>10, <1>11 DEF ListingInv

LEMMA BanUserEffect ==
    ASSUME ReqInv, ListingInv, banUser
    PROVE  Nothing /\ ListingInv'
  <1>1. /\ req' = req /\ UNCHANGED ghostVars /\ budget["listings"] > 0
        /\ budget' = [budget EXCEPT !["listings"] = @ - 1]
        /\ banned' \in {"admin", "no"} /\ exempt' = {} /\ report' = report
        /\ UNCHANGED <<raffleVars, reputationVars, cacheVars, suggestionVars>>
    BY DEF banUser
  <1>2. Nothing
    <2>1. budget' \in [Areas -> Nat] BY <1>1 DEF ReqInv, Areas
    <2> QED BY <1>1, <2>1, StillFrame DEF Nothing
  <1>3. ReqInv' /\ Apart("list") /\ Apart("publish") /\ Apart("report") /\ Apart("delivery")
    BY <1>2, GroupsDiffer DEF Nothing
  <1>4. /\ estado' = estado /\ hidden' = hidden /\ delivery' = delivery
        /\ ventas' = ventas /\ maxRifas' = maxRifas /\ counted' = counted /\ granted' = granted
    BY <1>1 DEF raffleVars, reputationVars
  <1>5. Active' = Active /\ Listed' = Listed /\ Grows BY <1>4 DEF Active, Listed, Grows
  <1>6. granted' >= granted BY <1>4, RaffleIdsFinite DEF ListingInv, ListingsTypeOK
  <1>7. ListingsTypeOK'
    BY <1>1 DEF ListingInv, ListingsTypeOK, raffleVars, reputationVars, cacheVars, suggestionVars
  <1>8. CacheInv' BY <1>1, <1>3, <1>5, FindersFrame, CacheFrame DEF ListingInv
  <1>9. ListExist' /\ ReportExist' /\ DeliveryExist' BY <1>3, <1>4, <1>5, ExistFrame DEF ListingInv
  <1>10. suggestionVars' = suggestionVars BY <1>1
  <1>11. LimitInv' /\ RelaunchInv'
    BY <1>3, <1>4, <1>5, <1>6, <1>7, <1>10, PublishInvFrame DEF ListingInv
  <1>12. SalesInv' BY <1>3, <1>4, SalesInvFrame DEF ListingInv
  <1>13. ModerationInv'
    <2>1. \A u \in Tabs, r \in RaffleIds : WillModerate(u, r)' <=> WillModerate(u, r)
      BY <1>1 DEF WillModerate
    <2>2. \A r \in RaffleIds : OpenReports(r)' = OpenReports(r) BY <1>1 DEF OpenReports
    <2>3. lost' = lost BY <1>1 DEF ghostVars
    <2> QED BY <1>1, <1>4, <2>1, <2>2, <2>3 DEF ListingInv, ModerationInv
  <1> QED BY <1>2, <1>7, <1>8, <1>9, <1>11, <1>12, <1>13 DEF ListingInv

LEMMA PayoutEffect ==
    ASSUME ReqInv, ListingInv, payoutCompletes
    PROVE  Nothing /\ ListingInv'
  <1>1. PICK r \in RaffleIds : /\ estado[r] = "EN_ENTREGA" /\ delivery[r] = "CONFIRMED"
                               /\ estado' = [estado EXCEPT ![r] = "FINALIZADA"]
    BY DEF payoutCompletes
  <1>2. /\ UNCHANGED clientVars /\ hidden' = hidden /\ delivery' = delivery
        /\ UNCHANGED <<moderationVars, reputationVars, cacheVars>>
        /\ suggestionVars' = suggestionVars
    BY DEF payoutCompletes
  <1>3. Nothing
    <2>1. req' = req /\ UNCHANGED ghostVars /\ budget' \in [Areas -> Nat]
      BY <1>2 DEF clientVars, ReqInv
    <2> QED BY <2>1, StillFrame DEF Nothing
  <1>4. ReqInv' /\ Apart("list") /\ Apart("publish") /\ Apart("report") /\ Apart("delivery")
    BY <1>3, GroupsDiffer DEF Nothing
  <1>5. estado' \in [RaffleIds -> RaffleStates]
    BY <1>1 DEF ListingInv, ListingsTypeOK, RaffleStates
  <1>6. /\ \A q \in RaffleIds : estado'[q] = "ACTIVA" <=> estado[q] = "ACTIVA"
        /\ \A q \in RaffleIds : estado'[q] # "none" <=> estado[q] # "none"
        /\ \A q \in RaffleIds : estado'[q] = "FINALIZADA" =>
                                   estado[q] = "FINALIZADA" \/ delivery[q] = "CONFIRMED"
    BY <1>1 DEF ListingInv, ListingsTypeOK
  <1>7. Active' = Active /\ Listed' = Listed /\ Grows BY <1>2, <1>6 DEF Active, Listed, Grows
  <1>8. /\ ventas' = ventas /\ maxRifas' = maxRifas /\ counted' = counted /\ granted' = granted
        /\ banned' = banned /\ exempt' = exempt /\ report' = report
    BY <1>2 DEF reputationVars, moderationVars
  <1>9. granted' >= granted BY <1>8, RaffleIdsFinite DEF ListingInv, ListingsTypeOK
  <1>10. ListingsTypeOK'
    BY <1>2, <1>5
    DEF ListingInv, ListingsTypeOK, moderationVars, reputationVars, cacheVars, suggestionVars
  <1>11. CacheInv' BY <1>2, <1>4, <1>7, FindersFrame, CacheFrame DEF ListingInv
  <1>12. ListExist' /\ ReportExist' /\ DeliveryExist' BY <1>2, <1>4, <1>7, ExistFrame DEF ListingInv
  <1>13. LimitInv' /\ RelaunchInv'
    BY <1>2, <1>4, <1>7, <1>8, <1>9, <1>10, PublishInvFrame DEF ListingInv
  <1>14. SalesInv' BY <1>2, <1>4, <1>6, <1>8, SalesInvFrame DEF ListingInv
  <1>15. ModerationInv' BY <1>2, <1>4, <1>6, <1>8, ModerationInvFrame DEF ListingInv
  <1> QED BY <1>3, <1>10, <1>11, <1>12, <1>13, <1>14, <1>15 DEF ListingInv

\* A step of the background disturbs no request.
LEMMA BackgroundEffect ==
    ASSUME ReqInv, ListingInv, ListingBackground
    PROVE  Nothing /\ ListingInv'
  BY CacheBackgroundEffect, BanUserEffect, PayoutEffect DEF ListingBackground

-----------------------------------------------------------------------------
(* The backend stops *)

LEMMA StopEffect ==
    ASSUME ReqInv, StopBackend
    PROVE  /\ ReqInv' /\ AloneInv'
           /\ \A u \in Tabs : req'[u] = NoReq
           /\ overlaps' = overlaps /\ lost \subseteq lost' /\ disturbed \subseteq disturbed'
           /\ \A g \in Missed \ lost' : Busy(g) = {}
           /\ \A g \in Repaired \ disturbed' : Busy(g) = {}
  <1>1. /\ budget["crash"] > 0 /\ budget' = [budget EXCEPT !["crash"] = @ - 1]
        /\ lost' = lost \cup ({req[t].group : t \in Tabs} \cap Missed)
        /\ disturbed' = disturbed \cup ({req[t].group : t \in Tabs} \cap Repaired)
        /\ req' = [t \in Tabs |-> NoReq] /\ overlaps' = overlaps
    BY DEF StopBackend
  <1>2. budget' \in [Areas -> Nat] BY <1>1 DEF ReqInv, Areas
  <1>3. \A u \in Tabs : req'[u] = NoReq BY <1>1
  <1>4. ReqInv' BY <1>1, <1>2, <1>3, NoReqType DEF ReqInv, Shaped
  <1>5. AloneInv'
    <2>1. \A u \in Tabs : req'[u].group = "none" BY <1>3, NoReqType
    <2> QED BY <2>1 DEF AloneInv, Repaired
  <1>6. \A g \in Missed \ lost' : Busy(g) = {} BY <1>1 DEF Busy
  <1>7. \A g \in Repaired \ disturbed' : Busy(g) = {} BY <1>1 DEF Busy
  <1> QED BY <1>1, <1>3, <1>4, <1>5, <1>6, <1>7

\* What is under way for a raffle is counted once per request at most.
LEMMA GoingCounts ==
    ASSUME ReqInv, DeliveryExist
    PROVE  /\ IsFiniteSet(CountedTabs) /\ Cardinality(CountedTabs) \in Nat
           /\ Cardinality(Confirming) = Cardinality(Uncounted) + Cardinality(CountedTabs)
           /\ Cardinality(Going) <= Cardinality(Confirmed) + Cardinality(Confirming)
  <1> DEFINE Ids == {req[t].id : t \in Confirming}
             f == [t \in Confirming |-> req[t].id]
  <1>1. /\ IsFiniteSet(Uncounted) /\ IsFiniteSet(Confirming) /\ IsFiniteSet(Confirmed)
        /\ Cardinality(Confirmed) \in Nat /\ Cardinality(Confirming) \in Nat
        /\ Cardinality(Uncounted) \in Nat
    BY GoingSets, Counting, TabsFinite, RaffleIdsFinite
  <1>2. CountedTabs \in SUBSET Tabs BY DEF CountedTabs
  <1>3. IsFiniteSet(CountedTabs) /\ Cardinality(CountedTabs) \in Nat
    BY <1>2, Counting, TabsFinite
  <1>4. Confirming = Uncounted \cup CountedTabs
    BY DeliveryGroup DEF Confirming, Uncounted, CountedTabs, At
  <1>5. Uncounted \cap CountedTabs = {} BY DEF Uncounted, CountedTabs, At
  <1>6. Cardinality(Confirming) = Cardinality(Uncounted) + Cardinality(CountedTabs)
    <2>1. Cardinality(Uncounted \cap CountedTabs) = 0 BY <1>5, FS_EmptySet
    <2>2. Cardinality(Uncounted \cup CountedTabs)
             = Cardinality(Uncounted) + Cardinality(CountedTabs) - Cardinality(Uncounted \cap CountedTabs)
      BY <1>1, <1>3, FS_Union
    <2> QED BY <1>1, <1>3, <1>4, <2>1, <2>2
  <1>7. IsFiniteSet(Ids) /\ Cardinality(Ids) <= Cardinality(Confirming)
    <2>1. f \in Surjection(Confirming, Ids) BY DEF Surjection
    <2> HIDE DEF f, Ids
    <2> QED BY <1>1, <2>1, FS_Surjection
  <1>8. Cardinality(Ids) \in Nat BY <1>7, FS_CardinalityType
  <1>9. Cardinality(Going) <= Cardinality(Confirmed) + Cardinality(Ids)
    <2>1. Going = Confirmed \cup Ids BY DEF Going
    <2>2. Cardinality(Confirmed \cap Ids) \in Nat
      BY <1>1, FS_Intersection, FS_CardinalityType
    <2> HIDE DEF Ids
    <2>3. Cardinality(Going) = Cardinality(Confirmed) + Cardinality(Ids) - Cardinality(Confirmed \cap Ids)
      BY <1>1, <1>7, <2>1, FS_Union
    <2> QED BY <1>1, <1>8, <2>2, <2>3
  <1>10. Cardinality(Going) \in Nat BY GoingSets, Counting, RaffleIdsFinite
  <1> HIDE DEF Ids
  <1> QED BY <1>1, <1>3, <1>6, <1>7, <1>8, <1>9, <1>10

LEMMA StopListingsEffect ==
    ASSUME ReqInv, ListingInv, StopBackend, StopListings
    PROVE  ListingInv'
  <1>1. /\ ReqInv' /\ \A u \in Tabs : req'[u] = NoReq
        /\ overlaps' = overlaps /\ lost \subseteq lost'
        /\ \A g \in Missed \ lost' : Busy(g) = {}
    BY StopEffect
  <1>2. /\ tracked' = FALSE /\ wipes' = NoWipes
        /\ stale' = (IF cache # NoList THEN stale \cup {"crash"} ELSE {})
        /\ counted' = counted + Cardinality(CountedTabs)
        /\ cache' = cache /\ ventas' = ventas /\ maxRifas' = maxRifas /\ review' = review
        /\ granted' = granted
        /\ estado' = estado /\ hidden' = hidden /\ delivery' = delivery
        /\ report' = report /\ banned' = banned /\ exempt' = exempt
        /\ aceptada' = aceptada /\ offer' = offer /\ relaunches' = relaunches
    BY DEF StopListings, CountedTabs, raffleVars, moderationVars, suggestionVars
  <1>3. \A u \in Tabs : req'[u].group = "none" /\ req'[u].op = "none" /\ req'[u].pc = "idle"
    BY <1>1 DEF NoReq
  <1>4. ListingsTypeOK'
    <2>1. NoWipes \in [DOMAIN NoWipes -> Nat] BY DEF NoWipes
    <2>2. counted' \in Nat BY <1>2, GoingCounts DEF ListingInv, ListingsTypeOK
    <2>3. stale' \subseteq {"raced", "hidden", "crash"} BY <1>2 DEF ListingInv, ListingsTypeOK
    <2> QED BY <1>2, <2>1, <2>2, <2>3 DEF ListingInv, ListingsTypeOK
  <1>5. ListExist' /\ ReportExist' /\ DeliveryExist'
    BY <1>2, <1>3 DEF ListingInv, ListExist, ReportExist, DeliveryExist
  <1>6. /\ AllowedTabs' = {} /\ Relaunched' = {} /\ Busy("publish")' = {}
        /\ Uncounted' = {} /\ Confirming' = {}
    BY <1>3 DEF AllowedTabs, Relaunched, Busy, Uncounted, Confirming, At
  <1>z. Cardinality({}) = 0 BY FS_EmptySet
  <1>7. LimitInv'
    <2>1. Active' = Active BY <1>2 DEF Active
    <2>2. overlaps["publish"] \in Nat /\ Cardinality(AllowedTabs) \in Nat /\ Cardinality(Active) \in Nat
      BY PublishCounts DEF ListingInv
    <2>3. granted \in Nat /\ relaunches \in Nat
      BY RaffleIdsFinite DEF ListingInv, ListingsTypeOK
    <2> QED BY <1>1, <1>2, <1>6, <1>z, <2>1, <2>2, <2>3 DEF ListingInv, LimitInv
  <1>8. RelaunchInv'
    <2>1. ASSUME "publish" \notin lost' PROVE Relaunched = {} /\ "publish" \notin lost
      <3>1. Busy("publish") = {} BY <1>1, <2>1 DEF Missed
      <3>2. ASSUME NEW u \in Tabs, At(u, "relaunch", "created") PROVE u \in Busy("publish")
        <4>1. Shaped(req[u]) BY DEF ReqInv
        <4> QED BY <3>2, <4>1 DEF Shaped, ShapeOf, ShapeAs, NoReq, At, Busy
      <3> QED BY <1>1, <2>1, <3>1, <3>2 DEF Relaunched
    <2> QED BY <1>2, <1>3, <1>6, <2>1 DEF ListingInv, RelaunchInv
  <1>9. ModerationInv'
    <2>1. \A r \in RaffleIds : OpenReports(r)' = OpenReports(r) BY <1>2 DEF OpenReports
    <2>2. ASSUME "report" \notin lost'
          PROVE  "report" \notin lost /\ \A u \in Tabs : req[u].group # "report"
      BY <1>1, <2>2 DEF Missed, Busy
    <2> QED BY <1>2, <2>1, <2>2 DEF ListingInv, ModerationInv, WillModerate, Busy
  <1>10. SalesInv'
    <2>1. Confirmed' = Confirmed BY <1>2 DEF Confirmed
    <2>2. Going' = Confirmed BY <1>6, <2>1 DEF Going
    <2>3. \A u \in Tabs : ~At(u, "review", "computed")' BY <1>3 DEF At
    <2>4. /\ Cardinality(Confirmed) \in Nat /\ Cardinality(Going) \in Nat
          /\ Cardinality(Confirming) \in Nat /\ Cardinality(Uncounted) \in Nat
          /\ ventas \in Nat /\ counted \in Nat /\ overlaps["delivery"] \in Nat
      BY SalesCounts DEF ListingInv
    <2>5. /\ Cardinality(CountedTabs) \in Nat
          /\ Cardinality(Confirming) = Cardinality(Uncounted) + Cardinality(CountedTabs)
          /\ Cardinality(Going) <= Cardinality(Confirmed) + Cardinality(Confirming)
      BY GoingCounts DEF ListingInv
    <2>6. ventas + Cardinality(Uncounted) <= Cardinality(Going) + overlaps["delivery"] + counted
      BY DEF ListingInv, SalesInv
    <2>7. ventas' + Cardinality(Uncounted')
             <= Cardinality(Going') + overlaps'["delivery"] + counted'
      BY <1>1, <1>2, <1>6, <1>z, <2>2, <2>4, <2>5, <2>6
    <2>8. Cardinality(Confirmed') + Cardinality(Confirming')
             <= Cardinality(Going') + overlaps'["delivery"]
      BY <1>1, <1>6, <1>z, <2>1, <2>2, <2>4
    <2>9. \A r \in RaffleIds : estado'[r] = "FINALIZADA" => r \in Confirmed'
      BY <1>2, <2>1 DEF ListingInv, SalesInv
    <2> QED BY <2>3, <2>7, <2>8, <2>9 DEF SalesInv
  <1>11. CacheInv'
    <2>1. \A u \in Tabs : ~At(u, "findAll", "read")' BY <1>3 DEF At
    <2>2. stale' = {} => cache' = NoList BY <1>2
    <2> QED BY <2>1, <2>2 DEF CacheInv
  <1> QED BY <1>4, <1>5, <1>7, <1>8, <1>9, <1>10, <1>11 DEF ListingInv

-----------------------------------------------------------------------------
(* The seller's records as a whole *)

SellerInv == SellerTypeOK /\ LateInv /\ AccountInv /\ AddressInv

SellerGroups == {"kyc", "account", "address"}

LEMMA SellerTypes ==
    SellerTypeOK <=> KycTypeOK /\ AccountTypeOK /\ AddressTypeOK
  BY DEF SellerTypeOK, KycTypeOK, AccountTypeOK, AddressTypeOK

\* What holds of the seller's records is left by a step of other groups.
LEMMA KycFrame ==
    ASSUME LateInv, Apart("kyc"), UNCHANGED kycVars
    PROVE  LateInv'
  BY DEF LateInv, Apart, Busy, kycVars

LEMMA AccountFrame ==
    ASSUME AccountInv, Apart("account"), UNCHANGED accountVars
    PROVE  AccountInv'
  <1>1. status' = status /\ account' = account BY DEF accountVars
  <1>2. \A u \in Tabs : TabAccount(u) => TabAccount(u)'
    BY <1>1 DEF TabAccount, Apart, StatusOf
  <1>3. Calm("account")' => Calm("account") BY DEF Calm, Quiet, Busy, Apart
  <1>4. \A u \in Tabs : TabAccount(u) BY DEF AccountInv, TabAccount, Busy
  <1>5. \A u \in Tabs : TabAccount(u)' BY <1>2, <1>4
  <1>6. Calm("account")' => status' = account'.status
    BY <1>1, <1>3 DEF AccountInv, StatusMirrorsAccount
  <1> QED BY <1>5, <1>6, AccountParts

LEMMA AddressFrame ==
    ASSUME ReqInv, ReqInv', AddressInv, Apart("address"), UNCHANGED addressVars
    PROVE  AddressInv'
  <1>1. addresses' = addresses /\ defaults' = defaults BY DEF addressVars
  <1>2. \A u \in Tabs : TabAddress(u) => TabAddress(u)' BY <1>1 DEF TabAddress, Apart
  <1>3. \A u \in Tabs : PhaseAddress(u) => PhaseAddress(u)'
    BY <1>1 DEF PhaseAddress, OneDefault, Apart
  <1>4. Quiet("address")' => Quiet("address") BY DEF Quiet, Busy, Apart
  <1>5. "address" \notin disturbed' => "address" \notin disturbed BY DEF Apart
  <1>6. OneDefault => OneDefault' BY <1>1 DEF OneDefault
  <1>7. Creating' = Creating BY DEF Creating, Apart
  <1>8. overlaps'["address"] = overlaps["address"] BY DEF Apart, Counted
  <1>9. CountAddress => CountAddress' BY <1>1, <1>7, <1>8 DEF CountAddress
  <1> QED BY <1>2, <1>3, <1>4, <1>5, <1>6, <1>9, AddressParts

LEMMA SellerGroupsDiffer ==
    /\ "kyc" \in Groups /\ "account" \in Groups /\ "address" \in Groups
    /\ "kyc" # "account" /\ "kyc" # "address" /\ "account" # "address"
    /\ SellerGroups \subseteq Groups /\ ListingGroups \subseteq Groups
    /\ SellerGroups \cap ListingGroups = {}
  BY DEF Groups, SellerGroups, ListingGroups

\* A step of the seller's requests keeps what holds of the records and takes a
\* verified identity away only for a late request.
LEMMA SellerEffect ==
    ASSUME ReqInv, AloneInv, SellerInv, NEW t \in Tabs, SellerStep(t)
    PROVE  /\ ReqInv' /\ AloneInv' /\ SellerInv' /\ KeepsVerified
           /\ \A h \in Groups \ SellerGroups : Apart(h)
  <1>0. KycTypeOK /\ AccountTypeOK /\ AddressTypeOK /\ LateInv /\ AccountInv /\ AddressInv
    BY SellerTypes DEF SellerInv
  <1>1. CASE KycStep(t)
    <2>1. /\ Only("kyc") /\ KycTypeOK' /\ LateInv' /\ KeepsVerified
          /\ UNCHANGED accountVars /\ UNCHANGED addressVars
      BY <1>0, <1>1, KycEffect
    <2>2. ReqInv' /\ AloneInv' /\ \A h \in Groups \ {"kyc"} : Apart(h) BY <2>1 DEF Only
    <2>3. Apart("account") /\ Apart("address") BY <2>2, SellerGroupsDiffer
    <2>4. AccountInv' /\ AddressInv' BY <1>0, <2>1, <2>2, <2>3, AccountFrame, AddressFrame
    <2>5. AccountTypeOK' /\ AddressTypeOK'
      BY <1>0, <2>1 DEF AccountTypeOK, AddressTypeOK, accountVars, addressVars
    <2>6. SellerTypeOK'
      BY <2>1, <2>5 DEF SellerTypeOK, KycTypeOK, AccountTypeOK, AddressTypeOK
    <2> QED BY <2>1, <2>2, <2>4, <2>6 DEF SellerInv, SellerGroups
  <1>2. CASE AccountStep(t)
    <2>1. /\ Only("account") /\ AccountTypeOK' /\ AccountInv'
          /\ UNCHANGED kycVars /\ UNCHANGED addressVars
      BY <1>0, <1>2, AccountEffect
    <2>2. ReqInv' /\ AloneInv' /\ \A h \in Groups \ {"account"} : Apart(h) BY <2>1 DEF Only
    <2>3. Apart("kyc") /\ Apart("address") BY <2>2, SellerGroupsDiffer
    <2>4. LateInv' /\ AddressInv' BY <1>0, <2>1, <2>2, <2>3, KycFrame, AddressFrame
    <2>5. KycTypeOK' /\ AddressTypeOK' /\ KeepsVerified
      BY <1>0, <2>1 DEF KycTypeOK, AddressTypeOK, KeepsVerified, kycVars, addressVars
    <2>6. SellerTypeOK'
      BY <2>1, <2>5 DEF SellerTypeOK, KycTypeOK, AccountTypeOK, AddressTypeOK
    <2> QED BY <2>1, <2>2, <2>4, <2>5, <2>6 DEF SellerInv, SellerGroups
  <1>3. CASE AddressStep(t)
    <2>1. /\ Only("address") /\ AddressTypeOK' /\ AddressInv'
          /\ UNCHANGED kycVars /\ UNCHANGED accountVars
      BY <1>0, <1>3, AddressEffect
    <2>2. ReqInv' /\ AloneInv' /\ \A h \in Groups \ {"address"} : Apart(h) BY <2>1 DEF Only
    <2>3. Apart("kyc") /\ Apart("account") BY <2>2, SellerGroupsDiffer
    <2>4. LateInv' /\ AccountInv' BY <1>0, <2>1, <2>2, <2>3, KycFrame, AccountFrame
    <2>5. KycTypeOK' /\ AccountTypeOK' /\ KeepsVerified
      BY <1>0, <2>1 DEF KycTypeOK, AccountTypeOK, KeepsVerified, kycVars, accountVars
    <2>6. SellerTypeOK'
      BY <2>1, <2>5 DEF SellerTypeOK, KycTypeOK, AccountTypeOK, AddressTypeOK
    <2> QED BY <2>1, <2>2, <2>4, <2>5, <2>6 DEF SellerInv, SellerGroups
  <1> QED BY <1>1, <1>2, <1>3 DEF SellerStep, KycStep, AccountStep, AddressStep

LEMMA SellerFrame ==
    ASSUME ReqInv, ReqInv', SellerInv, UNCHANGED sellerVars,
           Apart("kyc"), Apart("account"), Apart("address")
    PROVE  SellerInv' /\ KeepsVerified
  <1>1. UNCHANGED kycVars /\ UNCHANGED accountVars /\ UNCHANGED addressVars BY DEF sellerVars
  <1>2. LateInv' /\ AccountInv' /\ AddressInv'
    BY <1>1, KycFrame, AccountFrame, AddressFrame DEF SellerInv
  <1>3. SellerTypeOK' BY <1>1 DEF SellerInv, SellerTypeOK, kycVars, accountVars, addressVars
  <1> QED BY <1>1, <1>2, <1>3 DEF SellerInv, KeepsVerified, kycVars

LEMMA StopSellerEffect ==
    ASSUME ReqInv, SellerInv, StopBackend, late' = {},
           UNCHANGED <<kyc, cuit, kycShown, accountVars, addressVars>>
    PROVE  SellerInv' /\ KeepsVerified
  <1>1. /\ \A u \in Tabs : req'[u] = NoReq
        /\ overlaps' = overlaps /\ disturbed \subseteq disturbed'
        /\ \A g \in Repaired \ disturbed' : Busy(g) = {}
    BY StopEffect
  <1>2. \A u \in Tabs : req'[u].group = "none" BY <1>1 DEF NoReq
  <1>3. SellerTypeOK' BY DEF SellerInv, SellerTypeOK, accountVars, addressVars
  <1>4. LateInv' BY <1>2 DEF LateInv, Busy
  <1>5. AccountInv'
    <2>1. \A u \in Tabs : TabAccount(u)' BY <1>2 DEF TabAccount
    <2>2. Calm("account")' => Calm("account") BY <1>1 DEF Calm, Quiet, Repaired
    <2>3. Calm("account")' => status' = account'.status
      BY <2>2 DEF SellerInv, AccountInv, StatusMirrorsAccount, accountVars
    <2> QED BY <2>1, <2>3, AccountParts
  <1>6. AddressInv'
    <2>1. addresses' = addresses /\ defaults' = defaults BY DEF addressVars
    <2>2. \A u \in Tabs : TabAddress(u)' /\ PhaseAddress(u)' BY <1>2 DEF TabAddress, PhaseAddress
    <2>3. "address" \notin disturbed' => Quiet("address") /\ "address" \notin disturbed
      BY <1>1 DEF Quiet, Repaired
    <2>4. "address" \notin disturbed' => OneDefault
      BY <2>3 DEF SellerInv, AddressInv
    <2>5. "address" \notin disturbed' => OneDefault' BY <2>1, <2>4 DEF OneDefault
    <2>6. Creating' = {} BY <1>2 DEF Creating
    <2>7. CountAddress'
      <3>1. Cardinality(addresses) \in Nat /\ Cardinality(Creating) \in Nat /\ overlaps["address"] \in Nat
        BY SellerTypes, AddressCounts DEF SellerInv
      <3>2. Cardinality({}) = 0 BY FS_EmptySet
      <3>3. CountAddress BY AddressParts DEF SellerInv
      <3> QED BY <1>1, <2>1, <2>6, <3>1, <3>2, <3>3, AddressesFinite DEF CountAddress
    <2> QED BY <2>2, <2>5, <2>7, AddressParts
  <1>7. KeepsVerified BY DEF KeepsVerified
  <1> QED BY <1>3, <1>4, <1>5, <1>6, <1>7 DEF SellerInv

-----------------------------------------------------------------------------
(* Favourites *)

\* The clauses of HeartInv for a tab with a request and for one without.
TabHeart(u) ==
    req[u].group = "favorite" =>
        /\ Siblings(u) \subseteq crossed
        /\ req[u].ok => heartQuery[u] = "answered" /\ (heart[u] <=> Adds(u))
        /\ ~req[u].ok => u \in crossed
        /\ (u \notin crossed \/ req[u].alone) /\ req[u].pc = "done" => (Favored(u) <=> Adds(u))
        /\ u \notin crossed =>
              /\ req[u].pc = "sent" => (Adds(u) <=> ~Favored(u))
              /\ req[u].pc = "create" => ~Favored(u)
              /\ req[u].pc = "delete" => Favored(u)
              /\ req[u].pc # "failed"
IdleHeart(u) ==
    u \notin crossed /\ req[u].group # "favorite" =>
        /\ heartQuery[u] = "answered" => (heart[u] <=> Favored(u))
        /\ heartQuery[u] = "yes" => Favored(u)
        /\ heartQuery[u] = "no" => ~Favored(u)

LEMMA HeartParts ==
    /\ HeartInv <=> \A u \in Tabs : TabHeart(u) /\ IdleHeart(u)
    /\ HeartInv' <=> \A u \in Tabs : TabHeart(u)' /\ IdleHeart(u)'
  BY DEF HeartInv, TabHeart, IdleHeart, Busy, BusyHeart

\* What a step on a heart leaves true.
HeartKeeps ==
    /\ ReqInv' /\ AloneInv' /\ HeartsTypeOK' /\ HeartInv'
    /\ \A h \in Groups \ {"favorite"} : Apart(h)

\* A step of tab t leaves what holds of the hearts of the other tabs: those of
\* its buyer are crossed while it changes the favourite.
LEMMA OtherHearts ==
    ASSUME ReqInv, HeartInv, NEW t \in Tabs, NEW u \in Tabs \ {t},
           req'[u].group = req[u].group, Alike(req'[u], req[u]), req'[u].alone => req[u].alone,
           user' = user, heart'[u] = heart[u], heartQuery'[u] = heartQuery[u],
           crossed \ {t} \subseteq crossed',
           t \in crossed /\ t \notin crossed' => req[u].group # "favorite",
           \/ Favored(u)' <=> Favored(u)
           \/ u \in crossed' /\ ~(req[u].group = "favorite" /\ req[u].alone)
    PROVE  TabHeart(u)' /\ IdleHeart(u)'
  <1>1. TabHeart(u) /\ IdleHeart(u) BY HeartParts
  <1>2. Adds(u)' <=> Adds(u) BY DEF Adds, Alike
  <1>3. u \in crossed => u \in crossed' OBVIOUS
  <1>4. /\ req'[u].pc = req[u].pc /\ req'[u].ok = req[u].ok BY DEF Alike
  <1>5. Siblings(u)' = Siblings(u) BY DEF Siblings
  <1>6. ASSUME req[u].group = "favorite" PROVE crossed \subseteq crossed' BY <1>6
  <1>7. IdleHeart(u)' BY <1>1, <1>3 DEF IdleHeart
  <1>8. TabHeart(u)' BY <1>1, <1>2, <1>3, <1>4, <1>5, <1>6 DEF TabHeart
  <1> QED BY <1>7, <1>8

LEMMA HeartGroup ==
    ASSUME ReqInv, NEW t \in Tabs
    PROVE  /\ req[t].op \in {"addFavorite", "removeFavorite"} => req[t].group = "favorite"
           /\ req[t].group = "favorite" =>
                 /\ req[t].op \in {"addFavorite", "removeFavorite"}
                 /\ req[t].op = "addFavorite" => req[t].pc \in {"sent", "create", "done", "failed"}
                 /\ req[t].op = "removeFavorite" => req[t].pc \in {"sent", "delete", "done", "failed"}
           /\ req[t].ok \in BOOLEAN
  <1>0. req[t].ok \in BOOLEAN BY DEF ReqInv, ReqType
  <1>1. CASE req[t].group = "none" BY <1>0, <1>1, NoneIsNoReq
  <1>2. CASE req[t].group # "none" BY <1>0, <1>2, NoneIsNoReq DEF ShapeOf, ShapeAs
  <1> QED BY <1>1, <1>2

LEMMA QueryEffect ==
    ASSUME ReqInv, AloneInv, HeartsTypeOK, HeartInv, NEW t \in Tabs,
           isFavoriteRead(t) \/ isFavoriteAnswer(t)
    PROVE  HeartKeeps
  <1>1. UNCHANGED clientVars /\ user' = user /\ place' = place /\ favorite' = favorite
    BY DEF isFavoriteRead, isFavoriteAnswer
  <1>2. req' = req /\ UNCHANGED ghostVars /\ budget' \in [Areas -> Nat]
    BY <1>1 DEF clientVars, ReqInv
  <1>3. ReqInv' /\ AloneInv' /\ \A h \in Groups : Apart(h) BY <1>2, StillFrame
  <1>a. TabHeart(t) /\ IdleHeart(t) BY HeartParts
  <1>b. \A u \in Tabs : /\ Favored(u)' <=> Favored(u)
                        /\ Adds(u)' <=> Adds(u)
                        /\ Siblings(u)' = Siblings(u)
    BY <1>1, <1>2 DEF Favored, Adds, Siblings
  <1>c. req[t].ok \in BOOLEAN BY HeartGroup
  <1>4. CASE isFavoriteRead(t)
    <2>1. /\ heartQuery[t] = "unasked" /\ heart' = heart
          /\ heartQuery' = [heartQuery EXCEPT ![t] = IF Favored(t) THEN "yes" ELSE "no"]
          /\ crossed \subseteq crossed' /\ crossed' \subseteq crossed \cup {t}
      BY <1>4 DEF isFavoriteRead, Favored
    <2>2. HeartsTypeOK' BY <1>1, <2>1 DEF HeartsTypeOK
    <2>3. heartQuery'[t] = (IF Favored(t) THEN "yes" ELSE "no") BY <2>1 DEF HeartsTypeOK
    <2>4. \A u \in Tabs \ {t} : heartQuery'[u] = heartQuery[u] BY <2>1 DEF HeartsTypeOK
    <2>5. \A u \in Tabs \ {t} : TabHeart(u)' /\ IdleHeart(u)'
      BY <1>1, <1>2, <1>b, <2>1, <2>4, OtherHearts DEF Alike
    <2>6. IdleHeart(t)' BY <1>b, <2>3 DEF IdleHeart
    <2>7. TabHeart(t)'
      <3>1. ASSUME req[t].group = "favorite" PROVE ~req[t].ok /\ t \in crossed
        BY <1>a, <1>c, <2>1, <3>1 DEF TabHeart
      <3>2. CASE req[t].group = "favorite"
        <4>1. /\ ~req'[t].ok /\ t \in crossed' /\ Siblings(t)' \subseteq crossed'
              /\ req[t].alone /\ req[t].pc = "done" => (Favored(t) <=> Adds(t))
          BY <1>2, <1>a, <1>b, <2>1, <3>1, <3>2 DEF TabHeart
        <4>2. req'[t].alone /\ req'[t].pc = "done" => (Favored(t)' <=> Adds(t)')
          BY <1>2, <1>b, <4>1
        <4> QED BY <4>1, <4>2 DEF TabHeart
      <3> QED BY <1>2, <3>2 DEF TabHeart
    <2> QED BY <1>3, <2>2, <2>5, <2>6, <2>7, HeartParts DEF HeartKeeps
  <1>5. CASE isFavoriteAnswer(t)
    <2>1. /\ heartQuery[t] \in {"yes", "no"} /\ crossed' = crossed
          /\ heartQuery' = [heartQuery EXCEPT ![t] = "answered"]
          /\ heart' = [heart EXCEPT ![t] = heartQuery[t] = "yes"]
      BY <1>5 DEF isFavoriteAnswer
    <2>2. HeartsTypeOK'
      <3>1. heart' \in [Tabs -> BOOLEAN] BY <2>1 DEF HeartsTypeOK
      <3>2. heartQuery' \in [Tabs -> {"unasked", "yes", "no", "answered"}] BY <2>1 DEF HeartsTypeOK
      <3> QED BY <1>1, <2>1, <3>1, <3>2 DEF HeartsTypeOK
    <2>3. heartQuery'[t] = "answered" /\ (heart'[t] <=> heartQuery[t] = "yes")
      BY <2>1 DEF HeartsTypeOK
    <2>4. \A u \in Tabs \ {t} : heartQuery'[u] = heartQuery[u] /\ heart'[u] = heart[u]
      BY <2>1 DEF HeartsTypeOK
    <2>5. \A u \in Tabs \ {t} : TabHeart(u)' /\ IdleHeart(u)'
      BY <1>1, <1>2, <1>b, <2>1, <2>4, OtherHearts DEF Alike
    <2>6. IdleHeart(t)' BY <1>2, <1>a, <1>b, <2>1, <2>3 DEF IdleHeart
    <2>7. TabHeart(t)'
      <3>1. ASSUME req[t].group = "favorite" PROVE ~req[t].ok /\ t \in crossed
        BY <1>a, <1>c, <2>1, <3>1 DEF TabHeart
      <3>2. CASE req[t].group = "favorite"
        <4>1. /\ ~req'[t].ok /\ t \in crossed' /\ Siblings(t)' \subseteq crossed'
              /\ req[t].alone /\ req[t].pc = "done" => (Favored(t) <=> Adds(t))
          BY <1>2, <1>a, <1>b, <2>1, <3>1, <3>2 DEF TabHeart
        <4>2. req'[t].alone /\ req'[t].pc = "done" => (Favored(t)' <=> Adds(t)')
          BY <1>2, <1>b, <4>1
        <4> QED BY <4>1, <4>2 DEF TabHeart
      <3> QED BY <1>2, <3>2 DEF TabHeart
    <2> QED BY <1>3, <2>2, <2>5, <2>6, <2>7, HeartParts DEF HeartKeeps
  <1> QED BY <1>4, <1>5

LEMMA ClickEffect ==
    ASSUME ReqInv, AloneInv, HeartsTypeOK, HeartInv, NEW t \in Tabs, handleFavoriteClick(t)
    PROVE  HeartKeeps
  <1>0. "favorite" \in Groups /\ "hearts" \in Areas BY DEF Groups, Areas
  <1> DEFINE op == IF heart[t] THEN "removeFavorite" ELSE "addFavorite"
             ok == heartQuery[t] = "answered"
             q == [NoReq EXCEPT !.op = op, !.pc = "sent", !.ok = ok]
  <1>1. /\ Start(t, "hearts", "favorite", q)
        /\ heart' = [heart EXCEPT ![t] = ~@]
        /\ crossed' = crossed \cup Siblings(t) \cup (IF heartQuery[t] = "answered" THEN {} ELSE {t})
        /\ user' = user /\ place' = place /\ favorite' = favorite /\ heartQuery' = heartQuery
    BY DEF handleFavoriteClick
  <1>2. op \in {"removeFavorite", "addFavorite"} /\ ok \in BOOLEAN OBVIOUS
  <1>3. q \in ReqType /\ q.op = op /\ q.pc = "sent" /\ q.ok = ok
    <2> HIDE DEF op, ok
    <2> QED BY <1>2 DEF NoReq, ReqType, Ops, Stages, Groups
  <1>4. ShapeOf("favorite", q) BY <1>2, <1>3 DEF ShapeOf, ShapeAs
  <1>5. (op = "addFavorite" <=> ~heart[t]) /\ (ok <=> heartQuery[t] = "answered") OBVIOUS
  <1> HIDE DEF q, op, ok
  <1>6. /\ Only("favorite") /\ req[t] = NoReq
        /\ req'[t].group = "favorite" /\ Alike(req'[t], q)
        /\ \A u \in Tabs \ {t} : req'[u].group = req[u].group /\ Alike(req'[u], req[u])
        /\ \A u \in Tabs \ {t} : req'[u].alone <=> (req[u].alone /\ req[u].group # "favorite")
    BY <1>0, <1>1, <1>3, <1>4, StartEffect
  <1>7. req'[t].op = op /\ req'[t].pc = "sent" /\ req'[t].ok = ok BY <1>3, <1>6 DEF Alike
  <1>8. req[t].group # "favorite" BY <1>6 DEF NoReq
  <1>9. HeartsTypeOK' BY <1>1 DEF HeartsTypeOK, Siblings
  <1>10. (heart'[t] <=> ~heart[t]) /\ \A u \in Tabs \ {t} : heart'[u] = heart[u]
    BY <1>1 DEF HeartsTypeOK
  <1>11. \A u \in Tabs : (Favored(u)' <=> Favored(u)) /\ Siblings(u)' = Siblings(u)
    BY <1>1 DEF Favored, Siblings
  <1>12. \A u \in Tabs \ {t} : TabHeart(u)' /\ IdleHeart(u)'
    BY <1>1, <1>6, <1>10, <1>11, OtherHearts
  <1>13. IdleHeart(t)' BY <1>6 DEF IdleHeart
  <1>14. TabHeart(t)'
    <2>1. Adds(t)' <=> ~heart[t] BY <1>5, <1>7 DEF Adds
    <2>2. IdleHeart(t) BY HeartParts
    <2>3. t \notin crossed' => heartQuery[t] = "answered" /\ (heart[t] <=> Favored(t))
      BY <1>1, <1>8, <2>2 DEF IdleHeart
    <2>4. Siblings(t)' \subseteq crossed' /\ (heartQuery[t] # "answered" => t \in crossed')
      BY <1>1, <1>11
    <2> QED BY <1>1, <1>5, <1>7, <1>10, <1>11, <2>1, <2>3, <2>4 DEF TabHeart
  <1> QED BY <1>6, <1>9, <1>12, <1>13, <1>14, HeartParts DEF HeartKeeps, Only

\* A step of the handlers, up to the answer.
LEMMA FavoriteMoves ==
    ASSUME ReqInv, AloneInv, HeartsTypeOK, HeartInv, NEW t \in Tabs,
           req[t].group = "favorite", req[t].pc \in {"sent", "create", "delete"},
           NEW pc \in {"create", "delete", "done", "failed"}, To(t, pc),
           user' = user, place' = place, heart' = heart, heartQuery' = heartQuery,
           crossed' = crossed, favorite' \subseteq Buyers,
           \A u \in Tabs : user[u] # user[t] => (Favored(u)' <=> Favored(u)),
           ShapeAs("favorite", req[t].op, pc, req[t].ok),
           pc = "done" => (Favored(t)' <=> Adds(t)),
           t \notin crossed =>
              /\ pc = "create" => ~Favored(t)'
              /\ pc = "delete" => Favored(t)'
              /\ pc # "failed"
    PROVE  HeartKeeps
  <1>0. "favorite" \in Groups /\ pc \in Stages /\ pc # "sent"
    <2>1. {"create", "delete", "done", "failed"} \subseteq Stages BY DEF Stages
    <2> QED BY <2>1 DEF Groups
  <1>1. /\ Only("favorite") /\ Others(t)
        /\ req'[t].group = "favorite" /\ req'[t].alone = req[t].alone
        /\ req'[t].op = req[t].op /\ req'[t].pc = pc /\ req'[t].ok = req[t].ok
    BY <1>0, ToEffect
  <1>2. ReqInv' /\ AloneInv' /\ \A h \in Groups \ {"favorite"} : Apart(h) BY <1>1 DEF Only
  <1>3. HeartsTypeOK' BY DEF HeartsTypeOK
  <1>4. TabHeart(t) BY HeartParts
  <1>5. ASSUME NEW u \in Tabs \ {t} PROVE TabHeart(u)' /\ IdleHeart(u)'
    <2>1. req'[u] = req[u] BY <1>1 DEF Others
    <2>2. CASE user[u] # user[t]
      BY <2>1, <2>2, OtherHearts DEF Alike
    <2>3. CASE user[u] = user[t]
      <3>1. u \in Siblings(t) BY <2>3 DEF Siblings
      <3>2. u \in crossed' BY <1>4, <3>1 DEF TabHeart
      <3>3. ~(req[u].group = "favorite" /\ req[u].alone) BY DEF AloneInv
      <3> QED BY <2>1, <3>2, <3>3, OtherHearts DEF Alike
    <2> QED BY <2>2, <2>3
  <1>6. IdleHeart(t)' BY <1>1 DEF IdleHeart
  <1>7. TabHeart(t)'
    <2>1. Adds(t)' <=> Adds(t) BY <1>1 DEF Adds
    <2>2. Siblings(t)' = Siblings(t) BY DEF Siblings
    <2>3. /\ Siblings(t) \subseteq crossed
          /\ req[t].ok => heartQuery[t] = "answered" /\ (heart[t] <=> Adds(t))
          /\ ~req[t].ok => t \in crossed
      BY <1>4 DEF TabHeart
    <2>4. req'[t].pc = "done" => (Favored(t)' <=> Adds(t)') BY <1>1, <2>1
    <2>5. t \notin crossed' =>
              /\ req'[t].pc = "sent" => (Adds(t)' <=> ~Favored(t)')
              /\ req'[t].pc = "create" => ~Favored(t)'
              /\ req'[t].pc = "delete" => Favored(t)'
              /\ req'[t].pc # "failed"
      BY <1>0, <1>1
    <2> QED BY <1>1, <2>1, <2>2, <2>3, <2>4, <2>5 DEF TabHeart
  <1> QED BY <1>2, <1>3, <1>5, <1>6, <1>7, HeartParts DEF HeartKeeps

LEMMA AddEffect ==
    ASSUME ReqInv, AloneInv, HeartsTypeOK, HeartInv, NEW t \in Tabs,
           addFavoriteRead(t) \/ addFavoriteCreate(t)
    PROVE  HeartKeeps
  <1>1. /\ req[t].op = "addFavorite" /\ Adds(t)
        /\ user' = user /\ place' = place /\ heart' = heart /\ heartQuery' = heartQuery
        /\ crossed' = crossed
    BY DEF addFavoriteRead, addFavoriteCreate, At, Adds, heartVars
  <1>2. req[t].group = "favorite" BY <1>1, HeartGroup
  <1>3. TabHeart(t) BY HeartParts
  <1>4. CASE addFavoriteRead(t)
    <2> DEFINE pc == IF Favored(t) THEN "done" ELSE "create"
    <2>1. req[t].pc = "sent" /\ To(t, pc) /\ favorite' = favorite
      BY <1>4 DEF addFavoriteRead, At, Favored, heartVars
    <2>2. /\ pc \in {"create", "delete", "done", "failed"}
          /\ pc = "done" => Favored(t) /\ pc # "failed" /\ pc # "delete"
          /\ pc # "done" => pc = "create" /\ ~Favored(t)
      OBVIOUS
    <2>3. ShapeAs("favorite", req[t].op, pc, req[t].ok) BY <1>1, <2>2 DEF ShapeAs
    <2>4. \A u \in Tabs : Favored(u)' <=> Favored(u) BY <1>1, <2>1 DEF Favored
    <2>5. favorite' \subseteq Buyers BY <2>1 DEF HeartsTypeOK
    <2> HIDE DEF pc
    <2> QED BY <1>1, <1>2, <2>1, <2>2, <2>3, <2>4, <2>5, FavoriteMoves
  <1>5. CASE addFavoriteCreate(t)
    <2> DEFINE pc == IF Favored(t) THEN "failed" ELSE "done"
    <2>1. req[t].pc = "create" /\ To(t, pc) /\ favorite' = favorite \cup {user[t]}
      BY <1>5 DEF addFavoriteCreate, At, Favored
    <2>2. t \notin crossed => ~Favored(t) BY <1>2, <1>3, <2>1 DEF TabHeart
    <2>3. /\ pc \in {"create", "delete", "done", "failed"}
          /\ pc # "create" /\ pc # "delete"
          /\ t \notin crossed => pc # "failed"
      BY <2>2
    <2>4. ShapeAs("favorite", req[t].op, pc, req[t].ok) BY <1>1, <2>3 DEF ShapeAs
    <2>5. \A u \in Tabs : user[u] # user[t] => (Favored(u)' <=> Favored(u))
      BY <1>1, <2>1 DEF Favored
    <2>6. Favored(t)' BY <1>1, <2>1 DEF Favored
    <2>7. favorite' \subseteq Buyers BY <2>1 DEF HeartsTypeOK
    <2> HIDE DEF pc
    <2> QED BY <1>1, <1>2, <2>1, <2>3, <2>4, <2>5, <2>6, <2>7, FavoriteMoves
  <1> QED BY <1>4, <1>5

LEMMA RemoveEffect ==
    ASSUME ReqInv, AloneInv, HeartsTypeOK, HeartInv, NEW t \in Tabs,
           removeFavoriteRead(t) \/ removeFavoriteDelete(t)
    PROVE  HeartKeeps
  <1>1. /\ req[t].op = "removeFavorite" /\ ~Adds(t)
        /\ user' = user /\ place' = place /\ heart' = heart /\ heartQuery' = heartQuery
        /\ crossed' = crossed
    BY DEF removeFavoriteRead, removeFavoriteDelete, At, Adds, heartVars
  <1>2. req[t].group = "favorite" BY <1>1, HeartGroup
  <1>3. TabHeart(t) BY HeartParts
  <1>4. CASE removeFavoriteRead(t)
    <2> DEFINE pc == IF Favored(t) THEN "delete" ELSE "failed"
    <2>1. req[t].pc = "sent" /\ To(t, pc) /\ favorite' = favorite
      BY <1>4 DEF removeFavoriteRead, At, Favored, heartVars
    <2>2. t \notin crossed => Favored(t) BY <1>1, <1>2, <1>3, <2>1 DEF TabHeart
    <2>3. /\ pc \in {"create", "delete", "done", "failed"}
          /\ pc # "done" /\ pc # "create"
          /\ pc = "delete" => Favored(t)
          /\ t \notin crossed => pc # "failed"
      BY <2>2
    <2>4. ShapeAs("favorite", req[t].op, pc, req[t].ok) BY <1>1, <2>3 DEF ShapeAs
    <2>5. \A u \in Tabs : Favored(u)' <=> Favored(u) BY <1>1, <2>1 DEF Favored
    <2>6. favorite' \subseteq Buyers BY <2>1 DEF HeartsTypeOK
    <2> HIDE DEF pc
    <2> QED BY <1>1, <1>2, <2>1, <2>3, <2>4, <2>5, <2>6, FavoriteMoves
  <1>5. CASE removeFavoriteDelete(t)
    <2> DEFINE pc == IF Favored(t) THEN "done" ELSE "failed"
    <2>1. req[t].pc = "delete" /\ To(t, pc) /\ favorite' = favorite \ {user[t]}
      BY <1>5 DEF removeFavoriteDelete, At, Favored
    <2>2. t \notin crossed => Favored(t) BY <1>2, <1>3, <2>1 DEF TabHeart
    <2>3. /\ pc \in {"create", "delete", "done", "failed"}
          /\ pc # "create" /\ pc # "delete"
          /\ t \notin crossed => pc # "failed"
      BY <2>2
    <2>4. ShapeAs("favorite", req[t].op, pc, req[t].ok) BY <1>1, <2>3 DEF ShapeAs
    <2>5. \A u \in Tabs : user[u] # user[t] => (Favored(u)' <=> Favored(u))
      BY <1>1, <2>1 DEF Favored
    <2>6. ~Favored(t)' BY <1>1, <2>1 DEF Favored
    <2>7. favorite' \subseteq Buyers BY <2>1 DEF HeartsTypeOK
    <2> HIDE DEF pc
    <2> QED BY <1>1, <1>2, <2>1, <2>3, <2>4, <2>5, <2>6, <2>7, FavoriteMoves
  <1> QED BY <1>4, <1>5

LEMMA UndoneType == \A t : Undone(t) \in BOOLEAN
  <1>1. TAKE t
  <1>2. CASE place[t] = "raffle" BY <1>2 DEF Undone
  <1>3. CASE place[t] # "raffle" BY <1>3 DEF Undone
  <1> QED BY <1>2, <1>3

\* A request that answers alone puts the heart in order.
LEMMA AnswerEffect ==
    ASSUME ReqInv, AloneInv, HeartsTypeOK, HeartInv, NEW t \in Tabs, favoriteAnswer(t)
    PROVE  HeartKeeps
  <1>0. "favorite" \in Groups BY DEF Groups
  <1>1. /\ req[t].group = "favorite" /\ req[t].pc \in {"done", "failed"}
        /\ heart' = [heart EXCEPT ![t] = IF req[t].pc = "failed" THEN Undone(t) ELSE @]
        /\ crossed' = (IF req[t].pc = "done" /\ req[t].alone /\ req[t].ok
                       THEN crossed \ {t} ELSE crossed)
        /\ Done(t)
        /\ user' = user /\ place' = place /\ favorite' = favorite /\ heartQuery' = heartQuery
    BY DEF favoriteAnswer, BusyHeart
  <1>2. Only("favorite") /\ Others(t) /\ req'[t].group = "none" BY <1>0, <1>1, DoneEffect
  <1>3. ReqInv' /\ AloneInv' /\ \A h \in Groups \ {"favorite"} : Apart(h) BY <1>2 DEF Only
  <1>4. HeartsTypeOK'
    <2>1. Undone(t) \in BOOLEAN BY UndoneType
    <2>2. heart[t] \in BOOLEAN BY DEF HeartsTypeOK
    <2>3. heart' \in [Tabs -> BOOLEAN] BY <1>1, <2>1, <2>2 DEF HeartsTypeOK
    <2> QED BY <1>1, <2>3 DEF HeartsTypeOK
  <1>5. TabHeart(t) BY HeartParts
  <1>6. \A u \in Tabs : Favored(u)' <=> Favored(u) BY <1>1 DEF Favored
  <1>7. ASSUME NEW u \in Tabs \ {t} PROVE TabHeart(u)' /\ IdleHeart(u)'
    <2>1. req'[u] = req[u] BY <1>2 DEF Others
    <2>2. heart'[u] = heart[u] BY <1>1 DEF HeartsTypeOK
    <2>3. crossed \ {t} \subseteq crossed' BY <1>1
    <2>4. t \in crossed /\ t \notin crossed' => req[u].group # "favorite"
      BY <1>1 DEF AloneInv
    <2> QED BY <1>1, <1>6, <2>1, <2>2, <2>3, <2>4, OtherHearts DEF Alike
  <1>8. TabHeart(t)' BY <1>2 DEF TabHeart
  <1>9. IdleHeart(t)'
    <2>1. ASSUME t \notin crossed'
          PROVE  heartQuery[t] = "answered" /\ heart'[t] = heart[t] /\ (heart[t] <=> Favored(t))
      <3>1. req[t].ok \in BOOLEAN BY HeartGroup
      <3>2. CASE req[t].pc = "done" /\ req[t].alone /\ req[t].ok
        BY <1>1, <1>5, <3>2 DEF TabHeart, HeartsTypeOK
      <3>3. CASE ~(req[t].pc = "done" /\ req[t].alone /\ req[t].ok)
        <4>1. t \notin crossed BY <1>1, <2>1, <3>3
        <4>2. req[t].ok /\ req[t].pc = "done" BY <1>1, <1>5, <3>1, <4>1 DEF TabHeart
        <4> QED BY <1>1, <1>5, <4>1, <4>2 DEF TabHeart, HeartsTypeOK
      <3> QED BY <3>2, <3>3
    <2> QED BY <1>1, <1>6, <2>1 DEF IdleHeart
  <1> QED BY <1>3, <1>4, <1>7, <1>8, <1>9, HeartParts DEF HeartKeeps

LEMMA HeartEffect ==
    ASSUME ReqInv, AloneInv, HeartsTypeOK, HeartInv, NEW t \in Tabs, HeartStep(t)
    PROVE  HeartKeeps
  BY QueryEffect, ClickEffect, AddEffect, RemoveEffect, AnswerEffect DEF HeartStep

LEMMA HeartFrame ==
    ASSUME HeartsTypeOK, HeartInv, Apart("favorite"), UNCHANGED heartVars
    PROVE  HeartsTypeOK' /\ HeartInv'
  <1>1. /\ user' = user /\ place' = place /\ favorite' = favorite /\ heart' = heart
        /\ heartQuery' = heartQuery /\ crossed' = crossed
    BY DEF heartVars
  <1>2. HeartsTypeOK' BY <1>1 DEF HeartsTypeOK
  <1>3. ASSUME NEW u \in Tabs PROVE TabHeart(u)' /\ IdleHeart(u)'
    <2>1. TabHeart(u) /\ IdleHeart(u) BY HeartParts
    <2>2. /\ (req[u].group = "favorite" \/ req'[u].group = "favorite") => req'[u] = req[u]
          /\ Favored(u)' <=> Favored(u)
          /\ Siblings(u)' = Siblings(u)
      BY <1>1 DEF Apart, Favored, Siblings
    <2>3. IdleHeart(u)' BY <1>1, <2>1, <2>2 DEF IdleHeart
    <2>4. TabHeart(u)' BY <1>1, <2>1, <2>2 DEF TabHeart, Adds
    <2> QED BY <2>3, <2>4
  <1> QED BY <1>2, <1>3, HeartParts

LEMMA StopHeartsEffect ==
    ASSUME ReqInv, HeartsTypeOK, HeartInv, StopBackend, StopHearts
    PROVE  HeartsTypeOK' /\ HeartInv'
  <1> DEFINE hit == {t \in Tabs : BusyHeart(t)}
  <1>1. \A u \in Tabs : req'[u].group = "none" BY StopEffect DEF NoReq
  <1>2. /\ heart' = [t \in Tabs |-> IF t \in hit THEN Undone(t) ELSE heart[t]]
        /\ crossed' = crossed \cup hit
        /\ user' = user /\ place' = place /\ favorite' = favorite /\ heartQuery' = heartQuery
    BY DEF StopHearts
  <1>3. HeartsTypeOK'
    <2>1. \A t \in Tabs : Undone(t) \in BOOLEAN BY UndoneType
    <2>2. heart' \in [Tabs -> BOOLEAN] BY <1>2, <2>1 DEF HeartsTypeOK
    <2> QED BY <1>2, <2>2 DEF HeartsTypeOK
  <1>4. ASSUME NEW u \in Tabs PROVE TabHeart(u)' /\ IdleHeart(u)'
    <2>1. TabHeart(u)' BY <1>1 DEF TabHeart
    <2>2. u \notin crossed' => /\ u \notin crossed /\ req[u].group # "favorite"
                               /\ heart'[u] = heart[u]
      BY <1>2 DEF BusyHeart
    <2>3. IdleHeart(u) BY HeartParts
    <2>4. Favored(u)' <=> Favored(u) BY <1>2 DEF Favored
    <2>5. IdleHeart(u)' BY <1>2, <2>2, <2>3, <2>4 DEF IdleHeart
    <2> QED BY <2>1, <2>5
  <1> QED BY <1>3, <1>4, HeartParts

-----------------------------------------------------------------------------
(* Prices *)

LEMMA Products ==
    /\ \A n, x \in Nat : n * x \in Nat
    /\ \A n, x, y \in Nat : x <= y => n * x <= n * y
  <1>1. ASSUME NEW n \in Nat, NEW x \in Nat, NEW y \in Nat, x <= y PROVE n * x <= n * y
    <2>1. y - x \in Nat /\ n * (y - x) \in Nat BY <1>1
    <2>2. n * y = n * x + n * (y - x) OBVIOUS
    <2>3. n * x \in Nat OBVIOUS
    <2> QED BY <2>1, <2>2, <2>3
  <1> QED BY <1>1

LEMMA Percents ==
    \A m \in Nat : m \div 100 \in Nat /\ 100 * (m \div 100) <= m /\ m < 100 * (m \div 100) + 100
  OBVIOUS

\* The discount grows more slowly than what it is computed from.
LEMMA PreviewGrows ==
    ASSUME NEW g \in Nat, NEW h \in Nat, g <= h
    PROVE  /\ buildBonusPreview(g) \in Nat /\ buildBonusPreview(g) <= g
           /\ buildBonusPreview(g) <= buildBonusPreview(h)
           /\ g <= buildBonusPreview(g) + MaxDiscount
  <1> DEFINE a == (g * DiscountPercent + 50) \div 100
             b == (h * DiscountPercent + 50) \div 100
  <1>1. DiscountPercent \in Nat /\ DiscountPercent <= 100 /\ MaxDiscount \in Nat BY BuyerAssumption
  <1>2. g * DiscountPercent \in Nat /\ h * DiscountPercent \in Nat BY <1>1, Products
  <1>3. /\ a \in Nat /\ 100 * a <= g * DiscountPercent + 50
        /\ g * DiscountPercent + 50 < 100 * a + 100
    BY <1>2, Percents
  <1>4. /\ b \in Nat /\ 100 * b <= h * DiscountPercent + 50
        /\ h * DiscountPercent + 50 < 100 * b + 100
    BY <1>2, Percents
  <1>5. g * DiscountPercent <= g * 100 BY <1>1, Products
  <1>6. h * DiscountPercent <= g * DiscountPercent + (h - g) * 100
    <2>1. h - g \in Nat OBVIOUS
    <2>2. (h - g) * DiscountPercent <= (h - g) * 100 BY <1>1, <2>1, Products
    <2>3. h * DiscountPercent = g * DiscountPercent + (h - g) * DiscountPercent BY <1>1
    <2>4. (h - g) * DiscountPercent \in Nat BY <1>1, <2>1, Products
    <2> QED BY <1>2, <2>1, <2>2, <2>3, <2>4
  <1>7. a <= g BY <1>2, <1>3, <1>5
  <1>8. b <= a + (h - g) BY <1>2, <1>3, <1>4, <1>6
  <1>9. buildBonusPreview(g) = g - Lesser(a, MaxDiscount) BY DEF buildBonusPreview
  <1>10. buildBonusPreview(h) = h - Lesser(b, MaxDiscount) BY DEF buildBonusPreview
  <1> HIDE DEF a, b
  <1>11. Lesser(a, MaxDiscount) \in Nat /\ Lesser(a, MaxDiscount) <= a
         /\ Lesser(a, MaxDiscount) <= MaxDiscount
    BY <1>1, <1>3 DEF Lesser
  <1>12. Lesser(b, MaxDiscount) \in Nat /\ Lesser(b, MaxDiscount) <= Lesser(a, MaxDiscount) + (h - g)
    BY <1>1, <1>3, <1>4, <1>8 DEF Lesser
  <1> QED BY <1>1, <1>3, <1>7, <1>9, <1>10, <1>11, <1>12

LEMMA Premiums ==
    ASSUME NEW x \in Nat, NEW n \in Nat
    PROVE  selectionPremium(x, n) \in Nat
  <1>1. PremiumPercent \in Nat BY BuyerAssumption
  <1>2. x * PremiumPercent \in Nat BY <1>1, Products
  <1> DEFINE a == (x * PremiumPercent + 50) \div 100
  <1>3. a \in Nat BY <1>2, Percents
  <1>4. selectionPremium(x, n) = n * a BY DEF selectionPremium
  <1> HIDE DEF a
  <1> QED BY <1>3, <1>4, Products

\* A page that assumes at least the configured percentage shows at most a cent
\* less for each number than the backend charges at no higher a price.
LEMMA PremiumCovered ==
    ASSUME NEW p \in Nat, NEW x \in Nat, NEW n \in Nat, x <= p,
           NEW percent \in Nat, NEW premium \in premiumPerSelectedTicket(p, percent)
    PROVE  /\ premium \in Nat
           /\ percent >= PremiumPercent => selectionPremium(x, n) <= n * premium + n
  <1>1. PremiumPercent \in Nat BY BuyerAssumption
  <1> DEFINE a == (x * PremiumPercent + 50) \div 100
             b == (p * percent + 49) \div 100
             c == (p * percent + 50) \div 100
  <1>2. x * PremiumPercent \in Nat /\ p * percent \in Nat BY <1>1, Products
  <1>3. premium = b \/ premium = c BY DEF premiumPerSelectedTicket
  <1>4. /\ a \in Nat /\ 100 * a <= x * PremiumPercent + 50
        /\ b \in Nat /\ p * percent + 49 < 100 * b + 100
        /\ c \in Nat /\ p * percent + 50 < 100 * c + 100
    BY <1>2, Percents
  <1>5. percent >= PremiumPercent => x * PremiumPercent <= p * percent
    <2>1. ASSUME percent >= PremiumPercent PROVE x * PremiumPercent <= x * percent
      BY <1>1, <2>1, Products
    <2>2. x * percent = percent * x /\ p * percent = percent * p OBVIOUS
    <2>3. percent * x <= percent * p BY Products
    <2>4. x * percent \in Nat BY Products
    <2> QED BY <1>2, <2>1, <2>2, <2>3, <2>4
  <1>6. selectionPremium(x, n) = n * a BY DEF selectionPremium
  <1> HIDE DEF a, b, c
  <1>7. premium \in Nat BY <1>3, <1>4
  <1>8. ASSUME percent >= PremiumPercent PROVE n * a <= n * premium + n
    <2>1. a <= premium + 1 BY <1>2, <1>3, <1>4, <1>5, <1>7, <1>8
    <2>2. n * a <= n * (premium + 1) BY <1>4, <1>7, <2>1, Products
    <2>3. n * (premium + 1) = n * premium + n BY <1>7
    <2> QED BY <2>2, <2>3
  <1> QED BY <1>6, <1>7, <1>8

\* A pack that the backend gives is one that a page with older counts shows.
LEMMA PackShrinks ==
    ASSUME NEW n \in Nat, NEW available \in Nat, NEW allowed \in Nat,
           NEW before \in Nat, NEW had \in Nat, available <= before, allowed <= had,
           evaluateSimpleRandomPack(n, before, had) = 0
    PROVE  evaluateSimpleRandomPack(n, available, allowed) = 0
  <1>1. CASE n \notin DOMAIN PackBonuses BY <1>1 DEF evaluateSimpleRandomPack
  <1>2. CASE n \in DOMAIN PackBonuses
    <2>1. PackBonuses[n] \in Nat BY <1>2, BuyerAssumption
    <2> QED BY <1>2, <2>1 DEF evaluateSimpleRandomPack
  <1> QED BY <1>1, <1>2

\* What is charged without the bonus exceeds what is charged with it by no more
\* than the bonus is worth.
LEMMA ChargeType ==
    ASSUME NEW r \in ReqType, NEW x \in Nat, NEW uses \in BOOLEAN
    PROVE  /\ Charge(r, x, uses) \in Nat
           /\ Charge(r, x, FALSE) <= Charge(r, x, TRUE) + MaxDiscount
  <1>1. r.id \in Nat /\ MaxDiscount \in Nat BY BuyerAssumption DEF ReqType
  <1>2. r.id * x \in Nat BY <1>1, Products
  <1>3. /\ buildBonusPreview(r.id * x) \in Nat
        /\ r.id * x <= buildBonusPreview(r.id * x) + MaxDiscount
    <2>1. r.id * x <= r.id * x BY <1>2
    <2> QED BY <1>2, <2>1, PreviewGrows
  <1> DEFINE extra == IF r.op = "CHOOSE_NUMBERS" THEN selectionPremium(x, r.id) ELSE 0
             full == r.id * x
             less == buildBonusPreview(r.id * x)
             with == Charge(r, x, TRUE)
             without == Charge(r, x, FALSE)
  <1>4. extra \in Nat BY <1>1, Premiums
  <1>5. with = less + extra /\ without = full + extra BY DEF Charge
  <1>6. full \in Nat /\ less \in Nat /\ full <= less + MaxDiscount BY <1>2, <1>3
  <1> HIDE DEF extra, full, less, with, without
  <1>7. with \in Nat /\ without \in Nat /\ without <= with + MaxDiscount
    BY <1>1, <1>4, <1>5, <1>6
  <1>8. CASE uses = TRUE BY <1>7, <1>8 DEF with, without
  <1>9. CASE uses = FALSE BY <1>7, <1>9 DEF with, without
  <1> QED BY <1>8, <1>9

-----------------------------------------------------------------------------
(* The raffle page and the purchase *)

BuyerInv == BuyerTypeOK /\ PageInv /\ BillInv

\* What a step of a purchase page leaves true.
BuyerKeeps ==
    /\ ReqInv' /\ AloneInv' /\ BuyerInv'
    /\ \A h \in Groups \ {"buy"} : Apart(h)

OwnedBy(b) == {n \in Numbers \ refunded : owner[n] = b}

LEMMA NumberCounts ==
    /\ IsFiniteSet(Numbers) /\ Cardinality(Numbers) \in Nat /\ MAX_TICKETS \in Nat
    /\ Taken \subseteq Numbers /\ Cardinality(Taken) \in Nat
    /\ Cardinality(Taken) <= Cardinality(Numbers)
    /\ Available = Cardinality(Numbers) - Cardinality(Taken)
    /\ \A b : Owned(b) = Cardinality(OwnedBy(b)) /\ Owned(b) \in Nat /\ Allowed(b) \in Nat
  <1>1. IsFiniteSet(Numbers) /\ MAX_TICKETS \in Nat BY BuyerAssumption
  <1>2. Taken \in SUBSET Numbers BY DEF Taken
  <1>3. /\ Cardinality(Numbers) \in Nat /\ Cardinality(Taken) \in Nat
        /\ Cardinality(Taken) <= Cardinality(Numbers)
    BY <1>1, <1>2, Counting
  <1>4. Available = Cardinality(Numbers) - Cardinality(Taken)
    <2>1. Numbers \cap Taken = Taken BY <1>2
    <2>2. Cardinality(Numbers \ Taken) = Cardinality(Numbers) - Cardinality(Numbers \cap Taken)
      BY <1>1, FS_Difference
    <2> QED BY <2>1, <2>2 DEF Available
  <1>5. ASSUME NEW b PROVE Owned(b) = Cardinality(OwnedBy(b)) /\ Owned(b) \in Nat /\ Allowed(b) \in Nat
    <2>1. OwnedBy(b) \in SUBSET Numbers BY DEF OwnedBy
    <2>2. Owned(b) = Cardinality(OwnedBy(b)) BY DEF Owned, OwnedBy
    <2>3. Owned(b) \in Nat BY <1>1, <2>1, <2>2, Counting
    <2>4. Allowed(b) \in Nat BY <1>1, <2>3 DEF Allowed, Minus
    <2> QED BY <2>2, <2>3, <2>4
  <1> QED BY <1>1, <1>2, <1>3, <1>4, <1>5

\* As a number is sold once, what is available only shrinks.
OwnersGrow ==
    /\ owner \in [Numbers -> Buyers \cup {0}] /\ owner' \in [Numbers -> Buyers \cup {0}]
    /\ \A n \in Numbers : owner[n] # 0 => owner'[n] = owner[n]

LEMMA CountsShrink ==
    ASSUME OwnersGrow
    PROVE  /\ Cardinality(Taken') \in Nat /\ Cardinality(Taken) <= Cardinality(Taken')
           /\ Available' \in Nat /\ Available \in Nat /\ Available' <= Available
  <1>1. IsFiniteSet(Numbers) /\ Cardinality(Numbers) \in Nat /\ MAX_TICKETS \in Nat
    BY NumberCounts
  <1>2. Taken \in SUBSET Numbers /\ Taken' \in SUBSET Numbers /\ Taken \subseteq Taken'
    BY DEF Taken, OwnersGrow
  <1>3. /\ Cardinality(Taken) \in Nat /\ Cardinality(Taken') \in Nat
        /\ Cardinality(Taken) <= Cardinality(Taken')
        /\ Cardinality(Taken') <= Cardinality(Numbers)
    <2>1. Numbers \in SUBSET Numbers OBVIOUS
    <2> QED BY <1>1, <1>2, <2>1, Counting
  <1>4. /\ Available = Cardinality(Numbers) - Cardinality(Taken)
        /\ Available' = Cardinality(Numbers) - Cardinality(Taken')
    <2>1. Numbers \cap Taken' = Taken' BY <1>2
    <2>2. Cardinality(Numbers \ Taken') = Cardinality(Numbers) - Cardinality(Numbers \cap Taken')
      BY <1>1, FS_Difference
    <2> QED BY <2>1, <2>2, NumberCounts DEF Available
  <1>6. Available' \in Nat /\ Available \in Nat /\ Available' <= Available
    BY <1>1, <1>3, <1>4
  <1> QED BY <1>3, <1>6

\* The requests of a tab that the step leaves alone keep their clauses.
LEMMA OtherBills ==
    ASSUME ReqInv, BuyerInv, OwnersGrow, NEW u \in Tabs,
           req'[u].group = req[u].group, Alike(req'[u], req[u]), bill'[u] = bill[u]
    PROVE  TabBill(u)'
  <1>1. TabBill(u) BY DEF BuyerInv, BillInv
  <1>2. /\ req'[u].pc = req[u].pc /\ req'[u].ok = req[u].ok /\ req'[u].seen = req[u].seen
        /\ req'[u].id = req[u].id /\ req'[u].op = req[u].op
    BY DEF Alike
  <1>3. \A x \in Nat : Charge(req'[u], x, req'[u].ok) = Charge(req[u], x, req[u].ok)
    BY <1>2 DEF Charge
  <1>4. NoPack(u) => NoPack(u)'
    <2> DEFINE had == Minus(MAX_TICKETS, bill[u].own)
    <2>1. MAX_TICKETS \in Nat /\ bill[u].own \in Nat
      BY BuyerAssumption DEF BuyerInv, BuyerTypeOK, BillType
    <2>2. had \in Nat /\ had <= had BY <2>1 DEF Minus
    <2>3. Available' \in Nat /\ Available \in Nat /\ Available' <= Available BY CountsShrink
    <2>4. req[u].id \in Nat BY DEF ReqInv, ReqType
    <2> HIDE DEF had
    <2>5. ASSUME evaluateSimpleRandomPack(req[u].id, Available, had) = 0
          PROVE  evaluateSimpleRandomPack(req[u].id, Available', had) = 0
      BY <2>2, <2>3, <2>4, <2>5, PackShrinks
    <2> QED BY <1>2, <2>5 DEF NoPack, had
  <1> QED BY <1>1, <1>2, <1>3, <1>4 DEF TabBill

LEMMA PageTypes ==
    /\ Closed \in PageType /\ Closed.sold = 0
    /\ NoBill \in BillType /\ Fair(NoBill)
  BY DEF Closed, NoBill, PageType, BillType, Fair, Covered

LEMMA ViewType ==
    ASSUME BuyerTypeOK, HeartsTypeOK, NEW t \in Tabs, NEW p \in PageType
    PROVE  View(t, p) \in PageType /\ View(t, p).sold <= Cardinality(Taken)
  <1>1. price \in Nat /\ onSale \in BOOLEAN BY BuyerAssumption DEF BuyerTypeOK
  <1>2. /\ Taken \in SUBSET Numbers /\ Cardinality(Taken \ refunded) \in Nat
        /\ Cardinality(Taken \ refunded) <= Cardinality(Taken)
    <2>1. IsFiniteSet(Numbers) /\ Taken \in SUBSET Numbers BY NumberCounts
    <2>2. Taken \ refunded \in SUBSET Numbers /\ Taken \ refunded \subseteq Taken BY <2>1
    <2> QED BY <2>1, <2>2, Counting
  <1>3. credit[user[t]] \in Nat BY DEF BuyerTypeOK, HeartsTypeOK
  <1>4. p.previews \cup {price} \in SUBSET Nat BY <1>1 DEF PageType
  <1>5. View(t, p) = [p EXCEPT !.price = price, !.onSale = onSale,
                        !.sold = Cardinality(Taken \ refunded), !.taken = Taken,
                        !.credit = credit[user[t]], !.refetch = FALSE,
                        !.previews = @ \cup {price}]
    BY DEF View
  <1> QED BY <1>1, <1>2, <1>3, <1>4, <1>5 DEF PageType

\* What reads or changes a page or the price, and sends nothing.
LEMMA PageKeeps ==
    ASSUME ReqInv, AloneInv, HeartsTypeOK, BuyerInv, user' = user,
           req' = req, UNCHANGED ghostVars, budget' \in [Areas -> Nat],
           price' \in Prices, page' \in [Tabs -> PageType],
           onSale' \in BOOLEAN, refunded' \subseteq Numbers, credit' \in [Buyers -> Nat],
           UNCHANGED <<owner, paid, grant, bill>>,
           \A t \in Tabs : page'[t].sold <= Cardinality(Taken)
    PROVE  BuyerKeeps
  <1>1. ReqInv' /\ AloneInv' /\ \A h \in Groups : Apart(h) BY StillFrame
  <1>2. BuyerTypeOK' BY DEF BuyerInv, BuyerTypeOK
  <1>3. OwnersGrow BY <1>2 DEF OwnersGrow, BuyerInv, BuyerTypeOK
  <1>4. BillInv' BY <1>3, OtherBills DEF Alike, BillInv
  <1>5. PageInv'
    <2>1. Taken' = Taken BY DEF Taken
    <2> QED BY <2>1 DEF PageInv
  <1> QED BY <1>1, <1>2, <1>4, <1>5 DEF BuyerInv, BuyerKeeps

LEMMA PageEffect ==
    ASSUME ReqInv, AloneInv, HeartsTypeOK, BuyerInv, NEW t \in Tabs,
           openPage(t) \/ refetchRaffle(t) \/ myTicketCount(t), user' = user
    PROVE  BuyerKeeps
  <1>1. /\ page \in [Tabs -> PageType] /\ price \in Prices /\ onSale \in BOOLEAN
        /\ refunded \subseteq Numbers /\ credit \in [Buyers -> Nat]
    BY DEF BuyerInv, BuyerTypeOK
  <1>2. \A u \in Tabs : page[u].sold <= Cardinality(Taken) BY DEF BuyerInv, PageInv
  <1>3. ASSUME NEW p \in PageType, page' = [page EXCEPT ![t] = p], p.sold <= Cardinality(Taken),
               UNCHANGED <<req, ghostVars, saleVars, bill>>, budget' \in [Areas -> Nat]
        PROVE  BuyerKeeps
    <2>1. /\ page' \in [Tabs -> PageType]
          /\ \A u \in Tabs : page'[u].sold <= Cardinality(Taken)
      BY <1>1, <1>2, <1>3
    <2>2. UNCHANGED <<price, onSale, owner, paid, refunded, credit, grant>> BY <1>3 DEF saleVars
    <2> QED BY <1>1, <1>3, <2>1, <2>2, PageKeeps
  <1>4. CASE openPage(t)
    <2> DEFINE p == View(t, Closed)
    <2>1. /\ budget["buyer"] > 0 /\ budget' = [budget EXCEPT !["buyer"] = @ - 1]
          /\ page' = [page EXCEPT ![t] = p] /\ UNCHANGED <<req, ghostVars, saleVars, bill>>
      BY <1>4 DEF openPage
    <2>2. budget' \in [Areas -> Nat] BY <2>1 DEF ReqInv, Areas
    <2>3. p \in PageType /\ p.sold <= Cardinality(Taken) BY PageTypes, ViewType DEF BuyerInv
    <2> HIDE DEF p
    <2> QED BY <1>3, <2>1, <2>2, <2>3
  <1>5. ASSUME NEW p, PageVars(t, p)
        PROVE  /\ page' = [page EXCEPT ![t] = p] /\ UNCHANGED <<req, ghostVars, saleVars, bill>>
               /\ budget' \in [Areas -> Nat]
    BY <1>5 DEF PageVars, clientVars, ReqInv
  <1>6. CASE refetchRaffle(t)
    <2> DEFINE p == View(t, page[t])
    <2>1. PageVars(t, p) BY <1>6 DEF refetchRaffle
    <2>2. page[t] \in PageType BY <1>1
    <2>3. p \in PageType /\ p.sold <= Cardinality(Taken) BY <2>2, ViewType DEF BuyerInv
    <2> HIDE DEF p
    <2> QED BY <1>3, <1>5, <2>1, <2>3
  <1>7. CASE myTicketCount(t)
    <2> DEFINE p == [page[t] EXCEPT !.counted = TRUE, !.own = Owned(user[t])]
    <2>1. PageVars(t, p) BY <1>7 DEF myTicketCount
    <2>2. page[t] \in PageType /\ Owned(user[t]) \in Nat BY <1>1, NumberCounts
    <2>3. p \in PageType /\ p.sold = page[t].sold BY <2>2 DEF PageType
    <2>4. p.sold <= Cardinality(Taken) BY <1>2, <2>3
    <2> HIDE DEF p
    <2> QED BY <1>3, <1>5, <2>1, <2>3, <2>4
  <1> QED BY <1>4, <1>6, <1>7

LEMMA PriceEffect ==
    ASSUME ReqInv, AloneInv, HeartsTypeOK, BuyerInv, updatePrice, user' = user
    PROVE  BuyerKeeps
  <1>1. /\ budget["buyer"] > 0 /\ budget' = [budget EXCEPT !["buyer"] = @ - 1]
        /\ price' \in Prices /\ req' = req /\ UNCHANGED ghostVars
        /\ UNCHANGED <<onSale, owner, paid, refunded, credit, grant, bill>>
        /\ page' = [u \in Tabs |-> IF Open(u) THEN [page[u] EXCEPT !.previews = @ \cup {price'}]
                                   ELSE page[u]]
    BY DEF updatePrice
  <1>2. budget' \in [Areas -> Nat] BY <1>1 DEF ReqInv, Areas
  <1>3. price' \in Nat BY <1>1, BuyerAssumption
  <1>4. ASSUME NEW u \in Tabs
        PROVE  page'[u] \in PageType /\ page'[u].sold = page[u].sold
    <2>1. page[u] \in PageType BY DEF BuyerInv, BuyerTypeOK
    <2>2. page[u].previews \cup {price'} \in SUBSET Nat BY <1>3, <2>1 DEF PageType
    <2>3. CASE Open(u)
      <3>1. page'[u] = [page[u] EXCEPT !.previews = @ \cup {price'}] BY <1>1, <2>3
      <3> QED BY <2>1, <2>2, <3>1 DEF PageType
    <2>4. CASE ~Open(u)
      <3>1. page'[u] = page[u] BY <1>1, <2>4
      <3> QED BY <2>1, <3>1
    <2> QED BY <2>3, <2>4
  <1>5. page' \in [Tabs -> PageType] BY <1>1, <1>4
  <1>6. \A u \in Tabs : page'[u].sold <= Cardinality(Taken)
    BY <1>4 DEF BuyerInv, PageInv
  <1>7. onSale \in BOOLEAN /\ refunded \subseteq Numbers /\ credit \in [Buyers -> Nat]
    BY DEF BuyerInv, BuyerTypeOK
  <1> QED BY <1>1, <1>2, <1>5, <1>6, <1>7, PageKeeps

\* Refunds take no number back; only the buyers are allowed more tickets.
LEMMA CancelEffect ==
    ASSUME ReqInv, AloneInv, HeartsTypeOK, BuyerInv, refundTickets \/ cancelRaffle, user' = user
    PROVE  BuyerKeeps
  <1>1. /\ price \in Prices /\ page \in [Tabs -> PageType] /\ onSale \in BOOLEAN
        /\ refunded \subseteq Numbers /\ credit \in [Buyers -> Nat] /\ paid \in [Numbers -> Nat]
    BY DEF BuyerInv, BuyerTypeOK
  <1>2. \A u \in Tabs : page[u].sold <= Cardinality(Taken) BY DEF BuyerInv, PageInv
  <1>3. /\ budget["buyer"] > 0 /\ budget' = [budget EXCEPT !["buyer"] = @ - 1]
        /\ UNCHANGED <<req, ghostVars, price, owner, paid, grant, page, bill>>
    BY DEF refundTickets, cancelRaffle
  <1>4. budget' \in [Areas -> Nat] BY <1>3 DEF ReqInv, Areas
  <1>5. /\ onSale' \in BOOLEAN /\ refunded' \subseteq Numbers /\ credit' \in [Buyers -> Nat]
    <2>1. CASE refundTickets
      <3> DEFINE back(b) == SumOf(paid, {n \in Taken \ refunded : owner[n] = b})
      <3>1. ASSUME NEW b \in Buyers PROVE back(b) \in Nat
        <4> DEFINE rows == {n \in Taken \ refunded : owner[n] = b}
        <4>1. rows \subseteq Numbers /\ IsFiniteSet(Numbers) BY NumberCounts
        <4>2. IsFiniteSet(rows) BY <4>1, FS_Subset
        <4>3. \A n \in rows : paid[n] \in Nat BY <1>1, <4>1
        <4> HIDE DEF rows
        <4>4. SumOf(paid, rows) \in Nat BY <4>2, <4>3, SumOfType
        <4> QED BY <4>4 DEF rows
      <3>2. credit' = [b \in Buyers |-> credit[b] + back(b)] BY <2>1 DEF refundTickets
      <3> HIDE DEF back
      <3>3. credit' \in [Buyers -> Nat] BY <1>1, <3>1, <3>2
      <3> QED BY <1>1, <2>1, <3>3, NumberCounts DEF refundTickets
    <2>2. CASE cancelRaffle BY <1>1, <2>2 DEF cancelRaffle
    <2> QED BY <2>1, <2>2
  <1> QED BY <1>1, <1>2, <1>3, <1>4, <1>5, PageKeeps

\* The total that a page shows covers, but for the rounding of each premium, what
\* the backend charges at any price up to the one the page has read.
LEMMA TotalCovers ==
    ASSUME NEW p \in PageType, NEW mode \in {"RANDOM", "CHOOSE_NUMBERS"}, NEW n \in Nat,
           NEW q \in Nat, NEW bonus \in BOOLEAN, ~bonus => q = 0,
           bonus /\ mode = "RANDOM" => PagePack(p, n) = 0,
           NEW percent \in Nat, NEW premium \in Nat, percent >= PremiumPercent,
           mode = "CHOOSE_NUMBERS" => premium \in premiumPerSelectedTicket(p.price, percent),
           NEW r \in ReqType, r.op = mode, r.id = n,
           NEW x \in Nat, x <= (IF q # 0 THEN Lesser(q, p.price) ELSE p.price)
    PROVE  Charge(r, x, bonus) <= totalToCharge(p, mode, n, q, premium)
                                  + (IF mode = "CHOOSE_NUMBERS" THEN n ELSE 0)
  <1>1. p.price \in Nat BY DEF PageType
  <1>2. x <= p.price /\ (q # 0 => x <= q) BY <1>1 DEF Lesser
  <1>3. /\ n * x \in Nat /\ n * p.price \in Nat /\ n * q \in Nat /\ n * x <= n * p.price
        /\ q # 0 => n * x <= n * q
    BY <1>1, <1>2, Products
  <1>5. /\ buildBonusPreview(n * x) \in Nat /\ buildBonusPreview(n * x) <= n * x
    BY <1>3, PreviewGrows
  <1>6. buildBonusPreview(n * q) \in Nat
    <2>1. n * q <= n * q BY <1>3
    <2> QED BY <1>3, <2>1, PreviewGrows
  <1>7. q # 0 => buildBonusPreview(n * x) <= buildBonusPreview(n * q) BY <1>3, PreviewGrows
  <1> DEFINE base == IF bonus THEN buildBonusPreview(n * x) ELSE n * x
  <1>8. base \in Nat /\ base <= ChargedBase(p, n, q)
    <2>1. CASE q # 0 BY <1>5, <1>7, <2>1 DEF ChargedBase
    <2>2. CASE q = 0 BY <1>3, <1>5, <2>2 DEF ChargedBase
    <2> QED BY <2>1, <2>2
  <1>9. ChargedBase(p, n, q) \in Nat BY <1>3, <1>6 DEF ChargedBase
  <1>10. CASE mode = "CHOOSE_NUMBERS"
    <2> DEFINE extra == selectionPremium(x, n)
    <2>1. totalToCharge(p, mode, n, q, premium) = ChargedBase(p, n, q) + n * premium
      BY <1>10 DEF totalToCharge
    <2>2. Charge(r, x, bonus) = base + extra BY <1>10 DEF Charge
    <2>3. premium \in premiumPerSelectedTicket(p.price, percent) BY <1>10
    <2>4. extra \in Nat BY Premiums
    <2>5. extra <= n * premium + n BY <1>1, <1>2, <2>3, PremiumCovered
    <2>6. n * premium \in Nat BY Products
    <2> HIDE DEF base, extra
    <2> QED BY <1>8, <1>9, <1>10, <2>1, <2>2, <2>4, <2>5, <2>6
  <1>11. CASE mode = "RANDOM"
    <2>1. Charge(r, x, bonus) = base
      <3>1. Charge(r, x, bonus) = base + 0 BY <1>11 DEF Charge
      <3> HIDE DEF base
      <3> QED BY <1>8, <3>1
    <2>2. base <= totalToCharge(p, mode, n, q, premium)
      <3>1. CASE PagePack(p, n) > 0
        <4>1. ~bonus BY <1>11, <3>1
        <4>2. totalToCharge(p, mode, n, q, premium) = n * p.price BY <1>11, <3>1 DEF totalToCharge
        <4> QED BY <1>3, <4>1, <4>2
      <3>2. CASE ~(PagePack(p, n) > 0)
        <4>1. totalToCharge(p, mode, n, q, premium) = ChargedBase(p, n, q)
          BY <1>11, <3>2 DEF totalToCharge
        <4> QED BY <1>8, <4>1
      <3> QED BY <3>1, <3>2
    <2>3. totalToCharge(p, mode, n, q, premium) \in Nat
      BY <1>3, <1>9, <1>11 DEF totalToCharge
    <2> HIDE DEF base
    <2> QED BY <1>8, <1>11, <2>1, <2>2, <2>3
  <1> QED BY <1>10, <1>11

LEMMA TotalType ==
    ASSUME NEW p \in PageType, NEW mode \in {"RANDOM", "CHOOSE_NUMBERS"}, NEW n \in Nat,
           NEW q \in Nat, NEW premium \in Nat
    PROVE  totalToCharge(p, mode, n, q, premium) \in Nat
  <1>1. p.price \in Nat BY DEF PageType
  <1>2. n * p.price \in Nat /\ n * q \in Nat /\ n * premium \in Nat BY <1>1, Products
  <1>3. buildBonusPreview(n * q) \in Nat
    <2>1. n * q <= n * q BY <1>2
    <2> QED BY <1>2, <2>1, PreviewGrows
  <1>4. ChargedBase(p, n, q) \in Nat BY <1>2, <1>3 DEF ChargedBase
  <1> QED BY <1>2, <1>4 DEF totalToCharge

\* A pack that the page does not show is one that the backend does not give to a
\* buyer who has the tickets that the page has counted.
LEMMA NoPackSubmitted ==
    ASSUME PageInv, NEW t \in Tabs, NEW n \in Nat, page[t] \in PageType,
           PagePack(page[t], n) = 0
    PROVE  evaluateSimpleRandomPack(n, Available, Minus(MAX_TICKETS, page[t].own)) = 0
  <1>1. /\ Cardinality(Numbers) \in Nat /\ MAX_TICKETS \in Nat
        /\ Cardinality(Taken) \in Nat /\ Cardinality(Taken) <= Cardinality(Numbers)
        /\ Available = Cardinality(Numbers) - Cardinality(Taken)
    BY NumberCounts
  <1>2. page[t].sold \in Nat /\ page[t].own \in Nat /\ page[t].sold <= Cardinality(Taken)
    BY DEF PageInv, PageType
  <1> DEFINE before == Cardinality(Numbers) - page[t].sold
             had == Minus(MAX_TICKETS, page[t].own)
  <1>3. before \in Nat /\ Available \in Nat /\ Available <= before BY <1>1, <1>2
  <1>4. had \in Nat /\ had <= had BY <1>1, <1>2 DEF Minus
  <1>5. evaluateSimpleRandomPack(n, before, had) = 0 BY DEF PagePack
  <1> HIDE DEF before, had
  <1>6. evaluateSimpleRandomPack(n, Available, had) = 0 BY <1>3, <1>4, <1>5, PackShrinks
  <1> QED BY <1>6 DEF had

LEMMA SubmitEffect ==
    ASSUME ReqInv, AloneInv, HeartsTypeOK, BuyerInv, NEW t \in Tabs,
           NEW mode \in {"RANDOM", "CHOOSE_NUMBERS"}, NEW n \in Nat, NEW numbers \in SUBSET Numbers,
           NEW bonus \in BOOLEAN, NEW percent \in Nat, NEW premium \in Nat,
           Submit(t, mode, n, numbers, bonus, percent, premium), user' = user,
           bonus /\ mode = "RANDOM" => PagePack(page[t], n) = 0,
           Cardinality(numbers) = (IF mode = "CHOOSE_NUMBERS" THEN n ELSE 0),
           mode = "CHOOSE_NUMBERS" => premium \in premiumPerSelectedTicket(page[t].price, percent)
    PROVE  BuyerKeeps
  <1>0. "buy" \in Groups /\ "buyer" \in Areas BY DEF Groups, Areas
  <1> DEFINE r == [NoReq EXCEPT !.op = mode, !.pc = "sent", !.id = n, !.seen = numbers, !.ok = bonus]
  <1>1. PICK q \in Preview(t, bonus) :
           /\ Start(t, "buyer", "buy", r)
           /\ bill' = [bill EXCEPT ![t] =
                 [NoBill EXCEPT !.shown = totalToCharge(page[t], mode, n, q, premium),
                    !.own = page[t].own, !.percent = percent, !.chosen = Cardinality(numbers),
                    !.read = IF q # 0 THEN Lesser(q, page[t].price) ELSE page[t].price]]
           /\ UNCHANGED <<saleVars, page>>
    BY DEF Submit
  <1>2. page[t] \in PageType BY DEF BuyerInv, BuyerTypeOK
  <1>3. q \in Nat /\ (~bonus => q = 0) BY <1>2 DEF Preview, PageType
  <1>4. r \in ReqType /\ r.op = mode /\ r.pc = "sent" /\ r.id = n /\ r.seen = numbers /\ r.ok = bonus
    BY DEF NoReq, ReqType, Ops, Stages, Groups
  <1>5. ShapeOf("buy", r) BY <1>4 DEF ShapeOf, ShapeAs
  <1> HIDE DEF r
  <1>6. /\ Only("buy") /\ req'[t].group = "buy" /\ Alike(req'[t], r)
        /\ \A u \in Tabs \ {t} : req'[u].group = req[u].group /\ Alike(req'[u], req[u])
    BY <1>0, <1>1, <1>4, <1>5, StartEffect
  <1>7. ReqInv' /\ AloneInv' /\ \A h \in Groups \ {"buy"} : Apart(h) BY <1>6 DEF Only
  <1> DEFINE shown == totalToCharge(page[t], mode, n, q, premium)
             read == IF q # 0 THEN Lesser(q, page[t].price) ELSE page[t].price
             own == page[t].own
             chosen == Cardinality(numbers)
             new == [NoBill EXCEPT !.shown = shown, !.own = own, !.percent = percent,
                                   !.chosen = chosen, !.read = read]
  <1>8. shown \in Nat /\ read \in Nat /\ own \in Nat /\ chosen \in Nat
    <2>1. page[t].price \in Nat /\ page[t].own \in Nat BY <1>2 DEF PageType
    <2>2. shown \in Nat BY <1>2, <1>3, TotalType
    <2>3. read \in Nat BY <1>3, <2>1 DEF Lesser
    <2>4. chosen \in Nat OBVIOUS
    <2> QED BY <2>1, <2>2, <2>3, <2>4
  <1>9. bill' = [bill EXCEPT ![t] = new] BY <1>1
  <1>10. percent >= PremiumPercent =>
            \A x \in Nat : x <= read => Charge(r, x, bonus) <= shown + chosen
    <2>1. PremiumPercent \in Nat BY BuyerAssumption
    <2> SUFFICES ASSUME percent >= PremiumPercent, NEW x \in Nat, x <= read
                 PROVE  Charge(r, x, bonus) <= shown + chosen
      OBVIOUS
    <2> QED BY <1>2, <1>3, <1>4, <2>1, TotalCovers
  <1> HIDE DEF shown, read, own, chosen
  <1>11. /\ new \in BillType /\ new.shown = shown /\ new.read = read /\ new.own = own
         /\ new.percent = percent /\ new.chosen = chosen
         /\ new.charged = 0 /\ new.at = 0
    BY <1>8 DEF BillType, NoBill
  <1> HIDE DEF new
  <1>12. bill'[t] = new /\ \A u \in Tabs \ {t} : bill'[u] = bill[u]
    BY <1>9 DEF BuyerInv, BuyerTypeOK
  <1>a. /\ price' = price /\ onSale' = onSale /\ owner' = owner /\ paid' = paid
        /\ refunded' = refunded /\ credit' = credit /\ grant' = grant /\ page' = page
    BY <1>1 DEF saleVars
  <1>13. BuyerTypeOK'
    <2>1. bill' \in [Tabs -> BillType] BY <1>9, <1>11 DEF BuyerInv, BuyerTypeOK
    <2> QED BY <1>a, <2>1 DEF BuyerInv, BuyerTypeOK
  <1>14. OwnersGrow BY <1>a, <1>13 DEF OwnersGrow, BuyerInv, BuyerTypeOK
  <1>15. \A u \in Tabs \ {t} : TabBill(u)' BY <1>6, <1>12, <1>14, OtherBills
  <1>16. TabBill(t)'
    <2>1. /\ req'[t].op = mode /\ req'[t].pc = "sent" /\ req'[t].id = n
          /\ req'[t].seen = numbers /\ req'[t].ok = bonus
      BY <1>4, <1>6 DEF Alike
    <2>2. \A x \in Nat : Charge(req'[t], x, req'[t].ok) = Charge(r, x, bonus)
      BY <1>4, <2>1 DEF Charge
    <2>3. req'[t].ok /\ req'[t].op = "RANDOM" => NoPack(t)'
      <3>1. Available' = Available BY <1>a DEF Available, Taken
      <3>2. bonus /\ mode = "RANDOM"
              => evaluateSimpleRandomPack(n, Available, Minus(MAX_TICKETS, own)) = 0
        BY <1>2, NoPackSubmitted DEF BuyerInv, own
      <3>3. bonus /\ mode = "RANDOM"
              => evaluateSimpleRandomPack(n, Available', Minus(MAX_TICKETS, own)) = 0
        BY <3>1, <3>2
      <3>4. bill'[t].own = own BY <1>11, <1>12
      <3> QED BY <2>1, <3>3, <3>4 DEF NoPack
    <2>4. Fair(bill'[t])
      <3>1. Covered(bill'[t]) \in Nat /\ bill'[t].charged = 0 BY <1>8, <1>11, <1>12 DEF Covered
      <3>2. (IF bill'[t].regained THEN MaxDiscount ELSE 0) \in Nat BY BuyerAssumption
      <3> QED BY <3>1, <3>2 DEF Fair
    <2>5. bill'[t].percent >= PremiumPercent =>
             \A x \in Nat : x <= bill'[t].read => Charge(req'[t], x, req'[t].ok) <= Covered(bill'[t])
      BY <1>10, <1>11, <1>12, <2>2 DEF Covered
    <2> QED BY <2>1, <2>3, <2>4, <2>5 DEF TabBill
  <1>17. PageInv'
    <2>1. Taken' = Taken BY <1>a DEF Taken
    <2> QED BY <1>a, <2>1 DEF BuyerInv, PageInv
  <1>18. BillInv' BY <1>15, <1>16 DEF BillInv
  <1> QED BY <1>7, <1>13, <1>17, <1>18 DEF BuyerInv, BuyerKeeps

LEMMA BuyGroup ==
    ASSUME ReqInv, NEW t \in Tabs, req[t].group = "buy"
    PROVE  /\ req[t] \in ReqType /\ req[t].op \in {"RANDOM", "CHOOSE_NUMBERS"}
           /\ req[t].ok \in BOOLEAN /\ req[t].id \in Nat
  <1>1. req[t].op \in {"RANDOM", "CHOOSE_NUMBERS"} BY NoneIsNoReq DEF ShapeOf, ShapeAs
  <1> QED BY <1>1 DEF ReqInv, ReqType

LEMMA ReserveEffect ==
    ASSUME ReqInv, AloneInv, HeartsTypeOK, BuyerInv, NEW t \in Tabs,
           reserveTicketsForCheckout(t), user' = user
    PROVE  BuyerKeeps
  <1>0. "buy" \in Groups /\ "bought" \in Stages BY DEF Groups, Stages
  <1> DEFINE r == req[t]
             b == user[t]
             total == totalChargeAmount(r, b)
             regained == Owned(b) < bill[t].own
  <1>1. /\ req[t].group = "buy" /\ req[t].pc = "sent" /\ Accepts(r, b)
        /\ credit' = [credit EXCEPT ![b] = @ - total]
        /\ grant' = [grant EXCEPT ![b] = @ /\ ~UsesGrant(r, b)]
        /\ onSale' \in BOOLEAN
        /\ bill' = [bill EXCEPT ![t].charged = total, ![t].at = price, ![t].regained = regained]
        /\ To(t, "bought") /\ price' = price /\ refunded' = refunded /\ page' = page
    BY DEF reserveTicketsForCheckout
  <1>2. PICK numbers \in (IF r.op = "CHOOSE_NUMBERS" THEN {r.seen}
                          ELSE {s \in SUBSET (Numbers \ Taken) : Cardinality(s) = r.id + PackOf(r, b)}) :
           /\ owner' = [n \in Numbers |-> IF n \in numbers THEN b ELSE owner[n]]
           /\ paid' = [n \in Numbers |-> IF n \in numbers THEN price ELSE paid[n]]
    BY DEF reserveTicketsForCheckout
  <1>3. /\ req[t] \in ReqType /\ req[t].op \in {"RANDOM", "CHOOSE_NUMBERS"}
        /\ req[t].ok \in BOOLEAN /\ req[t].id \in Nat
    BY <1>1, BuyGroup
  <1>4. b \in Buyers /\ b # 0 BY TabUsersAssumption DEF HeartsTypeOK
  <1>5. TabBill(t) BY DEF BuyerInv, BillInv
  <1>6. ShapeAs("buy", req[t].op, "bought", req[t].ok) BY <1>3 DEF ShapeAs
  <1>7. /\ Only("buy") /\ Others(t) /\ req'[t].group = "buy" /\ req'[t].pc = "bought"
    BY <1>0, <1>1, <1>6, ToEffect
  <1>8. ReqInv' /\ AloneInv' /\ \A h \in Groups \ {"buy"} : Apart(h) BY <1>7 DEF Only
  <1>9. numbers \subseteq Numbers \ Taken
    <2>1. r.seen \subseteq Numbers BY <1>1, <1>5 DEF TabBill
    <2>2. r.seen \cap Taken = {} BY <1>1 DEF Accepts
    <2> QED BY <1>2, <2>1, <2>2
  <1>10. OwnersGrow
    <2>1. owner \in [Numbers -> Buyers \cup {0}] BY DEF BuyerInv, BuyerTypeOK
    <2>2. owner' \in [Numbers -> Buyers \cup {0}] BY <1>2, <1>4, <2>1
    <2>3. \A n \in Numbers : owner[n] # 0 => owner'[n] = owner[n]
      BY <1>2, <1>9 DEF Taken
    <2> QED BY <2>1, <2>2, <2>3 DEF OwnersGrow
  <1>11. price \in Nat /\ bill[t] \in BillType
    BY BuyerAssumption DEF BuyerInv, BuyerTypeOK
  <1>12. ~regained => (UsesGrant(r, b) <=> r.ok)
    <2>1. ASSUME ~regained, r.ok PROVE PackOf(r, b) = 0
      <3>1. CASE r.op = "CHOOSE_NUMBERS" BY <3>1 DEF PackOf
      <3>2. CASE r.op = "RANDOM"
        <4>1. evaluateSimpleRandomPack(r.id, Available, Minus(MAX_TICKETS, bill[t].own)) = 0
          BY <1>1, <1>5, <2>1, <3>2 DEF TabBill, NoPack
        <4> DEFINE had == Minus(MAX_TICKETS, bill[t].own)
        <4>2. /\ MAX_TICKETS \in Nat /\ Owned(b) \in Nat /\ Allowed(b) \in Nat
              /\ Cardinality(Numbers) \in Nat /\ Cardinality(Taken) \in Nat
              /\ Cardinality(Taken) <= Cardinality(Numbers)
              /\ Available = Cardinality(Numbers) - Cardinality(Taken)
          BY NumberCounts
        <4>3. bill[t].own \in Nat /\ bill[t].own <= Owned(b) BY <1>11, <2>1, <4>2 DEF BillType
        <4>4. had \in Nat /\ Allowed(b) <= had BY <4>2, <4>3 DEF Allowed, Minus
        <4>5. Available \in Nat /\ Available <= Available BY <4>2
        <4> HIDE DEF had
        <4>6. evaluateSimpleRandomPack(r.id, Available, had) = 0 BY <4>1 DEF had
        <4>7. evaluateSimpleRandomPack(r.id, Available, Allowed(b)) = 0
          BY <1>3, <4>2, <4>4, <4>5, <4>6, PackShrinks
        <4> QED BY <3>2, <4>7 DEF PackOf
      <3> QED BY <1>3, <3>1, <3>2
    <2> QED BY <2>1 DEF UsesGrant
  <1>13. total = Charge(r, price, UsesGrant(r, b)) BY DEF totalChargeAmount, Charge
  <1>14. /\ Charge(r, price, TRUE) \in Nat /\ Charge(r, price, FALSE) \in Nat
         /\ Charge(r, price, FALSE) <= Charge(r, price, TRUE) + MaxDiscount
         /\ MaxDiscount \in Nat
    BY <1>3, <1>11, ChargeType, BuyerAssumption
  <1>15. UsesGrant(r, b) \in BOOLEAN /\ (UsesGrant(r, b) => r.ok)
    BY <1>3 DEF UsesGrant
  <1>16. /\ total \in Nat
         /\ total <= Charge(r, price, r.ok) + (IF regained THEN MaxDiscount ELSE 0)
    <2>1. CASE UsesGrant(r, b) <=> r.ok
      <3>1. total = Charge(r, price, r.ok) /\ total \in Nat
        <4>1. CASE r.ok
          <5>1. UsesGrant(r, b) = TRUE /\ r.ok = TRUE BY <1>3, <1>15, <2>1, <4>1
          <5> QED BY <1>13, <1>14, <5>1
        <4>2. CASE ~r.ok
          <5>1. UsesGrant(r, b) = FALSE /\ r.ok = FALSE BY <1>3, <1>15, <2>1, <4>2
          <5> QED BY <1>13, <1>14, <5>1
        <4> QED BY <4>1, <4>2
      <3> HIDE DEF total, regained
      <3> QED BY <1>14, <3>1
    <2>2. CASE ~(UsesGrant(r, b) <=> r.ok)
      <3>1. UsesGrant(r, b) = FALSE /\ r.ok = TRUE /\ regained BY <1>3, <1>12, <1>15, <2>2
      <3>2. total = Charge(r, price, FALSE) BY <1>13, <3>1
      <3> HIDE DEF total, regained
      <3> QED BY <1>14, <3>1, <3>2
    <2> QED BY <2>1, <2>2
  <1>17. /\ bill[t].percent >= PremiumPercent /\ price <= bill[t].read
            => Charge(r, price, r.ok) <= Covered(bill[t])
         /\ Charge(r, price, r.ok) \in Nat
    BY <1>1, <1>3, <1>5, <1>11, ChargeType DEF TabBill
  <1>b. total <= credit[b] BY <1>1 DEF Accepts
  <1>c. regained \in BOOLEAN OBVIOUS
  <1> HIDE DEF total, regained
  <1>18. /\ bill' \in [Tabs -> BillType]
         /\ bill'[t].read = bill[t].read /\ bill'[t].shown = bill[t].shown
         /\ bill'[t].percent = bill[t].percent /\ bill'[t].chosen = bill[t].chosen
         /\ bill'[t].charged = total /\ bill'[t].at = price /\ bill'[t].regained = regained
         /\ \A u \in Tabs \ {t} : bill'[u] = bill[u]
    <2> DEFINE new == [bill[t] EXCEPT !.charged = total, !.at = price, !.regained = regained]
    <2>1. bill \in [Tabs -> BillType] BY DEF BuyerInv, BuyerTypeOK
    <2>2. bill' = [bill EXCEPT ![t] = new] BY <1>1, <2>1
    <2>3. /\ new \in BillType /\ new.read = bill[t].read /\ new.shown = bill[t].shown
          /\ new.percent = bill[t].percent /\ new.chosen = bill[t].chosen
          /\ new.charged = total /\ new.at = price /\ new.regained = regained
      BY <1>11, <1>16, <1>c DEF BillType
    <2> HIDE DEF new
    <2> QED BY <2>1, <2>2, <2>3
  <1>19. Fair(bill'[t])
    <2>1. Covered(bill'[t]) = Covered(bill[t]) /\ Covered(bill[t]) \in Nat
      BY <1>11, <1>18 DEF Covered, BillType
    <2> QED BY <1>14, <1>16, <1>17, <1>18, <2>1 DEF Fair
  <1>20. BuyerTypeOK'
    <2>1. /\ credit \in [Buyers -> Nat] /\ grant \in [Buyers -> BOOLEAN] /\ refunded \subseteq Numbers
          /\ price \in Prices /\ page \in [Tabs -> PageType] /\ paid \in [Numbers -> Nat]
      BY DEF BuyerInv, BuyerTypeOK
    <2>2. credit[b] - total \in Nat BY <1>4, <1>16, <1>b, <2>1
    <2>3. credit' \in [Buyers -> Nat] BY <1>1, <2>1, <2>2
    <2>4. grant' \in [Buyers -> BOOLEAN] BY <1>1, <2>1
    <2>5. paid' \in [Numbers -> Nat] BY <1>2, <1>11, <2>1
    <2> QED BY <1>1, <1>10, <1>18, <2>1, <2>3, <2>4, <2>5 DEF BuyerTypeOK, OwnersGrow
  <1>21. \A u \in Tabs \ {t} : TabBill(u)'
    BY <1>7, <1>10, <1>18, OtherBills DEF Others, Alike
  <1>22. TabBill(t)' BY <1>7, <1>19 DEF TabBill
  <1>23. BillInv' BY <1>21, <1>22 DEF BillInv
  <1>24. PageInv'
    <2>1. ASSUME NEW u \in Tabs PROVE page'[u].sold <= Cardinality(Taken')
      <3>1. page[u].sold <= Cardinality(Taken) BY DEF BuyerInv, PageInv
      <3>2. page[u].sold \in Nat BY DEF BuyerInv, BuyerTypeOK, PageType
      <3>3. /\ Cardinality(Taken') \in Nat /\ Cardinality(Taken) <= Cardinality(Taken')
            /\ Cardinality(Taken) \in Nat
        BY <1>10, CountsShrink, NumberCounts
      <3> QED BY <1>1, <3>1, <3>2, <3>3
    <2> QED BY <2>1 DEF PageInv
  <1> QED BY <1>8, <1>20, <1>23, <1>24 DEF BuyerInv, BuyerKeeps

LEMMA PurchaseEnds ==
    ASSUME ReqInv, AloneInv, HeartsTypeOK, BuyerInv, NEW t \in Tabs,
           refusePurchase(t) \/ purchaseAnswer(t), user' = user
    PROVE  BuyerKeeps
  <1>0. "buy" \in Groups BY DEF Groups
  <1>1. /\ req[t].group = "buy" /\ Done(t) /\ bill' = [bill EXCEPT ![t] = NoBill]
        /\ price' = price /\ onSale' = onSale /\ owner' = owner /\ paid' = paid
        /\ refunded' = refunded /\ credit' = credit /\ grant' = grant
    BY DEF refusePurchase, purchaseAnswer, saleVars
  <1>2. page[t] \in PageType /\ page \in [Tabs -> PageType] BY DEF BuyerInv, BuyerTypeOK
  <1>3. PICK p \in PageType : page' = [page EXCEPT ![t] = p] /\ p.sold = page[t].sold
    <2>1. CASE refusePurchase(t)
      <3> DEFINE taken == IF req[t].seen \cap Taken # {} THEN Taken ELSE page[t].taken
                 p == [page[t] EXCEPT !.taken = taken]
      <3>1. taken \in SUBSET Numbers BY <1>2 DEF PageType, Taken
      <3>2. page' = [page EXCEPT ![t] = p] BY <1>2, <2>1 DEF refusePurchase
      <3> HIDE DEF taken
      <3>3. p \in PageType /\ p.sold = page[t].sold BY <1>2, <3>1 DEF PageType
      <3> QED BY <3>2, <3>3
    <2>2. CASE purchaseAnswer(t)
      <3> DEFINE p == [page[t] EXCEPT !.refetch = TRUE]
      <3>1. page' = [page EXCEPT ![t] = p] BY <2>2 DEF purchaseAnswer
      <3>2. p \in PageType /\ p.sold = page[t].sold BY <1>2 DEF PageType
      <3> QED BY <3>1, <3>2
    <2> QED BY <2>1, <2>2
  <1>4. Only("buy") /\ Others(t) /\ req'[t].group = "none" BY <1>0, <1>1, DoneEffect
  <1>5. ReqInv' /\ AloneInv' /\ \A h \in Groups \ {"buy"} : Apart(h) BY <1>4 DEF Only
  <1>6. /\ bill' \in [Tabs -> BillType] /\ bill'[t] = NoBill
        /\ \A u \in Tabs \ {t} : bill'[u] = bill[u]
    BY <1>1, PageTypes DEF BuyerInv, BuyerTypeOK
  <1>7. BuyerTypeOK' BY <1>1, <1>2, <1>3, <1>6 DEF BuyerInv, BuyerTypeOK
  <1>8. OwnersGrow BY <1>1, <1>7 DEF OwnersGrow, BuyerInv, BuyerTypeOK
  <1>9. \A u \in Tabs \ {t} : TabBill(u)'
    BY <1>4, <1>6, <1>8, OtherBills DEF Others, Alike
  <1>10. TabBill(t)' BY <1>4, <1>6, PageTypes DEF TabBill
  <1>11. PageInv'
    <2>1. Taken' = Taken BY <1>1 DEF Taken
    <2> QED BY <1>2, <1>3, <2>1 DEF BuyerInv, PageInv
  <1>12. BillInv' BY <1>9, <1>10 DEF BillInv
  <1> QED BY <1>5, <1>7, <1>11, <1>12 DEF BuyerInv, BuyerKeeps

LEMMA BuyEffect ==
    ASSUME ReqInv, AloneInv, HeartsTypeOK, BuyerInv, NEW t \in Tabs,
           handleBuy(t) \/ handleBuySelectedNumbers(t), user' = user
    PROVE  BuyerKeeps
  <1>1. PremiumPercent \in Nat /\ FallbackPercent \in Nat BY BuyerAssumption
  <1>2. CASE handleBuy(t)
    <2>1. PICK n \in Quantities, bonus \in BOOLEAN :
             /\ bonus => PagePack(page[t], n) = 0
             /\ Submit(t, "RANDOM", n, {}, bonus, PremiumPercent, 0)
      BY <1>2 DEF handleBuy
    <2>2. n \in Nat BY BuyerAssumption DEF Quantities
    <2>3. Cardinality({}) = 0 BY FS_EmptySet
    <2> QED BY <1>1, <2>1, <2>2, <2>3, SubmitEffect
  <1>3. CASE handleBuySelectedNumbers(t)
    <2>1. PICK numbers \in Selections(t), bonus \in BOOLEAN,
               percent \in {PremiumPercent, FallbackPercent} :
             \E premium \in premiumPerSelectedTicket(page[t].price, percent) :
                 Submit(t, "CHOOSE_NUMBERS", Cardinality(numbers), numbers, bonus, percent, premium)
      BY <1>3 DEF handleBuySelectedNumbers
    <2>2. PICK premium \in premiumPerSelectedTicket(page[t].price, percent) :
             Submit(t, "CHOOSE_NUMBERS", Cardinality(numbers), numbers, bonus, percent, premium)
      BY <2>1
    <2>3. numbers \in SUBSET Numbers BY DEF Selections, SelectableNumbers
    <2>4. Cardinality(numbers) \in Nat BY <2>3, NumberCounts, Counting
    <2>5. percent \in Nat BY <1>1
    <2>6. premium \in Nat
      <3>1. page[t].price \in Nat BY DEF BuyerInv, BuyerTypeOK, PageType
      <3>2. page[t].price <= page[t].price BY <3>1
      <3> QED BY <2>5, <3>1, <3>2, PremiumCovered
    <2> QED BY <2>2, <2>3, <2>4, <2>5, <2>6, SubmitEffect
  <1> QED BY <1>2, <1>3

LEMMA BuyerEffect ==
    ASSUME ReqInv, AloneInv, HeartsTypeOK, BuyerInv, user' = user,
           SaleChanges \/ \E t \in Tabs : BuyerStep(t)
    PROVE  BuyerKeeps
  BY PriceEffect, CancelEffect, PageEffect, BuyEffect, ReserveEffect, PurchaseEnds
     DEF BuyerStep, SaleChanges

LEMMA BuyerFrame ==
    ASSUME ReqInv, HeartsTypeOK, BuyerInv, user' = user, UNCHANGED buyerVars,
           \A u \in Tabs : req'[u].group = "buy" => req'[u] = req[u]
    PROVE  BuyerInv'
  <1>1. /\ price' = price /\ onSale' = onSale /\ owner' = owner /\ paid' = paid
        /\ refunded' = refunded /\ credit' = credit /\ grant' = grant /\ page' = page /\ bill' = bill
    BY DEF buyerVars, saleVars
  <1>2. BuyerTypeOK' BY <1>1 DEF BuyerInv, BuyerTypeOK
  <1>3. OwnersGrow BY <1>1, <1>2 DEF OwnersGrow, BuyerInv, BuyerTypeOK
  <1>4. ASSUME NEW u \in Tabs PROVE TabBill(u)'
    <2>1. CASE req'[u].group = "buy" BY <1>1, <1>3, <2>1, OtherBills DEF Alike
    <2>2. CASE req'[u].group # "buy" BY <1>1, <2>2 DEF BuyerInv, BillInv, TabBill
    <2> QED BY <2>1, <2>2
  <1>5. PageInv'
    <2>1. Taken' = Taken BY <1>1 DEF Taken
    <2> QED BY <1>1, <2>1 DEF BuyerInv, PageInv
  <1>6. BillInv' BY <1>4 DEF BillInv
  <1> QED BY <1>2, <1>5, <1>6 DEF BuyerInv

-----------------------------------------------------------------------------
(* The whole *)

\* The inductive invariant of Community.
CommunityInv ==
    /\ ReqInv /\ AloneInv /\ SellerInv /\ ListingInv /\ HeartsTypeOK /\ HeartInv /\ BuyerInv

LEMMA ClientsStart == ClientsInit => ReqInv /\ AloneInv
  <1> SUFFICES ASSUME ClientsInit PROVE ReqInv /\ AloneInv
    OBVIOUS
  <1>1. /\ req = [t \in Tabs |-> NoReq] /\ overlaps = [g \in Counted |-> 0]
        /\ disturbed = {} /\ lost = {}
    BY DEF ClientsInit
  <1>2. budget \in [Areas -> Nat] BY BudgetsAssumption DEF ClientsInit
  <1>3. \A t \in Tabs : req[t] = NoReq /\ req[t].group = "none" BY <1>1, NoReqType
  <1>4. ReqInv BY <1>1, <1>2, <1>3, NoReqType DEF ReqInv, Shaped
  <1>5. AloneInv BY <1>3 DEF AloneInv, Repaired
  <1> QED BY <1>4, <1>5

LEMMA SellerStart ==
    ASSUME ClientsInit, SellerInit
    PROVE  SellerInv
  <1>1. \A t \in Tabs : req[t].group = "none" BY NoReqType DEF ClientsInit
  <1>2. /\ kyc \in KycStatuses /\ cuit \in BOOLEAN /\ kycShown = {"NOT_SUBMITTED", kyc}
        /\ created \in {0, 1} /\ addresses = 1 .. created /\ defaults = addresses /\ late = {}
        /\ status = account.status /\ accountShown = account.exists
    BY DEF SellerInit, KycStatuses
  <1>3. account \in [exists : BOOLEAN, linked : BOOLEAN, status : AccountStatuses]
    <2>1. account = NoAccount \/ account = [exists |-> TRUE, linked |-> TRUE, status |-> "CONNECTED"]
      BY DEF SellerInit
    <2>2. CASE account = NoAccount
      BY <2>2 DEF NoAccount, AccountStatuses
    <2>3. CASE account = [exists |-> TRUE, linked |-> TRUE, status |-> "CONNECTED"]
      BY <2>3 DEF AccountStatuses
    <2> QED BY <2>1, <2>2, <2>3
  <1>4. created = 0 => addresses = {} BY <1>2
  <1>5. created = 1 => addresses = {1} BY <1>2
  <1>6. SellerTypeOK
    <2>1. addresses \subseteq AddressIds /\ created \in 0 .. MaxCreated
      BY <1>2, <1>4, <1>5, AddressesFinite DEF AddressIds
    <2>2. kycShown \subseteq KycStatuses BY <1>2 DEF KycStatuses
    <2> QED BY <1>2, <1>3, <2>1, <2>2 DEF SellerTypeOK
  <1>7. LateInv BY <1>1 DEF LateInv, Busy
  <1>8. AccountInv BY <1>1, <1>2 DEF AccountInv, StatusMirrorsAccount, Busy
  <1>9. AddressInv
    <2>1. \A t \in Tabs : TabAddress(t) /\ PhaseAddress(t) BY <1>1 DEF TabAddress, PhaseAddress
    <2>2. OneDefault BY <1>2, <1>4, <1>5 DEF OneDefault
    <2>3. CountAddress
      <3>1. Creating = {} BY <1>1 DEF Creating
      <3>2. Cardinality({}) = 0 /\ Cardinality({1}) = 1 BY FS_EmptySet, FS_Singleton
      <3>3. overlaps["address"] = 0 BY DEF ClientsInit, Counted
      <3>4. Cardinality(addresses) \in {0, 1} /\ Cardinality(Creating) = 0
        BY <1>2, <1>4, <1>5, <3>1, <3>2
      <3>5. MAX_ADDRESSES \in Nat /\ MAX_ADDRESSES >= 1 BY AddressesAssumption
      <3> QED BY <3>3, <3>4, <3>5 DEF CountAddress
    <2> QED BY <2>1, <2>2, <2>3, AddressParts
  <1> QED BY <1>6, <1>7, <1>8, <1>9 DEF SellerInv

LEMMA ListingsStart ==
    ASSUME ClientsInit, ListingsInit
    PROVE  ListingInv
  <1>1. \A t \in Tabs : req[t].group = "none" /\ req[t].op = "none" /\ req[t].pc = "idle"
    BY DEF ClientsInit, NoReq
  <1>2. /\ estado = [r \in RaffleIds |-> IF r = 1 THEN "ACTIVA"
                                         ELSE IF r = 2 THEN "CANCELADA"
                                         ELSE IF r = 3 THEN "EN_ENTREGA" ELSE "none"]
        /\ hidden = [r \in RaffleIds |-> FALSE]
        /\ delivery = [r \in RaffleIds |-> IF r = 3 THEN "SHIPPED" ELSE "PENDING"]
        /\ report = [r \in RaffleIds |-> [u \in Reporters |-> "none"]]
        /\ banned = "no" /\ exempt = {} /\ aceptada = {} /\ offer = Tabs /\ relaunches = 0
        /\ ventas = 0 /\ maxRifas = NUEVO /\ review = {} /\ counted = 0 /\ granted = NUEVO
        /\ cache = NoList /\ tracked = FALSE /\ wipes = NoWipes /\ stale = {}
        /\ overlaps = [g \in Counted |-> 0]
    BY DEF ListingsInit, ClientsInit
  <1>z. Cardinality({}) = 0 BY FS_EmptySet
  <1>3. ListingsTypeOK
    <2>1. NoWipes \in [DOMAIN NoWipes -> Nat] BY DEF NoWipes
    <2>2. estado \in [RaffleIds -> RaffleStates] /\ hidden \in [RaffleIds -> BOOLEAN]
      BY <1>2 DEF RaffleStates
    <2>3. delivery \in [RaffleIds -> {"PENDING", "SHIPPED", "CONFIRMED"}] BY <1>2
    <2>4. report \in [RaffleIds -> [Reporters -> {"none", "open", "reviewed"}]] BY <1>2
    <2> QED BY <1>2, <2>1, <2>2, <2>3, <2>4 DEF ListingsTypeOK
  <1>4. ListExist /\ ReportExist /\ DeliveryExist
    BY <1>1, <1>2 DEF ListExist, ReportExist, DeliveryExist
  <1>5. LimitInv
    <2>1. Cardinality(Active) \in Nat /\ Cardinality(Active) <= 1
      <3>1. Active \in SUBSET {1} BY <1>2 DEF Active
      <3>2. IsFiniteSet({1}) /\ Cardinality({1}) = 1 BY FS_Singleton
      <3>3. Active = {} \/ Active = {1} BY <3>1
      <3> QED BY <3>2, <3>3, <1>z
    <2>2. AllowedTabs = {} /\ Busy("publish") = {} BY <1>1 DEF AllowedTabs, Busy, At
    <2>3. overlaps["publish"] = 0 BY <1>2 DEF Counted
    <2> QED BY <1>2, <1>z, <2>1, <2>2, <2>3, RaffleIdsFinite DEF LimitInv
  <1>6. RelaunchInv
    <2>1. Relaunched = {} BY <1>1 DEF Relaunched, At
    <2>2. Cardinality(Tabs) \in Nat BY TabsFinite, FS_CardinalityType
    <2> QED BY <1>1, <1>2, <1>z, <2>1, <2>2 DEF RelaunchInv
  <1>7. ModerationInv
    <2>1. \A r \in RaffleIds : OpenReports(r) = {} BY <1>2 DEF OpenReports
    <2>2. \A r \in RaffleIds : ~(Cardinality(OpenReports(r)) >= AUTO_HIDE_THRESHOLD)
      BY <1>z, <2>1, RaffleIdsFinite
    <2> QED BY <1>2, <2>2 DEF ModerationInv
  <1>8. SalesInv
    <2>1. Confirmed = {} BY <1>2 DEF Confirmed
    <2>2. Confirming = {} /\ Uncounted = {} BY <1>1 DEF Confirming, Uncounted, At
    <2>3. Going = {} BY <2>1, <2>2 DEF Going
    <2>4. overlaps["delivery"] = 0 BY <1>2 DEF Counted
    <2>5. \A r \in RaffleIds : estado[r] # "FINALIZADA" BY <1>2
    <2>6. \A t \in Tabs : ~At(t, "review", "computed") BY <1>1 DEF At
    <2> QED BY <1>2, <1>z, <2>1, <2>2, <2>3, <2>4, <2>5, <2>6 DEF SalesInv
  <1>9. CacheInv BY <1>1, <1>2 DEF CacheInv, At
  <1> QED BY <1>3, <1>4, <1>5, <1>6, <1>7, <1>8, <1>9 DEF ListingInv

LEMMA HeartsStart ==
    ASSUME ClientsInit, HeartsInit
    PROVE  HeartsTypeOK /\ HeartInv
  <1>1. \A t \in Tabs : req[t].group = "none" BY NoReqType DEF ClientsInit
  <1>2. /\ user \in [Tabs -> Buyers] /\ place \in [Tabs -> Places] /\ favorite \subseteq Buyers
        /\ crossed = {}
    BY TabUsersAssumption DEF HeartsInit
  <1>3. CASE heart = [t \in Tabs |-> FALSE] /\ heartQuery = [t \in Tabs |-> "unasked"]
    <2>1. HeartsTypeOK BY <1>2, <1>3 DEF HeartsTypeOK
    <2>2. \A t \in Tabs : TabHeart(t) /\ IdleHeart(t) BY <1>1, <1>3 DEF TabHeart, IdleHeart
    <2> QED BY <2>1, <2>2, HeartParts
  <1>4. CASE heart = [t \in Tabs |-> user[t] \in favorite] /\ heartQuery = [t \in Tabs |-> "answered"]
    <2>1. HeartsTypeOK BY <1>2, <1>4 DEF HeartsTypeOK
    <2>2. \A t \in Tabs : TabHeart(t) /\ IdleHeart(t)
      BY <1>1, <1>4 DEF TabHeart, IdleHeart, Favored
    <2> QED BY <2>1, <2>2, HeartParts
  <1> QED BY <1>3, <1>4 DEF HeartsInit

LEMMA BuyerStart ==
    ASSUME ClientsInit, BuyerInit
    PROVE  BuyerInv
  <1>1. \A t \in Tabs : req[t].group = "none" BY NoReqType DEF ClientsInit
  <1>2. BuyerTypeOK BY BuyerAssumption, PageTypes DEF BuyerInit, BuyerTypeOK
  <1>3. \A t \in Tabs : page[t].sold = 0 BY PageTypes DEF BuyerInit
  <1>4. PageInv
    <2>1. Cardinality(Taken) \in Nat BY NumberCounts
    <2> QED BY <1>3, <2>1 DEF PageInv
  <1>5. BillInv BY <1>1, PageTypes DEF BuyerInit, BillInv, TabBill
  <1> QED BY <1>2, <1>4, <1>5 DEF BuyerInv

LEMMA CommunityStart == Init => CommunityInv
  BY ClientsStart, SellerStart, ListingsStart, HeartsStart, BuyerStart DEF Init, CommunityInv

-----------------------------------------------------------------------------
(* The community as a whole: a step of one part leaves the others *)

\* What every step does.
CommunityKeeps == CommunityInv' /\ KeepsVerified

LEMMA SellerMoves ==
    ASSUME CommunityInv, NEW t \in Tabs, SellerStep(t), UNCHANGED <<listingVars, buyerSide>>
    PROVE  CommunityKeeps
  <1>1. /\ ReqInv' /\ AloneInv' /\ SellerInv' /\ KeepsVerified
        /\ \A h \in Groups \ SellerGroups : Apart(h)
    BY SellerEffect DEF CommunityInv
  <1>2. (\A h \in ListingGroups : Apart(h)) /\ Apart("favorite") /\ Apart("buy")
    BY <1>1 DEF Groups, SellerGroups, ListingGroups
  <1>3. ListingInv' BY <1>1, <1>2, ListingFrame DEF CommunityInv
  <1>4. HeartsTypeOK' /\ HeartInv' BY <1>2, HeartFrame DEF CommunityInv, buyerSide
  <1>5. user' = user /\ UNCHANGED buyerVars BY DEF buyerSide, heartVars
  <1>6. BuyerInv' BY <1>2, <1>5, BuyerFrame DEF CommunityInv, Apart
  <1> QED BY <1>1, <1>3, <1>4, <1>6 DEF CommunityKeeps, CommunityInv

LEMMA ListingMoves ==
    ASSUME CommunityInv, UNCHANGED <<sellerVars, buyerSide>>,
           \/ \E t \in Tabs : ListingStep(t)
           \/ ListingBackground
    PROVE  CommunityKeeps
  <1>1. /\ ReqInv' /\ AloneInv' /\ ListingInv'
        /\ \A h \in Groups \ ListingGroups : Apart(h)
    BY ListingEffect, BackgroundEffect DEF CommunityInv, Nothing
  <1>2. Apart("kyc") /\ Apart("account") /\ Apart("address") /\ Apart("favorite") /\ Apart("buy")
    BY <1>1 DEF Groups, ListingGroups
  <1>3. SellerInv' /\ KeepsVerified BY <1>1, <1>2, SellerFrame DEF CommunityInv
  <1>4. HeartsTypeOK' /\ HeartInv' BY <1>2, HeartFrame DEF CommunityInv, buyerSide
  <1>5. user' = user /\ UNCHANGED buyerVars BY DEF buyerSide, heartVars
  <1>6. BuyerInv' BY <1>2, <1>5, BuyerFrame DEF CommunityInv, Apart
  <1> QED BY <1>1, <1>3, <1>4, <1>6 DEF CommunityKeeps, CommunityInv

LEMMA HeartMoves ==
    ASSUME CommunityInv, NEW t \in Tabs, HeartStep(t), UNCHANGED <<sellerSide, buyerVars>>
    PROVE  CommunityKeeps
  <1>1. HeartKeeps BY HeartEffect DEF CommunityInv
  <1>2. /\ Apart("kyc") /\ Apart("account") /\ Apart("address") /\ Apart("buy")
        /\ \A h \in ListingGroups : Apart(h)
    BY <1>1 DEF HeartKeeps, Groups, ListingGroups
  <1>3. SellerInv' /\ KeepsVerified
    BY <1>1, <1>2, SellerFrame DEF CommunityInv, HeartKeeps, sellerSide
  <1>4. ListingInv' BY <1>1, <1>2, ListingFrame DEF CommunityInv, HeartKeeps, sellerSide
  <1>5. user' = user
    BY DEF HeartStep, isFavoriteRead, isFavoriteAnswer, handleFavoriteClick, addFavoriteRead,
       addFavoriteCreate, removeFavoriteRead, removeFavoriteDelete, favoriteAnswer, heartVars
  <1>6. BuyerInv' BY <1>2, <1>5, BuyerFrame DEF CommunityInv, Apart
  <1> QED BY <1>1, <1>3, <1>4, <1>6 DEF CommunityKeeps, CommunityInv, HeartKeeps

LEMMA BuyerMoves ==
    ASSUME CommunityInv, UNCHANGED <<sellerSide, heartVars>>,
           SaleChanges \/ \E t \in Tabs : BuyerStep(t)
    PROVE  CommunityKeeps
  <1>1. user' = user BY DEF heartVars
  <1>2. BuyerKeeps BY <1>1, BuyerEffect DEF CommunityInv
  <1>3. /\ Apart("kyc") /\ Apart("account") /\ Apart("address") /\ Apart("favorite")
        /\ \A h \in ListingGroups : Apart(h)
    BY <1>2 DEF BuyerKeeps, Groups, ListingGroups
  <1>4. SellerInv' /\ KeepsVerified
    BY <1>2, <1>3, SellerFrame DEF CommunityInv, BuyerKeeps, sellerSide
  <1>5. ListingInv' BY <1>2, <1>3, ListingFrame DEF CommunityInv, BuyerKeeps, sellerSide
  <1>6. HeartsTypeOK' /\ HeartInv' BY <1>3, HeartFrame DEF CommunityInv
  <1> QED BY <1>2, <1>4, <1>5, <1>6 DEF CommunityKeeps, CommunityInv, BuyerKeeps

LEMMA StopMoves == ASSUME CommunityInv, Stop PROVE CommunityKeeps
  <1>1. /\ StopBackend /\ StopListings /\ StopHearts /\ late' = {}
        /\ UNCHANGED <<kyc, cuit, kycShown, accountVars, addressVars>> /\ UNCHANGED buyerVars
    BY DEF Stop
  <1>2. ReqInv' /\ AloneInv' /\ \A u \in Tabs : req'[u] = NoReq
    BY <1>1, StopEffect DEF CommunityInv
  <1>3. SellerInv' /\ KeepsVerified BY <1>1, StopSellerEffect DEF CommunityInv
  <1>4. ListingInv' BY <1>1, StopListingsEffect DEF CommunityInv
  <1>5. HeartsTypeOK' /\ HeartInv' BY <1>1, StopHeartsEffect DEF CommunityInv
  <1>6. user' = user BY <1>1 DEF StopHearts
  <1>7. \A u \in Tabs : req'[u].group # "buy" BY <1>2 DEF NoReq
  <1>8. BuyerInv' BY <1>1, <1>6, <1>7, BuyerFrame DEF CommunityInv
  <1> QED BY <1>2, <1>3, <1>4, <1>5, <1>8 DEF CommunityKeeps, CommunityInv

LEMMA StillMoves == ASSUME CommunityInv, UNCHANGED vars PROVE CommunityKeeps
  <1>1. UNCHANGED clientVars /\ UNCHANGED sellerSide /\ UNCHANGED buyerSide BY DEF vars
  <1>2. req' = req /\ UNCHANGED ghostVars /\ budget' \in [Areas -> Nat]
    BY <1>1 DEF clientVars, CommunityInv, ReqInv
  <1>3. ReqInv' /\ AloneInv' /\ \A h \in Groups : Apart(h)
    BY <1>2, StillFrame DEF CommunityInv
  <1>4. /\ Apart("kyc") /\ Apart("account") /\ Apart("address") /\ Apart("favorite")
        /\ Apart("buy") /\ \A h \in ListingGroups : Apart(h)
    BY <1>3 DEF Groups, ListingGroups
  <1>5. SellerInv' /\ KeepsVerified
    BY <1>1, <1>3, <1>4, SellerFrame DEF CommunityInv, sellerSide
  <1>6. ListingInv' BY <1>1, <1>3, <1>4, ListingFrame DEF CommunityInv, sellerSide
  <1>7. HeartsTypeOK' /\ HeartInv' BY <1>1, <1>4, HeartFrame DEF CommunityInv, buyerSide
  <1>8. user' = user /\ UNCHANGED buyerVars BY <1>1 DEF buyerSide, heartVars
  <1>9. BuyerInv' BY <1>4, <1>8, BuyerFrame DEF CommunityInv, Apart
  <1> QED BY <1>3, <1>5, <1>6, <1>7, <1>9 DEF CommunityKeeps, CommunityInv

LEMMA CommunityStep == CommunityInv /\ [Next]_vars => CommunityKeeps
  BY SellerMoves, ListingMoves, HeartMoves, BuyerMoves, StopMoves, StillMoves DEF Next

LEMMA CommunityHolds == Spec => []CommunityInv
  <1>1. CommunityKeeps => CommunityInv' BY DEF CommunityKeeps
  <1> QED BY <1>1, CommunityStart, CommunityStep, PTL DEF Spec

-----------------------------------------------------------------------------
(* Theorems *)

\* Whatever the tabs, buyers, raffles and bounds, the requests, the records of
\* the seller (users.service.ts, payments.service.ts), the catalogue with its
\* cache (raffles.service.ts, reports.service.ts, reputation.service.ts), the
\* hearts (favorites.service.ts) and the purchase pages have their types.
THEOREM TypeCorrect ==
    Spec => [](ClientsTypeOK /\ SellerTypeOK /\ ListingsTypeOK /\ HeartsTypeOK /\ BuyerTypeOK)
  <1>1. CommunityInv => ClientsTypeOK
    <2> SUFFICES ASSUME CommunityInv PROVE ClientsTypeOK
      OBVIOUS
    <2>1. \A r \in ReqType : DOMAIN r = DOMAIN NoReq /\ r.alone \in BOOLEAN
      BY DEF ReqType, NoReq
    <2>2. \A t \in Tabs : req[t] \in ReqType BY DEF CommunityInv, ReqInv
    <2> QED BY <2>1, <2>2 DEF CommunityInv, ReqInv, ClientsTypeOK
  <1>2. CommunityInv => SellerTypeOK /\ ListingsTypeOK /\ HeartsTypeOK /\ BuyerTypeOK
    BY DEF CommunityInv, SellerInv, ListingInv, BuyerInv
  <1> QED BY <1>1, <1>2, CommunityHolds, PTL

\* A verified identity is lost only to a submission or a decision that had read
\* the account before the approval was written (updateKyc of
\* users.service.ts, approveKyc and rejectKyc of admin.service.ts: each reads and
\* writes in two statements).
THEOREM VerifiedTheorem == Spec => VerifiedIsKept
  <1>1. CommunityInv /\ [Next]_vars =>
          ((kyc = "VERIFIED" /\ kyc' # "VERIFIED")
              => \E t \in late : req[t].pc = "read" /\ req'[t] = NoReq)
    BY CommunityStep DEF CommunityKeeps, KeepsVerified
  <1> QED BY <1>1, CommunityHolds, PTL DEF Spec, VerifiedIsKept

\* While no request on them runs or was cut off, the status on the user is that
\* of the payment account and one address is the default; the stored addresses
\* exceed the maximum by no more than the creations that overlapped
\* (payments.service.ts, users.service.ts and
\* shipping.service.ts).
THEOREM RecordsTheorem == Spec => []SellerRecordsAgree
  <1>1. CommunityInv => SellerRecordsAgree
    <2> SUFFICES ASSUME CommunityInv PROVE SellerRecordsAgree
      OBVIOUS
    <2>1. StatusMirrorsAccount BY DEF CommunityInv, SellerInv, AccountInv
    <2>2. CountAddress /\ ("address" \notin disturbed => (Quiet("address") => OneDefault))
      BY AddressParts DEF CommunityInv, SellerInv
    <2>3. ASSUME Calm("address"), addresses # {} PROVE Cardinality(defaults) = 1
      <3>1. \E a \in addresses : defaults = {a} BY <2>2, <2>3 DEF Calm, OneDefault
      <3> QED BY <3>1, FS_Singleton
    <2>4. Calm("address") /\ addresses = {} => defaults = {} BY <2>2 DEF Calm, OneDefault
    <2>5. Cardinality(addresses) <= MAX_ADDRESSES + overlaps["address"]
      <3>1. /\ Cardinality(addresses) \in Nat /\ Cardinality(Creating) \in Nat
            /\ overlaps["address"] \in Nat
        BY AddressCounts DEF CommunityInv, SellerInv, SellerTypeOK, AddressTypeOK
      <3>2. MAX_ADDRESSES \in Nat BY AddressesAssumption
      <3> QED BY <2>2, <3>1, <3>2 DEF CountAddress
    <2> QED BY <2>1, <2>3, <2>4, <2>5 DEF SellerRecordsAgree, OneDefaultAddress
  <1> QED BY <1>1, CommunityHolds, PTL

\* A raffle with as many open reports as the threshold is hidden unless a
\* handler that would hide it is under way or was lost, and a seller banned for
\* a report has nothing listed but what is exempt (checkAndHideRaffle,
\* reviewReport and unhideRaffle of reports.service.ts).
THEOREM ModerationTheorem == Spec => []ModerationHolds
  <1>1. CommunityInv => ModerationHolds
    <2> SUFFICES ASSUME CommunityInv, "report" \notin lost PROVE ModerationHolds
      BY DEF ModerationHolds
    <2>1. ModerationInv BY DEF CommunityInv, ListingInv
    <2>2. ASSUME NEW r \in RaffleIds, ~hidden[r], Moderating(r) = {}
          PROVE  Cardinality(OpenReports(r)) < AUTO_HIDE_THRESHOLD
      <3>1. \A t \in Tabs : ~WillModerate(t, r) BY <2>2 DEF WillModerate, Moderating, Busy
      <3>2. ~(Cardinality(OpenReports(r)) >= AUTO_HIDE_THRESHOLD)
        BY <2>1, <2>2, <3>1 DEF ModerationInv
      <3>3. OpenReports(r) \in SUBSET Reporters BY DEF OpenReports
      <3>4. Cardinality(OpenReports(r)) \in Nat /\ AUTO_HIDE_THRESHOLD \in Nat
        BY <3>3, Counting, ListingsAssumption
      <3> QED BY <3>2, <3>4
    <2>3. (banned = "report" /\ Quiet("report"))
             => \A r \in RaffleIds : estado[r] # "none" /\ ~hidden[r] => r \in exempt
      BY <2>1 DEF ModerationInv, Quiet
    <2> QED BY <2>2, <2>3 DEF ModerationHolds
  <1> QED BY <1>1, CommunityHolds, PTL

\* The active raffles exceed the seller's limit by no more than the creations
\* that overlapped and the relaunches, of which a suggestion yields no more than
\* there are dialogs (create and
\* relaunchWithSuggestedPrice of raffles.service.ts).
THEOREM LimitTheorem == Spec => []ActiveWithinLimit
  <1>1. CommunityInv => ActiveWithinLimit
    <2> SUFFICES ASSUME CommunityInv PROVE ActiveWithinLimit
      OBVIOUS
    <2>1. LimitInv /\ RelaunchInv /\ ListingsTypeOK BY DEF CommunityInv, ListingInv
    <2>2. Active \in SUBSET RaffleIds /\ AllowedTabs \in SUBSET Tabs
      BY DEF Active, AllowedTabs
    <2>3. /\ Cardinality(Active) \in Nat /\ Cardinality(AllowedTabs) \in Nat
          /\ granted \in Nat /\ relaunches \in Nat
      BY <2>1, <2>2, Counting, TabsFinite, RaffleIdsFinite, ListingsAssumption DEF ListingsTypeOK
    <2>4. overlaps["publish"] \in Nat BY DEF CommunityInv, ReqInv, Counted
    <2>5. Cardinality(Active) <= granted + overlaps["publish"] + relaunches
      BY <2>1, <2>3, <2>4 DEF LimitInv
    <2>6. ASSUME "publish" \notin lost PROVE relaunches <= Cardinality(Tabs)
      <3>1. offer \in SUBSET Tabs /\ Relaunched \in SUBSET Tabs /\ Relaunched \subseteq offer
        BY <2>1 DEF ListingsTypeOK, RelaunchInv, Relaunched, At
      <3>2. /\ Cardinality(Relaunched) <= Cardinality(offer)
            /\ Cardinality(Relaunched) \in Nat /\ Cardinality(offer) \in Nat
        BY <3>1, TabsFinite, Counting
      <3>3. Cardinality(Tabs) \in Nat BY TabsFinite, FS_CardinalityType
      <3>4. relaunches + Cardinality(offer) <= Cardinality(Tabs) + Cardinality(Relaunched)
        BY <2>1, <2>6 DEF RelaunchInv
      <3> QED BY <2>3, <3>2, <3>3, <3>4
    <2> QED BY <2>5, <2>6 DEF ActiveWithinLimit
  <1> QED BY <1>1, CommunityHolds, PTL

\* Sales are counted once per confirmed delivery, but for confirmations that
\* overlapped or were lost between the counter and the raffle (confirmDelivery
\* of raffles.service.ts, recalculateSellerReputation of reputation.service.ts).
THEOREM SalesTheorem == Spec => []SalesAreNotInflated
  <1>1. CommunityInv => SalesAreNotInflated
    <2> SUFFICES ASSUME CommunityInv PROVE SalesAreNotInflated
      OBVIOUS
    <2>1. ReqInv /\ ListingsTypeOK /\ DeliveryExist /\ SalesInv BY DEF CommunityInv, ListingInv
    <2>2. /\ Cardinality(Confirmed) \in Nat /\ Cardinality(Going) \in Nat
          /\ Cardinality(Confirming) \in Nat /\ Cardinality(Uncounted) \in Nat
          /\ ventas \in Nat /\ counted \in Nat /\ overlaps["delivery"] \in Nat
      BY <2>1, SalesCounts
    <2>3. /\ Cardinality(CountedTabs) \in Nat
          /\ Cardinality(Confirming) = Cardinality(Uncounted) + Cardinality(CountedTabs)
          /\ Cardinality(Going) <= Cardinality(Confirmed) + Cardinality(Confirming)
      BY <2>1, GoingCounts
    <2>4. ventas + Cardinality(Uncounted) <= Cardinality(Going) + overlaps["delivery"] + counted
      BY <2>1 DEF SalesInv
    <2>5. ventas <= Cardinality(Confirmed) + Cardinality(CountedTabs)
                    + overlaps["delivery"] + counted
      BY <2>2, <2>3, <2>4
    <2> QED BY <2>5 DEF SalesAreNotInflated, Confirmed, CountedTabs
  <1> QED BY <1>1, CommunityHolds, PTL

\* The cached list is the current one once reads and invalidations are over,
\* unless moderation changed it, a read overlapped a change, or a crash lost the
\* noted keys (setListCache and invalidateRaffleCache of raffles.service.ts).
THEOREM CacheTheorem == Spec => []CachedListIsCurrent
  <1>1. CommunityInv => CachedListIsCurrent
    BY DEF CommunityInv, ListingInv, CacheInv, CachedListIsCurrent, NoWipes
  <1> QED BY <1>1, CommunityHolds, PTL

\* While nothing is under way the heart of a page is what the backend stores,
\* unless another tab of the buyer, a crash or a click before the page's own
\* query came in between (favorites.service.ts, raffle-content.tsx and
\* the favourites page).
THEOREM HeartTheorem == Spec => []HeartTellsTheTruth
  <1>1. CommunityInv => HeartTellsTheTruth
    BY HeartParts DEF CommunityInv, IdleHeart, HeartTellsTheTruth, BusyHeart, Favored
  <1> QED BY <1>1, CommunityHolds, PTL

\* A purchase costs no more than the total its page showed and a cent for each
\* chosen number, unless the seller raised the price after the page had read it,
\* or the page assumed too low a premium; and it costs more by at most the value
\* of the bonus if the buyer's tickets were refunded after the page had counted
\* them (the totals of raffle-content.tsx against those of tickets.service.ts).
THEOREM ChargeTheorem == Spec => []ChargedAsShown
  <1>1. CommunityInv => ChargedAsShown
    BY DEF CommunityInv, BuyerInv, BillInv, TabBill, Fair, Covered, ChargedAsShown
  <1> QED BY <1>1, CommunityHolds, PTL
=============================================================================
