------------------------------ MODULE Clients ------------------------------
(***************************************************************************)
(* The clients of the services outside of the money flow.  A request is    *)
(* handled in steps: a page disables its button while the mutation loads,  *)
(* so each open tab has at most one request under way, and the requests    *)
(* of different tabs interleave between the statements of a handler, none  *)
(* of which runs in a transaction.  The backend may stop at any point; the *)
(* requests under way are then lost, what they wrote stays.                *)
(*                                                                         *)
(* A step that starts a request stands for the submission of a page        *)
(* together with the first read of the handler: nothing is visible of the  *)
(* request before.  A request whose first read makes the handler throw     *)
(* changes nothing and is left out.                                        *)
(***************************************************************************)
EXTENDS Naturals, FiniteSets

CONSTANTS
    Tabs,           \* open tabs of all users
    Budgets         \* bound: requests (and crashes) of a behaviour, per area

Areas == {"accounts", "listings", "talk", "buyer", "hearts", "crash"}

\* Requests on the same data.  What the ghosts note of a group is what the
\* properties ask for: how often its requests overlapped, whether a request that
\* ran alone has put it in order since, whether a crash took one of its requests.
Counted  == {"address", "publish", "delivery"}
Repaired == {"account", "address"}
Missed   == {"publish", "report"}

ASSUME BudgetsAssumption == IsFiniteSet(Tabs) /\ Budgets \subseteq [Areas -> Nat]

VARIABLES
    req,            \* per tab: the request under way
    budget,         \* requests the behaviour may still send, per area
    overlaps,       \* ghost: per group, requests started while one was under way
    disturbed,      \* ghost: groups disturbed since a request ran alone
    lost            \* ghost: groups with a request lost to a crash

ghostVars == <<overlaps, disturbed, lost>>
clientVars == <<req, budget, ghostVars>>

NoReq == [group |-> "none", op |-> "none", pc |-> "idle", id |-> 0, by |-> 0,
          ok |-> FALSE, seen |-> {}, alone |-> FALSE]

Busy(g) == {t \in Tabs : req[t].group = g}
Quiet(g) == Busy(g) = {}
Calm(g) == Quiet(g) /\ g \notin disturbed
At(t, op, pc) == req[t].op = op /\ req[t].pc = pc

\* A request of group g starts at tab t.
Start(t, area, g, r) ==
    /\ req[t] = NoReq /\ budget[area] > 0
    /\ budget' = [budget EXCEPT ![area] = @ - 1]
    /\ req' = [u \in Tabs |->
                 IF u = t THEN [r EXCEPT !.group = g, !.alone = g \in Repaired \cup {"favorite"} /\ Quiet(g)]
                 ELSE IF u \in Busy(g) THEN [req[u] EXCEPT !.alone = FALSE]
                 ELSE req[u]]
    /\ overlaps' = [h \in Counted |-> overlaps[h] + IF h = g /\ ~Quiet(g) THEN 1 ELSE 0]
    /\ disturbed' = IF Quiet(g) THEN disturbed ELSE disturbed \cup ({g} \cap Repaired)
    /\ UNCHANGED lost

\* The handler goes on to its next statement.
To(t, pc) ==
    /\ req' = [req EXCEPT ![t].pc = pc]
    /\ UNCHANGED <<budget, ghostVars>>

Reads(t, pc, ok) ==
    /\ req' = [req EXCEPT ![t].pc = pc, ![t].ok = ok]
    /\ UNCHANGED <<budget, ghostVars>>

\* The handler answers or throws.
Done(t) ==
    /\ req' = [req EXCEPT ![t] = NoReq]
    /\ UNCHANGED <<budget, ghostVars>>

\* A handler that writes all of its group's state answers: when it ran alone,
\* nothing of an earlier disturbance is left.
Settles(t) ==
    /\ req' = [req EXCEPT ![t] = NoReq]
    /\ disturbed' = IF req[t].alone THEN disturbed \ {req[t].group} ELSE disturbed
    /\ UNCHANGED <<budget, overlaps, lost>>

\* The backend stops and starts again.
StopBackend ==
    /\ budget["crash"] > 0
    /\ \E t \in Tabs : req[t] # NoReq
    /\ budget' = [budget EXCEPT !["crash"] = @ - 1]
    /\ lost' = lost \cup ({req[t].group : t \in Tabs} \cap Missed)
    /\ disturbed' = disturbed \cup ({req[t].group : t \in Tabs} \cap Repaired)
    /\ req' = [t \in Tabs |-> NoReq]
    /\ UNCHANGED overlaps

ClientsInit ==
    /\ req = [t \in Tabs |-> NoReq]
    /\ budget \in Budgets
    /\ overlaps = [g \in Counted |-> 0]
    /\ disturbed = {} /\ lost = {}

ClientsTypeOK ==
    /\ \A t \in Tabs : DOMAIN req[t] = DOMAIN NoReq /\ req[t].alone \in BOOLEAN
    /\ budget \in [Areas -> Nat]
    /\ overlaps \in [Counted -> Nat]
    /\ disturbed \subseteq Repaired /\ lost \subseteq Missed
=============================================================================
