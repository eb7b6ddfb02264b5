---------------------------- MODULE TopUpPromise ----------------------------
(***************************************************************************)
(* What charging Saldo LUK promises: a session puts its amount into the    *)
(* wallet once, and at most that amount is taken back, in one refund.      *)
(***************************************************************************)
EXTENDS Integers

CONSTANTS Sessions, Amount

VARIABLES granted,  \* times the session's amount was put into the wallet
          returned  \* what refunds of the session took back

Init == granted = [s \in Sessions |-> 0] /\ returned = [s \in Sessions |-> 0]

Grant(s) ==
    /\ granted[s] = 0
    /\ granted' = [granted EXCEPT ![s] = 1]
    /\ UNCHANGED returned

Return(s) ==
    /\ granted[s] = 1 /\ returned[s] = 0
    /\ \E n \in 1 .. Amount : returned' = [returned EXCEPT ![s] = n]
    /\ UNCHANGED granted

Next == \E s \in Sessions : Grant(s) \/ Return(s)

Spec == Init /\ [][Next]_<<granted, returned>>
=============================================================================
