------------------------------ MODULE MCTopUps ------------------------------
(* Instances of TopUps: one user with a Mercado Pago session and a mock     *)
(* session, and handlers that overlap.                                      *)
EXTENDS TopUps, TLC

CONSTANTS r1, r2

MCOwner     == [s \in Sessions |-> "u"]
MCSessionOf == [p \in Payments |-> "mp"]
RequestSymmetry == Permutations(Requests)
=============================================================================
