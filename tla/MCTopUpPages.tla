---------------------------- MODULE MCTopUpPages ----------------------------
(* The pages of a charge over one handler: a Mercado Pago session that can  *)
(* be paid in two attempts, and a mock session.                             *)
EXTENDS TopUpPages

MCOwner     == [s \in Sessions |-> "u"]
MCSessionOf == [p \in Payments |-> "mp"]
=============================================================================
