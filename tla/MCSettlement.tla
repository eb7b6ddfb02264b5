---------------------------- MODULE MCSettlement ----------------------------
(* Instances of Settlement: a raffle of seller "v" whose winner has tickets. *)
EXTENDS OrderPages, TLC

CONSTANTS h1, h2, c1

MCSellerOf == [r \in Raffles |-> "v"]
\* Enough for the payout, for a refund and for one repeated debit.
MCPayable  == "v" :> 5
Symmetric  == Permutations(Handlers)
=============================================================================
