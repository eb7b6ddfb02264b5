---------------------------- MODULE MCRaffleSale ----------------------------
(* Instances of RaffleSale: one raffle of seller "v", buyers "a" and "b".   *)
EXTENDS RaffleSale, TLC

CONSTANTS n1, n2, n3, n4, h1, h2, c1, c2

MCSellerOf == [r \in Raffles |-> "v"]

\* A pack of one bonus ticket for a purchase of one, so that it fits the 50%
\* limit of a raffle with four tickets (the code's packs are 5 -> 6, 10 -> 12).
MCPack == 1 :> 1
NoPacks == [q \in {} |-> 0]

Symmetric == Permutations(Numbers) \cup Permutations(Handlers) \cup Permutations(Crons)
=============================================================================
