---------------------------- MODULE SalePromise ----------------------------
(***************************************************************************)
(* What buying numbers of a raffle promises: a sold number has one buyer   *)
(* for good, no buyer holds more of the numbers than is allowed, a         *)
(* refund returns to every buyer, at once, all that its numbers were       *)
(* worth, and one draw is stored, whose winner is the buyer of the number  *)
(* drawn and after which nothing is sold as long as the prize stands.      *)
(***************************************************************************)
EXTENDS Integers

CONSTANTS
    Raffles, Numbers, Users, SellerOf, NoOne,  \* as in RaffleSale
    Holdings    \* the sets of numbers that one buyer may hold

VARIABLES owner,   \* the buyer of each number of a raffle
          repaid,  \* the numbers that were refunded
          draw,    \* the number drawn
          prize,   \* who is to get the prize
          worth,   \* the value of the numbers of a buyer
          back     \* what a buyer got back

promised == <<owner, repaid, draw, prize, worth, back>>

SoldNumbers(r) == {n \in Numbers : owner[r][n] # NoOne}
Held(r, u)     == {n \in Numbers \ repaid[r] : owner[r][n] = u}

Init ==
    /\ owner  = [r \in Raffles |-> [n \in Numbers |-> NoOne]]
    /\ repaid = [r \in Raffles |-> {}]
    /\ draw   = [r \in Raffles |-> NoOne]
    /\ prize  = [r \in Raffles |-> NoOne]
    /\ worth  = [r \in Raffles |-> [u \in Users |-> 0]]
    /\ back   = [r \in Raffles |-> [u \in Users |-> 0]]

Sell(r, u) ==
    /\ prize[r] = NoOne /\ u # SellerOf[r]
    /\ \E numbers \in SUBSET (Numbers \ SoldNumbers(r)) :
         /\ numbers # {}
         /\ owner' = [owner EXCEPT ![r] = [n \in Numbers |-> IF n \in numbers THEN u ELSE @[n]]]
    /\ Held(r, u)' \in Holdings
    /\ worth' = [worth EXCEPT ![r][u] = worth'[r][u]] /\ worth'[r][u] > worth[r][u]
    /\ UNCHANGED <<repaid, draw, prize, back>>

Refund(r) ==
    /\ repaid' = [repaid EXCEPT ![r] = SoldNumbers(r)]
    /\ back'   = [back EXCEPT ![r] = worth[r]]
    /\ UNCHANGED <<owner, draw, prize, worth>>

Draw(r) ==
    /\ draw[r] = NoOne
    /\ \E n \in SoldNumbers(r) :
         /\ draw'  = [draw EXCEPT ![r] = n]
         /\ prize' = [prize EXCEPT ![r] = owner[r][n]]
    /\ UNCHANGED <<owner, repaid, worth, back>>

\* The prize is withdrawn; the draw stays.
Withdraw(r) ==
    /\ prize[r] # NoOne
    /\ prize' = [prize EXCEPT ![r] = NoOne]
    /\ UNCHANGED <<owner, repaid, draw, worth, back>>

Next == \E r \in Raffles : \/ \E u \in Users : Sell(r, u)
                           \/ Refund(r) \/ Draw(r) \/ Withdraw(r)

Spec == Init /\ [][Next]_promised
=============================================================================
