---------------------------- MODULE OrderPromise ----------------------------
(***************************************************************************)
(* What a drawn raffle promises about its money: the seller's share stays  *)
(* with the platform until the buyer's protection is over, is debited only *)
(* for a transfer that was ordered, and is handed over when the transfer   *)
(* went through; until then, and never after it, tickets may be repaid     *)
(* from what the seller is owed.                                           *)
(***************************************************************************)
EXTENDS Integers

CONSTANTS
    Raffles, Sellers, SellerOf,
    Price, Tickets,   \* of a ticket, and how many the winner has
    Share,            \* what the seller is paid for a raffle
    Held,             \* what the platform holds for each seller at the draw
    Overlap           \* how many may work on the same order

VARIABLES
    over,      \* the buyer's protection has ended
    transfer,  \* the transfer of the share to the seller
    held,      \* what the platform holds for a seller
    taken,     \* how often the share was debited
    returned,  \* how often a debit was credited back
    noted,     \* how many of those credits the books show
    repaid,    \* what was repaid to the winner
    left,      \* the winner's tickets that were not repaid
    done       \* the share is handed over, for good

promised == <<over, transfer, held, taken, returned, noted, repaid, left, done>>

Init ==
    /\ over     = [r \in Raffles |-> FALSE]
    /\ transfer = [r \in Raffles |-> "none"]
    /\ held     = Held
    /\ taken    = [r \in Raffles |-> 0]
    /\ returned = [r \in Raffles |-> 0]
    /\ noted    = [r \in Raffles |-> 0]
    /\ repaid   = [r \in Raffles |-> 0]
    /\ left     = [r \in Raffles |-> Tickets]
    /\ done     = [r \in Raffles |-> FALSE]

EndProtection(r) ==
    /\ over' = [over EXCEPT ![r] = TRUE]
    /\ UNCHANGED <<transfer, held, taken, returned, noted, repaid, left, done>>

\* The transfer is ordered once; how it went may become known later.
Transfer(r) ==
    /\ \/ transfer[r] = "none" /\ over[r]
       \/ transfer[r] = "processing"
    /\ \E state \in {"processing", "completed", "failed"} :
         transfer' = [transfer EXCEPT ![r] = state]
    /\ UNCHANGED <<over, held, taken, returned, noted, repaid, left, done>>

Take(r) ==
    /\ over[r] /\ transfer[r] # "none" /\ taken[r] < Overlap
    /\ held[SellerOf[r]] >= Share
    /\ held'  = [held EXCEPT ![SellerOf[r]] = @ - Share]
    /\ taken' = [taken EXCEPT ![r] = @ + 1]
    /\ UNCHANGED <<over, transfer, returned, noted, repaid, left, done>>

GiveBack(r) ==
    /\ taken[r] > 0
    /\ held'     = [held EXCEPT ![SellerOf[r]] = @ + Share]
    /\ returned' = [returned EXCEPT ![r] = @ + 1]
    /\ UNCHANGED <<over, transfer, taken, noted, repaid, left, done>>

\* A credit enters the books after it was given, or never, and only once.
Note(r) ==
    /\ noted[r] < returned[r]
    /\ noted' = [noted EXCEPT ![r] = @ + 1]
    /\ UNCHANGED <<over, transfer, held, taken, returned, repaid, left, done>>

\* An amount within the tickets that are left (to the cent) is repaid, and the
\* tickets that it covers in full are gone.
Repay(r) ==
    LET amount == repaid'[r] - repaid[r]
        covered == amount \div Price
    IN
    /\ ~done[r] /\ left[r] > 0
    /\ amount \in 0 .. left[r] * Price + 1
    /\ held[SellerOf[r]] >= amount
    /\ held'   = [held EXCEPT ![SellerOf[r]] = @ - amount]
    /\ repaid' = [repaid EXCEPT ![r] = @ + amount]
    /\ left'   = [left EXCEPT ![r] = IF covered < @ THEN @ - covered ELSE 0]
    /\ UNCHANGED <<over, transfer, taken, returned, noted, done>>

HandOver(r) ==
    /\ over[r] /\ transfer[r] = "completed" /\ taken[r] > 0
    /\ done' = [done EXCEPT ![r] = TRUE]
    /\ UNCHANGED <<over, transfer, held, taken, returned, noted, repaid, left>>

Next == \E r \in Raffles : \/ EndProtection(r) \/ Transfer(r) \/ Take(r)
                           \/ GiveBack(r) \/ Note(r) \/ Repay(r) \/ HandOver(r)

Spec == Init /\ [][Next]_promised
=============================================================================
