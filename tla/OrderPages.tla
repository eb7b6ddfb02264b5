----------------------------- MODULE OrderPages -----------------------------
(***************************************************************************)
(* What the pages offer for an order that Settlement describes: the sales  *)
(* page of the seller, the tickets page of the winner with its dispute     *)
(* dialog, the disputes page and the administrator's disputes page.  The   *)
(* pages are only views of the state; whether a request that a page offers *)
(* is accepted is decided by the handlers of Settlement.                   *)
(***************************************************************************)
EXTENDS Settlement

\* The sales page: "Marcar enviado".
OffersShipping(r) == estado[r] = "SORTEADA" /\ delivery[r] = "PENDING"

\* Mutant: the button follows the state of the raffle, not of the delivery.
MutOffersConfirmation(r) == estado[r] = "SORTEADA" /\ delivery[r] = "SHIPPED"

\* The tickets page of the winner: "Confirmar recepcion", and next to it the
\* dialog that opens a dispute.
OffersConfirmation(r) == delivery[r] = "SHIPPED"

\* canRespond of the disputes page.
OffersResponse(r) == dispute[r] = "ABIERTA"

handleRespond(r) == OffersResponse(r) /\ CanRespond(r)

\* The history that the parties see of a dispute; a resolution keeps its date
\* even if the state of the dispute changes later.
Timeline(r) ==
    {"opened"} \cup (IF dispute[r] = "EN_MEDIACION" THEN {"in mediation"} ELSE {})
               \cup (IF resolved[r] THEN {"resolved"} ELSE {})
               \cup (IF ~resolved[r] /\ dispute[r] \notin Decisions THEN {"pending"} ELSE {})

\* findAllPending, which the administrator's page lists.
pendingDisputes == {r \in Raffles : dispute[r] \in ActiveDispute}

OffersResolution(r) == r \in pendingDisputes

\* The refunds that the dialog can ask for: all or nothing unless the decision
\* is partial (the amount typed for the buyer's decision is not sent).
handleResolve(decision, r) ==
    CASE decision = "RESUELTA_COMPRADOR" -> {Owed(r)}
      [] decision = "RESUELTA_VENDEDOR"  -> {0}
      [] decision = "RESUELTA_PARCIAL"   -> 1 .. Owed(r) - 1

handleBulkResolve == {"RESUELTA_COMPRADOR", "RESUELTA_VENDEDOR"}

\* bulkResolveDisputes resolves the selected disputes one after the other; one
\* that is refused does not stop the rest.
bulkResolveDisputes(r) ==
    \E decision \in handleBulkResolve :
        \E amount \in handleResolve(decision, r) : CanResolve(r, decision, amount)

\* A request that a page offers for the order, and that its handler accepts.
FromAPage(r) ==
    \/ OffersShipping(r) /\ CanShip(r)
    \/ OffersConfirmation(r) /\ (CanConfirm(r) \/ canOpenDispute(r))
    \/ handleRespond(r)
    \/ OffersResolution(r) /\ bulkResolveDisputes(r)
    \/ OffersResolution(r) /\ \E decision \in Decisions :
          \E amount \in handleResolve(decision, r) : CanResolve(r, decision, amount)

\* The order waits for the end of the buyer's protection, and is due then.
Protected(r) ==
    /\ delivery[r] = "CONFIRMED" /\ confirmed[r] = "recent"
    /\ payout[r] = "PENDING" /\ scheduled[r] \in {"later", "due"}

-----------------------------------------------------------------------------
(* Properties *)

\* Nothing is under way for an order whose payout was not tried yet.  (A payout
\* that failed or stays PROCESSING is left to endpoints that no page calls.)
Waiting(r) ==
    Busy = {} /\ estado[r] # "FINALIZADA" /\ payout[r] \in {"NONE", "PENDING"}

\* Some page offers a request that the backend accepts, or the cron takes the
\* order up, at once or when the buyer's protection has ended.
GoesOn(r) == FromAPage(r) \/ PayoutIsDue(r) \/ Protected(r)

\* An order never gets stuck before its payout is tried, whatever the requests
\* and cron runs that overlapped over it have written; and a dispute whose
\* history says that it is pending is on the administrator's page.
OrdersMoveOn ==
    \A r \in Raffles :
        /\ (dispute[r] # "NONE" /\ "pending" \in Timeline(r)) => r \in pendingDisputes
        /\ Waiting(r) => GoesOn(r)

\* With more than two of them at once an order can get stuck in one way only: its
\* dispute is decided, and a dispute opened late has marked it DISPUTED again
\* after a shipment or confirmation written late took it back to EN_ENTREGA.
StuckOnlyDecided ==
    \A r \in Raffles :
        Waiting(r) => \/ GoesOn(r)
                      \/ /\ dispute[r] \in Decisions /\ estado[r] = "EN_ENTREGA"
                         /\ delivery[r] = "DISPUTED"
=============================================================================
