----------------------------- MODULE Settlement -----------------------------
(***************************************************************************)
(* After the draw: shipping, confirmation, disputes, and the payout of the *)
(* seller through Mercado Pago.                                            *)
(* Source: backend/src/raffles/raffles.service.ts (markAsShipped,          *)
(* confirmDelivery), disputes/disputes.service.ts,                         *)
(* tasks/dispute-tasks.service.ts, tasks/raffle-tasks.service.ts           *)
(* (autoReleasePayments), payouts/payouts.service.ts, payments.service.ts  *)
(* (canReleaseFunds).                                                      *)
(*                                                                         *)
(* A worker is one running request or one cron run on one raffle.  A       *)
(* prisma.$transaction is one step, a read that decides and the write that *)
(* follows are two.  Dates are what the code compares them with: younger   *)
(* or older than the seven or fifteen days that matter.                    *)
(***************************************************************************)
EXTENDS Integers, FiniteSets

CONSTANTS
    Raffles,      \* drawn raffles
    Sellers, SellerOf,
    Handlers, Crons,   \* requests and cron runs that can be active at once
    Fallible,     \* the workers that may die between two steps
    TicketPrice,  \* precioPagado of a ticket of the winner
    WinnerTickets,\* PAGADO tickets of the winner at the draw
    NetAmount,    \* Payout.netAmount
    InitPayable,  \* sellerPayableBalance at the draw, by seller
    MaxReversals, \* bound on repeated synchronisations of a failed payout
    MaxActive     \* bound on the workers that are running at the same time

Workers == Handlers \cup Crons

ASSUME SettlementConstants ==
    /\ SellerOf \in [Raffles -> Sellers] /\ Raffles # {}
    /\ Handlers \cap Crons = {} /\ Fallible \subseteq Workers
    /\ IsFiniteSet(Workers)
    /\ TicketPrice \in Nat /\ TicketPrice > 1
    /\ WinnerTickets \in Nat \ {0}
    /\ NetAmount \in Nat \ {0}
    /\ InitPayable \in [Sellers -> Nat]
    /\ MaxReversals \in Nat /\ MaxActive \in Nat

VARIABLES
    estado,     \* Raffle.estado
    delivery,   \* Raffle.deliveryStatus
    drawnLong,  \* fechaSorteoReal is seven days ago
    confirmed,  \* Raffle.confirmedAt: "no", "recent", or seven days "old"
    protected,  \* history: some confirmation has become seven days old
    released,   \* Raffle.paymentReleasedAt is set
    dispute,    \* Dispute.estado ("NONE": no row)
    resolved,   \* Dispute.resolvedAt is set
    disputeOld, \* the dispute is fifteen days old
    tickets,    \* PAGADO tickets of the winner
    refunded,   \* what dispute refunds put into the winner's balance
    refunds,    \* number of dispute refunds
    payout,     \* Payout.status ("NONE": no row)
    scheduled,  \* Payout.scheduledFor: "no", "later", or "due"
    accepted,   \* Payout.providerPayoutId is set
    provider,   \* the payout at Mercado Pago, by idempotency key
    payable,    \* WalletAccount.sellerPayableBalance
    debits,     \* SELLER_PAYABLE_DEBIT entries of the payout
    credited,   \* history: how often a reversal was added to the balance
    reversals,  \* SELLER_PAYABLE_CREDIT entries of the payout
    job         \* the running workers

raffleVars  == <<estado, delivery, drawnLong, confirmed, protected, released>>
disputeVars == <<dispute, resolved, disputeOld, tickets, refunded, refunds>>
payoutVars  == <<payout, scheduled, accepted, provider>>
moneyVars   == <<payable, debits, credited, reversals>>
vars == <<raffleVars, disputeVars, payoutVars, moneyVars, job>>

-----------------------------------------------------------------------------
Estados    == {"SORTEADA", "EN_ENTREGA", "FINALIZADA"}
Deliveries == {"PENDING", "SHIPPED", "DISPUTED", "CONFIRMED"}
Decisions  == {"RESUELTA_COMPRADOR", "RESUELTA_VENDEDOR", "RESUELTA_PARCIAL"}
ActiveDispute == {"ABIERTA", "EN_MEDIACION"}
PayoutStatus  == {"NONE", "PENDING", "PROCESSING", "COMPLETED", "FAILED"}
ProviderStatus == {"none", "processing", "completed", "failed"}

\* A worker: its next step, its raffle, and what it decided or was told.
Job == [pc : {"idle", "ship", "confirm", "schedule", "markDisputed",
              "createDispute", "respond", "refund", "verdict", "close",
              "autoConfirm", "prepare", "check", "release", "mark", "funds",
              "provider", "record", "finish", "catch", "entry", "fail", "syncResult"},
        r        : Raffles,
        decision : Decisions,
        amount   : Nat,              \* refund of the resolution
        seen     : ProviderStatus]   \* answer of the provider, "none": an error

Idle == [pc |-> "idle", r |-> CHOOSE r \in Raffles : TRUE,
         decision |-> "RESUELTA_VENDEDOR", amount |-> 0, seen |-> "none"]

GoTo(w, pc) ==
    job' = [job EXCEPT ![w] = IF pc = "idle" THEN Idle ELSE [@ EXCEPT !.pc = pc]]

Busy == {w \in Workers : job[w].pc # "idle"}

StartWith(w, j) ==
    /\ w \notin Busy /\ Cardinality(Busy) < MaxActive
    /\ job' = [job EXCEPT ![w] = j]

Start(w, r, pc) == StartWith(w, [Idle EXCEPT !.pc = pc, !.r = r])

\* The value of the winner's PAGADO tickets.
Owed(r) == tickets[r] * TicketPrice

\* The draw leaves a raffle SORTEADA; its payout row exists unless the process
\* stopped before createPayout (module RaffleSale).
Init ==
    /\ estado     = [r \in Raffles |-> "SORTEADA"]
    /\ delivery   = [r \in Raffles |-> "PENDING"]
    /\ drawnLong  = [r \in Raffles |-> FALSE]
    /\ confirmed  = [r \in Raffles |-> "no"]
    /\ protected  = [r \in Raffles |-> FALSE]
    /\ released   = [r \in Raffles |-> FALSE]
    /\ dispute    = [r \in Raffles |-> "NONE"]
    /\ resolved   = [r \in Raffles |-> FALSE]
    /\ disputeOld = [r \in Raffles |-> FALSE]
    /\ tickets    = [r \in Raffles |-> WinnerTickets]
    /\ refunded   = [r \in Raffles |-> 0]
    /\ refunds    = [r \in Raffles |-> 0]
    /\ payout     \in [Raffles -> {"NONE", "PENDING"}]
    /\ scheduled  = [r \in Raffles |-> "no"]
    /\ accepted   = [r \in Raffles |-> FALSE]
    /\ provider   = [r \in Raffles |-> "none"]
    /\ payable    = InitPayable
    /\ debits     = [r \in Raffles |-> 0]
    /\ credited   = [r \in Raffles |-> 0]
    /\ reversals  = [r \in Raffles |-> 0]
    /\ job        = [w \in Workers |-> Idle]

-----------------------------------------------------------------------------
(* Delivery: each operation reads the raffle, then writes it.               *)

\* What markAsShipped, confirmDelivery and the other operations below require of
\* the order that they read.
CanShip(r) == estado[r] \in {"SORTEADA", "EN_ENTREGA"} /\ delivery[r] = "PENDING"

MarkAsShipped(h, r) ==
    /\ CanShip(r)
    /\ Start(h, r, "ship")
    /\ UNCHANGED <<raffleVars, disputeVars, payoutVars, moneyVars>>

WriteShipped(h) ==
    /\ job[h].pc = "ship"
    /\ estado'   = [estado EXCEPT ![job[h].r] = "EN_ENTREGA"]
    /\ delivery' = [delivery EXCEPT ![job[h].r] = "SHIPPED"]
    /\ GoTo(h, "idle")
    /\ UNCHANGED <<drawnLong, confirmed, protected, released, disputeVars, payoutVars,
                   moneyVars>>

CanConfirm(r) == delivery[r] = "SHIPPED"

ConfirmDelivery(h, r) ==
    /\ CanConfirm(r)
    /\ Start(h, r, "confirm")
    /\ UNCHANGED <<raffleVars, disputeVars, payoutVars, moneyVars>>

\* The raffle write shared by confirmDelivery and autoReleasePayments.
Confirm(r) ==
    /\ estado'    = [estado EXCEPT ![r] = "EN_ENTREGA"]
    /\ delivery'  = [delivery EXCEPT ![r] = "CONFIRMED"]
    /\ confirmed' = [confirmed EXCEPT ![r] = "recent"]
    /\ UNCHANGED <<drawnLong, protected, released, disputeVars, payoutVars, moneyVars>>

WriteConfirmed(h) ==
    /\ job[h].pc = "confirm"
    /\ Confirm(job[h].r)
    /\ GoTo(h, "schedule")

\* Mutant: the row is created and gets no date.
MutScheduleForgets(h) ==
    LET r == job[h].r IN
    /\ job[h].pc = "schedule"
    /\ payout' = [payout EXCEPT ![r] = IF @ = "NONE" THEN "PENDING" ELSE @]
    /\ GoTo(h, "idle")
    /\ UNCHANGED <<raffleVars, disputeVars, scheduled, accepted, provider, moneyVars>>

\* schedulePayoutAfterDelivery: confirmedAt plus seven days, creating the row.
SchedulePayout(h) ==
    LET r == job[h].r IN
    /\ job[h].pc = "schedule"
    /\ payout'    = [payout EXCEPT ![r] = IF @ = "NONE" THEN "PENDING" ELSE @]
    /\ scheduled' = [scheduled EXCEPT ![r] = "later"]
    /\ GoTo(h, "idle")
    /\ UNCHANGED <<raffleVars, disputeVars, accepted, provider, moneyVars>>

-----------------------------------------------------------------------------
(* Disputes                                                                 *)

canOpenDispute(r) ==
    /\ dispute[r] = "NONE"
    /\ \/ estado[r] = "SORTEADA"
       \/ estado[r] = "EN_ENTREGA" /\ delivery[r] = "SHIPPED"

OpenDispute(h, r) ==
    /\ canOpenDispute(r)
    /\ Start(h, r, "markDisputed")
    /\ UNCHANGED <<raffleVars, disputeVars, payoutVars, moneyVars>>

MarkDisputed(h) ==
    /\ job[h].pc = "markDisputed"
    /\ delivery' = [delivery EXCEPT ![job[h].r] = "DISPUTED"]
    /\ GoTo(h, "createDispute")
    /\ UNCHANGED <<estado, drawnLong, confirmed, protected, released, disputeVars,
                   payoutVars, moneyVars>>

\* Dispute.raffleId is unique: of two creations the second fails.
CreateDispute(h) ==
    /\ job[h].pc = "createDispute"
    /\ dispute' = [dispute EXCEPT ![job[h].r] = IF @ = "NONE" THEN "ABIERTA" ELSE @]
    /\ GoTo(h, "idle")
    /\ UNCHANGED <<raffleVars, resolved, disputeOld, tickets, refunded, refunds,
                   payoutVars, moneyVars>>

CanRespond(r) == dispute[r] = "ABIERTA"

RespondDispute(h, r) ==
    /\ CanRespond(r)
    /\ Start(h, r, "respond")
    /\ UNCHANGED <<raffleVars, disputeVars, payoutVars, moneyVars>>

\* The answer is written whatever became of the dispute since it was read.
WriteResponse(h) ==
    /\ job[h].pc = "respond"
    /\ dispute' = [dispute EXCEPT ![job[h].r] = "EN_MEDIACION"]
    /\ GoTo(h, "idle")
    /\ UNCHANGED <<raffleVars, resolved, disputeOld, tickets, refunded, refunds,
                   payoutVars, moneyVars>>

\* What a decision may refund, with the code's tolerance of one cent: nothing
\* when the seller wins, and a partial decision leaves the seller something.
RefundsOf(decision, r) ==
    CASE decision = "RESUELTA_VENDEDOR"  -> {0}
      [] decision = "RESUELTA_COMPRADOR" -> 1 .. Owed(r) + 1
      [] decision = "RESUELTA_PARCIAL"   -> 1 .. Owed(r)

CanResolve(r, decision, amount) ==
    dispute[r] \in ActiveDispute /\ amount \in RefundsOf(decision, r)

StartResolution(w, r, decision, amount) ==
    /\ CanResolve(r, decision, amount)
    /\ StartWith(w, [Idle EXCEPT !.pc = IF amount > 0 THEN "refund" ELSE "verdict",
                                 !.r = r, !.decision = decision, !.amount = amount])
    /\ UNCHANGED <<raffleVars, disputeVars, payoutVars, moneyVars>>

\* resolveDispute: an admin decides.
ResolveDispute(h, r) ==
    \E decision \in Decisions : \E amount \in RefundsOf(decision, r) :
        StartResolution(h, r, decision, amount)

\* autoRefundOldDisputes: after fifteen days the cron gives everything back.
AutoRefundOldDispute(c, r) ==
    /\ disputeOld[r] /\ ~resolved[r] /\ Owed(r) > 0
    /\ StartResolution(c, r, "RESUELTA_COMPRADOR", Owed(r))

\* Mutant: every ticket the refund touches is marked, the last one in part.
MutRefundRoundsUp(w) ==
    LET r == job[w].r  amount == job[w].amount IN
    /\ job[w].pc = "refund" /\ amount <= payable[SellerOf[r]]
    /\ payable'  = [payable EXCEPT ![SellerOf[r]] = @ - amount]
    /\ refunded' = [refunded EXCEPT ![r] = @ + amount]
    /\ refunds'  = [refunds EXCEPT ![r] = @ + 1]
    /\ tickets'  = [tickets EXCEPT ![r] =
                      LET n == (amount + TicketPrice - 1) \div TicketPrice
                      IN  IF n < @ THEN @ - n ELSE 0]
    /\ GoTo(w, "verdict")
    /\ UNCHANGED <<raffleVars, dispute, resolved, disputeOld, payoutVars, debits, credited,
                   reversals>>

\* Mutant: whether the payout was completed meanwhile is not looked at.
MutRefundable(r, amount) ==
    tickets[r] > 0 /\ amount <= Owed(r) + 1 /\ amount <= payable[SellerOf[r]]

Refundable(r, amount) ==
    /\ ~released[r] /\ payout[r] # "COMPLETED"
    /\ tickets[r] > 0 /\ amount <= Owed(r) + 1
    /\ amount <= payable[SellerOf[r]]

\* processDisputeRefund, one serializable transaction: the tickets the amount
\* covers in full become REEMBOLSADO.  When it throws, the resolution stops.
DisputeRefund(w) ==
    LET r == job[w].r  amount == job[w].amount IN
    /\ job[w].pc = "refund"
    /\ \/ /\ Refundable(r, amount)
          /\ payable'  = [payable EXCEPT ![SellerOf[r]] = @ - amount]
          /\ refunded' = [refunded EXCEPT ![r] = @ + amount]
          /\ refunds'  = [refunds EXCEPT ![r] = @ + 1]
          /\ tickets'  = [tickets EXCEPT ![r] =
                            LET n == amount \div TicketPrice
                            IN  IF n < @ THEN @ - n ELSE 0]
          /\ GoTo(w, "verdict")
       \/ /\ ~Refundable(r, amount)
          /\ GoTo(w, "idle")
          /\ UNCHANGED <<payable, refunded, refunds, tickets>>
    /\ UNCHANGED <<raffleVars, dispute, resolved, disputeOld, payoutVars, debits, credited,
                   reversals>>

WriteResolution(w) ==
    /\ job[w].pc = "verdict"
    /\ dispute'  = [dispute EXCEPT ![job[w].r] = job[w].decision]
    /\ resolved' = [resolved EXCEPT ![job[w].r] = TRUE]
    /\ GoTo(w, "close")
    /\ UNCHANGED <<raffleVars, disputeOld, tickets, refunded, refunds, payoutVars,
                   moneyVars>>

CloseDispute(w) ==
    LET r == job[w].r IN
    /\ job[w].pc = "close"
    /\ delivery' = [delivery EXCEPT ![r] = IF job[w].decision = "RESUELTA_VENDEDOR"
                                           THEN "CONFIRMED" ELSE "DISPUTED"]
    /\ estado'   = [estado EXCEPT ![r] = "FINALIZADA"]
    /\ GoTo(w, "idle")
    /\ UNCHANGED <<drawnLong, confirmed, protected, released, disputeVars, payoutVars,
                   moneyVars>>

-----------------------------------------------------------------------------
(* The hourly cron: autoReleasePayments                                     *)

AutoRelease(c, r) ==
    /\ estado[r] = "SORTEADA" /\ drawnLong[r]
    /\ delivery[r] \in {"PENDING", "SHIPPED"} /\ ~released[r]
    /\ dispute[r] = "NONE" \/ resolved[r]
    /\ Start(c, r, "autoConfirm")
    /\ UNCHANGED <<raffleVars, disputeVars, payoutVars, moneyVars>>

AutoConfirm(c) ==
    /\ job[c].pc = "autoConfirm"
    /\ Confirm(job[c].r)
    /\ GoTo(c, "prepare")

\* processPayoutForRaffle, before processPayout: the row is created or made
\* PENDING again, and is due at once.
PreparePayout(c) ==
    LET r == job[c].r IN
    /\ job[c].pc = "prepare"
    /\ IF payout[r] \in {"COMPLETED", "PROCESSING"}
       THEN GoTo(c, "idle") /\ UNCHANGED <<payout, scheduled>>
       ELSE /\ payout'    = [payout EXCEPT ![r] = "PENDING"]
            /\ scheduled' = [scheduled EXCEPT ![r] = "due"]
            /\ GoTo(c, "check")
    /\ UNCHANGED <<raffleVars, disputeVars, accepted, provider, moneyVars>>

-----------------------------------------------------------------------------
(* Payout: processPayout                                                    *)

\* processDuePayouts, by the cron or an admin: a due payout of a raffle whose
\* delivery is confirmed.
PayoutIsDue(r) ==
    payout[r] = "PENDING" /\ scheduled[r] = "due" /\ delivery[r] = "CONFIRMED"

ProcessDuePayout(w, r) ==
    /\ PayoutIsDue(r)
    /\ Start(w, r, "check")
    /\ UNCHANGED <<raffleVars, disputeVars, payoutVars, moneyVars>>

ReleasePayoutManually(h, r) ==
    /\ payout[r] # "NONE"
    /\ Start(h, r, "check")
    /\ UNCHANGED <<raffleVars, disputeVars, payoutVars, moneyVars>>

\* Mutant: the status of the payout is not looked at.
MutCheckAnyStatus(w) ==
    /\ job[w].pc = "check"
    /\ GoTo(w, "release")
    /\ UNCHANGED <<raffleVars, disputeVars, payoutVars, moneyVars>>

CheckPending(w) ==
    /\ job[w].pc = "check"
    /\ GoTo(w, IF payout[job[w].r] = "PENDING" THEN "release" ELSE "idle")
    /\ UNCHANGED <<raffleVars, disputeVars, payoutVars, moneyVars>>

\* Mutant: the age of the confirmation is not looked at.
MutReleaseEarly(r) ==
    /\ ~released[r] /\ delivery[r] = "CONFIRMED" /\ confirmed[r] # "no"
    /\ dispute[r] \notin ActiveDispute

canReleaseFunds(r) ==
    /\ ~released[r] /\ delivery[r] = "CONFIRMED" /\ confirmed[r] = "old"
    /\ dispute[r] \notin ActiveDispute

CheckRelease(w) ==
    /\ job[w].pc = "release"
    /\ GoTo(w, IF canReleaseFunds(job[w].r) THEN "mark" ELSE "idle")
    /\ UNCHANGED <<raffleVars, disputeVars, payoutVars, moneyVars>>

MarkProcessing(w) ==
    /\ job[w].pc = "mark"
    /\ payout' = [payout EXCEPT ![job[w].r] = "PROCESSING"]
    /\ GoTo(w, "funds")
    /\ UNCHANGED <<raffleVars, disputeVars, scheduled, accepted, provider, moneyVars>>

\* assertSellerPayableCoversPayout
PayableCoversPayout(r) == payable[SellerOf[r]] >= NetAmount

\* The seller's account may not be connected; the payable must cover the payout.
CheckFunds(w) ==
    /\ job[w].pc = "funds"
    /\ \/ PayableCoversPayout(job[w].r) /\ GoTo(w, "provider")
       \/ GoTo(w, "catch")
    /\ UNCHANGED <<raffleVars, disputeVars, payoutVars, moneyVars>>

\* createProviderPayout: Mercado Pago executes a payout id once and answers a
\* repeated call with the state of the first; the answer may get lost.
CallProvider(w) ==
    LET r == job[w].r IN
    /\ job[w].pc = "provider"
    /\ provider' \in {[provider EXCEPT ![r] = st] :
                        st \in IF provider[r] = "none" THEN ProviderStatus
                               ELSE {provider[r]}}
    /\ \E seen \in {provider'[r], "none"} :
         job' = [job EXCEPT ![w] = [@ EXCEPT !.seen = seen,
                   !.pc = IF seen \in {"processing", "completed"} THEN "record"
                          ELSE "catch"]]
    /\ UNCHANGED <<raffleVars, disputeVars, payout, scheduled, accepted, moneyVars>>

\* recordAcceptedProviderPayout: the debit and the provider's id, together.
RecordAccepted(w) ==
    LET r == job[w].r  v == SellerOf[r] IN
    /\ job[w].pc = "record"
    /\ \/ /\ payable[v] >= NetAmount
          /\ payable'  = [payable EXCEPT ![v] = @ - NetAmount]
          /\ debits'   = [debits EXCEPT ![r] = @ + 1]
          /\ accepted' = [accepted EXCEPT ![r] = TRUE]
          /\ GoTo(w, "finish")
       \/ /\ payable[v] < NetAmount
          /\ GoTo(w, "catch")
          /\ UNCHANGED <<payable, debits, accepted>>
    /\ UNCHANGED <<raffleVars, disputeVars, payout, scheduled, provider, credited,
                   reversals>>

\* completeAcceptedPayout, one transaction.
Complete(r) ==
    /\ payout'   = [payout EXCEPT ![r] = "COMPLETED"]
    /\ released' = [released EXCEPT ![r] = TRUE]
    /\ estado'   = [estado EXCEPT ![r] = "FINALIZADA"]
    /\ accepted' = [accepted EXCEPT ![r] = TRUE]

\* After the debit: complete the payout, or leave it PROCESSING for a later
\* synchronisation.  A failing transaction ends in the catch block.
FinishPayout(w) ==
    LET r == job[w].r IN
    /\ job[w].pc = "finish"
    /\ \/ job[w].seen = "completed" /\ Complete(r) /\ GoTo(w, "idle")
       \/ /\ job[w].seen = "processing"
          /\ payout' = [payout EXCEPT ![r] = "PROCESSING"]
          /\ GoTo(w, "idle")
          /\ UNCHANGED <<released, estado, accepted>>
       \/ /\ w \in Fallible
          /\ GoTo(w, "catch")
          /\ UNCHANGED <<payout, released, estado, accepted>>
    /\ UNCHANGED <<delivery, drawnLong, confirmed, protected, disputeVars, scheduled, provider,
                   moneyVars>>

\* creditSellerPayable outside of a transaction: the balance first, then the
\* entry in the ledger.
ReversePayable(w, r) ==
    /\ payable'  = [payable EXCEPT ![SellerOf[r]] = @ + NetAmount]
    /\ credited' = [credited EXCEPT ![r] = @ + 1]
    /\ GoTo(w, "entry")

RecordReversal(w) ==
    /\ job[w].pc = "entry"
    /\ reversals' = [reversals EXCEPT ![job[w].r] = @ + 1]
    /\ GoTo(w, "fail")
    /\ UNCHANGED <<raffleVars, disputeVars, payoutVars, payable, debits, credited>>

\* The catch block: reverse the debit when the ledger has one.
CatchFailure(w) ==
    LET r == job[w].r IN
    /\ job[w].pc = "catch"
    /\ \/ debits[r] > 0 /\ ReversePayable(w, r)
       \/ debits[r] = 0 /\ GoTo(w, "fail") /\ UNCHANGED <<payable, credited>>
    /\ UNCHANGED <<raffleVars, disputeVars, payoutVars, debits, reversals>>

WriteFailed(w) ==
    /\ job[w].pc = "fail"
    /\ payout' = [payout EXCEPT ![job[w].r] = "FAILED"]
    /\ GoTo(w, "idle")
    /\ UNCHANGED <<raffleVars, disputeVars, scheduled, accepted, provider, moneyVars>>

-----------------------------------------------------------------------------
(* syncProviderPayoutStatus, by an admin                                    *)

\* The row is read, then the provider is asked; a payout still in process
\* changes nothing that is modelled.
SyncProviderPayout(h, r) ==
    /\ payout[r] = "PROCESSING" /\ accepted[r]
    /\ provider[r] # "processing" /\ credited[r] < MaxReversals
    /\ StartWith(h, [Idle EXCEPT !.pc = "syncResult", !.r = r, !.seen = provider[r]])
    /\ UNCHANGED <<raffleVars, disputeVars, payoutVars, moneyVars>>

ApplySync(h) ==
    LET r == job[h].r IN
    /\ job[h].pc = "syncResult"
    /\ \/ /\ job[h].seen = "completed"
          /\ Complete(r)
          /\ GoTo(h, "idle")
          /\ UNCHANGED <<payable, credited>>
       \/ /\ job[h].seen = "failed"
          /\ ReversePayable(h, r)
          /\ UNCHANGED <<payout, released, estado, accepted>>
    /\ UNCHANGED <<delivery, drawnLong, confirmed, protected, disputeVars, scheduled, provider,
                   debits, reversals>>

-----------------------------------------------------------------------------
(* The environment                                                          *)

ProviderSettles(r) ==
    /\ provider[r] = "processing"
    /\ \E st \in {"completed", "failed"} : provider' = [provider EXCEPT ![r] = st]
    /\ UNCHANGED <<raffleVars, disputeVars, payout, scheduled, accepted, moneyVars, job>>

\* No request and no cron run lasts for days: none is between a read and the
\* write that follows from it while they pass.
Quiet == \A w \in Workers : job[w].pc \in {"idle", "check", "release"}

SevenDaysAfterDraw(r) ==
    /\ Quiet /\ ~drawnLong[r]
    /\ drawnLong' = [drawnLong EXCEPT ![r] = TRUE]
    /\ UNCHANGED <<estado, delivery, confirmed, protected, released, disputeVars, payoutVars,
                   moneyVars, job>>

\* Seven days after confirmedAt, which is what scheduledFor was set to.
ProtectionEnds(r) ==
    /\ Quiet /\ confirmed[r] = "recent"
    /\ confirmed' = [confirmed EXCEPT ![r] = "old"]
    /\ protected' = [protected EXCEPT ![r] = TRUE]
    /\ scheduled' = [scheduled EXCEPT ![r] = IF @ = "later" THEN "due" ELSE @]
    /\ UNCHANGED <<estado, delivery, drawnLong, released, disputeVars, payout,
                   accepted, provider, moneyVars, job>>

DisputeAges(r) ==
    /\ Quiet /\ dispute[r] \in ActiveDispute /\ ~disputeOld[r]
    /\ disputeOld' = [disputeOld EXCEPT ![r] = TRUE]
    /\ UNCHANGED <<raffleVars, dispute, resolved, tickets, refunded, refunds, payoutVars,
                   moneyVars, job>>

\* The process stops, or an error outside of a catch block ends the request.
Abort(w) ==
    /\ w \in Fallible /\ job[w].pc # "idle"
    /\ GoTo(w, "idle")
    /\ UNCHANGED <<raffleVars, disputeVars, payoutVars, moneyVars>>

-----------------------------------------------------------------------------
DeliveryStep(h) == WriteShipped(h) \/ WriteConfirmed(h) \/ SchedulePayout(h)

DisputeStep(w) == \/ MarkDisputed(w) \/ CreateDispute(w) \/ WriteResponse(w)
                  \/ DisputeRefund(w) \/ WriteResolution(w) \/ CloseDispute(w)

PayoutStep(w) == \/ AutoConfirm(w) \/ PreparePayout(w)
                 \/ CheckPending(w) \/ CheckRelease(w) \/ MarkProcessing(w)
                 \/ CheckFunds(w) \/ CallProvider(w) \/ RecordAccepted(w)
                 \/ FinishPayout(w) \/ CatchFailure(w) \/ RecordReversal(w)
                 \/ WriteFailed(w) \/ ApplySync(w)

StartRequest(h, r) == \/ MarkAsShipped(h, r) \/ ConfirmDelivery(h, r)
                      \/ OpenDispute(h, r) \/ RespondDispute(h, r)
                      \/ ResolveDispute(h, r) \/ ProcessDuePayout(h, r)
                      \/ ReleasePayoutManually(h, r) \/ SyncProviderPayout(h, r)

StartCron(c, r) == AutoRelease(c, r) \/ AutoRefundOldDispute(c, r) \/ ProcessDuePayout(c, r)

Environment(r) == \/ ProviderSettles(r) \/ SevenDaysAfterDraw(r)
                  \/ ProtectionEnds(r) \/ DisputeAges(r)

Next ==
    \/ \E h \in Handlers, r \in Raffles : StartRequest(h, r)
    \/ \E c \in Crons, r \in Raffles : StartCron(c, r)
    \/ \E w \in Workers :
         DeliveryStep(w) \/ DisputeStep(w) \/ PayoutStep(w) \/ Abort(w)
    \/ \E r \in Raffles : Environment(r)

Spec == Init /\ [][Next]_vars

\* The crons are scheduled and finish their runs, a request that is running gets
\* on with its next step, and time passes (the seven days end although cron runs
\* come and go, hence strong fairness).  Nobody has to ship, confirm or decide.
FairSpec ==
    /\ Spec
    /\ \A c \in Crons : WF_vars(\E r \in Raffles : StartCron(c, r))
    /\ \A w \in Workers : WF_vars(DeliveryStep(w) \/ DisputeStep(w) \/ PayoutStep(w))
    /\ \A r \in Raffles : SF_vars(SevenDaysAfterDraw(r)) /\ SF_vars(ProtectionEnds(r))

-----------------------------------------------------------------------------
(* Properties *)

\* The shape of the raffles, disputes, payouts, wallets and workers; no debit,
\* by a payout or by a dispute, ever overdraws a seller's payable.
TypeOK ==
    /\ estado     \in [Raffles -> Estados]
    /\ delivery   \in [Raffles -> Deliveries]
    /\ drawnLong  \in [Raffles -> BOOLEAN]
    /\ confirmed  \in [Raffles -> {"no", "recent", "old"}]
    /\ protected  \in [Raffles -> BOOLEAN]
    /\ released   \in [Raffles -> BOOLEAN]
    /\ dispute    \in [Raffles -> {"NONE"} \cup ActiveDispute \cup Decisions]
    /\ resolved   \in [Raffles -> BOOLEAN]
    /\ disputeOld \in [Raffles -> BOOLEAN]
    /\ tickets    \in [Raffles -> 0 .. WinnerTickets]
    /\ refunded   \in [Raffles -> Nat]
    /\ refunds    \in [Raffles -> Nat]
    /\ payout     \in [Raffles -> PayoutStatus]
    /\ scheduled  \in [Raffles -> {"no", "later", "due"}]
    /\ accepted   \in [Raffles -> BOOLEAN]
    /\ provider   \in [Raffles -> ProviderStatus]
    /\ payable    \in [Sellers -> Nat]
    /\ debits     \in [Raffles -> Nat]
    /\ credited   \in [Raffles -> Nat]
    /\ reversals  \in [Raffles -> Nat]
    /\ job        \in [Workers -> Job]

\* Money leaves for the seller only after the seven days of buyer protection,
\* although confirmations, automatic confirmations, late shipments and manual
\* releases race and the cron makes an automatically confirmed payout due at
\* once.
BuyerProtection ==
    \A r \in Raffles :
        provider[r] # "none" \/ released[r] => protected[r]

\* The payable is credited back only for a payout that was debited, and the
\* ledger never shows more reversals than the balance received.  (It may show
\* fewer: a worker that dies between the two leaves a credit without an entry.)
ReversalsAreBacked ==
    \A r \in Raffles :
        (credited[r] > 0 => debits[r] > 0) /\ reversals[r] <= credited[r]

\* A ticket is REEMBOLSADO only when it was paid back in full, and however often
\* resolutions are repeated after a crash or overlap, each refund exceeds the
\* tickets it marks by less than one ticket.
RefundsCoverTickets ==
    \A r \in Raffles :
        LET marked == (WinnerTickets - tickets[r]) * TicketPrice
        IN  /\ marked <= refunded[r]
            /\ refunded[r] <= marked + refunds[r] * (TicketPrice - 1)

\* A raffle whose payment is released has a payout that Mercado Pago completed
\* and that the seller's payable was debited for, although two workers and a
\* synchronisation may process the same payout.  (KeepsOrderPromise implies it.)
ReleasedIsPaid ==
    \A r \in Raffles :
        released[r] => provider[r] = "completed" /\ debits[r] > 0

\* A payout is debited at most as often as workers can run at the same time:
\* only workers that read PENDING before the first one wrote PROCESSING repeat
\* the debit, and a failed or stuck payout is never processed again.
DebitsBoundedByOverlap ==
    \A r \in Raffles : debits[r] <= MaxActive

Promise == INSTANCE OrderPromise WITH
    Price <- TicketPrice, Tickets <- WinnerTickets, Share <- NetAmount,
    Held <- InitPayable, Overlap <- MaxActive,
    over <- protected, transfer <- provider, held <- payable, taken <- debits,
    returned <- credited, noted <- reversals, repaid <- refunded, left <- tickets, done <- released

\* The requests, cron runs and administrators together keep the promise of an
\* order, although each acts on what it read some steps ago: nothing is ordered
\* for the seller early, nothing is debited or credited back for a transfer that
\* was not ordered, a credit enters the ledger after the balance and at most
\* once, and what was handed over stays so and is not repaid to the winner too.
KeepsOrderPromise == Promise!Spec

\* The payout of a confirmed delivery is attempted, unless the confirmation is
\* undone by a shipment that was under way or a dispute exists.
ConfirmedIsPaidOut ==
    \A r \in Raffles :
        (delivery[r] = "CONFIRMED" /\ confirmed[r] # "no" /\ dispute[r] = "NONE")
            ~> \/ payout[r] \notin {"NONE", "PENDING"}
               \/ delivery[r] # "CONFIRMED" \/ dispute[r] # "NONE"

Unconfirmed(r) == /\ drawnLong[r] /\ dispute[r] = "NONE"
                  /\ delivery[r] \in {"PENDING", "SHIPPED"}

\* "Un cron puede auto-confirmar y liberar fondos si: pasaron 7 dias desde el
\* sorteo; la rifa sigue sin confirmacion final; no hay disputa activa": a
\* raffle does not stay unconfirmed for ever.
UnconfirmedIsAutoConfirmed == \A r \in Raffles : Unconfirmed(r) ~> ~Unconfirmed(r)
=============================================================================
