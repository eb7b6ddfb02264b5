------------------------------- MODULE TopUps -------------------------------
(***************************************************************************)
(* Charging Saldo LUK: the CreditTopUpSession life cycle, the two ways the *)
(* backend learns about a Mercado Pago payment (webhook and status poll),  *)
(* the QA actions of the mock provider, and refunds of a charge.           *)
(* Source: backend/src/payments/payments.service.ts, mp.controller.ts,     *)
(* providers/mock-payment.provider.ts, wallet/wallet.service.ts.           *)
(*                                                                         *)
(* A request is one running handler.  Each of its steps is what it does    *)
(* between two awaits that matter; a prisma.$transaction is one step.      *)
(* What a handler read earlier and uses later is kept in its record.       *)
(***************************************************************************)
EXTENDS Integers, FiniteSets, Sums

CONSTANTS
    Users,      \* owners of wallets
    Sessions,   \* rows of CreditTopUpSession that may be created
    Payments,   \* Mercado Pago payments (attempts to pay a session)
    Requests,   \* HTTP handlers that can be running at the same time
    Owner,      \* Owner[s]: the user that created the session
    SessionOf,  \* SessionOf[p]: the session of p's external_reference
    MockSessions, \* sessions of the mock provider; the others use Mercado Pago
    Amount,     \* the amount of a session
    NoPayment   \* the payment of a request that has none (mock actions)

ASSUME TopUpConstants ==
    /\ Owner \in [Sessions -> Users]
    /\ SessionOf \in [Payments -> Sessions \ MockSessions]
    /\ MockSessions \subseteq Sessions
    /\ Amount \in Nat \ {0}
    /\ NoPayment \notin Payments
    /\ Sessions # {} /\ IsFiniteSet(Sessions)
    /\ Requests # {} /\ IsFiniteSet(Requests)

VARIABLES
    status,     \* CreditTopUpSession.status ("NONE": no row yet)
    opened,     \* the provider session exists and its URL was returned
    processed,  \* processedAt is set
    credited,   \* creditedAmount
    refunded,   \* refundedAmount
    balance,    \* WalletAccount.creditBalance
    credits,    \* number of CREDIT_TOP_UP ledger entries of the session
    debits,     \* sum of the session's CREDIT_TOP_UP_REFUND ledger entries
    spent,      \* sum of the user's other debits (ticket purchases)
    payment,    \* status of each payment at the provider ("none": not made)
    events,     \* PaymentProviderEvent.eventId
    req         \* the running handlers

sessionVars == <<status, opened, processed, credited, refunded>>
walletVars  == <<balance, credits, debits, spent>>
vars == <<sessionVars, walletVars, payment, events, req>>

-----------------------------------------------------------------------------
TopUpStatus == {"NONE", "INITIATED", "PENDING", "APPROVED", "REJECTED",
                "EXPIRED", "REFUNDED_FULL", "REFUNDED_PARTIAL"}

ProviderStatus == {"none", "pending", "approved", "rejected", "expired",
                   "refunded", "partially_refunded"}

\* mapProviderStatus: what a provider status becomes in the session row.
mapProviderStatus(st) ==
    CASE st = "approved"           -> "APPROVED"
      [] st = "rejected"           -> "REJECTED"
      [] st = "expired"            -> "EXPIRED"
      [] st = "refunded"           -> "REFUNDED_FULL"
      [] st = "partially_refunded" -> "REFUNDED_PARTIAL"
      [] OTHER                     -> "PENDING"

\* The two event ids the handlers use to recognise what they already did.
SyncEvent(p)    == <<"sync", p>>
WebhookEvent(p) == <<"webhook", p>>
EventIds == {"sync", "webhook"} \X Payments

\* A handler: where it is, which entry point started it, and what it read.
Request == [pc       : {"idle", "provider", "find", "credit", "event",
                        "webhookEvent", "refund"},
            kind     : {"webhook", "poll", "mock"},
            p        : Payments \cup {NoPayment},
            s        : Sessions,
            seen     : ProviderStatus,   \* status read from the provider
            existing : BOOLEAN,          \* the sync event was already there
            amount   : Nat,              \* amount of a refund
            before   : Nat]              \* refundedAmount the refund read

Idle == [pc |-> "idle", kind |-> "poll", p |-> NoPayment,
         s |-> CHOOSE s \in Sessions : TRUE, seen |-> "none",
         existing |-> FALSE, amount |-> 0, before |-> 0]

Busy(r) == req[r].pc # "idle"
\* A handler's next step; when it returns, what it had read is gone.
GoTo(r, pc) == req' = [req EXCEPT ![r] = IF pc = "idle" THEN Idle
                                         ELSE [@ EXCEPT !.pc = pc]]

\* ensureWalletAccount: the first wallet operation of a user upserts an empty
\* wallet, so a user without a row has balance 0.
Init ==
    /\ status    = [s \in Sessions |-> "NONE"]
    /\ opened    = [s \in Sessions |-> FALSE]
    /\ processed = [s \in Sessions |-> FALSE]
    /\ credited  = [s \in Sessions |-> 0]
    /\ refunded  = [s \in Sessions |-> 0]
    /\ balance   = [u \in Users |-> 0]
    /\ credits   = [s \in Sessions |-> 0]
    /\ debits    = [s \in Sessions |-> 0]
    /\ spent     = [u \in Users |-> 0]
    /\ payment   = [p \in Payments |-> "none"]
    /\ events    = {}
    /\ req       = [r \in Requests |-> Idle]

-----------------------------------------------------------------------------
(* Creating a charge.  The provider call comes after the row: when it      *)
(* fails, the row stays INITIATED and nobody can pay it.                   *)

CreateCreditTopUp(s) ==
    /\ status[s] = "NONE"
    /\ status' = [status EXCEPT ![s] = "INITIATED"]
    /\ UNCHANGED <<opened, processed, credited, refunded, walletVars, payment,
                   events, req>>

OpenCheckout(s) ==
    /\ status[s] = "INITIATED" /\ ~opened[s]
    /\ opened' = [opened EXCEPT ![s] = TRUE]
    /\ UNCHANGED <<status, processed, credited, refunded, walletVars, payment,
                   events, req>>

-----------------------------------------------------------------------------
(* The provider (external).  A preference can be paid again after an       *)
(* attempt was rejected; a payment may stay pending before it settles, and *)
(* an approved one may be refunded at the provider.                        *)

Pay(p) ==
    LET s == SessionOf[p] IN
    /\ opened[s] /\ payment[p] = "none"
    /\ \A q \in Payments : SessionOf[q] = s => payment[q] \in {"none", "rejected"}
    /\ \E st \in {"pending", "approved", "rejected"} :
         payment' = [payment EXCEPT ![p] = st]
    /\ UNCHANGED <<sessionVars, walletVars, events, req>>

ProviderSettles(p) ==
    /\ \/ /\ payment[p] = "pending"
          /\ \E st \in {"approved", "rejected", "expired"} :
               payment' = [payment EXCEPT ![p] = st]
       \/ /\ payment[p] = "approved"
          /\ \E st \in {"refunded", "partially_refunded"} :
               payment' = [payment EXCEPT ![p] = st]
    /\ UNCHANGED <<sessionVars, walletVars, events, req>>

-----------------------------------------------------------------------------
(* Learning about a payment: handleProviderWebhook and syncPaymentStatus.  *)

StartSync(r, p, kind) ==
    req' = [req EXCEPT ![r] = [@ EXCEPT !.pc = "provider", !.kind = kind,
                                        !.p = p, !.s = SessionOf[p]]]

\* A webhook whose event id is already recorded is dropped.
HandleProviderWebhook(r, p) ==
    /\ ~Busy(r) /\ payment[p] # "none"
    /\ WebhookEvent(p) \notin events
    /\ StartSync(r, p, "webhook")
    /\ UNCHANGED <<sessionVars, walletVars, payment, events>>

\* GET /payments/status and /payments/sync: the checkout return page.
PollPaymentStatus(r, p) ==
    /\ ~Busy(r) /\ payment[p] # "none"
    /\ StartSync(r, p, "poll")
    /\ UNCHANGED <<sessionVars, walletVars, payment, events>>

ReadProvider(r) ==
    /\ req[r].pc = "provider"
    /\ req' = [req EXCEPT ![r] = [@ EXCEPT !.pc = "find",
                                   !.seen = payment[req[r].p],
                                   !.existing = SyncEvent(req[r].p) \in events]]
    /\ UNCHANGED <<sessionVars, walletVars, payment, events>>

\* Where a handler goes once the session is up to date.
AfterApply(r) == IF req[r].kind = "mock" THEN "idle" ELSE "event"

\* Mutant: the session is credited without looking at processedAt.
MutFindTopUpUnchecked(r) ==
    /\ req[r].pc = "find" /\ req[r].seen = "approved"
    /\ GoTo(r, "credit")
    /\ UNCHANGED <<sessionVars, walletVars, payment, events>>

\* approveProviderTopUp, before its transaction: is the session unprocessed?
FindTopUp(r) ==
    /\ req[r].pc = "find" /\ req[r].seen = "approved"
    /\ GoTo(r, IF processed[req[r].s] THEN AfterApply(r) ELSE "credit")
    /\ UNCHANGED <<sessionVars, walletVars, payment, events>>

\* Mutant: the balance is incremented and no ledger entry is created.
MutApproveWithoutLedger(r) ==
    LET s == req[r].s IN
    /\ req[r].pc = "credit"
    /\ balance'   = [balance EXCEPT ![Owner[s]] = @ + Amount]
    /\ credited'  = [credited EXCEPT ![s] = Amount]
    /\ status'    = [status EXCEPT ![s] = "APPROVED"]
    /\ processed' = [processed EXCEPT ![s] = TRUE]
    /\ GoTo(r, AfterApply(r))
    /\ UNCHANGED <<opened, refunded, credits, debits, spent, payment, events>>

\* approveProviderTopUp, its transaction: credit the wallet, approve the row.
ApproveProviderTopUp(r) ==
    LET s == req[r].s IN
    /\ req[r].pc = "credit"
    /\ balance'   = [balance EXCEPT ![Owner[s]] = @ + Amount]
    /\ credits'   = [credits EXCEPT ![s] = @ + 1]
    /\ credited'  = [credited EXCEPT ![s] = Amount]
    /\ status'    = [status EXCEPT ![s] = "APPROVED"]
    /\ processed' = [processed EXCEPT ![s] = TRUE]
    /\ GoTo(r, AfterApply(r))
    /\ UNCHANGED <<opened, refunded, debits, spent, payment, events>>

\* Mutant: approved payments are copied into the row like any other status.
MutUpdateAnyStatus(r) ==
    LET s == req[r].s IN
    /\ req[r].pc = "find"
    /\ status'    = [status EXCEPT ![s] = mapProviderStatus(req[r].seen)]
    /\ processed' = [processed EXCEPT ![s] = TRUE]
    /\ GoTo(r, AfterApply(r))
    /\ UNCHANGED <<opened, credited, refunded, walletVars, payment, events>>

\* updateTopUpFromProvider: every status but approved is copied into the row.
UpdateTopUpFromProvider(r) ==
    LET s == req[r].s IN
    /\ req[r].pc = "find" /\ req[r].seen # "approved"
    /\ status'    = [status EXCEPT ![s] = mapProviderStatus(req[r].seen)]
    /\ processed' = [processed EXCEPT ![s] = TRUE]
    /\ GoTo(r, "event")
    /\ UNCHANGED <<opened, credited, refunded, walletVars, payment, events>>

\* The sync event is created unless it was there at the start; a concurrent
\* handler that created it meanwhile makes this one fail on the unique key.
RecordSyncEvent(r) ==
    LET e == SyncEvent(req[r].p)
        clash == ~req[r].existing /\ e \in events
    IN
    /\ req[r].pc = "event"
    /\ events' = IF req[r].existing THEN events ELSE events \cup {e}
    /\ GoTo(r, IF req[r].kind = "webhook" /\ ~clash THEN "webhookEvent" ELSE "idle")
    /\ UNCHANGED <<sessionVars, walletVars, payment>>

RecordWebhookEvent(r) ==
    /\ req[r].pc = "webhookEvent"
    /\ events' = events \cup {WebhookEvent(req[r].p)}
    /\ GoTo(r, "idle")
    /\ UNCHANGED <<sessionVars, walletVars, payment>>

\* A handler dies: the provider or the database answers with an error, or the
\* process stops.  The webhook endpoint answers 200 all the same.
Abort(r) ==
    /\ Busy(r)
    /\ GoTo(r, "idle")
    /\ UNCHANGED <<sessionVars, walletVars, payment, events>>

-----------------------------------------------------------------------------
(* QA actions of the mock provider (processMockPaymentAction).  They need  *)
(* the public token, which the row has once the checkout is open.          *)

StartMock(r, s, pc, amount) ==
    req' = [req EXCEPT ![r] = [@ EXCEPT !.pc = pc, !.kind = "mock",
                                        !.p = NoPayment, !.s = s,
                                        !.seen = "approved", !.amount = amount,
                                        !.before = refunded[s]]]

MockCheckout(s) == s \in MockSessions /\ opened[s]

MockApprove(r, s) ==
    /\ ~Busy(r) /\ MockCheckout(s)
    /\ ~processed[s]
    /\ status[s] \notin {"REJECTED", "EXPIRED", "REFUNDED_FULL", "REFUNDED_PARTIAL"}
    /\ StartMock(r, s, "find", 0)
    /\ UNCHANGED <<sessionVars, walletVars, payment, events>>

MockPend(s) ==
    /\ MockCheckout(s)
    /\ status' = [status EXCEPT ![s] = "PENDING"]
    /\ UNCHANGED <<opened, processed, credited, refunded, walletVars, payment,
                   events, req>>

MockRejectOrExpire(s) ==
    /\ MockCheckout(s)
    /\ \E st \in {"REJECTED", "EXPIRED"} : status' = [status EXCEPT ![s] = st]
    /\ processed' = [processed EXCEPT ![s] = TRUE]
    /\ UNCHANGED <<opened, credited, refunded, walletVars, payment, events, req>>

\* refundCreditTopUp, its checks: they run outside the transaction.
RefundCreditTopUp(r, s) ==
    /\ ~Busy(r) /\ MockCheckout(s)
    /\ status[s] = "APPROVED"
    /\ \E amount \in 1 .. (credited[s] - refunded[s]) :
         /\ amount <= balance[Owner[s]]
         /\ StartMock(r, s, "refund", amount)
    /\ UNCHANGED <<sessionVars, walletVars, payment, events>>

\* refundCreditTopUp, its transaction.  debitUserBalance checks the balance
\* again; the row is written with the total computed before.
RefundTransaction(r) ==
    LET s == req[r].s
        amount == req[r].amount
        total  == req[r].before + amount
    IN
    /\ req[r].pc = "refund"
    /\ GoTo(r, "idle")
    /\ \/ /\ balance[Owner[s]] >= amount
          /\ balance'  = [balance EXCEPT ![Owner[s]] = @ - amount]
          /\ debits'   = [debits EXCEPT ![s] = @ + amount]
          /\ refunded' = [refunded EXCEPT ![s] = total]
          /\ status'   = [status EXCEPT ![s] = IF total >= credited[s]
                                               THEN "REFUNDED_FULL"
                                               ELSE "REFUNDED_PARTIAL"]
          /\ UNCHANGED <<opened, processed, credited, credits, spent>>
       \/ /\ balance[Owner[s]] < amount
          /\ UNCHANGED <<sessionVars, walletVars>>
    /\ UNCHANGED <<payment, events>>

\* debitUserBalance for a ticket purchase (module RaffleSale).
SpendBalance(u) ==
    /\ \E n \in 1 .. balance[u] :
         /\ balance' = [balance EXCEPT ![u] = @ - n]
         /\ spent'   = [spent EXCEPT ![u] = @ + n]
    /\ UNCHANGED <<sessionVars, credits, debits, payment, events, req>>

-----------------------------------------------------------------------------
SessionStep(s) == \/ CreateCreditTopUp(s) \/ OpenCheckout(s)
                  \/ MockPend(s) \/ MockRejectOrExpire(s)

RequestStep(r) == \/ ReadProvider(r) \/ FindTopUp(r) \/ ApproveProviderTopUp(r)
                  \/ UpdateTopUpFromProvider(r) \/ RecordSyncEvent(r)
                  \/ RecordWebhookEvent(r) \/ RefundTransaction(r)

Next ==
    \/ \E s \in Sessions : SessionStep(s)
    \/ \E p \in Payments : Pay(p) \/ ProviderSettles(p)
    \/ \E r \in Requests : RequestStep(r) \/ Abort(r)
    \/ \E r \in Requests, p \in Payments :
         HandleProviderWebhook(r, p) \/ PollPaymentStatus(r, p)
    \/ \E r \in Requests, s \in Sessions : MockApprove(r, s) \/ RefundCreditTopUp(r, s)
    \/ \E u \in Users : SpendBalance(u)

Spec == Init /\ [][Next]_vars

-----------------------------------------------------------------------------
(* Properties *)

\* Only mock actions run without a provider payment, and they never reach the
\* steps that ask the provider or record its events.
HandlersOK ==
    \A r \in Requests : Busy(r) =>
        IF req[r].kind = "mock"
        THEN req[r].pc \in {"find", "credit", "refund"} /\ req[r].seen = "approved"
        ELSE req[r].p \in Payments

\* The shape of the session rows, the wallets and the running handlers.
TypeOK ==
    /\ status    \in [Sessions -> TopUpStatus]
    /\ opened    \in [Sessions -> BOOLEAN]
    /\ processed \in [Sessions -> BOOLEAN]
    /\ credited  \in [Sessions -> {0, Amount}]
    /\ refunded  \in [Sessions -> Nat]
    /\ balance   \in [Users -> Nat]
    /\ credits   \in [Sessions -> Nat]
    /\ debits    \in [Sessions -> Nat]
    /\ spent     \in [Users -> Nat]
    /\ payment   \in [Payments -> ProviderStatus]
    /\ events    \in SUBSET EventIds
    /\ req       \in [Requests -> Request]
    /\ HandlersOK

\* The wallet balance is what its ledger entries add up to: the charges
\* credited to the user, minus the refunds and the purchases debited.  Wallet
\* rows and ledger rows are written by different statements of each handler.
BalanceMatchesLedger ==
    \A u \in Users :
        balance[u] = SumOf([s \in Sessions |-> credits[s] * Amount - debits[s]],
                           {s \in Sessions : Owner[s] = u}) - spent[u]

\* However many webhooks, polls, redeliveries and aborted handlers there are, a
\* session is credited at most once per handler that can run at the same time:
\* only handlers that overlap with the first credit can repeat it, because
\* approveProviderTopUp reads processedAt before its transaction.
CreditsBoundedByOverlap ==
    \A s \in Sessions : credits[s] <= Cardinality(Requests)

\* A row that says APPROVED is backed by a wallet credit, whatever order the
\* provider's statuses are read and applied in.
ApprovedIsBacked ==
    \A s \in Sessions : status[s] = "APPROVED" => credits[s] > 0 /\ processed[s]

\* "LUK acredita el Saldo LUK una sola vez": a session is credited once.
CreditedOnce == \A s \in Sessions : credits[s] <= 1

\* "Cuando el provider aprueba la operacion, LUK acredita el Saldo LUK": a
\* handler that read "approved" and went on to record the event has a credited
\* session.
ApprovedPaymentIsCredited ==
    \A r \in Requests :
        (req[r].pc \in {"event", "webhookEvent"} /\ req[r].seen = "approved")
            => credits[req[r].s] > 0
=============================================================================
