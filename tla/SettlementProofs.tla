-------------------------- MODULE SettlementProofs --------------------------
(***************************************************************************)
(* Proofs about Settlement, for any number of raffles, sellers, requests   *)
(* and cron runs: types, the buyer's protection window, that releases and  *)
(* reversals are backed by what happened at Mercado Pago and in the        *)
(* ledger, that dispute refunds cover the tickets they mark, and that no   *)
(* order gets stuck before its payout is tried.                            *)
(***************************************************************************)
EXTENDS OrderPages, FiniteSetTheorems, TLAPS

\* The disjuncts of Next, one by one, for proofs that go through every action.
LEMMA NextCases ==
    ASSUME Next
    PROVE  \/ \E h \in Handlers, r \in Raffles : StartRequest(h, r)
           \/ \E c \in Crons, r \in Raffles : StartCron(c, r)
           \/ \E w \in Workers : DeliveryStep(w)
           \/ \E w \in Workers : DisputeStep(w)
           \/ \E w \in Workers : PayoutStep(w)
           \/ \E w \in Workers : Abort(w)
           \/ \E r \in Raffles : Environment(r)
  BY DEF Next

-----------------------------------------------------------------------------
(* Types *)

\* The worker that has nothing to do is a worker.
LEMMA IdleType == Idle \in Job
  BY SettlementConstants DEF Idle, Job, Decisions, ProviderStatus

\* A worker that goes to its next step, or returns, stays a worker.
LEMMA GoToType ==
    ASSUME job \in [Workers -> Job], NEW w \in Workers,
           NEW pc \in {"idle", "schedule", "createDispute", "verdict", "close",
                       "prepare", "check", "release", "mark", "funds", "provider",
                       "finish", "catch", "entry", "fail"},
           GoTo(w, pc)
    PROVE  job' \in [Workers -> Job]
<1>1. [job[w] EXCEPT !.pc = pc] \in Job
  BY DEF Job
<1> QED
  BY <1>1, IdleType DEF GoTo

\* A request or a cron run that starts on a raffle is a worker.
LEMMA StartType ==
    ASSUME job \in [Workers -> Job], NEW w \in Workers, NEW r \in Raffles,
           NEW pc \in {"ship", "confirm", "markDisputed", "respond", "autoConfirm",
                       "check"},
           Start(w, r, pc)
    PROVE  job' \in [Workers -> Job]
<1>1. [Idle EXCEPT !.pc = pc, !.r = r] \in Job
  BY IdleType DEF Job
<1> QED
  BY <1>1 DEF Start, StartWith

\* A resolution that starts, by an admin or by the cron, is a worker.
LEMMA ResolutionType ==
    ASSUME TypeOK, NEW w \in Workers, NEW r \in Raffles, NEW decision \in Decisions,
           NEW amount, StartResolution(w, r, decision, amount)
    PROVE  job' \in [Workers -> Job]
<1>1. Owed(r) \in Nat
  BY SettlementConstants DEF Owed, TypeOK
<1>2. amount \in Nat
  BY <1>1 DEF StartResolution, CanResolve, RefundsOf, Decisions
<1>3. [Idle EXCEPT !.pc = IF amount > 0 THEN "refund" ELSE "verdict", !.r = r,
                   !.decision = decision, !.amount = amount] \in Job
  BY <1>2, IdleType DEF Job
<1> QED
  BY <1>3 DEF StartResolution, StartWith, TypeOK

\* A request that starts keeps the types.
LEMMA StartRequestType ==
    ASSUME TypeOK, NEW h \in Handlers, NEW r \in Raffles, StartRequest(h, r)
    PROVE  TypeOK'
<1> USE DEF raffleVars, disputeVars, payoutVars, moneyVars
<1>0. h \in Workers
  BY DEF Workers
<1>1. job' \in [Workers -> Job]
  <2>1. CASE MarkAsShipped(h, r)
    BY <1>0, <2>1, StartType DEF MarkAsShipped, TypeOK
  <2>2. CASE ConfirmDelivery(h, r)
    BY <1>0, <2>2, StartType DEF ConfirmDelivery, TypeOK
  <2>3. CASE OpenDispute(h, r)
    BY <1>0, <2>3, StartType DEF OpenDispute, TypeOK
  <2>4. CASE RespondDispute(h, r)
    BY <1>0, <2>4, StartType DEF RespondDispute, TypeOK
  <2>5. CASE ResolveDispute(h, r)
    BY <1>0, <2>5, ResolutionType DEF ResolveDispute
  <2>6. CASE ProcessDuePayout(h, r)
    BY <1>0, <2>6, StartType DEF ProcessDuePayout, TypeOK
  <2>7. CASE ReleasePayoutManually(h, r)
    BY <1>0, <2>7, StartType DEF ReleasePayoutManually, TypeOK
  <2>8. CASE SyncProviderPayout(h, r)
    <3>1. [Idle EXCEPT !.pc = "syncResult", !.r = r, !.seen = provider[r]] \in Job
      BY IdleType DEF Job, TypeOK
    <3> QED
      BY <1>0, <2>8, <3>1 DEF SyncProviderPayout, StartWith, TypeOK
  <2> QED
    BY <2>1, <2>2, <2>3, <2>4, <2>5, <2>6, <2>7, <2>8 DEF StartRequest
<1>2. UNCHANGED <<raffleVars, disputeVars, payoutVars, moneyVars>>
  BY DEF StartRequest, MarkAsShipped, ConfirmDelivery, OpenDispute, RespondDispute,
         ResolveDispute, StartResolution, ProcessDuePayout, ReleasePayoutManually,
         SyncProviderPayout
<1> QED
  BY <1>1, <1>2 DEF TypeOK

\* A cron run that starts keeps the types.
LEMMA StartCronType ==
    ASSUME TypeOK, NEW c \in Crons, NEW r \in Raffles, StartCron(c, r)
    PROVE  TypeOK'
<1> USE DEF raffleVars, disputeVars, payoutVars, moneyVars
<1>0. c \in Workers
  BY DEF Workers
<1>1. job' \in [Workers -> Job]
  <2>1. CASE AutoRelease(c, r)
    BY <1>0, <2>1, StartType DEF AutoRelease, TypeOK
  <2>2. CASE AutoRefundOldDispute(c, r)
    BY <1>0, <2>2, ResolutionType DEF AutoRefundOldDispute, Decisions
  <2>3. CASE ProcessDuePayout(c, r)
    BY <1>0, <2>3, StartType DEF ProcessDuePayout, TypeOK
  <2> QED
    BY <2>1, <2>2, <2>3 DEF StartCron
<1>2. UNCHANGED <<raffleVars, disputeVars, payoutVars, moneyVars>>
  BY DEF StartCron, AutoRelease, AutoRefundOldDispute, StartResolution, ProcessDuePayout
<1> QED
  BY <1>1, <1>2 DEF TypeOK

\* Shipping, confirming and scheduling keep the types.
LEMMA DeliveryStepType ==
    ASSUME TypeOK, NEW w \in Workers, DeliveryStep(w)
    PROVE  TypeOK'
<1> USE DEF raffleVars, disputeVars, payoutVars, moneyVars
<1>0. job \in [Workers -> Job] /\ job[w].r \in Raffles
  BY DEF TypeOK, Job
<1>1. CASE WriteShipped(w)
  <2>1. job' \in [Workers -> Job]
    BY <1>0, <1>1, GoToType DEF WriteShipped
  <2> QED
    BY <1>0, <1>1, <2>1 DEF WriteShipped, TypeOK, Estados, Deliveries
<1>2. CASE WriteConfirmed(w)
  <2>1. job' \in [Workers -> Job]
    BY <1>0, <1>2, GoToType DEF WriteConfirmed
  <2> QED
    BY <1>0, <1>2, <2>1 DEF WriteConfirmed, Confirm, TypeOK, Estados, Deliveries
<1>3. CASE SchedulePayout(w)
  <2>1. job' \in [Workers -> Job]
    BY <1>0, <1>3, GoToType DEF SchedulePayout
  <2> QED
    BY <1>0, <1>3, <2>1 DEF SchedulePayout, TypeOK, PayoutStatus
<1> QED
  BY <1>1, <1>2, <1>3 DEF DeliveryStep

\* The tickets an amount covers in full are a natural number of tickets.
LEMMA CoveredType ==
    ASSUME NEW amount \in Nat
    PROVE  /\ amount \div TicketPrice \in Nat
           /\ (amount \div TicketPrice) * TicketPrice <= amount
           /\ amount < (amount \div TicketPrice) * TicketPrice + TicketPrice
  BY SettlementConstants

\* The steps of a dispute keep the types: a refund never overdraws the payable
\* and never marks more tickets than there are.
LEMMA DisputeStepType ==
    ASSUME TypeOK, NEW w \in Workers, DisputeStep(w)
    PROVE  TypeOK'
<1> USE DEF raffleVars, disputeVars, payoutVars, moneyVars
<1>0. /\ job \in [Workers -> Job] /\ job[w].r \in Raffles
      /\ job[w].amount \in Nat /\ job[w].decision \in Decisions
  BY DEF TypeOK, Job
<1>1. CASE MarkDisputed(w)
  <2>1. job' \in [Workers -> Job]
    BY <1>0, <1>1, GoToType DEF MarkDisputed
  <2> QED
    BY <1>0, <1>1, <2>1 DEF MarkDisputed, TypeOK, Deliveries
<1>2. CASE CreateDispute(w)
  <2>1. job' \in [Workers -> Job]
    BY <1>0, <1>2, GoToType DEF CreateDispute
  <2> QED
    BY <1>0, <1>2, <2>1 DEF CreateDispute, TypeOK, ActiveDispute
<1>3. CASE WriteResponse(w)
  <2>1. job' \in [Workers -> Job]
    BY <1>0, <1>3, GoToType DEF WriteResponse
  <2> QED
    BY <1>0, <1>3, <2>1 DEF WriteResponse, TypeOK, ActiveDispute
<1>4. CASE DisputeRefund(w)
  <2> DEFINE r == job[w].r  amount == job[w].amount  n == amount \div TicketPrice
  <2>1. job' \in [Workers -> Job]
    BY <1>0, <1>4, GoToType DEF DisputeRefund
  <2>2. CASE Refundable(r, amount)
    <3>1. SellerOf[r] \in Sellers /\ payable[SellerOf[r]] \in Nat
      BY <1>0, SettlementConstants DEF TypeOK
    <3>2. payable[SellerOf[r]] - amount \in Nat
      BY <1>0, <2>2, <3>1 DEF Refundable
    <3>3. payable' \in [Sellers -> Nat]
      BY <1>4, <2>2, <3>2 DEF DisputeRefund, TypeOK
    <3>4. n \in Nat
      BY <1>0, CoveredType
    <3>5. tickets' \in [Raffles -> 0 .. WinnerTickets]
      <4>1. (IF n < tickets[r] THEN tickets[r] - n ELSE 0) \in 0 .. WinnerTickets
        BY <1>0, <3>4, SettlementConstants DEF TypeOK
      <4> HIDE DEF n
      <4> QED
        BY <1>4, <2>2, <4>1 DEF DisputeRefund, TypeOK, n
    <3>6. refunded' \in [Raffles -> Nat] /\ refunds' \in [Raffles -> Nat]
      BY <1>0, <1>4, <2>2 DEF DisputeRefund, TypeOK
    <3> QED
      BY <1>4, <2>1, <3>3, <3>5, <3>6 DEF DisputeRefund, TypeOK
  <2>3. CASE ~Refundable(r, amount)
    BY <1>4, <2>1, <2>3 DEF DisputeRefund, TypeOK
  <2> QED
    BY <2>2, <2>3
<1>5. CASE WriteResolution(w)
  <2>1. job' \in [Workers -> Job]
    BY <1>0, <1>5, GoToType DEF WriteResolution
  <2> QED
    BY <1>0, <1>5, <2>1 DEF WriteResolution, TypeOK
<1>6. CASE CloseDispute(w)
  <2>1. job' \in [Workers -> Job]
    BY <1>0, <1>6, GoToType DEF CloseDispute
  <2> QED
    BY <1>0, <1>6, <2>1 DEF CloseDispute, TypeOK, Deliveries, Estados
<1> QED
  BY <1>1, <1>2, <1>3, <1>4, <1>5, <1>6 DEF DisputeStep

\* The steps of a payout keep the types: a debit never overdraws the payable.
LEMMA PayoutStepType ==
    ASSUME TypeOK, NEW w \in Workers, PayoutStep(w)
    PROVE  TypeOK'
<1> USE DEF raffleVars, disputeVars, payoutVars, moneyVars
<1>0. /\ job \in [Workers -> Job] /\ job[w] \in Job /\ job[w].r \in Raffles
      /\ SellerOf[job[w].r] \in Sellers /\ payable[SellerOf[job[w].r]] \in Nat
      /\ NetAmount \in Nat
  BY SettlementConstants DEF TypeOK, Job
<1>1. CASE AutoConfirm(w)
  <2>1. job' \in [Workers -> Job]
    BY <1>0, <1>1, GoToType DEF AutoConfirm
  <2> QED
    BY <1>0, <1>1, <2>1 DEF AutoConfirm, Confirm, TypeOK, Estados, Deliveries
<1>2. CASE PreparePayout(w)
  <2>1. job' \in [Workers -> Job]
    BY <1>0, <1>2, GoToType DEF PreparePayout
  <2> QED
    BY <1>0, <1>2, <2>1 DEF PreparePayout, TypeOK, PayoutStatus
<1>3. CASE CheckPending(w)
  <2>1. job' \in [Workers -> Job]
    BY <1>0, <1>3, GoToType DEF CheckPending
  <2> QED
    BY <1>3, <2>1 DEF CheckPending, TypeOK
<1>4. CASE CheckRelease(w)
  <2>1. job' \in [Workers -> Job]
    BY <1>0, <1>4, GoToType DEF CheckRelease
  <2> QED
    BY <1>4, <2>1 DEF CheckRelease, TypeOK
<1>5. CASE MarkProcessing(w)
  <2>1. job' \in [Workers -> Job]
    BY <1>0, <1>5, GoToType DEF MarkProcessing
  <2> QED
    BY <1>0, <1>5, <2>1 DEF MarkProcessing, TypeOK, PayoutStatus
<1>6. CASE CheckFunds(w)
  <2>1. job' \in [Workers -> Job]
    BY <1>0, <1>6, GoToType DEF CheckFunds
  <2> QED
    BY <1>6, <2>1 DEF CheckFunds, TypeOK
<1>7. CASE CallProvider(w)
  <2> DEFINE r == job[w].r
  <2>1. PICK st \in ProviderStatus : provider' = [provider EXCEPT ![r] = st]
    BY <1>0, <1>7 DEF CallProvider, TypeOK
  <2>2. provider' \in [Raffles -> ProviderStatus] /\ provider'[r] \in ProviderStatus
    BY <1>0, <2>1 DEF TypeOK
  <2>3. PICK seen \in {provider'[r], "none"} :
          job' = [job EXCEPT ![w] = [@ EXCEPT !.seen = seen,
                    !.pc = IF seen \in {"processing", "completed"} THEN "record"
                           ELSE "catch"]]
    BY <1>7 DEF CallProvider
  <2>4. seen \in ProviderStatus
    BY <2>2, <2>3 DEF ProviderStatus
  <2>5. [job[w] EXCEPT !.seen = seen,
           !.pc = IF seen \in {"processing", "completed"} THEN "record" ELSE "catch"]
          \in Job
    BY <1>0, <2>4 DEF Job
  <2>6. job' \in [Workers -> Job]
    BY <1>0, <2>3, <2>5
  <2> QED
    BY <1>7, <2>2, <2>6 DEF CallProvider, TypeOK
<1>8. CASE RecordAccepted(w)
  <2>1. job' \in [Workers -> Job]
    BY <1>0, <1>8, GoToType DEF RecordAccepted
  <2>2. payable' \in [Sellers -> Nat]
    <3>1. payable[SellerOf[job[w].r]] >= NetAmount
            => payable[SellerOf[job[w].r]] - NetAmount \in Nat
      BY <1>0
    <3> QED
      BY <1>8, <3>1 DEF RecordAccepted, TypeOK
  <2>3. debits' \in [Raffles -> Nat]
    BY <1>0, <1>8 DEF RecordAccepted, TypeOK
  <2>4. accepted' \in [Raffles -> BOOLEAN]
    BY <1>8 DEF RecordAccepted, TypeOK
  <2> QED
    BY <1>8, <2>1, <2>2, <2>3, <2>4 DEF RecordAccepted, TypeOK
<1>9. CASE FinishPayout(w)
  <2>1. job' \in [Workers -> Job]
    BY <1>0, <1>9, GoToType DEF FinishPayout
  <2>2. /\ payout' \in [Raffles -> PayoutStatus] /\ released' \in [Raffles -> BOOLEAN]
        /\ estado' \in [Raffles -> Estados] /\ accepted' \in [Raffles -> BOOLEAN]
    BY <1>0, <1>9 DEF FinishPayout, Complete, TypeOK, PayoutStatus, Estados
  <2> QED
    BY <1>9, <2>1, <2>2 DEF FinishPayout, TypeOK
<1>10. CASE CatchFailure(w)
  <2>1. job' \in [Workers -> Job]
    BY <1>0, <1>10, GoToType DEF CatchFailure, ReversePayable
  <2>2. payable' \in [Sellers -> Nat] /\ credited' \in [Raffles -> Nat]
    BY <1>0, <1>10 DEF CatchFailure, ReversePayable, TypeOK
  <2> QED
    BY <1>10, <2>1, <2>2 DEF CatchFailure, TypeOK
<1>11. CASE WriteFailed(w)
  <2>1. job' \in [Workers -> Job]
    BY <1>0, <1>11, GoToType DEF WriteFailed
  <2> QED
    BY <1>0, <1>11, <2>1 DEF WriteFailed, TypeOK, PayoutStatus
<1>12. CASE ApplySync(w)
  <2>1. job' \in [Workers -> Job]
    BY <1>0, <1>12, GoToType DEF ApplySync, ReversePayable
  <2>2. /\ payout' \in [Raffles -> PayoutStatus] /\ released' \in [Raffles -> BOOLEAN]
        /\ estado' \in [Raffles -> Estados] /\ accepted' \in [Raffles -> BOOLEAN]
    BY <1>0, <1>12 DEF ApplySync, Complete, TypeOK, PayoutStatus, Estados
  <2>3. payable' \in [Sellers -> Nat] /\ credited' \in [Raffles -> Nat]
    BY <1>0, <1>12 DEF ApplySync, ReversePayable, TypeOK
  <2> QED
    BY <1>12, <2>1, <2>2, <2>3 DEF ApplySync, TypeOK
<1>13. CASE RecordReversal(w)
  <2>1. job' \in [Workers -> Job]
    BY <1>0, <1>13, GoToType DEF RecordReversal
  <2>2. reversals' \in [Raffles -> Nat]
    BY <1>0, <1>13 DEF RecordReversal, TypeOK
  <2> QED
    BY <1>13, <2>1, <2>2 DEF RecordReversal, TypeOK
<1> QED
  BY <1>1, <1>2, <1>3, <1>4, <1>5, <1>6, <1>7, <1>8, <1>9, <1>10, <1>11, <1>12, <1>13
  DEF PayoutStep

\* The provider and the passing of days keep the types.
LEMMA EnvironmentType ==
    ASSUME TypeOK, NEW r \in Raffles, Environment(r)
    PROVE  TypeOK'
<1> USE DEF raffleVars, disputeVars, payoutVars, moneyVars
<1>1. CASE ProviderSettles(r)
  BY <1>1 DEF ProviderSettles, TypeOK, ProviderStatus
<1>2. CASE SevenDaysAfterDraw(r)
  BY <1>2 DEF SevenDaysAfterDraw, TypeOK
<1>3. CASE ProtectionEnds(r)
  BY <1>3 DEF ProtectionEnds, TypeOK
<1>4. CASE DisputeAges(r)
  BY <1>4 DEF DisputeAges, TypeOK
<1> QED
  BY <1>1, <1>2, <1>3, <1>4 DEF Environment

\* The initial state has the types.
LEMMA InitType == Init => TypeOK
  BY IdleType, SettlementConstants
  DEF Init, TypeOK, Estados, Deliveries, ActiveDispute, PayoutStatus, ProviderStatus

\* Every step keeps the types.
LEMMA NextType ==
    ASSUME TypeOK, [Next]_vars
    PROVE  TypeOK'
<1>1. ASSUME NEW w \in Workers, Abort(w) PROVE TypeOK'
  <2>1. job' \in [Workers -> Job]
    BY <1>1, GoToType DEF Abort, TypeOK
  <2> QED
    BY <1>1, <2>1 DEF Abort, TypeOK, raffleVars, disputeVars, payoutVars, moneyVars
<1>2. CASE Next
  BY <1>1, <1>2, NextCases, StartRequestType, StartCronType, DeliveryStepType,
     DisputeStepType, PayoutStepType, EnvironmentType
<1>3. CASE UNCHANGED vars
  BY <1>3 DEF vars, raffleVars, disputeVars, payoutVars, moneyVars, TypeOK
<1> QED
  BY <1>2, <1>3

\* Raffles, disputes, payouts, wallets and workers keep their shape; in
\* particular neither a payout nor a dispute refund overdraws a seller's payable
\* balance, whatever requests and cron runs overlap.
THEOREM TypeCorrect == Spec => []TypeOK
  BY InitType, NextType, PTL DEF Spec

-----------------------------------------------------------------------------
(* Safety: what a worker in the middle of a payout relies on.  It read the  *)
(* raffle, the ledger or the provider some steps ago; the invariant says    *)
(* that what it read cannot have been taken back since.                     *)

\* The steps that follow a passed canReleaseFunds, up to the provider call.
Releasing == {"mark", "funds", "provider"}

\* A worker and what it relies on: the protection window is over before the
\* provider is called, a debit was written before the payout is completed or
\* reversed, and the answer "completed" is the provider's state.
JobOK(j, protectedNow, debitsNow, providerNow) ==
    /\ j.pc \in Releasing => protectedNow[j.r]
    /\ j.pc \in {"finish", "syncResult"} => debitsNow[j.r] > 0
    /\ j.pc \in {"record", "finish", "syncResult"} /\ j.seen = "completed"
         => providerNow[j.r] = "completed"

JobInv == \A w \in Workers : JobOK(job[w], protected, debits, provider)

\* The rows: a payout exists at the provider only after the window, and every
\* mark of a finished payout is backed by a debit.
RaffleInv ==
    \A r \in Raffles :
        /\ confirmed[r] = "old" \/ provider[r] # "none" => protected[r]
        /\ accepted[r] \/ credited[r] > 0 \/ released[r] => debits[r] > 0
        /\ released[r] => provider[r] = "completed"

SafetyInv == TypeOK /\ RaffleInv /\ JobInv

\* Only these steps touch the window, the ledger's debits or the provider.
LEMMA Frame ==
    ASSUME Next
    PROVE  \/ UNCHANGED <<protected, debits, provider>>
           \/ \E w \in Workers : CallProvider(w) \/ RecordAccepted(w)
           \/ \E r \in Raffles : ProviderSettles(r) \/ ProtectionEnds(r)
<1> USE DEF raffleVars, disputeVars, payoutVars, moneyVars
<1>1. ASSUME NEW h \in Handlers, NEW r \in Raffles, StartRequest(h, r)
      PROVE  UNCHANGED <<protected, debits, provider>>
  BY <1>1 DEF StartRequest, MarkAsShipped, ConfirmDelivery, OpenDispute, RespondDispute,
         ResolveDispute, StartResolution, ProcessDuePayout, ReleasePayoutManually,
         SyncProviderPayout
<1>2. ASSUME NEW c \in Crons, NEW r \in Raffles, StartCron(c, r)
      PROVE  UNCHANGED <<protected, debits, provider>>
  BY <1>2 DEF StartCron, AutoRelease, AutoRefundOldDispute, StartResolution,
         ProcessDuePayout
<1>3. ASSUME NEW w \in Workers, DeliveryStep(w)
      PROVE  UNCHANGED <<protected, debits, provider>>
  BY <1>3 DEF DeliveryStep, WriteShipped, WriteConfirmed, Confirm, SchedulePayout
<1>4. ASSUME NEW w \in Workers, DisputeStep(w)
      PROVE  UNCHANGED <<protected, debits, provider>>
  BY <1>4 DEF DisputeStep, MarkDisputed, CreateDispute, WriteResponse, DisputeRefund,
         WriteResolution, CloseDispute
<1>5. ASSUME NEW w \in Workers, PayoutStep(w), ~CallProvider(w), ~RecordAccepted(w)
      PROVE  UNCHANGED <<protected, debits, provider>>
  BY <1>5 DEF PayoutStep, AutoConfirm, Confirm, PreparePayout, CheckPending,
         CheckRelease, MarkProcessing, CheckFunds, FinishPayout, CatchFailure,
         RecordReversal, WriteFailed, ApplySync
<1>6. ASSUME NEW w \in Workers, Abort(w) PROVE UNCHANGED <<protected, debits, provider>>
  BY <1>6 DEF Abort
<1>7. ASSUME NEW r \in Raffles, Environment(r), ~ProviderSettles(r), ~ProtectionEnds(r)
      PROVE  UNCHANGED <<protected, debits, provider>>
  BY <1>7 DEF Environment, SevenDaysAfterDraw, DisputeAges
<1> HIDE DEF raffleVars, disputeVars, payoutVars, moneyVars
<1> QED
  BY <1>1, <1>2, <1>3, <1>4, <1>5, <1>6, <1>7, NextCases

\* Nothing a worker relies on is ever taken back: the window does not reopen,
\* the ledger is append-only, and a completed provider payout stays completed.
LEMMA Stable ==
    ASSUME TypeOK, [Next]_vars, NEW r \in Raffles
    PROVE  /\ protected[r] => protected'[r]
           /\ debits[r] > 0 => debits'[r] > 0
           /\ provider[r] = "completed" => provider'[r] = "completed"
<1> USE DEF raffleVars, disputeVars, payoutVars, moneyVars
<1>1. ASSUME NEW w \in Workers, CallProvider(w)
      PROVE  /\ UNCHANGED <<protected, debits>>
             /\ provider[r] = "completed" => provider'[r] = "completed"
  BY <1>1 DEF CallProvider, TypeOK
<1>2. ASSUME NEW w \in Workers, RecordAccepted(w)
      PROVE  UNCHANGED <<protected, provider>> /\ (debits[r] > 0 => debits'[r] > 0)
  <2>1. debits[r] \in Nat
    BY DEF TypeOK
  <2> QED
    BY <1>2, <2>1 DEF RecordAccepted, TypeOK
<1>3. ASSUME NEW q \in Raffles, ProviderSettles(q)
      PROVE  /\ UNCHANGED <<protected, debits>>
             /\ provider[r] = "completed" => provider'[r] = "completed"
  BY <1>3 DEF ProviderSettles, TypeOK
<1>4. ASSUME NEW q \in Raffles, ProtectionEnds(q)
      PROVE  UNCHANGED <<debits, provider>> /\ (protected[r] => protected'[r])
  BY <1>4 DEF ProtectionEnds, TypeOK
<1>5. CASE UNCHANGED vars
  BY <1>5 DEF vars
<1> QED
  BY <1>1, <1>2, <1>3, <1>4, <1>5, Frame

\* So a worker that does not move keeps what it relies on.
LEMMA JobStable ==
    ASSUME SafetyInv, [Next]_vars
    PROVE  \A w \in Workers : JobOK(job[w], protected', debits', provider')
<1> SUFFICES ASSUME NEW w \in Workers PROVE JobOK(job[w], protected', debits', provider')
  OBVIOUS
<1>1. JobOK(job[w], protected, debits, provider) /\ job[w].r \in Raffles
  BY DEF SafetyInv, JobInv, TypeOK, Job
<1>2. /\ protected[job[w].r] => protected'[job[w].r]
      /\ debits[job[w].r] > 0 => debits'[job[w].r] > 0
      /\ provider[job[w].r] = "completed" => provider'[job[w].r] = "completed"
  BY <1>1, Stable DEF SafetyInv
<1> QED
  BY <1>1, <1>2 DEF JobOK

\* The pcs at which a worker relies on something.
Relying == Releasing \cup {"record", "finish", "syncResult"}

\* Workers other than the one that moves are as before, so it is enough to look
\* at the one that moves.
LEMMA OneMoves ==
    ASSUME SafetyInv, [Next]_vars, NEW w \in Workers,
           \A v \in Workers \ {w} : job'[v] = job[v],
           JobOK(job'[w], protected', debits', provider')
    PROVE  JobInv'
<1>1. ASSUME NEW v \in Workers PROVE JobOK(job'[v], protected', debits', provider')
  BY JobStable
<1> QED
  BY <1>1 DEF JobInv

\* A worker that goes where it relies on nothing is in order.
LEMMA GoToOK ==
    ASSUME SafetyInv, [Next]_vars, NEW w \in Workers, NEW pc,
           pc \notin Relying, GoTo(w, pc)
    PROVE  JobInv'
<1>1. job'[w].pc \notin Relying
  BY DEF GoTo, Idle, SafetyInv, TypeOK, Job, Relying, Releasing
<1>2. \A v \in Workers \ {w} : job'[v] = job[v]
  BY DEF GoTo, SafetyInv, TypeOK
<1>3. JobOK(job'[w], protected', debits', provider')
  BY <1>1 DEF JobOK, Relying
<1> QED
  BY <1>2, <1>3, OneMoves

\* So is a worker that starts.
LEMMA StartOK ==
    ASSUME SafetyInv, [Next]_vars, NEW w \in Workers, NEW j, j.pc \notin Relying,
           StartWith(w, j)
    PROVE  JobInv'
<1>1. job'[w] = j /\ \A v \in Workers \ {w} : job'[v] = job[v]
  BY DEF StartWith, SafetyInv, TypeOK
<1>2. JobOK(job'[w], protected', debits', provider')
  BY <1>1 DEF JobOK, Relying
<1> QED
  BY <1>1, <1>2, OneMoves

\* A resolution starts with its refund, or with its verdict.
LEMMA ResolutionOK ==
    ASSUME SafetyInv, [Next]_vars, NEW w \in Workers, NEW r \in Raffles, NEW decision,
           NEW amount, StartResolution(w, r, decision, amount)
    PROVE  JobInv'
<1> DEFINE j == [Idle EXCEPT !.pc = IF amount > 0 THEN "refund" ELSE "verdict", !.r = r,
                             !.decision = decision, !.amount = amount]
<1>1. j.pc \in {"refund", "verdict"}
  BY DEF Idle
<1>2. j.pc \notin Relying
  BY <1>1 DEF Relying, Releasing
<1>3. StartWith(w, j)
  BY DEF StartResolution
<1> HIDE DEF j
<1> QED
  BY <1>2, <1>3, StartOK

\* Starting with a pc at which nothing is relied on.
LEMMA PlainStartOK ==
    ASSUME SafetyInv, [Next]_vars, NEW w \in Workers, NEW r \in Raffles,
           NEW pc, pc \notin Relying, Start(w, r, pc)
    PROVE  JobInv'
<1> DEFINE j == [Idle EXCEPT !.pc = pc, !.r = r]
<1>1. j.pc = pc
  BY DEF Idle
<1>2. StartWith(w, j)
  BY DEF Start
<1> HIDE DEF j
<1> QED
  BY <1>1, <1>2, StartOK

\* A request that starts relies on nothing it did not just read.
LEMMA StartRequestOK ==
    ASSUME SafetyInv, Next, NEW h \in Handlers, NEW r \in Raffles, StartRequest(h, r)
    PROVE  JobInv'
<1> USE DEF Relying, Releasing
<1>0. h \in Workers /\ [Next]_vars
  BY DEF Workers
<1>1. CASE \E pc \in {"ship", "confirm", "markDisputed", "respond", "check"} : Start(h, r, pc)
  BY <1>0, <1>1, PlainStartOK
<1>2. CASE ResolveDispute(h, r)
  BY <1>0, <1>2, ResolutionOK DEF ResolveDispute
<1>3. CASE SyncProviderPayout(h, r)
  <2> DEFINE j == [Idle EXCEPT !.pc = "syncResult", !.r = r, !.seen = provider[r]]
  <2>1. j.pc = "syncResult" /\ j.r = r /\ j.seen = provider[r]
    BY DEF Idle
  <2>2. debits[r] > 0
    BY <1>3 DEF SyncProviderPayout, SafetyInv, RaffleInv
  <2>3. UNCHANGED <<debits, provider>>
    BY <1>3 DEF SyncProviderPayout, payoutVars, moneyVars
  <2>4. JobOK(j, protected', debits', provider')
    BY <2>1, <2>2, <2>3 DEF JobOK
  <2>5. job'[h] = j /\ \A v \in Workers \ {h} : job'[v] = job[v]
    BY <1>0, <1>3 DEF SyncProviderPayout, StartWith, SafetyInv, TypeOK
  <2> QED
    BY <1>0, <2>4, <2>5, OneMoves
<1> QED
  BY <1>1, <1>2, <1>3 DEF StartRequest, MarkAsShipped, ConfirmDelivery, OpenDispute,
     RespondDispute, ProcessDuePayout, ReleasePayoutManually

\* A payout step hands on what the worker relies on, or establishes it: the
\* release check reads the window, the provider's answer is its state, and the
\* debit is written before the payout is finished.
LEMMA PayoutStepOK ==
    ASSUME SafetyInv, Next, NEW w \in Workers, PayoutStep(w)
    PROVE  JobInv'
<1> USE DEF raffleVars, disputeVars, payoutVars, moneyVars
<1>0. /\ [Next]_vars /\ job[w] \in Job /\ job[w].r \in Raffles /\ job \in [Workers -> Job]
      /\ JobOK(job[w], protected, debits, provider) /\ TypeOK
  BY DEF SafetyInv, TypeOK, Job, JobInv
<1>1. CASE \E pc \in {"idle", "prepare", "check", "release", "catch", "entry", "fail"} :
            GoTo(w, pc)
  BY <1>0, <1>1, GoToOK DEF Relying, Releasing
<1>2. ASSUME NEW pc \in Releasing, GoTo(w, pc), protected'[job[w].r]
      PROVE  JobInv'
  <2>1. job'[w].pc = pc /\ job'[w].r = job[w].r
    BY <1>0, <1>2 DEF GoTo, Releasing, Job
  <2>2. JobOK(job'[w], protected', debits', provider')
    BY <1>2, <2>1 DEF JobOK, Releasing
  <2>3. \A v \in Workers \ {w} : job'[v] = job[v]
    BY <1>0, <1>2 DEF GoTo
  <2> QED
    BY <1>0, <2>2, <2>3, OneMoves
<1>3. CASE CheckRelease(w) /\ GoTo(w, "mark") /\ canReleaseFunds(job[w].r)
  <2>1. protected'[job[w].r]
    BY <1>0, <1>3 DEF CheckRelease, canReleaseFunds, SafetyInv, RaffleInv
  <2> QED
    BY <1>2, <1>3, <2>1 DEF Releasing
<1>4. CASE MarkProcessing(w)
  <2>1. protected'[job[w].r] /\ GoTo(w, "funds")
    BY <1>0, <1>4 DEF MarkProcessing, JobOK, Releasing
  <2> QED
    BY <1>2, <2>1 DEF Releasing
<1>5. CASE CheckFunds(w) /\ GoTo(w, "provider")
  <2>1. protected'[job[w].r]
    BY <1>0, <1>5 DEF CheckFunds, JobOK, Releasing
  <2> QED
    BY <1>2, <1>5, <2>1 DEF Releasing
<1>6. CASE CallProvider(w)
  <2>1. PICK seen \in {provider'[job[w].r], "none"} :
          job' = [job EXCEPT ![w] = [@ EXCEPT !.seen = seen,
                    !.pc = IF seen \in {"processing", "completed"} THEN "record"
                           ELSE "catch"]]
    BY <1>6 DEF CallProvider
  <2>2. /\ job'[w].pc \in {"record", "catch"} /\ job'[w].r = job[w].r
        /\ job'[w].seen = seen
    BY <1>0, <2>1 DEF Job
  <2>3. JobOK(job'[w], protected', debits', provider')
    BY <2>1, <2>2 DEF JobOK, Releasing
  <2>4. \A v \in Workers \ {w} : job'[v] = job[v]
    BY <1>0, <2>1
  <2> QED
    BY <1>0, <2>3, <2>4, OneMoves
<1>7. CASE RecordAccepted(w) /\ GoTo(w, "finish") /\ debits' # debits
  <2>1. job'[w].pc = "finish" /\ job'[w].r = job[w].r /\ job'[w].seen = job[w].seen
    BY <1>0, <1>7 DEF GoTo, Job
  <2>2. debits[job[w].r] \in Nat
    BY <1>0 DEF TypeOK
  <2>3. debits'[job[w].r] > 0
    BY <1>0, <1>7, <2>2 DEF RecordAccepted, TypeOK
  <2>4. JobOK(job'[w], protected', debits', provider')
    BY <1>0, <1>7, <2>1, <2>3 DEF JobOK, RecordAccepted, Releasing
  <2>5. \A v \in Workers \ {w} : job'[v] = job[v]
    BY <1>0, <1>7 DEF GoTo
  <2> QED
    BY <1>0, <2>4, <2>5, OneMoves
<1>8. CASE RecordAccepted(w)
  <2>1. debits[job[w].r] \in Nat /\ debits \in [Raffles -> Nat]
    BY <1>0 DEF TypeOK
  <2>2. debits # [debits EXCEPT ![job[w].r] = @ + 1]
    BY <1>0, <2>1
  <2> QED
    BY <1>1, <1>7, <1>8, <2>2 DEF RecordAccepted
<1> QED
  BY <1>1, <1>3, <1>4, <1>5, <1>6, <1>8 DEF PayoutStep, AutoConfirm, PreparePayout,
     CheckPending, CheckRelease, CheckFunds, FinishPayout, CatchFailure, ReversePayable,
     RecordReversal, WriteFailed, ApplySync

\* Every step keeps what the workers rely on.
LEMMA JobInvStep ==
    ASSUME SafetyInv, Next
    PROVE  JobInv'
<1>0. [Next]_vars
  OBVIOUS
<1>1. ASSUME NEW c \in Crons, NEW r \in Raffles, StartCron(c, r) PROVE JobInv'
  <2>0. c \in Workers
    BY DEF Workers
  <2>1. CASE AutoRefundOldDispute(c, r)
    BY <1>0, <2>0, <2>1, ResolutionOK DEF AutoRefundOldDispute
  <2>2. CASE \E pc \in {"autoConfirm", "check"} : Start(c, r, pc)
    BY <1>0, <2>0, <2>2, PlainStartOK DEF Relying, Releasing
  <2> QED
    BY <1>1, <2>1, <2>2 DEF StartCron, AutoRelease, ProcessDuePayout
<1>2. ASSUME NEW w \in Workers, DeliveryStep(w) \/ DisputeStep(w) \/ Abort(w) PROVE JobInv'
  <2>1. \E pc \in {"idle", "schedule", "createDispute", "verdict", "close"} : GoTo(w, pc)
    BY <1>2 DEF DeliveryStep, DisputeStep, Abort, WriteShipped, WriteConfirmed,
       SchedulePayout, MarkDisputed, CreateDispute, WriteResponse, DisputeRefund,
       WriteResolution, CloseDispute
  <2> QED
    BY <1>0, <2>1, GoToOK DEF Relying, Releasing
<1>3. ASSUME NEW r \in Raffles, Environment(r) PROVE JobInv'
  <2>1. UNCHANGED job
    BY <1>3 DEF Environment, ProviderSettles, SevenDaysAfterDraw, ProtectionEnds, DisputeAges
  <2> QED
    BY <1>0, <2>1, JobStable DEF JobInv
<1> QED
  BY <1>1, <1>2, <1>3, NextCases, StartRequestOK, PayoutStepOK

\* Every step keeps the invariant of the rows.
LEMMA RaffleInvStep ==
    ASSUME SafetyInv, Next
    PROVE  RaffleInv'
<1> USE DEF raffleVars, disputeVars, payoutVars, moneyVars
<1>0. TypeOK /\ RaffleInv /\ [Next]_vars
  BY DEF SafetyInv
<1>1. CASE UNCHANGED <<confirmed, protected, released, accepted, provider, debits, credited>>
  BY <1>0, <1>1 DEF RaffleInv
<1>2. ASSUME NEW h \in Handlers, NEW r \in Raffles, StartRequest(h, r)
      PROVE  UNCHANGED <<confirmed, protected, released, accepted, provider, debits, credited>>
  BY <1>2 DEF StartRequest, MarkAsShipped, ConfirmDelivery, OpenDispute, RespondDispute,
         ResolveDispute, StartResolution, ProcessDuePayout, ReleasePayoutManually,
         SyncProviderPayout
<1>3. ASSUME NEW c \in Crons, NEW r \in Raffles, StartCron(c, r)
      PROVE  UNCHANGED <<confirmed, protected, released, accepted, provider, debits, credited>>
  BY <1>3 DEF StartCron, AutoRelease, AutoRefundOldDispute, StartResolution,
         ProcessDuePayout
<1>4. ASSUME NEW w \in Workers, DisputeStep(w) \/ Abort(w)
      PROVE  UNCHANGED <<confirmed, protected, released, accepted, provider, debits, credited>>
  BY <1>4 DEF DisputeStep, MarkDisputed, CreateDispute, WriteResponse, DisputeRefund,
         WriteResolution, CloseDispute, Abort
<1>5. ASSUME NEW w \in Workers, WriteConfirmed(w) \/ AutoConfirm(w) PROVE RaffleInv'
  BY <1>0, <1>5 DEF WriteConfirmed, AutoConfirm, Confirm, RaffleInv, TypeOK
<1>6. ASSUME NEW w \in Workers, DeliveryStep(w), ~WriteConfirmed(w)
      PROVE  UNCHANGED <<confirmed, protected, released, accepted, provider, debits, credited>>
  BY <1>6 DEF DeliveryStep, WriteShipped, SchedulePayout
<1>7. ASSUME NEW w \in Workers, CallProvider(w) PROVE RaffleInv'
  <2>1. protected[job[w].r] /\ job[w].r \in Raffles
    BY <1>7 DEF SafetyInv, JobInv, JobOK, CallProvider, Releasing, TypeOK, Job
  <2>2. PICK st \in ProviderStatus : /\ provider' = [provider EXCEPT ![job[w].r] = st]
                                     /\ provider[job[w].r] # "none" => st = provider[job[w].r]
    BY <1>0, <1>7, <2>1 DEF CallProvider, TypeOK
  <2>3. \A r \in Raffles : provider[r] = "completed" => provider'[r] = "completed"
    BY <1>0, Stable
  <2>4. \A r \in Raffles : provider'[r] # "none" => protected[r]
    BY <1>0, <2>1, <2>2 DEF TypeOK, RaffleInv
  <2>5. UNCHANGED <<confirmed, protected, released, accepted, debits, credited>>
    BY <1>7 DEF CallProvider
  <2> QED
    BY <1>0, <2>3, <2>4, <2>5 DEF RaffleInv
<1>8. ASSUME NEW w \in Workers, RecordAccepted(w) PROVE RaffleInv'
  <2>1. \A r \in Raffles : debits[r] > 0 => debits'[r] > 0
    BY <1>0, Stable
  <2>2. \A r \in Raffles : accepted'[r] => accepted[r] \/ debits'[r] > 0
    <3>1. \A r \in Raffles : debits[r] \in Nat
      BY <1>0 DEF TypeOK
    <3> QED
      BY <1>0, <1>8, <3>1 DEF RecordAccepted, TypeOK
  <2>3. UNCHANGED <<confirmed, protected, released, provider, credited>>
    BY <1>8 DEF RecordAccepted
  <2> QED
    BY <1>0, <2>1, <2>2, <2>3 DEF RaffleInv
<1>9. ASSUME NEW w \in Workers, FinishPayout(w) \/ CatchFailure(w) \/ ApplySync(w)
      PROVE  RaffleInv'
  <2>1. /\ job[w].r \in Raffles /\ JobOK(job[w], protected, debits, provider)
        /\ UNCHANGED <<confirmed, protected, provider, debits>>
    BY <1>9 DEF SafetyInv, JobInv, TypeOK, Job, FinishPayout, CatchFailure, ApplySync
  <2>2. \A r \in Raffles :
           released'[r] => released[r] \/ (provider[r] = "completed" /\ debits[r] > 0)
    <3> SUFFICES ASSUME NEW r \in Raffles, released'[r], ~released[r]
                 PROVE  provider[r] = "completed" /\ debits[r] > 0
      OBVIOUS
    <3>1. /\ r = job[w].r /\ job[w].seen = "completed"
          /\ job[w].pc \in {"finish", "syncResult"}
      BY <1>0, <1>9, <2>1
      DEF FinishPayout, CatchFailure, ApplySync, Complete, TypeOK
    <3>2. job[w].seen = "completed" /\ job[w].pc \in {"finish", "syncResult"}
            => provider[job[w].r] = "completed" /\ debits[job[w].r] > 0
      BY <2>1 DEF JobOK
    <3> QED
      BY <3>1, <3>2
  <2>3. \A r \in Raffles : accepted'[r] => accepted[r] \/ debits[r] > 0
    BY <1>0, <1>9, <2>1
    DEF JobOK, FinishPayout, CatchFailure, ApplySync, Complete, TypeOK
  <2>4. \A r \in Raffles : credited'[r] # credited[r] => debits[r] > 0
    <3>1. CASE FinishPayout(w)
      BY <3>1 DEF FinishPayout
    <3>2. CASE CatchFailure(w)
      BY <1>0, <2>1, <3>2 DEF CatchFailure, ReversePayable, TypeOK
    <3>3. CASE ApplySync(w)
      BY <1>0, <2>1, <3>3 DEF JobOK, ApplySync, ReversePayable, TypeOK
    <3> QED
      BY <1>9, <3>1, <3>2, <3>3
  <2> QED
    BY <1>0, <2>1, <2>2, <2>3, <2>4 DEF RaffleInv
<1>10. ASSUME NEW w \in Workers, PayoutStep(w), ~AutoConfirm(w), ~CallProvider(w),
              ~RecordAccepted(w), ~FinishPayout(w), ~CatchFailure(w), ~ApplySync(w)
       PROVE  UNCHANGED <<confirmed, protected, released, accepted, provider, debits, credited>>
  BY <1>10 DEF PayoutStep, PreparePayout, CheckPending, CheckRelease, MarkProcessing,
         CheckFunds, RecordReversal, WriteFailed
<1>11. ASSUME NEW r \in Raffles, ProviderSettles(r) PROVE RaffleInv'
  BY <1>0, <1>11 DEF ProviderSettles, RaffleInv, TypeOK
<1>12. ASSUME NEW r \in Raffles, ProtectionEnds(r) PROVE RaffleInv'
  BY <1>0, <1>12 DEF ProtectionEnds, RaffleInv, TypeOK
<1>13. ASSUME NEW r \in Raffles, Environment(r), ~ProviderSettles(r), ~ProtectionEnds(r)
       PROVE  UNCHANGED <<confirmed, protected, released, accepted, provider, debits, credited>>
  BY <1>13 DEF Environment, SevenDaysAfterDraw, DisputeAges
<1> HIDE DEF raffleVars, disputeVars, payoutVars, moneyVars
<1> QED
  BY <1>1, <1>2, <1>3, <1>4, <1>5, <1>6, <1>7, <1>8, <1>9, <1>10, <1>11, <1>12, <1>13,
     NextCases

\* The safety invariant holds initially and is kept by every step.
LEMMA SafetyInductive == Spec => []SafetyInv
<1>1. Init => SafetyInv
  <2>1. ASSUME Init PROVE RaffleInv
    BY <2>1 DEF Init, RaffleInv
  <2>2. ASSUME Init PROVE JobInv
    BY <2>2 DEF Init, JobInv, JobOK, Idle, Releasing
  <2> QED
    BY <2>1, <2>2, InitType DEF SafetyInv
<1>2. SafetyInv /\ [Next]_vars => SafetyInv'
  <2> SUFFICES ASSUME SafetyInv, [Next]_vars PROVE SafetyInv'
    OBVIOUS
  <2>1. TypeOK'
    BY NextType DEF SafetyInv
  <2>2. CASE Next
    BY <2>1, <2>2, JobInvStep, RaffleInvStep DEF SafetyInv
  <2>3. CASE UNCHANGED vars
    BY <2>1, <2>3 DEF SafetyInv, RaffleInv, JobInv, vars, raffleVars, disputeVars,
       payoutVars, moneyVars
  <2> QED
    BY <2>2, <2>3
<1> QED
  BY <1>1, <1>2, PTL DEF Spec

\* No payout is requested from Mercado Pago and no payment is released before
\* the buyer's seven days are over, for any number of overlapping requests,
\* cron runs, crashes and lost answers.
THEOREM ProtectionTheorem == Spec => []BuyerProtection
<1>1. SafetyInv => BuyerProtection
  BY DEF SafetyInv, RaffleInv, BuyerProtection
<1> QED
  BY <1>1, SafetyInductive, PTL

\* paymentReleasedAt is set only for a payout that Mercado Pago completed and
\* that was debited from the seller's payable.
THEOREM ReleaseTheorem == Spec => []ReleasedIsPaid
<1>1. SafetyInv => ReleasedIsPaid
  BY DEF SafetyInv, RaffleInv, ReleasedIsPaid
<1> QED
  BY <1>1, SafetyInductive, PTL

-----------------------------------------------------------------------------
(* Dispute refunds.  RefundsCoverTickets is inductive together with the     *)
(* types: a refund marks the tickets it covers in full, and the one cent of *)
(* tolerance when it covers all of them is less than a ticket.              *)

\* What the tickets of a winner and a refund add up to, in whole numbers.
LEMMA MarkedArithmetic ==
    ASSUME NEW t \in Nat, NEW n \in Nat, NEW amount \in Nat, NEW left \in Nat,
           n * TicketPrice <= amount, amount < n * TicketPrice + TicketPrice,
           amount <= t * TicketPrice + 1,
           left = IF n < t THEN t - n ELSE 0
    PROVE  /\ (WinnerTickets - left) * TicketPrice
                <= (WinnerTickets - t) * TicketPrice + amount
           /\ (WinnerTickets - t) * TicketPrice + amount
                <= (WinnerTickets - left) * TicketPrice + (TicketPrice - 1)
<1>0. TicketPrice \in Nat /\ TicketPrice > 1 /\ WinnerTickets \in Nat
  BY SettlementConstants
<1>1. CASE n < t
  <2>1. WinnerTickets - left = (WinnerTickets - t) + n
    BY <1>0, <1>1
  <2>2. ((WinnerTickets - t) + n) * TicketPrice
          = (WinnerTickets - t) * TicketPrice + n * TicketPrice
    BY <1>0
  <2> QED
    BY <1>0, <2>1, <2>2
<1>2. CASE n >= t
  <2>1. WinnerTickets - left = (WinnerTickets - t) + t
    BY <1>0, <1>2
  <2>2. ((WinnerTickets - t) + t) * TicketPrice
          = (WinnerTickets - t) * TicketPrice + t * TicketPrice
    BY <1>0
  <2>3. t * TicketPrice <= n * TicketPrice
    BY <1>0, <1>2
  <2> QED
    BY <1>0, <2>1, <2>2, <2>3
<1> QED
  BY <1>1, <1>2

\* One more refund leaves room for one more part of a ticket.
LEMMA OneMoreRefund ==
    ASSUME NEW k \in Nat
    PROVE  (k + 1) * (TicketPrice - 1) = k * (TicketPrice - 1) + (TicketPrice - 1)
  BY SettlementConstants

\* Of all steps only a dispute refund touches tickets and what was refunded.
LEMMA RefundFrame ==
    ASSUME Next
    PROVE  \/ UNCHANGED <<tickets, refunded, refunds>>
           \/ \E w \in Workers : DisputeRefund(w)
<1> USE DEF raffleVars, disputeVars, payoutVars, moneyVars
<1>1. ASSUME NEW h \in Handlers, NEW r \in Raffles, StartRequest(h, r)
      PROVE  UNCHANGED <<tickets, refunded, refunds>>
  BY <1>1 DEF StartRequest, MarkAsShipped, ConfirmDelivery, OpenDispute, RespondDispute,
         ResolveDispute, StartResolution, ProcessDuePayout, ReleasePayoutManually,
         SyncProviderPayout
<1>2. ASSUME NEW c \in Crons, NEW r \in Raffles, StartCron(c, r)
      PROVE  UNCHANGED <<tickets, refunded, refunds>>
  BY <1>2 DEF StartCron, AutoRelease, AutoRefundOldDispute, StartResolution,
         ProcessDuePayout
<1>3. ASSUME NEW w \in Workers, DeliveryStep(w) \/ Abort(w)
      PROVE  UNCHANGED <<tickets, refunded, refunds>>
  BY <1>3 DEF DeliveryStep, WriteShipped, WriteConfirmed, Confirm, SchedulePayout, Abort
<1>4. ASSUME NEW w \in Workers, DisputeStep(w), ~DisputeRefund(w)
      PROVE  UNCHANGED <<tickets, refunded, refunds>>
  BY <1>4 DEF DisputeStep, MarkDisputed, CreateDispute, WriteResponse,
         WriteResolution, CloseDispute
<1>5. ASSUME NEW w \in Workers, PayoutStep(w)
      PROVE  UNCHANGED <<tickets, refunded, refunds>>
  BY <1>5 DEF PayoutStep, AutoConfirm, Confirm, PreparePayout, CheckPending,
         CheckRelease, MarkProcessing, CheckFunds, CallProvider, RecordAccepted,
         FinishPayout, CatchFailure, RecordReversal, WriteFailed, ApplySync
<1>6. ASSUME NEW r \in Raffles, Environment(r)
      PROVE  UNCHANGED <<tickets, refunded, refunds>>
  BY <1>6 DEF Environment, ProviderSettles, SevenDaysAfterDraw, ProtectionEnds, DisputeAges
<1> HIDE DEF raffleVars, disputeVars, payoutVars, moneyVars
<1> QED
  BY <1>1, <1>2, <1>3, <1>4, <1>5, <1>6, NextCases

\* However often resolutions are repeated after a crash or overlap, tickets are
\* marked REEMBOLSADO only when they were paid back in full, and each refund
\* exceeds the tickets it marks by less than one ticket.
THEOREM RefundTheorem == Spec => []RefundsCoverTickets
<1>1. Init => RefundsCoverTickets
  BY SettlementConstants DEF Init, RefundsCoverTickets
<1>2. TypeOK /\ RefundsCoverTickets /\ [Next]_vars => RefundsCoverTickets'
  <2> SUFFICES ASSUME TypeOK, RefundsCoverTickets, [Next]_vars PROVE RefundsCoverTickets'
    OBVIOUS
  <2>1. CASE UNCHANGED <<tickets, refunded, refunds>>
    BY <2>1 DEF RefundsCoverTickets
  <2>2. ASSUME NEW w \in Workers, DisputeRefund(w), Refundable(job[w].r, job[w].amount)
        PROVE  RefundsCoverTickets'
    <3> DEFINE q == job[w].r  amount == job[w].amount  n == amount \div TicketPrice
               left == IF n < tickets[q] THEN tickets[q] - n ELSE 0
    <3>1. /\ q \in Raffles /\ amount \in Nat /\ tickets[q] \in 0 .. WinnerTickets
          /\ refunded[q] \in Nat /\ refunds[q] \in Nat
          /\ WinnerTickets \in Nat /\ TicketPrice \in Nat /\ TicketPrice > 1
      BY SettlementConstants DEF TypeOK, Job
    <3>2. /\ tickets' = [tickets EXCEPT ![q] = left]
          /\ refunded' = [refunded EXCEPT ![q] = @ + amount]
          /\ refunds' = [refunds EXCEPT ![q] = @ + 1]
      BY <2>2 DEF DisputeRefund
    <3>3. amount <= tickets[q] * TicketPrice + 1
      BY <2>2 DEF Refundable, Owed
    <3>4. /\ n \in Nat /\ n * TicketPrice <= amount
          /\ amount < n * TicketPrice + TicketPrice
      BY <3>1, CoveredType
    <3> HIDE DEF n
    <3>5. left \in Nat /\ left <= WinnerTickets
      BY <3>1, <3>4
    <3>6. /\ (WinnerTickets - left) * TicketPrice
               <= (WinnerTickets - tickets[q]) * TicketPrice + amount
          /\ (WinnerTickets - tickets[q]) * TicketPrice + amount
               <= (WinnerTickets - left) * TicketPrice + (TicketPrice - 1)
      BY <3>1, <3>3, <3>4, <3>5, MarkedArithmetic
    <3>7. (refunds[q] + 1) * (TicketPrice - 1)
            = refunds[q] * (TicketPrice - 1) + (TicketPrice - 1)
      BY <3>1, OneMoreRefund
    <3> HIDE DEF left
    <3>8. /\ (WinnerTickets - tickets[q]) * TicketPrice <= refunded[q]
          /\ refunded[q] <= (WinnerTickets - tickets[q]) * TicketPrice
                              + refunds[q] * (TicketPrice - 1)
      BY <3>1 DEF RefundsCoverTickets
    <3>9. /\ (WinnerTickets - left) * TicketPrice <= refunded[q] + amount
          /\ refunded[q] + amount <= (WinnerTickets - left) * TicketPrice
                                       + (refunds[q] + 1) * (TicketPrice - 1)
      <4>1. /\ (WinnerTickets - left) * TicketPrice \in Int
            /\ (WinnerTickets - tickets[q]) * TicketPrice \in Int
            /\ refunds[q] * (TicketPrice - 1) \in Int
        BY <3>1, <3>5
      <4> QED
        BY <3>1, <3>6, <3>7, <3>8, <4>1
    <3>10. ASSUME NEW r \in Raffles
           PROVE  LET marked == (WinnerTickets - tickets'[r]) * TicketPrice
                  IN  /\ marked <= refunded'[r]
                      /\ refunded'[r] <= marked + refunds'[r] * (TicketPrice - 1)
      <4>1. CASE r = q
        BY <3>1, <3>2, <3>9, <4>1 DEF TypeOK
      <4>2. CASE r # q
        BY <3>2, <4>2 DEF TypeOK, RefundsCoverTickets
      <4> QED
        BY <4>1, <4>2
    <3> QED
      BY <3>10 DEF RefundsCoverTickets
  <2>3. ASSUME NEW w \in Workers, DisputeRefund(w), ~Refundable(job[w].r, job[w].amount)
        PROVE  UNCHANGED <<tickets, refunded, refunds>>
    BY <2>3 DEF DisputeRefund
  <2>4. CASE UNCHANGED vars
    BY <2>1, <2>4 DEF vars, disputeVars
  <2> QED
    BY <2>1, <2>2, <2>3, <2>4, RefundFrame
<1> QED
  BY <1>1, <1>2, TypeCorrect, PTL DEF Spec
-----------------------------------------------------------------------------
(* Overlap.  A payout is debited by the workers that read it PENDING before *)
(* the first of them marked it.  That none comes later rests on the order   *)
(* of the whole life cycle: only the automatic confirmation makes a payout  *)
(* PENDING again, it starts on a raffle that is still SORTEADA, it never    *)
(* lasts until the protection window ends, and nothing is debited before.   *)

Pipeline  == {"release", "mark", "funds", "provider", "record"}
Paying(r) == {w \in Workers : job[w].pc \in Pipeline /\ job[w].r = r}
Untouched == {"NONE", "PENDING"}

\* A confirmed raffle has left SORTEADA, and an automatic confirmation that is
\* under way precedes the end of the protection window.
WindowInv ==
    /\ \A r \in Raffles : confirmed[r] # "no" \/ protected[r] => estado[r] # "SORTEADA"
    /\ \A w \in Workers : job[w].pc \in {"autoConfirm", "prepare"}
                            => ~protected[job[w].r]

\* A payout that was never marked has no debit, and no worker past the mark.
OnceInv ==
    /\ \A r \in Raffles : payout[r] \in Untouched => debits[r] = 0
    /\ \A r \in Raffles : debits[r] > 0 => protected[r]
    /\ \A w \in Workers : job[w].pc \in {"funds", "provider", "record"}
                            => payout[job[w].r] \notin Untouched /\ protected[job[w].r]

\* The debits made and the workers that may still make one.
CountInv ==
    /\ Cardinality(Busy) <= MaxActive
    /\ \A r \in Raffles : debits[r] + Cardinality(Paying(r)) <= MaxActive

\* The steps of one worker that continue a confirmation or a payout.
Hops == {<<"autoConfirm", "prepare">>, <<"release", "mark">>, <<"mark", "funds">>,
         <<"funds", "provider">>, <<"provider", "record">>}

\* What a step does to the worker that takes it: it starts, it goes where it
\* no longer matters, it hops on, or it enters the pipeline of a PENDING payout;
\* and only from the balance does it go on to the entry of a reversal.
Moves(w) ==
    /\ \A v \in Workers \ {w} : job'[v] = job[v]
    /\ job'[w].pc = "entry" => ReversePayable(w, job[w].r)
    /\ \/ /\ w \notin Busy /\ Cardinality(Busy) < MaxActive
          /\ job'[w].pc \notin Pipeline \cup {"prepare"}
          /\ job'[w].pc = "autoConfirm" => estado[job'[w].r] = "SORTEADA"
       \/ /\ w \in Busy /\ job'[w].pc \notin Pipeline \cup {"autoConfirm", "prepare"}
       \/ /\ w \in Busy /\ job'[w].r = job[w].r
          /\ <<job[w].pc, job'[w].pc>> \in Hops
          /\ job'[w].pc = "funds" => payout'[job[w].r] = "PROCESSING"
          /\ job'[w].pc = "record" => provider'[job[w].r] # "none"
       \/ /\ w \in Busy /\ job'[w].r = job[w].r /\ job'[w].pc = "release"
          /\ payout[job[w].r] = "PENDING"

\* A worker that goes where it no longer matters.
LEMMA LeavesMoves ==
    ASSUME TypeOK, NEW w \in Workers, w \in Busy, NEW pc,
           pc \notin Pipeline \cup {"autoConfirm", "prepare"}, GoTo(w, pc),
           pc = "entry" => ReversePayable(w, job[w].r)
    PROVE  Moves(w)
<1>1. job'[w].pc \notin Pipeline \cup {"autoConfirm", "prepare"}
  BY DEF GoTo, Idle, TypeOK, Job, Pipeline
<1>2. \A v \in Workers \ {w} : job'[v] = job[v]
  BY DEF GoTo, TypeOK
<1>3. job'[w].pc \in {pc, "idle"}
  BY DEF GoTo, Idle, TypeOK, Job
<1> QED
  BY <1>1, <1>2, <1>3 DEF Moves

\* A worker that hops on.
LEMMA HopMoves ==
    ASSUME TypeOK, NEW w \in Workers, NEW pc, <<job[w].pc, pc>> \in Hops, GoTo(w, pc),
           pc = "funds" => payout'[job[w].r] = "PROCESSING", pc # "record"
    PROVE  Moves(w)
<1>1. pc # "idle" /\ job[w].pc # "idle"
  BY DEF Hops
<1>2. job'[w].pc = pc /\ job'[w].r = job[w].r
  BY <1>1 DEF GoTo, TypeOK, Job
<1>3. \A v \in Workers \ {w} : job'[v] = job[v]
  BY DEF GoTo, TypeOK
<1>4. w \in Busy
  BY <1>1 DEF Busy
<1>5. pc # "entry"
  BY DEF Hops
<1> QED
  BY <1>2, <1>3, <1>4, <1>5 DEF Moves

\* A worker that starts.
LEMMA StartMoves ==
    ASSUME TypeOK, NEW w \in Workers, NEW j, StartWith(w, j),
           j.pc \notin Pipeline \cup {"prepare", "entry"},
           j.pc = "autoConfirm" => estado[j.r] = "SORTEADA"
    PROVE  Moves(w)
  BY DEF StartWith, Moves, TypeOK

\* A request or cron run that starts plainly.
LEMMA PlainStartMoves ==
    ASSUME TypeOK, NEW w \in Workers, NEW r \in Raffles, NEW pc, Start(w, r, pc),
           pc \notin Pipeline \cup {"prepare", "entry"},
           pc = "autoConfirm" => estado[r] = "SORTEADA"
    PROVE  Moves(w)
<1> DEFINE j == [Idle EXCEPT !.pc = pc, !.r = r]
<1>1. j.pc = pc /\ j.r = r /\ StartWith(w, j)
  BY DEF Idle, Start
<1> HIDE DEF j
<1> QED
  BY <1>1, StartMoves

\* A resolution that starts.
LEMMA ResolutionMoves ==
    ASSUME TypeOK, NEW w \in Workers, NEW r \in Raffles, NEW decision, NEW amount,
           StartResolution(w, r, decision, amount)
    PROVE  Moves(w)
<1> DEFINE j == [Idle EXCEPT !.pc = IF amount > 0 THEN "refund" ELSE "verdict", !.r = r,
                             !.decision = decision, !.amount = amount]
<1>1. j.pc \in {"refund", "verdict"} /\ StartWith(w, j)
  BY DEF Idle, StartResolution
<1> HIDE DEF j
<1> QED
  BY <1>1, StartMoves DEF Pipeline

\* Every step moves one worker in one of these ways, or none.
LEMMA EveryStepMoves ==
    ASSUME TypeOK, Next
    PROVE  UNCHANGED job \/ \E w \in Workers : Moves(w)
<1>1. ASSUME NEW h \in Handlers, NEW r \in Raffles, StartRequest(h, r)
      PROVE  Moves(h)
  <2>0. h \in Workers
    BY DEF Workers
  <2>1. CASE \E pc \in {"ship", "confirm", "markDisputed", "respond", "check"} :
               Start(h, r, pc)
    BY <2>0, <2>1, PlainStartMoves DEF Pipeline
  <2>2. CASE ResolveDispute(h, r)
    BY <2>0, <2>2, ResolutionMoves DEF ResolveDispute
  <2>3. CASE SyncProviderPayout(h, r)
    <3> DEFINE j == [Idle EXCEPT !.pc = "syncResult", !.r = r, !.seen = provider[r]]
    <3>1. j.pc = "syncResult" /\ StartWith(h, j)
      BY <2>3 DEF Idle, SyncProviderPayout
    <3> HIDE DEF j
    <3> QED
      BY <2>0, <3>1, StartMoves DEF Pipeline
  <2> QED
    BY <1>1, <2>1, <2>2, <2>3 DEF StartRequest, MarkAsShipped, ConfirmDelivery,
       OpenDispute, RespondDispute, ProcessDuePayout, ReleasePayoutManually
<1>2. ASSUME NEW c \in Crons, NEW r \in Raffles, StartCron(c, r) PROVE Moves(c)
  <2>0. c \in Workers
    BY DEF Workers
  <2>1. CASE AutoRefundOldDispute(c, r)
    BY <2>0, <2>1, ResolutionMoves DEF AutoRefundOldDispute
  <2>2. CASE AutoRelease(c, r)
    BY <2>0, <2>2, PlainStartMoves DEF AutoRelease, Pipeline
  <2>3. CASE ProcessDuePayout(c, r)
    BY <2>0, <2>3, PlainStartMoves DEF ProcessDuePayout, Pipeline
  <2> QED
    BY <1>2, <2>1, <2>2, <2>3 DEF StartCron
<1>3. ASSUME NEW w \in Workers, w \in Busy,
             \E pc \in {"idle", "schedule", "createDispute", "verdict", "close", "check",
                        "finish", "catch", "fail"} : GoTo(w, pc)
      PROVE  Moves(w)
  BY <1>3, LeavesMoves DEF Pipeline
<1>4. ASSUME NEW w \in Workers, DeliveryStep(w) \/ DisputeStep(w) \/ Abort(w)
      PROVE  Moves(w)
  <2>1. w \in Busy
    BY <1>4 DEF Busy, DeliveryStep, DisputeStep, Abort, WriteShipped, WriteConfirmed,
       SchedulePayout, MarkDisputed, CreateDispute, WriteResponse, DisputeRefund,
       WriteResolution, CloseDispute
  <2>2. \E pc \in {"idle", "schedule", "createDispute", "verdict", "close"} : GoTo(w, pc)
    BY <1>4 DEF DeliveryStep, DisputeStep, Abort, WriteShipped, WriteConfirmed,
       SchedulePayout, MarkDisputed, CreateDispute, WriteResponse, DisputeRefund,
       WriteResolution, CloseDispute
  <2> QED
    BY <1>3, <2>1, <2>2
<1>5. ASSUME NEW w \in Workers, PayoutStep(w) PROVE Moves(w)
  <2>0. w \in Busy
    BY <1>5 DEF Busy, PayoutStep, AutoConfirm, PreparePayout, CheckPending, CheckRelease,
       MarkProcessing, CheckFunds, CallProvider, RecordAccepted, FinishPayout,
       CatchFailure, RecordReversal, WriteFailed, ApplySync
  <2>1. CASE \E pc \in {"idle", "check", "finish", "catch", "fail"} : GoTo(w, pc)
    BY <1>3, <2>0, <2>1
  <2>2. CASE AutoConfirm(w)
    BY <2>2, HopMoves DEF AutoConfirm, Hops
  <2>3. CASE CheckPending(w) /\ GoTo(w, "release") /\ payout[job[w].r] = "PENDING"
    <3>1. job'[w].pc = "release" /\ job'[w].r = job[w].r
      BY <2>3 DEF GoTo, TypeOK, Job
    <3>2. \A v \in Workers \ {w} : job'[v] = job[v]
      BY <2>3 DEF GoTo, TypeOK
    <3> QED
      BY <2>0, <2>3, <3>1, <3>2 DEF Moves
  <2>4. CASE CheckRelease(w) /\ GoTo(w, "mark")
    BY <2>4, HopMoves DEF CheckRelease, Hops
  <2>5. CASE MarkProcessing(w)
    <3>1. payout'[job[w].r] = "PROCESSING"
      BY <2>5 DEF MarkProcessing, TypeOK, Job
    <3> QED
      BY <2>5, <3>1, HopMoves DEF MarkProcessing, Hops
  <2>6. CASE CheckFunds(w) /\ GoTo(w, "provider")
    BY <2>6, HopMoves DEF CheckFunds, Hops
  <2>7. CASE CallProvider(w)
    <3>1. PICK seen \in {provider'[job[w].r], "none"} :
            job' = [job EXCEPT ![w] = [@ EXCEPT !.seen = seen,
                      !.pc = IF seen \in {"processing", "completed"} THEN "record"
                             ELSE "catch"]]
      BY <2>7 DEF CallProvider
    <3>2. /\ job'[w].pc \in {"record", "catch"} /\ job'[w].r = job[w].r
          /\ job[w].pc = "provider"
          /\ job'[w].pc = "record" => provider'[job[w].r] # "none"
          /\ \A v \in Workers \ {w} : job'[v] = job[v]
      BY <2>7, <3>1 DEF TypeOK, Job, CallProvider
    <3> QED
      BY <2>0, <3>2 DEF Moves, Hops, Pipeline
  <2>8. CASE ReversePayable(w, job[w].r)
    BY <2>0, <2>8, LeavesMoves DEF ReversePayable, Pipeline
  <2> QED
    BY <1>5, <2>1, <2>2, <2>3, <2>4, <2>5, <2>6, <2>7, <2>8
    DEF PayoutStep, PreparePayout, CheckPending, CheckRelease, CheckFunds,
        RecordAccepted, FinishPayout, CatchFailure, RecordReversal, WriteFailed, ApplySync
<1>6. ASSUME NEW r \in Raffles, Environment(r) PROVE UNCHANGED job
  BY <1>6 DEF Environment, ProviderSettles, SevenDaysAfterDraw, ProtectionEnds, DisputeAges
<1> QED
  BY <1>1, <1>2, <1>4, <1>5, <1>6, NextCases DEF Workers

\* The raffle only moves away from SORTEADA, a confirmation takes it away, and
\* only a confirmed raffle gets to the end of its window.
LEMMA LeavesSorteada ==
    ASSUME TypeOK, [Next]_vars, NEW r \in Raffles
    PROVE  /\ estado'[r] = "SORTEADA" => estado[r] = "SORTEADA"
           /\ confirmed'[r] # "no" => confirmed[r] # "no" \/ estado'[r] # "SORTEADA"
           /\ protected'[r] => protected[r] \/ confirmed[r] # "no"
<1> USE DEF raffleVars, disputeVars, payoutVars, moneyVars
<1>1. CASE UNCHANGED <<estado, confirmed, protected>>
  BY <1>1
<1>2. ASSUME NEW h \in Handlers, NEW q \in Raffles, StartRequest(h, q)
      PROVE  UNCHANGED <<estado, confirmed, protected>>
  BY <1>2 DEF StartRequest, MarkAsShipped, ConfirmDelivery, OpenDispute, RespondDispute,
         ResolveDispute, StartResolution, ProcessDuePayout, ReleasePayoutManually,
         SyncProviderPayout
<1>3. ASSUME NEW c \in Crons, NEW q \in Raffles, StartCron(c, q)
      PROVE  UNCHANGED <<estado, confirmed, protected>>
  BY <1>3 DEF StartCron, AutoRelease, AutoRefundOldDispute, StartResolution,
         ProcessDuePayout
<1>4. ASSUME NEW st \in Estados \ {"SORTEADA"}, NEW q \in Raffles,
             estado' = [estado EXCEPT ![q] = st], UNCHANGED <<confirmed, protected>>
      PROVE  /\ estado'[r] = "SORTEADA" => estado[r] = "SORTEADA"
             /\ confirmed'[r] # "no" => confirmed[r] # "no"
             /\ protected'[r] => protected[r]
  BY <1>4 DEF TypeOK
<1>5. ASSUME NEW w \in Workers, WriteConfirmed(w) \/ AutoConfirm(w)
      PROVE  /\ estado'[r] = "SORTEADA" => estado[r] = "SORTEADA"
             /\ confirmed'[r] # "no" => confirmed[r] # "no" \/ estado'[r] # "SORTEADA"
             /\ protected'[r] => protected[r]
  BY <1>5 DEF WriteConfirmed, AutoConfirm, Confirm, TypeOK, Job
<1>6. ASSUME NEW w \in Workers, DeliveryStep(w) \/ DisputeStep(w) \/ PayoutStep(w),
             ~WriteConfirmed(w), ~AutoConfirm(w)
      PROVE  \/ UNCHANGED <<estado, confirmed, protected>>
             \/ /\ \E st \in Estados \ {"SORTEADA"}, q \in Raffles :
                     estado' = [estado EXCEPT ![q] = st]
                /\ UNCHANGED <<confirmed, protected>>
  <2>1. job[w].r \in Raffles
    BY DEF TypeOK, Job
  <2>2. {"EN_ENTREGA", "FINALIZADA"} \subseteq Estados \ {"SORTEADA"}
    BY DEF Estados
  <2>3. CASE WriteShipped(w) \/ CloseDispute(w) \/ FinishPayout(w) \/ ApplySync(w)
    BY <2>1, <2>2, <2>3 DEF WriteShipped, CloseDispute, FinishPayout, ApplySync, Complete
  <2> QED
    BY <1>6, <2>3 DEF DeliveryStep, DisputeStep, PayoutStep, SchedulePayout,
       MarkDisputed, CreateDispute, WriteResponse, DisputeRefund, WriteResolution,
       PreparePayout, CheckPending, CheckRelease, MarkProcessing, CheckFunds,
       CallProvider, RecordAccepted, CatchFailure, RecordReversal, WriteFailed
<1>7. ASSUME NEW w \in Workers, Abort(w) PROVE UNCHANGED <<estado, confirmed, protected>>
  BY <1>7 DEF Abort
<1>8. ASSUME NEW q \in Raffles, ProtectionEnds(q)
      PROVE  /\ UNCHANGED estado
             /\ confirmed'[r] # "no" => confirmed[r] # "no"
             /\ protected'[r] => protected[r] \/ confirmed[r] # "no"
  BY <1>8 DEF ProtectionEnds, TypeOK
<1>9. ASSUME NEW q \in Raffles, Environment(q), ~ProtectionEnds(q)
      PROVE  UNCHANGED <<estado, confirmed, protected>>
  BY <1>9 DEF Environment, ProviderSettles, SevenDaysAfterDraw, DisputeAges
<1>10. CASE UNCHANGED vars
  BY <1>10 DEF vars
<1> HIDE DEF raffleVars, disputeVars, payoutVars, moneyVars
<1> QED
  BY <1>1, <1>2, <1>3, <1>4, <1>5, <1>6, <1>7, <1>8, <1>9, <1>10, NextCases

\* Every step keeps confirmations clear of the end of the window.
LEMMA WindowStep ==
    ASSUME TypeOK, WindowInv, Next
    PROVE  WindowInv'
<1>0. [Next]_vars
  OBVIOUS
<1>1. \A r \in Raffles : confirmed'[r] # "no" \/ protected'[r] => estado'[r] # "SORTEADA"
  BY <1>0, LeavesSorteada DEF WindowInv
<1>2. ASSUME NEW w \in Workers, job'[w].pc \in {"autoConfirm", "prepare"}
      PROVE  ~protected'[job'[w].r]
  <2>0. job[w] \in Job
    BY DEF TypeOK
  <2>1. CASE \E r \in Raffles : ProtectionEnds(r)
    <3>1. UNCHANGED job /\ Quiet
      BY <2>1 DEF ProtectionEnds
    <3> QED
      BY <1>2, <3>1 DEF Quiet
  <2>2. CASE UNCHANGED protected
    <3>1. CASE job'[w] = job[w]
      BY <1>2, <2>2, <3>1 DEF WindowInv
    <3>2. CASE Moves(w)
      <4>1. CASE <<job[w].pc, job'[w].pc>> \in Hops /\ job'[w].r = job[w].r
        BY <1>2, <2>2, <4>1 DEF Hops, WindowInv
      <4>2. CASE job'[w].pc = "autoConfirm" /\ estado[job'[w].r] = "SORTEADA"
        <5>1. job'[w].r \in Raffles
          BY NextType DEF TypeOK, Job
        <5> QED
          BY <2>2, <4>2, <5>1 DEF WindowInv
      <4> QED
        BY <1>2, <3>2, <4>1, <4>2 DEF Moves, Pipeline
    <3>3. job'[w] = job[w] \/ Moves(w)
      BY EveryStepMoves DEF Moves
    <3> QED
      BY <3>1, <3>2, <3>3
  <2>3. \/ UNCHANGED protected
        \/ \E r \in Raffles : ProtectionEnds(r)
    <3>1. ASSUME NEW v \in Workers, CallProvider(v) \/ RecordAccepted(v)
          PROVE  UNCHANGED protected
      BY <3>1 DEF CallProvider, RecordAccepted, raffleVars
    <3>2. ASSUME NEW r \in Raffles, ProviderSettles(r) PROVE UNCHANGED protected
      BY <3>2 DEF ProviderSettles, raffleVars
    <3> QED
      BY <3>1, <3>2, Frame
  <2> QED
    BY <2>1, <2>2, <2>3
<1> QED
  BY <1>1, <1>2 DEF WindowInv

\* A payout becomes untouched again only while its window is still open.
LEMMA Reopens ==
    ASSUME TypeOK, WindowInv, Next, NEW r \in Raffles, payout'[r] \in Untouched
    PROVE  payout[r] \in Untouched \/ ~protected[r]
<1> USE DEF raffleVars, disputeVars, payoutVars, moneyVars
<1>1. ASSUME NEW w \in Workers, PreparePayout(w)
      PROVE  payout[r] \in Untouched \/ ~protected[r]
  <2>1. ~protected[job[w].r]
    BY <1>1 DEF PreparePayout, WindowInv
  <2> QED
    BY <1>1, <2>1 DEF PreparePayout, TypeOK
<1>2. ASSUME NEW w \in Workers, SchedulePayout(w) PROVE payout[r] \in Untouched
  BY <1>2 DEF SchedulePayout, TypeOK, Untouched
<1>3. ASSUME NEW w \in Workers,
             \/ MarkProcessing(w) \/ FinishPayout(w) \/ WriteFailed(w) \/ ApplySync(w)
      PROVE  payout[r] \in Untouched
  BY <1>3 DEF MarkProcessing, FinishPayout, WriteFailed, ApplySync, Complete, TypeOK,
              Untouched
<1>4. CASE UNCHANGED payout
  BY <1>4
<1>5. ASSUME NEW h \in Handlers, NEW q \in Raffles, StartRequest(h, q)
      PROVE  UNCHANGED payout
  BY <1>5 DEF StartRequest, MarkAsShipped, ConfirmDelivery, OpenDispute, RespondDispute,
         ResolveDispute, StartResolution, ProcessDuePayout, ReleasePayoutManually,
         SyncProviderPayout
<1>6. ASSUME NEW c \in Crons, NEW q \in Raffles, StartCron(c, q) PROVE UNCHANGED payout
  BY <1>6 DEF StartCron, AutoRelease, AutoRefundOldDispute, StartResolution,
         ProcessDuePayout
<1>7. ASSUME NEW w \in Workers, DeliveryStep(w) \/ DisputeStep(w) \/ Abort(w),
             ~SchedulePayout(w)
      PROVE  UNCHANGED payout
  BY <1>7 DEF DeliveryStep, DisputeStep, Abort, WriteShipped, WriteConfirmed, Confirm,
         MarkDisputed, CreateDispute, WriteResponse, DisputeRefund, WriteResolution,
         CloseDispute
<1>8. ASSUME NEW w \in Workers, PayoutStep(w), ~PreparePayout(w), ~MarkProcessing(w),
             ~FinishPayout(w), ~WriteFailed(w), ~ApplySync(w)
      PROVE  UNCHANGED payout
  BY <1>8 DEF PayoutStep, AutoConfirm, Confirm, CheckPending, CheckRelease, CheckFunds,
         CallProvider, RecordAccepted, CatchFailure, RecordReversal
<1>9. ASSUME NEW q \in Raffles, Environment(q) PROVE UNCHANGED payout
  BY <1>9 DEF Environment, ProviderSettles, SevenDaysAfterDraw, ProtectionEnds, DisputeAges
<1> HIDE DEF raffleVars, disputeVars, payoutVars, moneyVars
<1> QED
  BY <1>1, <1>2, <1>3, <1>4, <1>5, <1>6, <1>7, <1>8, <1>9, NextCases

\* The ledger gains a debit only in the step that records an accepted payout.
LEMMA DebitChange ==
    ASSUME TypeOK, Next
    PROVE  \/ UNCHANGED debits
           \/ \E w \in Workers :
                /\ job[w].pc = "record" /\ GoTo(w, "finish")
                /\ debits' = [debits EXCEPT ![job[w].r] = @ + 1]
                /\ UNCHANGED payout
<1>1. ASSUME NEW w \in Workers, CallProvider(w) PROVE UNCHANGED debits
  BY <1>1 DEF CallProvider, moneyVars
<1>2. ASSUME NEW r \in Raffles, ProviderSettles(r) \/ ProtectionEnds(r)
      PROVE  UNCHANGED debits
  BY <1>2 DEF ProviderSettles, ProtectionEnds, moneyVars
<1>3. ASSUME NEW w \in Workers, RecordAccepted(w)
      PROVE  \/ UNCHANGED debits
             \/ /\ job[w].pc = "record" /\ GoTo(w, "finish")
                /\ debits' = [debits EXCEPT ![job[w].r] = @ + 1]
                /\ UNCHANGED payout
  BY <1>3 DEF RecordAccepted
<1> QED
  BY <1>1, <1>2, <1>3, Frame

\* Every step keeps untouched payouts without debits.
LEMMA OnceStep ==
    ASSUME SafetyInv, WindowInv, OnceInv, Next
    PROVE  OnceInv'
<1>0. TypeOK /\ [Next]_vars
  BY DEF SafetyInv
<1>1. \A r \in Raffles : protected[r] => protected'[r]
  BY <1>0, Stable
<1>2. \A r \in Raffles : payout'[r] \in Untouched => debits[r] = 0
  <2>1. \A r \in Raffles : ~protected[r] => debits[r] = 0
    BY <1>0 DEF OnceInv, TypeOK
  <2> QED
    BY <1>0, <2>1, Reopens DEF OnceInv
<1>3. ASSUME NEW r \in Raffles, debits'[r] # debits[r]
      PROVE  payout'[r] \notin Untouched /\ protected[r]
  <2>1. PICK w \in Workers : /\ job[w].pc = "record" /\ UNCHANGED payout
                             /\ debits' = [debits EXCEPT ![job[w].r] = @ + 1]
    BY <1>0, <1>3, DebitChange
  <2>2. r = job[w].r
    BY <1>0, <1>3, <2>1 DEF TypeOK
  <2> QED
    BY <2>1, <2>2 DEF OnceInv
<1>4. ASSUME NEW w \in Workers, job'[w].pc \in {"funds", "provider", "record"}
      PROVE  payout'[job'[w].r] \notin Untouched /\ protected'[job'[w].r]
  <2>0. job[w] \in Job /\ job[w].r \in Raffles
    BY <1>0 DEF TypeOK, Job
  <2>1. ASSUME job[w].pc \in {"funds", "provider", "record"}
        PROVE  payout'[job[w].r] \notin Untouched /\ protected'[job[w].r]
    <3>1. payout[job[w].r] \notin Untouched /\ protected[job[w].r]
      BY <2>1 DEF OnceInv
    <3> QED
      BY <1>0, <1>1, <2>0, <3>1, Reopens
  <2>2. CASE job'[w] = job[w]
    BY <1>4, <2>1, <2>2
  <2>3. CASE Moves(w)
    <3>1. <<job[w].pc, job'[w].pc>> \in Hops /\ job'[w].r = job[w].r
      BY <1>4, <2>3 DEF Moves, Pipeline
    <3>2. CASE job'[w].pc = "funds"
      <4>1. payout'[job[w].r] = "PROCESSING"
        BY <2>3, <3>2 DEF Moves, Pipeline
      <4>2. protected[job[w].r]
        <5>1. job[w].pc = "mark"
          BY <3>1, <3>2 DEF Hops
        <5> QED
          BY <5>1 DEF SafetyInv, JobInv, JobOK, Releasing
      <4> QED
        BY <1>1, <2>0, <3>1, <4>1, <4>2 DEF Untouched
    <3>3. CASE job'[w].pc # "funds"
      <4>1. job[w].pc \in {"funds", "provider"}
        BY <1>4, <3>1, <3>3 DEF Hops
      <4> QED
        BY <2>1, <3>1, <4>1
    <3> QED
      BY <3>2, <3>3
  <2>4. job'[w] = job[w] \/ Moves(w)
    BY <1>0, EveryStepMoves DEF Moves
  <2> QED
    BY <2>2, <2>3, <2>4
<1> QED
  BY <1>1, <1>2, <1>3, <1>4 DEF OnceInv

\* The workers, and so those that may debit a payout, can be counted.
LEMMA WorkersFinite ==
    ASSUME NEW S, S \subseteq Workers
    PROVE  IsFiniteSet(S) /\ Cardinality(S) \in Nat
  BY SettlementConstants, FS_Subset, FS_CardinalityType

\* A smaller set of workers counts less.
LEMMA FewerWorkers ==
    ASSUME NEW S, S \subseteq Workers, NEW T, T \subseteq S
    PROVE  Cardinality(T) <= Cardinality(S)
  BY SettlementConstants, FS_Subset

\* Every step keeps the debits, and the workers that may still debit, counted.
LEMMA CountStep ==
    ASSUME SafetyInv, OnceInv, CountInv, Next
    PROVE  CountInv'
<1>0. TypeOK /\ TypeOK' /\ [Next]_vars
  BY NextType DEF SafetyInv
<1>a. MaxActive \in Nat /\ \A r \in Raffles : debits[r] \in Nat
  BY <1>0, SettlementConstants DEF TypeOK
<1>b. /\ Busy \subseteq Workers /\ Busy' \subseteq Workers
      /\ \A r : Paying(r) \subseteq Busy /\ Paying(r)' \subseteq Busy'
  BY DEF Busy, Paying, Pipeline
<1>c. \A r : Paying(r) \subseteq Workers /\ Paying(r)' \subseteq Workers
  BY <1>b
<1>1. Cardinality(Busy') <= MaxActive
  <2>1. CASE Busy' \subseteq Busy
    BY <1>a, <1>b, <2>1, FewerWorkers, WorkersFinite DEF CountInv
  <2>2. ASSUME NEW w \in Workers, Cardinality(Busy) < MaxActive,
               \A v \in Workers \ {w} : job'[v] = job[v]
        PROVE  Cardinality(Busy') <= MaxActive
    <3>1. Busy' \subseteq Busy \cup {w}
      BY <2>2 DEF Busy
    <3>2. IsFiniteSet(Busy) /\ Cardinality(Busy) \in Nat
      BY <1>b, WorkersFinite
    <3>3. Cardinality(Busy \cup {w}) <= Cardinality(Busy) + 1
      <4>1. \/ Cardinality(Busy \cup {w}) = Cardinality(Busy)
            \/ Cardinality(Busy \cup {w}) = Cardinality(Busy) + 1
        BY <3>2, FS_AddElement
      <4> QED
        BY <3>2, <4>1
    <3>4. Busy \cup {w} \subseteq Workers
      BY <1>b
    <3>5. Cardinality(Busy') <= Cardinality(Busy \cup {w})
      BY <3>1, <3>4, FewerWorkers
    <3>6. Cardinality(Busy') \in Nat /\ Cardinality(Busy \cup {w}) \in Nat
      BY <1>b, <3>4, WorkersFinite
    <3> QED
      BY <1>a, <2>2, <3>2, <3>3, <3>5, <3>6
  <2>3. ASSUME NEW w \in Workers, Moves(w), w \in Busy PROVE Busy' \subseteq Busy
    BY <2>3 DEF Moves, Busy
  <2>4. CASE UNCHANGED job
    BY <2>1, <2>4 DEF Busy
  <2>5. ASSUME NEW w \in Workers, Moves(w) PROVE Cardinality(Busy') <= MaxActive
    BY <2>1, <2>2, <2>3, <2>5 DEF Moves
  <2> QED
    BY <1>0, <2>4, <2>5, EveryStepMoves
<1>2. ASSUME NEW r \in Raffles
      PROVE  debits'[r] + Cardinality(Paying(r)') <= MaxActive
  <2>0. /\ Cardinality(Paying(r)) \in Nat /\ Cardinality(Paying(r)') \in Nat
        /\ IsFiniteSet(Paying(r))
        /\ debits[r] + Cardinality(Paying(r)) <= MaxActive
    BY <1>c, WorkersFinite DEF CountInv
  <2>1. CASE debits'[r] = debits[r] /\ Paying(r)' \subseteq Paying(r)
    <3>1. Cardinality(Paying(r)') <= Cardinality(Paying(r))
      BY <1>c, <2>1, FewerWorkers
    <3> QED
      BY <1>a, <2>0, <2>1, <3>1
  <2>2. CASE debits'[r] = debits[r] /\ debits[r] = 0
    <3>1. Cardinality(Paying(r)') <= Cardinality(Busy')
      BY <1>b, FewerWorkers
    <3>2. Cardinality(Busy') \in Nat
      BY <1>b, WorkersFinite
    <3> QED
      BY <1>1, <1>a, <2>0, <2>2, <3>1, <3>2
  <2>3. ASSUME NEW w \in Workers, job[w].pc = "record", GoTo(w, "finish"),
               debits' = [debits EXCEPT ![job[w].r] = @ + 1]
        PROVE  debits'[r] + Cardinality(Paying(r)') <= MaxActive
    <3>1. /\ job'[w].pc = "finish" /\ job'[w].r = job[w].r
          /\ \A v \in Workers \ {w} : job'[v] = job[v]
      BY <1>0, <2>3 DEF GoTo, TypeOK, Job
    <3>2. CASE r = job[w].r
      <4>1. Paying(r)' = Paying(r) \ {w} /\ w \in Paying(r)
        BY <2>3, <3>1, <3>2 DEF Paying, Pipeline
      <4>2. Cardinality(Paying(r)') = Cardinality(Paying(r)) - 1
        BY <2>0, <4>1, FS_RemoveElement
      <4>3. debits'[r] = debits[r] + 1
        BY <1>0, <2>3, <3>2 DEF TypeOK
      <4> QED
        BY <1>a, <2>0, <4>2, <4>3
    <3>3. CASE r # job[w].r
      <4>1. Paying(r)' \subseteq Paying(r)
        BY <3>1, <3>3 DEF Paying
      <4>2. debits'[r] = debits[r]
        BY <1>0, <2>3, <3>3 DEF TypeOK
      <4> QED
        BY <2>1, <4>1, <4>2
    <3> QED
      BY <3>2, <3>3
  <2>4. CASE UNCHANGED debits
    <3>1. CASE UNCHANGED job
      BY <2>1, <2>4, <3>1 DEF Paying
    <3>2. ASSUME NEW w \in Workers, Moves(w)
          PROVE  Paying(r)' \subseteq Paying(r) \/ debits[r] = 0
      <4>0. \A v \in Workers \ {w} : job'[v] = job[v]
        BY <3>2 DEF Moves
      <4>1. CASE job'[w].pc \notin Pipeline
        BY <4>0, <4>1 DEF Paying
      <4>2. CASE job'[w].r = job[w].r /\ <<job[w].pc, job'[w].pc>> \in Hops
        BY <4>0, <4>2 DEF Paying, Hops, Pipeline
      <4>3. CASE job'[w].r = job[w].r /\ payout[job[w].r] = "PENDING"
        <5>1. CASE r = job[w].r
          BY <4>3, <5>1 DEF OnceInv, Untouched
        <5>2. CASE r # job[w].r
          BY <4>0, <4>3, <5>2 DEF Paying
        <5> QED
          BY <5>1, <5>2
      <4> QED
        BY <3>2, <4>1, <4>2, <4>3 DEF Moves
    <3> QED
      BY <1>0, <2>1, <2>2, <2>4, <3>1, <3>2, EveryStepMoves
  <2> QED
    BY <1>0, <2>3, <2>4, DebitChange
<1> QED
  BY <1>1, <1>2 DEF CountInv

\* The overlap invariant holds initially and is kept by every step.
LEMMA CountInductive == Spec => [](SafetyInv /\ WindowInv /\ OnceInv /\ CountInv)
<1>1. Init => WindowInv /\ OnceInv /\ CountInv
  <2> SUFFICES ASSUME Init PROVE WindowInv /\ OnceInv /\ CountInv
    OBVIOUS
  <2>1. \A w \in Workers : job[w].pc = "idle"
    BY DEF Init, Idle
  <2>2. WindowInv /\ OnceInv
    BY <2>1 DEF Init, WindowInv, OnceInv
  <2>3. Busy = {} /\ \A r : Paying(r) = {}
    BY <2>1 DEF Busy, Paying, Pipeline
  <2>4. \A r \in Raffles : debits[r] = 0
    BY DEF Init
  <2>5. Cardinality({}) = 0 /\ MaxActive \in Nat
    BY FS_EmptySet, SettlementConstants
  <2> QED
    BY <2>2, <2>3, <2>4, <2>5 DEF CountInv
<1>2. SafetyInv /\ WindowInv /\ OnceInv /\ CountInv /\ [Next]_vars
        => WindowInv' /\ OnceInv' /\ CountInv'
  <2> SUFFICES ASSUME SafetyInv, WindowInv, OnceInv, CountInv, [Next]_vars
               PROVE  WindowInv' /\ OnceInv' /\ CountInv'
    OBVIOUS
  <2>1. CASE Next
    BY <2>1, WindowStep, OnceStep, CountStep DEF SafetyInv
  <2>2. CASE UNCHANGED vars
    BY <2>2 DEF vars, raffleVars, payoutVars, moneyVars, WindowInv, OnceInv, CountInv,
                Busy, Paying
  <2> QED
    BY <2>1, <2>2
<1> QED
  BY <1>1, <1>2, SafetyInductive, PTL DEF Spec

\* A payout is debited at most as often as workers run at the same time, over
\* its whole life: failures, repeated releases, automatic confirmations and
\* synchronisations never open it to a later worker.
THEOREM DebitTheorem == Spec => []DebitsBoundedByOverlap
<1>1. SafetyInv /\ CountInv => DebitsBoundedByOverlap
  <2> SUFFICES ASSUME SafetyInv, CountInv, NEW r \in Raffles PROVE debits[r] <= MaxActive
    BY DEF DebitsBoundedByOverlap
  <2>1. Paying(r) \subseteq Workers
    BY DEF Paying
  <2>2. Cardinality(Paying(r)) \in Nat /\ debits[r] \in Nat /\ MaxActive \in Nat
    BY <2>1, WorkersFinite, SettlementConstants DEF SafetyInv, TypeOK
  <2> QED
    BY <2>2 DEF CountInv
<1> QED
  BY <1>1, CountInductive, PTL

-----------------------------------------------------------------------------
(* Orders move on.  While nothing dies, every order whose payout was not    *)
(* tried yet is in a state that a page or the cron takes further.  The      *)
(* workers on an order matter by the write they are about to make.          *)

Someone(r, pcs) == \E w \in Workers : job[w].r = r /\ job[w].pc \in pcs

\* The steps of a resolution.
Deciding == {"refund", "verdict", "close"}

\* How the delivery, the dispute, the confirmation and the payout of an order
\* keep together, whatever was written late: a delivery in dispute has its
\* dispute or a worker about to create it, a confirmed order has a date for its
\* payout or a worker about to set it.
Track(r) ==
    /\ delivery[r] = "PENDING" => estado[r] # "EN_ENTREGA"
    /\ delivery[r] = "DISPUTED" /\ dispute[r] = "NONE" => Someone(r, {"createDispute"})
    /\ delivery[r] = "CONFIRMED" => estado[r] = "FINALIZADA" \/ confirmed[r] # "no"
    /\ confirmed[r] # "no" /\ payout[r] \in Untouched
         => \/ Someone(r, {"schedule", "prepare"})
            \/ /\ payout[r] = "PENDING" /\ scheduled[r] \in {"later", "due"}
               /\ confirmed[r] = "old" => scheduled[r] = "due"
    /\ Someone(r, {"schedule"}) => confirmed[r] = "recent"
    /\ Someone(r, Deciding) => dispute[r] # "NONE"

TrackInv == \A r \in Raffles : Track(r)

\* With two workers at a time, a dispute that is opened late for an order that is
\* decided already finds nobody else who writes to the order: the order is
\* closed, or being closed.
Late(r) ==
    dispute[r] \in Decisions =>
        /\ delivery[r] = "DISPUTED" => estado[r] = "FINALIZADA" \/ Someone(r, {"close"})
        /\ Someone(r, {"markDisputed"}) =>
             /\ ~Someone(r, {"ship", "confirm", "autoConfirm"})
             /\ \/ Someone(r, {"close"})
                \/ estado[r] = "FINALIZADA" /\ delivery[r] \in {"DISPUTED", "CONFIRMED"}

LateInv == \A r \in Raffles : Late(r)

\* The steps that these invariants speak of, all of them writes to the order.
Tracked == {"ship", "confirm", "autoConfirm", "markDisputed", "createDispute",
            "schedule", "prepare", "close"}

\* The worker that moves is not among those that matter for the order, before
\* and after its step, and neither is what it writes.
Aside(w) ==
    /\ \A v \in Workers \ {w} : job'[v] = job[v]
    /\ job[w].pc \notin Tracked /\ job'[w].pc \notin Tracked
    /\ job'[w].pc \in Deciding => job[w].pc = "refund" /\ job'[w].r = job[w].r
    /\ UNCHANGED <<delivery, confirmed, dispute, scheduled>>
    /\ \A r \in Raffles : /\ estado'[r] \in {estado[r], "FINALIZADA"}
                           /\ payout'[r] \in {payout[r], "PROCESSING", "COMPLETED", "FAILED"}

\* A worker starts, with what it requires of the order.
Opens(w, j) ==
    /\ StartWith(w, j)
    /\ UNCHANGED <<estado, delivery, confirmed, dispute, payout, scheduled>>
    /\ j.pc \notin {"createDispute", "schedule", "prepare", "close"}
    /\ j.pc = "ship" => CanShip(j.r)
    /\ j.pc = "confirm" => CanConfirm(j.r)
    /\ j.pc \in Deciding => dispute[j.r] # "NONE"
    /\ j.pc = "markDisputed" => dispute[j.r] = "NONE"
    /\ j.pc = "autoConfirm" => estado[j.r] = "SORTEADA"

\* The steps that write to the order.
Writes(w) ==
    \/ DeliveryStep(w) \/ AutoConfirm(w) \/ PreparePayout(w)
    \/ MarkDisputed(w) \/ CreateDispute(w) \/ WriteResponse(w)
    \/ WriteResolution(w) \/ CloseDispute(w)

\* A start with a plain step.
LEMMA PlainOpens ==
    ASSUME TypeOK, NEW w \in Workers, NEW r \in Raffles, NEW pc, Start(w, r, pc),
           UNCHANGED <<raffleVars, disputeVars, payoutVars, moneyVars>>,
           pc \notin {"createDispute", "schedule", "prepare"} \cup Deciding,
           pc = "ship" => CanShip(r), pc = "confirm" => CanConfirm(r),
           pc = "markDisputed" => dispute[r] = "NONE",
           pc = "autoConfirm" => estado[r] = "SORTEADA"
    PROVE  \E j : Opens(w, j)
<1> DEFINE j == [Idle EXCEPT !.pc = pc, !.r = r]
<1>1. j.pc = pc /\ j.r = r /\ StartWith(w, j)
  BY DEF Idle, Start
<1>2. UNCHANGED <<estado, delivery, confirmed, dispute, payout, scheduled>>
  BY DEF raffleVars, disputeVars, payoutVars
<1> HIDE DEF j
<1>3. Opens(w, j)
  BY <1>1, <1>2 DEF Opens, Deciding
<1> QED
  BY <1>3

\* A resolution starts.
LEMMA ResolutionOpens ==
    ASSUME NEW w \in Workers, NEW r \in Raffles, NEW decision, NEW amount,
           StartResolution(w, r, decision, amount)
    PROVE  \E j : Opens(w, j)
<1> DEFINE j == [Idle EXCEPT !.pc = IF amount > 0 THEN "refund" ELSE "verdict", !.r = r,
                             !.decision = decision, !.amount = amount]
<1>1. j.pc \in {"refund", "verdict"} /\ j.r = r /\ StartWith(w, j)
  BY DEF Idle, StartResolution
<1>3. dispute[r] # "NONE"
  BY DEF StartResolution, CanResolve, ActiveDispute
<1>2. UNCHANGED <<estado, delivery, confirmed, dispute, payout, scheduled>>
  BY DEF StartResolution, raffleVars, disputeVars, payoutVars
<1> HIDE DEF j
<1>4. Opens(w, j)
  BY <1>1, <1>2, <1>3 DEF Opens, Deciding
<1> QED
  BY <1>4

\* Every request starts in this way.
LEMMA RequestOpens ==
    ASSUME TypeOK, NEW h \in Handlers, NEW r \in Raffles, StartRequest(h, r)
    PROVE  \E j : Opens(h, j)
<1>0. h \in Workers
  BY DEF Workers
<1>1. CASE MarkAsShipped(h, r)
  BY <1>0, <1>1, PlainOpens DEF MarkAsShipped, Deciding
<1>2. CASE ConfirmDelivery(h, r)
  BY <1>0, <1>2, PlainOpens DEF ConfirmDelivery, Deciding
<1>3. CASE OpenDispute(h, r)
  BY <1>0, <1>3, PlainOpens DEF OpenDispute, canOpenDispute, Deciding
<1>4. CASE RespondDispute(h, r)
  BY <1>0, <1>4, PlainOpens DEF RespondDispute, Deciding
<1>5. CASE ResolveDispute(h, r)
  BY <1>0, <1>5, ResolutionOpens DEF ResolveDispute
<1>6. CASE ProcessDuePayout(h, r)
  BY <1>0, <1>6, PlainOpens DEF ProcessDuePayout, Deciding
<1>7. CASE ReleasePayoutManually(h, r)
  BY <1>0, <1>7, PlainOpens DEF ReleasePayoutManually, Deciding
<1>8. CASE SyncProviderPayout(h, r)
  <2> DEFINE j == [Idle EXCEPT !.pc = "syncResult", !.r = r, !.seen = provider[r]]
  <2>1. j.pc = "syncResult" /\ StartWith(h, j)
    BY <1>8 DEF SyncProviderPayout, Idle
  <2>2. UNCHANGED <<estado, delivery, confirmed, dispute, payout, scheduled>>
    BY <1>8 DEF SyncProviderPayout, raffleVars, disputeVars, payoutVars
  <2> HIDE DEF j
  <2>3. Opens(h, j)
    BY <2>1, <2>2 DEF Opens, Deciding
  <2> QED
    BY <2>3
<1> QED
  BY <1>1, <1>2, <1>3, <1>4, <1>5, <1>6, <1>7, <1>8 DEF StartRequest

\* And so does every cron run.
LEMMA CronOpens ==
    ASSUME TypeOK, NEW c \in Crons, NEW r \in Raffles, StartCron(c, r)
    PROVE  \E j : Opens(c, j)
<1>0. c \in Workers
  BY DEF Workers
<1>1. CASE AutoRelease(c, r)
  BY <1>0, <1>1, PlainOpens DEF AutoRelease, Deciding
<1>2. CASE AutoRefundOldDispute(c, r)
  BY <1>0, <1>2, ResolutionOpens DEF AutoRefundOldDispute
<1>3. CASE ProcessDuePayout(c, r)
  BY <1>0, <1>3, PlainOpens DEF ProcessDuePayout, Deciding
<1> QED
  BY <1>1, <1>2, <1>3 DEF StartCron

\* The worker that goes from one step to another that do not matter for an order.
LEMMA GoesAside ==
    ASSUME TypeOK, NEW w \in Workers, NEW pc, pc \notin Tracked,
           job[w].pc \notin Tracked, GoTo(w, pc),
           pc \in Deciding => job[w].pc = "refund"
    PROVE  /\ \A v \in Workers \ {w} : job'[v] = job[v]
           /\ job'[w].pc \notin Tracked
           /\ job'[w].pc \in Deciding => job[w].pc = "refund" /\ job'[w].r = job[w].r
  BY DEF GoTo, Idle, TypeOK, Job, Tracked, Deciding

\* The steps of a payout that write to the order only that the payout was tried.
LEMMA PayoutAside ==
    ASSUME TypeOK, NEW w \in Workers, \/ PayoutStep(w) \/ DisputeRefund(w),
           ~AutoConfirm(w), ~PreparePayout(w)
    PROVE  Aside(w)
<1> USE DEF raffleVars, disputeVars, payoutVars, moneyVars
<1>0. job[w].r \in Raffles
  BY DEF TypeOK, Job
<1>1. CASE DisputeRefund(w)
  <2>1. /\ job[w].pc \notin Tracked /\ job[w].pc = "refund"
        /\ \E pc \in {"verdict", "idle"} : GoTo(w, pc)
    BY <1>1 DEF DisputeRefund, Tracked
  <2>2. /\ \A v \in Workers \ {w} : job'[v] = job[v]
        /\ job'[w].pc \notin Tracked
        /\ job'[w].pc \in Deciding => job[w].pc = "refund" /\ job'[w].r = job[w].r
    BY <2>1, GoesAside DEF Tracked, Deciding
  <2> QED
    BY <1>1, <2>1, <2>2 DEF DisputeRefund, Aside
<1>2. CASE CheckPending(w) \/ CheckRelease(w) \/ CheckFunds(w) \/ RecordAccepted(w)
           \/ CatchFailure(w) \/ RecordReversal(w)
  <2>1. job[w].pc \notin Tracked
        /\ \E pc \in {"release", "idle", "mark", "provider", "catch", "finish", "entry",
                      "fail"} : GoTo(w, pc)
    BY <1>2 DEF CheckPending, CheckRelease, CheckFunds, RecordAccepted, CatchFailure,
       ReversePayable, RecordReversal, Tracked
  <2>2. /\ \A v \in Workers \ {w} : job'[v] = job[v]
        /\ job'[w].pc \notin Tracked
        /\ job'[w].pc \in Deciding => job[w].pc = "refund" /\ job'[w].r = job[w].r
    BY <2>1, GoesAside DEF Tracked, Deciding
  <2>3. UNCHANGED <<estado, payout, delivery, confirmed, dispute, scheduled>>
    BY <1>2 DEF CheckPending, CheckRelease, CheckFunds, RecordAccepted, CatchFailure,
       RecordReversal
  <2> QED
    BY <2>1, <2>2, <2>3 DEF Aside
<1>3. CASE MarkProcessing(w) \/ FinishPayout(w) \/ WriteFailed(w) \/ ApplySync(w)
  <2>1. job[w].pc \notin Tracked /\ \E pc \in {"funds", "idle", "catch", "entry", "fail"} : GoTo(w, pc)
    BY <1>3 DEF MarkProcessing, FinishPayout, WriteFailed, ApplySync, ReversePayable, Tracked
  <2>2. /\ \A v \in Workers \ {w} : job'[v] = job[v]
        /\ job'[w].pc \notin Tracked
        /\ job'[w].pc \in Deciding => job[w].pc = "refund" /\ job'[w].r = job[w].r
    BY <2>1, GoesAside DEF Tracked, Deciding
  <2>3. UNCHANGED <<delivery, confirmed, dispute, scheduled>>
    BY <1>3 DEF MarkProcessing, FinishPayout, WriteFailed, ApplySync
  <2>4. ASSUME NEW r \in Raffles
        PROVE  /\ estado'[r] \in {estado[r], "FINALIZADA"}
               /\ payout'[r] \in {payout[r], "PROCESSING", "COMPLETED", "FAILED"}
    BY <1>0, <1>3 DEF MarkProcessing, FinishPayout, WriteFailed, ApplySync, Complete, TypeOK
  <2> QED
    BY <2>1, <2>2, <2>3, <2>4 DEF Aside
<1>4. CASE CallProvider(w)
  <2>1. PICK seen \in {provider'[job[w].r], "none"} :
          job' = [job EXCEPT ![w] = [@ EXCEPT !.seen = seen,
                    !.pc = IF seen \in {"processing", "completed"} THEN "record"
                           ELSE "catch"]]
    BY <1>4 DEF CallProvider
  <2>2. /\ job'[w].pc \in {"record", "catch"} /\ job[w].pc = "provider"
        /\ \A v \in Workers \ {w} : job'[v] = job[v]
    BY <1>4, <2>1 DEF TypeOK, Job, CallProvider
  <2>3. UNCHANGED <<estado, payout, delivery, confirmed, dispute, scheduled>>
    BY <1>4 DEF CallProvider
  <2> QED
    BY <2>2, <2>3 DEF Aside, Tracked, Deciding
<1> QED
  BY <1>1, <1>2, <1>3, <1>4 DEF PayoutStep

\* While nothing dies, every step starts a worker, leaves the orders aside, writes
\* to one, ends a protection window, or touches neither orders nor workers.
LEMMA OrderSteps ==
    ASSUME TypeOK, [Next]_vars, Fallible = {}
    PROVE  \/ \E w \in Workers : (\E j : Opens(w, j)) \/ Aside(w) \/ Writes(w)
           \/ \E r \in Raffles : ProtectionEnds(r)
           \/ UNCHANGED <<estado, delivery, confirmed, dispute, payout, scheduled, job>>
<1> USE DEF raffleVars, disputeVars, payoutVars, moneyVars
<1>1. ASSUME NEW r \in Raffles, Environment(r), ~ProtectionEnds(r)
      PROVE  UNCHANGED <<estado, delivery, confirmed, dispute, payout, scheduled, job>>
  BY <1>1 DEF Environment, ProviderSettles, SevenDaysAfterDraw, DisputeAges
<1>2. ASSUME NEW w \in Workers, DeliveryStep(w) \/ DisputeStep(w) \/ PayoutStep(w)
      PROVE  Aside(w) \/ Writes(w)
  BY <1>2, PayoutAside DEF Writes, DisputeStep
<1>3. ASSUME NEW w \in Workers, Abort(w) PROVE FALSE
  BY <1>3 DEF Abort
<1>4. CASE UNCHANGED vars
  BY <1>4 DEF vars
<1>5. Handlers \subseteq Workers /\ Crons \subseteq Workers
  BY DEF Workers
<1> HIDE DEF raffleVars, disputeVars, payoutVars, moneyVars
<1> QED
  BY <1>1, <1>2, <1>3, <1>4, <1>5, NextCases, RequestOpens, CronOpens

\* A worker that neither joins nor leaves does not change who is there.
LEMMA SomeoneSame ==
    ASSUME NEW w \in Workers, \A v \in Workers \ {w} : job'[v] = job[v], NEW r, NEW pcs,
           (job[w].r = r /\ job[w].pc \in pcs) <=> (job'[w].r = r /\ job'[w].pc \in pcs)
    PROVE  Someone(r, pcs)' <=> Someone(r, pcs)
  BY DEF Someone

\* What a worker's next step does to who is at some steps.
LEMMA SomeoneGoes ==
    ASSUME TypeOK, NEW w \in Workers, NEW pc, GoTo(w, pc), NEW r, NEW pcs, "idle" \notin pcs
    PROVE  /\ Someone(r, pcs)' => \/ Someone(r, pcs)
                                  \/ job[w].r = r /\ pc \in pcs
           /\ Someone(r, pcs) => \/ Someone(r, pcs)'
                                 \/ job[w].r = r /\ job[w].pc \in pcs
           /\ job[w].r = r /\ pc \in pcs => Someone(r, pcs)'
<1>1. \A v \in Workers \ {w} : job'[v] = job[v]
  BY DEF GoTo, TypeOK
<1>2. CASE pc = "idle"
  <2>1. job'[w].pc = "idle"
    BY <1>2 DEF GoTo, Idle, TypeOK
  <2> QED
    BY <1>1, <1>2, <2>1 DEF Someone
<1>3. CASE pc # "idle"
  <2>1. job'[w].pc = pc /\ job'[w].r = job[w].r
    BY <1>3 DEF GoTo, TypeOK, Job
  <2> QED
    BY <1>1, <2>1 DEF Someone
<1> QED
  BY <1>2, <1>3

\* What a start does to it.
LEMMA SomeoneStarts ==
    ASSUME TypeOK, NEW w \in Workers, NEW j, StartWith(w, j), NEW r, NEW pcs,
           "idle" \notin pcs
    PROVE  /\ Someone(r, pcs)' => Someone(r, pcs) \/ (j.r = r /\ j.pc \in pcs)
           /\ Someone(r, pcs) => Someone(r, pcs)'
<1>1. /\ \A v \in Workers \ {w} : job'[v] = job[v]
      /\ job'[w] = j /\ job[w].pc = "idle"
  BY DEF StartWith, Busy, TypeOK
<1> QED
  BY <1>1 DEF Someone

\* A step aside keeps an order on its track.
LEMMA TrackAside ==
    ASSUME TypeOK, NEW w \in Workers, Aside(w), NEW r \in Raffles, Track(r)
    PROVE  Track(r)'
<1>1. \A pcs \in SUBSET Tracked : Someone(r, pcs)' <=> Someone(r, pcs)
  <2> SUFFICES ASSUME NEW pcs \in SUBSET Tracked PROVE Someone(r, pcs)' <=> Someone(r, pcs)
    OBVIOUS
  <2> QED
    BY SomeoneSame DEF Aside
<1>2. /\ Someone(r, {"createDispute"})' <=> Someone(r, {"createDispute"})
      /\ Someone(r, {"schedule", "prepare"})' <=> Someone(r, {"schedule", "prepare"})
      /\ Someone(r, {"schedule"})' <=> Someone(r, {"schedule"})
  BY <1>1 DEF Tracked
<1>5. Someone(r, Deciding)' => Someone(r, Deciding)
  BY DEF Aside, Someone, Deciding
<1>3. /\ estado'[r] \in {estado[r], "FINALIZADA"}
      /\ payout'[r] \in Untouched => payout[r] = payout'[r]
  BY DEF Aside, Untouched
<1>4. UNCHANGED <<delivery, confirmed, dispute, scheduled>>
  BY DEF Aside
<1> QED
  BY <1>2, <1>3, <1>4, <1>5 DEF Track

\* So does a start, which is of no step that the track speaks of.
LEMMA TrackOpens ==
    ASSUME TypeOK, NEW w \in Workers, NEW j, Opens(w, j), NEW r \in Raffles, Track(r)
    PROVE  Track(r)'
<1>1. ASSUME NEW pcs, pcs \subseteq {"createDispute", "schedule", "prepare"}
      PROVE  Someone(r, pcs)' <=> Someone(r, pcs)
  BY <1>1, SomeoneStarts DEF Opens
<1>2. /\ Someone(r, {"createDispute"})' <=> Someone(r, {"createDispute"})
      /\ Someone(r, {"schedule", "prepare"})' <=> Someone(r, {"schedule", "prepare"})
      /\ Someone(r, {"schedule"})' <=> Someone(r, {"schedule"})
  BY <1>1
<1>3. UNCHANGED <<estado, delivery, confirmed, dispute, payout, scheduled>>
  BY DEF Opens
<1>4. Someone(r, Deciding)' => Someone(r, Deciding) \/ dispute[r] # "NONE"
  <2>1. "idle" \notin Deciding
    BY DEF Deciding
  <2>2. Someone(r, Deciding)' => Someone(r, Deciding) \/ (j.r = r /\ j.pc \in Deciding)
    BY <2>1, SomeoneStarts DEF Opens
  <2> QED
    BY <2>2 DEF Opens
<1> QED
  BY <1>2, <1>3, <1>4 DEF Track

\* The end of the protection window makes a payout that has a date due; no cron
\* run or request is about to set one.
LEMMA TrackProtectionEnds ==
    ASSUME TypeOK, NEW q \in Raffles, ProtectionEnds(q), NEW r \in Raffles, Track(r)
    PROVE  Track(r)'
<1>1. \A pcs : Someone(r, pcs)' <=> Someone(r, pcs)
  BY DEF ProtectionEnds, Someone
<1>2. ~Someone(r, {"schedule", "prepare"}) /\ ~Someone(r, {"schedule"})
  BY DEF ProtectionEnds, Quiet, Someone
<1>3. UNCHANGED <<estado, delivery, dispute, payout>>
  BY DEF ProtectionEnds, disputeVars
<1>4. /\ confirmed'[r] # "no" => confirmed[r] # "no"
      /\ confirmed[r] # "no" => confirmed'[r] # "no"
  BY DEF ProtectionEnds, TypeOK
<1>5. scheduled[r] \in {"later", "due"} => scheduled'[r] \in {"later", "due"}
  BY DEF ProtectionEnds, TypeOK
<1>6. confirmed'[r] = "old" /\ scheduled[r] \in {"later", "due"}
        /\ (confirmed[r] = "old" => scheduled[r] = "due") => scheduled'[r] = "due"
  BY DEF ProtectionEnds, TypeOK
<1> QED
  BY <1>1, <1>2, <1>3, <1>4, <1>5, <1>6 DEF Track

\* A write to another order leaves an order on its track.
LEMMA TrackElsewhere ==
    ASSUME TypeOK, NEW w \in Workers, Writes(w), NEW r \in Raffles, Track(r), job[w].r # r
    PROVE  Track(r)'
<1> USE DEF raffleVars, disputeVars, payoutVars, moneyVars
<1>1. \E pc : GoTo(w, pc)
  BY DEF Writes, DeliveryStep, WriteShipped, WriteConfirmed, SchedulePayout, AutoConfirm,
         PreparePayout, MarkDisputed, CreateDispute, WriteResponse, WriteResolution,
         CloseDispute
<1>2. ASSUME NEW pcs, "idle" \notin pcs
      PROVE  Someone(r, pcs)' <=> Someone(r, pcs)
  BY <1>1, <1>2, SomeoneGoes
<1>3. /\ Someone(r, {"createDispute"})' <=> Someone(r, {"createDispute"})
      /\ Someone(r, {"schedule", "prepare"})' <=> Someone(r, {"schedule", "prepare"})
      /\ Someone(r, {"schedule"})' <=> Someone(r, {"schedule"})
      /\ Someone(r, Deciding)' <=> Someone(r, Deciding)
  BY <1>2 DEF Deciding
<1>4. /\ estado'[r] = estado[r] /\ delivery'[r] = delivery[r]
      /\ confirmed'[r] = confirmed[r] /\ dispute'[r] = dispute[r]
      /\ payout'[r] = payout[r] /\ scheduled'[r] = scheduled[r]
  BY DEF Writes, DeliveryStep, WriteShipped, WriteConfirmed, Confirm, SchedulePayout,
         AutoConfirm, PreparePayout, MarkDisputed, CreateDispute, WriteResponse,
         WriteResolution, CloseDispute, TypeOK
<1> QED
  BY <1>3, <1>4 DEF Track

\* A write to the order keeps it on its track.
LEMMA TrackWrites ==
    ASSUME TypeOK, NEW w \in Workers, Writes(w), NEW r \in Raffles, Track(r), job[w].r = r
    PROVE  Track(r)'
<1> USE DEF raffleVars, disputeVars, payoutVars, moneyVars
<1> DEFINE C == {"createDispute"}  B == {"schedule", "prepare"}  S == {"schedule"}
<1>0. "idle" \notin C /\ "idle" \notin B /\ "idle" \notin S /\ "idle" \notin Deciding
  BY DEF Deciding
<1>s. Someone(r, S) => Someone(r, B)
  BY DEF Someone
<1>g. ASSUME NEW pc, GoTo(w, pc)
      PROVE  /\ Someone(r, C) => Someone(r, C)' \/ job[w].pc = "createDispute"
             /\ pc = "createDispute" => Someone(r, C)'
             /\ Someone(r, B) => Someone(r, B)' \/ job[w].pc \in B
             /\ pc \in B => Someone(r, B)'
             /\ Someone(r, S)' => Someone(r, S) \/ pc = "schedule"
             /\ Someone(r, Deciding)' => Someone(r, Deciding) \/ pc \in Deciding
  <2>1. /\ Someone(r, C) => \/ Someone(r, C)'
                            \/ job[w].r = r /\ job[w].pc \in C
        /\ job[w].r = r /\ pc \in C => Someone(r, C)'
    BY <1>0, <1>g, SomeoneGoes
  <2>2. /\ Someone(r, B) => \/ Someone(r, B)'
                            \/ job[w].r = r /\ job[w].pc \in B
        /\ job[w].r = r /\ pc \in B => Someone(r, B)'
    BY <1>0, <1>g, SomeoneGoes
  <2>3. Someone(r, S)' => \/ Someone(r, S)
                          \/ job[w].r = r /\ pc \in S
    BY <1>0, <1>g, SomeoneGoes
  <2>4. Someone(r, Deciding)' => \/ Someone(r, Deciding)
                                 \/ job[w].r = r /\ pc \in Deciding
    BY <1>0, <1>g, SomeoneGoes
  <2> QED
    BY <2>1, <2>2, <2>3, <2>4
<1>t. /\ estado \in [Raffles -> Estados] /\ delivery \in [Raffles -> Deliveries]
      /\ confirmed \in [Raffles -> {"no", "recent", "old"}]
      /\ dispute \in [Raffles -> {"NONE"} \cup ActiveDispute \cup Decisions]
      /\ payout \in [Raffles -> PayoutStatus]
      /\ scheduled \in [Raffles -> {"no", "later", "due"}]
  BY DEF TypeOK
<1> HIDE DEF C, B, S
<1>d. Track(r) <=>
        /\ delivery[r] = "PENDING" => estado[r] # "EN_ENTREGA"
        /\ delivery[r] = "DISPUTED" /\ dispute[r] = "NONE" => Someone(r, C)
        /\ delivery[r] = "CONFIRMED" => estado[r] = "FINALIZADA" \/ confirmed[r] # "no"
        /\ confirmed[r] # "no" /\ payout[r] \in Untouched
             => \/ Someone(r, B)
                \/ /\ payout[r] = "PENDING" /\ scheduled[r] \in {"later", "due"}
                   /\ confirmed[r] = "old" => scheduled[r] = "due"
        /\ Someone(r, S) => confirmed[r] = "recent"
        /\ Someone(r, Deciding) => dispute[r] # "NONE"
  BY DEF Track, C, B, S
<1>e. Track(r)' <=>
        /\ delivery'[r] = "PENDING" => estado'[r] # "EN_ENTREGA"
        /\ delivery'[r] = "DISPUTED" /\ dispute'[r] = "NONE" => Someone(r, C)'
        /\ delivery'[r] = "CONFIRMED" => estado'[r] = "FINALIZADA" \/ confirmed'[r] # "no"
        /\ confirmed'[r] # "no" /\ payout'[r] \in Untouched
             => \/ Someone(r, B)'
                \/ /\ payout'[r] = "PENDING" /\ scheduled'[r] \in {"later", "due"}
                   /\ confirmed'[r] = "old" => scheduled'[r] = "due"
        /\ Someone(r, S)' => confirmed'[r] = "recent"
        /\ Someone(r, Deciding)' => dispute'[r] # "NONE"
  BY DEF Track, C, B, S
<1>1. CASE WriteShipped(w)
  BY <1>1, <1>d, <1>e, <1>g, <1>t DEF WriteShipped, B, Deciding
<1>2. CASE WriteConfirmed(w)
  BY <1>2, <1>d, <1>e, <1>g, <1>t DEF WriteConfirmed, Confirm, B, Deciding
<1>3. CASE SchedulePayout(w)
  <2>1. Someone(r, S)
    BY <1>3 DEF SchedulePayout, Someone, S
  <2>2. /\ payout'[r] \in Untouched => payout'[r] = "PENDING"
        /\ scheduled'[r] = "later"
    BY <1>3, <1>t DEF SchedulePayout, Untouched
  <2>3. UNCHANGED <<estado, delivery, confirmed, dispute>>
    BY <1>3 DEF SchedulePayout
  <2>4. /\ Someone(r, C) => Someone(r, C)'
        /\ Someone(r, Deciding)' => Someone(r, Deciding)
    BY <1>3, <1>g DEF SchedulePayout, Deciding
  <2> QED
    BY <1>d, <1>e, <2>1, <2>2, <2>3, <2>4
<1>4. CASE AutoConfirm(w)
  BY <1>4, <1>d, <1>e, <1>g, <1>t DEF AutoConfirm, Confirm, B, Deciding
<1>5. CASE PreparePayout(w)
  <2>1. payout'[r] \in Untouched => payout'[r] = "PENDING" /\ scheduled'[r] = "due"
    BY <1>5, <1>t DEF PreparePayout, Untouched
  <2>2. \E pc \in {"idle", "check"} : GoTo(w, pc)
    BY <1>5 DEF PreparePayout
  <2>3. /\ Someone(r, C) => Someone(r, C)'
        /\ Someone(r, S)' => Someone(r, S)
        /\ Someone(r, Deciding)' => Someone(r, Deciding)
    BY <1>5, <1>g, <2>2 DEF PreparePayout, Deciding
  <2>4. UNCHANGED <<estado, delivery, confirmed, dispute>>
    BY <1>5 DEF PreparePayout
  <2> QED
    BY <1>d, <1>e, <2>1, <2>3, <2>4
<1>6. CASE MarkDisputed(w)
  BY <1>6, <1>d, <1>e, <1>g, <1>t DEF MarkDisputed, B, Deciding
<1>7. CASE CreateDispute(w)
  <2>1. dispute'[r] # "NONE"
    BY <1>7, <1>t DEF CreateDispute
  <2> QED
    BY <1>7, <1>d, <1>e, <1>g, <2>1 DEF CreateDispute, B
<1>8. CASE WriteResponse(w)
  <2>1. dispute'[r] # "NONE"
    BY <1>8, <1>t DEF WriteResponse
  <2> QED
    BY <1>8, <1>d, <1>e, <1>g, <2>1 DEF WriteResponse, B
<1>9. CASE WriteResolution(w)
  <2>1. dispute'[r] # "NONE"
    BY <1>9, <1>t DEF WriteResolution, TypeOK, Job, Decisions
  <2> QED
    BY <1>9, <1>d, <1>e, <1>g, <2>1 DEF WriteResolution, B
<1>10. CASE CloseDispute(w)
  <2>1. estado'[r] = "FINALIZADA" /\ delivery'[r] \in {"CONFIRMED", "DISPUTED"}
    BY <1>10, <1>t DEF CloseDispute
  <2>2. Someone(r, Deciding)
    BY <1>10 DEF CloseDispute, Someone, Deciding
  <2> QED
    BY <1>10, <1>d, <1>e, <1>g, <1>t, <2>1, <2>2 DEF CloseDispute, B
<1> QED
  BY <1>1, <1>2, <1>3, <1>4, <1>5, <1>6, <1>7, <1>8, <1>9, <1>10 DEF Writes, DeliveryStep

\* Of two workers that are running, a third one is one of the two.
LEMMA NoThird ==
    ASSUME Cardinality(Busy) <= 2, NEW x \in Busy, NEW y \in Busy, x # y, NEW z \in Busy
    PROVE  z \in {x, y}
<1>1. Busy \subseteq Workers
  BY DEF Busy
<1>2. IsFiniteSet(Busy) /\ Cardinality(Busy) \in Nat
  BY <1>1, WorkersFinite
<1>3. IsFiniteSet({x}) /\ Cardinality({x}) = 1
  BY FS_Singleton
<1>4. Cardinality({x} \cup {y}) = 2
  BY <1>3, FS_AddElement
<1>5. {x, y} = {x} \cup {y}
  OBVIOUS
<1>6. Cardinality({x, y}) = 2
  BY <1>4, <1>5
<1>7. {x, y} \in SUBSET Busy
  OBVIOUS
<1>8. /\ Cardinality({x, y}) <= Cardinality(Busy)
      /\ Cardinality(Busy) = Cardinality({x, y}) => Busy = {x, y}
  BY <1>2, <1>7, FS_Subset
<1> QED
  BY <1>2, <1>6, <1>8

\* The steps that Late speaks of.
Closing  == {"close"}
Marking  == {"markDisputed"}
Changing == {"ship", "confirm", "autoConfirm"}

\* A worker at one of them is running.
LEMMA SomeoneBusy ==
    ASSUME NEW r, NEW pcs, "idle" \notin pcs, Someone(r, pcs)
    PROVE  \E w \in Busy : job[w].r = r /\ job[w].pc \in pcs
  BY DEF Someone, Busy

\* A step aside leaves a late dispute alone.
LEMMA LateAside ==
    ASSUME TypeOK, NEW w \in Workers, Aside(w), NEW r \in Raffles, Late(r)
    PROVE  Late(r)'
<1>1. ASSUME NEW pcs \in SUBSET Tracked PROVE Someone(r, pcs)' <=> Someone(r, pcs)
  BY SomeoneSame DEF Aside
<1>2. /\ Someone(r, {"close"})' <=> Someone(r, {"close"})
      /\ Someone(r, {"markDisputed"})' <=> Someone(r, {"markDisputed"})
      /\ Someone(r, {"ship", "confirm", "autoConfirm"})'
           <=> Someone(r, {"ship", "confirm", "autoConfirm"})
  BY <1>1 DEF Tracked
<1>3. estado'[r] \in {estado[r], "FINALIZADA"} /\ UNCHANGED <<delivery, dispute>>
  BY DEF Aside
<1> QED
  BY <1>2, <1>3 DEF Late

\* No request starts that would write to an order that a late dispute is about to
\* mark: the order is closed, or two workers are running already.
LEMMA LateOpens ==
    ASSUME TypeOK, NEW w \in Workers, NEW j, Opens(w, j), NEW r \in Raffles, Late(r),
           MaxActive <= 2, Cardinality(Busy) <= MaxActive
    PROVE  Late(r)'
<1> SUFFICES ASSUME dispute'[r] \in Decisions PROVE Late(r)'
  BY DEF Late
<1>0. UNCHANGED <<estado, delivery, dispute>> /\ StartWith(w, j) /\ "NONE" \notin Decisions
  BY DEF Opens, Decisions
<1>1. /\ Someone(r, Closing) => Someone(r, Closing)'
      /\ Someone(r, Marking)' => Someone(r, Marking) \/ (j.r = r /\ j.pc \in Marking)
      /\ Someone(r, Changing)' => Someone(r, Changing) \/ (j.r = r /\ j.pc \in Changing)
  <2>1. "idle" \notin Closing /\ "idle" \notin Marking /\ "idle" \notin Changing
    BY DEF Closing, Marking, Changing
  <2> QED
    BY <1>0, <2>1, SomeoneStarts
<1>2. Someone(r, Marking)' => Someone(r, Marking)
  BY <1>0, <1>1 DEF Opens, Marking
<1>3. ASSUME Someone(r, Marking), Someone(r, Closing) PROVE FALSE
  <2>1. "idle" \notin Closing /\ "idle" \notin Marking
    BY DEF Closing, Marking
  <2>2. PICK x \in Busy : job[x].pc \in Marking
    BY <1>3, <2>1, SomeoneBusy
  <2>3. PICK y \in Busy : job[y].pc \in Closing
    BY <1>3, <2>1, SomeoneBusy
  <2>4. x # y
    BY <2>2, <2>3 DEF Closing, Marking
  <2>5. Cardinality(Busy) < MaxActive
    BY <1>0 DEF StartWith
  <2>6. Busy \subseteq Workers
    BY DEF Busy
  <2>7. Cardinality(Busy) \in Nat /\ IsFiniteSet(Busy) /\ MaxActive \in Nat
    BY <2>6, WorkersFinite, SettlementConstants
  <2>8. Cardinality(Busy) <= 1
    BY <2>5, <2>7
  <2>9. {x} \in SUBSET Busy /\ Cardinality({x}) = 1
    BY FS_Singleton
  <2>10. /\ Cardinality({x}) <= Cardinality(Busy)
         /\ Cardinality(Busy) = Cardinality({x}) => Busy = {x}
    BY <2>7, <2>9, FS_Subset
  <2>11. Busy = {x}
    BY <2>7, <2>8, <2>9, <2>10
  <2> QED
    BY <2>4, <2>11
<1>4. ASSUME Someone(r, Marking)
      PROVE  /\ ~Someone(r, Changing)
             /\ estado[r] = "FINALIZADA" /\ delivery[r] \in {"DISPUTED", "CONFIRMED"}
  BY <1>0, <1>3, <1>4 DEF Late, Marking, Closing, Changing
<1>5. ASSUME Someone(r, Marking) PROVE ~Someone(r, Changing)'
  <2>1. ~(j.r = r /\ j.pc \in Changing)
    BY <1>4, <1>5 DEF Opens, Changing, CanShip, CanConfirm
  <2> QED
    BY <1>1, <1>4, <1>5, <2>1
<1> QED
  BY <1>0, <1>1, <1>2, <1>4, <1>5 DEF Late, Marking, Closing, Changing

\* A write to another order does not matter either.
LEMMA LateElsewhere ==
    ASSUME TypeOK, NEW w \in Workers, Writes(w), NEW r \in Raffles, Late(r), job[w].r # r
    PROVE  Late(r)'
<1> USE DEF raffleVars, disputeVars, payoutVars, moneyVars
<1>1. \E pc : GoTo(w, pc)
  BY DEF Writes, DeliveryStep, WriteShipped, WriteConfirmed, SchedulePayout, AutoConfirm,
         PreparePayout, MarkDisputed, CreateDispute, WriteResponse, WriteResolution,
         CloseDispute
<1>2. ASSUME NEW pcs, "idle" \notin pcs
      PROVE  Someone(r, pcs)' <=> Someone(r, pcs)
  BY <1>1, <1>2, SomeoneGoes
<1>3. /\ Someone(r, {"close"})' <=> Someone(r, {"close"})
      /\ Someone(r, {"markDisputed"})' <=> Someone(r, {"markDisputed"})
      /\ Someone(r, {"ship", "confirm", "autoConfirm"})'
           <=> Someone(r, {"ship", "confirm", "autoConfirm"})
  BY <1>2
<1>4. /\ estado'[r] = estado[r] /\ delivery'[r] = delivery[r] /\ dispute'[r] = dispute[r]
  BY DEF Writes, DeliveryStep, WriteShipped, WriteConfirmed, Confirm, SchedulePayout,
         AutoConfirm, PreparePayout, MarkDisputed, CreateDispute, WriteResponse,
         WriteResolution, CloseDispute, TypeOK
<1> QED
  BY <1>3, <1>4 DEF Late

\* A write to the order itself: a decision finds at most one other worker, which
\* is the late dispute or a late write, and not both.
LEMMA LateWrites ==
    ASSUME TypeOK, NEW w \in Workers, Writes(w), NEW r \in Raffles, Late(r), job[w].r = r,
           MaxActive <= 2, Cardinality(Busy) <= MaxActive
    PROVE  Late(r)'
<1> SUFFICES ASSUME dispute'[r] \in Decisions PROVE Late(r)'
  BY DEF Late
<1> USE DEF raffleVars, disputeVars, payoutVars, moneyVars
<1>0. "idle" \notin Closing /\ "idle" \notin Marking /\ "idle" \notin Changing
  BY DEF Closing, Marking, Changing
<1>t. /\ estado \in [Raffles -> Estados] /\ delivery \in [Raffles -> Deliveries]
      /\ dispute \in [Raffles -> {"NONE"} \cup ActiveDispute \cup Decisions]
  BY DEF TypeOK
<1>w. \A pcs : job[w].pc \in pcs => Someone(r, pcs)
  BY DEF Someone
<1>g. ASSUME NEW pc, GoTo(w, pc), NEW pcs, "idle" \notin pcs
      PROVE  /\ Someone(r, pcs)' => Someone(r, pcs) \/ pc \in pcs
             /\ Someone(r, pcs) => Someone(r, pcs)' \/ job[w].pc \in pcs
             /\ pc \in pcs => Someone(r, pcs)'
  BY <1>g, SomeoneGoes
<1>l. dispute[r] \in Decisions =>
        /\ delivery[r] = "DISPUTED" => estado[r] = "FINALIZADA" \/ Someone(r, Closing)
        /\ Someone(r, Marking) =>
             /\ ~Someone(r, Changing)
             /\ \/ Someone(r, Closing)
                \/ estado[r] = "FINALIZADA" /\ delivery[r] \in {"DISPUTED", "CONFIRMED"}
  BY DEF Late, Closing, Marking, Changing
<1>p. Late(r)' <=>
        /\ delivery'[r] = "DISPUTED" => estado'[r] = "FINALIZADA" \/ Someone(r, Closing)'
        /\ Someone(r, Marking)' =>
             /\ ~Someone(r, Changing)'
             /\ \/ Someone(r, Closing)'
                \/ estado'[r] = "FINALIZADA" /\ delivery'[r] \in {"DISPUTED", "CONFIRMED"}
  BY DEF Late, Closing, Marking, Changing
<1>1. CASE WriteShipped(w) \/ WriteConfirmed(w) \/ AutoConfirm(w)
  <2>1. /\ dispute[r] \in Decisions
        /\ delivery'[r] \in {"SHIPPED", "CONFIRMED"}
        /\ job[w].pc \in Changing
        /\ \E pc \in {"idle", "schedule", "prepare"} : GoTo(w, pc)
    BY <1>1, <1>t DEF WriteShipped, WriteConfirmed, AutoConfirm, Confirm, Changing
  <2>2. ~Someone(r, Marking)
    BY <1>l, <1>w, <2>1
  <2>3. ~Someone(r, Marking)'
    BY <1>0, <1>g, <2>1, <2>2 DEF Marking
  <2> QED
    BY <1>p, <2>1, <2>3
<1>2. CASE SchedulePayout(w) \/ PreparePayout(w) \/ CreateDispute(w)
  <2>1. /\ dispute[r] \in Decisions
        /\ UNCHANGED <<estado, delivery>>
        /\ job[w].pc \in {"schedule", "prepare", "createDispute"}
        /\ \E pc \in {"idle", "check"} : GoTo(w, pc)
    <3>1. CASE CreateDispute(w)
      <4>1. dispute'[r] = dispute[r] \/ dispute'[r] = "ABIERTA"
        BY <1>t, <3>1 DEF CreateDispute
      <4> QED
        BY <3>1, <4>1 DEF CreateDispute, Decisions
    <3>2. CASE SchedulePayout(w) \/ PreparePayout(w)
      BY <3>2 DEF SchedulePayout, PreparePayout
    <3> QED
      BY <1>2, <3>1, <3>2
  <2>2. /\ Someone(r, Closing) => Someone(r, Closing)'
        /\ Someone(r, Marking)' => Someone(r, Marking)
        /\ Someone(r, Changing)' => Someone(r, Changing)
    BY <1>0, <1>g, <2>1 DEF Closing, Marking, Changing
  <2> QED
    BY <1>l, <1>p, <2>1, <2>2
<1>3. CASE MarkDisputed(w)
  <2>1. /\ dispute[r] \in Decisions /\ job[w].pc \in Marking /\ GoTo(w, "createDispute")
        /\ UNCHANGED estado /\ delivery'[r] = "DISPUTED"
    BY <1>3, <1>t DEF MarkDisputed, Marking
  <2>2. /\ Someone(r, Closing) => Someone(r, Closing)'
        /\ Someone(r, Changing)' => Someone(r, Changing)
    BY <1>0, <1>g, <2>1 DEF Closing, Marking, Changing
  <2>3. Someone(r, Marking)
    BY <1>w, <2>1
  <2> QED
    BY <1>l, <1>p, <2>1, <2>2, <2>3
<1>4. CASE WriteResponse(w)
  BY <1>4, <1>t DEF WriteResponse, Decisions
<1>5. CASE WriteResolution(w)
  <2>1. job[w].pc = "verdict" /\ GoTo(w, "close") /\ w \in Busy
    BY <1>5 DEF WriteResolution, Busy
  <2>2. Someone(r, Closing)'
    BY <1>0, <1>g, <2>1 DEF Closing
  <2>3. /\ Someone(r, Marking)' => Someone(r, Marking)
        /\ Someone(r, Changing)' => Someone(r, Changing)
    BY <1>0, <1>g, <2>1 DEF Marking, Changing
  <2>4. ASSUME Someone(r, Marking), Someone(r, Changing) PROVE FALSE
    <3>1. PICK x \in Busy : job[x].pc \in Marking
      BY <1>0, <2>4, SomeoneBusy
    <3>2. PICK y \in Busy : job[y].pc \in Changing
      BY <1>0, <2>4, SomeoneBusy
    <3>3. x # y /\ w # x /\ w # y
      BY <2>1, <3>1, <3>2 DEF Marking, Changing
    <3>4. Cardinality(Busy) <= 2
      <4>1. Busy \subseteq Workers
        BY DEF Busy
      <4>2. Cardinality(Busy) \in Nat /\ MaxActive \in Nat
        BY <4>1, WorkersFinite, SettlementConstants
      <4> QED
        BY <4>2
    <3>5. y \in {w, x}
      BY <2>1, <3>3, <3>4, NoThird
    <3> QED
      BY <3>3, <3>5
  <2> QED
    BY <1>p, <2>2, <2>3, <2>4
<1>6. CASE CloseDispute(w)
  <2>1. /\ dispute[r] \in Decisions /\ GoTo(w, "idle")
        /\ estado'[r] = "FINALIZADA" /\ delivery'[r] \in {"DISPUTED", "CONFIRMED"}
    BY <1>6, <1>t DEF CloseDispute
  <2>2. /\ Someone(r, Marking)' => Someone(r, Marking)
        /\ Someone(r, Changing)' => Someone(r, Changing)
    BY <1>0, <1>g, <2>1 DEF Marking, Changing
  <2> QED
    BY <1>l, <1>p, <2>1, <2>2
<1> QED
  BY <1>1, <1>2, <1>3, <1>4, <1>5, <1>6 DEF Writes, DeliveryStep

\* While nothing dies, every step keeps every order on its track.
LEMMA TrackStep ==
    ASSUME TypeOK, TrackInv, [Next]_vars, Fallible = {}
    PROVE  TrackInv'
<1> SUFFICES ASSUME NEW r \in Raffles PROVE Track(r)'
  BY DEF TrackInv
<1>1. Track(r)
  BY DEF TrackInv
<1>2. CASE UNCHANGED <<estado, delivery, confirmed, dispute, payout, scheduled, job>>
  BY <1>1, <1>2 DEF Track, Someone
<1> QED
  BY <1>1, <1>2, OrderSteps, TrackOpens, TrackAside, TrackElsewhere, TrackWrites,
     TrackProtectionEnds

\* And, with at most two workers at a time, keeps late disputes harmless.
LEMMA LateStep ==
    ASSUME TypeOK, LateInv, [Next]_vars, Fallible = {}, MaxActive <= 2,
           Cardinality(Busy) <= MaxActive
    PROVE  LateInv'
<1> SUFFICES ASSUME NEW r \in Raffles PROVE Late(r)'
  BY DEF LateInv
<1>1. Late(r)
  BY DEF LateInv
<1>2. CASE UNCHANGED <<estado, delivery, confirmed, dispute, payout, scheduled, job>>
  BY <1>1, <1>2 DEF Late, Someone
<1>3. ASSUME NEW q \in Raffles, ProtectionEnds(q) PROVE Late(r)'
  BY <1>1, <1>3 DEF ProtectionEnds, Late, Someone, disputeVars
<1> QED
  BY <1>1, <1>2, <1>3, OrderSteps, LateOpens, LateAside, LateElsewhere, LateWrites

\* A decided order that is still SORTEADA is being closed.
ClosesInv ==
    \A r \in Raffles :
        dispute[r] \in Decisions /\ estado[r] = "SORTEADA" => Someone(r, {"close"})

\* Every step keeps that.
LEMMA ClosesStep ==
    ASSUME TypeOK, ClosesInv, [Next]_vars, Fallible = {}
    PROVE  ClosesInv'
<1> SUFFICES ASSUME NEW r \in Raffles, dispute'[r] \in Decisions, estado'[r] = "SORTEADA"
             PROVE  Someone(r, Closing)'
  BY DEF ClosesInv, Closing
<1>1. estado[r] = "SORTEADA"
  BY LeavesSorteada
<1>2. dispute[r] \in Decisions => Someone(r, Closing)
  BY <1>1 DEF ClosesInv, Closing
<1>3. "idle" \notin Closing
  BY DEF Closing
<1>4. CASE UNCHANGED <<dispute, job>>
  BY <1>2, <1>4 DEF Someone
<1>5. ASSUME NEW w \in Workers, NEW j, Opens(w, j) PROVE Someone(r, Closing)'
  BY <1>2, <1>3, <1>5, SomeoneStarts DEF Opens
<1>6. ASSUME NEW w \in Workers, Aside(w) PROVE Someone(r, Closing)'
  <2>1. Someone(r, Closing)' <=> Someone(r, Closing)
    BY <1>6, SomeoneSame DEF Aside, Closing, Tracked
  <2> QED
    BY <1>2, <1>6, <2>1 DEF Aside
<1>7. ASSUME NEW q \in Raffles, ProtectionEnds(q) PROVE Someone(r, Closing)'
  BY <1>2, <1>7 DEF ProtectionEnds, Someone, disputeVars
<1>8. ASSUME NEW w \in Workers, WriteResolution(w) PROVE Someone(r, Closing)'
  <2>1. CASE job[w].r = r
    BY <1>3, <1>8, <2>1, SomeoneGoes DEF WriteResolution, Closing
  <2>2. CASE job[w].r # r
    <3>1. dispute'[r] = dispute[r]
      BY <1>8, <2>2 DEF WriteResolution, TypeOK
    <3> QED
      BY <1>2, <1>3, <1>8, <2>2, <3>1, SomeoneGoes DEF WriteResolution
  <2> QED
    BY <2>1, <2>2
<1>9. ASSUME NEW w \in Workers, Writes(w), ~WriteResolution(w) PROVE Someone(r, Closing)'
  <2>1. dispute'[r] \in Decisions => dispute[r] \in Decisions
    BY <1>9 DEF Writes, DeliveryStep, WriteShipped, WriteConfirmed, Confirm, SchedulePayout,
       AutoConfirm, PreparePayout, MarkDisputed, CreateDispute, WriteResponse,
       CloseDispute, disputeVars, TypeOK, Decisions
  <2>2. PICK pc : GoTo(w, pc)
    BY <1>9 DEF Writes, DeliveryStep, WriteShipped, WriteConfirmed, SchedulePayout,
       AutoConfirm, PreparePayout, MarkDisputed, CreateDispute, WriteResponse, CloseDispute
  <2>3. job[w].pc = "close" => job[w].r # r
    <3>1. job[w].pc = "close" => CloseDispute(w)
      BY <1>9 DEF Writes, DeliveryStep, WriteShipped, WriteConfirmed, SchedulePayout,
         AutoConfirm, PreparePayout, MarkDisputed, CreateDispute, WriteResponse
    <3>2. CloseDispute(w) /\ job[w].r = r => estado'[r] = "FINALIZADA"
      BY DEF CloseDispute, TypeOK
    <3> QED
      BY <3>1, <3>2
  <2>4. Someone(r, Closing) => \/ Someone(r, Closing)'
                               \/ job[w].r = r /\ job[w].pc \in Closing
    BY <1>3, <2>2, SomeoneGoes
  <2> QED
    BY <1>2, <2>1, <2>3, <2>4 DEF Closing
<1> QED
  BY <1>4, <1>5, <1>6, <1>7, <1>8, <1>9, OrderSteps

\* An order that nobody works on goes on, unless it is the one decided order.
LEMMA TrackedGoesOn ==
    ASSUME TypeOK, TrackInv, NEW r \in Raffles, Waiting(r)
    PROVE  GoesOn(r) \/ (dispute[r] \in Decisions /\ delivery[r] = "DISPUTED")
<1>0. \A pcs : "idle" \notin pcs => ~Someone(r, pcs)
  BY SomeoneBusy DEF Waiting
<1>1. /\ ~Someone(r, {"createDispute"}) /\ ~Someone(r, {"schedule", "prepare"})
  BY <1>0
<1>2. /\ estado[r] \in {"SORTEADA", "EN_ENTREGA"} /\ delivery[r] \in Deliveries
      /\ confirmed[r] \in {"no", "recent", "old"} /\ payout[r] \in Untouched
      /\ dispute[r] \in {"NONE"} \cup ActiveDispute \cup Decisions
  BY DEF TypeOK, Waiting, Untouched, Estados
<1>3. Track(r)
  BY DEF TrackInv
<1>4. CASE delivery[r] = "PENDING"
  BY <1>2, <1>3, <1>4 DEF Track, GoesOn, FromAPage, OffersShipping, CanShip
<1>5. CASE delivery[r] = "SHIPPED"
  BY <1>5 DEF GoesOn, FromAPage, OffersConfirmation, CanConfirm
<1>6. CASE delivery[r] = "DISPUTED" /\ dispute[r] \notin Decisions
  <2>1. dispute[r] \in ActiveDispute
    BY <1>1, <1>2, <1>3, <1>6 DEF Track
  <2>2. OffersResolution(r) /\ CanResolve(r, "RESUELTA_VENDEDOR", 0)
    BY <2>1 DEF OffersResolution, pendingDisputes, CanResolve, RefundsOf
  <2>3. "RESUELTA_VENDEDOR" \in Decisions /\ 0 \in handleResolve("RESUELTA_VENDEDOR", r)
    BY DEF Decisions, handleResolve
  <2> QED
    BY <2>2, <2>3 DEF GoesOn, FromAPage
<1>7. CASE delivery[r] = "CONFIRMED"
  BY <1>1, <1>2, <1>3, <1>7 DEF Track, GoesOn, PayoutIsDue, Protected
<1> QED
  BY <1>2, <1>4, <1>5, <1>6, <1>7 DEF Deliveries

\* The initial orders are on their track, and nothing is late.
LEMMA TrackInit == Init => TrackInv /\ LateInv /\ ClosesInv
<1> SUFFICES ASSUME Init PROVE TrackInv /\ LateInv /\ ClosesInv
  OBVIOUS
<1>1. \A r, pcs : "idle" \notin pcs => ~Someone(r, pcs)
  BY DEF Init, Someone, Idle
<1>2. \A r : /\ ~Someone(r, {"schedule"}) /\ ~Someone(r, Deciding)
  BY <1>1 DEF Deciding
<1>3. ASSUME NEW r \in Raffles
      PROVE  /\ estado[r] = "SORTEADA" /\ delivery[r] = "PENDING"
             /\ confirmed[r] = "no" /\ dispute[r] = "NONE"
  BY DEF Init
<1> QED
  BY <1>2, <1>3 DEF TrackInv, Track, LateInv, Late, ClosesInv, Decisions

\* A dispute whose history says that it is pending is on the administrator's page.
LEMMA PendingIsListed ==
    ASSUME TypeOK, NEW r \in Raffles, dispute[r] # "NONE", "pending" \in Timeline(r)
    PROVE  r \in pendingDisputes
<1>1. dispute[r] \in {"NONE"} \cup ActiveDispute \cup Decisions
  BY DEF TypeOK
<1>2. dispute[r] \notin Decisions
  BY DEF Timeline
<1> QED
  BY <1>1, <1>2 DEF pendingDisputes

\* While no process dies, an order whose payout was not tried yet is never stuck
\* when at most two requests or cron runs overlap: however late their writes
\* land, a page offers a request that is accepted, the payout is due, or the
\* buyer's protection is running.
THEOREM OrdersMoveOnTheorem ==
    Fallible = {} /\ MaxActive <= 2 => (Spec => []OrdersMoveOn)
<1> SUFFICES ASSUME Fallible = {}, MaxActive <= 2 PROVE Spec => []OrdersMoveOn
  OBVIOUS
<1>1. Init => TrackInv /\ LateInv
  BY TrackInit
<1>2. SafetyInv /\ CountInv /\ TrackInv /\ LateInv /\ [Next]_vars => TrackInv' /\ LateInv'
  BY TrackStep, LateStep DEF SafetyInv, CountInv
<1>3. SafetyInv /\ TrackInv /\ LateInv => OrdersMoveOn
  <2> SUFFICES ASSUME SafetyInv, TrackInv, LateInv, NEW r \in Raffles
               PROVE  /\ (dispute[r] # "NONE" /\ "pending" \in Timeline(r))
                            => r \in pendingDisputes
                      /\ Waiting(r) => GoesOn(r)
    BY DEF OrdersMoveOn
  <2>1. ASSUME Waiting(r) PROVE ~(dispute[r] \in Decisions /\ delivery[r] = "DISPUTED")
    <3>1. ~Someone(r, {"close"})
      BY <2>1, SomeoneBusy DEF Waiting
    <3> QED
      BY <2>1, <3>1 DEF LateInv, Late, Waiting
  <2> QED
    BY <2>1, TrackedGoesOn, PendingIsListed DEF SafetyInv
<1> QED
  BY <1>1, <1>2, <1>3, CountInductive, PTL DEF Spec

\* However many overlap, there is one way to get stuck: the dispute is decided and
\* the order, back in EN_ENTREGA, is marked DISPUTED by a dispute opened late.
THEOREM StuckOnlyDecidedTheorem == Fallible = {} => (Spec => []StuckOnlyDecided)
<1> SUFFICES ASSUME Fallible = {} PROVE Spec => []StuckOnlyDecided
  OBVIOUS
<1>1. Init => TrackInv /\ ClosesInv
  BY TrackInit
<1>2. SafetyInv /\ TrackInv /\ ClosesInv /\ [Next]_vars => TrackInv' /\ ClosesInv'
  BY TrackStep, ClosesStep DEF SafetyInv
<1>3. SafetyInv /\ TrackInv /\ ClosesInv => StuckOnlyDecided
  <2> SUFFICES ASSUME SafetyInv, TrackInv, ClosesInv, NEW r \in Raffles, Waiting(r)
               PROVE  \/ GoesOn(r)
                      \/ /\ dispute[r] \in Decisions /\ estado[r] = "EN_ENTREGA"
                         /\ delivery[r] = "DISPUTED"
    BY DEF StuckOnlyDecided
  <2>1. dispute[r] \in Decisions => estado[r] # "SORTEADA"
    <3>1. ~Someone(r, {"close"})
      BY SomeoneBusy DEF Waiting
    <3> QED
      BY <3>1 DEF ClosesInv
  <2>2. estado[r] \in {"SORTEADA", "EN_ENTREGA"}
    BY DEF SafetyInv, TypeOK, Estados, Waiting
  <2> QED
    BY <2>1, <2>2, TrackedGoesOn DEF SafetyInv
<1> QED
  BY <1>1, <1>2, <1>3, SafetyInductive, PTL DEF Spec

-----------------------------------------------------------------------------
(* Reversals.  The balance is credited before the entry is written, by one  *)
(* worker, which may die in between: the credits are at least the entries   *)
(* and the workers that are still to write theirs.                          *)

Entering(r) == {w \in Workers : job[w].pc = "entry" /\ job[w].r = r}

EntryInv == \A r \in Raffles : reversals[r] + Cardinality(Entering(r)) <= credited[r]

\* Only a payout that failed moves the credits or their entries.
LEMMA CreditFrame ==
    ASSUME Next
    PROVE  \/ UNCHANGED <<credited, reversals>>
           \/ \E w \in Workers : \/ ReversePayable(w, job[w].r) /\ UNCHANGED reversals
                                 \/ RecordReversal(w)
<1> USE DEF raffleVars, disputeVars, payoutVars, moneyVars
<1>1. ASSUME NEW h \in Handlers, NEW r \in Raffles, StartRequest(h, r)
      PROVE  UNCHANGED <<credited, reversals>>
  BY <1>1 DEF StartRequest, MarkAsShipped, ConfirmDelivery, OpenDispute, RespondDispute,
         ResolveDispute, StartResolution, ProcessDuePayout, ReleasePayoutManually,
         SyncProviderPayout
<1>2. ASSUME NEW c \in Crons, NEW r \in Raffles, StartCron(c, r)
      PROVE  UNCHANGED <<credited, reversals>>
  BY <1>2 DEF StartCron, AutoRelease, AutoRefundOldDispute, StartResolution,
         ProcessDuePayout
<1>3. ASSUME NEW w \in Workers, DeliveryStep(w) \/ DisputeStep(w) \/ Abort(w)
      PROVE  UNCHANGED <<credited, reversals>>
  BY <1>3 DEF DeliveryStep, DisputeStep, Abort, WriteShipped, WriteConfirmed, Confirm,
         SchedulePayout, MarkDisputed, CreateDispute, WriteResponse, DisputeRefund,
         WriteResolution, CloseDispute
<1>4. ASSUME NEW w \in Workers, PayoutStep(w), ~RecordReversal(w)
      PROVE  \/ UNCHANGED <<credited, reversals>>
             \/ ReversePayable(w, job[w].r) /\ UNCHANGED reversals
  BY <1>4 DEF PayoutStep, AutoConfirm, Confirm, PreparePayout, CheckPending,
         CheckRelease, MarkProcessing, CheckFunds, CallProvider, RecordAccepted,
         FinishPayout, CatchFailure, WriteFailed, ApplySync
<1>5. ASSUME NEW r \in Raffles, Environment(r) PROVE UNCHANGED <<credited, reversals>>
  BY <1>5 DEF Environment, ProviderSettles, SevenDaysAfterDraw, ProtectionEnds, DisputeAges
<1> HIDE DEF raffleVars, disputeVars, payoutVars, moneyVars
<1> QED
  BY <1>1, <1>2, <1>3, <1>4, <1>5, NextCases

\* A worker joins with the credit and leaves with its entry, or dies.
LEMMA EntryStep ==
    ASSUME TypeOK, EntryInv, Next
    PROVE  EntryInv'
<1> SUFFICES ASSUME NEW r \in Raffles
             PROVE  reversals'[r] + Cardinality(Entering(r)') <= credited'[r]
  BY DEF EntryInv
<1>0. /\ IsFiniteSet(Entering(r)) /\ Cardinality(Entering(r)) \in Nat
      /\ Cardinality(Entering(r)') \in Nat
      /\ reversals[r] \in Nat /\ credited[r] \in Nat
      /\ reversals[r] + Cardinality(Entering(r)) <= credited[r]
  BY WorkersFinite DEF Entering, EntryInv, TypeOK
<1>1. CASE /\ reversals'[r] = reversals[r] /\ credited'[r] = credited[r]
           /\ Entering(r)' \subseteq Entering(r)
  <2>1. Cardinality(Entering(r)') <= Cardinality(Entering(r))
    BY <1>1, FewerWorkers DEF Entering
  <2> QED
    BY <1>0, <1>1, <2>1
<1>2. CASE UNCHANGED <<credited, reversals>>
  <2>1. ASSUME NEW w \in Workers, Moves(w), job'[w].pc = "entry" PROVE FALSE
    <3>1. credited' = [credited EXCEPT ![job[w].r] = @ + 1]
      BY <2>1 DEF Moves, ReversePayable
    <3>2. job[w].r \in Raffles /\ credited[job[w].r] \in Nat
      BY DEF TypeOK, Job
    <3> QED
      BY <1>2, <3>1, <3>2 DEF TypeOK
  <2>2. ASSUME NEW w \in Workers, Moves(w) PROVE Entering(r)' \subseteq Entering(r)
    BY <2>1, <2>2 DEF Moves, Entering
  <2>3. Entering(r)' \subseteq Entering(r)
    BY <2>2, EveryStepMoves DEF Entering
  <2> QED
    BY <1>1, <1>2, <2>3
<1>3. ASSUME NEW w \in Workers, GoTo(w, "entry") \/ GoTo(w, "fail")
      PROVE  /\ job[w].r \in Raffles /\ job'[w].r = job[w].r
             /\ GoTo(w, "entry") => job'[w].pc = "entry"
             /\ GoTo(w, "fail") => job'[w].pc = "fail"
             /\ \A v \in Workers \ {w} : job'[v] = job[v]
  BY <1>3 DEF GoTo, TypeOK, Job
<1>4. ASSUME NEW w \in Workers, ReversePayable(w, job[w].r), UNCHANGED reversals
      PROVE  reversals'[r] + Cardinality(Entering(r)') <= credited'[r]
  <2>0. GoTo(w, "entry")
    BY <1>4 DEF ReversePayable
  <2>1. CASE r = job[w].r
    <3>1. credited'[r] = credited[r] + 1 /\ reversals'[r] = reversals[r]
      BY <1>4, <2>1 DEF ReversePayable, TypeOK
    <3>2. Entering(r)' \subseteq Entering(r) \cup {w}
      BY <1>3, <2>0 DEF Entering
    <3>3. Cardinality(Entering(r)') <= Cardinality(Entering(r) \cup {w})
      BY <3>2, FewerWorkers DEF Entering
    <3>4. \/ Cardinality(Entering(r) \cup {w}) = Cardinality(Entering(r))
          \/ Cardinality(Entering(r) \cup {w}) = Cardinality(Entering(r)) + 1
      BY <1>0, FS_AddElement
    <3> QED
      BY <1>0, <3>1, <3>3, <3>4
  <2>2. CASE r # job[w].r
    <3>1. credited'[r] = credited[r] /\ reversals'[r] = reversals[r]
      BY <1>3, <1>4, <2>0, <2>2 DEF ReversePayable, TypeOK
    <3>2. Entering(r)' \subseteq Entering(r)
      BY <1>3, <2>0, <2>2 DEF Entering
    <3> QED
      BY <1>1, <3>1, <3>2
  <2> QED
    BY <2>1, <2>2
<1>5. ASSUME NEW w \in Workers, RecordReversal(w)
      PROVE  reversals'[r] + Cardinality(Entering(r)') <= credited'[r]
  <2>0. GoTo(w, "fail") /\ job[w].pc = "entry"
    BY <1>5 DEF RecordReversal
  <2>1. CASE r = job[w].r
    <3>1. credited'[r] = credited[r] /\ reversals'[r] = reversals[r] + 1
      BY <1>5, <2>1 DEF RecordReversal, TypeOK
    <3>2. Entering(r)' = Entering(r) \ {w} /\ w \in Entering(r)
      BY <1>3, <2>0, <2>1 DEF Entering
    <3>3. Cardinality(Entering(r)') = Cardinality(Entering(r)) - 1
      BY <1>0, <3>2, FS_RemoveElement
    <3> QED
      BY <1>0, <3>1, <3>3
  <2>2. CASE r # job[w].r
    <3>1. credited'[r] = credited[r] /\ reversals'[r] = reversals[r]
      BY <1>3, <1>5, <2>0, <2>2 DEF RecordReversal, TypeOK
    <3>2. Entering(r)' \subseteq Entering(r)
      BY <1>3, <2>0, <2>2 DEF Entering
    <3> QED
      BY <1>1, <3>1, <3>2
  <2> QED
    BY <2>1, <2>2
<1> QED
  BY <1>2, <1>4, <1>5, CreditFrame

\* The credits stay ahead of their entries.
LEMMA EntryInductive == Spec => []EntryInv
<1>1. Init => EntryInv
  <2> SUFFICES ASSUME Init, NEW r \in Raffles
               PROVE  reversals[r] + Cardinality(Entering(r)) <= credited[r]
    BY DEF EntryInv
  <2>1. Entering(r) = {}
    BY DEF Init, Idle, Entering
  <2>2. Cardinality({}) = 0 /\ reversals[r] = 0 /\ credited[r] = 0
    BY FS_EmptySet DEF Init
  <2> QED
    BY <2>1, <2>2
<1>2. TypeOK /\ EntryInv /\ [Next]_vars => EntryInv'
  <2>1. ASSUME EntryInv, UNCHANGED vars PROVE EntryInv'
    BY <2>1 DEF EntryInv, Entering, vars, moneyVars
  <2> QED
    BY <2>1, EntryStep
<1> QED
  BY <1>1, <1>2, TypeCorrect, PTL DEF Spec

\* The seller's payable is credited back only where it was debited before, and
\* however often workers die between a credit and its entry, the ledger never
\* shows more reversals than the balance received.
THEOREM ReversalTheorem == Spec => []ReversalsAreBacked
<1>1. SafetyInv /\ EntryInv => ReversalsAreBacked
  <2> SUFFICES ASSUME SafetyInv, EntryInv, NEW r \in Raffles
               PROVE  (credited[r] > 0 => debits[r] > 0) /\ reversals[r] <= credited[r]
    BY DEF ReversalsAreBacked
  <2>1. Cardinality(Entering(r)) \in Nat /\ reversals[r] \in Nat /\ credited[r] \in Nat
    BY WorkersFinite DEF Entering, SafetyInv, TypeOK
  <2> QED
    BY <2>1 DEF SafetyInv, RaffleInv, EntryInv
<1> QED
  BY <1>1, SafetyInductive, EntryInductive, PTL

-----------------------------------------------------------------------------
(* The promise of an order.  Only the workers that pay, refund or take back *)
(* touch what was promised; each of their steps is a step of the promise,   *)
(* whatever happened since the worker read the order.                       *)

\* A worker that is about to debit the payable was told that the transfer is
\* under way or completed, so the provider knows it.
CalledInv == \A w \in Workers : job[w].pc = "record" => provider[job[w].r] # "none"

\* The provider never forgets a transfer, and only a call that it answered sends
\* a worker to the debit.
LEMMA CalledStep ==
    ASSUME SafetyInv, CalledInv, Next
    PROVE  CalledInv'
<1>0. TypeOK
  BY DEF SafetyInv
<1>1. ASSUME NEW r \in Raffles, provider[r] # "none" PROVE provider'[r] # "none"
  <2>1. ASSUME NEW w \in Workers, CallProvider(w) PROVE provider'[r] # "none"
    BY <1>0, <1>1, <2>1 DEF CallProvider, TypeOK
  <2>2. ASSUME NEW w \in Workers, RecordAccepted(w) PROVE UNCHANGED provider
    BY <2>2 DEF RecordAccepted
  <2>3. ASSUME NEW q \in Raffles, ProviderSettles(q) PROVE provider'[r] # "none"
    BY <1>0, <1>1, <2>3 DEF ProviderSettles, TypeOK
  <2>4. ASSUME NEW q \in Raffles, ProtectionEnds(q) PROVE UNCHANGED provider
    BY <2>4 DEF ProtectionEnds
  <2> QED
    BY <1>1, <2>1, <2>2, <2>3, <2>4, Frame
<1>2. ASSUME NEW w \in Workers, job'[w].pc = "record"
      PROVE  provider'[job'[w].r] # "none"
  <2>1. CASE job'[w] = job[w]
    BY <1>0, <1>1, <1>2, <2>1 DEF CalledInv, TypeOK, Job
  <2>2. CASE Moves(w)
    BY <1>2, <2>2 DEF Moves, Pipeline
  <2> QED
    BY <1>0, <2>1, <2>2, EveryStepMoves DEF Moves
<1> QED
  BY <1>2 DEF CalledInv

\* Every other step leaves everything as it is that was promised.
LEMMA SilentOrderSteps ==
    ASSUME Next
    PROVE  \/ UNCHANGED Promise!promised
           \/ \E w \in Workers : \/ CallProvider(w) \/ RecordAccepted(w)
                                 \/ DisputeRefund(w) \/ FinishPayout(w)
                                 \/ CatchFailure(w) \/ RecordReversal(w)
                                 \/ ApplySync(w)
           \/ \E r \in Raffles : ProviderSettles(r) \/ ProtectionEnds(r)
<1> USE DEF raffleVars, disputeVars, payoutVars, moneyVars, Promise!promised
<1>1. ASSUME NEW h \in Handlers, NEW r \in Raffles, StartRequest(h, r)
      PROVE  UNCHANGED Promise!promised
  BY <1>1 DEF StartRequest, MarkAsShipped, ConfirmDelivery, OpenDispute, RespondDispute,
         ResolveDispute, StartResolution, ProcessDuePayout, ReleasePayoutManually,
         SyncProviderPayout
<1>2. ASSUME NEW c \in Crons, NEW r \in Raffles, StartCron(c, r)
      PROVE  UNCHANGED Promise!promised
  BY <1>2 DEF StartCron, AutoRelease, AutoRefundOldDispute, StartResolution,
         ProcessDuePayout
<1>3. ASSUME NEW w \in Workers, DeliveryStep(w) PROVE UNCHANGED Promise!promised
  BY <1>3 DEF DeliveryStep, WriteShipped, WriteConfirmed, Confirm, SchedulePayout
<1>4. ASSUME NEW w \in Workers, DisputeStep(w), ~DisputeRefund(w)
      PROVE  UNCHANGED Promise!promised
  BY <1>4 DEF DisputeStep, MarkDisputed, CreateDispute, WriteResponse, WriteResolution,
         CloseDispute
<1>5. ASSUME NEW w \in Workers, PayoutStep(w), ~CallProvider(w), ~RecordAccepted(w),
             ~FinishPayout(w), ~CatchFailure(w), ~RecordReversal(w), ~ApplySync(w)
      PROVE  UNCHANGED Promise!promised
  BY <1>5 DEF PayoutStep, AutoConfirm, Confirm, PreparePayout, CheckPending,
         CheckRelease, MarkProcessing, CheckFunds, WriteFailed
<1>6. ASSUME NEW w \in Workers, Abort(w) PROVE UNCHANGED Promise!promised
  BY <1>6 DEF Abort
<1>7. ASSUME NEW r \in Raffles, Environment(r), ~ProviderSettles(r), ~ProtectionEnds(r)
      PROVE  UNCHANGED Promise!promised
  BY <1>7 DEF Environment, SevenDaysAfterDraw, DisputeAges
<1> HIDE DEF raffleVars, disputeVars, payoutVars, moneyVars, Promise!promised
<1> QED
  BY <1>1, <1>2, <1>3, <1>4, <1>5, <1>6, <1>7, NextCases

\* A call orders the transfer, after the window, or repeats what is known of it.
LEMMA CallTransfers ==
    ASSUME SafetyInv, NEW w \in Workers, CallProvider(w)
    PROVE  UNCHANGED Promise!promised \/ Promise!Next
<1> DEFINE r == job[w].r
<1>1. TypeOK /\ r \in Raffles /\ protected[r]
  BY DEF SafetyInv, JobInv, JobOK, CallProvider, Releasing, TypeOK, Job
<1>2. PICK st \in ProviderStatus : /\ provider' = [provider EXCEPT ![r] = st]
                                   /\ provider[r] # "none" => st = provider[r]
  BY <1>1 DEF CallProvider, TypeOK
<1>3. UNCHANGED <<protected, payable, debits, credited, reversals, refunded, tickets,
                 released>>
  BY DEF CallProvider, raffleVars, disputeVars, moneyVars
<1>4. CASE st = "none" \/ provider[r] \notin {"none", "processing"}
  <2>1. provider' = provider
    BY <1>1, <1>2, <1>4 DEF TypeOK
  <2> QED
    BY <1>3, <2>1 DEF Promise!promised
<1>5. CASE st # "none" /\ provider[r] \in {"none", "processing"}
  <2>1. st \in {"processing", "completed", "failed"}
    BY <1>2, <1>5 DEF ProviderStatus
  <2>2. Promise!Transfer(r)
    BY <1>1, <1>2, <1>3, <1>5, <2>1 DEF Promise!Transfer
  <2> QED
    BY <1>1, <2>2 DEF Promise!Next
<1> QED
  BY <1>4, <1>5

\* The debit is taken for a transfer that was ordered, and not too often.
LEMMA RecordTakes ==
    ASSUME SafetyInv, OnceInv, CalledInv, DebitsBoundedByOverlap',
           NEW w \in Workers, RecordAccepted(w)
    PROVE  UNCHANGED Promise!promised \/ Promise!Next
<1> DEFINE r == job[w].r
<1>1. TypeOK /\ r \in Raffles /\ protected[r] /\ provider[r] # "none"
  BY DEF SafetyInv, OnceInv, CalledInv, RecordAccepted, TypeOK, Job
<1>2. UNCHANGED <<protected, provider, credited, reversals, refunded, tickets, released>>
  BY DEF RecordAccepted, raffleVars, disputeVars
<1>3. CASE payable[SellerOf[r]] >= NetAmount
  <2>1. /\ payable' = [payable EXCEPT ![SellerOf[r]] = @ - NetAmount]
        /\ debits' = [debits EXCEPT ![r] = @ + 1]
    BY <1>1, <1>3, SettlementConstants DEF RecordAccepted, TypeOK
  <2>2. debits[r] < MaxActive
    BY <1>1, <2>1, SettlementConstants DEF DebitsBoundedByOverlap, TypeOK
  <2>3. Promise!Take(r)
    BY <1>1, <1>2, <1>3, <2>1, <2>2 DEF Promise!Take
  <2> QED
    BY <1>1, <2>3 DEF Promise!Next
<1>4. CASE ~(payable[SellerOf[r]] >= NetAmount)
  BY <1>2, <1>4 DEF RecordAccepted, Promise!promised
<1> QED
  BY <1>3, <1>4

\* A refund is repaid from what is held, before anything was handed over.
LEMMA RefundRepays ==
    ASSUME SafetyInv, NEW w \in Workers, DisputeRefund(w)
    PROVE  UNCHANGED Promise!promised \/ Promise!Next
<1> DEFINE r == job[w].r
           amount == job[w].amount
<1>1. TypeOK /\ r \in Raffles /\ amount \in Nat
  BY DEF SafetyInv, TypeOK, Job
<1>2. UNCHANGED <<protected, provider, debits, credited, reversals, released>>
  BY DEF DisputeRefund, raffleVars, payoutVars
<1>3. CASE Refundable(r, amount)
  <2>1. /\ payable'  = [payable EXCEPT ![SellerOf[r]] = @ - amount]
        /\ refunded' = [refunded EXCEPT ![r] = @ + amount]
        /\ tickets'  = [tickets EXCEPT ![r] = LET n == amount \div TicketPrice
                                              IN  IF n < @ THEN @ - n ELSE 0]
    BY <1>3 DEF DisputeRefund
  <2>2. refunded'[r] - refunded[r] = amount
    <3>1. refunded[r] \in Nat /\ refunded'[r] = refunded[r] + amount
      BY <1>1, <2>1 DEF TypeOK
    <3> QED
      BY <1>1, <3>1
  <2>3. /\ ~released[r] /\ tickets[r] > 0 /\ payable[SellerOf[r]] >= amount
        /\ amount \in 0 .. tickets[r] * TicketPrice + 1
    <3>1. ~released[r] /\ tickets[r] > 0 /\ amount <= Owed(r) + 1
          /\ amount <= payable[SellerOf[r]]
      BY <1>3 DEF Refundable
    <3>2. Owed(r) \in Nat /\ payable[SellerOf[r]] \in Nat
      BY <1>1, SettlementConstants DEF Owed, TypeOK
    <3>3. amount \in 0 .. Owed(r) + 1 /\ payable[SellerOf[r]] >= amount
      BY <1>1, <3>1, <3>2
    <3> QED
      BY <3>1, <3>3 DEF Owed
  <2> HIDE DEF r, amount
  <2>4. Promise!Repay(r)
    BY <1>2, <2>1, <2>2, <2>3 DEF Promise!Repay
  <2> QED
    BY <1>1, <2>4 DEF Promise!Next
<1>4. CASE ~Refundable(r, amount)
  BY <1>2, <1>4 DEF DisputeRefund, Promise!promised
<1> QED
  BY <1>3, <1>4

\* A payout that is completed hands the share over, once the transfer went
\* through and was debited.
LEMMA CompleteHandsOver ==
    ASSUME SafetyInv, OnceInv, NEW r \in Raffles, Complete(r),
           provider[r] = "completed", debits[r] > 0,
           UNCHANGED <<protected, provider, payable, debits, credited, reversals, refunded,
                       tickets>>
    PROVE  Promise!Next
<1>1. protected[r]
  BY DEF OnceInv
<1>2. Promise!HandOver(r)
  BY <1>1 DEF Complete, Promise!HandOver
<1> QED
  BY <1>2 DEF Promise!Next

\* A debit that is reversed is given back.
LEMMA ReversalGivesBack ==
    ASSUME NEW w, NEW r \in Raffles, ReversePayable(w, r), debits[r] > 0,
           UNCHANGED <<protected, provider, debits, reversals, refunded, tickets, released>>
    PROVE  Promise!Next
<1>1. Promise!GiveBack(r)
  BY DEF ReversePayable, Promise!GiveBack
<1> QED
  BY <1>1 DEF Promise!Next

\* The entry of a reversal follows a credit that has none yet.
LEMMA EntryNotes ==
    ASSUME TypeOK, EntryInv, NEW w \in Workers, RecordReversal(w)
    PROVE  Promise!Next
<1> DEFINE r == job[w].r
<1>1. r \in Raffles /\ reversals[r] \in Nat /\ credited[r] \in Nat
  BY DEF TypeOK, Job
<1>2. w \in Entering(r)
  BY DEF RecordReversal, Entering
<1>3. Cardinality(Entering(r)) \in Nat /\ Cardinality(Entering(r)) # 0
  BY <1>2, WorkersFinite, FS_EmptySet DEF Entering
<1>4. reversals[r] < credited[r]
  BY <1>1, <1>3 DEF EntryInv
<1>5. Promise!Note(r)
  BY <1>4 DEF RecordReversal, Promise!Note, raffleVars, disputeVars, payoutVars
<1> QED
  BY <1>1, <1>5 DEF Promise!Next

\* Each step of the requests, the cron runs and their environment is a step of
\* the promise, or touches nothing that was promised.
LEMMA OrderSimulation ==
    ASSUME SafetyInv, OnceInv, CalledInv, EntryInv, DebitsBoundedByOverlap', [Next]_vars
    PROVE  [Promise!Next]_(Promise!promised)
<1>0. TypeOK
  BY DEF SafetyInv
<1>1. ASSUME NEW w \in Workers,
             CallProvider(w) \/ RecordAccepted(w) \/ DisputeRefund(w) \/ RecordReversal(w)
      PROVE  UNCHANGED Promise!promised \/ Promise!Next
  BY <1>0, <1>1, CallTransfers, RecordTakes, RefundRepays, EntryNotes
<1>2. ASSUME NEW w \in Workers, FinishPayout(w) \/ ApplySync(w) \/ CatchFailure(w)
      PROVE  UNCHANGED Promise!promised \/ Promise!Next
  <2>1. /\ job[w].r \in Raffles /\ JobOK(job[w], protected, debits, provider)
        /\ debits[job[w].r] \in Nat
    BY <1>0 DEF SafetyInv, JobInv, TypeOK, Job
  <2>2. UNCHANGED <<protected, provider, debits, reversals, refunded, tickets>>
    BY <1>2 DEF FinishPayout, ApplySync, CatchFailure, raffleVars, disputeVars, payoutVars,
                moneyVars
  <2>3. CASE job[w].pc \in {"finish", "syncResult"} /\ job[w].seen = "completed"
             /\ Complete(job[w].r) /\ UNCHANGED <<payable, credited>>
    <3>1. provider[job[w].r] = "completed" /\ debits[job[w].r] > 0
      BY <2>1, <2>3 DEF JobOK
    <3> QED
      BY <2>1, <2>2, <2>3, <3>1, CompleteHandsOver
  <2>4. CASE ReversePayable(w, job[w].r) /\ debits[job[w].r] > 0 /\ UNCHANGED released
    BY <2>1, <2>2, <2>4, ReversalGivesBack
  <2>5. CASE UNCHANGED <<payable, credited, released>>
    BY <2>2, <2>5 DEF Promise!promised
  <2>6. CASE FinishPayout(w)
    BY <2>3, <2>5, <2>6 DEF FinishPayout, moneyVars
  <2>7. CASE ApplySync(w)
    <3>1. debits[job[w].r] > 0
      BY <2>1, <2>7 DEF ApplySync, JobOK
    <3> QED
      BY <2>3, <2>4, <2>7, <3>1 DEF ApplySync
  <2>8. CASE CatchFailure(w)
    BY <2>4, <2>5, <2>8 DEF CatchFailure, raffleVars
  <2> QED
    BY <1>2, <2>6, <2>7, <2>8
<1>3. ASSUME NEW r \in Raffles, ProviderSettles(r) PROVE Promise!Next
  <2>1. Promise!Transfer(r)
    BY <1>3 DEF ProviderSettles, Promise!Transfer, raffleVars, disputeVars, moneyVars
  <2> QED
    BY <2>1 DEF Promise!Next
<1>4. ASSUME NEW r \in Raffles, ProtectionEnds(r) PROVE Promise!Next
  <2>1. Promise!EndProtection(r)
    BY <1>4 DEF ProtectionEnds, Promise!EndProtection, disputeVars, moneyVars
  <2> QED
    BY <2>1 DEF Promise!Next
<1>5. CASE UNCHANGED vars
  BY <1>5 DEF vars, raffleVars, disputeVars, payoutVars, moneyVars, Promise!promised
<1>6. CASE Next
  BY <1>1, <1>2, <1>3, <1>4, <1>6, SilentOrderSteps
<1> QED
  BY <1>5, <1>6

\* Requests, cron runs and administrators that act on what they read some steps
\* ago together keep what the platform promises about the money of an order: the
\* transfer to the seller is ordered after the buyer's window, debited only once
\* it was ordered and at most as often as workers overlap, a credit given back
\* enters the ledger after the balance and at most once, and what was handed over
\* is never repaid to the winner.
THEOREM OrderPromiseTheorem == Spec => KeepsOrderPromise
<1>1. Init => Promise!Init
  BY DEF Init, Promise!Init
<1>2. Init => CalledInv
  BY DEF Init, CalledInv, Idle
<1>3. SafetyInv /\ CalledInv /\ [Next]_vars => CalledInv'
  <2>1. ASSUME CalledInv, UNCHANGED vars PROVE CalledInv'
    BY <2>1 DEF CalledInv, vars, payoutVars
  <2> QED
    BY <2>1, CalledStep
<1>4. Spec => []CalledInv
  BY <1>2, <1>3, SafetyInductive, PTL DEF Spec
<1>5. SafetyInv /\ OnceInv /\ CalledInv /\ EntryInv /\ DebitsBoundedByOverlap' /\ [Next]_vars
        => [Promise!Next]_(Promise!promised)
  BY OrderSimulation
<1> QED
  BY <1>1, <1>4, <1>5, CountInductive, EntryInductive, DebitTheorem, PTL
     DEF Spec, KeepsOrderPromise, Promise!Spec, Promise!promised
=============================================================================
