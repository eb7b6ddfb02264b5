---------------------------- MODULE TopUpsProofs ----------------------------
(***************************************************************************)
(* Proofs about charging Saldo LUK, for every number of users, sessions,   *)
(* payments and concurrent handlers.                                       *)
(***************************************************************************)
EXTENDS TopUpPages, SumsProofs

PCs == {"idle", "provider", "find", "credit", "event", "webhookEvent", "refund"}

\* The part of TypeOK that is about the running handlers.
RequestsOK == req \in [Requests -> Request] /\ HandlersOK

\* The record of a handler that is not running is well typed.
LEMMA IdleIsRequest == Idle \in Request
<1>1. (CHOOSE s \in Sessions : TRUE) \in Sessions
  BY TopUpConstants
<1> QED
  BY <1>1 DEF Idle, Request, ProviderStatus

\* A handler that moves to a step its kind allows keeps the table well typed.
LEMMA GoToType ==
    ASSUME RequestsOK, NEW r \in Requests, NEW pc \in PCs, GoTo(r, pc), Busy(r),
           req[r].kind = "mock" => pc \in {"idle", "find", "credit", "refund"}
    PROVE  RequestsOK'
<1>1. req[r] \in Request
  BY DEF RequestsOK
<1>2. [req[r] EXCEPT !.pc = pc] \in Request
  BY <1>1 DEF Request, PCs
<1>3. req' \in [Requests -> Request]
  BY <1>1, <1>2, IdleIsRequest DEF GoTo, RequestsOK
<1>4. HandlersOK'
  <2> SUFFICES ASSUME NEW q \in Requests, Busy(q)'
               PROVE  IF req'[q].kind = "mock"
                      THEN /\ req'[q].pc \in {"find", "credit", "refund"}
                           /\ req'[q].seen = "approved"
                      ELSE req'[q].p \in Payments
    BY DEF HandlersOK
  <2>1. CASE q # r
    BY <2>1 DEF GoTo, RequestsOK, HandlersOK, Busy
  <2>2. CASE q = r
    <3>1. pc # "idle" /\ req'[r] = [req[r] EXCEPT !.pc = pc]
      BY <2>2 DEF GoTo, RequestsOK, Busy, Idle
    <3> QED
      BY <1>1, <2>2, <3>1 DEF RequestsOK, HandlersOK, Request
  <2> QED
    BY <2>1, <2>2
<1> QED
  BY <1>3, <1>4 DEF RequestsOK

\* A handler that starts keeps the table well typed.
LEMMA StartType ==
    ASSUME RequestsOK, NEW r \in Requests, NEW x \in Request,
           req' = [req EXCEPT ![r] = x],
           IF x.kind = "mock"
           THEN x.pc \in {"find", "credit", "refund"} /\ x.seen = "approved"
           ELSE x.p \in Payments
    PROVE  RequestsOK'
  BY DEF RequestsOK, HandlersOK, Busy

\* The initial state has the shape TypeOK describes.
LEMMA InitType == Init => TypeOK
<1> SUFFICES ASSUME Init PROVE TypeOK
  OBVIOUS
<1>1. req \in [Requests -> Request]
  BY IdleIsRequest DEF Init
<1>2. HandlersOK
  <2>1. Idle.pc = "idle"
    BY DEF Idle
  <2> QED
    BY <2>1 DEF Init, HandlersOK, Busy
<1> QED
  BY <1>1, <1>2, TopUpConstants DEF Init, TypeOK, TopUpStatus, ProviderStatus

\* Every step keeps it.
LEMMA NextType == TypeOK /\ [Next]_vars => TypeOK'
<1> SUFFICES ASSUME TypeOK, [Next]_vars PROVE TypeOK'
  OBVIOUS
<1> USE TopUpConstants DEF sessionVars, walletVars
<1>a. RequestsOK
  BY DEF TypeOK, RequestsOK
<1>1. ASSUME NEW s \in Sessions, SessionStep(s) PROVE TypeOK'
  BY <1>1 DEF TypeOK, SessionStep, CreateCreditTopUp, OpenCheckout, MockPend,
              MockRejectOrExpire, TopUpStatus, HandlersOK, Busy
<1>2. ASSUME NEW p \in Payments, Pay(p) \/ ProviderSettles(p) PROVE TypeOK'
  BY <1>2 DEF TypeOK, Pay, ProviderSettles, ProviderStatus, HandlersOK, Busy
<1>3. ASSUME NEW r \in Requests, ReadProvider(r) PROVE TypeOK'
  <2> DEFINE known == SyncEvent(req[r].p) \in events
             x == [req[r] EXCEPT !.pc = "find", !.seen = payment[req[r].p],
                                 !.existing = known]
  <2>1. req[r] \in Request /\ req[r].p \in Payments /\ req[r].kind # "mock"
    BY <1>3 DEF TypeOK, HandlersOK, Busy, ReadProvider
  <2>2. payment[req[r].p] \in ProviderStatus /\ known \in BOOLEAN
    BY <2>1 DEF TypeOK
  <2> HIDE DEF known
  <2>3. x \in Request /\ x.kind # "mock" /\ x.p \in Payments
    BY <2>1, <2>2 DEF Request
  <2>4. req' = [req EXCEPT ![r] = x]
    BY <1>3 DEF ReadProvider, known
  <2>5. RequestsOK'
    BY <1>a, <2>3, <2>4, StartType
  <2> QED
    BY <1>3, <2>5 DEF TypeOK, ReadProvider, RequestsOK
<1>4. ASSUME NEW r \in Requests, FindTopUp(r) PROVE TypeOK'
  <2>1. RequestsOK'
    BY <1>a, <1>4, GoToType DEF PCs, FindTopUp, AfterApply, Busy
  <2> QED
    BY <1>4, <2>1 DEF TypeOK, FindTopUp, RequestsOK
<1>5. ASSUME NEW r \in Requests, ApproveProviderTopUp(r) PROVE TypeOK'
  <2>1. RequestsOK'
    BY <1>a, <1>5, GoToType DEF PCs, ApproveProviderTopUp, AfterApply, Busy
  <2>2. req[r].s \in Sessions /\ Owner[req[r].s] \in Users
    BY DEF TypeOK, Request
  <2> QED
    BY <1>5, <2>1, <2>2 DEF TypeOK, ApproveProviderTopUp, TopUpStatus, RequestsOK
<1>6. ASSUME NEW r \in Requests, UpdateTopUpFromProvider(r) PROVE TypeOK'
  <2>1. RequestsOK'
    BY <1>a, <1>6, GoToType
       DEF PCs, UpdateTopUpFromProvider, Busy, RequestsOK, HandlersOK
  <2>2. mapProviderStatus(req[r].seen) \in TopUpStatus
    BY DEF mapProviderStatus, TopUpStatus
  <2> QED
    BY <1>6, <2>1, <2>2 DEF TypeOK, UpdateTopUpFromProvider, RequestsOK
<1>7. ASSUME NEW r \in Requests, RecordSyncEvent(r) \/ RecordWebhookEvent(r)
      PROVE  TypeOK'
  <2>1. req[r].p \in Payments /\ req[r].kind # "mock" /\ Busy(r)
    BY <1>7 DEF TypeOK, HandlersOK, Busy, RecordSyncEvent, RecordWebhookEvent
  <2>2. RequestsOK'
    BY <1>a, <1>7, <2>1, GoToType DEF PCs, RecordSyncEvent, RecordWebhookEvent
  <2>3. SyncEvent(req[r].p) \in EventIds /\ WebhookEvent(req[r].p) \in EventIds
    BY <2>1 DEF SyncEvent, WebhookEvent, EventIds
  <2>4. events' \in SUBSET EventIds
    BY <1>7, <2>3 DEF TypeOK, RecordSyncEvent, RecordWebhookEvent
  <2> QED
    BY <1>7, <2>2, <2>4
       DEF TypeOK, RecordSyncEvent, RecordWebhookEvent, RequestsOK
<1>8. ASSUME NEW r \in Requests, RefundTransaction(r) PROVE TypeOK'
  <2>1. RequestsOK'
    BY <1>a, <1>8, GoToType DEF PCs, RefundTransaction, Busy
  <2>2. /\ req[r].s \in Sessions /\ Owner[req[r].s] \in Users
        /\ req[r].amount \in Nat /\ req[r].before \in Nat
    BY DEF TypeOK, Request
  <2> QED
    BY <1>8, <2>1, <2>2 DEF TypeOK, RefundTransaction, TopUpStatus, RequestsOK
<1>9. ASSUME NEW r \in Requests, Abort(r) PROVE TypeOK'
  <2>1. RequestsOK'
    BY <1>a, <1>9, GoToType DEF PCs, Abort
  <2> QED
    BY <1>9, <2>1 DEF TypeOK, Abort, RequestsOK
<1>10. ASSUME NEW r \in Requests, NEW p \in Payments,
              HandleProviderWebhook(r, p) \/ PollPaymentStatus(r, p)
       PROVE  TypeOK'
  <2>1. PICK kind \in {"webhook", "poll"} : StartSync(r, p, kind)
    BY <1>10 DEF HandleProviderWebhook, PollPaymentStatus
  <2> DEFINE x == [req[r] EXCEPT !.pc = "provider", !.kind = kind, !.p = p,
                                 !.s = SessionOf[p]]
  <2>2. req[r] \in Request /\ SessionOf[p] \in Sessions
    BY DEF TypeOK
  <2>3. x \in Request /\ x.kind # "mock" /\ x.p \in Payments
    BY <2>2 DEF Request
  <2>4. RequestsOK'
    BY <1>a, <2>1, <2>3, StartType DEF StartSync
  <2> QED
    BY <1>10, <2>4 DEF TypeOK, HandleProviderWebhook, PollPaymentStatus, RequestsOK
<1>11. ASSUME NEW r \in Requests, NEW s \in Sessions,
              MockApprove(r, s) \/ RefundCreditTopUp(r, s)
       PROVE  TypeOK'
  <2>1. PICK pc \in {"find", "refund"}, amount \in Nat : StartMock(r, s, pc, amount)
    BY <1>11 DEF MockApprove, RefundCreditTopUp, TypeOK
  <2> DEFINE x == [req[r] EXCEPT !.pc = pc, !.kind = "mock", !.p = NoPayment,
                                 !.s = s, !.seen = "approved",
                                 !.amount = amount, !.before = refunded[s]]
  <2>2. req[r] \in Request /\ refunded[s] \in Nat
    BY DEF TypeOK
  <2>3. x \in Request /\ x.pc = pc /\ x.kind = "mock" /\ x.seen = "approved"
    BY <2>2 DEF Request, ProviderStatus
  <2>4. RequestsOK'
    BY <1>a, <2>1, <2>3, StartType DEF StartMock
  <2> QED
    BY <1>11, <2>4 DEF TypeOK, MockApprove, RefundCreditTopUp, RequestsOK
<1>12. ASSUME NEW u \in Users, SpendBalance(u) PROVE TypeOK'
  BY <1>12 DEF TypeOK, SpendBalance, HandlersOK, Busy
<1>13. CASE UNCHANGED vars
  BY <1>13 DEF TypeOK, vars, HandlersOK, Busy
<1> QED
  BY <1>1, <1>2, <1>3, <1>4, <1>5, <1>6, <1>7, <1>8, <1>9, <1>10, <1>11,
     <1>12, <1>13 DEF Next, RequestStep

\* Every state of charging has the shape TypeOK describes.
THEOREM TypeCorrect == Spec => []TypeOK
  BY InitType, NextType, PTL DEF Spec

-----------------------------------------------------------------------------
(* Overlap.  CreditsBoundedByOverlap is not inductive: a handler that has   *)
(* read an unprocessed session and not yet credited it will still do so.    *)
(* Those handlers are counted with the credits already made.                *)

InFlight(s) == {r \in Requests : req[r].pc = "credit" /\ req[r].s = s}

\* An unprocessed session has no credit, and the credits of a session plus the
\* handlers about to credit it are never more than the handlers there are.
OverlapInv ==
    \A s \in Sessions :
        /\ ~processed[s] => credits[s] = 0
        /\ credits[s] + Cardinality(InFlight(s)) <= Cardinality(Requests)

\* The handlers about to credit a session are finitely many.
LEMMA InFlightFinite ==
    ASSUME NEW s PROVE
        /\ IsFiniteSet(InFlight(s))
        /\ Cardinality(InFlight(s)) \in Nat
        /\ Cardinality(InFlight(s)) <= Cardinality(Requests)
        /\ Cardinality(Requests) \in Nat
  BY TopUpConstants, FS_Subset, FS_CardinalityType DEF InFlight

\* A step that credits nothing and lets no handler enter the credit step of a
\* session that may already be credited preserves the bound.
LEMMA OverlapStep ==
    ASSUME TypeOK, OverlapInv, UNCHANGED credits,
           \A s \in Sessions : /\ processed[s] => processed'[s]
                               /\ \/ InFlight(s)' \subseteq InFlight(s)
                                  \/ ~processed[s] /\ InFlight(s)' \subseteq Requests
    PROVE  OverlapInv'
<1> SUFFICES ASSUME NEW s \in Sessions
             PROVE  /\ ~processed'[s] => credits'[s] = 0
                    /\ credits'[s] + Cardinality(InFlight(s)') <= Cardinality(Requests)
  BY DEF OverlapInv
<1>0. credits[s] \in Nat
  BY DEF TypeOK
<1>1. ~processed'[s] => credits'[s] = 0
  BY DEF OverlapInv
<1>2. CASE InFlight(s)' \subseteq InFlight(s)
  <2>1. Cardinality(InFlight(s)') <= Cardinality(InFlight(s))
    BY <1>2, InFlightFinite, FS_Subset
  <2>2. Cardinality(InFlight(s)') \in Nat
    BY <1>2, InFlightFinite, FS_Subset, FS_CardinalityType
  <2> QED
    BY <1>0, <1>1, <2>1, <2>2, InFlightFinite DEF OverlapInv
<1>3. CASE ~processed[s] /\ InFlight(s)' \subseteq Requests
  <2>1. /\ Cardinality(InFlight(s)') <= Cardinality(Requests)
        /\ Cardinality(InFlight(s)') \in Nat
    BY <1>3, TopUpConstants, FS_Subset, FS_CardinalityType
  <2> QED
    BY <1>1, <1>3, <2>1 DEF OverlapInv
<1> QED
  BY <1>2, <1>3

\* What counts the handlers about to credit holds in every state.
LEMMA OverlapInductive == Spec => []OverlapInv
<1>1. Init => OverlapInv
  <2> SUFFICES ASSUME Init, NEW s \in Sessions
               PROVE  /\ ~processed[s] => credits[s] = 0
                      /\ credits[s] + Cardinality(InFlight(s)) <= Cardinality(Requests)
    BY DEF OverlapInv
  <2>1. credits[s] = 0
    BY DEF Init
  <2> QED
    BY <2>1, InFlightFinite
<1>2. TypeOK /\ OverlapInv /\ [Next]_vars => OverlapInv'
  <2> SUFFICES ASSUME TypeOK, OverlapInv, [Next]_vars PROVE OverlapInv'
    OBVIOUS
  <2> USE DEF sessionVars, walletVars
  <2>1. ASSUME NEW s \in Sessions, SessionStep(s) PROVE OverlapInv'
    BY <2>1, OverlapStep DEF TypeOK, SessionStep, CreateCreditTopUp, OpenCheckout,
                             MockPend, MockRejectOrExpire, InFlight
  <2>2. ASSUME NEW p \in Payments, Pay(p) \/ ProviderSettles(p) PROVE OverlapInv'
    BY <2>2, OverlapStep DEF TypeOK, Pay, ProviderSettles, InFlight
  <2>3. ASSUME NEW r \in Requests, NEW pc \in PCs, GoTo(r, pc), pc # "credit"
        PROVE  \A s \in Sessions : InFlight(s)' \subseteq InFlight(s)
    BY <2>3 DEF TypeOK, GoTo, InFlight, Idle, PCs, Request
  <2>4. ASSUME NEW r \in Requests,
               \/ ReadProvider(r) \/ UpdateTopUpFromProvider(r) \/ RecordSyncEvent(r)
               \/ RecordWebhookEvent(r) \/ RefundTransaction(r) \/ Abort(r)
        PROVE  OverlapInv'
    <3>1. \A s \in Sessions : InFlight(s)' \subseteq InFlight(s)
      <4>1. CASE ReadProvider(r)
        BY <4>1 DEF TypeOK, ReadProvider, InFlight, Request
      <4>2. CASE ~ReadProvider(r)
        BY <2>3, <2>4, <4>2 DEF PCs, UpdateTopUpFromProvider, RecordSyncEvent,
                  RecordWebhookEvent, RefundTransaction, Abort
      <4> QED
        BY <4>1, <4>2
    <3> QED
      BY <2>4, <3>1, OverlapStep
         DEF TypeOK, ReadProvider, UpdateTopUpFromProvider, RecordSyncEvent,
             RecordWebhookEvent, RefundTransaction, Abort
  <2>5. ASSUME NEW r \in Requests, FindTopUp(r) PROVE OverlapInv'
    <3>1. ASSUME NEW s \in Sessions
          PROVE  \/ InFlight(s)' \subseteq InFlight(s)
                 \/ ~processed[s] /\ InFlight(s)' \subseteq Requests
      BY <2>5 DEF TypeOK, FindTopUp, AfterApply, GoTo, InFlight, Idle, Request
    <3> QED
      BY <2>5, <3>1, OverlapStep DEF FindTopUp
  <2>6. ASSUME NEW r \in Requests, ApproveProviderTopUp(r) PROVE OverlapInv'
    <3> SUFFICES ASSUME NEW s \in Sessions
                 PROVE  /\ ~processed'[s] => credits'[s] = 0
                        /\ credits'[s] + Cardinality(InFlight(s)')
                             <= Cardinality(Requests)
      BY DEF OverlapInv
    <3>1. /\ InFlight(s)' = InFlight(s) \ {r}
          /\ r \in InFlight(s) <=> s = req[r].s
      BY <2>6 DEF TypeOK, ApproveProviderTopUp, AfterApply, GoTo, InFlight, Idle,
                  Request
    <3>2. CASE s = req[r].s
      <4>1. credits'[s] = credits[s] + 1 /\ processed'[s] /\ credits[s] \in Nat
        <5>1. credits' = [credits EXCEPT ![s] = @ + 1]
          BY <2>6, <3>2 DEF ApproveProviderTopUp
        <5>2. processed' = [processed EXCEPT ![s] = TRUE]
          BY <2>6, <3>2 DEF ApproveProviderTopUp
        <5> QED
          BY <5>1, <5>2 DEF TypeOK
      <4>2. Cardinality(InFlight(s)') = Cardinality(InFlight(s)) - 1
        <5>1. IsFiniteSet(InFlight(s)) /\ r \in InFlight(s)
          BY <3>1, <3>2, InFlightFinite
        <5>2. Cardinality(InFlight(s) \ {r}) = Cardinality(InFlight(s)) - 1
          BY <5>1, FS_RemoveElement
        <5> QED
          BY <3>1, <5>2
      <4> QED
        BY <4>1, <4>2, InFlightFinite DEF OverlapInv
    <3>3. CASE s # req[r].s
      <4>1. credits'[s] = credits[s] /\ processed'[s] = processed[s]
        BY <2>6, <3>3 DEF TypeOK, ApproveProviderTopUp
      <4>2. InFlight(s)' = InFlight(s)
        BY <3>1, <3>3
      <4> QED
        BY <4>1, <4>2 DEF OverlapInv
    <3> QED
      BY <3>2, <3>3
  <2>7. ASSUME NEW r \in Requests, NEW p \in Payments,
               HandleProviderWebhook(r, p) \/ PollPaymentStatus(r, p)
        PROVE  OverlapInv'
    <3>1. \A s \in Sessions : InFlight(s)' \subseteq InFlight(s)
      <4>0. PICK kind \in {"webhook", "poll"} : StartSync(r, p, kind)
        BY <2>7 DEF HandleProviderWebhook, PollPaymentStatus
      <4>1. req' = [req EXCEPT ![r] = req'[r]] /\ req'[r].pc = "provider"
        BY <4>0 DEF TypeOK, StartSync, Request
      <4> QED
        BY <4>1 DEF TypeOK, InFlight
    <3> QED
      BY <2>7, <3>1, OverlapStep DEF HandleProviderWebhook, PollPaymentStatus
  <2>8. ASSUME NEW r \in Requests, NEW s \in Sessions,
               MockApprove(r, s) \/ RefundCreditTopUp(r, s)
        PROVE  OverlapInv'
    <3>1. PICK pc \in {"find", "refund"}, amount \in Int : StartMock(r, s, pc, amount)
      BY <2>8 DEF MockApprove, RefundCreditTopUp
    <3>2. \A t \in Sessions : InFlight(t)' \subseteq InFlight(t)
      BY <3>1 DEF TypeOK, StartMock, InFlight, Request
    <3> QED
      BY <2>8, <3>2, OverlapStep DEF MockApprove, RefundCreditTopUp
  <2>9. ASSUME NEW u \in Users, SpendBalance(u) PROVE OverlapInv'
    BY <2>9, OverlapStep DEF SpendBalance, InFlight
  <2>10. CASE UNCHANGED vars
    BY <2>10, OverlapStep DEF vars, InFlight
  <2> QED
    BY <2>1, <2>2, <2>4, <2>5, <2>6, <2>7, <2>8, <2>9, <2>10 DEF Next, RequestStep
<1> QED
  BY <1>1, <1>2, TypeCorrect, PTL DEF Spec

\* Only handlers that overlap can credit the same session: with n handlers at
\* a time a session is credited at most n times, and with one, once.
THEOREM OverlapBound == Spec => []CreditsBoundedByOverlap
<1>1. OverlapInv /\ TypeOK => CreditsBoundedByOverlap
  <2> SUFFICES ASSUME OverlapInv, TypeOK, NEW s \in Sessions
               PROVE  credits[s] <= Cardinality(Requests)
    BY DEF CreditsBoundedByOverlap
  <2> QED
    BY InFlightFinite DEF OverlapInv, TypeOK
<1> QED
  BY <1>1, OverlapInductive, TypeCorrect, PTL

-----------------------------------------------------------------------------
(* Approved rows.  Every write of status is accounted for: only the credit  *)
(* transaction writes APPROVED, and nothing takes a credit back out of the  *)
(* ledger or clears processedAt.                                            *)

\* A step that keeps the ledger credits and the processed marks, and writes
\* APPROVED into no row, keeps approved rows backed.
LEMMA BackedStep ==
    ASSUME ApprovedIsBacked, UNCHANGED credits,
           \A s \in Sessions : /\ processed[s] => processed'[s]
                               /\ status'[s] = "APPROVED" => status[s] = "APPROVED"
    PROVE  ApprovedIsBacked'
  BY DEF ApprovedIsBacked

\* A row that says APPROVED has a ledger credit behind it, whatever order the
\* provider's answers are read and applied in.
THEOREM BackedTheorem == Spec => []ApprovedIsBacked
<1>1. Init => ApprovedIsBacked
  BY DEF Init, ApprovedIsBacked
<1>2. TypeOK /\ ApprovedIsBacked /\ [Next]_vars => ApprovedIsBacked'
  <2> SUFFICES ASSUME TypeOK, ApprovedIsBacked, [Next]_vars PROVE ApprovedIsBacked'
    OBVIOUS
  <2> USE DEF sessionVars, walletVars
  <2>1. ASSUME NEW s \in Sessions, SessionStep(s) PROVE ApprovedIsBacked'
    BY <2>1, BackedStep DEF TypeOK, SessionStep, CreateCreditTopUp, OpenCheckout,
                            MockPend, MockRejectOrExpire
  <2>2. ASSUME NEW p \in Payments, Pay(p) \/ ProviderSettles(p)
        PROVE  ApprovedIsBacked'
    BY <2>2, BackedStep DEF Pay, ProviderSettles
  <2>3. ASSUME NEW r \in Requests, ApproveProviderTopUp(r) PROVE ApprovedIsBacked'
    <3>1. req[r].s \in Sessions
      BY DEF TypeOK, Request
    <3>2. credits'[req[r].s] = credits[req[r].s] + 1 /\ processed'[req[r].s]
      BY <2>3, <3>1 DEF TypeOK, ApproveProviderTopUp
    <3>3. ASSUME NEW s \in Sessions, s # req[r].s
          PROVE  /\ credits'[s] = credits[s] /\ processed'[s] = processed[s]
                 /\ status'[s] = status[s]
      BY <2>3, <3>3 DEF TypeOK, ApproveProviderTopUp
    <3> QED
      BY <3>1, <3>2, <3>3 DEF TypeOK, ApprovedIsBacked
  <2>4. ASSUME NEW r \in Requests, UpdateTopUpFromProvider(r)
        PROVE  ApprovedIsBacked'
    <3>1. mapProviderStatus(req[r].seen) # "APPROVED"
      BY <2>4 DEF UpdateTopUpFromProvider, mapProviderStatus
    <3>2. req[r].s \in Sessions
      BY DEF TypeOK, Request
    <3>3. ASSUME NEW s \in Sessions
          PROVE  /\ processed[s] => processed'[s]
                 /\ status'[s] = "APPROVED" => status[s] = "APPROVED"
      BY <2>4, <3>1, <3>2 DEF TypeOK, UpdateTopUpFromProvider
    <3> QED
      BY <2>4, <3>3, BackedStep DEF UpdateTopUpFromProvider
  <2>5. ASSUME NEW r \in Requests, RefundTransaction(r) PROVE ApprovedIsBacked'
    BY <2>5, BackedStep DEF TypeOK, RefundTransaction
  <2>6. ASSUME NEW r \in Requests,
               \/ ReadProvider(r) \/ FindTopUp(r) \/ RecordSyncEvent(r)
               \/ RecordWebhookEvent(r) \/ Abort(r)
        PROVE  ApprovedIsBacked'
    BY <2>6, BackedStep
       DEF ReadProvider, FindTopUp, RecordSyncEvent, RecordWebhookEvent, Abort
  <2>7. ASSUME NEW r \in Requests, NEW p \in Payments,
               HandleProviderWebhook(r, p) \/ PollPaymentStatus(r, p)
        PROVE  ApprovedIsBacked'
    BY <2>7, BackedStep DEF HandleProviderWebhook, PollPaymentStatus
  <2>8. ASSUME NEW r \in Requests, NEW s \in Sessions,
               MockApprove(r, s) \/ RefundCreditTopUp(r, s)
        PROVE  ApprovedIsBacked'
    BY <2>8, BackedStep DEF MockApprove, RefundCreditTopUp
  <2>9. ASSUME NEW u \in Users, SpendBalance(u) PROVE ApprovedIsBacked'
    BY <2>9, BackedStep DEF SpendBalance
  <2>10. CASE UNCHANGED vars
    BY <2>10, BackedStep DEF vars
  <2> QED
    BY <2>1, <2>2, <2>3, <2>4, <2>5, <2>6, <2>7, <2>8, <2>9, <2>10
       DEF Next, RequestStep
<1> QED
  BY <1>1, <1>2, TypeCorrect, PTL DEF Spec

-----------------------------------------------------------------------------
(* Balances and ledger.  BalanceMatchesLedger is inductive with TypeOK; the *)
(* work is in moving one session's entry of the sum at a time.              *)

Entry == [s \in Sessions |-> credits[s] * Amount - debits[s]]
Owned(u) == {s \in Sessions : Owner[s] = u}

\* The ledger entries of a session add up to an integer, and a user's
\* sessions are finitely many.
LEMMA EntryType ==
    ASSUME TypeOK
    PROVE  /\ \A s \in Sessions : Entry[s] \in Int
           /\ \A u : IsFiniteSet(Owned(u))
<1>1. ASSUME NEW s \in Sessions PROVE Entry[s] \in Int
  <2>1. credits[s] \in Nat /\ debits[s] \in Nat /\ Amount \in Nat
    BY TopUpConstants DEF TypeOK
  <2>2. credits[s] * Amount \in Int
    BY <2>1
  <2> QED
    BY <2>1, <2>2 DEF Entry
<1>2. ASSUME NEW u PROVE IsFiniteSet(Owned(u))
  BY TopUpConstants, FS_Subset DEF Owned
<1> QED
  BY <1>1, <1>2

\* What the property says, with the entries named.
LEMMA LedgerShape ==
    BalanceMatchesLedger <=>
        \A u \in Users : balance[u] = SumOf(Entry, Owned(u)) - spent[u]
  BY DEF BalanceMatchesLedger, Entry, Owned

\* A step that leaves wallets and ledger alone keeps them equal.
LEMMA LedgerStep ==
    ASSUME BalanceMatchesLedger, UNCHANGED walletVars
    PROVE  BalanceMatchesLedger'
  BY DEF BalanceMatchesLedger, walletVars

\* A step that moves the entry of one session and the balance of its owner by
\* the same amount keeps wallets and ledger equal.
LEMMA LedgerMove ==
    ASSUME TypeOK, TypeOK', BalanceMatchesLedger, UNCHANGED spent,
           NEW a \in Sessions, NEW n \in Int,
           Entry'[a] = Entry[a] + n,
           \A s \in Sessions \ {a} : Entry'[s] = Entry[s],
           balance' = [balance EXCEPT ![Owner[a]] = @ + n]
    PROVE  BalanceMatchesLedger'
<1> SUFFICES ASSUME NEW u \in Users
             PROVE  balance'[u] = SumOf(Entry', Owned(u)) - spent'[u]
  BY DEF BalanceMatchesLedger, Entry, Owned
<1>1. balance[u] = SumOf(Entry, Owned(u)) - spent[u]
  BY LedgerShape
<1>2. \A s \in Sessions : Entry[s] \in Int /\ Entry'[s] \in Int
  <2>1. \A s \in Sessions : Entry'[s] \in Int
    BY EntryType DEF TypeOK
  <2> QED
    BY <2>1, EntryType
<1>3. IsFiniteSet(Owned(u)) /\ Owned(u) \subseteq Sessions
  BY EntryType DEF Owned
<1>4. CASE u = Owner[a]
  <2>1. a \in Owned(u)
    BY <1>4 DEF Owned
  <2>2. SumOf(Entry', Owned(u)) = SumOf(Entry, Owned(u)) - Entry[a] + Entry'[a]
    <3>1. \A s \in Owned(u) : Entry[s] \in Int /\ Entry'[s] \in Int
      BY <1>2, <1>3
    <3>2. \A s \in Owned(u) \ {a} : Entry'[s] = Entry[s]
      BY <1>3
    <3> QED
      BY <1>3, <2>1, <3>1, <3>2, SumOfUpdate
  <2>3. SumOf(Entry, Owned(u)) \in Int
    BY <1>2, <1>3, SumOfType
  <2>4. balance'[u] = balance[u] + n /\ balance[u] \in Int /\ spent[u] \in Int
    BY <1>4 DEF TypeOK
  <2> QED
    BY <1>1, <1>2, <2>2, <2>3, <2>4
<1>5. CASE u # Owner[a]
  <2>1. \A s \in Owned(u) : Entry'[s] = Entry[s]
    BY <1>5 DEF Owned
  <2>2. SumOf(Entry', Owned(u)) = SumOf(Entry, Owned(u))
    BY <1>3, <2>1, SumOfSame
  <2>3. balance'[u] = balance[u]
    BY <1>5 DEF TypeOK
  <2> QED
    BY <1>1, <2>2, <2>3
<1> QED
  BY <1>4, <1>5

\* At every moment each wallet holds what its ledger entries add up to, even
\* when overlapping handlers credit a session twice.
THEOREM LedgerTheorem == Spec => []BalanceMatchesLedger
<1>1. Init => BalanceMatchesLedger
  <2> SUFFICES ASSUME Init, NEW u \in Users
               PROVE  balance[u] = SumOf(Entry, Owned(u)) - spent[u]
    BY LedgerShape
  <2>1. \A s \in Sessions : Entry[s] = 0
    BY TopUpConstants DEF Init, Entry
  <2>2. IsFiniteSet(Owned(u)) /\ Owned(u) \subseteq Sessions
    BY TopUpConstants, FS_Subset DEF Owned
  <2>3. SumOf(Entry, Owned(u)) = Cardinality(Owned(u)) * 0
    BY <2>1, <2>2, SumOfConstant
  <2>4. Cardinality(Owned(u)) * 0 = 0
    BY <2>2, FS_CardinalityType
  <2> QED
    BY <2>3, <2>4 DEF Init
<1>2. TypeOK /\ TypeOK' /\ BalanceMatchesLedger /\ [Next]_vars
        => BalanceMatchesLedger'
  <2> SUFFICES ASSUME TypeOK, TypeOK', BalanceMatchesLedger, [Next]_vars
               PROVE  BalanceMatchesLedger'
    OBVIOUS
  <2>1. ASSUME NEW r \in Requests, ApproveProviderTopUp(r)
        PROVE  BalanceMatchesLedger'
    <3> DEFINE a == req[r].s
    <3>1. a \in Sessions /\ Amount \in Int
      BY TopUpConstants DEF TypeOK, Request
    <3>2. /\ credits' = [credits EXCEPT ![a] = @ + 1]
          /\ UNCHANGED <<debits, spent>>
          /\ balance' = [balance EXCEPT ![Owner[a]] = @ + Amount]
      BY <2>1 DEF ApproveProviderTopUp
    <3> HIDE DEF a
    <3>3. Entry'[a] = Entry[a] + Amount
      <4>1. credits'[a] = credits[a] + 1 /\ credits[a] \in Nat /\ debits[a] \in Nat
        BY <3>1, <3>2 DEF TypeOK
      <4>2. (credits[a] + 1) * Amount = credits[a] * Amount + Amount
        BY <3>1, <4>1
      <4>3. Entry[a] = credits[a] * Amount - debits[a]
        BY <3>1 DEF Entry
      <4>4. Entry'[a] = (credits[a] + 1) * Amount - debits[a]
        BY <3>1, <3>2, <4>1 DEF Entry
      <4>5. credits[a] * Amount \in Int
        BY <3>1, <4>1
      <4> QED
        BY <3>1, <4>1, <4>2, <4>3, <4>4, <4>5
    <3>4. \A s \in Sessions \ {a} : Entry'[s] = Entry[s]
      BY <3>1, <3>2 DEF Entry, TypeOK
    <3> QED
      BY <3>1, <3>2, <3>3, <3>4, LedgerMove
  <2>2. ASSUME NEW r \in Requests, RefundTransaction(r) PROVE BalanceMatchesLedger'
    <3> DEFINE a == req[r].s
               n == req[r].amount
    <3>1. a \in Sessions /\ n \in Int /\ -n \in Int
      BY DEF TypeOK, Request
    <3>2. CASE UNCHANGED walletVars
      BY <3>2, LedgerStep
    <3>3. CASE /\ balance' = [balance EXCEPT ![Owner[a]] = @ - n]
               /\ debits' = [debits EXCEPT ![a] = @ + n]
               /\ UNCHANGED <<credits, spent>>
      <4> HIDE DEF a, n
      <4>1. Entry'[a] = Entry[a] + (-n)
        <5>1. debits'[a] = debits[a] + n /\ debits[a] \in Nat /\ credits[a] \in Nat
          BY <3>1, <3>3 DEF TypeOK
        <5>2. Entry[a] = credits[a] * Amount - debits[a]
          BY <3>1 DEF Entry
        <5>3. Entry'[a] = credits[a] * Amount - (debits[a] + n)
          BY <3>1, <3>3, <5>1 DEF Entry
        <5>4. credits[a] * Amount \in Int
          BY <5>1, TopUpConstants
        <5> QED
          BY <3>1, <5>1, <5>2, <5>3, <5>4
      <4>2. \A s \in Sessions \ {a} : Entry'[s] = Entry[s]
        BY <3>1, <3>3 DEF Entry, TypeOK
      <4>3. balance' = [balance EXCEPT ![Owner[a]] = @ + (-n)]
        BY <3>1, <3>3, TopUpConstants DEF TypeOK
      <4> QED
        BY <3>1, <3>3, <4>1, <4>2, <4>3, LedgerMove
    <3> QED
      BY <2>2, <3>2, <3>3 DEF RefundTransaction, walletVars
  <2>3. ASSUME NEW u \in Users, SpendBalance(u) PROVE BalanceMatchesLedger'
    <3>1. PICK n \in 1 .. balance[u] :
              /\ balance' = [balance EXCEPT ![u] = @ - n]
              /\ spent' = [spent EXCEPT ![u] = @ + n]
      BY <2>3 DEF SpendBalance
    <3>2. UNCHANGED <<credits, debits>>
      BY <2>3 DEF SpendBalance
    <3> SUFFICES ASSUME NEW v \in Users
                 PROVE  balance'[v] = SumOf(Entry, Owned(v)) - spent'[v]
      BY <3>2 DEF BalanceMatchesLedger, Entry, Owned
    <3>3. balance[v] = SumOf(Entry, Owned(v)) - spent[v]
      BY LedgerShape
    <3>4. SumOf(Entry, Owned(v)) \in Int
      <4>1. Owned(v) \subseteq Sessions
        BY DEF Owned
      <4> QED
        BY <4>1, EntryType, SumOfType
    <3>5. balance[v] \in Nat /\ spent[v] \in Nat /\ balance[u] \in Nat /\ n \in Int
      BY DEF TypeOK
    <3>6. \/ v = u /\ balance'[v] = balance[v] - n /\ spent'[v] = spent[v] + n
          \/ balance'[v] = balance[v] /\ spent'[v] = spent[v]
      BY <3>1 DEF TypeOK
    <3> QED
      BY <3>3, <3>4, <3>5, <3>6
  <2>4. CASE UNCHANGED walletVars
    BY <2>4, LedgerStep
  <2>5. ASSUME NEW r \in Requests, RequestStep(r) \/ Abort(r),
               ~ApproveProviderTopUp(r), ~RefundTransaction(r)
        PROVE  UNCHANGED walletVars
    BY <2>5 DEF RequestStep, ReadProvider, FindTopUp, UpdateTopUpFromProvider,
                RecordSyncEvent, RecordWebhookEvent, Abort
  <2>6. ASSUME NEW s \in Sessions, SessionStep(s) PROVE UNCHANGED walletVars
    BY <2>6 DEF SessionStep, CreateCreditTopUp, OpenCheckout, MockPend,
                MockRejectOrExpire
  <2>7. ASSUME NEW p \in Payments, Pay(p) \/ ProviderSettles(p)
        PROVE  UNCHANGED walletVars
    BY <2>7 DEF Pay, ProviderSettles
  <2>8. ASSUME NEW r \in Requests, NEW p \in Payments,
               HandleProviderWebhook(r, p) \/ PollPaymentStatus(r, p)
        PROVE  UNCHANGED walletVars
    BY <2>8 DEF HandleProviderWebhook, PollPaymentStatus
  <2>9. ASSUME NEW r \in Requests, NEW s \in Sessions,
               MockApprove(r, s) \/ RefundCreditTopUp(r, s)
        PROVE  UNCHANGED walletVars
    BY <2>9 DEF MockApprove, RefundCreditTopUp
  <2>10. CASE UNCHANGED vars
    BY <2>10, <2>4 DEF vars, walletVars
  <2> QED
    BY <2>1, <2>2, <2>3, <2>4, <2>5, <2>6, <2>7, <2>8, <2>9, <2>10 DEF Next
<1> QED
  BY <1>1, <1>2, TypeCorrect, PTL DEF Spec

-----------------------------------------------------------------------------
(* Handlers that do not overlap.  With one handler at a time charging is an *)
(* implementation of its promise: a credit is a Grant, a refund a Return.   *)
(* Requests of a buyer still arrive in any order, and rows still change     *)
(* behind a handler that waits: a mock checkout can be rejected or expire   *)
(* between the check and the transaction of an approval or of a refund.     *)

OneHandler == \E r : Requests = {r}

\* What was refunded was credited before, an approved row has no refund, and a
\* refund under way is the first one, for at most the amount of the charge.
PromiseInv ==
    /\ \A s \in Sessions : (credits[s] = 0 \/ status[s] = "APPROVED") => debits[s] = 0
    /\ \A r \in Requests : req[r].pc = "refund" =>
          /\ credits[req[r].s] > 0 /\ debits[req[r].s] = 0
          /\ req[r].amount \in 1 .. Amount

\* With one handler a session has at most one credit, and none while the
\* handler is about to credit it, whatever happened to processedAt meanwhile.
LEMMA SingleCredit ==
    ASSUME TypeOK, OverlapInv, OneHandler
    PROVE  /\ \A s \in Sessions : credits[s] \in {0, 1}
           /\ \A r \in Requests : req[r].pc = "credit" => credits[req[r].s] = 0
<1>1. Cardinality(Requests) = 1
  BY FS_Singleton DEF OneHandler
<1>2. ASSUME NEW s \in Sessions
      PROVE  /\ credits[s] \in Nat /\ Cardinality(InFlight(s)) \in Nat
             /\ credits[s] + Cardinality(InFlight(s)) <= 1
  <2>1. credits[s] \in Nat
    BY DEF TypeOK
  <2>2. credits[s] + Cardinality(InFlight(s)) <= 1
    BY <1>1 DEF OverlapInv
  <2> QED
    BY <2>1, <2>2, InFlightFinite
<1>3. ASSUME NEW s \in Sessions PROVE credits[s] \in {0, 1}
  BY <1>2
<1>4. ASSUME NEW r \in Requests, req[r].pc = "credit" PROVE credits[req[r].s] = 0
  <2> DEFINE a == req[r].s
  <2>1. a \in Sessions /\ r \in InFlight(a)
    BY <1>4 DEF TypeOK, Request, InFlight
  <2>2. Cardinality(InFlight(a)) # 0
    BY <2>1, InFlightFinite, FS_EmptySet
  <2> HIDE DEF a
  <2>3. credits[a] = 0
    BY <1>2, <2>1, <2>2
  <2> QED
    BY <2>3 DEF a
<1> QED
  BY <1>3, <1>4

\* A step that leaves credits and refunds alone, approves no row and starts no
\* refund keeps the promise's invariant.
LEMMA PromiseFrame ==
    ASSUME PromiseInv, UNCHANGED <<credits, debits>>,
           \A s \in Sessions : status'[s] = "APPROVED" => status[s] = "APPROVED",
           \A r \in Requests : req'[r].pc = "refund" => req'[r] = req[r]
    PROVE  PromiseInv'
  BY DEF PromiseInv

\* A handler that goes to a step that is no refund starts no refund.
LEMMA GoToStartsNone ==
    ASSUME TypeOK, NEW r \in Requests, NEW pc \in PCs \ {"refund"}, GoTo(r, pc)
    PROVE  \A q \in Requests : req'[q].pc = "refund" => req'[q] = req[q]
  BY DEF TypeOK, GoTo, Idle, Request, PCs

\* The promise's invariant is preserved.
LEMMA PromiseStep ==
    TypeOK /\ OverlapInv /\ OneHandler /\ ApprovedIsBacked /\ PromiseInv /\ [Next]_vars
        => PromiseInv'
<1> SUFFICES ASSUME TypeOK, OverlapInv, OneHandler, ApprovedIsBacked, PromiseInv,
                    [Next]_vars
             PROVE  PromiseInv'
  OBVIOUS
<1> USE DEF sessionVars, walletVars
<1>1. ASSUME NEW s \in Sessions, SessionStep(s) PROVE PromiseInv'
  BY <1>1, PromiseFrame DEF TypeOK, SessionStep, CreateCreditTopUp, OpenCheckout,
                            MockPend, MockRejectOrExpire
<1>2. ASSUME NEW p \in Payments, Pay(p) \/ ProviderSettles(p) PROVE PromiseInv'
  BY <1>2, PromiseFrame DEF Pay, ProviderSettles
<1>3. ASSUME NEW r \in Requests, ApproveProviderTopUp(r) PROVE PromiseInv'
  <2> DEFINE a == req[r].s
  <2>1. a \in Sessions /\ credits[a] = 0
    BY <1>3, SingleCredit DEF TypeOK, Request, ApproveProviderTopUp
  <2>2. \A q \in Requests : req'[q].pc # "refund"
    BY <1>3 DEF ApproveProviderTopUp, OneHandler, GoTo, AfterApply, Idle, TypeOK, Request
  <2>3. debits' = debits /\ debits[a] = 0
    BY <1>3, <2>1 DEF ApproveProviderTopUp, PromiseInv
  <2>4. \A s \in Sessions \ {a} : credits'[s] = credits[s] /\ status'[s] = status[s]
    BY <1>3 DEF ApproveProviderTopUp, TypeOK
  <2> QED
    BY <2>1, <2>2, <2>3, <2>4 DEF PromiseInv
<1>4. ASSUME NEW r \in Requests, UpdateTopUpFromProvider(r) PROVE PromiseInv'
  <2>1. mapProviderStatus(req[r].seen) # "APPROVED"
    BY <1>4 DEF UpdateTopUpFromProvider, mapProviderStatus
  <2>2. \A s \in Sessions : status'[s] = "APPROVED" => status[s] = "APPROVED"
    BY <1>4, <2>1 DEF TypeOK, UpdateTopUpFromProvider
  <2>3. \A q \in Requests : req'[q].pc = "refund" => req'[q] = req[q]
    BY <1>4, GoToStartsNone DEF UpdateTopUpFromProvider, PCs
  <2> QED
    BY <1>4, <2>2, <2>3, PromiseFrame DEF UpdateTopUpFromProvider
<1>5. ASSUME NEW r \in Requests,
             \/ FindTopUp(r) \/ RecordSyncEvent(r)
             \/ RecordWebhookEvent(r) \/ Abort(r)
      PROVE  PromiseInv'
  <2>1. \A q \in Requests : req'[q].pc = "refund" => req'[q] = req[q]
    BY <1>5, GoToStartsNone
       DEF FindTopUp, AfterApply, RecordSyncEvent, RecordWebhookEvent, Abort, PCs
  <2> QED
    BY <1>5, <2>1, PromiseFrame
       DEF FindTopUp, RecordSyncEvent, RecordWebhookEvent, Abort
<1>6. ASSUME NEW r \in Requests, ReadProvider(r) PROVE PromiseInv'
  <2>1. \A q \in Requests : req'[q].pc = "refund" => req'[q] = req[q]
    BY <1>6 DEF ReadProvider, TypeOK, Request
  <2> QED
    BY <1>6, <2>1, PromiseFrame DEF ReadProvider
<1>7. ASSUME NEW r \in Requests, RefundTransaction(r) PROVE PromiseInv'
  <2> DEFINE a == req[r].s
  <2>1. a \in Sessions /\ credits[a] > 0
    BY <1>7 DEF TypeOK, Request, RefundTransaction, PromiseInv
  <2>2. \A q \in Requests : req'[q].pc # "refund"
    BY <1>7 DEF RefundTransaction, OneHandler, GoTo, Idle, TypeOK
  <2>3. credits' = credits
    BY <1>7 DEF RefundTransaction
  <2>4. /\ \A s \in Sessions \ {a} : debits'[s] = debits[s] /\ status'[s] = status[s]
        /\ \/ debits'[a] = debits[a] /\ status'[a] = status[a]
           \/ status'[a] # "APPROVED"
    BY <1>7, <2>1 DEF RefundTransaction, TypeOK
  <2> QED
    BY <2>1, <2>2, <2>3, <2>4 DEF PromiseInv, TypeOK
<1>8. ASSUME NEW r \in Requests, NEW p \in Payments,
             HandleProviderWebhook(r, p) \/ PollPaymentStatus(r, p)
      PROVE  PromiseInv'
  <2>1. PICK kind \in {"webhook", "poll"} : StartSync(r, p, kind)
    BY <1>8 DEF HandleProviderWebhook, PollPaymentStatus
  <2>2. \A q \in Requests : req'[q].pc = "refund" => req'[q] = req[q]
    BY <2>1 DEF StartSync, TypeOK, Request
  <2> QED
    BY <1>8, <2>2, PromiseFrame DEF HandleProviderWebhook, PollPaymentStatus
<1>9. ASSUME NEW r \in Requests, NEW s \in Sessions, MockApprove(r, s)
      PROVE  PromiseInv'
  <2>1. \A q \in Requests : req'[q].pc = "refund" => req'[q] = req[q]
    BY <1>9 DEF MockApprove, StartMock, TypeOK, Request
  <2> QED
    BY <1>9, <2>1, PromiseFrame DEF MockApprove
<1>10. ASSUME NEW r \in Requests, NEW s \in Sessions, RefundCreditTopUp(r, s)
       PROVE  PromiseInv'
  <2>1. PICK amount \in 1 .. (credited[s] - refunded[s]) : StartMock(r, s, "refund", amount)
    BY <1>10 DEF RefundCreditTopUp
  <2>2. amount \in 1 .. Amount
    BY <2>1, TopUpConstants DEF TypeOK
  <2>3. req'[r].s = s /\ req'[r].amount = amount
    BY <2>1 DEF StartMock, TypeOK, Request
  <2>4. \A q \in Requests : q = r
    BY DEF OneHandler
  <2>5. status[s] = "APPROVED" /\ UNCHANGED <<status, credits, debits>>
    BY <1>10 DEF RefundCreditTopUp
  <2>6. debits[s] = 0
    BY <2>5 DEF PromiseInv
  <2>7. credits[s] > 0
    BY <2>5 DEF ApprovedIsBacked
  <2> QED
    BY <2>2, <2>3, <2>4, <2>5, <2>6, <2>7 DEF PromiseInv
<1>11. ASSUME NEW u \in Users, SpendBalance(u) PROVE PromiseInv'
  BY <1>11, PromiseFrame DEF SpendBalance
<1>12. CASE UNCHANGED vars
  BY <1>12, PromiseFrame DEF vars
<1> QED
  BY <1>1, <1>2, <1>3, <1>4, <1>5, <1>6, <1>7, <1>8, <1>9, <1>10, <1>11, <1>12
     DEF Next, RequestStep

\* Every step of charging is a grant, a return, or no step of the promise.
LEMMA PromiseSimulation ==
    TypeOK /\ OverlapInv /\ OneHandler /\ PromiseInv /\ [Next]_vars
        => [Promise!Next]_<<credits, debits>>
<1> SUFFICES ASSUME TypeOK, OverlapInv, OneHandler, PromiseInv, [Next]_vars,
                    ~UNCHANGED <<credits, debits>>
             PROVE  Promise!Next
  OBVIOUS
<1> USE DEF sessionVars, walletVars
<1>1. ASSUME NEW r \in Requests, ApproveProviderTopUp(r) PROVE Promise!Next
  <2> DEFINE a == req[r].s
  <2>1. a \in Sessions /\ credits[a] = 0
    BY <1>1, SingleCredit DEF TypeOK, Request, ApproveProviderTopUp
  <2>2. credits' = [credits EXCEPT ![a] = 1] /\ UNCHANGED debits
    BY <1>1, <2>1 DEF ApproveProviderTopUp, TypeOK
  <2>3. Promise!Grant(a)
    BY <2>1, <2>2 DEF Promise!Grant
  <2> QED
    BY <2>1, <2>3 DEF Promise!Next
<1>2. ASSUME NEW r \in Requests, RefundTransaction(r) PROVE Promise!Next
  <2> DEFINE a == req[r].s
             n == req[r].amount
  <2>1. /\ a \in Sessions /\ credits[a] > 0 /\ debits[a] = 0 /\ n \in 1 .. Amount
    BY <1>2 DEF TypeOK, Request, RefundTransaction, PromiseInv
  <2>2. credits[a] = 1
    BY <2>1, SingleCredit
  <2>3. debits' = [debits EXCEPT ![a] = @ + n] /\ UNCHANGED credits
    BY <1>2 DEF RefundTransaction
  <2> HIDE DEF a, n
  <2>4. debits' = [debits EXCEPT ![a] = n]
    BY <2>1, <2>3 DEF TypeOK
  <2>5. Promise!Return(a)
    BY <2>1, <2>2, <2>3, <2>4 DEF Promise!Return
  <2> QED
    BY <2>1, <2>5 DEF Promise!Next
<1>3. ASSUME NEW s \in Sessions, SessionStep(s) PROVE FALSE
  BY <1>3 DEF SessionStep, CreateCreditTopUp, OpenCheckout, MockPend, MockRejectOrExpire
<1>4. ASSUME NEW p \in Payments, Pay(p) \/ ProviderSettles(p) PROVE FALSE
  BY <1>4 DEF Pay, ProviderSettles
<1>5. ASSUME NEW r \in Requests, RequestStep(r) \/ Abort(r),
             ~ApproveProviderTopUp(r), ~RefundTransaction(r)
      PROVE  FALSE
  BY <1>5 DEF RequestStep, ReadProvider, FindTopUp, UpdateTopUpFromProvider,
              RecordSyncEvent, RecordWebhookEvent, Abort
<1>6. ASSUME NEW r \in Requests, NEW p \in Payments,
             HandleProviderWebhook(r, p) \/ PollPaymentStatus(r, p)
      PROVE  FALSE
  BY <1>6 DEF HandleProviderWebhook, PollPaymentStatus
<1>7. ASSUME NEW r \in Requests, NEW s \in Sessions,
             MockApprove(r, s) \/ RefundCreditTopUp(r, s)
      PROVE  FALSE
  BY <1>7 DEF MockApprove, RefundCreditTopUp
<1>8. ASSUME NEW u \in Users, SpendBalance(u) PROVE FALSE
  BY <1>8 DEF SpendBalance
<1>9. CASE UNCHANGED vars
  BY <1>9 DEF vars
<1> QED
  BY <1>1, <1>2, <1>3, <1>4, <1>5, <1>6, <1>7, <1>8, <1>9 DEF Next

\* With one handler at a time charging implements its promise: every session is
\* credited at most once, and at most its amount is taken back, in one refund.
THEOREM PromiseTheorem == OneHandler /\ Spec => KeepsPromise
<1>1. Init => PromiseInv /\ Promise!Init
  <2> SUFFICES ASSUME Init PROVE PromiseInv /\ Promise!Init
    OBVIOUS
  <2>1. PromiseInv
    BY DEF Init, PromiseInv, Idle
  <2>2. Promise!Init
    BY DEF Init, Promise!Init
  <2> QED
    BY <2>1, <2>2
<1>2. OneHandler => OneHandler'
  BY DEF OneHandler
<1>3. OneHandler /\ Spec => [](OneHandler /\ PromiseInv)
  BY <1>1, <1>2, PromiseStep, TypeCorrect, OverlapInductive, BackedTheorem, PTL DEF Spec
<1> QED
  BY <1>1, <1>3, PromiseSimulation, TypeCorrect, OverlapInductive, PTL
     DEF Spec, KeepsPromise, Promise!Spec

-----------------------------------------------------------------------------
(* The pages.  A step of the pages is a step of charging or leaves it alone, *)
(* so that what is proved of charging holds behind the pages.               *)

\* What a page can show as the status of a charge.
PageStatus == ProviderStatus \cup {"initiated"}

Tab == [at     : {"wallet", "creating", "provider", "mock", "status"},
        s      : Sessions,
        p      : Payments \cup {NoPayment},
        url    : PageStatus,
        answer : PageStatus,
        asked  : BOOLEAN,
        by     : SUBSET Requests,
        toast  : BOOLEAN]

\* The type of a tab; only a page that knows its payment waits for a poll.
TabOK == /\ tab \in Tab /\ died \in BOOLEAN
         /\ (tab.at = "status" /\ tab.by # {}) => tab.p # NoPayment

\* The wallet page, and a page that was just opened, are pages.
LEMMA WalletType ==
    /\ Wallet \in Tab /\ Wallet.by = {}
    /\ \A page \in {"wallet", "creating", "provider", "mock", "status"} :
          \A s \in Sessions : Goes(page, s) \in Tab /\ Goes(page, s).by = {}
<1>1. (CHOOSE s \in Sessions : TRUE) \in Sessions
  BY TopUpConstants
<1>2. Wallet \in Tab /\ Wallet.by = {}
  BY <1>1 DEF Wallet, Tab, PageStatus, ProviderStatus
<1> QED
  BY <1>2 DEF Goes, Tab

\* The status page after a mock action is a page.
LEMMA StatusUrlType ==
    ASSUME TabOK, NEW st
    PROVE  statusUrl(st) \in Tab /\ statusUrl(st).by = {} /\ mapStatus(st) \in PageStatus
<1>1. mapStatus(st) \in PageStatus
  BY DEF mapStatus, PageStatus, ProviderStatus
<1>2. Goes("status", tab.s) \in Tab /\ Goes("status", tab.s).by = {}
  BY WalletType DEF TabOK, Tab
<1> QED
  BY <1>1, <1>2 DEF statusUrl, Tab

\* The tab keeps its type.
LEMMA TabStep ==
    ASSUME TypeOK, TabOK, [PagesNext]_<<vars, pageVars>>
    PROVE  TabOK'
<1> USE DEF Shows
<1>0. CASE UNCHANGED pageVars
  BY <1>0 DEF pageVars, TabOK
<1>1. ASSUME NEW s \in Sessions, handleCreateTopUp(s) PROVE TabOK'
  BY <1>1, WalletType DEF handleCreateTopUp, TabOK
<1>2. CASE redirectToCheckout
  BY <1>2, WalletType DEF redirectToCheckout, TabOK, Tab
<1>3. CASE createFails \/ leave
  BY <1>3, WalletType DEF createFails, leave, TabOK
<1>4. ASSUME NEW p \in Payments, returnFromProvider(p) PROVE TabOK'
  <2>1. /\ Goes("status", tab.s) \in Tab /\ Goes("status", tab.s).by = {}
        /\ payment[p] \in PageStatus
    BY WalletType DEF TabOK, Tab, TypeOK, PageStatus
  <2> QED
    BY <1>4, <2>1 DEF returnFromProvider, TabOK, Tab
<1>5. CASE syncMock
  <2> DEFINE b == credited[tab.s] > 0 /\ ~processed[tab.s]
  <2>1. mapStatus(status[tab.s]) \in PageStatus /\ b \in BOOLEAN
    BY StatusUrlType
  <2> HIDE DEF b
  <2>2. tab' = [tab EXCEPT !.asked = TRUE, !.answer = mapStatus(status[tab.s]), !.toast = b]
    BY <1>5 DEF syncMock, b
  <2> QED
    BY <1>5, <2>1, <2>2 DEF syncMock, TabOK, Tab
<1>6. CASE loadPayment
  <2>1. mapStatus(status[tab.s]) \in PageStatus
    BY StatusUrlType
  <2> QED
    BY <1>6, <2>1 DEF loadPayment, TabOK, Tab
<1>7. CASE executePend \/ executeReject
  BY <1>7, StatusUrlType DEF executePend, executeReject, TabOK
<1>8. CASE backToMock
  BY <1>8, WalletType DEF backToMock, TabOK, Tab
<1>9. ASSUME NEW r \in Requests, syncPayment(r) PROVE TabOK'
  BY <1>9 DEF syncPayment, TabOK, Tab
<1>10. ASSUME NEW r \in Requests, syncAnswer(r) PROVE TabOK'
  <2>1. RecordSyncEvent(r) /\ Announces(r) \in BOOLEAN
    BY <1>10 DEF syncAnswer, Announces
  <2>2. CASE tab' = [tab EXCEPT !.by = {}]
    BY <1>10, <2>2 DEF syncAnswer, TabOK, Tab
  <2>3. CASE tab' = [tab EXCEPT !.by = {}, !.answer = payment[tab.p], !.toast = Announces(r)]
    <3>1. payment[tab.p] \in PageStatus
      BY <1>10 DEF syncAnswer, TabOK, Tab, TypeOK, PageStatus
    <3> QED
      BY <1>10, <2>1, <2>3, <3>1 DEF syncAnswer, TabOK, Tab
  <2> QED
    BY <1>10, <2>2, <2>3 DEF syncAnswer
<1>11. ASSUME NEW r \in Requests, executeApprove(r) \/ executeRefund(r) PROVE TabOK'
  <2>0. tab.at = "mock"
    BY <1>11 DEF executeApprove, executeRefund, Ready
  <2>1. CASE tab' = [tab EXCEPT !.by = {r}] /\ died' = died
    BY <2>0, <2>1 DEF TabOK, Tab
  <2>2. CASE tab' = statusUrl(status[tab.s]) /\ died' = died
    BY <2>2, StatusUrlType DEF TabOK
  <2> QED
    BY <1>11, <2>1, <2>2 DEF executeApprove, executeRefund
<1>12. ASSUME NEW r \in Requests, actionAnswer(r) PROVE TabOK'
  <2>1. CASE tab' = [tab EXCEPT !.by = {}] /\ died' = died
    BY <2>1 DEF TabOK, Tab
  <2>2. CASE tab' = statusUrl(status'[tab.s]) /\ died' = died
    BY <2>2, StatusUrlType DEF TabOK
  <2> QED
    BY <1>12, <2>1, <2>2 DEF actionAnswer
<1>13. ASSUME NEW r \in Requests, pageRequestDies(r) PROVE TabOK'
  BY <1>13 DEF pageRequestDies, TabOK, Tab
<1> QED
  BY <1>0, <1>1, <1>2, <1>3, <1>4, <1>5, <1>6, <1>7, <1>8, <1>9, <1>10, <1>11,
     <1>12, <1>13 DEF PagesNext, PageStep, pageVars

\* What a step of the pages does behind them: nothing, or a step of charging;
\* only a handler that dies is remembered in died.
LEMMA Behaves ==
    ASSUME TypeOK, TabOK, [PagesNext]_<<vars, pageVars>>
    PROVE  \/ UNCHANGED <<vars, died>>
           \/ /\ UNCHANGED died
              /\ \/ \E s \in Sessions : SessionStep(s)
                 \/ \E p \in Payments : Pay(p) \/ ProviderSettles(p)
                 \/ \E r \in Requests : RequestStep(r)
                 \/ \E r \in Requests, p \in Payments :
                       HandleProviderWebhook(r, p) \/ PollPaymentStatus(r, p)
                 \/ \E r \in Requests, s \in Sessions :
                       MockApprove(r, s) \/ RefundCreditTopUp(r, s)
                 \/ \E u \in Users : SpendBalance(u)
           \/ died' /\ \E r \in Requests : Abort(r)
<1> USE DEF Shows
<1>0. tab.s \in Sessions /\ tab.p \in Payments \cup {NoPayment}
  BY DEF TabOK, Tab
<1>1. CASE \/ redirectToCheckout \/ executePend \/ executeReject
           \/ \E s \in Sessions : handleCreateTopUp(s)
  <2>1. UNCHANGED died /\ \E s \in Sessions : SessionStep(s)
    BY <1>0, <1>1 DEF redirectToCheckout, executePend, executeReject,
                      handleCreateTopUp, SessionStep
  <2> QED
    BY <2>1
<1>2. CASE \/ createFails \/ leave \/ syncMock \/ loadPayment \/ backToMock
           \/ \E p \in Payments : returnFromProvider(p)
  BY <1>2 DEF createFails, leave, syncMock, loadPayment, backToMock, returnFromProvider
<1>3. ASSUME NEW r \in Requests, syncPayment(r)
      PROVE  UNCHANGED died /\ \E p \in Payments : PollPaymentStatus(r, p)
  BY <1>0, <1>3 DEF syncPayment
<1>4. ASSUME NEW r \in Requests, syncAnswer(r) \/ actionAnswer(r)
      PROVE  UNCHANGED died /\ RequestStep(r)
  BY <1>4 DEF syncAnswer, actionAnswer, RequestStep
<1>5. ASSUME NEW r \in Requests, executeApprove(r) \/ executeRefund(r)
      PROVE  /\ UNCHANGED died
             /\ \/ UNCHANGED vars
                \/ \E s \in Sessions : MockApprove(r, s) \/ RefundCreditTopUp(r, s)
  BY <1>0, <1>5 DEF executeApprove, executeRefund
<1>6. ASSUME NEW r \in Requests, pageRequestDies(r) PROVE died' /\ Abort(r)
  BY <1>6 DEF pageRequestDies
<1>7. ASSUME NEW r \in Requests, Behind(r)
      PROVE  RequestStep(r) \/ \E p \in Payments : HandleProviderWebhook(r, p)
  BY <1>7 DEF Behind, RequestStep
<1> QED
  BY <1>1, <1>2, <1>3, <1>4, <1>5, <1>6, <1>7 DEF PagesNext, PageStep, pageVars

\* The pages only add to charging: what is proved of every behaviour of the
\* handlers holds while the pages drive them.
THEOREM PagesTheorem == PagesSpec => Spec /\ []TabOK
<1>1. PagesInit => Init /\ TabOK
  BY WalletType DEF PagesInit, TabOK
<1>2. TypeOK /\ TabOK /\ [PagesNext]_<<vars, pageVars>> => [Next]_vars
  BY Behaves DEF Next
<1>3. Init /\ TabOK => TypeOK
  BY InitType
<1>4. TypeOK /\ [Next]_vars => TypeOK'
  BY NextType
<1> QED
  BY <1>1, <1>2, <1>3, <1>4, TabStep, PTL DEF PagesSpec, Spec

\* Whatever page the buyer opens, reloads, leaves or comes back to, charging
\* through the pages keeps the promise when handlers do not overlap.
THEOREM PagesPromise == OneHandler /\ PagesSpec => KeepsPromise
  BY PagesTheorem, PromiseTheorem, PTL

-----------------------------------------------------------------------------
(* Announcements.  A page announces from a stored event and from a status   *)
(* of the provider, the handler credits by processedAt: the invariant ties   *)
(* them together, for the handlers first and for the tab that waits then.   *)

\* The row and the ledger agree on whether a session was credited.
ReceiptInv ==
    \A s \in Sessions :
        /\ credits[s] > 0 <=> credited[s] = Amount
        /\ credits[s] > 0 => status[s] \notin {"NONE", "INITIATED"}

\* An attempt to pay the session, or another one than p, was applied before.
Applied(s)           == \E q \in Payments : SessionOf[q] = s /\ SyncEvent(q) \in events
AppliedByOther(s, p) == \E q \in Payments \ {p} : SessionOf[q] = s /\ SyncEvent(q) \in events

\* A handler of a payment works on its session and knows whether the payment
\* was applied before; one that is about to record an approved payment that was
\* not found a credit, or another attempt.
SyncInv ==
    \A r \in Requests : req[r].kind # "mock" =>
        /\ Busy(r) => req[r].s = SessionOf[req[r].p]
        /\ req[r].pc \in {"find", "credit", "event"}
             => (req[r].existing <=> SyncEvent(req[r].p) \in events)
        /\ (req[r].pc = "event" /\ req[r].seen = "approved" /\ ~req[r].existing /\ ~died)
             => credits[req[r].s] > 0 \/ AppliedByOther(req[r].s, req[r].p)

\* As long as no handler died, a processed Mercado Pago session was credited, or
\* has the event of an attempt, or will have it in the handler's next step.
ProcessedInv ==
    \A s \in Sessions \ MockSessions : (processed[s] /\ ~died) =>
        \/ credits[s] > 0 \/ Applied(s)
        \/ \E r \in Requests : req[r].pc = "event" /\ req[r].s = s

\* The tab waits for the handler of its own payment, and what it announces.
TabInv ==
    /\ (tab.at = "status" /\ tab.p # NoPayment) => SessionOf[tab.p] = tab.s
    /\ tab.at = "status" => \A r \in tab.by :
          /\ Busy(r) /\ req[r].pc # "webhookEvent"
          /\ req[r].kind = "poll" /\ req[r].p = tab.p
    /\ (tab.toast /\ ~died) => credits[tab.s] > 0 \/ AppliedByOther(tab.s, tab.p)
    /\ (tab.at = "status" /\ tab.s \in MockSessions /\ finalStatus = "approved")
         => credits[tab.s] > 0

\* The receipts' invariant is preserved.
LEMMA ReceiptStep ==
    TypeOK /\ TypeOK' /\ ReceiptInv /\ [Next]_vars => ReceiptInv'
<1> SUFFICES ASSUME TypeOK, TypeOK', ReceiptInv, [Next]_vars PROVE ReceiptInv'
  OBVIOUS
<1> USE DEF sessionVars, walletVars
<1>1. ASSUME UNCHANGED <<credits, credited>>,
             \A s \in Sessions : status'[s] \in {"NONE", "INITIATED"}
                                    => status[s] \in {"NONE", "INITIATED"}
      PROVE  ReceiptInv'
  BY <1>1 DEF ReceiptInv
<1>2. ASSUME NEW s \in Sessions, SessionStep(s) PROVE ReceiptInv'
  BY <1>1, <1>2 DEF TypeOK, SessionStep, CreateCreditTopUp, OpenCheckout,
                    MockPend, MockRejectOrExpire
<1>3. ASSUME NEW p \in Payments, Pay(p) \/ ProviderSettles(p) PROVE ReceiptInv'
  BY <1>1, <1>3 DEF Pay, ProviderSettles
<1>4. ASSUME NEW r \in Requests, ApproveProviderTopUp(r) PROVE ReceiptInv'
  <2> DEFINE a == req[r].s
  <2>1. a \in Sessions
    BY DEF TypeOK, Request
  <2>2. /\ credits'[a] = credits[a] + 1 /\ credited'[a] = Amount
        /\ status'[a] = "APPROVED" /\ credits[a] \in Nat
    BY <1>4, <2>1 DEF ApproveProviderTopUp, TypeOK
  <2>3. \A s \in Sessions \ {a} : /\ credits'[s] = credits[s]
                                  /\ credited'[s] = credited[s]
                                  /\ status'[s] = status[s]
    BY <1>4 DEF ApproveProviderTopUp, TypeOK
  <2> HIDE DEF a
  <2> QED
    BY <2>1, <2>2, <2>3 DEF ReceiptInv
<1>5. ASSUME NEW r \in Requests, UpdateTopUpFromProvider(r) PROVE ReceiptInv'
  <2>1. mapProviderStatus(req[r].seen) \notin {"NONE", "INITIATED"}
    BY DEF mapProviderStatus
  <2> QED
    BY <1>1, <1>5, <2>1 DEF TypeOK, UpdateTopUpFromProvider
<1>6. ASSUME NEW r \in Requests, RefundTransaction(r) PROVE ReceiptInv'
  BY <1>1, <1>6 DEF TypeOK, RefundTransaction
<1>7. ASSUME NEW r \in Requests,
             \/ ReadProvider(r) \/ FindTopUp(r) \/ RecordSyncEvent(r)
             \/ RecordWebhookEvent(r) \/ Abort(r)
      PROVE  ReceiptInv'
  BY <1>1, <1>7 DEF ReadProvider, FindTopUp, RecordSyncEvent, RecordWebhookEvent, Abort
<1>8. ASSUME NEW r \in Requests, NEW p \in Payments,
             HandleProviderWebhook(r, p) \/ PollPaymentStatus(r, p)
      PROVE  ReceiptInv'
  BY <1>1, <1>8 DEF HandleProviderWebhook, PollPaymentStatus
<1>9. ASSUME NEW r \in Requests, NEW s \in Sessions,
             MockApprove(r, s) \/ RefundCreditTopUp(r, s)
      PROVE  ReceiptInv'
  BY <1>1, <1>9 DEF MockApprove, RefundCreditTopUp
<1>10. ASSUME NEW u \in Users, SpendBalance(u) PROVE ReceiptInv'
  BY <1>1, <1>10 DEF SpendBalance
<1>11. CASE UNCHANGED vars
  BY <1>1, <1>11 DEF vars
<1> QED
  BY <1>2, <1>3, <1>4, <1>5, <1>6, <1>7, <1>8, <1>9, <1>10, <1>11 DEF Next, RequestStep

\* Credits and events are never taken back.
LEMMA Grows ==
    ASSUME TypeOK, [Next]_vars
    PROVE  /\ \A s \in Sessions : credits[s] > 0 => credits'[s] > 0
           /\ events \subseteq events'
<1> USE DEF sessionVars, walletVars
<1>1. ASSUME NEW r \in Requests, ApproveProviderTopUp(r)
      PROVE  /\ \A s \in Sessions : credits[s] > 0 => credits'[s] > 0
             /\ events' = events
  BY <1>1 DEF ApproveProviderTopUp, TypeOK, Request
<1>2. ASSUME NEW r \in Requests, RecordSyncEvent(r) \/ RecordWebhookEvent(r)
      PROVE  credits' = credits /\ events \subseteq events'
  BY <1>2 DEF RecordSyncEvent, RecordWebhookEvent
<1>3. \/ UNCHANGED <<credits, events>>
      \/ \E r \in Requests : \/ ApproveProviderTopUp(r)
                             \/ RecordSyncEvent(r) \/ RecordWebhookEvent(r)
  BY DEF Next, vars, SessionStep, RequestStep, CreateCreditTopUp, OpenCheckout, MockPend,
         MockRejectOrExpire, Pay, ProviderSettles, ReadProvider, FindTopUp,
         UpdateTopUpFromProvider, RefundTransaction, Abort, HandleProviderWebhook,
         PollPaymentStatus, MockApprove, RefundCreditTopUp, SpendBalance
<1> QED
  BY <1>1, <1>2, <1>3

\* The one handler's record after it went to another step.
LEMMA GoToKeeps ==
    ASSUME TypeOK, NEW r \in Requests, NEW pc \in PCs \ {"idle"}, GoTo(r, pc)
    PROVE  /\ req'[r].pc = pc /\ req'[r].kind = req[r].kind /\ req'[r].p = req[r].p
           /\ req'[r].s = req[r].s /\ req'[r].seen = req[r].seen
           /\ req'[r].existing = req[r].existing
  BY DEF TypeOK, GoTo, PCs, Request

\* Every step of the handlers and of the pages keeps what handlers know.
LEMMA SyncStep ==
    ASSUME TypeOK, TabOK, OneHandler, SyncInv, ProcessedInv,
           [PagesNext]_<<vars, pageVars>>
    PROVE  SyncInv'
<1> USE DEF sessionVars, walletVars
<1>0. PICK r \in Requests : Requests = {r}
  BY TopUpConstants DEF OneHandler
<1>a. req[r] \in Request /\ (Busy(r) /\ req[r].kind # "mock" => req[r].p \in Payments)
  BY DEF TypeOK, HandlersOK
<1>1. ASSUME UNCHANGED <<req, events, credits>>, died => died' PROVE SyncInv'
  BY <1>1 DEF SyncInv, Busy, AppliedByOther
<1>2. ASSUME req'[r].pc = "idle" \/ req'[r].kind = "mock" PROVE SyncInv'
  BY <1>0, <1>2 DEF SyncInv, Busy
<1>3. ASSUME UNCHANGED died, ReadProvider(r) PROVE SyncInv'
  <2>1. req[r].kind # "mock"
    BY <1>3 DEF TypeOK, HandlersOK, Busy, ReadProvider
  <2>2. /\ req'[r].pc = "find" /\ req'[r].p = req[r].p /\ req'[r].s = req[r].s
        /\ req'[r].existing = (SyncEvent(req[r].p) \in events) /\ events' = events
    BY <1>3 DEF ReadProvider, TypeOK, Request
  <2>3. req[r].s = SessionOf[req[r].p]
    BY <1>3, <2>1 DEF SyncInv, ReadProvider, Busy
  <2> QED
    BY <1>0, <2>2, <2>3 DEF SyncInv
<1>4. ASSUME UNCHANGED died, FindTopUp(r), req[r].kind # "mock" PROVE SyncInv'
  <2> DEFINE a == req[r].s
             p == req[r].p
  <2>1. req[r].pc = "find" /\ UNCHANGED <<events, credits>>
    BY <1>4 DEF FindTopUp
  <2>2. /\ p \in Payments /\ a = SessionOf[p] /\ a \in Sessions \ MockSessions
        /\ req[r].existing <=> SyncEvent(p) \in events
    BY <1>4, <2>1, TopUpConstants, <1>a DEF SyncInv, Busy
  <2>3. ASSUME processed[a], ~req[r].existing, ~died
        PROVE  credits[a] > 0 \/ AppliedByOther(a, p)
    <3>1. ~ \E q \in Requests : req[q].pc = "event"
      BY <1>0, <2>1
    <3>2. credits[a] > 0 \/ Applied(a)
      BY <2>2, <2>3, <3>1 DEF ProcessedInv
    <3> QED
      BY <2>2, <2>3, <3>2 DEF Applied, AppliedByOther
  <2>4. \/ GoTo(r, "credit")
        \/ GoTo(r, "event") /\ processed[a]
    BY <1>4 DEF FindTopUp, AfterApply
  <2>5. /\ req'[r].pc = "credit" \/ (req'[r].pc = "event" /\ processed[a])
        /\ req'[r].p = p /\ req'[r].s = a /\ req'[r].existing = req[r].existing
    BY <2>4, GoToKeeps DEF PCs
  <2> QED
    BY <1>0, <1>4, <2>1, <2>2, <2>3, <2>5 DEF SyncInv, AppliedByOther
<1>5. ASSUME UNCHANGED died, ApproveProviderTopUp(r), req[r].kind # "mock" PROVE SyncInv'
  <2>1. /\ req'[r].pc = "event" /\ req'[r].p = req[r].p /\ req'[r].s = req[r].s
        /\ req'[r].existing = req[r].existing /\ UNCHANGED events
    BY <1>5, GoToKeeps DEF ApproveProviderTopUp, AfterApply, PCs
  <2>2. credits'[req[r].s] > 0
    BY <1>5, <1>a DEF ApproveProviderTopUp, TypeOK, Request
  <2>3. /\ req[r].s = SessionOf[req[r].p]
        /\ req[r].existing <=> SyncEvent(req[r].p) \in events
    BY <1>5 DEF SyncInv, Busy, ApproveProviderTopUp
  <2> QED
    BY <1>0, <2>1, <2>2, <2>3 DEF SyncInv
<1>6. ASSUME UpdateTopUpFromProvider(r) PROVE SyncInv'
  <2>1. /\ req'[r].pc = "event" /\ req'[r].p = req[r].p /\ req'[r].s = req[r].s
        /\ req'[r].existing = req[r].existing /\ req'[r].seen # "approved"
        /\ UNCHANGED events
    BY <1>6, GoToKeeps DEF UpdateTopUpFromProvider, PCs
  <2>2. req[r].kind # "mock"
    BY <1>6 DEF TypeOK, HandlersOK, Busy, UpdateTopUpFromProvider
  <2>3. /\ req[r].s = SessionOf[req[r].p]
        /\ req[r].existing <=> SyncEvent(req[r].p) \in events
    BY <1>6, <2>2 DEF SyncInv, Busy, UpdateTopUpFromProvider
  <2> QED
    BY <1>0, <2>1, <2>3 DEF SyncInv
<1>7. ASSUME RecordSyncEvent(r) \/ RecordWebhookEvent(r) PROVE SyncInv'
  <2>1. req[r].kind # "mock" /\ req[r].s = SessionOf[req[r].p]
    BY <1>7 DEF TypeOK, HandlersOK, SyncInv, Busy, RecordSyncEvent, RecordWebhookEvent
  <2>2. GoTo(r, "idle") \/ GoTo(r, "webhookEvent")
    BY <1>7 DEF RecordSyncEvent, RecordWebhookEvent
  <2>3. CASE GoTo(r, "idle")
    BY <1>2, <2>3 DEF GoTo, Idle, TypeOK
  <2>4. CASE GoTo(r, "webhookEvent")
    <3>1. /\ req'[r].pc = "webhookEvent" /\ req'[r].p = req[r].p /\ req'[r].s = req[r].s
      BY <2>4, GoToKeeps DEF PCs
    <3> QED
      BY <1>0, <2>1, <3>1 DEF SyncInv
  <2> QED
    BY <2>2, <2>3, <2>4
<1>8. ASSUME \/ RefundTransaction(r) \/ Abort(r)
             \/ (FindTopUp(r) \/ ApproveProviderTopUp(r)) /\ req[r].kind = "mock"
      PROVE  SyncInv'
  <2>1. GoTo(r, "idle") \/ (GoTo(r, "credit") /\ req[r].kind = "mock")
    BY <1>8 DEF RefundTransaction, Abort, FindTopUp, ApproveProviderTopUp, AfterApply
  <2>2. req'[r].pc = "idle" \/ req'[r].kind = "mock"
    BY <2>1 DEF GoTo, Idle, TypeOK, Request
  <2> QED
    BY <1>2, <2>2
<1>9. ASSUME NEW p \in Payments, HandleProviderWebhook(r, p) \/ PollPaymentStatus(r, p)
      PROVE  SyncInv'
  <2>1. PICK kind \in {"webhook", "poll"} : StartSync(r, p, kind)
    BY <1>9 DEF HandleProviderWebhook, PollPaymentStatus
  <2>2. req'[r].pc = "provider" /\ req'[r].p = p /\ req'[r].s = SessionOf[p]
    BY <2>1 DEF StartSync, TypeOK, Request
  <2> QED
    BY <1>0, <2>2 DEF SyncInv
<1>10. ASSUME NEW s \in Sessions, MockApprove(r, s) \/ RefundCreditTopUp(r, s)
       PROVE  SyncInv'
  <2>1. PICK pc \in {"find", "refund"}, amount \in Int : StartMock(r, s, pc, amount)
    BY <1>10 DEF MockApprove, RefundCreditTopUp
  <2>2. req'[r].kind = "mock"
    BY <2>1 DEF StartMock, TypeOK, Request
  <2> QED
    BY <1>2, <2>2
<1>11. ASSUME \/ \E s \in Sessions : SessionStep(s)
              \/ \E p \in Payments : Pay(p) \/ ProviderSettles(p)
              \/ \E u \in Users : SpendBalance(u)
              \/ UNCHANGED vars
       PROVE  UNCHANGED <<req, events, credits>>
  BY <1>11 DEF SessionStep, CreateCreditTopUp, OpenCheckout, MockPend, MockRejectOrExpire,
               Pay, ProviderSettles, SpendBalance, vars
<1> QED
  BY <1>0, <1>1, <1>3, <1>4, <1>5, <1>6, <1>7, <1>8, <1>9, <1>10, <1>11, Behaves
     DEF RequestStep

\* ... and what processedAt stands for.
LEMMA ProcessedStep ==
    ASSUME TypeOK, TabOK, OneHandler, SyncInv, ProcessedInv,
           [PagesNext]_<<vars, pageVars>>
    PROVE  ProcessedInv'
<1> USE DEF sessionVars, walletVars
<1>0. PICK r \in Requests : Requests = {r}
  BY TopUpConstants DEF OneHandler
<1>g. [Next]_vars /\ (died => died')
  BY Behaves DEF Next
<1>h. /\ \A s \in Sessions : credits[s] > 0 => credits'[s] > 0
      /\ \A s \in Sessions : Applied(s) => Applied(s)'
  BY <1>g, Grows DEF Applied
<1>1. ASSUME req[r].pc # "event",
             \A s \in Sessions \ MockSessions : processed'[s] => processed[s]
      PROVE  ProcessedInv'
  BY <1>0, <1>1, <1>g, <1>h DEF ProcessedInv
<1>2. ASSUME UNCHANGED req,
             \A s \in Sessions \ MockSessions : processed'[s] => processed[s]
      PROVE  ProcessedInv'
  BY <1>2, <1>g, <1>h DEF ProcessedInv
<1>3. ASSUME ApproveProviderTopUp(r) PROVE ProcessedInv'
  <2>1. req[r].s \in Sessions /\ credits'[req[r].s] > 0
    BY <1>3 DEF ApproveProviderTopUp, TypeOK, Request
  <2>2. \A s \in Sessions : s # req[r].s => processed'[s] = processed[s]
    BY <1>3 DEF ApproveProviderTopUp, TypeOK
  <2>3. req[r].pc # "event"
    BY <1>3 DEF ApproveProviderTopUp
  <2> QED
    BY <1>0, <1>g, <1>h, <2>1, <2>2, <2>3 DEF ProcessedInv
<1>4. ASSUME UpdateTopUpFromProvider(r) PROVE ProcessedInv'
  <2>1. req'[r].pc = "event" /\ req'[r].s = req[r].s
    BY <1>4, GoToKeeps DEF UpdateTopUpFromProvider, PCs
  <2>2. \A s \in Sessions : s # req[r].s => processed'[s] = processed[s]
    BY <1>4 DEF UpdateTopUpFromProvider, TypeOK
  <2>3. req[r].pc # "event"
    BY <1>4 DEF UpdateTopUpFromProvider
  <2> QED
    BY <1>0, <1>g, <1>h, <2>1, <2>2, <2>3 DEF ProcessedInv
<1>5. ASSUME RecordSyncEvent(r) PROVE ProcessedInv'
  <2>1. req[r].kind # "mock" /\ req[r].pc = "event" /\ req[r].p \in Payments
    BY <1>5 DEF TypeOK, HandlersOK, Busy, RecordSyncEvent
  <2>2. /\ req[r].s = SessionOf[req[r].p]
        /\ req[r].existing <=> SyncEvent(req[r].p) \in events
    BY <2>1 DEF SyncInv, Busy
  <2>3. SyncEvent(req[r].p) \in events' /\ UNCHANGED processed
    BY <1>5, <2>2 DEF RecordSyncEvent
  <2>4. ASSUME NEW s \in Sessions, s = req[r].s PROVE Applied(s)'
    BY <2>1, <2>2, <2>3, <2>4 DEF Applied
  <2> QED
    BY <1>0, <1>g, <1>h, <2>3, <2>4 DEF ProcessedInv
<1>6. ASSUME \/ ReadProvider(r) \/ FindTopUp(r) \/ RecordWebhookEvent(r)
             \/ RefundTransaction(r)
      PROVE  ProcessedInv'
  <2>1. req[r].pc # "event" /\ UNCHANGED processed
    BY <1>6 DEF ReadProvider, FindTopUp, RecordWebhookEvent, RefundTransaction
  <2> QED
    BY <1>1, <2>1
<1>7. ASSUME \/ \E p \in Payments : HandleProviderWebhook(r, p) \/ PollPaymentStatus(r, p)
             \/ \E s \in Sessions : MockApprove(r, s) \/ RefundCreditTopUp(r, s)
      PROVE  ProcessedInv'
  <2>1. ~Busy(r) /\ UNCHANGED processed
    BY <1>7 DEF HandleProviderWebhook, PollPaymentStatus, MockApprove, RefundCreditTopUp
  <2> QED
    BY <1>1, <2>1 DEF Busy
<1>8. ASSUME NEW s \in Sessions, SessionStep(s) PROVE ProcessedInv'
  <2>1. UNCHANGED req
    BY <1>8 DEF SessionStep, CreateCreditTopUp, OpenCheckout, MockPend, MockRejectOrExpire
  <2>2. \A t \in Sessions \ MockSessions : processed'[t] => processed[t]
    BY <1>8 DEF SessionStep, CreateCreditTopUp, OpenCheckout, MockPend, MockRejectOrExpire,
                MockCheckout, TypeOK
  <2> QED
    BY <1>2, <2>1, <2>2
<1>9. ASSUME \/ \E p \in Payments : Pay(p) \/ ProviderSettles(p)
             \/ \E u \in Users : SpendBalance(u)
             \/ UNCHANGED vars
      PROVE  ProcessedInv'
  BY <1>2, <1>9 DEF Pay, ProviderSettles, SpendBalance, vars
<1>10. ASSUME died' PROVE ProcessedInv'
  BY <1>10 DEF ProcessedInv
<1> QED
  BY <1>0, <1>3, <1>4, <1>5, <1>6, <1>7, <1>8, <1>9, <1>10, Behaves DEF RequestStep

\* What a row must say for a page to show the charge as approved.
LEMMA ApprovedStatus == \A st : mapStatus(st) = "approved" => st = "APPROVED"
  BY DEF mapStatus

\* What an opened page has not done yet.
LEMMA Opened ==
    ASSUME NEW page, NEW s
    PROVE  /\ Goes(page, s).at = page /\ Goes(page, s).s = s
           /\ Goes(page, s).p = NoPayment /\ Goes(page, s).by = {}
           /\ Goes(page, s).toast = FALSE
  BY DEF Goes, Wallet

\* The status page opened after a mock action shows the row's status.
LEMMA StatusUrl ==
    ASSUME NEW st
    PROVE  /\ statusUrl(st).at = "status" /\ statusUrl(st).s = tab.s
           /\ statusUrl(st).p = NoPayment /\ statusUrl(st).by = {}
           /\ statusUrl(st).url = mapStatus(st) /\ statusUrl(st).toast = FALSE
  BY DEF statusUrl, Goes, Wallet

\* A page that is opened instead of the status page has nothing to keep.
LEMMA TabOpened ==
    ASSUME tab'.at # "status", tab'.toast = FALSE
    PROVE  TabInv'
  BY DEF TabInv

\* A status page opened by a mock action shows what the row says by now.
LEMMA TabRedirected ==
    ASSUME ApprovedIsBacked', TabOK, NEW st, tab' = statusUrl(st),
           st = "APPROVED" => status'[tab.s] = "APPROVED"
    PROVE  TabInv'
<1>1. /\ tab'.at = "status" /\ tab'.s = tab.s /\ tab'.p = NoPayment /\ tab'.by = {}
      /\ tab'.url = mapStatus(st) /\ tab'.toast = FALSE
  BY StatusUrl
<1>2. tab.s \in Sessions
  BY DEF TabOK, Tab
<1>3. finalStatus' = "approved" => st = "APPROVED"
  <2>1. CASE tab'.url # "none"
    BY <1>1, <2>1, ApprovedStatus DEF finalStatus
  <2>2. CASE tab'.url = "none"
    <3>1. tab'.answer = "none"
      BY DEF statusUrl, Goes, Wallet
    <3> QED
      BY <2>2, <3>1 DEF finalStatus
  <2> QED
    BY <2>1, <2>2
<1>4. finalStatus' = "approved" => credits'[tab.s] > 0
  BY <1>2, <1>3 DEF ApprovedIsBacked
<1> QED
  BY <1>1, <1>4 DEF TabInv

\* A page that stays open, keeps what it shows, and waits for no other handler,
\* keeps its part if the handler it waits for does.
LEMMA TabStays ==
    ASSUME TypeOK, TabOK, TabInv, [Next]_vars, died => died',
           tab'.at = tab.at, tab'.s = tab.s, tab'.p = tab.p,
           tab'.url = tab.url, tab'.answer = tab.answer, tab'.toast = tab.toast,
           tab.at = "status" => \A r \in tab'.by :
              /\ Busy(r)' /\ req'[r].pc # "webhookEvent"
              /\ req'[r].kind = "poll" /\ req'[r].p = tab.p
    PROVE  TabInv'
<1>1. tab.s \in Sessions
  BY DEF TabOK, Tab
<1>2. finalStatus' = finalStatus
  BY DEF finalStatus
<1>3. /\ credits[tab.s] > 0 => credits'[tab.s] > 0
      /\ events \subseteq events'
  BY <1>1, Grows
<1>4. AppliedByOther(tab.s, tab.p) => AppliedByOther(tab.s, tab.p)'
  BY <1>3 DEF AppliedByOther
<1> QED
  BY <1>2, <1>3, <1>4 DEF TabInv

\* A poll that goes on behind the status page stays a poll of its payment.
LEMMA PollStays ==
    ASSUME TypeOK, NEW r \in Requests, Busy(r), req[r].kind = "poll",
           req[r].pc # "webhookEvent",
           \/ ReadProvider(r) \/ FindTopUp(r) \/ UpdateTopUpFromProvider(r)
           \/ ApproveProviderTopUp(r)
    PROVE  /\ Busy(r)' /\ req'[r].pc # "webhookEvent"
           /\ req'[r].kind = "poll" /\ req'[r].p = req[r].p
<1>1. CASE ReadProvider(r)
  BY <1>1 DEF ReadProvider, TypeOK, Request, Busy
<1>2. CASE FindTopUp(r) \/ UpdateTopUpFromProvider(r) \/ ApproveProviderTopUp(r)
  <2>1. GoTo(r, "credit") \/ GoTo(r, "event")
    BY <1>2 DEF FindTopUp, UpdateTopUpFromProvider, ApproveProviderTopUp, AfterApply
  <2> QED
    BY <2>1, GoToKeeps DEF PCs, Busy
<1> QED
  BY <1>1, <1>2

\* What the tab shows and waits for is preserved by every step.
LEMMA TabInvStep ==
    ASSUME TypeOK, TabOK, OneHandler, SyncInv, TabInv, ApprovedIsBacked,
           ApprovedIsBacked', ReceiptInv, [PagesNext]_<<vars, pageVars>>
    PROVE  TabInv'
<1> USE DEF Shows, sessionVars, walletVars
<1>0. PICK r \in Requests : Requests = {r}
  BY TopUpConstants DEF OneHandler
<1>g. [Next]_vars /\ (died => died')
  BY Behaves DEF Next
<1>t. tab \in Tab /\ tab.s \in Sessions /\ tab.by \subseteq {r}
  BY <1>0 DEF TabOK, Tab
<1>w. tab.at = "status" => \A q \in tab.by :
         /\ q = r /\ Busy(r) /\ req[r].pc # "webhookEvent"
         /\ req[r].kind = "poll" /\ req[r].p = tab.p
  BY <1>t DEF TabInv
<1>1. ASSUME NEW s \in Sessions, handleCreateTopUp(s) PROVE TabInv'
  <2>1. tab' = Goes("creating", s)
    BY <1>1 DEF handleCreateTopUp
  <2>2. tab'.at = "creating" /\ tab'.toast = FALSE
    BY <2>1, Opened
  <2> QED
    BY <2>2, TabOpened
<1>2. CASE redirectToCheckout \/ createFails \/ leave \/ backToMock
  <2>1. \/ tab' = Wallet
        \/ \E page \in {"mock", "provider"} : tab' = Goes(page, tab.s)
    BY <1>2 DEF redirectToCheckout, createFails, leave, backToMock
  <2>2. Wallet.at = "wallet" /\ Wallet.toast = FALSE
    BY DEF Wallet
  <2>3. \A s \in Sessions : \A page \in {"mock", "provider"} :
           Goes(page, s).at = page /\ Goes(page, s).toast = FALSE
    BY Opened
  <2>4. tab'.at # "status" /\ tab'.toast = FALSE
    BY <1>t, <2>1, <2>2, <2>3
  <2> QED
    BY <2>4, TabOpened
<1>3. ASSUME NEW p \in Payments, returnFromProvider(p) PROVE TabInv'
  <2>1. tab' = [Goes("status", tab.s) EXCEPT !.p = p, !.url = payment[p]]
    BY <1>3 DEF returnFromProvider
  <2>2. Goes("status", tab.s) \in Tab
    BY <1>t, WalletType
  <2> DEFINE t == Goes("status", tab.s)
  <2>a. /\ t \in Tab /\ t.at = "status"
        /\ t.s = tab.s /\ t.by = {} /\ t.toast = FALSE
    <3>1. t = [Wallet EXCEPT !.at = "status", !.s = tab.s]
      BY DEF Goes
    <3>2. Wallet \in Tab /\ Wallet.by = {} /\ Wallet.toast = FALSE
      BY WalletType DEF Wallet
    <3> QED
      BY <2>2, <3>1, <3>2 DEF Tab
  <2> HIDE DEF t
  <2>3. /\ tab'.at = "status" /\ tab'.s = tab.s /\ tab'.p = p /\ tab'.by = {}
        /\ tab'.toast = FALSE
    <3>1. tab' = [t EXCEPT !.p = p, !.url = payment[p]]
      BY <2>1 DEF t
    <3> QED
      BY <2>a, <3>1 DEF Tab
  <2>4. SessionOf[p] = tab.s /\ tab.s \notin MockSessions
    BY <1>3, TopUpConstants DEF returnFromProvider
  <2> QED
    BY <2>3, <2>4 DEF TabInv
<1>4. CASE syncMock
  <2> DEFINE b == credited[tab.s] > 0 /\ ~processed[tab.s]
  <2>1. tab' = [tab EXCEPT !.asked = TRUE, !.answer = mapStatus(status[tab.s]), !.toast = b]
    BY <1>4 DEF syncMock
  <2>2. b => credits[tab.s] > 0
    BY <1>t DEF ReceiptInv, TypeOK
  <2> HIDE DEF b
  <2>3. /\ tab'.at = tab.at /\ tab'.s = tab.s /\ tab'.p = tab.p /\ tab'.by = tab.by
        /\ tab'.url = tab.url /\ tab'.answer = mapStatus(status[tab.s]) /\ tab'.toast = b
    BY <1>t, <2>1 DEF Tab
  <2>4. tab.by = {} /\ UNCHANGED <<credits, status>>
    BY <1>4 DEF syncMock, Waiting, vars
  <2>5. finalStatus' = "approved" => finalStatus = "approved" \/ status[tab.s] = "APPROVED"
    BY <2>3, ApprovedStatus DEF finalStatus
  <2>6. status[tab.s] = "APPROVED" => credits[tab.s] > 0
    BY <1>t DEF ApprovedIsBacked
  <2> QED
    BY <2>2, <2>3, <2>4, <2>5, <2>6 DEF TabInv
<1>5. CASE loadPayment
  <2>1. /\ tab'.at = "mock" /\ tab'.s = tab.s /\ tab'.p = tab.p /\ tab'.toast = tab.toast
        /\ UNCHANGED <<credits, events, died>>
    BY <1>5, <1>t DEF loadPayment, Tab, vars
  <2> QED
    BY <2>1 DEF TabInv, AppliedByOther
<1>6. CASE executePend
  BY <1>6, TabRedirected DEF executePend
<1>7. CASE executeReject
  <2>1. tab' = statusUrl(status'[tab.s])
    BY <1>7 DEF executeReject
  <2> QED
    BY <2>1, TabRedirected
<1>8. CASE syncPayment(r)
  <2>1. PollPaymentStatus(r, tab.p) /\ tab' = [tab EXCEPT !.asked = TRUE, !.by = {r}]
    BY <1>8 DEF syncPayment
  <2>2. /\ tab'.at = tab.at /\ tab'.s = tab.s /\ tab'.p = tab.p /\ tab'.by = {r}
        /\ tab'.url = tab.url /\ tab'.answer = tab.answer /\ tab'.toast = tab.toast
    BY <1>t, <2>1 DEF Tab
  <2>3. req'[r].pc = "provider" /\ req'[r].kind = "poll" /\ req'[r].p = tab.p
    BY <2>1 DEF PollPaymentStatus, StartSync, TypeOK, Request
  <2> QED
    BY <1>g, <2>2, <2>3, TabStays DEF Busy
<1>9. CASE syncAnswer(r)
  <2>1. /\ r \in tab.by /\ tab.at = "status" /\ req[r].pc = "event"
        /\ UNCHANGED <<credits, died>>
    BY <1>9 DEF syncAnswer, RecordSyncEvent
  <2>2. req[r].kind = "poll" /\ req[r].p = tab.p /\ tab.p # NoPayment
    BY <1>w, <2>1 DEF TabOK
  <2>3. SessionOf[tab.p] = tab.s /\ tab.s \notin MockSessions /\ req[r].s = tab.s
    <3>1. SessionOf[tab.p] = tab.s
      BY <2>1, <2>2 DEF TabInv
    <3>2. tab.p \in Payments
      BY <1>t, <2>2 DEF Tab
    <3> QED
      BY <2>1, <2>2, <3>1, <3>2, TopUpConstants DEF SyncInv, Busy
  <2>4. /\ tab'.at = tab.at /\ tab'.s = tab.s /\ tab'.p = tab.p /\ tab'.by = {}
        /\ tab'.toast => tab.toast \/ Announces(r)
    <3>1. Announces(r) \in BOOLEAN
      BY DEF Announces
    <3>2. CASE tab' = [tab EXCEPT !.by = {}]
      BY <1>t, <3>2 DEF Tab
    <3>3. CASE tab' = [tab EXCEPT !.by = {}, !.answer = payment[tab.p], !.toast = Announces(r)]
      BY <1>t, <3>3 DEF Tab
    <3> QED
      BY <1>9, <3>2, <3>3 DEF syncAnswer
  <2>5. (Announces(r) /\ ~died) => credits[tab.s] > 0 \/ AppliedByOther(tab.s, tab.p)
    BY <2>1, <2>2, <2>3 DEF SyncInv, Announces
  <2>6. AppliedByOther(tab.s, tab.p) => AppliedByOther(tab.s, tab.p)'
    <3>1. events \subseteq events'
      BY <1>g, Grows
    <3> QED
      BY <2>4, <3>1 DEF AppliedByOther
  <2> QED
    BY <2>1, <2>3, <2>4, <2>5, <2>6 DEF TabInv
<1>10. CASE executeApprove(r) \/ executeRefund(r)
  <2>1. CASE tab' = [tab EXCEPT !.by = {r}] /\ tab.at = "mock"
    <3>1. /\ tab'.at = tab.at /\ tab'.s = tab.s /\ tab'.p = tab.p
          /\ tab'.url = tab.url /\ tab'.answer = tab.answer /\ tab'.toast = tab.toast
      BY <1>t, <2>1 DEF Tab
    <3> QED
      BY <1>g, <2>1, <3>1, TabStays
  <2>2. CASE tab' = statusUrl(status[tab.s]) /\ UNCHANGED vars
    BY <2>2, TabRedirected DEF vars
  <2> QED
    BY <1>10, <2>1, <2>2 DEF executeApprove, executeRefund, Ready
<1>11. CASE actionAnswer(r)
  <2>1. CASE tab' = [tab EXCEPT !.by = {}] /\ tab.at = "mock"
    <3>1. /\ tab'.at = tab.at /\ tab'.s = tab.s /\ tab'.p = tab.p
          /\ tab'.url = tab.url /\ tab'.answer = tab.answer /\ tab'.toast = tab.toast
      BY <1>t, <2>1 DEF Tab
    <3> QED
      BY <1>g, <2>1, <3>1, TabStays
  <2>2. CASE tab' = statusUrl(status'[tab.s])
    BY <2>2, TabRedirected
  <2> QED
    BY <1>11, <2>1, <2>2 DEF actionAnswer
<1>12. CASE pageRequestDies(r)
  <2>1. /\ tab'.at = tab.at /\ tab'.s = tab.s /\ tab'.p = tab.p /\ tab'.by = {}
        /\ tab'.url = tab.url /\ tab'.answer = tab.answer /\ tab'.toast = tab.toast
    BY <1>12, <1>t DEF pageRequestDies, Tab
  <2> QED
    BY <1>g, <2>1, TabStays
<1>13. CASE UNCHANGED pageVars /\ Behind(r)
  <2>1. UNCHANGED <<tab, died>>
    BY <1>13 DEF pageVars
  <2>2. ASSUME tab.at = "status", NEW q \in tab.by
        PROVE  /\ Busy(q)' /\ req'[q].pc # "webhookEvent"
               /\ req'[q].kind = "poll" /\ req'[q].p = tab.p
    <3>1. /\ q = r /\ Busy(r) /\ req[r].pc # "webhookEvent"
          /\ req[r].kind = "poll" /\ req[r].p = tab.p
      BY <1>w, <2>2
    <3>2. \/ ReadProvider(r) \/ FindTopUp(r) \/ UpdateTopUpFromProvider(r)
          \/ ApproveProviderTopUp(r)
      BY <1>13, <3>1 DEF Behind, RecordWebhookEvent, HandleProviderWebhook
    <3> QED
      BY <3>1, <3>2, PollStays
  <2> QED
    BY <1>g, <2>1, <2>2, TabStays
<1>14. CASE /\ UNCHANGED pageVars
            /\ \/ \E p \in Payments : Pay(p) \/ ProviderSettles(p)
               \/ \E u \in Users : SpendBalance(u)
               \/ UNCHANGED vars
  <2>1. UNCHANGED <<tab, died, req>>
    BY <1>14 DEF pageVars, Pay, ProviderSettles, SpendBalance, vars
  <2> QED
    BY <1>g, <1>w, <2>1, TabStays DEF Busy
<1> QED
  BY <1>0, <1>1, <1>2, <1>3, <1>4, <1>5, <1>6, <1>7, <1>8, <1>9, <1>10, <1>11,
     <1>12, <1>13, <1>14 DEF PagesNext, PageStep

\* When handlers do not overlap, what the pages tell a buyer about a charge is
\* backed by the wallet: "Saldo LUK acreditado" and "aprobado" are shown for
\* sessions that were credited, and receipts for exactly those.
THEOREM AnnouncedTheorem == OneHandler /\ PagesSpec => []AnnouncedIsCredited
<1> DEFINE I == OneHandler /\ SyncInv /\ ProcessedInv /\ TabInv /\ ReceiptInv
<1>1. OneHandler /\ PagesInit => I
  <2> SUFFICES ASSUME OneHandler, PagesInit PROVE I
    OBVIOUS
  <2>1. SyncInv /\ ProcessedInv
    BY DEF PagesInit, Init, SyncInv, ProcessedInv, Idle, Busy
  <2>2. TabInv
    BY DEF PagesInit, TabInv, Wallet
  <2>3. ReceiptInv
    BY TopUpConstants DEF PagesInit, Init, ReceiptInv
  <2> QED
    BY <2>1, <2>2, <2>3
<1>2. /\ TypeOK /\ TypeOK' /\ TabOK /\ ApprovedIsBacked /\ ApprovedIsBacked'
      /\ I /\ [PagesNext]_<<vars, pageVars>>
      => I'
  <2> SUFFICES ASSUME TypeOK, TypeOK', TabOK, ApprovedIsBacked, ApprovedIsBacked',
                      I, [PagesNext]_<<vars, pageVars>>
               PROVE  I'
    OBVIOUS
  <2>1. SyncInv'
    BY SyncStep
  <2>2. ProcessedInv'
    BY ProcessedStep
  <2>3. TabInv'
    BY TabInvStep
  <2>4. ReceiptInv'
    BY Behaves, ReceiptStep DEF Next
  <2>5. OneHandler'
    BY DEF OneHandler
  <2> QED
    BY <2>1, <2>2, <2>3, <2>4, <2>5
<1>3. TypeOK /\ TabInv /\ ReceiptInv => AnnouncedIsCredited
  <2> SUFFICES ASSUME TypeOK, TabInv, ReceiptInv PROVE AnnouncedIsCredited
    OBVIOUS
  <2>1. ASSUME NEW s \in Sessions
        PROVE  /\ credits[s] > 0 <=> ReceiptPage(s) # {}
               /\ \A receipt \in ReceiptPage(s) :
                    receipt.creditedAmount = Amount /\ receipt.status # "INITIATED"
    <3>1. credits[s] > 0 <=> credited[s] > 0
      BY TopUpConstants DEF ReceiptInv, TypeOK
    <3>2. credited[s] > 0 => credited[s] = Amount /\ status[s] # "INITIATED"
      BY <3>1 DEF ReceiptInv
    <3>3. CASE credited[s] > 0
      <4>1. ReceiptPage(s) = {getCreditTopUpReceipt(s)}
        BY <3>3 DEF ReceiptPage, ReceiptOffered
      <4>2. /\ getCreditTopUpReceipt(s).creditedAmount = credited[s]
            /\ getCreditTopUpReceipt(s).status = status[s]
        BY DEF getCreditTopUpReceipt
      <4> QED
        BY <3>1, <3>2, <3>3, <4>1, <4>2
    <3>4. CASE ~(credited[s] > 0)
      BY <3>1, <3>4 DEF ReceiptPage, ReceiptOffered
    <3> QED
      BY <3>3, <3>4
  <2> QED
    BY <2>1 DEF AnnouncedIsCredited, TabInv, AppliedByOther
<1> HIDE DEF I
<1>4. OneHandler /\ PagesSpec => []I
  BY <1>1, <1>2, PagesTheorem, TypeCorrect, BackedTheorem, PTL DEF PagesSpec
<1>5. I => TabInv /\ ReceiptInv
  BY DEF I
<1> QED
  BY <1>3, <1>4, <1>5, PagesTheorem, TypeCorrect, PTL
=============================================================================
