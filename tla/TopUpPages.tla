----------------------------- MODULE TopUpPages -----------------------------
(***************************************************************************)
(* The pages around a charge: the wallet page that creates it, the QA       *)
(* checkout of the mock provider, the status page the buyer comes back to   *)
(* and the receipt.  Source: frontend/src/app/dashboard/wallet,             *)
(* app/checkout/mock, app/checkout/status, and the endpoints they call in   *)
(* mp.controller.ts and mock-payments.controller.ts.                        *)
(*                                                                         *)
(* One tab goes from page to page.  Polls and mock actions of TopUps are    *)
(* now requests of this tab; webhooks, the provider and purchases are not.  *)
(* A page keeps what it read: the status in its URL, the answer of its last *)
(* request, and the summary that the mock checkout loaded.                  *)
(***************************************************************************)
EXTENDS TopUps

VARIABLES
    tab,    \* the page that is open and what it has read
    died    \* ghost: a handler died before it was done

pageVars == <<tab, died>>

\* The wallet page, before any charge.
Wallet == [at |-> "wallet",     \* the page
           s |-> CHOOSE s \in Sessions : TRUE,
           p |-> NoPayment,     \* payment_id of the status page
           url |-> "none",      \* status of its URL ("none": there is none)
           answer |-> "none",   \* status of the last answer
           asked |-> FALSE,     \* the request of the page has been sent
           by |-> {},           \* ... and is handled by this handler
           toast |-> FALSE]     \* "Saldo LUK acreditado" was shown

PagesInit == Init /\ tab = Wallet /\ died = FALSE

Waiting == tab.by # {}
Goes(page, s) == [Wallet EXCEPT !.at = page, !.s = s]
Shows(t) == tab' = t /\ UNCHANGED died

-----------------------------------------------------------------------------
(* Creating a charge *)

\* canCreateTopUp: one charge at a time is being created.
handleCreateTopUp(s) ==
    /\ tab.at = "wallet"
    /\ CreateCreditTopUp(s)
    /\ Shows(Goes("creating", s))

\* onCompleted: the browser leaves for the checkout of the provider.
redirectToCheckout ==
    /\ tab.at = "creating"
    /\ OpenCheckout(tab.s)
    /\ Shows(Goes(IF tab.s \in MockSessions THEN "mock" ELSE "provider", tab.s))

\* onError: the provider refused the session, or the backend stopped.
createFails ==
    /\ tab.at = "creating"
    /\ Shows(Wallet)
    /\ UNCHANGED vars

\* Mercado Pago sends the browser to back_urls with the status of the payment.
returnFromProvider(p) ==
    /\ tab.at = "provider" /\ SessionOf[p] = tab.s /\ payment[p] # "none"
    /\ Shows([Goes("status", tab.s) EXCEPT !.p = p, !.url = payment[p]])
    /\ UNCHANGED vars

\* The buyer comes back without the parameters of the payment, or leaves.
leave ==
    /\ tab.at \in {"provider", "mock", "status"} /\ ~Waiting
    /\ Shows(Wallet)
    /\ UNCHANGED vars

-----------------------------------------------------------------------------
(* The status page *)

\* mapStatus of the mock provider.
mapStatus(st) ==
    CASE st = "APPROVED"         -> "approved"
      [] st = "PENDING"          -> "pending"
      [] st = "REJECTED"         -> "rejected"
      [] st = "EXPIRED"          -> "expired"
      [] st = "REFUNDED_FULL"    -> "refunded"
      [] st = "REFUNDED_PARTIAL" -> "partially_refunded"
      [] OTHER                   -> "initiated"

\* The status in the URL comes first, the answer of the backend second.
finalStatus == IF tab.url # "none" THEN tab.url ELSE tab.answer

\* "Verificar estado" is only there for a pending charge, "Reintentar" only when
\* nothing but an error is known.
OffersRetry == finalStatus = "pending" \/ (finalStatus = "none" /\ tab.asked)

\* syncPayment, when the page is mounted and on handleRetry.
syncPayment(r) ==
    /\ tab.at = "status" /\ ~Waiting /\ (tab.asked => OffersRetry)
    /\ tab.p # NoPayment
    /\ PollPaymentStatus(r, tab.p)
    /\ Shows([tab EXCEPT !.asked = TRUE, !.by = {r}])

\* A mock session is not asked of a provider: the row is the answer.
syncMock ==
    /\ tab.at = "status" /\ ~Waiting /\ (tab.asked => OffersRetry)
    /\ tab.p = NoPayment
    /\ Shows([tab EXCEPT !.asked = TRUE, !.answer = mapStatus(status[tab.s]),
                         !.toast = credited[tab.s] > 0 /\ ~processed[tab.s]])
    /\ UNCHANGED vars

\* Mutant: what the handler answers does not depend on the stored event.
MutAnnounces(r) == req[r].seen = "approved"

\* syncResult of the handler: creditedAmount > 0 and not alreadyProcessed.
Announces(r) == req[r].seen = "approved" /\ ~req[r].existing

\* The handler stores its event and answers with the status of the payment; when
\* another handler stored it meanwhile, the answer is an error.
syncAnswer(r) ==
    /\ r \in tab.by /\ tab.at = "status"
    /\ RecordSyncEvent(r)
    /\ Shows(IF ~req[r].existing /\ SyncEvent(tab.p) \in events
             THEN [tab EXCEPT !.by = {}]
             ELSE [tab EXCEPT !.by = {}, !.answer = payment[tab.p],
                              !.toast = Announces(r)])

-----------------------------------------------------------------------------
(* The QA checkout *)

\* loadPayment reads the summary when the page is opened.
loadPayment ==
    /\ tab.at = "mock" /\ tab.answer = "none"
    /\ Shows([tab EXCEPT !.answer = mapStatus(status[tab.s])])
    /\ UNCHANGED vars

\* The buttons that are not disabled for the summary the page has.
Offers ==
    {a \in {"APPROVE", "PEND", "REJECT", "REFUND"} :
        CASE a = "APPROVE" -> tab.answer # "approved"
          [] a = "PEND"    -> tab.answer # "pending"
          [] a = "REJECT"  -> tab.answer \notin {"rejected", "expired"}
          [] a = "REFUND"  -> tab.answer = "approved"}

Ready(action) == tab.at = "mock" /\ ~Waiting /\ tab.answer # "none" /\ action \in Offers

\* buildStatusRedirectUrl: the status page opens with the status that the row
\* has after the action.
statusUrl(st) == [Goes("status", tab.s) EXCEPT !.url = mapStatus(st)]

executeApprove(r) ==
    /\ Ready("APPROVE")
    /\ \/ /\ MockApprove(r, tab.s)
          /\ Shows([tab EXCEPT !.by = {r}])
       \/ /\ processed[tab.s] /\ UNCHANGED vars       \* returns at once
          /\ Shows(statusUrl(status[tab.s]))

executePend ==
    /\ Ready("PEND")
    /\ MockPend(tab.s)
    /\ Shows(statusUrl("PENDING"))

\* Rejecting and expiring have the same guard.
executeReject ==
    /\ Ready("REJECT")
    /\ MockRejectOrExpire(tab.s)
    /\ Shows(statusUrl(status'[tab.s]))

executeRefund(r) ==
    /\ Ready("REFUND")
    /\ RefundCreditTopUp(r, tab.s)
    /\ Shows([tab EXCEPT !.by = {r}])

\* The last step of an approval or a refund, and the redirect it answers with;
\* a refund that finds the balance spent is answered with an error.
actionAnswer(r) ==
    /\ r \in tab.by /\ tab.at = "mock"
    /\ ApproveProviderTopUp(r) \/ RefundTransaction(r)
    /\ Shows(IF req[r].pc = "refund" /\ refunded' = refunded
             THEN [tab EXCEPT !.by = {}]
             ELSE statusUrl(status'[tab.s]))

\* "Volver a la carga mock": the status page keeps id and token of the checkout.
backToMock ==
    /\ tab.at = "status" /\ ~Waiting /\ tab.s \in MockSessions
    /\ Shows(Goes("mock", tab.s))
    /\ UNCHANGED vars

-----------------------------------------------------------------------------
\* The handler of the page dies: the page shows an error.
pageRequestDies(r) ==
    /\ Abort(r)
    /\ died' = TRUE
    /\ tab' = IF r \in tab.by THEN [tab EXCEPT !.by = {}] ELSE tab

\* What goes on behind the pages.
Behind(r) ==
    \/ ReadProvider(r) \/ FindTopUp(r) \/ UpdateTopUpFromProvider(r)
    \/ req[r].kind # "mock" /\ ApproveProviderTopUp(r)
    \/ req[r].kind = "webhook" /\ RecordSyncEvent(r)
    \/ RecordWebhookEvent(r)
    \/ \E p \in Payments : HandleProviderWebhook(r, p)

PageStep ==
    \/ \E s \in Sessions : handleCreateTopUp(s)
    \/ redirectToCheckout \/ createFails \/ leave
    \/ \E p \in Payments : returnFromProvider(p)
    \/ syncMock \/ loadPayment \/ executePend \/ executeReject \/ backToMock
    \/ \E r \in Requests : \/ syncPayment(r) \/ syncAnswer(r)
                           \/ executeApprove(r) \/ executeRefund(r)
                           \/ actionAnswer(r) \/ pageRequestDies(r)

PagesNext ==
    \/ PageStep
    \/ /\ \/ \E r \in Requests : Behind(r)
          \/ \E p \in Payments : Pay(p) \/ ProviderSettles(p)
          \/ \E u \in Users : SpendBalance(u)
       /\ UNCHANGED pageVars

PagesSpec == PagesInit /\ [][PagesNext]_<<vars, pageVars>>

-----------------------------------------------------------------------------
(* The wallet page and the receipt *)

\* The ledger entries of a session whose receipt the wallet page links:
\* receiptVersion is written with the credit.
ReceiptOffered(s) == credited[s] > 0

\* getCreditTopUpReceipt: the status of the row and what was credited.
getCreditTopUpReceipt(s) == [status |-> status[s], creditedAmount |-> credited[s]]

\* The receipt page: "No encontramos este comprobante", or the receipt.
ReceiptPage(s) == IF ReceiptOffered(s) THEN {getCreditTopUpReceipt(s)} ELSE {}

-----------------------------------------------------------------------------
(* Properties *)

\* What the pages tell a buyer about a charge is backed by the wallet when no
\* handler overlapped or died: the status page announces "Saldo LUK acreditado"
\* only for a session that was credited, unless another attempt to pay the
\* session was applied before (its processedAt stops the credit), a mock charge
\* is shown as approved only when it was credited, and a receipt is offered for
\* exactly the credited sessions, for the amount of the charge.  Announcement
\* and credit are computed from different things: a stored event and a status
\* of the provider, and processedAt of the row.
AnnouncedIsCredited ==
    /\ (tab.toast /\ ~died) =>
         \/ credits[tab.s] > 0
         \/ \E q \in Payments \ {tab.p} : SessionOf[q] = tab.s /\ SyncEvent(q) \in events
    /\ (tab.at = "status" /\ tab.s \in MockSessions /\ finalStatus = "approved")
         => credits[tab.s] > 0
    /\ \A s \in Sessions :
         /\ credits[s] > 0 <=> ReceiptPage(s) # {}
         /\ \A receipt \in ReceiptPage(s) :
              receipt.creditedAmount = Amount /\ receipt.status # "INITIATED"

-----------------------------------------------------------------------------
(* The promise *)

Promise == INSTANCE TopUpPromise WITH granted <- credits, returned <- debits

\* With one handler at a time, redelivered webhooks, polls, aborted handlers
\* and mock actions keep the promise: one credit, and one refund of at most
\* the amount credited.
KeepsPromise == Promise!Spec
=============================================================================
