# TLA+ models of LUK

LUK is a raffle marketplace: sellers put a product up as a raffle, buyers charge
a wallet (*Saldo LUK*) through Mercado Pago and buy numbers with it, a draw picks
the winner, the seller ships, the buyer confirms or opens a dispute, and the
seller is paid out through Mercado Pago. The backend is a NestJS application over
PostgreSQL (Prisma); the client is a Next.js application with many open tabs.
Several HTTP handlers and cron runs work on the same rows.

This directory models what moves money and decides raffles, and the parts around
it that keep state: sign-in sessions and credentials, seller accounts, the
catalogue, conversations, and the pages that send the requests and show the
results. TLC checks the models on small instances; TLAPS proves the safety
properties of the components for every size. Paths below are relative to
`src/backend/src/` or `src/frontend/src/`.

## 1. Inventory

| Component | State | Operations | What must hold |
|---|---|---|---|
| Top-ups (`payments/`, wallet and checkout pages) | `CreditTopUpSession`, `PaymentProviderEvent`, wallet | create, webhook, poll, mock actions, refund | one credit per charge, refunds within the charge, ledger and balance agree, what is announced was credited |
| Wallet (`wallet/`) | `creditBalance`, `sellerPayableBalance`, ledger | credit, debit inside the callers' transactions (the reversal of a payout: outside) | never negative, nothing made or lost |
| Purchase and draw (`tickets/`) | tickets, receipts, `DrawResult`, raffle state | buy, refund, completion, draw | 50% limit, one final draw, winner holds the drawn number |
| Raffle life cycle (`raffles/`) | `Raffle.estado`, price, deadline, delivery | create, cancel, extend, price, reject winner, ship, confirm, relaunch | no operation reopens a drawn raffle, active raffles within the limit |
| Raffle cron (`tasks/raffle-tasks`) | a list read at the start of a run | draw or cancel expired raffles, auto-release | every full raffle is settled |
| Disputes (`disputes/`, `tasks/dispute-tasks`, dispute pages) | `Dispute`, tickets, payable | open, answer, resolve with refund, auto-refund | refunds match the tickets they mark; an order can always go on |
| Payouts (`payouts/`) | `Payout`, ledger, the provider's payout | create, schedule, process, fail, synchronise | only after buyer protection, released means paid |
| Social promotions (`social-promotions/`, worker, pages) | posts, snapshots, grants, redemptions | submit, validate, settle, attribute, reserve, use | one grant per post, for a score that was earned, used once; closed posts are resolved |
| Sessions (`auth/`, `store/auth.ts`, `lib/apollo-provider.tsx`) | refresh tokens, cookies, tabs | sign in, refresh, sign out, reset, reuse alarm | one live token per sign-in, sweeps end sessions, alarms have a cause |
| Credentials (`auth/`, `common/guards`, auth pages) | codes, links, second factor, attempts | register, verify, resend, forgot, reset, enable, disable, block | single use, hourly limits, blocks hold |
| Seller account (`users/`, `payments/`, `shipping/`) | identity check, payment account, addresses | submit, review, connect, disconnect, address book | user and account agree, one default address |
| Catalogue (`raffles/`, `reports/`, `users/reputation`) | raffles, reports, level, list cache | publish, report, review, ban, confirm | reports hide, limits hold, the cached list is current |
| Raffle page and favourites | counts, previews, the heart | preview, buy, toggle | charged as shown; the heart is what is stored |
| Conversations (`messaging/`, `questions/`, `notifications/`) | messages, questions, notifications | send, ask, answer, mark as read | what is said arrives |
| Panels and onboarding (`dashboard/`) | derived figures | | the panels tell one story |
| Categories, cleanup, activity, audit, uploads, health, load tests | | | no decision reads them |

Interaction: services call each other directly; the domain events
(`common/events`) only feed the activity log. All shared state is in the
database, except for the throttler's counters and the list cache, and what each
open page still shows. Handlers await between a read and the write that depends
on it, except inside `prisma.$transaction`. What is hard, then: checks that are
stale when the write comes, two cron runs or a cron and a request on one raffle,
processes that die between two writes, provider answers that get lost, webhooks
that are repeated, dropped or late, two tabs over one cookie, and pages that act
on what they read long ago. `PROJECT.json` lists each such place under `hazards`.

## 2. How the models read the code

* A `prisma.$transaction` is one step. The purchase, the ticket refund and the
  dispute refund run `Serializable`, so a conflicting one aborts; the wallet
  transactions at the default level begin with an upsert that locks the wallet
  row. Every other await between a read and a dependent write separates two
  steps, and what was read is kept in the worker's record (`req`, `job`).
* A *worker* is one running request or one cron run. Workers in `Fallible` may
  stop between any two steps (`Abort`): the process dies, or an error that no
  catch block handles ends the request. In the modules over `Clients` the whole
  backend stops (`Stop`) and loses all requests and what it keeps in memory.
* A page sends one request at a time (its buttons are disabled while a mutation
  loads) and offers requests according to what it *shows*, which may be old.
* Amounts are integers (cents). Dates are what the code compares them with.
* Formatting, e-mails, activity and audit entries are left out; so are checks of
  identity and ownership, which the choice of inputs respects. A request that
  its first read refuses changes nothing and is left out.
* Properties about races that the code does not prevent are stated *up to* the
  race: a history variable counts overlapping requests, lost answers or crashes
  (`overlaps`, `disturbed`, `lost`, `forks`, `tainted`), and the property says
  what still holds, and that what a race tore apart the next request that runs
  alone repairs. Such variables are marked *ghost*.
* Prefix `Mut`: a definition that changes the one after it the way a plausible
  bug would. They are not part of any specification; `PROJECT.json` names the
  property each one must break.

## 3. Modules

### TopUps, TopUpPromise, TopUpPages

`TopUps` is the life of a `CreditTopUpSession`: `createCreditTopUp`
(`CreateCreditTopUp`, then `OpenCheckout` when the provider session exists), the
webhook (`HandleProviderWebhook`) and the status poll (`PollPaymentStatus`), which
both run `syncPaymentStatus`: `ReadProvider`, `FindTopUp` (the read of
`processedAt`), then `ApproveProviderTopUp` or `UpdateTopUpFromProvider`, then
`RecordSyncEvent` and `RecordWebhookEvent`. `MockApprove`, `MockPend`,
`MockRejectOrExpire` and `RefundCreditTopUp`/`RefundTransaction` are the actions of
the mock provider. `Pay` and `ProviderSettles` are Mercado Pago; webhooks may come
at any time, repeatedly, late or never. `SpendBalance` stands for purchases.

`TopUpPromise` is what a user is promised: a session is credited at most once and
at most the credited amount is returned, once. `TopUpPages!Promise` maps it (`granted` is
the number of credits, `returned` the sum of refunds) and `KeepsPromise` says that
charging implements it, which is so when handlers do not overlap.

`TopUpPages` adds what the user goes through: the wallet page, the redirect, the
return from the provider, the status page with its synchronisation and toast
(`syncPayment`, `syncAnswer`, `Announces`), the mock checkout and its buttons, and
the receipts that are offered.

### RaffleSale, SalePromise, Panels

Purchases (`BuyTickets`: limit, packs, selection premium, fee, discount, one
transaction), completion (`CheckRaffleCompletion`, `MarkCompleted`), the draw
(`PickWinningTicket` reads the pool, `DrawTransaction` stores it, `CreatePayout`
follows), the cron (`ListExpiredRaffles`, `NextExpiredRaffle`, `RefundTickets`,
`CancelExpiredRaffle`) and the operations of sellers and admins, each a read
(`Start...`) and a write (`CancelRaffle`, `ExtendRaffleDeadline`, `UpdatePrice`,
`RejectRaffleWinner`). `SetHidden` is moderation. `charged`, `issued`, `owed`,
`gross` and `returned` sum columns of receipts, tickets and ledger entries.

`SalePromise` is what buying numbers promises, in four steps: a sale (free numbers get a
buyer for good, up to half of them per buyer, only while no prize stands), a refund (of
all that the buyers hold, complete and at once), the one draw (its winner is the buyer of
the number) and the withdrawal of a prize. `RaffleSale!Promise` maps it (`owner` is
`holder`, `worth` is `issued`, `back` is `returned`), and `KeepsSalePromise` says that
every step of the handlers, crons and administrators is one of the four or silent.

`Panels` adds the receipt that each purchase writes and defines the figures of the
seller's and the buyer's panels as the queries and pages compute them, each from
its own rows; `PanelsAgree` relates them.

### Settlement, OrderPromise, OrderPages

What follows the draw. Delivery: `MarkAsShipped`, `ConfirmDelivery` and their
writes, `SchedulePayout`. Disputes: `OpenDispute` (raffle first, then the row),
`RespondDispute`, `ResolveDispute` and the cron's `AutoRefundOldDispute`, which run
`DisputeRefund`, `WriteResolution`, `CloseDispute`. Cron: `AutoRelease`,
`AutoConfirm`, `PreparePayout`. Payout: `ProcessDuePayout`,
`ReleasePayoutManually`, then `CheckPending`, `CheckRelease` (`canReleaseFunds`),
`MarkProcessing`, `CheckFunds`, `CallProvider`, `RecordAccepted`, `FinishPayout`,
with `CatchFailure`, `RecordReversal` and `WriteFailed` as the catch block;
`SyncProviderPayout`/`ApplySync` by an admin. The catch block and the synchronisation
credit the payable back outside of a transaction, so `ReversePayable` (the balance) and
`RecordReversal` (the ledger entry) are two steps with a crash possible in between.
Mercado Pago runs a payout id once (the code sends it as the idempotency key) and may
lose its answer.

`protected` is a history variable: some confirmation of the raffle has become
seven days old. Days pass only when no worker is between a read and its write
(`Quiet`), since no request lasts that long. One price per raffle and a constant
net amount; `escalateUnrespondedDisputes` is not an action because no code writes
the status `ESPERANDO_RESPUESTA_VENDEDOR` it selects. The reputation counters that
resolutions update are left out.

`OrderPromise` is what the platform promises about the money of an order: the transfer to
the seller is ordered once, after the buyer's window, and how it went may become known
later; the seller's share is debited for a transfer that was ordered, at most as often as
workers overlap, and credited back only after a debit; a credit enters the books later
and at most once, or never; tickets are repaid from what the
seller is owed and only until the share is handed over, which needs a completed and
debited transfer and is final. `Settlement!Promise` maps it (`over` is `protected`, `taken` is
`debits`, `returned` is `credited`, `noted` is `reversals`, `left` is `tickets`, `done` is
`released`), and `KeepsOrderPromise` says that every
step of the requests and cron runs is one of these or silent.

`OrderPages` says what the sales, tickets, disputes and administration pages offer
for an order in each state (`FromAPage`, among them the bulk resolution), each with what
the backend requires of the order that it reads (`CanShip`, `CanConfirm`,
`canOpenDispute`, `CanRespond`, `CanResolve`). `OrdersMoveOn` says that an order whose
payout was not tried yet and that nobody works on is offered something that the backend
accepts, or is due for the cron, or waits for the end of the buyer's protection.

### SocialPromotions, PromotionPages

A seller promotes a raffle with a public post (`StartSocialPromotionDraft`,
`SubmitSocialPromotionPost` which reads, `CreatePost` which inserts behind the unique
key). The validation job (`LoadDuePosts`, `ReadPost`, `PersistValidation`,
`PersistTechnicalReview`) writes a snapshot and a status per run; the settlement job
(`LoadClosedPosts`, `LoadCandidate`, `DisqualifyUnsettled`, `CreateSettlement`,
`CreateGrant`, `MarkSettled`) turns the latest snapshot of a post whose raffle is
closed into a score and a grant. `ValidationFails` and `SettlementFails` are calls that
throw and processes that die; a call may also be applied and never answered
(`Answered`). Clicks, registrations and purchases are attribution events. A purchase
reserves the grant inside its serializable transaction (`ReserveBonusForCheckout`,
visible at `CommitPurchase`), while `MarkRedemptionUsedByReservation` and
`RecordPurchaseAttribution`, called in between, use another connection.

A post is named by its draft (a draft has at most one). What a page shows is a choice
of readings: not valid (not accessible, or without the token), or valid with an
engagement score or without metrics. Invalid snapshots are all alike because the
settlement reads nothing else of them. Scores are integers, so `TotalScore` keeps the
rounding of `toFixed(2)`. The discount itself is in `RaffleSale`. Neither
`releaseReservedRedemptionByReservation` nor `reinstateRedemptionByPurchaseReference`
has a caller outside tests; both are left out.

`PromotionPages` adds the composer dialog with the calls it waits for, the lists of
posts and grants, the bonus selector and preview, the admin's review queue and
analytics, and how a page is loaded (`loadWithFetch`, `loadWithPlaywright`) and
parsed; an `ASSUME` of `MCPromotionPages` checks over all pages that loading yields
exactly the readings that `ReadPost` allows.

### Sessions

The `refresh_tokens` table, the cookie endpoints and the tabs of a browser. A tab has
two lanes: the refresh promise that the Apollo links share, and what its user or page
started. `refreshAccessTokenRead`, `rotateWrite`, `mint` are the rotation, statement by
statement; `alarmList`, `alarmRevoke` the reuse alarm; `resetList`, `resetRevoke` the
sweep of a password reset; `restoreSession` the refresh at page load; `connectAccount`
the extra refresh of `payment-account-connect.ts`, outside of the shared promise.
Answers get lost, handlers fail, accounts are banned.

### Credentials, AuthPages

`Credentials` is one account: registration, verification codes and reset links (count,
close, create as separate statements), the second factor with its recovery codes (a
list that is read, filtered and written back), and the throttler of one address with
its window, block and cleanup. `AuthPages` adds the pages: which form is shown after
which answer, links between them, the captcha, and the two-factor card of the settings,
which keeps showing the codes it got. The rules about passwords, ages and the
registration form are operators; `MCCredentials` checks over bounded inputs that page,
input type and service agree (`RulesAgree`).

### Clients, SellerAccounts, Listings, Favorites, BuyerPages, Community

`Clients` has what they share: tabs with one request each, budgets of requests, a
backend that may stop, and the ghosts that count overlaps. `SellerAccounts` is the
identity check, the payment account (`connectRead`, `connectAccount`, `accountUser`:
row first, user second) and the address book. `Listings` is publishing within the
level's limit, relaunching, cancelling, reports with automatic hiding, reviews, bans,
the confirmation counters with the level, and the list cache with its noted keys
(`findAllMiss`, `findAllRead`, `setListCache`, `noteKey` against
`invalidateRaffleCache`, `deleteEntries`, `clearKeys`). `Favorites` is the optimistic
heart. `BuyerPages` is the raffle page: preview with pack, premium and bonus from what
the page read, against the backend's own computation at the purchase. Each computes the
premium of a chosen number in its own way: the page in floating point, with 5 % while no part of
the map is loaded (`premiumPerSelectedTicket`, where half a cent goes either way), the
backend in decimals (`selectionPremium`). The sale changes meanwhile (`SaleChanges`): the
seller sets the price, and the cron refunds all tickets of a raffle that is still ACTIVA
(`refundTickets`) and cancels it later (`cancelRaffle`), which gives buyers back their
allowance while the numbers stay taken. `Community`
composes them: publishing reads the account, and all share tabs and backend.

`Onboarding` has the checklists and nudges of the dashboard as operators, compared over
all inputs (`OnboardingAgrees`).

### Conversations

The conversation of a drawn raffle, the questions of an active one, notifications, the
polling messages page and the bell.

### How they compose

`RaffleSale` ends where `Settlement` begins: its `DrawTransaction` and
`CreatePayout` leave the states that `Settlement!Init` starts from (SORTEADA, with
or without a payout row). `TopUps` and `RaffleSale` share the wallet; each has the
other's effect as an environment step or an initial balance. `SocialPromotions` sees
the raffle as `estado` and the purchase as the transaction around the grant. Each
`...Pages` module and `Panels` extend the component they show and leave its actions as
they are, so the theorems about the component stay theorems of what the pages drive.
`Listings` has the raffle of the catalogue (published, hidden, delivered);
`Settlement` the money of the delivery; `Sessions` and `Credentials` only share the
account, whose sweeps after a reset are in `Sessions`.

## 4. Runs

| Run | Checks | Bounds |
|---|---|---|
| `topups` | balance = ledger, credits bounded by overlap, APPROVED is backed | two overlapping handlers, a Mercado Pago and a mock session, one payment |
| `topups_pages` | refinement of `TopUpPromise`; announcements and receipts are backed | one handler, two attempts to pay, crashes and redeliveries, the pages |
| `topups_double_credit` | *violated:* one credit | two handlers |
| `sale` | money, refunds, limit, draw, panels; refinement of `SalePromise` | four numbers, two buyers, two handlers, a cron, a rejected winner, crashes |
| `sale_settled` | full raffles are settled | two numbers, two prices, a discount, a handler that may die, a cron that does not |
| `settlement` | protection, refunds, overlap; refinement of `OrderPromise`, with what is released | two requests and a cron, two of them active at once, crashes, lost answers |
| `settlement_paid_out` | orders move on; confirmed deliveries are paid out | two requests, one cron, no crashes |
| `promotions` | one earned and final grant per post, backed scores, one redemption, pages agree; closed posts are resolved or crowded out | four kinds of behaviour: a disturbed post, a grant that two purchases bring, a post with overtaking validations, two posts for one place in a batch |
| `sessions` | one session per sign-in, sweeps, alarms | two tabs of one browser, three requests, two sweeps, one fault |
| `credentials` | single use, shown codes work, blocks hold | two pages behind one address, four requests, four ticks, two activations |
| `community` | account, moderation, limit, sales counter, cache, price shown, heart, verification | two tabs; four requests on the account, on the catalogue or on the raffle page, three of them with a crash; three on the heart; one each on account and catalogue |
| `conversations` | what is said arrives | two tabs that write, two readers, three requests, one crash |

Why these bounds. Every race in the code is between two workers on one row, so
two requests, or a request and a cron, meet it; a third adds repetitions only.
Four numbers are the least at which the 50% limit, a pack and a second buyer
differ; the model's pack gives one bonus for one ticket because the code's packs
(5 for 6, 10 for 12) need a raffle of twelve. `MaxActive`, `MaxReversals`, `MaxExtensions` and
`MaxRejections` cap repetitions, all in guards. `InitPayable` is chosen so that a
refund sometimes passes and sometimes throws. Symmetry is over handlers, crons, tabs,
pages and numbers and only in runs without liveness.

A behaviour of `promotions` keeps to one of four bounds, chosen in the initial state
(`Bounds`): who takes part, what a page may show, how many runs and purchases go on at the
same time (`overlap`), and how many admin operations, failed or unanswered calls and
crashes happen (`disturbances`).

* `Disturbed`: one post, since these races are about the rows of one; a validation run,
  two settlement runs and a purchase of which any two overlap, and one disturbance.
* `Redeemed`: two purchases that bring one grant, with a validation and a settlement run,
  any three of them at once.
* `Overtaken`: one post and two validation runs that may both overlap a settlement run, on
  a page whose engagement changes in between: either snapshot may become the latest, before
  or after the score is computed.
* `Competing`: what posts share is the batch of a run, so two posts compete for one place.
  `ClosedPostIsResolved` holds here only because it excepts a post that is crowded out
  (`CrowdedOut`): without this exception TLC finds the older post in technical review, due
  at every run, and the newer one never validated.

Four requests are enough in `credentials` and `community` for a race of two, the
request whose effect it spoils and the one that repairs it; in `sessions`, where nothing
repairs a revoked session, three are, with two sweeps that may overlap. The budgets of `community`
are alternatives fixed by the initial state: services that share no rows are not
interleaved with each other, the account and the catalogue are, since publishing reads
the account. Limits of the code are lowered with the same relations between them: two reports
hide, two failed sign-ins block, two codes per hour, two addresses, levels of one and two
active raffles.

Deadlock is not checked: raffles end, requests are bounded, and nobody has to act.

Fairness. `RaffleSale!FairSpec` and `Settlement!FairSpec` assume that the cron is
scheduled again and again and finishes its runs, that a request that is running
gets to its next step, and that deadlines pass: Node runs what is awaited, and
`@Cron` fires. In `Settlement` the seven days end although cron runs come and go,
hence strong fairness there. In `SocialPromotions` each job is scheduled for ever and
gets on with its steps, and some purchase that began goes on: it commits, throws or is
ended by its timeout of ten seconds. In `Conversations` running handlers go on, the
messages page polls every five seconds and the bell every minute; subscription events
are not relied upon. Nobody is made to buy, ship, confirm, write, answer or decide.

## 5. Proofs

All with TLAPS, for any sets of users, raffles, numbers, tabs, requests and cron runs.
Each component has a module of proofs; every theorem is about the `Spec` its run checks,
and the invariants below were first checked by TLC on the instances of section 4.

* `SumsProofs`: what `Sums!SumOf` does, for the books. The sum over a finite set is a
  fold, hence recursive in the library. That the fold exists and is unique is proved by
  minimal counterexample (a set of finite sets has one with the fewest elements), which
  needs no induction rule with an operator parameter. `SumOfUpdate`, `SumOfPlus`,
  `SumOfConstant`, `SumOfAdd` and `SumOfLeq` are what the other proofs use, and
  `CardinalityByClass` (a table is counted class by class).
* `TopUpsProofs`: `TypeCorrect`, and `OverlapBound`. A credit is only repeated by a
  handler that read `processedAt` before the first credit, so the invariant counts
  such handlers: credits plus the handlers about to credit stay within the number
  of handlers. `BackedTheorem`: a row is APPROVED only by a write that also credits, or
  after one. `LedgerTheorem`: every step adds one entry and moves the balance by it, or
  neither. `PromiseTheorem` is the refinement of `TopUpPromise`, under the hypothesis
  `OneHandler` (handlers do not overlap; with two the run `topups_double_credit` refutes
  it): one handler credits once by `OverlapInv`, and `PromiseInv` adds that a refund under
  way is the first one, of a credited session, for at most its amount. `PagesTheorem` and
  `PagesPromise` carry both to the specification with the pages. `AnnouncedTheorem`, under
  the same hypothesis: a tab announces by what the sync answered, which reads the
  provider's events, while money is credited by `processedAt`; `SyncInv`, `ProcessedInv`
  and `TabInv` tie a processed session to its credit, to the event of an attempt or to the
  handler that is about to record it, and `ReceiptInv` the row to the ledger.
* `RaffleSaleProofs`: `TypeCorrect`; `LimitTheorem` (the purchase checks the limit with its pack
  bonus, refunds only lower the count); `WinnerTheorem`, whose inductive invariant
  adds that a stored draw names a sold number, because numbers are never resold;
  `DrawFinality`, an action property; `ClosedTheorem`: whatever writes ACTIVA clears
  the winner, and whatever sets a winner writes SORTEADA. `ConservationTheorem` and
  `RefundsTheorem` from `MoneyInv`, which adds to the two properties that only sold
  tickets are refunded. Each transaction moves one amount between two entries of the
  wallet table or between an entry and the platform, and the sum follows (`TableMove`,
  `PurchaseBalances`). `PanelsTheorem` is about the specification with the receipts: every
  sold number is on one receipt, of its buyer (`ReceiptsShareNumbers`), what a buyer's
  receipts charged and granted is what the books hold (`ReceiptsAddUp`), and a SORTEADA raffle has a
  winner. Tickets are then counted by raffle, seller, buyer and receipt with
  `CardinalityByClass`, and what a buyer won is on a receipt because a drawn number is sold.
  `SalePromiseTheorem` is the refinement of `SalePromise`, action by action: a purchase is a
  sale by `ClosedTheorem` and `LimitTheorem` (`PurchaseIsSale`), a refund is complete
  because what was owed and what was returned add up to what was issued
  (`RefundIsRefund`), and a stored draw is the only one by the guard of its transaction.
* `SettlementProofs`: `TypeCorrect` (so no debit overdraws a payable);
  `ProtectionTheorem`, `ReversalTheorem` (with `EntryInv`: the entries and the workers about
  to write one are no more than the credits) and `ReleaseTheorem` from one invariant
  `SafetyInv`: a worker in the middle of a payout relies on what it read some
  steps ago, and `Stable` shows that none of it is ever taken back (the window
  does not reopen, debits are append-only, a completed provider payout stays
  completed). `RefundTheorem` is inductive with the types, by the arithmetic of
  whole tickets in `MarkedArithmetic`. `DebitTheorem` counts debits plus the workers
  that are paying (`CountInv`). It needs that a payout opens once: debits come with a
  `protected` raffle, and nothing makes the payout of one PENDING again (`WindowInv`,
  `OnceInv`, `Reopens`). `OrdersMoveOnTheorem`: while no process dies and at most two
  requests or cron runs are active at once, no order gets stuck. `TrackInv` says which
  combinations of delivery, dispute, date and payout the late writes can leave, with the
  worker that is about to complete each unfinished one; `LateInv` that a dispute opened
  late finds at most one other worker, so that its order is closed or being closed;
  `ClosesInv` that a decided order that is still SORTEADA is being closed. `OrderSteps`
  sorts the actions by what they do to an order (start, stay aside, write), and each
  invariant has one lemma per kind. Both hypotheses are needed: a process that dies
  between the two writes of `openDispute` leaves an order that no page offers anything
  for, and with three at once TLC finds a shipment and a dispute that were both checked
  before a whole dispute was opened and decided, and are written after it.
  `StuckOnlyDecidedTheorem` says that, with any number at once, this is the only way to
  get stuck. `OrderPromiseTheorem` is the refinement of `OrderPromise`: a call orders the
  transfer or repeats what is known of it (`CallTransfers`), the debit follows an answer
  that was given (`CalledInv`) and stays within the overlap by `DebitTheorem`
  (`RecordTakes`), an entry follows a credit of its own worker (`EntryNotes`), a refund looks at the release again in its own transaction
  (`RefundRepays`), and completing relies on `SafetyInv` (`CompleteHandsOver`).
* `SocialPromotionsProofs`: `TypeCorrect`, with the visibility of redemptions
  (`RedeemedIsDone`), without which it is not inductive. `GrantTheorem` and
  `SettledTheorem` from `GrantInv`: a run about to grant inserted the recorded
  settlement itself, the post has no grant yet, and no two runs are about to grant for
  one post, because the second insert of a settlement is refused. `FinalTheorem`, an
  action property, and `RedeemTheorem` from the same invariant (a new grant replaces
  none, so no redeemed one is lost). `NothingUsedTheorem`: a purchase looks for a redemption
  that is only visible once it is over (`RedeemedIsDone`), so none is found. `ScoreTheorem` from `ScoreInv`: every snapshot and
  score, also those a run still holds, was read from events that are never deleted
  (`EventsGrow`), and more events never lower a score (`ScoreMonotone`).
  `PagesTheorem` and `PagesAgree` are about the specification with the pages. Runs only
  work on registered posts (`WorkInv`; otherwise a run could write the status of a draft
  past the unique key of raffle and network, `KeyInv`), a post in technical review has a
  failed snapshot (`RowsInv`), and what the composer shows or waits for is a draft that the
  backend knows (`ComposerInv`). The summary reports no more tickets than were attributed:
  `ScoreInv` post by post, added up with `SumOfLeq`.
* `SessionsProofs`: `TypeCorrect` from `Wf` (what a request or a cookie names is a row,
  rows descend from a sign-in of the same account, and each step only appends). `SweepTheorem`:
  a live token older than its account's last sweep is still in the list the sweep is about
  to revoke, or its rotation had read before (`OldIsCovered`, `ReadIsCurrent`).
  `AlarmTheorem`, an action property, from `AlarmInv`: a token is in one browser only, a
  request that carries a spent token carries a tainted one, and a cookie with a spent token
  has the request that spent it still to be answered. `SessionTheorem` counts per sign-in: live tokens plus
  rotations about to create one are at most one, plus `forks`, and less what signed out.
* `CredentialsProofs`: about the specification with the pages, `AuthPages!Spec`. `TypeCorrect`
  with the shape of each kind of request. `BlockTheorem`: who could lift a block had passed
  the guard before (`EarlyInv`). `SingleUseTheorem` from one invariant per kind of
  credential: what is open or used plus the requests past the check is within the limit plus
  the overlaps, and for recovery codes the sign-ins that will write a code back keep it alive
  (`RecoveryInv`). `ShownTheorem`: the card shows the latest batch, which is what the account
  holds or a sign-in writes back, unless two changes overlapped (`LatestCodes`).
* `CommunityProofs`: about `Community!Spec`. Every property speaks of one group of requests
  (identity, payment account, addresses, list, publishing, reports, delivery, heart,
  purchase), so the invariant `CommunityInv` is made of one part per group, over `ReqInv`
  (which steps a request of each group goes through) and `AloneInv` (a request noted as
  running alone is the only one of its group; in a group that nothing disturbed every
  request is). `StartEffect` and `MoveEffect` say once what starting, moving and ending a
  request does to the requests and the ghosts: no other group sees it (`Apart`). For each
  part an `Effect` lemma says that its own steps keep its invariant and a `Frame` lemma that
  the others' do. The invariants that are not evident from their properties: for
  `ActiveWithinLimit`, creations past the check count as active, and a dialog that offers a
  relaunch is closed by it (`LimitInv`, `RelaunchInv`); for `SalesAreNotInflated`, each
  confirmation is of a raffle that is, or is about to be, confirmed, and raffles
  are at least confirmations less the overlaps (`SalesInv`, `GoingCounts`); for
  `CachedListIsCurrent`, a cached list is current or an invalidation that captured its key
  is under way (`CacheInv`); for `VerifiedIsKept`, `late` has every request that read before
  the approval (`LateInv`); for `ChargedAsShown`, a page has counted no more sold tickets
  than there are numbers taken (`PageInv`, since refunds take no number back), so a pack
  that it does not show is one the backend does not give to a buyer who still has the
  tickets the page counted (`NoPackSubmitted`, `PackShrinks`); a buyer who was refunded may
  get one, which costs him at most the bonus (`ChargeType`); discounts are monotone in the
  price (`PreviewGrows`), and the two ways to compute a premium differ by at most a cent
  when the page assumes enough (`PremiumCovered`). `BillInv` keeps this with each request
  that was sent.

Assumptions are the named `ASSUME`s of the modules: finite sets where something is
counted (workers, tabs, pages, numbers), positive amounts and limits, percentages within
100, a ticket price above one cent. Nothing bounds how many there are.

Only model-checked: liveness (`FullRaffleIsSettled`, `ConfirmedIsPaidOut`,
`ClosedPostIsResolved`, `TalkArrives`), which needs fairness, out of the prover's reach. `RulesAgree`, `OnboardingAgrees` and the loading of
promotion pages are evaluated over bounded inputs.

## 6. Where the code and its documents disagree

`topups_double_credit` is kept as a run, with its finding in `PROJECT.json`: a charge is
credited twice. Five more statements of the documents are kept as definitions; TLC refutes
each under the specification with fairness:

* `TopUps!ApprovedPaymentIsCredited`: `payments.service.ts:796` writes `processedAt` for
  a pending payment, and the later approval is not credited.
* `RaffleSale!UnsoldRaffleIsCancelled`: the refund of an unsold raffle debits the gross
  price from a payable credited net (`tickets.service.ts:186`); it throws for a seller
  without other funds, at every cron run.
* `RaffleSale!CancelledIsRefunded`: a seller's cancellation (`raffles.service.ts:778`)
  refunds nobody.
* `SocialPromotions!RedeemedBonusIsUsed`: `docs/domain-flows.md:221` and
  `docs/social-promotions.md:145` have the grant of a confirmed purchase pass to `USED`;
  `social-promotions.service.ts:429` looks its redemption up on another connection before
  it is committed, so the grant stays `RESERVED` (`NothingUsedTheorem`: always).
* `Settlement!UnconfirmedIsAutoConfirmed`: only SORTEADA raffles are listed
  (`raffle-tasks.service.ts:345`), so a shipped one waits for its buyer for ever.

Met while modelling, on the money flow:

* `payments.service.ts:482`: two overlapping refunds of one charge both pass the check.
* A rejected first and an approved second attempt of one session: the status page
  announces "Saldo LUK acreditado" and nothing is credited. It also believes the status
  of its URL before the backend's.
* `tickets.service.ts:164`: a refund returns `precioPagado` of bonus tickets too,
  more than the buyer was charged. Refunds never update the transaction rows.
* `tickets.service.ts:1002`: COMPLETADA may be written over SORTEADA.
* `raffles.service.ts:1502`: a rejected winner resets the raffle "to active state for re-draw",
  but the unique `DrawResult` stays and no draw can succeed; the sales card still
  shows the old number.
* `disputes.service.ts:346`: a seller who wins a dispute gets CONFIRMED without
  `confirmedAt`, so `canReleaseFunds` never passes; after a partial decision the
  raffle stays DISPUTED and the seller's part is not paid. A crash while a dispute is
  opened leaves the order DISPUTED without a dispute, where no page offers anything.
* `admin/disputes/page.tsx:287`: the amount typed for the buyer's decision is not sent.
* A stale answer of the seller puts a resolved dispute back into mediation.
* `disputes.service.ts:72`: `openDispute` marks the raffle DISPUTED before it creates the
  row, whose key is unique. A second dispute that was checked before the first one was
  created fails only after the mark, and the mark covers what a decision wrote meanwhile;
  if a late shipment took the order back to EN_ENTREGA too, it is stuck.
* `payouts.service.ts:395`, `:534`: the payable is credited back without a transaction. A
  process that dies before the ledger entry leaves a credit that the books do not show, and
  a synchronisation that is repeated after it credits once more.
* A FAILED payout is only tried again by the automatic release.
* Panels: revenue is the current price times the PAGADO tickets, pack bonuses included;
  COMPLETADA raffles count as neither active nor completed.

Promotions:

* `tickets.service.ts:781`: a bonus never becomes USED (above). What holds in both
  readings is `RedeemedOnce`: the grant is neither used twice nor lost.
  No job ever writes EXPIRED, so the selector offers expired grants.
* `social-promotions.service.ts:943`: a crash between settlement and grant leaves a
  settled score without the grant it earned, and nothing repairs it.
* `social-promotions.service.ts:603`: a run takes the 25 oldest due posts; 25 posts in
  technical review starve every newer one (`CrowdedOut`).
* A post whose first plain request fails goes to technical review though the browser
  could have loaded it. A disqualified post's network is still offered, but the unique
  key refuses another post. A retry from an old list reopens a SETTLED post.

Accounts and the rest:

* Two tabs that refresh at once, or one lost answer, revoke every session of the
  account as stolen (`AlarmHasCause` names the causes).
* A slower recovery sign-in writes back codes that were used, or those of an earlier
  activation. The settings card keeps showing codes after the second factor is switched
  off. The page accepts passwords of more than 100 characters, the input type does not.
* `approveKyc` does not compute the account status again, and a verified seller without
  a CUIT can never connect; the settings page takes the KYC street for the address, the
  backend wants a shipping address, and the onboarding checklist asks for neither.
* A relaunch looks neither at the limit nor at whether the suggestion was used.
* A review's recalculation overwrites the sales counter with the number of FINALIZADA
  raffles. `banUser` of the users tab does not hide the raffles.
* A heart clicked before its query is answered is overwritten by the answer. After a
  purchase the raffle page keeps the used bonus and does not refetch the ticket count;
  the purchase carries no idempotency key.
* What is charged may exceed what the raffle page showed, beyond a raised price
  (`ChargedAsShown` says when and by how much): by a cent for each chosen number, as page and
  backend round half a cent differently (`raffle-content.tsx:854`, `tickets.service.ts:585`);
  by the premium above 5 % while the map is not loaded; and by the bonus when the buyer's
  tickets were refunded before the raffle was cancelled (`raffle-tasks.service.ts:208`) and
  the pack that applies again displaces it (`tickets.service.ts:621`).

## 7. Not modelled, and the plan

Not modelled because there is nothing to interleave or decide: e-mail texts, activity
and audit logs, uploads, health checks, configuration, categories, searches and other
queries without a page that acts on them, layout and UI components, seeds, load tests.
Left out of modelled components: the attempts of a verification code (counted, the limit
is never enforced) and expiry of tokens and links, the throttler's counters lost on a restart, the birth date read as
UTC midnight, buyer reputation and ratings, acknowledgement of receipts, reminders, the
computation of suggested prices. The components table in `PROJECT.json` gives the
reason for each.

Every invariant and action property of the runs is stated by a theorem; a further step would be the liveness properties, with another prover.
