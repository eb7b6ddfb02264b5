----------------------------- MODULE RaffleSale -----------------------------
(***************************************************************************)
(* Selling a raffle: ticket purchases with Saldo LUK, completion and draw, *)
(* the cron that draws or cancels expired raffles, and the seller and      *)
(* admin operations that race with them.                                   *)
(* Source: backend/src/tickets/tickets.service.ts,                         *)
(* tasks/raffle-tasks.service.ts, raffles/raffles.service.ts,              *)
(* wallet/wallet.service.ts, payouts/payouts.service.ts (createPayout).    *)
(*                                                                         *)
(* A worker is one running handler or one run of the cron.  A              *)
(* prisma.$transaction is one step; what is read outside a transaction and *)
(* written later takes two steps, with what was read kept in the worker's  *)
(* record.  Amounts are integers (cents).                                  *)
(***************************************************************************)
EXTENDS Integers, FiniteSets, FiniteSetsExt, Sums

CONSTANTS
    Raffles, Numbers,   \* raffles, and the ticket numbers of each raffle
    Users, SellerOf,    \* wallet owners, and the seller of each raffle
    Handlers, Crons,    \* requests and cron runs that can be active at once
    Fallible,           \* the workers that may die between two steps
    Prices,             \* ticket prices a seller may set
    FeePercent,         \* PLATFORM_FEE_PERCENT
    PremiumPercent,     \* SELECTED_NUMBER_PREMIUM_PERCENT
    PackBonuses,        \* SIMPLE_RANDOM_PACK_BONUSES: quantity -> bonus
    Discounts,          \* promotion discounts a buyer may bring, 0 is none
    InitBalance, InitPayable,         \* wallets at the start
    MaxExtensions, MaxRejections,     \* bounds on deadline and winner changes
    NoOne               \* no buyer, no winner, no ticket

ASSUME SaleConstants ==
    /\ IsFiniteSet(Numbers) /\ Numbers # {} /\ Raffles # {}
    /\ IsFiniteSet(Users) /\ SellerOf \in [Raffles -> Users]
    /\ Handlers \cap Crons = {} /\ Fallible \subseteq Handlers \cup Crons
    /\ Prices \subseteq Nat \ {0} /\ Prices # {}
    /\ FeePercent \in 0 .. 99 /\ PremiumPercent \in Nat
    /\ PackBonuses \in [DOMAIN PackBonuses -> Nat]
    /\ Discounts \subseteq Nat
    /\ InitBalance \in Nat /\ InitPayable \in Nat
    /\ MaxExtensions \in Nat /\ MaxRejections \in Nat
    /\ NoOne \notin Users /\ NoOne \notin Numbers

VARIABLES
    estado,      \* Raffle.estado
    hidden,      \* Raffle.isHidden
    expired,     \* fechaLimiteSorteo has passed
    price,       \* Raffle.precioPorTicket
    winner,      \* Raffle.winnerId
    drawResult,  \* DrawResult.winningTicketId (unique per raffle)
    payout,      \* the raffle has a Payout row
    holder,      \* Ticket.buyerId by number (NoOne: the number is not sold)
    reembolsado, \* numbers whose ticket is REEMBOLSADO; the sold rest is PAGADO
    balance,     \* WalletAccount.creditBalance
    payable,     \* WalletAccount.sellerPayableBalance
    platform,    \* fees and premiums kept minus subsidies paid (Transaction)
    charged,     \* chargedAmount of a buyer's receipts in a raffle
    issued,      \* precioPagado of all tickets of a buyer in a raffle
    owed,        \* precioPagado of a buyer's PAGADO tickets in a raffle
    gross,       \* precioPagado of all PAGADO tickets of a raffle
    returned,    \* TICKET_PURCHASE_REFUND entries of a buyer in a raffle
    changes,     \* deadline extensions and winner rejections so far
    job          \* the running workers

raffleVars == <<estado, hidden, expired, price, winner, drawResult, payout>>
ticketVars == <<holder, reembolsado>>
moneyVars  == <<balance, payable, platform, charged, issued, owed, gross, returned>>
vars == <<raffleVars, ticketVars, moneyVars, changes, job>>

Workers == Handlers \cup Crons
Estados == {"ACTIVA", "COMPLETADA", "SORTEADA", "CANCELADA"}
Plans   == [Raffles -> {"skip", "draw", "cancel"}]

-----------------------------------------------------------------------------
(* Arithmetic of a purchase *)

Total == Cardinality(Numbers)

\* toFixed(2) of a percentage, in cents.
RoundedPercent(amount, percent) == (amount * percent + 50) \div 100

Sold(r)    == {n \in Numbers : holder[r][n] # NoOne}
Free(r)    == Numbers \ Sold(r)
Paid(r)    == Sold(r) \ reembolsado[r]
PaidBy(r, u) == {n \in Paid(r) : holder[r][n] = u}

\* floor(total * MAX_TICKET_PERCENTAGE)
MaxAllowed == Total \div 2
RemainingAllowed(r, u) == Max({0, MaxAllowed - Cardinality(PaidBy(r, u))})

\* Mutant: the pack is granted without looking at the buyer's limit.
MutPackIgnoresLimit(mode, quantity, available, remaining) ==
    LET bonus == IF mode = "RANDOM" /\ quantity \in DOMAIN PackBonuses
                 THEN PackBonuses[quantity] ELSE 0
    IN  IF quantity + bonus <= available THEN bonus ELSE 0

\* evaluateSimpleRandomPack: the bonus tickets of a random purchase, none when
\* the whole pack does not fit in the stock or in the buyer's limit.
evaluateSimpleRandomPack(mode, quantity, available, remaining) ==
    LET bonus == IF mode = "RANDOM" /\ quantity \in DOMAIN PackBonuses
                 THEN PackBonuses[quantity] ELSE 0
    IN  IF quantity + bonus <= available /\ quantity + bonus <= remaining
        THEN bonus ELSE 0

-----------------------------------------------------------------------------
\* A worker: its next step, the raffle it works on, and what it read earlier.
Job == [pc : {"idle", "completion", "complete", "draw", "drawTx", "payout", "work",
              "refund", "cancel", "sellerCancel", "extend", "price", "reject"},
        r        : Raffles,
        n        : Numbers \cup {NoOne},   \* the winning ticket that was picked
        newPrice : Prices,                 \* the price a seller asked for
        plan     : Plans]                  \* the cron's list, what is left of it

NoPlan   == [r \in Raffles |-> "skip"]
AnyPrice == CHOOSE p \in Prices : TRUE
Idle == [pc |-> "idle", r |-> CHOOSE r \in Raffles : TRUE, n |-> NoOne,
         newPrice |-> AnyPrice, plan |-> NoPlan]

\* What a worker does after one raffle: the cron goes on with its list.
Return(w) == IF w \in Crons THEN "work" ELSE "idle"

GoTo(w, pc) ==
    job' = [job EXCEPT ![w] = IF pc = "idle" THEN Idle ELSE [@ EXCEPT !.pc = pc]]

Init ==
    /\ estado      = [r \in Raffles |-> "ACTIVA"]
    /\ hidden      = [r \in Raffles |-> FALSE]
    /\ expired     = [r \in Raffles |-> FALSE]
    /\ price       \in [Raffles -> Prices]
    /\ winner      = [r \in Raffles |-> NoOne]
    /\ drawResult  = [r \in Raffles |-> NoOne]
    /\ payout      = [r \in Raffles |-> FALSE]
    /\ holder      = [r \in Raffles |-> [n \in Numbers |-> NoOne]]
    /\ reembolsado = [r \in Raffles |-> {}]
    /\ balance     = [u \in Users |-> InitBalance]
    /\ payable     = [u \in Users |-> InitPayable]
    /\ platform    = 0
    /\ charged     = [r \in Raffles |-> [u \in Users |-> 0]]
    /\ issued      = [r \in Raffles |-> [u \in Users |-> 0]]
    /\ owed        = [r \in Raffles |-> [u \in Users |-> 0]]
    /\ gross       = [r \in Raffles |-> 0]
    /\ returned    = [r \in Raffles |-> [u \in Users |-> 0]]
    /\ changes     = [extend |-> 0, reject |-> 0]
    /\ job         = [w \in Workers |-> Idle]

-----------------------------------------------------------------------------
(* Purchase: the serializable transaction of reserveTicketsForCheckout.     *)

\* The money of a purchase of quantity tickets plus a pack bonus: what the
\* buyer pays, what the seller is credited, what the platform keeps.
Purchase(r, mode, quantity, bonus, discount) ==
    LET subtotal == price[r] * (quantity + bonus)
        premium  == IF mode = "CHOOSE_NUMBERS"
                    THEN RoundedPercent(price[r], PremiumPercent) * quantity ELSE 0
        fee      == RoundedPercent(subtotal, FeePercent)
        subsidy  == price[r] * bonus + discount
    IN  [subtotal |-> subtotal,
         charge   |-> subtotal - subsidy + premium,
         net      |-> subtotal - fee,
         kept     |-> fee + premium - subsidy]

\* The stock and limit checks, the tickets, and the wallet entries.
PurchaseTickets(u, r, mode, quantity, discount) ==
    LET available == Cardinality(Free(r))
        remaining == RemainingAllowed(r, u)
        bonus == evaluateSimpleRandomPack(mode, quantity, available, remaining)
        m     == Purchase(r, mode, quantity, bonus, discount)
    IN
    /\ quantity <= remaining /\ quantity <= available
    \* a pack never combines with a promotion discount, and a discount always
    \* leaves something to charge
    /\ discount > 0 => bonus = 0 /\ discount < m.subtotal
    /\ m.charge > 0 /\ m.net > 0
    /\ m.charge <= balance[u]
    /\ \E nums \in kSubset(quantity + bonus, Free(r)) :
         holder' = [holder EXCEPT ![r] =
                      [n \in Numbers |-> IF n \in nums THEN u ELSE @[n]]]
    /\ balance'  = [balance EXCEPT ![u] = @ - m.charge]
    /\ payable'  = [payable EXCEPT ![SellerOf[r]] = @ + m.net]
    /\ platform' = platform + m.kept
    /\ charged'  = [charged EXCEPT ![r][u] = @ + m.charge]
    /\ issued'   = [issued EXCEPT ![r][u] = @ + m.subtotal]
    /\ owed'     = [owed EXCEPT ![r][u] = @ + m.subtotal]
    /\ gross'    = [gross EXCEPT ![r] = @ + m.subtotal]

BuyTickets(h, u, r) ==
    /\ job[h].pc = "idle"
    /\ estado[r] = "ACTIVA" /\ ~hidden[r] /\ SellerOf[r] # u
    /\ \E mode \in {"RANDOM", "CHOOSE_NUMBERS"}, quantity \in 1 .. Total,
          discount \in Discounts : PurchaseTickets(u, r, mode, quantity, discount)
    /\ job' = [job EXCEPT ![h] = [@ EXCEPT !.pc = "completion", !.r = r]]
    /\ UNCHANGED <<raffleVars, reembolsado, returned, changes>>

-----------------------------------------------------------------------------
(* Completion and draw: checkRaffleCompletion and drawRaffleIfEligible.     *)

CheckRaffleCompletion(w) ==
    LET r == job[w].r IN
    /\ job[w].pc = "completion"
    /\ GoTo(w, IF Cardinality(Paid(r)) < Total THEN "idle"
               ELSE IF estado[r] = "ACTIVA" THEN "complete" ELSE "draw")
    /\ UNCHANGED <<raffleVars, ticketVars, moneyVars, changes>>

MarkCompleted(w) ==
    /\ job[w].pc = "complete"
    /\ estado' = [estado EXCEPT ![job[w].r] = "COMPLETADA"]
    /\ GoTo(w, "draw")
    /\ UNCHANGED <<hidden, expired, price, winner, drawResult, payout,
                   ticketVars, moneyVars, changes>>

Drawable(r) == /\ estado[r] \in {"ACTIVA", "COMPLETADA"}
               /\ drawResult[r] = NoOne /\ winner[r] = NoOne
               /\ Paid(r) # {}

\* The pool and the random ticket are read before the transaction.
PickWinningTicket(w) ==
    LET r == job[w].r IN
    /\ job[w].pc = "draw"
    /\ \/ /\ Drawable(r)
          /\ \E n \in Paid(r) :
               job' = [job EXCEPT ![w] = [@ EXCEPT !.pc = "drawTx", !.n = n]]
       \/ ~Drawable(r) /\ GoTo(w, Return(w))
    /\ UNCHANGED <<raffleVars, ticketVars, moneyVars, changes>>

\* Mutant: the winner is read again, from any paid ticket, when it is stored.
MutDrawOtherWinner(w) ==
    LET r == job[w].r IN
    /\ job[w].pc = "drawTx" /\ drawResult[r] = NoOne
    /\ drawResult' = [drawResult EXCEPT ![r] = job[w].n]
    /\ \E n \in Paid(r) : winner' = [winner EXCEPT ![r] = holder[r][n]]
    /\ estado'     = [estado EXCEPT ![r] = "SORTEADA"]
    /\ GoTo(w, "payout")
    /\ UNCHANGED <<hidden, expired, price, payout, ticketVars, moneyVars, changes>>

\* Mutant: a later draw replaces the stored one.
MutRedraw(w) ==
    LET r == job[w].r  n == job[w].n IN
    /\ job[w].pc = "drawTx"
    /\ drawResult' = [drawResult EXCEPT ![r] = n]
    /\ winner'     = [winner EXCEPT ![r] = holder[r][n]]
    /\ estado'     = [estado EXCEPT ![r] = "SORTEADA"]
    /\ GoTo(w, "payout")
    /\ UNCHANGED <<hidden, expired, price, payout, ticketVars, moneyVars, changes>>

\* The transaction: DrawResult.raffleId is unique, so a second draw fails; the
\* raffle row is written whatever its state is by now.
DrawTransaction(w) ==
    LET r == job[w].r  n == job[w].n IN
    /\ job[w].pc = "drawTx"
    /\ \/ /\ drawResult[r] = NoOne
          /\ drawResult' = [drawResult EXCEPT ![r] = n]
          /\ winner'     = [winner EXCEPT ![r] = holder[r][n]]
          /\ estado'     = [estado EXCEPT ![r] = "SORTEADA"]
          /\ GoTo(w, "payout")
       \/ /\ drawResult[r] # NoOne
          /\ GoTo(w, Return(w))
          /\ UNCHANGED <<estado, winner, drawResult>>
    /\ UNCHANGED <<hidden, expired, price, payout, ticketVars, moneyVars, changes>>

\* createPayout: nothing when the row exists; its amounts are in Settlement.
CreatePayout(w) ==
    /\ job[w].pc = "payout"
    /\ payout' = [payout EXCEPT ![job[w].r] = TRUE]
    /\ GoTo(w, Return(w))
    /\ UNCHANGED <<estado, hidden, expired, price, winner, drawResult,
                   ticketVars, moneyVars, changes>>

-----------------------------------------------------------------------------
(* The cron over expired raffles: processExpiredRaffles works on a list it  *)
(* read at the start, one raffle after the other.                           *)

DeadlinePasses(r) ==
    /\ ~expired[r]
    /\ expired' = [expired EXCEPT ![r] = TRUE]
    /\ UNCHANGED <<estado, hidden, price, winner, drawResult, payout,
                   ticketVars, moneyVars, changes, job>>

\* percentSold >= MIN_SALE_THRESHOLD
ReachesThreshold(r) == Cardinality(Paid(r)) * 10 >= Total * 7

\* Mutant: an expired raffle that sold enough is left to its last purchase.
MutPlanForSkips(r) ==
    CASE estado[r] = "COMPLETADA"            -> "draw"
      [] estado[r] = "ACTIVA" /\ expired[r] /\ ~ReachesThreshold(r) -> "cancel"
      [] OTHER                               -> "skip"

\* What the cron does with a raffle, decided when the list is read.
PlanFor(r) ==
    CASE estado[r] = "COMPLETADA"            -> "draw"
      [] estado[r] = "ACTIVA" /\ expired[r]  ->
           IF ReachesThreshold(r) THEN "draw" ELSE "cancel"
      [] OTHER                               -> "skip"

ListExpiredRaffles(c) ==
    /\ job[c].pc = "idle"
    /\ \E r \in Raffles : PlanFor(r) # "skip"
    /\ job' = [job EXCEPT ![c] = [@ EXCEPT !.pc = "work",
                                    !.plan = [r \in Raffles |-> PlanFor(r)]]]
    /\ UNCHANGED <<raffleVars, ticketVars, moneyVars, changes>>

NextExpiredRaffle(c) ==
    /\ job[c].pc = "work"
    /\ \/ \E r \in Raffles :
            /\ job[c].plan[r] # "skip"
            /\ job' = [job EXCEPT ![c] =
                  [@ EXCEPT !.pc = IF job[c].plan[r] = "draw" THEN "draw" ELSE "refund",
                            !.r = r, !.plan[r] = "skip"]]
       \/ job[c].plan = NoPlan /\ GoTo(c, "idle")
    /\ UNCHANGED <<raffleVars, ticketVars, moneyVars, changes>>

\* Mutant: the refunded tickets stay PAGADO.
MutRefundKeepsPaid(c) ==
    LET r == job[c].r IN
    /\ job[c].pc = "refund" /\ gross[r] <= payable[SellerOf[r]]
    /\ balance'     = [u \in Users |-> balance[u] + owed[r][u]]
    /\ returned'    = [returned EXCEPT ![r] = [u \in Users |-> @[u] + owed[r][u]]]
    /\ payable'     = [payable EXCEPT ![SellerOf[r]] = @ - gross[r]]
    /\ GoTo(c, "cancel")
    /\ UNCHANGED <<raffleVars, ticketVars, platform, charged, issued, owed, gross, changes>>

\* Mutant: the seller's payable is not debited.
MutRefundFromNowhere(c) ==
    LET r == job[c].r IN
    /\ job[c].pc = "refund"
    /\ balance'     = [u \in Users |-> balance[u] + owed[r][u]]
    /\ returned'    = [returned EXCEPT ![r] = [u \in Users |-> @[u] + owed[r][u]]]
    /\ owed'        = [owed EXCEPT ![r] = [u \in Users |-> 0]]
    /\ gross'       = [gross EXCEPT ![r] = 0]
    /\ reembolsado' = [reembolsado EXCEPT ![r] = Sold(r)]
    /\ GoTo(c, "cancel")
    /\ UNCHANGED <<raffleVars, holder, payable, platform, charged, issued, changes>>

\* refundTickets: one serializable transaction, whatever the raffle's state is
\* by now.  It fails as a whole when debitSellerPayable lacks the funds.  (Its
\* guard on released payments concerns raffles delivered long ago.)
RefundTickets(c) ==
    LET r == job[c].r IN
    /\ job[c].pc = "refund"
    /\ \/ /\ gross[r] <= payable[SellerOf[r]]
          /\ balance'     = [u \in Users |-> balance[u] + owed[r][u]]
          /\ returned'    = [returned EXCEPT ![r] = [u \in Users |-> @[u] + owed[r][u]]]
          /\ payable'     = [payable EXCEPT ![SellerOf[r]] = @ - gross[r]]
          /\ owed'        = [owed EXCEPT ![r] = [u \in Users |-> 0]]
          /\ gross'       = [gross EXCEPT ![r] = 0]
          /\ reembolsado' = [reembolsado EXCEPT ![r] = Sold(r)]
          /\ GoTo(c, "cancel")
       \/ /\ gross[r] > payable[SellerOf[r]]
          /\ GoTo(c, "work")
          /\ UNCHANGED <<balance, returned, payable, owed, gross, reembolsado>>
    /\ UNCHANGED <<raffleVars, holder, platform, charged, issued, changes>>

\* cancelAndRefundRaffle, after the refund: CANCELADA, unconditionally.
CancelExpiredRaffle(c) ==
    /\ job[c].pc = "cancel"
    /\ estado' = [estado EXCEPT ![job[c].r] = "CANCELADA"]
    /\ GoTo(c, "work")
    /\ UNCHANGED <<hidden, expired, price, winner, drawResult, payout,
                   ticketVars, moneyVars, changes>>

-----------------------------------------------------------------------------
(* Seller and admin operations: each reads the raffle, then writes it.      *)

StartUpdate(h, r, pc, newPrice) ==
    /\ job[h].pc = "idle"
    /\ job' = [job EXCEPT ![h] = [@ EXCEPT !.pc = pc, !.r = r, !.newPrice = newPrice]]
    /\ UNCHANGED <<raffleVars, ticketVars, moneyVars>>

StartCancel(h, r) ==
    /\ estado[r] = "ACTIVA"
    /\ StartUpdate(h, r, "sellerCancel", AnyPrice) /\ UNCHANGED changes

CancelRaffle(h) ==
    /\ job[h].pc = "sellerCancel"
    /\ estado' = [estado EXCEPT ![job[h].r] = "CANCELADA"]
    /\ GoTo(h, "idle")
    /\ UNCHANGED <<hidden, expired, price, winner, drawResult, payout,
                   ticketVars, moneyVars, changes>>

StartExtend(h, r) ==
    /\ estado[r] = "ACTIVA" /\ changes.extend < MaxExtensions
    /\ StartUpdate(h, r, "extend", AnyPrice)
    /\ changes' = [changes EXCEPT !.extend = @ + 1]

ExtendRaffleDeadline(h) ==
    /\ job[h].pc = "extend"
    /\ expired' = [expired EXCEPT ![job[h].r] = FALSE]
    /\ GoTo(h, "idle")
    /\ UNCHANGED <<estado, hidden, price, winner, drawResult, payout,
                   ticketVars, moneyVars, changes>>

StartUpdatePrice(h, r) ==
    /\ estado[r] = "ACTIVA"
    /\ \E p \in Prices \ {price[r]} : StartUpdate(h, r, "price", p)
    /\ UNCHANGED changes

UpdatePrice(h) ==
    /\ job[h].pc = "price"
    /\ price' = [price EXCEPT ![job[h].r] = job[h].newPrice]
    /\ GoTo(h, "idle")
    /\ UNCHANGED <<estado, hidden, expired, winner, drawResult, payout,
                   ticketVars, moneyVars, changes>>

StartReject(h, r) ==
    /\ estado[r] = "SORTEADA" /\ winner[r] # NoOne
    /\ changes.reject < MaxRejections
    /\ StartUpdate(h, r, "reject", AnyPrice)
    /\ changes' = [changes EXCEPT !.reject = @ + 1]

\* Mutant: the raffle is reset and its winner is kept.
MutRejectKeepsWinner(h) ==
    /\ job[h].pc = "reject"
    /\ estado' = [estado EXCEPT ![job[h].r] = "ACTIVA"]
    /\ GoTo(h, "idle")
    /\ UNCHANGED <<hidden, expired, price, winner, drawResult, payout,
                   ticketVars, moneyVars, changes>>

\* The DrawResult stays: the raffle is on sale again and cannot be drawn.
RejectRaffleWinner(h) ==
    /\ job[h].pc = "reject"
    /\ estado' = [estado EXCEPT ![job[h].r] = "ACTIVA"]
    /\ winner' = [winner EXCEPT ![job[h].r] = NoOne]
    /\ GoTo(h, "idle")
    /\ UNCHANGED <<hidden, expired, price, drawResult, payout,
                   ticketVars, moneyVars, changes>>

\* Reports hide a raffle and an admin shows it again (module Reports).
SetHidden(r) ==
    /\ hidden' = [hidden EXCEPT ![r] = ~@]
    /\ UNCHANGED <<estado, expired, price, winner, drawResult, payout,
                   ticketVars, moneyVars, changes, job>>

\* An error is thrown between two steps, and the cron goes on with its list, or
\* the process stops.
Abort(w) ==
    /\ w \in Fallible /\ job[w].pc # "idle"
    /\ \E pc \in {"idle", Return(w)} : GoTo(w, pc)
    /\ UNCHANGED <<raffleVars, ticketVars, moneyVars, changes>>

-----------------------------------------------------------------------------
DrawStep(w) == \/ CheckRaffleCompletion(w) \/ MarkCompleted(w)
               \/ PickWinningTicket(w) \/ DrawTransaction(w) \/ CreatePayout(w)

CronStep(c) == \/ ListExpiredRaffles(c) \/ NextExpiredRaffle(c)
               \/ RefundTickets(c) \/ CancelExpiredRaffle(c)

FinishUpdate(h) == \/ CancelRaffle(h) \/ ExtendRaffleDeadline(h)
                   \/ UpdatePrice(h) \/ RejectRaffleWinner(h)

StartOperation(h, r) == \/ StartCancel(h, r) \/ StartExtend(h, r)
                        \/ StartUpdatePrice(h, r) \/ StartReject(h, r)

Next ==
    \/ \E h \in Handlers, u \in Users, r \in Raffles : BuyTickets(h, u, r)
    \/ \E w \in Workers : DrawStep(w) \/ Abort(w)
    \/ \E c \in Crons : CronStep(c)
    \/ \E h \in Handlers : FinishUpdate(h)
    \/ \E h \in Handlers, r \in Raffles : StartOperation(h, r)
    \/ \E r \in Raffles : DeadlinePasses(r) \/ SetHidden(r)

Spec == Init /\ [][Next]_vars

\* The cron is scheduled every five minutes and finishes its steps; time passes;
\* a handler that is running gets on with its next step.  Nothing forces anyone
\* to buy, cancel, extend or reject.
FairSpec ==
    /\ Spec
    /\ \A c \in Crons : WF_vars(CronStep(c) \/ DrawStep(c))
    /\ \A h \in Handlers : WF_vars(DrawStep(h) \/ FinishUpdate(h))
    /\ \A r \in Raffles : WF_vars(DeadlinePasses(r))

-----------------------------------------------------------------------------
(* Properties *)

PerBuyer(S) == [Raffles -> [Users -> S]]

RafflesOK ==
    /\ estado      \in [Raffles -> Estados]
    /\ hidden      \in [Raffles -> BOOLEAN]
    /\ expired     \in [Raffles -> BOOLEAN]
    /\ price       \in [Raffles -> Prices]
    /\ winner      \in [Raffles -> Users \cup {NoOne}]
    /\ drawResult  \in [Raffles -> Numbers \cup {NoOne}]
    /\ payout      \in [Raffles -> BOOLEAN]

TicketsOK ==
    /\ holder      \in [Raffles -> [Numbers -> Users \cup {NoOne}]]
    /\ reembolsado \in [Raffles -> SUBSET Numbers]

MoneyOK ==
    /\ balance  \in [Users -> Nat]
    /\ payable  \in [Users -> Nat]
    /\ platform \in Int
    /\ charged  \in PerBuyer(Nat)
    /\ issued   \in PerBuyer(Nat)
    /\ owed     \in PerBuyer(Nat)
    /\ gross    \in [Raffles -> Nat]
    /\ returned \in PerBuyer(Nat)

ChangesOK ==
    changes \in [extend : 0 .. MaxExtensions, reject : 0 .. MaxRejections]

\* A ticket picked for a draw is a sold number: a number is never sold twice
\* and never becomes free again, refunds included.
JobsOK ==
    /\ job \in [Workers -> Job]
    /\ \A w \in Workers : job[w].pc = "drawTx" => job[w].n \in Sold(job[w].r)

\* The shape of the raffles, tickets, wallets and workers.
TypeOK == RafflesOK /\ TicketsOK /\ MoneyOK /\ ChangesOK /\ JobsOK

\* No money is made or lost: what buyers, sellers and the platform hold always
\* adds up to what was there at the start, across purchases with packs,
\* premiums and subsidies, refunds that race with purchases, and crashes.
MoneyConserved ==
    SumOf([u \in Users |-> balance[u] + payable[u]], Users) + platform
        = Cardinality(Users) * (InitBalance + InitPayable)

\* Every ticket is refunded at most once and no refund is lost: what a buyer
\* got back plus the value of the PAGADO tickets still held is the value of
\* all tickets issued, however often the cron repeats or dies and whatever
\* purchases and requests of administrators overlap with it.
RefundsMatchTickets ==
    \A r \in Raffles :
        /\ \A u \in Users : owed[r][u] + returned[r][u] = issued[r][u]
        /\ \A u \in Users : owed[r][u] > 0 <=> PaidBy(r, u) # {}
        /\ gross[r] = SumOf(owed[r], Users)

\* No buyer ever holds more than half of a raffle's tickets, pack bonuses
\* included.
LimitRespected ==
    \A r \in Raffles, u \in Users : Cardinality(PaidBy(r, u)) <= MaxAllowed

\* The winner of a raffle is the buyer of the ticket its DrawResult names, and
\* a raffle is SORTEADA only with a DrawResult, although the pool is read long
\* before the draw is stored and workers draw the same raffle concurrently.
WinnerMatchesDraw ==
    \A r \in Raffles :
        /\ winner[r] # NoOne => /\ drawResult[r] # NoOne
                                /\ winner[r] = holder[r][drawResult[r]]
        /\ estado[r] = "SORTEADA" => drawResult[r] # NoOne

\* A raffle with a winner never sells: COMPLETADA or CANCELADA may be written
\* over SORTEADA by a worker that checked the raffle before it was drawn, but
\* no order of handlers, crons and crashes brings it back to ACTIVA.
DrawnRaffleIsClosed ==
    \A r \in Raffles : winner[r] # NoOne => estado[r] # "ACTIVA"

\* A stored draw is never replaced by another one.
DrawIsFinal ==
    [][\A r \in Raffles : drawResult[r] # NoOne => drawResult'[r] = drawResult[r]]_vars

\* Up to half of the numbers of a raffle.
HalfOfNumbers == {S \in SUBSET Numbers : Cardinality(S) <= MaxAllowed}

Promise == INSTANCE SalePromise WITH
    Holdings <- HalfOfNumbers, owner <- holder, repaid <- reembolsado, draw <- drawResult, prize <- winner,
    worth <- issued, back <- returned

\* The handlers, crons and administrators together keep the promise of a sale,
\* although each of them checks a raffle in one step and writes it in another:
\* every step is a sale within the limit, a refund of all that the buyers hold,
\* the one draw, the withdrawal of a prize, or nothing that a buyer can tell.
KeepsSalePromise == Promise!Spec

\* A raffle with all its tickets paid eventually has a stored draw or is
\* cancelled, even when the handler of the last purchase dies before it looks
\* for completion: the cron draws it once its deadline has passed.
FullRaffleIsSettled ==
    \A r \in Raffles :
        (Paid(r) = Numbers) ~> (drawResult[r] # NoOne \/ estado[r] = "CANCELADA")

Unsold(r) == estado[r] = "ACTIVA" /\ expired[r] /\ ~ReachesThreshold(r)

\* "si no llego al minimo, se cancela y se reembolsa": an expired raffle below
\* the threshold does not stay ACTIVA.
UnsoldRaffleIsCancelled == \A r \in Raffles : Unsold(r) ~> ~Unsold(r)

\* "los tickets pagados deben ser reembolsados": the tickets of a cancelled
\* raffle are eventually refunded.
CancelledIsRefunded ==
    \A r \in Raffles : (estado[r] = "CANCELADA") ~> (Paid(r) = {})
=============================================================================
