-------------------------- MODULE RaffleSaleProofs --------------------------
(***************************************************************************)
(* Proofs about selling and drawing raffles, for every set of raffles,     *)
(* numbers, users, prices and concurrent workers.                          *)
(***************************************************************************)
EXTENDS Panels, SumsProofs

PCs == {"idle", "completion", "complete", "draw", "drawTx", "payout", "work",
        "refund", "cancel", "sellerCancel", "extend", "price", "reject"}

\* Sold numbers stay sold.
SoldGrows == \A r \in Raffles, n \in Numbers :
                holder[r][n] # NoOne => holder'[r][n] # NoOne

\* The record of a worker that is not running is well typed.
LEMMA IdleIsJob == Idle \in Job /\ NoPlan \in Plans /\ AnyPrice \in Prices
<1>1. (CHOOSE r \in Raffles : TRUE) \in Raffles
  BY SaleConstants
<1>2. NoPlan \in Plans
  BY DEF NoPlan, Plans
<1>3. AnyPrice \in Prices
  BY SaleConstants DEF AnyPrice
<1> QED
  BY <1>1, <1>2, <1>3 DEF Idle, Job

\* A worker that moves on keeps the table of workers right, unless it moves to
\* the transaction of a draw, which only PickWinningTicket does.
LEMMA GoToType ==
    ASSUME JobsOK, SoldGrows, NEW w \in Workers, NEW pc \in PCs \ {"drawTx"},
           GoTo(w, pc)
    PROVE  JobsOK'
<1>1. job[w] \in Job
  BY DEF JobsOK
<1>2. [job[w] EXCEPT !.pc = pc] \in Job
  BY <1>1 DEF Job, PCs
<1>3. job' \in [Workers -> Job]
  BY <1>1, <1>2, IdleIsJob DEF GoTo, JobsOK
<1>4. ASSUME NEW v \in Workers, job'[v].pc = "drawTx"
      PROVE  job'[v].n \in Numbers /\ holder'[job'[v].r][job'[v].n] # NoOne
  <2>1. CASE v # w
    <3>1. job'[v] = job[v] /\ job[v].r \in Raffles
      BY <2>1 DEF GoTo, JobsOK, Job
    <3>2. job[v].n \in Numbers /\ holder[job[v].r][job[v].n] # NoOne
      BY <1>4, <3>1 DEF JobsOK, Sold
    <3> QED
      BY <3>1, <3>2 DEF SoldGrows
  <2>2. CASE v = w
    <3>1. job'[w].pc = pc
      BY <1>1 DEF GoTo, JobsOK, Job, Idle
    <3> QED
      BY <1>4, <2>2, <3>1
  <2> QED
    BY <2>1, <2>2
<1> QED
  BY <1>3, <1>4 DEF JobsOK, Sold

\* So does a worker whose record is replaced by a well-typed one.
LEMMA AssignType ==
    ASSUME JobsOK, SoldGrows, NEW w \in Workers, NEW x \in Job,
           x.pc = "drawTx" => x.n \in Numbers /\ holder'[x.r][x.n] # NoOne,
           job' = [job EXCEPT ![w] = x]
    PROVE  JobsOK'
<1>1. job' \in [Workers -> Job]
  BY DEF JobsOK
<1>2. ASSUME NEW v \in Workers, job'[v].pc = "drawTx"
      PROVE  job'[v].n \in Numbers /\ holder'[job'[v].r][job'[v].n] # NoOne
  <2>1. CASE v # w
    <3>1. job'[v] = job[v] /\ job[v].r \in Raffles
      BY <2>1 DEF JobsOK, Job
    <3>2. job[v].n \in Numbers /\ holder[job[v].r][job[v].n] # NoOne
      BY <1>2, <3>1 DEF JobsOK, Sold
    <3> QED
      BY <3>1, <3>2 DEF SoldGrows
  <2>2. CASE v = w
    <3>1. job'[w] = x
      BY DEF JobsOK
    <3> QED
      BY <1>2, <2>2, <3>1
  <2> QED
    BY <2>1, <2>2
<1> QED
  BY <1>1, <1>2 DEF JobsOK, Sold

\* A step that leaves holder alone keeps sold numbers sold.
LEMMA SameHolders ==
    ASSUME UNCHANGED holder PROVE SoldGrows
  BY DEF SoldGrows

\* A purchase: bonus tickets and amounts are natural numbers, and a purchase
\* that passes the checks never makes a wallet negative.
LEMMA BonusType ==
    ASSUME NEW mode, NEW quantity \in Nat, NEW available, NEW remaining
    PROVE  evaluateSimpleRandomPack(mode, quantity, available, remaining) \in Nat
<1>1. quantity \in DOMAIN PackBonuses => PackBonuses[quantity] \in Nat
  BY SaleConstants
<1> QED
  BY <1>1 DEF evaluateSimpleRandomPack

\* The rounded percentage of a whole amount (a fee, a commission) is a whole amount.
LEMMA RoundedPercentType ==
    ASSUME NEW a \in Nat, NEW p \in Nat PROVE RoundedPercent(a, p) \in Nat
<1>1. a * p \in Nat
  OBVIOUS
<1> QED
  BY <1>1 DEF RoundedPercent

\* The amounts buyTickets computes from whole prices, quantities and discounts are integers.
LEMMA PurchaseType ==
    ASSUME price \in [Raffles -> Prices], NEW r \in Raffles, NEW mode,
           NEW quantity \in Nat, NEW bonus \in Nat, NEW discount \in Nat
    PROVE  /\ Purchase(r, mode, quantity, bonus, discount).subtotal \in Nat
           /\ Purchase(r, mode, quantity, bonus, discount).charge \in Int
           /\ Purchase(r, mode, quantity, bonus, discount).net \in Int
           /\ Purchase(r, mode, quantity, bonus, discount).kept \in Int
<1> DEFINE subtotal == price[r] * (quantity + bonus)
           each     == RoundedPercent(price[r], PremiumPercent)
           premium  == IF mode = "CHOOSE_NUMBERS" THEN each * quantity ELSE 0
           fee      == RoundedPercent(subtotal, FeePercent)
           paid     == price[r] * bonus
<1>1. price[r] \in Nat
  BY SaleConstants
<1>2. quantity + bonus \in Nat
  OBVIOUS
<1>3. subtotal \in Nat /\ paid \in Nat
  BY <1>1, <1>2
<1>4. each \in Nat
  BY <1>1, RoundedPercentType, SaleConstants
<1>5. premium \in Nat
  <2> HIDE DEF each
  <2>1. each * quantity \in Nat
    BY <1>4
  <2> QED
    BY <2>1
<1>6. fee \in Nat
  <2> HIDE DEF subtotal
  <2> QED
    BY <1>3, RoundedPercentType, SaleConstants
<1>7. Purchase(r, mode, quantity, bonus, discount)
        = [subtotal |-> subtotal, charge |-> subtotal - (paid + discount) + premium,
           net |-> subtotal - fee, kept |-> fee + premium - (paid + discount)]
  BY DEF Purchase
<1> HIDE DEF subtotal, premium, fee, paid
<1> QED
  BY <1>3, <1>5, <1>6, <1>7

\* A purchase keeps raffles, tickets, wallets and workers well typed.
LEMMA BuyTicketsType ==
    ASSUME TypeOK, NEW h \in Handlers, NEW u \in Users, NEW r \in Raffles,
           BuyTickets(h, u, r)
    PROVE  TypeOK'
<1> USE SaleConstants DEF raffleVars
<1>0. RafflesOK /\ TicketsOK /\ MoneyOK /\ ChangesOK /\ JobsOK
  BY DEF TypeOK
<1>1. PICK mode \in {"RANDOM", "CHOOSE_NUMBERS"}, quantity \in 1 .. Total,
           discount \in Discounts : PurchaseTickets(u, r, mode, quantity, discount)
  BY DEF BuyTickets
<1> DEFINE bonus == evaluateSimpleRandomPack(mode, quantity, Cardinality(Free(r)),
                                             RemainingAllowed(r, u))
           m     == Purchase(r, mode, quantity, bonus, discount)
<1>2. quantity \in Nat /\ discount \in Nat
  OBVIOUS
<1>3. bonus \in Nat
  BY <1>2, BonusType
<1>4. m.subtotal \in Nat /\ m.charge \in Int /\ m.net \in Int /\ m.kept \in Int
  <2> HIDE DEF bonus
  <2>1. price \in [Raffles -> Prices]
    BY <1>0 DEF RafflesOK
  <2> QED
    BY <1>2, <1>3, <2>1, PurchaseType
<1>5. MoneyOK'
  <2>1. /\ m.charge > 0 /\ m.net > 0 /\ m.charge <= balance[u]
        /\ balance'  = [balance EXCEPT ![u] = @ - m.charge]
        /\ payable'  = [payable EXCEPT ![SellerOf[r]] = @ + m.net]
        /\ platform' = platform + m.kept
        /\ charged'  = [charged EXCEPT ![r][u] = @ + m.charge]
        /\ issued'   = [issued EXCEPT ![r][u] = @ + m.subtotal]
        /\ owed'     = [owed EXCEPT ![r][u] = @ + m.subtotal]
        /\ gross'    = [gross EXCEPT ![r] = @ + m.subtotal]
    BY <1>1 DEF PurchaseTickets
  <2>2. returned' = returned
    BY DEF BuyTickets
  <2> HIDE DEF m
  <2>3. MoneyOK
    BY <1>0
  <2>4. balance' \in [Users -> Nat] /\ payable' \in [Users -> Nat]
    BY <1>4, <2>1, <2>3 DEF MoneyOK
  <2>5. charged' \in PerBuyer(Nat)
    BY <1>4, <2>1, <2>3 DEF MoneyOK, PerBuyer
  <2>6. issued' \in PerBuyer(Nat) /\ owed' \in PerBuyer(Nat)
    BY <1>4, <2>1, <2>3 DEF MoneyOK, PerBuyer
  <2>7. platform' \in Int /\ gross' \in [Raffles -> Nat]
    BY <1>4, <2>1, <2>3 DEF MoneyOK
  <2> QED
    BY <2>2, <2>3, <2>4, <2>5, <2>6, <2>7 DEF MoneyOK
<1>6. TicketsOK' /\ SoldGrows
  <2>1. PICK nums \in kSubset(quantity + bonus, Free(r)) :
          holder' = [holder EXCEPT ![r] =
                       [n \in Numbers |-> IF n \in nums THEN u ELSE @[n]]]
    BY <1>1 DEF PurchaseTickets
  <2>2. reembolsado' = reembolsado
    BY DEF BuyTickets
  <2>3. TicketsOK'
    BY <1>0, <2>1, <2>2 DEF TicketsOK
  <2> QED
    BY <1>0, <2>1, <2>3 DEF TicketsOK, SoldGrows
<1>7. JobsOK'
  <2>1. job' = [job EXCEPT ![h] = [job[h] EXCEPT !.pc = "completion", !.r = r]]
    BY DEF BuyTickets
  <2>2. h \in Workers /\ job[h] \in Job
    BY <1>0 DEF Workers, JobsOK
  <2> DEFINE x == [job[h] EXCEPT !.pc = "completion", !.r = r]
  <2>3. x \in Job /\ x.pc # "drawTx"
    BY <2>2 DEF Job
  <2> HIDE DEF x
  <2>4. job' = [job EXCEPT ![h] = x]
    BY <2>1 DEF x
  <2> QED
    BY <1>0, <1>6, <2>2, <2>3, <2>4, AssignType
<1>8. RafflesOK' /\ ChangesOK'
  BY <1>0 DEF BuyTickets, RafflesOK, ChangesOK
<1> QED
  BY <1>5, <1>6, <1>7, <1>8 DEF TypeOK

\* Completing and drawing a raffle keeps everything well typed.
LEMMA DrawStepType ==
    ASSUME TypeOK, NEW w \in Workers, DrawStep(w) \/ Abort(w)
    PROVE  TypeOK'
<1> USE DEF raffleVars, ticketVars, moneyVars
<1>0. RafflesOK /\ TicketsOK /\ MoneyOK /\ ChangesOK /\ JobsOK
  BY DEF TypeOK
<1>a. job[w] \in Job /\ job[w].r \in Raffles /\ job[w].n \in Numbers \cup {NoOne}
  BY <1>0 DEF JobsOK, Job
<1>b. Return(w) \in PCs \ {"drawTx"}
  BY DEF Return, PCs
<1>c. SoldGrows
  <2>1. UNCHANGED holder
    BY DEF DrawStep, CheckRaffleCompletion, MarkCompleted, PickWinningTicket,
           DrawTransaction, CreatePayout, Abort
  <2> QED
    BY <2>1, SameHolders
<1>1. CASE CheckRaffleCompletion(w)
  <2>1. JobsOK'
    BY <1>0, <1>c, <1>1, GoToType DEF CheckRaffleCompletion, PCs
  <2>2. RafflesOK' /\ TicketsOK' /\ MoneyOK' /\ ChangesOK'
    BY <1>0, <1>1 DEF CheckRaffleCompletion, RafflesOK, TicketsOK, MoneyOK, ChangesOK
  <2> QED
    BY <2>1, <2>2 DEF TypeOK
<1>2. CASE MarkCompleted(w)
  <2>1. JobsOK'
    BY <1>0, <1>c, <1>2, GoToType DEF MarkCompleted, PCs
  <2>2. RafflesOK' /\ TicketsOK' /\ MoneyOK' /\ ChangesOK'
    BY <1>0, <1>2, <1>a
       DEF MarkCompleted, RafflesOK, TicketsOK, MoneyOK, ChangesOK, Estados
  <2> QED
    BY <2>1, <2>2 DEF TypeOK
<1>3. CASE PickWinningTicket(w)
  <2>1. JobsOK'
    <3>1. CASE \E n \in Paid(job[w].r) :
                 job' = [job EXCEPT ![w] = [job[w] EXCEPT !.pc = "drawTx", !.n = n]]
      <4>1. PICK n \in Paid(job[w].r) :
                 job' = [job EXCEPT ![w] = [job[w] EXCEPT !.pc = "drawTx", !.n = n]]
        BY <3>1
      <4>2. n \in Numbers /\ holder'[job[w].r][n] # NoOne
        BY <1>3 DEF Paid, Sold, PickWinningTicket
      <4> DEFINE x == [job[w] EXCEPT !.pc = "drawTx", !.n = n]
      <4>3. x \in Job /\ x.r = job[w].r /\ x.n = n
        BY <1>a, <4>2 DEF Job
      <4> HIDE DEF x
      <4>4. job' = [job EXCEPT ![w] = x]
        BY <4>1 DEF x
      <4> QED
        BY <1>0, <1>c, <4>2, <4>3, <4>4, AssignType
    <3>2. CASE GoTo(w, Return(w))
      BY <1>0, <1>b, <1>c, <3>2, GoToType
    <3> QED
      BY <1>3, <3>1, <3>2 DEF PickWinningTicket
  <2>2. RafflesOK' /\ TicketsOK' /\ MoneyOK' /\ ChangesOK'
    BY <1>0, <1>3 DEF PickWinningTicket, RafflesOK, TicketsOK, MoneyOK, ChangesOK
  <2> QED
    BY <2>1, <2>2 DEF TypeOK
<1>4. CASE DrawTransaction(w)
  <2>1. JobsOK'
    BY <1>0, <1>4, <1>b, <1>c, GoToType DEF DrawTransaction, PCs
  <2>2. TicketsOK' /\ MoneyOK' /\ ChangesOK'
    BY <1>0, <1>4 DEF DrawTransaction, TicketsOK, MoneyOK, ChangesOK
  <2>3. job[w].n \in Numbers /\ holder[job[w].r][job[w].n] \in Users
    BY <1>0, <1>a, <1>4 DEF TicketsOK, JobsOK, Sold, DrawTransaction
  <2>4. RafflesOK'
    BY <1>0, <1>4, <1>a, <2>3 DEF DrawTransaction, RafflesOK, Estados
  <2> QED
    BY <2>1, <2>2, <2>4 DEF TypeOK
<1>5. CASE CreatePayout(w)
  <2>1. JobsOK'
    BY <1>0, <1>5, <1>b, <1>c, GoToType DEF CreatePayout
  <2>2. RafflesOK' /\ TicketsOK' /\ MoneyOK' /\ ChangesOK'
    BY <1>0, <1>5, <1>a DEF CreatePayout, RafflesOK, TicketsOK, MoneyOK, ChangesOK
  <2> QED
    BY <2>1, <2>2 DEF TypeOK
<1>6. CASE Abort(w)
  <2>1. JobsOK'
    BY <1>0, <1>6, <1>b, <1>c, GoToType DEF Abort, PCs
  <2>2. RafflesOK' /\ TicketsOK' /\ MoneyOK' /\ ChangesOK'
    BY <1>0, <1>6 DEF Abort, RafflesOK, TicketsOK, MoneyOK, ChangesOK
  <2> QED
    BY <2>1, <2>2 DEF TypeOK
<1> QED
  BY <1>1, <1>2, <1>3, <1>4, <1>5, <1>6 DEF DrawStep

\* The cron keeps everything well typed.
LEMMA CronStepType ==
    ASSUME TypeOK, NEW c \in Crons, CronStep(c)
    PROVE  TypeOK'
<1> USE SaleConstants DEF raffleVars, ticketVars, moneyVars
<1>0. RafflesOK /\ TicketsOK /\ MoneyOK /\ ChangesOK /\ JobsOK
  BY DEF TypeOK
<1>a. /\ c \in Workers /\ job[c] \in Job /\ job[c].r \in Raffles
      /\ job[c].plan \in Plans
  BY <1>0 DEF Workers, JobsOK, Job
<1>b. SoldGrows
  <2>1. UNCHANGED holder
    BY DEF CronStep, ListExpiredRaffles, NextExpiredRaffle, RefundTickets,
           CancelExpiredRaffle
  <2> QED
    BY <2>1, SameHolders
<1>1. CASE ListExpiredRaffles(c)
  <2> DEFINE plan == [r \in Raffles |-> PlanFor(r)]
             x == [job[c] EXCEPT !.pc = "work", !.plan = plan]
  <2>1. plan \in Plans
    BY DEF Plans, PlanFor
  <2> HIDE DEF plan
  <2>2. x \in Job /\ x.pc # "drawTx"
    BY <1>a, <2>1 DEF Job
  <2>3. job' = [job EXCEPT ![c] = x]
    BY <1>1 DEF ListExpiredRaffles, plan
  <2> HIDE DEF x
  <2>4. JobsOK'
    BY <1>0, <1>a, <1>b, <2>2, <2>3, AssignType
  <2>5. RafflesOK' /\ TicketsOK' /\ MoneyOK' /\ ChangesOK'
    BY <1>0, <1>1 DEF ListExpiredRaffles, RafflesOK, TicketsOK, MoneyOK, ChangesOK
  <2> QED
    BY <2>4, <2>5 DEF TypeOK
<1>2. CASE NextExpiredRaffle(c)
  <2>1. JobsOK'
    <3>1. CASE job[c].plan = NoPlan /\ GoTo(c, "idle")
      BY <1>0, <1>a, <1>b, <3>1, GoToType DEF PCs
    <3>2. CASE \E r \in Raffles :
            job' = [job EXCEPT ![c] =
              [job[c] EXCEPT !.pc = IF job[c].plan[r] = "draw" THEN "draw" ELSE "refund",
                             !.r = r, !.plan[r] = "skip"]]
      <4>1. PICK r \in Raffles :
            job' = [job EXCEPT ![c] =
              [job[c] EXCEPT !.pc = IF job[c].plan[r] = "draw" THEN "draw" ELSE "refund",
                             !.r = r, !.plan[r] = "skip"]]
        BY <3>2
      <4> DEFINE pc == IF job[c].plan[r] = "draw" THEN "draw" ELSE "refund"
                 plan == [job[c].plan EXCEPT ![r] = "skip"]
                 x == [job[c] EXCEPT !.pc = pc, !.r = r, !.plan = plan]
      <4>2. plan \in Plans
        BY <1>a DEF Plans
      <4>3. pc \in {"draw", "refund"}
        OBVIOUS
      <4>4. job' = [job EXCEPT ![c] = x]
        BY <1>a, <4>1 DEF Job
      <4> HIDE DEF plan, pc
      <4>5. x \in Job /\ x.pc # "drawTx"
        BY <1>a, <4>2, <4>3 DEF Job
      <4> HIDE DEF x
      <4> QED
        BY <1>0, <1>a, <1>b, <4>4, <4>5, AssignType
    <3> QED
      BY <1>2, <3>1, <3>2 DEF NextExpiredRaffle
  <2>2. RafflesOK' /\ TicketsOK' /\ MoneyOK' /\ ChangesOK'
    BY <1>0, <1>2 DEF NextExpiredRaffle, RafflesOK, TicketsOK, MoneyOK, ChangesOK
  <2> QED
    BY <2>1, <2>2 DEF TypeOK
<1>3. CASE RefundTickets(c)
  <2>1. JobsOK'
    BY <1>0, <1>a, <1>b, <1>3, GoToType DEF RefundTickets, PCs
  <2>2. RafflesOK' /\ ChangesOK'
    BY <1>0, <1>3 DEF RefundTickets, RafflesOK, ChangesOK
  <2>3. TicketsOK'
    BY <1>0, <1>3, <1>a DEF RefundTickets, TicketsOK, Sold
  <2>4. MoneyOK'
    <3>1. SellerOf[job[c].r] \in Users
      BY <1>a
    <3>2. balance' \in [Users -> Nat]
      BY <1>0, <1>3, <1>a DEF RefundTickets, MoneyOK, PerBuyer
    <3>5. payable' \in [Users -> Nat]
      <4> DEFINE s == SellerOf[job[c].r]
                 g == gross[job[c].r]
      <4>1. payable \in [Users -> Nat] /\ g \in Nat /\ s \in Users
        BY <1>0, <1>a, <3>1 DEF MoneyOK
      <4>2. \/ g <= payable[s] /\ payable' = [payable EXCEPT ![s] = payable[s] - g]
            \/ UNCHANGED payable
        BY <1>3 DEF RefundTickets
      <4> HIDE DEF s, g
      <4> QED
        BY <4>1, <4>2
    <3>3. returned' \in PerBuyer(Nat) /\ owed' \in PerBuyer(Nat)
      <4> DEFINE r == job[c].r
                 back == [u \in Users |-> returned[r][u] + owed[r][u]]
                 zero == [u \in Users |-> 0]
      <4>1. /\ r \in Raffles /\ returned \in [Raffles -> [Users -> Nat]]
            /\ owed \in [Raffles -> [Users -> Nat]]
        BY <1>0, <1>a DEF MoneyOK, PerBuyer
      <4>2. back \in [Users -> Nat] /\ zero \in [Users -> Nat]
        <5> HIDE DEF r
        <5> QED
          BY <4>1
      <4>3. returned' = [returned EXCEPT ![r] = back] \/ UNCHANGED returned
        BY <1>3, Zenon DEF RefundTickets
      <4>4. owed' = [owed EXCEPT ![r] = zero] \/ UNCHANGED owed
        BY <1>3, Zenon DEF RefundTickets
      <4> HIDE DEF r, back, zero
      <4>5. returned' \in [Raffles -> [Users -> Nat]]
        <5>1. CASE returned' = [returned EXCEPT ![r] = back]
          BY <4>1, <4>2, <5>1
        <5>2. CASE UNCHANGED returned
          BY <4>1, <5>2
        <5> QED
          BY <4>3, <5>1, <5>2
      <4>6. owed' \in [Raffles -> [Users -> Nat]]
        <5>1. CASE owed' = [owed EXCEPT ![r] = zero]
          BY <4>1, <4>2, <5>1
        <5>2. CASE UNCHANGED owed
          BY <4>1, <5>2
        <5> QED
          BY <4>4, <5>1, <5>2
      <4> QED
        BY <4>5, <4>6 DEF PerBuyer
    <3>4. gross' \in [Raffles -> Nat]
      BY <1>0, <1>3, <1>a DEF RefundTickets, MoneyOK
    <3> QED
      BY <1>0, <1>3, <3>2, <3>3, <3>4, <3>5 DEF RefundTickets, MoneyOK
  <2> QED
    BY <2>1, <2>2, <2>3, <2>4 DEF TypeOK
<1>4. CASE CancelExpiredRaffle(c)
  <2>1. JobsOK'
    BY <1>0, <1>a, <1>b, <1>4, GoToType DEF CancelExpiredRaffle, PCs
  <2>2. RafflesOK' /\ TicketsOK' /\ MoneyOK' /\ ChangesOK'
    BY <1>0, <1>4, <1>a
       DEF CancelExpiredRaffle, RafflesOK, TicketsOK, MoneyOK, ChangesOK, Estados
  <2> QED
    BY <2>1, <2>2 DEF TypeOK
<1> QED
  BY <1>1, <1>2, <1>3, <1>4 DEF CronStep

\* Seller and admin operations keep everything well typed.
LEMMA UpdateType ==
    ASSUME TypeOK, NEW h \in Handlers, FinishUpdate(h)
    PROVE  TypeOK'
<1> USE SaleConstants DEF ticketVars, moneyVars
<1>0. RafflesOK /\ TicketsOK /\ MoneyOK /\ ChangesOK /\ JobsOK
  BY DEF TypeOK
<1>a. /\ h \in Workers /\ job[h] \in Job /\ job[h].r \in Raffles
      /\ job[h].newPrice \in Prices
  BY <1>0 DEF Workers, JobsOK, Job
<1>b. SoldGrows
  <2>1. UNCHANGED holder
    BY DEF FinishUpdate, CancelRaffle, ExtendRaffleDeadline, UpdatePrice,
           RejectRaffleWinner
  <2> QED
    BY <2>1, SameHolders
<1>c. GoTo(h, "idle")
  BY DEF FinishUpdate, CancelRaffle, ExtendRaffleDeadline, UpdatePrice,
         RejectRaffleWinner
<1>1. JobsOK'
  BY <1>0, <1>a, <1>b, <1>c, GoToType DEF PCs
<1>2. TicketsOK' /\ MoneyOK' /\ ChangesOK'
  BY <1>0 DEF FinishUpdate, CancelRaffle, ExtendRaffleDeadline, UpdatePrice,
              RejectRaffleWinner, TicketsOK, MoneyOK, ChangesOK
<1>3. RafflesOK'
  <2>1. CASE CancelRaffle(h)
    BY <1>0, <1>a, <2>1 DEF CancelRaffle, RafflesOK, Estados
  <2>2. CASE ExtendRaffleDeadline(h)
    BY <1>0, <1>a, <2>2 DEF ExtendRaffleDeadline, RafflesOK
  <2>3. CASE UpdatePrice(h)
    BY <1>0, <1>a, <2>3 DEF UpdatePrice, RafflesOK
  <2>4. CASE RejectRaffleWinner(h)
    BY <1>0, <1>a, <2>4 DEF RejectRaffleWinner, RafflesOK, Estados
  <2> QED
    BY <2>1, <2>2, <2>3, <2>4 DEF FinishUpdate
<1> QED
  BY <1>1, <1>2, <1>3 DEF TypeOK

\* The first step of a cancellation, an extension, a price update or a rejection keeps the types.
LEMMA StartType ==
    ASSUME TypeOK, NEW h \in Handlers, NEW r \in Raffles, StartOperation(h, r)
    PROVE  TypeOK'
<1> USE SaleConstants DEF raffleVars, ticketVars, moneyVars
<1>0. RafflesOK /\ TicketsOK /\ MoneyOK /\ ChangesOK /\ JobsOK
  BY DEF TypeOK
<1>a. h \in Workers /\ job[h] \in Job
  BY <1>0 DEF Workers, JobsOK
<1>1. PICK pc \in {"sellerCancel", "extend", "price", "reject"},
           p \in Prices : StartUpdate(h, r, pc, p)
  BY IdleIsJob DEF StartOperation, StartCancel, StartExtend, StartUpdatePrice, StartReject
<1> DEFINE x == [job[h] EXCEPT !.pc = pc, !.r = r, !.newPrice = p]
<1>2. x \in Job /\ x.pc # "drawTx"
  BY <1>a DEF Job
<1>3. job' = [job EXCEPT ![h] = x] /\ UNCHANGED holder
  BY <1>1 DEF StartUpdate
<1> HIDE DEF x
<1>4. JobsOK'
  BY <1>0, <1>a, <1>2, <1>3, SameHolders, AssignType
<1>5. RafflesOK' /\ TicketsOK' /\ MoneyOK'
  BY <1>0, <1>1 DEF StartUpdate, RafflesOK, TicketsOK, MoneyOK
<1>6. ChangesOK'
  BY <1>0 DEF StartOperation, StartCancel, StartExtend, StartUpdatePrice,
              StartReject, ChangesOK
<1> QED
  BY <1>4, <1>5, <1>6 DEF TypeOK

\* The initial states are well typed.
LEMMA InitType == Init => TypeOK
<1> SUFFICES ASSUME Init PROVE TypeOK
  OBVIOUS
<1> USE SaleConstants DEF Init
<1>1. RafflesOK /\ TicketsOK
  BY DEF RafflesOK, TicketsOK, Estados
<1>2. MoneyOK
  BY DEF MoneyOK, PerBuyer
<1>3. ChangesOK
  BY DEF ChangesOK
<1>4. JobsOK
  BY IdleIsJob DEF JobsOK, Idle
<1> QED
  BY <1>1, <1>2, <1>3, <1>4 DEF TypeOK

\* Every action of the sale keeps the types; with InitType, type correctness follows.
LEMMA NextType == TypeOK /\ [Next]_vars => TypeOK'
<1> SUFFICES ASSUME TypeOK, [Next]_vars PROVE TypeOK'
  OBVIOUS
<1> USE DEF raffleVars, ticketVars, moneyVars
<1>1. ASSUME NEW h \in Handlers, NEW u \in Users, NEW r \in Raffles,
             BuyTickets(h, u, r)
      PROVE  TypeOK'
  BY <1>1, BuyTicketsType
<1>2. ASSUME NEW w \in Workers, DrawStep(w) \/ Abort(w) PROVE TypeOK'
  BY <1>2, DrawStepType
<1>3. ASSUME NEW c \in Crons, CronStep(c) PROVE TypeOK'
  BY <1>3, CronStepType
<1>4. ASSUME NEW h \in Handlers, FinishUpdate(h) PROVE TypeOK'
  BY <1>4, UpdateType
<1>5. ASSUME NEW h \in Handlers, NEW r \in Raffles, StartOperation(h, r) PROVE TypeOK'
  BY <1>5, StartType
<1>6. ASSUME NEW r \in Raffles, DeadlinePasses(r) \/ SetHidden(r) PROVE TypeOK'
  <2>1. RafflesOK'
    BY <1>6 DEF TypeOK, RafflesOK, DeadlinePasses, SetHidden
  <2> QED
    BY <1>6, <2>1 DEF TypeOK, TicketsOK, MoneyOK, ChangesOK, JobsOK, Sold,
                      DeadlinePasses, SetHidden
<1>7. CASE UNCHANGED vars
  BY <1>7 DEF vars, TypeOK, RafflesOK, TicketsOK, MoneyOK, ChangesOK, JobsOK, Sold
<1> QED
  BY <1>1, <1>2, <1>3, <1>4, <1>5, <1>6, <1>7 DEF Next

\* In every state the raffles, tickets, wallets and workers have the shape
\* TypeOK describes: no wallet is ever negative, and the ticket a worker picked
\* for a draw is still a sold one when the draw is stored.
THEOREM TypeCorrect == Spec => []TypeOK
  BY InitType, NextType, PTL DEF Spec

-----------------------------------------------------------------------------
(* The draw *)

\* What a step may change of the draw of a raffle: nothing, the first draw by a
\* worker that picked a sold ticket, or the rejection of the winner.
DrawChange ==
    \/ UNCHANGED <<estado, winner, drawResult>>
    \/ \E r \in Raffles, st \in Estados \ {"SORTEADA"} :
         /\ estado' = [estado EXCEPT ![r] = st]
         /\ UNCHANGED <<winner, drawResult>>
    \/ \E r \in Raffles, n \in Numbers :
         /\ drawResult[r] = NoOne /\ holder[r][n] # NoOne
         /\ drawResult' = [drawResult EXCEPT ![r] = n]
         /\ winner'     = [winner EXCEPT ![r] = holder[r][n]]
         /\ estado'     = [estado EXCEPT ![r] = "SORTEADA"]
    \/ \E r \in Raffles :
         /\ winner' = [winner EXCEPT ![r] = NoOne]
         /\ estado' = [estado EXCEPT ![r] = "ACTIVA"]
         /\ UNCHANGED drawResult

\* A sold number keeps its buyer.
BuyersStay == \A r \in Raffles, n \in Numbers :
                holder[r][n] # NoOne => holder'[r][n] = holder[r][n]

\* What any step may do to the draws and the buyers: all that DrawStepKeepsInv needs to know of
\* the actions.
LEMMA StepChangesDraw ==
    ASSUME TypeOK, [Next]_vars PROVE DrawChange /\ BuyersStay
<1> USE DEF raffleVars, ticketVars, moneyVars
<1>0. TicketsOK /\ JobsOK /\ RafflesOK
  BY DEF TypeOK
<1>a. \A w \in Workers : job[w].r \in Raffles
  BY <1>0 DEF JobsOK, Job
<1>1. ASSUME NEW h \in Handlers, NEW u \in Users, NEW r \in Raffles,
             BuyTickets(h, u, r)
      PROVE  DrawChange /\ BuyersStay
  <2>1. PICK mode, quantity, discount : PurchaseTickets(u, r, mode, quantity, discount)
    BY <1>1 DEF BuyTickets
  <2>2. PICK nums : /\ nums \subseteq Free(r)
                    /\ holder' = [holder EXCEPT ![r] =
                         [n \in Numbers |-> IF n \in nums THEN u ELSE @[n]]]
    BY <2>1 DEF PurchaseTickets, kSubset
  <2>4. BuyersStay
    BY <1>0, <2>2 DEF TicketsOK, BuyersStay, Free, Sold
  <2> QED
    BY <1>1, <2>4 DEF BuyTickets, DrawChange
<1>2. ASSUME NEW w \in Workers, DrawStep(w) \/ Abort(w)
      PROVE  DrawChange /\ BuyersStay
  <2>1. CASE DrawTransaction(w)
    <3>1. job[w].n \in Numbers /\ holder[job[w].r][job[w].n] # NoOne
      BY <1>0, <2>1 DEF JobsOK, Sold, DrawTransaction
    <3> QED
      BY <1>a, <2>1, <3>1 DEF DrawTransaction, DrawChange, BuyersStay
  <2>2. CASE MarkCompleted(w)
    BY <1>a, <2>2 DEF MarkCompleted, DrawChange, BuyersStay, Estados
  <2>3. CASE CheckRaffleCompletion(w) \/ PickWinningTicket(w) \/ CreatePayout(w) \/ Abort(w)
    BY <2>3 DEF CheckRaffleCompletion, PickWinningTicket, CreatePayout, Abort,
                DrawChange, BuyersStay
  <2> QED
    BY <1>2, <2>1, <2>2, <2>3 DEF DrawStep
<1>3. ASSUME NEW c \in Crons, CronStep(c) PROVE DrawChange /\ BuyersStay
  <2>1. CASE CancelExpiredRaffle(c)
    BY <1>a, <2>1 DEF CancelExpiredRaffle, DrawChange, BuyersStay, Estados, Workers
  <2>2. CASE ListExpiredRaffles(c) \/ NextExpiredRaffle(c) \/ RefundTickets(c)
    BY <2>2 DEF ListExpiredRaffles, NextExpiredRaffle, RefundTickets, DrawChange,
                BuyersStay
  <2> QED
    BY <1>3, <2>1, <2>2 DEF CronStep
<1>4. ASSUME NEW h \in Handlers, FinishUpdate(h) PROVE DrawChange /\ BuyersStay
  <2>1. CASE CancelRaffle(h)
    BY <1>a, <2>1 DEF CancelRaffle, DrawChange, BuyersStay, Estados, Workers
  <2>2. CASE RejectRaffleWinner(h)
    BY <1>a, <2>2 DEF RejectRaffleWinner, DrawChange, BuyersStay, Workers
  <2>3. CASE ExtendRaffleDeadline(h) \/ UpdatePrice(h)
    BY <2>3 DEF ExtendRaffleDeadline, UpdatePrice, DrawChange, BuyersStay
  <2> QED
    BY <1>4, <2>1, <2>2, <2>3 DEF FinishUpdate
<1>5. ASSUME NEW h \in Handlers, NEW r \in Raffles, StartOperation(h, r)
      PROVE  DrawChange /\ BuyersStay
  BY <1>5 DEF StartOperation, StartCancel, StartExtend, StartUpdatePrice, StartReject,
              StartUpdate, DrawChange, BuyersStay
<1>6. ASSUME NEW r \in Raffles, DeadlinePasses(r) \/ SetHidden(r)
      PROVE  DrawChange /\ BuyersStay
  BY <1>6 DEF DeadlinePasses, SetHidden, DrawChange, BuyersStay
<1>7. CASE UNCHANGED vars
  BY <1>7 DEF vars, DrawChange, BuyersStay
<1> QED
  BY <1>1, <1>2, <1>3, <1>4, <1>5, <1>6, <1>7 DEF Next

\* A stored draw names a number that was sold.
DrawnIsSold ==
    \A r \in Raffles : drawResult[r] # NoOne =>
        drawResult[r] \in Numbers /\ holder[r][drawResult[r]] # NoOne

DrawInv == WinnerMatchesDraw /\ DrawnIsSold

\* The inductive invariant of the draw survives every step.
LEMMA DrawStepKeepsInv ==
    ASSUME TypeOK, DrawInv, [Next]_vars PROVE DrawInv'
<1>1. DrawChange /\ BuyersStay
  BY StepChangesDraw
<1>2. RafflesOK
  BY DEF TypeOK
<1>3. DrawnIsSold'
  BY <1>1, <1>2 DEF DrawChange, BuyersStay, DrawInv, DrawnIsSold, RafflesOK
<1>4. WinnerMatchesDraw'
  <2> SUFFICES ASSUME NEW r \in Raffles
               PROVE  /\ winner'[r] # NoOne => /\ drawResult'[r] # NoOne
                                               /\ winner'[r] = holder'[r][drawResult'[r]]
                      /\ estado'[r] = "SORTEADA" => drawResult'[r] # NoOne
    BY DEF WinnerMatchesDraw
  <2>1. /\ winner[r] # NoOne => /\ drawResult[r] # NoOne
                                /\ winner[r] = holder[r][drawResult[r]]
        /\ estado[r] = "SORTEADA" => drawResult[r] # NoOne
        /\ drawResult[r] # NoOne => /\ drawResult[r] \in Numbers
                                    /\ holder[r][drawResult[r]] # NoOne
    BY DEF DrawInv, WinnerMatchesDraw, DrawnIsSold
  <2>2. \/ UNCHANGED <<estado, winner, drawResult>>
        \/ /\ estado'[r] # "SORTEADA" \/ estado'[r] = estado[r]
           /\ UNCHANGED <<winner, drawResult>>
        \/ /\ winner'[r] = winner[r] \/ winner'[r] = NoOne
           /\ estado'[r] = estado[r] \/ estado'[r] # "SORTEADA"
           /\ UNCHANGED drawResult
        \/ /\ winner'[r] = winner[r] /\ drawResult'[r] = drawResult[r]
           /\ estado'[r] = estado[r]
        \/ \E n \in Numbers :
             /\ holder[r][n] # NoOne
             /\ drawResult'[r] = n /\ winner'[r] = holder[r][n]
    BY <1>1, <1>2 DEF DrawChange, RafflesOK
  <2> QED
    BY <1>1, <2>1, <2>2, SaleConstants DEF BuyersStay
<1> QED
  BY <1>3, <1>4 DEF DrawInv

\* The winner of every raffle is the buyer of the ticket in its DrawResult,
\* whatever workers draw, cancel, refund, reject or die in between.
THEOREM WinnerTheorem == Spec => []WinnerMatchesDraw
<1>1. Init => DrawInv
  BY SaleConstants DEF Init, DrawInv, WinnerMatchesDraw, DrawnIsSold
<1>2. TypeOK /\ DrawInv /\ [Next]_vars => DrawInv'
  BY DrawStepKeepsInv
<1>3. DrawInv => WinnerMatchesDraw
  BY DEF DrawInv
<1> QED
  BY <1>1, <1>2, <1>3, TypeCorrect, PTL DEF Spec

\* A stored draw is never replaced: the unique key of DrawResult makes the
\* second of two concurrent draws fail, and nothing deletes a DrawResult.
THEOREM DrawFinality == Spec => DrawIsFinal
<1>1. TypeOK /\ [Next]_vars =>
        [\A r \in Raffles : drawResult[r] # NoOne => drawResult'[r] = drawResult[r]]_vars
  <2> SUFFICES ASSUME TypeOK, [Next]_vars, NEW r \in Raffles, drawResult[r] # NoOne
               PROVE  drawResult'[r] = drawResult[r]
    OBVIOUS
  <2>1. DrawChange
    BY StepChangesDraw
  <2> QED
    BY <2>1 DEF DrawChange, TypeOK, RafflesOK
<1> QED
  BY <1>1, TypeCorrect, PTL DEF Spec, DrawIsFinal

-----------------------------------------------------------------------------
(* The 50% limit *)

\* The limit buyTickets enforces per buyer is a natural number.
LEMMA MaxAllowedType == Total \in Nat /\ MaxAllowed \in Nat
  BY FS_CardinalityType, SaleConstants DEF Total, MaxAllowed

\* A buyer's paid tickets in a raffle form a finite set, so counting them makes sense.
LEMMA PaidByFinite ==
    ASSUME NEW r \in Raffles, NEW u \in Users
    PROVE  IsFiniteSet(PaidBy(r, u)) /\ Cardinality(PaidBy(r, u)) \in Nat
<1>1. PaidBy(r, u) \subseteq Numbers
  BY DEF PaidBy, Paid, Sold
<1> QED
  BY <1>1, FS_Subset, FS_CardinalityType, SaleConstants

\* Whatever fits in Max({0, x}) and is positive fits in x.
LEMMA MaxWithZero ==
    ASSUME NEW x \in Int, NEW q \in Nat, q > 0, q <= Max({0, x})
    PROVE  q <= x
<1>1. \E y \in {0, x} : \A z \in {0, x} : y >= z
  <2>1. CASE x >= 0
    BY <2>1
  <2>2. CASE x < 0
    BY <2>2
  <2> QED
    BY <2>1, <2>2
<1>2. Max({0, x}) \in {0, x}
  BY <1>1 DEF Max
<1> QED
  BY <1>2

\* A purchase that passes the checks fits in what the buyer may still buy.
LEMMA PurchaseFits ==
    ASSUME NEW mode, NEW quantity \in Nat, NEW available, NEW remaining \in Int,
           quantity <= remaining
    PROVE  quantity + evaluateSimpleRandomPack(mode, quantity, available, remaining)
             <= remaining
  BY DEF evaluateSimpleRandomPack

\* A purchase, the only action that adds paid tickets, keeps every buyer within the limit.
LEMMA BuyRespectsLimit ==
    ASSUME TypeOK, LimitRespected,
           NEW h \in Handlers, NEW u \in Users, NEW r \in Raffles, BuyTickets(h, u, r)
    PROVE  LimitRespected'
<1> SUFFICES ASSUME NEW q \in Raffles, NEW v \in Users
             PROVE  Cardinality(PaidBy(q, v)') <= MaxAllowed
  BY DEF LimitRespected
<1>0. TicketsOK
  BY DEF TypeOK
<1>1. PICK mode \in {"RANDOM", "CHOOSE_NUMBERS"}, quantity \in 1 .. Total,
           discount \in Discounts : PurchaseTickets(u, r, mode, quantity, discount)
  BY DEF BuyTickets
<1>2. reembolsado' = reembolsado
  BY DEF BuyTickets
<1> DEFINE remaining == RemainingAllowed(r, u)
           bonus == evaluateSimpleRandomPack(mode, quantity, Cardinality(Free(r)),
                                             remaining)
<1>3. quantity \in Nat /\ quantity > 0
  BY MaxAllowedType
<1>4. bonus \in Nat
  BY <1>3, BonusType
<1>5. quantity <= remaining
  BY <1>1 DEF PurchaseTickets
<1>6. PICK nums : /\ nums \subseteq Free(r) /\ Cardinality(nums) = quantity + bonus
                  /\ holder' = [holder EXCEPT ![r] =
                       [n \in Numbers |-> IF n \in nums THEN u ELSE @[n]]]
  BY <1>1 DEF PurchaseTickets, kSubset
<1>7. CASE q = r /\ v = u
  <2> DEFINE mine == PaidBy(r, u)
  <2>1. IsFiniteSet(mine) /\ Cardinality(mine) \in Nat
    BY PaidByFinite
  <2>2. IsFiniteSet(nums) /\ Cardinality(nums) \in Nat
    <3>1. nums \subseteq Numbers
      BY <1>6 DEF Free
    <3> QED
      BY <3>1, FS_Subset, FS_CardinalityType, SaleConstants
  <2>3. remaining \in Int /\ quantity + bonus <= remaining
    <3>1. MaxAllowed - Cardinality(mine) \in Int
      BY <2>1, MaxAllowedType
    <3>2. remaining = Max({0, MaxAllowed - Cardinality(mine)})
      BY DEF RemainingAllowed
    <3>3. remaining \in Int
      <4> DEFINE x == MaxAllowed - Cardinality(mine)
      <4>1. \E y \in {0, x} : \A z \in {0, x} : y >= z
        <5> HIDE DEF x
        <5>1. x >= 0 \/ x < 0
          BY <3>1 DEF x
        <5> QED
          BY <3>1, <5>1 DEF x
      <4>2. Max({0, x}) \in {0, x}
        BY <4>1 DEF Max
      <4> QED
        BY <3>1, <3>2, <4>2
    <3> HIDE DEF remaining
    <3> QED
      BY <1>3, <1>5, <3>3, PurchaseFits
  <2>4. quantity + bonus <= MaxAllowed - Cardinality(mine)
    <3>1. quantity + bonus \in Nat /\ quantity + bonus > 0
      BY <1>3, <1>4
    <3>2. MaxAllowed - Cardinality(mine) \in Int
      BY <2>1, MaxAllowedType
    <3>3. quantity + bonus <= Max({0, MaxAllowed - Cardinality(mine)})
      BY <2>3 DEF RemainingAllowed
    <3> HIDE DEF bonus, mine
    <3> QED
      BY <3>1, <3>2, <3>3, MaxWithZero
  <2>5. PaidBy(r, u)' \subseteq mine \cup nums
    BY <1>0, <1>2, <1>6 DEF PaidBy, Paid, Sold, TicketsOK
  <2> HIDE DEF mine, bonus
  <2>6. /\ IsFiniteSet(mine \cup nums)
        /\ Cardinality(mine \cup nums) <= Cardinality(mine) + Cardinality(nums)
        /\ Cardinality(mine \cup nums) \in Nat
    <3>1. /\ IsFiniteSet(mine \cup nums)
          /\ Cardinality(mine \cup nums)
               = Cardinality(mine) + Cardinality(nums) - Cardinality(mine \cap nums)
      BY <2>1, <2>2, FS_Union
    <3>2. Cardinality(mine \cap nums) \in Nat
      BY <2>1, FS_Subset, FS_CardinalityType
    <3>3. Cardinality(mine \cup nums) \in Nat
      BY <3>1, FS_CardinalityType
    <3> QED
      BY <2>1, <2>2, <3>1, <3>2, <3>3
  <2>7. /\ Cardinality(PaidBy(r, u)') <= Cardinality(mine \cup nums)
        /\ Cardinality(PaidBy(r, u)') \in Nat
    BY <2>5, <2>6, FS_Subset, FS_CardinalityType
  <2>8. Cardinality(mine \cup nums) <= MaxAllowed
    BY <1>3, <1>4, <1>6, <2>1, <2>2, <2>4, <2>6, MaxAllowedType
  <2> QED
    BY <1>7, <2>6, <2>7, <2>8, MaxAllowedType
<1>8. CASE ~(q = r /\ v = u)
  <2>1. PaidBy(q, v)' = PaidBy(q, v)
    <3>1. ASSUME NEW n \in Numbers
          PROVE  holder'[q][n] = v <=> holder[q][n] = v
      BY <1>0, <1>6, <1>8, SaleConstants DEF TicketsOK, Free, Sold
    <3> QED
      BY <1>2, <3>1, SaleConstants DEF PaidBy, Paid, Sold
  <2> QED
    BY <2>1 DEF LimitRespected
<1> QED
  BY <1>7, <1>8

\* No buyer ever holds more than half of a raffle's numbers, whatever the packs,
\* refunds and concurrent purchases.
THEOREM LimitTheorem == Spec => []LimitRespected
<1>1. Init => LimitRespected
  <2> SUFFICES ASSUME Init, NEW r \in Raffles, NEW u \in Users
               PROVE  Cardinality(PaidBy(r, u)) <= MaxAllowed
    BY DEF LimitRespected
  <2>1. PaidBy(r, u) = {}
    BY DEF Init, PaidBy, Paid, Sold
  <2> QED
    BY <2>1, FS_EmptySet, MaxAllowedType
<1>2. TypeOK /\ LimitRespected /\ [Next]_vars => LimitRespected'
  <2> SUFFICES ASSUME TypeOK, LimitRespected, [Next]_vars PROVE LimitRespected'
    OBVIOUS
  <2> USE DEF raffleVars, ticketVars, moneyVars
  <2>1. ASSUME NEW h \in Handlers, NEW u \in Users, NEW r \in Raffles,
               BuyTickets(h, u, r)
        PROVE  LimitRespected'
    BY <2>1, BuyRespectsLimit
  <2>2. ASSUME NEW c \in Crons, RefundTickets(c) PROVE LimitRespected'
    <3> SUFFICES ASSUME NEW q \in Raffles, NEW v \in Users
                 PROVE  Cardinality(PaidBy(q, v)') <= MaxAllowed
      BY DEF LimitRespected
    <3>1. PaidBy(q, v)' = PaidBy(q, v) \/ PaidBy(q, v)' = {}
      BY <2>2 DEF RefundTickets, PaidBy, Paid, Sold, TypeOK, TicketsOK
    <3> QED
      BY <3>1, FS_EmptySet, MaxAllowedType DEF LimitRespected
  <2>3. CASE UNCHANGED ticketVars
    BY <2>3 DEF LimitRespected, PaidBy, Paid, Sold
  <2>4. ASSUME NEW w \in Workers, DrawStep(w) \/ Abort(w) PROVE UNCHANGED ticketVars
    BY <2>4 DEF DrawStep, CheckRaffleCompletion, MarkCompleted, PickWinningTicket,
                DrawTransaction, CreatePayout, Abort
  <2>5. ASSUME NEW c \in Crons, CronStep(c), ~RefundTickets(c)
        PROVE  UNCHANGED ticketVars
    BY <2>5 DEF CronStep, ListExpiredRaffles, NextExpiredRaffle, CancelExpiredRaffle
  <2>6. ASSUME NEW h \in Handlers, FinishUpdate(h) PROVE UNCHANGED ticketVars
    BY <2>6 DEF FinishUpdate, CancelRaffle, ExtendRaffleDeadline, UpdatePrice,
                RejectRaffleWinner
  <2>7. ASSUME NEW h \in Handlers, NEW r \in Raffles, StartOperation(h, r)
        PROVE  UNCHANGED ticketVars
    BY <2>7 DEF StartOperation, StartCancel, StartExtend, StartUpdatePrice,
                StartReject, StartUpdate
  <2>8. ASSUME NEW r \in Raffles, DeadlinePasses(r) \/ SetHidden(r)
        PROVE  UNCHANGED ticketVars
    BY <2>8 DEF DeadlinePasses, SetHidden
  <2>9. CASE UNCHANGED vars
    BY <2>3, <2>9 DEF vars
  <2> QED
    BY <2>1, <2>2, <2>3, <2>4, <2>5, <2>6, <2>7, <2>8, <2>9 DEF Next
<1> QED
  BY <1>1, <1>2, TypeCorrect, PTL DEF Spec

-----------------------------------------------------------------------------
\* A raffle with a winner is never ACTIVA again, so it never sells: whatever
\* writes ACTIVA clears the winner, and whatever sets a winner writes SORTEADA.
THEOREM ClosedTheorem == Spec => []DrawnRaffleIsClosed
<1>1. Init => DrawnRaffleIsClosed
  BY DEF Init, DrawnRaffleIsClosed
<1>2. TypeOK /\ DrawnRaffleIsClosed /\ [Next]_vars => DrawnRaffleIsClosed'
  <2> SUFFICES ASSUME TypeOK, DrawnRaffleIsClosed, [Next]_vars
               PROVE  DrawnRaffleIsClosed'
    OBVIOUS
  <2> USE DEF raffleVars
  <2>0. CASE UNCHANGED <<estado, winner>>
    BY <2>0 DEF DrawnRaffleIsClosed
  <2>1. ASSUME NEW h \in Handlers, NEW u \in Users, NEW r \in Raffles,
               BuyTickets(h, u, r)
        PROVE  DrawnRaffleIsClosed'
    BY <2>0, <2>1 DEF BuyTickets
  <2>2. ASSUME NEW w \in Workers, DrawStep(w) \/ Abort(w)
        PROVE  DrawnRaffleIsClosed'
    <3>1. CASE MarkCompleted(w)
      BY <3>1 DEF MarkCompleted, DrawnRaffleIsClosed, TypeOK, RafflesOK
    <3>2. CASE DrawTransaction(w)
      BY <3>2 DEF DrawTransaction, DrawnRaffleIsClosed, TypeOK, RafflesOK
    <3>3. CASE CheckRaffleCompletion(w) \/ PickWinningTicket(w) \/ CreatePayout(w)
               \/ Abort(w)
      BY <2>0, <3>3 DEF CheckRaffleCompletion, PickWinningTicket, CreatePayout, Abort
    <3> QED
      BY <2>2, <3>1, <3>2, <3>3 DEF DrawStep
  <2>3. ASSUME NEW c \in Crons, CronStep(c) PROVE DrawnRaffleIsClosed'
    <3>1. CASE CancelExpiredRaffle(c)
      BY <3>1 DEF CancelExpiredRaffle, DrawnRaffleIsClosed, TypeOK, RafflesOK
    <3>2. CASE ListExpiredRaffles(c) \/ NextExpiredRaffle(c) \/ RefundTickets(c)
      BY <2>0, <3>2 DEF ListExpiredRaffles, NextExpiredRaffle, RefundTickets
    <3> QED
      BY <2>3, <3>1, <3>2 DEF CronStep
  <2>4. ASSUME NEW h \in Handlers, FinishUpdate(h) PROVE DrawnRaffleIsClosed'
    <3>1. CASE CancelRaffle(h)
      BY <3>1 DEF CancelRaffle, DrawnRaffleIsClosed, TypeOK, RafflesOK
    <3>2. CASE RejectRaffleWinner(h)
      BY <3>2 DEF RejectRaffleWinner, DrawnRaffleIsClosed, TypeOK, RafflesOK
    <3>3. CASE ExtendRaffleDeadline(h) \/ UpdatePrice(h)
      BY <2>0, <3>3 DEF ExtendRaffleDeadline, UpdatePrice
    <3> QED
      BY <2>4, <3>1, <3>2, <3>3 DEF FinishUpdate
  <2>5. ASSUME NEW h \in Handlers, NEW r \in Raffles, StartOperation(h, r)
        PROVE  DrawnRaffleIsClosed'
    BY <2>0, <2>5 DEF StartOperation, StartCancel, StartExtend, StartUpdatePrice,
                      StartReject, StartUpdate
  <2>6. ASSUME NEW r \in Raffles, DeadlinePasses(r) \/ SetHidden(r)
        PROVE  DrawnRaffleIsClosed'
    BY <2>0, <2>6 DEF DeadlinePasses, SetHidden
  <2>7. CASE UNCHANGED vars
    BY <2>0, <2>7 DEF vars
  <2> QED
    BY <2>1, <2>2, <2>3, <2>4, <2>5, <2>6, <2>7 DEF Next
<1> QED
  BY <1>1, <1>2, TypeCorrect, PTL DEF Spec
-----------------------------------------------------------------------------
(* Money.  What wallets hold, what tickets are worth and what refunds gave  *)
(* back move together; the value of a refund is the seller's debit only     *)
(* because gross is the sum of what the buyers are owed.                    *)

\* Only sold tickets are refunded, so a new ticket is never already refunded.
RefundedWereSold == \A r \in Raffles : reembolsado[r] \subseteq Sold(r)

MoneyInv == MoneyConserved /\ RefundsMatchTickets /\ RefundedWereSold

\* What the wallets hold is the sum of the balances plus that of the payables.
LEMMA WalletSum ==
    ASSUME NEW b \in [Users -> Nat], NEW p \in [Users -> Nat]
    PROVE  /\ SumOf([u \in Users |-> b[u] + p[u]], Users)
                = SumOf(b, Users) + SumOf(p, Users)
           /\ SumOf(b, Users) \in Int /\ SumOf(p, Users) \in Int
<1> DEFINE h == [u \in Users |-> b[u] + p[u]]
<1>1. \A u \in Users : b[u] \in Int /\ p[u] \in Int /\ h[u] = b[u] + p[u]
  OBVIOUS
<1>2. IsFiniteSet(Users)
  BY SaleConstants
<1> HIDE DEF h
<1>3. SumOf(h, Users) = SumOf(b, Users) + SumOf(p, Users)
  BY <1>1, <1>2, SumOfPlus
<1>4. SumOf(b, Users) \in Int /\ SumOf(p, Users) \in Int
  BY <1>1, <1>2, SumOfType
<1> QED
  BY <1>3, <1>4 DEF h

\* A change of one user's entry changes the sum by as much.
LEMMA TableMove ==
    ASSUME NEW f \in [Users -> Int], NEW g \in [Users -> Int],
           NEW u \in Users, NEW n \in Int,
           g[u] = f[u] + n, \A x \in Users \ {u} : g[x] = f[x]
    PROVE  SumOf(g, Users) = SumOf(f, Users) + n /\ SumOf(f, Users) \in Int
<1>1. \A x \in Users : f[x] \in Int /\ g[x] \in Int
  OBVIOUS
<1>2. IsFiniteSet(Users)
  BY SaleConstants
<1>3. SumOf(g, Users) = SumOf(f, Users) - f[u] + g[u]
  BY <1>1, <1>2, SumOfUpdate
<1>4. SumOf(f, Users) \in Int
  BY <1>1, <1>2, SumOfType
<1> QED
  BY <1>1, <1>3, <1>4

\* What a buyer pays is what the seller is credited plus what the platform
\* keeps, and tickets are worth something.
LEMMA PurchaseBalances ==
    ASSUME price \in [Raffles -> Prices], NEW r \in Raffles, NEW mode,
           NEW quantity \in Nat, quantity > 0, NEW bonus \in Nat, NEW discount \in Nat
    PROVE  LET m == Purchase(r, mode, quantity, bonus, discount) IN
           m.charge = m.net + m.kept /\ m.subtotal > 0
<1> DEFINE subtotal == price[r] * (quantity + bonus)
           each     == RoundedPercent(price[r], PremiumPercent)
           premium  == IF mode = "CHOOSE_NUMBERS" THEN each * quantity ELSE 0
           fee      == RoundedPercent(subtotal, FeePercent)
           paid     == price[r] * bonus
<1>1. price[r] \in Nat /\ price[r] > 0
  BY SaleConstants
<1>2. quantity + bonus \in Nat /\ quantity + bonus > 0
  OBVIOUS
<1>3. subtotal \in Nat /\ subtotal > 0 /\ paid \in Nat
  BY <1>1, <1>2
<1>4. premium \in Nat
  <2>1. each \in Nat
    BY <1>1, RoundedPercentType, SaleConstants
  <2> HIDE DEF each
  <2>2. each * quantity \in Nat
    BY <2>1
  <2> QED
    BY <2>2
<1>5. fee \in Nat
  <2> HIDE DEF subtotal
  <2> QED
    BY <1>3, RoundedPercentType, SaleConstants
<1>6. Purchase(r, mode, quantity, bonus, discount)
        = [subtotal |-> subtotal, charge |-> subtotal - (paid + discount) + premium,
           net |-> subtotal - fee, kept |-> fee + premium - (paid + discount)]
  BY DEF Purchase
<1> HIDE DEF subtotal, premium, fee, paid
<1> QED
  BY <1>3, <1>4, <1>5, <1>6

\* A purchase keeps the books: the buyer's charge is shared out, and the value
\* of the new tickets is owed to the buyer.
LEMMA BuyKeepsBooks ==
    ASSUME TypeOK, TypeOK', MoneyInv,
           NEW h \in Handlers, NEW u \in Users, NEW r \in Raffles, BuyTickets(h, u, r)
    PROVE  MoneyInv'
<1>0. MoneyOK /\ TicketsOK /\ RafflesOK
  BY DEF TypeOK
<1>a. MoneyOK'
  BY DEF TypeOK
<1>1. PICK mode \in {"RANDOM", "CHOOSE_NUMBERS"}, quantity \in 1 .. Total,
           discount \in Discounts : PurchaseTickets(u, r, mode, quantity, discount)
  BY DEF BuyTickets
<1> DEFINE bonus == evaluateSimpleRandomPack(mode, quantity, Cardinality(Free(r)),
                                             RemainingAllowed(r, u))
           m     == Purchase(r, mode, quantity, bonus, discount)
<1>2. quantity \in Nat /\ quantity > 0 /\ discount \in Nat
  BY MaxAllowedType, SaleConstants
<1>3. bonus \in Nat
  BY <1>2, BonusType
<1>4. /\ m.subtotal \in Nat /\ m.subtotal > 0 /\ m.charge \in Int /\ m.net \in Int
      /\ m.kept \in Int /\ m.charge = m.net + m.kept
  <2> HIDE DEF bonus
  <2>1. price \in [Raffles -> Prices]
    BY <1>0 DEF RafflesOK
  <2> QED
    BY <1>2, <1>3, <2>1, PurchaseType, PurchaseBalances
<1>5. /\ balance'  = [balance EXCEPT ![u] = @ - m.charge]
      /\ payable'  = [payable EXCEPT ![SellerOf[r]] = @ + m.net]
      /\ platform' = platform + m.kept
      /\ issued'   = [issued EXCEPT ![r][u] = @ + m.subtotal]
      /\ owed'     = [owed EXCEPT ![r][u] = @ + m.subtotal]
      /\ gross'    = [gross EXCEPT ![r] = @ + m.subtotal]
      /\ UNCHANGED <<reembolsado, returned>>
  BY <1>1 DEF PurchaseTickets, BuyTickets
<1>6. PICK nums : /\ nums \subseteq Free(r) /\ nums # {}
                  /\ holder' = [holder EXCEPT ![r] =
                       [n \in Numbers |-> IF n \in nums THEN u ELSE @[n]]]
  <2>1. PICK nums \in kSubset(quantity + bonus, Free(r)) :
          holder' = [holder EXCEPT ![r] =
                       [n \in Numbers |-> IF n \in nums THEN u ELSE @[n]]]
    BY <1>1 DEF PurchaseTickets
  <2>2. nums \subseteq Free(r) /\ Cardinality(nums) = quantity + bonus
    BY <2>1 DEF kSubset
  <2>3. nums # {}
    BY <1>2, <1>3, <2>2, FS_EmptySet
  <2> QED
    BY <2>1, <2>2, <2>3
<1> HIDE DEF m, bonus
<1>7. MoneyConserved'
  <2>1. /\ balance \in [Users -> Int] /\ payable \in [Users -> Int]
        /\ balance' \in [Users -> Int] /\ payable' \in [Users -> Int]
        /\ -m.charge \in Int /\ SellerOf[r] \in Users
    BY <1>0, <1>a, <1>4, SaleConstants DEF MoneyOK
  <2>2. /\ balance'[u] = balance[u] + (-m.charge)
        /\ \A x \in Users \ {u} : balance'[x] = balance[x]
    BY <1>4, <1>5, <2>1
  <2>3. SumOf(balance', Users) = SumOf(balance, Users) + (-m.charge)
    BY <2>1, <2>2, TableMove
  <2>b. /\ payable'[SellerOf[r]] = payable[SellerOf[r]] + m.net
        /\ \A x \in Users \ {SellerOf[r]} : payable'[x] = payable[x]
    BY <1>4, <1>5, <2>1
  <2>4. SumOf(payable', Users) = SumOf(payable, Users) + m.net
    <3> DEFINE v == SellerOf[r]
               n == m.net
    <3>1. /\ v \in Users /\ n \in Int /\ payable'[v] = payable[v] + n
          /\ \A x \in Users \ {v} : payable'[x] = payable[x]
      BY <1>4, <2>1, <2>b
    <3> HIDE DEF v, n
    <3>2. SumOf(payable', Users) = SumOf(payable, Users) + n
      BY <2>1, <3>1, TableMove
    <3> QED
      BY <3>2 DEF n
  <2>5. /\ SumOf([v \in Users |-> balance[v] + payable[v]], Users)
             = SumOf(balance, Users) + SumOf(payable, Users)
        /\ SumOf(balance, Users) \in Int /\ SumOf(payable, Users) \in Int
    BY <1>0, WalletSum DEF MoneyOK
  <2>6. SumOf([v \in Users |-> balance'[v] + payable'[v]], Users)
          = SumOf(balance', Users) + SumOf(payable', Users)
    BY <1>a, WalletSum DEF MoneyOK
  <2>7. SumOf([v \in Users |-> balance'[v] + payable'[v]], Users) + platform'
          = SumOf([v \in Users |-> balance[v] + payable[v]], Users) + platform
    <3>1. platform \in Int /\ platform' = platform + m.kept
      BY <1>0, <1>5 DEF MoneyOK
    <3> QED
      BY <1>4, <2>3, <2>4, <2>5, <2>6, <3>1
  <2> QED
    BY <2>7 DEF MoneyInv, MoneyConserved
<1>8. RefundedWereSold'
  BY <1>0, <1>5, <1>6, SaleConstants DEF MoneyInv, RefundedWereSold, Sold, TicketsOK
<1>9. RefundsMatchTickets'
  <2> SUFFICES ASSUME NEW q \in Raffles
               PROVE  /\ \A v \in Users : owed'[q][v] + returned'[q][v] = issued'[q][v]
                      /\ \A v \in Users : owed'[q][v] > 0 <=> PaidBy(q, v)' # {}
                      /\ gross'[q] = SumOf(owed'[q], Users)
    BY DEF RefundsMatchTickets
  <2>1. /\ \A v \in Users : owed[q][v] + returned[q][v] = issued[q][v]
        /\ \A v \in Users : owed[q][v] > 0 <=> PaidBy(q, v) # {}
        /\ gross[q] = SumOf(owed[q], Users)
    BY DEF MoneyInv, RefundsMatchTickets
  <2>2. ASSUME NEW v \in Users, ~(q = r /\ v = u)
        PROVE  PaidBy(q, v)' = PaidBy(q, v)
    <3>1. ASSUME NEW n \in Numbers PROVE holder'[q][n] = v <=> holder[q][n] = v
      BY <1>0, <1>6, <2>2, SaleConstants DEF TicketsOK, Free, Sold
    <3> QED
      BY <1>5, <3>1, SaleConstants DEF PaidBy, Paid, Sold
  <2>3. CASE q = r
    <3>1. /\ owed'[q] = [owed[q] EXCEPT ![u] = @ + m.subtotal]
          /\ issued'[q] = [issued[q] EXCEPT ![u] = @ + m.subtotal]
          /\ returned'[q] = returned[q] /\ gross'[q] = gross[q] + m.subtotal
          /\ owed[q] \in [Users -> Nat] /\ issued[q] \in [Users -> Nat]
          /\ returned[q] \in [Users -> Nat] /\ gross[q] \in Nat
      BY <1>0, <1>5, <2>3 DEF MoneyOK, PerBuyer
    <3>2. \A v \in Users : owed'[q][v] + returned'[q][v] = issued'[q][v]
      BY <1>4, <2>1, <3>1
    <3>3. PaidBy(q, u)' # {}
      <4>1. PICK n : n \in nums
        BY <1>6
      <4>2. n \in Numbers /\ holder[r][n] = NoOne /\ holder'[r][n] = u
        BY <1>0, <1>6, <4>1 DEF Free, Sold, TicketsOK
      <4>3. n \notin reembolsado'[r]
        BY <1>5, <4>2 DEF MoneyInv, RefundedWereSold, Sold
      <4>4. n \in PaidBy(q, u)'
        BY <2>3, <4>2, <4>3, SaleConstants DEF PaidBy, Paid, Sold
      <4> QED
        BY <4>4
    <3>4. \A v \in Users : owed'[q][v] > 0 <=> PaidBy(q, v)' # {}
      <4>1. owed'[q][u] > 0
        BY <1>4, <3>1
      <4>2. ASSUME NEW v \in Users, v # u
            PROVE  owed'[q][v] > 0 <=> PaidBy(q, v)' # {}
        BY <2>1, <2>2, <3>1, <4>2
      <4> QED
        BY <3>3, <4>1, <4>2
    <3>5. gross'[q] = SumOf(owed'[q], Users)
      <4>1. /\ owed[q] \in [Users -> Int] /\ owed'[q] \in [Users -> Int]
            /\ owed'[q][u] = owed[q][u] + m.subtotal
            /\ \A x \in Users \ {u} : owed'[q][x] = owed[q][x]
        BY <1>4, <3>1
      <4>2. SumOf(owed'[q], Users) = SumOf(owed[q], Users) + m.subtotal
        BY <1>4, <3>1, <4>1, TableMove
      <4> QED
        BY <2>1, <3>1, <4>2
    <3> QED
      BY <3>2, <3>4, <3>5
  <2>4. CASE q # r
    <3>1. /\ owed'[q] = owed[q] /\ issued'[q] = issued[q]
          /\ returned'[q] = returned[q] /\ gross'[q] = gross[q]
      BY <1>0, <1>5, <2>4 DEF MoneyOK, PerBuyer
    <3> QED
      BY <2>1, <2>2, <2>4, <3>1
  <2> QED
    BY <2>3, <2>4
<1> QED
  BY <1>7, <1>8, <1>9 DEF MoneyInv
\* A refund keeps the books: what buyers get back is what the seller is debited.
LEMMA RefundKeepsBooks ==
    ASSUME TypeOK, TypeOK', MoneyInv, NEW c \in Crons, RefundTickets(c)
    PROVE  MoneyInv'
<1>0. MoneyOK /\ TicketsOK /\ JobsOK
  BY DEF TypeOK
<1>a. MoneyOK'
  BY DEF TypeOK
<1> DEFINE r == job[c].r
<1>1. r \in Raffles /\ SellerOf[r] \in Users
  BY <1>0, SaleConstants DEF JobsOK, Job, Workers
<1>2. CASE UNCHANGED <<balance, returned, payable, owed, gross, reembolsado>>
  <2>1. UNCHANGED <<holder, platform, issued>>
    BY DEF RefundTickets
  <2> QED
    BY <1>2, <2>1 DEF MoneyInv, MoneyConserved, RefundsMatchTickets, RefundedWereSold,
                      PaidBy, Paid, Sold
<1>3. CASE /\ balance'     = [u \in Users |-> balance[u] + owed[r][u]]
           /\ returned'    = [returned EXCEPT ![r] = [u \in Users |-> @[u] + owed[r][u]]]
           /\ payable'     = [payable EXCEPT ![SellerOf[r]] = @ - gross[r]]
           /\ owed'        = [owed EXCEPT ![r] = [u \in Users |-> 0]]
           /\ gross'       = [gross EXCEPT ![r] = 0]
           /\ reembolsado' = [reembolsado EXCEPT ![r] = Sold(r)]
  <2>1. UNCHANGED <<holder, platform, issued>>
    BY DEF RefundTickets
  <2> HIDE DEF r
  <2>2. /\ owed[r] \in [Users -> Nat] /\ gross[r] \in Nat
        /\ gross[r] = SumOf(owed[r], Users)
    BY <1>0, <1>1 DEF MoneyOK, PerBuyer, MoneyInv, RefundsMatchTickets
  <2>3. MoneyConserved'
    <3>1. SumOf(balance', Users) = SumOf(balance, Users) + SumOf(owed[r], Users)
      <4>1. \A u \in Users : /\ balance[u] \in Int /\ owed[r][u] \in Int
                             /\ balance'[u] = balance[u] + owed[r][u]
        BY <1>0, <1>3, <2>2 DEF MoneyOK
      <4> QED
        BY <4>1, SaleConstants, SumOfPlus
    <3>2. SumOf(payable', Users) = SumOf(payable, Users) + (-gross[r])
      <4>1. /\ payable \in [Users -> Int] /\ payable' \in [Users -> Int]
            /\ -gross[r] \in Int
        BY <1>0, <1>a, <2>2 DEF MoneyOK
      <4>2. /\ payable'[SellerOf[r]] = payable[SellerOf[r]] + (-gross[r])
            /\ \A x \in Users \ {SellerOf[r]} : payable'[x] = payable[x]
        BY <1>1, <1>3, <2>2, <4>1
      <4> QED
        BY <1>1, <4>1, <4>2, TableMove
    <3>3. /\ SumOf([v \in Users |-> balance[v] + payable[v]], Users)
               = SumOf(balance, Users) + SumOf(payable, Users)
          /\ SumOf(balance, Users) \in Int /\ SumOf(payable, Users) \in Int
      BY <1>0, WalletSum DEF MoneyOK
    <3>4. SumOf([v \in Users |-> balance'[v] + payable'[v]], Users)
            = SumOf(balance', Users) + SumOf(payable', Users)
      BY <1>a, WalletSum DEF MoneyOK
    <3>5. SumOf([v \in Users |-> balance'[v] + payable'[v]], Users)
            = SumOf([v \in Users |-> balance[v] + payable[v]], Users)
      BY <2>2, <3>1, <3>2, <3>3, <3>4
    <3> QED
      BY <2>1, <3>5 DEF MoneyInv, MoneyConserved
  <2>4. RefundedWereSold'
    BY <1>0, <1>1, <1>3, <2>1 DEF MoneyInv, RefundedWereSold, Sold, TicketsOK
  <2>5. RefundsMatchTickets'
    <3> SUFFICES ASSUME NEW q \in Raffles
                 PROVE  /\ \A v \in Users :
                              owed'[q][v] + returned'[q][v] = issued'[q][v]
                        /\ \A v \in Users : owed'[q][v] > 0 <=> PaidBy(q, v)' # {}
                        /\ gross'[q] = SumOf(owed'[q], Users)
      BY DEF RefundsMatchTickets
    <3>1. /\ \A v \in Users : owed[q][v] + returned[q][v] = issued[q][v]
          /\ \A v \in Users : owed[q][v] > 0 <=> PaidBy(q, v) # {}
          /\ gross[q] = SumOf(owed[q], Users)
      BY DEF MoneyInv, RefundsMatchTickets
    <3>2. CASE q = r
      <4>1. /\ owed'[q] = [u \in Users |-> 0] /\ gross'[q] = 0
            /\ returned'[q] = [u \in Users |-> returned[q][u] + owed[q][u]]
            /\ owed[q] \in [Users -> Nat] /\ returned[q] \in [Users -> Nat]
        BY <1>0, <1>3, <3>2 DEF MoneyOK, PerBuyer
      <4>2. \A v \in Users : owed'[q][v] + returned'[q][v] = issued'[q][v]
        BY <2>1, <3>1, <4>1
      <4>3. \A v \in Users : PaidBy(q, v)' = {}
        BY <1>0, <1>3, <2>1, <3>2 DEF PaidBy, Paid, Sold, TicketsOK
      <4>4. SumOf(owed'[q], Users) = 0
        <5>1. \A u \in Users : owed'[q][u] = 0
          BY <4>1
        <5>2. SumOf(owed'[q], Users) = Cardinality(Users) * 0
          BY <5>1, SaleConstants, SumOfConstant
        <5> QED
          BY <5>2, SaleConstants, FS_CardinalityType
      <4> QED
        BY <4>1, <4>2, <4>3, <4>4
    <3>3. CASE q # r
      <4>1. /\ owed'[q] = owed[q] /\ gross'[q] = gross[q]
            /\ returned'[q] = returned[q] /\ reembolsado'[q] = reembolsado[q]
        BY <1>0, <1>3, <3>3 DEF MoneyOK, PerBuyer, TicketsOK
      <4>2. \A v \in Users : PaidBy(q, v)' = PaidBy(q, v)
        BY <2>1, <4>1 DEF PaidBy, Paid, Sold
      <4> QED
        BY <2>1, <3>1, <4>1, <4>2
    <3> QED
      BY <3>2, <3>3
  <2> QED
    BY <2>3, <2>4, <2>5 DEF MoneyInv
<1> QED
  BY <1>2, <1>3 DEF RefundTickets

\* Only purchases and refunds touch money or tickets.
LEMMA OtherStepsKeepBooks ==
    ASSUME [Next]_vars,
           \A h \in Handlers, u \in Users, r \in Raffles : ~BuyTickets(h, u, r),
           \A c \in Crons : ~RefundTickets(c)
    PROVE  UNCHANGED <<ticketVars, moneyVars>>
<1>1. ASSUME NEW w \in Workers, DrawStep(w) \/ Abort(w)
      PROVE  UNCHANGED <<ticketVars, moneyVars>>
  BY <1>1 DEF DrawStep, CheckRaffleCompletion, MarkCompleted, PickWinningTicket,
              DrawTransaction, CreatePayout, Abort
<1>2. ASSUME NEW c \in Crons, CronStep(c) PROVE UNCHANGED <<ticketVars, moneyVars>>
  BY <1>2 DEF CronStep, ListExpiredRaffles, NextExpiredRaffle, CancelExpiredRaffle
<1>3. ASSUME NEW h \in Handlers, FinishUpdate(h)
      PROVE  UNCHANGED <<ticketVars, moneyVars>>
  BY <1>3 DEF FinishUpdate, CancelRaffle, ExtendRaffleDeadline, UpdatePrice,
              RejectRaffleWinner
<1>4. ASSUME NEW h \in Handlers, NEW r \in Raffles, StartOperation(h, r)
      PROVE  UNCHANGED <<ticketVars, moneyVars>>
  BY <1>4 DEF StartOperation, StartCancel, StartExtend, StartUpdatePrice, StartReject,
              StartUpdate
<1>5. ASSUME NEW r \in Raffles, DeadlinePasses(r) \/ SetHidden(r)
      PROVE  UNCHANGED <<ticketVars, moneyVars>>
  BY <1>5 DEF DeadlinePasses, SetHidden
<1>6. CASE UNCHANGED vars
  BY <1>6 DEF vars
<1> QED
  BY <1>1, <1>2, <1>3, <1>4, <1>5, <1>6 DEF Next

\* Before the first sale nobody is owed anything.
LEMMA BooksAtStart == Init => MoneyInv
<1> SUFFICES ASSUME Init PROVE MoneyInv
  OBVIOUS
<1>1. MoneyConserved
  <2> DEFINE h == [u \in Users |-> balance[u] + payable[u]]
             c == InitBalance + InitPayable
  <2>1. (\A u \in Users : h[u] = c) /\ c \in Int
    BY SaleConstants DEF Init
  <2> HIDE DEF h, c
  <2>2. SumOf(h, Users) = Cardinality(Users) * c
    BY <2>1, SaleConstants, SumOfConstant
  <2>3. Cardinality(Users) * c \in Int
    BY <2>1, SaleConstants, FS_CardinalityType
  <2>4. platform = 0
    BY DEF Init
  <2>5. SumOf(h, Users) + platform = Cardinality(Users) * c
    BY <2>2, <2>3, <2>4
  <2> QED
    BY <2>5 DEF MoneyConserved, h, c
<1>2. RefundedWereSold
  BY DEF Init, RefundedWereSold
<1>3. RefundsMatchTickets
  <2> SUFFICES ASSUME NEW r \in Raffles
               PROVE  /\ \A u \in Users : owed[r][u] + returned[r][u] = issued[r][u]
                      /\ \A u \in Users : owed[r][u] > 0 <=> PaidBy(r, u) # {}
                      /\ gross[r] = SumOf(owed[r], Users)
    BY DEF RefundsMatchTickets
  <2>1. \A u \in Users : owed[r][u] = 0 /\ returned[r][u] = 0 /\ issued[r][u] = 0
    BY DEF Init
  <2>2. \A u \in Users : PaidBy(r, u) = {}
    BY SaleConstants DEF Init, PaidBy, Paid, Sold
  <2>3. SumOf(owed[r], Users) = Cardinality(Users) * 0
    BY <2>1, SaleConstants, SumOfConstant
  <2>4. SumOf(owed[r], Users) = 0 /\ gross[r] = 0
    BY <2>3, SaleConstants, FS_CardinalityType DEF Init
  <2> QED
    BY <2>1, <2>2, <2>4
<1> QED
  BY <1>1, <1>2, <1>3 DEF MoneyInv

\* The books stay right through every step.
LEMMA BooksTheorem == Spec => []MoneyInv
<1>1. TypeOK /\ TypeOK' /\ MoneyInv /\ [Next]_vars => MoneyInv'
  <2> SUFFICES ASSUME TypeOK, TypeOK', MoneyInv, [Next]_vars PROVE MoneyInv'
    OBVIOUS
  <2>1. CASE \E h \in Handlers, u \in Users, r \in Raffles : BuyTickets(h, u, r)
    BY <2>1, BuyKeepsBooks
  <2>2. CASE \E c \in Crons : RefundTickets(c)
    BY <2>2, RefundKeepsBooks
  <2>3. CASE UNCHANGED <<ticketVars, moneyVars>>
    BY <2>3 DEF ticketVars, moneyVars, MoneyInv, MoneyConserved, RefundsMatchTickets,
                RefundedWereSold, PaidBy, Paid, Sold
  <2> QED
    BY <2>1, <2>2, <2>3, OtherStepsKeepBooks
<1> QED
  BY <1>1, BooksAtStart, TypeCorrect, PTL DEF Spec

\* Money is neither made nor lost, whatever purchases, packs, premiums,
\* subsidies, racing refunds and crashes happen, in any order.
THEOREM ConservationTheorem == Spec => []MoneyConserved
<1>1. MoneyInv => MoneyConserved
  BY DEF MoneyInv
<1> QED
  BY <1>1, BooksTheorem, PTL

\* Every ticket is refunded at most once and no refund is lost.
THEOREM RefundsTheorem == Spec => []RefundsMatchTickets
<1>1. MoneyInv => RefundsMatchTickets
  BY DEF MoneyInv
<1> QED
  BY <1>1, BooksTheorem, PTL

-----------------------------------------------------------------------------
(* The panels.  Each figure is computed from its own rows; what ties them    *)
(* together is that receipts share out the sold numbers, and that tables are *)
(* counted by raffle, by seller or by buyer with the same result.            *)

\* A raffle that is settled has its winner: a rejection clears both at once.
SettledHasWinner == \A r \in Raffles : estado[r] = "SORTEADA" => winner[r] # NoOne

\* Every sold number is on one receipt, of its buyer.
ReceiptsShareNumbers ==
    /\ IsFiniteSet(receipts) /\ receipts \subseteq Receipt
    /\ \A x \in receipts : /\ x.numbers # {}
                           /\ \A n \in x.numbers : holder[x.r][n] = x.buyer
    /\ \A r \in Raffles, n \in Numbers : holder[r][n] # NoOne =>
          \E x \in receipts : x.r = r /\ n \in x.numbers
    /\ \A x, y \in receipts : x.r = y.r /\ x.numbers \cap y.numbers # {} => x = y

\* The receipts of a buyer add up to what the tables of the books hold.
SumOfCharged(u)    == SumOf([r \in Raffles |-> charged[r][u]], Raffles)
SumOfIssued(u)     == SumOf([r \in Raffles |-> issued[r][u]], Raffles)
ReceiptsCharged(u) == SumOf([x \in listReceipts(u) |-> x.charged], listReceipts(u))
ReceiptsGross(u)   == SumOf([x \in listReceipts(u) |-> x.gross], listReceipts(u))

ReceiptsAddUp ==
    /\ \A u \in Users : /\ ReceiptsCharged(u) = SumOfCharged(u)
                        /\ ReceiptsGross(u) = SumOfIssued(u)
    /\ \A r \in Raffles, u \in Users : charged[r][u] = 0 => owed[r][u] = 0

ReceiptsInv == ReceiptsShareNumbers /\ ReceiptsAddUp

\* A purchase, as the receipts see it: some free numbers, all of the buyer, a
\* charge, and the same value in both tables.
LEMMA PurchaseStep ==
    ASSUME TypeOK, NEW h \in Handlers, NEW u \in Users, NEW r \in Raffles,
           BuyTickets(h, u, r)
    PROVE  \E nums \in SUBSET Free(r), charge \in Nat, value \in Nat :
              /\ nums # {} /\ charge > 0 /\ value > 0
              /\ holder' = [holder EXCEPT ![r] =
                              [n \in Numbers |-> IF n \in nums THEN u ELSE @[n]]]
              /\ charged' = [charged EXCEPT ![r][u] = @ + charge]
              /\ issued'  = [issued EXCEPT ![r][u] = @ + value]
              /\ owed'    = [owed EXCEPT ![r][u] = @ + value]
<1>1. PICK mode \in {"RANDOM", "CHOOSE_NUMBERS"}, quantity \in 1 .. Total,
           discount \in Discounts : PurchaseTickets(u, r, mode, quantity, discount)
  BY DEF BuyTickets
<1> DEFINE bonus == evaluateSimpleRandomPack(mode, quantity, Cardinality(Free(r)),
                                             RemainingAllowed(r, u))
           m     == Purchase(r, mode, quantity, bonus, discount)
<1>2. quantity \in Nat /\ quantity > 0 /\ discount \in Nat
  BY MaxAllowedType, SaleConstants
<1>3. bonus \in Nat
  BY <1>2, BonusType
<1>4. m.subtotal \in Nat /\ m.subtotal > 0 /\ m.charge \in Int
  <2> HIDE DEF bonus
  <2>1. price \in [Raffles -> Prices]
    BY DEF TypeOK, RafflesOK
  <2> QED
    BY <1>2, <1>3, <2>1, PurchaseType, PurchaseBalances
<1>5. /\ m.charge > 0
      /\ charged'  = [charged EXCEPT ![r][u] = @ + m.charge]
      /\ issued'   = [issued EXCEPT ![r][u] = @ + m.subtotal]
      /\ owed'     = [owed EXCEPT ![r][u] = @ + m.subtotal]
  BY <1>1 DEF PurchaseTickets
<1>6. PICK nums \in kSubset(quantity + bonus, Free(r)) :
          holder' = [holder EXCEPT ![r] =
                       [n \in Numbers |-> IF n \in nums THEN u ELSE @[n]]]
  BY <1>1 DEF PurchaseTickets
<1>7. nums \subseteq Free(r) /\ Cardinality(nums) = quantity + bonus
  BY <1>6 DEF kSubset
<1> HIDE DEF m, bonus
<1>8. nums # {}
  BY <1>2, <1>3, <1>7, FS_EmptySet
<1>9. m.charge \in Nat
  BY <1>4, <1>5
<1> QED
  BY <1>4, <1>5, <1>6, <1>7, <1>8, <1>9

\* The receipt that a purchase writes.
LEMMA ReceiptWritten ==
    ASSUME TypeOK, NEW u \in Users, NEW r \in Raffles, NEW nums \in SUBSET Free(r),
           nums # {}, NEW charge \in Nat, NEW value \in Nat,
           holder' = [holder EXCEPT ![r] =
                         [n \in Numbers |-> IF n \in nums THEN u ELSE @[n]]],
           charged' = [charged EXCEPT ![r][u] = @ + charge],
           issued'  = [issued EXCEPT ![r][u] = @ + value]
    PROVE  /\ {s \in Raffles : holder'[s] # holder[s]} = {r}
           /\ receiptOf(r) = [buyer |-> u, r |-> r, numbers |-> nums,
                              gross |-> value, charged |-> charge]
<1>1. /\ \A n \in nums : n \in Numbers /\ holder[r][n] = NoOne
      /\ u # NoOne
  BY SaleConstants DEF Free, Sold
<1>2. /\ \A n \in Numbers : holder'[r][n] = IF n \in nums THEN u ELSE holder[r][n]
      /\ \A s \in Raffles \ {r} : holder'[s] = holder[s]
  BY DEF TypeOK, TicketsOK
<1>3. {n \in Numbers : holder'[r][n] # holder[r][n]} = nums
  BY <1>1, <1>2
<1>4. {s \in Raffles : holder'[s] # holder[s]} = {r}
  BY <1>2, <1>3
<1>5. holder'[r][CHOOSE n \in nums : TRUE] = u
  BY <1>1, <1>2
<1>6. issued'[r][u] - issued[r][u] = value /\ charged'[r][u] - charged[r][u] = charge
  BY DEF TypeOK, MoneyOK, PerBuyer
<1> QED
  BY <1>3, <1>4, <1>5, <1>6 DEF receiptOf

\* A purchase keeps what the receipts say.
LEMMA PurchaseKeepsReceipts ==
    ASSUME TypeOK, ReceiptsInv, SaleStep,
           NEW h \in Handlers, NEW u \in Users, NEW r \in Raffles, BuyTickets(h, u, r)
    PROVE  ReceiptsInv'
<1>1. PICK nums \in SUBSET Free(r), charge \in Nat, value \in Nat :
              /\ nums # {} /\ charge > 0
              /\ holder' = [holder EXCEPT ![r] =
                              [n \in Numbers |-> IF n \in nums THEN u ELSE @[n]]]
              /\ charged' = [charged EXCEPT ![r][u] = @ + charge]
              /\ issued'  = [issued EXCEPT ![r][u] = @ + value]
              /\ owed'    = [owed EXCEPT ![r][u] = @ + value]
  BY PurchaseStep
<1> DEFINE new == [buyer |-> u, r |-> r, numbers |-> nums,
                   gross |-> value, charged |-> charge]
<1>2. receipts' = receipts \cup {new}
  <2>1. /\ {s \in Raffles : holder'[s] # holder[s]} = {r}
        /\ receiptOf(r) = new
    BY <1>1, ReceiptWritten
  <2> HIDE DEF new
  <2> QED
    BY <2>1 DEF SaleStep
<1>3. /\ \A n \in nums : n \in Numbers /\ holder[r][n] = NoOne
      /\ u # NoOne
  BY SaleConstants DEF Free, Sold
<1>4. /\ \A n \in Numbers : holder'[r][n] = IF n \in nums THEN u ELSE holder[r][n]
      /\ \A s \in Raffles \ {r} : holder'[s] = holder[s]
  BY <1>1 DEF TypeOK, TicketsOK
<1>5. \A x \in receipts : x.buyer # NoOne /\ x.r \in Raffles /\ x.numbers \subseteq Numbers
  BY SaleConstants DEF ReceiptsInv, ReceiptsShareNumbers, Receipt
<1>6. \A x \in receipts : x.r = r => x.numbers \cap nums = {}
  BY <1>3, <1>5 DEF ReceiptsInv, ReceiptsShareNumbers
<1>7. new \in Receipt /\ new \notin receipts
  <2>1. nums \subseteq Numbers
    BY <1>3
  <2>2. new \in Receipt
    BY <2>1 DEF Receipt
  <2> QED
    BY <1>1, <1>6, <2>2
<1>8. /\ new.buyer = u /\ new.r = r /\ new.numbers = nums
      /\ new.gross = value /\ new.charged = charge
  OBVIOUS
<1> HIDE DEF new
<1>9. ReceiptsShareNumbers'
  <2>1. IsFiniteSet(receipts') /\ receipts' \subseteq Receipt
    BY <1>2, <1>7, FS_AddElement DEF ReceiptsInv, ReceiptsShareNumbers
  <2>2. \A x \in receipts' : x.numbers # {} /\ \A n \in x.numbers : holder'[x.r][n] = x.buyer
    BY <1>1, <1>2, <1>3, <1>4, <1>5, <1>6, <1>8 DEF ReceiptsInv, ReceiptsShareNumbers
  <2>3. ASSUME NEW s \in Raffles, NEW n \in Numbers, holder'[s][n] # NoOne
        PROVE  \E x \in receipts' : x.r = s /\ n \in x.numbers
    <3>1. CASE s = r /\ n \in nums
      BY <1>2, <1>8, <3>1
    <3>2. CASE ~(s = r /\ n \in nums)
      <4>1. holder[s][n] # NoOne
        BY <1>4, <2>3, <3>2
      <4> QED
        BY <1>2, <4>1 DEF ReceiptsInv, ReceiptsShareNumbers
    <3> QED
      BY <3>1, <3>2
  <2>4. \A x, y \in receipts' : x.r = y.r /\ x.numbers \cap y.numbers # {} => x = y
    BY <1>2, <1>6, <1>8 DEF ReceiptsInv, ReceiptsShareNumbers
  <2> QED
    BY <2>1, <2>2, <2>3, <2>4 DEF ReceiptsShareNumbers
<1>10. ASSUME NEW v \in Users
       PROVE  /\ ReceiptsCharged(v)' = SumOfCharged(v)'
              /\ ReceiptsGross(v)' = SumOfIssued(v)'
  <2>1. ReceiptsCharged(v) = SumOfCharged(v) /\ ReceiptsGross(v) = SumOfIssued(v)
    BY DEF ReceiptsInv, ReceiptsAddUp
  <2>2. CASE v # u
    <3>1. listReceipts(v)' = listReceipts(v)
      BY <1>2, <1>8, <2>2 DEF listReceipts
    <3>2. \A s \in Raffles : charged'[s][v] = charged[s][v] /\ issued'[s][v] = issued[s][v]
      BY <1>1, <2>2 DEF TypeOK, MoneyOK, PerBuyer
    <3>3. /\ [s \in Raffles |-> charged'[s][v]] = [s \in Raffles |-> charged[s][v]]
          /\ [s \in Raffles |-> issued'[s][v]] = [s \in Raffles |-> issued[s][v]]
      BY <3>2
    <3> QED
      BY <2>1, <3>1, <3>3 DEF ReceiptsCharged, ReceiptsGross, SumOfCharged, SumOfIssued
  <2>3. CASE v = u
    <3> DEFINE L == listReceipts(u)
    <3>1. /\ listReceipts(u)' = L \cup {new} /\ new \notin L
          /\ IsFiniteSet(L) /\ \A x \in L : x.charged \in Nat /\ x.gross \in Nat
      <4>1. L \subseteq receipts /\ IsFiniteSet(L)
        BY FS_Subset DEF listReceipts, ReceiptsInv, ReceiptsShareNumbers
      <4>2. \A x \in L : x.charged \in Nat /\ x.gross \in Nat
        BY <4>1 DEF Receipt, ReceiptsInv, ReceiptsShareNumbers
      <4> QED
        BY <1>2, <1>7, <1>8, <4>1, <4>2 DEF listReceipts
    <3> HIDE DEF L
    <3> DEFINE M == L \cup {new}
    <3>2. ReceiptsCharged(u)' = ReceiptsCharged(u) + charge
      <4> DEFINE f == [x \in L |-> x.charged]
                 g == [x \in M |-> x.charged]
      <4>1. (\A x \in L : f[x] \in Int /\ g[x] = f[x]) /\ g[new] = charge
        BY <1>8, <3>1
      <4>2. ReceiptsCharged(u) = SumOf(f, L) /\ ReceiptsCharged(u)' = SumOf(g, M)
        BY <3>1 DEF ReceiptsCharged, L
      <4> HIDE DEF f, g
      <4>3. SumOf(g, L \cup {new}) = SumOf(f, L) + g[new]
        <5>1. IsFiniteSet(L) /\ new \notin L
          BY <3>1
        <5>2. (\A x \in L : f[x] \in Int /\ g[x] = f[x]) /\ g[new] \in Int
          BY <4>1
        <5> QED
          BY <5>1, <5>2, SumOfAdd
      <4> QED
        BY <4>1, <4>2, <4>3
    <3>3. ReceiptsGross(u)' = ReceiptsGross(u) + value
      <4> DEFINE f == [x \in L |-> x.gross]
                 g == [x \in M |-> x.gross]
      <4>1. (\A x \in L : f[x] \in Int /\ g[x] = f[x]) /\ g[new] = value
        BY <1>8, <3>1
      <4>2. ReceiptsGross(u) = SumOf(f, L) /\ ReceiptsGross(u)' = SumOf(g, M)
        BY <3>1 DEF ReceiptsGross, L
      <4> HIDE DEF f, g
      <4>3. SumOf(g, L \cup {new}) = SumOf(f, L) + g[new]
        <5>1. IsFiniteSet(L) /\ new \notin L
          BY <3>1
        <5>2. (\A x \in L : f[x] \in Int /\ g[x] = f[x]) /\ g[new] \in Int
          BY <4>1
        <5> QED
          BY <5>1, <5>2, SumOfAdd
      <4> QED
        BY <4>1, <4>2, <4>3
    <3>4. SumOfCharged(u)' = SumOfCharged(u) + charge
      <4> DEFINE f == [s \in Raffles |-> charged[s][u]]
                 g == [s \in Raffles |-> charged'[s][u]]
      <4>1. /\ \A s \in Raffles : f[s] \in Int /\ g[s] \in Int
            /\ \A s \in Raffles \ {r} : g[s] = f[s]
            /\ g[r] = f[r] + charge
        BY <1>1 DEF TypeOK, MoneyOK, PerBuyer
      <4> HIDE DEF f, g
      <4>2. SumOf(g, Raffles) = SumOf(f, Raffles) - f[r] + g[r]
        <5>1. \A s \in Raffles : f[s] \in Int /\ g[s] \in Int
          BY <4>1
        <5>2. \A s \in Raffles \ {r} : g[s] = f[s]
          BY <4>1
        <5> QED
          BY <5>1, <5>2, PanelConstants, SumOfUpdate
      <4>3. SumOf(f, Raffles) \in Int
        BY <4>1, PanelConstants, SumOfType
      <4>4. SumOf(g, Raffles) = SumOf(f, Raffles) + charge
        BY <4>1, <4>2, <4>3
      <4> QED
        BY <4>4 DEF f, g, SumOfCharged
    <3>5. SumOfIssued(u)' = SumOfIssued(u) + value
      <4> DEFINE f == [s \in Raffles |-> issued[s][u]]
                 g == [s \in Raffles |-> issued'[s][u]]
      <4>1. /\ \A s \in Raffles : f[s] \in Int /\ g[s] \in Int
            /\ \A s \in Raffles \ {r} : g[s] = f[s]
            /\ g[r] = f[r] + value
        BY <1>1 DEF TypeOK, MoneyOK, PerBuyer
      <4> HIDE DEF f, g
      <4>2. SumOf(g, Raffles) = SumOf(f, Raffles) - f[r] + g[r]
        <5>1. \A s \in Raffles : f[s] \in Int /\ g[s] \in Int
          BY <4>1
        <5>2. \A s \in Raffles \ {r} : g[s] = f[s]
          BY <4>1
        <5> QED
          BY <5>1, <5>2, PanelConstants, SumOfUpdate
      <4>3. SumOf(f, Raffles) \in Int
        BY <4>1, PanelConstants, SumOfType
      <4>4. SumOf(g, Raffles) = SumOf(f, Raffles) + value
        BY <4>1, <4>2, <4>3
      <4> QED
        BY <4>4 DEF f, g, SumOfIssued
    <3> QED
      BY <2>1, <2>3, <3>2, <3>3, <3>4, <3>5
  <2> QED
    BY <2>2, <2>3
<1>11. \A s \in Raffles, v \in Users : charged'[s][v] = 0 => owed'[s][v] = 0
  BY <1>1 DEF TypeOK, MoneyOK, PerBuyer, ReceiptsInv, ReceiptsAddUp
<1> QED
  BY <1>9, <1>10, <1>11 DEF ReceiptsInv, ReceiptsAddUp

\* Refunds and the other steps sell nothing: no receipt is written, and what is
\* owed only goes down, to nothing.
LEMMA OtherStepsKeepReceipts ==
    ASSUME TypeOK, ReceiptsInv, UNCHANGED <<holder, receipts, charged, issued>>,
           \A r \in Raffles, u \in Users : owed'[r][u] \in {owed[r][u], 0}
    PROVE  ReceiptsInv'
<1>1. ReceiptsShareNumbers'
  BY DEF ReceiptsInv, ReceiptsShareNumbers
<1>2. \A u \in Users : /\ ReceiptsCharged(u)' = SumOfCharged(u)'
                       /\ ReceiptsGross(u)' = SumOfIssued(u)'
  BY DEF ReceiptsInv, ReceiptsAddUp, ReceiptsCharged, ReceiptsGross, SumOfCharged, SumOfIssued,
         listReceipts
<1>3. \A r \in Raffles, u \in Users : charged'[r][u] = 0 => owed'[r][u] = 0
  BY DEF ReceiptsInv, ReceiptsAddUp
<1> QED
  BY <1>1, <1>2, <1>3 DEF ReceiptsInv, ReceiptsAddUp

\* The receipts stay right through every step.
LEMMA ReceiptsStep ==
    ASSUME TypeOK, ReceiptsInv, [SaleStep]_PanelVars PROVE ReceiptsInv'
<1> USE DEF ticketVars, moneyVars
<1>1. CASE UNCHANGED PanelVars
  BY <1>1, OtherStepsKeepReceipts DEF PanelVars, vars
<1>2. CASE SaleStep /\ \E h \in Handlers, u \in Users, r \in Raffles : BuyTickets(h, u, r)
  BY <1>2, PurchaseKeepsReceipts
<1>3. ASSUME SaleStep, UNCHANGED holder PROVE UNCHANGED receipts
  <2>1. {r \in Raffles : holder'[r] # holder[r]} = {}
    BY <1>3
  <2> QED
    BY <1>3, <2>1 DEF SaleStep
<1>4. ASSUME SaleStep, NEW c \in Crons, RefundTickets(c) PROVE ReceiptsInv'
  <2>1. UNCHANGED <<holder, charged, issued>>
    BY <1>4 DEF RefundTickets
  <2>2. \A r \in Raffles, u \in Users : owed'[r][u] \in {owed[r][u], 0}
    <3>1. owed \in [Raffles -> [Users -> Nat]]
      BY DEF TypeOK, MoneyOK, PerBuyer
    <3>2. \/ owed' = owed
          \/ owed' = [owed EXCEPT ![job[c].r] = [u \in Users |-> 0]]
      BY <1>4 DEF RefundTickets
    <3> QED
      BY <3>1, <3>2
  <2> QED
    BY <1>3, <1>4, <2>1, <2>2, OtherStepsKeepReceipts
<1>5. CASE SaleStep /\ UNCHANGED <<ticketVars, moneyVars>>
  BY <1>3, <1>5, OtherStepsKeepReceipts
<1> QED
  BY <1>1, <1>2, <1>4, <1>5, OtherStepsKeepBooks DEF SaleStep

\* Before the first sale there are no receipts.
LEMMA NoReceiptsAtStart ==
    ASSUME PanelsInit PROVE SettledHasWinner /\ ReceiptsInv
<1>1. receipts = {} /\ \A u \in Users : listReceipts(u) = {}
  BY DEF PanelsInit, listReceipts
<1>2. ReceiptsShareNumbers
  BY <1>1, FS_EmptySet DEF PanelsInit, Init, ReceiptsShareNumbers
<1>3. ASSUME NEW u \in Users
      PROVE  ReceiptsCharged(u) = SumOfCharged(u) /\ ReceiptsGross(u) = SumOfIssued(u)
  <2>1. ASSUME NEW f, \A r \in Raffles : f[r] = 0 PROVE SumOf(f, Raffles) = 0
    <3>1. SumOf(f, Raffles) = Cardinality(Raffles) * 0
      BY <2>1, PanelConstants, SumOfConstant
    <3> QED
      BY <3>1, PanelConstants, FS_CardinalityType
  <2>2. SumOfCharged(u) = 0
    <3> DEFINE f == [r \in Raffles |-> charged[r][u]]
    <3>1. \A r \in Raffles : f[r] = 0
      BY DEF PanelsInit, Init
    <3> HIDE DEF f
    <3> QED
      BY <2>1, <3>1 DEF f, SumOfCharged
  <2>3. SumOfIssued(u) = 0
    <3> DEFINE f == [r \in Raffles |-> issued[r][u]]
    <3>1. \A r \in Raffles : f[r] = 0
      BY DEF PanelsInit, Init
    <3> HIDE DEF f
    <3> QED
      BY <2>1, <3>1 DEF f, SumOfIssued
  <2>4. ReceiptsCharged(u) = 0 /\ ReceiptsGross(u) = 0
    BY <1>1, SumOfEmpty DEF ReceiptsCharged, ReceiptsGross
  <2> QED
    BY <2>2, <2>3, <2>4
<1>4. \A r \in Raffles, u \in Users : owed[r][u] = 0
  BY DEF PanelsInit, Init
<1>5. SettledHasWinner
  BY DEF PanelsInit, Init, SettledHasWinner
<1> QED
  BY <1>2, <1>3, <1>4, <1>5 DEF ReceiptsInv, ReceiptsAddUp

\* No step leaves a settled raffle without its winner.
LEMMA WinnerStep ==
    ASSUME TypeOK, SettledHasWinner, [Next]_vars PROVE SettledHasWinner'
<1>1. DrawChange
  BY StepChangesDraw
<1> QED
  BY <1>1 DEF DrawChange, SettledHasWinner, TypeOK, RafflesOK

\* What the panels rely on.
PanelsInv == TypeOK /\ MoneyInv /\ DrawInv /\ SettledHasWinner /\ ReceiptsInv

LEMMA PanelsInvariant == PanelsSpec => []PanelsInv
<1>1. PanelsInit => SettledHasWinner /\ ReceiptsInv
  BY NoReceiptsAtStart
<1>2. TypeOK /\ SettledHasWinner /\ ReceiptsInv /\ [SaleStep]_PanelVars
        => SettledHasWinner' /\ ReceiptsInv'
  BY ReceiptsStep, WinnerStep DEF SaleStep, PanelVars
<1>3. PanelsInit => Init
  BY DEF PanelsInit
<1>4. [SaleStep]_PanelVars => [Next]_vars
  BY DEF SaleStep, PanelVars
<1>5. Spec => []DrawInv
  <2>1. Init => DrawInv
    BY SaleConstants DEF Init, DrawInv, WinnerMatchesDraw, DrawnIsSold
  <2>2. TypeOK /\ DrawInv /\ [Next]_vars => DrawInv'
    BY DrawStepKeepsInv
  <2> QED
    BY <2>1, <2>2, TypeCorrect, PTL DEF Spec
<1> QED
  BY <1>1, <1>2, <1>3, <1>4, <1>5, TypeCorrect, BooksTheorem, PTL
     DEF PanelsSpec, Spec, PanelsInv

-----------------------------------------------------------------------------
(* Tickets are counted by raffle, by seller and by buyer. *)

\* The numbers of a raffle as rows of the table of tickets.
LEMMA RowsOfRaffle ==
    ASSUME NEW r, NEW N, IsFiniteSet(N)
    PROVE  IsFiniteSet({r} \X N) /\ Cardinality({r} \X N) = Cardinality(N)
<1>1. IsFiniteSet({r}) /\ Cardinality({r}) = 1
  BY FS_Singleton
<1>2. IsFiniteSet({r} \X N) /\ Cardinality({r} \X N) = Cardinality({r}) * Cardinality(N)
  BY <1>1, FS_Product
<1> QED
  BY <1>1, <1>2, FS_CardinalityType

\* The PAGADO tickets, those of a seller's raffles, and those of a buyer.
PaidTickets    == {t \in Raffles \X Numbers : t[2] \in Paid(t[1])}
PaidToSeller(v) == {t \in PaidTickets : SellerOf[t[1]] = v}
PaidByBuyer(u) == {t \in PaidTickets : holder[t[1]][t[2]] = u}

\* The tables of tickets and of raffles are finite.
LEMMA TablesFinite ==
    /\ IsFiniteSet(Raffles \X Numbers) /\ IsFiniteSet(PaidTickets)
    /\ \A v : IsFiniteSet(PaidToSeller(v)) /\ IsFiniteSet(RafflesOf(v))
    /\ \A r \in Raffles : IsFiniteSet(Paid(r))
<1>1. IsFiniteSet(Raffles \X Numbers)
  BY SaleConstants, PanelConstants, FS_Product
<1>2. IsFiniteSet(PaidTickets)
  <2>1. PaidTickets \subseteq Raffles \X Numbers
    BY DEF PaidTickets
  <2> QED
    BY <1>1, <2>1, FS_Subset
<1>3. ASSUME NEW v PROVE IsFiniteSet(PaidToSeller(v)) /\ IsFiniteSet(RafflesOf(v))
  <2>1. PaidToSeller(v) \subseteq PaidTickets /\ RafflesOf(v) \subseteq Raffles
    BY DEF PaidToSeller, RafflesOf
  <2> QED
    BY <1>2, <2>1, PanelConstants, FS_Subset
<1>4. ASSUME NEW r \in Raffles PROVE IsFiniteSet(Paid(r))
  <2>1. Paid(r) \subseteq Numbers
    BY DEF Paid, Sold
  <2> QED
    BY <2>1, SaleConstants, FS_Subset
<1> QED
  BY <1>1, <1>2, <1>3, <1>4

\* A seller's PAGADO tickets are counted raffle by raffle.
LEMMA SellerCount ==
    ASSUME NEW v \in Users
    PROVE  Cardinality(PaidToSeller(v))
             = SumOf([r \in RafflesOf(v) |-> Cardinality(Paid(r))], RafflesOf(v))
<1> DEFINE S == PaidToSeller(v)
           R == RafflesOf(v)
           g == [t \in S |-> t[1]]
           f == [r \in R |-> Cardinality({t \in S : g[t] = r})]
           h == [r \in R |-> Cardinality(Paid(r))]
<1>1. IsFiniteSet(S) /\ IsFiniteSet(R) /\ \A t \in S : g[t] \in R
  BY TablesFinite DEF PaidToSeller, PaidTickets, RafflesOf
<1>2. ASSUME NEW r \in R PROVE f[r] = h[r]
  <2>1. r \in Raffles /\ IsFiniteSet(Paid(r)) /\ Paid(r) \subseteq Numbers
    BY TablesFinite DEF RafflesOf, Paid, Sold
  <2>2. {t \in S : g[t] = r} = {r} \X Paid(r)
    <3>1. \A t \in S : g[t] = r <=> t[1] = r
      OBVIOUS
    <3>2. \A t \in S : t[1] = r => t \in {r} \X Paid(r)
      BY DEF PaidToSeller, PaidTickets
    <3>3. \A t \in {r} \X Paid(r) : t \in S /\ t[1] = r
      BY <2>1 DEF PaidToSeller, PaidTickets, RafflesOf
    <3> QED
      BY <3>1, <3>2, <3>3
  <2> QED
    BY <2>1, <2>2, RowsOfRaffle
<1>3. Cardinality(S) = SumOf(f, R)
  <2> HIDE DEF S, R, g
  <2> QED
    BY <1>1, CardinalityByClass
<1> HIDE DEF f, h, S, R, g
<1>4. SumOf(f, R) = SumOf(h, R)
  BY <1>1, <1>2, SumOfSame
<1> QED
  BY <1>3, <1>4 DEF S, R, h

\* All PAGADO tickets, by seller and by buyer.
LEMMA SellersAndBuyersCount ==
    ASSUME TypeOK
    PROVE  /\ Cardinality(PaidTickets)
                = SumOf([v \in Users |-> Cardinality(PaidToSeller(v))], Users)
           /\ Cardinality(PaidTickets)
                = SumOf([u \in Users |-> Cardinality(PaidByBuyer(u))], Users)
<1> DEFINE S == PaidTickets
<1>1. IsFiniteSet(S) /\ IsFiniteSet(Users)
  BY TablesFinite, SaleConstants
<1>2. Cardinality(S) = SumOf([v \in Users |-> Cardinality(PaidToSeller(v))], Users)
  <2> DEFINE g == [t \in S |-> SellerOf[t[1]]]
  <2>1. \A t \in S : g[t] \in Users
    BY SaleConstants DEF PaidTickets
  <2>2. ASSUME NEW v PROVE {t \in S : g[t] = v} = PaidToSeller(v)
    BY DEF PaidToSeller
  <2> HIDE DEF S, g
  <2>3. Cardinality(S) = SumOf([v \in Users |-> Cardinality({t \in S : g[t] = v})], Users)
    BY <1>1, <2>1, CardinalityByClass
  <2>4. [v \in Users |-> Cardinality({t \in S : g[t] = v})]
          = [v \in Users |-> Cardinality(PaidToSeller(v))]
    BY <2>2
  <2> QED
    BY <2>3, <2>4
<1>3. Cardinality(S) = SumOf([u \in Users |-> Cardinality(PaidByBuyer(u))], Users)
  <2> DEFINE g == [t \in S |-> holder[t[1]][t[2]]]
  <2>1. \A t \in S : g[t] \in Users
    BY DEF PaidTickets, Paid, Sold, TypeOK, TicketsOK
  <2>2. ASSUME NEW u PROVE {t \in S : g[t] = u} = PaidByBuyer(u)
    BY DEF PaidByBuyer
  <2> HIDE DEF S, g
  <2>3. Cardinality(S) = SumOf([u \in Users |-> Cardinality({t \in S : g[t] = u})], Users)
    BY <1>1, <2>1, CardinalityByClass
  <2>4. [u \in Users |-> Cardinality({t \in S : g[t] = u})]
          = [u \in Users |-> Cardinality(PaidByBuyer(u))]
    BY <2>2
  <2> QED
    BY <2>3, <2>4
<1> QED
  BY <1>2, <1>3

\* The PAGADO tickets of a raffle, by buyer.
LEMMA RaffleCount ==
    ASSUME TypeOK, NEW r \in Raffles
    PROVE  Cardinality(Paid(r)) = SumOf([u \in Users |-> Cardinality(PaidBy(r, u))], Users)
<1> DEFINE S == Paid(r)
           g == [n \in S |-> holder[r][n]]
<1>1. IsFiniteSet(S) /\ IsFiniteSet(Users) /\ \A n \in S : g[n] \in Users
  BY TablesFinite, SaleConstants DEF Paid, Sold, TypeOK, TicketsOK
<1>2. ASSUME NEW u PROVE {n \in S : g[n] = u} = PaidBy(r, u)
  BY DEF PaidBy
<1> HIDE DEF S, g
<1>3. Cardinality(S) = SumOf([u \in Users |-> Cardinality({n \in S : g[n] = u})], Users)
  BY <1>1, CardinalityByClass
<1>4. [u \in Users |-> Cardinality({n \in S : g[n] = u})]
        = [u \in Users |-> Cardinality(PaidBy(r, u))]
  BY <1>2
<1> QED
  BY <1>3, <1>4 DEF S

\* What the buyer's page lists: all tickets, those that are PAGADO.
LEMMA TicketsListed ==
    ASSUME NEW u \in Users
    PROVE  /\ filteredTickets(u, "ALL", "ALL", FALSE)
                = {t \in Raffles \X Numbers : holder[t[1]][t[2]] = u}
           /\ filteredTickets(u, "PAGADO", "ALL", FALSE) = PaidByBuyer(u)
           /\ filteredTickets(u, "ALL", "ALL", FALSE)
                = UNION {filteredTickets(u, s, "ALL", FALSE) : s \in TicketStatus \ {"ALL"}}
<1>1. \A r, n : ticketEstado(r, n) = "PAGADO" <=> n \notin reembolsado[r]
  BY DEF ticketEstado
<1>2. \A r, n : ticketEstado(r, n) \in {"PAGADO", "REEMBOLSADO"}
  BY DEF ticketEstado
<1>3. filteredTickets(u, "ALL", "ALL", FALSE)
        = {t \in Raffles \X Numbers : holder[t[1]][t[2]] = u}
  BY DEF filteredTickets
<1>4. filteredTickets(u, "PAGADO", "ALL", FALSE) = PaidByBuyer(u)
  BY <1>1, SaleConstants DEF filteredTickets, PaidByBuyer, PaidTickets, Paid, Sold
<1>5. ASSUME NEW s \in TicketStatus \ {"ALL"}
      PROVE  filteredTickets(u, s, "ALL", FALSE)
               = {t \in Raffles \X Numbers : holder[t[1]][t[2]] = u /\ ticketEstado(t[1], t[2]) = s}
  BY <1>5 DEF filteredTickets
<1>6. ASSUME NEW t \in Raffles \X Numbers, holder[t[1]][t[2]] = u
      PROVE  \E s \in TicketStatus \ {"ALL"} : t \in filteredTickets(u, s, "ALL", FALSE)
  <2>1. ticketEstado(t[1], t[2]) \in TicketStatus \ {"ALL"}
    BY <1>2 DEF TicketStatus
  <2> QED
    BY <1>5, <1>6, <2>1
<1>7. \A s \in TicketStatus \ {"ALL"} :
         filteredTickets(u, s, "ALL", FALSE) \subseteq filteredTickets(u, "ALL", "ALL", FALSE)
  BY <1>3, <1>5
<1>8. filteredTickets(u, "ALL", "ALL", FALSE)
        \subseteq UNION {filteredTickets(u, s, "ALL", FALSE) : s \in TicketStatus \ {"ALL"}}
  BY <1>3, <1>6
<1>9. UNION {filteredTickets(u, s, "ALL", FALSE) : s \in TicketStatus \ {"ALL"}}
        \subseteq filteredTickets(u, "ALL", "ALL", FALSE)
  BY <1>7
<1> QED
  BY <1>3, <1>4, <1>8, <1>9

\* A seller is told one revenue and one number of tickets.
LEMMA SellerAgrees ==
    ASSUME TypeOK, MoneyInv, NEW v \in Users
    PROVE  /\ getSellerDashboardStats(v).revenue = getMonthlyRevenue(v).revenue
           /\ getSellerDashboardStats(v).sold = getMonthlyRevenue(v).sold
           /\ getSellerDashboardStats(v).sold = Cardinality(PaidToSeller(v))
           /\ getSellerDashboardStats(v).sold = SumOver(RafflesOf(v), LAMBDA r : CSVRow(r).sold)
<1> DEFINE R == RafflesOf(v)
<1>1. IsFiniteSet(R) /\ R \subseteq Raffles
  BY TablesFinite DEF RafflesOf
<1>2. getSellerDashboardStats(v).revenue = getMonthlyRevenue(v).revenue
  <2> DEFINE f == [r \in R |-> gross[r]]
             h == [r \in R |-> SumOf([u \in Users |-> owed[r][u]], Users)]
  <2>1. \A r \in R : f[r] = h[r]
    <3> SUFFICES ASSUME NEW r \in R
                 PROVE  gross[r] = SumOf([u \in Users |-> owed[r][u]], Users)
      OBVIOUS
    <3>1. owed[r] \in [Users -> Nat] /\ gross[r] = SumOf(owed[r], Users)
      BY <1>1 DEF TypeOK, MoneyOK, PerBuyer, MoneyInv, RefundsMatchTickets
    <3>2. [u \in Users |-> owed[r][u]] = owed[r]
      BY <3>1
    <3> QED
      BY <3>1, <3>2
  <2>2. /\ getSellerDashboardStats(v).revenue = SumOf(f, R)
        /\ getMonthlyRevenue(v).revenue = SumOf(h, R)
    BY DEF getSellerDashboardStats, getMonthlyRevenue, SumOver
  <2> HIDE DEF f, h, R
  <2> QED
    BY <1>1, <2>1, <2>2, SumOfSame
<1>3. getSellerDashboardStats(v).sold = getMonthlyRevenue(v).sold
  <2> DEFINE f == [r \in R |-> Cardinality(Paid(r))]
             h == [r \in R |-> SumOf([u \in Users |-> Cardinality(PaidBy(r, u))], Users)]
  <2>1. \A r \in R : f[r] = h[r]
    BY <1>1, RaffleCount
  <2>2. /\ getSellerDashboardStats(v).sold = SumOf(f, R)
        /\ getMonthlyRevenue(v).sold = SumOf(h, R)
    BY DEF getSellerDashboardStats, getMonthlyRevenue, SumOver
  <2> HIDE DEF f, h, R
  <2> QED
    BY <1>1, <2>1, <2>2, SumOfSame
<1>4. getSellerDashboardStats(v).sold = Cardinality(PaidToSeller(v))
  BY SellerCount DEF getSellerDashboardStats, SumOver
<1>5. getSellerDashboardStats(v).sold = SumOver(RafflesOf(v), LAMBDA r : CSVRow(r).sold)
  BY DEF getSellerDashboardStats, SumOver, CSVRow
<1> QED
  BY <1>2, <1>3, <1>4, <1>5

\* A buyer's tickets are those of the buyer's receipts.
LEMMA TicketsOfReceipts ==
    ASSUME TypeOK, ReceiptsInv, NEW u \in Users
    PROVE  filteredTickets(u, "ALL", "ALL", FALSE)
             = UNION {{x.r} \X x.numbers : x \in listReceipts(u)}
<1> DEFINE F == filteredTickets(u, "ALL", "ALL", FALSE)
<1>1. \A t : t \in F <=> t \in Raffles \X Numbers /\ holder[t[1]][t[2]] = u
  BY TicketsListed
<1>2. ASSUME NEW t \in F PROVE \E x \in listReceipts(u) : t \in {x.r} \X x.numbers
  <2>1. /\ t \in Raffles \X Numbers /\ t[1] \in Raffles /\ t[2] \in Numbers
        /\ holder[t[1]][t[2]] = u /\ u # NoOne
    <3>1. t \in Raffles \X Numbers /\ holder[t[1]][t[2]] = u
      BY <1>1
    <3> HIDE DEF F
    <3> QED
      BY <3>1, SaleConstants
  <2>2. PICK x \in receipts : x.r = t[1] /\ t[2] \in x.numbers
    BY <2>1 DEF ReceiptsInv, ReceiptsShareNumbers
  <2>3. x.buyer = u
    BY <2>1, <2>2 DEF ReceiptsInv, ReceiptsShareNumbers
  <2> QED
    BY <2>1, <2>2, <2>3 DEF listReceipts
<1>3. ASSUME NEW x \in listReceipts(u), NEW t \in {x.r} \X x.numbers PROVE t \in F
  <2>1. /\ x \in receipts /\ x.buyer = u /\ x.r \in Raffles /\ x.numbers \subseteq Numbers
        /\ \A n \in x.numbers : holder[x.r][n] = u
    BY DEF listReceipts, ReceiptsInv, ReceiptsShareNumbers, Receipt
  <2>2. t \in Raffles \X Numbers /\ t[1] = x.r /\ t[2] \in x.numbers
    BY <2>1
  <2> QED
    BY <1>1, <2>1, <2>2
<1> HIDE DEF F
<1>4. F = UNION {{x.r} \X x.numbers : x \in listReceipts(u)}
  BY <1>2, <1>3
<1> QED
  BY <1>4 DEF F

\* They are counted receipt by receipt, because no ticket is on two.
LEMMA ReceiptsCount ==
    ASSUME TypeOK, ReceiptsInv, NEW u \in Users
    PROVE  SumOf([x \in listReceipts(u) |-> Cardinality(x.numbers)], listReceipts(u))
             = Cardinality(filteredTickets(u, "ALL", "ALL", FALSE))
<1> DEFINE F == filteredTickets(u, "ALL", "ALL", FALSE)
           L == listReceipts(u)
           of(t) == CHOOSE x \in L : t \in {x.r} \X x.numbers
           g == [t \in F |-> of(t)]
           f == [x \in L |-> Cardinality({t \in F : g[t] = x})]
           h == [x \in L |-> Cardinality(x.numbers)]
<1>1. /\ F = UNION {{x.r} \X x.numbers : x \in L}
      /\ F \subseteq Raffles \X Numbers
  BY TicketsOfReceipts, TicketsListed
<1>2. IsFiniteSet(F)
  BY <1>1, TablesFinite, FS_Subset
<1>3. L \subseteq receipts /\ IsFiniteSet(L)
  BY FS_Subset DEF listReceipts, ReceiptsInv, ReceiptsShareNumbers
<1>4. ASSUME NEW t \in F PROVE g[t] \in L /\ t \in {g[t].r} \X g[t].numbers
  <2>1. \E x \in L : t \in {x.r} \X x.numbers
    BY <1>1
  <2>2. of(t) \in L /\ t \in {of(t).r} \X of(t).numbers
    BY <2>1
  <2> HIDE DEF of, L, F
  <2> QED
    BY <2>2
<1>5. ASSUME NEW x \in L, NEW t \in {x.r} \X x.numbers PROVE t \in F /\ g[t] = x
  <2>1. t \in F
    BY <1>1
  <2> DEFINE y == g[t]
  <2>2. y \in L /\ t \in {y.r} \X y.numbers
    BY <1>4, <2>1
  <2> HIDE DEF y, g
  <2>3. x.r = y.r /\ t[2] \in x.numbers \cap y.numbers
    BY <2>2
  <2>4. x = y
    BY <1>3, <2>2, <2>3 DEF ReceiptsInv, ReceiptsShareNumbers
  <2> QED
    BY <2>1, <2>4 DEF y
<1>6. ASSUME NEW x \in L PROVE f[x] = h[x]
  <2> HIDE DEF g
  <2>1. {t \in F : g[t] = x} = {x.r} \X x.numbers
    BY <1>4, <1>5
  <2>2. IsFiniteSet(x.numbers)
    <3>1. x.numbers \subseteq Numbers
      BY <1>3 DEF Receipt, ReceiptsInv, ReceiptsShareNumbers
    <3> QED
      BY <3>1, SaleConstants, FS_Subset
  <2> QED
    BY <2>1, <2>2, RowsOfRaffle
<1>7. Cardinality(F) = SumOf(f, L)
  <2>1. \A t \in F : g[t] \in L
    BY <1>4
  <2> HIDE DEF F, L, g
  <2> QED
    BY <1>2, <1>3, <2>1, CardinalityByClass
<1> HIDE DEF f, h, L, F
<1>8. SumOf(f, L) = SumOf(h, L)
  BY <1>3, <1>6, SumOfSame
<1> QED
  BY <1>7, <1>8 DEF h, L, F

\* What a buyer is told to have spent is what the receipts charged.
LEMMA SpentIsCharged ==
    ASSUME TypeOK, ReceiptsInv, NEW u \in Users
    PROVE  getBuyerStats(u).spent = ReceiptsCharged(u)
<1> DEFINE f == [r \in Raffles |-> charged[r][u]]
           h == [r \in Raffles |-> owed[r][u]]
<1>1. \A r \in Raffles : f[r] \in Nat /\ h[r] \in Nat /\ (f[r] = 0 => h[r] = 0)
  BY DEF TypeOK, MoneyOK, PerBuyer, ReceiptsInv, ReceiptsAddUp
<1>2. getBuyerStats(u).spent = IF SumOf(f, Raffles) # 0 THEN SumOf(f, Raffles)
                                                        ELSE SumOf(h, Raffles)
  BY DEF getBuyerStats, SumOver
<1>3. ReceiptsCharged(u) = SumOf(f, Raffles)
  BY DEF ReceiptsInv, ReceiptsAddUp, SumOfCharged
<1> HIDE DEF f, h
<1>4. ASSUME SumOf(f, Raffles) = 0 PROVE SumOf(h, Raffles) = 0
  <2>1. \A r \in Raffles : h[r] = 0
    BY <1>1, <1>4, PanelConstants, SumOfZero
  <2>2. SumOf(h, Raffles) = Cardinality(Raffles) * 0
    BY <2>1, PanelConstants, SumOfConstant
  <2> QED
    BY <2>2, PanelConstants, FS_CardinalityType
<1> QED
  BY <1>2, <1>3, <1>4

\* What a buyer won is among the buyer's cards, and on a receipt.
LEMMA PrizesAreShown ==
    ASSUME TypeOK, DrawInv, ReceiptsInv, NEW u \in Users
    PROVE  /\ DOMAIN groupedTickets(filteredTickets(u, "ALL", "ALL", TRUE))
                = {r \in Raffles : winner[r] = u}
           /\ \A r \in Raffles : winner[r] = u =>
                  \E x \in listReceipts(u) : drawResult[r] \in x.numbers
<1>1. ASSUME NEW r \in Raffles, winner[r] = u
      PROVE  drawResult[r] \in Numbers /\ holder[r][drawResult[r]] = u /\ u # NoOne
  BY <1>1, SaleConstants DEF DrawInv, WinnerMatchesDraw, DrawnIsSold
<1>2. filteredTickets(u, "ALL", "ALL", TRUE)
        = {t \in Raffles \X Numbers : holder[t[1]][t[2]] = u /\ winner[t[1]] = u}
  BY DEF filteredTickets
<1>3. DOMAIN groupedTickets(filteredTickets(u, "ALL", "ALL", TRUE))
        = {t[1] : t \in filteredTickets(u, "ALL", "ALL", TRUE)}
  BY DEF groupedTickets
<1>4. \A r \in Raffles : winner[r] = u =>
          <<r, drawResult[r]>> \in filteredTickets(u, "ALL", "ALL", TRUE)
  BY <1>1, <1>2
<1>5. {t[1] : t \in filteredTickets(u, "ALL", "ALL", TRUE)} = {r \in Raffles : winner[r] = u}
  <2> DEFINE W == filteredTickets(u, "ALL", "ALL", TRUE)
  <2>1. \A t \in W : t[1] \in Raffles /\ winner[t[1]] = u
    BY <1>2
  <2>2. ASSUME NEW r \in Raffles, winner[r] = u PROVE r \in {t[1] : t \in W}
    <3>1. <<r, drawResult[r]>> \in W /\ <<r, drawResult[r]>>[1] = r
      BY <1>4, <2>2
    <3> HIDE DEF W
    <3> QED
      BY <3>1
  <2> HIDE DEF W
  <2>3. {t[1] : t \in W} = {r \in Raffles : winner[r] = u}
    BY <2>1, <2>2
  <2> QED
    BY <2>3 DEF W
<1>6. ASSUME NEW r \in Raffles, winner[r] = u
      PROVE  \E x \in listReceipts(u) : drawResult[r] \in x.numbers
  BY <1>1, <1>6 DEF ReceiptsInv, ReceiptsShareNumbers, listReceipts
<1> QED
  BY <1>3, <1>5, <1>6

\* The sellers are told of the tickets that the buyers are told of.
LEMMA SoldIsPurchased ==
    ASSUME TypeOK, MoneyInv
    PROVE  SumOver(Users, LAMBDA v : SellerPanel(v).stats.sold)
             = SumOver(Users, LAMBDA u : BuyerPanel(u).stats.purchased)
<1>1. \A v \in Users : SellerPanel(v).stats.sold = Cardinality(PaidToSeller(v))
  BY SellerAgrees DEF SellerPanel
<1>2. \A u \in Users : BuyerPanel(u).stats.purchased = Cardinality(PaidByBuyer(u))
  BY TicketsListed DEF BuyerPanel, getBuyerStats
<1>3. /\ [v \in Users |-> SellerPanel(v).stats.sold]
           = [v \in Users |-> Cardinality(PaidToSeller(v))]
      /\ [u \in Users |-> BuyerPanel(u).stats.purchased]
           = [u \in Users |-> Cardinality(PaidByBuyer(u))]
  BY <1>1, <1>2
<1> QED
  BY <1>3, SellersAndBuyersCount DEF SumOver

\* What sellers and buyers are told agrees with the tickets, the receipts and
\* the draw, between any purchases, refunds, draws, rejections and crashes.
THEOREM PanelsTheorem == PanelsSpec => []PanelsAgree
<1>1. PanelsInv => PanelsAgree
  <2> SUFFICES ASSUME PanelsInv PROVE PanelsAgree
    OBVIOUS
  <2> USE DEF PanelsInv
  <2>1. ASSUME NEW v \in Users
        PROVE  LET p == SellerPanel(v) IN
               /\ p.stats.revenue = p.chart.revenue /\ p.stats.sold = p.chart.sold
               /\ p.stats.sold = SumOver(RafflesOf(v), LAMBDA r : CSVRow(r).sold)
               /\ p.stats.active = activeRafflesForSelection(v)
               /\ \A r \in p.stats.completed : SaleCard(r).ship /\ SaleCard(r).winner # NoOne
    <3>1. getSellerDashboardStats(v).active = activeRafflesForSelection(v)
      BY DEF getSellerDashboardStats, activeRafflesForSelection
    <3>2. \A r \in getSellerDashboardStats(v).completed :
             SaleCard(r).ship /\ SaleCard(r).winner # NoOne
      BY DEF getSellerDashboardStats, RafflesOf, SaleCard, SettledHasWinner
    <3> QED
      BY <3>1, <3>2, SellerAgrees DEF SellerPanel
  <2>2. ASSUME NEW u \in Users
        PROVE  LET p == BuyerPanel(u) IN
               /\ p.stats.spent = SumOver(p.receipts, LAMBDA x : ReceiptRow(x).charged)
               /\ SumOver(p.receipts, LAMBDA x : ReceiptRow(x).granted)
                    = Cardinality(filteredTickets(u, "ALL", "ALL", FALSE))
               /\ SumOver(p.receipts, LAMBDA x : ReceiptPage(x).gross)
                    = SumOver(Raffles, LAMBDA r : issued[r][u])
               /\ filteredTickets(u, "ALL", "ALL", FALSE)
                    = UNION {{x.r} \X ReceiptPage(x).numbers : x \in p.receipts}
               /\ filteredTickets(u, "ALL", "ALL", FALSE)
                    = UNION {filteredTickets(u, s, "ALL", FALSE) : s \in TicketStatus \ {"ALL"}}
               /\ DOMAIN groupedTickets(filteredTickets(u, "ALL", "ALL", TRUE)) = p.stats.won
               /\ \A r \in p.stats.won : \E x \in p.receipts : drawResult[r] \in x.numbers
    <3>1. BuyerPanel(u).receipts = listReceipts(u) /\ BuyerPanel(u).stats = getBuyerStats(u)
      BY DEF BuyerPanel
    <3>2. getBuyerStats(u).won = {r \in Raffles : winner[r] = u}
      BY DEF getBuyerStats
    <3>3. getBuyerStats(u).spent
            = SumOver(listReceipts(u), LAMBDA x : ReceiptRow(x).charged)
      BY SpentIsCharged DEF SumOver, ReceiptRow, ReceiptsCharged
    <3>4. SumOver(listReceipts(u), LAMBDA x : ReceiptRow(x).granted)
            = Cardinality(filteredTickets(u, "ALL", "ALL", FALSE))
      BY ReceiptsCount DEF SumOver, ReceiptRow
    <3>5. SumOver(listReceipts(u), LAMBDA x : ReceiptPage(x).gross)
            = SumOver(Raffles, LAMBDA r : issued[r][u])
      BY DEF SumOver, ReceiptPage, ReceiptsInv, ReceiptsAddUp, ReceiptsGross, SumOfIssued
    <3>6. filteredTickets(u, "ALL", "ALL", FALSE)
            = UNION {{x.r} \X ReceiptPage(x).numbers : x \in listReceipts(u)}
      BY TicketsOfReceipts DEF ReceiptPage
    <3> QED
      BY <3>1, <3>2, <3>3, <3>4, <3>5, <3>6, TicketsListed, PrizesAreShown
  <2> QED
    BY <2>1, <2>2, SoldIsPurchased DEF PanelsAgree
<1> QED
  BY <1>1, PanelsInvariant, PTL

-----------------------------------------------------------------------------
(* The promise.  A sale, a refund, the draw and the withdrawal of a prize are *)
(* one step each of a handler or a cron; every other step is silent.          *)

\* A purchase is a sale of the promise: nothing is sold while a prize stands,
\* because whatever sets a winner closes the raffle.
LEMMA PurchaseIsSale ==
    ASSUME TypeOK, LimitRespected', DrawnRaffleIsClosed,
           NEW h \in Handlers, NEW u \in Users, NEW r \in Raffles, BuyTickets(h, u, r)
    PROVE  Promise!Sell(r, u)
<1>1. PICK nums \in SUBSET Free(r), charge \in Nat, value \in Nat :
              /\ nums # {} /\ charge > 0 /\ value > 0
              /\ holder' = [holder EXCEPT ![r] =
                              [n \in Numbers |-> IF n \in nums THEN u ELSE @[n]]]
              /\ charged' = [charged EXCEPT ![r][u] = @ + charge]
              /\ issued'  = [issued EXCEPT ![r][u] = @ + value]
              /\ owed'    = [owed EXCEPT ![r][u] = @ + value]
  BY PurchaseStep
<1>2. /\ winner[r] = NoOne /\ u # SellerOf[r]
      /\ UNCHANGED <<reembolsado, drawResult, winner, returned>>
  BY DEF BuyTickets, DrawnRaffleIsClosed, raffleVars
<1>3. /\ nums \in SUBSET (Numbers \ Promise!SoldNumbers(r)) /\ nums # {}
      /\ holder' = [holder EXCEPT ![r] =
                      [n \in Numbers |-> IF n \in nums THEN u ELSE @[n]]]
  BY <1>1 DEF Free, Sold, Promise!SoldNumbers
<1>4. Promise!Held(r, u)' \in HalfOfNumbers
  <2>1. Promise!Held(r, u)' = PaidBy(r, u)'
    BY SaleConstants DEF Promise!Held, PaidBy, Paid, Sold
  <2>2. PaidBy(r, u)' \subseteq Numbers
    BY DEF PaidBy, Paid, Sold
  <2> QED
    BY <2>1, <2>2 DEF LimitRespected, HalfOfNumbers
<1>5. /\ issued' = [issued EXCEPT ![r][u] = issued'[r][u]]
      /\ issued'[r][u] > issued[r][u]
  <2>1. issued \in [Raffles -> [Users -> Nat]] /\ issued[r][u] \in Nat
    BY DEF TypeOK, MoneyOK, PerBuyer
  <2> DEFINE grown == issued[r][u] + value
  <2>2. issued' = [issued EXCEPT ![r][u] = grown] /\ grown > issued[r][u]
    BY <1>1, <2>1
  <2> HIDE DEF grown
  <2>3. issued'[r][u] = grown
    BY <2>1, <2>2
  <2> QED
    BY <2>2, <2>3
<1> QED
  BY <1>2, <1>3, <1>4, <1>5 DEF Promise!Sell

\* refundTickets either fails as a whole or returns all that every buyer is owed,
\* which is then, by the books, all that the buyer's numbers were worth.
LEMMA RefundIsRefund ==
    ASSUME TypeOK, RefundsMatchTickets, NEW c \in Crons, RefundTickets(c)
    PROVE  Promise!Refund(job[c].r) \/ UNCHANGED Promise!promised
<1> DEFINE r == job[c].r
<1>1. r \in Raffles
  BY DEF TypeOK, JobsOK, Job, Workers
<1>2. UNCHANGED <<holder, drawResult, winner, issued>>
  BY DEF RefundTickets, raffleVars
<1>3. CASE /\ returned'    = [returned EXCEPT ![r] = [u \in Users |-> @[u] + owed[r][u]]]
           /\ reembolsado' = [reembolsado EXCEPT ![r] = Sold(r)]
  <2> HIDE DEF r
  <2>1. /\ returned[r] \in [Users -> Nat] /\ owed[r] \in [Users -> Nat]
        /\ issued[r] \in [Users -> Nat] /\ returned \in [Raffles -> [Users -> Nat]]
    BY <1>1 DEF TypeOK, MoneyOK, PerBuyer
  <2>2. \A u \in Users : returned[r][u] + owed[r][u] = issued[r][u]
    BY <1>1, <2>1 DEF RefundsMatchTickets
  <2>3. [u \in Users |-> returned[r][u] + owed[r][u]] = issued[r]
    BY <2>1, <2>2
  <2>4. returned' = [returned EXCEPT ![r] = issued[r]]
    BY <1>3, <2>3
  <2> QED
    BY <1>2, <1>3, <2>4 DEF Promise!Refund, Promise!SoldNumbers, Sold, r
<1>4. CASE UNCHANGED <<returned, reembolsado>>
  BY <1>2, <1>4 DEF Promise!promised
<1> QED
  BY <1>3, <1>4 DEF RefundTickets

\* Of the other steps only the draw and the rejection of a winner can be seen.
LEMMA SilentSteps ==
    ASSUME [Next]_vars,
           \A h \in Handlers, u \in Users, r \in Raffles : ~BuyTickets(h, u, r),
           \A c \in Crons : ~RefundTickets(c),
           \A w \in Workers : ~DrawTransaction(w),
           \A h \in Handlers : ~RejectRaffleWinner(h)
    PROVE  UNCHANGED <<drawResult, winner>>
<1> USE DEF raffleVars
<1>1. ASSUME NEW w \in Workers, DrawStep(w) \/ Abort(w) PROVE UNCHANGED <<drawResult, winner>>
  BY <1>1 DEF DrawStep, CheckRaffleCompletion, MarkCompleted, PickWinningTicket,
              CreatePayout, Abort
<1>2. ASSUME NEW c \in Crons, CronStep(c) PROVE UNCHANGED <<drawResult, winner>>
  BY <1>2 DEF CronStep, ListExpiredRaffles, NextExpiredRaffle, CancelExpiredRaffle
<1>3. ASSUME NEW h \in Handlers, FinishUpdate(h) PROVE UNCHANGED <<drawResult, winner>>
  BY <1>3 DEF FinishUpdate, CancelRaffle, ExtendRaffleDeadline, UpdatePrice
<1>4. ASSUME NEW h \in Handlers, NEW r \in Raffles, StartOperation(h, r)
      PROVE  UNCHANGED <<drawResult, winner>>
  BY <1>4 DEF StartOperation, StartCancel, StartExtend, StartUpdatePrice, StartReject,
              StartUpdate
<1>5. ASSUME NEW r \in Raffles, DeadlinePasses(r) \/ SetHidden(r)
      PROVE  UNCHANGED <<drawResult, winner>>
  BY <1>5 DEF DeadlinePasses, SetHidden
<1>6. CASE UNCHANGED vars
  BY <1>6 DEF vars
<1> QED
  BY <1>1, <1>2, <1>3, <1>4, <1>5, <1>6 DEF Next

\* Every step of the sale is a step of the promise, or nothing it tells of.
LEMMA SaleSimulation ==
    ASSUME TypeOK, LimitRespected', DrawnRaffleIsClosed, RefundsMatchTickets, [Next]_vars
    PROVE  [Promise!Next]_(Promise!promised)
<1> USE DEF raffleVars, ticketVars, moneyVars
<1>a. \A w \in Workers : job[w].r \in Raffles
  BY DEF TypeOK, JobsOK, Job
<1>1. ASSUME NEW h \in Handlers, NEW u \in Users, NEW r \in Raffles, BuyTickets(h, u, r)
      PROVE  Promise!Next
  BY <1>1, PurchaseIsSale DEF Promise!Next
<1>2. ASSUME NEW c \in Crons, RefundTickets(c)
      PROVE  Promise!Next \/ UNCHANGED Promise!promised
  BY <1>2, <1>a, RefundIsRefund DEF Promise!Next, Workers
<1>3. ASSUME NEW w \in Workers, DrawTransaction(w)
      PROVE  Promise!Next \/ UNCHANGED Promise!promised
  <2> DEFINE r == job[w].r
  <2>1. job[w].n \in Promise!SoldNumbers(r)
    BY <1>3 DEF TypeOK, JobsOK, DrawTransaction, Sold, Promise!SoldNumbers
  <2>2. UNCHANGED <<holder, reembolsado, issued, returned>>
    BY <1>3 DEF DrawTransaction
  <2>3. CASE /\ drawResult[r] = NoOne
             /\ drawResult' = [drawResult EXCEPT ![r] = job[w].n]
             /\ winner'     = [winner EXCEPT ![r] = holder[r][job[w].n]]
    <3>1. Promise!Draw(r)
      BY <2>1, <2>2, <2>3 DEF Promise!Draw
    <3> QED
      BY <1>a, <3>1 DEF Promise!Next
  <2>4. CASE UNCHANGED <<drawResult, winner>>
    BY <2>2, <2>4 DEF Promise!promised
  <2> QED
    BY <1>3, <2>3, <2>4 DEF DrawTransaction
<1>4. ASSUME NEW h \in Handlers, RejectRaffleWinner(h)
      PROVE  Promise!Next \/ UNCHANGED Promise!promised
  <2> DEFINE r == job[h].r
  <2>1. /\ winner' = [winner EXCEPT ![r] = NoOne] /\ winner \in [Raffles -> Users \cup {NoOne}]
        /\ UNCHANGED <<holder, reembolsado, drawResult, issued, returned>>
    BY <1>4 DEF RejectRaffleWinner, TypeOK, RafflesOK
  <2>2. CASE winner[r] # NoOne
    <3>1. Promise!Withdraw(r)
      BY <2>1, <2>2 DEF Promise!Withdraw
    <3> QED
      BY <1>a, <3>1 DEF Promise!Next, Workers
  <2>3. CASE winner[r] = NoOne
    BY <2>1, <2>3 DEF Promise!promised
  <2> QED
    BY <2>2, <2>3
<1>5. CASE /\ \A h \in Handlers, u \in Users, r \in Raffles : ~BuyTickets(h, u, r)
           /\ \A c \in Crons : ~RefundTickets(c)
           /\ \A w \in Workers : ~DrawTransaction(w)
           /\ \A h \in Handlers : ~RejectRaffleWinner(h)
  <2>1. UNCHANGED <<ticketVars, moneyVars>>
    BY <1>5, OtherStepsKeepBooks
  <2>2. UNCHANGED <<drawResult, winner>>
    BY <1>5, SilentSteps
  <2> QED
    BY <2>1, <2>2 DEF Promise!promised
<1> QED
  BY <1>1, <1>2, <1>3, <1>4, <1>5

\* The sale implements its promise, for any number of raffles, numbers, users and
\* workers and whatever dies in between: a sold number has one buyer for good, the
\* half of the numbers is a limit, a refund is complete and at once, and one draw
\* is stored, after which nothing is sold while its prize stands.
THEOREM SalePromiseTheorem == Spec => KeepsSalePromise
<1>1. Init => Promise!Init
  BY DEF Init, Promise!Init
<1>2. TypeOK /\ LimitRespected' /\ DrawnRaffleIsClosed /\ RefundsMatchTickets /\ [Next]_vars
        => [Promise!Next]_(Promise!promised)
  BY SaleSimulation
<1> QED
  BY <1>1, <1>2, TypeCorrect, LimitTheorem, ClosedTheorem, RefundsTheorem, PTL
     DEF Spec, KeepsSalePromise, Promise!Spec, Promise!promised

=============================================================================
