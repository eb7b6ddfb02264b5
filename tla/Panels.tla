------------------------------- MODULE Panels -------------------------------
(***************************************************************************)
(* What buyers and sellers are told of the sales that RaffleSale describes: *)
(* the purchase receipts                                                   *)
(* (ticket-purchase-receipts.service.ts), and the figures that the panels  *)
(* of the seller (dashboard/sales) and of the buyer (dashboard/tickets)    *)
(* show, each computed on its own from tickets, transactions or receipts   *)
(* (raffles.service.ts: getSellerDashboardStats, getBuyerStats).           *)
(***************************************************************************)
EXTENDS RaffleSale

\* Raffles are rows of a table.
ASSUME PanelConstants == IsFiniteSet(Raffles)

VARIABLES
    receipts    \* TicketPurchaseReceipt rows

PanelVars == <<vars, receipts>>

\* A receipt is told from the others by its numbers; refunds do not touch it.
\* Its acknowledgement, which nothing else reads, is left out.
Receipt == [buyer : Users, r : Raffles, numbers : SUBSET Numbers,
            gross : Nat, charged : Nat]

\* The receipt that the purchase transaction writes for the tickets of r.
receiptOf(r) ==
    LET numbers == {n \in Numbers : holder'[r][n] # holder[r][n]}
        u == holder'[r][CHOOSE n \in numbers : TRUE]
    IN  [buyer |-> u, r |-> r, numbers |-> numbers,
         gross |-> issued'[r][u] - issued[r][u],
         charged |-> charged'[r][u] - charged[r][u]]

SaleStep ==
    /\ Next
    /\ receipts' = receipts \cup {receiptOf(r) : r \in {s \in Raffles : holder'[s] # holder[s]}}

-----------------------------------------------------------------------------
(* Receipts *)

\* listReceipts of a buyer.
listReceipts(u) == {x \in receipts : x.buyer = u}

\* The receipt page, and the dialog after a purchase, show the numbers and what
\* was charged.
ReceiptPage(x) == [numbers |-> x.numbers, gross |-> x.gross, charged |-> x.charged]

\* A row of the buyer's list of receipts.
ReceiptRow(x) == [charged |-> x.charged, granted |-> Cardinality(x.numbers)]

PanelsInit == Init /\ receipts = {}
PanelsSpec == PanelsInit /\ [][SaleStep]_PanelVars

-----------------------------------------------------------------------------
(* The seller's panel *)

SumOver(S, f(_)) == SumOf([x \in S |-> f(x)], S)
RafflesOf(v) == {r \in Raffles : SellerOf[r] = v}

\* Mutant: the tickets are read whatever their estado is.
MutSellerStats(v) ==
    [revenue   |-> SumOver(RafflesOf(v), LAMBDA r : SumOver(Users, LAMBDA u : issued[r][u])),
     sold      |-> SumOver(RafflesOf(v), LAMBDA r : Cardinality(Sold(r))),
     active    |-> {r \in RafflesOf(v) : estado[r] = "ACTIVA"},
     completed |-> {r \in RafflesOf(v) : estado[r] = "SORTEADA"}]

\* From the PAGADO tickets of the seller's raffles; a full raffle that waits for
\* its draw, COMPLETADA, is counted neither as active nor as completed.
getSellerDashboardStats(v) ==
    [revenue   |-> SumOver(RafflesOf(v), LAMBDA r : gross[r]),
     sold      |-> SumOver(RafflesOf(v), LAMBDA r : Cardinality(Paid(r))),
     active    |-> {r \in RafflesOf(v) : estado[r] = "ACTIVA"},
     completed |-> {r \in RafflesOf(v) : estado[r] = "SORTEADA"}]

\* Every sale of a behaviour lies in the twelve months of the chart.
getMonthlyRevenue(v) ==
    [revenue |-> SumOver(RafflesOf(v), LAMBDA r : SumOver(Users, LAMBDA u : owed[r][u])),
     sold    |-> SumOver(RafflesOf(v), LAMBDA r : SumOver(Users, LAMBDA u : Cardinality(PaidBy(r, u))))]

\* The figures above the list and the bars of the chart.
SellerPanel(v) == [stats |-> getSellerDashboardStats(v), chart |-> getMonthlyRevenue(v)]

\* A row of the list, or of the exported CSV, takes the tickets at the price
\* that the raffle has now, those of a pack included.
CSVRow(r) == [sold |-> Cardinality(Paid(r)), revenue |-> Cardinality(Paid(r)) * price[r]]

\* The card of a raffle in the list.
SaleCard(r) == [row |-> CSVRow(r), winner |-> winner[r], number |-> drawResult[r],
                edit |-> estado[r] = "ACTIVA", select |-> estado[r] = "ACTIVA",
                ship |-> estado[r] = "SORTEADA"]

\* The selection for the bulk operations: the handlers refuse what has changed
\* since.
activeRafflesForSelection(v) == {r \in RafflesOf(v) : estado[r] = "ACTIVA"}

-----------------------------------------------------------------------------
(* The buyer's panel *)

\* The choices of the filter panel; a purchase leaves no RESERVADO ticket, and
\* COMPLETADA is not offered.
TicketStatus == {"ALL", "PAGADO", "RESERVADO", "REEMBOLSADO"}
RaffleStatus == {"ALL", "ACTIVA", "SORTEADA", "FINALIZADA", "CANCELADA"}

ticketEstado(r, n) == IF n \in reembolsado[r] THEN "REEMBOLSADO" ELSE "PAGADO"

\* The tickets of a buyer that pass the filters (that of the dates left out).
filteredTickets(u, ticketStatus, raffleStatus, winsOnly) ==
    {t \in Raffles \X Numbers :
        /\ holder[t[1]][t[2]] = u
        /\ ticketStatus \in {"ALL", ticketEstado(t[1], t[2])}
        /\ raffleStatus \in {"ALL", estado[t[1]]}
        /\ winsOnly => winner[t[1]] = u}

\* One card for each raffle of the tickets that pass.
groupedTickets(tickets) == [r \in {t[1] : t \in tickets} |-> {t[2] : t \in {s \in tickets : s[1] = r}}]

\* totalSpent comes from the transactions, which refunds leave as they are.
getBuyerStats(u) ==
    LET paid  == filteredTickets(u, "PAGADO", "ALL", FALSE)
        spent == SumOver(Raffles, LAMBDA r : charged[r][u])
    IN  [purchased |-> Cardinality(paid),
         won       |-> {r \in Raffles : winner[r] = u},
         spent     |-> IF spent # 0 THEN spent ELSE SumOver(Raffles, LAMBDA r : owed[r][u]),
         active    |-> Cardinality({t \in paid : estado[t[1]] = "ACTIVA"}),
         rafflesIn |-> Cardinality({t[1] : t \in paid})]

BuyerPanel(u) == [stats |-> getBuyerStats(u), receipts |-> listReceipts(u)]

-----------------------------------------------------------------------------
(* Properties *)

\* What the panels tell is one story, although each figure is computed from its
\* own rows, at every moment between purchases, refunds, draws and crashes: the
\* tickets and the money that sellers are told of are those that buyers hold,
\* the chart agrees with the total above it, and what a buyer is told to have
\* spent, and the tickets paid or refunded, are those of the buyer's receipts.
\* What a seller is asked to ship has a winner, and every raffle a buyer is told
\* to have won is among the buyer's cards.
PanelsAgree ==
    /\ \A v \in Users :
          LET p == SellerPanel(v) IN
          /\ p.stats.revenue = p.chart.revenue /\ p.stats.sold = p.chart.sold
          /\ p.stats.sold = SumOver(RafflesOf(v), LAMBDA r : CSVRow(r).sold)
          /\ p.stats.active = activeRafflesForSelection(v)
          /\ \A r \in p.stats.completed : SaleCard(r).ship /\ SaleCard(r).winner # NoOne
    /\ SumOver(Users, LAMBDA v : SellerPanel(v).stats.sold)
         = SumOver(Users, LAMBDA u : BuyerPanel(u).stats.purchased)
    /\ \A u \in Users :
          LET p == BuyerPanel(u) IN
          /\ p.stats.spent = SumOver(p.receipts, LAMBDA x : ReceiptRow(x).charged)
          /\ SumOver(p.receipts, LAMBDA x : ReceiptRow(x).granted)
               = Cardinality(filteredTickets(u, "ALL", "ALL", FALSE))
          /\ SumOver(p.receipts, LAMBDA x : ReceiptPage(x).gross)
               = SumOver(Raffles, LAMBDA r : issued[r][u])
          /\ filteredTickets(u, "ALL", "ALL", FALSE)
               = UNION {{x.r} \X ReceiptPage(x).numbers : x \in p.receipts}
          /\ filteredTickets(u, "ALL", "ALL", FALSE)
               = UNION {filteredTickets(u, s, "ALL", FALSE) : s \in TicketStatus \ {"ALL"}}
          /\ DOMAIN groupedTickets(filteredTickets(u, "ALL", "ALL", TRUE)) = p.stats.won
          /\ \A r \in p.stats.won : \E x \in p.receipts : drawResult[r] \in x.numbers
=============================================================================
