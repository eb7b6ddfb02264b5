----------------------------- MODULE BuyerPages -----------------------------
(***************************************************************************)
(* What a buyer sees and what is charged: the raffle page with its random  *)
(* and chosen-number purchases, packs and promotion bonus                  *)
(* (raffle-content.tsx, promotion-bonus-selector.tsx), against the         *)
(* purchase transaction of the backend (tickets.service.ts).               *)
(*                                                                         *)
(* A page computes the total itself from what its queries read, some of    *)
(* which are never repeated; the backend computes the charge again from    *)
(* the database.  The clicks that compose a purchase and its submission    *)
(* are one step.  Where the money goes is in RaffleSale.                   *)
(***************************************************************************)
EXTENDS Favorites, Sums

CONSTANTS
    Numbers,            \* ticket numbers of the raffle
    MAX_TICKETS,        \* half of the tickets, the limit of a buyer
    PackBonuses,        \* SIMPLE_RANDOM_PACK_BONUSES: tickets paid -> bonus
    Prices,             \* prices of a ticket that the seller sets, in cents
    DiscountPercent, MaxDiscount,   \* of the buyer's bonus grant
    PremiumPercent,     \* SELECTED_NUMBER_PREMIUM_PERCENT
    FallbackPercent,    \* what a page assumes until it is told (5)
    InitialCredit

ASSUME BuyerAssumption ==
    /\ IsFiniteSet(Numbers)
    /\ MAX_TICKETS \in Nat /\ Prices \subseteq Nat \ {0}
    /\ PackBonuses \in [DOMAIN PackBonuses -> Nat] /\ DOMAIN PackBonuses \subseteq Nat /\ InitialCredit \in Nat
    /\ DiscountPercent \in 0 .. 100 /\ MaxDiscount \in Nat
    /\ PremiumPercent \in Nat /\ FallbackPercent \in Nat

VARIABLES
    price, onSale,      \* precioPorTicket; whether ACTIVA and not hidden
    owner,              \* per number: the buyer of its ticket (0: none)
    paid,               \* per number: precioPagado of its ticket
    refunded,           \* the numbers whose ticket is REEMBOLSADO
    credit, grant,      \* per buyer: creditBalance, the bonus grant is AVAILABLE
    page,               \* per tab: what the queries of the page have read
    bill                \* ghost, per tab: what its purchase showed and cost

saleVars == <<price, onSale, owner, paid, refunded, credit, grant>>
buyerVars == <<saleVars, page, bill>>

Quantities == 1 .. MAX_TICKETS
Taken == {n \in Numbers : owner[n] # 0}
Owned(b) == Cardinality({n \in Numbers \ refunded : owner[n] = b})
Lesser(a, b) == IF a <= b THEN a ELSE b
Minus(a, b) == IF a <= b THEN 0 ELSE a - b

\* A page that is not open.
Closed == [price |-> 0, onSale |-> FALSE, sold |-> 0, credit |-> 0,
           own |-> 0, counted |-> FALSE, taken |-> {}, refetch |-> FALSE,
           previews |-> {}]
NoBill == [shown |-> 0, read |-> 0, own |-> 0, percent |-> 0, chosen |-> 0,
           charged |-> 0, at |-> 0, regained |-> FALSE]
Open(t) == page[t].price # 0

-----------------------------------------------------------------------------
(* What page and backend both compute *)

evaluateSimpleRandomPack(n, available, allowed) ==
    IF /\ n \in DOMAIN PackBonuses
       /\ n + PackBonuses[n] <= available /\ n + PackBonuses[n] <= allowed
    THEN PackBonuses[n] ELSE 0

\* Rounded to cents; a preview that the page shows was computed by the backend.
buildBonusPreview(gross) ==
    gross - Lesser((gross * DiscountPercent + 50) \div 100, MaxDiscount)

-----------------------------------------------------------------------------
(* The premium of a chosen number, which each computes in its own way *)

\* The page multiplies floating-point numbers: half a cent goes either way.
premiumPerSelectedTicket(p, percent) ==
    {(p * percent + 49) \div 100, (p * percent + 50) \div 100}

\* The backend multiplies decimals, and rounds half a cent up.
selectionPremium(p, n) == n * ((p * PremiumPercent + 50) \div 100)

-----------------------------------------------------------------------------
(* The raffle page.  A draft is what the buyer composed: a quantity, or      *)
(* numbers, with or without the bonus.                                       *)

PageVars(t, p) ==
    /\ page' = [page EXCEPT ![t] = p]
    /\ UNCHANGED <<clientVars, saleVars, bill>>

View(t, p) == [p EXCEPT !.price = price, !.onSale = onSale,
                        !.sold = Cardinality(Taken \ refunded), !.taken = Taken,
                        !.credit = credit[user[t]], !.refetch = FALSE,
                        !.previews = @ \cup {price}]

\* The raffle, the wallet and the map of numbers, on which the number of a
\* refunded ticket stays taken.
openPage(t) ==
    /\ ~Open(t) /\ budget["buyer"] > 0
    /\ budget' = [budget EXCEPT !["buyer"] = @ - 1]
    /\ page' = [page EXCEPT ![t] = View(t, Closed)]
    /\ UNCHANGED <<req, ghostVars, saleVars, bill>>

\* After a purchase the raffle and the wallet are read again.
refetchRaffle(t) ==
    /\ page[t].refetch
    /\ PageVars(t, View(t, page[t]))

\* MY_TICKET_COUNT_IN_RAFFLE is read once; until it is answered the page has 0.
myTicketCount(t) ==
    /\ Open(t) /\ ~page[t].counted
    /\ PageVars(t, [page[t] EXCEPT !.counted = TRUE, !.own = Owned(user[t])])

PagePack(p, n) == evaluateSimpleRandomPack(n, Cardinality(Numbers) - p.sold,
                                           Minus(MAX_TICKETS, p.own))

\* randomChargedSubtotal and selectedModeChargedBase; the preview of the bonus
\* was computed at price q (0: it has not been answered).
ChargedBase(p, n, q) == IF q # 0 THEN buildBonusPreview(n * q) ELSE n * p.price

MutTotal(p, mode, n, q, premium) ==
    IF mode = "RANDOM" /\ PagePack(p, n) > 0 THEN n * p.price ELSE ChargedBase(p, n, q)

totalToCharge(p, mode, n, q, premium) ==
    IF mode = "CHOOSE_NUMBERS" THEN ChargedBase(p, n, q) + n * premium
    ELSE IF PagePack(p, n) > 0 THEN n * p.price
    ELSE ChargedBase(p, n, q)

\* previewPromotionBonus is read at some time after the page was opened, and the
\* cache keeps what it said; without the bonus there is no preview.
Preview(t, bonus) == IF bonus THEN {0} \cup page[t].previews ELSE {0}

\* The ghost keeps the lowest price that the shown total was computed with, and
\* what else it was computed with.
Submit(t, mode, n, numbers, bonus, percent, premium) ==
    \E q \in Preview(t, bonus) :
       LET p == page[t]
           total == totalToCharge(p, mode, n, q, premium)
       IN /\ p.price # 0 /\ p.onSale /\ p.credit >= total
          /\ Start(t, "buyer", "buy",
                   [NoReq EXCEPT !.op = mode, !.pc = "sent", !.id = n,
                                 !.seen = numbers, !.ok = bonus])
          /\ bill' = [bill EXCEPT ![t] =
                        [NoBill EXCEPT !.shown = total, !.own = p.own, !.percent = percent,
                           !.chosen = Cardinality(numbers),
                           !.read = IF q # 0 THEN Lesser(q, p.price) ELSE p.price]]
          /\ UNCHANGED <<saleVars, page>>

\* The bonus is not sent when the page shows a pack.
handleBuy(t) ==
    \E n \in Quantities, bonus \in BOOLEAN :
        /\ bonus => PagePack(page[t], n) = 0
        /\ Submit(t, "RANDOM", n, {}, bonus, PremiumPercent, 0)

\* The search and the map offer the numbers that were free when they were read.
SelectableNumbers(t) == Numbers \ page[t].taken

\* The button is enabled for a choice of some numbers, up to the limit.
Selections(t) == {numbers \in SUBSET SelectableNumbers(t) : Cardinality(numbers) \in Quantities}

\* While a part of the map is loaded (each part is a query of its own) the page
\* does not know the configured percentage.
handleBuySelectedNumbers(t) ==
    \E numbers \in Selections(t), bonus \in BOOLEAN, percent \in {PremiumPercent, FallbackPercent} :
        \E premium \in premiumPerSelectedTicket(page[t].price, percent) :
            Submit(t, "CHOOSE_NUMBERS", Cardinality(numbers), numbers, bonus, percent, premium)

-----------------------------------------------------------------------------
(* reserveTicketsForCheckout, one serializable transaction *)

Allowed(b) == Minus(MAX_TICKETS, Owned(b))
Available == Cardinality(Numbers \ Taken)

PackOf(r, b) == IF r.op = "RANDOM" THEN evaluateSimpleRandomPack(r.id, Available, Allowed(b))
                ELSE 0

\* A bonus that was sent is left alone when a pack applies.
UsesGrant(r, b) == r.ok /\ PackOf(r, b) = 0

totalChargeAmount(r, b) ==
    (IF UsesGrant(r, b) THEN buildBonusPreview(r.id * price) ELSE r.id * price)
    + (IF r.op = "CHOOSE_NUMBERS" THEN selectionPremium(price, r.id) ELSE 0)

Accepts(r, b) ==
    /\ onSale /\ r.id <= Allowed(b) /\ r.id <= Available
    /\ r.seen \cap Taken = {}
    /\ UsesGrant(r, b) => grant[b]
    /\ totalChargeAmount(r, b) <= credit[b]

\* The sale ends with the last ticket, but one that was refunded is not counted
\* and its number is not sold again (RaffleSale).
reserveTicketsForCheckout(t) ==
    LET r == req[t]
        b == user[t]
    IN /\ r.group = "buy" /\ r.pc = "sent" /\ Accepts(r, b)
       /\ \E numbers \in IF r.op = "CHOOSE_NUMBERS" THEN {r.seen}
                         ELSE {s \in SUBSET (Numbers \ Taken) :
                                 Cardinality(s) = r.id + PackOf(r, b)} :
             /\ owner' = [n \in Numbers |-> IF n \in numbers THEN b ELSE owner[n]]
             /\ paid' = [n \in Numbers |-> IF n \in numbers THEN price ELSE paid[n]]
       /\ credit' = [credit EXCEPT ![b] = @ - totalChargeAmount(r, b)]
       /\ grant' = [grant EXCEPT ![b] = @ /\ ~UsesGrant(r, b)]
       /\ onSale' = (\E n \in Numbers : owner'[n] = 0 \/ n \in refunded)
       /\ bill' = [bill EXCEPT ![t].charged = totalChargeAmount(r, b), ![t].at = price,
                               ![t].regained = Owned(b) < bill[t].own]
       /\ To(t, "bought")
       /\ UNCHANGED <<price, refunded, page>>

\* handlePurchaseMutationError: numbers that are gone leave the draft, and the
\* map is read again.
refusePurchase(t) ==
    /\ req[t].group = "buy" /\ req[t].pc = "sent" /\ ~Accepts(req[t], user[t])
    /\ Done(t)
    /\ page' = [page EXCEPT ![t].taken = IF req[t].seen \cap Taken # {} THEN Taken ELSE @]
    /\ bill' = [bill EXCEPT ![t] = NoBill]
    /\ UNCHANGED saleVars

\* onCompleted: the receipt is shown, the raffle and the wallet are refetched,
\* the buyer's own count and the grants are not.
purchaseAnswer(t) ==
    /\ req[t].group = "buy" /\ req[t].pc = "bought"
    /\ Done(t)
    /\ page' = [page EXCEPT ![t].refetch = TRUE]
    /\ bill' = [bill EXCEPT ![t] = NoBill]
    /\ UNCHANGED saleVars

\* The seller changes the price while pages are open; no page offers it.
updatePrice ==
    /\ onSale /\ budget["buyer"] > 0
    /\ budget' = [budget EXCEPT !["buyer"] = @ - 1]
    /\ price' \in Prices \ {price}
    /\ page' = [t \in Tabs |-> IF Open(t) THEN [page[t] EXCEPT !.previews = @ \cup {price'}]
                               ELSE page[t]]
    /\ UNCHANGED <<req, ghostVars, onSale, owner, paid, refunded, credit, grant, bill>>

\* The cron cancels a raffle that sold too little: first it refunds all tickets,
\* while the raffle is still ACTIVA (and stays so when the process stops here) ...
refundTickets ==
    /\ onSale /\ refunded # Taken /\ budget["buyer"] > 0
    /\ budget' = [budget EXCEPT !["buyer"] = @ - 1]
    /\ refunded' = Taken
    /\ credit' = [b \in Buyers |-> credit[b]
                     + SumOf(paid, {n \in Taken \ refunded : owner[n] = b})]
    /\ UNCHANGED <<req, ghostVars, price, onSale, owner, paid, grant, page, bill>>

\* ... then it writes CANCELADA.
cancelRaffle ==
    /\ onSale /\ refunded # {} /\ budget["buyer"] > 0
    /\ budget' = [budget EXCEPT !["buyer"] = @ - 1]
    /\ onSale' = FALSE
    /\ UNCHANGED <<req, ghostVars, price, owner, paid, refunded, credit, grant, page, bill>>

SaleChanges == updatePrice \/ refundTickets \/ cancelRaffle

-----------------------------------------------------------------------------
BuyerInit ==
    /\ price \in Prices /\ onSale = TRUE /\ owner = [n \in Numbers |-> 0]
    /\ paid = [n \in Numbers |-> 0] /\ refunded = {}
    /\ credit = [b \in Buyers |-> InitialCredit]
    /\ grant = [b \in Buyers |-> TRUE]
    /\ page = [t \in Tabs |-> Closed] /\ bill = [t \in Tabs |-> NoBill]

BuyerStep(t) ==
    \/ openPage(t) \/ refetchRaffle(t) \/ myTicketCount(t)
    \/ handleBuy(t) \/ handleBuySelectedNumbers(t)
    \/ reserveTicketsForCheckout(t) \/ refusePurchase(t) \/ purchaseAnswer(t)

-----------------------------------------------------------------------------
(* Properties *)

\* A purchase costs no more than the total that its page showed, although the
\* page's count of the buyer's tickets, its sold tickets and its grants are stale
\* and page and backend decide on their own whether a pack or the bonus applies.
\* The exceptions are a price that the seller raised after the page had read it
\* and a page that assumed too low a premium.  Otherwise it may cost a cent more
\* for each chosen number, as page and backend round differently, and as much more
\* as the bonus is worth when the buyer's tickets were refunded after the page had
\* counted them: a pack applies again, and the bonus that the page showed does not.
ChargedAsShown ==
    \A t \in Tabs :
        LET x == bill[t] IN
        x.at <= x.read /\ x.percent >= PremiumPercent =>
            x.charged <= x.shown + x.chosen + (IF x.regained THEN MaxDiscount ELSE 0)
=============================================================================
