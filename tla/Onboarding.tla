----------------------------- MODULE Onboarding -----------------------------
(***************************************************************************)
(* The first steps that the dashboard shows to a buyer and to a seller and *)
(* the nudges of its pages (lib/onboarding.ts, the settings page), as      *)
(* functions of what the pages have fetched.  They advise and block        *)
(* nothing; raffles.create decides by its own rule (Listings.createRead).  *)
(***************************************************************************)
EXTENDS Naturals, Sequences

Advice(id, completed) == [id |-> id, completed |-> completed]

\* Of the queries only what a step looks at: counts and balances, and whether a
\* text is there.
BuyerFacts ==
    [addresses : 0 .. 1, credit : 0 .. 1, toppedUp : BOOLEAN, tickets : 0 .. 1,
     receipts : 0 .. 1, favorites : 0 .. 1]
SellerFacts ==
    [profile : BOOLEAN, kycStatus : {"NOT_SUBMITTED", "PENDING_REVIEW", "VERIFIED", "REJECTED"},
     kycAddress : BOOLEAN, cuitCuil : BOOLEAN,
     accountStatus : {"NOT_CONNECTED", "PENDING", "CONNECTED"},
     raffles : 0 .. 1, payable : 0 .. 1]

hasSellerTaxAddress(f) == f.kycAddress /\ f.cuitCuil

buyerSteps(f) ==
    << Advice("buyer-shipping", f.addresses > 0),
       Advice("buyer-wallet", f.credit > 0 \/ f.toppedUp),
       Advice("buyer-explore", f.favorites > 0 \/ f.tickets > 0),
       Advice("buyer-first-ticket", f.tickets > 0),
       Advice("buyer-receipts", f.receipts > 0) >>

sellerSteps(f) ==
    << Advice("seller-profile", f.profile),
       Advice("seller-kyc", f.kycStatus = "VERIFIED"),
       Advice("seller-tax-address", hasSellerTaxAddress(f)),
       Advice("seller-payments", f.accountStatus = "CONNECTED"),
       Advice("seller-first-raffle", f.raffles > 0),
       Advice("seller-sales", f.raffles > 0 \/ f.payable > 0) >>

completedCount(steps) == Len(SelectSeq(steps, LAMBDA s : s.completed))
allComplete(steps) == completedCount(steps) = Len(steps)

\* Math.round((completed / total) * 100), halves upwards.
progress(steps) ==
    IF steps = <<>> THEN 0
    ELSE (200 * completedCount(steps) + Len(steps)) \div (2 * Len(steps))

\* The card's button leads there, or to the catalogue when nothing is pending.
getFirstPendingStep(steps) ==
    LET pending == SelectSeq(steps, LAMBDA s : ~s.completed)
    IN  IF pending = <<>> THEN "none" ELSE Head(pending).id

\* The one nudge of the settings page, named after the step it urges.
settingsNudge(f) ==
    IF ~f.profile THEN "seller-profile"
    ELSE IF f.kycStatus # "VERIFIED" THEN "seller-kyc"
    ELSE IF ~f.kycAddress \/ ~f.cuitCuil THEN "seller-tax-address"
    ELSE IF f.accountStatus # "CONNECTED" THEN "seller-payments"
    ELSE "none"

\* The nudges a user has hidden are kept in the browser's storage, which other
\* tabs write too; a page shows what it read when it opened and what it hid.
addOnboardingDismissal(stored, nudge) == stored \cup {nudge}
isDismissed(atOpening, own, nudge) == nudge \in atOpening \cup own

-----------------------------------------------------------------------------
\* The settings page urges the first pending step of the dashboard's checklist,
\* or nothing once only the raffles are missing; a card reads 100 % exactly when
\* nothing is pending, whatever the rounding; a buyer who got a ticket and its
\* receipt still has the wallet step pending only without a top-up among the
\* ledger rows fetched and with the balance spent; and a nudge hidden in one tab
\* stays hidden there and in every tab that opens later.
ASSUME OnboardingAgrees ==
    /\ \A f \in SellerFacts :
          LET first == getFirstPendingStep(sellerSteps(f))
          IN  settingsNudge(f) = IF first \in {"seller-first-raffle", "seller-sales"}
                                 THEN "none" ELSE first
    /\ \A s \in {buyerSteps(f) : f \in BuyerFacts} \cup {sellerSteps(f) : f \in SellerFacts} :
          /\ progress(s) \in 0 .. 100
          /\ (progress(s) = 100) <=> (getFirstPendingStep(s) = "none")
          /\ (getFirstPendingStep(s) = "none") <=> allComplete(s)
    /\ \A f \in BuyerFacts :
          (f.tickets > 0 /\ f.receipts > 0 /\ f.addresses > 0 /\ ~allComplete(buyerSteps(f)))
             => getFirstPendingStep(buyerSteps(f)) = "buyer-wallet"
                   /\ f.credit = 0 /\ ~f.toppedUp
    /\ \A stored, other \in SUBSET {"n1", "n2"}, nudge \in {"n1", "n2"} :
          LET written == addOnboardingDismissal(stored, nudge)
          IN  /\ isDismissed(other, written, nudge)
              /\ isDismissed(addOnboardingDismissal(written, "n2"), {}, nudge)
=============================================================================
