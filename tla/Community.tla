----------------------------- MODULE Community -----------------------------
(***************************************************************************)
(* The seller's account (SellerAccounts), the catalogue that publishing    *)
(* from that account fills (Listings), and the pages on which buyers buy   *)
(* from it (BuyerPages) and keep it as a favourite (Favorites), reached    *)
(* from the same tabs and served by the same backend process, which may    *)
(* stop.  Each initial state fixes how many requests a behaviour spends on *)
(* each of them; what gets none starts in one state.                       *)
(***************************************************************************)
EXTENDS Listings, BuyerPages

sellerSide == <<sellerVars, listingVars>>
buyerSide == <<heartVars, buyerVars>>
vars == <<clientVars, sellerSide, buyerSide>>

\* A seller without requests on the account is one who is ready to publish, and
\* a page without requests on the heart is one that shows it.
Init ==
    /\ ClientsInit /\ SellerInit /\ ListingsInit /\ HeartsInit /\ BuyerInit
    /\ budget["accounts"] = 0 => status = "CONNECTED"
    /\ budget["hearts"] = 0 =>
          /\ \A t \in Tabs : place[t] = "raffle" /\ heartQuery[t] = "answered"
          /\ favorite = {}
    /\ budget["buyer"] = 0 => \A p \in Prices : price <= p
    /\ budget["hearts"] + budget["buyer"] = 0 => \A t, s \in Tabs : user[t] = user[s]

Stop ==
    /\ StopBackend /\ StopListings /\ StopHearts
    /\ late' = {}
    /\ UNCHANGED <<kyc, cuit, kycShown, accountVars, addressVars, buyerVars>>

Next ==
    \/ \E t \in Tabs :
          \/ SellerStep(t) /\ UNCHANGED <<listingVars, buyerSide>>
          \/ ListingStep(t) /\ UNCHANGED <<sellerVars, buyerSide>>
          \/ HeartStep(t) /\ UNCHANGED <<sellerSide, buyerVars>>
          \/ BuyerStep(t) /\ UNCHANGED <<sellerSide, heartVars>>
    \/ ListingBackground /\ UNCHANGED <<sellerVars, buyerSide>>
    \/ SaleChanges /\ UNCHANGED <<sellerSide, heartVars>>
    \/ Stop

Spec == Init /\ [][Next]_vars
=============================================================================
