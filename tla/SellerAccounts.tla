--------------------------- MODULE SellerAccounts ---------------------------
(***************************************************************************)
(* What a seller needs before publishing: the identity check (KYC), the    *)
(* Mercado Pago account that receives payouts, and the shipping addresses  *)
(* (users.service.ts, payments.service.ts, admin.service.ts,               *)
(* shipping.service.ts), with the settings, shipping and admin pages that  *)
(* send the requests.  One seller, any number of tabs and administrators.  *)
(***************************************************************************)
EXTENDS Clients

CONSTANTS
    MAX_ADDRESSES,      \* ShippingService.MAX_ADDRESSES
    MaxCreated          \* bound: addresses created

ASSUME AddressesAssumption == MAX_ADDRESSES \in Nat \ {0} /\ MaxCreated \in Nat \ {0}

AddressIds == 1 .. MaxCreated
KycStatuses == {"NOT_SUBMITTED", "PENDING_REVIEW", "VERIFIED", "REJECTED"}
AccountStatuses == {"NOT_CONNECTED", "PENDING", "CONNECTED"}

VARIABLES
    kyc, cuit,          \* user.kycStatus; whether user.cuitCuil is set
    kycShown,           \* the statuses that an open page may still show
    status,             \* user.sellerPaymentAccountStatus
    account,            \* the seller_payment_accounts row
    accountShown,       \* whether an open page may show a row
    addresses, defaults, created,   \* shipping_addresses, the isDefault ones
    late                \* ghost: the KYC requests read before the approval

kycVars == <<kyc, cuit, kycShown, late>>
accountVars == <<status, account, accountShown>>
addressVars == <<addresses, defaults, created>>
sellerVars == <<kycVars, accountVars, addressVars>>

NoAccount == [exists |-> FALSE, linked |-> FALSE, status |-> "NOT_CONNECTED"]

-----------------------------------------------------------------------------
(* Identity check *)

\* The settings page shows the form when it shows neither VERIFIED nor
\* PENDING_REVIEW, and an open tab may show an old status.
KycFormOffered == kycShown \cap {"NOT_SUBMITTED", "REJECTED"} # {}

\* The administration page lists the submissions that were pending.
KycReviewOffered == "PENDING_REVIEW" \in kycShown

\* Its dialogs approve or reject.
KycDecisions == {"approveKyc", "rejectKyc"}

KycRequest(op, withCuit) == [NoReq EXCEPT !.op = op, !.pc = "read", !.ok = withCuit]

SetKyc(to) == kyc' = to /\ kycShown' = kycShown \cup {to}

MutUpdateKycRead(t) ==
    /\ KycFormOffered
    /\ \E withCuit \in BOOLEAN :
          Start(t, "accounts", "kyc", KycRequest("updateKyc", withCuit))
    /\ UNCHANGED sellerVars

updateKycRead(t) ==
    /\ KycFormOffered /\ kyc # "VERIFIED"
    /\ \E withCuit \in BOOLEAN :
          Start(t, "accounts", "kyc", KycRequest("updateKyc", withCuit))
    /\ UNCHANGED sellerVars

\* A CUIT left out of the form leaves the stored one.
updateKycWrite(t) ==
    /\ At(t, "updateKyc", "read")
    /\ SetKyc("PENDING_REVIEW")
    /\ cuit' = (cuit \/ req[t].ok)
    /\ late' = late \ {t}
    /\ Done(t)
    /\ UNCHANGED <<accountVars, addressVars>>

reviewKycRead(t) ==
    /\ KycReviewOffered /\ kyc = "PENDING_REVIEW"
    /\ \E op \in KycDecisions :
          Start(t, "accounts", "kyc", KycRequest(op, FALSE))
    /\ UNCHANGED sellerVars

\* The status of the payment account is not computed again.
approveKyc(t) ==
    /\ At(t, "approveKyc", "read")
    /\ SetKyc("VERIFIED")
    /\ late' = Busy("kyc") \ {t}
    /\ Done(t)
    /\ UNCHANGED <<cuit, accountVars, addressVars>>

rejectKyc(t) ==
    /\ At(t, "rejectKyc", "read")
    /\ SetKyc("REJECTED")
    /\ late' = late \ {t}
    /\ Done(t)
    /\ UNCHANGED <<cuit, accountVars, addressVars>>

-----------------------------------------------------------------------------
(* Payment account *)

computeSellerPaymentAccountStatus(linked) ==
    IF kyc = "VERIFIED" /\ addresses # {} /\ cuit /\ linked
    THEN "CONNECTED" ELSE "PENDING"

StatusOf(ok) == IF ok THEN "CONNECTED" ELSE "PENDING"

SetAccount(row) ==
    /\ account' = row
    /\ accountShown' = (accountShown \/ row.exists)
    /\ UNCHANGED <<status, kycVars, addressVars>>

\* The OAuth callback: the signed state is stateless and valid for 10 minutes,
\* the provider has exchanged the code when the user is read.
connectRead(t) ==
    /\ Start(t, "accounts", "account",
             [NoReq EXCEPT !.op = "connect", !.pc = "read",
                !.ok = computeSellerPaymentAccountStatus(TRUE) = "CONNECTED"])
    /\ UNCHANGED sellerVars

connectAccount(t) ==
    /\ At(t, "connect", "read")
    /\ SetAccount([exists |-> TRUE, linked |-> TRUE, status |-> StatusOf(req[t].ok)])
    /\ To(t, "written")

\* upsertSellerPaymentAccount keeps the provider's credentials of the row.
identifyRead(t) ==
    /\ Start(t, "accounts", "account",
             [NoReq EXCEPT !.op = "identify", !.pc = "read",
                !.ok = computeSellerPaymentAccountStatus(account.linked) = "CONNECTED"])
    /\ UNCHANGED sellerVars

identifyAccount(t) ==
    /\ At(t, "identify", "read")
    /\ SetAccount([exists |-> TRUE, linked |-> account.linked,
                   status |-> StatusOf(req[t].ok)])
    /\ To(t, "written")

\* Both write the user after the row.
accountUser(t) ==
    /\ At(t, "connect", "written") \/ At(t, "identify", "written")
    /\ status' = StatusOf(req[t].ok)
    /\ Settles(t)
    /\ UNCHANGED <<account, accountShown, kycVars, addressVars>>

\* The settings page offers to disconnect while it shows an account, and to
\* connect at any time.
DisconnectOffered == accountShown

disconnectAccount(t) ==
    /\ DisconnectOffered
    /\ Start(t, "accounts", "account",
             [NoReq EXCEPT !.op = "disconnect", !.pc = "deleted"])
    /\ SetAccount(NoAccount)

disconnectUser(t) ==
    /\ At(t, "disconnect", "deleted")
    /\ status' = "NOT_CONNECTED"
    /\ Settles(t)
    /\ UNCHANGED <<account, accountShown, kycVars, addressVars>>

-----------------------------------------------------------------------------
(* Shipping addresses *)

AddressRequest(op, id, ok) == [NoReq EXCEPT !.op = op, !.pc = "read",
                                            !.id = id, !.ok = ok]
StartAddress(t, r) ==
    /\ Start(t, "accounts", "address", r)
    /\ UNCHANGED sellerVars

\* create counts; the first address is the default whatever the form says.
createAddressRead(t) ==
    /\ Cardinality(addresses) < MAX_ADDRESSES
    /\ \E isDefault \in BOOLEAN :
          StartAddress(t, AddressRequest("create", 0, isDefault \/ addresses = {}))

clearDefaults(t) ==
    /\ req[t].pc = "read" /\ req[t].ok
    /\ req[t].op \in {"create", "update", "setDefault"}
    /\ defaults' = IF req[t].op = "update" THEN defaults \cap {req[t].id} ELSE {}
    /\ To(t, "cleared")
    /\ UNCHANGED <<addresses, created, kycVars, accountVars>>

createAddress(t) ==
    /\ At(t, "create", IF req[t].ok THEN "cleared" ELSE "read")
    /\ created < MaxCreated
    /\ created' = created + 1
    /\ addresses' = addresses \cup {created'}
    /\ defaults' = IF req[t].ok THEN defaults \cup {created'} ELSE defaults
    /\ IF req[t].ok THEN Settles(t) ELSE Done(t)
    /\ UNCHANGED <<kycVars, accountVars>>

\* The page's edit form leaves isDefault out.
updateAddressRead(t) ==
    \E a \in addresses, isDefault \in BOOLEAN :
        StartAddress(t, AddressRequest("update", a, isDefault))

\* The update of a row that was deleted throws.
updateAddress(t) ==
    /\ At(t, "update", IF req[t].ok THEN "cleared" ELSE "read")
    /\ defaults' = IF req[t].ok THEN defaults \cup ({req[t].id} \cap addresses)
                   ELSE defaults
    /\ IF req[t].ok THEN Settles(t) ELSE Done(t)
    /\ UNCHANGED <<addresses, created, kycVars, accountVars>>

setDefaultRead(t) ==
    \E a \in addresses : StartAddress(t, AddressRequest("setDefault", a, TRUE))

setDefault(t) ==
    /\ At(t, "setDefault", "cleared")
    /\ defaults' = defaults \cup ({req[t].id} \cap addresses)
    /\ Settles(t)
    /\ UNCHANGED <<addresses, created, kycVars, accountVars>>

deleteAddressRead(t) ==
    \E a \in addresses :
        StartAddress(t, AddressRequest("delete", a, a \in defaults))

deleteAddress(t) ==
    /\ At(t, "delete", "read")
    /\ addresses' = addresses \ {req[t].id}
    /\ defaults' = defaults \ {req[t].id}
    /\ IF req[t].ok /\ req[t].id \in addresses THEN To(t, "deleted") ELSE Done(t)
    /\ UNCHANGED <<created, kycVars, accountVars>>

\* The oldest address left becomes the default: found, then written.
findOldest(t) ==
    /\ At(t, "delete", "deleted")
    /\ IF addresses = {}
       THEN Done(t)
       ELSE /\ req' = [req EXCEPT ![t].pc = "found",
                         ![t].id = CHOOSE a \in addresses :
                                      \A b \in addresses : a <= b]
            /\ UNCHANGED <<budget, ghostVars>>
    /\ UNCHANGED sellerVars

MutPromoteOldest(t) ==
    /\ At(t, "delete", "found")
    /\ Done(t)
    /\ UNCHANGED sellerVars

promoteOldest(t) ==
    /\ At(t, "delete", "found")
    /\ defaults' = defaults \cup ({req[t].id} \cap addresses)
    /\ Done(t)
    /\ UNCHANGED <<addresses, created, kycVars, accountVars>>

-----------------------------------------------------------------------------
\* A seller at any point of the way, or one who is ready to publish.
SellerInit ==
    /\ \/ /\ \/ kyc = "NOT_SUBMITTED" /\ cuit = FALSE
             \/ kyc \in {"PENDING_REVIEW", "VERIFIED"} /\ cuit \in BOOLEAN
          /\ created \in {0, 1}
          /\ account = NoAccount
       \/ /\ kyc = "VERIFIED" /\ cuit = TRUE /\ created = 1
          /\ account = [exists |-> TRUE, linked |-> TRUE, status |-> "CONNECTED"]
    /\ kycShown = {"NOT_SUBMITTED", kyc}
    /\ status = account.status /\ accountShown = account.exists
    /\ addresses = 1 .. created /\ defaults = addresses
    /\ late = {}

SellerStep(t) ==
    \/ updateKycRead(t) \/ updateKycWrite(t)
    \/ reviewKycRead(t) \/ approveKyc(t) \/ rejectKyc(t)
    \/ connectRead(t) \/ connectAccount(t) \/ identifyRead(t) \/ identifyAccount(t)
    \/ accountUser(t) \/ disconnectAccount(t) \/ disconnectUser(t)
    \/ createAddressRead(t) \/ clearDefaults(t) \/ createAddress(t)
    \/ updateAddressRead(t) \/ updateAddress(t)
    \/ setDefaultRead(t) \/ setDefault(t)
    \/ deleteAddressRead(t) \/ deleteAddress(t) \/ findOldest(t) \/ promoteOldest(t)

-----------------------------------------------------------------------------
(* Properties *)

SellerTypeOK ==
    /\ kyc \in KycStatuses /\ cuit \in BOOLEAN /\ kycShown \subseteq KycStatuses
    /\ status \in AccountStatuses /\ accountShown \in BOOLEAN
    /\ account \in [exists : BOOLEAN, linked : BOOLEAN, status : AccountStatuses]
    /\ created \in 0 .. MaxCreated
    /\ addresses \subseteq AddressIds /\ defaults \subseteq addresses
    /\ late \subseteq Tabs

\* Once the requests on the payment account are over, the status of the user is
\* that of the row, which raffles.create relies on; what an overlap or a crash
\* tore apart is repaired by the next request that runs alone.
StatusMirrorsAccount == Calm("account") => status = account.status

\* One address is the default while there is any, and no more than the maximum
\* are stored, up to the requests that overlapped; a default set alone repairs.
OneDefaultAddress ==
    /\ Calm("address") =>
          IF addresses = {} THEN defaults = {} ELSE Cardinality(defaults) = 1
    /\ Cardinality(addresses) <= MAX_ADDRESSES + overlaps["address"]

\* What a seller needs to publish and a buyer to receive is consistent.
SellerRecordsAgree == StatusMirrorsAccount /\ OneDefaultAddress

\* A verified identity is only lost to a request that had read the account
\* before the approval was written: a submission or a second administrator.
VerifiedIsKept ==
    [][(kyc = "VERIFIED" /\ kyc' # "VERIFIED")
          => \E t \in late : req[t].pc = "read" /\ req'[t] = NoReq]_<<kyc, req>>
=============================================================================
