------------------------- MODULE CredentialsProofs -------------------------
(***************************************************************************)
(* Proofs about the credentials of an account, for every number of pages   *)
(* and every limit: types, what is used once, the block of an address, and *)
(* the recovery codes that a settings page shows.                          *)
(***************************************************************************)
EXTENDS AuthPages, FiniteSetTheorems, TLAPS

-----------------------------------------------------------------------------
(* Well-formed requests and cards                                           *)

ReqType == [kind : Kinds \cup {"none"},
            pc : {"idle", "sent", "read", "found", "counted", "closed", "matched", "checked"},
            id : Nat, hashes : SUBSET RecoveryCodes,
            human : BOOLEAN, verified : BOOLEAN, on : BOOLEAN]

CardType == [on : BOOLEAN, setup : BOOLEAN, shown : Nat, refetch : BOOLEAN]

\* A page without a request is idle; a second factor is a code, right or wrong,
\* or a recovery code.
ReqOK == \A p \in Pages : /\ req[p].kind = "none" <=> req[p].pc = "idle"
                          /\ req[p].kind = "twoFactor" => req[p].id \in {0, 1, 2}

CardsOK == card \in [Pages -> CardType] /\ outdated \in SUBSET Pages

Wf == TypeOK /\ ReqOK /\ CardsOK

-----------------------------------------------------------------------------
(* The inductive invariants                                                 *)

\* A block is set: who could still lift it had passed the guard before.
EarlyInv == isBlocked => Busy("login") \cup Busy("twoFactor") \subseteq early

\* A page asks for verification, and a code is created, only for an account.
AccountInv ==
    /\ \A p \in Pages :
         /\ step[p] = "verify" => account
         /\ req[p].kind = "resend" => account
         /\ At(p, "register", "closed") => account
         /\ At(p, "login", "read") /\ req[p].id # 0 => account
    /\ ~account => OpenOf(code) = {} /\ fresh.code = {}

\* The requests of a kind that are under way are paid for by the overlaps.
BusyInv ==
    /\ \A k \in {"verify", "reset", "twoFactor", "forgot"} :
          Cardinality(Busy(k)) <= 1 + overlaps[k]

\* The handlers that have passed the check of a credential and not yet used it.
Verifying == {p \in Pages : At(p, "verify", "found")}
Resetting(i) == {p \in Pages : At(p, "reset", "found") /\ req[p].id = i}

VerifyInv ==
    /\ uses.verify + Cardinality(Verifying) <= 1 + overlaps.verify
    /\ uses.verify > 0 => verified

ResetInv ==
    \A i \in Ids :
        /\ uses.reset[i] + Cardinality(Resetting(i)) <= 1 + overlaps.reset
        /\ uses.reset[i] > 0 => link[i] = "used"
        /\ Resetting(i) # {} => link[i] # "none"

\* A recovery code is alive while the account holds it, or a sign-in under way
\* will write it back.
Unread == {p \in Pages : At(p, "twoFactor", "sent")}
Restoring(r) == {p \in Pages : At(p, "twoFactor", "matched") /\ r \in req[p].hashes}
Alive(r) == r \in tfa.hashes \/ Restoring(r) # {}

RecoveryInv ==
    /\ \A r \in RecoveryCodes :
          /\ uses.recovery[r] <= 1 + overlaps.twoFactor
          /\ Alive(r) => uses.recovery[r] + Cardinality(Unread) + Cardinality(Restoring(r))
                            + (IF Busy("twoFactor") = {} THEN 1 ELSE 0) <= 1 + overlaps.twoFactor
          /\ r[1] > batches => ~Alive(r) /\ uses.recovery[r] = 0

\* The handlers that will create a code or a link, and those of them that have
\* closed the open ones.
Registering == {p \in Pages : At(p, "register", "closed")}
CodeClosers == Registering \cup {p \in Pages : At(p, "resend", "closed")}
CodeCreators == CodeClosers \cup {p \in Pages : At(p, "resend", "counted")}
LinkClosers == {p \in Pages : At(p, "forgot", "closed")}
LinkCreators == LinkClosers \cup {p \in Pages : At(p, "forgot", "counted")}

CodeInv ==
    /\ Cardinality(Registering \cup Busy("resend")) <= 1 + overlaps.resend
    /\ Cardinality(OpenOf(code)) + Cardinality(CodeClosers) <= 1 + overlaps.resend
    /\ Cardinality(fresh.code) + Cardinality(CodeCreators) <= HourLimit + overlaps.resend

LinkInv ==
    /\ Cardinality(OpenOf(link)) + Cardinality(LinkClosers) <= 1 + overlaps.forgot
    /\ Cardinality(fresh.link) + Cardinality(LinkCreators) <= HourLimit + overlaps.forgot

\* What the card of the settings page holds is on that page.
PlaceInv ==
    \A p \in Pages :
         /\ card[p].shown # 0 \/ card[p].refetch => step[p] = "settings"
         /\ step[p] = "settings" => req[p].kind \in {"none", "enable", "disable"}
         /\ req[p].kind \in {"enable", "disable"} => step[p] = "settings"

\* One change of the second factor at a time, and its page reads the result.
OneChange ==
    \A p, q \in Pages :
         /\ req[p].kind \in SecondFactor /\ req[q].kind \in SecondFactor => p = q
         /\ req[p].kind \in SecondFactor /\ card[q].refetch => p = q
         /\ card[p].refetch /\ card[q].refetch => p = q

\* The account accepts what it generated last and nobody used; a sign-in that is
\* under way writes that back, and a card that has to read shows it.
LatestCodes ==
    /\ tfa.on => \A r \in Batch(batches) : uses.recovery[r] = 0 => r \in tfa.hashes
    /\ \A p \in Pages :
         /\ At(p, "twoFactor", "matched") =>
              \A r \in tfa.hashes : uses.recovery[r] = 0 => r \in req[p].hashes
         /\ card[p].shown # 0 /\ card[p].refetch /\ tfa.on => card[p].shown = batches
         /\ card[p].shown # 0 /\ card[p].on /\ p \notin outdated
              => tfa.on /\ card[p].shown = batches

ShownInv == PlaceInv /\ (overlaps["secondFactor"] = 0 => OneChange /\ LatestCodes)

-----------------------------------------------------------------------------
(* Types                                                                    *)

\* What an answer, and a request that goes on, leaves of the other requests.
LEMMA AnswerType ==
  ASSUME Wf, NEW p \in Pages, NEW to, Answer(p, to),
         to \in {"register", "login", "verify", "forgot", "sent", "reset",
                 "twoFactor", "home", "settings"}
  PROVE  /\ req' \in [Pages -> ReqType]
         /\ step' \in [Pages -> {"register", "login", "verify", "forgot", "sent", "reset",
                                 "twoFactor", "home", "settings"}]
         /\ ReqOK'
         /\ req' = [req EXCEPT ![p] = req'[p]] /\ req'[p] = NoReq
         /\ \A q \in Pages \ {p} : req'[q] = req[q]
<1>1. NoReq \in ReqType
  BY DEF NoReq, ReqType
<1>2. req \in [Pages -> ReqType]
  BY DEF Wf, TypeOK, ReqType
<1>3. req' = [req EXCEPT ![p] = NoReq]
  BY DEF Answer
<1>4. req'[p] = NoReq /\ \A q \in Pages \ {p} : req'[q] = req[q]
  BY <1>2, <1>3
<1>5. req' \in [Pages -> ReqType]
  BY <1>1, <1>2, <1>3
<1>6. ReqOK'
  <2>1. ReqOK /\ NoReq.kind = "none" /\ NoReq.pc = "idle"
    BY DEF Wf, NoReq
  <2> QED
    BY <1>4, <2>1 DEF ReqOK
<1>7. step' \in [Pages -> {"register", "login", "verify", "forgot", "sent", "reset",
                           "twoFactor", "home", "settings"}]
  BY DEF Answer, Wf, TypeOK
<1> QED
  BY <1>3, <1>4, <1>5, <1>6, <1>7

LEMMA StaysType ==
  ASSUME Wf, NEW p \in Pages, Stays(p)
  PROVE  /\ req' \in [Pages -> ReqType]
         /\ step' \in [Pages -> {"register", "login", "verify", "forgot", "sent", "reset",
                                 "twoFactor", "home", "settings"}]
         /\ ReqOK'
         /\ req' = [req EXCEPT ![p] = req'[p]] /\ req'[p] = NoReq
         /\ \A q \in Pages \ {p} : req'[q] = req[q]
         /\ step' = step
<1>1. step[p] \in {"register", "login", "verify", "forgot", "sent", "reset",
                   "twoFactor", "home", "settings"}
  BY DEF Wf, TypeOK
<1>2. step' = step
  BY DEF Stays, Answer, Wf, TypeOK
<1> QED
  BY <1>1, <1>2, AnswerType DEF Stays

\* A request that goes on keeps its kind.
GoesOn(p) ==
    /\ req' = [req EXCEPT ![p] = req'[p]]
    /\ req'[p] \in ReqType
    /\ req'[p].kind = req[p].kind /\ req'[p].pc # "idle" /\ req[p].pc # "idle"
    /\ req'[p].kind = "twoFactor" => req'[p].id = req[p].id

LEMMA GoesOnType ==
  ASSUME Wf, NEW p \in Pages, GoesOn(p)
  PROVE  req' \in [Pages -> ReqType] /\ ReqOK' /\ \A q \in Pages \ {p} : req'[q] = req[q]
<1>1. req \in [Pages -> ReqType]
  BY DEF Wf, TypeOK, ReqType
<1>2. req' \in [Pages -> ReqType] /\ \A q \in Pages \ {p} : req'[q] = req[q]
  BY <1>1 DEF GoesOn
<1> QED
  BY <1>2 DEF ReqOK, Wf, GoesOn

LEMMA SetsPc ==
  ASSUME Wf, NEW p \in Pages, req[p].pc # "idle",
         NEW to \in {"read", "found", "counted", "closed", "matched", "checked"},
         req' = [req EXCEPT ![p].pc = to]
  PROVE  /\ GoesOn(p)
         /\ req'[p].pc = to /\ req'[p].id = req[p].id /\ req'[p].hashes = req[p].hashes
<1>1. req \in [Pages -> ReqType]
  BY DEF Wf, TypeOK, ReqType
<1>2. req' = [req EXCEPT ![p] = [req[p] EXCEPT !.pc = to]]
  OBVIOUS
<1>3. [req[p] EXCEPT !.pc = to] \in ReqType
  BY <1>1 DEF ReqType
<1>4. req'[p] = [req[p] EXCEPT !.pc = to]
  BY <1>1, <1>2
<1>5. /\ [req[p] EXCEPT !.pc = to].pc = to /\ [req[p] EXCEPT !.pc = to].id = req[p].id
      /\ [req[p] EXCEPT !.pc = to].hashes = req[p].hashes
      /\ [req[p] EXCEPT !.pc = to].kind = req[p].kind
  BY <1>1 DEF ReqType
<1> QED
  BY <1>2, <1>3, <1>4, <1>5 DEF GoesOn

AttemptType == [count : Nat, first : Nat, until : Nat]

LEMMA ThrottleType ==
  ASSUME Wf, NEW p \in Pages, clock' = clock, recordFailedAttempt(p) \/ clearAttempts(p)
  PROVE  attempt' \in AttemptType /\ early' \in SUBSET Pages
<1>1. attempt \in AttemptType /\ clock \in Nat /\ WINDOW \in Nat /\ early \in SUBSET Pages
  BY CredentialsConstants DEF Wf, TypeOK, AttemptType
<1>2. CASE clearAttempts(p)
  BY <1>1, <1>2 DEF clearAttempts, NoAttempt, AttemptType
<1>3. CASE recordFailedAttempt(p)
  <2>1. early' \in SUBSET Pages
    BY <1>1, <1>3 DEF recordFailedAttempt, Busy
  <2>2. [count |-> 1, first |-> clock, until |-> 0] \in AttemptType
    BY <1>1 DEF AttemptType
  <2>3. [attempt EXCEPT !.count = @ + 1] \in AttemptType
    BY <1>1 DEF AttemptType
  <2>4. \A a \in AttemptType : [a EXCEPT !.until = clock + WINDOW] \in AttemptType
    BY <1>1 DEF AttemptType
  <2> QED
    BY <1>3, <2>1, <2>2, <2>3, <2>4 DEF recordFailedAttempt
<1> QED
  BY <1>2, <1>3

\* The shape of the state without the requests and the steps of the pages.
TablesType ==
    /\ account \in BOOLEAN /\ verified \in BOOLEAN
    /\ code \in [Ids -> RowStates] /\ link \in [Ids -> RowStates]
    /\ fresh \in [code : SUBSET Ids, link : SUBSET Ids]
    /\ tfa \in [on : BOOLEAN, hashes : SUBSET RecoveryCodes]
    /\ batches \in 0 .. MaxBatches
ThrottlesType == /\ attempt \in AttemptType /\ clock \in 0 .. MaxClock
                 /\ early \in SUBSET Pages
PagesType == /\ step \in [Pages -> {"register", "login", "verify", "forgot", "sent", "reset",
                                    "twoFactor", "home", "settings"}]
             /\ req \in [Pages -> ReqType]
GhostsType == /\ requests \in Nat /\ overlaps \in [Kinds \cup {"secondFactor"} -> Nat]
              /\ uses \in [verify : Nat, reset : [Ids -> Nat], recovery : [RecoveryCodes -> Nat]]

LEMMA TypeParts == TypeOK <=> TablesType /\ ThrottlesType /\ PagesType /\ GhostsType
BY DEF TypeOK, TablesType, ThrottlesType, PagesType, GhostsType, AttemptType, ReqType

LEMMA TypePartsNext == TypeOK' <=> TablesType' /\ ThrottlesType' /\ PagesType' /\ GhostsType'
BY DEF TypeOK, TablesType, ThrottlesType, PagesType, GhostsType, AttemptType, ReqType

-----------------------------------------------------------------------------
(* What a step does to the requests and the tables                          *)

Calm == UNCHANGED <<tableVars, overlaps, uses>>
Moves(p) == req' = [req EXCEPT ![p] = req'[p]]

\* The request of the page is answered, or the page has none and gets none.
Ends(p) == Moves(p) /\ req'[p].kind = "none" /\ req'[p].pc = "idle"

Goes(p, kind, from, to) ==
    /\ Moves(p) /\ At(p, kind, from)
    /\ req'[p].kind = kind /\ req'[p].pc = to

\* A request leaves.
Leaves(p) ==
    /\ Moves(p) /\ req[p].kind = "none" /\ req[p].pc = "idle"
    /\ req'[p].kind \in Kinds /\ req'[p].pc = "sent"
    /\ UNCHANGED <<tableVars, uses>>
    /\ \A k \in Kinds :
          overlaps'[k] = overlaps[k] + IF k = req'[p].kind /\ Overlapping(Rivals(k))
                                       THEN 1 ELSE 0

\* A handler has read what it needs and goes on.
Passes(p) ==
    /\ Calm
    /\ \/ Goes(p, "register", "sent", "found")
       \/ Goes(p, "login", "sent", "read")
       \/ Goes(p, "enable", "sent", "checked") \/ Goes(p, "disable", "sent", "checked")

MakesAccount(p) ==
    /\ Goes(p, "register", "found", "closed")
    /\ ~account /\ account'
    /\ UNCHANGED <<verified, code, link, fresh, tfa, batches, overlaps, uses>>

FindsCode(p) ==
    /\ Calm /\ Goes(p, "verify", "sent", "found")
    /\ ~verified /\ req'[p].id = req[p].id /\ req[p].id \in OpenOf(code)

FindsLink(p) ==
    /\ Calm /\ Goes(p, "reset", "sent", "found")
    /\ req'[p].id = req[p].id /\ req[p].id \in OpenOf(link)

Counts(p, kind) ==
    /\ Calm /\ Goes(p, kind, "sent", "counted")
    /\ account /\ Cardinality(fresh[TableOf[kind]]) < HourLimit

Closes(p, kind) == Goes(p, kind, "counted", "closed") /\ CloseRows(p, kind)
Creates(p, kind) == Ends(p) /\ CreateRow(p, kind)

\* A sign-in takes the codes given out of the list it read.
Consumes(p) ==
    /\ Goes(p, "twoFactor", "sent", "matched")
    /\ tfa.on /\ req[p].hashes \subseteq tfa.hashes
    /\ req'[p].hashes = tfa.hashes \ req[p].hashes
    /\ uses' = [uses EXCEPT !.recovery =
                  [r \in RecoveryCodes |-> IF r \in req[p].hashes THEN @[r] + 1 ELSE @[r]]]
    /\ UNCHANGED <<tableVars, overlaps>>

\* A request is answered and has changed nothing.
Quits(p) == Ends(p) /\ Calm /\ (req[p].kind = "twoFactor" => req[p].pc = "sent")

HandlerShape(p) ==
    \/ Quits(p)
    \/ Passes(p) \/ MakesAccount(p) \/ FindsCode(p) \/ FindsLink(p)
    \/ Counts(p, "resend") \/ Counts(p, "forgot")
    \/ Closes(p, "resend") \/ Closes(p, "forgot")
    \/ Creates(p, "register") \/ Creates(p, "resend") \/ Creates(p, "forgot")
    \/ Ends(p) /\ verifyEmailWrite(p)
    \/ Ends(p) /\ resetPasswordWrite(p)
    \/ Consumes(p)
    \/ Ends(p) /\ completeTwoFactorWrite(p)
    \/ Ends(p) /\ enableTwoFactorWrite(p)
    \/ Ends(p) /\ disableTwoFactorWrite(p)

\* What every step of a handler keeps, whichever it is.
Typed == TypeOK' /\ ReqOK'

LEMMA EndsStays ==
  ASSUME Wf, NEW p \in Pages, Stays(p)
  PROVE  Ends(p) /\ PagesType' /\ ReqOK' /\ step' = step
<1>1. NoReq.kind = "none" /\ NoReq.pc = "idle"
  BY DEF NoReq
<1> QED
  BY <1>1, StaysType DEF Ends, Moves, PagesType

LEMMA EndsAnswer ==
  ASSUME Wf, NEW p \in Pages, NEW to, Answer(p, to),
         to \in {"register", "login", "verify", "forgot", "sent", "reset",
                 "twoFactor", "home", "settings"}
  PROVE  Ends(p) /\ PagesType' /\ ReqOK' /\ step' = [step EXCEPT ![p] = to]
<1>1. NoReq.kind = "none" /\ NoReq.pc = "idle"
  BY DEF NoReq
<1> QED
  BY <1>1, AnswerType DEF Ends, Moves, PagesType, Answer

LEMMA GoesSetsPc ==
  ASSUME Wf, NEW p \in Pages, req[p].pc # "idle",
         NEW to \in {"read", "found", "counted", "closed", "matched", "checked"},
         req' = [req EXCEPT ![p].pc = to], step' = step
  PROVE  /\ Goes(p, req[p].kind, req[p].pc, to) /\ PagesType' /\ ReqOK'
         /\ req'[p].id = req[p].id /\ req'[p].hashes = req[p].hashes
<1>1. GoesOn(p) /\ req'[p].pc = to /\ req'[p].id = req[p].id /\ req'[p].hashes = req[p].hashes
  BY SetsPc
<1>2. req' \in [Pages -> ReqType] /\ ReqOK'
  BY <1>1, GoesOnType
<1>3. PagesType'
  BY <1>2, TypeParts DEF PagesType, Wf
<1> QED
  BY <1>1, <1>2, <1>3 DEF Goes, GoesOn, Moves, At

\* A step that changes requests and pages only keeps the other types.
LEMMA CalmIsTyped ==
  ASSUME Wf, PagesType', ReqOK', UNCHANGED <<tableVars, throttleVars, ghostVars>>
  PROVE  Calm /\ Typed
<1>1. TablesType' /\ ThrottlesType' /\ GhostsType'
  BY TypeParts DEF Wf, TablesType, ThrottlesType, GhostsType, tableVars, throttleVars, ghostVars,
                   OpenOf, Closed
<1> QED
  BY <1>1, TypePartsNext DEF Typed, Calm, ghostVars

LEMMA ThrottledIsTyped ==
  ASSUME Wf, NEW p \in Pages, PagesType', ReqOK', UNCHANGED <<tableVars, clock, ghostVars>>,
         recordFailedAttempt(p) \/ clearAttempts(p)
  PROVE  Calm /\ Typed
<1>1. TablesType' /\ GhostsType'
  BY TypeParts DEF Wf, TablesType, GhostsType, tableVars, ghostVars
<1>2. ThrottlesType'
  BY ThrottleType, TypeParts DEF Wf, ThrottlesType
<1> QED
  BY <1>1, <1>2, TypePartsNext DEF Typed, Calm, ghostVars

LEMMA RegisterShape ==
  ASSUME Wf, NEW p \in Pages, NotHuman(p) \/ registerRead(p) \/ registerCreate(p)
  PROVE  HandlerShape(p) /\ Typed
<1>1. CASE NotHuman(p)
  <2>1. /\ Stays(p) /\ UNCHANGED <<tableVars, throttleVars, ghostVars>>
        /\ req[p].pc = "sent"
    BY <1>1 DEF NotHuman, At
  <2> QED
    BY <2>1, EndsStays, CalmIsTyped DEF HandlerShape, Quits, At
<1>2. CASE registerRead(p)
  <2>1. UNCHANGED <<tableVars, throttleVars, ghostVars>> /\ At(p, "register", "sent")
    BY <1>2 DEF registerRead
  <2>2. CASE account
    <3>1. Stays(p)
      BY <1>2, <2>2 DEF registerRead
    <3> QED
      BY <2>1, <3>1, EndsStays, CalmIsTyped DEF HandlerShape, Quits, At
  <2>3. CASE ~account
    <3>1. req' = [req EXCEPT ![p].pc = "found"] /\ step' = step
      BY <1>2, <2>3 DEF registerRead
    <3>2. Goes(p, "register", "sent", "found") /\ PagesType' /\ ReqOK'
      BY <2>1, <3>1, GoesSetsPc DEF At
    <3> QED
      BY <2>1, <3>2, CalmIsTyped DEF HandlerShape, Passes
  <2> QED
    BY <2>2, <2>3
<1>3. CASE registerCreate(p)
  <2>1. /\ UNCHANGED <<verified, code, link, fresh, tfa, batches, throttleVars, ghostVars>>
        /\ At(p, "register", "found") /\ account'
    BY <1>3 DEF registerCreate
  <2>2. TablesType' /\ ThrottlesType' /\ GhostsType'
    BY <1>3, <2>1, TypeParts DEF Wf, TablesType, ThrottlesType, GhostsType, throttleVars, ghostVars,
                            registerCreate
  <2>3. CASE account
    <3>1. Stays(p) /\ account' = account
      BY <1>3, <2>3 DEF registerCreate
    <3>2. Ends(p) /\ PagesType' /\ ReqOK'
      BY <3>1, EndsStays
    <3>3. Calm
      BY <2>1, <3>1 DEF Calm, tableVars, ghostVars
    <3> QED
      BY <2>1, <2>2, <3>2, <3>3, TypePartsNext DEF HandlerShape, Quits, At, Typed
  <2>4. CASE ~account
    <3>1. req' = [req EXCEPT ![p].pc = "closed"] /\ step' = step
      BY <1>3, <2>4 DEF registerCreate
    <3>2. Goes(p, "register", "found", "closed") /\ PagesType' /\ ReqOK'
      BY <2>1, <3>1, GoesSetsPc DEF At
    <3>3. MakesAccount(p)
      BY <2>1, <2>4, <3>2 DEF MakesAccount, ghostVars
    <3> QED
      BY <2>2, <3>2, <3>3, TypePartsNext DEF HandlerShape, Typed
  <2> QED
    BY <2>3, <2>4
<1> QED
  BY <1>1, <1>2, <1>3

LEMMA LoginShape ==
  ASSUME Wf, NEW p \in Pages, loginRead(p) \/ loginAnswer(p)
  PROVE  HandlerShape(p) /\ Typed
<1>1. CASE loginRead(p)
  <2>1. /\ UNCHANGED <<tableVars, throttleVars, ghostVars>> /\ At(p, "login", "sent")
        /\ step' = step
    BY <1>1 DEF loginRead
  <2> DEFINE r == [req[p] EXCEPT !.pc = "read", !.verified = verified, !.on = tfa.on,
                                 !.id = IF account THEN req[p].id ELSE 0]
  <2>2. req \in [Pages -> ReqType] /\ verified \in BOOLEAN /\ tfa.on \in BOOLEAN
    BY DEF Wf, TypeOK, ReqType
  <2>3. req' = [req EXCEPT ![p] = r]
    BY <1>1 DEF loginRead
  <2>4. r \in ReqType
    <3>1. req[p] \in ReqType
      BY <2>2
    <3>2. (IF account THEN req[p].id ELSE 0) \in Nat
      BY <3>1 DEF ReqType
    <3> QED
      BY <2>2, <3>1, <3>2 DEF ReqType
  <2>5. r.kind = "login" /\ r.pc = "read"
    BY <2>1, <2>2 DEF ReqType, At
  <2> HIDE DEF r
  <2>6. req'[p] = r
    BY <2>2, <2>3
  <2>7. GoesOn(p) /\ Goes(p, "login", "sent", "read")
    BY <2>1, <2>3, <2>4, <2>5, <2>6 DEF GoesOn, Goes, At, Moves
  <2>8. PagesType' /\ ReqOK'
    BY <2>1, <2>7, GoesOnType, TypeParts DEF PagesType, Wf
  <2> QED
    BY <2>1, <2>7, <2>8, CalmIsTyped DEF HandlerShape, Passes
<1>2. CASE loginAnswer(p)
  <2>1. UNCHANGED <<tableVars, clock, ghostVars>> /\ At(p, "login", "read")
    BY <1>2 DEF loginAnswer
  <2>2. (recordFailedAttempt(p) \/ clearAttempts(p)) /\ Ends(p) /\ PagesType' /\ ReqOK'
    <3>1. CASE req[p].id = 0
      BY <1>2, <3>1, EndsStays DEF loginAnswer, Refuse
    <3>2. CASE req[p].id # 0
      BY <1>2, <3>2, EndsAnswer DEF loginAnswer
    <3> QED
      BY <3>1, <3>2
  <2> QED
    BY <2>1, <2>2, ThrottledIsTyped DEF HandlerShape, Quits, At
<1> QED
  BY <1>1, <1>2

LEMMA VerifyShape ==
  ASSUME Wf, NEW p \in Pages, verifyEmailRead(p) \/ verifyEmailWrite(p)
  PROVE  HandlerShape(p) /\ Typed
<1>1. CASE verifyEmailRead(p)
  <2>1. UNCHANGED <<tableVars, throttleVars, ghostVars>> /\ At(p, "verify", "sent")
    BY <1>1 DEF verifyEmailRead
  <2>2. CASE verified \/ req[p].id \notin OpenOf(code)
    <3>1. Stays(p)
      BY <1>1, <2>2 DEF verifyEmailRead
    <3> QED
      BY <2>1, <3>1, EndsStays, CalmIsTyped DEF HandlerShape, Quits, At
  <2>3. CASE ~(verified \/ req[p].id \notin OpenOf(code))
    <3>1. req' = [req EXCEPT ![p].pc = "found"] /\ step' = step
      BY <1>1, <2>3 DEF verifyEmailRead
    <3>2. /\ Goes(p, "verify", "sent", "found") /\ PagesType' /\ ReqOK'
          /\ req'[p].id = req[p].id
      BY <2>1, <3>1, GoesSetsPc DEF At
    <3> QED
      BY <2>1, <2>3, <3>2, CalmIsTyped DEF HandlerShape, FindsCode
  <2> QED
    BY <2>2, <2>3
<1>2. CASE verifyEmailWrite(p)
  <2>1. Ends(p) /\ PagesType' /\ ReqOK'
    BY <1>2, EndsAnswer DEF verifyEmailWrite
  <2>2. TablesType' /\ ThrottlesType'
    BY <1>2, TypeParts DEF Wf, TablesType, ThrottlesType, throttleVars, verifyEmailWrite, RowStates
  <2>3. GhostsType'
    BY <1>2, TypeParts DEF Wf, GhostsType, verifyEmailWrite
  <2> QED
    BY <1>2, <2>1, <2>2, <2>3, TypePartsNext DEF HandlerShape, Typed
<1> QED
  BY <1>1, <1>2

LEMMA ResetShape ==
  ASSUME Wf, NEW p \in Pages, resetPasswordRead(p) \/ resetPasswordWrite(p)
  PROVE  HandlerShape(p) /\ Typed
<1>1. CASE resetPasswordRead(p)
  <2>1. UNCHANGED <<tableVars, throttleVars, ghostVars>> /\ At(p, "reset", "sent")
    BY <1>1 DEF resetPasswordRead
  <2>2. CASE req[p].id \notin OpenOf(link)
    <3>1. Stays(p)
      BY <1>1, <2>2 DEF resetPasswordRead
    <3> QED
      BY <2>1, <3>1, EndsStays, CalmIsTyped DEF HandlerShape, Quits, At
  <2>3. CASE req[p].id \in OpenOf(link)
    <3>1. req' = [req EXCEPT ![p].pc = "found"] /\ step' = step
      BY <1>1, <2>3 DEF resetPasswordRead
    <3>2. /\ Goes(p, "reset", "sent", "found") /\ PagesType' /\ ReqOK'
          /\ req'[p].id = req[p].id
      BY <2>1, <3>1, GoesSetsPc DEF At
    <3> QED
      BY <2>1, <2>3, <3>2, CalmIsTyped DEF HandlerShape, FindsLink
  <2> QED
    BY <2>2, <2>3
<1>2. CASE resetPasswordWrite(p)
  <2>1. Ends(p) /\ PagesType' /\ ReqOK'
    BY <1>2, EndsAnswer DEF resetPasswordWrite
  <2>2. TablesType' /\ ThrottlesType'
    BY <1>2, TypeParts DEF Wf, TablesType, ThrottlesType, throttleVars, resetPasswordWrite, RowStates
  <2>3. GhostsType'
    <3>1. uses \in [verify : Nat, reset : [Ids -> Nat], recovery : [RecoveryCodes -> Nat]]
      BY TypeParts DEF Wf, GhostsType
    <3>2. uses' = [uses EXCEPT !.reset = [uses.reset EXCEPT ![req[p].id] = @ + 1]]
      BY <1>2 DEF resetPasswordWrite
    <3>3. ASSUME NEW f \in [Ids -> Nat], NEW i PROVE [f EXCEPT ![i] = @ + 1] \in [Ids -> Nat]
      <4>1. \A k \in Ids : [f EXCEPT ![i] = @ + 1][k] = IF k = i THEN f[i] + 1 ELSE f[k]
        OBVIOUS
      <4>2. \A k \in Ids : [f EXCEPT ![i] = @ + 1][k] \in Nat
        BY <4>1
      <4> QED
        BY <4>2
    <3>4. [uses.reset EXCEPT ![req[p].id] = @ + 1] \in [Ids -> Nat]
      BY <3>1, <3>3
    <3> QED
      BY <1>2, <3>1, <3>2, <3>4, TypeParts DEF Wf, GhostsType, resetPasswordWrite
  <2> QED
    BY <1>2, <2>1, <2>2, <2>3, TypePartsNext DEF HandlerShape, Typed
<1> QED
  BY <1>1, <1>2

LEMMA ClosedType ==
  ASSUME NEW table \in [Ids -> RowStates]
  PROVE  /\ Closed(table) \in [Ids -> RowStates]
         /\ \A i \in Ids : Closed(table)[i] = IF table[i] = "open" THEN "used" ELSE table[i]
BY DEF Closed, RowStates

LEMMA RowsShape ==
  ASSUME Wf, NEW p \in Pages, NEW kind \in {"resend", "forgot"},
         CountRows(p, kind) \/ CloseRows(p, kind)
  PROVE  HandlerShape(p) /\ Typed
<1>1. ShownAfter[kind] \in {"verify", "sent"} /\ TableOf[kind] \in {"code", "link"}
  BY DEF ShownAfter, TableOf
<1>2. CASE CountRows(p, kind)
  <2>1. UNCHANGED <<tableVars, throttleVars, ghostVars>> /\ At(p, kind, "sent")
    BY <1>2 DEF CountRows
  <2> DEFINE refused == \/ kind = "resend" /\ verified
                        \/ ~account
                        \/ Cardinality(fresh[TableOf[kind]]) >= HourLimit
  <2>2. CASE refused
    <3>1. Answer(p, ShownAfter[kind])
      BY <1>2, <2>2 DEF CountRows
    <3>2. Ends(p) /\ PagesType' /\ ReqOK'
      BY <1>1, <3>1, EndsAnswer
    <3> QED
      BY <2>1, <3>2, CalmIsTyped DEF HandlerShape, Quits, At
  <2>3. CASE ~refused
    <3>1. req' = [req EXCEPT ![p].pc = "counted"] /\ step' = step
      BY <1>2, <2>3 DEF CountRows
    <3>2. Goes(p, kind, "sent", "counted") /\ PagesType' /\ ReqOK'
      BY <2>1, <3>1, GoesSetsPc DEF At
    <3>3. fresh \in [code : SUBSET Ids, link : SUBSET Ids]
      BY DEF Wf, TypeOK
    <3>4. IsFiniteSet(fresh[TableOf[kind]])
      <4>1. IsFiniteSet(Ids)
        BY FS_Interval, CredentialsConstants DEF Ids
      <4>2. fresh[TableOf[kind]] \in SUBSET Ids
        BY <1>1, <3>3
      <4> QED
        BY <4>1, <4>2, FS_Subset
    <3>5. Cardinality(fresh[TableOf[kind]]) \in Nat
      BY <3>4, FS_CardinalityType
    <3>6. Cardinality(fresh[TableOf[kind]]) < HourLimit
      BY <2>3, <3>5, CredentialsConstants
    <3>7. Calm /\ Typed
      BY <2>1, <3>2, CalmIsTyped
    <3> QED
      BY <2>3, <3>2, <3>6, <3>7 DEF HandlerShape, Counts
  <2> QED
    BY <2>2, <2>3
<1>3. CASE CloseRows(p, kind)
  <2>1. req' = [req EXCEPT ![p].pc = "closed"] /\ At(p, kind, "counted") /\ step' = step
    BY <1>3 DEF CloseRows
  <2>2. Goes(p, kind, "counted", "closed") /\ PagesType' /\ ReqOK'
    BY <2>1, GoesSetsPc DEF At
  <2>3. /\ \/ code' = Closed(code) /\ link' = link
           \/ link' = Closed(link) /\ code' = code
        /\ UNCHANGED <<account, verified, fresh, tfa, batches, throttleVars, ghostVars>>
    BY <1>3 DEF CloseRows
  <2>4. TablesType'
    BY <2>3, TypeParts, ClosedType DEF Wf, TablesType
  <2>5. ThrottlesType' /\ GhostsType'
    BY <2>3, TypeParts DEF Wf, ThrottlesType, GhostsType, throttleVars, ghostVars
  <2> QED
    BY <1>3, <2>2, <2>4, <2>5, TypePartsNext DEF HandlerShape, Typed, Closes
<1> QED
  BY <1>2, <1>3

LEMMA CreateShape ==
  ASSUME Wf, NEW p \in Pages, NEW kind \in {"register", "resend", "forgot"}, CreateRow(p, kind)
  PROVE  HandlerShape(p) /\ Typed
<1>1. /\ ShownAfter[kind] \in {"verify", "sent"}
      /\ (TableOf[kind] = "link" /\ kind = "forgot") \/ (TableOf[kind] = "code" /\ kind # "forgot")
  BY DEF ShownAfter, TableOf
<1>2. Ends(p) /\ PagesType' /\ ReqOK'
  BY <1>1, EndsAnswer DEF CreateRow
<1>3. UNCHANGED <<account, verified, tfa, batches, throttleVars, ghostVars>>
  BY DEF CreateRow
<1>4. /\ code \in [Ids -> RowStates] /\ link \in [Ids -> RowStates]
      /\ fresh \in [code : SUBSET Ids, link : SUBSET Ids]
  BY DEF Wf, TypeOK
<1>5. /\ code' \in [Ids -> RowStates] /\ link' \in [Ids -> RowStates]
      /\ fresh' \in [code : SUBSET Ids, link : SUBSET Ids]
  <2>1. CASE TableOf[kind] = "code"
    <3>1. PICK i \in Ids : /\ code' = [code EXCEPT ![i] = "open"] /\ link' = link
                           /\ fresh' = [fresh EXCEPT !.code = @ \cup {i}]
      BY <2>1 DEF CreateRow, NewId
    <3> QED
      BY <1>4, <3>1 DEF RowStates
  <2>2. CASE TableOf[kind] = "link"
    <3>1. PICK i \in Ids : /\ link' = [link EXCEPT ![i] = "open"] /\ code' = code
                           /\ fresh' = [fresh EXCEPT !.link = @ \cup {i}]
      BY <2>2 DEF CreateRow, NewId
    <3> QED
      BY <1>4, <3>1 DEF RowStates
  <2> QED
    BY <1>1, <2>1, <2>2
<1>6. TablesType' /\ ThrottlesType' /\ GhostsType'
  BY <1>3, <1>5, TypeParts DEF Wf, TablesType, ThrottlesType, GhostsType, throttleVars, ghostVars
<1> QED
  BY <1>2, <1>6, TypePartsNext DEF HandlerShape, Typed, Creates

LEMMA BatchType == \A b : Batch(b) \in SUBSET RecoveryCodes
BY DEF Batch

LEMMA TwoFactorReadShape ==
  ASSUME Wf, NEW p \in Pages, completeTwoFactorRead(p)
  PROVE  HandlerShape(p) /\ Typed
<1> DEFINE refused == \/ ~tfa.on
                      \/ req[p].id = 0
                      \/ req[p].id = 2 /\ ~matches(req[p].hashes, tfa.hashes)
<1>1. At(p, "twoFactor", "sent") /\ UNCHANGED <<tableVars, clock, requests, overlaps>>
  BY DEF completeTwoFactorRead
<1>2. CASE refused \/ req[p].id = 1
  <2>1. uses' = uses
    BY <1>2 DEF completeTwoFactorRead
  <2>2. (recordFailedAttempt(p) \/ clearAttempts(p)) /\ Ends(p) /\ PagesType' /\ ReqOK'
    <3>1. CASE refused
      BY <3>1, EndsStays DEF completeTwoFactorRead, Refuse
    <3>2. CASE ~refused /\ req[p].id = 1
      BY <3>2, EndsAnswer DEF completeTwoFactorRead
    <3> QED
      BY <1>2, <3>1, <3>2
  <2> QED
    BY <1>1, <2>1, <2>2, ThrottledIsTyped DEF HandlerShape, Quits, At, ghostVars
<1>3. CASE ~refused /\ req[p].id # 1
  <2> DEFINE r == [req[p] EXCEPT !.pc = "matched",
                                 !.hashes = remaining(req[p].hashes, tfa.hashes)]
             u == [c \in RecoveryCodes |-> IF c \in req[p].hashes THEN uses.recovery[c] + 1
                                                                 ELSE uses.recovery[c]]
  <2>1. req' = [req EXCEPT ![p] = r] /\ uses' = [uses EXCEPT !.recovery = u]
        /\ UNCHANGED <<attempt, early, step>>
    BY <1>3 DEF completeTwoFactorRead
  <2>2. /\ req \in [Pages -> ReqType] /\ req[p] \in ReqType /\ tfa.hashes \in SUBSET RecoveryCodes
        /\ uses \in [verify : Nat, reset : [Ids -> Nat], recovery : [RecoveryCodes -> Nat]]
    BY DEF Wf, TypeOK, ReqType
  <2>3. r \in ReqType /\ r.kind = "twoFactor" /\ r.pc = "matched"
        /\ r.hashes = tfa.hashes \ req[p].hashes
    BY <1>1, <2>2 DEF ReqType, At, remaining
  <2>4. uses' \in [verify : Nat, reset : [Ids -> Nat], recovery : [RecoveryCodes -> Nat]]
    <3>1. u \in [RecoveryCodes -> Nat]
      BY <2>2
    <3> HIDE DEF u
    <3> QED
      BY <2>1, <2>2, <3>1
  <2>5. tfa.on /\ req[p].hashes \subseteq tfa.hashes
    BY <1>1, <1>3 DEF matches, Wf, ReqOK, At
  <2> HIDE DEF r
  <2>6. req'[p] = r
    BY <2>1, <2>2
  <2>7. r.id = req[p].id
    BY <2>2 DEF r, ReqType
  <2>8. Goes(p, "twoFactor", "sent", "matched") /\ GoesOn(p)
    BY <1>1, <2>1, <2>3, <2>6, <2>7 DEF Goes, GoesOn, Moves, At
  <2>9. PagesType' /\ ReqOK'
    BY <2>1, <2>8, GoesOnType, TypeParts DEF PagesType, Wf
  <2>10. TablesType' /\ ThrottlesType' /\ GhostsType'
    BY <1>1, <2>1, <2>4, TypeParts DEF Wf, TablesType, ThrottlesType, GhostsType, tableVars
  <2>11. Consumes(p)
    <3>1. uses' = [uses EXCEPT !.recovery =
                     [c \in RecoveryCodes |-> IF c \in req[p].hashes THEN @[c] + 1 ELSE @[c]]]
      BY <1>3 DEF completeTwoFactorRead
    <3> QED
      BY <1>1, <2>3, <2>5, <2>6, <2>8, <3>1 DEF Consumes
  <2> QED
    BY <2>9, <2>10, <2>11, TypePartsNext DEF HandlerShape, Typed
<1> QED
  BY <1>2, <1>3

LEMMA SecondFactorShape ==
  ASSUME Wf, NEW p \in Pages,
         \/ completeTwoFactorWrite(p) \/ twoFactorSettingRead(p)
         \/ enableTwoFactorWrite(p) \/ disableTwoFactorWrite(p)
  PROVE  HandlerShape(p) /\ Typed
<1>1. /\ req \in [Pages -> ReqType] /\ batches \in 0 .. MaxBatches /\ MaxBatches \in Nat
      /\ tfa \in [on : BOOLEAN, hashes : SUBSET RecoveryCodes]
  BY CredentialsConstants DEF Wf, TypeOK, ReqType
<1>2. CASE completeTwoFactorWrite(p)
  <2>1. Ends(p) /\ PagesType' /\ ReqOK'
    BY <1>2, EndsAnswer DEF completeTwoFactorWrite
  <2>2. TablesType'
    <3>1. req[p].hashes \in SUBSET RecoveryCodes
      BY <1>1 DEF ReqType
    <3> QED
      BY <1>1, <1>2, <3>1, TypeParts DEF Wf, TablesType, completeTwoFactorWrite
  <2>3. ThrottlesType' /\ GhostsType'
    BY <1>2, ThrottleType, TypeParts
       DEF Wf, ThrottlesType, GhostsType, ghostVars, completeTwoFactorWrite
  <2> QED
    BY <1>2, <2>1, <2>2, <2>3, TypePartsNext DEF HandlerShape, Typed
<1>3. CASE twoFactorSettingRead(p)
  <2>1. /\ UNCHANGED <<tableVars, throttleVars, ghostVars>>
        /\ At(p, "enable", "sent") \/ At(p, "disable", "sent")
    BY <1>3 DEF twoFactorSettingRead, At
  <2> DEFINE refused == \/ (req[p].kind = "enable") = tfa.on
                        \/ req[p].id = 2 /\ ~matches(req[p].hashes, tfa.hashes)
  <2>2. CASE refused
    <3>1. Stays(p)
      BY <1>3, <2>2 DEF twoFactorSettingRead
    <3> QED
      BY <2>1, <3>1, EndsStays, CalmIsTyped DEF HandlerShape, Quits, At
  <2>3. CASE ~refused
    <3>1. req' = [req EXCEPT ![p].pc = "checked"] /\ step' = step
      BY <1>3, <2>3 DEF twoFactorSettingRead
    <3>2. /\ PagesType' /\ ReqOK'
          /\ Goes(p, "enable", "sent", "checked") \/ Goes(p, "disable", "sent", "checked")
      BY <2>1, <3>1, GoesSetsPc DEF At
    <3> QED
      BY <2>1, <3>2, CalmIsTyped DEF HandlerShape, Passes
  <2> QED
    BY <2>2, <2>3
<1>4. CASE enableTwoFactorWrite(p)
  <2>1. Ends(p) /\ PagesType' /\ ReqOK'
    BY <1>4, EndsStays DEF enableTwoFactorWrite
  <2>2. TablesType'
    BY <1>1, <1>4, BatchType, TypeParts DEF Wf, TablesType, enableTwoFactorWrite
  <2>3. ThrottlesType' /\ GhostsType'
    BY <1>4, TypeParts DEF Wf, ThrottlesType, GhostsType, ghostVars, throttleVars, enableTwoFactorWrite
  <2> QED
    BY <1>4, <2>1, <2>2, <2>3, TypePartsNext DEF HandlerShape, Typed
<1>5. CASE disableTwoFactorWrite(p)
  <2>1. Ends(p) /\ PagesType' /\ ReqOK'
    BY <1>5, EndsStays DEF disableTwoFactorWrite
  <2>2. TablesType'
    BY <1>1, <1>5, TypeParts DEF Wf, TablesType, disableTwoFactorWrite
  <2>3. ThrottlesType' /\ GhostsType'
    BY <1>5, TypeParts DEF Wf, ThrottlesType, GhostsType, ghostVars, throttleVars, disableTwoFactorWrite
  <2> QED
    BY <1>5, <2>1, <2>2, <2>3, TypePartsNext DEF HandlerShape, Typed
<1> QED
  BY <1>2, <1>3, <1>4, <1>5

\* Every step of a handler has one of the shapes.
LEMMA HandlerShapes ==
  ASSUME Wf, NEW p \in Pages, HandlerStep(p)
  PROVE  HandlerShape(p) /\ Typed
BY RegisterShape, LoginShape, VerifyShape, ResetShape, RowsShape, CreateShape, TwoFactorReadShape,
   SecondFactorShape
   DEF HandlerStep, registerCode, resendVerificationCode, requestPasswordReset

LEMMA RequestType ==
  ASSUME NEW kind \in Kinds, NEW id \in Nat
  PROVE  /\ \A r \in {Request(kind, id)} \cup WithCaptcha(Request(kind, id)) :
               r \in ReqType /\ r.kind = kind /\ r.pc = "sent" /\ r.id = id
         /\ \A h \in SUBSET RecoveryCodes :
               LET r == [Request(kind, id) EXCEPT !.hashes = h]
               IN r \in ReqType /\ r.kind = kind /\ r.pc = "sent" /\ r.id = id
<1>1. NoReq \in ReqType
  BY DEF NoReq, ReqType
<1>2. /\ Request(kind, id) \in ReqType /\ Request(kind, id).kind = kind
      /\ Request(kind, id).pc = "sent" /\ Request(kind, id).id = id
  BY <1>1 DEF Request, ReqType
<1> DEFINE q == Request(kind, id)
<1>3. \A h \in BOOLEAN : LET r == [q EXCEPT !.human = h]
                         IN r \in ReqType /\ r.kind = kind /\ r.pc = "sent" /\ r.id = id
  <2> HIDE DEF q
  <2> SUFFICES ASSUME NEW h \in BOOLEAN, q \in ReqType, q.kind = kind, q.pc = "sent", q.id = id
               PROVE  LET r == [q EXCEPT !.human = h]
                      IN r \in ReqType /\ r.kind = kind /\ r.pc = "sent" /\ r.id = id
    BY <1>2 DEF q
  <2> QED
    BY DEF ReqType
<1>4. \A h \in SUBSET RecoveryCodes :
        LET r == [q EXCEPT !.hashes = h]
        IN r \in ReqType /\ r.kind = kind /\ r.pc = "sent" /\ r.id = id
  <2> HIDE DEF q
  <2> SUFFICES ASSUME NEW h \in SUBSET RecoveryCodes,
                      q \in ReqType, q.kind = kind, q.pc = "sent", q.id = id
               PROVE  LET r == [q EXCEPT !.hashes = h]
                      IN r \in ReqType /\ r.kind = kind /\ r.pc = "sent" /\ r.id = id
    BY <1>2 DEF q
  <2> QED
    BY DEF ReqType
<1> QED
  BY <1>2, <1>3, <1>4 DEF WithCaptcha

LEMMA SendShape ==
  ASSUME Wf, NEW p \in Pages, Idle(p), NEW r \in ReqType, Send(p, r),
         r.kind \in Kinds, r.pc = "sent", r.kind = "twoFactor" => r.id \in {0, 1, 2}
  PROVE  /\ Leaves(p) /\ Wf' /\ req'[p] = r /\ step' = step /\ card' = card
         /\ outdated' = outdated
         /\ overlaps'["secondFactor"] = overlaps["secondFactor"]
               + IF r.kind \in SecondFactor /\ ChangeUnderWay(p) THEN 1 ELSE 0
<1>1. /\ req \in [Pages -> ReqType] /\ overlaps \in [Kinds \cup {"secondFactor"} -> Nat]
      /\ requests \in Nat
  BY DEF Wf, TypeOK, ReqType
<1>2. req' = [req EXCEPT ![p] = r] /\ requests' = requests + 1
      /\ UNCHANGED <<tableVars, throttleVars, step, uses, cardVars>>
  BY DEF Send
<1>3. req' \in [Pages -> ReqType] /\ req'[p] = r /\ \A q \in Pages \ {p} : req'[q] = req[q]
  BY <1>1, <1>2
<1>4. "secondFactor" \notin Kinds
  BY DEF Kinds
<1> DEFINE a == IF Overlapping(Rivals(r.kind)) THEN 1 ELSE 0
           b == IF r.kind \in SecondFactor /\ ChangeUnderWay(p) THEN 1 ELSE 0
<1>5. a \in {0, 1} /\ b \in {0, 1}
  OBVIOUS
<1>6. overlaps' = [overlaps EXCEPT ![r.kind] = @ + a, !["secondFactor"] = @ + b]
  BY DEF Send
<1>7. /\ overlaps' \in [Kinds \cup {"secondFactor"} -> Nat]
      /\ overlaps'["secondFactor"] = overlaps["secondFactor"] + b
      /\ overlaps'[r.kind] = overlaps[r.kind] + a
      /\ \A k \in Kinds \ {r.kind} : overlaps'[k] = overlaps[k]
  <2> HIDE DEF a, b
  <2> QED
    BY <1>1, <1>4, <1>5, <1>6
<1>8. \A k \in Kinds :
        overlaps'[k] = overlaps[k] + IF k = r.kind /\ Overlapping(Rivals(k)) THEN 1 ELSE 0
  BY <1>1, <1>7
<1>9. req[p].kind = "none" /\ req[p].pc = "idle"
  BY DEF Idle, Wf, ReqOK
<1>10. Leaves(p)
  BY <1>2, <1>3, <1>8, <1>9 DEF Leaves, Moves
<1>11. ReqOK'
  <2>1. r.kind # "none"
    BY DEF Kinds
  <2> QED
    BY <1>3, <2>1 DEF ReqOK, Wf
<1>12. TablesType' /\ ThrottlesType'
  BY <1>2, TypeParts DEF Wf, TablesType, ThrottlesType, tableVars, throttleVars
<1>13. PagesType' /\ GhostsType'
  BY <1>1, <1>2, <1>3, <1>7, TypeParts DEF Wf, PagesType, GhostsType
<1>14. Wf'
  BY <1>2, <1>11, <1>12, <1>13, TypePartsNext DEF Wf, CardsOK, cardVars
<1> QED
  BY <1>2, <1>3, <1>7, <1>10, <1>14 DEF cardVars

\* The requests that a page may send, with what its form shows.
SendsOne(p) == \E r \in ReqType :
    /\ Send(p, r) /\ Idle(p) /\ r.pc = "sent" /\ r.kind \in Kinds
    /\ r.kind = "twoFactor" => r.id \in {0, 1, 2}
    /\ r.kind = "resend" => step[p] = "verify"
    /\ r.kind \in {"login", "twoFactor"} => ~isBlocked
    /\ step[p] = "settings" <=> r.kind \in {"enable", "disable"}

Submits(p) == \/ submitLogin(p) \/ onRegisterSubmit(p) \/ submitVerify(p) \/ submitResend(p)
              \/ submitForgot(p) \/ submitReset(p) \/ submitTwoFactor(p)
              \/ handleEnableTwoFactor(p) \/ handleDisableTwoFactor(p)

LEMMA SubmitsSend ==
  ASSUME Wf, NEW p \in Pages, Submits(p)
  PROVE  SendsOne(p)
<1>1. req \in [Pages -> ReqType] /\ req[p].id \in Nat
  BY DEF Wf, TypeOK, ReqType
<1>2. CASE submitLogin(p)
  <2>1. PICK id \in {0, 1} : \E r \in WithCaptcha(Request("login", id)) : Send(p, r)
    BY <1>2 DEF submitLogin
  <2> QED
    BY <1>2, <2>1, RequestType DEF submitLogin, LoginForm, SendsOne, Kinds
<1>3. CASE onRegisterSubmit(p)
  BY <1>3, RequestType DEF onRegisterSubmit, RegisterForm, SendsOne, Kinds
<1>4. CASE submitVerify(p)
  <2>1. PICK i \in {0} \cup Ids : Send(p, Request("verify", i))
    BY <1>4 DEF submitVerify
  <2>2. i \in Nat
    BY DEF Ids
  <2> QED
    BY <1>4, <2>1, <2>2, RequestType DEF submitVerify, EmailVerificationStep, SendsOne, Kinds
<1>5. CASE submitResend(p)
  BY <1>5, RequestType DEF submitResend, EmailVerificationStep, SendsOne, Kinds
<1>6. CASE submitForgot(p)
  BY <1>6, RequestType DEF submitForgot, ForgotPasswordForm, SendsOne, Kinds
<1>7. CASE submitReset(p)
  BY <1>1, <1>7, RequestType DEF submitReset, ResetPasswordForm, SendsOne, Kinds
<1>8. CASE submitTwoFactor(p)
  <2>1. CASE \E right \in {0, 1} : Send(p, Request("twoFactor", right))
    BY <1>8, <2>1, RequestType DEF submitTwoFactor, TwoFactorLoginStep, SendsOne, Kinds
  <2>2. CASE \E r \in RecoveryCodes : Send(p, [Request("twoFactor", 2) EXCEPT !.hashes = {r}])
    <3>1. PICK c \in RecoveryCodes : Send(p, [Request("twoFactor", 2) EXCEPT !.hashes = {c}])
      BY <2>2
    <3> DEFINE r == [Request("twoFactor", 2) EXCEPT !.hashes = {c}]
    <3>2. r \in ReqType /\ r.kind = "twoFactor" /\ r.pc = "sent" /\ r.id = 2
      <4>1. {c} \in SUBSET RecoveryCodes /\ "twoFactor" \in Kinds
        BY DEF Kinds
      <4> QED
        BY <4>1, RequestType
    <3> HIDE DEF r
    <3>3. Send(p, r)
      BY <3>1 DEF r
    <3> QED
      BY <1>8, <3>2, <3>3 DEF submitTwoFactor, TwoFactorLoginStep, SendsOne, Kinds
  <2> QED
    BY <1>8, <2>1, <2>2 DEF submitTwoFactor
<1>9. CASE handleEnableTwoFactor(p)
  BY <1>9, RequestType DEF handleEnableTwoFactor, OffersActivation, SendsOne, Kinds
<1>10. CASE handleDisableTwoFactor(p)
  <2>1. CASE Send(p, Request("disable", 1))
    BY <1>10, <2>1, RequestType DEF handleDisableTwoFactor, OffersDeactivation, SendsOne, Kinds
  <2>2. CASE \E r \in RecoveryCodes : Send(p, [Request("disable", 2) EXCEPT !.hashes = {r}])
    <3>1. PICK c \in RecoveryCodes : Send(p, [Request("disable", 2) EXCEPT !.hashes = {c}])
      BY <2>2
    <3> DEFINE r == [Request("disable", 2) EXCEPT !.hashes = {c}]
    <3>2. r \in ReqType /\ r.kind = "disable" /\ r.pc = "sent" /\ r.id = 2
      <4>1. {c} \in SUBSET RecoveryCodes /\ "disable" \in Kinds
        BY DEF Kinds
      <4> QED
        BY <4>1, RequestType
    <3> HIDE DEF r
    <3>3. Send(p, r)
      BY <3>1 DEF r
    <3> QED
      BY <1>10, <3>2, <3>3 DEF handleDisableTwoFactor, OffersDeactivation, SendsOne, Kinds
  <2> QED
    BY <1>10, <2>1, <2>2 DEF handleDisableTwoFactor
<1> QED
  BY <1>2, <1>3, <1>4, <1>5, <1>6, <1>7, <1>8, <1>9, <1>10 DEF Submits

LEMMA LinksType ==
  ASSUME Wf, NEW p \in Pages, NEW to \in Links[step[p]]
  PROVE  to \in {"register", "login", "forgot", "home"}
<1>1. step[p] \in {"register", "login", "verify", "forgot", "sent", "reset",
                   "twoFactor", "home", "settings"}
  BY DEF Wf, TypeOK
<1>2. CASE step[p] \in {"register", "login", "verify", "forgot", "sent"}
  BY <1>2 DEF Links
<1>3. CASE step[p] \in {"reset", "twoFactor", "home", "settings"}
  BY <1>3 DEF Links
<1> QED
  BY <1>1, <1>2, <1>3

\* The moves of a page that send nothing.
Turns(p) == \/ follow(p) \/ openResetLink(p) \/ openSettings(p)
            \/ handleBeginSetup(p) \/ dismiss(p) \/ onStatusChanged(p)

LEMMA TurnsShape ==
  ASSUME Wf, NEW p \in Pages, Turns(p)
  PROVE  Calm /\ UNCHANGED throttleVars /\ ((Ends(p) /\ Idle(p)) \/ req' = req) /\ Wf'
<1>1. /\ card \in [Pages -> CardType] /\ outdated \in SUBSET Pages /\ card[p] \in CardType
      /\ NoCard \in CardType /\ tfa.on \in BOOLEAN /\ req \in [Pages -> ReqType]
      /\ req[p] \in ReqType
  BY DEF Wf, CardsOK, NoCard, CardType, TypeOK, ReqType
<1>2. ASSUME UNCHANGED <<tableVars, throttleVars, ghostVars>>, PagesType', ReqOK', CardsOK',
             (Ends(p) /\ Idle(p)) \/ req' = req
      PROVE  Calm /\ UNCHANGED throttleVars /\ ((Ends(p) /\ Idle(p)) \/ req' = req) /\ Wf'
  BY <1>2, CalmIsTyped DEF Wf, Typed
<1>3. CASE follow(p)
  <2>1. PICK to \in Links[step[p]] : Answer(p, to)
    BY <1>3 DEF follow
  <2>2. to \in {"register", "login", "verify", "forgot", "sent", "reset",
                "twoFactor", "home", "settings"}
    BY LinksType
  <2>3. Ends(p) /\ PagesType' /\ ReqOK'
    BY <2>1, <2>2, EndsAnswer
  <2> QED
    BY <1>1, <1>2, <1>3, <2>3 DEF follow, CardsOK
<1>4. CASE openResetLink(p)
  <2>1. PICK i \in Ids : req' = [req EXCEPT ![p].id = i]
    BY <1>4 DEF openResetLink, OpenOf
  <2>2. i \in Nat
    BY DEF Ids
  <2> DEFINE r == [req[p] EXCEPT !.id = i]
  <2>3. r \in ReqType /\ r.kind = "none" /\ r.pc = "idle"
    BY <1>1, <1>4, <2>2 DEF openResetLink, LoginForm, Idle, ReqType, Wf, ReqOK
  <2>4. req' = [req EXCEPT ![p] = r]
    BY <2>1
  <2> HIDE DEF r
  <2>5. req' \in [Pages -> ReqType] /\ req'[p] = r /\ \A q \in Pages \ {p} : req'[q] = req[q]
    BY <1>1, <2>3, <2>4
  <2>6. Ends(p)
    BY <2>3, <2>4, <2>5 DEF Ends, Moves
  <2>7. ReqOK'
    BY <2>3, <2>5 DEF Wf, ReqOK
  <2>8. PagesType'
    BY <1>4, <2>5, TypeParts DEF PagesType, Wf, openResetLink
  <2> QED
    BY <1>2, <1>4, <2>6, <2>7, <2>8 DEF openResetLink, LoginForm, cardVars, Wf, CardsOK
<1>5. CASE openSettings(p)
  <2>1. PagesType' /\ ReqOK'
    BY <1>5, TypeParts DEF PagesType, Wf, openSettings, ReqOK
  <2>2. [NoCard EXCEPT !.on = tfa.on] \in CardType
    BY <1>1 DEF CardType
  <2>3. CardsOK'
    BY <1>1, <1>5, <2>2 DEF CardsOK, openSettings
  <2> QED
    BY <1>2, <1>5, <2>1, <2>3 DEF openSettings
<1>6. CASE handleBeginSetup(p) \/ dismiss(p) \/ onStatusChanged(p)
  <2>1. \A c \in CardType :
          /\ [c EXCEPT !.setup = FALSE] \in CardType
          /\ [c EXCEPT !.shown = 0] \in CardType
          /\ [[c EXCEPT !.shown = 0] EXCEPT !.setup = ~tfa.on] \in CardType
          /\ [[c EXCEPT !.on = tfa.on] EXCEPT !.refetch = FALSE] \in CardType
    <3>1. /\ \A c \in CardType, b \in BOOLEAN :
               /\ [c EXCEPT !.setup = b] \in CardType
               /\ [c EXCEPT !.on = b] \in CardType
               /\ [c EXCEPT !.refetch = b] \in CardType
          /\ \A c \in CardType : [c EXCEPT !.shown = 0] \in CardType
      BY DEF CardType
    <3> QED
      BY <1>1, <3>1
  <2>2. UNCHANGED vars /\ outdated' \in SUBSET Pages
    BY <1>1, <1>6 DEF handleBeginSetup, dismiss, onStatusChanged
  <2>3. \/ card' = [card EXCEPT ![p] = [[@ EXCEPT !.shown = 0] EXCEPT !.setup = ~tfa.on]]
        \/ card' = [card EXCEPT ![p] = [@ EXCEPT !.shown = 0]]
        \/ card' = [card EXCEPT ![p] = [@ EXCEPT !.setup = FALSE]]
        \/ card' = [card EXCEPT ![p] = [[@ EXCEPT !.on = tfa.on] EXCEPT !.refetch = FALSE]]
    BY <1>6 DEF handleBeginSetup, dismiss, onStatusChanged
  <2>4. CardsOK'
    BY <1>1, <2>1, <2>2, <2>3 DEF CardsOK
  <2>5. PagesType' /\ ReqOK' /\ UNCHANGED <<tableVars, throttleVars, ghostVars>> /\ req' = req
    BY <2>2, TypeParts DEF vars, pageVars, PagesType, Wf, ReqOK
  <2> QED
    BY <1>2, <2>4, <2>5
<1> QED
  BY <1>3, <1>4, <1>5, <1>6 DEF Turns

LEMMA CardHearsType ==
  ASSUME Wf, NEW p \in Pages, CardHears(p), batches' \in Nat
  PROVE  CardsOK'
<1>1. card \in [Pages -> CardType] /\ outdated \in SUBSET Pages
  BY DEF Wf, CardsOK
<1> DEFINE shows(c) == [[[c EXCEPT !.setup = FALSE] EXCEPT !.shown = batches']
                           EXCEPT !.refetch = TRUE]
           waits(c) == [c EXCEPT !.refetch = TRUE]
<1>2. \A c \in CardType : shows(c) \in CardType /\ waits(c) \in CardType
  <2>1. \A c \in CardType, b \in BOOLEAN :
             [c EXCEPT !.setup = b] \in CardType /\ [c EXCEPT !.refetch = b] \in CardType
    BY DEF CardType
  <2>2. \A c \in CardType : [c EXCEPT !.shown = batches'] \in CardType
    BY DEF CardType
  <2> QED
    BY <2>1, <2>2
<1>3. \/ card' = card
      \/ card' = [card EXCEPT ![p] = shows(@)]
      \/ card' = [card EXCEPT ![p] = waits(@)]
  BY DEF CardHears
<1>4. outdated' \in SUBSET Pages
  <2>1. outdated' = outdated \/ outdated' = {q \in Pages : step[q] = "settings"}
    BY DEF CardHears
  <2> QED
    BY <1>1, <2>1
<1>5. card' \in [Pages -> CardType]
  <2> HIDE DEF shows, waits
  <2> QED
    BY <1>1, <1>2, <1>3
<1> QED
  BY <1>4, <1>5 DEF CardsOK

LEMMA TimeIsTyped ==
  ASSUME Wf, cleanup \/ Tick \/ HourPasses, UNCHANGED cardVars
  PROVE  Wf' /\ req' = req /\ step' = step /\ (HourPasses \/ Calm)
<1>1. req' = req /\ step' = step /\ UNCHANGED ghostVars
  BY DEF cleanup, Tick, HourPasses, pageVars
<1>2. PagesType' /\ GhostsType' /\ ReqOK' /\ CardsOK'
  BY <1>1, TypeParts DEF Wf, PagesType, GhostsType, ReqOK, CardsOK, cardVars, ghostVars
<1>3. CASE cleanup \/ Tick
  <2>1. TablesType' /\ Calm
    BY <1>1, <1>3, TypeParts DEF Wf, TablesType, cleanup, Tick, tableVars, Calm, ghostVars
  <2>2. ThrottlesType'
    <3>1. NoAttempt \in AttemptType
      BY DEF NoAttempt, AttemptType
    <3> QED
      BY <1>3, <3>1, TypeParts, CredentialsConstants DEF Wf, ThrottlesType, cleanup, Tick
  <2> QED
    BY <1>1, <1>2, <2>1, <2>2, TypePartsNext DEF Wf
<1>4. CASE HourPasses
  <2>1. TablesType' /\ ThrottlesType'
    BY <1>4, TypeParts, ClosedType DEF Wf, TablesType, ThrottlesType, HourPasses, throttleVars
  <2> QED
    BY <1>1, <1>2, <1>4, <2>1, TypePartsNext DEF Wf
<1> QED
  BY <1>3, <1>4

\* A step is a handler's, a request, a move of a page, or time.
LEMMA StepKeepsWf ==
  ASSUME Wf, [Next]_authVars
  PROVE  /\ Wf'
         /\ \/ \E p \in Pages : \/ HandlerStep(p) /\ HandlerShape(p) /\ CardHears(p)
                                \/ SendsOne(p)
                                \/ Turns(p) /\ Calm /\ ((Ends(p) /\ Idle(p)) \/ req' = req)
            \/ HourPasses /\ req' = req /\ UNCHANGED cardVars
            \/ (cleanup \/ Tick) /\ Calm /\ req' = req /\ UNCHANGED cardVars
            \/ UNCHANGED authVars /\ Calm /\ req' = req
<1>1. ASSUME NEW p \in Pages, HandlerStep(p), CardHears(p)
      PROVE  Wf' /\ HandlerShape(p)
  <2>1. HandlerShape(p) /\ Typed
    BY <1>1, HandlerShapes
  <2>2. batches' \in Nat
    BY <2>1, TypePartsNext DEF Typed, TablesType
  <2> QED
    BY <1>1, <2>1, <2>2, CardHearsType DEF Wf, Typed
<1>2. ASSUME NEW p \in Pages, PageStep(p)
      PROVE  Wf' /\ \/ SendsOne(p)
                    \/ Turns(p) /\ Calm /\ ((Ends(p) /\ Idle(p)) \/ req' = req)
  <2>1. Submits(p) \/ Turns(p)
    BY <1>2 DEF PageStep, Submits, Turns
  <2>2. CASE Submits(p)
    <3>1. PICK r \in ReqType : /\ Send(p, r) /\ Idle(p) /\ r.pc = "sent" /\ r.kind \in Kinds
                               /\ r.kind = "twoFactor" => r.id \in {0, 1, 2}
      BY <2>2, SubmitsSend DEF SendsOne
    <3> QED
      BY <2>2, <3>1, SubmitsSend, SendShape
  <2>3. CASE Turns(p)
    BY <2>3, TurnsShape
  <2> QED
    BY <2>1, <2>2, <2>3
<1>3. CASE (cleanup \/ Tick \/ HourPasses) /\ UNCHANGED cardVars
  <2>1. Wf' /\ req' = req /\ (HourPasses \/ Calm)
    BY <1>3, TimeIsTyped
  <2> QED
    BY <1>3, <2>1
<1>4. CASE UNCHANGED authVars
  <2>1. /\ UNCHANGED <<tableVars, throttleVars, ghostVars, cardVars, pageVars>>
    BY <1>4 DEF authVars, vars
  <2>2. req' = req /\ PagesType' /\ ReqOK' /\ CardsOK'
    BY <2>1, TypeParts DEF Wf, PagesType, ReqOK, CardsOK, pageVars, cardVars
  <2> QED
    BY <1>4, <2>1, <2>2, CalmIsTyped DEF Wf, Typed
<1> QED
  BY <1>1, <1>2, <1>3, <1>4 DEF Next

LEMMA InitIsWf == ASSUME PagesInit PROVE Wf
<1>1. Batch(batches) \in SUBSET RecoveryCodes
  BY BatchType
<1>2. TablesType
  BY <1>1, CredentialsConstants DEF PagesInit, Init, TablesType, RowStates
<1>3. ThrottlesType
  BY CredentialsConstants DEF PagesInit, Init, ThrottlesType, AttemptType, NoAttempt
<1>4. NoReq \in ReqType
  BY DEF NoReq, ReqType
<1>5. PagesType /\ ReqOK
  <2>1. req = [p \in Pages |-> NoReq] /\ NoReq.kind = "none" /\ NoReq.pc = "idle"
    BY DEF PagesInit, Init, NoReq
  <2>2. step \in [Pages -> {"register", "login", "verify", "forgot", "sent", "reset",
                            "twoFactor", "home", "settings"}]
    BY DEF PagesInit, Init
  <2> QED
    BY <1>4, <2>1, <2>2 DEF PagesType, ReqOK
<1>6. GhostsType
  BY DEF PagesInit, Init, GhostsType
<1>7. CardsOK
  <2>1. NoCard \in CardType
    BY DEF NoCard, CardType
  <2> QED
    BY <2>1 DEF PagesInit, CardsOK
<1> QED
  BY <1>2, <1>3, <1>5, <1>6, <1>7, TypeParts DEF Wf

\* The state of an account's credentials, of the throttler and of the pages
\* keeps its shape (auth.service.ts, two-factor.service.ts,
\* login-throttler.service.ts).
THEOREM TypeCorrect == Spec => []TypeOK
<1>1. PagesInit => Wf
  BY InitIsWf
<1>2. Wf /\ [Next]_authVars => Wf'
  BY StepKeepsWf
<1>3. Wf => TypeOK
  BY DEF Wf
<1> QED
  BY <1>1, <1>2, <1>3, PTL DEF Spec

-----------------------------------------------------------------------------
(* The block of an address                                                  *)

\* A request leaves the pages that are busy only when it ends.
LEMMA EndsBusy ==
  ASSUME Wf, NEW p \in Pages, Ends(p), NEW kind \in Kinds
  PROVE  Busy(kind)' = Busy(kind) \ {p}
<1>1. req \in [Pages -> ReqType] /\ kind # "none"
  BY DEF Wf, TypeOK, ReqType, Kinds
<1>2. req'[p].kind = "none" /\ \A q \in Pages \ {p} : req'[q] = req[q]
  BY <1>1 DEF Ends, Moves
<1> QED
  BY <1>1, <1>2 DEF Busy

LEMMA MovesOne ==
  ASSUME Wf, NEW p \in Pages, Moves(p)
  PROVE  \A q \in Pages \ {p} : req'[q] = req[q]
<1>1. req \in [Pages -> ReqType]
  BY DEF Wf, TypeOK, ReqType
<1> QED
  BY <1>1 DEF Moves

LEMMA GoesBusy ==
  ASSUME Wf, NEW p \in Pages, NEW k, NEW from, NEW to, Goes(p, k, from, to), NEW kind \in Kinds
  PROVE  Busy(kind)' = Busy(kind)
<1>1. req'[p].kind = req[p].kind
  BY DEF Goes, At
<1> QED
  BY <1>1, MovesOne DEF Busy, Goes

LEMMA LeavesBusy ==
  ASSUME Wf, NEW p \in Pages, Leaves(p), NEW kind \in Kinds
  PROVE  Busy(kind)' = IF kind = req'[p].kind THEN Busy(kind) \cup {p} ELSE Busy(kind)
<1>1. \A q \in Pages \ {p} : req'[q] = req[q]
  BY MovesOne DEF Leaves
<1>2. req[p].kind = "none" /\ kind # "none"
  BY DEF Leaves, Kinds
<1> QED
  BY <1>1, <1>2 DEF Busy

LEMMA HandlerBusy ==
  ASSUME Wf, NEW p \in Pages, HandlerShape(p), NEW kind \in Kinds
  PROVE  Busy(kind)' \subseteq Busy(kind)
<1>1. CASE Ends(p)
  BY <1>1, EndsBusy
<1>2. CASE \E k, from, to : Goes(p, k, from, to)
  BY <1>2, GoesBusy
<1>3. Ends(p) \/ \E k, from, to : Goes(p, k, from, to)
  BY DEF HandlerShape, Quits, Passes, MakesAccount, FindsCode, FindsLink, Counts, Closes, Creates, Consumes
<1> QED
  BY <1>1, <1>2, <1>3

\* Only the answers to a sign-in or a second factor touch the throttler.
LEMMA HandlerThrottles ==
  ASSUME Wf, NEW p \in Pages, HandlerStep(p)
  PROVE  \/ UNCHANGED throttleVars
         \/ /\ clock' = clock /\ Ends(p)
            /\ req[p].kind \in {"login", "twoFactor"} /\ req[p].pc # "idle"
            /\ recordFailedAttempt(p) \/ clearAttempts(p)
<1>1. CASE loginAnswer(p)
  <2>1. At(p, "login", "read") /\ clock' = clock
    BY <1>1 DEF loginAnswer
  <2>2. (recordFailedAttempt(p) \/ clearAttempts(p)) /\ Ends(p)
    <3>1. CASE req[p].id = 0
      BY <1>1, <3>1, EndsStays DEF loginAnswer, Refuse
    <3>2. CASE req[p].id # 0
      BY <1>1, <3>2, EndsAnswer DEF loginAnswer
    <3> QED
      BY <3>1, <3>2
  <2> QED
    BY <2>1, <2>2 DEF At
<1>2. CASE completeTwoFactorRead(p)
  <2> DEFINE refused == \/ ~tfa.on
                        \/ req[p].id = 0
                        \/ req[p].id = 2 /\ ~matches(req[p].hashes, tfa.hashes)
  <2>1. At(p, "twoFactor", "sent") /\ clock' = clock
    BY <1>2 DEF completeTwoFactorRead
  <2>2. CASE refused
    BY <1>2, <2>1, <2>2, EndsStays DEF completeTwoFactorRead, Refuse, At
  <2>3. CASE ~refused /\ req[p].id = 1
    BY <1>2, <2>1, <2>3, EndsAnswer DEF completeTwoFactorRead, At
  <2>4. CASE ~refused /\ req[p].id # 1
    BY <1>2, <2>1, <2>4 DEF completeTwoFactorRead, throttleVars
  <2> QED
    BY <2>2, <2>3, <2>4
<1>3. CASE completeTwoFactorWrite(p)
  BY <1>3, EndsAnswer DEF completeTwoFactorWrite, At
<1>4. CASE \/ NotHuman(p) \/ registerRead(p) \/ registerCreate(p) \/ registerCode(p)
           \/ loginRead(p) \/ verifyEmailRead(p) \/ verifyEmailWrite(p)
           \/ resendVerificationCode(p) \/ requestPasswordReset(p)
           \/ resetPasswordRead(p) \/ resetPasswordWrite(p) \/ twoFactorSettingRead(p)
           \/ enableTwoFactorWrite(p) \/ disableTwoFactorWrite(p)
  BY <1>4 DEF NotHuman, registerRead, registerCreate, registerCode, loginRead, verifyEmailRead,
              verifyEmailWrite, resendVerificationCode, requestPasswordReset, resetPasswordRead,
              resetPasswordWrite, twoFactorSettingRead, enableTwoFactorWrite,
              disableTwoFactorWrite, CountRows, CloseRows, CreateRow
<1> QED
  BY <1>1, <1>2, <1>3, <1>4 DEF HandlerStep

LEMMA StepKeepsEarly ==
  ASSUME Wf, EarlyInv, [Next]_authVars
  PROVE  EarlyInv'
<1>1. /\ clock \in Nat /\ attempt.until \in Nat /\ clock' \in Nat
      /\ {"login", "twoFactor"} \subseteq Kinds
  BY StepKeepsWf DEF Wf, TypeOK, Kinds
<1>2. ASSUME UNCHANGED throttleVars, Busy("login")' \subseteq Busy("login"),
             Busy("twoFactor")' \subseteq Busy("twoFactor")
      PROVE  EarlyInv'
  BY <1>2 DEF EarlyInv, isBlocked, throttleVars
<1>3. ASSUME NEW p \in Pages, HandlerStep(p), HandlerShape(p) PROVE EarlyInv'
  <2>1. CASE UNCHANGED throttleVars
    BY <1>1, <1>2, <1>3, <2>1, HandlerBusy
  <2>2. CASE clearAttempts(p) /\ clock' = clock
    BY <1>1, <2>2 DEF clearAttempts, NoAttempt, EarlyInv, isBlocked
  <2>3. CASE recordFailedAttempt(p) /\ clock' = clock /\ Ends(p)
    <3>1. /\ Busy("login")' = Busy("login") \ {p}
          /\ Busy("twoFactor")' = Busy("twoFactor") \ {p}
      BY <1>1, <2>3, EndsBusy
    <3>2. early' = IF attempt'.until > clock /\ ~isBlocked
                   THEN (Busy("login") \cup Busy("twoFactor")) \ {p}
                   ELSE early \ {p}
      BY <2>3 DEF recordFailedAttempt
    <3>3. isBlocked' <=> attempt'.until > clock
      BY <2>3 DEF isBlocked
    <3> QED
      BY <3>1, <3>2, <3>3 DEF EarlyInv
  <2> QED
    BY <1>3, <2>1, <2>2, <2>3, HandlerThrottles
<1>4. ASSUME NEW p \in Pages, SendsOne(p) PROVE EarlyInv'
  <2>1. PICK r \in ReqType :
          /\ Send(p, r) /\ Idle(p) /\ r.pc = "sent" /\ r.kind \in Kinds
          /\ r.kind = "twoFactor" => r.id \in {0, 1, 2}
          /\ r.kind \in {"login", "twoFactor"} => ~isBlocked
    BY <1>4 DEF SendsOne
  <2>2. Leaves(p) /\ req'[p] = r
    BY <2>1, SendShape
  <2>3. UNCHANGED throttleVars
    BY <2>1 DEF Send
  <2>4. CASE r.kind \in {"login", "twoFactor"}
    BY <2>1, <2>3, <2>4 DEF EarlyInv, isBlocked, throttleVars
  <2>5. CASE r.kind \notin {"login", "twoFactor"}
    BY <1>1, <1>2, <2>2, <2>3, <2>5, LeavesBusy
  <2> QED
    BY <2>4, <2>5
<1>5. ASSUME NEW p \in Pages, Turns(p) PROVE EarlyInv'
  <2>1. UNCHANGED throttleVars /\ ((Ends(p) /\ Idle(p)) \/ req' = req)
    BY <1>5, TurnsShape
  <2>2. CASE Ends(p)
    BY <1>1, <1>2, <2>1, <2>2, EndsBusy
  <2>3. CASE req' = req
    BY <1>2, <2>1, <2>3 DEF Busy
  <2> QED
    BY <2>1, <2>2, <2>3
<1>6. CASE req' = req /\ (HourPasses \/ cleanup \/ Tick \/ UNCHANGED authVars)
  <2>1. CASE cleanup
    BY <1>1, <2>1 DEF cleanup, NoAttempt, EarlyInv, isBlocked
  <2>2. CASE Tick
    BY <1>1, <1>6, <2>2 DEF Tick, EarlyInv, isBlocked, Busy
  <2>3. CASE HourPasses \/ UNCHANGED authVars
    BY <1>2, <1>6, <2>3 DEF HourPasses, authVars, vars, Busy
  <2> QED
    BY <1>6, <2>1, <2>2, <2>3
<1> QED
  BY <1>3, <1>4, <1>5, <1>6, StepKeepsWf

LEMMA StepKeepsBlock ==
  ASSUME Wf, EarlyInv, [Next]_authVars, isBlocked, clock' = clock, attempt'.until <= clock'
  PROVE  \E p \in early : req[p].pc # "idle" /\ req'[p].pc = "idle"
<1>1. clock \in Nat /\ attempt.until \in Nat
  BY DEF Wf, TypeOK
<1>2. attempt' # attempt
  BY <1>1 DEF isBlocked
<1>3. ~cleanup
  BY <1>1 DEF cleanup, isBlocked
<1>4. ASSUME NEW p \in Pages, HandlerStep(p)
      PROVE  \E q \in early : req[q].pc # "idle" /\ req'[q].pc = "idle"
  <2>1. /\ Ends(p) /\ req[p].kind \in {"login", "twoFactor"} /\ req[p].pc # "idle"
    BY <1>2, <1>4, HandlerThrottles DEF throttleVars
  <2>2. p \in early
    BY <2>1 DEF EarlyInv, Busy
  <2> QED
    BY <2>1, <2>2 DEF Ends
<1>5. ASSUME NEW p \in Pages, SendsOne(p) \/ Turns(p) PROVE FALSE
  BY <1>2, <1>5, TurnsShape DEF SendsOne, Send, throttleVars
<1>6. CASE HourPasses \/ Tick \/ UNCHANGED authVars
  BY <1>2, <1>6 DEF HourPasses, Tick, authVars, vars, throttleVars
<1> QED
  BY <1>3, <1>4, <1>5, <1>6, StepKeepsWf

\* A block of an address is lifted before its time only by a request that had
\* passed LoginThrottlerGuard before the block was set (clearAttempts and
\* recordFailedAttempt of login-throttler.service.ts; its cleanup never does).
THEOREM BlockTheorem == Spec => BlockHolds
<1>1. PagesInit => Wf /\ EarlyInv
  <2>1. PagesInit => EarlyInv
    BY DEF PagesInit, Init, EarlyInv, isBlocked, NoAttempt
  <2> QED
    BY <2>1, InitIsWf
<1>2. Wf /\ EarlyInv /\ [Next]_authVars => (Wf /\ EarlyInv)'
  BY StepKeepsWf, StepKeepsEarly
<1>3. Wf /\ EarlyInv /\ [Next]_authVars
        => [(isBlocked /\ clock' = clock /\ attempt'.until <= clock')
              => \E p \in early : req[p].pc # "idle" /\ req'[p].pc = "idle"]_vars
  BY StepKeepsBlock
<1> QED
  BY <1>1, <1>2, <1>3, PTL DEF Spec, BlockHolds

-----------------------------------------------------------------------------
(* Counting requests                                                        *)

LEMMA Counting ==
  ASSUME NEW U, IsFiniteSet(U)
  PROVE  /\ \A S \in SUBSET U : IsFiniteSet(S) /\ Cardinality(S) \in Nat
         /\ \A S \in SUBSET U : S = {} => Cardinality(S) = 0
         /\ \A S \in SUBSET U : S # {} => Cardinality(S) >= 1
         /\ \A S, T \in SUBSET U : T \subseteq S => Cardinality(T) <= Cardinality(S)
         /\ \A S, T \in SUBSET U, x \in U : T \subseteq S \cup {x} => Cardinality(T) <= Cardinality(S) + 1
         /\ \A S, T \in SUBSET U, x \in U :
               x \in S /\ T \subseteq S \ {x} => Cardinality(T) + 1 <= Cardinality(S)
<1>1. ASSUME NEW S \in SUBSET U PROVE IsFiniteSet(S) /\ Cardinality(S) \in Nat
  BY FS_Subset, FS_CardinalityType
<1>2. ASSUME NEW S \in SUBSET U PROVE (S = {} => Cardinality(S) = 0) /\ (S # {} => Cardinality(S) >= 1)
  BY <1>1, FS_EmptySet
<1>3. ASSUME NEW S \in SUBSET U, NEW T \in SUBSET U, T \subseteq S
      PROVE  Cardinality(T) <= Cardinality(S)
  BY <1>1, <1>3, FS_Subset
<1>4. ASSUME NEW S \in SUBSET U, NEW T \in SUBSET U, NEW x \in U, T \subseteq S \cup {x}
      PROVE  Cardinality(T) <= Cardinality(S) + 1
  <2>1. Cardinality(S \cup {x}) <= Cardinality(S) + 1
    BY <1>1, FS_AddElement
  <2>2. Cardinality(T) <= Cardinality(S \cup {x})
    BY <1>3, <1>4
  <2> QED
    BY <1>1, <2>1, <2>2
<1>5. ASSUME NEW S \in SUBSET U, NEW T \in SUBSET U, NEW x \in S, T \subseteq S \ {x}
      PROVE  Cardinality(T) + 1 <= Cardinality(S)
  <2>1. Cardinality(S \ {x}) = Cardinality(S) - 1
    BY <1>1, FS_RemoveElement
  <2>2. Cardinality(T) <= Cardinality(S \ {x})
    BY <1>3, <1>5
  <2> QED
    BY <1>1, <2>1, <2>2
<1> QED
  BY <1>1, <1>2, <1>3, <1>4, <1>5

LEMMA PagesFinite == IsFiniteSet(Pages)
BY CredentialsConstants

LEMMA IdsFinite == IsFiniteSet(Ids)
BY FS_Interval, CredentialsConstants DEF Ids

LEMMA StepShape ==
  ASSUME Wf, [Next]_authVars
  PROVE  \/ \E p \in Pages : HandlerShape(p) \/ Leaves(p)
         \/ Calm /\ req' = req
         \/ HourPasses /\ req' = req
<1>1. ASSUME NEW p \in Pages, SendsOne(p) PROVE Leaves(p)
  BY <1>1, SendShape DEF SendsOne
<1>2. ASSUME NEW p \in Pages, Ends(p) /\ Idle(p) /\ Calm PROVE HandlerShape(p)
  BY <1>2 DEF HandlerShape, Quits, Idle, Wf, ReqOK
<1> QED
  BY <1>1, <1>2, StepKeepsWf

\* Only a request that leaves adds to the overlaps of a kind.
LEMMA OverlapsGrow ==
  ASSUME Wf, [Next]_authVars, NEW k \in Kinds
  PROVE  /\ overlaps[k] \in Nat /\ overlaps'[k] \in Nat /\ overlaps'[k] >= overlaps[k]
         /\ overlaps'[k] # overlaps[k] => \E p \in Pages : Leaves(p)
<1>1. overlaps[k] \in Nat /\ overlaps'[k] \in Nat
  BY StepKeepsWf DEF Wf, TypeOK
<1>2. CASE overlaps' = overlaps
  BY <1>1, <1>2
<1>3. ASSUME NEW p \in Pages, Leaves(p) PROVE overlaps'[k] >= overlaps[k]
  BY <1>1, <1>3 DEF Leaves
<1>4. ASSUME NEW p \in Pages, HandlerShape(p) PROVE overlaps' = overlaps
  BY <1>4 DEF HandlerShape, Quits, Calm, Passes, MakesAccount, FindsCode, FindsLink, Counts, Closes, Creates,
              Consumes, verifyEmailWrite, resetPasswordWrite, completeTwoFactorWrite,
              enableTwoFactorWrite, disableTwoFactorWrite, CloseRows, CreateRow, ghostVars
<1>5. CASE Calm \/ HourPasses
  BY <1>2, <1>5 DEF Calm, HourPasses, ghostVars
<1> QED
  BY <1>1, <1>2, <1>3, <1>4, <1>5, StepShape

LEMMA StepKeepsBusy ==
  ASSUME Wf, BusyInv, [Next]_authVars
  PROVE  BusyInv'
<1> SUFFICES ASSUME NEW k \in {"verify", "reset", "twoFactor", "forgot"}
             PROVE  Cardinality(Busy(k)') <= 1 + overlaps'[k]
  BY DEF BusyInv
<1>1. k \in Kinds /\ overlaps[k] \in Nat /\ overlaps'[k] \in Nat /\ overlaps'[k] >= overlaps[k]
  BY OverlapsGrow DEF Kinds
<1>2. Busy(k) \in SUBSET Pages /\ Busy(k)' \in SUBSET Pages
  BY DEF Busy
<1>3. Cardinality(Busy(k)) <= 1 + overlaps[k]
  BY DEF BusyInv
<1>4. CASE Busy(k)' \subseteq Busy(k)
  BY <1>1, <1>2, <1>3, <1>4, Counting, PagesFinite
<1>5. ASSUME NEW p \in Pages, Leaves(p), k = req'[p].kind
      PROVE  Cardinality(Busy(k)') <= 1 + overlaps'[k]
  <2>1. Busy(k)' = Busy(k) \cup {p}
    BY <1>1, <1>5, LeavesBusy
  <2>2. overlaps'[k] = overlaps[k] + IF Overlapping(Rivals(k)) THEN 1 ELSE 0
    BY <1>1, <1>5 DEF Leaves
  <2>3. Overlapping(Rivals(k)) <=> Busy(k) # {}
    BY DEF Overlapping, Rivals
  <2>4. Cardinality(Busy(k)') <= Cardinality(Busy(k)) + 1
    BY <1>2, <2>1, Counting, PagesFinite
  <2>5. Cardinality(Busy(k)) \in Nat /\ Cardinality(Busy(k)') \in Nat
    BY <1>2, Counting, PagesFinite
  <2>6. CASE Busy(k) = {}
    <3>1. Cardinality(Busy(k)) = 0
      BY <1>2, <2>6, Counting, PagesFinite
    <3> QED
      BY <1>1, <2>4, <2>5, <3>1
  <2>7. CASE Busy(k) # {}
    <3>1. overlaps'[k] = overlaps[k] + 1
      BY <2>2, <2>3, <2>7
    <3> QED
      BY <1>1, <1>3, <2>4, <2>5, <3>1
  <2> QED
    BY <2>6, <2>7
<1>6. ASSUME NEW p \in Pages, Leaves(p), k # req'[p].kind PROVE Busy(k)' \subseteq Busy(k)
  BY <1>1, <1>6, LeavesBusy
<1>7. ASSUME NEW p \in Pages, HandlerShape(p) PROVE Busy(k)' \subseteq Busy(k)
  BY <1>1, <1>7, HandlerBusy
<1>8. CASE req' = req
  BY <1>4, <1>8 DEF Busy
<1> QED
  BY <1>4, <1>5, <1>6, <1>7, <1>8, StepShape

-----------------------------------------------------------------------------
(* The verification of the account, and its reset links                     *)

LEMMA StepKeepsVerify ==
  ASSUME Wf, BusyInv, VerifyInv, [Next]_authVars
  PROVE  VerifyInv'
<1>1. /\ "verify" \in Kinds /\ overlaps["verify"] \in Nat /\ overlaps'["verify"] \in Nat
      /\ overlaps'["verify"] >= overlaps["verify"]
  BY OverlapsGrow DEF Kinds
<1>2. uses \in [verify : Nat, reset : [Ids -> Nat], recovery : [RecoveryCodes -> Nat]]
      /\ uses'.verify \in Nat
  BY StepKeepsWf DEF Wf, TypeOK
<1>3. /\ Verifying \in SUBSET Pages /\ Verifying' \in SUBSET Pages
      /\ Busy("verify") \in SUBSET Pages
      /\ Cardinality(Verifying) \in Nat /\ Cardinality(Verifying') \in Nat
      /\ Cardinality(Busy("verify")) \in Nat
  BY Counting, PagesFinite DEF Verifying, Busy
<1>4. /\ uses.verify + Cardinality(Verifying) <= 1 + overlaps["verify"]
      /\ uses.verify > 0 => verified
  BY DEF VerifyInv
<1>5. ASSUME Verifying' \subseteq Verifying, uses'.verify = uses.verify, verified => verified'
      PROVE  VerifyInv'
  <2>1. Cardinality(Verifying') <= Cardinality(Verifying)
    BY <1>3, <1>5, Counting, PagesFinite
  <2> QED
    BY <1>1, <1>2, <1>3, <1>4, <1>5, <2>1 DEF VerifyInv
<1>6. ASSUME NEW p \in Pages, Moves(p), ~(req'[p].kind = "verify" /\ req'[p].pc = "found")
      PROVE  Verifying' \subseteq Verifying \ {p}
  BY <1>6, MovesOne DEF Verifying, At
<1>7. ASSUME NEW p \in Pages, FindsCode(p) PROVE VerifyInv'
  <2>1. uses.verify = 0 /\ uses' = uses /\ verified' = verified
    BY <1>2, <1>4, <1>7 DEF FindsCode, Calm, tableVars
  <2>2. Verifying' \subseteq Busy("verify")
    <3>1. Busy("verify")' = Busy("verify")
      BY <1>1, <1>7, GoesBusy DEF FindsCode
    <3> QED
      BY <3>1 DEF Verifying, Busy, At
  <2>3. Cardinality(Verifying') <= Cardinality(Busy("verify"))
    BY <1>3, <2>2, Counting, PagesFinite
  <2>4. Cardinality(Busy("verify")) <= 1 + overlaps["verify"]
    BY DEF BusyInv
  <2> QED
    BY <1>1, <1>2, <1>3, <2>1, <2>3, <2>4 DEF VerifyInv
<1>8. ASSUME NEW p \in Pages, Ends(p), verifyEmailWrite(p) PROVE VerifyInv'
  <2>1. p \in Verifying /\ Verifying' \subseteq Verifying \ {p}
    BY <1>6, <1>8 DEF verifyEmailWrite, Verifying, Ends
  <2>2. Cardinality(Verifying') + 1 <= Cardinality(Verifying)
    BY <1>3, <2>1, Counting, PagesFinite
  <2>3. uses'.verify = uses.verify + 1 /\ verified' /\ overlaps' = overlaps
    BY <1>2, <1>8 DEF verifyEmailWrite
  <2> QED
    BY <1>1, <1>2, <1>3, <1>4, <2>2, <2>3 DEF VerifyInv
<1>9. ASSUME NEW p \in Pages, HandlerShape(p), ~FindsCode(p), ~(Ends(p) /\ verifyEmailWrite(p))
      PROVE  VerifyInv'
  <2>1. Moves(p) /\ ~(req'[p].kind = "verify" /\ req'[p].pc = "found")
    BY <1>9 DEF HandlerShape, Quits, Ends, Goes, Passes, MakesAccount, FindsLink, Counts, Closes, Creates,
                Consumes
  <2>2. verified' = verified
    BY <1>9 DEF HandlerShape, Quits, Passes, MakesAccount, FindsLink, Counts, Closes, Creates, Consumes,
                Calm, tableVars, resetPasswordWrite, completeTwoFactorWrite, enableTwoFactorWrite,
                disableTwoFactorWrite, CloseRows, CreateRow
  <2>3. uses'.verify = uses.verify
    BY <1>2, <1>9 DEF HandlerShape, Quits, Passes, MakesAccount, FindsLink, Counts, Closes, Creates, Consumes,
                Calm, tableVars, resetPasswordWrite, completeTwoFactorWrite, enableTwoFactorWrite,
                disableTwoFactorWrite, CloseRows, CreateRow, ghostVars
  <2> QED
    BY <1>5, <1>6, <2>1, <2>2, <2>3
<1>10. ASSUME NEW p \in Pages, Leaves(p) PROVE VerifyInv'
  <2>1. Verifying' \subseteq Verifying
    BY <1>6, <1>10 DEF Leaves
  <2> QED
    BY <1>5, <1>10, <2>1 DEF Leaves, tableVars
<1>11. CASE Calm /\ req' = req
  BY <1>5, <1>11 DEF Calm, tableVars, Verifying, At
<1>12. CASE HourPasses /\ req' = req
  BY <1>5, <1>12 DEF HourPasses, ghostVars, Verifying, At
<1> QED
  BY <1>7, <1>8, <1>9, <1>10, <1>11, <1>12, StepShape

\* A link that is used, or in use, exists; it does not open again.
RowGrows(old, new) == /\ old = "used" => new = "used"
                      /\ old # "none" => new # "none"

LEMMA LinksGrow ==
  ASSUME Wf, [Next]_authVars, NEW i \in Ids
  PROVE  RowGrows(link[i], link'[i])
<1>1. link \in [Ids -> RowStates]
  BY DEF Wf, TypeOK
<1>2. CASE link' = link
  BY <1>2 DEF RowGrows
<1>3. CASE link' = Closed(link)
  BY <1>1, <1>3, ClosedType DEF RowGrows
<1>4. ASSUME NEW j \in NewId(link), link' = [link EXCEPT ![j] = "open"] PROVE RowGrows(link[i], link'[i])
  BY <1>1, <1>4 DEF RowGrows, NewId
<1>5. ASSUME NEW j, link' = [link EXCEPT ![j] = "used"] PROVE RowGrows(link[i], link'[i])
  BY <1>1, <1>5 DEF RowGrows
<1>6. ASSUME NEW p \in Pages, HandlerShape(p)
      PROVE  \/ link' = link \/ link' = Closed(link)
             \/ \E j \in NewId(link) : link' = [link EXCEPT ![j] = "open"]
             \/ \E j : link' = [link EXCEPT ![j] = "used"]
  <2>1. CASE \E kind \in {"resend", "forgot"} : Closes(p, kind)
    BY <2>1 DEF Closes, CloseRows
  <2>2. CASE \E kind \in {"register", "resend", "forgot"} : Creates(p, kind)
    <3>1. PICK kind \in {"register", "resend", "forgot"} : CreateRow(p, kind)
      BY <2>2 DEF Creates
    <3>2. TableOf[kind] = "code" \/ TableOf[kind] = "link"
      BY DEF TableOf
    <3> QED
      BY <3>1, <3>2 DEF CreateRow
  <2>3. CASE ~(\E kind \in {"resend", "forgot"} : Closes(p, kind))
             /\ ~(\E kind \in {"register", "resend", "forgot"} : Creates(p, kind))
    BY <1>6, <2>3 DEF HandlerShape, Quits, Passes, MakesAccount, FindsCode, FindsLink, Counts, Consumes,
          Calm, tableVars, verifyEmailWrite, resetPasswordWrite, completeTwoFactorWrite,
          enableTwoFactorWrite, disableTwoFactorWrite
  <2> QED
    BY <2>1, <2>2, <2>3
<1>7. ASSUME NEW p \in Pages, Leaves(p) PROVE link' = link
  BY <1>7 DEF Leaves, tableVars
<1>8. CASE Calm
  BY <1>2, <1>8 DEF Calm, tableVars
<1>9. CASE HourPasses
  BY <1>3, <1>9 DEF HourPasses
<1> QED
  BY <1>2, <1>3, <1>4, <1>5, <1>6, <1>7, <1>8, <1>9, StepShape

LEMMA StepKeepsReset ==
  ASSUME Wf, BusyInv, ResetInv, [Next]_authVars
  PROVE  ResetInv'
<1> DEFINE Safe(i) == /\ uses.reset[i] + Cardinality(Resetting(i)) <= 1 + overlaps["reset"]
                      /\ uses.reset[i] > 0 => link[i] = "used"
                      /\ Resetting(i) # {} => link[i] # "none"
<1> SUFFICES ASSUME NEW i \in Ids
             PROVE  /\ uses'.reset[i] + Cardinality(Resetting(i)') <= 1 + overlaps'["reset"]
                    /\ uses'.reset[i] > 0 => link'[i] = "used"
                    /\ Resetting(i)' # {} => link'[i] # "none"
  BY DEF ResetInv
<1>1. /\ "reset" \in Kinds /\ overlaps["reset"] \in Nat /\ overlaps'["reset"] \in Nat
      /\ overlaps'["reset"] >= overlaps["reset"]
  BY OverlapsGrow DEF Kinds
<1>2. /\ uses \in [verify : Nat, reset : [Ids -> Nat], recovery : [RecoveryCodes -> Nat]]
      /\ uses.reset[i] \in Nat /\ uses'.reset[i] \in Nat
  BY StepKeepsWf DEF Wf, TypeOK
<1>3. /\ Resetting(i) \in SUBSET Pages /\ Resetting(i)' \in SUBSET Pages
      /\ Busy("reset") \in SUBSET Pages
      /\ Cardinality(Resetting(i)) \in Nat /\ Cardinality(Resetting(i)') \in Nat
      /\ Cardinality(Busy("reset")) \in Nat
  BY Counting, PagesFinite DEF Resetting, Busy
<1>4. Safe(i)
  BY DEF ResetInv
<1>5. RowGrows(link[i], link'[i])
  BY LinksGrow
<1>6. ASSUME Resetting(i)' \subseteq Resetting(i), uses'.reset[i] = uses.reset[i]
      PROVE  Safe(i)'
  <2>1. Cardinality(Resetting(i)') <= Cardinality(Resetting(i))
    BY <1>3, <1>6, Counting, PagesFinite
  <2> QED
    BY <1>1, <1>2, <1>3, <1>4, <1>5, <1>6, <2>1 DEF RowGrows
<1>7. ASSUME NEW p \in Pages, Moves(p),
             ~(req'[p].kind = "reset" /\ req'[p].pc = "found" /\ req'[p].id = i)
      PROVE  Resetting(i)' \subseteq Resetting(i) \ {p}
  BY <1>7, MovesOne DEF Resetting, At
<1>8. ASSUME NEW p \in Pages, FindsLink(p) PROVE Safe(i)'
  <2>1. uses' = uses /\ link' = link /\ overlaps' = overlaps
    BY <1>8 DEF FindsLink, Calm, tableVars
  <2>2. CASE req[p].id = i
    <3>1. link[i] = "open"
      BY <1>8, <2>2 DEF FindsLink, OpenOf
    <3>2. uses.reset[i] = 0
      BY <1>2, <1>4, <3>1
    <3>3. Resetting(i)' \subseteq Busy("reset")
      <4>1. Busy("reset")' = Busy("reset")
        BY <1>1, <1>8, GoesBusy DEF FindsLink
      <4> QED
        BY <4>1 DEF Resetting, Busy, At
    <3>4. Cardinality(Resetting(i)') <= Cardinality(Busy("reset"))
      BY <1>3, <3>3, Counting, PagesFinite
    <3>5. Cardinality(Busy("reset")) <= 1 + overlaps["reset"]
      BY DEF BusyInv
    <3> QED
      BY <1>1, <1>2, <1>3, <2>1, <3>1, <3>2, <3>4, <3>5
  <2>3. CASE req[p].id # i
    <3>1. Resetting(i)' \subseteq Resetting(i)
      BY <1>7, <1>8, <2>3 DEF FindsLink, Goes
    <3> QED
      BY <1>6, <2>1, <3>1
  <2> QED
    BY <2>2, <2>3
<1>9. ASSUME NEW p \in Pages, Ends(p), resetPasswordWrite(p) PROVE Safe(i)'
  <2>1. Resetting(i)' \subseteq Resetting(i) \ {p}
    BY <1>7, <1>9 DEF Ends
  <2>2. /\ uses' = [uses EXCEPT !.reset[req[p].id] = @ + 1] /\ overlaps' = overlaps
        /\ link' = [link EXCEPT ![req[p].id] = "used"] /\ At(p, "reset", "found")
    BY <1>9 DEF resetPasswordWrite
  <2>3. CASE req[p].id = i
    <3>1. p \in Resetting(i)
      BY <2>2, <2>3 DEF Resetting
    <3>2. Cardinality(Resetting(i)') + 1 <= Cardinality(Resetting(i))
      BY <1>3, <2>1, <3>1, Counting, PagesFinite
    <3>3. uses'.reset[i] = uses.reset[i] + 1
      BY <1>2, <2>2, <2>3
    <3>4. link'[i] = "used"
      BY <2>2, <2>3 DEF Wf, TypeOK
    <3> QED
      BY <1>1, <1>2, <1>3, <1>4, <2>2, <3>2, <3>3, <3>4
  <2>4. CASE req[p].id # i
    <3>1. uses'.reset[i] = uses.reset[i]
      BY <1>2, <2>2, <2>4
    <3> QED
      BY <1>6, <2>1, <3>1
  <2> QED
    BY <2>3, <2>4
<1>10. ASSUME NEW p \in Pages, HandlerShape(p), ~FindsLink(p), ~(Ends(p) /\ resetPasswordWrite(p))
      PROVE  Safe(i)'
  <2>1. Moves(p) /\ ~(req'[p].kind = "reset" /\ req'[p].pc = "found")
    BY <1>10 DEF HandlerShape, Quits, Ends, Goes, Passes, MakesAccount, FindsCode, Counts, Closes, Creates,
                Consumes
  <2>2. uses'.reset = uses.reset
    BY <1>2, <1>10 DEF HandlerShape, Quits, Passes, MakesAccount, FindsCode, Counts, Closes, Creates, Consumes,
                Calm, tableVars, verifyEmailWrite, completeTwoFactorWrite, enableTwoFactorWrite,
                disableTwoFactorWrite, CloseRows, CreateRow, ghostVars
  <2> QED
    BY <1>6, <1>7, <2>1, <2>2
<1>11. ASSUME NEW p \in Pages, Leaves(p) PROVE Safe(i)'
  <2>1. Resetting(i)' \subseteq Resetting(i)
    BY <1>7, <1>11 DEF Leaves
  <2> QED
    BY <1>6, <1>11, <2>1 DEF Leaves
<1>12. CASE req' = req /\ uses' = uses
  BY <1>6, <1>12 DEF Resetting, At
<1>13. Calm \/ HourPasses => uses' = uses
  BY DEF Calm, HourPasses, ghostVars
<1> QED
  BY <1>8, <1>9, <1>10, <1>11, <1>12, <1>13, StepShape

-----------------------------------------------------------------------------
(* The recovery codes                                                       *)

Last == IF Busy("twoFactor") = {} THEN 1 ELSE 0

\* What RecoveryInv says of one code.
CodeIsSafe(r) ==
    /\ uses.recovery[r] <= 1 + overlaps["twoFactor"]
    /\ Alive(r) => uses.recovery[r] + Cardinality(Unread) + Cardinality(Restoring(r)) + Last
                     <= 1 + overlaps["twoFactor"]
    /\ r[1] > batches => ~Alive(r) /\ uses.recovery[r] = 0

LEMMA RecoveryTypes ==
  ASSUME Wf, [Next]_authVars, NEW r \in RecoveryCodes
  PROVE  /\ "twoFactor" \in Kinds
         /\ overlaps["twoFactor"] \in Nat /\ overlaps'["twoFactor"] \in Nat
         /\ overlaps'["twoFactor"] >= overlaps["twoFactor"]
         /\ uses \in [verify : Nat, reset : [Ids -> Nat], recovery : [RecoveryCodes -> Nat]]
         /\ uses.recovery[r] \in Nat /\ uses'.recovery[r] \in Nat
         /\ Unread \in SUBSET Pages /\ Unread' \in SUBSET Pages
         /\ Restoring(r) \in SUBSET Pages /\ Restoring(r)' \in SUBSET Pages
         /\ Busy("twoFactor") \in SUBSET Pages /\ Busy("twoFactor")' \in SUBSET Pages
         /\ Cardinality(Unread) \in Nat /\ Cardinality(Unread') \in Nat
         /\ Cardinality(Restoring(r)) \in Nat /\ Cardinality(Restoring(r)') \in Nat
         /\ Last \in {0, 1} /\ Last' \in {0, 1}
         /\ batches \in Nat /\ batches' \in Nat /\ r[1] \in Nat
<1>1. "twoFactor" \in Kinds
  BY DEF Kinds
<1>2. Wf'
  BY StepKeepsWf
<1>3. /\ Unread \in SUBSET Pages /\ Unread' \in SUBSET Pages
      /\ Restoring(r) \in SUBSET Pages /\ Restoring(r)' \in SUBSET Pages
      /\ Busy("twoFactor") \in SUBSET Pages /\ Busy("twoFactor")' \in SUBSET Pages
  BY DEF Unread, Restoring, Busy
<1>4. /\ Cardinality(Unread) \in Nat /\ Cardinality(Unread') \in Nat
      /\ Cardinality(Restoring(r)) \in Nat /\ Cardinality(Restoring(r)') \in Nat
  BY <1>3, Counting, PagesFinite
<1>5. r[1] \in Nat
  BY DEF RecoveryCodes
<1>6. /\ uses \in [verify : Nat, reset : [Ids -> Nat], recovery : [RecoveryCodes -> Nat]]
      /\ uses.recovery[r] \in Nat /\ uses'.recovery[r] \in Nat
      /\ batches \in Nat /\ batches' \in Nat
  BY <1>2, CredentialsConstants DEF Wf, TypeOK
<1> QED
  BY <1>1, <1>3, <1>4, <1>5, <1>6, OverlapsGrow DEF Last

\* A step that does not use the code up and brings no code back keeps it safe.
LEMMA QuietRecovery ==
  ASSUME Wf, [Next]_authVars, NEW r \in RecoveryCodes, CodeIsSafe(r),
         uses'.recovery[r] = uses.recovery[r], Alive(r)' => Alive(r),
         r[1] > batches' => r[1] > batches,
         Cardinality(Unread') + Cardinality(Restoring(r)') + Last'
            <= Cardinality(Unread) + Cardinality(Restoring(r)) + Last
  PROVE  CodeIsSafe(r)'
BY RecoveryTypes DEF CodeIsSafe

\* A step of a page that completes no sign-in.
LEMMA OtherRecovery ==
  ASSUME Wf, [Next]_authVars, NEW r \in RecoveryCodes, CodeIsSafe(r),
         NEW p \in Pages, Moves(p),
         req[p].kind # "twoFactor", req'[p].kind # "twoFactor",
         uses'.recovery[r] = uses.recovery[r],
         r \in tfa'.hashes => r \in tfa.hashes, batches' >= batches
  PROVE  CodeIsSafe(r)'
<1>1. \A q \in Pages \ {p} : req'[q] = req[q]
  BY MovesOne
<1>2. Unread' = Unread /\ Restoring(r)' = Restoring(r) /\ Busy("twoFactor")' = Busy("twoFactor")
  BY <1>1 DEF Unread, Restoring, Busy, At
<1>3. (Alive(r)' => Alive(r)) /\ Last' = Last
  BY <1>2 DEF Alive, Last
<1>4. r[1] > batches' => r[1] > batches
  BY RecoveryTypes
<1> QED
  BY <1>2, <1>3, <1>4, QuietRecovery, RecoveryTypes

LEMMA SendKeepsRecovery ==
  ASSUME Wf, [Next]_authVars, NEW r \in RecoveryCodes, CodeIsSafe(r),
         NEW p \in Pages, Leaves(p)
  PROVE  CodeIsSafe(r)'
<1>1. /\ uses' = uses /\ tfa' = tfa /\ batches' = batches /\ Moves(p)
      /\ req[p].kind = "none" /\ req'[p].pc = "sent"
  BY DEF Leaves, tableVars
<1>2. CASE req'[p].kind # "twoFactor"
  BY <1>1, <1>2, OtherRecovery, RecoveryTypes
<1>3. CASE req'[p].kind = "twoFactor"
  <2>1. \A q \in Pages \ {p} : req'[q] = req[q]
    BY <1>1, MovesOne
  <2>2. Unread' = Unread \cup {p} /\ Restoring(r)' = Restoring(r) /\ p \in Busy("twoFactor")'
    BY <1>1, <1>3, <2>1 DEF Unread, Restoring, Busy, At
  <2>3. Alive(r)' <=> Alive(r)
    BY <1>1, <2>2 DEF Alive
  <2>4. Last' = 0
    BY <2>2 DEF Last
  <2>5. Cardinality(Unread') <= Cardinality(Unread) + 1
    BY <2>2, RecoveryTypes, Counting, PagesFinite
  <2>6. overlaps'["twoFactor"] = overlaps["twoFactor"] + (IF Busy("twoFactor") = {} THEN 0 ELSE 1)
    <3>1. Overlapping(Rivals("twoFactor")) <=> Busy("twoFactor") # {}
      BY DEF Overlapping, Rivals
    <3> QED
      BY <1>3, <3>1, RecoveryTypes DEF Leaves
  <2>7. uses'.recovery[r] = uses.recovery[r] /\ (r[1] > batches' => r[1] > batches)
    BY <1>1
  <2>8. CASE Busy("twoFactor") = {}
    <3>1. Last = 1 /\ overlaps'["twoFactor"] = overlaps["twoFactor"]
      BY <2>6, <2>8, RecoveryTypes DEF Last
    <3>0. /\ Cardinality(Unread) \in Nat /\ Cardinality(Unread') \in Nat
          /\ Cardinality(Restoring(r)) \in Nat /\ Cardinality(Restoring(r)') \in Nat
          /\ Last' \in {0, 1}
      BY RecoveryTypes
    <3>2. Cardinality(Unread') + Cardinality(Restoring(r)') + Last'
            <= Cardinality(Unread) + Cardinality(Restoring(r)) + Last
      BY <2>2, <2>4, <2>5, <3>0, <3>1
    <3> QED
      BY <2>3, <2>7, <3>2, QuietRecovery, RecoveryTypes
  <2>9. CASE Busy("twoFactor") # {}
    <3>1. Last = 0 /\ overlaps'["twoFactor"] = overlaps["twoFactor"] + 1
      BY <2>6, <2>9, RecoveryTypes DEF Last
    <3>2. Cardinality(Restoring(r)') = Cardinality(Restoring(r))
      BY <2>2
    <3>3. uses'.recovery[r] <= 1 + overlaps'["twoFactor"]
      BY <2>7, <3>1, RecoveryTypes DEF CodeIsSafe
    <3>4. Alive(r)' => uses'.recovery[r] + Cardinality(Unread') + Cardinality(Restoring(r)') + Last'
                          <= 1 + overlaps'["twoFactor"]
      BY <2>3, <2>4, <2>5, <2>7, <3>1, <3>2, RecoveryTypes DEF CodeIsSafe
    <3> QED
      BY <2>3, <2>7, <3>3, <3>4 DEF CodeIsSafe
  <2> QED
    BY <2>8, <2>9
<1> QED
  BY <1>2, <1>3

LEMMA QuitKeepsRecovery ==
  ASSUME Wf, [Next]_authVars, NEW r \in RecoveryCodes, CodeIsSafe(r),
         NEW p \in Pages, Quits(p)
  PROVE  CodeIsSafe(r)'
<1>1. /\ uses' = uses /\ tfa' = tfa /\ batches' = batches /\ Moves(p)
      /\ req'[p].kind = "none" /\ (req[p].kind = "twoFactor" => req[p].pc = "sent")
  BY DEF Quits, Ends, Calm, tableVars
<1>2. CASE req[p].kind # "twoFactor"
  BY <1>1, <1>2, OtherRecovery, RecoveryTypes
<1>3. CASE req[p].kind = "twoFactor"
  <2>1. \A q \in Pages \ {p} : req'[q] = req[q]
    BY <1>1, MovesOne
  <2>2. /\ p \in Unread /\ Unread' = Unread \ {p} /\ Restoring(r)' = Restoring(r)
    BY <1>1, <1>3, <2>1 DEF Unread, Restoring, At
  <2>3. Cardinality(Unread') + 1 <= Cardinality(Unread)
    BY <2>2, RecoveryTypes, Counting, PagesFinite
  <2>4. Alive(r)' => Alive(r)
    BY <1>1, <2>2 DEF Alive
  <2>5. Last = 0
    BY <2>2 DEF Last, Unread, Busy, At
  <2> QED
    <3>0. /\ Cardinality(Unread) \in Nat /\ Cardinality(Unread') \in Nat
          /\ Cardinality(Restoring(r)) \in Nat /\ Cardinality(Restoring(r)') \in Nat
          /\ Last' \in {0, 1}
      BY RecoveryTypes
    <3>1. Cardinality(Unread') + Cardinality(Restoring(r)') + Last'
            <= Cardinality(Unread) + Cardinality(Restoring(r)) + Last
      BY <2>2, <2>3, <2>5, <3>0
    <3>2. uses'.recovery[r] = uses.recovery[r] /\ (r[1] > batches' => r[1] > batches)
      BY <1>1
    <3> QED
      BY <2>4, <3>1, <3>2, QuietRecovery
<1> QED
  BY <1>2, <1>3

LEMMA ConsumeKeepsRecovery ==
  ASSUME Wf, [Next]_authVars, NEW r \in RecoveryCodes, CodeIsSafe(r),
         NEW p \in Pages, Consumes(p)
  PROVE  CodeIsSafe(r)'
<1>1. /\ At(p, "twoFactor", "sent") /\ req'[p].kind = "twoFactor" /\ req'[p].pc = "matched"
      /\ req[p].hashes \subseteq tfa.hashes /\ req'[p].hashes = tfa.hashes \ req[p].hashes
      /\ tfa' = tfa /\ batches' = batches /\ overlaps' = overlaps /\ Moves(p)
  BY DEF Consumes, Goes, tableVars
<1>2. \A q \in Pages \ {p} : req'[q] = req[q]
  BY <1>1, MovesOne
<1>3. p \in Unread /\ Unread' = Unread \ {p}
  BY <1>1, <1>2 DEF Unread, At
<1>4. Cardinality(Unread') + 1 <= Cardinality(Unread)
  BY <1>3, RecoveryTypes, Counting, PagesFinite
<1>5. p \in Busy("twoFactor") /\ p \in Busy("twoFactor")'
  BY <1>1 DEF Busy, At
<1>6. Last = 0 /\ Last' = 0
  BY <1>5 DEF Last
<1>7. CASE r \in req[p].hashes
  <2>1. Restoring(r)' = Restoring(r)
    BY <1>1, <1>2, <1>7 DEF Restoring, At
  <2>2. uses'.recovery[r] = uses.recovery[r] + 1
    BY <1>7, RecoveryTypes DEF Consumes
  <2>3. Alive(r)
    BY <1>1, <1>7 DEF Alive
  <2> QED
    BY <1>1, <1>4, <1>6, <2>1, <2>2, <2>3, RecoveryTypes DEF CodeIsSafe
<1>8. CASE r \notin req[p].hashes
  <2>1. uses'.recovery[r] = uses.recovery[r]
    BY <1>8, RecoveryTypes DEF Consumes
  <2>2. Alive(r)' => Alive(r)
    BY <1>1, <1>2 DEF Alive, Restoring, At
  <2>3. Restoring(r)' \subseteq Restoring(r) \cup {p}
    BY <1>2 DEF Restoring, At
  <2>4. Cardinality(Restoring(r)') <= Cardinality(Restoring(r)) + 1
    BY <2>3, RecoveryTypes, Counting, PagesFinite
  <2> QED
    BY <1>1, <1>4, <1>6, <2>1, <2>2, <2>4, QuietRecovery, RecoveryTypes
<1> QED
  BY <1>7, <1>8

LEMMA WriteKeepsRecovery ==
  ASSUME Wf, [Next]_authVars, NEW r \in RecoveryCodes, CodeIsSafe(r),
         NEW p \in Pages, Ends(p), completeTwoFactorWrite(p)
  PROVE  CodeIsSafe(r)'
<1>1. /\ At(p, "twoFactor", "matched") /\ tfa' = [tfa EXCEPT !.hashes = req[p].hashes]
      /\ batches' = batches /\ uses' = uses /\ Moves(p) /\ req'[p].kind = "none"
  BY DEF completeTwoFactorWrite, ghostVars, Ends
<1>2. tfa'.hashes = req[p].hashes
  BY <1>1 DEF Wf, TypeOK
<1>3. \A q \in Pages \ {p} : req'[q] = req[q]
  BY <1>1, MovesOne
<1>4. Unread' = Unread /\ Restoring(r)' = Restoring(r) \ {p}
  BY <1>1, <1>3 DEF Unread, Restoring, At
<1>5. Last = 0
  BY <1>1 DEF Last, Busy, At
<1>6. CASE r \in req[p].hashes
  <2>1. p \in Restoring(r)
    BY <1>1, <1>6 DEF Restoring
  <2>2. Cardinality(Restoring(r)') + 1 <= Cardinality(Restoring(r))
    BY <1>4, <2>1, RecoveryTypes, Counting, PagesFinite
  <2>3. Alive(r)
    BY <2>1 DEF Alive
  <2> QED
    <3>0. /\ Cardinality(Unread) \in Nat /\ Cardinality(Unread') \in Nat
          /\ Cardinality(Restoring(r)) \in Nat /\ Cardinality(Restoring(r)') \in Nat
          /\ Last' \in {0, 1}
      BY RecoveryTypes
    <3>1. Cardinality(Unread') + Cardinality(Restoring(r)') + Last'
            <= Cardinality(Unread) + Cardinality(Restoring(r)) + Last
      BY <1>4, <1>5, <2>2, <3>0
    <3> QED
      BY <1>1, <2>3, <3>1, QuietRecovery, RecoveryTypes
<1>7. CASE r \notin req[p].hashes
  <2>1. Restoring(r)' = Restoring(r)
    BY <1>4, <1>7 DEF Restoring
  <2>2. CASE Restoring(r) = {}
    <3>1. ~Alive(r)'
      BY <1>2, <1>7, <2>1, <2>2 DEF Alive
    <3> QED
      BY <1>1, <3>1, RecoveryTypes DEF CodeIsSafe
  <2>3. CASE Restoring(r) # {}
    <3>1. Busy("twoFactor")' # {}
      BY <2>1, <2>3 DEF Restoring, Busy, At
    <3>2. Last' = 0 /\ Alive(r)
      BY <2>3, <3>1 DEF Last, Alive
    <3> QED
      BY <1>1, <1>4, <1>5, <2>1, <3>2, QuietRecovery, RecoveryTypes
  <2> QED
    BY <2>2, <2>3
<1> QED
  BY <1>6, <1>7

LEMMA EnableKeepsRecovery ==
  ASSUME Wf, BusyInv, [Next]_authVars, NEW r \in RecoveryCodes, CodeIsSafe(r),
         NEW p \in Pages, Ends(p), enableTwoFactorWrite(p)
  PROVE  CodeIsSafe(r)'
<1>1. /\ At(p, "enable", "checked") /\ tfa' = [on |-> TRUE, hashes |-> Batch(batches + 1)]
      /\ batches' = batches + 1 /\ uses' = uses /\ overlaps' = overlaps /\ Moves(p)
      /\ req'[p].kind = "none"
  BY DEF enableTwoFactorWrite, ghostVars, Ends
<1>2. CASE r \in Batch(batches + 1)
  <2>1. r[1] = batches + 1 /\ r[1] > batches
    BY <1>2, RecoveryTypes DEF Batch
  <2>2. uses.recovery[r] = 0 /\ ~Alive(r)
    BY <2>1 DEF CodeIsSafe
  <2>3. \A q \in Pages \ {p} : req'[q] = req[q]
    BY <1>1, MovesOne
  <2>4. Restoring(r)' = {} /\ Unread' = Unread /\ Busy("twoFactor")' = Busy("twoFactor")
    BY <1>1, <2>2, <2>3 DEF Restoring, Unread, Busy, At, Alive
  <2>5. Cardinality(Restoring(r)') = 0
    BY <2>4, RecoveryTypes, Counting, PagesFinite
  <2>6. Cardinality(Unread) + Last <= 1 + overlaps["twoFactor"]
    <3>1. Unread \subseteq Busy("twoFactor")
      BY DEF Unread, Busy, At
    <3>2. CASE Busy("twoFactor") = {}
      <4>1. Cardinality(Unread) = 0
        BY <3>1, <3>2, RecoveryTypes, Counting, PagesFinite
      <4> QED
        BY <4>1, RecoveryTypes
    <3>3. CASE Busy("twoFactor") # {}
      <4>1. Cardinality(Unread) <= Cardinality(Busy("twoFactor"))
        BY <3>1, RecoveryTypes, Counting, PagesFinite
      <4>2. Cardinality(Busy("twoFactor")) <= 1 + overlaps["twoFactor"]
        BY DEF BusyInv
      <4>3. Cardinality(Busy("twoFactor")) \in Nat
        BY RecoveryTypes, Counting, PagesFinite
      <4> QED
        BY <3>3, <4>1, <4>2, <4>3, RecoveryTypes DEF Last
    <3> QED
      BY <3>2, <3>3
  <2>7. Last' = Last
    BY <2>4 DEF Last
  <2> QED
    BY <1>1, <2>1, <2>2, <2>4, <2>5, <2>6, <2>7, RecoveryTypes DEF CodeIsSafe
<1>3. CASE r \notin Batch(batches + 1)
  BY <1>1, <1>3, OtherRecovery, RecoveryTypes DEF At
<1> QED
  BY <1>2, <1>3

LEMMA StepKeepsRecovery ==
  ASSUME Wf, BusyInv, RecoveryInv, [Next]_authVars
  PROVE  RecoveryInv'
<1> SUFFICES ASSUME NEW r \in RecoveryCodes, CodeIsSafe(r)
             PROVE  CodeIsSafe(r)'
  BY DEF RecoveryInv, CodeIsSafe, Last
<1>1. ASSUME NEW p \in Pages, Leaves(p) PROVE CodeIsSafe(r)'
  BY <1>1, SendKeepsRecovery
<1>2. ASSUME NEW p \in Pages, HandlerShape(p) PROVE CodeIsSafe(r)'
  <2>1. CASE Ends(p) /\ disableTwoFactorWrite(p)
    <3>1. /\ At(p, "disable", "checked") /\ tfa' = [on |-> FALSE, hashes |-> {}]
          /\ batches' = batches /\ uses' = uses /\ Moves(p) /\ req'[p].kind = "none"
      BY <2>1 DEF disableTwoFactorWrite, ghostVars, Ends
    <3> QED
      BY <3>1, OtherRecovery, RecoveryTypes DEF At
  <2>2. CASE \/ Passes(p) \/ MakesAccount(p) \/ FindsCode(p) \/ FindsLink(p)
             \/ Counts(p, "resend") \/ Counts(p, "forgot")
             \/ Closes(p, "resend") \/ Closes(p, "forgot")
             \/ Creates(p, "register") \/ Creates(p, "resend") \/ Creates(p, "forgot")
             \/ Ends(p) /\ verifyEmailWrite(p)
             \/ Ends(p) /\ resetPasswordWrite(p)
    <3>1. Moves(p) /\ req[p].kind # "twoFactor" /\ req'[p].kind # "twoFactor"
      BY <2>2 DEF Passes, MakesAccount, FindsCode, FindsLink, Counts, Closes, Creates, Goes, Ends, At,
                  CreateRow, verifyEmailWrite, resetPasswordWrite
    <3>2. tfa' = tfa /\ batches' = batches
      BY <2>2 DEF Passes, MakesAccount, FindsCode, FindsLink, Counts, Closes, Creates, CloseRows,
                  CreateRow, verifyEmailWrite, resetPasswordWrite, Calm, tableVars
    <3>3. uses'.recovery = uses.recovery
      BY <2>2, RecoveryTypes
         DEF Passes, MakesAccount, FindsCode, FindsLink, Counts, Closes, Creates, CloseRows,
             CreateRow, verifyEmailWrite, resetPasswordWrite, Calm, ghostVars
    <3> QED
      BY <3>1, <3>2, <3>3, OtherRecovery, RecoveryTypes
  <2> QED
    BY <1>2, <2>1, <2>2, QuitKeepsRecovery, ConsumeKeepsRecovery, WriteKeepsRecovery,
       EnableKeepsRecovery DEF HandlerShape
<1>3. CASE req' = req /\ (Calm \/ HourPasses)
  <2>1. uses' = uses /\ tfa' = tfa /\ batches' = batches
    BY <1>3 DEF Calm, HourPasses, tableVars, ghostVars
  <2>2. Unread' = Unread /\ Restoring(r)' = Restoring(r) /\ Last' = Last
    BY <1>3 DEF Unread, Restoring, Last, Busy, At
  <2>3. Alive(r)' => Alive(r)
    BY <2>1, <2>2 DEF Alive
  <2> QED
    BY <2>1, <2>2, <2>3, QuietRecovery, RecoveryTypes
<1> QED
  BY <1>1, <1>2, <1>3, StepShape

-----------------------------------------------------------------------------
(* The account, and the codes and links that are open or recent             *)

\* A page shows the verification step only for an account.
LEMMA HandlerKeepsStep ==
  ASSUME Wf, AccountInv, NEW p \in Pages, HandlerStep(p)
  PROVE  /\ \A q \in Pages \ {p} : step'[q] = step[q]
         /\ step'[p] = "verify" => account
         /\ req'[p].kind = "login" /\ req'[p].pc = "read" /\ req'[p].id # 0 => account
<1>1. step \in [Pages -> {"register", "login", "verify", "forgot", "sent", "reset",
                          "twoFactor", "home", "settings"}]
      /\ req \in [Pages -> ReqType]
  BY DEF Wf, TypeOK, ReqType
<1> DEFINE Goal == /\ \A q \in Pages \ {p} : step'[q] = step[q]
                   /\ step'[p] = "verify" => account
                   /\ req'[p].kind = "login" /\ req'[p].pc = "read" /\ req'[p].id # 0 => account
<1>2. ASSUME step' = step, ~(req'[p].kind = "login" /\ req'[p].pc = "read") PROVE Goal
  BY <1>2 DEF AccountInv
<1>3. ASSUME Stays(p) PROVE Goal
  BY <1>2, <1>3, EndsStays DEF Ends
<1>4. ASSUME NEW to, Answer(p, to), to = "verify" => account,
             to \in {"register", "login", "verify", "forgot", "sent", "reset",
                     "twoFactor", "home", "settings"}
      PROVE  Goal
  BY <1>1, <1>4, EndsAnswer DEF Ends
<1>5. ASSUME NEW to \in {"found", "closed", "counted", "matched", "checked"}, req[p].pc # "idle",
             req' = [req EXCEPT ![p].pc = to], step' = step
      PROVE  Goal
  <2>1. req'[p].pc = to
    BY <1>5, SetsPc
  <2> QED
    BY <1>2, <1>5, <2>1
<1>6. CASE NotHuman(p) \/ enableTwoFactorWrite(p) \/ disableTwoFactorWrite(p)
  BY <1>3, <1>6 DEF NotHuman, enableTwoFactorWrite, disableTwoFactorWrite
<1>7. CASE registerRead(p) \/ registerCreate(p) \/ verifyEmailRead(p) \/ resetPasswordRead(p)
           \/ twoFactorSettingRead(p)
  <2>1. Stays(p) \/ \E to \in {"found", "closed", "checked"} :
                       req[p].pc # "idle" /\ req' = [req EXCEPT ![p].pc = to] /\ step' = step
    BY <1>7 DEF registerRead, registerCreate, verifyEmailRead, resetPasswordRead,
                twoFactorSettingRead, At
  <2> QED
    BY <1>3, <1>5, <2>1
<1>8. CASE verifyEmailWrite(p) \/ resetPasswordWrite(p) \/ completeTwoFactorWrite(p)
  BY <1>4, <1>8 DEF verifyEmailWrite, resetPasswordWrite, completeTwoFactorWrite
<1>9. CASE loginRead(p)
  <2> DEFINE r == [req[p] EXCEPT !.pc = "read", !.verified = verified, !.on = tfa.on,
                                 !.id = IF account THEN req[p].id ELSE 0]
  <2>1. req' = [req EXCEPT ![p] = r] /\ step' = step
    BY <1>9 DEF loginRead
  <2>2. r.id = IF account THEN req[p].id ELSE 0
    BY <1>1 DEF ReqType
  <2> HIDE DEF r
  <2>3. req'[p] = r
    BY <1>1, <2>1
  <2> QED
    BY <2>1, <2>2, <2>3 DEF AccountInv
<1>10. CASE loginAnswer(p)
  <2>1. CASE req[p].id = 0
    BY <1>3, <1>10, <2>1 DEF loginAnswer, Refuse
  <2>2. CASE req[p].id # 0
    <3>1. account
      BY <1>10, <2>2 DEF loginAnswer, AccountInv
    <3> QED
      BY <1>4, <1>10, <2>2, <3>1 DEF loginAnswer
  <2> QED
    BY <2>1, <2>2
<1>11. ASSUME NEW kind \in {"resend", "forgot"}, CountRows(p, kind) PROVE Goal
  <2>1. \/ Answer(p, ShownAfter[kind])
        \/ req[p].pc # "idle" /\ req' = [req EXCEPT ![p].pc = "counted"] /\ step' = step
    BY <1>11 DEF CountRows, At
  <2>2. ShownAfter[kind] \in {"verify", "sent"} /\ (ShownAfter[kind] = "verify" => kind = "resend")
    BY DEF ShownAfter
  <2>3. kind = "resend" => account
    BY <1>11 DEF CountRows, At, AccountInv
  <2> QED
    BY <1>4, <1>5, <2>1, <2>2, <2>3
<1>12. ASSUME NEW kind \in {"resend", "forgot"}, CloseRows(p, kind) PROVE Goal
  BY <1>5, <1>12 DEF CloseRows, At
<1>13. ASSUME NEW kind \in {"register", "resend", "forgot"}, CreateRow(p, kind) PROVE Goal
  <2>1. Answer(p, ShownAfter[kind])
    BY <1>13 DEF CreateRow
  <2>2. ShownAfter[kind] \in {"verify", "sent"} /\ (ShownAfter[kind] = "verify" => kind # "forgot")
    BY DEF ShownAfter
  <2>3. kind # "forgot" => account
    BY <1>13 DEF CreateRow, At, AccountInv
  <2> QED
    BY <1>4, <2>1, <2>2, <2>3
<1>14. CASE completeTwoFactorRead(p)
  <2>1. \/ Stays(p) \/ Answer(p, "home")
        \/ (HandlerShape(p) /\ step' = step /\ req'[p].kind = "twoFactor")
    <3> DEFINE refused == \/ ~tfa.on
                          \/ req[p].id = 0
                          \/ req[p].id = 2 /\ ~matches(req[p].hashes, tfa.hashes)
    <3>1. CASE refused
      <4>1. Refuse(p)
        BY <1>14, <3>1 DEF completeTwoFactorRead
      <4> QED
        BY <4>1 DEF Refuse
    <3>2. CASE ~refused /\ req[p].id = 1
      <4>1. Answer(p, "home")
        BY <1>14, <3>2 DEF completeTwoFactorRead
      <4> QED
        BY <4>1
    <3>3. CASE ~refused /\ req[p].id # 1
      <4>1. step' = step
        BY <1>14, <3>3 DEF completeTwoFactorRead
      <4> DEFINE r == [req[p] EXCEPT !.pc = "matched",
                                     !.hashes = remaining(req[p].hashes, tfa.hashes)]
      <4>2. req' = [req EXCEPT ![p] = r]
        BY <1>14, <3>3 DEF completeTwoFactorRead
      <4>3. r.kind = "twoFactor"
        BY <1>1, <1>14 DEF ReqType, completeTwoFactorRead, At
      <4> HIDE DEF r
      <4>4. req'[p] = r
        BY <1>1, <4>2
      <4> QED
        BY <1>14, <4>1, <4>3, <4>4, TwoFactorReadShape
    <3> QED
      BY <3>1, <3>2, <3>3
  <2> QED
    BY <1>2, <1>3, <1>4, <2>1
<1> QED
  BY <1>6, <1>7, <1>8, <1>9, <1>10, <1>11, <1>12, <1>13, <1>14
     DEF HandlerStep, registerCode, resendVerificationCode, requestPasswordReset

Table(to) == IF to = "code" THEN code ELSE link

\* No row opens and none is new.
Stable(to) == /\ OpenOf(Table(to))' \subseteq OpenOf(Table(to))
              /\ fresh'[to] \subseteq fresh[to]

\* One row opens.
Adds(to) == \E i \in Ids : /\ OpenOf(Table(to))' \subseteq OpenOf(Table(to)) \cup {i}
                           /\ fresh'[to] \subseteq fresh[to] \cup {i}

LEMMA ClosedHasNone ==
  ASSUME NEW table \in [Ids -> RowStates]
  PROVE  OpenOf(Closed(table)) = {}
BY ClosedType DEF OpenOf

LEMMA CreateAdds ==
  ASSUME Wf, NEW p \in Pages, NEW kind \in {"register", "resend", "forgot"}, CreateRow(p, kind)
  PROVE  /\ Adds(TableOf[kind])
         /\ \A to \in {"code", "link"} \ {TableOf[kind]} : Stable(to)
<1>1. /\ code \in [Ids -> RowStates] /\ link \in [Ids -> RowStates]
      /\ fresh \in [code : SUBSET Ids, link : SUBSET Ids]
  BY DEF Wf, TypeOK
<1>2. TableOf[kind] \in {"code", "link"}
  BY DEF TableOf
<1>3. CASE TableOf[kind] = "code"
  <2>1. PICK i \in Ids : /\ code' = [code EXCEPT ![i] = "open"] /\ link' = link
                         /\ fresh' = [fresh EXCEPT !["code"] = @ \cup {i}]
    BY <1>3 DEF CreateRow, NewId
  <2>2. fresh'["code"] = fresh["code"] \cup {i} /\ fresh'["link"] = fresh["link"]
    BY <1>1, <2>1
  <2> QED
    BY <1>1, <1>3, <2>1, <2>2 DEF Adds, Stable, Table, OpenOf
<1>4. CASE TableOf[kind] = "link"
  <2>1. PICK i \in Ids : /\ link' = [link EXCEPT ![i] = "open"] /\ code' = code
                         /\ fresh' = [fresh EXCEPT !["link"] = @ \cup {i}]
    BY <1>4 DEF CreateRow, NewId
  <2>2. fresh'["link"] = fresh["link"] \cup {i} /\ fresh'["code"] = fresh["code"]
    BY <1>1, <2>1
  <2> QED
    BY <1>1, <1>4, <2>1, <2>2 DEF Adds, Stable, Table, OpenOf
<1> QED
  BY <1>2, <1>3, <1>4

LEMMA CloseEmpties ==
  ASSUME Wf, NEW p \in Pages, NEW kind \in {"resend", "forgot"}, CloseRows(p, kind)
  PROVE  /\ OpenOf(Table(TableOf[kind]))' = {}
         /\ \A to \in {"code", "link"} : Stable(to)
         /\ UNCHANGED fresh
<1>1. code \in [Ids -> RowStates] /\ link \in [Ids -> RowStates]
  BY DEF Wf, TypeOK
<1>2. TableOf[kind] \in {"code", "link"}
  BY DEF TableOf
<1>3. fresh' = fresh
  BY DEF CloseRows
<1>4. CASE TableOf[kind] = "code"
  <2>1. code' = Closed(code) /\ link' = link
    BY <1>4 DEF CloseRows
  <2>2. OpenOf(code)' = {} /\ OpenOf(link)' = OpenOf(link)
    BY <1>1, <2>1, ClosedHasNone DEF OpenOf
  <2> QED
    BY <1>3, <1>4, <2>2 DEF Stable, Table
<1>5. CASE TableOf[kind] = "link"
  <2>1. link' = Closed(link) /\ code' = code
    BY <1>5 DEF CloseRows
  <2>2. OpenOf(link)' = {} /\ OpenOf(code)' = OpenOf(code)
    BY <1>1, <2>1, ClosedHasNone DEF OpenOf
  <2> QED
    BY <1>3, <1>5, <2>2 DEF Stable, Table
<1> QED
  BY <1>2, <1>4, <1>5

\* The steps that create no row.
LEMMA OthersAreStable ==
  ASSUME Wf, [Next]_authVars,
         \A p \in Pages, kind \in {"register", "resend", "forgot"} : ~Creates(p, kind),
         NEW to \in {"code", "link"}
  PROVE  Stable(to)
<1>1. code \in [Ids -> RowStates] /\ link \in [Ids -> RowStates]
  BY DEF Wf, TypeOK
<1>2. CASE UNCHANGED <<code, link, fresh>>
  BY <1>2 DEF Stable, Table, OpenOf
<1>3. ASSUME NEW p \in Pages, Leaves(p) PROVE UNCHANGED <<code, link, fresh>>
  BY <1>3 DEF Leaves, tableVars
<1>4. CASE Calm
  BY <1>2, <1>4 DEF Calm, tableVars
<1>5. CASE HourPasses
  <2>1. code' = Closed(code) /\ link' = Closed(link) /\ fresh' = [code |-> {}, link |-> {}]
    BY <1>5 DEF HourPasses
  <2>2. OpenOf(code)' = {} /\ OpenOf(link)' = {}
    BY <1>1, <2>1, ClosedHasNone DEF OpenOf
  <2>3. fresh'[to] = {}
    BY <2>1
  <2> QED
    BY <2>2, <2>3 DEF Stable, Table
<1>6. ASSUME NEW p \in Pages, NEW kind \in {"resend", "forgot"}, Closes(p, kind) PROVE Stable(to)
  BY <1>6, CloseEmpties DEF Closes
<1>7. ASSUME NEW p \in Pages, HandlerShape(p),
             \A kind \in {"resend", "forgot"} : ~Closes(p, kind)
      PROVE  Stable(to)
  <2>1. CASE Ends(p) /\ verifyEmailWrite(p)
    <3>1. code' = [code EXCEPT ![req[p].id] = "used"] /\ link' = link /\ fresh' = fresh
      BY <2>1 DEF verifyEmailWrite
    <3> QED
      BY <1>1, <3>1 DEF Stable, Table, OpenOf
  <2>2. CASE Ends(p) /\ resetPasswordWrite(p)
    <3>1. link' = [link EXCEPT ![req[p].id] = "used"] /\ code' = code /\ fresh' = fresh
      BY <2>2 DEF resetPasswordWrite
    <3> QED
      BY <1>1, <3>1 DEF Stable, Table, OpenOf
  <2>3. CASE ~(Ends(p) /\ verifyEmailWrite(p)) /\ ~(Ends(p) /\ resetPasswordWrite(p))
    <3>1. UNCHANGED <<code, link, fresh>>
      BY <1>7, <2>3 DEF HandlerShape, Quits, Calm, tableVars, Passes, MakesAccount, FindsCode,
            FindsLink, Counts, Consumes, completeTwoFactorWrite, enableTwoFactorWrite,
            disableTwoFactorWrite
    <3> QED
      BY <1>2, <3>1
  <2> QED
    BY <2>1, <2>2, <2>3
<1> QED
  BY <1>2, <1>3, <1>4, <1>5, <1>6, <1>7, StepShape

LEMMA StepKeepsAccount ==
  ASSUME Wf, AccountInv, [Next]_authVars
  PROVE  AccountInv'
<1>1. step \in [Pages -> {"register", "login", "verify", "forgot", "sent", "reset",
                          "twoFactor", "home", "settings"}]
  BY DEF Wf, TypeOK
<1>2. account => account'
  <2>1. CASE Calm \/ HourPasses
    BY <2>1 DEF Calm, HourPasses, tableVars
  <2>2. ASSUME NEW p \in Pages, Leaves(p) \/ HandlerShape(p) PROVE account => account'
    BY <2>2 DEF Leaves, HandlerShape, Quits, Calm, tableVars, Passes, MakesAccount, FindsCode,
          FindsLink, Counts, Consumes, Closes, CloseRows, Creates, CreateRow, verifyEmailWrite,
          resetPasswordWrite, completeTwoFactorWrite, enableTwoFactorWrite, disableTwoFactorWrite
  <2> QED
    BY <2>1, <2>2, StepShape
<1>3. ~account' => OpenOf(code)' = {} /\ fresh'.code = {}
  <2>1. CASE \A p \in Pages, kind \in {"register", "resend", "forgot"} : ~Creates(p, kind)
    <3>1. Stable("code")
      BY <2>1, OthersAreStable
    <3> QED
      BY <1>2, <3>1 DEF Stable, Table, AccountInv
  <2>2. ASSUME NEW p \in Pages, NEW kind \in {"register", "resend"}, CreateRow(p, kind)
        PROVE  account
    BY <2>2 DEF CreateRow, At, AccountInv
  <2>3. ASSUME NEW p \in Pages, CreateRow(p, "forgot") PROVE Stable("code")
    <3>1. TableOf["forgot"] = "link"
      BY DEF TableOf
    <3> QED
      BY <2>3, <3>1, CreateAdds
  <2> QED
    BY <1>2, <2>1, <2>2, <2>3 DEF Creates, Stable, Table, AccountInv
<1> SUFFICES ASSUME NEW q \in Pages
             PROVE  /\ step'[q] = "verify" => account'
                    /\ req'[q].kind = "resend" => account'
                    /\ At(q, "register", "closed")' => account'
                    /\ At(q, "login", "read")' /\ req'[q].id # 0 => account'
  BY <1>3 DEF AccountInv
<1>4. CASE req'[q] = req[q] /\ step'[q] = step[q]
  BY <1>2, <1>4 DEF AccountInv, At
<1>5. ASSUME NEW p \in Pages, HandlerStep(p), HandlerShape(p)
      PROVE  /\ step'[q] = "verify" => account'
             /\ req'[q].kind = "resend" => account'
             /\ At(q, "register", "closed")' => account'
             /\ At(q, "login", "read")' /\ req'[q].id # 0 => account'
  <2>1. Moves(p)
    BY <1>5 DEF HandlerShape, Quits, Ends, Goes, Passes, MakesAccount, FindsCode, FindsLink, Counts,
                Closes, Creates, Consumes
  <2>2. CASE q # p
    BY <1>4, <1>5, <2>1, <2>2, MovesOne, HandlerKeepsStep
  <2>3. CASE q = p
    <3>1. /\ step'[p] = "verify" => account
          /\ req'[p].kind = "login" /\ req'[p].pc = "read" /\ req'[p].id # 0 => account
      BY <1>5, HandlerKeepsStep
    <3>2. req'[p].kind = "resend" => req[p].kind = "resend"
      BY <1>5 DEF HandlerShape, Quits, Ends, Goes, At, Passes, MakesAccount, FindsCode, FindsLink,
                  Counts, Closes, Creates, Consumes
    <3>3. req'[p].kind = "register" /\ req'[p].pc = "closed" => account'
      BY <1>5 DEF HandlerShape, Quits, Ends, Goes, At, Passes, MakesAccount, FindsCode, FindsLink,
                  Counts, Closes, Creates, Consumes
    <3> QED
      BY <1>2, <2>3, <3>1, <3>2, <3>3 DEF AccountInv, At
  <2> QED
    BY <2>2, <2>3
<1>6. ASSUME NEW p \in Pages, SendsOne(p)
      PROVE  /\ step'[q] = "verify" => account'
             /\ req'[q].kind = "resend" => account'
             /\ At(q, "register", "closed")' => account'
             /\ At(q, "login", "read")' /\ req'[q].id # 0 => account'
  <2>1. PICK r \in ReqType :
          /\ Send(p, r) /\ Idle(p) /\ r.pc = "sent" /\ r.kind \in Kinds
          /\ r.kind = "twoFactor" => r.id \in {0, 1, 2}
          /\ r.kind = "resend" => step[p] = "verify"
    BY <1>6 DEF SendsOne
  <2>2. Leaves(p) /\ req'[p] = r /\ step' = step
    BY <2>1, SendShape
  <2>3. CASE q # p
    BY <1>4, <2>2, <2>3, MovesOne DEF Leaves
  <2>4. CASE q = p
    BY <1>2, <2>1, <2>2, <2>4 DEF AccountInv, At
  <2> QED
    BY <2>3, <2>4
<1>7. ASSUME NEW p \in Pages, Turns(p)
      PROVE  /\ step'[q] = "verify" => account'
             /\ req'[q].kind = "resend" => account'
             /\ At(q, "register", "closed")' => account'
             /\ At(q, "login", "read")' /\ req'[q].id # 0 => account'
  <2>1. step'[q] = "verify" => step[q] = "verify"
    <3>1. CASE follow(p)
      <4>1. PICK to \in Links[step[p]] : Answer(p, to)
        BY <3>1 DEF follow
      <4>2. to # "verify" /\ step' = [step EXCEPT ![p] = to]
        BY <4>1, LinksType DEF Answer
      <4> QED
        BY <1>1, <4>2
    <3>2. CASE openResetLink(p)
      BY <1>1, <3>2 DEF openResetLink
    <3>3. CASE openSettings(p)
      BY <1>1, <3>3 DEF openSettings
    <3>4. CASE handleBeginSetup(p) \/ dismiss(p) \/ onStatusChanged(p)
      BY <3>4 DEF handleBeginSetup, dismiss, onStatusChanged, vars, pageVars
    <3> QED
      BY <1>7, <3>1, <3>2, <3>3, <3>4 DEF Turns
  <2>2. (Ends(p) /\ Idle(p)) \/ req' = req
    BY <1>7, TurnsShape
  <2>3. req'[q] = req[q] \/ req'[q].kind = "none"
    BY <2>2, MovesOne DEF Ends
  <2> QED
    BY <1>2, <2>1, <2>3 DEF AccountInv, At
<1>8. ASSUME req' = req, cleanup \/ Tick \/ HourPasses \/ UNCHANGED authVars
      PROVE  req'[q] = req[q] /\ step'[q] = step[q]
  BY <1>8 DEF cleanup, Tick, HourPasses, authVars, vars, pageVars
<1> QED
  BY <1>4, <1>5, <1>6, <1>7, <1>8, StepKeepsWf

\* The sizes that CodeInv and LinkInv compare.
LEMMA CodeTypes ==
  ASSUME Wf, [Next]_authVars
  PROVE  /\ Registering \cup Busy("resend") \in SUBSET Pages
         /\ (Registering \cup Busy("resend"))' \in SUBSET Pages
         /\ CodeClosers \in SUBSET Pages /\ CodeClosers' \in SUBSET Pages
         /\ CodeCreators \in SUBSET Pages /\ CodeCreators' \in SUBSET Pages
         /\ LinkClosers \in SUBSET Pages /\ LinkClosers' \in SUBSET Pages
         /\ LinkCreators \in SUBSET Pages /\ LinkCreators' \in SUBSET Pages
         /\ OpenOf(code) \in SUBSET Ids /\ OpenOf(code)' \in SUBSET Ids
         /\ OpenOf(link) \in SUBSET Ids /\ OpenOf(link)' \in SUBSET Ids
         /\ fresh["code"] \in SUBSET Ids /\ fresh'["code"] \in SUBSET Ids
         /\ fresh["link"] \in SUBSET Ids /\ fresh'["link"] \in SUBSET Ids
BY StepKeepsWf DEF Wf, TypeOK, Registering, Busy, CodeClosers, CodeCreators, LinkClosers,
                   LinkCreators, OpenOf

\* Who may create a code, up to the change of one page.
LEMMA CreatorsMove ==
  ASSUME Wf, NEW p \in Pages, Moves(p)
  PROVE  /\ CodeClosers' \ {p} = CodeClosers \ {p}
         /\ CodeCreators' \ {p} = CodeCreators \ {p}
         /\ (Registering \cup Busy("resend"))' \ {p} = (Registering \cup Busy("resend")) \ {p}
         /\ LinkClosers' \ {p} = LinkClosers \ {p}
         /\ LinkCreators' \ {p} = LinkCreators \ {p}
         /\ p \in CodeClosers <=> (At(p, "register", "closed") \/ At(p, "resend", "closed"))
         /\ p \in CodeClosers' <=> (At(p, "register", "closed") \/ At(p, "resend", "closed"))'
         /\ p \in CodeCreators <=> (\/ At(p, "register", "closed") \/ At(p, "resend", "closed")
                                   \/ At(p, "resend", "counted"))
         /\ p \in CodeCreators' <=> (\/ At(p, "register", "closed") \/ At(p, "resend", "closed")
                                    \/ At(p, "resend", "counted"))'
         /\ p \in Registering \cup Busy("resend")
              <=> (At(p, "register", "closed") \/ req[p].kind = "resend")
         /\ p \in (Registering \cup Busy("resend"))'
              <=> (At(p, "register", "closed")' \/ req'[p].kind = "resend")
         /\ p \in LinkClosers <=> At(p, "forgot", "closed")
         /\ p \in LinkClosers' <=> At(p, "forgot", "closed")'
         /\ p \in LinkCreators <=> (At(p, "forgot", "closed") \/ At(p, "forgot", "counted"))
         /\ p \in LinkCreators' <=> (At(p, "forgot", "closed") \/ At(p, "forgot", "counted"))'
<1>1. \A q \in Pages \ {p} : req'[q] = req[q]
  BY MovesOne
<1>2. /\ CodeClosers' \ {p} = CodeClosers \ {p}
      /\ CodeCreators' \ {p} = CodeCreators \ {p}
      /\ (Registering \cup Busy("resend"))' \ {p} = (Registering \cup Busy("resend")) \ {p}
  BY <1>1 DEF CodeClosers, CodeCreators, Registering, Busy, At
<1>3. /\ LinkClosers' \ {p} = LinkClosers \ {p}
      /\ LinkCreators' \ {p} = LinkCreators \ {p}
  BY <1>1 DEF LinkClosers, LinkCreators, At
<1>4. /\ p \in CodeClosers <=> (At(p, "register", "closed") \/ At(p, "resend", "closed"))
      /\ p \in CodeClosers' <=> (At(p, "register", "closed") \/ At(p, "resend", "closed"))'
      /\ p \in CodeCreators <=> (\/ At(p, "register", "closed") \/ At(p, "resend", "closed")
                                \/ At(p, "resend", "counted"))
      /\ p \in CodeCreators' <=> (\/ At(p, "register", "closed") \/ At(p, "resend", "closed")
                                 \/ At(p, "resend", "counted"))'
  BY DEF CodeClosers, CodeCreators, Registering
<1>5. /\ p \in Registering \cup Busy("resend")
              <=> (At(p, "register", "closed") \/ req[p].kind = "resend")
      /\ p \in (Registering \cup Busy("resend"))'
              <=> (At(p, "register", "closed")' \/ req'[p].kind = "resend")
  BY DEF Registering, Busy
<1>6. /\ p \in LinkClosers <=> At(p, "forgot", "closed")
      /\ p \in LinkClosers' <=> At(p, "forgot", "closed")'
      /\ p \in LinkCreators <=> (At(p, "forgot", "closed") \/ At(p, "forgot", "counted"))
      /\ p \in LinkCreators' <=> (At(p, "forgot", "closed") \/ At(p, "forgot", "counted"))'
  BY DEF LinkClosers, LinkCreators
<1> QED
  BY <1>2, <1>3, <1>4, <1>5, <1>6

\* A step that opens nothing and adds nobody.
LEMMA QuietCodes ==
  ASSUME Wf, CodeInv, [Next]_authVars, Stable("code"),
         (Registering \cup Busy("resend"))' \subseteq Registering \cup Busy("resend"),
         CodeClosers' \subseteq CodeClosers, CodeCreators' \subseteq CodeCreators
  PROVE  CodeInv'
<1>1. /\ overlaps["resend"] \in Nat /\ overlaps'["resend"] \in Nat
      /\ overlaps'["resend"] >= overlaps["resend"]
  BY OverlapsGrow DEF Kinds
<1>2. /\ Cardinality((Registering \cup Busy("resend"))') <= Cardinality(Registering \cup Busy("resend"))
      /\ Cardinality(CodeClosers') <= Cardinality(CodeClosers)
      /\ Cardinality(CodeCreators') <= Cardinality(CodeCreators)
      /\ Cardinality((Registering \cup Busy("resend"))') \in Nat
      /\ Cardinality(Registering \cup Busy("resend")) \in Nat
      /\ Cardinality(CodeClosers) \in Nat /\ Cardinality(CodeClosers') \in Nat
      /\ Cardinality(CodeCreators) \in Nat /\ Cardinality(CodeCreators') \in Nat
  BY CodeTypes, Counting, PagesFinite
<1>3. /\ Cardinality(OpenOf(code)') <= Cardinality(OpenOf(code))
      /\ Cardinality(fresh'["code"]) <= Cardinality(fresh["code"])
      /\ Cardinality(OpenOf(code)') \in Nat /\ Cardinality(OpenOf(code)) \in Nat
      /\ Cardinality(fresh'["code"]) \in Nat /\ Cardinality(fresh["code"]) \in Nat
  BY CodeTypes, Counting, IdsFinite DEF Stable, Table
<1>4. HourLimit \in Nat
  BY CredentialsConstants
<1>5. /\ Cardinality(Registering \cup Busy("resend")) <= 1 + overlaps["resend"]
      /\ Cardinality(OpenOf(code)) + Cardinality(CodeClosers) <= 1 + overlaps["resend"]
      /\ Cardinality(fresh["code"]) + Cardinality(CodeCreators) <= HourLimit + overlaps["resend"]
  BY DEF CodeInv
<1>6. /\ Cardinality((Registering \cup Busy("resend"))') <= 1 + overlaps'["resend"]
      /\ Cardinality(OpenOf(code)') + Cardinality(CodeClosers') <= 1 + overlaps'["resend"]
      /\ Cardinality(fresh'["code"]) + Cardinality(CodeCreators') <= HourLimit + overlaps'["resend"]
  BY <1>1, <1>2, <1>3, <1>4, <1>5
<1> QED
  BY <1>6 DEF CodeInv

LEMMA SendKeepsCodes ==
  ASSUME Wf, CodeInv, [Next]_authVars, NEW p \in Pages, Leaves(p)
  PROVE  CodeInv'
<1>1. /\ Moves(p) /\ req[p].kind = "none" /\ req'[p].pc = "sent" /\ UNCHANGED <<code, link, fresh>>
  BY DEF Leaves, tableVars
<1>2. CodeClosers' \subseteq CodeClosers /\ CodeCreators' \subseteq CodeCreators
  BY <1>1, CreatorsMove DEF At
<1>3. Stable("code")
  BY <1>1 DEF Stable, Table, OpenOf
<1>4. CASE req'[p].kind # "resend"
  <2>1. (Registering \cup Busy("resend"))' \subseteq Registering \cup Busy("resend")
    BY <1>1, <1>4, CreatorsMove DEF At
  <2> QED
    BY <1>2, <1>3, <2>1, QuietCodes
<1>5. CASE req'[p].kind = "resend"
  <2> DEFINE S == Registering \cup Busy("resend")
  <2>1. S' \subseteq S \cup {p} /\ S \in SUBSET Pages /\ S' \in SUBSET Pages
    BY <1>1, CreatorsMove, CodeTypes
  <2>2. S # {} => Overlapping(Rivals("resend"))
    BY DEF Overlapping, Rivals, Registering, Busy, At
  <2>3. overlaps'["resend"] = overlaps["resend"] + IF Overlapping(Rivals("resend")) THEN 1 ELSE 0
    BY <1>5 DEF Leaves, Kinds
  <2>4. overlaps["resend"] \in Nat /\ HourLimit \in Nat
    BY CredentialsConstants, OverlapsGrow DEF Kinds
  <2>5. /\ Cardinality(S) <= 1 + overlaps["resend"]
        /\ Cardinality(OpenOf(code)) + Cardinality(CodeClosers) <= 1 + overlaps["resend"]
        /\ Cardinality(fresh["code"]) + Cardinality(CodeCreators) <= HourLimit + overlaps["resend"]
    BY DEF CodeInv
  <2> HIDE DEF S
  <2>6. /\ Cardinality(S') <= Cardinality(S) + 1 /\ Cardinality(S) \in Nat /\ Cardinality(S') \in Nat
        /\ S = {} => Cardinality(S) = 0
    BY <2>1, Counting, PagesFinite
  <2>7. Cardinality(S') <= 1 + overlaps'["resend"]
    BY <2>2, <2>3, <2>4, <2>5, <2>6
  <2>8. /\ Cardinality(CodeClosers') = Cardinality(CodeClosers)
        /\ Cardinality(CodeCreators') = Cardinality(CodeCreators)
        /\ Cardinality(CodeClosers) \in Nat /\ Cardinality(CodeCreators) \in Nat
        /\ Cardinality(OpenOf(code)) \in Nat /\ Cardinality(fresh["code"]) \in Nat
        /\ OpenOf(code)' = OpenOf(code) /\ fresh'["code"] = fresh["code"]
    <3>1. CodeClosers' = CodeClosers /\ CodeCreators' = CodeCreators
      <4>1. \A q \in Pages \ {p} : req'[q] = req[q]
        BY <1>1, MovesOne
      <4> QED
        BY <1>1, <4>1 DEF CodeClosers, CodeCreators, Registering, At
    <3>2. OpenOf(code)' = OpenOf(code) /\ fresh'["code"] = fresh["code"]
      BY <1>1 DEF OpenOf
    <3>3. Cardinality(CodeClosers) \in Nat /\ Cardinality(CodeCreators) \in Nat
      BY CodeTypes, Counting, PagesFinite
    <3>4. Cardinality(OpenOf(code)) \in Nat /\ Cardinality(fresh["code"]) \in Nat
      BY CodeTypes, Counting, IdsFinite
    <3> QED
      BY <3>1, <3>2, <3>3, <3>4
  <2>9. /\ Cardinality(OpenOf(code)') + Cardinality(CodeClosers') <= 1 + overlaps'["resend"]
        /\ Cardinality(fresh'["code"]) + Cardinality(CodeCreators') <= HourLimit + overlaps'["resend"]
    BY <2>3, <2>4, <2>5, <2>8
  <2> QED
    BY <2>7, <2>9 DEF CodeInv, S
<1> QED
  BY <1>4, <1>5

LEMMA MakeKeepsCodes ==
  ASSUME Wf, AccountInv, CodeInv, [Next]_authVars, NEW p \in Pages, MakesAccount(p)
  PROVE  CodeInv'
<1>1. /\ Moves(p) /\ At(p, "register", "found") /\ req'[p].kind = "register"
      /\ ~account /\ UNCHANGED <<code, fresh, overlaps>>
  BY DEF MakesAccount, Goes
<1>2. /\ Registering \cup Busy("resend") = {} /\ CodeClosers = {} /\ CodeCreators = {}
      /\ OpenOf(code) = {} /\ fresh["code"] = {}
  BY <1>1 DEF AccountInv, Registering, Busy, CodeClosers, CodeCreators, At
<1>3. /\ (Registering \cup Busy("resend"))' \subseteq {} \cup {p}
      /\ CodeClosers' \subseteq {} \cup {p} /\ CodeCreators' \subseteq {} \cup {p}
  BY <1>1, <1>2, CreatorsMove
<1>4. OpenOf(code)' = {} /\ fresh'["code"] = {}
  BY <1>1, <1>2 DEF OpenOf
<1>5. Cardinality({}) = 0
  BY FS_EmptySet
<1>6. /\ Cardinality((Registering \cup Busy("resend"))') <= 1
      /\ Cardinality(CodeClosers') <= 1 /\ Cardinality(CodeCreators') <= 1
  <2>1. \A S \in SUBSET Pages : S \subseteq {} \cup {p} => Cardinality(S) <= 1
    <3>1. \A S \in SUBSET Pages : S \subseteq {} \cup {p} => S = {} \/ S = {p}
      OBVIOUS
    <3>2. Cardinality({p}) = 1
      BY FS_Singleton
    <3> QED
      BY <1>5, <3>1, <3>2
  <2> QED
    BY <1>3, <2>1, CodeTypes
<1>7. overlaps'["resend"] \in Nat /\ HourLimit \in Nat \ {0}
  BY CredentialsConstants, OverlapsGrow DEF Kinds
<1>8. /\ Cardinality((Registering \cup Busy("resend"))') \in Nat
      /\ Cardinality(CodeClosers') \in Nat /\ Cardinality(CodeCreators') \in Nat
  BY CodeTypes, Counting, PagesFinite
<1>9. Cardinality(OpenOf(code)') = 0 /\ Cardinality(fresh'["code"]) = 0
  BY <1>4, <1>5
<1>10. /\ Cardinality((Registering \cup Busy("resend"))') <= 1 + overlaps'["resend"]
       /\ Cardinality(OpenOf(code)') + Cardinality(CodeClosers') <= 1 + overlaps'["resend"]
       /\ Cardinality(fresh'["code"]) + Cardinality(CodeCreators') <= HourLimit + overlaps'["resend"]
  BY <1>6, <1>7, <1>8, <1>9
<1> QED
  BY <1>10 DEF CodeInv

\* A step about the rows of codes: what it adds to each side of CodeInv.
LEMMA CodeSum ==
  ASSUME Wf, [Next]_authVars, overlaps'["resend"] = overlaps["resend"],
         Cardinality((Registering \cup Busy("resend"))') <= 1 + overlaps["resend"],
         Cardinality(OpenOf(code)') + Cardinality(CodeClosers') <= 1 + overlaps["resend"],
         Cardinality(fresh'["code"]) + Cardinality(CodeCreators') <= HourLimit + overlaps["resend"]
  PROVE  CodeInv'
BY DEF CodeInv

LEMMA CountKeepsCodes ==
  ASSUME Wf, CodeInv, [Next]_authVars, NEW p \in Pages, Counts(p, "resend")
  PROVE  CodeInv'
<1> DEFINE S == Registering \cup Busy("resend")
<1>1. /\ Moves(p) /\ At(p, "resend", "sent") /\ req'[p].kind = "resend" /\ req'[p].pc = "counted"
      /\ UNCHANGED <<code, fresh, overlaps>> /\ Cardinality(fresh["code"]) < HourLimit
  <2>1. TableOf["resend"] = "code"
    BY DEF TableOf
  <2> QED
    BY <2>1 DEF Counts, Goes, Calm, tableVars
<1>2. S' \subseteq S /\ CodeClosers' \subseteq CodeClosers
  BY <1>1, CreatorsMove DEF At
<1>3. CodeCreators' \subseteq S
  <2>1. CodeCreators' \subseteq S'
    BY DEF CodeCreators, CodeClosers, Registering, Busy, At
  <2> QED
    BY <1>2, <2>1
<1>4. S \in SUBSET Pages /\ S' \in SUBSET Pages
  BY CodeTypes
<1>5. /\ Cardinality(S) <= 1 + overlaps["resend"]
      /\ Cardinality(OpenOf(code)) + Cardinality(CodeClosers) <= 1 + overlaps["resend"]
  BY DEF CodeInv
<1> HIDE DEF S
<1>6. /\ Cardinality(S') <= Cardinality(S) /\ Cardinality(CodeCreators') <= Cardinality(S)
      /\ Cardinality(CodeClosers') <= Cardinality(CodeClosers)
      /\ Cardinality(S) \in Nat /\ Cardinality(S') \in Nat /\ Cardinality(CodeCreators') \in Nat
      /\ Cardinality(CodeClosers) \in Nat /\ Cardinality(CodeClosers') \in Nat
  BY <1>2, <1>3, <1>4, CodeTypes, Counting, PagesFinite
<1>7. /\ OpenOf(code)' = OpenOf(code) /\ fresh'["code"] = fresh["code"]
      /\ Cardinality(OpenOf(code)) \in Nat /\ Cardinality(fresh["code"]) \in Nat
  BY <1>1, CodeTypes, Counting, IdsFinite DEF OpenOf
<1>8. overlaps["resend"] \in Nat /\ HourLimit \in Nat /\ overlaps'["resend"] = overlaps["resend"]
  BY <1>1, CredentialsConstants, OverlapsGrow DEF Kinds
<1>9. /\ Cardinality(S') <= 1 + overlaps["resend"]
      /\ Cardinality(OpenOf(code)') + Cardinality(CodeClosers') <= 1 + overlaps["resend"]
      /\ Cardinality(fresh'["code"]) + Cardinality(CodeCreators') <= HourLimit + overlaps["resend"]
  BY <1>1, <1>5, <1>6, <1>7, <1>8
<1> QED
  BY <1>8, <1>9, CodeSum DEF S

LEMMA CloseKeepsCodes ==
  ASSUME Wf, CodeInv, [Next]_authVars, NEW p \in Pages, Closes(p, "resend")
  PROVE  CodeInv'
<1> DEFINE S == Registering \cup Busy("resend")
<1>1. /\ Moves(p) /\ At(p, "resend", "counted") /\ req'[p].kind = "resend" /\ req'[p].pc = "closed"
      /\ overlaps' = overlaps
  BY DEF Closes, Goes, CloseRows, ghostVars
<1>2. OpenOf(code)' = {} /\ fresh' = fresh
  <2>1. TableOf["resend"] = "code"
    BY DEF TableOf
  <2> QED
    BY <2>1, CloseEmpties DEF Closes, Table
<1>3. S' \subseteq S /\ CodeCreators' \subseteq CodeCreators
  BY <1>1, CreatorsMove DEF At
<1>4. CodeClosers' \subseteq S
  <2>1. CodeClosers' \subseteq S'
    BY DEF CodeClosers, Registering, Busy, At
  <2> QED
    BY <1>3, <2>1
<1>5. S \in SUBSET Pages /\ S' \in SUBSET Pages
  BY CodeTypes
<1>6. /\ Cardinality(S) <= 1 + overlaps["resend"]
      /\ Cardinality(fresh["code"]) + Cardinality(CodeCreators) <= HourLimit + overlaps["resend"]
  BY DEF CodeInv
<1> HIDE DEF S
<1>7. /\ Cardinality(S') <= Cardinality(S) /\ Cardinality(CodeClosers') <= Cardinality(S)
      /\ Cardinality(CodeCreators') <= Cardinality(CodeCreators)
      /\ Cardinality(S) \in Nat /\ Cardinality(S') \in Nat /\ Cardinality(CodeClosers') \in Nat
      /\ Cardinality(CodeCreators) \in Nat /\ Cardinality(CodeCreators') \in Nat
  BY <1>3, <1>4, <1>5, CodeTypes, Counting, PagesFinite
<1>8. /\ Cardinality(OpenOf(code)') = 0 /\ fresh'["code"] = fresh["code"]
      /\ Cardinality(fresh["code"]) \in Nat
  BY <1>2, FS_EmptySet, CodeTypes, Counting, IdsFinite
<1>9. overlaps["resend"] \in Nat /\ HourLimit \in Nat /\ overlaps'["resend"] = overlaps["resend"]
  BY <1>1, CredentialsConstants, OverlapsGrow DEF Kinds
<1>10. /\ Cardinality(S') <= 1 + overlaps["resend"]
       /\ Cardinality(OpenOf(code)') + Cardinality(CodeClosers') <= 1 + overlaps["resend"]
       /\ Cardinality(fresh'["code"]) + Cardinality(CodeCreators') <= HourLimit + overlaps["resend"]
  BY <1>6, <1>7, <1>8, <1>9
<1> QED
  BY <1>9, <1>10, CodeSum DEF S

LEMMA CreateKeepsCodes ==
  ASSUME Wf, CodeInv, [Next]_authVars, NEW p \in Pages, NEW kind \in {"register", "resend"},
         Creates(p, kind)
  PROVE  CodeInv'
<1> DEFINE S == Registering \cup Busy("resend")
<1>1. /\ Moves(p) /\ At(p, kind, "closed") /\ req'[p].kind = "none" /\ overlaps' = overlaps
  BY DEF Creates, Ends, CreateRow, ghostVars
<1>2. PICK i \in Ids : /\ OpenOf(code)' \subseteq OpenOf(code) \cup {i}
                       /\ fresh'["code"] \subseteq fresh["code"] \cup {i}
  <2>1. TableOf[kind] = "code"
    BY DEF TableOf
  <2>2. Adds("code")
    BY <2>1, CreateAdds DEF Creates
  <2> QED
    BY <2>2 DEF Adds, Table
<1>3. /\ S' \subseteq S
      /\ p \in CodeClosers /\ CodeClosers' \subseteq CodeClosers \ {p}
      /\ p \in CodeCreators /\ CodeCreators' \subseteq CodeCreators \ {p}
  BY <1>1, CreatorsMove DEF At
<1>4. S \in SUBSET Pages /\ S' \in SUBSET Pages
  BY CodeTypes
<1>5. /\ Cardinality(S) <= 1 + overlaps["resend"]
      /\ Cardinality(OpenOf(code)) + Cardinality(CodeClosers) <= 1 + overlaps["resend"]
      /\ Cardinality(fresh["code"]) + Cardinality(CodeCreators) <= HourLimit + overlaps["resend"]
  BY DEF CodeInv
<1> HIDE DEF S
<1>6. /\ Cardinality(S') <= Cardinality(S) /\ Cardinality(S) \in Nat /\ Cardinality(S') \in Nat
      /\ Cardinality(CodeClosers') + 1 <= Cardinality(CodeClosers)
      /\ Cardinality(CodeCreators') + 1 <= Cardinality(CodeCreators)
      /\ Cardinality(CodeClosers) \in Nat /\ Cardinality(CodeClosers') \in Nat
      /\ Cardinality(CodeCreators) \in Nat /\ Cardinality(CodeCreators') \in Nat
  BY <1>3, <1>4, CodeTypes, Counting, PagesFinite
<1>7. /\ Cardinality(OpenOf(code)') <= Cardinality(OpenOf(code)) + 1
      /\ Cardinality(fresh'["code"]) <= Cardinality(fresh["code"]) + 1
      /\ Cardinality(OpenOf(code)) \in Nat /\ Cardinality(OpenOf(code)') \in Nat
      /\ Cardinality(fresh["code"]) \in Nat /\ Cardinality(fresh'["code"]) \in Nat
  BY <1>2, CodeTypes, Counting, IdsFinite
<1>8. overlaps["resend"] \in Nat /\ HourLimit \in Nat /\ overlaps'["resend"] = overlaps["resend"]
  BY <1>1, CredentialsConstants, OverlapsGrow DEF Kinds
<1>9. /\ Cardinality(S') <= 1 + overlaps["resend"]
      /\ Cardinality(OpenOf(code)') + Cardinality(CodeClosers') <= 1 + overlaps["resend"]
      /\ Cardinality(fresh'["code"]) + Cardinality(CodeCreators') <= HourLimit + overlaps["resend"]
  BY <1>5, <1>6, <1>7, <1>8
<1> QED
  BY <1>8, <1>9, CodeSum DEF S

\* One handler creates in a step.
LEMMA OnlyCreates ==
  ASSUME Wf, NEW p \in Pages, Moves(p), NEW q \in Pages, NEW kind \in {"register", "resend", "forgot"},
         Creates(q, kind)
  PROVE  q = p
<1>1. req'[q].kind = "none" /\ req[q].kind = kind
  BY DEF Creates, Ends, CreateRow, At
<1> QED
  BY <1>1, MovesOne

LEMMA StepKeepsCodes ==
  ASSUME Wf, AccountInv, CodeInv, [Next]_authVars
  PROVE  CodeInv'
<1>1. CASE \E p \in Pages : \/ Leaves(p) \/ MakesAccount(p) \/ Counts(p, "resend")
                            \/ Closes(p, "resend")
                            \/ Creates(p, "register") \/ Creates(p, "resend")
  BY <1>1, SendKeepsCodes, MakeKeepsCodes, CountKeepsCodes, CloseKeepsCodes, CreateKeepsCodes
<1>2. ASSUME NEW p \in Pages, HandlerShape(p),
             ~(\/ MakesAccount(p) \/ Counts(p, "resend") \/ Closes(p, "resend")
               \/ Creates(p, "register") \/ Creates(p, "resend"))
      PROVE  CodeInv'
  <2>1. /\ Moves(p) /\ ~(req'[p].kind = "register" /\ req'[p].pc = "closed")
        /\ req'[p].kind # "resend"
    BY <1>2 DEF HandlerShape, Quits, Ends, Goes, Passes, FindsCode, FindsLink, Counts, Closes, Creates,
                Consumes
  <2>2. /\ (Registering \cup Busy("resend"))' \subseteq Registering \cup Busy("resend")
        /\ CodeClosers' \subseteq CodeClosers /\ CodeCreators' \subseteq CodeCreators
    BY <2>1, CreatorsMove DEF At
  <2>3. Stable("code")
    <3>1. CASE Creates(p, "forgot")
      <4>1. TableOf["forgot"] = "link"
        BY DEF TableOf
      <4> QED
        BY <3>1, <4>1, CreateAdds DEF Creates
    <3>2. CASE ~\E kind \in {"register", "resend", "forgot"} : Creates(p, kind)
      BY <2>1, <3>2, OnlyCreates, OthersAreStable
    <3> QED
      BY <1>2, <3>1, <3>2
  <2> QED
    BY <2>2, <2>3, QuietCodes
<1>3. CASE req' = req /\ (Calm \/ HourPasses)
  <2>1. /\ (Registering \cup Busy("resend"))' = Registering \cup Busy("resend")
        /\ CodeClosers' = CodeClosers /\ CodeCreators' = CodeCreators
    BY <1>3 DEF Registering, Busy, CodeClosers, CodeCreators, At
  <2>2. \A p \in Pages, kind \in {"register", "resend", "forgot"} : ~Creates(p, kind)
    BY <1>3 DEF Creates, Ends, CreateRow, At
  <2> QED
    BY <2>1, <2>2, QuietCodes, OthersAreStable
<1> QED
  BY <1>1, <1>2, <1>3, StepShape

LEMMA LinkTypes ==
  ASSUME Wf, [Next]_authVars
  PROVE  /\ Cardinality(OpenOf(link)) \in Nat /\ Cardinality(OpenOf(link)') \in Nat
         /\ Cardinality(fresh["link"]) \in Nat /\ Cardinality(fresh'["link"]) \in Nat
         /\ Cardinality(LinkClosers) \in Nat /\ Cardinality(LinkClosers') \in Nat
         /\ Cardinality(LinkCreators) \in Nat /\ Cardinality(LinkCreators') \in Nat
         /\ overlaps["forgot"] \in Nat /\ overlaps'["forgot"] \in Nat
         /\ overlaps'["forgot"] >= overlaps["forgot"] /\ HourLimit \in Nat
<1>1. /\ Cardinality(OpenOf(link)) \in Nat /\ Cardinality(OpenOf(link)') \in Nat
      /\ Cardinality(fresh["link"]) \in Nat /\ Cardinality(fresh'["link"]) \in Nat
  BY CodeTypes, Counting, IdsFinite
<1>2. /\ Cardinality(LinkClosers) \in Nat /\ Cardinality(LinkClosers') \in Nat
      /\ Cardinality(LinkCreators) \in Nat /\ Cardinality(LinkCreators') \in Nat
  BY CodeTypes, Counting, PagesFinite
<1> QED
  BY <1>1, <1>2, OverlapsGrow, CredentialsConstants DEF Kinds

LEMMA QuietLinks ==
  ASSUME Wf, LinkInv, [Next]_authVars, Stable("link"),
         LinkClosers' \subseteq LinkClosers, LinkCreators' \subseteq LinkCreators
  PROVE  LinkInv'
<1>1. /\ Cardinality(LinkClosers') <= Cardinality(LinkClosers)
      /\ Cardinality(LinkCreators') <= Cardinality(LinkCreators)
  BY CodeTypes, Counting, PagesFinite
<1>2. /\ Cardinality(OpenOf(link)') <= Cardinality(OpenOf(link))
      /\ Cardinality(fresh'["link"]) <= Cardinality(fresh["link"])
  BY CodeTypes, Counting, IdsFinite DEF Stable, Table
<1>3. /\ Cardinality(OpenOf(link)) + Cardinality(LinkClosers) <= 1 + overlaps["forgot"]
      /\ Cardinality(fresh["link"]) + Cardinality(LinkCreators) <= HourLimit + overlaps["forgot"]
  BY DEF LinkInv
<1>4. /\ Cardinality(OpenOf(link)') + Cardinality(LinkClosers') <= 1 + overlaps'["forgot"]
      /\ Cardinality(fresh'["link"]) + Cardinality(LinkCreators') <= HourLimit + overlaps'["forgot"]
  BY <1>1, <1>2, <1>3, LinkTypes
<1> QED
  BY <1>4 DEF LinkInv

LEMMA LinkSum ==
  ASSUME Wf, [Next]_authVars, overlaps'["forgot"] = overlaps["forgot"],
         Cardinality(OpenOf(link)') + Cardinality(LinkClosers') <= 1 + overlaps["forgot"],
         Cardinality(fresh'["link"]) + Cardinality(LinkCreators') <= HourLimit + overlaps["forgot"]
  PROVE  LinkInv'
BY DEF LinkInv

LEMMA BusyForgot ==
  ASSUME Wf, BusyInv, [Next]_authVars
  PROVE  /\ Busy("forgot") \in SUBSET Pages
         /\ Cardinality(Busy("forgot")) \in Nat
         /\ Cardinality(Busy("forgot")) <= 1 + overlaps["forgot"]
<1>1. Busy("forgot") \in SUBSET Pages
  BY DEF Busy
<1> QED
  BY <1>1, Counting, PagesFinite DEF BusyInv

LEMMA CountKeepsLinks ==
  ASSUME Wf, BusyInv, LinkInv, [Next]_authVars, NEW p \in Pages, Counts(p, "forgot")
  PROVE  LinkInv'
<1>1. /\ Moves(p) /\ At(p, "forgot", "sent") /\ req'[p].kind = "forgot" /\ req'[p].pc = "counted"
      /\ UNCHANGED <<link, fresh, overlaps>> /\ Cardinality(fresh["link"]) < HourLimit
  <2>1. TableOf["forgot"] = "link"
    BY DEF TableOf
  <2> QED
    BY <2>1 DEF Counts, Goes, Calm, tableVars
<1>2. LinkClosers' \subseteq LinkClosers
  BY <1>1, CreatorsMove DEF At
<1>3. LinkCreators' \subseteq Busy("forgot")
  <2>1. Busy("forgot")' = Busy("forgot")
    BY GoesBusy DEF Counts, Kinds
  <2> QED
    BY <2>1 DEF LinkCreators, LinkClosers, Busy, At
<1>4. /\ Cardinality(LinkClosers') <= Cardinality(LinkClosers)
      /\ Cardinality(LinkCreators') <= Cardinality(Busy("forgot"))
  BY <1>2, <1>3, BusyForgot, CodeTypes, Counting, PagesFinite
<1>5. OpenOf(link)' = OpenOf(link) /\ fresh'["link"] = fresh["link"]
  BY <1>1 DEF OpenOf
<1>6. Cardinality(OpenOf(link)) + Cardinality(LinkClosers) <= 1 + overlaps["forgot"]
  BY DEF LinkInv
<1>7. /\ Cardinality(OpenOf(link)') + Cardinality(LinkClosers') <= 1 + overlaps["forgot"]
      /\ Cardinality(fresh'["link"]) + Cardinality(LinkCreators') <= HourLimit + overlaps["forgot"]
  BY <1>1, <1>4, <1>5, <1>6, BusyForgot, LinkTypes
<1> QED
  BY <1>1, <1>7, LinkSum

LEMMA CloseKeepsLinks ==
  ASSUME Wf, BusyInv, LinkInv, [Next]_authVars, NEW p \in Pages, Closes(p, "forgot")
  PROVE  LinkInv'
<1>1. /\ Moves(p) /\ At(p, "forgot", "counted") /\ req'[p].kind = "forgot" /\ req'[p].pc = "closed"
      /\ overlaps' = overlaps
  BY DEF Closes, Goes, CloseRows, ghostVars
<1>2. OpenOf(link)' = {} /\ fresh' = fresh
  <2>1. TableOf["forgot"] = "link"
    BY DEF TableOf
  <2> QED
    BY <2>1, CloseEmpties DEF Closes, Table
<1>3. LinkCreators' \subseteq LinkCreators
  BY <1>1, CreatorsMove DEF At
<1>4. LinkClosers' \subseteq Busy("forgot")
  <2>1. Busy("forgot")' = Busy("forgot")
    BY GoesBusy DEF Closes, Kinds
  <2> QED
    BY <2>1 DEF LinkClosers, Busy, At
<1>5. /\ Cardinality(LinkCreators') <= Cardinality(LinkCreators)
      /\ Cardinality(LinkClosers') <= Cardinality(Busy("forgot"))
  BY <1>3, <1>4, BusyForgot, CodeTypes, Counting, PagesFinite
<1>6. Cardinality(OpenOf(link)') = 0
  BY <1>2, FS_EmptySet
<1>7. Cardinality(fresh["link"]) + Cardinality(LinkCreators) <= HourLimit + overlaps["forgot"]
  BY DEF LinkInv
<1>8. /\ Cardinality(OpenOf(link)') + Cardinality(LinkClosers') <= 1 + overlaps["forgot"]
      /\ Cardinality(fresh'["link"]) + Cardinality(LinkCreators') <= HourLimit + overlaps["forgot"]
  BY <1>2, <1>5, <1>6, <1>7, BusyForgot, LinkTypes
<1> QED
  BY <1>1, <1>8, LinkSum

LEMMA CreateKeepsLinks ==
  ASSUME Wf, LinkInv, [Next]_authVars, NEW p \in Pages, Creates(p, "forgot")
  PROVE  LinkInv'
<1>1. /\ Moves(p) /\ At(p, "forgot", "closed") /\ req'[p].kind = "none" /\ overlaps' = overlaps
  BY DEF Creates, Ends, CreateRow, ghostVars
<1>2. PICK i \in Ids : /\ OpenOf(link)' \subseteq OpenOf(link) \cup {i}
                       /\ fresh'["link"] \subseteq fresh["link"] \cup {i}
  <2>1. TableOf["forgot"] = "link"
    BY DEF TableOf
  <2>2. Adds("link")
    BY <2>1, CreateAdds DEF Creates
  <2> QED
    BY <2>2 DEF Adds, Table
<1>3. /\ p \in LinkClosers /\ LinkClosers' \subseteq LinkClosers \ {p}
      /\ p \in LinkCreators /\ LinkCreators' \subseteq LinkCreators \ {p}
  BY <1>1, CreatorsMove DEF At
<1>4. /\ Cardinality(LinkClosers') + 1 <= Cardinality(LinkClosers)
      /\ Cardinality(LinkCreators') + 1 <= Cardinality(LinkCreators)
  BY <1>3, CodeTypes, Counting, PagesFinite
<1>5. /\ Cardinality(OpenOf(link)') <= Cardinality(OpenOf(link)) + 1
      /\ Cardinality(fresh'["link"]) <= Cardinality(fresh["link"]) + 1
  BY <1>2, CodeTypes, Counting, IdsFinite
<1>6. /\ Cardinality(OpenOf(link)) + Cardinality(LinkClosers) <= 1 + overlaps["forgot"]
      /\ Cardinality(fresh["link"]) + Cardinality(LinkCreators) <= HourLimit + overlaps["forgot"]
  BY DEF LinkInv
<1>7. /\ Cardinality(OpenOf(link)') + Cardinality(LinkClosers') <= 1 + overlaps["forgot"]
      /\ Cardinality(fresh'["link"]) + Cardinality(LinkCreators') <= HourLimit + overlaps["forgot"]
  BY <1>4, <1>5, <1>6, LinkTypes
<1> QED
  BY <1>1, <1>7, LinkSum

LEMMA StepKeepsLinks ==
  ASSUME Wf, BusyInv, LinkInv, [Next]_authVars
  PROVE  LinkInv'
<1>1. CASE \E p \in Pages : Counts(p, "forgot") \/ Closes(p, "forgot") \/ Creates(p, "forgot")
  BY <1>1, CountKeepsLinks, CloseKeepsLinks, CreateKeepsLinks
<1>2. ASSUME NEW p \in Pages, HandlerShape(p) \/ Leaves(p),
             ~(Counts(p, "forgot") \/ Closes(p, "forgot") \/ Creates(p, "forgot"))
      PROVE  LinkInv'
  <2>1. /\ Moves(p) /\ ~(req'[p].kind = "forgot" /\ req'[p].pc \in {"closed", "counted"})
    BY <1>2 DEF HandlerShape, Quits, Ends, Goes, Passes, MakesAccount, FindsCode, FindsLink, Counts,
                Closes, Creates, Consumes, Leaves
  <2>2. LinkClosers' \subseteq LinkClosers /\ LinkCreators' \subseteq LinkCreators
    BY <2>1, CreatorsMove DEF At
  <2>3. Stable("link")
    <3>1. CASE \E kind \in {"register", "resend"} : Creates(p, kind)
      <4>1. TableOf["register"] = "code" /\ TableOf["resend"] = "code"
        BY DEF TableOf
      <4> QED
        BY <3>1, <4>1, CreateAdds DEF Creates
    <3>2. CASE ~\E kind \in {"register", "resend"} : Creates(p, kind)
      BY <1>2, <2>1, <3>2, OnlyCreates, OthersAreStable
    <3> QED
      BY <3>1, <3>2
  <2> QED
    BY <2>2, <2>3, QuietLinks
<1>3. CASE req' = req /\ (Calm \/ HourPasses)
  <2>1. LinkClosers' = LinkClosers /\ LinkCreators' = LinkCreators
    BY <1>3 DEF LinkClosers, LinkCreators, At
  <2>2. \A p \in Pages, kind \in {"register", "resend", "forgot"} : ~Creates(p, kind)
    BY <1>3 DEF Creates, Ends, CreateRow, At
  <2> QED
    BY <2>1, <2>2, QuietLinks, OthersAreStable
<1> QED
  BY <1>1, <1>2, <1>3, StepShape

-----------------------------------------------------------------------------
(* What is single-use                                                       *)

SingleUseInv == /\ AccountInv /\ BusyInv /\ VerifyInv /\ ResetInv /\ RecoveryInv
                /\ CodeInv /\ LinkInv

LEMMA InitIsSingleUse ==
  ASSUME PagesInit
  PROVE  SingleUseInv
<1>1. /\ req = [p \in Pages |-> NoReq] /\ NoReq.kind = "none" /\ NoReq.pc = "idle"
      /\ code = [i \in Ids |-> "none"] /\ link = [i \in Ids |-> "none"]
      /\ fresh = [code |-> {}, link |-> {}]
      /\ overlaps = [k \in Kinds \cup {"secondFactor"} |-> 0]
      /\ uses = [verify |-> 0, reset |-> [i \in Ids |-> 0],
                 recovery |-> [r \in RecoveryCodes |-> 0]]
      /\ tfa = [on |-> batches = 1, hashes |-> Batch(batches)]
      /\ batches \in {0, 1}
      /\ step \in [Pages -> {"login", "home", "register"}]
  BY DEF PagesInit, Init, NoReq
<1>2. \A p \in Pages : req[p].kind = "none" /\ req[p].pc = "idle"
  BY <1>1
<1>3. /\ \A k \in Kinds : Busy(k) = {}
      /\ OpenOf(code) = {} /\ OpenOf(link) = {}
      /\ fresh.code = {} /\ fresh.link = {}
  BY <1>1, <1>2 DEF Busy, OpenOf, Kinds
<1>4. /\ \A k \in Kinds : overlaps[k] = 0
      /\ {"verify", "reset", "twoFactor", "forgot", "resend"} \subseteq Kinds
      /\ uses.verify = 0 /\ \A i \in Ids : uses.reset[i] = 0
      /\ \A r \in RecoveryCodes : uses.recovery[r] = 0
  BY <1>1 DEF Kinds
<1>5. Cardinality({}) = 0 /\ HourLimit \in Nat
  BY FS_EmptySet, CredentialsConstants
<1>6. AccountInv
  BY <1>1, <1>2, <1>3 DEF AccountInv, At
<1>7. BusyInv
  BY <1>3, <1>4, <1>5 DEF BusyInv
<1>8. VerifyInv
  <2>1. Verifying = {}
    BY <1>2 DEF Verifying, At
  <2> QED
    BY <1>4, <1>5, <2>1 DEF VerifyInv
<1>9. ResetInv
  <2>1. \A i : Resetting(i) = {}
    BY <1>2 DEF Resetting, At
  <2> QED
    BY <1>4, <1>5, <2>1 DEF ResetInv
<1>10. RecoveryInv
  <2>1. Unread = {} /\ \A r : Restoring(r) = {}
    BY <1>2 DEF Unread, Restoring, At
  <2>2. \A r \in RecoveryCodes : r[1] > batches => r \notin tfa.hashes
    BY <1>1 DEF Batch
  <2> QED
    BY <1>3, <1>4, <1>5, <2>1, <2>2 DEF RecoveryInv, Alive
<1>11. CodeInv /\ LinkInv
  <2>1. /\ Registering \cup Busy("resend") = {} /\ CodeClosers = {} /\ CodeCreators = {}
        /\ LinkClosers = {} /\ LinkCreators = {}
    BY <1>2, <1>3, <1>4 DEF Registering, CodeClosers, CodeCreators, LinkClosers, LinkCreators, At
  <2>2. overlaps["resend"] = 0 /\ overlaps["forgot"] = 0
    BY <1>4
  <2>3. /\ Cardinality(Registering \cup Busy("resend")) = 0
        /\ Cardinality(CodeClosers) = 0 /\ Cardinality(CodeCreators) = 0
        /\ Cardinality(LinkClosers) = 0 /\ Cardinality(LinkCreators) = 0
    BY <1>5, <2>1
  <2>4. /\ Cardinality(OpenOf(code)) = 0 /\ Cardinality(OpenOf(link)) = 0
        /\ Cardinality(fresh.code) = 0 /\ Cardinality(fresh.link) = 0
    BY <1>3, <1>5
  <2> QED
    BY <1>5, <2>2, <2>3, <2>4 DEF CodeInv, LinkInv
<1> QED
  BY <1>6, <1>7, <1>8, <1>9, <1>10, <1>11 DEF SingleUseInv

LEMMA SingleUseFollows ==
  ASSUME Wf, SingleUseInv
  PROVE  CredentialsAreSingleUse
<1>1. /\ overlaps["verify"] \in Nat /\ overlaps["reset"] \in Nat /\ overlaps["resend"] \in Nat
      /\ overlaps["forgot"] \in Nat /\ overlaps["twoFactor"] \in Nat
      /\ HourLimit \in Nat /\ uses.verify \in Nat /\ \A i \in Ids : uses.reset[i] \in Nat
  BY CredentialsConstants DEF Wf, TypeOK, Kinds
<1>2. UsedOnce
  <2>1. \A r \in RecoveryCodes : uses.recovery[r] <= 1 + overlaps.twoFactor
    BY DEF SingleUseInv, RecoveryInv
  <2>2. ASSUME NEW i \in Ids PROVE uses.reset[i] <= 1 + overlaps.reset
    <3>1. Resetting(i) \in SUBSET Pages
      BY DEF Resetting
    <3>2. Cardinality(Resetting(i)) \in Nat
      BY <3>1, Counting, PagesFinite
    <3>3. uses.reset[i] + Cardinality(Resetting(i)) <= 1 + overlaps["reset"]
      BY DEF SingleUseInv, ResetInv
    <3> QED
      BY <1>1, <3>2, <3>3
  <2>3. uses.verify <= 1 + overlaps.verify
    <3>1. Verifying \in SUBSET Pages
      BY DEF Verifying
    <3>2. Cardinality(Verifying) \in Nat
      BY <3>1, Counting, PagesFinite
    <3> QED
      BY <1>1, <3>2 DEF SingleUseInv, VerifyInv
  <2> QED
    BY <2>1, <2>2, <2>3 DEF UsedOnce
<1>3. OnlyLatestIsOpen
  <2>1. /\ CodeClosers \in SUBSET Pages /\ CodeCreators \in SUBSET Pages
        /\ LinkClosers \in SUBSET Pages /\ LinkCreators \in SUBSET Pages
    BY DEF Registering, CodeClosers, CodeCreators, LinkClosers, LinkCreators
  <2>2. /\ Cardinality(CodeClosers) \in Nat /\ Cardinality(CodeCreators) \in Nat
        /\ Cardinality(LinkClosers) \in Nat /\ Cardinality(LinkCreators) \in Nat
    BY <2>1, Counting, PagesFinite
  <2>3. /\ OpenOf(code) \in SUBSET Ids /\ OpenOf(link) \in SUBSET Ids
        /\ fresh.code \in SUBSET Ids /\ fresh.link \in SUBSET Ids
    BY DEF OpenOf, Wf, TypeOK
  <2>4. /\ Cardinality(OpenOf(code)) \in Nat /\ Cardinality(OpenOf(link)) \in Nat
        /\ Cardinality(fresh.code) \in Nat /\ Cardinality(fresh.link) \in Nat
    BY <2>3, Counting, IdsFinite
  <2> QED
    BY <1>1, <2>2, <2>4 DEF OnlyLatestIsOpen, SingleUseInv, CodeInv, LinkInv
<1> QED
  BY <1>2, <1>3 DEF CredentialsAreSingleUse

\* A recovery code, a reset link and the verification of the account are used
\* once, only the latest code or link is open, and no more than the limit are
\* created in an hour, up to the requests that overlapped (verifyEmail,
\* resetPassword, consumeRecoveryCode, resendVerificationCode and
\* requestPasswordReset).
THEOREM SingleUseTheorem == Spec => []CredentialsAreSingleUse
<1>1. PagesInit => Wf /\ SingleUseInv
  BY InitIsWf, InitIsSingleUse
<1>2. Wf /\ SingleUseInv /\ [Next]_authVars => (Wf /\ SingleUseInv)'
  BY StepKeepsWf, StepKeepsAccount, StepKeepsBusy, StepKeepsVerify, StepKeepsReset,
     StepKeepsRecovery, StepKeepsCodes, StepKeepsLinks DEF SingleUseInv
<1>3. Wf /\ SingleUseInv => CredentialsAreSingleUse
  BY SingleUseFollows
<1> QED
  BY <1>1, <1>2, <1>3, PTL DEF Spec

-----------------------------------------------------------------------------
(* The recovery codes that a card shows                                     *)

\* A handler leaves the other pages alone, and shows no settings page that its
\* own page did not show.
LEMMA HandlerLeavesSettings ==
  ASSUME Wf, NEW p \in Pages, HandlerStep(p)
  PROVE  \/ step' = step
         \/ /\ \A q \in Pages \ {p} : step'[q] = step[q]
            /\ step'[p] # "settings" /\ req[p].kind \notin {"enable", "disable"}
<1>1. step \in [Pages -> {"register", "login", "verify", "forgot", "sent", "reset",
                          "twoFactor", "home", "settings"}]
  BY DEF Wf, TypeOK
<1> DEFINE Goal == \/ step' = step
                   \/ /\ \A q \in Pages \ {p} : step'[q] = step[q]
                      /\ step'[p] # "settings" /\ req[p].kind \notin {"enable", "disable"}
<1>2. ASSUME Stays(p) PROVE Goal
  BY <1>2, EndsStays
<1>3. ASSUME NEW to \in {"verify", "sent", "twoFactor", "home", "login"}, Answer(p, to),
             req[p].kind \notin {"enable", "disable"}
      PROVE  Goal
  <2>1. step' = [step EXCEPT ![p] = to]
    BY <1>3 DEF Answer
  <2> QED
    BY <1>1, <1>3, <2>1
<1>4. CASE \/ NotHuman(p) \/ enableTwoFactorWrite(p) \/ disableTwoFactorWrite(p)
           \/ registerRead(p) \/ registerCreate(p) \/ verifyEmailRead(p) \/ resetPasswordRead(p)
           \/ twoFactorSettingRead(p) \/ loginRead(p)
  <2>1. Stays(p) \/ step' = step
    BY <1>4 DEF registerRead, registerCreate, verifyEmailRead, resetPasswordRead, loginRead,
                twoFactorSettingRead, NotHuman, enableTwoFactorWrite, disableTwoFactorWrite
  <2> QED
    BY <1>2, <2>1
<1>5. CASE verifyEmailWrite(p) \/ resetPasswordWrite(p) \/ completeTwoFactorWrite(p)
  <2>1. req[p].kind \notin {"enable", "disable"}
    BY <1>5 DEF verifyEmailWrite, resetPasswordWrite, completeTwoFactorWrite, At
  <2> QED
    BY <1>3, <1>5, <2>1 DEF verifyEmailWrite, resetPasswordWrite, completeTwoFactorWrite
<1>6. CASE loginAnswer(p)
  <2>1. req[p].kind \notin {"enable", "disable"}
    BY <1>6 DEF loginAnswer, At
  <2>2. Stays(p) \/ Answer(p, "verify") \/ Answer(p, "twoFactor") \/ Answer(p, "home")
    BY <1>6 DEF loginAnswer, Refuse
  <2> QED
    BY <1>2, <1>3, <2>1, <2>2
<1>7. CASE completeTwoFactorRead(p)
  <2>1. req[p].kind \notin {"enable", "disable"}
    BY <1>7 DEF completeTwoFactorRead, At
  <2>2. Stays(p) \/ Answer(p, "home") \/ step' = step
    BY <1>7 DEF completeTwoFactorRead, Refuse
  <2> QED
    BY <1>2, <1>3, <2>1, <2>2
<1>8. ASSUME NEW kind \in {"register", "resend", "forgot"},
             CountRows(p, kind) \/ CloseRows(p, kind) \/ CreateRow(p, kind)
      PROVE  Goal
  <2>1. req[p].kind \notin {"enable", "disable"}
    BY <1>8 DEF CountRows, CloseRows, CreateRow, At
  <2>2. Answer(p, ShownAfter[kind]) \/ step' = step
    BY <1>8 DEF CountRows, CloseRows, CreateRow
  <2>3. ShownAfter[kind] \in {"verify", "sent"}
    BY DEF ShownAfter
  <2> QED
    BY <1>3, <2>1, <2>2, <2>3
<1> QED
  BY <1>4, <1>5, <1>6, <1>7, <1>8
     DEF HandlerStep, registerCode, resendVerificationCode, requestPasswordReset

\* The answers that a card waits for, and the steps it does not hear of.
Enables(p) ==
    /\ Ends(p) /\ At(p, "enable", "checked") /\ step' = step
    /\ batches' = batches + 1 /\ tfa'.on /\ tfa'.hashes = Batch(batches + 1)
    /\ uses' = uses /\ overlaps' = overlaps
    /\ card'[p].shown = batches + 1 /\ card'[p].refetch
    /\ \A q \in Pages \ {p} : card'[q] = card[q]
    /\ outdated' = {q \in Pages : step[q] = "settings"}

Disables(p) ==
    /\ Ends(p) /\ At(p, "disable", "checked") /\ step' = step
    /\ batches' = batches /\ ~tfa'.on /\ tfa'.hashes = {}
    /\ uses' = uses /\ overlaps' = overlaps
    /\ card'[p].shown = card[p].shown /\ card'[p].refetch
    /\ \A q \in Pages \ {p} : card'[q] = card[q]
    /\ outdated' = {q \in Pages : step[q] = "settings"}

\* What a handler may have done otherwise to the codes.
Apart(p) ==
    \/ /\ UNCHANGED <<tfa, batches>> /\ uses'.recovery = uses.recovery
       /\ ~At(p, "twoFactor", "matched")'
    \/ Consumes(p)
    \/ Ends(p) /\ completeTwoFactorWrite(p)

LEMMA HandlerCards ==
  ASSUME Wf, NEW p \in Pages, HandlerStep(p), HandlerShape(p), CardHears(p)
  PROVE  \/ Enables(p) \/ Disables(p)
         \/ /\ Apart(p) /\ Moves(p) /\ req'[p].kind \in {req[p].kind, "none"}
            /\ req[p].kind # "none"
            /\ UNCHANGED <<card, outdated, overlaps>>
<1>1. /\ card \in [Pages -> CardType] /\ card[p] \in CardType /\ batches \in Nat
      /\ tfa \in [on : BOOLEAN, hashes : SUBSET RecoveryCodes] /\ req \in [Pages -> ReqType]
      /\ uses \in [verify : Nat, reset : [Ids -> Nat], recovery : [RecoveryCodes -> Nat]]
  BY CredentialsConstants DEF Wf, CardsOK, TypeOK, ReqType
<1>2. CASE Ends(p) /\ enableTwoFactorWrite(p)
  <2>1. batches' = batches + 1 /\ batches' # batches
    BY <1>1, <1>2 DEF enableTwoFactorWrite
  <2>2. step' = step
    BY <1>2, EndsStays DEF enableTwoFactorWrite
  <2>3. /\ card' = [card EXCEPT ![p].setup = FALSE, ![p].shown = batches', ![p].refetch = TRUE]
        /\ outdated' = {q \in Pages : step[q] = "settings"}
    BY <2>1 DEF CardHears
  <2>4. /\ card'[p].shown = batches + 1 /\ card'[p].refetch
        /\ \A q \in Pages \ {p} : card'[q] = card[q]
    BY <1>1, <2>1, <2>3 DEF CardType
  <2>5. /\ tfa'.on /\ tfa'.hashes = Batch(batches + 1) /\ uses' = uses /\ overlaps' = overlaps
        /\ At(p, "enable", "checked")
    BY <1>2 DEF enableTwoFactorWrite, ghostVars
  <2> QED
    BY <1>2, <2>1, <2>2, <2>3, <2>4, <2>5 DEF Enables
<1>3. CASE Ends(p) /\ disableTwoFactorWrite(p)
  <2>1. batches' = batches /\ At(p, "disable", "checked")
    BY <1>3 DEF disableTwoFactorWrite
  <2>2. step' = step
    BY <1>3, EndsStays DEF disableTwoFactorWrite
  <2>3. /\ card' = [card EXCEPT ![p].refetch = TRUE]
        /\ outdated' = {q \in Pages : step[q] = "settings"}
    BY <2>1 DEF CardHears
  <2>4. /\ card'[p].shown = card[p].shown /\ card'[p].refetch
        /\ \A q \in Pages \ {p} : card'[q] = card[q]
    BY <1>1, <2>3 DEF CardType
  <2>5. ~tfa'.on /\ tfa'.hashes = {} /\ uses' = uses /\ overlaps' = overlaps
    BY <1>3 DEF disableTwoFactorWrite, ghostVars
  <2> QED
    BY <1>3, <2>1, <2>2, <2>3, <2>4, <2>5 DEF Disables
<1>4. CASE /\ HandlerShape(p) /\ ~(Ends(p) /\ enableTwoFactorWrite(p))
           /\ ~(Ends(p) /\ disableTwoFactorWrite(p))
  <2>1. /\ Moves(p) /\ req'[p].kind \in {req[p].kind, "none"} /\ overlaps' = overlaps
        /\ batches' = batches
    BY <1>4 DEF HandlerShape, Quits, Calm, Passes, MakesAccount, FindsCode, FindsLink, Counts,
                Closes, Creates, Consumes, verifyEmailWrite, resetPasswordWrite,
                completeTwoFactorWrite, CloseRows, CreateRow, ghostVars, Ends, Goes, At, tableVars
  <2>2. req[p].kind # "none"
    BY DEF HandlerStep, NotHuman, registerRead, registerCreate, registerCode, loginRead,
           loginAnswer, verifyEmailRead, verifyEmailWrite, resendVerificationCode,
           requestPasswordReset, CountRows, CloseRows, CreateRow, resetPasswordRead,
           resetPasswordWrite, completeTwoFactorRead, completeTwoFactorWrite,
           twoFactorSettingRead, enableTwoFactorWrite, disableTwoFactorWrite, At
  <2>3. Apart(p)
    <3>1. CASE \/ Quits(p) \/ Passes(p) \/ MakesAccount(p) \/ FindsCode(p) \/ FindsLink(p)
               \/ Counts(p, "resend") \/ Counts(p, "forgot")
               \/ Closes(p, "resend") \/ Closes(p, "forgot")
               \/ Creates(p, "register") \/ Creates(p, "resend") \/ Creates(p, "forgot")
      <4>1. ~At(p, "twoFactor", "matched")'
        BY <3>1 DEF Quits, Passes, MakesAccount, FindsCode, FindsLink, Counts, Closes, Creates,
                    Ends, Goes, At
      <4>2. UNCHANGED <<tfa, batches, uses>>
        BY <3>1 DEF Quits, Passes, MakesAccount, FindsCode, FindsLink, Counts, Closes, Creates,
                    Calm, tableVars, CloseRows, CreateRow, ghostVars
      <4> QED
        BY <4>1, <4>2 DEF Apart
    <3>2. CASE Ends(p) /\ (verifyEmailWrite(p) \/ resetPasswordWrite(p))
      <4>1. ~At(p, "twoFactor", "matched")'
        BY <3>2 DEF Ends, At
      <4>2. UNCHANGED <<tfa, batches>> /\ uses'.recovery = uses.recovery
        BY <1>1, <3>2 DEF verifyEmailWrite, resetPasswordWrite
      <4> QED
        BY <4>1, <4>2 DEF Apart
    <3>3. CASE Consumes(p) \/ (Ends(p) /\ completeTwoFactorWrite(p))
      BY <3>3 DEF Apart
    <3> QED
      BY <1>4, <3>1, <3>2, <3>3 DEF HandlerShape
  <2>4. ~At(p, "disable", "checked")
    <3>1. CASE At(p, "disable", "checked")
      <4>1. disableTwoFactorWrite(p)
        BY <3>1 DEF HandlerStep, NotHuman, registerRead, registerCreate, registerCode, loginRead,
             loginAnswer, verifyEmailRead, verifyEmailWrite, resendVerificationCode,
             requestPasswordReset, CountRows, CloseRows, CreateRow, resetPasswordRead,
             resetPasswordWrite, completeTwoFactorRead, completeTwoFactorWrite,
             twoFactorSettingRead, enableTwoFactorWrite, At
      <4> QED
        BY <1>4, <4>1, EndsStays DEF disableTwoFactorWrite
    <3> QED
      BY <3>1
  <2>5. UNCHANGED <<card, outdated>>
    BY <2>1, <2>4 DEF CardHears
  <2> QED
    BY <2>1, <2>2, <2>3, <2>5
<1> QED
  BY <1>2, <1>3, <1>4

\* A move of a page takes no codes up, and only its refetch turns a card on.
LEMMA TurnCards ==
  ASSUME Wf, PlaceInv, NEW p \in Pages, Turns(p)
  PROVE  /\ \A q \in Pages :
              /\ card'[q].refetch => card[q].refetch
              /\ card'[q].shown # 0 => card'[q].shown = card[q].shown
              /\ card'[q].shown # 0 /\ card'[q].on /\ q \notin outdated' =>
                   \/ card[q].on /\ q \notin outdated
                   \/ card[q].refetch /\ tfa.on
              /\ card'[q].shown # 0 \/ card'[q].refetch => step'[q] = "settings"
              /\ step'[q] # step[q] => Idle(q)
<1>1. /\ card \in [Pages -> CardType] /\ card[p] \in CardType /\ tfa.on \in BOOLEAN
      /\ step \in [Pages -> {"register", "login", "verify", "forgot", "sent", "reset",
                             "twoFactor", "home", "settings"}]
      /\ outdated \in SUBSET Pages
  BY DEF Wf, CardsOK, TypeOK
<1>2. /\ NoCard.on = FALSE /\ NoCard.shown = 0 /\ NoCard.refetch = FALSE
      /\ [NoCard EXCEPT !.on = tfa.on].shown = 0 /\ [NoCard EXCEPT !.on = tfa.on].refetch = FALSE
  BY DEF NoCard
<1>3. CASE follow(p)
  <2>1. /\ card'[p] = NoCard /\ \A q \in Pages \ {p} : card'[q] = card[q] /\ step'[q] = step[q]
        /\ Idle(p) /\ outdated' = outdated \ {p}
    BY <1>1, <1>3 DEF follow, Answer
  <2> QED
    BY <1>2, <2>1 DEF PlaceInv
<1>4. CASE openResetLink(p)
  <2>1. /\ card' = card /\ outdated' = outdated /\ \A q \in Pages \ {p} : step'[q] = step[q]
        /\ Idle(p) /\ step[p] = "login"
    BY <1>1, <1>4 DEF openResetLink, LoginForm, cardVars
  <2> QED
    BY <2>1 DEF PlaceInv
<1>5. CASE openSettings(p)
  <2>1. /\ card'[p] = [NoCard EXCEPT !.on = tfa.on]
        /\ \A q \in Pages \ {p} : card'[q] = card[q] /\ step'[q] = step[q]
        /\ Idle(p) /\ outdated' = outdated \ {p}
    BY <1>1, <1>5 DEF openSettings
  <2> QED
    BY <1>2, <2>1 DEF PlaceInv
<1>6. CASE handleBeginSetup(p) \/ dismiss(p) \/ onStatusChanged(p)
  <2>1. step' = step
    BY <1>6 DEF handleBeginSetup, dismiss, onStatusChanged, vars, pageVars
  <2>2. \A q \in Pages \ {p} : card'[q] = card[q] /\ (q \notin outdated' => q \notin outdated)
    BY <1>1, <1>6 DEF handleBeginSetup, dismiss, onStatusChanged
  <2>3. CASE handleBeginSetup(p)
    <3>1. card'[p].shown = 0 /\ card'[p].refetch = card[p].refetch
      BY <1>1, <2>3 DEF handleBeginSetup, CardType
    <3> QED
      BY <2>1, <2>2, <3>1 DEF PlaceInv
  <2>4. CASE dismiss(p)
    <3>1. /\ card'[p].shown \in {0, card[p].shown} /\ card'[p].refetch = card[p].refetch
          /\ card'[p].on = card[p].on /\ outdated' = outdated
      BY <1>1, <2>4 DEF dismiss, CardType
    <3> QED
      BY <2>1, <2>2, <3>1 DEF PlaceInv
  <2>5. CASE onStatusChanged(p)
    <3>1. /\ card'[p].shown = card[p].shown /\ card'[p].refetch = FALSE
          /\ card'[p].on = tfa.on /\ card[p].refetch
      BY <1>1, <2>5 DEF onStatusChanged, CardType
    <3> QED
      BY <2>1, <2>2, <3>1 DEF PlaceInv
  <2> QED
    BY <1>6, <2>3, <2>4, <2>5
<1> QED
  BY <1>3, <1>4, <1>5, <1>6 DEF Turns

LEMMA StepKeepsPlace ==
  ASSUME Wf, PlaceInv, [Next]_authVars
  PROVE  PlaceInv'
<1>1. ASSUME NEW p \in Pages, HandlerStep(p), HandlerShape(p), CardHears(p)
      PROVE  PlaceInv'
  <2>1. CASE Enables(p) \/ Disables(p)
    <3>1. /\ step' = step /\ req'[p].kind = "none" /\ Moves(p)
          /\ req[p].kind \in {"enable", "disable"}
          /\ \A q \in Pages \ {p} : card'[q] = card[q]
      BY <2>1 DEF Enables, Disables, Ends, At
    <3>2. \A q \in Pages \ {p} : req'[q] = req[q]
      BY <3>1, MovesOne
    <3>3. step[p] = "settings"
      BY <3>1 DEF PlaceInv
    <3> QED
      BY <3>1, <3>2, <3>3 DEF PlaceInv
  <2>2. CASE /\ Apart(p) /\ Moves(p) /\ req'[p].kind \in {req[p].kind, "none"}
             /\ req[p].kind # "none"
             /\ UNCHANGED <<card, outdated, overlaps>>
    <3>1. \A q \in Pages \ {p} : req'[q] = req[q]
      BY <2>2, MovesOne
    <3>2. CASE step' = step
      BY <2>2, <3>1, <3>2 DEF PlaceInv
    <3>3. CASE /\ \A q \in Pages \ {p} : step'[q] = step[q]
               /\ step'[p] # "settings" /\ req[p].kind \notin {"enable", "disable"}
      <4>1. step[p] # "settings"
        BY <2>2, <3>3 DEF PlaceInv
      <4> QED
        BY <2>2, <3>1, <3>3, <4>1 DEF PlaceInv
    <3> QED
      BY <1>1, <3>2, <3>3, HandlerLeavesSettings
  <2> QED
    BY <1>1, <2>1, <2>2, HandlerCards
<1>2. ASSUME NEW p \in Pages, SendsOne(p) PROVE PlaceInv'
  <2>1. PICK r \in ReqType :
           /\ Send(p, r) /\ Idle(p) /\ r.pc = "sent" /\ r.kind \in Kinds
           /\ r.kind = "twoFactor" => r.id \in {0, 1, 2}
           /\ step[p] = "settings" <=> r.kind \in {"enable", "disable"}
    BY <1>2 DEF SendsOne
  <2>2. Leaves(p) /\ req'[p] = r /\ step' = step /\ card' = card
    BY <2>1, SendShape
  <2>3. \A q \in Pages \ {p} : req'[q] = req[q]
    BY <2>2, MovesOne DEF Leaves
  <2> QED
    BY <2>1, <2>2, <2>3 DEF PlaceInv
<1>3. ASSUME NEW p \in Pages, Turns(p), (Ends(p) /\ Idle(p)) \/ req' = req
      PROVE  PlaceInv'
  <2>1. \A q \in Pages : /\ card'[q].shown # 0 \/ card'[q].refetch => step'[q] = "settings"
                         /\ step'[q] # step[q] => Idle(q)
    BY <1>3, TurnCards
  <2>2. \A q \in Pages : req'[q].kind = req[q].kind
    BY <1>3, MovesOne DEF Ends, Idle, Wf, ReqOK
  <2>3. \A q \in Pages : Idle(q) => req[q].kind = "none"
    BY DEF Idle, Wf, ReqOK
  <2> QED
    BY <2>1, <2>2, <2>3 DEF PlaceInv
<1>4. CASE req' = req /\ step' = step /\ UNCHANGED cardVars
  BY <1>4 DEF PlaceInv, cardVars
<1>5. (HourPasses \/ cleanup \/ Tick \/ UNCHANGED authVars) => step' = step
  BY DEF HourPasses, cleanup, Tick, authVars, vars, pageVars
<1>6. UNCHANGED authVars => UNCHANGED cardVars
  BY DEF authVars
<1> QED
  BY <1>1, <1>2, <1>3, <1>4, <1>5, <1>6, StepKeepsWf

\* One request about the second factor at a time; its answer is read by its card.
LEMMA HandlerKeepsOneChange ==
  ASSUME Wf, PlaceInv, OneChange, NEW p \in Pages, HandlerStep(p), HandlerShape(p), CardHears(p)
  PROVE  OneChange'
<1>1. CASE Enables(p) \/ Disables(p)
  <2>1. /\ req'[p].kind = "none" /\ Moves(p) /\ req[p].kind \in SecondFactor
        /\ \A q \in Pages \ {p} : card'[q] = card[q]
    BY <1>1 DEF Enables, Disables, Ends, At, SecondFactor
  <2>2. \A q \in Pages \ {p} : req'[q] = req[q]
    BY <2>1, MovesOne
  <2>3. \A q \in Pages \ {p} : req[q].kind \notin SecondFactor /\ ~card[q].refetch
    BY <2>1 DEF OneChange
  <2> QED
    BY <2>1, <2>2, <2>3 DEF OneChange, SecondFactor
<1>2. CASE /\ Moves(p) /\ req'[p].kind \in {req[p].kind, "none"}
           /\ UNCHANGED <<card, outdated, overlaps>>
  <2>1. \A q \in Pages \ {p} : req'[q] = req[q]
    BY <1>2, MovesOne
  <2>2. \A q \in Pages : req'[q].kind \in SecondFactor => req[q].kind \in SecondFactor
    BY <1>2, <2>1 DEF SecondFactor
  <2> QED
    BY <1>2, <2>2 DEF OneChange
<1> QED
  BY <1>1, <1>2, HandlerCards

LEMMA HandlerKeepsLatest ==
  ASSUME Wf, PlaceInv, OneChange, LatestCodes, Wf',
         NEW p \in Pages, HandlerStep(p), HandlerShape(p), CardHears(p)
  PROVE  LatestCodes'
<1>1. /\ uses \in [verify : Nat, reset : [Ids -> Nat], recovery : [RecoveryCodes -> Nat]]
      /\ batches \in Nat /\ \A b : Batch(b) \subseteq RecoveryCodes
      /\ tfa \in [on : BOOLEAN, hashes : SUBSET RecoveryCodes]
  BY CredentialsConstants DEF Wf, TypeOK, Batch
<1>2. CASE Enables(p) \/ Disables(p)
  <2>1. /\ req'[p].kind = "none" /\ Moves(p) /\ req[p].kind \in SecondFactor
        /\ \A q \in Pages \ {p} : card'[q] = card[q]
        /\ outdated' = {q \in Pages : step[q] = "settings"} /\ step' = step
    BY <1>2 DEF Enables, Disables, Ends, At, SecondFactor
  <2>2. \A q \in Pages \ {p} : req'[q] = req[q]
    BY <2>1, MovesOne
  <2>3. \A q \in Pages \ {p} : req[q].kind \notin SecondFactor /\ ~card[q].refetch
    BY <2>1 DEF OneChange
  <2>4. \A q \in Pages : ~At(q, "twoFactor", "matched")'
    BY <2>1, <2>2, <2>3 DEF At, SecondFactor
  <2>5. \A q \in Pages : card'[q].shown # 0 => q \in outdated'
    <3>1. step[p] = "settings"
      BY <1>2 DEF Enables, Disables, At, PlaceInv
    <3> QED
      BY <2>1, <3>1 DEF PlaceInv
  <2>6. \A q \in Pages : card'[q].refetch /\ tfa'.on => card'[q].shown = batches'
    BY <1>2, <2>1, <2>3 DEF Enables, Disables
  <2>7. tfa'.on => tfa'.hashes = Batch(batches')
    BY <1>2 DEF Enables, Disables
  <2> QED
    BY <2>4, <2>5, <2>6, <2>7 DEF LatestCodes
<1>3. CASE Apart(p) /\ Moves(p) /\ UNCHANGED <<card, outdated, overlaps>>
  <2>1. \A q \in Pages \ {p} : req'[q] = req[q]
    BY <1>3, MovesOne
  <2>2. CASE UNCHANGED <<tfa, batches>> /\ uses'.recovery = uses.recovery
             /\ ~At(p, "twoFactor", "matched")'
    <3>1. \A q \in Pages : At(q, "twoFactor", "matched")'
                             => At(q, "twoFactor", "matched") /\ req'[q] = req[q]
      BY <2>1, <2>2 DEF At
    <3> QED
      BY <1>3, <2>2, <3>1 DEF LatestCodes
  <2>3. CASE Consumes(p)
    <3>1. /\ tfa' = tfa /\ batches' = batches /\ req'[p].hashes = tfa.hashes \ req[p].hashes
      BY <2>3 DEF Consumes, tableVars
    <3>2. \A r \in RecoveryCodes : /\ uses'.recovery[r] = 0 => uses.recovery[r] = 0
                                   /\ uses'.recovery[r] = 0 => r \notin req[p].hashes
      BY <1>1, <2>3 DEF Consumes
    <3>3. tfa'.on => \A r \in Batch(batches') : uses'.recovery[r] = 0 => r \in tfa'.hashes
      BY <1>1, <3>1, <3>2 DEF LatestCodes
    <3>4. ASSUME NEW q \in Pages, At(q, "twoFactor", "matched")',
                 NEW r \in tfa'.hashes, uses'.recovery[r] = 0
          PROVE  r \in req'[q].hashes
      <4>1. r \in RecoveryCodes /\ r \in tfa.hashes
        BY <1>1, <3>1, <3>4
      <4>2. CASE q = p
        BY <3>1, <3>2, <3>4, <4>1, <4>2
      <4>3. CASE q # p
        BY <2>1, <3>2, <3>4, <4>1, <4>3 DEF LatestCodes, At
      <4> QED
        BY <4>2, <4>3
    <3> QED
      BY <1>3, <3>1, <3>3, <3>4 DEF LatestCodes
  <2>4. CASE Ends(p) /\ completeTwoFactorWrite(p)
    <3>1. /\ At(p, "twoFactor", "matched") /\ batches' = batches /\ uses' = uses
          /\ tfa'.on = tfa.on /\ tfa'.hashes = req[p].hashes
          /\ req'[p].kind = "none"
      BY <1>1, <2>4 DEF completeTwoFactorWrite, ghostVars, Ends
    <3>2. \A q \in Pages : ~At(q, "twoFactor", "matched")'
      BY <2>1, <3>1 DEF At, OneChange, SecondFactor
    <3>3. tfa'.on => \A r \in Batch(batches') : uses'.recovery[r] = 0 => r \in tfa'.hashes
      BY <3>1 DEF LatestCodes
    <3> QED
      BY <1>3, <3>1, <3>2, <3>3 DEF LatestCodes
  <2> QED
    BY <1>3, <2>2, <2>3, <2>4 DEF Apart
<1> QED
  BY <1>2, <1>3, HandlerCards

LEMMA StepKeepsShown ==
  ASSUME Wf, ShownInv, [Next]_authVars
  PROVE  ShownInv'
<1> DEFINE rivals == overlaps["secondFactor"]
<1>0. PlaceInv /\ PlaceInv' /\ rivals \in Nat /\ rivals' \in Nat /\ Wf'
  BY StepKeepsPlace, StepKeepsWf DEF ShownInv, Wf, TypeOK
<1>1. ASSUME NEW p \in Pages, HandlerStep(p), HandlerShape(p), CardHears(p), rivals' = 0
      PROVE  OneChange' /\ LatestCodes'
  <2>1. overlaps' = overlaps
    BY <1>1, HandlerCards DEF Enables, Disables
  <2>2. OneChange /\ LatestCodes
    BY <1>1, <2>1 DEF ShownInv
  <2> QED
    BY <1>0, <1>1, <2>2, HandlerKeepsOneChange, HandlerKeepsLatest
<1>2. ASSUME NEW p \in Pages, SendsOne(p), rivals' = 0
      PROVE  OneChange' /\ LatestCodes'
  <2>1. PICK r \in ReqType :
           /\ Send(p, r) /\ Idle(p) /\ r.pc = "sent" /\ r.kind \in Kinds
           /\ r.kind = "twoFactor" => r.id \in {0, 1, 2}
    BY <1>2 DEF SendsOne
  <2>2. /\ Leaves(p) /\ req'[p] = r /\ step' = step /\ card' = card /\ outdated' = outdated
        /\ rivals' = rivals + IF r.kind \in SecondFactor /\ ChangeUnderWay(p) THEN 1 ELSE 0
    BY <2>1, SendShape
  <2>3. rivals = 0 /\ ~(r.kind \in SecondFactor /\ ChangeUnderWay(p))
    <3> HIDE DEF rivals
    <3> QED
      BY <1>0, <1>2, <2>2
  <2>4. OneChange /\ LatestCodes
    BY <2>3 DEF ShownInv
  <2>5. \A q \in Pages \ {p} : req'[q] = req[q]
    BY <2>2, MovesOne DEF Leaves
  <2>6. r.kind \in SecondFactor =>
           \A q \in Pages \ {p} : req[q].kind \notin SecondFactor /\ ~card[q].refetch
    BY <2>3 DEF ChangeUnderWay, Overlapping, Busy
  <2>7. OneChange'
    BY <2>2, <2>4, <2>5, <2>6 DEF OneChange
  <2>8. UNCHANGED <<tfa, batches, uses>>
    BY <2>2 DEF Leaves, tableVars
  <2>9. \A q \in Pages : At(q, "twoFactor", "matched")'
                           => At(q, "twoFactor", "matched") /\ req'[q] = req[q]
    BY <2>1, <2>2, <2>5 DEF At
  <2> QED
    BY <2>2, <2>4, <2>7, <2>8, <2>9 DEF LatestCodes
<1>3. ASSUME NEW p \in Pages, Turns(p), Calm, (Ends(p) /\ Idle(p)) \/ req' = req, rivals' = 0
      PROVE  OneChange' /\ LatestCodes'
  <2>1. overlaps' = overlaps /\ UNCHANGED <<tfa, batches, uses>>
    BY <1>3 DEF Calm, tableVars
  <2>2. OneChange /\ LatestCodes
    BY <1>3, <2>1 DEF ShownInv
  <2>3. /\ \A q \in Pages :
              /\ card'[q].refetch => card[q].refetch
              /\ card'[q].shown # 0 => card'[q].shown = card[q].shown
              /\ card'[q].shown # 0 /\ card'[q].on /\ q \notin outdated' =>
                   \/ card[q].on /\ q \notin outdated
                   \/ card[q].refetch /\ tfa.on
    BY <1>0, <1>3, TurnCards
  <2>4. /\ \A q \in Pages : req'[q].kind = req[q].kind
        /\ \A q \in Pages : At(q, "twoFactor", "matched")'
                              => At(q, "twoFactor", "matched") /\ req'[q] = req[q]
    BY <1>3, MovesOne DEF Ends, Idle, Wf, ReqOK, At
  <2>5. OneChange'
    BY <2>2, <2>3, <2>4 DEF OneChange
  <2> QED
    BY <2>1, <2>2, <2>3, <2>4, <2>5 DEF LatestCodes
<1>4. ASSUME req' = req, UNCHANGED cardVars, UNCHANGED <<tfa, batches, uses, overlaps>>, rivals' = 0
      PROVE  OneChange' /\ LatestCodes'
  BY <1>4 DEF ShownInv, OneChange, LatestCodes, cardVars, At
<1>5. (HourPasses \/ Calm) => UNCHANGED <<tfa, batches, uses, overlaps>>
  BY DEF HourPasses, Calm, tableVars, ghostVars
<1>6. UNCHANGED authVars => UNCHANGED cardVars
  BY DEF authVars
<1>7. rivals' = 0 => OneChange' /\ LatestCodes'
  BY <1>1, <1>2, <1>3, <1>4, <1>5, <1>6, StepKeepsWf
<1> QED
  BY <1>0, <1>7 DEF ShownInv

\* Of the recovery codes that a settings page shows next to "Activa", each one
\* that was not used is accepted, as long as no other change of the second factor
\* overlapped (enableTwoFactor, consumeRecoveryCode and the two-factor card).
THEOREM ShownTheorem == Spec => []ShownCodesWork
<1>1. PagesInit => Wf /\ ShownInv
  <2> SUFFICES ASSUME PagesInit PROVE ShownInv
    BY InitIsWf
  <2>1. /\ req = [p \in Pages |-> NoReq] /\ NoReq.kind = "none" /\ NoReq.pc = "idle"
        /\ card = [p \in Pages |-> NoCard] /\ NoCard.shown = 0 /\ NoCard.refetch = FALSE
        /\ step \in [Pages -> {"login", "home", "register"}]
        /\ tfa = [on |-> batches = 1, hashes |-> Batch(batches)]
    BY DEF PagesInit, Init, NoReq, NoCard
  <2>2. \A p \in Pages : /\ req[p].kind = "none" /\ req[p].pc = "idle"
                         /\ card[p].shown = 0 /\ card[p].refetch = FALSE
                         /\ step[p] # "settings"
    BY <2>1
  <2>3. PlaceInv /\ OneChange
    BY <2>2 DEF PlaceInv, OneChange, SecondFactor
  <2>4. LatestCodes
    BY <2>1, <2>2 DEF LatestCodes, At
  <2> QED
    BY <2>3, <2>4 DEF ShownInv
<1>2. Wf /\ ShownInv /\ [Next]_authVars => (Wf /\ ShownInv)'
  BY StepKeepsWf, StepKeepsShown
<1>3. ShownInv => ShownCodesWork
  BY DEF ShownInv, LatestCodes, ShownCodesWork
<1> QED
  BY <1>1, <1>2, <1>3, PTL DEF Spec
=============================================================================
