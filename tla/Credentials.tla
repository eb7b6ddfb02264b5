---------------------------- MODULE Credentials ----------------------------
(***************************************************************************)
(* The credentials of one account: verification codes, password reset      *)
(* links, the second factor with its recovery codes, and the throttling of *)
(* sign-ins by address (auth.service.ts, two-factor.service.ts,            *)
(* turnstile.service.ts, login-throttler.service.ts).  AuthPages adds the  *)
(* sign-in, registration, recovery and settings pages of several browsers  *)
(* behind one address.                                                     *)
(*                                                                         *)
(* A page has one request under way (its button is disabled while it       *)
(* loads).  The handlers read first and write later; each read and each    *)
(* write is a step, and what was read may be old when it is used.          *)
(***************************************************************************)
EXTENDS Naturals, FiniteSets, FiniteSetsExt

CONSTANTS
    Pages,              \* browser pages
    MaxCodes,           \* bound: verification codes and reset links created
    HourLimit,          \* PASSWORD_RESET_REQUEST_LIMIT_PER_HOUR, 3 codes per hour
    RecoveryCount,      \* RECOVERY_CODES_COUNT
    MaxBatches,         \* bound: times the second factor is enabled
    MAX_ATTEMPTS,       \* failed sign-ins before an address is blocked
    WINDOW,             \* ticks of the counting window, and of a block
    MaxClock,           \* bound: ticks of the clock
    MaxRequests         \* bound: requests sent

ASSUME CredentialsConstants ==
    /\ MaxCodes \in Nat /\ MaxBatches \in Nat /\ MaxClock \in Nat
    /\ RecoveryCount \in Nat /\ MaxRequests \in Nat
    /\ HourLimit \in Nat \ {0}
    /\ MAX_ATTEMPTS \in Nat \ {0} /\ WINDOW \in Nat \ {0}
    /\ IsFiniteSet(Pages)

Ids == 1 .. MaxCodes
Kinds == {"register", "login", "verify", "resend", "forgot", "reset",
          "twoFactor", "enable", "disable"}

\* The requests that change or use up the second factor, and those that write
\* to the table of codes.
SecondFactor == {"twoFactor", "enable", "disable"}
Rivals(kind) == IF kind \in {"register", "resend"} THEN {"register", "resend"}
                                                  ELSE {kind}

\* Recovery codes are numbered within the batch that an activation generates.
RecoveryCodes == (1 .. MaxBatches) \X (1 .. RecoveryCount)
Batch(b) == {r \in RecoveryCodes : r[1] = b}

\* consumeRecoveryCode: the code given against the hashes the user row holds.
matches(given, hashes) == given \subseteq hashes
remaining(given, hashes) == hashes \ given

VARIABLES
    account,            \* whether the user row exists
    verified,           \* user.emailVerified
    code, link,         \* email_verification_codes and password_reset_tokens
    fresh,              \* per table: the rows created within the last hour
    tfa,                \* twoFactorEnabled and twoFactorRecoveryCodeHashes
    batches,            \* activations so far
    attempt,            \* the throttler's entry of the address
    clock,
    step,               \* per page: the step it shows
    req,                \* per page: the request under way
    requests,           \* requests sent so far
    overlaps,           \* ghost: requests sent while one of their kind was under way
    uses,               \* ghost: how often a credential was accepted
    early               \* ghost: the pages whose request passed before the block

tableVars == <<account, verified, code, link, fresh, tfa, batches>>
throttleVars == <<attempt, clock, early>>
pageVars == <<step, req>>
ghostVars == <<requests, overlaps, uses>>
vars == <<tableVars, throttleVars, pageVars, ghostVars>>

NoReq == [kind |-> "none", pc |-> "idle", id |-> 0, hashes |-> {},
          human |-> TRUE, verified |-> FALSE, on |-> FALSE]
NoAttempt == [count |-> 0, first |-> 0, until |-> 0]

Busy(kind) == {p \in Pages : req[p].kind = kind}
\* A row that is neither used nor expired.
OpenOf(table) == {i \in Ids : table[i] = "open"}
NewId(table) == {i \in Ids : /\ table[i] = "none"
                             /\ \A k \in 1 .. i - 1 : table[k] # "none"}

-----------------------------------------------------------------------------
(* login-throttler.service.ts; an entry with count 0 is no entry *)

isBlocked == attempt.until > clock

recordFailedAttempt(p) ==
    LET reopened == [count |-> 1, first |-> clock, until |-> 0]
        counted == [attempt EXCEPT !.count = @ + 1]
    IN /\ attempt' = IF \/ attempt.count = 0
                        \/ clock - attempt.first > WINDOW
                     THEN reopened
                     ELSE IF counted.count >= MAX_ATTEMPTS
                          THEN [counted EXCEPT !.until = clock + WINDOW]
                          ELSE counted
       /\ early' = IF attempt'.until > clock /\ ~isBlocked
                   THEN (Busy("login") \cup Busy("twoFactor")) \ {p}
                   ELSE early \ {p}

clearAttempts(p) == attempt' = NoAttempt /\ early' = early \ {p}

MutCleanupIgnoresBlock ==
    /\ attempt.count > 0
    /\ clock - attempt.first > WINDOW
    /\ attempt' = NoAttempt
    /\ UNCHANGED <<tableVars, clock, early, pageVars, ghostVars>>

\* The periodic cleanup forgets entries whose window and block are over.
cleanup ==
    /\ attempt.count > 0
    /\ clock - attempt.first > WINDOW
    /\ attempt.until = 0 \/ attempt.until < clock
    /\ attempt' = NoAttempt
    /\ UNCHANGED <<tableVars, clock, early, pageVars, ghostVars>>

Tick ==
    /\ clock < MaxClock
    /\ clock' = clock + 1
    /\ UNCHANGED <<tableVars, attempt, early, pageVars, ghostVars>>

-----------------------------------------------------------------------------
(* Requests and answers *)

Answer(p, to) ==
    /\ req' = [req EXCEPT ![p] = NoReq]
    /\ step' = [step EXCEPT ![p] = to]

\* A request that fails leaves the page where it is, and so do the settings.
Stays(p) == Answer(p, step[p])

\* A wrong credential counts against the address.
Refuse(p) == recordFailedAttempt(p) /\ Stays(p)

At(p, kind, pc) == req[p].kind = kind /\ req[p].pc = pc

-----------------------------------------------------------------------------
(* auth.service.ts *)

\* assertHuman: the first thing register, login and requestPasswordReset do; a
\* refusal ends the request and is no failed attempt.
NotHuman(p) ==
    /\ \E kind \in {"register", "login", "forgot"} : At(p, kind, "sent")
    /\ ~req[p].human
    /\ Stays(p)
    /\ UNCHANGED <<tableVars, throttleVars, ghostVars>>

\* register looks for the address, hashes the password, creates the user, which
\* the unique key refuses when another request was faster, and then the code.
registerRead(p) ==
    /\ At(p, "register", "sent") /\ req[p].human
    /\ IF account
       THEN Stays(p)
       ELSE req' = [req EXCEPT ![p].pc = "found"] /\ UNCHANGED step
    /\ UNCHANGED <<tableVars, throttleVars, ghostVars>>

registerCreate(p) ==
    /\ At(p, "register", "found")
    /\ account' = TRUE
    /\ IF account
       THEN Stays(p)
       ELSE req' = [req EXCEPT ![p].pc = "closed"] /\ UNCHANGED step
    /\ UNCHANGED <<verified, code, link, fresh, tfa, batches, throttleVars, ghostVars>>

\* login reads the user, compares the password, and goes on with what it read.
loginRead(p) ==
    /\ At(p, "login", "sent") /\ req[p].human
    /\ req' = [req EXCEPT ![p].pc = "read", ![p].verified = verified,
                          ![p].on = tfa.on, ![p].id = IF account THEN @ ELSE 0]
    /\ UNCHANGED <<tableVars, throttleVars, step, ghostVars>>

loginAnswer(p) ==
    /\ At(p, "login", "read")
    /\ IF req[p].id = 0
       THEN Refuse(p)
       ELSE /\ clearAttempts(p)
            /\ Answer(p, IF ~req[p].verified THEN "verify"
                         ELSE IF req[p].on THEN "twoFactor" ELSE "home")
    /\ UNCHANGED <<tableVars, clock, ghostVars>>

\* verifyEmail finds an open code and then uses it in a transaction; an account
\* that is verified, or a wrong code, is refused.
verifyEmailRead(p) ==
    /\ At(p, "verify", "sent")
    /\ IF verified \/ req[p].id \notin OpenOf(code)
       THEN Stays(p)
       ELSE req' = [req EXCEPT ![p].pc = "found"] /\ UNCHANGED step
    /\ UNCHANGED <<tableVars, throttleVars, ghostVars>>

verifyEmailWrite(p) ==
    /\ At(p, "verify", "found")
    /\ code' = [code EXCEPT ![req[p].id] = "used"]
    /\ verified' = TRUE
    /\ uses' = [uses EXCEPT !.verify = @ + 1]
    /\ Answer(p, "home")
    /\ UNCHANGED <<account, link, fresh, tfa, batches, throttleVars, requests,
                   overlaps>>

\* resendVerificationCode and requestPasswordReset count the rows of the last
\* hour, then close the open rows, then create one: three statements.  A reset
\* request for no account or beyond the limit answers as if it was accepted.
TableOf == [register |-> "code", resend |-> "code", forgot |-> "link"]
ShownAfter == [register |-> "verify", resend |-> "verify", forgot |-> "sent"]

CountRows(p, kind) ==
    /\ At(p, kind, "sent") /\ req[p].human
    /\ IF \/ kind = "resend" /\ verified
          \/ ~account
          \/ Cardinality(fresh[TableOf[kind]]) >= HourLimit
       THEN Answer(p, ShownAfter[kind])
       ELSE req' = [req EXCEPT ![p].pc = "counted"] /\ UNCHANGED step
    /\ UNCHANGED <<tableVars, throttleVars, ghostVars>>

Closed(table) == [i \in Ids |-> IF table[i] = "open" THEN "used" ELSE table[i]]

CloseRows(p, kind) ==
    /\ At(p, kind, "counted")
    /\ IF TableOf[kind] = "code" THEN code' = Closed(code) /\ UNCHANGED link
                                 ELSE link' = Closed(link) /\ UNCHANGED code
    /\ req' = [req EXCEPT ![p].pc = "closed"]
    /\ UNCHANGED <<account, verified, fresh, tfa, batches, throttleVars, step, ghostVars>>

CreateRow(p, kind) ==
    LET to == TableOf[kind] IN
    /\ At(p, kind, "closed")
    /\ \E i \in NewId(IF to = "code" THEN code ELSE link) :
          /\ IF to = "code"
             THEN code' = [code EXCEPT ![i] = "open"] /\ UNCHANGED link
             ELSE link' = [link EXCEPT ![i] = "open"] /\ UNCHANGED code
          /\ fresh' = [fresh EXCEPT ![to] = @ \cup {i}]
    /\ Answer(p, ShownAfter[kind])
    /\ UNCHANGED <<account, verified, tfa, batches, throttleVars, ghostVars>>

registerCode(p) == CreateRow(p, "register")

resendVerificationCode(p) ==
    CountRows(p, "resend") \/ CloseRows(p, "resend") \/ CreateRow(p, "resend")

requestPasswordReset(p) ==
    CountRows(p, "forgot") \/ CloseRows(p, "forgot") \/ CreateRow(p, "forgot")

\* resetPassword finds an open link, hashes the password, then writes both.
resetPasswordRead(p) ==
    /\ At(p, "reset", "sent")
    /\ IF req[p].id \notin OpenOf(link)
       THEN Stays(p)
       ELSE req' = [req EXCEPT ![p].pc = "found"] /\ UNCHANGED step
    /\ UNCHANGED <<tableVars, throttleVars, ghostVars>>

resetPasswordWrite(p) ==
    /\ At(p, "reset", "found")
    /\ link' = [link EXCEPT ![req[p].id] = "used"]
    /\ uses' = [uses EXCEPT !.reset[req[p].id] = @ + 1]
    /\ Answer(p, "login")
    /\ UNCHANGED <<account, verified, code, fresh, tfa, batches, throttleVars,
                   requests, overlaps>>

\* completeTwoFactorLogin reads the user; a recovery code that matches is taken
\* out of the list it read, and the rest is written back.
completeTwoFactorRead(p) ==
    LET given == req[p].hashes IN
    /\ At(p, "twoFactor", "sent")
    /\ IF \/ ~tfa.on
          \/ req[p].id = 0
          \/ req[p].id = 2 /\ ~matches(given, tfa.hashes)
       THEN Refuse(p) /\ UNCHANGED uses
       ELSE IF req[p].id = 1
       THEN clearAttempts(p) /\ Answer(p, "home") /\ UNCHANGED uses
       ELSE /\ req' = [req EXCEPT ![p].pc = "matched",
                                  ![p].hashes = remaining(given, tfa.hashes)]
            /\ uses' = [uses EXCEPT !.recovery =
                          [r \in RecoveryCodes |->
                             IF r \in given THEN @[r] + 1 ELSE @[r]]]
            /\ UNCHANGED <<attempt, early, step>>
    /\ UNCHANGED <<tableVars, clock, requests, overlaps>>

MutRecoveryCodeKept(p) ==
    /\ At(p, "twoFactor", "matched")
    /\ clearAttempts(p)
    /\ Answer(p, "home")
    /\ UNCHANGED <<tableVars, clock, ghostVars>>

completeTwoFactorWrite(p) ==
    /\ At(p, "twoFactor", "matched")
    /\ tfa' = [tfa EXCEPT !.hashes = req[p].hashes]
    /\ clearAttempts(p)
    /\ Answer(p, "home")
    /\ UNCHANGED <<account, verified, code, link, fresh, batches, clock, ghostVars>>

\* enableTwoFactor and disableTwoFactor check the user they read and write later.
twoFactorSettingRead(p) ==
    /\ req[p].kind \in {"enable", "disable"} /\ req[p].pc = "sent"
    /\ IF \/ (req[p].kind = "enable") = tfa.on
          \/ req[p].id = 2 /\ ~matches(req[p].hashes, tfa.hashes)
       THEN Stays(p)
       ELSE req' = [req EXCEPT ![p].pc = "checked"] /\ UNCHANGED step
    /\ UNCHANGED <<tableVars, throttleVars, ghostVars>>

\* Mutant: the hashes written are those of the codes generated before.
MutEnableWritesOldCodes(p) ==
    /\ At(p, "enable", "checked") /\ batches < MaxBatches
    /\ tfa' = [on |-> TRUE, hashes |-> Batch(batches)]
    /\ batches' = batches + 1
    /\ Stays(p)
    /\ UNCHANGED <<account, verified, code, link, fresh, throttleVars, ghostVars>>

enableTwoFactorWrite(p) ==
    /\ At(p, "enable", "checked") /\ batches < MaxBatches
    /\ tfa' = [on |-> TRUE, hashes |-> Batch(batches + 1)]
    /\ batches' = batches + 1
    /\ Stays(p)
    /\ UNCHANGED <<account, verified, code, link, fresh, throttleVars, ghostVars>>

disableTwoFactorWrite(p) ==
    /\ At(p, "disable", "checked")
    /\ tfa' = [on |-> FALSE, hashes |-> {}]
    /\ Stays(p)
    /\ UNCHANGED <<account, verified, code, link, fresh, batches, throttleVars, ghostVars>>

\* An hour passes: nothing is recent any more and every open row has expired.
\* No handler of these tables takes that long.
HourPasses ==
    /\ \A k \in {"register", "resend", "forgot", "verify", "reset"} : Busy(k) = {}
    /\ fresh # [code |-> {}, link |-> {}]
    /\ fresh' = [code |-> {}, link |-> {}]
    /\ code' = Closed(code) /\ link' = Closed(link)
    /\ UNCHANGED <<account, verified, tfa, batches, throttleVars, pageVars, ghostVars>>

-----------------------------------------------------------------------------
\* Nobody has registered yet, or the account is older and verified, with or
\* without a second factor, and some pages are signed in.
Init ==
    /\ account \in BOOLEAN /\ verified = account
    /\ code = [i \in Ids |-> "none"] /\ link = [i \in Ids |-> "none"]
    /\ fresh = [code |-> {}, link |-> {}]
    /\ batches \in IF account THEN {0, 1} \cap 0 .. MaxBatches ELSE {0}
    /\ tfa = [on |-> batches = 1, hashes |-> Batch(batches)]
    /\ attempt = NoAttempt
    /\ clock = 0
    /\ step \in IF account THEN [Pages -> {"login", "home"}]
                           ELSE {[p \in Pages |-> "register"]}
    /\ req = [p \in Pages |-> NoReq]
    /\ requests = 0
    /\ overlaps = [k \in Kinds \cup {"secondFactor"} |-> 0]
    /\ uses = [verify |-> 0, reset |-> [i \in Ids |-> 0],
               recovery |-> [r \in RecoveryCodes |-> 0]]
    /\ early = {}

HandlerStep(p) ==
    \/ NotHuman(p)
    \/ registerRead(p) \/ registerCreate(p) \/ registerCode(p)
    \/ loginRead(p) \/ loginAnswer(p)
    \/ verifyEmailRead(p) \/ verifyEmailWrite(p)
    \/ resendVerificationCode(p) \/ requestPasswordReset(p)
    \/ resetPasswordRead(p) \/ resetPasswordWrite(p)
    \/ completeTwoFactorRead(p) \/ completeTwoFactorWrite(p)
    \/ twoFactorSettingRead(p)
    \/ enableTwoFactorWrite(p) \/ disableTwoFactorWrite(p)

-----------------------------------------------------------------------------
(* Properties *)

RowStates == {"none", "open", "used"}

\* The shape of the state.
TypeOK ==
    /\ account \in BOOLEAN /\ verified \in BOOLEAN
    /\ code \in [Ids -> RowStates] /\ link \in [Ids -> RowStates]
    /\ fresh \in [code : SUBSET Ids, link : SUBSET Ids]
    /\ tfa \in [on : BOOLEAN, hashes : SUBSET RecoveryCodes]
    /\ batches \in 0 .. MaxBatches
    /\ attempt \in [count : Nat, first : Nat, until : Nat]
    /\ clock \in 0 .. MaxClock
    /\ step \in [Pages -> {"register", "login", "verify", "forgot", "sent", "reset",
                           "twoFactor", "home", "settings"}]
    /\ req \in [Pages -> [kind : Kinds \cup {"none"},
                          pc : {"idle", "sent", "read", "found", "counted",
                                "closed", "matched", "checked"},
                          id : Nat, hashes : SUBSET RecoveryCodes,
                          human : BOOLEAN, verified : BOOLEAN, on : BOOLEAN]]
    /\ requests \in Nat
    /\ overlaps \in [Kinds \cup {"secondFactor"} -> Nat]
    /\ uses \in [verify : Nat, reset : [Ids -> Nat],
                 recovery : [RecoveryCodes -> Nat]]
    /\ early \in SUBSET Pages

\* A recovery code, a reset link and the verification of the account are used
\* once, plus once for each request of the kind that overlapped another.
UsedOnce ==
    /\ \A r \in RecoveryCodes : uses.recovery[r] <= 1 + overlaps.twoFactor
    /\ \A i \in Ids : uses.reset[i] <= 1 + overlaps.reset
    /\ uses.verify <= 1 + overlaps.verify

\* Only the latest code or link is open, and no more than the limit are created
\* in an hour, up to the requests that overlapped.
OnlyLatestIsOpen ==
    /\ Cardinality(OpenOf(code)) <= 1 + overlaps.resend
    /\ Cardinality(OpenOf(link)) <= 1 + overlaps.forgot
    /\ Cardinality(fresh.code) <= HourLimit + overlaps.resend
    /\ Cardinality(fresh.link) <= HourLimit + overlaps.forgot

\* What is meant to be single-use is, unless two requests overlapped.
CredentialsAreSingleUse == UsedOnce /\ OnlyLatestIsOpen

\* A block of the address is lifted before its time only by a request that had
\* passed the guard before the block was set.
BlockHolds ==
    [][(isBlocked /\ clock' = clock /\ attempt'.until <= clock')
          => \E p \in early : req[p].pc # "idle" /\ req'[p].pc = "idle"]_vars
=============================================================================
