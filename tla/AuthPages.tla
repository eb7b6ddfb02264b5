----------------------------- MODULE AuthPages -----------------------------
(***************************************************************************)
(* The pages through which Credentials is used: sign-in with its           *)
(* verification and second-factor steps, registration, "forgot" and        *)
(* "reset password", and the two-factor card of the settings page.  A page *)
(* offers requests according to what it shows; the card shows what it read *)
(* last, which another page may have changed since.                        *)
(***************************************************************************)
EXTENDS Credentials, Integers

VARIABLES
    card,       \* per page: what the two-factor card of the settings shows
    outdated    \* ghost: the pages whose card was read before the last change

cardVars == <<card, outdated>>
authVars == <<vars, cardVars>>

\* twoFactorEnabled as the card got it, the set-up it is in, the batch of
\* recovery codes it shows (0: none), and whether it has to read again.
NoCard == [on |-> FALSE, setup |-> FALSE, shown |-> 0, refetch |-> FALSE]

-----------------------------------------------------------------------------
(* The rules for a new account: those of the page, of the input type and of  *)
(* the service.  Dates are <<year, month, day>>.                             *)

getPasswordRequirementState(pw) ==
    [hasMinLength |-> pw.length >= 8, hasUppercase |-> pw.upper,
     hasLowercase |-> pw.lower, hasNumber |-> pw.number]

passwordFieldSchema(pw) == pw.length >= 8 /\ pw.upper /\ pw.lower /\ pw.number

RegisterInput(pw) == pw.length \in 8 .. 100 /\ pw.lower /\ pw.upper /\ pw.number

getPasswordValidationMessage(pw) ==
    IF pw.length < 8 THEN "length"
    ELSE IF ~pw.upper THEN "uppercase"
    ELSE IF ~pw.lower THEN "lowercase"
    ELSE IF ~pw.number THEN "number" ELSE "none"

age(birth, today) ==
    LET monthDiff == today[2] - birth[2]
    IN today[1] - birth[1]
         - (IF monthDiff < 0 \/ (monthDiff = 0 /\ today[3] < birth[3]) THEN 1 ELSE 0)

registerSchema(form, today) ==
    /\ age(form.birth, today) >= 18
    /\ passwordFieldSchema(form.password)
    /\ form.password = form.confirm
    /\ form.acceptTerms

registerAccepts(form, today) ==
    /\ RegisterInput(form.password)
    /\ form.acceptTerms
    /\ ~(age(form.birth, today) < 18)

-----------------------------------------------------------------------------
(* What the pages offer *)

Idle(p) == req[p].pc = "idle"

LoginForm(p) == step[p] = "login" /\ Idle(p)
RegisterForm(p) == step[p] = "register" /\ Idle(p)
EmailVerificationStep(p) == step[p] = "verify" /\ Idle(p)
TwoFactorLoginStep(p) == step[p] = "twoFactor" /\ Idle(p)

\* Once the request was answered, only the message is left of the form.
ForgotPasswordForm(p) == step[p] = "forgot" /\ Idle(p)

\* The form needs a link that was valid when the page asked.
ResetPasswordForm(p) == step[p] = "reset" /\ Idle(p) /\ req[p].id # 0

\* The card is in one of three forms; the codes may be shown above any of them.
OffersSetup(p) ==
    step[p] = "settings" /\ Idle(p) /\ ~card[p].on /\ ~card[p].setup
OffersActivation(p) ==
    step[p] = "settings" /\ Idle(p) /\ ~card[p].on /\ card[p].setup
OffersDeactivation(p) == step[p] = "settings" /\ Idle(p) /\ card[p].on

\* The links between the pages.
Links ==
    [register  |-> {"login"},
     login     |-> {"register", "forgot"},
     verify    |-> {"login", "register"},
     twoFactor |-> {"login"},
     forgot    |-> {"login"},
     sent      |-> {"login"},
     reset     |-> {"login", "forgot"},
     home      |-> {"login"},
     settings  |-> {"login", "home"}]

-----------------------------------------------------------------------------
(* The requests *)

Overlapping(kinds) == \E k \in kinds : Busy(k) # {}

\* A change of the second factor ends when its card has read the result.
ChangeUnderWay(p) ==
    Overlapping(SecondFactor) \/ \E q \in Pages \ {p} : card[q].refetch

\* A request leaves page p; it counts as overlapping when another page has a
\* rival of it under way.
Send(p, r) ==
    /\ requests < MaxRequests
    /\ requests' = requests + 1
    /\ req' = [req EXCEPT ![p] = r]
    /\ overlaps' = [overlaps EXCEPT
          ![r.kind] = @ + IF Overlapping(Rivals(r.kind)) THEN 1 ELSE 0,
          !["secondFactor"] = @ + IF r.kind \in SecondFactor /\ ChangeUnderWay(p)
                                  THEN 1 ELSE 0]
    /\ UNCHANGED <<tableVars, throttleVars, step, uses, cardVars>>

Request(kind, id) == [NoReq EXCEPT !.kind = kind, !.pc = "sent", !.id = id]

\* A form with a captcha is sent with the token it holds: a new one, or one that
\* was spent or cannot be verified.
WithCaptcha(r) == {[r EXCEPT !.human = h] : h \in BOOLEAN}

\* LoginThrottlerGuard runs before the handlers of login and
\* completeTwoFactorLogin; 0 stands for a wrong password, code or recovery code,
\* 1 for a right one.
submitLogin(p) ==
    /\ LoginForm(p) /\ ~isBlocked
    /\ \E right \in {0, 1} : \E r \in WithCaptcha(Request("login", right)) : Send(p, r)

onRegisterSubmit(p) ==
    /\ RegisterForm(p)
    /\ \E r \in WithCaptcha(Request("register", 0)) : Send(p, r)

submitVerify(p) ==
    /\ EmailVerificationStep(p)
    /\ \E i \in {0} \cup {n \in Ids : code[n] # "none"} : Send(p, Request("verify", i))

submitResend(p) == EmailVerificationStep(p) /\ Send(p, Request("resend", 0))

submitForgot(p) ==
    /\ ForgotPasswordForm(p)
    /\ \E r \in WithCaptcha(Request("forgot", 0)) : Send(p, r)

submitReset(p) == ResetPasswordForm(p) /\ Send(p, Request("reset", req[p].id))

\* Either a TOTP code (right or wrong) or a recovery code that was handed out.
submitTwoFactor(p) ==
    /\ TwoFactorLoginStep(p) /\ ~isBlocked
    /\ \/ \E right \in {0, 1} : Send(p, Request("twoFactor", right))
       \/ \E r \in RecoveryCodes :
             /\ r[1] <= batches
             /\ Send(p, [Request("twoFactor", 2) EXCEPT !.hashes = {r}])

handleEnableTwoFactor(p) ==
    OffersActivation(p) /\ batches < MaxBatches /\ Send(p, Request("enable", 1))

\* Switching off needs a TOTP code or a recovery code.
handleDisableTwoFactor(p) ==
    /\ OffersDeactivation(p)
    /\ \/ Send(p, Request("disable", 1))
       \/ \E r \in RecoveryCodes :
             /\ r[1] <= batches
             /\ Send(p, [Request("disable", 2) EXCEPT !.hashes = {r}])

-----------------------------------------------------------------------------
(* Moving between pages, and the card *)

\* A link is followed; what the page held is gone.
follow(p) ==
    /\ Idle(p)
    /\ \E to \in Links[step[p]] : Answer(p, to)
    /\ card' = [card EXCEPT ![p] = NoCard] /\ outdated' = outdated \ {p}
    /\ UNCHANGED <<tableVars, throttleVars, ghostVars>>

\* The link of an e-mail: the page asks isPasswordResetTokenValid before it shows
\* its form.
openResetLink(p) ==
    /\ LoginForm(p)
    /\ \E i \in OpenOf(link) : req' = [req EXCEPT ![p].id = i]
    /\ step' = [step EXCEPT ![p] = "reset"]
    /\ UNCHANGED <<tableVars, throttleVars, ghostVars, cardVars>>

\* The settings page is opened or loaded again.
openSettings(p) ==
    /\ step[p] \in {"home", "settings"} /\ Idle(p)
    /\ step' = [step EXCEPT ![p] = "settings"]
    /\ card' = [card EXCEPT ![p] = [NoCard EXCEPT !.on = tfa.on]]
    /\ outdated' = outdated \ {p}
    /\ UNCHANGED <<tableVars, throttleVars, ghostVars, req>>

\* beginTwoFactorSetup only reads the user; the token it answers with carries
\* the secret, so nothing is stored.
handleBeginSetup(p) ==
    /\ OffersSetup(p)
    /\ card' = [card EXCEPT ![p].shown = 0, ![p].setup = ~tfa.on]
    /\ UNCHANGED <<vars, outdated>>

\* "Ya los guarde", and the button that leaves the set-up.
dismiss(p) ==
    /\ step[p] = "settings"
    /\ \/ card[p].shown # 0 /\ card' = [card EXCEPT ![p].shown = 0]
       \/ OffersActivation(p) /\ card' = [card EXCEPT ![p].setup = FALSE]
    /\ UNCHANGED <<vars, outdated>>

\* onStatusChanged reads the user again.
onStatusChanged(p) ==
    /\ card[p].refetch
    /\ card' = [card EXCEPT ![p].on = tfa.on, ![p].refetch = FALSE]
    /\ outdated' = outdated \ {p}
    /\ UNCHANGED vars

\* The answers the card waits for: an activation shows its codes, and both
\* changes are followed by a refetch.
CardHears(p) ==
    LET enabled == batches' # batches
        disabled == At(p, "disable", "checked")
    IN /\ card' = IF enabled
                  THEN [card EXCEPT ![p].setup = FALSE, ![p].shown = batches',
                                    ![p].refetch = TRUE]
                  ELSE IF disabled THEN [card EXCEPT ![p].refetch = TRUE] ELSE card
       /\ outdated' = IF enabled \/ disabled
                      THEN {q \in Pages : step[q] = "settings"} ELSE outdated

-----------------------------------------------------------------------------
PagesInit == Init /\ card = [p \in Pages |-> NoCard] /\ outdated = {}

PageStep(p) ==
    \/ submitLogin(p) \/ onRegisterSubmit(p) \/ submitVerify(p) \/ submitResend(p)
    \/ submitForgot(p) \/ submitReset(p) \/ submitTwoFactor(p)
    \/ handleEnableTwoFactor(p) \/ handleDisableTwoFactor(p)
    \/ follow(p) \/ openResetLink(p) \/ openSettings(p)
    \/ handleBeginSetup(p) \/ dismiss(p) \/ onStatusChanged(p)

Next ==
    \/ \E p \in Pages : PageStep(p) \/ (HandlerStep(p) /\ CardHears(p))
    \/ (cleanup \/ Tick \/ HourPasses) /\ UNCHANGED cardVars

Spec == PagesInit /\ [][Next]_authVars

-----------------------------------------------------------------------------
(* Properties *)

\* Of the recovery codes that a card shows next to "Activa", each one that was
\* not used is accepted by the account, unless another page changed the second
\* factor after the card was read, or two requests about it overlapped (the
\* slower recovery sign-in writes the codes of the earlier activation back).
ShownCodesWork ==
    overlaps["secondFactor"] = 0 =>
        \A p \in Pages :
            (card[p].shown # 0 /\ card[p].on /\ p \notin outdated)
                => /\ tfa.on
                   /\ {r \in Batch(card[p].shown) : uses.recovery[r] = 0} \subseteq tfa.hashes
=============================================================================
