------------------------------ MODULE Sessions ------------------------------
(***************************************************************************)
(* Sign-in sessions, from the refresh-token rows of the backend            *)
(* (auth.service.ts) through the cookie endpoints                          *)
(* (auth-google.controller.ts) to the browser tabs that hold the access    *)
(* token (store/auth.ts, lib/apollo-provider.tsx,                          *)
(* lib/payment-account-connect.ts and the sign-in pages).                  *)
(*                                                                         *)
(* A tab talks to the backend through two lanes: "refresh" is the shared   *)
(* refresh promise of the Apollo links, "user" is what the user or the     *)
(* page started (sign-in, sign-out, the restore at boot, the refresh of    *)
(* the payment-account page).  Each lane carries one request, and every    *)
(* await of its handler is a step boundary.                                *)
(***************************************************************************)
EXTENDS Naturals, FiniteSets

CONSTANTS
    Users,          \* accounts
    Tabs,           \* browser tabs
    Jars,           \* browsers: each has one cookie jar and one local storage
    MaxRequests,    \* bound: requests sent, each creates at most one token
    MaxSweeps,      \* bound: password resets and reuse alarms of an account
    MaxFaults,      \* bound: bans, lost answers and failing handlers
    NoOne           \* no account

ASSUME SessionsConstants ==
    /\ MaxRequests \in Nat \ {0}
    /\ MaxSweeps \in Nat
    /\ MaxFaults \in Nat
    /\ NoOne \notin Users
    /\ Tabs # {} /\ Jars # {}

Tokens == 1 .. MaxRequests
NoToken == 0
Lanes == {"refresh", "user"}
Flights == Tabs \X Lanes

VARIABLES
    row,            \* the refresh_tokens table
    standing,       \* whether an account is active or banned (or deleted)
    reset,          \* the resetPassword handler of an account
    jarOf,          \* the browser of each tab
    cookie,         \* per browser: the refresh_token cookie
    stored,         \* per browser: the account kept in local storage
    user,           \* per tab: the account the tab shows as signed in
    recovering,     \* tabs with a refused operation that waits for the refresh
    job,            \* per flight: the request it carries
    requests,       \* requests sent so far
    faults,         \* bans, lost answers and failures so far
    gen,            \* ghost: sweeps (revoke-all) begun, per account
    broken,         \* ghost: accounts one of whose sweeps died
    closed,         \* ghost: sign-ins that were logged out
    forks,          \* ghost: writes that found their token already revoked
    tainted         \* ghost: tokens two requests carried, or whose answer was lost

serverVars == <<row, standing, reset>>
jarVars == <<cookie, stored>>
tabVars == <<user, recovering>>
sendVars == <<requests, tainted>>
sweepVars == <<gen, broken>>
chainVars == <<closed, forks>>
vars == <<serverVars, jarOf, jarVars, tabVars, job, sendVars, faults,
          sweepVars, chainVars>>

-----------------------------------------------------------------------------
(* Rows and requests *)

\* A row: its state, its account, the sign-in it descends from, the sweeps of
\* the account at that sign-in, why it was revoked, and whether its creation
\* overlapped a sweep.
NoRow == [st |-> "none", owner |-> NoOne, root |-> NoToken, gen |-> 0,
          by |-> "nothing", over |-> FALSE]

Used == {t \in Tokens : row[t].st # "none"}
LiveOf(u) == {t \in Tokens : row[t].st = "live" /\ row[t].owner = u}

\* A request: where its handler is, what kind of request it is, the cookie it
\* was sent with, the account, the token it created, the rows a sweep listed,
\* and what the handler saw of the account's sweeps when it read.
Idle == [pc |-> "idle", kind |-> "none", tok |-> NoToken, who |-> NoOne,
         new |-> NoToken, list |-> {}, seen |-> 0, calm |-> TRUE]

NoReset == [pc |-> "idle", list |-> {}]

\* A sweep of u is under way: a password reset, or an alarm of a refresh.
Sweeping(u) ==
    \/ reset[u].pc # "idle"
    \/ \E f \in Flights : job[f].pc \in {"alarm", "sweep"} /\ job[f].who = u

JarOfFlight(f) == jarOf[f[1]]
Busy == {f \in Flights : job[f].pc # "idle"}
Flying(j) == {f \in Busy : JarOfFlight(f) = j}
Carried(j) == {job[f].tok : f \in Flying(j)} \ {NoToken}

\* Two requests of one browser carry the same token.
TaintIfCarried(j, c) ==
    tainted' = tainted \cup ({c} \cap Carried(j))

-----------------------------------------------------------------------------
(* auth.service.ts *)

\* revokeAllUserRefreshTokens reads the active rows and then updates exactly
\* those, in one transaction.
RevokeRows(list, why) ==
    row' = [t \in Tokens |->
              IF t \in list
              THEN [row[t] EXCEPT !.st = "revoked",
                                  !.by = IF row[t].st = "live" THEN why ELSE @]
              ELSE row[t]]

\* The requests that exchange a refresh token for another.
Rotations == {"refresh", "boot", "connect"}

\* createRefreshToken: a row of the account for the handler of flight f.  A
\* rotation descends from the token it rotated, a sign-in starts anew.
createRefreshToken(f) ==
    LET t == CHOOSE n \in Tokens \ Used : \A m \in Tokens \ Used : n <= m
        old == job[f].tok
        rotation == job[f].kind \in Rotations
    IN /\ row' = [row EXCEPT ![t] =
             [st |-> "live", owner |-> job[f].who, by |-> "nothing",
              root |-> IF rotation THEN row[old].root ELSE t,
              gen |-> IF rotation THEN row[old].gen ELSE job[f].seen,
              over |-> \/ rotation /\ row[old].over
                       \/ ~job[f].calm
                       \/ gen[job[f].who] # job[f].seen]]
       /\ job' = [job EXCEPT ![f].pc = "granted", ![f].new = t,
                             ![f].seen = 0, ![f].calm = TRUE]

\* The first read of refreshAccessToken, with its early returns: a revoked
\* token starts a sweep, an inactive account is refused.
refreshAccessTokenRead(f) ==
    LET c == job[f].tok
        u == row[c].owner
    IN /\ job[f].pc = "sent" /\ job[f].kind \in Rotations
       /\ \/ /\ c = NoToken
             /\ job' = [job EXCEPT ![f].pc = "missing"]
             /\ UNCHANGED gen
          \/ /\ c # NoToken /\ row[c].st = "revoked"
             /\ gen[u] < MaxSweeps
             /\ gen' = [gen EXCEPT ![u] = @ + 1]
             /\ job' = [job EXCEPT ![f].pc = "alarm", ![f].who = u]
          \/ /\ c # NoToken /\ row[c].st = "live" /\ standing[u] = "banned"
             /\ job' = [job EXCEPT ![f].pc = "denied"]
             /\ UNCHANGED gen
          \/ /\ c # NoToken /\ row[c].st = "live" /\ standing[u] = "active"
             /\ job' = [job EXCEPT ![f].pc = "rotate", ![f].who = u,
                                   ![f].seen = gen[u], ![f].calm = ~Sweeping(u)]
             /\ UNCHANGED gen
       /\ UNCHANGED <<serverVars, jarOf, jarVars, tabVars, sendVars, faults,
                      broken, chainVars>>

\* A token whose expiry date has passed is refused without a sweep.
refreshExpired(f) ==
    /\ job[f].pc = "sent" /\ job[f].kind \in Rotations
    /\ job[f].tok # NoToken /\ row[job[f].tok].st = "live"
    /\ job' = [job EXCEPT ![f].pc = "denied"]
    /\ UNCHANGED <<serverVars, jarOf, jarVars, tabVars, sendVars, faults,
                   sweepVars, chainVars>>

MutRotateKeepsOld(f) ==
    /\ job[f].pc = "rotate"
    /\ job' = [job EXCEPT ![f].pc = "mint"]
    /\ UNCHANGED <<serverVars, jarOf, jarVars, tabVars, sendVars, faults,
                   sweepVars, chainVars>>

\* The rotation writes revokedAt whatever the row says by now ...
rotateWrite(f) ==
    LET c == job[f].tok IN
    /\ job[f].pc = "rotate"
    /\ RevokeRows({c}, "rotation")
    /\ forks' = [forks EXCEPT ![row[c].root] =
                    IF row[c].st = "live" THEN @ ELSE @ + 1]
    /\ job' = [job EXCEPT ![f].pc = "mint"]
    /\ UNCHANGED <<standing, reset, jarOf, jarVars, tabVars, sendVars, faults,
                   sweepVars, closed>>

\* ... and then creates the successor, in a statement of its own.
mint(f) ==
    /\ job[f].pc = "mint"
    /\ createRefreshToken(f)
    /\ UNCHANGED <<standing, reset, jarOf, jarVars, tabVars, sendVars, faults,
                   sweepVars, chainVars>>

\* The sweep of a reuse alarm: list the active rows, then revoke the list.
alarmList(f) ==
    /\ job[f].pc = "alarm"
    /\ job' = [job EXCEPT ![f].pc = "sweep", ![f].list = LiveOf(job[f].who)]
    /\ UNCHANGED <<serverVars, jarOf, jarVars, tabVars, sendVars, faults,
                   sweepVars, chainVars>>

alarmRevoke(f) ==
    /\ job[f].pc = "sweep"
    /\ RevokeRows(job[f].list, "sweep")
    /\ job' = [job EXCEPT ![f].pc = "denied", ![f].list = {}]
    /\ UNCHANGED <<standing, reset, jarOf, jarVars, tabVars, sendVars, faults,
                   sweepVars, chainVars>>

\* login, completeTwoFactorLogin and verifyEmail check the account and then
\* create a token ...
SignsIn(f) == job' = [job EXCEPT ![f].pc = "mint", ![f].seen = gen[job[f].who],
                                 ![f].calm = ~Sweeping(job[f].who)]

loginRead(f) ==
    /\ job[f].pc = "sent" /\ job[f].kind = "login"
    /\ IF standing[job[f].who] = "active"
       THEN SignsIn(f)
       ELSE job' = [job EXCEPT ![f].pc = "refused"]
    /\ UNCHANGED <<serverVars, jarOf, jarVars, tabVars, sendVars, faults,
                   sweepVars, chainVars>>

\* ... and generateTokenForUser of the Google callback does not look at the
\* standing of the account.
googleAuthCallback(f) ==
    /\ job[f].pc = "sent" /\ job[f].kind = "google"
    /\ SignsIn(f)
    /\ UNCHANGED <<serverVars, jarOf, jarVars, tabVars, sendVars, faults,
                   sweepVars, chainVars>>

\* revokeRefreshToken: the row of the cookie, if it is still active.
revokeRefreshToken(f) ==
    LET c == job[f].tok IN
    /\ job[f].pc = "sent" /\ job[f].kind = "logout"
    /\ IF c = NoToken
       THEN UNCHANGED <<row, closed, forks>>
       ELSE /\ RevokeRows({c} \cap LiveOf(row[c].owner), "logout")
            /\ closed' = closed \cup {row[c].root}
            /\ forks' = [forks EXCEPT ![row[c].root] =
                            IF row[c].st = "live" THEN @ ELSE @ + 1]
    /\ job' = [job EXCEPT ![f].pc = "out"]
    /\ UNCHANGED <<standing, reset, jarOf, jarVars, tabVars, sendVars, faults,
                   sweepVars>>

\* resetPassword: the transaction that writes the password, then the sweep.
resetPassword(u) ==
    /\ reset[u].pc = "idle" /\ standing[u] = "active"
    /\ gen[u] < MaxSweeps
    /\ reset' = [reset EXCEPT ![u].pc = "changed"]
    /\ gen' = [gen EXCEPT ![u] = @ + 1]
    /\ UNCHANGED <<row, standing, jarOf, jarVars, tabVars, job, sendVars,
                   faults, broken, chainVars>>

resetList(u) ==
    /\ reset[u].pc = "changed"
    /\ reset' = [reset EXCEPT ![u] = [pc |-> "listed", list |-> LiveOf(u)]]
    /\ UNCHANGED <<row, standing, jarOf, jarVars, tabVars, job, sendVars,
                   faults, sweepVars, chainVars>>

MutResetKeepsSessions(u) ==
    /\ reset[u].pc = "listed"
    /\ reset' = [reset EXCEPT ![u] = NoReset]
    /\ UNCHANGED <<row, standing, jarOf, jarVars, tabVars, job, sendVars, faults,
                   sweepVars, chainVars>>

resetRevoke(u) ==
    /\ reset[u].pc = "listed"
    /\ RevokeRows(reset[u].list, "sweep")
    /\ reset' = [reset EXCEPT ![u] = NoReset]
    /\ UNCHANGED <<standing, jarOf, jarVars, tabVars, job, sendVars, faults,
                   sweepVars, chainVars>>

\* The process dies between the new password and the end of the sweep.
resetDies(u) ==
    /\ faults < MaxFaults /\ reset[u].pc # "idle"
    /\ faults' = faults + 1
    /\ reset' = [reset EXCEPT ![u] = NoReset]
    /\ broken' = broken \cup {u}
    /\ UNCHANGED <<row, standing, jarOf, jarVars, tabVars, job, sendVars, gen,
                   chainVars>>

\* An administrator bans or unbans; no session is revoked.
banUser(u) ==
    /\ standing[u] = "active" /\ faults < MaxFaults
    /\ standing' = [standing EXCEPT ![u] = "banned"]
    /\ faults' = faults + 1
    /\ UNCHANGED <<row, reset, jarOf, jarVars, tabVars, job, sendVars,
                   sweepVars, chainVars>>

unbanUser(u) ==
    /\ standing[u] = "banned"
    /\ standing' = [standing EXCEPT ![u] = "active"]
    /\ UNCHANGED <<row, reset, jarOf, jarVars, tabVars, job, sendVars, faults,
                   sweepVars, chainVars>>

-----------------------------------------------------------------------------
(* The browser *)

\* The request of a flight leaves with the cookies the browser has now.
Send(f, kind, who) ==
    LET c == IF kind \in Rotations \cup {"logout"}
             THEN cookie[JarOfFlight(f)] ELSE NoToken
    IN /\ job[f].pc = "idle" /\ requests < MaxRequests
       /\ requests' = requests + 1
       /\ job' = [job EXCEPT ![f] = [Idle EXCEPT !.pc = "sent", !.kind = kind,
                                                 !.tok = c, !.who = who]]
       /\ TaintIfCarried(JarOfFlight(f), c)

\* The persisted store of the browser takes the account of the tab that set it.
Shows(t, u) ==
    /\ user' = [user EXCEPT ![t] = u]
    /\ stored' = [stored EXCEPT ![jarOf[t]] = u]

\* The shared promise: whoever needs a refresh joins the one in flight.
getOrCreateRefreshPromise(t) ==
    IF job[<<t, "refresh">>].pc = "idle"
    THEN Send(<<t, "refresh">>, "refresh", NoOne)
    ELSE UNCHANGED <<job, sendVars>>

\* authLink: an operation whose token is about to expire, by the clock of the
\* browser, first waits for the shared refresh.
authLink(t) ==
    /\ user[t] # NoOne
    /\ job[<<t, "refresh">>].pc = "idle"
    /\ getOrCreateRefreshPromise(t)
    /\ UNCHANGED <<serverVars, jarOf, jarVars, tabVars, faults, sweepVars,
                   chainVars>>

\* errorLink: an operation that the backend refused, because the account is not
\* active or the tokens have expired, waits for the refresh to be tried again.
errorLink(t) ==
    /\ user[t] # NoOne /\ t \notin recovering
    /\ recovering' = recovering \cup {t}
    /\ getOrCreateRefreshPromise(t)
    /\ UNCHANGED <<serverVars, jarOf, jarVars, user, faults, sweepVars,
                   chainVars>>

MutGrantKeepsCookie(t) ==
    LET f == <<t, "refresh">> IN
    /\ job[f].pc = "granted"
    /\ Shows(t, user[t])
    /\ recovering' = recovering \ {t}
    /\ job' = [job EXCEPT ![f] = Idle]
    /\ UNCHANGED <<serverVars, jarOf, cookie, sendVars, faults, sweepVars,
                   chainVars>>

\* The browser keeps the cookies of an answer that grants tokens.
setAuthCookies(f) == cookie' = [cookie EXCEPT ![JarOfFlight(f)] = job[f].new]

\* doRefreshToken was granted: setToken, and the refused operations are tried
\* once more; that answer goes to the page.
refreshGranted(t) ==
    LET f == <<t, "refresh">> IN
    /\ job[f].pc = "granted"
    /\ setAuthCookies(f)
    /\ Shows(t, user[t])
    /\ recovering' = recovering \ {t}
    /\ job' = [job EXCEPT ![f] = Idle]
    /\ UNCHANGED <<serverVars, jarOf, sendVars, faults, sweepVars, chainVars>>

\* The cookie after a refused refresh: cleared, unless there was none to send.
DropCookie(f) ==
    cookie' = IF job[f].pc = "denied"
              THEN [cookie EXCEPT ![JarOfFlight(f)] = NoToken] ELSE cookie

\* doRefreshToken failed: an operation that waited before it was sent is sent
\* with the old token, one that was refused takes the tab to the login page.
refreshFailed(t) ==
    LET f == <<t, "refresh">> IN
    /\ job[f].pc \in {"denied", "missing", "lost"}
    /\ DropCookie(f)
    /\ IF t \in recovering
       THEN Shows(t, NoOne)
       ELSE UNCHANGED <<user, stored>>
    /\ recovering' = recovering \ {t}
    /\ job' = [job EXCEPT ![f] = Idle]
    /\ UNCHANGED <<serverVars, jarOf, sendVars, faults, sweepVars, chainVars>>

\* The login and register pages (a signed-in tab is sent away from them), the
\* Google button, and the sign-out of the navigation bar.
signIn(t, u, kind) ==
    /\ user[t] = NoOne
    /\ Send(<<t, "user">>, kind, u)
    /\ UNCHANGED <<serverVars, jarOf, jarVars, tabVars, faults, sweepVars,
                   chainVars>>

logout(t) ==
    /\ user[t] # NoOne
    /\ Send(<<t, "user">>, "logout", user[t])
    /\ UNCHANGED <<serverVars, jarOf, jarVars, tabVars, faults, sweepVars,
                   chainVars>>

\* The page is loaded again: memory is gone, the account comes back from local
\* storage, and when there is one ...
PageLoads(t) ==
    /\ \A l \in Lanes : job[<<t, l>>].pc = "idle"
    /\ user' = [user EXCEPT ![t] = stored[jarOf[t]]]
    /\ recovering' = recovering \ {t}

\* ... restoreSession asks for a token.
restoreSession(t) ==
    /\ PageLoads(t)
    /\ IF stored[jarOf[t]] # NoOne
       THEN Send(<<t, "user">>, "boot", NoOne)
       ELSE UNCHANGED <<job, sendVars>>
    /\ UNCHANGED <<serverVars, jarOf, jarVars, faults, sweepVars, chainVars>>

\* The payment-account page was refused and refreshes outside of the promise.
connectAccount(t) ==
    /\ user[t] # NoOne
    /\ Send(<<t, "user">>, "connect", NoOne)
    /\ UNCHANGED <<serverVars, jarOf, jarVars, tabVars, faults, sweepVars,
                   chainVars>>

\* The answer of what the user started.  The page of the Google callback asks
\* who signed in, which the backend does not answer for a banned account.
userGranted(t) ==
    LET f == <<t, "user">>
        signedIn == \/ job[f].kind = "login"
                    \/ job[f].kind = "google" /\ standing[job[f].who] = "active"
    IN /\ job[f].pc = "granted"
       /\ setAuthCookies(f)
       /\ Shows(t, IF signedIn THEN job[f].who ELSE user[t])
       /\ job' = [job EXCEPT ![f] = Idle]
       /\ UNCHANGED <<serverVars, jarOf, recovering, sendVars, faults,
                      sweepVars, chainVars>>

userFailed(t) ==
    LET f == <<t, "user">> IN
    /\ job[f].pc \in {"denied", "missing", "refused", "lost"}
    /\ DropCookie(f)
    /\ IF job[f].kind \in {"boot", "logout"}
       THEN Shows(t, NoOne)
       ELSE UNCHANGED <<user, stored>>
    /\ job' = [job EXCEPT ![f] = Idle]
    /\ UNCHANGED <<serverVars, jarOf, recovering, sendVars, faults, sweepVars,
                   chainVars>>

\* The answer to a sign-out clears the cookies and the store.
loggedOut(t) ==
    LET f == <<t, "user">> IN
    /\ job[f].pc = "out"
    /\ cookie' = [cookie EXCEPT ![jarOf[t]] = NoToken]
    /\ Shows(t, NoOne)
    /\ job' = [job EXCEPT ![f] = Idle]
    /\ UNCHANGED <<serverVars, jarOf, recovering, sendVars, faults, sweepVars,
                   chainVars>>

\* A handler fails on the database: the refresh endpoint answers 401 and
\* clears the cookies, the others answer an error.
HandlerFails(f) ==
    /\ faults < MaxFaults /\ job[f].pc \in {"rotate", "mint"}
    /\ faults' = faults + 1
    /\ job' = [job EXCEPT ![f].pc =
                  IF job[f].kind \in Rotations THEN "denied" ELSE "refused"]
    /\ UNCHANGED <<serverVars, jarOf, jarVars, tabVars, sendVars, sweepVars,
                   chainVars>>

\* The handler dies or its answer is lost: the browser keeps its cookies.
AnswerLost(f) ==
    /\ faults < MaxFaults
    /\ faults' = faults + 1
    /\ job[f].pc \in {"sent", "rotate", "mint", "alarm", "sweep", "granted",
                      "denied", "out", "refused"}
    /\ job' = [job EXCEPT ![f] = [Idle EXCEPT !.pc = "lost",
                                              !.kind = job[f].kind]]
    /\ tainted' = tainted \cup ({job[f].tok} \ {NoToken})
    /\ broken' = IF job[f].pc \in {"alarm", "sweep"}
                 THEN broken \cup {job[f].who} ELSE broken
    /\ UNCHANGED <<serverVars, jarOf, jarVars, tabVars, requests, gen,
                   chainVars>>

-----------------------------------------------------------------------------
Init ==
    /\ row = [t \in Tokens |-> NoRow]
    /\ standing = [u \in Users |-> "active"]
    /\ reset = [u \in Users |-> NoReset]
    /\ jarOf \in [Tabs -> Jars]
    /\ cookie = [j \in Jars |-> NoToken]
    /\ stored = [j \in Jars |-> NoOne]
    /\ user = [t \in Tabs |-> NoOne]
    /\ recovering = {}
    /\ job = [f \in Flights |-> Idle]
    /\ gen = [u \in Users |-> 0]
    /\ broken = {}
    /\ requests = 0
    /\ faults = 0
    /\ closed = {}
    /\ forks = [t \in Tokens |-> 0]
    /\ tainted = {}

HandlerStep(f) ==
    \/ refreshAccessTokenRead(f) \/ refreshExpired(f) \/ rotateWrite(f)
    \/ mint(f) \/ alarmList(f) \/ alarmRevoke(f) \/ loginRead(f)
    \/ googleAuthCallback(f) \/ revokeRefreshToken(f)

TabStep(t) ==
    \/ authLink(t) \/ errorLink(t)
    \/ refreshGranted(t) \/ refreshFailed(t)
    \/ \E u \in Users : signIn(t, u, "login") \/ signIn(t, u, "google")
    \/ logout(t) \/ restoreSession(t) \/ connectAccount(t)
    \/ userGranted(t) \/ userFailed(t) \/ loggedOut(t)

Next ==
    \/ \E f \in Flights : HandlerStep(f) \/ HandlerFails(f) \/ AnswerLost(f)
    \/ \E t \in Tabs : TabStep(t)
    \/ \E u \in Users :
          resetPassword(u) \/ resetList(u) \/ resetRevoke(u) \/ resetDies(u)
            \/ banUser(u) \/ unbanUser(u)

Spec == Init /\ [][Next]_vars

-----------------------------------------------------------------------------
(* Properties *)

Pcs == {"idle", "sent", "missing", "alarm", "sweep", "rotate", "mint",
        "granted", "denied", "refused", "out", "lost"}
Kinds == {"none", "refresh", "boot", "connect", "login", "google", "logout"}
Accounts == Users \cup {NoOne}

\* The shape of the state.
TypeOK ==
    /\ row \in [Tokens -> [st : {"none", "live", "revoked"}, owner : Accounts,
                           root : Tokens \cup {NoToken}, gen : Nat,
                           by : {"nothing", "rotation", "logout", "sweep"},
                           over : BOOLEAN]]
    /\ standing \in [Users -> {"active", "banned"}]
    /\ reset \in [Users -> [pc : {"idle", "changed", "listed"},
                            list : SUBSET Tokens]]
    /\ jarOf \in [Tabs -> Jars]
    /\ cookie \in [Jars -> Tokens \cup {NoToken}]
    /\ stored \in [Jars -> Accounts]
    /\ user \in [Tabs -> Accounts]
    /\ recovering \in SUBSET Tabs
    /\ job \in [Flights -> [pc : Pcs, kind : Kinds,
                            tok : Tokens \cup {NoToken}, who : Accounts,
                            new : Tokens \cup {NoToken}, list : SUBSET Tokens,
                            seen : Nat, calm : BOOLEAN]]
    /\ gen \in [Users -> Nat]
    /\ broken \in SUBSET Users
    /\ requests \in Nat
    /\ faults \in Nat
    /\ closed \in SUBSET Tokens
    /\ forks \in [Tokens -> Nat]
    /\ tainted \in SUBSET Tokens

\* The rotations of a sign-in that have revoked a token and not yet created
\* its successor.
Minting(r) == {f \in Flights : /\ job[f].pc = "mint"
                               /\ job[f].kind \in Rotations
                               /\ row[job[f].tok].root = r}
LiveIn(r) == {t \in Tokens : row[t].st = "live" /\ row[t].root = r}

\* One sign-in has one live refresh token, and none after its logout, up to the
\* rotations and logouts that raced on a token another one had revoked.
OneSessionPerSignIn ==
    \A r \in Tokens :
        (row[r].st # "none" /\ row[r].root = r)
          => Cardinality(LiveIn(r)) + Cardinality(Minting(r))
               <= (IF r \in closed THEN 0 ELSE 1) + forks[r]

\* After a password reset or a reuse alarm has swept an account, no earlier
\* session is live, unless a handler issued it while the sweep ran or the
\* process died in the sweep.
SweepEndsSessions ==
    \A t \in Tokens :
        LET u == row[t].owner IN
        (row[t].st = "live" /\ row[t].gen < gen[u])
          => row[t].over \/ Sweeping(u) \/ u \in broken

\* A reuse alarm that no sweep caused is raised only for a token that two
\* requests of the browser carried at the same time, or whose answer was lost.
AlarmHasCause ==
    [][\A f \in Flights :
          (job[f].pc = "sent" /\ job'[f].pc = "alarm")
            => row[job[f].tok].by = "sweep" \/ job[f].tok \in tainted]_vars
=============================================================================
