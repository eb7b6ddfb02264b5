--------------------------- MODULE SessionsProofs ---------------------------
(***************************************************************************)
(* Proofs about sign-in sessions, for every number of accounts, browsers,  *)
(* tabs and requests: types, one session per sign-in, what a sweep ends,   *)
(* and what can raise a reuse alarm.                                       *)
(***************************************************************************)
EXTENDS Sessions, SumsProofs

-----------------------------------------------------------------------------
(* Well-formed rows, flights and cookies                                    *)

RowType == [st : {"none", "live", "revoked"}, owner : Accounts,
            root : Tokens \cup {NoToken}, gen : Nat,
            by : {"nothing", "rotation", "logout", "sweep"}, over : BOOLEAN]

FlightType == [pc : Pcs, kind : Kinds, tok : Tokens \cup {NoToken}, who : Accounts,
               new : Tokens \cup {NoToken}, list : SUBSET Tokens,
               seen : Nat, calm : BOOLEAN]

\* A used row belongs to an account and descends from a sign-in that has a row.
RowsOK ==
    /\ row \in [Tokens -> RowType]
    /\ \A t \in Tokens :
         IF row[t].st = "none" THEN row[t].root = NoToken
         ELSE /\ row[t].owner \in Users /\ row[t].root \in Tokens
              /\ row[row[t].root].st # "none" /\ row[row[t].root].root = row[t].root

\* A request only carries or holds tokens that have a row, and its handler
\* knows the account before it creates a token or sweeps.
FlightOK(j, rows) ==
    /\ j \in FlightType
    /\ j.tok # NoToken => rows[j.tok].st # "none" /\ j.kind \in Rotations \cup {"logout"}
    /\ j.pc = "idle" => j.tok = NoToken
    /\ j.pc = "granted" => j.new # NoToken /\ rows[j.new].st # "none"
    /\ j.pc \in {"rotate", "mint"} /\ j.kind \in Rotations
         => j.tok # NoToken /\ j.who = rows[j.tok].owner
    /\ j.pc = "rotate" => j.kind \in Rotations
    /\ j.pc = "mint" => j.kind \in Rotations \cup {"login", "google"}
    /\ j.pc = "out" => j.kind = "logout"
    /\ j.pc \in {"rotate", "mint", "alarm", "sweep"} => j.who \in Users
    /\ j.pc = "sent" /\ j.kind \in {"login", "google"} => j.who \in Users
    /\ \A t \in j.list : rows[t].st # "none"

FlightsOK == /\ job \in [Flights -> FlightType]
             /\ \A f \in Flights : FlightOK(job[f], row)

CookiesOK == \A j \in Jars : cookie[j] # NoToken => row[cookie[j]].st # "none"

ClosedOK == \A t \in closed : row[t].st # "none"

\* A reset lists rows that exist.
ResetsOK == \A u \in Users : \A t \in reset[u].list : row[t].st # "none"

\* The requests that may still create a token: there is a free row for each.
Pending == {f \in Flights : job[f].pc \in {"sent", "rotate", "mint"}}

CountOK == /\ requests <= MaxRequests /\ IsFiniteSet(Pending)
           /\ Cardinality(Used) + Cardinality(Pending) <= requests

Wf == TypeOK /\ RowsOK /\ FlightsOK /\ CookiesOK /\ ClosedOK /\ ResetsOK /\ CountOK

\* What a row says of its origin never changes.
Grows == \A t \in Tokens : row[t].st # "none" =>
            /\ row'[t].st # "none" /\ row'[t].owner = row[t].owner
            /\ row'[t].root = row[t].root /\ row'[t].gen = row[t].gen
            /\ row'[t].over = row[t].over

-----------------------------------------------------------------------------
(* The inductive invariants                                                 *)

\* A sweep under way will reach the live token t.
Covered(t) ==
    LET u == row[t].owner IN
    \/ reset[u].pc = "changed"
    \/ reset[u].pc = "listed" /\ t \in reset[u].list
    \/ \E f \in Flights : /\ job[f].who = u
                          /\ \/ job[f].pc = "alarm"
                             \/ job[f].pc = "sweep" /\ t \in job[f].list

\* Every live session that is older than a sweep of its account is covered.
OldIsCovered ==
    \A t \in Tokens :
        (row[t].st = "live" /\ row[t].gen < gen[row[t].owner])
          => row[t].over \/ Covered(t) \/ row[t].owner \in broken

\* A rotation that read its token while no sweep ran read a current session.
ReadIsCurrent ==
    \A f \in Flights :
        (job[f].pc \in {"rotate", "mint"} /\ job[f].kind \in Rotations /\ job[f].calm)
          => \/ job[f].seen <= row[job[f].tok].gen
             \/ row[job[f].tok].over
             \/ job[f].who \in broken

\* A token that a rotation or a logout has ended.
Spent(c) == row[c].st = "revoked" /\ row[c].by # "sweep"

\* A browser has the token: in its cookie, in a request or in an answer.
HasToken(j, c) ==
    \/ cookie[j] = c
    \/ \E f \in Flights : /\ JarOfFlight(f) = j
                          /\ \/ job[f].tok = c
                             \/ job[f].pc = "granted" /\ job[f].new = c

OneBrowser == \A c \in Tokens, i, j \in Jars :
                 HasToken(i, c) /\ HasToken(j, c) => i = j

\* The token of an answer on its way is nowhere else and nobody has used it.
AnswersAreFresh ==
    \A f \in Flights : job[f].pc = "granted" =>
        /\ ~Spent(job[f].new)
        /\ \A j \in Jars : cookie[j] # job[f].new
        /\ \A g \in Flights :
             /\ job[g].tok # job[f].new
             /\ job[g].pc = "granted" /\ job[g].new = job[f].new => g = f

\* Two requests with one token taint it; so does a request with a spent one.
SharedIsTainted ==
    \A f, g \in Flights :
        job[f].tok # NoToken /\ job[f].tok = job[g].tok => f = g \/ job[f].tok \in tainted

SpentIsTainted ==
    \A f \in Flights :
        job[f].pc = "sent" /\ job[f].tok # NoToken /\ Spent(job[f].tok)
          => job[f].tok \in tainted

\* The request that spent the token of a cookie is still to be answered.
SpentIsAnswered ==
    \A j \in Jars :
        cookie[j] # NoToken /\ Spent(cookie[j]) =>
          \/ cookie[j] \in tainted
          \/ \E f \in Flights : /\ JarOfFlight(f) = j /\ job[f].tok = cookie[j]
                                /\ job[f].pc \in {"mint", "granted", "denied", "out"}

AlarmInv == OneBrowser /\ AnswersAreFresh /\ SharedIsTainted /\ SpentIsTainted /\ SpentIsAnswered

-----------------------------------------------------------------------------
(* Finite sets and unchanged parts                                          *)

\* A set of tokens that is not empty has a smallest one.
LEMMA SmallestToken ==
    ASSUME NEW T, T \subseteq Tokens, T # {}
    PROVE  (CHOOSE n \in T : \A m \in T : n <= m) \in T
<1> DEFINE Below(n) == {m \in T : m <= n}
           F == {Below(n) : n \in T}
<1>0. Tokens \subseteq Nat /\ IsFiniteSet(Tokens)
  BY SessionsConstants, FS_Interval DEF Tokens
<1>1. IsFiniteSet(T)
  BY <1>0, FS_Subset
<1>2. PICK B \in F : \A C \in F : C \subseteq B => C = B
  <2>1. F \subseteq SUBSET T /\ F # {}
    OBVIOUS
  <2> HIDE DEF F
  <2> QED
    BY <1>1, <2>1, MinimalSubset
<1>3. PICK n \in T : B = Below(n)
  BY <1>2
<1>4. ASSUME NEW m \in T PROVE n <= m
  <2> SUFFICES ASSUME m < n PROVE FALSE
    BY <1>0
  <2>1. Below(m) \subseteq Below(n)
    <3>1. \A x \in T : x <= m => x <= n
      <4> HIDE DEF F, Below
      <4> QED
        BY <1>0
    <3> QED
      BY <3>1
  <2>2. Below(m) = Below(n)
    <3>1. Below(m) \in F
      OBVIOUS
    <3> HIDE DEF F, Below
    <3> QED
      BY <1>2, <1>3, <2>1, <3>1
  <2>3. n \in Below(n) /\ n \notin Below(m)
    BY <1>0
  <2> QED
    BY <2>2, <2>3
<1> QED
  BY <1>4

LEMMA IdleOK == Idle \in FlightType /\ FlightOK(Idle, row)
  BY DEF Idle, FlightType, FlightOK, Pcs, Kinds, Tokens, NoToken, Accounts

\* The finite sets that are counted.
LEMMA UsedFinite == /\ IsFiniteSet(Tokens)
                    /\ \A S \in SUBSET Tokens : IsFiniteSet(S) /\ Cardinality(S) \in Nat
<1>1. IsFiniteSet(Tokens)
  BY SessionsConstants, FS_Interval DEF Tokens
<1> QED
  BY <1>1, FS_Subset, FS_CardinalityType

\* A record that is in order stays so when rows keep their origin.
LEMMA FlightKept ==
    ASSUME Grows, NEW j, FlightOK(j, row) PROVE FlightOK(j, row')
  BY DEF Grows, FlightOK, FlightType

\* One flight moves to a record that is in order.
LEMMA FlightMoves ==
    ASSUME FlightsOK, Grows, NEW f \in Flights, NEW x, FlightOK(x, row'),
           job' = [job EXCEPT ![f] = x]
    PROVE  FlightsOK'
<1>1. x \in FlightType
  BY DEF FlightOK
<1>2. job' \in [Flights -> FlightType]
  BY <1>1 DEF FlightsOK
<1>3. ASSUME NEW g \in Flights PROVE FlightOK(job'[g], row')
  <2>1. CASE g = f
    BY <2>1 DEF FlightsOK
  <2>2. CASE g # f
    <3>1. job'[g] = job[g] /\ FlightOK(job[g], row)
      BY <2>2 DEF FlightsOK
    <3> QED
      BY <3>1, FlightKept
  <2> QED
    BY <2>1, <2>2
<1> QED
  BY <1>2, <1>3 DEF FlightsOK

\* No flight moves.
LEMMA FlightsStay ==
    ASSUME FlightsOK, Grows, UNCHANGED job PROVE FlightsOK'
<1>1. \A f \in Flights : FlightOK(job[f], row')
  BY FlightKept DEF FlightsOK
<1> QED
  BY <1>1 DEF FlightsOK

\* Cookies and closed sign-ins keep their rows.
LEMMA CookiesStay ==
    ASSUME TypeOK, CookiesOK, Grows, UNCHANGED cookie PROVE CookiesOK'
<1>1. \A j \in Jars : cookie[j] \in Tokens \cup {NoToken}
  BY DEF TypeOK
<1> QED
  BY <1>1 DEF CookiesOK, Grows

LEMMA ClosedStays ==
    ASSUME TypeOK, ClosedOK, Grows, UNCHANGED closed PROVE ClosedOK'
<1>1. closed \subseteq Tokens
  BY DEF TypeOK
<1> QED
  BY <1>1 DEF ClosedOK, Grows

\* Rows that are not touched are as before.
LEMMA RowsStay ==
    ASSUME RowsOK, UNCHANGED row PROVE RowsOK' /\ Grows /\ Used' = Used
  BY DEF RowsOK, Grows, Used

\* A revocation keeps every row what it was but for its state.
LEMMA RevokeKeeps ==
    ASSUME RowsOK, NEW list, list \subseteq Used,
           NEW why \in {"rotation", "logout", "sweep"}, RevokeRows(list, why)
    PROVE  RowsOK' /\ Grows /\ Used' = Used
<1>1. ASSUME NEW t \in Tokens
      PROVE  /\ row'[t] \in RowType
             /\ row'[t].st # "none" <=> row[t].st # "none"
             /\ row'[t].owner = row[t].owner /\ row'[t].root = row[t].root
             /\ row'[t].gen = row[t].gen /\ row'[t].over = row[t].over
  <2>1. row[t] \in RowType
    BY DEF RowsOK
  <2>2. CASE t \in list
    <3>1. row'[t] = [row[t] EXCEPT !.st = "revoked",
                          !.by = IF row[t].st = "live" THEN why ELSE @]
      BY <2>2 DEF RevokeRows
    <3>2. row[t].st # "none"
      BY <2>2 DEF Used
    <3> QED
      BY <2>1, <3>1, <3>2 DEF RowType
  <2>3. CASE t \notin list
    BY <2>1, <2>3 DEF RevokeRows
  <2> QED
    BY <2>2, <2>3
<1>2. row' \in [Tokens -> RowType]
  <2>1. row' = [t \in Tokens |-> row'[t]]
    BY DEF RevokeRows
  <2> QED
    BY <1>1, <2>1
<1>3. RowsOK'
  BY <1>1, <1>2 DEF RowsOK
<1> QED
  BY <1>1, <1>3 DEF Grows, Used

-----------------------------------------------------------------------------
(* The handlers of the backend keep the state well formed                   *)

\* Only the flight f moves.
OnlyMoves(f) == job' = [job EXCEPT ![f] = job'[f]]

Waiting == {"sent", "rotate", "mint"}

\* The number of pending requests does not grow.
LEMMA CountStays ==
    ASSUME TypeOK, CountOK, Used' = Used, UNCHANGED requests, Pending' \subseteq Pending
    PROVE  CountOK'
<1>1. IsFiniteSet(Pending') /\ Cardinality(Pending') <= Cardinality(Pending)
  BY FS_Subset DEF CountOK
<1>2. Cardinality(Pending) \in Nat /\ Cardinality(Pending') \in Nat
  BY <1>1, FS_CardinalityType DEF CountOK
<1>3. Used \in SUBSET Tokens
  BY DEF Used
<1>4. Cardinality(Used) \in Nat /\ requests \in Nat
  BY <1>3, UsedFinite DEF TypeOK
<1> QED
  BY <1>1, <1>2, <1>4, SessionsConstants DEF CountOK

\* A step of one flight that creates no row.
LEMMA FlightSteps ==
    ASSUME Wf, Grows, Used' = Used, UNCHANGED requests,
           NEW f \in Flights, OnlyMoves(f), FlightOK(job'[f], row'),
           job'[f].pc \in Waiting => job[f].pc \in Waiting
    PROVE  FlightsOK' /\ CountOK'
<1>1. FlightsOK'
  BY FlightMoves DEF Wf, OnlyMoves
<1>2. Pending' \subseteq Pending
  BY DEF Pending, OnlyMoves, Waiting, Wf, FlightsOK
<1>3. CountOK'
  BY <1>2, CountStays DEF Wf
<1> QED
  BY <1>1, <1>3

\* Resets keep their rows.
LEMMA ResetsStay ==
    ASSUME TypeOK, ResetsOK, Grows, UNCHANGED reset PROVE ResetsOK'
<1>1. \A u \in Users : reset[u].list \subseteq Tokens
  BY DEF TypeOK
<1> QED
  BY <1>1 DEF ResetsOK, Grows

\* A step that touches none of cookies, closed sign-ins and resets.
LEMMA RestStays ==
    ASSUME Wf, Grows, UNCHANGED <<cookie, closed, reset>>
    PROVE  CookiesOK' /\ ClosedOK' /\ ResetsOK'
  BY CookiesStay, ClosedStays, ResetsStay DEF Wf

LEMMA ReadKeepsWf ==
    ASSUME Wf, NEW f \in Flights, refreshAccessTokenRead(f) PROVE Wf'
<1> DEFINE c == job[f].tok
           u == row[c].owner
<1>1. job[f] \in FlightType /\ FlightOK(job[f], row) /\ job[f].pc = "sent"
  BY DEF Wf, FlightsOK, refreshAccessTokenRead
<1>2. RowsOK' /\ Grows /\ Used' = Used
  BY RowsStay DEF Wf, refreshAccessTokenRead, serverVars
<1>3. c # NoToken => c \in Tokens /\ u \in Users
  BY <1>1 DEF FlightOK, FlightType, Wf, RowsOK
<1>4. gen' \in [Users -> Nat]
  BY <1>3 DEF refreshAccessTokenRead, Wf, TypeOK
<1>5. OnlyMoves(f)
  BY DEF refreshAccessTokenRead, OnlyMoves, Wf, FlightsOK
<1>6. FlightOK(job'[f], row')
  <2>1. CASE c = NoToken
    BY <1>1, <2>1 DEF refreshAccessTokenRead, serverVars, FlightOK, FlightType, Pcs, Wf, FlightsOK
  <2>2. CASE c # NoToken /\ row[c].st = "revoked"
    BY <1>1, <1>3, <2>2 DEF refreshAccessTokenRead, serverVars, FlightOK, FlightType, Pcs, Accounts, Wf, FlightsOK
  <2>3. CASE c # NoToken /\ row[c].st = "live" /\ standing[u] = "banned"
    BY <1>1, <1>3, <2>3 DEF refreshAccessTokenRead, serverVars, FlightOK, FlightType, Pcs, Wf, FlightsOK
  <2>4. CASE c # NoToken /\ row[c].st = "live" /\ standing[u] = "active"
    <3>1. job' = [job EXCEPT ![f].pc = "rotate", ![f].who = u,
                             ![f].seen = gen[u], ![f].calm = ~Sweeping(u)]
      BY <2>4 DEF refreshAccessTokenRead
    <3>2. gen[u] \in Nat /\ Sweeping(u) \in BOOLEAN
      BY <1>3, <2>4 DEF Wf, TypeOK, Sweeping
    <3>3. job'[f] = [job[f] EXCEPT !.pc = "rotate", !.who = u,
                                   !.seen = gen[u], !.calm = ~Sweeping(u)]
      <4> HIDE DEF c, u
      <4> QED
        BY <3>1 DEF Wf, FlightsOK
    <3>4. row' = row
      BY DEF refreshAccessTokenRead, serverVars
    <3> HIDE DEF c, u
    <3>5. "rotate" \in Pcs /\ u \in Accounts
      BY <1>3, <2>4 DEF Pcs, Accounts
    <3>6. job'[f] \in FlightType
      BY <1>1, <3>2, <3>3, <3>5 DEF FlightType
    <3>7. /\ job'[f].pc = "rotate" /\ job'[f].who = u /\ job'[f].tok = job[f].tok
          /\ job'[f].kind = job[f].kind /\ job'[f].list = job[f].list
      BY <1>1, <3>3 DEF FlightType
    <3>8. u = row[job[f].tok].owner /\ u \in Users /\ job[f].tok # NoToken
          /\ job[f].kind \in Rotations
      BY <1>3, <2>4 DEF c, u, refreshAccessTokenRead
    <3> QED
      BY <1>1, <3>4, <3>6, <3>7, <3>8 DEF FlightOK
  <2> QED
    BY <2>1, <2>2, <2>3, <2>4 DEF refreshAccessTokenRead
<1>7. FlightsOK' /\ CountOK'
  BY <1>1, <1>2, <1>5, <1>6, FlightSteps DEF refreshAccessTokenRead, sendVars, Waiting
<1>8. CookiesOK' /\ ClosedOK' /\ ResetsOK'
  BY <1>2, RestStays DEF refreshAccessTokenRead, serverVars, jarVars, chainVars
<1>9. TypeOK'
  BY <1>2, <1>4, <1>7 DEF TypeOK, RowsOK, FlightsOK, RowType, FlightType, Wf,
     refreshAccessTokenRead, serverVars, jarVars, tabVars, sendVars, chainVars
<1> QED
  BY <1>2, <1>7, <1>8, <1>9 DEF Wf

\* Handler steps that leave the rows and the requests alone.
HandlerOnly == UNCHANGED <<row, standing, reset, jarOf, cookie, stored, user, recovering,
                           requests, tainted, faults, gen, broken, closed, forks>>

LEMMA HandlerOnlyKeepsWf ==
    ASSUME Wf, HandlerOnly, NEW f \in Flights, OnlyMoves(f), FlightOK(job'[f], row),
           job'[f].pc \in Waiting => job[f].pc \in Waiting
    PROVE  Wf'
<1>1. RowsOK' /\ Grows /\ Used' = Used
  BY RowsStay DEF Wf, HandlerOnly
<1>2. FlightOK(job'[f], row')
  BY DEF HandlerOnly
<1>3. FlightsOK' /\ CountOK'
  BY <1>1, <1>2, FlightSteps DEF HandlerOnly
<1>4. CookiesOK' /\ ClosedOK' /\ ResetsOK'
  BY <1>1, RestStays DEF HandlerOnly
<1>5. TypeOK'
  BY <1>1, <1>3 DEF TypeOK, RowsOK, FlightsOK, RowType, FlightType, Wf, HandlerOnly
<1> QED
  BY <1>1, <1>3, <1>4, <1>5 DEF Wf

LEMMA ExpiredKeepsWf ==
    ASSUME Wf, NEW f \in Flights, refreshExpired(f) PROVE Wf'
<1>1. job[f] \in FlightType /\ FlightOK(job[f], row)
  BY DEF Wf, FlightsOK
<1>2. job' = [job EXCEPT ![f].pc = "denied"] /\ job[f].pc = "sent"
  BY DEF refreshExpired
<1>3. HandlerOnly
  BY DEF refreshExpired, HandlerOnly, serverVars, jarVars, tabVars, sendVars, sweepVars, chainVars
<1>4. OnlyMoves(f) /\ job'[f] = [job[f] EXCEPT !.pc = "denied"]
  BY <1>2 DEF OnlyMoves, Wf, FlightsOK
<1>5. FlightOK(job'[f], row) /\ job'[f].pc \notin Waiting
  BY <1>1, <1>4 DEF FlightOK, FlightType, Pcs, Waiting
<1> QED
  BY <1>3, <1>4, <1>5, HandlerOnlyKeepsWf

LEMMA AlarmListKeepsWf ==
    ASSUME Wf, NEW f \in Flights, alarmList(f) PROVE Wf'
<1>1. job[f] \in FlightType /\ FlightOK(job[f], row)
  BY DEF Wf, FlightsOK
<1> DEFINE L == LiveOf(job[f].who)
<1>2. job' = [job EXCEPT ![f].pc = "sweep", ![f].list = L] /\ job[f].pc = "alarm"
  BY DEF alarmList
<1>3. HandlerOnly
  BY DEF alarmList, HandlerOnly, serverVars, jarVars, tabVars, sendVars, sweepVars, chainVars
<1>4. L \subseteq Tokens /\ \A t \in L : row[t].st # "none"
  BY DEF LiveOf
<1> HIDE DEF L
<1>5. OnlyMoves(f) /\ job'[f] = [job[f] EXCEPT !.pc = "sweep", !.list = L]
  BY <1>2 DEF OnlyMoves, Wf, FlightsOK
<1>6. job'[f] \in FlightType /\ job'[f].pc = "sweep"
  BY <1>1, <1>4, <1>5 DEF FlightType, Pcs
<1>7. FlightOK(job'[f], row)
  <2>1. /\ job'[f].list = L /\ job'[f].tok = job[f].tok /\ job'[f].who = job[f].who
        /\ job'[f].kind = job[f].kind
    BY <1>1, <1>5 DEF FlightType
  <2> QED
    BY <1>1, <1>2, <1>4, <1>6, <2>1 DEF FlightOK
<1> QED
  BY <1>3, <1>5, <1>6, <1>7, HandlerOnlyKeepsWf DEF Waiting

LEMMA SignInKeepsWf ==
    ASSUME Wf, NEW f \in Flights, loginRead(f) \/ googleAuthCallback(f) PROVE Wf'
<1> DEFINE u == job[f].who
<1>1. job[f] \in FlightType /\ FlightOK(job[f], row)
  BY DEF Wf, FlightsOK
<1>2. /\ job[f].pc = "sent" /\ job[f].kind \in {"login", "google"}
      /\ SignsIn(f) \/ job' = [job EXCEPT ![f].pc = "refused"]
  BY DEF loginRead, googleAuthCallback
<1>3. HandlerOnly
  BY DEF loginRead, googleAuthCallback, HandlerOnly, serverVars, jarVars, tabVars, sendVars,
     sweepVars, chainVars
<1>4. u \in Users
  BY <1>1, <1>2 DEF FlightOK
<1>5. gen[u] \in Nat /\ Sweeping(u) \in BOOLEAN
  BY <1>4 DEF Wf, TypeOK, Sweeping
<1>6. OnlyMoves(f)
  BY <1>2 DEF OnlyMoves, SignsIn, Wf, FlightsOK
<1>7. CASE SignsIn(f)
  <2>1. job'[f] = [job[f] EXCEPT !.pc = "mint", !.seen = gen[u], !.calm = ~Sweeping(u)]
    BY <1>7 DEF SignsIn, Wf, FlightsOK
  <2> HIDE DEF u
  <2>2. FlightOK(job'[f], row)
    BY <1>1, <1>2, <1>4, <1>5, <2>1 DEF FlightOK, FlightType, Pcs, u, Rotations
  <2> QED
    BY <1>2, <1>3, <1>6, <2>2, HandlerOnlyKeepsWf DEF Waiting
<1>8. CASE job' = [job EXCEPT ![f].pc = "refused"]
  <2>1. job'[f] = [job[f] EXCEPT !.pc = "refused"]
    BY <1>8 DEF Wf, FlightsOK
  <2>2. FlightOK(job'[f], row) /\ job'[f].pc \notin Waiting
    BY <1>1, <2>1 DEF FlightOK, FlightType, Pcs, Waiting
  <2> QED
    BY <1>3, <1>6, <2>2, HandlerOnlyKeepsWf
<1> QED
  BY <1>2, <1>7, <1>8

\* Steps that revoke a list of rows.
LEMMA RotateKeepsWf ==
    ASSUME Wf, NEW f \in Flights, rotateWrite(f)
    PROVE  Wf' /\ Grows /\ OnlyMoves(f) /\ job'[f] = [job[f] EXCEPT !.pc = "mint"]
<1> DEFINE c == job[f].tok
<1>1. job[f] \in FlightType /\ FlightOK(job[f], row) /\ job[f].pc = "rotate"
  BY DEF Wf, FlightsOK, rotateWrite
<1>2. c \in Tokens /\ row[c].st # "none" /\ row[c].root \in Tokens /\ job[f].kind \in Rotations
  BY <1>1 DEF FlightOK, FlightType, Wf, RowsOK
<1>3. RowsOK' /\ Grows /\ Used' = Used
  <2>1. {c} \subseteq Used /\ RevokeRows({c}, "rotation")
    BY <1>2 DEF Used, rotateWrite
  <2> HIDE DEF c
  <2> QED
    BY <2>1, RevokeKeeps DEF Wf
<1>4. OnlyMoves(f) /\ job'[f] = [job[f] EXCEPT !.pc = "mint"]
  BY DEF rotateWrite, OnlyMoves, Wf, FlightsOK
<1>5. FlightOK(job'[f], row')
  <2>1. FlightOK(job[f], row')
    BY <1>1, <1>3, FlightKept
  <2> QED
    BY <1>1, <1>2, <1>4, <2>1 DEF FlightOK, FlightType, Pcs
<1>6. FlightsOK' /\ CountOK'
  BY <1>1, <1>3, <1>4, <1>5, FlightSteps DEF rotateWrite, sendVars, Waiting
<1>7. CookiesOK' /\ ClosedOK' /\ ResetsOK'
  BY <1>3, RestStays DEF rotateWrite, jarVars
<1>8. forks' \in [Tokens -> Nat]
  BY <1>2 DEF rotateWrite, Wf, TypeOK
<1>9. TypeOK'
  BY <1>3, <1>6, <1>8 DEF TypeOK, RowsOK, FlightsOK, RowType, FlightType, Wf,
     rotateWrite, jarVars, tabVars, sendVars, sweepVars
<1> QED
  BY <1>3, <1>4, <1>6, <1>7, <1>9 DEF Wf

LEMMA AlarmRevokeKeepsWf ==
    ASSUME Wf, NEW f \in Flights, alarmRevoke(f)
    PROVE  Wf' /\ Grows /\ OnlyMoves(f) /\ job'[f] = [job[f] EXCEPT !.pc = "denied", !.list = {}]
<1> DEFINE L == job[f].list
<1>1. job[f] \in FlightType /\ FlightOK(job[f], row) /\ job[f].pc = "sweep"
  BY DEF Wf, FlightsOK, alarmRevoke
<1>3. RowsOK' /\ Grows /\ Used' = Used
  <2>1. L \subseteq Used /\ RevokeRows(L, "sweep")
    BY <1>1 DEF Used, alarmRevoke, FlightOK, FlightType
  <2> HIDE DEF L
  <2> QED
    BY <2>1, RevokeKeeps DEF Wf
<1>4. OnlyMoves(f) /\ job'[f] = [job[f] EXCEPT !.pc = "denied", !.list = {}]
  BY DEF alarmRevoke, OnlyMoves, Wf, FlightsOK
<1>5. FlightOK(job'[f], row')
  <2>1. FlightOK(job[f], row')
    BY <1>1, <1>3, FlightKept
  <2> QED
    BY <1>1, <1>4, <2>1 DEF FlightOK, FlightType, Pcs
<1>6. FlightsOK' /\ CountOK'
  <2>1. UNCHANGED requests
    BY DEF alarmRevoke, sendVars
  <2>2. job'[f].pc = "denied"
    BY <1>1, <1>4 DEF FlightType
  <2> QED
    BY <1>3, <1>4, <1>5, <2>1, <2>2, FlightSteps DEF Waiting
<1>7. CookiesOK' /\ ClosedOK' /\ ResetsOK'
  BY <1>3, RestStays DEF alarmRevoke, jarVars, chainVars
<1>9. TypeOK'
  BY <1>3, <1>6 DEF TypeOK, RowsOK, FlightsOK, RowType, FlightType, Wf,
     alarmRevoke, jarVars, tabVars, sendVars, sweepVars, chainVars
<1> QED
  BY <1>3, <1>4, <1>6, <1>7, <1>9 DEF Wf

LEMMA LogoutRevokesKeepsWf ==
    ASSUME Wf, NEW f \in Flights, revokeRefreshToken(f)
    PROVE  Wf' /\ Grows /\ OnlyMoves(f) /\ job'[f] = [job[f] EXCEPT !.pc = "out"]
<1> DEFINE c == job[f].tok
           L == {c} \cap LiveOf(row[c].owner)
<1>1. job[f] \in FlightType /\ FlightOK(job[f], row) /\ job[f].pc = "sent" /\ job[f].kind = "logout"
  BY DEF Wf, FlightsOK, revokeRefreshToken
<1>2. c # NoToken => c \in Tokens /\ row[c].root \in Tokens /\ row[row[c].root].st # "none"
  BY <1>1 DEF FlightOK, FlightType, Wf, RowsOK
<1>3. RowsOK' /\ Grows /\ Used' = Used
  <2>1. CASE c = NoToken
    BY <2>1, RowsStay DEF revokeRefreshToken, Wf
  <2>2. CASE c # NoToken
    <3>1. L \subseteq Used /\ RevokeRows(L, "logout")
      BY <2>2 DEF Used, LiveOf, revokeRefreshToken
    <3> HIDE DEF L
    <3> QED
      BY <3>1, RevokeKeeps DEF Wf
  <2> QED
    BY <2>1, <2>2
<1>4. OnlyMoves(f) /\ job'[f] = [job[f] EXCEPT !.pc = "out"]
  BY DEF revokeRefreshToken, OnlyMoves, Wf, FlightsOK
<1>5. FlightOK(job'[f], row')
  <2>1. FlightOK(job[f], row')
    BY <1>1, <1>3, FlightKept
  <2> QED
    BY <1>1, <1>4, <2>1 DEF FlightOK, FlightType, Pcs
<1>6. FlightsOK' /\ CountOK'
  BY <1>1, <1>3, <1>4, <1>5, FlightSteps DEF revokeRefreshToken, sendVars, Waiting, FlightType
<1>7. CookiesOK' /\ ResetsOK'
  BY <1>3, CookiesStay, ResetsStay DEF revokeRefreshToken, jarVars, Wf
<1>8. /\ forks' \in [Tokens -> Nat] /\ closed' \in SUBSET Tokens
      /\ (closed' = closed \/ (c # NoToken /\ closed' = closed \cup {row[c].root}))
  <2> DEFINE r == row[c].root
  <2>1. forks \in [Tokens -> Nat] /\ closed \in SUBSET Tokens
    BY DEF Wf, TypeOK
  <2>2. \/ forks' = forks /\ closed' = closed
        \/ /\ c # NoToken /\ closed' = closed \cup {r}
           /\ forks' = [forks EXCEPT ![r] = IF row[c].st = "live" THEN @ ELSE @ + 1]
    BY DEF revokeRefreshToken
  <2>3. c # NoToken => r \in Tokens
    BY <1>2
  <2> HIDE DEF r, c
  <2>4. forks' \in [Tokens -> Nat]
    BY <2>1, <2>2, <2>3
  <2> QED
    BY <2>1, <2>2, <2>3, <2>4 DEF r
<1>9. ClosedOK'
  <2>1. closed \subseteq Tokens /\ \A t \in closed : row[t].st # "none"
    BY DEF Wf, TypeOK, ClosedOK
  <2>2. \A t \in closed' : t \in Tokens /\ row[t].st # "none"
    BY <1>2, <1>8, <2>1
  <2> QED
    BY <1>3, <2>2 DEF ClosedOK, Grows
<1>10. TypeOK'
  BY <1>3, <1>6, <1>8 DEF TypeOK, RowsOK, FlightsOK, RowType, FlightType, Wf,
     revokeRefreshToken, jarVars, tabVars, sendVars, sweepVars
<1> QED
  BY <1>3, <1>4, <1>6, <1>7, <1>9, <1>10 DEF Wf

\* The row that createRefreshToken writes for flight f at the free token t.
NewRow(f, t) ==
    LET old == job[f].tok
        rotation == job[f].kind \in Rotations
    IN [st |-> "live", owner |-> job[f].who, by |-> "nothing",
        root |-> IF rotation THEN row[old].root ELSE t,
        gen |-> IF rotation THEN row[old].gen ELSE job[f].seen,
        over |-> \/ rotation /\ row[old].over
                 \/ ~job[f].calm
                 \/ gen[job[f].who] # job[f].seen]

Minted(f, t) ==
    /\ row' = [row EXCEPT ![t] = NewRow(f, t)]
    /\ job' = [job EXCEPT ![f].pc = "granted", ![f].new = t,
                          ![f].seen = 0, ![f].calm = TRUE]

\* There is a free row for every pending request.
LEMMA FreeRow ==
    ASSUME Wf, NEW f \in Flights, job[f].pc \in Waiting PROVE Tokens \ Used # {}
<1>1. Used \in SUBSET Tokens /\ f \in Pending
  BY DEF Used, Pending, Waiting
<1>2. IsFiniteSet(Pending) /\ Cardinality(Used) + Cardinality(Pending) <= MaxRequests
  <2>1. Cardinality(Used) \in Nat /\ IsFiniteSet(Pending) /\ Cardinality(Pending) \in Nat
    BY <1>1, UsedFinite, FS_CardinalityType DEF Wf, CountOK
  <2> QED
    BY <2>1, SessionsConstants DEF Wf, CountOK, TypeOK
<1>3. Cardinality(Pending) \in Nat /\ Cardinality(Pending) # 0
  BY <1>1, <1>2, FS_CardinalityType, FS_EmptySet
<1>4. Cardinality(Tokens) = MaxRequests
  BY SessionsConstants, FS_Interval DEF Tokens
<1>5. Used # Tokens
  BY <1>2, <1>3, <1>4, SessionsConstants
<1> QED
  BY <1>1, <1>5

LEMMA MintIsMinted ==
    ASSUME Wf, NEW f \in Flights, mint(f)
    PROVE  \E t \in Tokens \ Used : Minted(f, t)
<1> DEFINE T == Tokens \ Used
           t == CHOOSE n \in T : \A m \in T : n <= m
<1>1. T # {} /\ T \subseteq Tokens
  BY FreeRow DEF mint, Waiting
<1>2. t \in T
  <2> HIDE DEF T
  <2> QED
    BY <1>1, SmallestToken
<1>3. Minted(f, t)
  BY DEF mint, createRefreshToken, Minted, NewRow
<1> HIDE DEF t
<1> QED
  BY <1>2, <1>3

LEMMA MintKeepsWf ==
    ASSUME Wf, NEW f \in Flights, mint(f), NEW t \in Tokens \ Used, Minted(f, t)
    PROVE  /\ Wf' /\ Grows /\ OnlyMoves(f)
           /\ job'[f] = [job[f] EXCEPT !.pc = "granted", !.new = t, !.seen = 0, !.calm = TRUE]
<1> DEFINE r == NewRow(f, t)
<1>1. job[f] \in FlightType /\ FlightOK(job[f], row) /\ job[f].pc = "mint"
  BY DEF Wf, FlightsOK, mint
<1>2. row[t].st = "none" /\ row[t].root = NoToken
  BY DEF Used, Wf, RowsOK
<1>3. job[f].kind \in Rotations =>
        /\ job[f].tok \in Tokens /\ row[job[f].tok].st # "none"
        /\ row[job[f].tok] \in RowType /\ row[job[f].tok].root \in Tokens
        /\ row[row[job[f].tok].root].st # "none"
        /\ row[row[job[f].tok].root].root = row[job[f].tok].root
  BY <1>1 DEF FlightOK, FlightType, Wf, RowsOK
<1>4. job[f].who \in Users /\ gen[job[f].who] \in Nat /\ job[f].seen \in Nat
  BY <1>1 DEF FlightOK, FlightType, Wf, TypeOK
<1>5. r \in RowType /\ r.st = "live" /\ r.owner \in Users
  <2>1. (IF job[f].kind \in Rotations THEN row[job[f].tok].root ELSE t) \in Tokens
    BY <1>3
  <2>2. (IF job[f].kind \in Rotations THEN row[job[f].tok].gen ELSE job[f].seen) \in Nat
    BY <1>3, <1>4 DEF RowType
  <2>3. (\/ job[f].kind \in Rotations /\ row[job[f].tok].over
         \/ ~job[f].calm
         \/ gen[job[f].who] # job[f].seen) \in BOOLEAN
    OBVIOUS
  <2> QED
    BY <1>4, <2>1, <2>2, <2>3 DEF NewRow, RowType, Accounts
<1>6. \/ r.root = t
      \/ /\ r.root \in Tokens \ {t} /\ row[r.root].st # "none" /\ row[r.root].root = r.root
  BY <1>2, <1>3 DEF NewRow
<1>7. row' \in [Tokens -> RowType] /\ row'[t] = r /\ \A s \in Tokens \ {t} : row'[s] = row[s]
  <2> HIDE DEF r
  <2>1. row' = [row EXCEPT ![t] = r] /\ row \in [Tokens -> RowType]
    BY DEF Minted, Wf, RowsOK, r
  <2> QED
    BY <1>5, <2>1
<1> HIDE DEF r
<1>8. RowsOK'
  <2>1. \A s \in Tokens :
          IF row[s].st = "none" THEN row[s].root = NoToken
          ELSE /\ row[s].owner \in Users /\ row[s].root \in Tokens
               /\ row[row[s].root].st # "none" /\ row[row[s].root].root = row[s].root
    BY DEF Wf, RowsOK
  <2>2. ASSUME NEW s \in Tokens
        PROVE  IF row'[s].st = "none" THEN row'[s].root = NoToken
               ELSE /\ row'[s].owner \in Users /\ row'[s].root \in Tokens
                    /\ row'[row'[s].root].st # "none"
                    /\ row'[row'[s].root].root = row'[s].root
    <3>1. CASE s = t
      BY <1>5, <1>6, <1>7, <3>1
    <3>2. CASE s # t
      <4>1. row'[s] = row[s]
        BY <1>7, <3>2
      <4>2. CASE row[s].st = "none"
        BY <2>1, <4>1, <4>2
      <4>3. CASE row[s].st # "none"
        <5>1. row[s].root \in Tokens \ {t}
          BY <1>2, <2>1, <4>3
        <5> QED
          BY <1>7, <2>1, <4>1, <4>3, <5>1
      <4> QED
        BY <4>2, <4>3
    <3> QED
      BY <3>1, <3>2
  <2> QED
    BY <1>7, <2>2 DEF RowsOK
<1>9. Grows
  BY <1>2, <1>7 DEF Grows
<1>10. /\ OnlyMoves(f)
       /\ job'[f] = [job[f] EXCEPT !.pc = "granted", !.new = t, !.seen = 0, !.calm = TRUE]
  BY DEF Minted, OnlyMoves, Wf, FlightsOK
<1>11. FlightOK(job'[f], row')
  <2>1. FlightOK(job[f], row')
    BY <1>1, <1>9, FlightKept
  <2>2. t \in Tokens /\ row'[t].st # "none" /\ t # NoToken
    BY <1>5, <1>7 DEF Tokens, NoToken
  <2>3. job'[f] \in FlightType /\ job'[f].pc = "granted" /\ job'[f].new = t
    <3>1. [job[f] EXCEPT !.pc = "granted", !.new = t] \in FlightType
      BY <1>1, <2>2 DEF FlightType, Pcs
    <3>2. ASSUME NEW x \in FlightType
          PROVE  [x EXCEPT !.seen = 0, !.calm = TRUE] \in FlightType
      BY DEF FlightType
    <3>3. job'[f] = [[job[f] EXCEPT !.pc = "granted", !.new = t]
                        EXCEPT !.seen = 0, !.calm = TRUE]
      BY <1>10
    <3>4. job'[f].pc = "granted" /\ job'[f].new = t
      BY <1>1, <3>3 DEF FlightType
    <3> QED
      BY <3>1, <3>2, <3>3, <3>4
  <2>4. /\ job'[f].list = job[f].list /\ job'[f].tok = job[f].tok
        /\ job'[f].who = job[f].who /\ job'[f].kind = job[f].kind
    BY <1>1, <1>10 DEF FlightType
  <2> QED
    BY <2>1, <2>2, <2>3, <2>4 DEF FlightOK
<1>12. FlightsOK'
  BY <1>9, <1>10, <1>11, FlightMoves DEF OnlyMoves, Wf
<1>13. CountOK'
  <2>1. Used' = Used \cup {t} /\ t \notin Used /\ Used \in SUBSET Tokens
    BY <1>5, <1>7 DEF Used
  <2>2. Pending' = Pending \ {f} /\ f \in Pending
    BY <1>1, <1>10 DEF Pending, OnlyMoves, FlightType, Wf, FlightsOK
  <2>3. IsFiniteSet(Used) /\ Cardinality(Used) \in Nat /\ IsFiniteSet(Pending)
    BY <2>1, UsedFinite DEF Wf, CountOK
  <2>4. Cardinality(Used') = Cardinality(Used) + 1
    BY <2>1, <2>3, FS_AddElement
  <2>5. /\ Cardinality(Pending') = Cardinality(Pending) - 1
        /\ IsFiniteSet(Pending') /\ Cardinality(Pending) \in Nat
    BY <2>2, <2>3, FS_RemoveElement, FS_CardinalityType
  <2>6. requests' = requests
    BY DEF mint, sendVars
  <2> QED
    BY <2>3, <2>4, <2>5, <2>6 DEF Wf, CountOK
<1>14. CookiesOK' /\ ClosedOK' /\ ResetsOK'
  <2>1. UNCHANGED <<cookie, closed, reset>>
    BY DEF mint, serverVars, jarVars, chainVars, createRefreshToken
  <2> QED
    BY <1>9, <2>1, RestStays
<1>15. TypeOK'
  BY <1>8, <1>12 DEF TypeOK, RowsOK, FlightsOK, RowType, FlightType, Wf,
     mint, jarVars, tabVars, sendVars, sweepVars, chainVars
<1> QED
  BY <1>8, <1>9, <1>10, <1>12, <1>13, <1>14, <1>15 DEF Wf

-----------------------------------------------------------------------------
(* So do the resets, the faults and the browser                             *)

\* A step of the accounts: rows, requests and cookies stay.
LEMMA AccountStepKeepsWf ==
    ASSUME Wf, UNCHANGED <<row, jarOf, cookie, stored, user, recovering, job, requests,
                           tainted, closed, forks>>,
           standing' \in [Users -> {"active", "banned"}],
           reset' \in [Users -> [pc : {"idle", "changed", "listed"}, list : SUBSET Tokens]],
           ResetsOK', gen' \in [Users -> Nat], broken' \in SUBSET Users, faults' \in Nat
    PROVE  Wf'
<1>1. RowsOK' /\ Grows /\ Used' = Used
  BY RowsStay DEF Wf
<1>2. FlightsOK' /\ CookiesOK' /\ ClosedOK'
  BY <1>1, FlightsStay, CookiesStay, ClosedStays DEF Wf
<1>3. CountOK'
  BY <1>1 DEF Wf, CountOK, Pending
<1>4. TypeOK'
  BY DEF Wf, TypeOK
<1> QED
  BY <1>1, <1>2, <1>3, <1>4 DEF Wf

LEMMA AccountsKeepWf ==
    ASSUME Wf, NEW u \in Users,
           \/ resetPassword(u) \/ resetList(u) \/ resetDies(u) \/ banUser(u) \/ unbanUser(u)
    PROVE  Wf'
<1> USE DEF jarVars, tabVars, sendVars, chainVars, sweepVars, serverVars
<1> DEFINE ResetType == [pc : {"idle", "changed", "listed"}, list : SUBSET Tokens]
<1>1. /\ standing \in [Users -> {"active", "banned"}] /\ reset \in [Users -> ResetType]
      /\ gen \in [Users -> Nat] /\ broken \in SUBSET Users /\ faults \in Nat
  BY DEF Wf, TypeOK
<1>2. LiveOf(u) \in SUBSET Tokens /\ \A t \in LiveOf(u) : row[t].st # "none"
  BY DEF LiveOf
<1>3. NoReset \in ResetType
  BY DEF NoReset
<1>4. [pc |-> "listed", list |-> LiveOf(u)] \in ResetType
  BY <1>2
<1>5. reset' \in [Users -> ResetType]
  <2>1. CASE resetPassword(u)
    <3>1. [reset[u] EXCEPT !.pc = "changed"] \in ResetType
      BY <1>1
    <3>2. reset' = [reset EXCEPT ![u] = [reset[u] EXCEPT !.pc = "changed"]]
      BY <2>1 DEF resetPassword
    <3> HIDE DEF ResetType
    <3> QED
      BY <1>1, <3>1, <3>2
  <2>2. CASE resetList(u)
    <3> HIDE DEF ResetType
    <3> QED
      BY <1>1, <1>4, <2>2 DEF resetList
  <2>3. CASE resetDies(u)
    <3> HIDE DEF ResetType
    <3> QED
      BY <1>1, <1>3, <2>3 DEF resetDies
  <2>4. CASE banUser(u) \/ unbanUser(u)
    BY <1>1, <2>4 DEF banUser, unbanUser
  <2> QED
    BY <2>1, <2>2, <2>3, <2>4
<1>6. ResetsOK'
  <2>1. \A v \in Users : \A t \in reset[v].list : row[t].st # "none"
    BY DEF Wf, ResetsOK
  <2>2. row' = row
    BY DEF resetPassword, resetList, resetDies, banUser, unbanUser
  <2>3. ASSUME NEW v \in Users PROVE \A t \in reset'[v].list : row[t].st # "none"
    <3>1. CASE resetPassword(u)
      BY <1>1, <2>1, <3>1 DEF resetPassword
    <3>2. CASE resetList(u)
      BY <1>1, <1>2, <2>1, <3>2 DEF resetList
    <3>3. CASE resetDies(u)
      BY <1>1, <2>1, <3>3 DEF resetDies, NoReset
    <3>4. CASE banUser(u) \/ unbanUser(u)
      BY <2>1, <3>4 DEF banUser, unbanUser
    <3> QED
      BY <3>1, <3>2, <3>3, <3>4
  <2> QED
    BY <2>2, <2>3 DEF ResetsOK
<1>7. /\ standing' \in [Users -> {"active", "banned"}] /\ gen' \in [Users -> Nat]
      /\ broken' \in SUBSET Users /\ faults' \in Nat
  BY <1>1 DEF resetPassword, resetList, resetDies, banUser, unbanUser
<1>8. UNCHANGED <<row, jarOf, cookie, stored, user, recovering, job, requests, tainted,
                  closed, forks>>
  BY DEF resetPassword, resetList, resetDies, banUser, unbanUser
<1> QED
  BY <1>5, <1>6, <1>7, <1>8, AccountStepKeepsWf

LEMMA ResetRevokeKeepsWf ==
    ASSUME Wf, NEW u \in Users, resetRevoke(u) PROVE Wf' /\ Grows
<1> DEFINE L == reset[u].list
           ResetType == [pc : {"idle", "changed", "listed"}, list : SUBSET Tokens]
<1>1. RowsOK' /\ Grows /\ Used' = Used
  <2>1. L \subseteq Used /\ RevokeRows(L, "sweep")
    BY DEF Used, resetRevoke, Wf, ResetsOK, TypeOK
  <2> HIDE DEF L
  <2> QED
    BY <2>1, RevokeKeeps DEF Wf
<1>2. FlightsOK' /\ CookiesOK' /\ ClosedOK'
  BY <1>1, FlightsStay, CookiesStay, ClosedStays DEF Wf, resetRevoke, jarVars, chainVars
<1>3. CountOK'
  BY <1>1 DEF Wf, CountOK, Pending, resetRevoke, sendVars
<1>4. reset' \in [Users -> ResetType] /\ \A v \in Users : reset'[v] \in {reset[v], NoReset}
  <2>1. NoReset \in ResetType /\ reset \in [Users -> ResetType]
    BY DEF NoReset, Wf, TypeOK
  <2> HIDE DEF ResetType
  <2> QED
    BY <2>1 DEF resetRevoke
<1>5. ResetsOK'
  <2>1. \A v \in Users : \A t \in reset[v].list : t \in Tokens /\ row'[t].st # "none"
    BY <1>1 DEF Wf, ResetsOK, TypeOK, Grows
  <2> QED
    BY <1>4, <2>1 DEF ResetsOK, NoReset
<1>6. TypeOK'
  BY <1>1, <1>4 DEF TypeOK, RowsOK, RowType, Wf,
     resetRevoke, jarVars, tabVars, sendVars, sweepVars, chainVars
<1> QED
  BY <1>1, <1>2, <1>3, <1>5, <1>6 DEF Wf

\* A step that only moves one flight, faults, taints or breaks.
LEMMA FaultKeepsWf ==
    ASSUME Wf, UNCHANGED <<row, standing, reset, jarOf, cookie, stored, user, recovering,
                           requests, gen, closed, forks>>,
           NEW f \in Flights, OnlyMoves(f), FlightOK(job'[f], row),
           job'[f].pc \in Waiting => job[f].pc \in Waiting,
           faults' \in Nat, broken' \in SUBSET Users, tainted' \in SUBSET Tokens
    PROVE  Wf'
<1>1. RowsOK' /\ Grows /\ Used' = Used
  BY RowsStay DEF Wf
<1>2. FlightOK(job'[f], row')
  OBVIOUS
<1>3. FlightsOK' /\ CountOK'
  BY <1>1, <1>2, FlightSteps
<1>4. CookiesOK' /\ ClosedOK' /\ ResetsOK'
  BY <1>1, RestStays
<1>5. TypeOK'
  BY <1>1, <1>3 DEF TypeOK, RowsOK, FlightsOK, RowType, FlightType, Wf
<1> QED
  BY <1>1, <1>3, <1>4, <1>5 DEF Wf

LEMMA HandlerFailsKeepsWf ==
    ASSUME Wf, NEW f \in Flights, HandlerFails(f) PROVE Wf'
<1> DEFINE p == IF job[f].kind \in Rotations THEN "denied" ELSE "refused"
<1>1. job[f] \in FlightType /\ FlightOK(job[f], row)
  BY DEF Wf, FlightsOK
<1>2. p \in Pcs /\ p \in {"denied", "refused"} /\ job' = [job EXCEPT ![f].pc = p]
  BY DEF HandlerFails, Pcs
<1> HIDE DEF p
<1>3. OnlyMoves(f) /\ job'[f] = [job[f] EXCEPT !.pc = p]
  BY <1>2 DEF OnlyMoves, Wf, FlightsOK
<1>4. FlightOK(job'[f], row) /\ job'[f].pc \notin Waiting
  BY <1>1, <1>2, <1>3 DEF FlightOK, FlightType, Waiting
<1>5. UNCHANGED <<row, standing, reset, jarOf, cookie, stored, user, recovering, requests,
                  gen, closed, forks, broken, tainted>> /\ faults' = faults + 1
  BY DEF HandlerFails, serverVars, jarVars, tabVars, sendVars, sweepVars, chainVars
<1>6. faults' \in Nat /\ broken' \in SUBSET Users /\ tainted' \in SUBSET Tokens
  BY <1>5 DEF Wf, TypeOK
<1> QED
  BY <1>3, <1>4, <1>5, <1>6, FaultKeepsWf

LEMMA AnswerLostKeepsWf ==
    ASSUME Wf, NEW f \in Flights, AnswerLost(f) PROVE Wf'
<1> DEFINE x == [Idle EXCEPT !.pc = "lost", !.kind = job[f].kind]
<1>1. job[f] \in FlightType /\ FlightOK(job[f], row)
  BY DEF Wf, FlightsOK
<1>2. x \in FlightType /\ FlightOK(x, row) /\ x.pc = "lost"
  <2>1. "lost" \in Pcs /\ job[f].kind \in Kinds /\ Idle \in FlightType
    BY <1>1, IdleOK DEF FlightType, Pcs
  <2>2. x \in FlightType /\ x.pc = "lost" /\ x.tok = Idle.tok /\ x.list = Idle.list
    BY <2>1 DEF FlightType
  <2>3. Idle.tok = NoToken /\ Idle.list = {}
    BY DEF Idle
  <2> QED
    BY <2>2, <2>3 DEF FlightOK
<1> HIDE DEF x
<1>3. job' = [job EXCEPT ![f] = x]
  BY DEF AnswerLost, x
<1>4. OnlyMoves(f) /\ job'[f] = x
  BY <1>3 DEF OnlyMoves, Wf, FlightsOK
<1>5. UNCHANGED <<row, standing, reset, jarOf, cookie, stored, user, recovering, requests,
                  gen, closed, forks>>
  BY DEF AnswerLost, serverVars, jarVars, tabVars, chainVars
<1>6. job[f].pc \in {"alarm", "sweep"} => job[f].who \in Users
  BY <1>1 DEF FlightOK
<1>7. faults' \in Nat /\ broken' \in SUBSET Users /\ tainted' \in SUBSET Tokens
  BY <1>1, <1>6 DEF AnswerLost, Wf, TypeOK, FlightType
<1> QED
  BY <1>2, <1>4, <1>5, <1>7, FaultKeepsWf DEF Waiting

\* The backend and the cookies are not touched by a request that leaves.
SendOnly == UNCHANGED <<row, standing, reset, jarOf, cookie, stored, faults, gen, broken,
                        closed, forks>>

SendKinds == {"refresh", "boot", "connect", "login", "google", "logout"}

\* A request leaves: it carries the cookie of its browser, or none.
Sends(f) ==
    /\ job[f].pc = "idle"
    /\ OnlyMoves(f)
    /\ job'[f].pc = "sent" /\ job'[f] \in FlightType /\ job'[f].list = {}
    /\ job'[f].kind \in {"login", "google"} => job'[f].who \in Users
    /\ job'[f].tok = IF job'[f].kind \in Rotations \cup {"logout"}
                     THEN cookie[JarOfFlight(f)] ELSE NoToken
    /\ requests < MaxRequests /\ requests' = requests + 1
    /\ tainted' = tainted \cup ({job'[f].tok} \cap Carried(JarOfFlight(f)))

LEMMA SendIsSends ==
    ASSUME Wf, NEW f \in Flights, NEW kind \in SendKinds, NEW who \in Accounts,
           kind \in {"login", "google"} => who \in Users, Send(f, kind, who)
    PROVE  Sends(f)
<1> DEFINE c == IF kind \in Rotations \cup {"logout"} THEN cookie[JarOfFlight(f)] ELSE NoToken
           x == [Idle EXCEPT !.pc = "sent", !.kind = kind, !.tok = c, !.who = who]
<1>1. c \in Tokens \cup {NoToken}
  BY DEF Wf, TypeOK, JarOfFlight, Flights
<1> HIDE DEF c
<1>2. Idle \in FlightType /\ "sent" \in Pcs /\ kind \in Kinds /\ who \in Accounts
  BY IdleOK DEF Pcs, Kinds, SendKinds
<1>3. job' = [job EXCEPT ![f] = x]
  BY DEF Send, c
<1>4. OnlyMoves(f) /\ job'[f] = x
  <2> HIDE DEF x
  <2> QED
    BY <1>3 DEF OnlyMoves, Wf, FlightsOK
<1>5. /\ job[f].pc = "idle" /\ requests < MaxRequests /\ requests' = requests + 1
      /\ tainted' = tainted \cup ({c} \cap Carried(JarOfFlight(f)))
  BY DEF Send, TaintIfCarried, c
<1>6. /\ x \in FlightType /\ x.pc = "sent" /\ x.kind = kind /\ x.tok = c /\ x.who = who
      /\ x.list = Idle.list
  BY <1>1, <1>2 DEF FlightType
<1>7. x.list = {}
  BY <1>6 DEF Idle
<1> QED
  BY <1>4, <1>5, <1>6, <1>7 DEF Sends, c

LEMMA SendsKeepsWf ==
    ASSUME Wf, SendOnly, NEW f \in Flights, Sends(f),
           user' \in [Tabs -> Accounts], recovering' \in SUBSET Tabs
    PROVE  Wf'
<1>1. RowsOK' /\ Grows /\ Used' = Used
  BY RowsStay DEF Wf, SendOnly
<1>2. FlightOK(job'[f], row)
  <2>1. /\ job'[f].tok # NoToken =>
             row[job'[f].tok].st # "none" /\ job'[f].kind \in Rotations \cup {"logout"}
    BY DEF Sends, Wf, CookiesOK, JarOfFlight, Flights, TypeOK
  <2> QED
    BY <2>1 DEF Sends, FlightOK
<1>3. FlightsOK'
  BY <1>1, <1>2, FlightMoves DEF Wf, Sends, OnlyMoves, SendOnly
<1>4. CountOK'
  <2>1. Pending' = Pending \cup {f} /\ f \notin Pending
    BY DEF Pending, Sends, OnlyMoves, Wf, FlightsOK
  <2>2. IsFiniteSet(Pending) /\ Cardinality(Pending) \in Nat
    BY FS_CardinalityType DEF Wf, CountOK
  <2>3. Cardinality(Pending') = Cardinality(Pending) + 1 /\ IsFiniteSet(Pending')
    BY <2>1, <2>2, FS_AddElement
  <2>4. Used \in SUBSET Tokens
    BY DEF Used
  <2>5. Cardinality(Used) \in Nat
    BY <2>4, UsedFinite
  <2> QED
    BY <1>1, <2>2, <2>3, <2>5, SessionsConstants DEF Wf, CountOK, Sends, TypeOK
<1>5. CookiesOK' /\ ClosedOK' /\ ResetsOK'
  BY <1>1, RestStays DEF SendOnly
<1>6. requests' \in Nat /\ tainted' \in SUBSET Tokens
  <2>1. Carried(JarOfFlight(f)) \subseteq Tokens
    BY DEF Carried, Flying, Busy, Wf, TypeOK
  <2> QED
    BY <2>1 DEF Sends, Wf, TypeOK
<1>7. TypeOK'
  BY <1>1, <1>3, <1>6 DEF TypeOK, RowsOK, FlightsOK, RowType, FlightType, Wf, SendOnly
<1> QED
  BY <1>1, <1>3, <1>4, <1>5, <1>7 DEF Wf

\* The steps of a tab by which a request leaves.
Starts(t) ==
    \/ authLink(t) \/ errorLink(t)
    \/ \E u \in Users : signIn(t, u, "login") \/ signIn(t, u, "google")
    \/ logout(t) \/ restoreSession(t) \/ connectAccount(t)

\* Nothing leaves, or one request does.
LEMMA StartsSend ==
    ASSUME Wf, NEW t \in Tabs, Starts(t)
    PROVE  /\ SendOnly
           /\ user' \in [Tabs -> Accounts] /\ recovering' \in SUBSET Tabs
           /\ (UNCHANGED <<job, requests, tainted>> \/ \E f \in Flights : Sends(f))
<1> USE DEF serverVars, jarVars, tabVars, sendVars, chainVars, sweepVars
<1>1. <<t, "refresh">> \in Flights /\ <<t, "user">> \in Flights
  BY DEF Flights, Lanes
<1>2. /\ user \in [Tabs -> Accounts] /\ recovering \in SUBSET Tabs
      /\ stored[jarOf[t]] \in Accounts /\ NoOne \in Accounts /\ user[t] \in Accounts
  BY DEF Wf, TypeOK, Accounts
<1>3. CASE authLink(t) \/ errorLink(t)
  <2>1. (UNCHANGED <<job, requests, tainted>>) \/ Send(<<t, "refresh">>, "refresh", NoOne)
    BY <1>3 DEF authLink, errorLink, getOrCreateRefreshPromise
  <2>2. Send(<<t, "refresh">>, "refresh", NoOne) => Sends(<<t, "refresh">>)
    BY <1>1, <1>2, SendIsSends DEF SendKinds
  <2> QED
    BY <1>1, <1>2, <1>3, <2>1, <2>2 DEF authLink, errorLink, SendOnly
<1>4. CASE \E u \in Users : signIn(t, u, "login") \/ signIn(t, u, "google")
  <2>1. PICK u \in Users : signIn(t, u, "login") \/ signIn(t, u, "google")
    BY <1>4
  <2>2. PICK k \in {"login", "google"} : Send(<<t, "user">>, k, u)
    BY <2>1 DEF signIn
  <2>3. Sends(<<t, "user">>)
    BY <1>1, <2>2, SendIsSends DEF SendKinds, Accounts
  <2> QED
    BY <1>1, <1>2, <2>1, <2>3 DEF signIn, SendOnly
<1>5. CASE logout(t)
  <2>1. Sends(<<t, "user">>)
    BY <1>1, <1>2, <1>5, SendIsSends DEF SendKinds, logout
  <2> QED
    BY <1>1, <1>2, <1>5, <2>1 DEF logout, SendOnly
<1>6. CASE connectAccount(t)
  <2>1. Sends(<<t, "user">>)
    BY <1>1, <1>2, <1>6, SendIsSends DEF SendKinds, connectAccount
  <2> QED
    BY <1>1, <1>2, <1>6, <2>1 DEF connectAccount, SendOnly
<1>7. CASE restoreSession(t)
  <2>1. (UNCHANGED <<job, requests, tainted>>) \/ Send(<<t, "user">>, "boot", NoOne)
    BY <1>7 DEF restoreSession
  <2>2. Send(<<t, "user">>, "boot", NoOne) => Sends(<<t, "user">>)
    BY <1>1, <1>2, SendIsSends DEF SendKinds
  <2> QED
    BY <1>1, <1>2, <1>7, <2>1, <2>2 DEF restoreSession, PageLoads, SendOnly
<1> QED
  BY <1>3, <1>4, <1>5, <1>6, <1>7 DEF Starts

LEMMA StartsKeepWf ==
    ASSUME Wf, NEW t \in Tabs, Starts(t) PROVE Wf'
<1>1. CASE \E f \in Flights : Sends(f)
  BY <1>1, StartsSend, SendsKeepsWf
<1>2. CASE UNCHANGED <<job, requests, tainted>>
  <2>1. RowsOK' /\ Grows /\ Used' = Used
    BY RowsStay, StartsSend DEF Wf, SendOnly
  <2>2. FlightsOK' /\ CookiesOK' /\ ClosedOK' /\ ResetsOK'
    BY <1>2, <2>1, StartsSend, FlightsStay, RestStays DEF Wf, SendOnly
  <2>3. CountOK'
    BY <1>2, <2>1 DEF Wf, CountOK, Pending
  <2>4. TypeOK'
    BY <1>2, StartsSend DEF Wf, TypeOK, SendOnly
  <2> QED
    BY <2>1, <2>2, <2>3, <2>4 DEF Wf
<1> QED
  BY <1>1, <1>2, StartsSend

\* The answer of a flight arrives: its cookie is kept, cleared or replaced.
Arrives(f) ==
    /\ job' = [job EXCEPT ![f] = Idle]
    /\ \/ job[f].pc \in {"missing", "lost", "refused"} /\ cookie' = cookie
       \/ /\ job[f].pc \in {"denied", "out"}
          /\ cookie' = [cookie EXCEPT ![JarOfFlight(f)] = NoToken]
       \/ /\ job[f].pc = "granted"
          /\ cookie' = [cookie EXCEPT ![JarOfFlight(f)] = job[f].new]

\* The steps of a tab that take an answer.
Takes(t) ==
    refreshGranted(t) \/ refreshFailed(t) \/ userGranted(t) \/ userFailed(t) \/ loggedOut(t)

LEMMA TakesArrive ==
    ASSUME Wf, NEW t \in Tabs, Takes(t)
    PROVE  /\ \E f \in Flights : Arrives(f)
           /\ UNCHANGED <<row, standing, reset, jarOf, requests, tainted, faults, gen, broken,
                          closed, forks>>
           /\ user' \in [Tabs -> Accounts] /\ stored' \in [Jars -> Accounts]
           /\ recovering' \in SUBSET Tabs
<1> USE DEF serverVars, jarVars, tabVars, sendVars, chainVars, sweepVars
<1>1. <<t, "refresh">> \in Flights /\ <<t, "user">> \in Flights
  BY DEF Flights, Lanes
<1>2. /\ user \in [Tabs -> Accounts] /\ recovering \in SUBSET Tabs
      /\ stored \in [Jars -> Accounts] /\ jarOf[t] \in Jars
      /\ NoOne \in Accounts /\ user[t] \in Accounts
  BY DEF Wf, TypeOK, Accounts
<1>3. \A a \in Accounts : Shows(t, a) =>
         user' \in [Tabs -> Accounts] /\ stored' \in [Jars -> Accounts]
  BY <1>2 DEF Shows
<1>4. CASE refreshGranted(t)
  <2>1. Arrives(<<t, "refresh">>)
    BY <1>4 DEF refreshGranted, Arrives, setAuthCookies
  <2> QED
    BY <1>1, <1>2, <1>3, <1>4, <2>1 DEF refreshGranted
<1>5. CASE refreshFailed(t)
  <2>1. Arrives(<<t, "refresh">>)
    BY <1>5 DEF refreshFailed, Arrives, DropCookie
  <2> QED
    BY <1>1, <1>2, <1>3, <1>5, <2>1 DEF refreshFailed
<1>6. CASE userGranted(t)
  <2>1. Arrives(<<t, "user">>)
    BY <1>6 DEF userGranted, Arrives, setAuthCookies
  <2>2. PICK a \in {job[<<t, "user">>].who, user[t]} : Shows(t, a)
    BY <1>6 DEF userGranted
  <2>3. a \in Accounts
    BY <1>1, <1>2, <2>2 DEF Wf, TypeOK
  <2> QED
    BY <1>1, <1>2, <1>3, <1>6, <2>1, <2>2, <2>3 DEF userGranted
<1>7. CASE userFailed(t)
  <2>1. Arrives(<<t, "user">>)
    BY <1>7 DEF userFailed, Arrives, DropCookie
  <2> QED
    BY <1>1, <1>2, <1>3, <1>7, <2>1 DEF userFailed
<1>8. CASE loggedOut(t)
  <2>1. JarOfFlight(<<t, "user">>) = jarOf[t]
    BY DEF JarOfFlight
  <2>2. Arrives(<<t, "user">>)
    BY <1>8, <2>1 DEF loggedOut, Arrives
  <2> QED
    BY <1>1, <1>2, <1>3, <1>8, <2>2 DEF loggedOut
<1> QED
  BY <1>4, <1>5, <1>6, <1>7, <1>8 DEF Takes

LEMMA TakesKeepWf ==
    ASSUME Wf, NEW t \in Tabs, Takes(t) PROVE Wf'
<1>1. PICK f \in Flights : Arrives(f)
  BY TakesArrive
<1>2. UNCHANGED <<row, standing, reset, jarOf, requests, tainted, faults, gen, broken,
                  closed, forks>>
  BY TakesArrive
<1>3. RowsOK' /\ Grows /\ Used' = Used
  BY <1>2, RowsStay DEF Wf
<1>4. OnlyMoves(f) /\ job'[f] = Idle
  BY <1>1 DEF Arrives, OnlyMoves, Wf, FlightsOK
<1>5. FlightOK(job'[f], row') /\ job'[f].pc \notin Waiting
  BY <1>2, <1>4, IdleOK DEF Idle, Waiting
<1>6. FlightsOK' /\ CountOK'
  BY <1>2, <1>3, <1>4, <1>5, FlightSteps
<1>7. ClosedOK' /\ ResetsOK'
  BY <1>2, <1>3, ClosedStays, ResetsStay DEF Wf
<1>8. JarOfFlight(f) \in Jars
  BY DEF JarOfFlight, Flights, Wf, TypeOK
<1>9. job[f].pc = "granted" => job[f].new \in Tokens /\ row[job[f].new].st # "none"
  BY DEF Wf, FlightsOK, FlightOK, FlightType
<1>10. cookie' \in [Jars -> Tokens \cup {NoToken}]
  BY <1>1, <1>8, <1>9 DEF Arrives, Wf, TypeOK
<1>11. CookiesOK'
  BY <1>1, <1>2, <1>8, <1>9 DEF Arrives, Wf, TypeOK, CookiesOK
<1>12. TypeOK'
  BY <1>2, <1>3, <1>6, <1>10, TakesArrive DEF TypeOK, RowsOK, FlightsOK, RowType, FlightType, Wf
<1> QED
  BY <1>3, <1>6, <1>7, <1>11, <1>12 DEF Wf

-----------------------------------------------------------------------------
(* Type correctness                                                         *)

LEMMA InitIsWf == Init => Wf
<1> SUFFICES ASSUME Init PROVE Wf
  OBVIOUS
<1>1. NoRow \in RowType /\ NoRow.st = "none" /\ NoRow.root = NoToken
  BY DEF NoRow, RowType, Accounts, NoToken
<1>2. RowsOK
  BY <1>1 DEF Init, RowsOK
<1>3. FlightsOK
  BY IdleOK DEF Init, FlightsOK
<1>4. CookiesOK /\ ClosedOK /\ ResetsOK
  BY DEF Init, CookiesOK, ClosedOK, ResetsOK, NoReset
<1>5. Used = {} /\ Pending = {}
  BY <1>1 DEF Init, Used, Pending, Idle
<1>6. CountOK
  BY <1>5, FS_EmptySet, SessionsConstants DEF CountOK, Init
<1>7. TypeOK
  BY <1>2, <1>3 DEF Init, TypeOK, RowsOK, FlightsOK, RowType, FlightType, NoReset, NoToken,
     Accounts
<1> QED
  BY <1>2, <1>3, <1>4, <1>6, <1>7 DEF Wf

LEMMA StepKeepsWf == Wf /\ [Next]_vars => Wf'
<1> SUFFICES ASSUME Wf, [Next]_vars PROVE Wf'
  OBVIOUS
<1>1. ASSUME NEW f \in Flights, HandlerStep(f) \/ HandlerFails(f) \/ AnswerLost(f) PROVE Wf'
  <2>1. CASE mint(f)
    BY <2>1, MintIsMinted, MintKeepsWf
  <2> QED
    BY <1>1, <2>1, ReadKeepsWf, ExpiredKeepsWf, RotateKeepsWf, AlarmListKeepsWf, AlarmRevokeKeepsWf,
       SignInKeepsWf, LogoutRevokesKeepsWf, HandlerFailsKeepsWf, AnswerLostKeepsWf
       DEF HandlerStep
<1>2. ASSUME NEW t \in Tabs, TabStep(t) PROVE Wf'
  BY <1>2, StartsKeepWf, TakesKeepWf DEF TabStep, Starts, Takes
<1>3. ASSUME NEW u \in Users, \/ resetPassword(u) \/ resetList(u) \/ resetRevoke(u)
                              \/ resetDies(u) \/ banUser(u) \/ unbanUser(u)
      PROVE  Wf'
  BY <1>3, AccountsKeepWf, ResetRevokeKeepsWf
<1>4. CASE UNCHANGED vars
  <2> USE DEF vars, serverVars, jarVars, tabVars, sendVars, chainVars, sweepVars
  <2>1. RowsOK' /\ Grows /\ Used' = Used
    BY <1>4, RowsStay DEF Wf
  <2>2. FlightsOK' /\ CookiesOK' /\ ClosedOK' /\ ResetsOK'
    BY <1>4, <2>1, FlightsStay, RestStays DEF Wf
  <2> QED
    BY <1>4, <2>1, <2>2 DEF Wf, TypeOK, CountOK, Pending
<1> QED
  BY <1>1, <1>2, <1>3, <1>4 DEF Next

\* Whatever the accounts, browsers, tabs and bounds, the rows of the table, the
\* requests, the cookies and the tabs have their types (the refresh_tokens
\* table of auth.service.ts and the store of the browser).
THEOREM TypeCorrect == Spec => []TypeOK
<1>1. Spec => []Wf
  BY InitIsWf, StepKeepsWf, PTL DEF Spec
<1>2. Wf => TypeOK
  BY DEF Wf
<1> QED
  BY <1>1, <1>2, PTL

-----------------------------------------------------------------------------
(* A sweep ends the sessions that are older than it                         *)

SweepInv == OldIsCovered /\ ReadIsCurrent

\* No row becomes live, and the sweeps begun stay.
NothingRevives ==
    /\ \A t \in Tokens : row'[t].st = "live" => row[t].st = "live"
    /\ gen' = gen /\ broken \subseteq broken'

\* A rotation of g that has read its token had read it before.
ReadBefore(g) ==
    (job'[g].pc \in {"rotate", "mint"} /\ job'[g].kind \in Rotations /\ job'[g].calm)
      => /\ job[g].pc \in {"rotate", "mint"} /\ job[g].kind \in Rotations /\ job[g].calm
         /\ job'[g].tok = job[g].tok /\ job'[g].seen = job[g].seen /\ job'[g].who = job[g].who

LEMMA CoverageStays ==
    ASSUME Wf, SweepInv, Grows, NothingRevives,
           \A t \in Tokens : row'[t].st = "live" /\ Covered(t)
                              => Covered(t)' \/ row[t].owner \in broken'
    PROVE  OldIsCovered'
<1> SUFFICES ASSUME NEW t \in Tokens, row'[t].st = "live", row'[t].gen < gen'[row'[t].owner]
             PROVE  row'[t].over \/ Covered(t)' \/ row'[t].owner \in broken'
  BY DEF OldIsCovered
<1>1. row[t].st = "live" /\ gen' = gen /\ broken \subseteq broken'
  BY DEF NothingRevives
<1>2. row'[t].owner = row[t].owner /\ row'[t].gen = row[t].gen /\ row'[t].over = row[t].over
  BY <1>1 DEF Grows
<1>3. row[t].over \/ Covered(t) \/ row[t].owner \in broken
  BY <1>1, <1>2 DEF SweepInv, OldIsCovered
<1> QED
  BY <1>1, <1>2, <1>3

LEMMA ReadStays ==
    ASSUME Wf, SweepInv, Grows, broken \subseteq broken', NEW g \in Flights, ReadBefore(g),
           job'[g].pc \in {"rotate", "mint"}, job'[g].kind \in Rotations, job'[g].calm
    PROVE  \/ job'[g].seen <= row'[job'[g].tok].gen
           \/ row'[job'[g].tok].over
           \/ job'[g].who \in broken'
<1>1. job[g].tok \in Tokens /\ row[job[g].tok].st # "none"
  BY DEF Wf, FlightsOK, FlightOK, FlightType, ReadBefore
<1>2. /\ row'[job[g].tok].gen = row[job[g].tok].gen
      /\ row'[job[g].tok].over = row[job[g].tok].over
  BY <1>1 DEF Grows
<1> QED
  BY <1>2 DEF ReadBefore, SweepInv, ReadIsCurrent

\* A step of one flight that is not part of a sweep.
LEMMA QuietFlight ==
    ASSUME Wf, SweepInv, Grows, NothingRevives, UNCHANGED reset,
           NEW f \in Flights, OnlyMoves(f), ReadBefore(f), job[f].pc \notin {"alarm", "sweep"}
    PROVE  SweepInv'
<1>1. \A g \in Flights \ {f} : job'[g] = job[g]
  BY DEF OnlyMoves, Wf, FlightsOK
<1>2. OldIsCovered'
  <2>1. ASSUME NEW t \in Tokens, row'[t].st = "live", Covered(t) PROVE Covered(t)'
    <3>1. row'[t].owner = row[t].owner
      BY <2>1 DEF Grows, NothingRevives
    <3> QED
      BY <1>1, <2>1, <3>1 DEF Covered
  <2> QED
    BY <2>1, CoverageStays
<1>3. ReadIsCurrent'
  <2>1. \A g \in Flights : ReadBefore(g)
    BY <1>1 DEF ReadBefore
  <2> QED
    BY <2>1, ReadStays DEF ReadIsCurrent, NothingRevives
<1> QED
  BY <1>2, <1>3 DEF SweepInv

\* A step in which no flight moves.
LEMMA QuietAccount ==
    ASSUME Wf, SweepInv, Grows, NothingRevives, UNCHANGED job,
           \A t \in Tokens : row'[t].st = "live" /\ Covered(t)
                              => Covered(t)' \/ row[t].owner \in broken'
    PROVE  SweepInv'
<1>1. OldIsCovered'
  BY CoverageStays
<1>2. \A g \in Flights : ReadBefore(g)
  BY DEF ReadBefore
<1>3. ReadIsCurrent'
  BY <1>2, ReadStays DEF ReadIsCurrent, NothingRevives
<1> QED
  BY <1>1, <1>3 DEF SweepInv

\* A revocation revives nothing, and the rows of its list are not live.
LEMMA RevokeRevivesNone ==
    ASSUME Wf, NEW list, NEW why, RevokeRows(list, why)
    PROVE  \A t \in Tokens : row'[t].st = "live" => row[t].st = "live" /\ t \notin list
<1> SUFFICES ASSUME NEW t \in Tokens, row'[t].st = "live"
             PROVE  row[t].st = "live" /\ t \notin list
  OBVIOUS
<1>1. row[t] \in RowType
  BY DEF Wf, RowsOK
<1>2. t \in list => row'[t].st = "revoked"
  BY <1>1 DEF RevokeRows, RowType
<1>3. t \notin list => row'[t] = row[t]
  BY DEF RevokeRows
<1> QED
  BY <1>2, <1>3

LEMMA ReadKeepsSweeps ==
    ASSUME Wf, SweepInv, NEW f \in Flights, refreshAccessTokenRead(f) PROVE SweepInv'
<1> DEFINE c == job[f].tok
           u == row[c].owner
<1>1. row' = row /\ reset' = reset /\ broken' = broken
  BY DEF refreshAccessTokenRead, serverVars
<1>2. Grows
  BY <1>1, RowsStay DEF Wf
<1>3. job[f] \in FlightType /\ FlightOK(job[f], row) /\ job[f].pc = "sent" /\ job[f].kind \in Rotations
  BY DEF Wf, FlightsOK, refreshAccessTokenRead
<1>4. OnlyMoves(f) /\ \A g \in Flights \ {f} : job'[g] = job[g]
  BY DEF refreshAccessTokenRead, OnlyMoves, Wf, FlightsOK
<1>5. CASE /\ \/ job' = [job EXCEPT ![f].pc = "missing"]
              \/ job' = [job EXCEPT ![f].pc = "denied"]
           /\ gen' = gen
  <2>1. job'[f].pc \in {"missing", "denied"}
    BY <1>3, <1>5 DEF Wf, FlightsOK, FlightType
  <2>3. ReadBefore(f) /\ NothingRevives
    BY <1>1, <1>5, <2>1 DEF ReadBefore, NothingRevives
  <2> QED
    BY <1>1, <1>2, <1>3, <1>4, <2>3, QuietFlight
<1>6. CASE /\ c # NoToken /\ gen' = [gen EXCEPT ![u] = @ + 1]
           /\ job' = [job EXCEPT ![f].pc = "alarm", ![f].who = u]
  <2>1. c \in Tokens /\ u \in Users
    BY <1>3, <1>6 DEF FlightOK, FlightType, Wf, RowsOK
  <2>2. job'[f].pc = "alarm" /\ job'[f].who = u
    BY <1>3, <1>6 DEF Wf, FlightsOK, FlightType
  <2> HIDE DEF u, c
  <2>3. \A v \in Users \ {u} : gen'[v] = gen[v]
    BY <1>6, <2>1 DEF Wf, TypeOK
  <2>4. ASSUME NEW t \in Tokens, row[t].st = "live", row[t].gen < gen'[row[t].owner]
        PROVE  row[t].over \/ Covered(t)' \/ row[t].owner \in broken
    <3>1. CASE row[t].owner = u
      BY <1>1, <2>2, <3>1 DEF Covered
    <3>2. CASE row[t].owner # u
      <4>1. row[t].owner \in Users
        BY <2>4 DEF Wf, RowsOK
      <4>2. row[t].over \/ Covered(t) \/ row[t].owner \in broken
        BY <2>3, <2>4, <3>2, <4>1 DEF SweepInv, OldIsCovered
      <4>3. Covered(t) => Covered(t)'
        BY <1>1, <1>3, <1>4 DEF Covered
      <4> QED
        BY <4>2, <4>3
    <3> QED
      BY <3>1, <3>2
  <2>5. OldIsCovered'
    BY <1>1, <2>4 DEF OldIsCovered
  <2>6. \A g \in Flights : ReadBefore(g)
    BY <1>4, <2>2 DEF ReadBefore
  <2>7. ReadIsCurrent'
    BY <1>1, <1>2, <2>6, ReadStays DEF ReadIsCurrent
  <2> QED
    BY <2>5, <2>7 DEF SweepInv
<1>7. CASE /\ c # NoToken /\ row[c].st = "live" /\ gen' = gen
           /\ job' = [job EXCEPT ![f].pc = "rotate", ![f].who = u,
                                 ![f].seen = gen[u], ![f].calm = ~Sweeping(u)]
  <2>1. c \in Tokens /\ u \in Users /\ row[c].gen \in Nat
    BY <1>3, <1>7 DEF FlightOK, FlightType, Wf, RowsOK, RowType
  <2>2. gen[u] \in Nat
    BY <2>1 DEF Wf, TypeOK
  <2> HIDE DEF u
  <2>3. job'[f] = [job[f] EXCEPT !.pc = "rotate", !.who = u, !.seen = gen[u], !.calm = ~Sweeping(u)]
    BY <1>7 DEF Wf, FlightsOK
  <2>4. /\ job'[f].tok = c /\ job'[f].who = u /\ job'[f].seen = gen[u]
        /\ job'[f].calm = ~Sweeping(u)
    BY <1>3, <2>3 DEF FlightType
  <2>5. OldIsCovered'
    <3>1. ASSUME NEW t \in Tokens, Covered(t) PROVE Covered(t)'
      BY <1>1, <1>3, <1>4, <3>1 DEF Covered
    <3> QED
      BY <1>1, <1>2, <1>7, <3>1, CoverageStays DEF NothingRevives
  <2>6. ASSUME ~Sweeping(u) PROVE gen[u] <= row[c].gen \/ row[c].over \/ u \in broken
    <3>1. ~Covered(c)
      BY <2>6 DEF Covered, Sweeping, u
    <3> QED
      BY <1>7, <2>1, <2>2, <3>1 DEF SweepInv, OldIsCovered, u
  <2>7. ASSUME NEW g \in Flights \ {f} PROVE ReadBefore(g)
    BY <1>4 DEF ReadBefore
  <2>8. ReadIsCurrent'
    BY <1>1, <1>2, <2>4, <2>6, <2>7, ReadStays DEF ReadIsCurrent
  <2> QED
    BY <2>5, <2>8 DEF SweepInv
<1> QED
  BY <1>5, <1>6, <1>7 DEF refreshAccessTokenRead

\* The steps of a flight that read nothing of a session and belong to no sweep.
LEMMA OtherFlightStepsKeepSweeps ==
    ASSUME Wf, SweepInv, NEW f \in Flights,
           \/ refreshExpired(f) \/ rotateWrite(f) \/ loginRead(f) \/ googleAuthCallback(f)
           \/ revokeRefreshToken(f) \/ HandlerFails(f)
    PROVE  SweepInv'
<1> USE DEF serverVars, jarVars, tabVars, sendVars, chainVars, sweepVars
<1>1. job[f] \in FlightType /\ FlightOK(job[f], row) /\ job \in [Flights -> FlightType]
  BY DEF Wf, FlightsOK
<1>2. gen' = gen /\ broken' = broken /\ reset' = reset
  BY DEF refreshExpired, rotateWrite, loginRead, googleAuthCallback, revokeRefreshToken, HandlerFails
<1>3. job[f].pc \notin {"alarm", "sweep"}
  BY DEF refreshExpired, rotateWrite, loginRead, googleAuthCallback, revokeRefreshToken, HandlerFails
<1>4. OnlyMoves(f)
  BY <1>1 DEF OnlyMoves, SignsIn,
     refreshExpired, rotateWrite, loginRead, googleAuthCallback, revokeRefreshToken, HandlerFails
<1>5. Grows
  <2>1. row' = row => Grows
    BY RowsStay DEF Wf
  <2> QED
    BY <2>1, RotateKeepsWf, LogoutRevokesKeepsWf
       DEF refreshExpired, loginRead, googleAuthCallback, HandlerFails
<1>6. \A t \in Tokens : row'[t].st = "live" => row[t].st = "live"
  BY RevokeRevivesNone
     DEF refreshExpired, rotateWrite, loginRead, googleAuthCallback, revokeRefreshToken, HandlerFails
<1>7. ReadBefore(f)
  <2>1. CASE rotateWrite(f)
    <3>1. job'[f] = [job[f] EXCEPT !.pc = "mint"] /\ job[f].pc = "rotate"
      BY <2>1, RotateKeepsWf DEF rotateWrite
    <3> QED
      BY <1>1, <3>1 DEF ReadBefore, FlightType
  <2>2. CASE loginRead(f) \/ googleAuthCallback(f)
    <3>1. job[f].kind \notin Rotations
      BY <2>2 DEF loginRead, googleAuthCallback, Rotations
    <3>2. job'[f].kind = job[f].kind
      BY <1>1, <2>2 DEF loginRead, googleAuthCallback, SignsIn, FlightType
    <3> QED
      BY <3>1, <3>2 DEF ReadBefore
  <2>3. CASE refreshExpired(f) \/ revokeRefreshToken(f) \/ HandlerFails(f)
    <3>1. job'[f].pc \in {"denied", "out", "refused"}
      BY <1>1, <2>3 DEF refreshExpired, revokeRefreshToken, HandlerFails, FlightType
    <3> QED
      BY <3>1 DEF ReadBefore
  <2> QED
    BY <2>1, <2>2, <2>3
<1> QED
  BY <1>2, <1>3, <1>4, <1>5, <1>6, <1>7, QuietFlight DEF NothingRevives

LEMMA MintKeepsSweeps ==
    ASSUME Wf, SweepInv, NEW f \in Flights, mint(f) PROVE SweepInv'
<1>1. PICK t \in Tokens \ Used : Minted(f, t)
  BY MintIsMinted
<1> DEFINE r == NewRow(f, t)
           u == job[f].who
<1>2. /\ Wf' /\ Grows /\ OnlyMoves(f)
      /\ job'[f] = [job[f] EXCEPT !.pc = "granted", !.new = t, !.seen = 0, !.calm = TRUE]
  BY <1>1, MintKeepsWf
<1>3. job[f] \in FlightType /\ FlightOK(job[f], row) /\ job[f].pc = "mint"
  BY DEF Wf, FlightsOK, mint
<1>4. reset' = reset /\ gen' = gen /\ broken' = broken
  BY DEF mint, sweepVars
<1>5. row'[t] = r /\ \A s \in Tokens \ {t} : row'[s] = row[s]
  BY <1>1 DEF Minted, Wf, RowsOK
<1>6. r.owner = u
  BY DEF NewRow
<1>7. u \in Users /\ gen[u] \in Nat /\ job[f].seen \in Nat
  BY <1>3 DEF FlightOK, FlightType, Wf, TypeOK
<1>8. r.gen < gen[u] => r.over \/ u \in broken
  <2>1. CASE job[f].kind \in Rotations
    <3>1. r.gen = row[job[f].tok].gen
      BY <2>1 DEF NewRow
    <3>2. row[job[f].tok].over \/ ~job[f].calm \/ gen[u] # job[f].seen => r.over
      BY <2>1 DEF NewRow
    <3>3. job[f].calm => \/ job[f].seen <= row[job[f].tok].gen
                        \/ row[job[f].tok].over \/ u \in broken
      BY <1>3, <2>1 DEF SweepInv, ReadIsCurrent
    <3>4. row[job[f].tok].gen \in Nat
      BY <1>3, <2>1 DEF FlightOK, FlightType, Wf, RowsOK, RowType
    <3> HIDE DEF r, u
    <3> QED
      BY <1>7, <3>1, <3>2, <3>3, <3>4
  <2>2. CASE job[f].kind \notin Rotations
    <3>1. r.gen = job[f].seen /\ (gen[u] # job[f].seen => r.over)
      BY <2>2 DEF NewRow
    <3> HIDE DEF r, u
    <3> QED
      BY <1>7, <3>1
  <2> QED
    BY <2>1, <2>2
<1> HIDE DEF r, u
<1>9. \A g \in Flights \ {f} : job'[g] = job[g]
  BY <1>2 DEF OnlyMoves, Wf, FlightsOK
<1>10. OldIsCovered'
  <2> SUFFICES ASSUME NEW s \in Tokens, row'[s].st = "live", row'[s].gen < gen'[row'[s].owner]
               PROVE  row'[s].over \/ Covered(s)' \/ row'[s].owner \in broken'
    BY DEF OldIsCovered
  <2>1. CASE s = t
    BY <1>4, <1>5, <1>6, <1>8, <2>1
  <2>2. CASE s # t
    <3>1. row'[s] = row[s]
      BY <1>5, <2>2
    <3>2. row[s].over \/ Covered(s) \/ row[s].owner \in broken
      BY <1>4, <3>1 DEF SweepInv, OldIsCovered
    <3>3. Covered(s) => Covered(s)'
      BY <1>3, <1>4, <1>9, <3>1 DEF Covered
    <3> QED
      BY <1>4, <3>1, <3>2, <3>3
  <2> QED
    BY <2>1, <2>2
<1>11. ReadIsCurrent'
  <2>1. job'[f].pc = "granted"
    BY <1>2, <1>3 DEF FlightType
  <2>2. \A g \in Flights : ReadBefore(g)
    BY <1>9, <2>1 DEF ReadBefore
  <2> QED
    BY <1>2, <1>4, <2>2, ReadStays DEF ReadIsCurrent
<1> QED
  BY <1>10, <1>11 DEF SweepInv

\* The sweep of a reuse alarm: it lists every row it must revoke, then
\* revokes them, or dies and leaves the account broken.
LEMMA AlarmKeepsSweeps ==
    ASSUME Wf, SweepInv, NEW f \in Flights, alarmList(f) \/ alarmRevoke(f) \/ AnswerLost(f)
    PROVE  SweepInv'
<1> USE DEF serverVars, jarVars, tabVars, sendVars, chainVars, sweepVars
<1> DEFINE u == job[f].who
<1>1. job[f] \in FlightType /\ FlightOK(job[f], row) /\ job \in [Flights -> FlightType]
  BY DEF Wf, FlightsOK
<1>2. gen' = gen /\ reset' = reset /\ broken \subseteq broken'
  BY DEF alarmList, alarmRevoke, AnswerLost
<1>3. OnlyMoves(f)
  BY <1>1 DEF OnlyMoves, alarmList, alarmRevoke, AnswerLost
<1>4. \A g \in Flights \ {f} : job'[g] = job[g]
  BY <1>1, <1>3 DEF OnlyMoves
<1>5. Grows
  <2>1. row' = row => Grows
    BY RowsStay DEF Wf
  <2> QED
    BY <2>1, AlarmRevokeKeepsWf DEF alarmList, AnswerLost
<1>6. \A t \in Tokens : row'[t].st = "live" => row[t].st = "live"
  BY RevokeRevivesNone DEF alarmList, alarmRevoke, AnswerLost
<1>7. NothingRevives
  BY <1>2, <1>6 DEF NothingRevives
<1>8. job'[f].pc \in {"sweep", "denied", "lost"}
  <2>1. alarmList(f) => job'[f].pc = "sweep"
    BY <1>1 DEF alarmList, FlightType
  <2>2. alarmRevoke(f) => job'[f].pc = "denied"
    BY <1>1 DEF alarmRevoke, FlightType
  <2>3. AnswerLost(f) => job'[f].pc = "lost"
    BY <1>1 DEF AnswerLost, Idle
  <2> QED
    BY <2>1, <2>2, <2>3
<1>9. ASSUME NEW t \in Tokens, row'[t].st = "live", Covered(t)
      PROVE  Covered(t)' \/ row[t].owner \in broken'
  <2>1. row'[t].owner = row[t].owner /\ row[t].st = "live"
    BY <1>5, <1>6, <1>9 DEF Grows
  <2>2. \/ Covered(t)'
        \/ u = row[t].owner /\ job[f].pc = "alarm"
        \/ u = row[t].owner /\ job[f].pc = "sweep" /\ t \in job[f].list
    BY <1>2, <1>4, <1>9, <2>1 DEF Covered
  <2>3. CASE alarmList(f)
    <3>1. /\ job'[f].pc = "sweep" /\ job'[f].who = u /\ job'[f].list = LiveOf(u)
          /\ job[f].pc = "alarm"
      BY <1>1, <2>3 DEF alarmList, FlightType
    <3>2. u = row[t].owner => Covered(t)'
      BY <2>1, <3>1 DEF Covered, LiveOf
    <3> QED
      BY <2>2, <3>2
  <2>4. CASE alarmRevoke(f)
    <3>1. t \notin job[f].list /\ job[f].pc = "sweep"
      BY <1>9, <2>4, RevokeRevivesNone DEF alarmRevoke
    <3> QED
      BY <2>2, <3>1
  <2>5. CASE AnswerLost(f)
    BY <2>2, <2>5 DEF AnswerLost
  <2> QED
    BY <2>3, <2>4, <2>5
<1>10. OldIsCovered'
  BY <1>5, <1>7, <1>9, CoverageStays
<1>11. ReadIsCurrent'
  <2>1. \A g \in Flights : ReadBefore(g)
    BY <1>4, <1>8 DEF ReadBefore
  <2> QED
    BY <1>2, <1>5, <2>1, ReadStays DEF ReadIsCurrent
<1> QED
  BY <1>10, <1>11 DEF SweepInv

\* A password reset: the same, in the handler of the reset.
LEMMA AccountsKeepSweeps ==
    ASSUME Wf, SweepInv, NEW u \in Users,
           \/ resetList(u) \/ resetRevoke(u) \/ resetDies(u) \/ banUser(u) \/ unbanUser(u)
    PROVE  SweepInv'
<1> USE DEF serverVars, jarVars, tabVars, sendVars, chainVars, sweepVars
<1>1. job' = job /\ gen' = gen /\ broken \subseteq broken'
  BY DEF resetList, resetRevoke, resetDies, banUser, unbanUser
<1>2. Grows
  <2>1. row' = row => Grows
    BY RowsStay DEF Wf
  <2> QED
    BY <2>1, ResetRevokeKeepsWf DEF resetList, resetDies, banUser, unbanUser
<1>3. \A t \in Tokens : row'[t].st = "live" => row[t].st = "live"
  BY RevokeRevivesNone DEF resetList, resetRevoke, resetDies, banUser, unbanUser
<1>4. ASSUME NEW t \in Tokens, row'[t].st = "live", Covered(t)
      PROVE  Covered(t)' \/ row[t].owner \in broken'
  <2>1. row'[t].owner = row[t].owner /\ row[t].st = "live"
    BY <1>2, <1>3, <1>4 DEF Grows
  <2>2. \A v \in Users \ {u} : reset'[v] = reset[v]
    BY DEF resetList, resetRevoke, resetDies, banUser, unbanUser, Wf, TypeOK
  <2>3. row[t].owner \in Users
    BY <2>1 DEF Wf, RowsOK
  <2>4. reset'[row[t].owner] = reset[row[t].owner] => Covered(t)'
    BY <1>1, <1>4, <2>1 DEF Covered
  <2>5. CASE row[t].owner # u
    BY <2>2, <2>3, <2>4, <2>5
  <2>6. CASE row[t].owner = u /\ resetList(u)
    <3>1. reset'[u] = [pc |-> "listed", list |-> LiveOf(u)]
      BY <2>6 DEF resetList, Wf, TypeOK
    <3> QED
      BY <2>1, <2>6, <3>1 DEF Covered, LiveOf
  <2>7. CASE row[t].owner = u /\ resetRevoke(u)
    <3>1. t \notin reset[u].list /\ reset[u].pc = "listed"
      BY <1>4, <2>7, RevokeRevivesNone DEF resetRevoke
    <3> QED
      BY <1>1, <1>4, <2>1, <2>7, <3>1 DEF Covered
  <2>8. CASE row[t].owner = u /\ resetDies(u)
    BY <2>8 DEF resetDies
  <2>9. CASE banUser(u) \/ unbanUser(u)
    BY <2>4, <2>9 DEF banUser, unbanUser
  <2> QED
    BY <2>5, <2>6, <2>7, <2>8, <2>9
<1> QED
  BY <1>1, <1>2, <1>3, <1>4, QuietAccount DEF NothingRevives

LEMMA ResetBeginsKeepsSweeps ==
    ASSUME Wf, SweepInv, NEW u \in Users, resetPassword(u) PROVE SweepInv'
<1>1. row' = row /\ job' = job /\ broken' = broken
  BY DEF resetPassword
<1>2. Grows
  BY <1>1, RowsStay DEF Wf
<1>3. /\ \A v \in Users \ {u} : gen'[v] = gen[v] /\ reset'[v] = reset[v]
      /\ reset'[u].pc = "changed"
  BY DEF resetPassword, Wf, TypeOK
<1>4. ASSUME NEW t \in Tokens, row[t].st = "live", row[t].gen < gen'[row[t].owner]
      PROVE  row[t].over \/ Covered(t)' \/ row[t].owner \in broken
  <2>1. CASE row[t].owner = u
    BY <1>1, <1>3, <2>1 DEF Covered
  <2>2. CASE row[t].owner # u
    <3>1. row[t].owner \in Users
      BY <1>4 DEF Wf, RowsOK
    <3>2. row[t].over \/ Covered(t) \/ row[t].owner \in broken
      BY <1>3, <1>4, <2>2, <3>1 DEF SweepInv, OldIsCovered
    <3>3. Covered(t) => Covered(t)'
      BY <1>1, <1>3, <2>2, <3>1 DEF Covered
    <3> QED
      BY <3>2, <3>3
  <2> QED
    BY <2>1, <2>2
<1>5. OldIsCovered'
  BY <1>1, <1>4 DEF OldIsCovered
<1>6. ReadIsCurrent'
  <2>1. \A g \in Flights : ReadBefore(g)
    BY <1>1 DEF ReadBefore
  <2> QED
    BY <1>1, <1>2, <2>1, ReadStays DEF ReadIsCurrent
<1> QED
  BY <1>5, <1>6 DEF SweepInv

\* The browser starts and ends requests, it revokes nothing.
LEMMA TabsKeepSweeps ==
    ASSUME Wf, SweepInv, NEW t \in Tabs, TabStep(t) PROVE SweepInv'
<1>1. CASE Starts(t)
  <2>1. SendOnly /\ (job' = job \/ \E f \in Flights : Sends(f))
    BY <1>1, StartsSend
  <2>2. Grows
    BY <2>1, RowsStay DEF Wf, SendOnly
  <2>3. NothingRevives /\ reset' = reset
    BY <2>1 DEF SendOnly, NothingRevives
  <2>4. CASE job' = job
    <3>1. \A s \in Tokens : Covered(s) => Covered(s)'
      BY <2>1, <2>4 DEF SendOnly, Covered
    <3> QED
      BY <2>2, <2>3, <2>4, <3>1, QuietAccount
  <2>5. CASE \E f \in Flights : Sends(f)
    <3>1. PICK f \in Flights : Sends(f)
      BY <2>5
    <3>2. ReadBefore(f) /\ OnlyMoves(f) /\ job[f].pc \notin {"alarm", "sweep"}
      BY <3>1 DEF Sends, ReadBefore
    <3> QED
      BY <2>2, <2>3, <3>2, QuietFlight
  <2> QED
    BY <2>1, <2>4, <2>5
<1>2. CASE Takes(t)
  <2>1. PICK f \in Flights : Arrives(f)
    BY <1>2, TakesArrive
  <2>2. row' = row /\ reset' = reset /\ gen' = gen /\ broken' = broken
    BY <1>2, TakesArrive
  <2>3. Grows
    BY <2>2, RowsStay DEF Wf
  <2>4. OnlyMoves(f) /\ job'[f].pc = "idle"
    BY <2>1 DEF Arrives, OnlyMoves, Wf, FlightsOK, Idle
  <2>5. ReadBefore(f) /\ job[f].pc \notin {"alarm", "sweep"}
    BY <2>1, <2>4 DEF Arrives, ReadBefore
  <2>6. NothingRevives
    BY <2>2 DEF NothingRevives
  <2> QED
    BY <2>2, <2>3, <2>4, <2>5, <2>6, QuietFlight
<1> QED
  BY <1>1, <1>2 DEF TabStep, Starts, Takes

LEMMA StepKeepsSweeps == Wf /\ SweepInv /\ [Next]_vars => SweepInv'
<1> SUFFICES ASSUME Wf, SweepInv, [Next]_vars PROVE SweepInv'
  OBVIOUS
<1>1. ASSUME NEW f \in Flights, HandlerStep(f) \/ HandlerFails(f) \/ AnswerLost(f) PROVE SweepInv'
  BY <1>1, ReadKeepsSweeps, OtherFlightStepsKeepSweeps, MintKeepsSweeps, AlarmKeepsSweeps
     DEF HandlerStep
<1>2. ASSUME NEW t \in Tabs, TabStep(t) PROVE SweepInv'
  BY <1>2, TabsKeepSweeps
<1>3. ASSUME NEW u \in Users, \/ resetPassword(u) \/ resetList(u) \/ resetRevoke(u)
                              \/ resetDies(u) \/ banUser(u) \/ unbanUser(u)
      PROVE  SweepInv'
  BY <1>3, ResetBeginsKeepsSweeps, AccountsKeepSweeps
<1>4. CASE UNCHANGED vars
  BY <1>4 DEF vars, serverVars, sweepVars, SweepInv, OldIsCovered, ReadIsCurrent, Covered
<1> QED
  BY <1>1, <1>2, <1>3, <1>4 DEF Next

LEMMA InitSweeps == Init => SweepInv
<1> SUFFICES ASSUME Init PROVE SweepInv
  OBVIOUS
<1>1. \A t \in Tokens : row[t].st = "none"
  BY DEF Init, NoRow
<1>2. \A f \in Flights : job[f].pc = "idle"
  BY DEF Init, Idle
<1> QED
  BY <1>1, <1>2 DEF SweepInv, OldIsCovered, ReadIsCurrent

\* A covered session has its sweep under way.
LEMMA CoveredIsSwept ==
    ASSUME NEW t \in Tokens, Covered(t) PROVE Sweeping(row[t].owner)
  BY DEF Covered, Sweeping

\* After a password reset or a reuse alarm no earlier session of the account is
\* live, unless a handler issued it while the sweep ran or the process died in
\* the sweep (revokeAllUserRefreshTokens of auth.service.ts).
THEOREM SweepTheorem == Spec => []SweepEndsSessions
<1>1. Init => Wf /\ SweepInv
  BY InitIsWf, InitSweeps
<1>2. Wf /\ SweepInv /\ [Next]_vars => (Wf /\ SweepInv)'
  BY StepKeepsWf, StepKeepsSweeps
<1>3. SweepInv => SweepEndsSessions
  BY CoveredIsSwept DEF SweepInv, OldIsCovered, SweepEndsSessions
<1> QED
  BY <1>1, <1>2, <1>3, PTL DEF Spec

-----------------------------------------------------------------------------
(* A reuse alarm has a cause                                                *)

\* Answers is where a flight is when it has used its token up, or had its
\* answer decided.
Answers == {"mint", "granted", "denied", "out"}

\* A revocation spends the rows of its list, and a sweep spends none.
LEMMA RevokeSpends ==
    ASSUME Wf, NEW list, list \subseteq Used, NEW why, RevokeRows(list, why)
    PROVE  \A t \in Tokens : Spent(t)' => Spent(t) \/ (t \in list /\ why # "sweep")
<1> SUFFICES ASSUME NEW t \in Tokens, Spent(t)'
             PROVE  Spent(t) \/ (t \in list /\ why # "sweep")
  OBVIOUS
<1>1. row[t] \in RowType
  BY DEF Wf, RowsOK
<1>2. CASE t \notin list
  BY <1>2 DEF RevokeRows, Spent
<1>3. CASE t \in list
  <2>1. row[t].st # "none"
    BY <1>3 DEF Used
  <2>2. row'[t] = [row[t] EXCEPT !.st = "revoked",
                                 !.by = IF row[t].st = "live" THEN why ELSE @]
    BY <1>3 DEF RevokeRows
  <2>3. row'[t].by = IF row[t].st = "live" THEN why ELSE row[t].by
    BY <1>1, <2>2 DEF RowType
  <2>4. row[t].st \in {"live", "revoked"}
    BY <1>1, <2>1 DEF RowType
  <2> QED
    BY <1>3, <2>3, <2>4 DEF Spent
<1> QED
  BY <1>2, <1>3

\* Where tokens are.
LEMMA TokensOf ==
    ASSUME Wf
    PROVE  /\ \A f \in Flights : /\ job[f].tok \in Tokens \cup {NoToken}
                                 /\ JarOfFlight(f) \in Jars
                                 /\ job[f].tok # NoToken => row[job[f].tok].st # "none"
                                 /\ job[f].pc = "granted" => /\ job[f].new \in Tokens
                                                             /\ row[job[f].new].st # "none"
                                 /\ job[f].pc = "idle" => job[f].tok = NoToken
           /\ \A j \in Jars : /\ cookie[j] \in Tokens \cup {NoToken}
                              /\ cookie[j] # NoToken => row[cookie[j]].st # "none"
           /\ NoToken \notin Tokens
<1>1. \A f \in Flights : JarOfFlight(f) \in Jars
  BY DEF JarOfFlight, Flights, Wf, TypeOK
<1>2. \A f \in Flights : job[f] \in FlightType /\ FlightOK(job[f], row)
  BY DEF Wf, FlightsOK
<1>3. \A f \in Flights : job[f].tok \in Tokens \cup {NoToken} /\ job[f].new \in Tokens \cup {NoToken}
  BY <1>2 DEF FlightType
<1> QED
  BY <1>1, <1>2, <1>3 DEF FlightOK, Wf, TypeOK, CookiesOK, Tokens, NoToken

\* A handler goes on with its token; it may spend it, and then it will answer.
LEMMA HandlerKeepsAlarm ==
    ASSUME Wf, AlarmInv, UNCHANGED <<jarOf, cookie, tainted>>,
           NEW f \in Flights, OnlyMoves(f), job'[f].tok = job[f].tok,
           job'[f].pc \notin {"sent", "granted"},
           job[f].tok # NoToken /\ job[f].pc \in Answers => job'[f].pc \in Answers,
           \A t \in Tokens : Spent(t)' => \/ Spent(t)
                                          \/ t = job[f].tok /\ job'[f].pc \in Answers
    PROVE  AlarmInv'
<1>1. /\ \A g \in Flights : job'[g].tok = job[g].tok
      /\ \A g \in Flights \ {f} : job'[g] = job[g]
      /\ \A g \in Flights : JarOfFlight(g)' = JarOfFlight(g)
  BY DEF OnlyMoves, Wf, FlightsOK, JarOfFlight
<1>2. \A g \in Flights : job'[g].pc \in {"sent", "granted"} => g # f
  OBVIOUS
<1>3. OneBrowser'
  <2>1. \A j \in Jars, c \in Tokens : HasToken(j, c)' => HasToken(j, c)
    BY <1>1, <1>2 DEF HasToken
  <2> QED
    BY <2>1 DEF AlarmInv, OneBrowser
<1>4. AnswersAreFresh'
  <2> SUFFICES ASSUME NEW g \in Flights, job'[g].pc = "granted"
               PROVE  /\ ~(row'[job'[g].new].st = "revoked" /\ row'[job'[g].new].by # "sweep")
                      /\ \A j \in Jars : cookie'[j] # job'[g].new
                      /\ \A h \in Flights :
                           /\ job'[h].tok # job'[g].new
                           /\ job'[h].pc = "granted" /\ job'[h].new = job'[g].new => h = g
    BY DEF AnswersAreFresh, Spent
  <2>1. job'[g] = job[g] /\ job[g].new \in Tokens
    BY <1>1, <1>2, TokensOf
  <2>2. /\ ~Spent(job[g].new) /\ \A j \in Jars : cookie[j] # job[g].new
        /\ \A h \in Flights : /\ job[h].tok # job[g].new
                              /\ job[h].pc = "granted" /\ job[h].new = job[g].new => h = g
    BY <2>1 DEF AlarmInv, AnswersAreFresh
  <2>3. ~(row'[job[g].new].st = "revoked" /\ row'[job[g].new].by # "sweep")
    <3>1. \A t \in Tokens : ~Spent(t) /\ t # job[f].tok => ~Spent(t)'
      OBVIOUS
    <3> QED
      BY <2>1, <2>2, <3>1 DEF Spent
  <2> QED
    BY <1>1, <1>2, <2>1, <2>2, <2>3
<1>5. SharedIsTainted'
  BY <1>1 DEF AlarmInv, SharedIsTainted
<1>6. SpentIsTainted'
  <2> SUFFICES ASSUME NEW g \in Flights, job'[g].pc = "sent", job'[g].tok # NoToken,
                      row'[job'[g].tok].st = "revoked" /\ row'[job'[g].tok].by # "sweep"
               PROVE  job'[g].tok \in tainted
    BY DEF SpentIsTainted, Spent
  <2>1. job'[g] = job[g] /\ g # f /\ job[g].tok \in Tokens
    BY <1>1, <1>2, TokensOf
  <2>2. Spent(job[g].tok) \/ job[g].tok = job[f].tok
    BY <2>1 DEF Spent
  <2> QED
    BY <2>1, <2>2 DEF AlarmInv, SpentIsTainted, SharedIsTainted
<1>7. SpentIsAnswered'
  <2> SUFFICES ASSUME NEW j \in Jars, cookie[j] # NoToken, cookie[j] \notin tainted,
                      row'[cookie[j]].st = "revoked" /\ row'[cookie[j]].by # "sweep"
               PROVE  \E g \in Flights : /\ JarOfFlight(g)' = j /\ job'[g].tok = cookie[j]
                                         /\ job'[g].pc \in Answers
    BY DEF SpentIsAnswered, Spent, Answers
  <2>1. cookie[j] \in Tokens
    BY TokensOf
  <2>2. CASE Spent(cookie[j])
    <3>1. PICK g \in Flights : /\ JarOfFlight(g) = j /\ job[g].tok = cookie[j]
                               /\ job[g].pc \in Answers
      BY <2>2 DEF AlarmInv, SpentIsAnswered, Answers
    <3> QED
      BY <1>1, <3>1
  <2>3. CASE cookie[j] = job[f].tok /\ job'[f].pc \in Answers
    <3>1. HasToken(j, cookie[j]) /\ HasToken(JarOfFlight(f), cookie[j])
      BY <2>3 DEF HasToken
    <3>2. JarOfFlight(f) = j
      BY <2>1, <3>1, TokensOf DEF AlarmInv, OneBrowser
    <3> QED
      BY <1>1, <2>3, <3>2
  <2> QED
    BY <2>1, <2>2, <2>3 DEF Spent
<1> QED
  BY <1>3, <1>4, <1>5, <1>6, <1>7 DEF AlarmInv

\* No request moves: only resets do, and they spend nothing.
LEMMA AccountKeepsAlarm ==
    ASSUME Wf, AlarmInv, UNCHANGED <<jarOf, cookie, tainted, job>>,
           \A t \in Tokens : Spent(t)' => Spent(t)
    PROVE  AlarmInv'
<1>1. \A j \in Jars, c \in Tokens : HasToken(j, c)' => HasToken(j, c)
  BY DEF HasToken, JarOfFlight
<1>2. \A f \in Flights : JarOfFlight(f)' = JarOfFlight(f)
  BY DEF JarOfFlight
<1>3. OneBrowser'
  BY <1>1 DEF AlarmInv, OneBrowser
<1>4. AnswersAreFresh'
  <2>1. \A f \in Flights : job[f].pc = "granted" => job[f].new \in Tokens
    BY TokensOf
  <2>2. \A f \in Flights : job[f].pc = "granted" => ~Spent(job[f].new)'
    BY <2>1 DEF AlarmInv, AnswersAreFresh, Spent
  <2> QED
    BY <2>2 DEF AlarmInv, AnswersAreFresh, Spent
<1>5. SharedIsTainted'
  BY DEF AlarmInv, SharedIsTainted
<1>6. SpentIsTainted'
  <2>1. \A f \in Flights : job[f].tok # NoToken => (Spent(job[f].tok)' => Spent(job[f].tok))
    BY TokensOf DEF Spent
  <2> QED
    BY <2>1 DEF AlarmInv, SpentIsTainted, Spent
<1>7. SpentIsAnswered'
  <2>1. \A j \in Jars : cookie[j] # NoToken => (Spent(cookie[j])' => Spent(cookie[j]))
    BY TokensOf DEF Spent
  <2> QED
    BY <1>2, <2>1 DEF AlarmInv, SpentIsAnswered, Spent
<1> QED
  BY <1>3, <1>4, <1>5, <1>6, <1>7 DEF AlarmInv

\* A request that leaves shares the token of its browser, and taints it when
\* another request carries it.
LEMMA SendsKeepsAlarm ==
    ASSUME Wf, AlarmInv, UNCHANGED <<row, jarOf, cookie>>, NEW f \in Flights, Sends(f)
    PROVE  AlarmInv'
<1> DEFINE c == job'[f].tok
           J == JarOfFlight(f)
<1>1. /\ \A g \in Flights \ {f} : job'[g] = job[g]
      /\ \A g \in Flights : JarOfFlight(g)' = JarOfFlight(g)
      /\ job[f].pc = "idle" /\ job'[f].pc = "sent"
  BY DEF Sends, OnlyMoves, Wf, FlightsOK, JarOfFlight
<1>2. c = cookie[J] \/ c = NoToken
  BY DEF Sends
<1>3. tainted' = tainted \cup ({c} \cap Carried(J))
  BY DEF Sends
<1>4. \A g \in Flights : job[g].tok # NoToken /\ JarOfFlight(g) = J => job[g].tok \in Carried(J)
  BY TokensOf DEF Carried, Flying, Busy
<1>5. J \in Jars /\ NoToken \notin Tokens /\ (c # NoToken => c \in Tokens)
  BY <1>2, TokensOf
<1> HIDE DEF c
<1>6. OneBrowser'
  <2>1. \A j \in Jars, d \in Tokens : HasToken(j, d)' => HasToken(j, d)
    <3> SUFFICES ASSUME NEW j \in Jars, NEW d \in Tokens, HasToken(j, d)'
                 PROVE  HasToken(j, d)
      OBVIOUS
    <3>1. CASE cookie[j] = d
      BY <3>1 DEF HasToken
    <3>2. CASE cookie[j] # d
      <4>1. PICK g \in Flights : /\ JarOfFlight(g) = j
                                 /\ job'[g].tok = d \/ (job'[g].pc = "granted" /\ job'[g].new = d)
        BY <1>1, <3>2 DEF HasToken
      <4>2. g # f
        BY <1>1, <1>2, <1>5, <3>2, <4>1 DEF c
      <4> QED
        BY <1>1, <4>1, <4>2 DEF HasToken
    <3> QED
      BY <3>1, <3>2
  <2> QED
    BY <2>1 DEF AlarmInv, OneBrowser
<1>7. AnswersAreFresh'
  <2> SUFFICES ASSUME NEW g \in Flights, job'[g].pc = "granted"
               PROVE  /\ ~(row[job'[g].new].st = "revoked" /\ row[job'[g].new].by # "sweep")
                      /\ \A j \in Jars : cookie[j] # job'[g].new
                      /\ \A h \in Flights :
                           /\ job'[h].tok # job'[g].new
                           /\ job'[h].pc = "granted" /\ job'[h].new = job'[g].new => h = g
    BY DEF AnswersAreFresh, Spent
  <2>1. g # f /\ job'[g] = job[g] /\ job[g].new \in Tokens
    BY <1>1, TokensOf
  <2>2. /\ ~Spent(job[g].new) /\ \A j \in Jars : cookie[j] # job[g].new
        /\ \A h \in Flights : /\ job[h].tok # job[g].new
                              /\ job[h].pc = "granted" /\ job[h].new = job[g].new => h = g
    BY <2>1 DEF AlarmInv, AnswersAreFresh
  <2>3. job'[f].tok # job[g].new
    BY <1>2, <1>5, <2>1, <2>2 DEF c
  <2> QED
    BY <1>1, <2>1, <2>2, <2>3 DEF Spent
<1>8. SharedIsTainted'
  <2> SUFFICES ASSUME NEW g \in Flights, NEW h \in Flights, g # h,
                      job'[g].tok # NoToken, job'[g].tok = job'[h].tok
               PROVE  job'[g].tok \in tainted'
    BY DEF SharedIsTainted
  <2>1. ASSUME NEW k \in Flights, k # f, c # NoToken, job[k].tok = c PROVE c \in tainted'
    <3>1. HasToken(J, c) /\ HasToken(JarOfFlight(k), c)
      BY <1>2, <2>1 DEF HasToken
    <3>2. JarOfFlight(k) = J
      BY <1>5, <2>1, <3>1, TokensOf DEF AlarmInv, OneBrowser
    <3> QED
      BY <1>3, <1>4, <2>1, <3>2
  <2>2. CASE g # f /\ h # f
    BY <1>1, <1>3, <2>2 DEF AlarmInv, SharedIsTainted
  <2>3. CASE g = f
    BY <1>1, <2>1, <2>3 DEF c
  <2>4. CASE h = f
    BY <1>1, <2>1, <2>4 DEF c
  <2> QED
    BY <2>2, <2>3, <2>4
<1>9. SpentIsTainted'
  <2> SUFFICES ASSUME NEW g \in Flights, job'[g].pc = "sent", job'[g].tok # NoToken,
                      row[job'[g].tok].st = "revoked" /\ row[job'[g].tok].by # "sweep"
               PROVE  job'[g].tok \in tainted'
    BY DEF SpentIsTainted, Spent
  <2>1. CASE g # f
    BY <1>1, <1>3, <2>1 DEF AlarmInv, SpentIsTainted, Spent
  <2>2. CASE g = f
    <3>1. c = cookie[J] /\ c # NoToken /\ Spent(c)
      BY <1>2, <2>2 DEF Spent, c
    <3>2. c \in tainted \/ \E h \in Flights : JarOfFlight(h) = J /\ job[h].tok = c
      BY <1>5, <3>1 DEF AlarmInv, SpentIsAnswered
    <3>3. c \in tainted'
      BY <1>3, <1>4, <3>1, <3>2
    <3> QED
      BY <2>2, <3>3 DEF c
  <2> QED
    BY <2>1, <2>2
<1>10. SpentIsAnswered'
  <2> SUFFICES ASSUME NEW j \in Jars, cookie[j] # NoToken, Spent(cookie[j]), cookie[j] \notin tainted
               PROVE  \E g \in Flights : /\ JarOfFlight(g)' = j /\ job'[g].tok = cookie[j]
                                         /\ job'[g].pc \in Answers
    BY <1>3 DEF SpentIsAnswered, Spent, Answers
  <2>1. PICK g \in Flights : /\ JarOfFlight(g) = j /\ job[g].tok = cookie[j]
                             /\ job[g].pc \in Answers
    BY DEF AlarmInv, SpentIsAnswered, Answers
  <2>2. g # f
    BY <1>1, <2>1 DEF Answers
  <2> QED
    BY <1>1, <2>1, <2>2
<1> QED
  BY <1>6, <1>7, <1>8, <1>9, <1>10 DEF AlarmInv

\* An answer arrives: the browser replaces the cookie that it may have spent.
LEMMA ArrivesKeepsAlarm ==
    ASSUME Wf, AlarmInv, UNCHANGED <<row, jarOf, tainted>>, NEW f \in Flights, Arrives(f)
    PROVE  AlarmInv'
<1> DEFINE J == JarOfFlight(f)
<1>1. /\ \A g \in Flights \ {f} : job'[g] = job[g]
      /\ \A g \in Flights : JarOfFlight(g)' = JarOfFlight(g)
      /\ job'[f].pc = "idle" /\ job'[f].tok = NoToken
  BY DEF Arrives, Wf, FlightsOK, JarOfFlight, Idle
<1>2. /\ \A j \in Jars \ {J} : cookie'[j] = cookie[j]
      /\ \/ cookie'[J] = cookie[J] /\ job[f].pc \notin Answers
         \/ cookie'[J] = NoToken
         \/ cookie'[J] = job[f].new /\ job[f].pc = "granted"
      /\ J \in Jars
  BY TokensOf DEF Arrives, Wf, TypeOK, Answers
<1>3. NoToken \notin Tokens
  BY TokensOf
<1> HIDE DEF J
<1>4. OneBrowser'
  <2>1. \A j \in Jars, d \in Tokens : HasToken(j, d)' => HasToken(j, d)
    <3> SUFFICES ASSUME NEW j \in Jars, NEW d \in Tokens, HasToken(j, d)'
                 PROVE  HasToken(j, d)
      OBVIOUS
    <3>1. CASE cookie'[j] = d
      BY <1>2, <1>3, <3>1 DEF HasToken, J
    <3>2. CASE cookie'[j] # d
      <4>1. PICK g \in Flights : /\ JarOfFlight(g) = j
                                 /\ job'[g].tok = d \/ (job'[g].pc = "granted" /\ job'[g].new = d)
        BY <1>1, <3>2 DEF HasToken
      <4> QED
        BY <1>1, <1>3, <4>1 DEF HasToken
    <3> QED
      BY <3>1, <3>2
  <2> QED
    BY <2>1 DEF AlarmInv, OneBrowser
<1>5. AnswersAreFresh'
  <2> SUFFICES ASSUME NEW g \in Flights, job'[g].pc = "granted"
               PROVE  /\ ~(row[job'[g].new].st = "revoked" /\ row[job'[g].new].by # "sweep")
                      /\ \A j \in Jars : cookie'[j] # job'[g].new
                      /\ \A h \in Flights :
                           /\ job'[h].tok # job'[g].new
                           /\ job'[h].pc = "granted" /\ job'[h].new = job'[g].new => h = g
    BY DEF AnswersAreFresh, Spent
  <2>1. g # f /\ job'[g] = job[g] /\ job[g].new \in Tokens
    BY <1>1, TokensOf
  <2>2. /\ ~Spent(job[g].new) /\ \A j \in Jars : cookie[j] # job[g].new
        /\ \A h \in Flights : /\ job[h].tok # job[g].new
                              /\ job[h].pc = "granted" /\ job[h].new = job[g].new => h = g
    BY <2>1 DEF AlarmInv, AnswersAreFresh
  <2>3. \A j \in Jars : cookie'[j] # job[g].new
    BY <1>2, <1>3, <2>1, <2>2
  <2> QED
    BY <1>1, <1>3, <2>1, <2>2, <2>3 DEF Spent
<1>6. SharedIsTainted'
  BY <1>1 DEF AlarmInv, SharedIsTainted
<1>7. SpentIsTainted'
  BY <1>1 DEF AlarmInv, SpentIsTainted, Spent
<1>8. SpentIsAnswered'
  <2> SUFFICES ASSUME NEW j \in Jars, cookie'[j] # NoToken, cookie'[j] \notin tainted,
                      row[cookie'[j]].st = "revoked" /\ row[cookie'[j]].by # "sweep"
               PROVE  \E g \in Flights : /\ JarOfFlight(g)' = j /\ job'[g].tok = cookie'[j]
                                         /\ job'[g].pc \in Answers
    BY DEF SpentIsAnswered, Spent, Answers
  <2>1. cookie'[j] = cookie[j] /\ (j = J => job[f].pc \notin Answers)
    BY <1>2 DEF AlarmInv, AnswersAreFresh, Spent
  <2>2. PICK g \in Flights : /\ JarOfFlight(g) = j /\ job[g].tok = cookie[j]
                             /\ job[g].pc \in Answers
    BY <2>1 DEF AlarmInv, SpentIsAnswered, Answers, Spent
  <2>3. g # f
    BY <2>1, <2>2 DEF J
  <2> QED
    BY <1>1, <2>1, <2>2, <2>3
<1> QED
  BY <1>4, <1>5, <1>6, <1>7, <1>8 DEF AlarmInv

\* An answer is lost: nobody will know that its token is spent.
LEMMA AnswerLostKeepsAlarm ==
    ASSUME Wf, AlarmInv, NEW f \in Flights, AnswerLost(f) PROVE AlarmInv'
<1>1. UNCHANGED <<row, jarOf, cookie>>
  BY DEF AnswerLost, serverVars, jarVars
<1>2. /\ \A g \in Flights \ {f} : job'[g] = job[g]
      /\ \A g \in Flights : JarOfFlight(g)' = JarOfFlight(g)
      /\ job'[f].pc = "lost" /\ job'[f].tok = NoToken
  BY DEF AnswerLost, Wf, FlightsOK, JarOfFlight, Idle, serverVars
<1>3. tainted' = tainted \cup ({job[f].tok} \ {NoToken})
  BY DEF AnswerLost
<1>4. NoToken \notin Tokens
  BY TokensOf
<1>5. OneBrowser'
  <2>1. \A j \in Jars, d \in Tokens : HasToken(j, d)' => HasToken(j, d)
    BY <1>1, <1>2, <1>4 DEF HasToken
  <2> QED
    BY <2>1 DEF AlarmInv, OneBrowser
<1>6. AnswersAreFresh'
  <2> SUFFICES ASSUME NEW g \in Flights, job'[g].pc = "granted"
               PROVE  /\ ~(row[job'[g].new].st = "revoked" /\ row[job'[g].new].by # "sweep")
                      /\ \A j \in Jars : cookie[j] # job'[g].new
                      /\ \A h \in Flights :
                           /\ job'[h].tok # job'[g].new
                           /\ job'[h].pc = "granted" /\ job'[h].new = job'[g].new => h = g
    BY <1>1 DEF AnswersAreFresh, Spent
  <2>1. g # f /\ job'[g] = job[g] /\ job[g].new \in Tokens
    BY <1>2, TokensOf
  <2> QED
    BY <1>2, <1>4, <2>1 DEF AlarmInv, AnswersAreFresh, Spent
<1>7. SharedIsTainted'
  BY <1>2, <1>3 DEF AlarmInv, SharedIsTainted
<1>8. SpentIsTainted'
  BY <1>1, <1>2, <1>3 DEF AlarmInv, SpentIsTainted, Spent
<1>9. SpentIsAnswered'
  <2> SUFFICES ASSUME NEW j \in Jars, cookie[j] # NoToken, cookie[j] \notin tainted', Spent(cookie[j])
               PROVE  \E g \in Flights : /\ JarOfFlight(g)' = j /\ job'[g].tok = cookie[j]
                                         /\ job'[g].pc \in Answers
    BY <1>1 DEF SpentIsAnswered, Spent, Answers
  <2>1. PICK g \in Flights : /\ JarOfFlight(g) = j /\ job[g].tok = cookie[j]
                             /\ job[g].pc \in Answers
    BY <1>3 DEF AlarmInv, SpentIsAnswered, Answers
  <2>2. g # f
    BY <1>3, <2>1
  <2> QED
    BY <1>2, <2>1, <2>2
<1> QED
  BY <1>5, <1>6, <1>7, <1>8, <1>9 DEF AlarmInv

\* A new token is nowhere but in the answer that brings it.
LEMMA MintKeepsAlarm ==
    ASSUME Wf, AlarmInv, NEW f \in Flights, mint(f) PROVE AlarmInv'
<1>1. PICK t \in Tokens \ Used : Minted(f, t)
  BY MintIsMinted
<1>2. OnlyMoves(f) /\ job'[f] = [job[f] EXCEPT !.pc = "granted", !.new = t, !.seen = 0, !.calm = TRUE]
  BY <1>1, MintKeepsWf
<1>3. job[f] \in FlightType /\ job[f].pc = "mint"
  BY DEF Wf, FlightsOK, mint
<1>4. job'[f].pc = "granted" /\ job'[f].new = t /\ job'[f].tok = job[f].tok
  BY <1>2, <1>3 DEF FlightType
<1>5. UNCHANGED <<jarOf, cookie, tainted>>
  BY DEF mint, jarVars, sendVars
<1>6. /\ \A g \in Flights \ {f} : job'[g] = job[g]
      /\ \A g \in Flights : job'[g].tok = job[g].tok
      /\ \A g \in Flights : JarOfFlight(g)' = JarOfFlight(g)
  BY <1>2, <1>4, <1>5 DEF OnlyMoves, Wf, FlightsOK, JarOfFlight
<1>7. row'[t].st = "live" /\ \A s \in Tokens \ {t} : row'[s] = row[s]
  BY <1>1 DEF Minted, NewRow, Wf, RowsOK
<1>8. row[t].st = "none"
  BY DEF Used
<1>9. /\ \A j \in Jars : cookie[j] # t
      /\ \A g \in Flights : job[g].tok # t /\ (job[g].pc = "granted" => job[g].new # t)
  BY <1>8, TokensOf
<1>10. \A s \in Tokens : Spent(s)' => Spent(s)
  BY <1>7 DEF Spent
<1>11. OneBrowser'
  <2>1. ASSUME NEW j \in Jars, NEW d \in Tokens, HasToken(j, d)'
        PROVE  HasToken(j, d) \/ (d = t /\ j = JarOfFlight(f))
    BY <1>4, <1>5, <1>6, <2>1 DEF HasToken
  <2>2. \A j \in Jars : ~HasToken(j, t)
    BY <1>9 DEF HasToken
  <2> QED
    BY <2>1, <2>2 DEF AlarmInv, OneBrowser
<1>12. AnswersAreFresh'
  <2> SUFFICES ASSUME NEW g \in Flights, job'[g].pc = "granted"
               PROVE  /\ ~(row'[job'[g].new].st = "revoked" /\ row'[job'[g].new].by # "sweep")
                      /\ \A j \in Jars : cookie[j] # job'[g].new
                      /\ \A h \in Flights :
                           /\ job'[h].tok # job'[g].new
                           /\ job'[h].pc = "granted" /\ job'[h].new = job'[g].new => h = g
    BY <1>5 DEF AnswersAreFresh, Spent
  <2>1. CASE g = f
    BY <1>4, <1>6, <1>7, <1>9, <2>1
  <2>2. CASE g # f
    <3>1. job'[g] = job[g] /\ job[g].new \in Tokens /\ job[g].new # t
      BY <1>6, <1>9, <2>2, TokensOf
    <3>2. /\ ~Spent(job[g].new) /\ \A j \in Jars : cookie[j] # job[g].new
          /\ \A h \in Flights : /\ job[h].tok # job[g].new
                                /\ job[h].pc = "granted" /\ job[h].new = job[g].new => h = g
      BY <3>1 DEF AlarmInv, AnswersAreFresh
    <3> QED
      BY <1>4, <1>6, <1>7, <3>1, <3>2 DEF Spent
  <2> QED
    BY <2>1, <2>2
<1>13. SharedIsTainted'
  BY <1>5, <1>6 DEF AlarmInv, SharedIsTainted
<1>14. SpentIsTainted'
  <2> SUFFICES ASSUME NEW g \in Flights, job'[g].pc = "sent", job'[g].tok # NoToken,
                      row'[job'[g].tok].st = "revoked" /\ row'[job'[g].tok].by # "sweep"
               PROVE  job'[g].tok \in tainted
    BY <1>5 DEF SpentIsTainted, Spent
  <2>1. job'[g] = job[g] /\ job[g].tok \in Tokens
    BY <1>4, <1>6, TokensOf
  <2>2. Spent(job[g].tok)
    BY <1>7, <1>9, <2>1 DEF Spent
  <2> QED
    BY <2>1, <2>2 DEF AlarmInv, SpentIsTainted
<1>15. SpentIsAnswered'
  <2> SUFFICES ASSUME NEW j \in Jars, cookie[j] # NoToken, cookie[j] \notin tainted,
                      row'[cookie[j]].st = "revoked" /\ row'[cookie[j]].by # "sweep"
               PROVE  \E g \in Flights : /\ JarOfFlight(g)' = j /\ job'[g].tok = cookie[j]
                                         /\ job'[g].pc \in Answers
    BY <1>5 DEF SpentIsAnswered, Spent, Answers
  <2>1. cookie[j] \in Tokens /\ Spent(cookie[j])
    BY <1>7, <1>9, TokensOf DEF Spent
  <2>2. PICK g \in Flights : /\ JarOfFlight(g) = j /\ job[g].tok = cookie[j]
                             /\ job[g].pc \in Answers
    BY <2>1 DEF AlarmInv, SpentIsAnswered, Answers
  <2>3. job'[g].pc \in Answers
    BY <1>4, <1>6, <2>2 DEF Answers
  <2> QED
    BY <1>6, <2>2, <2>3
<1> QED
  BY <1>11, <1>12, <1>13, <1>14, <1>15 DEF AlarmInv

LEMMA HandlersKeepAlarm ==
    ASSUME Wf, AlarmInv, NEW f \in Flights,
           \/ refreshAccessTokenRead(f) \/ refreshExpired(f) \/ rotateWrite(f) \/ alarmList(f)
           \/ alarmRevoke(f) \/ loginRead(f) \/ googleAuthCallback(f) \/ revokeRefreshToken(f)
           \/ HandlerFails(f)
    PROVE  AlarmInv'
<1> USE DEF serverVars, jarVars, tabVars, sendVars, chainVars, sweepVars
<1>1. job[f] \in FlightType /\ FlightOK(job[f], row) /\ job \in [Flights -> FlightType]
  BY DEF Wf, FlightsOK
<1>2. UNCHANGED <<jarOf, cookie, tainted>>
  BY DEF refreshAccessTokenRead, refreshExpired, rotateWrite, alarmList, alarmRevoke, loginRead,
     googleAuthCallback, revokeRefreshToken, HandlerFails
<1>3. CASE refreshAccessTokenRead(f) \/ refreshExpired(f)
  <2>1. OnlyMoves(f) /\ job'[f].tok = job[f].tok /\ job'[f].pc \in {"missing", "alarm", "denied", "rotate"}
    <3>1. CASE refreshExpired(f) \/ job' = [job EXCEPT ![f].pc = "missing"]
               \/ job' = [job EXCEPT ![f].pc = "denied"]
      BY <1>1, <3>1 DEF refreshExpired, OnlyMoves, FlightType
    <3>2. CASE job' = [job EXCEPT ![f].pc = "alarm", ![f].who = row[job[f].tok].owner]
      BY <1>1, <3>2 DEF OnlyMoves, FlightType
    <3>3. CASE job' = [job EXCEPT ![f].pc = "rotate", ![f].who = row[job[f].tok].owner,
                                  ![f].seen = gen[row[job[f].tok].owner],
                                  ![f].calm = ~Sweeping(row[job[f].tok].owner)]
      BY <1>1, <3>3 DEF OnlyMoves, FlightType
    <3> QED
      BY <1>3, <3>1, <3>2, <3>3 DEF refreshAccessTokenRead
  <2>2. job[f].pc = "sent" /\ row' = row
    BY <1>3 DEF refreshAccessTokenRead, refreshExpired
  <2> QED
    BY <1>2, <2>1, <2>2, HandlerKeepsAlarm DEF Answers, Spent
<1>4. CASE rotateWrite(f)
  <2>1. OnlyMoves(f) /\ job'[f] = [job[f] EXCEPT !.pc = "mint"]
    BY <1>4, RotateKeepsWf
  <2>2. job'[f].pc = "mint" /\ job'[f].tok = job[f].tok
    BY <1>1, <2>1 DEF FlightType
  <2>3. {job[f].tok} \subseteq Used /\ RevokeRows({job[f].tok}, "rotation")
    BY <1>1, <1>4 DEF rotateWrite, FlightOK, FlightType, Used
  <2>4. \A t \in Tokens : Spent(t)' => Spent(t) \/ t = job[f].tok
    BY <2>3, RevokeSpends
  <2> QED
    BY <1>2, <2>1, <2>2, <2>4, HandlerKeepsAlarm DEF Answers
<1>5. CASE revokeRefreshToken(f)
  <2>1. OnlyMoves(f) /\ job'[f] = [job[f] EXCEPT !.pc = "out"]
    BY <1>5, LogoutRevokesKeepsWf
  <2>2. job'[f].pc = "out" /\ job'[f].tok = job[f].tok
    BY <1>1, <2>1 DEF FlightType
  <2>3. \A t \in Tokens : Spent(t)' => Spent(t) \/ t = job[f].tok
    <3>1. CASE job[f].tok = NoToken
      BY <1>5, <3>1 DEF revokeRefreshToken, Spent
    <3>2. CASE job[f].tok # NoToken
      <4> DEFINE L == {job[f].tok} \cap LiveOf(row[job[f].tok].owner)
      <4>1. L \subseteq Used /\ L \subseteq {job[f].tok} /\ RevokeRows(L, "logout")
        BY <1>5, <3>2 DEF revokeRefreshToken, LiveOf, Used
      <4> HIDE DEF L
      <4> QED
        BY <4>1, RevokeSpends
    <3> QED
      BY <3>1, <3>2
  <2> QED
    BY <1>2, <2>1, <2>2, <2>3, HandlerKeepsAlarm DEF Answers
<1>6. CASE alarmRevoke(f)
  <2>1. OnlyMoves(f) /\ job'[f] = [job[f] EXCEPT !.pc = "denied", !.list = {}]
    BY <1>6, AlarmRevokeKeepsWf
  <2>2. job'[f].pc = "denied" /\ job'[f].tok = job[f].tok
    BY <1>1, <2>1 DEF FlightType
  <2>3. job[f].list \subseteq Used /\ RevokeRows(job[f].list, "sweep")
    BY <1>1, <1>6 DEF alarmRevoke, FlightOK, FlightType, Used
  <2>4. \A t \in Tokens : Spent(t)' => Spent(t)
    BY <2>3, RevokeSpends
  <2> QED
    BY <1>2, <2>1, <2>2, <2>4, HandlerKeepsAlarm DEF Answers
<1>7. CASE alarmList(f) \/ loginRead(f) \/ googleAuthCallback(f)
  <2>1. row' = row /\ job[f].pc \notin Answers
    BY <1>7 DEF alarmList, loginRead, googleAuthCallback, Answers
  <2>2. OnlyMoves(f) /\ job'[f].tok = job[f].tok /\ job'[f].pc \in {"sweep", "mint", "refused"}
    <3>1. CASE alarmList(f)
      BY <1>1, <3>1 DEF alarmList, OnlyMoves, FlightType
    <3>2. CASE SignsIn(f)
      BY <1>1, <3>2 DEF SignsIn, OnlyMoves, FlightType
    <3>3. CASE job' = [job EXCEPT ![f].pc = "refused"]
      BY <1>1, <3>3 DEF OnlyMoves, FlightType
    <3> QED
      BY <1>7, <3>1, <3>2, <3>3 DEF loginRead, googleAuthCallback
  <2> QED
    BY <1>2, <2>1, <2>2, HandlerKeepsAlarm DEF Spent
<1>8. CASE HandlerFails(f)
  <2> DEFINE p == IF job[f].kind \in Rotations THEN "denied" ELSE "refused"
  <2>1. row' = row /\ job' = [job EXCEPT ![f].pc = p] /\ job[f].pc \in {"rotate", "mint"}
    BY <1>8 DEF HandlerFails
  <2>2. OnlyMoves(f) /\ job'[f].tok = job[f].tok /\ job'[f].pc = p
    BY <1>1, <2>1 DEF OnlyMoves, FlightType
  <2>3. job[f].tok # NoToken => job[f].kind \in Rotations
    BY <1>1, <2>1 DEF FlightOK, Rotations
  <2> QED
    BY <1>2, <2>1, <2>2, <2>3, HandlerKeepsAlarm DEF Spent, Answers
<1> QED
  BY <1>3, <1>4, <1>5, <1>6, <1>7, <1>8

LEMMA StepKeepsAlarm == Wf /\ AlarmInv /\ [Next]_vars => AlarmInv'
<1> SUFFICES ASSUME Wf, AlarmInv, [Next]_vars PROVE AlarmInv'
  OBVIOUS
<1> USE DEF serverVars, jarVars, tabVars, sendVars, chainVars, sweepVars
<1>1. ASSUME NEW f \in Flights, HandlerStep(f) \/ HandlerFails(f) \/ AnswerLost(f) PROVE AlarmInv'
  BY <1>1, HandlersKeepAlarm, MintKeepsAlarm, AnswerLostKeepsAlarm DEF HandlerStep
<1>2. ASSUME NEW t \in Tabs, TabStep(t) PROVE AlarmInv'
  <2>1. CASE Starts(t)
    <3>1. /\ SendOnly
          /\ (UNCHANGED <<job, requests, tainted>> \/ \E f \in Flights : Sends(f))
      BY <2>1, StartsSend
    <3> QED
      BY <3>1, SendsKeepsAlarm, AccountKeepsAlarm DEF SendOnly, Spent
  <2>2. CASE Takes(t)
    BY <2>2, TakesArrive, ArrivesKeepsAlarm
  <2> QED
    BY <1>2, <2>1, <2>2 DEF TabStep, Starts, Takes
<1>3. ASSUME NEW u \in Users, \/ resetPassword(u) \/ resetList(u) \/ resetDies(u)
                              \/ banUser(u) \/ unbanUser(u)
      PROVE  AlarmInv'
  <2>1. UNCHANGED <<row, jarOf, cookie, tainted, job>>
    BY <1>3 DEF resetPassword, resetList, resetDies, banUser, unbanUser
  <2> QED
    BY <2>1, AccountKeepsAlarm DEF Spent
<1>4. ASSUME NEW u \in Users, resetRevoke(u) PROVE AlarmInv'
  <2>1. UNCHANGED <<jarOf, cookie, tainted, job>> /\ RevokeRows(reset[u].list, "sweep")
    BY <1>4 DEF resetRevoke
  <2>2. reset[u].list \subseteq Used
    BY DEF Wf, ResetsOK, TypeOK, Used
  <2>3. \A t \in Tokens : Spent(t)' => Spent(t)
    BY <2>1, <2>2, RevokeSpends
  <2> QED
    BY <2>1, <2>3, AccountKeepsAlarm
<1>5. CASE UNCHANGED vars
  BY <1>5, AccountKeepsAlarm DEF vars, Spent
<1> QED
  BY <1>1, <1>2, <1>3, <1>4, <1>5 DEF Next

LEMMA InitAlarm == Init => AlarmInv
<1> SUFFICES ASSUME Init PROVE AlarmInv
  OBVIOUS
<1>1. \A f \in Flights : job[f].pc = "idle" /\ job[f].tok = NoToken
  BY DEF Init, Idle
<1>2. \A j \in Jars : cookie[j] = NoToken
  BY DEF Init
<1>3. NoToken \notin Tokens
  BY DEF Tokens, NoToken
<1> QED
  BY <1>1, <1>2, <1>3 DEF AlarmInv, OneBrowser, HasToken, AnswersAreFresh, SharedIsTainted,
     SpentIsTainted, SpentIsAnswered

\* Only the read of a revoked token raises the alarm.
LEMMA AlarmIsRead ==
    ASSUME Wf, [Next]_vars, NEW f \in Flights, job[f].pc = "sent", job'[f].pc = "alarm"
    PROVE  refreshAccessTokenRead(f) /\ row[job[f].tok].st = "revoked" /\ job[f].tok # NoToken
<1> USE DEF serverVars, jarVars, tabVars, sendVars, chainVars, sweepVars
<1>1. job \in [Flights -> FlightType]
  BY DEF Wf, FlightsOK
<1>2. ~UNCHANGED job
  OBVIOUS
<1>3. ASSUME NEW t \in Tabs, TabStep(t) PROVE FALSE
  <2>1. CASE Starts(t)
    BY <1>1, <1>2, <2>1, StartsSend DEF Sends, OnlyMoves
  <2>2. CASE Takes(t)
    BY <1>1, <2>2, TakesArrive DEF Arrives, Idle
  <2> QED
    BY <1>3, <2>1, <2>2 DEF TabStep, Starts, Takes
<1>4. ASSUME NEW u \in Users, \/ resetPassword(u) \/ resetList(u) \/ resetRevoke(u)
                              \/ resetDies(u) \/ banUser(u) \/ unbanUser(u)
      PROVE  FALSE
  BY <1>2, <1>4 DEF resetPassword, resetList, resetRevoke, resetDies, banUser, unbanUser
<1>5. PICK g \in Flights : HandlerStep(g) \/ HandlerFails(g) \/ AnswerLost(g)
  BY <1>2, <1>3, <1>4 DEF Next, vars
<1>6. CASE refreshAccessTokenRead(g)
  <2>1. g = f
    BY <1>1, <1>6 DEF refreshAccessTokenRead
  <2>2. job[f] \in FlightType
    BY <1>1
  <2>3. \A p \in Pcs : job' = [job EXCEPT ![f].pc = p] => job'[f].pc = p
    BY <1>1, <2>2 DEF FlightType
  <2>4. ~(job' = [job EXCEPT ![f].pc = "missing"]) /\ ~(job' = [job EXCEPT ![f].pc = "denied"])
    BY <2>3 DEF Pcs
  <2>5. ~(job' = [job EXCEPT ![f].pc = "rotate", ![f].who = row[job[f].tok].owner,
                             ![f].seen = gen[row[job[f].tok].owner],
                             ![f].calm = ~Sweeping(row[job[f].tok].owner)])
    BY <1>1, <2>2 DEF FlightType
  <2> QED
    BY <1>6, <2>1, <2>4, <2>5 DEF refreshAccessTokenRead
<1>7. CASE refreshExpired(g) \/ rotateWrite(g) \/ revokeRefreshToken(g) \/ HandlerFails(g)
  BY <1>1, <1>7 DEF refreshExpired, rotateWrite, revokeRefreshToken, HandlerFails, FlightType
<1>8. CASE loginRead(g) \/ googleAuthCallback(g)
  BY <1>1, <1>8 DEF loginRead, googleAuthCallback, SignsIn, FlightType
<1>9. CASE alarmList(g) \/ alarmRevoke(g) \/ AnswerLost(g)
  <2>1. CASE alarmList(g)
    BY <1>1, <2>1 DEF alarmList, FlightType
  <2>2. CASE alarmRevoke(g)
    BY <1>1, <2>2 DEF alarmRevoke, FlightType
  <2>3. CASE AnswerLost(g)
    BY <1>1, <2>3 DEF AnswerLost, Idle
  <2> QED
    BY <1>9, <2>1, <2>2, <2>3
<1>10. CASE mint(g)
  <2>1. PICK t \in Tokens \ Used : Minted(g, t)
    BY <1>10, MintIsMinted
  <2>2. job[g].pc = "mint" /\ \A h \in Flights \ {g} : job'[h] = job[h]
    BY <1>1, <1>10, <2>1 DEF mint, Minted
  <2>3. g = f
    BY <2>2
  <2> QED
    BY <2>2, <2>3
<1> QED
  BY <1>5, <1>6, <1>7, <1>8, <1>9, <1>10 DEF HandlerStep

\* A reuse alarm that no sweep caused is raised only for a token that two
\* requests of a browser carried at the same time, or whose answer was lost
\* (refreshAccessToken of auth.service.ts, getOrCreateRefreshPromise of
\* lib/apollo-provider.tsx).
THEOREM AlarmTheorem == Spec => AlarmHasCause
<1> DEFINE A == \A f \in Flights :
                  (job[f].pc = "sent" /\ job'[f].pc = "alarm")
                    => row[job[f].tok].by = "sweep" \/ job[f].tok \in tainted
<1>1. Init => Wf /\ AlarmInv
  BY InitIsWf, InitAlarm
<1>2. Wf /\ AlarmInv /\ [Next]_vars => (Wf /\ AlarmInv)'
  BY StepKeepsWf, StepKeepsAlarm
<1>3. Wf /\ AlarmInv /\ [Next]_vars => A
  <2> SUFFICES ASSUME Wf, AlarmInv, [Next]_vars, NEW f \in Flights,
                      job[f].pc = "sent", job'[f].pc = "alarm", row[job[f].tok].by # "sweep"
               PROVE  job[f].tok \in tainted
    OBVIOUS
  <2>1. Spent(job[f].tok) /\ job[f].tok # NoToken
    BY AlarmIsRead DEF Spent
  <2> QED
    BY <2>1 DEF AlarmInv, SpentIsTainted
<1>4. Spec => [][Wf /\ AlarmInv /\ [Next]_vars]_vars
  BY <1>1, <1>2, PTL DEF Spec
<1>5. Spec => [][A]_vars
  BY <1>3, <1>4, PTL
<1> QED
  BY <1>5 DEF AlarmHasCause

-----------------------------------------------------------------------------
(* One session per sign-in                                                  *)

\* A sign-in has its own row, from which its tokens descend.
IsRoot(r) == row[r].st # "none" /\ row[r].root = r

Allowed(r) == (IF r \in closed THEN 0 ELSE 1) + forks[r]

\* The sets that are counted are finite.
LEMMA CountsOf ==
    ASSUME Wf, NEW r \in Tokens
    PROVE  /\ IsFiniteSet(LiveIn(r)) /\ Cardinality(LiveIn(r)) \in Nat
           /\ IsFiniteSet(Minting(r)) /\ Cardinality(Minting(r)) \in Nat
           /\ Allowed(r) \in Nat
<1>1. LiveIn(r) \in SUBSET Tokens /\ Minting(r) \subseteq Pending
  BY DEF LiveIn, Minting, Pending
<1>2. IsFiniteSet(Minting(r))
  BY <1>1, FS_Subset DEF Wf, CountOK
<1>3. forks[r] \in Nat
  BY DEF Wf, TypeOK
<1> QED
  BY <1>1, <1>2, <1>3, UsedFinite, FS_CardinalityType DEF Allowed

\* A rotation of g that is about to create a token was so before.
MintedBefore(g) ==
    (job'[g].pc = "mint" /\ job'[g].kind \in Rotations)
      => job[g].pc = "mint" /\ job[g].kind \in Rotations /\ job'[g].tok = job[g].tok

\* When no token and no rotation is added, no count grows.
LEMMA QuietSessions ==
    ASSUME Wf, OneSessionPerSignIn, Grows, Used' = Used, UNCHANGED <<closed, forks>>,
           \A t \in Tokens : row'[t].st = "live" => row[t].st = "live",
           \A g \in Flights : MintedBefore(g)
    PROVE  OneSessionPerSignIn'
<1> SUFFICES ASSUME NEW r \in Tokens, IsRoot(r)'
             PROVE  Cardinality(LiveIn(r)') + Cardinality(Minting(r)') <= Allowed(r)'
  BY DEF OneSessionPerSignIn, IsRoot, Allowed
<1>1. IsRoot(r)
  <2>1. r \in Used
    BY DEF IsRoot, Used
  <2> QED
    BY <2>1 DEF IsRoot, Used, Grows
<1>2. LiveIn(r)' \subseteq LiveIn(r)
  BY DEF LiveIn, Grows
<1>3. Minting(r)' \subseteq Minting(r)
  <2> SUFFICES ASSUME NEW g \in Flights, job'[g].pc = "mint", job'[g].kind \in Rotations,
                      row'[job'[g].tok].root = r
               PROVE  g \in Minting(r)
    BY DEF Minting
  <2>1. job[g].pc = "mint" /\ job[g].kind \in Rotations /\ job'[g].tok = job[g].tok
    BY DEF MintedBefore
  <2>2. job[g].tok \in Tokens /\ row[job[g].tok].st # "none"
    BY <2>1 DEF Wf, FlightsOK, FlightOK, FlightType
  <2> QED
    BY <2>1, <2>2 DEF Minting, Grows
<1>4. Cardinality(LiveIn(r)') <= Cardinality(LiveIn(r)) /\ Cardinality(LiveIn(r)') \in Nat
  BY <1>2, CountsOf, FS_Subset, FS_CardinalityType
<1>5. Cardinality(Minting(r)') <= Cardinality(Minting(r)) /\ Cardinality(Minting(r)') \in Nat
  BY <1>3, CountsOf, FS_Subset, FS_CardinalityType
<1>6. Cardinality(LiveIn(r)) + Cardinality(Minting(r)) <= Allowed(r) /\ Allowed(r)' = Allowed(r)
  BY <1>1 DEF OneSessionPerSignIn, IsRoot, Allowed
<1> QED
  BY <1>4, <1>5, <1>6, CountsOf

\* The write of a rotation: a live token makes room for its successor, a token
\* revoked meanwhile is a fork.
LEMMA RotateKeepsSessions ==
    ASSUME Wf, OneSessionPerSignIn, NEW f \in Flights, rotateWrite(f)
    PROVE  OneSessionPerSignIn'
<1> DEFINE c == job[f].tok
           p == row[c].root
<1>1. /\ Grows /\ OnlyMoves(f) /\ job'[f] = [job[f] EXCEPT !.pc = "mint"]
  BY RotateKeepsWf
<1>2. job[f] \in FlightType /\ FlightOK(job[f], row) /\ job[f].pc = "rotate"
  BY DEF Wf, FlightsOK, rotateWrite
<1>3. c \in Tokens /\ row[c].st # "none" /\ p \in Tokens /\ job[f].kind \in Rotations
  BY <1>2 DEF FlightOK, FlightType, Wf, RowsOK
<1>4. /\ job'[f].pc = "mint" /\ job'[f].kind = job[f].kind /\ job'[f].tok = c
      /\ \A g \in Flights \ {f} : job'[g] = job[g]
  BY <1>1, <1>2 DEF FlightType, OnlyMoves, Wf, FlightsOK
<1>5. /\ row'[c].st = "revoked" /\ row'[c].root = p
      /\ \A t \in Tokens \ {c} : row'[t] = row[t]
  <2>1. row[c] \in RowType
    BY <1>3 DEF Wf, RowsOK
  <2> QED
    BY <1>1, <1>3, <2>1 DEF rotateWrite, RevokeRows, RowType, Grows
<1> HIDE DEF p, c
<1>6. /\ forks' = [forks EXCEPT ![p] = IF row[c].st = "live" THEN @ ELSE @ + 1]
      /\ closed' = closed
  BY DEF rotateWrite, p, c
<1> SUFFICES ASSUME NEW r \in Tokens, IsRoot(r)'
             PROVE  Cardinality(LiveIn(r)') + Cardinality(Minting(r)') <= Allowed(r)'
  BY DEF OneSessionPerSignIn, IsRoot, Allowed
<1>7. IsRoot(r)
  BY <1>3, <1>5 DEF IsRoot, p
<1>8. Cardinality(LiveIn(r)) + Cardinality(Minting(r)) <= Allowed(r)
  BY <1>7 DEF OneSessionPerSignIn, IsRoot, Allowed
<1>9. ASSUME NEW g \in Flights PROVE
        g \in Minting(r)' <=> g \in Minting(r) \/ (g = f /\ r = p)
  <2>1. CASE g = f
    BY <1>2, <1>3, <1>4, <1>5, <2>1 DEF Minting
  <2>2. CASE g # f
    <3>1. job'[g] = job[g]
      BY <1>4, <2>2
    <3>2. job[g].pc = "mint" /\ job[g].kind \in Rotations =>
            job[g].tok \in Tokens /\ row'[job[g].tok].root = row[job[g].tok].root
      BY <1>1 DEF Wf, FlightsOK, FlightOK, FlightType, Grows
    <3> QED
      BY <2>2, <3>1, <3>2 DEF Minting
  <2> QED
    BY <2>1, <2>2
<1>10. LiveIn(r)' = LiveIn(r) \ {c}
  BY <1>5 DEF LiveIn
<1>11. CASE r # p
  <2>1. Minting(r)' = Minting(r)
    BY <1>9, <1>11 DEF Minting
  <2>2. c \notin LiveIn(r)
    BY <1>11 DEF LiveIn, p
  <2>3. LiveIn(r)' = LiveIn(r)
    BY <1>10, <2>2
  <2>4. Allowed(r)' = Allowed(r)
    BY <1>6, <1>11 DEF Allowed, Wf, TypeOK
  <2> QED
    BY <1>8, <2>1, <2>3, <2>4
<1>12. CASE r = p
  <2>1. Minting(r)' = Minting(r) \cup {f} /\ f \notin Minting(r)
    BY <1>2, <1>9, <1>12 DEF Minting
  <2>2. Cardinality(Minting(r)') = Cardinality(Minting(r)) + 1
    BY <2>1, CountsOf, FS_AddElement
  <2>3. CASE row[c].st = "live"
    <3>1. c \in LiveIn(r)
      BY <1>3, <1>12, <2>3 DEF LiveIn, p
    <3>2. Cardinality(LiveIn(r)') = Cardinality(LiveIn(r)) - 1
      BY <1>10, <3>1, CountsOf, FS_RemoveElement
    <3>3. Allowed(r)' = Allowed(r)
      BY <1>6, <2>3 DEF Allowed, Wf, TypeOK
    <3> QED
      BY <1>8, <2>2, <3>2, <3>3, CountsOf
  <2>4. CASE row[c].st # "live"
    <3>1. LiveIn(r)' = LiveIn(r)
      BY <1>10, <2>4 DEF LiveIn
    <3>2. forks'[r] = forks[r] + 1
      BY <1>3, <1>6, <1>12, <2>4 DEF Wf, TypeOK
    <3>3. forks[r] \in Nat
      BY DEF Wf, TypeOK
    <3>4. Allowed(r)' = Allowed(r) + 1
      BY <1>6, <3>2, <3>3 DEF Allowed
    <3> QED
      BY <1>8, <2>2, <3>1, <3>4, CountsOf
  <2> QED
    BY <2>3, <2>4
<1> QED
  BY <1>11, <1>12

\* The sign-out: a live token goes with the sign-in that is closed.
LEMMA LogoutKeepsSessions ==
    ASSUME Wf, OneSessionPerSignIn, NEW f \in Flights, revokeRefreshToken(f)
    PROVE  OneSessionPerSignIn'
<1> DEFINE c == job[f].tok
           p == row[c].root
<1>1. /\ Wf' /\ Grows /\ OnlyMoves(f) /\ job'[f] = [job[f] EXCEPT !.pc = "out"]
  BY LogoutRevokesKeepsWf
<1>2. job[f] \in FlightType /\ FlightOK(job[f], row) /\ job[f].pc = "sent"
  BY DEF Wf, FlightsOK, revokeRefreshToken
<1>3. job'[f].pc = "out" /\ \A g \in Flights \ {f} : job'[g] = job[g]
  BY <1>1, <1>2 DEF FlightType, OnlyMoves, Wf, FlightsOK
<1>4. \A g \in Flights : MintedBefore(g)
  BY <1>3 DEF MintedBefore
<1>5. CASE c = NoToken
  <2>1. row' = row /\ closed' = closed /\ forks' = forks
    BY <1>5 DEF revokeRefreshToken
  <2>2. Used' = Used
    BY <2>1, RowsStay DEF Wf
  <2> QED
    BY <1>1, <1>4, <2>1, <2>2, QuietSessions
<1>6. CASE c # NoToken
  <2>1. c \in Tokens /\ row[c].st # "none" /\ p \in Tokens
    BY <1>2, <1>6 DEF FlightOK, FlightType, Wf, RowsOK
  <2>2. /\ row'[c].st # "live" /\ row'[c].root = p /\ row'[c].st # "none"
        /\ \A t \in Tokens \ {c} : row'[t] = row[t]
    <3>1. row[c] \in RowType
      BY <2>1 DEF Wf, RowsOK
    <3>2. RevokeRows({c} \cap LiveOf(row[c].owner), "logout")
      BY <1>6 DEF revokeRefreshToken
    <3>3. \A t \in Tokens \ {c} : row'[t] = row[t]
      BY <3>2 DEF RevokeRows
    <3>4. CASE row[c].st = "live"
      <4>1. c \in LiveOf(row[c].owner)
        BY <2>1, <3>4 DEF LiveOf
      <4>2. row'[c].st = "revoked"
        BY <2>1, <3>1, <3>2, <4>1 DEF RevokeRows, RowType
      <4> QED
        BY <1>1, <2>1, <3>3, <4>2 DEF Grows
    <3>5. CASE row[c].st # "live"
      <4>1. row'[c] = row[c]
        BY <2>1, <3>2, <3>5 DEF RevokeRows, LiveOf
      <4> QED
        BY <2>1, <3>3, <3>5, <4>1
    <3> QED
      BY <3>4, <3>5
  <2>3. /\ forks' = [forks EXCEPT ![p] = IF row[c].st = "live" THEN @ ELSE @ + 1]
        /\ closed' = closed \cup {p}
    BY <1>6 DEF revokeRefreshToken
  <2> HIDE DEF p, c
  <2> SUFFICES ASSUME NEW r \in Tokens, IsRoot(r)'
               PROVE  Cardinality(LiveIn(r)') + Cardinality(Minting(r)') <= Allowed(r)'
    BY DEF OneSessionPerSignIn, IsRoot, Allowed
  <2>4. IsRoot(r)
    BY <2>1, <2>2 DEF IsRoot, p
  <2>5. Cardinality(LiveIn(r)) + Cardinality(Minting(r)) <= Allowed(r)
    BY <2>4 DEF OneSessionPerSignIn, IsRoot, Allowed
  <2>6. LiveIn(r)' = LiveIn(r) \ {c}
    BY <2>2 DEF LiveIn
  <2>7. Minting(r)' \subseteq Minting(r)
    <3> SUFFICES ASSUME NEW g \in Flights, job'[g].pc = "mint", job'[g].kind \in Rotations,
                        row'[job'[g].tok].root = r
                 PROVE  g \in Minting(r)
      BY DEF Minting
    <3>1. job[g].pc = "mint" /\ job[g].kind \in Rotations /\ job'[g].tok = job[g].tok
      BY <1>4 DEF MintedBefore
    <3>2. job[g].tok \in Tokens /\ row[job[g].tok].st # "none"
      BY <3>1 DEF Wf, FlightsOK, FlightOK, FlightType
    <3> QED
      BY <1>1, <3>1, <3>2 DEF Minting, Grows
  <2>8. Cardinality(Minting(r)') <= Cardinality(Minting(r)) /\ Cardinality(Minting(r)') \in Nat
    BY <2>7, CountsOf, FS_Subset, FS_CardinalityType
  <2>9. forks[r] \in Nat
    BY DEF Wf, TypeOK
  <2>10. CASE r # p
    <3>1. c \notin LiveIn(r)
      BY <2>10 DEF LiveIn, p
    <3>2. LiveIn(r)' = LiveIn(r)
      BY <2>6, <3>1
    <3>3. Allowed(r)' = Allowed(r)
      BY <2>3, <2>10 DEF Allowed, Wf, TypeOK
    <3> QED
      BY <2>5, <2>8, <3>2, <3>3, CountsOf
  <2>11. CASE r = p /\ row[c].st = "live"
    <3>1. c \in LiveIn(r)
      BY <2>1, <2>11 DEF LiveIn, p
    <3>2. Cardinality(LiveIn(r)') = Cardinality(LiveIn(r)) - 1
      BY <2>6, <3>1, CountsOf, FS_RemoveElement
    <3>3. forks'[r] = forks[r]
      BY <2>3, <2>11 DEF Wf, TypeOK
    <3>4. Allowed(r) <= Allowed(r)' + 1
      BY <2>3, <2>9, <3>3 DEF Allowed
    <3>5. Allowed(r)' \in Nat
      BY <1>1 DEF Allowed, Wf, TypeOK
    <3> QED
      BY <2>5, <2>8, <3>2, <3>4, <3>5, CountsOf
  <2>12. CASE r = p /\ row[c].st # "live"
    <3>1. LiveIn(r)' = LiveIn(r)
      BY <2>6, <2>12 DEF LiveIn
    <3>2. forks'[r] = forks[r] + 1
      BY <2>1, <2>3, <2>12 DEF Wf, TypeOK
    <3>3. Allowed(r) <= Allowed(r)'
      BY <2>3, <2>9, <3>2 DEF Allowed
    <3>5. Allowed(r)' \in Nat
      BY <1>1 DEF Allowed, Wf, TypeOK
    <3> QED
      BY <2>5, <2>8, <3>1, <3>3, <3>5, CountsOf
  <2> QED
    BY <2>10, <2>11, <2>12
<1> QED
  BY <1>5, <1>6

\* The token that a rotation creates takes the place the rotation held; a
\* sign-in opens a root of its own.
LEMMA MintKeepsSessions ==
    ASSUME Wf, OneSessionPerSignIn, NEW f \in Flights, mint(f) PROVE OneSessionPerSignIn'
<1>1. PICK t \in Tokens \ Used : Minted(f, t)
  BY MintIsMinted
<1> DEFINE n == NewRow(f, t)
<1>2. /\ Grows /\ OnlyMoves(f)
      /\ job'[f] = [job[f] EXCEPT !.pc = "granted", !.new = t, !.seen = 0, !.calm = TRUE]
  BY <1>1, MintKeepsWf
<1>3. job[f] \in FlightType /\ FlightOK(job[f], row) /\ job[f].pc = "mint"
  BY DEF Wf, FlightsOK, mint
<1>4. job'[f].pc = "granted" /\ \A g \in Flights \ {f} : job'[g] = job[g]
  BY <1>2, <1>3 DEF FlightType, OnlyMoves, Wf, FlightsOK
<1>5. row'[t] = n /\ \A s \in Tokens \ {t} : row'[s] = row[s]
  BY <1>1 DEF Minted, Wf, RowsOK
<1>6. row[t].st = "none" /\ \A s \in Tokens : row[s].st # "none" => row[s].root # t
  BY DEF Used, Wf, RowsOK
<1>7. UNCHANGED <<closed, forks>>
  BY DEF mint, chainVars
<1>8. /\ n.st = "live"
      /\ n.root = IF job[f].kind \in Rotations THEN row[job[f].tok].root ELSE t
  BY DEF NewRow
<1>9. job[f].kind \in Rotations => /\ job[f].tok \in Tokens \ {t}
                                   /\ row[job[f].tok].st # "none"
                                   /\ row[job[f].tok].root \in Tokens \ {t}
  BY <1>3, <1>6 DEF FlightOK, FlightType, Wf, RowsOK
<1> HIDE DEF n
<1> SUFFICES ASSUME NEW r \in Tokens, IsRoot(r)'
             PROVE  Cardinality(LiveIn(r)') + Cardinality(Minting(r)') <= Allowed(r)'
  BY DEF OneSessionPerSignIn, IsRoot, Allowed
<1>10. ASSUME NEW g \in Flights PROVE g \in Minting(r)' <=> g \in Minting(r) \ {f}
  <2>1. CASE g = f
    BY <1>4, <2>1 DEF Minting
  <2>2. CASE g # f
    <3>1. job'[g] = job[g]
      BY <1>4, <2>2
    <3>2. job[g].pc = "mint" /\ job[g].kind \in Rotations =>
            job[g].tok \in Tokens /\ row'[job[g].tok].root = row[job[g].tok].root
      BY <1>2 DEF Wf, FlightsOK, FlightOK, FlightType, Grows
    <3> QED
      BY <2>2, <3>1, <3>2 DEF Minting
  <2> QED
    BY <2>1, <2>2
<1>11. Minting(r)' = Minting(r) \ {f}
  BY <1>10 DEF Minting
<1>12. Allowed(r)' = Allowed(r)
  BY <1>7 DEF Allowed
<1>13. LiveIn(r)' = LiveIn(r) \cup (IF n.root = r THEN {t} ELSE {})
  BY <1>5, <1>6, <1>8 DEF LiveIn
<1>14. t \notin LiveIn(r)
  BY <1>6 DEF LiveIn
<1>15. CASE r = t
  <2>1. LiveIn(r) = {} /\ Minting(r) = {}
    <3>1. LiveIn(r) = {}
      BY <1>6, <1>15 DEF LiveIn
    <3>2. ASSUME NEW g \in Minting(r) PROVE FALSE
      <4>1. g \in Flights /\ job[g].tok \in Tokens /\ row[job[g].tok].st # "none"
        BY <3>2 DEF Minting, Wf, FlightsOK, FlightOK, FlightType
      <4> QED
        BY <1>6, <1>15, <3>2, <4>1 DEF Minting
    <3> QED
      BY <3>1, <3>2
  <2>2. LiveIn(r)' \in {{}, {t}} /\ Minting(r)' = {}
    BY <1>11, <1>13, <2>1
  <2>3. Cardinality(LiveIn(r)') \in {0, 1} /\ Cardinality(Minting(r)') = 0
    BY <2>2, FS_EmptySet, FS_Singleton
  <2>4. t \notin closed /\ forks[t] \in Nat
    BY <1>6 DEF Wf, ClosedOK, TypeOK
  <2> QED
    BY <1>12, <1>15, <2>3, <2>4 DEF Allowed
<1>16. CASE r # t
  <2>1. IsRoot(r)
    BY <1>5, <1>16 DEF IsRoot
  <2>2. Cardinality(LiveIn(r)) + Cardinality(Minting(r)) <= Allowed(r)
    BY <2>1 DEF OneSessionPerSignIn, IsRoot, Allowed
  <2>3. CASE n.root = r
    <3>1. f \in Minting(r)
      BY <1>3, <1>8, <1>16, <2>3 DEF Minting
    <3>2. Cardinality(Minting(r)') = Cardinality(Minting(r)) - 1
      BY <1>11, <3>1, CountsOf, FS_RemoveElement
    <3>3. LiveIn(r)' = LiveIn(r) \cup {t}
      BY <1>13, <2>3
    <3>4. Cardinality(LiveIn(r)') = Cardinality(LiveIn(r)) + 1
      BY <1>14, <3>3, CountsOf, FS_AddElement
    <3> QED
      BY <1>12, <2>2, <3>2, <3>4, CountsOf
  <2>4. CASE n.root # r
    <3>1. LiveIn(r)' = LiveIn(r)
      BY <1>13, <2>4
    <3>2. Minting(r)' \subseteq Minting(r)
      BY <1>11
    <3>3. Cardinality(Minting(r)') <= Cardinality(Minting(r)) /\ Cardinality(Minting(r)') \in Nat
      BY <3>2, CountsOf, FS_Subset, FS_CardinalityType
    <3> QED
      BY <1>12, <2>2, <3>1, <3>3, CountsOf
  <2> QED
    BY <2>3, <2>4
<1> QED
  BY <1>15, <1>16

LEMMA StepKeepsSessions == Wf /\ OneSessionPerSignIn /\ [Next]_vars => OneSessionPerSignIn'
<1> SUFFICES ASSUME Wf, OneSessionPerSignIn, [Next]_vars PROVE OneSessionPerSignIn'
  OBVIOUS
<1> USE DEF serverVars, jarVars, tabVars, sendVars, chainVars, sweepVars
<1>1. job \in [Flights -> FlightType] /\ \A f \in Flights : FlightOK(job[f], row)
  BY DEF Wf, FlightsOK
<1>2. row' = row => Grows /\ Used' = Used
  BY RowsStay DEF Wf
<1>3. ASSUME NEW f \in Flights, \A g \in Flights \ {f} : job'[g] = job[g],
             job'[f].pc # "mint" \/ job'[f].kind \notin Rotations
      PROVE  \A g \in Flights : MintedBefore(g)
  BY <1>3 DEF MintedBefore
<1>4. ASSUME NEW f \in Flights, \/ refreshAccessTokenRead(f) \/ refreshExpired(f) \/ alarmList(f)
                                \/ loginRead(f) \/ googleAuthCallback(f) \/ HandlerFails(f)
                                \/ AnswerLost(f)
      PROVE  OneSessionPerSignIn'
  <2>1. row' = row /\ closed' = closed /\ forks' = forks
    BY <1>4 DEF refreshAccessTokenRead, refreshExpired, alarmList, loginRead, googleAuthCallback,
       HandlerFails, AnswerLost
  <2>2. \A g \in Flights \ {f} : job'[g] = job[g]
    BY <1>1, <1>4 DEF refreshAccessTokenRead, refreshExpired, alarmList, loginRead, SignsIn,
       googleAuthCallback, HandlerFails, AnswerLost
  <2>3. CASE loginRead(f) \/ googleAuthCallback(f)
    <3>1. job'[f].kind = job[f].kind /\ job[f].kind \notin Rotations
      BY <1>1, <2>3 DEF loginRead, googleAuthCallback, SignsIn, FlightType, Rotations
    <3> QED
      BY <1>2, <1>3, <2>1, <2>2, <3>1, QuietSessions
  <2>4. CASE AnswerLost(f)
    <3>1. job'[f].pc = "lost"
      BY <1>1, <2>4 DEF AnswerLost, Idle
    <3> QED
      BY <1>2, <1>3, <2>1, <2>2, <3>1, QuietSessions
  <2>5. CASE alarmList(f) \/ HandlerFails(f) \/ refreshExpired(f)
    <3>1. job'[f].pc # "mint"
      BY <1>1, <2>5 DEF alarmList, HandlerFails, refreshExpired, FlightType
    <3> QED
      BY <1>2, <1>3, <2>1, <2>2, <3>1, QuietSessions
  <2>6. CASE refreshAccessTokenRead(f)
    <3>1. CASE job' = [job EXCEPT ![f].pc = "missing"] \/ job' = [job EXCEPT ![f].pc = "denied"]
      <4>1. job'[f].pc # "mint"
        BY <1>1, <3>1 DEF FlightType
      <4> QED
        BY <1>2, <1>3, <2>1, <2>2, <4>1, QuietSessions
    <3>2. CASE job' = [job EXCEPT ![f].pc = "alarm", ![f].who = row[job[f].tok].owner]
      <4>1. job'[f].pc # "mint"
        BY <1>1, <3>2 DEF FlightType
      <4> QED
        BY <1>2, <1>3, <2>1, <2>2, <4>1, QuietSessions
    <3>3. CASE job' = [job EXCEPT ![f].pc = "rotate", ![f].who = row[job[f].tok].owner,
                                  ![f].seen = gen[row[job[f].tok].owner],
                                  ![f].calm = ~Sweeping(row[job[f].tok].owner)]
      <4>1. job'[f].pc # "mint"
        BY <1>1, <3>3 DEF FlightType
      <4> QED
        BY <1>2, <1>3, <2>1, <2>2, <4>1, QuietSessions
    <3> QED
      BY <2>6, <3>1, <3>2, <3>3 DEF refreshAccessTokenRead
  <2> QED
    BY <1>4, <2>3, <2>4, <2>5, <2>6
<1>5. ASSUME NEW f \in Flights, alarmRevoke(f) PROVE OneSessionPerSignIn'
  <2>1. /\ UNCHANGED <<closed, forks>> /\ RevokeRows(job[f].list, "sweep")
        /\ job[f].list \subseteq Used
    BY <1>1, <1>5 DEF alarmRevoke, Used, FlightOK, FlightType
  <2>2. Grows /\ Used' = Used /\ \A t \in Tokens : row'[t].st = "live" => row[t].st = "live"
    BY <2>1, RevokeKeeps, RevokeRevivesNone DEF Wf
  <2>3. job'[f].pc # "mint" /\ \A g \in Flights \ {f} : job'[g] = job[g]
    BY <1>1, <1>5 DEF alarmRevoke, FlightType
  <2> QED
    BY <1>3, <2>1, <2>2, <2>3, QuietSessions
<1>6. ASSUME NEW f \in Flights, HandlerStep(f) \/ HandlerFails(f) \/ AnswerLost(f)
      PROVE  OneSessionPerSignIn'
  BY <1>4, <1>5, <1>6, RotateKeepsSessions, MintKeepsSessions, LogoutKeepsSessions DEF HandlerStep
<1>7. ASSUME NEW t \in Tabs, TabStep(t) PROVE OneSessionPerSignIn'
  <2>1. CASE Starts(t)
    <3>1. SendOnly /\ (job' = job \/ \E f \in Flights : Sends(f))
      BY <2>1, StartsSend
    <3>2. \A g \in Flights : MintedBefore(g)
      BY <1>1, <3>1 DEF MintedBefore, Sends, OnlyMoves
    <3> QED
      BY <1>2, <3>1, <3>2, QuietSessions DEF SendOnly
  <2>2. CASE Takes(t)
    <3>1. PICK f \in Flights : Arrives(f)
      BY <2>2, TakesArrive
    <3>2. row' = row /\ closed' = closed /\ forks' = forks
      BY <2>2, TakesArrive
    <3>3. job'[f].pc # "mint" /\ \A g \in Flights \ {f} : job'[g] = job[g]
      BY <1>1, <3>1 DEF Arrives, Idle
    <3> QED
      BY <1>2, <1>3, <3>2, <3>3, QuietSessions
  <2> QED
    BY <1>7, <2>1, <2>2 DEF TabStep, Starts, Takes
<1>8. ASSUME NEW u \in Users, \/ resetPassword(u) \/ resetList(u) \/ resetDies(u)
                              \/ banUser(u) \/ unbanUser(u)
      PROVE  OneSessionPerSignIn'
  <2>1. row' = row /\ job' = job /\ closed' = closed /\ forks' = forks
    BY <1>8 DEF resetPassword, resetList, resetDies, banUser, unbanUser
  <2>2. \A g \in Flights : MintedBefore(g)
    BY <2>1 DEF MintedBefore
  <2> QED
    BY <1>2, <2>1, <2>2, QuietSessions
<1>9. ASSUME NEW u \in Users, resetRevoke(u) PROVE OneSessionPerSignIn'
  <2>1. /\ UNCHANGED <<closed, forks, job>> /\ RevokeRows(reset[u].list, "sweep")
        /\ reset[u].list \subseteq Used
    BY <1>9 DEF resetRevoke, Used, Wf, ResetsOK, TypeOK
  <2>2. Grows /\ Used' = Used /\ \A t \in Tokens : row'[t].st = "live" => row[t].st = "live"
    BY <2>1, RevokeKeeps, RevokeRevivesNone DEF Wf
  <2>3. \A g \in Flights : MintedBefore(g)
    BY <2>1 DEF MintedBefore
  <2> QED
    BY <2>1, <2>2, <2>3, QuietSessions
<1>10. CASE UNCHANGED vars
  BY <1>10 DEF vars, OneSessionPerSignIn, LiveIn, Minting
<1> QED
  BY <1>6, <1>7, <1>8, <1>9, <1>10 DEF Next

\* One sign-in has one live refresh token, and none after its sign-out, up to
\* the rotations and sign-outs that raced on a token another one had revoked
\* (refreshAccessToken and revokeRefreshToken of auth.service.ts).
THEOREM SessionTheorem == Spec => []OneSessionPerSignIn
<1>1. Init => Wf /\ OneSessionPerSignIn
  BY InitIsWf DEF Init, OneSessionPerSignIn, NoRow
<1>2. Wf /\ OneSessionPerSignIn /\ [Next]_vars => (Wf /\ OneSessionPerSignIn)'
  BY StepKeepsWf, StepKeepsSessions
<1> QED
  BY <1>1, <1>2, PTL DEF Spec
=============================================================================
