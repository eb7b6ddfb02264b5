-------------------------- MODULE SocialPromotions --------------------------
(***************************************************************************)
(* Verifiable social promotion: drafts and posts, the worker's validation  *)
(* and settlement jobs, the admin's two operations, attribution of clicks, *)
(* registrations and purchases, and the bonus grants with their use in a   *)
(* ticket purchase.                                                        *)
(* Source: backend/src/social-promotions/social-promotions.service.ts,     *)
(* social-promotion-worker.service.ts, tickets/tickets.service.ts.         *)
(*                                                                         *)
(* A job step is what the worker does between two awaits that matter; a    *)
(* prisma.$transaction is one step.  Scores are integers: engagement and   *)
(* the weights of the events in thousandths, totals in hundredths.         *)
(***************************************************************************)
EXTENDS Integers, Sequences, FiniteSets

CONSTANTS
    Drafts,      \* SocialPromotionDraft rows; a post is named by its draft
    Raffles,
    RaffleOf,    \* RaffleOf[d]: the raffle a draft promotes
    NetworkOf,   \* NetworkOf[d]: the network of a draft
    Users,       \* users that may register through a tracking link
    Validators,  \* runs of processDueSocialPromotionPosts that may overlap
    Settlers,    \* runs of settleClosedSocialPromotionPosts that may overlap
    Checkouts,   \* ticket purchases; each has its own purchaseReference
    TokenOf,     \* TokenOf[c]: the promotionToken a purchase brings, or None
    Engagements, \* engagement scores a page may show
    Tiers,       \* the minScore of the bonus tiers
    Batch,       \* the posts one validation run takes
    MaxTickets,  \* bound: tickets of a purchase
    Bounds,      \* bounds of a behaviour, one of which it keeps to (Bound)
    None         \* no post, no settlement, no tier, no metrics

\* Who takes part, the engagement a page may show, the clicks and registrations
\* of a post, the runs and purchases at the same time, and the disturbances:
\* operations of the admins, failed or unanswered database calls, and crashes.
Bound == [who : SUBSET (Drafts \cup Raffles \cup Users \cup Validators \cup Settlers
                        \cup Checkouts),
          pages : SUBSET Engagements, events : Nat, overlap : Nat, disturbances : Nat]

ASSUME PromotionConstants ==
    /\ RaffleOf \in [Drafts -> Raffles] /\ DOMAIN NetworkOf = Drafts
    /\ Drafts # {} /\ None \notin Drafts
    /\ TokenOf \in [Checkouts -> Drafts \cup {None}]
    /\ Engagements \subseteq Nat /\ 0 \in Engagements /\ IsFiniteSet(Engagements)
    /\ Tiers \subseteq Nat /\ IsFiniteSet(Tiers) /\ None \notin Nat
    /\ Batch \in Nat \ {0} /\ MaxTickets \in Nat \ {0}
    /\ IsFiniteSet(Users) /\ Bounds \subseteq Bound

VARIABLES
    estado,      \* the raffle: "ACTIVA", "CLOSED" (COMPLETADA, SORTEADA,
                 \* EN_ENTREGA, FINALIZADA) or "CANCELADA"
    draft,       \* "NONE", "OPEN" or "EXPIRED"
    submitting,  \* drafts whose submission passed its checks
    submitted,   \* the posts in the order of submittedAt
    status,      \* SocialPromotionPost.status, "NONE": no post
    due,         \* nextCheckAt <= now
    snapshot,    \* the latest SocialPromotionMetricSnapshot
    clicks, registered, tickets,    \* attribution events of the post
    settlement,  \* PromotionScoreSettlement.totalScore of the post
    grant,       \* the PromotionBonusGrant of the post's settlement
    grants,      \* how many grants were ever created for the post
    redemption,  \* status of the checkout's PromotionBonusRedemption
    check,       \* the validation runs
    settle,      \* the settlement runs
    checkout,    \* the purchases
    acts,        \* operations of the admins so far
    faults,      \* faults so far
    bound        \* the bounds of this behaviour

postVars  == <<draft, submitting, submitted, status, due, snapshot>>
eventVars == <<clicks, registered, tickets>>
bonusVars == <<settlement, grant, grants, redemption>>
jobVars   == <<check, settle, checkout>>
vars == <<estado, postVars, eventVars, bonusVars, jobVars, acts, faults, bound>>

-----------------------------------------------------------------------------
Posts == {d \in Drafts : status[d] # "NONE"}

PostStatus  == {"NONE", "PENDING_VALIDATION", "ACTIVE", "TECHNICAL_REVIEW",
                "DISQUALIFIED", "SETTLED"}
GrantStatus == {"NONE", "AVAILABLE", "RESERVED", "USED"}

\* getAttributedMetrics: events by type, purchases weighted by their tickets.
getAttributedMetrics(p) == [clicks        |-> clicks[p],
                            registrations |-> Cardinality(registered[p]),
                            tickets       |-> tickets[p]]
Metrics == [clicks : Nat, registrations : Nat, tickets : Nat]

\* A snapshot counts when the page was accessible and held the token.  What
\* the others record is never used, so they are all the same here.
Snapshot == [valid : BOOLEAN, engagement : Engagements, metrics : Metrics]
Invalid  == [valid |-> FALSE, engagement |-> 0,
             metrics |-> [clicks |-> 0, registrations |-> 0, tickets |-> 0]]

\* What a loaded and parsed page says; None when it shows no metrics.
Reading == [valid : BOOLEAN, engagement : Engagements \cup {None}]

\* retryWithBrowserForVisibleMetrics: a valid first reading without metrics is
\* replaced by the browser's when that one is valid and shows metrics (without
\* metrics the two readings say the same).
retryWithBrowser(first, browser) ==
    IF first.valid /\ first.engagement = None /\ browser.valid THEN browser ELSE first

\* The metrics a page does not show count as 0.
EngagementScore(reading) == IF reading.engagement = None THEN 0 ELSE reading.engagement

\* totalScore: 10 points, plus engagement, plus the weighted events, rounded
\* to hundredths by toFixed(2).
TotalScore(engagement, m) ==
    (10000 + engagement + 100 * m.clicks + 3000 * m.registrations
           + 1500 * m.tickets + 5) \div 10

\* Mutant: the tiers are searched in ascending order.
MutLowestTier(score) ==
    {t \in Tiers : t <= score /\ \A u \in Tiers : u <= score => t <= u}

\* The tier of a score, the empty set when it reaches none: getBonusTiers sorts
\* by descending minScore and find takes the first that fits.
BonusTier(score) ==
    {t \in Tiers : t <= score /\ \A u \in Tiers : u <= score => u <= t}

NoGrant == [status |-> "NONE", tier |-> None, expired |-> FALSE]

AnyDraft == CHOOSE d \in Drafts : TRUE

\* A validation run: its list, the post it works on, and what it read.
Check == [pc : {"idle", "next", "persist", "review"}, todo : SUBSET Drafts,
          p : Drafts, found : Snapshot]
IdleCheck == [pc |-> "idle", todo |-> {}, p |-> AnyDraft, found |-> Invalid]

\* A settlement run: its list, the post it works on, and the score it computed.
Settle == [pc : {"idle", "next", "disqualify", "settlement", "grant", "mark"},
           todo : SUBSET Drafts, p : Drafts, score : Nat]
IdleSettle == [pc |-> "idle", todo |-> {}, p |-> AnyDraft, score |-> 0]

\* A purchase: the grant it brings and its tickets.
Checkout == [pc : {"idle", "mark", "attribute", "commit", "done"},
             grant : Drafts \cup {None}, n : Nat]
NewCheckout == [pc |-> "idle", grant |-> None, n |-> 0]

\* Between two posts only the list is left; with an empty list the run returns.
NextCheck(todo)  == IF todo = {} THEN IdleCheck
                    ELSE [IdleCheck EXCEPT !.pc = "next", !.todo = todo]
NextSettle(todo) == IF todo = {} THEN IdleSettle
                    ELSE [IdleSettle EXCEPT !.pc = "next", !.todo = todo]

CheckBecomes(v, state)  == check' = [check EXCEPT ![v] = state]
SettleBecomes(s, state) == settle' = [settle EXCEPT ![s] = state]
CheckoutGoTo(c, pc)     == checkout' = [checkout EXCEPT ![c].pc = pc]

\* The bound on what runs at the same time, asked of whatever starts.
MayStart(x) ==
    /\ x \in bound.who
    /\ Cardinality({v \in Validators : check[v].pc # "idle"})
         + Cardinality({s \in Settlers : settle[s].pc # "idle"})
         + Cardinality({c \in Checkouts : checkout[c].pc \notin {"idle", "done"}})
         < bound.overlap

\* The bound on what goes wrong and on what the admins do.
MayDisturb == acts + faults < bound.disturbances

\* withPrismaReconnect: a call that still fails after the retry throws, and it
\* may have been applied although it was never answered.
Answered(ok) == /\ ok \/ MayDisturb
                /\ faults' = IF ok THEN faults ELSE faults + 1

Init ==
    /\ estado     = [r \in Raffles |-> "ACTIVA"]
    /\ draft      = [d \in Drafts |-> "NONE"]
    /\ submitting = {}
    /\ submitted  = <<>>
    /\ status     = [d \in Drafts |-> "NONE"]
    /\ due        = [d \in Drafts |-> FALSE]
    /\ snapshot   = [d \in Drafts |-> Invalid]
    /\ clicks     = [d \in Drafts |-> 0]
    /\ registered = [d \in Drafts |-> {}]
    /\ tickets    = [d \in Drafts |-> 0]
    /\ settlement = [d \in Drafts |-> None]
    /\ grant      = [d \in Drafts |-> NoGrant]
    /\ grants     = [d \in Drafts |-> 0]
    /\ redemption = [c \in Checkouts |-> "NONE"]
    /\ check      = [v \in Validators |-> IdleCheck]
    /\ settle     = [s \in Settlers |-> IdleSettle]
    /\ checkout   = [c \in Checkouts |-> NewCheckout]
    /\ acts       = 0
    /\ faults     = 0
    /\ bound      \in Bounds

-----------------------------------------------------------------------------
(* The seller's operations and the raffle's life (external to this service).*)

StartSocialPromotionDraft(d) ==
    /\ draft[d] = "NONE" /\ estado[RaffleOf[d]] = "ACTIVA" /\ d \in bound.who
    /\ draft' = [draft EXCEPT ![d] = "OPEN"]
    /\ UNCHANGED <<estado, submitting, submitted, status, due, snapshot,
                   eventVars, bonusVars, jobVars, acts, faults, bound>>

DraftExpires(d) ==
    /\ draft[d] = "OPEN" /\ status[d] = "NONE"
    /\ draft' = [draft EXCEPT ![d] = "EXPIRED"]
    /\ UNCHANGED <<estado, submitting, submitted, status, due, snapshot,
                   eventVars, bonusVars, jobVars, acts, faults, bound>>

\* submitSocialPromotionPost, first what it reads ...
SubmitSocialPromotionPost(d) ==
    /\ d \notin submitting
    /\ draft[d] = "OPEN" /\ estado[RaffleOf[d]] = "ACTIVA" /\ status[d] = "NONE"
    /\ submitting' = submitting \cup {d}
    /\ UNCHANGED <<estado, draft, submitted, status, due, snapshot,
                   eventVars, bonusVars, jobVars, acts, faults, bound>>

\* ... then the insert, which the unique key (raffle, seller, network) refuses
\* when another draft got there first.
CreatePost(d) ==
    LET taken == \E q \in Posts : /\ RaffleOf[q] = RaffleOf[d]
                                  /\ NetworkOf[q] = NetworkOf[d]
    IN
    /\ d \in submitting
    /\ submitting' = submitting \ {d}
    /\ submitted'  = IF taken THEN submitted ELSE Append(submitted, d)
    /\ status'     = IF taken THEN status
                     ELSE [status EXCEPT ![d] = "PENDING_VALIDATION"]
    /\ due'        = IF taken THEN due ELSE [due EXCEPT ![d] = TRUE]
    /\ UNCHANGED <<estado, draft, snapshot, eventVars, bonusVars, jobVars, acts, faults, bound>>

\* A raffle closes or is cancelled; a rejected winner opens it again.
RaffleChanges(r) ==
    /\ r \in bound.who
    /\ \/ estado[r] = "ACTIVA" /\ estado' = [estado EXCEPT ![r] = "CLOSED"]
       \/ estado[r] = "CLOSED" /\ estado' = [estado EXCEPT ![r] = "ACTIVA"]
       \/ estado[r] # "CANCELADA" /\ estado' = [estado EXCEPT ![r] = "CANCELADA"]
    /\ UNCHANGED <<postVars, eventVars, bonusVars, jobVars, acts, faults, bound>>

CheckFallsDue(p) ==
    /\ status[p] = "ACTIVE" /\ ~due[p]
    /\ due' = [due EXCEPT ![p] = TRUE]
    /\ UNCHANGED <<estado, draft, submitting, submitted, status, snapshot,
                   eventVars, bonusVars, jobVars, acts, faults, bound>>

-----------------------------------------------------------------------------
(* Attribution.  A token without a post records nothing.                    *)

MoreEvents(d) == clicks[d] + Cardinality(registered[d]) < bound.events

TrackPromotionClickByToken(d) ==
    /\ d \in Posts /\ MoreEvents(d)
    /\ clicks' = [clicks EXCEPT ![d] = @ + 1]
    /\ UNCHANGED <<estado, postVars, registered, tickets, bonusVars, jobVars, acts, faults, bound>>

RecordRegistrationAttribution(d, u) ==
    /\ d \in Posts /\ MoreEvents(d)
    /\ u \in bound.who \ registered[d]
    /\ registered' = [registered EXCEPT ![d] = @ \cup {u}]
    /\ UNCHANGED <<estado, postVars, clicks, tickets, bonusVars, jobVars, acts, faults, bound>>

-----------------------------------------------------------------------------
(* Validation: processDueSocialPromotionPosts, validateSocialPromotionPost. *)

Due(p) == \/ status[p] \in {"PENDING_VALIDATION", "TECHNICAL_REVIEW"}
          \/ status[p] = "ACTIVE" /\ due[p]

DuePosts == {p \in Posts : Due(p)}

Older(q, p) == \E i, j \in DOMAIN submitted :
                   i < j /\ submitted[i] = q /\ submitted[j] = p
Oldest(S)   == {p \in S : \A q \in S : ~Older(q, p)}

\* The list: what is due, the oldest first, at most Batch posts.
LoadDuePosts(v) ==
    LET todo == {p \in DuePosts : Cardinality({q \in DuePosts : Older(q, p)}) < Batch}
    IN
    /\ check[v].pc = "idle" /\ MayStart(v) /\ todo # {}
    /\ CheckBecomes(v, NextCheck(todo))
    /\ UNCHANGED <<estado, postVars, eventVars, bonusVars, settle, checkout, acts, faults, bound>>

\* The page is loaded and parsed, then the attribution events are read.  The
\* post's status is not looked at again.  A page that cannot be loaded or
\* parsed sends the post to technical review.
ReadPost(v, p) ==
    LET Found(reading) ==
            IF ~reading.valid THEN Invalid
            ELSE [valid      |-> TRUE,
                  engagement |-> EngagementScore(reading),
                  metrics    |-> getAttributedMetrics(p)]
        Continue(pc, found) ==
            CheckBecomes(v, [pc |-> pc, todo |-> check[v].todo \ {p},
                             p |-> p, found |-> found])
    IN
    /\ check[v].pc = "next" /\ p \in Oldest(check[v].todo)
    /\ \/ \E first, browser \in Reading :
             /\ {first.engagement, browser.engagement} \subseteq bound.pages \cup {None}
             /\ Continue("persist", Found(retryWithBrowser(first, browser)))
       \/ Continue("review", Invalid)
    /\ UNCHANGED <<estado, postVars, eventVars, bonusVars, settle, checkout, acts, faults, bound>>

\* The catch block of the validation: what was found is dropped.
InReview(v) == [check[v] EXCEPT !.pc = "review", !.found = Invalid]

\* Mutant: the new snapshot adds up what the previous one counted.
MutSnapshotAccumulates(v) ==
    LET p == check[v].p IN
    /\ check[v].pc = "persist"
    /\ snapshot' = [snapshot EXCEPT ![p] =
                      [check[v].found EXCEPT !.metrics.clicks =
                          @ + snapshot[p].metrics.clicks]]
    /\ status'   = [status EXCEPT ![p] = IF check[v].found.valid THEN "ACTIVE"
                                         ELSE "DISQUALIFIED"]
    /\ due'      = [due EXCEPT ![p] = FALSE]
    /\ CheckBecomes(v, NextCheck(check[v].todo))
    /\ UNCHANGED <<estado, draft, submitting, submitted, eventVars, bonusVars,
                   settle, checkout, acts, faults, bound>>

\* The transaction that writes snapshot and status.  When it throws, the catch
\* block goes on to technical review.
PersistValidation(v) ==
    LET p == check[v].p IN
    /\ check[v].pc = "persist"
    /\ snapshot' = [snapshot EXCEPT ![p] = check[v].found]
    /\ status'   = [status EXCEPT ![p] = IF check[v].found.valid THEN "ACTIVE"
                                         ELSE "DISQUALIFIED"]
    /\ due'      = [due EXCEPT ![p] = FALSE]
    /\ \E ok \in BOOLEAN :
         Answered(ok) /\ CheckBecomes(v, IF ok THEN NextCheck(check[v].todo)
                                         ELSE InReview(v))
    /\ UNCHANGED <<estado, draft, submitting, submitted, eventVars, bonusVars,
                   settle, checkout, acts, bound>>

PersistTechnicalReview(v) ==
    LET p == check[v].p IN
    /\ check[v].pc = "review"
    /\ snapshot' = [snapshot EXCEPT ![p] = Invalid]
    /\ status'   = [status EXCEPT ![p] = "TECHNICAL_REVIEW"]
    /\ due'      = [due EXCEPT ![p] = FALSE]
    /\ CheckBecomes(v, NextCheck(check[v].todo))
    /\ UNCHANGED <<estado, draft, submitting, submitted, eventVars, bonusVars,
                   settle, checkout, acts, faults, bound>>

ValidationStep(v) == \/ LoadDuePosts(v) \/ \E p \in Drafts : ReadPost(v, p)
                     \/ PersistValidation(v) \/ PersistTechnicalReview(v)

\* A call throws and nothing was written, or the process dies.
ValidationFails(v) ==
    /\ check[v].pc # "idle" /\ MayDisturb
    /\ faults' = faults + 1
    /\ \/ /\ check[v].pc = "next"
          /\ \E p \in Oldest(check[v].todo) :
               CheckBecomes(v, NextCheck(check[v].todo \ {p}))
       \/ check[v].pc = "persist" /\ CheckBecomes(v, InReview(v))
       \/ check[v].pc = "review" /\ CheckBecomes(v, NextCheck(check[v].todo))
       \/ CheckBecomes(v, IdleCheck)
    /\ UNCHANGED <<estado, postVars, eventVars, bonusVars, settle, checkout, acts, bound>>

-----------------------------------------------------------------------------
(* Settlement: settleClosedSocialPromotionPosts, settleSocialPromotionPost. *)

\* Mutant: posts in technical review are left to the validation job.
MutActiveOnly(p) == /\ status[p] = "ACTIVE"
                    /\ settlement[p] = None /\ estado[RaffleOf[p]] = "CLOSED"

Settleable(p) == /\ status[p] \in {"ACTIVE", "TECHNICAL_REVIEW"}
                 /\ settlement[p] = None /\ estado[RaffleOf[p]] = "CLOSED"

LoadClosedPosts(s) ==
    LET todo == {p \in Posts : Settleable(p)} IN
    /\ settle[s].pc = "idle" /\ MayStart(s) /\ todo # {}
    /\ SettleBecomes(s, NextSettle(todo))
    /\ UNCHANGED <<estado, postVars, eventVars, bonusVars, check, checkout, acts, faults, bound>>

\* The candidate is read again: with a settlement there is nothing to do; its
\* latest snapshot decides.  Neither its status nor the raffle is looked at.
LoadCandidate(s, p) ==
    LET snap == snapshot[p]
        rest == settle[s].todo \ {p}
        Continue(pc, score) ==
            SettleBecomes(s, [pc |-> pc, todo |-> rest, p |-> p, score |-> score])
    IN
    /\ settle[s].pc = "next" /\ p \in settle[s].todo
    /\ \/ /\ settlement[p] # None
          /\ SettleBecomes(s, NextSettle(rest))
       \/ /\ settlement[p] = None /\ ~snap.valid
          /\ Continue("disqualify", 0)
       \/ /\ settlement[p] = None /\ snap.valid
          /\ Continue("settlement", TotalScore(snap.engagement, snap.metrics))
    /\ UNCHANGED <<estado, postVars, eventVars, bonusVars, check, checkout, acts, faults, bound>>

\* The work on the post is over.
Done(s) == NextSettle(settle[s].todo)

DisqualifyUnsettled(s) ==
    LET p == settle[s].p IN
    /\ settle[s].pc = "disqualify"
    /\ status' = [status EXCEPT ![p] = "DISQUALIFIED"]
    /\ due'    = [due EXCEPT ![p] = FALSE]
    /\ SettleBecomes(s, Done(s))
    /\ UNCHANGED <<estado, draft, submitting, submitted, snapshot, eventVars,
                   bonusVars, check, checkout, acts, faults, bound>>

\* What follows: a grant when the score reaches a tier, then the post's status.
Marking(s)  == [settle[s] EXCEPT !.pc = "mark", !.score = 0]
Granting(s) == [settle[s] EXCEPT !.pc = "grant"]
AfterSettlement(s) == IF BonusTier(settle[s].score) = {} THEN Marking(s) ELSE Granting(s)

\* Mutant: the score of a settlement that exists is updated.
MutUpsertSettlement(s) ==
    LET p == settle[s].p IN
    /\ settle[s].pc = "settlement"
    /\ settlement' = [settlement EXCEPT ![p] = settle[s].score]
    /\ SettleBecomes(s, IF settlement[p] = None THEN AfterSettlement(s) ELSE Done(s))
    /\ UNCHANGED <<estado, postVars, eventVars, grant, grants, redemption, check,
                   checkout, acts, faults, bound>>

\* The insert, refused when the post has a settlement.  A refused or unanswered
\* insert ends the work on this post, for this run and for every later one.
CreateSettlement(s) ==
    LET p == settle[s].p IN
    /\ settle[s].pc = "settlement"
    /\ \/ /\ settlement[p] # None
          /\ SettleBecomes(s, Done(s))
          /\ UNCHANGED <<settlement, faults>>
       \/ /\ settlement[p] = None
          /\ settlement' = [settlement EXCEPT ![p] = settle[s].score]
          /\ \E ok \in BOOLEAN :
               /\ Answered(ok)
               /\ SettleBecomes(s, IF ok THEN AfterSettlement(s) ELSE Done(s))
    /\ UNCHANGED <<estado, postVars, eventVars, grant, grants, redemption, check,
                   checkout, acts, bound>>

CreateGrant(s) ==
    LET p == settle[s].p IN
    /\ settle[s].pc = "grant"
    /\ \E t \in BonusTier(settle[s].score) :
         grant' = [grant EXCEPT ![p] = [status |-> "AVAILABLE", tier |-> t,
                                        expired |-> FALSE]]
    /\ grants' = [grants EXCEPT ![p] = @ + 1]
    /\ \E ok \in BOOLEAN :
         Answered(ok) /\ SettleBecomes(s, IF ok THEN Marking(s) ELSE Done(s))
    /\ UNCHANGED <<estado, postVars, eventVars, settlement, redemption, check,
                   checkout, acts, bound>>

MarkSettled(s) ==
    LET p == settle[s].p IN
    /\ settle[s].pc = "mark"
    /\ status' = [status EXCEPT ![p] = "SETTLED"]
    /\ due'    = [due EXCEPT ![p] = FALSE]
    /\ SettleBecomes(s, Done(s))
    /\ UNCHANGED <<estado, draft, submitting, submitted, snapshot, eventVars,
                   bonusVars, check, checkout, acts, faults, bound>>

SettlementStep(s) == \/ LoadClosedPosts(s)
                     \/ \E p \in Drafts : LoadCandidate(s, p)
                     \/ DisqualifyUnsettled(s) \/ CreateSettlement(s)
                     \/ CreateGrant(s) \/ MarkSettled(s)

\* A call throws and nothing was written, or the process dies.
SettlementFails(s) ==
    /\ settle[s].pc # "idle" /\ MayDisturb
    /\ faults' = faults + 1
    /\ \/ /\ settle[s].pc = "next"
          /\ \E p \in settle[s].todo : SettleBecomes(s, NextSettle(settle[s].todo \ {p}))
       \/ settle[s].pc # "next" /\ SettleBecomes(s, Done(s))
       \/ SettleBecomes(s, IdleSettle)
    /\ UNCHANGED <<estado, postVars, eventVars, bonusVars, check, checkout, acts, bound>>

-----------------------------------------------------------------------------
(* The admin: both operations write whatever the post's status is.          *)

RetryTechnicalReview(p) ==
    /\ p \in Posts /\ MayDisturb
    /\ status' = [status EXCEPT ![p] = "PENDING_VALIDATION"]
    /\ due'    = [due EXCEPT ![p] = TRUE]
    /\ acts'   = acts + 1
    /\ UNCHANGED <<estado, draft, submitting, submitted, snapshot, eventVars,
                   bonusVars, jobVars, faults, bound>>

AdminDisqualifyPost(p) ==
    /\ p \in Posts /\ MayDisturb
    /\ status' = [status EXCEPT ![p] = "DISQUALIFIED"]
    /\ due'    = [due EXCEPT ![p] = FALSE]
    /\ acts'   = acts + 1
    /\ UNCHANGED <<estado, draft, submitting, submitted, snapshot, eventVars,
                   bonusVars, jobVars, faults, bound>>

-----------------------------------------------------------------------------
(* The promotion side of reserveTicketsForCheckout.  What it does through tx *)
(* becomes visible at the commit; markRedemptionUsedByReservation and        *)
(* recordPurchaseAttribution use the service's own connection.               *)

\* The purchase begins; the grant it brings, if any, is available.  A purchase
\* without grant and token does nothing here.
ReserveBonusForCheckout(c) ==
    /\ checkout[c].pc = "idle" /\ MayStart(c)
    /\ \E g \in Drafts \cup {None}, n \in 1 .. MaxTickets :
         /\ g # None => grant[g].status = "AVAILABLE" /\ ~grant[g].expired
         /\ g # None \/ TokenOf[c] # None
         /\ checkout' = [checkout EXCEPT ![c] = [pc |-> "mark", grant |-> g, n |-> n]]
    /\ UNCHANGED <<estado, postVars, eventVars, bonusVars, check, settle, acts, faults, bound>>

\* Looks for the reserved redemption of this purchase among the committed ones.
MarkRedemptionUsedByReservation(c) ==
    LET g == checkout[c].grant
        found == g # None /\ redemption[c] = "RESERVED"
    IN
    /\ checkout[c].pc = "mark"
    /\ redemption' = IF found THEN [redemption EXCEPT ![c] = "USED"] ELSE redemption
    /\ grant'      = IF found THEN [grant EXCEPT ![g].status = "USED"] ELSE grant
    /\ CheckoutGoTo(c, "attribute")
    /\ UNCHANGED <<estado, postVars, eventVars, settlement, grants, check, settle,
                   acts, faults, bound>>

RecordPurchaseAttribution(c) ==
    LET t == TokenOf[c] IN
    /\ checkout[c].pc = "attribute"
    /\ tickets' = IF t \in Posts THEN [tickets EXCEPT ![t] = @ + checkout[c].n]
                  ELSE tickets
    /\ checkout' = [checkout EXCEPT ![c] = [@ EXCEPT !.pc = "commit", !.n = 0]]
    /\ UNCHANGED <<estado, postVars, clicks, registered, bonusVars, check, settle,
                   acts, faults, bound>>

\* Mutant: without serializable isolation nobody notices that the grant changed.
MutCommitReadCommitted(c) ==
    LET g == checkout[c].grant IN
    /\ checkout[c].pc = "commit"
    /\ grant'      = IF g = None THEN grant ELSE [grant EXCEPT ![g].status = "RESERVED"]
    /\ redemption' = IF g = None THEN redemption
                     ELSE [redemption EXCEPT ![c] = "RESERVED"]
    /\ CheckoutGoTo(c, "done")
    /\ UNCHANGED <<estado, postVars, eventVars, settlement, grants, check, settle,
                   acts, faults, bound>>

\* The serializable transaction commits only if the grant it read is unchanged.
CommitPurchase(c) ==
    LET g == checkout[c].grant IN
    /\ checkout[c].pc = "commit"
    /\ g # None => grant[g].status = "AVAILABLE"
    /\ grant'      = IF g = None THEN grant ELSE [grant EXCEPT ![g].status = "RESERVED"]
    /\ redemption' = IF g = None THEN redemption
                     ELSE [redemption EXCEPT ![c] = "RESERVED"]
    /\ CheckoutGoTo(c, "done")
    /\ UNCHANGED <<estado, postVars, eventVars, settlement, grants, check, settle,
                   acts, faults, bound>>

\* A failed debit, a serialization failure, a timeout: the transaction is gone,
\* what was written outside it stays.
RollBackPurchase(c) ==
    /\ checkout[c].pc \in {"mark", "attribute", "commit"}
    /\ checkout' = [checkout EXCEPT ![c] = [NewCheckout EXCEPT !.pc = "done"]]
    /\ UNCHANGED <<estado, postVars, eventVars, bonusVars, check, settle, acts, faults, bound>>

PurchaseStep(c) == \/ MarkRedemptionUsedByReservation(c) \/ RecordPurchaseAttribution(c)
                   \/ CommitPurchase(c) \/ RollBackPurchase(c)

GrantExpires(p) ==
    /\ grant[p].status = "AVAILABLE" /\ ~grant[p].expired
    /\ grant' = [grant EXCEPT ![p].expired = TRUE]
    /\ UNCHANGED <<estado, postVars, eventVars, settlement, grants, redemption,
                   jobVars, acts, faults, bound>>

-----------------------------------------------------------------------------
Next ==
    \/ \E d \in Drafts : \/ StartSocialPromotionDraft(d) \/ DraftExpires(d)
                         \/ SubmitSocialPromotionPost(d) \/ CreatePost(d)
                         \/ CheckFallsDue(d) \/ TrackPromotionClickByToken(d)
                         \/ RetryTechnicalReview(d) \/ AdminDisqualifyPost(d)
                         \/ GrantExpires(d)
    \/ \E d \in Drafts, u \in Users : RecordRegistrationAttribution(d, u)
    \/ \E r \in Raffles : RaffleChanges(r)
    \/ \E v \in Validators : ValidationStep(v) \/ ValidationFails(v)
    \/ \E s \in Settlers : SettlementStep(s) \/ SettlementFails(s)
    \/ \E c \in Checkouts : ReserveBonusForCheckout(c) \/ PurchaseStep(c)

Spec == Init /\ [][Next]_vars

\* Both jobs are scheduled for ever and a run gets on with its next step; a
\* purchase that began commits, fails or is rolled back by its timeout.  Nothing
\* forces users, admins, raffles or the clock.
Fairness == /\ \A v \in Validators : WF_vars(ValidationStep(v))
            /\ \A s \in Settlers : WF_vars(SettlementStep(s))
            /\ WF_vars(\E c \in Checkouts : PurchaseStep(c))

FairSpec == Spec /\ Fairness

-----------------------------------------------------------------------------
(* Properties.                                                              *)

\* Every variable holds a value of its type; in particular a grant's tier is
\* one of the configured tiers.
TypeOK ==
    /\ estado     \in [Raffles -> {"ACTIVA", "CLOSED", "CANCELADA"}]
    /\ draft      \in [Drafts -> {"NONE", "OPEN", "EXPIRED"}]
    /\ submitting \subseteq Drafts
    /\ submitted  \in Seq(Drafts)
    /\ status     \in [Drafts -> PostStatus]
    /\ due        \in [Drafts -> BOOLEAN]
    /\ snapshot   \in [Drafts -> Snapshot]
    /\ clicks     \in [Drafts -> Nat]
    /\ registered \in [Drafts -> SUBSET Users]
    /\ tickets    \in [Drafts -> Nat]
    /\ settlement \in [Drafts -> Nat \cup {None}]
    /\ grant      \in [Drafts -> [status : GrantStatus, tier : Tiers, expired : BOOLEAN]
                                   \cup {NoGrant}]
    /\ grants     \in [Drafts -> Nat]
    /\ redemption \in [Checkouts -> {"NONE", "RESERVED", "USED"}]
    /\ check      \in [Validators -> Check]
    /\ settle     \in [Settlers -> Settle]
    /\ checkout   \in [Checkouts -> Checkout]
    /\ acts \in Nat /\ faults \in Nat /\ bound \in Bounds

\* However many settlement runs overlap, are retried after a lost answer or die
\* half-way, a post earns at most one grant, and its tier is the best one that
\* the recorded score of the post reaches (settleSocialPromotionPost).
GrantIsEarned ==
    \A p \in Drafts :
        /\ grants[p] <= 1
        /\ grant[p] # NoGrant => /\ settlement[p] # None
                                 /\ grant[p].tier <= settlement[p]
                                 /\ \A t \in Tiers : t <= settlement[p] => t <= grant[p].tier

\* A settled score is backed by what was recorded: snapshots written late or
\* twice by overlapping validation runs never make it exceed the best page plus
\* all attribution events of the post.
ScoreIsBacked ==
    \A p \in Drafts : settlement[p] # None =>
        \E e \in Engagements : settlement[p] <= TotalScore(e, getAttributedMetrics(p))

\* A post shown as SETTLED has its settlement, although validation runs and
\* admins overwrite the status at any time.
SettledHasScore == \A p \in Drafts : status[p] = "SETTLED" => settlement[p] # None

\* A grant discounts one purchase: concurrent purchases that bring the same
\* grant never both keep it (reserveBonusForCheckout in a serializable tx), it is
\* not free for another purchase after that, and one that no purchase kept (its
\* transaction was rolled back) is not lost.
RedeemedOnce ==
    \A g \in Drafts :
        LET uses == {c \in Checkouts : redemption[c] # "NONE" /\ checkout[c].grant = g}
        IN  /\ \A c, e \in uses : c = e
            /\ uses # {} <=> grant[g].status \in {"RESERVED", "USED"}

\* What docs/social-promotions.md:145 and domain-flows.md:221 say of the bonus, and
\* the code does not do (NothingUsedTheorem): once the purchase is confirmed the
\* grant is used (markRedemptionUsedByReservation).
RedeemedBonusIsUsed ==
    \A c \in Checkouts : checkout[c].pc = "done" /\ checkout[c].grant # None =>
        grant[checkout[c].grant].status = "USED"

\* A settlement is final: no later run, retry or re-validation changes the
\* score or the tier a post was granted.
SettlementIsFinal ==
    [][\A p \in Drafts :
         /\ settlement[p] # None => settlement'[p] = settlement[p]
         /\ grant[p] # NoGrant => grant'[p].tier = grant[p].tier]_vars

\* A new post that the next validation run leaves out: older posts that are due
\* fill its batch.  Those in technical review are due again at once.
CrowdedOut(p) == /\ status[p] = "PENDING_VALIDATION"
                 /\ Cardinality({q \in DuePosts : Older(q, p)}) >= Batch

\* The post of a closed raffle is resolved: it gets a settlement or is
\* disqualified, whatever pages answer and although runs fail and overlap.  Only
\* one that is crowded out may wait; as this holds of every later time too, one
\* that waits for ever is crowded out again and again.
ClosedPostIsResolved ==
    \A p \in Drafts :
        (p \in Posts /\ estado[RaffleOf[p]] = "CLOSED") ~>
            (\/ settlement[p] # None \/ status[p] = "DISQUALIFIED"
             \/ estado[RaffleOf[p]] # "CLOSED" \/ CrowdedOut(p))
=============================================================================
