----------------------- MODULE SocialPromotionsProofs -----------------------
(***************************************************************************)
(* Proofs about SocialPromotions and its pages, for any number of posts,   *)
(* users, runs and purchases: types, that a post earns at most one grant   *)
(* of the tier its score reaches, that scores are backed and final, that a *)
(* grant discounts one purchase but is never marked as used, and that the  *)
(* pages agree.                                                            *)
(***************************************************************************)
EXTENDS PromotionPages, SumsProofs

-----------------------------------------------------------------------------
(* Types *)

\* Only a purchase that is over has a redemption: the row becomes visible with
\* the commit.  Without this, TypeOK is not inductive, because marking a
\* redemption used writes the grant of the purchase.
RedeemedIsDone == \A c \in Checkouts : redemption[c] # "NONE" => checkout[c].pc = "done"

TypeInv == TypeOK /\ RedeemedIsDone

\* The registrations of a post can be counted.
LEMMA RegisteredIsFinite ==
    ASSUME TypeOK, NEW p \in Drafts
    PROVE  IsFiniteSet(registered[p]) /\ Cardinality(registered[p]) \in Nat
<1>1. registered[p] \in SUBSET Users /\ IsFiniteSet(Users)
  BY PromotionConstants DEF TypeOK
<1>2. IsFiniteSet(registered[p])
  BY <1>1, FS_Subset
<1> QED
  BY <1>2, FS_CardinalityType

\* What is counted for a post has the type of a snapshot's metrics.
LEMMA MetricsType ==
    ASSUME TypeOK, NEW p \in Drafts
    PROVE  getAttributedMetrics(p) \in Metrics
  BY RegisteredIsFinite DEF TypeOK, getAttributedMetrics, Metrics

\* The snapshot of a page that could not be read is a snapshot.
LEMMA InvalidType == Invalid \in Snapshot
  BY PromotionConstants DEF Invalid, Snapshot, Metrics

\* A validation run between two posts, or over, is a validation run.
LEMMA NextCheckType ==
    ASSUME NEW todo \in SUBSET Drafts
    PROVE  IdleCheck \in Check /\ NextCheck(todo) \in Check
<1>1. AnyDraft \in Drafts
  BY PromotionConstants DEF AnyDraft
<1> QED
  BY <1>1, InvalidType DEF IdleCheck, NextCheck, Check

\* A settlement run between two posts, or over, is a settlement run.
LEMMA NextSettleType ==
    ASSUME NEW todo \in SUBSET Drafts
    PROVE  IdleSettle \in Settle /\ NextSettle(todo) \in Settle
<1>1. AnyDraft \in Drafts
  BY PromotionConstants DEF AnyDraft
<1> QED
  BY <1>1 DEF IdleSettle, NextSettle, Settle

\* A score is a natural number.
LEMMA ScoreType ==
    ASSUME NEW e \in Nat, NEW m \in Metrics
    PROVE  TotalScore(e, m) \in Nat
<1>1. m.clicks \in Nat /\ m.registrations \in Nat /\ m.tickets \in Nat
  BY DEF Metrics
<1> DEFINE sum == 10000 + e + 100 * m.clicks + 3000 * m.registrations
                        + 1500 * m.tickets + 5
<1>2. sum \in Nat
  BY <1>1
<1> HIDE DEF sum
<1>3. sum \div 10 \in Nat
  BY <1>2
<1> QED
  BY <1>3 DEF TotalScore, sum

\* The steps of sellers, users, admins and the clock keep the types.
LEMMA OthersType ==
    ASSUME TypeInv, NEW d \in Drafts,
           \/ StartSocialPromotionDraft(d) \/ DraftExpires(d)
           \/ SubmitSocialPromotionPost(d) \/ CreatePost(d)
           \/ CheckFallsDue(d) \/ TrackPromotionClickByToken(d)
           \/ RetryTechnicalReview(d) \/ AdminDisqualifyPost(d)
           \/ GrantExpires(d)
    PROVE  TypeInv'
<1> USE DEF TypeInv, RedeemedIsDone, postVars, eventVars, bonusVars, jobVars
<1>1. CASE StartSocialPromotionDraft(d)
  BY <1>1 DEF StartSocialPromotionDraft, TypeOK
<1>2. CASE DraftExpires(d)
  BY <1>2 DEF DraftExpires, TypeOK
<1>3. CASE SubmitSocialPromotionPost(d)
  BY <1>3 DEF SubmitSocialPromotionPost, TypeOK
<1>4. CASE CreatePost(d)
  <2>1. Append(submitted, d) \in Seq(Drafts)
    BY DEF TypeOK
  <2>2. /\ submitting' \subseteq Drafts /\ submitted' \in Seq(Drafts)
        /\ status' \in [Drafts -> PostStatus] /\ due' \in [Drafts -> BOOLEAN]
    BY <1>4, <2>1 DEF CreatePost, TypeOK, PostStatus
  <2> QED
    BY <1>4, <2>2 DEF CreatePost, TypeOK
<1>5. CASE CheckFallsDue(d)
  BY <1>5 DEF CheckFallsDue, TypeOK
<1>6. CASE TrackPromotionClickByToken(d)
  BY <1>6 DEF TrackPromotionClickByToken, TypeOK
<1>7. CASE RetryTechnicalReview(d)
  BY <1>7 DEF RetryTechnicalReview, TypeOK, PostStatus
<1>8. CASE AdminDisqualifyPost(d)
  BY <1>8 DEF AdminDisqualifyPost, TypeOK, PostStatus
<1>9. CASE GrantExpires(d)
  <2>1. grant[d] # NoGrant
    BY <1>9 DEF GrantExpires, NoGrant
  <2>2. [grant[d] EXCEPT !.expired = TRUE]
          \in [status : GrantStatus, tier : Tiers, expired : BOOLEAN]
    BY <2>1 DEF TypeOK
  <2>3. grant' \in [Drafts -> [status : GrantStatus, tier : Tiers, expired : BOOLEAN]
                               \cup {NoGrant}]
    BY <1>9, <2>2 DEF GrantExpires, TypeOK
  <2> QED
    BY <1>9, <2>3 DEF GrantExpires, TypeOK
<1> QED
  BY <1>1, <1>2, <1>3, <1>4, <1>5, <1>6, <1>7, <1>8, <1>9

\* So do registrations and what happens to a raffle.
LEMMA RegistrationType ==
    ASSUME TypeInv,
           \/ \E d \in Drafts, u \in Users : RecordRegistrationAttribution(d, u)
           \/ \E r \in Raffles : RaffleChanges(r)
    PROVE  TypeInv'
<1> USE DEF TypeInv, RedeemedIsDone, postVars, eventVars, bonusVars, jobVars
<1>1. CASE \E d \in Drafts, u \in Users : RecordRegistrationAttribution(d, u)
  BY <1>1 DEF RecordRegistrationAttribution, TypeOK
<1>2. CASE \E r \in Raffles : RaffleChanges(r)
  BY <1>2 DEF RaffleChanges, TypeOK
<1> QED
  BY <1>1, <1>2

\* What a validation run finds is a snapshot.
LEMMA FoundType ==
    ASSUME TypeOK, NEW p \in Drafts, NEW first \in Reading, NEW browser \in Reading,
           retryWithBrowser(first, browser).valid
    PROVE  [valid      |-> TRUE,
            engagement |-> EngagementScore(retryWithBrowser(first, browser)),
            metrics    |-> getAttributedMetrics(p)] \in Snapshot
<1>1. retryWithBrowser(first, browser) \in Reading
  BY DEF retryWithBrowser
<1>2. EngagementScore(retryWithBrowser(first, browser)) \in Engagements
  BY <1>1, PromotionConstants DEF EngagementScore, Reading
<1> QED
  BY <1>2, MetricsType DEF Snapshot

\* A validation run keeps the types, also when it fails.
LEMMA ValidationType ==
    ASSUME TypeInv, NEW v \in Validators, ValidationStep(v) \/ ValidationFails(v)
    PROVE  TypeInv'
<1> USE DEF TypeInv, RedeemedIsDone, postVars, eventVars, bonusVars, jobVars
<1>0. /\ check[v].todo \in SUBSET Drafts /\ check[v].p \in Drafts
      /\ check[v].found \in Snapshot
      /\ InReview(v) \in Check
  <2>1. check[v] \in Check
    BY DEF TypeOK
  <2>2. [check[v] EXCEPT !.pc = "review", !.found = Invalid] \in Check
    BY <2>1, InvalidType DEF Check
  <2> QED
    BY <2>1, <2>2 DEF Check, InReview
<1>1. CASE LoadDuePosts(v)
  <2>1. PICK todo \in SUBSET Drafts : CheckBecomes(v, NextCheck(todo))
    BY <1>1 DEF LoadDuePosts, DuePosts, Posts
  <2>2. check' \in [Validators -> Check]
    BY <2>1, NextCheckType DEF CheckBecomes, TypeOK
  <2> QED
    BY <1>1, <2>2 DEF LoadDuePosts, TypeOK
<1>2. ASSUME NEW p \in Drafts, ReadPost(v, p)
      PROVE  TypeInv'
  <2>1. \E pc \in {"persist", "review"}, found \in Snapshot :
          CheckBecomes(v, [pc |-> pc, todo |-> check[v].todo \ {p},
                           p |-> p, found |-> found])
    BY <1>2, FoundType, InvalidType DEF ReadPost
  <2>2. check' \in [Validators -> Check]
    BY <1>0, <2>1 DEF CheckBecomes, TypeOK, Check
  <2> QED
    BY <1>2, <2>2 DEF ReadPost, TypeOK
<1>3. CASE PersistValidation(v)
  <2>1. check' \in [Validators -> Check] /\ faults' \in Nat
    BY <1>0, <1>3, NextCheckType DEF PersistValidation, Answered, CheckBecomes, TypeOK
  <2>2. status' \in [Drafts -> PostStatus] /\ snapshot' \in [Drafts -> Snapshot]
    BY <1>0, <1>3 DEF PersistValidation, TypeOK, PostStatus
  <2> QED
    BY <1>3, <2>1, <2>2 DEF PersistValidation, TypeOK
<1>4. CASE PersistTechnicalReview(v)
  <2>1. check' \in [Validators -> Check] /\ faults' \in Nat
    BY <1>0, <1>4, NextCheckType DEF PersistTechnicalReview, CheckBecomes, TypeOK
  <2>2. status' \in [Drafts -> PostStatus] /\ snapshot' \in [Drafts -> Snapshot]
    BY <1>0, <1>4, InvalidType DEF PersistTechnicalReview, TypeOK, PostStatus
  <2> QED
    BY <1>4, <2>1, <2>2 DEF PersistTechnicalReview, TypeOK
<1>5. CASE ValidationFails(v)
  <2>1. \E x \in Check : CheckBecomes(v, x)
    BY <1>0, <1>5, NextCheckType DEF ValidationFails, Oldest
  <2>2. check' \in [Validators -> Check] /\ faults' \in Nat
    BY <1>5, <2>1 DEF ValidationFails, CheckBecomes, TypeOK
  <2> QED
    BY <1>5, <2>2 DEF ValidationFails, TypeOK
<1> QED
  BY <1>1, <1>2, <1>3, <1>4, <1>5 DEF ValidationStep

\* A tier that a score reaches is one of the tiers.
LEMMA TierType ==
    ASSUME NEW score
    PROVE  BonusTier(score) \subseteq Tiers
  BY DEF BonusTier

\* A settlement run keeps the types, also when it fails.
LEMMA SettlementType ==
    ASSUME TypeInv, NEW s \in Settlers, SettlementStep(s) \/ SettlementFails(s)
    PROVE  TypeInv'
<1> USE DEF TypeInv, RedeemedIsDone, postVars, eventVars, bonusVars, jobVars
<1>0. /\ settle[s].todo \in SUBSET Drafts /\ settle[s].p \in Drafts
      /\ settle[s].score \in Nat
      /\ Marking(s) \in Settle /\ Granting(s) \in Settle /\ Done(s) \in Settle
      /\ AfterSettlement(s) \in Settle
  BY NextSettleType DEF TypeOK, Settle, Marking, Granting, Done, AfterSettlement
<1>1. CASE LoadClosedPosts(s)
  <2>1. PICK todo \in SUBSET Drafts : SettleBecomes(s, NextSettle(todo))
    BY <1>1 DEF LoadClosedPosts, Posts
  <2>2. settle' \in [Settlers -> Settle]
    BY <2>1, NextSettleType DEF SettleBecomes, TypeOK
  <2> QED
    BY <1>1, <2>2 DEF LoadClosedPosts, TypeOK
<1>2. ASSUME NEW p \in Drafts, LoadCandidate(s, p)
      PROVE  TypeInv'
  <2>1. /\ snapshot[p].engagement \in Nat /\ snapshot[p].metrics \in Metrics
    BY PromotionConstants DEF TypeOK, Snapshot
  <2>2. TotalScore(snapshot[p].engagement, snapshot[p].metrics) \in Nat
    BY <2>1, ScoreType
  <2>3. \E x \in Settle : SettleBecomes(s, x)
    <3>1. CASE settlement[p] # None
      BY <1>0, <1>2, <3>1, NextSettleType DEF LoadCandidate
    <3>2. CASE settlement[p] = None /\ ~snapshot[p].valid
      <4>1. [pc |-> "disqualify", todo |-> settle[s].todo \ {p}, p |-> p, score |-> 0]
              \in Settle
        BY <1>0 DEF Settle
      <4> QED
        BY <1>2, <3>2, <4>1 DEF LoadCandidate
    <3>3. CASE settlement[p] = None /\ snapshot[p].valid
      <4>1. [pc |-> "settlement", todo |-> settle[s].todo \ {p}, p |-> p,
             score |-> TotalScore(snapshot[p].engagement, snapshot[p].metrics)]
              \in Settle
        BY <1>0, <2>2 DEF Settle
      <4> QED
        BY <1>2, <3>3, <4>1 DEF LoadCandidate
    <3> QED
      BY <3>1, <3>2, <3>3
  <2>4. settle' \in [Settlers -> Settle]
    BY <2>3 DEF SettleBecomes, TypeOK
  <2> QED
    BY <1>2, <2>4 DEF LoadCandidate, TypeOK
<1>3. CASE DisqualifyUnsettled(s)
  <2>1. settle' \in [Settlers -> Settle] /\ status' \in [Drafts -> PostStatus]
    BY <1>0, <1>3 DEF DisqualifyUnsettled, SettleBecomes, TypeOK, PostStatus
  <2> QED
    BY <1>3, <2>1 DEF DisqualifyUnsettled, TypeOK
<1>4. CASE CreateSettlement(s)
  <2>1. settle' \in [Settlers -> Settle] /\ faults' \in Nat
    <3>1. \E x \in Settle : SettleBecomes(s, x)
      BY <1>0, <1>4 DEF CreateSettlement
    <3>2. faults' \in Nat
      BY <1>4 DEF CreateSettlement, Answered, TypeOK
    <3> QED
      BY <3>1, <3>2 DEF SettleBecomes, TypeOK
  <2>2. settlement' \in [Drafts -> Nat \cup {None}]
    BY <1>0, <1>4 DEF CreateSettlement, TypeOK
  <2> QED
    BY <1>4, <2>1, <2>2 DEF CreateSettlement, TypeOK
<1>5. CASE CreateGrant(s)
  <2>1. settle' \in [Settlers -> Settle] /\ faults' \in Nat
    BY <1>0, <1>5 DEF CreateGrant, Answered, SettleBecomes, TypeOK
  <2>2. PICK t \in Tiers :
          grant' = [grant EXCEPT ![settle[s].p] = [status |-> "AVAILABLE", tier |-> t,
                                                   expired |-> FALSE]]
    BY <1>5, TierType DEF CreateGrant
  <2>3. grant' \in [Drafts -> [status : GrantStatus, tier : Tiers, expired : BOOLEAN]
                               \cup {NoGrant}]
    BY <2>2 DEF TypeOK, GrantStatus
  <2>4. grants' \in [Drafts -> Nat]
    BY <1>0, <1>5 DEF CreateGrant, TypeOK
  <2> QED
    BY <1>5, <2>1, <2>3, <2>4 DEF CreateGrant, TypeOK
<1>6. CASE MarkSettled(s)
  <2>1. settle' \in [Settlers -> Settle] /\ status' \in [Drafts -> PostStatus]
    BY <1>0, <1>6 DEF MarkSettled, SettleBecomes, TypeOK, PostStatus
  <2> QED
    BY <1>6, <2>1 DEF MarkSettled, TypeOK
<1>7. CASE SettlementFails(s)
  <2>1. \E x \in Settle : SettleBecomes(s, x)
    BY <1>0, <1>7, NextSettleType DEF SettlementFails
  <2>2. settle' \in [Settlers -> Settle] /\ faults' \in Nat
    BY <1>7, <2>1 DEF SettlementFails, SettleBecomes, TypeOK
  <2> QED
    BY <1>7, <2>2 DEF SettlementFails, TypeOK
<1> QED
  BY <1>1, <1>2, <1>3, <1>4, <1>5, <1>6, <1>7 DEF SettlementStep

\* A purchase keeps the types.
LEMMA PurchaseType ==
    ASSUME TypeInv, NEW c \in Checkouts, ReserveBonusForCheckout(c) \/ PurchaseStep(c)
    PROVE  TypeInv'
<1> USE DEF TypeInv, RedeemedIsDone, postVars, eventVars, bonusVars, jobVars
<1>0. checkout[c] \in Checkout /\ checkout[c].grant \in Drafts \cup {None}
  BY DEF TypeOK, Checkout
<1>1. CASE ReserveBonusForCheckout(c)
  <2>1. checkout' \in [Checkouts -> Checkout]
    BY <1>1, PromotionConstants DEF ReserveBonusForCheckout, TypeOK, Checkout
  <2>2. redemption[c] = "NONE"
    BY <1>1 DEF ReserveBonusForCheckout
  <2>3. \A e \in Checkouts : e # c => checkout'[e] = checkout[e]
    BY <1>1 DEF ReserveBonusForCheckout, TypeOK
  <2>4. UNCHANGED redemption
    BY <1>1 DEF ReserveBonusForCheckout
  <2> QED
    BY <1>1, <2>1, <2>2, <2>3, <2>4 DEF ReserveBonusForCheckout, TypeOK
<1>2. CASE MarkRedemptionUsedByReservation(c)
  <2>1. redemption[c] = "NONE"
    BY <1>2 DEF MarkRedemptionUsedByReservation
  <2>2. UNCHANGED <<redemption, grant>>
    BY <1>2, <2>1 DEF MarkRedemptionUsedByReservation
  <2>3. checkout' \in [Checkouts -> Checkout]
    BY <1>0, <1>2 DEF MarkRedemptionUsedByReservation, CheckoutGoTo, TypeOK, Checkout
  <2>4. \A e \in Checkouts : e # c => checkout'[e] = checkout[e]
    BY <1>2 DEF MarkRedemptionUsedByReservation, CheckoutGoTo, TypeOK
  <2> QED
    BY <1>2, <2>1, <2>2, <2>3, <2>4 DEF MarkRedemptionUsedByReservation, TypeOK
<1>3. CASE RecordPurchaseAttribution(c)
  <2>1. redemption[c] = "NONE" /\ UNCHANGED redemption
    BY <1>3 DEF RecordPurchaseAttribution
  <2>2. checkout' \in [Checkouts -> Checkout]
    BY <1>0, <1>3 DEF RecordPurchaseAttribution, TypeOK, Checkout
  <2>3. tickets' \in [Drafts -> Nat]
    <3>1. checkout[c].n \in Nat
      BY <1>0 DEF Checkout
    <3> QED
      BY <1>3, <3>1 DEF RecordPurchaseAttribution, TypeOK, Posts
  <2>4. \A e \in Checkouts : e # c => checkout'[e] = checkout[e]
    BY <1>3 DEF RecordPurchaseAttribution, TypeOK
  <2> QED
    BY <1>3, <2>1, <2>2, <2>3, <2>4 DEF RecordPurchaseAttribution, TypeOK
<1>4. CASE CommitPurchase(c)
  <2>1. checkout' \in [Checkouts -> Checkout] /\ checkout'[c].pc = "done"
    BY <1>0, <1>4 DEF CommitPurchase, CheckoutGoTo, TypeOK, Checkout
  <2>2. \A e \in Checkouts : e # c => /\ checkout'[e] = checkout[e]
                                      /\ redemption'[e] = redemption[e]
    BY <1>4 DEF CommitPurchase, CheckoutGoTo, TypeOK
  <2>3. redemption' \in [Checkouts -> {"NONE", "RESERVED", "USED"}]
    BY <1>4 DEF CommitPurchase, TypeOK
  <2>4. grant' \in [Drafts -> [status : GrantStatus, tier : Tiers, expired : BOOLEAN]
                               \cup {NoGrant}]
    <3>1. CASE checkout[c].grant = None
      BY <1>4, <3>1 DEF CommitPurchase, TypeOK
    <3>2. CASE checkout[c].grant # None
      <4> DEFINE g == checkout[c].grant
      <4>1. g \in Drafts /\ grant[g] # NoGrant
        BY <1>0, <1>4, <3>2 DEF CommitPurchase, NoGrant
      <4>2. [grant[g] EXCEPT !.status = "RESERVED"]
              \in [status : GrantStatus, tier : Tiers, expired : BOOLEAN]
        BY <4>1 DEF TypeOK, GrantStatus
      <4>3. grant' = [grant EXCEPT ![g].status = "RESERVED"]
        BY <1>4, <3>2 DEF CommitPurchase
      <4> QED
        BY <4>1, <4>2, <4>3 DEF TypeOK
    <3> QED
      BY <3>1, <3>2
  <2> QED
    BY <1>4, <2>1, <2>2, <2>3, <2>4 DEF CommitPurchase, TypeOK
<1>5. CASE RollBackPurchase(c)
  <2>1. redemption[c] = "NONE" /\ UNCHANGED redemption
    BY <1>5 DEF RollBackPurchase
  <2>2. checkout' \in [Checkouts -> Checkout]
    BY <1>5 DEF RollBackPurchase, NewCheckout, TypeOK, Checkout
  <2>3. \A e \in Checkouts : e # c => checkout'[e] = checkout[e]
    BY <1>5 DEF RollBackPurchase, TypeOK
  <2> QED
    BY <1>5, <2>1, <2>2, <2>3 DEF RollBackPurchase, TypeOK
<1> QED
  BY <1>1, <1>2, <1>3, <1>4, <1>5 DEF PurchaseStep

\* The initial rows have their types.
LEMMA InitType == Init => TypeInv
<1> SUFFICES ASSUME Init PROVE TypeInv
  OBVIOUS
<1>1. IdleCheck \in Check /\ IdleSettle \in Settle /\ Invalid \in Snapshot
  BY NextCheckType, NextSettleType, InvalidType
<1>2. NewCheckout \in Checkout
  BY DEF NewCheckout, Checkout
<1> QED
  BY <1>1, <1>2 DEF Init, TypeInv, TypeOK, RedeemedIsDone, PostStatus

\* Every step keeps the types.
LEMMA StepType == TypeInv /\ [Next]_vars => TypeInv'
<1> SUFFICES ASSUME TypeInv, [Next]_vars PROVE TypeInv'
  OBVIOUS
<1>1. CASE Next
  BY <1>1, OthersType, RegistrationType, ValidationType, SettlementType, PurchaseType
     DEF Next
<1>2. CASE UNCHANGED vars
  BY <1>2 DEF TypeInv, TypeOK, RedeemedIsDone, Posts, vars, postVars, eventVars, bonusVars, jobVars
<1> QED
  BY <1>1, <1>2

\* Types and the visibility of redemptions, as one invariant.
LEMMA TypeInvariant == Spec => []TypeInv
  BY InitType, StepType, PTL DEF Spec

\* For any number of posts, runs and purchases the rows keep their types; a
\* grant that is created has a configured tier and no status is written to the
\* grant of a post that has none (social-promotions.service.ts).
THEOREM TypeCorrect == Spec => []TypeOK
<1>1. TypeInv => TypeOK
  BY DEF TypeInv
<1> QED
  BY <1>1, TypeInvariant, PTL

-----------------------------------------------------------------------------
(* One earned grant per post *)

\* What is known of a post: a grant comes after the settlement, once, and has
\* the tier of the recorded score.
PostInv(p) ==
    /\ grants[p] \in {0, 1}
    /\ settlement[p] = None => grants[p] = 0
    /\ grants[p] = 0 => grant[p] = NoGrant
    /\ grant[p] # NoGrant => grant[p].tier \in BonusTier(settlement[p])
    /\ status[p] = "SETTLED" => settlement[p] # None

\* What a run in the middle of a settlement relies on: its own settlement is
\* the recorded one, and the post has no grant yet.
RunInv(s) ==
    /\ settle[s].pc = "grant" => /\ settlement[settle[s].p] = settle[s].score
                                 /\ grants[settle[s].p] = 0
    /\ settle[s].pc \in {"grant", "mark"} => settlement[settle[s].p] # None

\* No two runs are about to create a grant for the same post.
OneGranter ==
    \A s, t \in Settlers :
        s # t /\ settle[s].pc = "grant" /\ settle[t].pc = "grant"
            => settle[s].p # settle[t].p

GrantInv == /\ \A p \in Drafts : PostInv(p)
            /\ \A s \in Settlers : RunInv(s)
            /\ OneGranter

\* A step that leaves settlements alone, changes neither presence nor tier of a
\* grant, and lets no run into its granting or marking keeps the invariant.
LEMMA GrantFrame ==
    ASSUME TypeInv, TypeInv', GrantInv,
           UNCHANGED <<settlement, grants>>,
           \A p \in Drafts : /\ grant[p] = NoGrant => grant'[p] = NoGrant
                             /\ grant'[p].tier = grant[p].tier,
           \A p \in Drafts : status'[p] = "SETTLED" =>
               status[p] = "SETTLED" \/ settlement[p] # None,
           \A s \in Settlers : \/ settle'[s] = settle[s]
                               \/ settle'[s].pc \notin {"grant", "mark"}
    PROVE  GrantInv'
<1>1. \A p \in Drafts : PostInv(p)'
  <2> TAKE p \in Drafts
  <2>1. PostInv(p) /\ settlement'[p] = settlement[p] /\ grants'[p] = grants[p]
    BY DEF GrantInv
  <2> QED
    BY <2>1 DEF PostInv, BonusTier
<1>2. \A s \in Settlers : RunInv(s)'
  BY DEF GrantInv, RunInv
<1>3. OneGranter'
  BY DEF GrantInv, OneGranter
<1> QED
  BY <1>1, <1>2, <1>3 DEF GrantInv

\* Writing the status or the expiry of a grant that is there keeps its tier.
LEMMA GrantUpdate ==
    ASSUME TypeInv, NEW d \in Drafts, grant[d].status = "AVAILABLE",
           \/ grant' = [grant EXCEPT ![d].expired = TRUE]
           \/ grant' = [grant EXCEPT ![d].status = "RESERVED"]
    PROVE  \A p \in Drafts : /\ grant[p] = NoGrant => grant'[p] = NoGrant
                             /\ grant'[p].tier = grant[p].tier
<1>1. grant[d] # NoGrant
  BY DEF NoGrant
<1>2. grant[d] \in [status : GrantStatus, tier : Tiers, expired : BOOLEAN]
  BY <1>1 DEF TypeInv, TypeOK
<1>3. /\ [grant[d] EXCEPT !.expired = TRUE].tier = grant[d].tier
      /\ [grant[d] EXCEPT !.status = "RESERVED"].tier = grant[d].tier
  BY <1>2
<1>4. grant'[d].tier = grant[d].tier /\ \A p \in Drafts : p # d => grant'[p] = grant[p]
  BY <1>3 DEF TypeInv, TypeOK
<1> QED
  BY <1>1, <1>4

\* Between two posts a run neither grants nor marks.
LEMMA BetweenPosts ==
    ASSUME NEW todo
    PROVE  NextSettle(todo).pc \in {"idle", "next"} /\ IdleSettle.pc = "idle"
  BY DEF NextSettle, IdleSettle

\* The steps of everyone but the settlement runs change nothing that matters.
LEMMA OthersKeep ==
    ASSUME TypeInv,
           \/ \E d \in Drafts :
                \/ StartSocialPromotionDraft(d) \/ DraftExpires(d)
                \/ SubmitSocialPromotionPost(d) \/ CreatePost(d)
                \/ CheckFallsDue(d) \/ TrackPromotionClickByToken(d)
                \/ RetryTechnicalReview(d) \/ AdminDisqualifyPost(d)
                \/ GrantExpires(d)
           \/ \E d \in Drafts, u \in Users : RecordRegistrationAttribution(d, u)
           \/ \E r \in Raffles : RaffleChanges(r)
           \/ \E v \in Validators : ValidationStep(v) \/ ValidationFails(v)
           \/ \E c \in Checkouts : ReserveBonusForCheckout(c) \/ PurchaseStep(c)
    PROVE  /\ UNCHANGED <<settlement, grants, settle>>
           /\ \A p \in Drafts : status'[p] = "SETTLED" => status[p] = "SETTLED"
           /\ \A p \in Drafts : /\ grant[p] = NoGrant => grant'[p] = NoGrant
                                /\ grant'[p].tier = grant[p].tier
<1> USE DEF postVars, eventVars, bonusVars, jobVars
<1>1. UNCHANGED <<settlement, grants, settle>>
  BY DEF StartSocialPromotionDraft, DraftExpires, SubmitSocialPromotionPost, CreatePost,
         CheckFallsDue, TrackPromotionClickByToken, RetryTechnicalReview,
         AdminDisqualifyPost, GrantExpires, RecordRegistrationAttribution, RaffleChanges,
         ValidationStep, LoadDuePosts, ReadPost, PersistValidation, PersistTechnicalReview,
         ValidationFails, ReserveBonusForCheckout, PurchaseStep,
         MarkRedemptionUsedByReservation, RecordPurchaseAttribution, CommitPurchase,
         RollBackPurchase
<1>2. \A p \in Drafts : status'[p] = "SETTLED" => status[p] = "SETTLED"
  <2>1. CASE UNCHANGED status
    BY <2>1
  <2>2. CASE \E q \in Drafts, x \in PostStatus \ {"SETTLED"} :
               status' = [status EXCEPT ![q] = x]
    BY <2>2 DEF TypeInv, TypeOK
  <2>3. ASSUME NEW d \in Drafts, CreatePost(d) \/ RetryTechnicalReview(d) \/ AdminDisqualifyPost(d)
        PROVE  \/ UNCHANGED status
               \/ \E q \in Drafts, x \in PostStatus \ {"SETTLED"} :
                    status' = [status EXCEPT ![q] = x]
    BY <2>3 DEF CreatePost, RetryTechnicalReview, AdminDisqualifyPost, PostStatus
  <2>4. ASSUME NEW v \in Validators, PersistValidation(v) \/ PersistTechnicalReview(v)
        PROVE  \E q \in Drafts, x \in PostStatus \ {"SETTLED"} :
                    status' = [status EXCEPT ![q] = x]
    <3>1. check[v].p \in Drafts
      BY DEF TypeInv, TypeOK, Check
    <3> QED
      BY <2>4, <3>1 DEF PersistValidation, PersistTechnicalReview, PostStatus
  <2> QED
    BY <2>1, <2>2, <2>3, <2>4
       DEF StartSocialPromotionDraft, DraftExpires, SubmitSocialPromotionPost,
           CheckFallsDue, TrackPromotionClickByToken, GrantExpires,
           RecordRegistrationAttribution, RaffleChanges, ValidationStep, LoadDuePosts,
           ReadPost, ValidationFails, ReserveBonusForCheckout, PurchaseStep,
           MarkRedemptionUsedByReservation, RecordPurchaseAttribution, CommitPurchase,
           RollBackPurchase
<1>3. \A p \in Drafts : /\ grant[p] = NoGrant => grant'[p] = NoGrant
                        /\ grant'[p].tier = grant[p].tier
  <2>1. CASE UNCHANGED grant
    BY <2>1
  <2>2. CASE \E d \in Drafts : GrantExpires(d)
    <3>1. PICK d \in Drafts : GrantExpires(d)
      BY <2>2
    <3> QED
      BY <3>1, GrantUpdate DEF GrantExpires
  <2>3. ASSUME NEW c \in Checkouts, MarkRedemptionUsedByReservation(c)
        PROVE  UNCHANGED grant
    BY <2>3 DEF MarkRedemptionUsedByReservation, TypeInv, RedeemedIsDone
  <2>4. ASSUME NEW c \in Checkouts, CommitPurchase(c)
        PROVE  \A p \in Drafts : /\ grant[p] = NoGrant => grant'[p] = NoGrant
                                 /\ grant'[p].tier = grant[p].tier
    <3>1. checkout[c].grant \in Drafts \cup {None}
      BY DEF TypeInv, TypeOK, Checkout
    <3>2. CASE checkout[c].grant = None
      BY <2>4, <3>2 DEF CommitPurchase
    <3>3. CASE checkout[c].grant # None
      BY <2>4, <3>1, <3>3, GrantUpdate DEF CommitPurchase
    <3> QED
      BY <3>2, <3>3
  <2> QED
    BY <2>1, <2>2, <2>3, <2>4
       DEF StartSocialPromotionDraft, DraftExpires, SubmitSocialPromotionPost, CreatePost,
           CheckFallsDue, TrackPromotionClickByToken, RetryTechnicalReview,
           AdminDisqualifyPost, RecordRegistrationAttribution, RaffleChanges,
           ValidationStep, LoadDuePosts, ReadPost, PersistValidation,
           PersistTechnicalReview, ValidationFails, ReserveBonusForCheckout,
           PurchaseStep, RecordPurchaseAttribution, RollBackPurchase
<1> QED
  BY <1>1, <1>2, <1>3

\* The settlement is inserted: no other run was granting, since the post had
\* no settlement.
LEMMA CreateSettlementGrant ==
    ASSUME TypeInv, TypeInv', GrantInv, NEW s \in Settlers, CreateSettlement(s)
    PROVE  GrantInv'
<1> DEFINE p == settle[s].p
<1>0. p \in Drafts /\ settle[s].score \in Nat /\ None \notin Nat
  BY PromotionConstants DEF TypeInv, TypeOK, Settle
<1>1. CASE settlement[p] # None
  <2>1. SettleBecomes(s, Done(s)) /\ UNCHANGED <<settlement, grants, grant, status>>
    BY <1>1 DEF CreateSettlement, postVars
  <2>2. \A t \in Settlers : \/ settle'[t] = settle[t]
                            \/ settle'[t].pc \notin {"grant", "mark"}
    BY <2>1, BetweenPosts DEF SettleBecomes, Done, TypeInv, TypeOK
  <2> QED
    BY <2>1, <2>2, GrantFrame
<1>2. CASE settlement[p] = None
  <2>1. /\ settlement' = [settlement EXCEPT ![p] = settle[s].score]
        /\ UNCHANGED <<grants, grant, status>>
        /\ \/ SettleBecomes(s, AfterSettlement(s))
           \/ SettleBecomes(s, Done(s))
    BY <1>2 DEF CreateSettlement, postVars
  <2>2. grants[p] = 0 /\ grant[p] = NoGrant
    BY <1>0, <1>2 DEF GrantInv, PostInv
  <2>3. \A t \in Settlers : t # s => settle'[t] = settle[t]
    BY <2>1 DEF SettleBecomes, TypeInv, TypeOK
  <2>4. \A t \in Settlers : settle[t].pc \in {"grant", "mark"} => settle[t].p # p
    BY <1>2 DEF GrantInv, RunInv
  <2>5. settle'[s].pc = "grant" => settle'[s].p = p /\ settle'[s].score = settle[s].score
    <3>1. CASE SettleBecomes(s, AfterSettlement(s))
      BY <3>1 DEF SettleBecomes, AfterSettlement, Granting, Marking, TypeInv, TypeOK, Settle
    <3>2. CASE SettleBecomes(s, Done(s))
      BY <3>2, BetweenPosts DEF SettleBecomes, Done, TypeInv, TypeOK
    <3> QED
      BY <2>1, <3>1, <3>2
  <2>6. settle'[s].pc = "mark" => settle'[s].p = p
    <3>1. CASE SettleBecomes(s, AfterSettlement(s))
      BY <3>1 DEF SettleBecomes, AfterSettlement, Granting, Marking, TypeInv, TypeOK, Settle
    <3>2. CASE SettleBecomes(s, Done(s))
      BY <3>2, BetweenPosts DEF SettleBecomes, Done, TypeInv, TypeOK
    <3> QED
      BY <2>1, <3>1, <3>2
  <2>7. settlement'[p] = settle[s].score /\ settlement'[p] # None
    BY <1>0, <2>1 DEF TypeInv, TypeOK
  <2>8. \A q \in Drafts : q # p => settlement'[q] = settlement[q]
    BY <2>1 DEF TypeInv, TypeOK
  <2> HIDE DEF p
  <2>9. \A q \in Drafts : PostInv(q)'
    <3> TAKE q \in Drafts
    <3>1. PostInv(q)
      BY DEF GrantInv
    <3>2. CASE q = p
      BY <2>1, <2>2, <2>7, <3>2 DEF PostInv
    <3>3. CASE q # p
      BY <2>1, <2>8, <3>1, <3>3 DEF PostInv, BonusTier
    <3> QED
      BY <3>2, <3>3
  <2>10. \A t \in Settlers : RunInv(t)'
    <3> TAKE t \in Settlers
    <3>1. CASE t = s
      BY <2>1, <2>2, <2>5, <2>6, <2>7, <3>1 DEF RunInv
    <3>2. CASE t # s
      <4>1. RunInv(t) /\ settle[t].p \in Drafts
        BY DEF GrantInv, TypeInv, TypeOK, Settle
      <4> QED
        BY <2>1, <2>3, <2>4, <2>8, <3>2, <4>1 DEF RunInv
    <3> QED
      BY <3>1, <3>2
  <2>11. OneGranter'
    BY <2>3, <2>4, <2>5 DEF GrantInv, OneGranter
  <2> QED
    BY <2>9, <2>10, <2>11 DEF GrantInv
<1> QED
  BY <1>1, <1>2

\* The grant is inserted by the only run that may.
LEMMA CreateGrantGrant ==
    ASSUME TypeInv, TypeInv', GrantInv, NEW s \in Settlers, CreateGrant(s)
    PROVE  GrantInv'
<1> DEFINE p == settle[s].p
<1>0. p \in Drafts /\ settle[s].pc = "grant"
  BY DEF TypeInv, TypeOK, Settle, CreateGrant
<1>1. settlement[p] = settle[s].score /\ grants[p] = 0 /\ settlement[p] # None
  BY <1>0 DEF GrantInv, RunInv
<1>2. PICK t \in BonusTier(settlement[p]) :
        grant' = [grant EXCEPT ![p] = [status |-> "AVAILABLE", tier |-> t,
                                       expired |-> FALSE]]
  BY <1>1 DEF CreateGrant
<1>3. /\ grants' = [grants EXCEPT ![p] = @ + 1]
      /\ UNCHANGED <<settlement, status>>
      /\ \/ SettleBecomes(s, Marking(s))
         \/ SettleBecomes(s, Done(s))
  BY DEF CreateGrant, postVars
<1>4. \A q \in Settlers : q # s => settle'[q] = settle[q]
  BY <1>3 DEF SettleBecomes, TypeInv, TypeOK
<1>5. settle'[s].pc # "grant" /\ (settle'[s].pc = "mark" => settle'[s].p = p)
  <2>1. CASE SettleBecomes(s, Marking(s))
    BY <2>1 DEF SettleBecomes, Marking, TypeInv, TypeOK, Settle
  <2>2. CASE SettleBecomes(s, Done(s))
    BY <2>2, BetweenPosts DEF SettleBecomes, Done, TypeInv, TypeOK
  <2> QED
    BY <1>3, <2>1, <2>2
<1>6. /\ grants'[p] = 1 /\ grant'[p].tier = t
      /\ \A q \in Drafts : q # p => grants'[q] = grants[q] /\ grant'[q] = grant[q]
  BY <1>0, <1>1, <1>2, <1>3 DEF TypeInv, TypeOK
<1> HIDE DEF p
<1>7. \A q \in Drafts : PostInv(q)'
  <2> TAKE q \in Drafts
  <2>1. PostInv(q)
    BY DEF GrantInv
  <2>2. CASE q = p
    BY <1>1, <1>2, <1>3, <1>6, <2>2 DEF PostInv, BonusTier
  <2>3. CASE q # p
    BY <1>3, <1>6, <2>1, <2>3 DEF PostInv, BonusTier
  <2> QED
    BY <2>2, <2>3
<1>8. \A q \in Settlers : RunInv(q)'
  <2> TAKE q \in Settlers
  <2>1. CASE q = s
    BY <1>1, <1>3, <1>5, <2>1 DEF RunInv
  <2>2. CASE q # s
    <3>1. RunInv(q) /\ settle[q].p \in Drafts
      BY DEF GrantInv, TypeInv, TypeOK, Settle
    <3>2. settle[q].pc = "grant" => settle[q].p # p
      BY <1>0, <2>2 DEF GrantInv, OneGranter, p
    <3> QED
      BY <1>3, <1>4, <1>6, <2>2, <3>1, <3>2 DEF RunInv
  <2> QED
    BY <2>1, <2>2
<1>9. OneGranter'
  BY <1>4, <1>5 DEF GrantInv, OneGranter
<1> QED
  BY <1>7, <1>8, <1>9 DEF GrantInv

\* A settlement run keeps the invariant, also when it fails.
LEMMA SettlementGrant ==
    ASSUME TypeInv, TypeInv', GrantInv, NEW s \in Settlers,
           SettlementStep(s) \/ SettlementFails(s)
    PROVE  GrantInv'
<1> USE DEF postVars, eventVars, bonusVars
<1>0. settle[s].p \in Drafts
  BY DEF TypeInv, TypeOK, Settle
<1>1. CASE CreateSettlement(s)
  BY <1>1, CreateSettlementGrant
<1>2. CASE CreateGrant(s)
  BY <1>2, CreateGrantGrant
<1>3. ASSUME \/ LoadClosedPosts(s) \/ \E p \in Drafts : LoadCandidate(s, p)
             \/ DisqualifyUnsettled(s) \/ MarkSettled(s) \/ SettlementFails(s)
      PROVE  GrantInv'
  <2>1. UNCHANGED <<settlement, grants, grant>>
    BY <1>3 DEF LoadClosedPosts, LoadCandidate, DisqualifyUnsettled, MarkSettled,
                SettlementFails
  <2>2. \E x : SettleBecomes(s, x) /\ x.pc \notin {"grant", "mark"}
    <3>1. ASSUME NEW p \in Drafts, LoadCandidate(s, p)
          PROVE  \E x : SettleBecomes(s, x) /\ x.pc \notin {"grant", "mark"}
      BY <3>1, BetweenPosts DEF LoadCandidate
    <3>2. ASSUME NEW todo, SettleBecomes(s, NextSettle(todo)) \/ SettleBecomes(s, IdleSettle)
          PROVE  \E x : SettleBecomes(s, x) /\ x.pc \notin {"grant", "mark"}
      BY <3>2, BetweenPosts
    <3>3. CASE LoadClosedPosts(s)
      BY <3>2, <3>3 DEF LoadClosedPosts
    <3>4. CASE DisqualifyUnsettled(s) \/ MarkSettled(s)
      BY <3>2, <3>4 DEF DisqualifyUnsettled, MarkSettled, Done
    <3>5. CASE SettlementFails(s)
      BY <3>2, <3>5 DEF SettlementFails, Done
    <3> QED
      BY <1>3, <3>1, <3>3, <3>4, <3>5
  <2>3. \A t \in Settlers : \/ settle'[t] = settle[t]
                            \/ settle'[t].pc \notin {"grant", "mark"}
    BY <2>2 DEF SettleBecomes, TypeInv, TypeOK
  <2>4. \A p \in Drafts : status'[p] = "SETTLED" =>
            status[p] = "SETTLED" \/ settlement[p] # None
    <3>1. CASE MarkSettled(s)
      <4>1. settlement[settle[s].p] # None
        BY <3>1 DEF MarkSettled, GrantInv, RunInv
      <4> QED
        BY <1>0, <3>1, <4>1 DEF MarkSettled, TypeInv, TypeOK
    <3>2. CASE DisqualifyUnsettled(s)
      BY <1>0, <3>2 DEF DisqualifyUnsettled, TypeInv, TypeOK
    <3>3. CASE UNCHANGED status
      BY <3>3
    <3> QED
      BY <1>3, <3>1, <3>2, <3>3 DEF LoadClosedPosts, LoadCandidate, SettlementFails
  <2> QED
    BY <2>1, <2>3, <2>4, GrantFrame
<1> QED
  BY <1>1, <1>2, <1>3 DEF SettlementStep

\* Initially nothing is settled or granted.
LEMMA InitGrant == Init => GrantInv
  BY DEF Init, GrantInv, PostInv, RunInv, OneGranter, IdleSettle

\* Every step keeps the invariant.
LEMMA StepGrant == TypeInv /\ TypeInv' /\ GrantInv /\ [Next]_vars => GrantInv'
<1> SUFFICES ASSUME TypeInv, TypeInv', GrantInv, [Next]_vars PROVE GrantInv'
  OBVIOUS
<1>1. CASE Next
  <2>1. CASE \E s \in Settlers : SettlementStep(s) \/ SettlementFails(s)
    BY <2>1, SettlementGrant
  <2>2. CASE ~ \E s \in Settlers : SettlementStep(s) \/ SettlementFails(s)
    <3>1. /\ UNCHANGED <<settlement, grants, settle>>
          /\ \A p \in Drafts : status'[p] = "SETTLED" => status[p] = "SETTLED"
          /\ \A p \in Drafts : /\ grant[p] = NoGrant => grant'[p] = NoGrant
                               /\ grant'[p].tier = grant[p].tier
      BY <1>1, <2>2, OthersKeep DEF Next
    <3> QED
      BY <3>1, GrantFrame
  <2> QED
    BY <2>1, <2>2
<1>2. CASE UNCHANGED vars
  BY <1>2, GrantFrame DEF vars, postVars, bonusVars, jobVars
<1> QED
  BY <1>1, <1>2

\* Types and grants, as one invariant.
LEMMA GrantInvariant == Spec => [](TypeInv /\ GrantInv)
  BY InitType, StepType, InitGrant, StepGrant, PTL DEF Spec

\* However many settlement runs overlap, fail or die, a post earns at most one
\* grant, of the best tier its recorded score reaches.
THEOREM GrantTheorem == Spec => []GrantIsEarned
<1>1. TypeInv /\ GrantInv => GrantIsEarned
  <2> SUFFICES ASSUME TypeInv, GrantInv, NEW p \in Drafts
               PROVE  /\ grants[p] <= 1
                      /\ grant[p] # NoGrant =>
                           /\ settlement[p] # None
                           /\ grant[p].tier <= settlement[p]
                           /\ \A t \in Tiers : t <= settlement[p] => t <= grant[p].tier
    BY DEF GrantIsEarned
  <2>1. PostInv(p)
    BY DEF GrantInv
  <2>2. grants[p] <= 1
    BY <2>1 DEF PostInv
  <2>3. ASSUME grant[p] # NoGrant
        PROVE  settlement[p] # None /\ grant[p].tier \in BonusTier(settlement[p])
    BY <2>1, <2>3 DEF PostInv
  <2> QED
    BY <2>2, <2>3 DEF BonusTier
<1> QED
  BY <1>1, GrantInvariant, PTL

\* A post shown as SETTLED has its settlement, whatever validation runs and
\* admins write over its status.
THEOREM SettledTheorem == Spec => []SettledHasScore
<1>1. GrantInv => SettledHasScore
  BY DEF GrantInv, PostInv, SettledHasScore
<1> QED
  BY <1>1, GrantInvariant, PTL

-----------------------------------------------------------------------------
(* A settlement is final *)

\* No step changes a settlement or the tier of a grant that is there.
LEMMA FinalStep ==
    ASSUME TypeInv, GrantInv, [Next]_vars
    PROVE  \A p \in Drafts :
             /\ settlement[p] # None => settlement'[p] = settlement[p]
             /\ grant[p] # NoGrant => grant'[p].tier = grant[p].tier
<1> USE DEF postVars, eventVars, bonusVars
<1>1. ASSUME NEW s \in Settlers, CreateSettlement(s)
      PROVE  UNCHANGED grant /\ \A p \in Drafts :
               settlement[p] # None => settlement'[p] = settlement[p]
  <2>1. settle[s].p \in Drafts
    BY DEF TypeInv, TypeOK, Settle
  <2> QED
    BY <1>1, <2>1 DEF CreateSettlement, TypeInv, TypeOK
<1>2. ASSUME NEW s \in Settlers, CreateGrant(s)
      PROVE  UNCHANGED settlement /\ \A p \in Drafts :
               grant[p] # NoGrant => grant'[p] = grant[p]
  <2>1. settle[s].p \in Drafts
    BY DEF TypeInv, TypeOK, Settle
  <2>2. grant[settle[s].p] = NoGrant
    BY <1>2, <2>1 DEF CreateGrant, GrantInv, RunInv, PostInv
  <2> QED
    BY <1>2, <2>1, <2>2 DEF CreateGrant, TypeInv, TypeOK
<1>3. ASSUME NEW s \in Settlers,
             \/ LoadClosedPosts(s) \/ \E p \in Drafts : LoadCandidate(s, p)
             \/ DisqualifyUnsettled(s) \/ MarkSettled(s) \/ SettlementFails(s)
      PROVE  UNCHANGED <<settlement, grant>>
  BY <1>3 DEF LoadClosedPosts, LoadCandidate, DisqualifyUnsettled, MarkSettled,
              SettlementFails
<1>4. CASE \E s \in Settlers : SettlementStep(s) \/ SettlementFails(s)
  BY <1>1, <1>2, <1>3, <1>4 DEF SettlementStep
<1>5. CASE Next /\ ~ \E s \in Settlers : SettlementStep(s) \/ SettlementFails(s)
  <2>1. /\ UNCHANGED settlement
        /\ \A p \in Drafts : grant'[p].tier = grant[p].tier
    BY <1>5, OthersKeep DEF Next
  <2> QED
    BY <2>1
<1>6. CASE UNCHANGED vars
  BY <1>6 DEF vars
<1> QED
  BY <1>4, <1>5, <1>6

\* No run, retry or re-validation changes the score of a settled post or the
\* tier it was granted.
THEOREM FinalTheorem == Spec => SettlementIsFinal
<1>1. TypeInv /\ GrantInv /\ [Next]_vars =>
        [\A p \in Drafts :
           /\ settlement[p] # None => settlement'[p] = settlement[p]
           /\ grant[p] # NoGrant => grant'[p].tier = grant[p].tier]_vars
  BY FinalStep
<1> QED
  BY <1>1, GrantInvariant, PTL DEF Spec, SettlementIsFinal

-----------------------------------------------------------------------------
(* A grant discounts one purchase *)

\* The purchases that keep a redemption of a grant.
Uses(g) == {c \in Checkouts : redemption[c] # "NONE" /\ checkout[c].grant = g}

\* A grant that some purchase kept.
Redeemed(g) == g.status \in {"RESERVED", "USED"}

\* A step that writes no redemption, changes no purchase that has one, and
\* reserves or frees no grant.
LEMMA RedeemFrame ==
    ASSUME RedeemedOnce, UNCHANGED redemption,
           \A c \in Checkouts : checkout'[c] = checkout[c] \/ redemption[c] = "NONE",
           \A g \in Drafts : Redeemed(grant'[g]) <=> Redeemed(grant[g])
    PROVE  RedeemedOnce'
<1> SUFFICES ASSUME NEW g \in Drafts
             PROVE  /\ \A c, e \in Uses(g)' : c = e
                    /\ Uses(g)' # {} <=> Redeemed(grant'[g])
  BY DEF RedeemedOnce, Uses, Redeemed
<1>1. Uses(g)' = Uses(g)
  BY DEF Uses
<1>2. /\ \A c, e \in Uses(g) : c = e
      /\ Uses(g) # {} <=> Redeemed(grant[g])
  BY DEF RedeemedOnce, Uses, Redeemed
<1> QED
  BY <1>1, <1>2

\* A committed purchase is the only one that uses its grant.
LEMMA CommitRedeems ==
    ASSUME TypeInv, RedeemedOnce, NEW c \in Checkouts, CommitPurchase(c)
    PROVE  RedeemedOnce'
<1>1. redemption[c] = "NONE"
  BY DEF CommitPurchase, TypeInv, RedeemedIsDone
<1>2. \A e \in Checkouts : e # c => checkout'[e] = checkout[e]
  BY DEF CommitPurchase, CheckoutGoTo, TypeInv, TypeOK
<1>3. CASE checkout[c].grant = None
  <2>1. UNCHANGED <<redemption, grant>>
    BY <1>3 DEF CommitPurchase
  <2> QED
    BY <1>1, <1>2, <2>1, RedeemFrame
<1>4. CASE checkout[c].grant # None
  <2> DEFINE h == checkout[c].grant
  <2>1. h \in Drafts /\ grant[h].status = "AVAILABLE"
    BY <1>4 DEF TypeInv, TypeOK, Checkout, CommitPurchase
  <2>2. /\ redemption' = [redemption EXCEPT ![c] = "RESERVED"]
        /\ grant' = [grant EXCEPT ![h].status = "RESERVED"]
    BY <1>4 DEF CommitPurchase
  <2>3. checkout'[c].grant = h
    BY DEF CommitPurchase, CheckoutGoTo, TypeInv, TypeOK, Checkout
  <2>4. /\ grant'[h].status = "RESERVED"
        /\ \A g \in Drafts : g # h => grant'[g] = grant[g]
    <3>1. grant[h] \in [status : GrantStatus, tier : Tiers, expired : BOOLEAN]
      BY <2>1 DEF TypeInv, TypeOK, NoGrant
    <3>2. [grant[h] EXCEPT !.status = "RESERVED"].status = "RESERVED"
      BY <3>1
    <3> QED
      BY <2>1, <2>2, <3>2 DEF TypeInv, TypeOK
  <2>5. redemption'[c] = "RESERVED" /\ \A e \in Checkouts : e # c => redemption'[e] = redemption[e]
    BY <2>2 DEF TypeInv, TypeOK
  <2> HIDE DEF h
  <2> SUFFICES ASSUME NEW g \in Drafts
               PROVE  /\ \A d, e \in Uses(g)' : d = e
                      /\ Uses(g)' # {} <=> Redeemed(grant'[g])
    BY DEF RedeemedOnce, Uses, Redeemed
  <2>6. /\ \A d, e \in Uses(g) : d = e
        /\ Uses(g) # {} <=> Redeemed(grant[g])
    BY DEF RedeemedOnce, Uses, Redeemed
  <2>7. CASE g = h
    <3>1. Uses(g) = {}
      BY <2>1, <2>6, <2>7 DEF Redeemed
    <3>2. Uses(g)' = {c}
      BY <1>2, <2>3, <2>5, <2>7, <3>1 DEF Uses
    <3> QED
      BY <2>4, <2>7, <3>2 DEF Redeemed
  <2>8. CASE g # h
    <3>1. Uses(g)' = Uses(g)
      BY <1>1, <1>2, <2>3, <2>5, <2>8 DEF Uses
    <3> QED
      BY <2>4, <2>6, <2>8, <3>1
  <2> QED
    BY <2>7, <2>8
<1> QED
  BY <1>3, <1>4

\* Every step keeps it.  A new grant replaces none, so none was reserved.
LEMMA StepRedeems ==
    ASSUME TypeInv, GrantInv, RedeemedOnce, [Next]_vars
    PROVE  RedeemedOnce'
<1> USE DEF postVars, eventVars, bonusVars, jobVars
<1>1. CASE UNCHANGED <<redemption, grant, checkout>>
  BY <1>1, RedeemFrame
<1>2. ASSUME NEW d \in Drafts, GrantExpires(d)
      PROVE  RedeemedOnce'
  <2>1. grant[d] \in [status : GrantStatus, tier : Tiers, expired : BOOLEAN]
    BY <1>2 DEF GrantExpires, TypeInv, TypeOK, NoGrant
  <2>2. [grant[d] EXCEPT !.expired = TRUE].status = grant[d].status
    BY <2>1
  <2>3. \A g \in Drafts : grant'[g].status = grant[g].status
    BY <1>2, <2>2 DEF GrantExpires, TypeInv, TypeOK
  <2>4. UNCHANGED <<redemption, checkout>>
    BY <1>2 DEF GrantExpires
  <2> QED
    BY <2>3, <2>4, RedeemFrame DEF Redeemed
<1>3. ASSUME NEW s \in Settlers, CreateGrant(s)
      PROVE  RedeemedOnce'
  <2>1. settle[s].p \in Drafts
    BY DEF TypeInv, TypeOK, Settle
  <2>2. grant[settle[s].p] = NoGrant
    BY <1>3, <2>1 DEF CreateGrant, GrantInv, RunInv, PostInv
  <2>3. \A g \in Drafts : Redeemed(grant'[g]) <=> Redeemed(grant[g])
    BY <1>3, <2>1, <2>2 DEF CreateGrant, NoGrant, TypeInv, TypeOK, Redeemed
  <2>4. UNCHANGED <<redemption, checkout>>
    BY <1>3 DEF CreateGrant
  <2> QED
    BY <2>3, <2>4, RedeemFrame
<1>4. ASSUME NEW c \in Checkouts,
             \/ ReserveBonusForCheckout(c) \/ MarkRedemptionUsedByReservation(c)
             \/ RecordPurchaseAttribution(c) \/ RollBackPurchase(c)
      PROVE  RedeemedOnce'
  <2>1. redemption[c] = "NONE"
    BY <1>4 DEF ReserveBonusForCheckout, MarkRedemptionUsedByReservation,
                RecordPurchaseAttribution, RollBackPurchase, TypeInv, RedeemedIsDone
  <2>2. UNCHANGED <<redemption, grant>>
    BY <1>4, <2>1 DEF ReserveBonusForCheckout, MarkRedemptionUsedByReservation,
                RecordPurchaseAttribution, RollBackPurchase
  <2>3. \A e \in Checkouts : e # c => checkout'[e] = checkout[e]
    BY <1>4 DEF ReserveBonusForCheckout, MarkRedemptionUsedByReservation, CheckoutGoTo,
                RecordPurchaseAttribution, RollBackPurchase, TypeInv, TypeOK
  <2> QED
    BY <2>1, <2>2, <2>3, RedeemFrame
<1>5. ASSUME NEW c \in Checkouts, CommitPurchase(c)
      PROVE  RedeemedOnce'
  BY <1>5, CommitRedeems
<1>6. ASSUME NEW d \in Drafts,
             \/ StartSocialPromotionDraft(d) \/ DraftExpires(d)
             \/ SubmitSocialPromotionPost(d) \/ CreatePost(d)
             \/ CheckFallsDue(d) \/ TrackPromotionClickByToken(d)
             \/ RetryTechnicalReview(d) \/ AdminDisqualifyPost(d)
             \/ \E u \in Users : RecordRegistrationAttribution(d, u)
      PROVE  UNCHANGED <<redemption, grant, checkout>>
  BY <1>6 DEF StartSocialPromotionDraft, DraftExpires, SubmitSocialPromotionPost,
              CreatePost, CheckFallsDue, TrackPromotionClickByToken,
              RetryTechnicalReview, AdminDisqualifyPost, RecordRegistrationAttribution
<1>7. ASSUME \/ \E r \in Raffles : RaffleChanges(r)
             \/ \E v \in Validators : ValidationStep(v) \/ ValidationFails(v)
      PROVE  UNCHANGED <<redemption, grant, checkout>>
  BY <1>7 DEF RaffleChanges, ValidationStep, LoadDuePosts, ReadPost, PersistValidation,
              PersistTechnicalReview, ValidationFails
<1>8. ASSUME NEW s \in Settlers,
             \/ LoadClosedPosts(s) \/ \E p \in Drafts : LoadCandidate(s, p)
             \/ DisqualifyUnsettled(s) \/ CreateSettlement(s) \/ MarkSettled(s)
             \/ SettlementFails(s)
      PROVE  UNCHANGED <<redemption, grant, checkout>>
  BY <1>8 DEF LoadClosedPosts, LoadCandidate, DisqualifyUnsettled, CreateSettlement,
              MarkSettled, SettlementFails
<1>9. CASE UNCHANGED vars
  BY <1>1, <1>9 DEF vars
<1> QED
  BY <1>1, <1>2, <1>3, <1>4, <1>5, <1>6, <1>7, <1>8, <1>9
     DEF Next, SettlementStep, PurchaseStep

\* For any number of concurrent purchases, a grant is kept by at most one, it is
\* never free again after that, and it is free as long as no purchase kept it.
THEOREM RedeemTheorem == Spec => []RedeemedOnce
<1>1. Init => RedeemedOnce
  BY DEF Init, RedeemedOnce, NoGrant
<1>2. TypeInv /\ GrantInv /\ RedeemedOnce /\ [Next]_vars => RedeemedOnce'
  BY StepRedeems
<1> QED
  BY <1>1, <1>2, GrantInvariant, PTL DEF Spec

\* No redemption and no grant is marked as used.
NothingIsUsed == /\ \A c \in Checkouts : redemption[c] # "USED"
                 /\ \A g \in Drafts : grant[g].status # "USED"

\* Changing one field of an available grant does not mark it as used.
LEMMA UpdateUsesNothing ==
    ASSUME TypeInv, NothingIsUsed, NEW d \in Drafts, grant[d].status = "AVAILABLE",
           \/ grant' = [grant EXCEPT ![d].expired = TRUE]
           \/ grant' = [grant EXCEPT ![d].status = "RESERVED"]
    PROVE  \A g \in Drafts : grant'[g].status # "USED"
<1>1. grant[d] \in [status : GrantStatus, tier : Tiers, expired : BOOLEAN]
  BY DEF NoGrant, TypeInv, TypeOK
<1>2. /\ [grant[d] EXCEPT !.expired = TRUE].status = "AVAILABLE"
      /\ [grant[d] EXCEPT !.status = "RESERVED"].status = "RESERVED"
  BY <1>1
<1>3. grant'[d].status # "USED" /\ \A g \in Drafts : g # d => grant'[g] = grant[g]
  BY <1>2 DEF TypeInv, TypeOK
<1> QED
  BY <1>3 DEF NothingIsUsed

\* A step of a purchase marks nothing: when it looks for its redemption, the row
\* is not committed (RedeemedIsDone).
LEMMA PurchaseUsesNothing ==
    ASSUME TypeInv, NothingIsUsed, NEW c \in Checkouts, PurchaseStep(c)
    PROVE  NothingIsUsed'
<1>1. CASE MarkRedemptionUsedByReservation(c)
  <2>1. redemption[c] = "NONE"
    BY <1>1 DEF MarkRedemptionUsedByReservation, TypeInv, RedeemedIsDone
  <2> QED
    BY <1>1, <2>1 DEF MarkRedemptionUsedByReservation, NothingIsUsed
<1>2. CASE RecordPurchaseAttribution(c) \/ RollBackPurchase(c)
  BY <1>2 DEF RecordPurchaseAttribution, RollBackPurchase, NothingIsUsed, bonusVars
<1>3. CASE CommitPurchase(c)
  <2>1. \A e \in Checkouts : redemption'[e] # "USED"
    BY <1>3 DEF CommitPurchase, NothingIsUsed, TypeInv, TypeOK
  <2>2. CASE checkout[c].grant = None
    BY <1>3, <2>1, <2>2 DEF CommitPurchase, NothingIsUsed
  <2>3. CASE checkout[c].grant # None
    <3> DEFINE h == checkout[c].grant
    <3>1. h \in Drafts /\ grant[h].status = "AVAILABLE"
      BY <1>3, <2>3 DEF TypeInv, TypeOK, Checkout, CommitPurchase
    <3>2. grant' = [grant EXCEPT ![h].status = "RESERVED"]
      BY <1>3, <2>3 DEF CommitPurchase
    <3> HIDE DEF h
    <3>3. \A g \in Drafts : grant'[g].status # "USED"
      BY <3>1, <3>2, UpdateUsesNothing
    <3> QED
      BY <2>1, <3>3 DEF NothingIsUsed
  <2> QED
    BY <2>2, <2>3
<1> QED
  BY <1>1, <1>2, <1>3 DEF PurchaseStep

\* A settlement run creates grants that are available.
LEMMA SettlementUsesNothing ==
    ASSUME TypeInv, NothingIsUsed, NEW s \in Settlers,
           SettlementStep(s) \/ SettlementFails(s)
    PROVE  NothingIsUsed'
<1>1. CASE UNCHANGED <<grant, redemption>>
  BY <1>1 DEF NothingIsUsed
<1>2. CASE CreateGrant(s)
  BY <1>2 DEF CreateGrant, NothingIsUsed, TypeInv, TypeOK
<1> QED
  BY <1>1, <1>2 DEF SettlementStep, SettlementFails, LoadClosedPosts, LoadCandidate,
     DisqualifyUnsettled, CreateSettlement, MarkSettled, bonusVars

\* Against the documents (docs/domain-flows.md:221 has the grant of a confirmed
\* purchase pass to USED; RedeemedBonusIsUsed says so): however purchases overlap,
\* no redemption and no grant ever becomes USED, because
\* markRedemptionUsedByReservation looks on another connection for a row that is
\* only committed after it.
THEOREM NothingUsedTheorem == Spec => []NothingIsUsed
<1>1. Init => NothingIsUsed
  BY DEF Init, NothingIsUsed, NoGrant
<1>2. TypeInv /\ NothingIsUsed /\ [Next]_vars => NothingIsUsed'
  <2> SUFFICES ASSUME TypeInv, NothingIsUsed, [Next]_vars PROVE NothingIsUsed'
    OBVIOUS
  <2>1. CASE UNCHANGED <<grant, redemption>>
    BY <2>1 DEF NothingIsUsed
  <2>2. ASSUME NEW d \in Drafts, GrantExpires(d) PROVE NothingIsUsed'
    <3>1. UNCHANGED redemption /\ \A g \in Drafts : grant'[g].status # "USED"
      BY <2>2, UpdateUsesNothing DEF GrantExpires
    <3> QED
      BY <3>1 DEF NothingIsUsed
  <2>3. CASE \E c \in Checkouts : PurchaseStep(c)
    BY <2>3, PurchaseUsesNothing
  <2>4. CASE \E s \in Settlers : SettlementStep(s) \/ SettlementFails(s)
    BY <2>4, SettlementUsesNothing
  <2>5. CASE \E d \in Drafts :
               \/ StartSocialPromotionDraft(d) \/ DraftExpires(d)
               \/ SubmitSocialPromotionPost(d) \/ CreatePost(d)
               \/ CheckFallsDue(d) \/ TrackPromotionClickByToken(d)
               \/ RetryTechnicalReview(d) \/ AdminDisqualifyPost(d)
    BY <2>1, <2>5 DEF StartSocialPromotionDraft, DraftExpires, SubmitSocialPromotionPost,
       CreatePost, CheckFallsDue, TrackPromotionClickByToken, RetryTechnicalReview,
       AdminDisqualifyPost, bonusVars
  <2>6. CASE \/ \E d \in Drafts, u \in Users : RecordRegistrationAttribution(d, u)
             \/ \E r \in Raffles : RaffleChanges(r)
             \/ \E c \in Checkouts : ReserveBonusForCheckout(c)
    BY <2>1, <2>6 DEF RecordRegistrationAttribution, RaffleChanges,
       ReserveBonusForCheckout, bonusVars
  <2>7. CASE \E v \in Validators : ValidationStep(v) \/ ValidationFails(v)
    BY <2>1, <2>7 DEF ValidationStep, LoadDuePosts, ReadPost, PersistValidation,
       PersistTechnicalReview, ValidationFails, bonusVars
  <2>8. CASE UNCHANGED vars
    BY <2>1, <2>8 DEF vars, bonusVars
  <2> QED
    BY <2>2, <2>3, <2>4, <2>5, <2>6, <2>7, <2>8 DEF Next
<1> QED
  BY <1>1, <1>2, TypeInvariant, PTL DEF Spec

-----------------------------------------------------------------------------
(* Scores are backed *)

\* Metrics that some read of the post's events found: events are never deleted,
\* so they are at most what a read finds now.
Within(m, p) == /\ m.clicks <= clicks[p]
                /\ m.registrations <= Cardinality(registered[p])
                /\ m.tickets <= tickets[p]

Backed(score, p) ==
    \E e \in Engagements : score <= TotalScore(e, getAttributedMetrics(p))

\* Snapshots, also those a validation run holds and has not written yet, and
\* scores, also those a settlement run has not recorded yet, are backed.
ScoreInv ==
    /\ \A p \in Drafts : Within(snapshot[p].metrics, p)
    /\ \A v \in Validators : Within(check[v].found.metrics, check[v].p)
    /\ \A s \in Settlers : settle[s].pc \in {"settlement", "grant"} =>
                              Backed(settle[s].score, settle[s].p)
    /\ \A p \in Drafts : settlement[p] # None => Backed(settlement[p], p)

\* More events never lower a score.
LEMMA ScoreMonotone ==
    ASSUME NEW e \in Nat, NEW m \in Metrics, NEW n \in Metrics,
           m.clicks <= n.clicks, m.registrations <= n.registrations,
           m.tickets <= n.tickets
    PROVE  TotalScore(e, m) <= TotalScore(e, n)
<1>1. /\ m.clicks \in Nat /\ m.registrations \in Nat /\ m.tickets \in Nat
      /\ n.clicks \in Nat /\ n.registrations \in Nat /\ n.tickets \in Nat
  BY DEF Metrics
<1> DEFINE a == 10000 + e + 100 * m.clicks + 3000 * m.registrations
                      + 1500 * m.tickets + 5
           b == 10000 + e + 100 * n.clicks + 3000 * n.registrations
                      + 1500 * n.tickets + 5
<1>2. a \in Nat /\ b \in Nat /\ a <= b
  BY <1>1
<1> HIDE DEF a, b
<1>3. a \div 10 <= b \div 10
  BY <1>2
<1> QED
  BY <1>3 DEF TotalScore, a, b

\* Events of a post are only added.
LEMMA EventsGrow ==
    ASSUME TypeInv, [Next]_vars, NEW p \in Drafts
    PROVE  /\ clicks[p] <= clicks'[p] /\ tickets[p] <= tickets'[p]
           /\ registered[p] \subseteq registered'[p]
<1> USE DEF postVars, eventVars, bonusVars, jobVars, TypeInv
<1>0. clicks[p] \in Nat /\ tickets[p] \in Nat
  BY DEF TypeOK
<1>1. CASE UNCHANGED <<clicks, registered, tickets>>
  BY <1>0, <1>1
<1>2. ASSUME NEW d \in Drafts, TrackPromotionClickByToken(d)
      PROVE  clicks[p] <= clicks'[p] /\ UNCHANGED <<registered, tickets>>
  BY <1>2 DEF TrackPromotionClickByToken, TypeOK
<1>3. ASSUME NEW d \in Drafts, NEW u \in Users, RecordRegistrationAttribution(d, u)
      PROVE  registered[p] \subseteq registered'[p] /\ UNCHANGED <<clicks, tickets>>
  BY <1>3 DEF RecordRegistrationAttribution, TypeOK
<1>4. ASSUME NEW c \in Checkouts, RecordPurchaseAttribution(c)
      PROVE  tickets[p] <= tickets'[p] /\ UNCHANGED <<clicks, registered>>
  <2>1. checkout[c].n \in Nat
    BY DEF TypeOK, Checkout
  <2> QED
    BY <1>4, <2>1 DEF RecordPurchaseAttribution, TypeOK, Posts
<1>5. ASSUME NEW d \in Drafts,
             \/ StartSocialPromotionDraft(d) \/ DraftExpires(d)
             \/ SubmitSocialPromotionPost(d) \/ CreatePost(d)
             \/ CheckFallsDue(d) \/ RetryTechnicalReview(d) \/ AdminDisqualifyPost(d)
             \/ GrantExpires(d)
      PROVE  UNCHANGED eventVars
  BY <1>5 DEF StartSocialPromotionDraft, DraftExpires, SubmitSocialPromotionPost,
              CreatePost, CheckFallsDue, RetryTechnicalReview, AdminDisqualifyPost,
              GrantExpires
<1>6. ASSUME \/ \E r \in Raffles : RaffleChanges(r)
             \/ \E v \in Validators : ValidationStep(v) \/ ValidationFails(v)
      PROVE  UNCHANGED eventVars
  BY <1>6 DEF RaffleChanges, ValidationStep, LoadDuePosts, ReadPost, PersistValidation,
              PersistTechnicalReview, ValidationFails
<1>7. ASSUME NEW s \in Settlers, SettlementStep(s) \/ SettlementFails(s)
      PROVE  UNCHANGED eventVars
  BY <1>7 DEF SettlementStep, LoadClosedPosts, LoadCandidate, DisqualifyUnsettled,
              CreateSettlement, CreateGrant, MarkSettled, SettlementFails
<1>8. ASSUME NEW c \in Checkouts,
             \/ ReserveBonusForCheckout(c) \/ MarkRedemptionUsedByReservation(c)
             \/ CommitPurchase(c) \/ RollBackPurchase(c)
      PROVE  UNCHANGED eventVars
  BY <1>8 DEF ReserveBonusForCheckout, MarkRedemptionUsedByReservation, CommitPurchase,
              RollBackPurchase
<1>9. CASE UNCHANGED vars
  BY <1>1, <1>9 DEF vars
<1> QED
  BY <1>0, <1>1, <1>2, <1>3, <1>4, <1>5, <1>6, <1>7, <1>8, <1>9 DEF Next, PurchaseStep

\* So what was within the events, or backed by them, stays so.
LEMMA StaysBacked ==
    ASSUME TypeInv, TypeInv', [Next]_vars, NEW p \in Drafts
    PROVE  /\ \A m \in Metrics : Within(m, p) => Within(m, p)'
           /\ \A n \in Nat : Backed(n, p) => Backed(n, p)'
<1>1. /\ IsFiniteSet(registered'[p]) /\ Cardinality(registered'[p]) \in Nat
      /\ Cardinality(registered[p]) \in Nat
      /\ getAttributedMetrics(p) \in Metrics /\ getAttributedMetrics(p)' \in Metrics
  <2>1. (TypeOK /\ p \in Drafts => /\ IsFiniteSet(registered[p])
                                   /\ Cardinality(registered[p]) \in Nat)'
    BY RegisteredIsFinite, PTL
  <2>2. (TypeOK /\ p \in Drafts => getAttributedMetrics(p) \in Metrics)'
    BY MetricsType, PTL
  <2> QED
    BY <2>1, <2>2, RegisteredIsFinite, MetricsType DEF TypeInv
<1>2. registered[p] \in SUBSET registered'[p]
  BY EventsGrow
<1>3. Cardinality(registered[p]) <= Cardinality(registered'[p])
  BY <1>1, <1>2, FS_Subset
<1>4. /\ clicks[p] <= clicks'[p] /\ tickets[p] <= tickets'[p]
      /\ clicks[p] \in Nat /\ tickets[p] \in Nat
      /\ clicks'[p] \in Nat /\ tickets'[p] \in Nat
  BY EventsGrow DEF TypeInv, TypeOK
<1>5. ASSUME NEW m \in Metrics, Within(m, p)
      PROVE  Within(m, p)'
  <2>1. m.clicks \in Nat /\ m.registrations \in Nat /\ m.tickets \in Nat
    BY DEF Metrics
  <2> QED
    BY <1>1, <1>3, <1>4, <1>5, <2>1 DEF Within
<1>6. ASSUME NEW n \in Nat, Backed(n, p)
      PROVE  Backed(n, p)'
  <2>1. PICK e \in Engagements : n <= TotalScore(e, getAttributedMetrics(p))
    BY <1>6 DEF Backed
  <2>2. e \in Nat
    BY PromotionConstants
  <2> DEFINE m == getAttributedMetrics(p)
             k == getAttributedMetrics(p)'
  <2>3. /\ m.clicks <= k.clicks /\ m.registrations <= k.registrations
        /\ m.tickets <= k.tickets
    BY <1>3, <1>4 DEF getAttributedMetrics
  <2>4. m \in Metrics /\ k \in Metrics
    BY <1>1
  <2> HIDE DEF m, k
  <2>5. TotalScore(e, m) <= TotalScore(e, k)
    BY <2>2, <2>3, <2>4, ScoreMonotone
  <2>6. TotalScore(e, m) \in Nat /\ TotalScore(e, k) \in Nat
    BY <2>2, <2>4, ScoreType
  <2>7. n <= TotalScore(e, k)
    BY <2>1, <2>5, <2>6 DEF m
  <2> QED
    BY <2>7 DEF Backed, k, TotalScore, getAttributedMetrics
<1> QED
  BY <1>5, <1>6

\* The snapshot of an unreadable page counts no events.
LEMMA InvalidWithin ==
    ASSUME TypeInv, NEW p \in Drafts
    PROVE  Within(Invalid.metrics, p)
<1>1. clicks[p] \in Nat /\ tickets[p] \in Nat /\ Cardinality(registered[p]) \in Nat
  BY RegisteredIsFinite DEF TypeInv, TypeOK
<1> QED
  BY <1>1 DEF Within, Invalid

\* A step whose new snapshots and scores are backed by the events before it.
LEMMA ScoreFrame ==
    ASSUME TypeInv, TypeInv', ScoreInv, [Next]_vars,
           \A p \in Drafts : \/ snapshot'[p] = snapshot[p]
                             \/ Within(snapshot'[p].metrics, p),
           \A v \in Validators : \/ check'[v] = check[v]
                                 \/ Within(check'[v].found.metrics, check'[v].p),
           \A s \in Settlers : \/ settle'[s] = settle[s]
                               \/ settle'[s].pc \notin {"settlement", "grant"}
                               \/ Backed(settle'[s].score, settle'[s].p),
           \A p \in Drafts : \/ settlement'[p] = settlement[p]
                             \/ Backed(settlement'[p], p)
    PROVE  ScoreInv'
<1>1. ASSUME NEW p \in Drafts
      PROVE  Within(snapshot[p].metrics, p)'
  <2>1. PICK m \in Metrics : m = snapshot'[p].metrics
    BY DEF TypeInv, TypeOK, Snapshot
  <2>2. Within(m, p)
    BY <2>1 DEF ScoreInv
  <2>3. Within(m, p)'
    BY <2>2, StaysBacked
  <2> QED
    BY <2>1, <2>3 DEF Within
<1>2. ASSUME NEW v \in Validators
      PROVE  Within(check[v].found.metrics, check[v].p)'
  <2>1. PICK m \in Metrics, q \in Drafts : m = check'[v].found.metrics /\ q = check'[v].p
    BY DEF TypeInv, TypeOK, Check, Snapshot
  <2>2. Within(m, q)
    BY <2>1 DEF ScoreInv
  <2>3. Within(m, q)'
    BY <2>2, StaysBacked
  <2> QED
    BY <2>1, <2>3 DEF Within
<1>3. ASSUME NEW s \in Settlers, settle'[s].pc \in {"settlement", "grant"}
      PROVE  Backed(settle[s].score, settle[s].p)'
  <2>1. PICK n \in Nat, q \in Drafts : n = settle'[s].score /\ q = settle'[s].p
    BY DEF TypeInv, TypeOK, Settle
  <2>2. Backed(n, q)
    BY <1>3, <2>1 DEF ScoreInv
  <2>3. Backed(n, q)'
    BY <2>2, StaysBacked
  <2> QED
    BY <2>1, <2>3 DEF Backed, getAttributedMetrics
<1>4. ASSUME NEW p \in Drafts, settlement'[p] # None
      PROVE  Backed(settlement[p], p)'
  <2>1. PICK n \in Nat : n = settlement'[p]
    BY <1>4 DEF TypeInv, TypeOK
  <2>2. Backed(n, p)
    BY <1>4, <2>1 DEF ScoreInv
  <2>3. Backed(n, p)'
    BY <2>2, StaysBacked
  <2> QED
    BY <2>1, <2>3 DEF Backed, getAttributedMetrics
<1> QED
  BY <1>1, <1>2, <1>3, <1>4 DEF ScoreInv

\* A validation run holds and writes what it counted.
LEMMA ValidationScore ==
    ASSUME TypeInv, ScoreInv, NEW v \in Validators, ValidationStep(v) \/ ValidationFails(v)
    PROVE  /\ \A p \in Drafts : \/ snapshot'[p] = snapshot[p]
                                \/ Within(snapshot'[p].metrics, p)
           /\ \A w \in Validators : \/ check'[w] = check[w]
                                    \/ Within(check'[w].found.metrics, check'[w].p)
           /\ UNCHANGED <<settle, settlement>>
<1> USE DEF postVars, eventVars, bonusVars
<1>0. /\ check[v].p \in Drafts /\ check \in [Validators -> Check]
      /\ snapshot \in [Drafts -> Snapshot] /\ AnyDraft \in Drafts
  BY PromotionConstants DEF TypeInv, TypeOK, Check, AnyDraft
<1>1. UNCHANGED <<settle, settlement>>
  BY DEF ValidationStep, LoadDuePosts, ReadPost, PersistValidation,
         PersistTechnicalReview, ValidationFails
<1>2. \A todo : /\ NextCheck(todo).found = Invalid /\ NextCheck(todo).p = AnyDraft
                /\ IdleCheck.found = Invalid /\ IdleCheck.p = AnyDraft
  BY DEF NextCheck, IdleCheck
<1>3. InReview(v).found = Invalid /\ InReview(v).p = check[v].p
  BY <1>0 DEF InReview, Check
<1>4. ASSUME NEW x, CheckBecomes(v, x), Within(x.found.metrics, x.p)
      PROVE  \A w \in Validators : \/ check'[w] = check[w]
                                   \/ Within(check'[w].found.metrics, check'[w].p)
  <2>1. check'[v] = x /\ \A w \in Validators : w # v => check'[w] = check[w]
    BY <1>0, <1>4 DEF CheckBecomes
  <2> QED
    BY <1>4, <2>1
<1>5. ASSUME NEW x, CheckBecomes(v, x), x.found = Invalid, x.p \in Drafts
      PROVE  \A w \in Validators : \/ check'[w] = check[w]
                                   \/ Within(check'[w].found.metrics, check'[w].p)
  BY <1>4, <1>5, InvalidWithin
<1>6. CASE LoadDuePosts(v)
  BY <1>0, <1>1, <1>2, <1>5, <1>6 DEF LoadDuePosts
<1>7. ASSUME NEW p \in Drafts, ReadPost(v, p)
      PROVE  /\ UNCHANGED snapshot
             /\ \A w \in Validators : \/ check'[w] = check[w]
                                      \/ Within(check'[w].found.metrics, check'[w].p)
  <2>1. UNCHANGED snapshot
    BY <1>7 DEF ReadPost
  <2>2. Within(getAttributedMetrics(p), p)
    <3>1. clicks[p] \in Nat /\ tickets[p] \in Nat /\ Cardinality(registered[p]) \in Nat
      BY RegisteredIsFinite DEF TypeInv, TypeOK
    <3> QED
      BY <3>1 DEF Within, getAttributedMetrics
  <2>3. PICK pc \in {"persist", "review"}, found \in Snapshot :
          /\ CheckBecomes(v, [pc |-> pc, todo |-> check[v].todo \ {p}, p |-> p,
                              found |-> found])
          /\ \/ found = Invalid
             \/ \E engagement : found = [valid |-> TRUE, engagement |-> engagement,
                                        metrics |-> getAttributedMetrics(p)]
    BY <1>7, FoundType, InvalidType DEF ReadPost, TypeInv
  <2>4. Within(found.metrics, p)
    BY <2>2, <2>3, InvalidWithin
  <2> QED
    BY <1>4, <2>1, <2>3, <2>4
<1>8. CASE PersistValidation(v)
  <2>1. \A p \in Drafts : \/ snapshot'[p] = snapshot[p]
                          \/ Within(snapshot'[p].metrics, p)
    BY <1>0, <1>8 DEF PersistValidation, ScoreInv
  <2>2. \/ CheckBecomes(v, NextCheck(check[v].todo))
        \/ CheckBecomes(v, InReview(v))
    BY <1>8 DEF PersistValidation
  <2> QED
    BY <1>0, <1>1, <1>2, <1>3, <1>5, <2>1, <2>2
<1>9. CASE PersistTechnicalReview(v)
  <2>1. \A p \in Drafts : \/ snapshot'[p] = snapshot[p]
                          \/ Within(snapshot'[p].metrics, p)
    BY <1>0, <1>9, InvalidWithin DEF PersistTechnicalReview
  <2>2. CheckBecomes(v, NextCheck(check[v].todo))
    BY <1>9 DEF PersistTechnicalReview
  <2> QED
    BY <1>0, <1>1, <1>2, <1>5, <2>1, <2>2
<1>10. CASE ValidationFails(v)
  <2>1. UNCHANGED snapshot
    BY <1>10 DEF ValidationFails
  <2>2. \/ \E todo : CheckBecomes(v, NextCheck(todo))
        \/ CheckBecomes(v, InReview(v))
        \/ CheckBecomes(v, IdleCheck)
    BY <1>10 DEF ValidationFails
  <2> QED
    BY <1>0, <1>1, <1>2, <1>3, <1>5, <2>1, <2>2
<1> QED
  BY <1>1, <1>6, <1>7, <1>8, <1>9, <1>10 DEF ValidationStep

\* A settlement run records the score it computed from a snapshot.
LEMMA SettlementScore ==
    ASSUME TypeInv, ScoreInv, NEW s \in Settlers, SettlementStep(s) \/ SettlementFails(s)
    PROVE  /\ \A t \in Settlers : \/ settle'[t] = settle[t]
                                  \/ settle'[t].pc \notin {"settlement", "grant"}
                                  \/ Backed(settle'[t].score, settle'[t].p)
           /\ \A p \in Drafts : \/ settlement'[p] = settlement[p]
                                \/ Backed(settlement'[p], p)
           /\ UNCHANGED <<check, snapshot>>
<1> USE DEF postVars, eventVars, bonusVars
<1>0. /\ settle[s].p \in Drafts /\ settle \in [Settlers -> Settle]
      /\ settlement \in [Drafts -> Nat \cup {None}]
  BY DEF TypeInv, TypeOK, Settle
<1>1. UNCHANGED <<check, snapshot>>
  BY DEF SettlementStep, LoadClosedPosts, LoadCandidate, DisqualifyUnsettled,
         CreateSettlement, CreateGrant, MarkSettled, SettlementFails
<1>2. ASSUME NEW x, SettleBecomes(s, x),
             \/ x.pc \notin {"settlement", "grant"}
             \/ Backed(x.score, x.p)
      PROVE  \A t \in Settlers : \/ settle'[t] = settle[t]
                                 \/ settle'[t].pc \notin {"settlement", "grant"}
                                 \/ Backed(settle'[t].score, settle'[t].p)
  <2>1. settle'[s] = x /\ \A t \in Settlers : t # s => settle'[t] = settle[t]
    BY <1>0, <1>2 DEF SettleBecomes
  <2> QED
    BY <1>2, <2>1
<1>3. \A todo : /\ NextSettle(todo).pc \notin {"settlement", "grant"}
                /\ IdleSettle.pc \notin {"settlement", "grant"}
  BY BetweenPosts
<1>4. CASE LoadClosedPosts(s) \/ DisqualifyUnsettled(s) \/ MarkSettled(s) \/ SettlementFails(s)
  <2>1. \/ \E todo : SettleBecomes(s, NextSettle(todo))
        \/ SettleBecomes(s, IdleSettle)
    BY <1>4 DEF LoadClosedPosts, DisqualifyUnsettled, MarkSettled, SettlementFails, Done
  <2>2. UNCHANGED settlement
    BY <1>4 DEF LoadClosedPosts, DisqualifyUnsettled, MarkSettled, SettlementFails
  <2> QED
    BY <1>1, <1>2, <1>3, <2>1, <2>2
<1>5. ASSUME NEW p \in Drafts, LoadCandidate(s, p)
      PROVE  /\ UNCHANGED settlement
             /\ \A t \in Settlers : \/ settle'[t] = settle[t]
                                    \/ settle'[t].pc \notin {"settlement", "grant"}
                                    \/ Backed(settle'[t].score, settle'[t].p)
  <2> DEFINE m == snapshot[p].metrics
             e == snapshot[p].engagement
             k == getAttributedMetrics(p)
  <2>1. UNCHANGED settlement
    BY <1>5 DEF LoadCandidate
  <2>2. m \in Metrics /\ e \in Engagements /\ e \in Nat /\ k \in Metrics
    BY PromotionConstants, MetricsType DEF TypeInv, TypeOK, Snapshot
  <2>3. m.clicks <= k.clicks /\ m.registrations <= k.registrations /\ m.tickets <= k.tickets
    BY DEF ScoreInv, Within, getAttributedMetrics
  <2>4. Backed(TotalScore(e, m), p)
    <3> HIDE DEF m, e, k
    <3>1. TotalScore(e, m) <= TotalScore(e, k)
      BY <2>2, <2>3, ScoreMonotone
    <3> QED
      BY <2>2, <3>1 DEF Backed, k
  <2>5. \/ \E todo : SettleBecomes(s, NextSettle(todo))
        \/ \E todo : SettleBecomes(s, [pc |-> "disqualify", todo |-> todo, p |-> p,
                                       score |-> 0])
        \/ \E todo : SettleBecomes(s, [pc |-> "settlement", todo |-> todo, p |-> p,
                                       score |-> TotalScore(e, m)])
    BY <1>5 DEF LoadCandidate
  <2> HIDE DEF m, e, k
  <2>6. CASE \E todo : SettleBecomes(s, NextSettle(todo))
    BY <1>2, <1>3, <2>1, <2>6
  <2>7. CASE \E todo : SettleBecomes(s, [pc |-> "disqualify", todo |-> todo, p |-> p,
                                        score |-> 0])
    BY <1>2, <2>1, <2>7
  <2>8. CASE \E todo : SettleBecomes(s, [pc |-> "settlement", todo |-> todo, p |-> p,
                                        score |-> TotalScore(e, m)])
    BY <1>2, <2>1, <2>4, <2>8
  <2> QED
    BY <2>5, <2>6, <2>7, <2>8
<1>6. CASE CreateSettlement(s)
  <2>1. Backed(settle[s].score, settle[s].p)
    BY <1>6 DEF CreateSettlement, ScoreInv
  <2>2. \A p \in Drafts : settlement'[p] = settlement[p] \/ Backed(settlement'[p], p)
    BY <1>0, <1>6, <2>1 DEF CreateSettlement
  <2>3. \/ SettleBecomes(s, Done(s)) \/ SettleBecomes(s, Marking(s))
        \/ SettleBecomes(s, Granting(s))
    BY <1>6 DEF CreateSettlement, AfterSettlement
  <2>4. /\ Done(s).pc \notin {"settlement", "grant"}
        /\ Marking(s).pc \notin {"settlement", "grant"}
        /\ Granting(s).score = settle[s].score /\ Granting(s).p = settle[s].p
    BY <1>0, <1>3 DEF Done, Marking, Granting, Settle
  <2> QED
    BY <1>1, <1>2, <2>1, <2>2, <2>3, <2>4
<1>7. CASE CreateGrant(s)
  <2>1. SettleBecomes(s, Done(s)) \/ SettleBecomes(s, Marking(s))
    BY <1>7 DEF CreateGrant
  <2>2. /\ Done(s).pc \notin {"settlement", "grant"}
        /\ Marking(s).pc \notin {"settlement", "grant"}
    BY <1>0, <1>3 DEF Done, Marking, Settle
  <2>3. UNCHANGED settlement
    BY <1>7 DEF CreateGrant
  <2> QED
    BY <1>1, <1>2, <2>1, <2>2, <2>3
<1> QED
  BY <1>1, <1>4, <1>5, <1>6, <1>7 DEF SettlementStep

\* Every step keeps snapshots and scores backed.
LEMMA StepScore ==
    ASSUME TypeInv, TypeInv', ScoreInv, [Next]_vars
    PROVE  ScoreInv'
<1> USE DEF postVars, eventVars, bonusVars, jobVars
<1>1. CASE \E v \in Validators : ValidationStep(v) \/ ValidationFails(v)
  BY <1>1, ValidationScore, ScoreFrame
<1>2. CASE \E s \in Settlers : SettlementStep(s) \/ SettlementFails(s)
  BY <1>2, SettlementScore, ScoreFrame
<1>3. CASE UNCHANGED <<snapshot, check, settle, settlement>>
  BY <1>3, ScoreFrame
<1>4. ASSUME NEW d \in Drafts,
             \/ StartSocialPromotionDraft(d) \/ DraftExpires(d)
             \/ SubmitSocialPromotionPost(d) \/ CreatePost(d)
             \/ CheckFallsDue(d) \/ TrackPromotionClickByToken(d)
             \/ RetryTechnicalReview(d) \/ AdminDisqualifyPost(d) \/ GrantExpires(d)
             \/ \E u \in Users : RecordRegistrationAttribution(d, u)
      PROVE  UNCHANGED <<snapshot, check, settle, settlement>>
  BY <1>4 DEF StartSocialPromotionDraft, DraftExpires, SubmitSocialPromotionPost,
              CreatePost, CheckFallsDue, TrackPromotionClickByToken,
              RetryTechnicalReview, AdminDisqualifyPost, GrantExpires,
              RecordRegistrationAttribution
<1>5. ASSUME \/ \E r \in Raffles : RaffleChanges(r)
             \/ \E c \in Checkouts : ReserveBonusForCheckout(c) \/ PurchaseStep(c)
      PROVE  UNCHANGED <<snapshot, check, settle, settlement>>
  BY <1>5 DEF RaffleChanges, ReserveBonusForCheckout, PurchaseStep,
              MarkRedemptionUsedByReservation, RecordPurchaseAttribution,
              CommitPurchase, RollBackPurchase
<1>6. CASE UNCHANGED vars
  BY <1>3, <1>6 DEF vars
<1> QED
  BY <1>1, <1>2, <1>3, <1>4, <1>5, <1>6 DEF Next

\* Snapshots and scores stay backed.
LEMMA ScoreInvariant == Spec => []ScoreInv
<1>1. Init => ScoreInv
  <2> SUFFICES ASSUME Init PROVE ScoreInv
    OBVIOUS
  <2>1. TypeInv
    BY InitType
  <2>2. AnyDraft \in Drafts
    BY PromotionConstants DEF AnyDraft
  <2>3. \A p \in Drafts : Within(Invalid.metrics, p)
    BY <2>1, InvalidWithin
  <2>4. IdleCheck.found = Invalid /\ IdleCheck.p = AnyDraft /\ IdleSettle.pc = "idle"
    BY DEF IdleCheck, IdleSettle
  <2> QED
    BY <2>2, <2>3, <2>4 DEF Init, ScoreInv
<1>2. TypeInv /\ TypeInv' /\ ScoreInv /\ [Next]_vars => ScoreInv'
  BY StepScore
<1> QED
  BY <1>1, <1>2, TypeInvariant, PTL DEF Spec

\* A settled score never exceeds the best page plus all attribution events of
\* the post, however late and in whatever order runs write their snapshots.
THEOREM ScoreTheorem == Spec => []ScoreIsBacked
<1>1. ScoreInv => ScoreIsBacked
  BY DEF ScoreInv, ScoreIsBacked, Backed
<1> QED
  BY <1>1, ScoreInvariant, PTL

-----------------------------------------------------------------------------
(* The pages of the promotions *)

\* Grants belong to posts and have a status, a post in technical review has a
\* failed snapshot, and a redemption names the grant that it reserved.
RowsInv ==
    /\ \A p \in Drafts : grant[p] # NoGrant => grant[p].status # "NONE" /\ p \in Posts
    /\ \A p \in Drafts : status[p] = "TECHNICAL_REVIEW" => ~snapshot[p].valid
    /\ \A c \in Checkouts : redemption[c] # "NONE" => checkout[c].grant # None

\* Runs work on posts.  Without it a run might write the status of a draft that
\* was never registered, past the unique key.
WorkInv ==
    /\ \A v \in Validators : /\ check[v].todo \subseteq Posts
                             /\ check[v].pc \in {"persist", "review"} => check[v].p \in Posts
    /\ \A s \in Settlers : /\ settle[s].todo \subseteq Posts
                           /\ settle[s].pc \notin {"idle", "next"} => settle[s].p \in Posts

\* The unique key of posts, of which there are finitely many.
KeyInv ==
    /\ IsFiniteSet(Posts)
    /\ \A p, q \in Posts : RaffleOf[p] = RaffleOf[q] /\ NetworkOf[p] = NetworkOf[q] => p = q

\* What the composer shows or waits for is a draft that the backend knows.
ComposerInv ==
    /\ composer \in Composer
    /\ composer.draft # None => draft[composer.draft] # "NONE"
    /\ composer.wait # None => draft[composer.wait] # "NONE"

\* The drafts that the backend knows stay known.
LEMMA DraftStays ==
    ASSUME TypeInv, [Next]_vars, NEW d \in Drafts, draft[d] # "NONE"
    PROVE  draft'[d] # "NONE"
<1> USE DEF postVars, eventVars, bonusVars, jobVars
<1>1. CASE UNCHANGED draft
  BY <1>1
<1>2. ASSUME NEW e \in Drafts, StartSocialPromotionDraft(e) \/ DraftExpires(e)
      PROVE  draft'[d] # "NONE"
  BY <1>2 DEF StartSocialPromotionDraft, DraftExpires, TypeInv, TypeOK
<1>3. ASSUME NEW e \in Drafts,
             \/ SubmitSocialPromotionPost(e) \/ CreatePost(e)
             \/ CheckFallsDue(e) \/ TrackPromotionClickByToken(e)
             \/ RetryTechnicalReview(e) \/ AdminDisqualifyPost(e) \/ GrantExpires(e)
             \/ \E u \in Users : RecordRegistrationAttribution(e, u)
      PROVE  UNCHANGED draft
  BY <1>3 DEF SubmitSocialPromotionPost, CreatePost, CheckFallsDue,
              TrackPromotionClickByToken, RetryTechnicalReview, AdminDisqualifyPost,
              GrantExpires, RecordRegistrationAttribution
<1>4. ASSUME \/ \E r \in Raffles : RaffleChanges(r)
             \/ \E v \in Validators : ValidationStep(v) \/ ValidationFails(v)
             \/ \E c \in Checkouts : ReserveBonusForCheckout(c) \/ PurchaseStep(c)
      PROVE  UNCHANGED draft
  BY <1>4 DEF RaffleChanges, ValidationStep, LoadDuePosts, ReadPost, PersistValidation,
              PersistTechnicalReview, ValidationFails, ReserveBonusForCheckout,
              PurchaseStep, MarkRedemptionUsedByReservation, RecordPurchaseAttribution,
              CommitPurchase, RollBackPurchase
<1>5. ASSUME NEW s \in Settlers, SettlementStep(s) \/ SettlementFails(s)
      PROVE  UNCHANGED draft
  BY <1>5 DEF SettlementStep, LoadClosedPosts, LoadCandidate, DisqualifyUnsettled,
              CreateSettlement, CreateGrant, MarkSettled, SettlementFails
<1>6. CASE UNCHANGED vars
  BY <1>1, <1>6 DEF vars
<1> QED
  BY <1>1, <1>2, <1>3, <1>4, <1>5, <1>6 DEF Next

\* What a step does to the status of posts: nothing, a new post with a key of
\* its own, or another status for a post that is there.
LEMMA StatusStep ==
    ASSUME TypeInv, WorkInv, [Next]_vars
    PROVE  \/ UNCHANGED status
           \/ \E d \in Drafts :
                /\ status' = [status EXCEPT ![d] = "PENDING_VALIDATION"]
                /\ \A q \in Posts : RaffleOf[q] = RaffleOf[d] => NetworkOf[q] # NetworkOf[d]
           \/ \E p \in Posts, x \in PostStatus \ {"NONE"} :
                status' = [status EXCEPT ![p] = x]
<1> USE DEF postVars, eventVars, bonusVars, jobVars
<1> DEFINE Rewritten == \E p \in Posts, x \in PostStatus \ {"NONE"} :
                          status' = [status EXCEPT ![p] = x]
           Registered == \E d \in Drafts :
                /\ status' = [status EXCEPT ![d] = "PENDING_VALIDATION"]
                /\ \A q \in Posts : RaffleOf[q] = RaffleOf[d] => NetworkOf[q] # NetworkOf[d]
<1>1. ASSUME NEW d \in Drafts, CreatePost(d)
      PROVE  Registered \/ UNCHANGED status
  BY <1>1 DEF CreatePost
<1>2. ASSUME NEW d \in Drafts, RetryTechnicalReview(d) \/ AdminDisqualifyPost(d)
      PROVE  Rewritten
  BY <1>2 DEF RetryTechnicalReview, AdminDisqualifyPost, PostStatus
<1>3. ASSUME NEW v \in Validators, PersistValidation(v) \/ PersistTechnicalReview(v)
      PROVE  Rewritten
  <2>1. check[v].p \in Posts
    BY <1>3 DEF WorkInv, PersistValidation, PersistTechnicalReview
  <2>2. \E x \in PostStatus \ {"NONE"} : status' = [status EXCEPT ![check[v].p] = x]
    BY <1>3 DEF PersistValidation, PersistTechnicalReview, PostStatus
  <2> QED
    BY <2>1, <2>2
<1>4. ASSUME NEW s \in Settlers, DisqualifyUnsettled(s) \/ MarkSettled(s)
      PROVE  Rewritten
  <2>1. settle[s].p \in Posts
    BY <1>4 DEF WorkInv, DisqualifyUnsettled, MarkSettled
  <2>2. \E x \in PostStatus \ {"NONE"} : status' = [status EXCEPT ![settle[s].p] = x]
    BY <1>4 DEF DisqualifyUnsettled, MarkSettled, PostStatus
  <2> QED
    BY <2>1, <2>2
<1>5. ASSUME NEW d \in Drafts,
             \/ StartSocialPromotionDraft(d) \/ DraftExpires(d)
             \/ SubmitSocialPromotionPost(d) \/ CheckFallsDue(d)
             \/ TrackPromotionClickByToken(d) \/ GrantExpires(d)
             \/ \E u \in Users : RecordRegistrationAttribution(d, u)
      PROVE  UNCHANGED status
  BY <1>5 DEF StartSocialPromotionDraft, DraftExpires, SubmitSocialPromotionPost,
              CheckFallsDue, TrackPromotionClickByToken, GrantExpires,
              RecordRegistrationAttribution
<1>6. ASSUME \/ \E r \in Raffles : RaffleChanges(r)
             \/ \E v \in Validators : \/ LoadDuePosts(v) \/ ValidationFails(v)
                                      \/ \E p \in Drafts : ReadPost(v, p)
             \/ \E c \in Checkouts : ReserveBonusForCheckout(c) \/ PurchaseStep(c)
      PROVE  UNCHANGED status
  BY <1>6 DEF RaffleChanges, LoadDuePosts, ReadPost, ValidationFails,
              ReserveBonusForCheckout, PurchaseStep, MarkRedemptionUsedByReservation,
              RecordPurchaseAttribution, CommitPurchase, RollBackPurchase
<1>7. ASSUME NEW s \in Settlers,
             \/ LoadClosedPosts(s) \/ \E p \in Drafts : LoadCandidate(s, p)
             \/ CreateSettlement(s) \/ CreateGrant(s) \/ SettlementFails(s)
      PROVE  UNCHANGED status
  BY <1>7 DEF LoadClosedPosts, LoadCandidate, CreateSettlement, CreateGrant,
              SettlementFails
<1>8. ASSUME UNCHANGED vars
      PROVE  UNCHANGED status
  BY <1>8 DEF vars
<1> HIDE DEF Rewritten, Registered
<1>9. UNCHANGED status \/ Registered \/ Rewritten
  <2>1. CASE \E d \in Drafts :
               \/ StartSocialPromotionDraft(d) \/ DraftExpires(d)
               \/ SubmitSocialPromotionPost(d) \/ CreatePost(d)
               \/ CheckFallsDue(d) \/ TrackPromotionClickByToken(d)
               \/ RetryTechnicalReview(d) \/ AdminDisqualifyPost(d)
               \/ GrantExpires(d)
    BY <1>1, <1>2, <1>5, <2>1
  <2>2. CASE \E d \in Drafts, u \in Users : RecordRegistrationAttribution(d, u)
    BY <1>5, <2>2
  <2>3. CASE \E v \in Validators : ValidationStep(v) \/ ValidationFails(v)
    <3>1. PICK v \in Validators : ValidationStep(v) \/ ValidationFails(v)
      BY <2>3
    <3>2. CASE LoadDuePosts(v) \/ ValidationFails(v) \/ \E p \in Drafts : ReadPost(v, p)
      BY <1>6, <3>2
    <3>3. CASE PersistValidation(v) \/ PersistTechnicalReview(v)
      BY <1>3, <3>3
    <3> QED
      BY <3>1, <3>2, <3>3 DEF ValidationStep
  <2>4. CASE \E s \in Settlers : SettlementStep(s) \/ SettlementFails(s)
    <3>1. PICK s \in Settlers : SettlementStep(s) \/ SettlementFails(s)
      BY <2>4
    <3>2. CASE DisqualifyUnsettled(s) \/ MarkSettled(s)
      BY <1>4, <3>2
    <3>3. CASE ~(DisqualifyUnsettled(s) \/ MarkSettled(s))
      BY <1>7, <3>1, <3>3 DEF SettlementStep
    <3> QED
      BY <3>2, <3>3
  <2>5. CASE \/ \E r \in Raffles : RaffleChanges(r)
             \/ \E c \in Checkouts : ReserveBonusForCheckout(c) \/ PurchaseStep(c)
    BY <1>6, <2>5
  <2> QED
    BY <1>8, <2>1, <2>2, <2>3, <2>4, <2>5 DEF Next
<1> QED
  BY <1>9 DEF Rewritten, Registered

\* Posts stay, and a new one has a key of its own.
LEMMA PostsStep ==
    ASSUME TypeInv, WorkInv, [Next]_vars
    PROVE  \/ Posts' = Posts
           \/ \E d \in Drafts :
                /\ Posts' = Posts \cup {d}
                /\ \A q \in Posts : RaffleOf[q] = RaffleOf[d] => NetworkOf[q] # NetworkOf[d]
<1>0. status \in [Drafts -> PostStatus]
  BY DEF TypeInv, TypeOK
<1>1. CASE UNCHANGED status
  BY <1>1 DEF Posts
<1>2. ASSUME NEW d \in Drafts, status' = [status EXCEPT ![d] = "PENDING_VALIDATION"]
      PROVE  Posts' = Posts \cup {d}
  BY <1>0, <1>2 DEF Posts
<1>3. ASSUME NEW p \in Posts, NEW x \in PostStatus \ {"NONE"},
             status' = [status EXCEPT ![p] = x]
      PROVE  Posts' = Posts
  BY <1>0, <1>3 DEF Posts
<1> QED
  BY <1>1, <1>2, <1>3, StatusStep

\* So the key stays unique.
LEMMA KeyStep ==
    ASSUME TypeInv, WorkInv, KeyInv, [Next]_vars
    PROVE  KeyInv' /\ Posts \subseteq Posts'
<1>1. CASE Posts' = Posts
  BY <1>1 DEF KeyInv
<1>2. ASSUME NEW d \in Drafts, Posts' = Posts \cup {d},
             \A q \in Posts : RaffleOf[q] = RaffleOf[d] => NetworkOf[q] # NetworkOf[d]
      PROVE  KeyInv' /\ Posts \subseteq Posts'
  <2>1. IsFiniteSet(Posts')
    BY <1>2, FS_AddElement DEF KeyInv
  <2> QED
    BY <1>2, <2>1 DEF KeyInv
<1> QED
  BY <1>1, <1>2, PostsStep

\* A run that goes on with posts, and the others as they were.
LEMMA WorkFrame ==
    ASSUME WorkInv, Posts \subseteq Posts',
           \A v \in Validators :
               \/ check'[v] = check[v]
               \/ /\ check'[v].todo \subseteq Posts'
                  /\ check'[v].pc \in {"persist", "review"} => check'[v].p \in Posts',
           \A s \in Settlers :
               \/ settle'[s] = settle[s]
               \/ /\ settle'[s].todo \subseteq Posts'
                  /\ settle'[s].pc \notin {"idle", "next"} => settle'[s].p \in Posts'
    PROVE  WorkInv'
  BY DEF WorkInv

\* Validation runs work on posts.
LEMMA ValidationWork ==
    ASSUME TypeInv, WorkInv, Posts \subseteq Posts', NEW v \in Validators,
           ValidationStep(v) \/ ValidationFails(v)
    PROVE  WorkInv'
<1>0. /\ check \in [Validators -> Check] /\ check[v].todo \subseteq Posts
      /\ check[v].pc \in {"persist", "review"} => check[v].p \in Posts
  BY DEF TypeInv, TypeOK, WorkInv
<1>1. UNCHANGED settle
  BY DEF ValidationStep, LoadDuePosts, ReadPost, PersistValidation,
         PersistTechnicalReview, ValidationFails
<1>2. ASSUME NEW x, CheckBecomes(v, x), x.todo \subseteq Posts,
             x.pc \in {"persist", "review"} => x.p \in Posts
      PROVE  WorkInv'
  <2>1. check'[v] = x /\ \A w \in Validators : w # v => check'[w] = check[w]
    BY <1>0, <1>2 DEF CheckBecomes
  <2> QED
    BY <1>1, <1>2, <2>1, WorkFrame
<1>3. ASSUME NEW todo \in SUBSET Posts,
             CheckBecomes(v, NextCheck(todo)) \/ CheckBecomes(v, IdleCheck)
      PROVE  WorkInv'
  <2>1. /\ NextCheck(todo).todo \subseteq Posts /\ NextCheck(todo).pc \in {"idle", "next"}
        /\ IdleCheck.todo = {} /\ IdleCheck.pc = "idle"
    BY DEF NextCheck, IdleCheck
  <2> QED
    BY <1>2, <1>3, <2>1
<1>4. ASSUME check[v].pc \in {"persist", "review"}, CheckBecomes(v, InReview(v))
      PROVE  WorkInv'
  <2>1. InReview(v).todo = check[v].todo /\ InReview(v).p = check[v].p
    BY <1>0 DEF InReview, Check
  <2> QED
    BY <1>0, <1>2, <1>4, <2>1
<1>5. CASE LoadDuePosts(v)
  BY <1>3, <1>5 DEF LoadDuePosts, DuePosts
<1>6. ASSUME NEW p \in Drafts, ReadPost(v, p)
      PROVE  WorkInv'
  <2>1. p \in Posts
    BY <1>0, <1>6 DEF ReadPost, Oldest
  <2>2. \E pc, found : CheckBecomes(v, [pc |-> pc, todo |-> check[v].todo \ {p}, p |-> p,
                                        found |-> found])
    BY <1>6 DEF ReadPost
  <2>3. PICK pc, found : CheckBecomes(v, [pc |-> pc, todo |-> check[v].todo \ {p}, p |-> p,
                                          found |-> found])
    BY <2>2
  <2> QED
    BY <1>0, <1>2, <2>1, <2>3
<1>7. CASE PersistValidation(v)
  BY <1>0, <1>3, <1>4, <1>7 DEF PersistValidation
<1>8. CASE PersistTechnicalReview(v)
  BY <1>0, <1>3, <1>8 DEF PersistTechnicalReview
<1>9. CASE ValidationFails(v)
  <2>1. \/ \E todo \in SUBSET Posts : CheckBecomes(v, NextCheck(todo))
        \/ check[v].pc \in {"persist", "review"} /\ CheckBecomes(v, InReview(v))
        \/ CheckBecomes(v, IdleCheck)
    BY <1>0, <1>9 DEF ValidationFails
  <2> QED
    BY <1>3, <1>4, <2>1
<1> QED
  BY <1>5, <1>6, <1>7, <1>8, <1>9 DEF ValidationStep

\* Settlement runs work on posts.
LEMMA SettlementWork ==
    ASSUME TypeInv, WorkInv, Posts \subseteq Posts', NEW s \in Settlers,
           SettlementStep(s) \/ SettlementFails(s)
    PROVE  WorkInv'
<1>0. /\ settle \in [Settlers -> Settle] /\ settle[s].todo \subseteq Posts
      /\ settle[s].pc \notin {"idle", "next"} => settle[s].p \in Posts
  BY DEF TypeInv, TypeOK, WorkInv
<1>1. UNCHANGED check
  BY DEF SettlementStep, LoadClosedPosts, LoadCandidate, DisqualifyUnsettled,
         CreateSettlement, CreateGrant, MarkSettled, SettlementFails
<1>2. ASSUME NEW x, SettleBecomes(s, x), x.todo \subseteq Posts,
             x.pc \notin {"idle", "next"} => x.p \in Posts
      PROVE  WorkInv'
  <2>1. settle'[s] = x /\ \A t \in Settlers : t # s => settle'[t] = settle[t]
    BY <1>0, <1>2 DEF SettleBecomes
  <2> QED
    BY <1>1, <1>2, <2>1, WorkFrame
<1>3. ASSUME NEW todo \in SUBSET Posts,
             SettleBecomes(s, NextSettle(todo)) \/ SettleBecomes(s, IdleSettle)
      PROVE  WorkInv'
  <2>1. /\ NextSettle(todo).todo \subseteq Posts /\ NextSettle(todo).pc \in {"idle", "next"}
        /\ IdleSettle.todo = {} /\ IdleSettle.pc = "idle"
    BY DEF NextSettle, IdleSettle
  <2> QED
    BY <1>2, <1>3, <2>1
<1>4. ASSUME settle[s].pc \notin {"idle", "next"},
             SettleBecomes(s, Marking(s)) \/ SettleBecomes(s, Granting(s))
      PROVE  WorkInv'
  <2>1. /\ Marking(s).todo = settle[s].todo /\ Marking(s).p = settle[s].p
        /\ Granting(s).todo = settle[s].todo /\ Granting(s).p = settle[s].p
    BY <1>0 DEF Marking, Granting, Settle
  <2> QED
    BY <1>0, <1>2, <1>4, <2>1
<1>5. CASE LoadClosedPosts(s)
  BY <1>3, <1>5 DEF LoadClosedPosts
<1>6. ASSUME NEW p \in Drafts, LoadCandidate(s, p)
      PROVE  WorkInv'
  <2>1. p \in Posts
    BY <1>0, <1>6 DEF LoadCandidate
  <2>2. \/ SettleBecomes(s, NextSettle(settle[s].todo \ {p}))
        \/ \E pc, score : SettleBecomes(s, [pc |-> pc, todo |-> settle[s].todo \ {p},
                                            p |-> p, score |-> score])
    BY <1>6 DEF LoadCandidate
  <2>3. CASE SettleBecomes(s, NextSettle(settle[s].todo \ {p}))
    BY <1>0, <1>3, <2>3
  <2>4. ASSUME NEW pc, NEW score,
               SettleBecomes(s, [pc |-> pc, todo |-> settle[s].todo \ {p},
                                 p |-> p, score |-> score])
        PROVE  WorkInv'
    BY <1>0, <1>2, <2>1, <2>4
  <2> QED
    BY <2>2, <2>3, <2>4
<1>7. CASE DisqualifyUnsettled(s) \/ MarkSettled(s)
  BY <1>0, <1>3, <1>7 DEF DisqualifyUnsettled, MarkSettled, Done
<1>8. CASE CreateSettlement(s)
  BY <1>0, <1>3, <1>4, <1>8 DEF CreateSettlement, AfterSettlement, Done
<1>9. CASE CreateGrant(s)
  BY <1>0, <1>3, <1>4, <1>9 DEF CreateGrant, Done
<1>10. CASE SettlementFails(s)
  <2>1. \/ \E todo \in SUBSET Posts : SettleBecomes(s, NextSettle(todo))
        \/ SettleBecomes(s, IdleSettle)
    BY <1>0, <1>10 DEF SettlementFails, Done
  <2> QED
    BY <1>3, <2>1
<1> QED
  BY <1>5, <1>6, <1>7, <1>8, <1>9, <1>10 DEF SettlementStep

\* Every step keeps the runs on posts.
LEMMA WorkStep ==
    ASSUME TypeInv, WorkInv, KeyInv, [Next]_vars
    PROVE  WorkInv'
<1> USE DEF postVars, eventVars, bonusVars, jobVars
<1>0. Posts \subseteq Posts'
  BY KeyStep
<1>1. CASE \E v \in Validators : ValidationStep(v) \/ ValidationFails(v)
  BY <1>0, <1>1, ValidationWork
<1>2. CASE \E s \in Settlers : SettlementStep(s) \/ SettlementFails(s)
  BY <1>0, <1>2, SettlementWork
<1>3. CASE UNCHANGED <<check, settle>>
  BY <1>0, <1>3, WorkFrame
<1>4. ASSUME NEW d \in Drafts,
             \/ StartSocialPromotionDraft(d) \/ DraftExpires(d)
             \/ SubmitSocialPromotionPost(d) \/ CreatePost(d)
             \/ CheckFallsDue(d) \/ TrackPromotionClickByToken(d)
             \/ RetryTechnicalReview(d) \/ AdminDisqualifyPost(d) \/ GrantExpires(d)
             \/ \E u \in Users : RecordRegistrationAttribution(d, u)
      PROVE  UNCHANGED <<check, settle>>
  BY <1>4 DEF StartSocialPromotionDraft, DraftExpires, SubmitSocialPromotionPost,
              CreatePost, CheckFallsDue, TrackPromotionClickByToken,
              RetryTechnicalReview, AdminDisqualifyPost, GrantExpires,
              RecordRegistrationAttribution
<1>5. ASSUME \/ \E r \in Raffles : RaffleChanges(r)
             \/ \E c \in Checkouts : ReserveBonusForCheckout(c) \/ PurchaseStep(c)
      PROVE  UNCHANGED <<check, settle>>
  BY <1>5 DEF RaffleChanges, ReserveBonusForCheckout, PurchaseStep,
              MarkRedemptionUsedByReservation, RecordPurchaseAttribution,
              CommitPurchase, RollBackPurchase
<1>6. CASE UNCHANGED vars
  BY <1>3, <1>6 DEF vars
<1> QED
  BY <1>1, <1>2, <1>3, <1>4, <1>5, <1>6 DEF Next

\* What a step may do to the grant of a post: a run creates it, or its status is
\* written by who finds it AVAILABLE.
LEMMA GrantRowStep ==
    ASSUME TypeInv, [Next]_vars, NEW p \in Drafts
    PROVE  \/ grant'[p] = grant[p]
           \/ grant[p] # NoGrant /\ grant'[p].status # "NONE"
           \/ grant'[p].status # "NONE" /\ \E s \in Settlers : CreateGrant(s) /\ settle[s].p = p
<1> USE DEF postVars, eventVars, bonusVars, jobVars
<1>0. grant \in [Drafts -> [status : GrantStatus, tier : Tiers, expired : BOOLEAN]
                             \cup {NoGrant}]
  BY DEF TypeInv, TypeOK
<1>1. ASSUME NEW d \in Drafts, grant[d].status = "AVAILABLE",
             \/ grant' = [grant EXCEPT ![d].expired = TRUE]
             \/ grant' = [grant EXCEPT ![d].status = "RESERVED"]
      PROVE  grant'[p] = grant[p] \/ (grant[p] # NoGrant /\ grant'[p].status # "NONE")
  <2>1. grant[d] # NoGrant /\ grant[d] \in [status : GrantStatus, tier : Tiers, expired : BOOLEAN]
    BY <1>0, <1>1 DEF NoGrant
  <2>2. /\ [grant[d] EXCEPT !.expired = TRUE].status = "AVAILABLE"
        /\ [grant[d] EXCEPT !.status = "RESERVED"].status = "RESERVED"
    BY <1>1, <2>1
  <2>3. grant'[d].status # "NONE" /\ \A q \in Drafts : q # d => grant'[q] = grant[q]
    BY <1>0, <1>1, <2>2
  <2> QED
    BY <2>1, <2>3
<1>2. ASSUME NEW d \in Drafts, GrantExpires(d)
      PROVE  grant'[p] = grant[p] \/ (grant[p] # NoGrant /\ grant'[p].status # "NONE")
  BY <1>1, <1>2 DEF GrantExpires
<1>3. ASSUME NEW c \in Checkouts, CommitPurchase(c)
      PROVE  grant'[p] = grant[p] \/ (grant[p] # NoGrant /\ grant'[p].status # "NONE")
  <2>1. checkout[c].grant \in Drafts \cup {None}
    BY DEF TypeInv, TypeOK, Checkout
  <2> QED
    BY <1>1, <1>3, <2>1 DEF CommitPurchase
<1>4. ASSUME NEW s \in Settlers, CreateGrant(s)
      PROVE  grant'[p] = grant[p] \/ (grant'[p].status # "NONE" /\ settle[s].p = p)
  BY <1>0, <1>4 DEF CreateGrant
<1>5. ASSUME NEW c \in Checkouts,
             \/ ReserveBonusForCheckout(c) \/ MarkRedemptionUsedByReservation(c)
             \/ RecordPurchaseAttribution(c) \/ RollBackPurchase(c)
      PROVE  UNCHANGED grant
  BY <1>5 DEF ReserveBonusForCheckout, MarkRedemptionUsedByReservation,
              RecordPurchaseAttribution, RollBackPurchase, TypeInv, RedeemedIsDone
<1>6. ASSUME NEW d \in Drafts,
             \/ StartSocialPromotionDraft(d) \/ DraftExpires(d)
             \/ SubmitSocialPromotionPost(d) \/ CreatePost(d)
             \/ CheckFallsDue(d) \/ TrackPromotionClickByToken(d)
             \/ RetryTechnicalReview(d) \/ AdminDisqualifyPost(d)
             \/ \E u \in Users : RecordRegistrationAttribution(d, u)
      PROVE  UNCHANGED grant
  BY <1>6 DEF StartSocialPromotionDraft, DraftExpires, SubmitSocialPromotionPost,
              CreatePost, CheckFallsDue, TrackPromotionClickByToken,
              RetryTechnicalReview, AdminDisqualifyPost, RecordRegistrationAttribution
<1>7. ASSUME \/ \E r \in Raffles : RaffleChanges(r)
             \/ \E v \in Validators : ValidationStep(v) \/ ValidationFails(v)
      PROVE  UNCHANGED grant
  BY <1>7 DEF RaffleChanges, ValidationStep, LoadDuePosts, ReadPost, PersistValidation,
              PersistTechnicalReview, ValidationFails
<1>8. ASSUME NEW s \in Settlers,
             \/ LoadClosedPosts(s) \/ \E q \in Drafts : LoadCandidate(s, q)
             \/ DisqualifyUnsettled(s) \/ CreateSettlement(s) \/ MarkSettled(s)
             \/ SettlementFails(s)
      PROVE  UNCHANGED grant
  BY <1>8 DEF LoadClosedPosts, LoadCandidate, DisqualifyUnsettled, CreateSettlement,
              MarkSettled, SettlementFails
<1>9. CASE UNCHANGED vars
  BY <1>9 DEF vars
<1>10. CASE \E s \in Settlers : SettlementStep(s) \/ SettlementFails(s)
  BY <1>4, <1>8, <1>10 DEF SettlementStep
<1>11. CASE \E c \in Checkouts : ReserveBonusForCheckout(c) \/ PurchaseStep(c)
  BY <1>3, <1>5, <1>11 DEF PurchaseStep
<1> QED
  BY <1>2, <1>6, <1>7, <1>9, <1>10, <1>11 DEF Next

\* Status and snapshot of a post go to technical review together.
LEMMA ReviewStep ==
    ASSUME TypeInv, RowsInv, [Next]_vars
    PROVE  \A p \in Drafts : status'[p] = "TECHNICAL_REVIEW" => ~snapshot'[p].valid
<1> USE DEF postVars, eventVars, bonusVars, jobVars
<1>0. /\ status \in [Drafts -> PostStatus] /\ snapshot \in [Drafts -> Snapshot]
      /\ \A p \in Drafts : status[p] = "TECHNICAL_REVIEW" => ~snapshot[p].valid
  BY DEF TypeInv, TypeOK, RowsInv
<1>1. CASE UNCHANGED <<status, snapshot>>
  BY <1>0, <1>1
<1>2. ASSUME NEW q \in Drafts, NEW x \in PostStatus \ {"TECHNICAL_REVIEW"},
             status' = [status EXCEPT ![q] = x],
             \A p \in Drafts : p # q => snapshot'[p] = snapshot[p]
      PROVE  \A p \in Drafts : status'[p] = "TECHNICAL_REVIEW" => ~snapshot'[p].valid
  BY <1>0, <1>2
<1>3. ASSUME NEW d \in Drafts, CreatePost(d) \/ RetryTechnicalReview(d) \/ AdminDisqualifyPost(d)
      PROVE  \A p \in Drafts : status'[p] = "TECHNICAL_REVIEW" => ~snapshot'[p].valid
  <2>1. UNCHANGED snapshot
    BY <1>3 DEF CreatePost, RetryTechnicalReview, AdminDisqualifyPost
  <2>2. \/ UNCHANGED status
        \/ \E x \in PostStatus \ {"TECHNICAL_REVIEW"} : status' = [status EXCEPT ![d] = x]
    BY <1>3 DEF CreatePost, RetryTechnicalReview, AdminDisqualifyPost, PostStatus
  <2> QED
    BY <1>1, <1>2, <2>1, <2>2
<1>4. ASSUME NEW v \in Validators, PersistValidation(v)
      PROVE  \A p \in Drafts : status'[p] = "TECHNICAL_REVIEW" => ~snapshot'[p].valid
  <2>1. check[v].p \in Drafts
    BY DEF TypeInv, TypeOK, Check
  <2>2. \A p \in Drafts : p # check[v].p => snapshot'[p] = snapshot[p]
    BY <1>0, <1>4 DEF PersistValidation
  <2>3. PICK x \in {"ACTIVE", "DISQUALIFIED"} : status' = [status EXCEPT ![check[v].p] = x]
    BY <1>4 DEF PersistValidation
  <2>4. x \in PostStatus \ {"TECHNICAL_REVIEW"}
    BY DEF PostStatus
  <2> QED
    BY <1>2, <2>1, <2>2, <2>3, <2>4
<1>5. ASSUME NEW v \in Validators, PersistTechnicalReview(v)
      PROVE  \A p \in Drafts : status'[p] = "TECHNICAL_REVIEW" => ~snapshot'[p].valid
  <2>1. ~Invalid.valid
    BY DEF Invalid
  <2> QED
    BY <1>0, <1>5, <2>1 DEF PersistTechnicalReview
<1>6. ASSUME NEW s \in Settlers, DisqualifyUnsettled(s) \/ MarkSettled(s)
      PROVE  \A p \in Drafts : status'[p] = "TECHNICAL_REVIEW" => ~snapshot'[p].valid
  <2>1. settle[s].p \in Drafts
    BY DEF TypeInv, TypeOK, Settle
  <2>2. /\ UNCHANGED snapshot
        /\ \E x \in PostStatus \ {"TECHNICAL_REVIEW"} :
             status' = [status EXCEPT ![settle[s].p] = x]
    BY <1>6 DEF DisqualifyUnsettled, MarkSettled, PostStatus
  <2> QED
    BY <1>2, <2>1, <2>2
<1>7. ASSUME NEW d \in Drafts,
             \/ StartSocialPromotionDraft(d) \/ DraftExpires(d)
             \/ SubmitSocialPromotionPost(d) \/ CheckFallsDue(d)
             \/ TrackPromotionClickByToken(d) \/ GrantExpires(d)
             \/ \E u \in Users : RecordRegistrationAttribution(d, u)
      PROVE  UNCHANGED <<status, snapshot>>
  BY <1>7 DEF StartSocialPromotionDraft, DraftExpires, SubmitSocialPromotionPost,
              CheckFallsDue, TrackPromotionClickByToken, GrantExpires,
              RecordRegistrationAttribution
<1>8. ASSUME \/ \E r \in Raffles : RaffleChanges(r)
             \/ \E c \in Checkouts : ReserveBonusForCheckout(c) \/ PurchaseStep(c)
      PROVE  UNCHANGED <<status, snapshot>>
  BY <1>8 DEF RaffleChanges, ReserveBonusForCheckout, PurchaseStep,
              MarkRedemptionUsedByReservation, RecordPurchaseAttribution,
              CommitPurchase, RollBackPurchase
<1>9. ASSUME NEW v \in Validators,
             LoadDuePosts(v) \/ ValidationFails(v) \/ \E p \in Drafts : ReadPost(v, p)
      PROVE  UNCHANGED <<status, snapshot>>
  BY <1>9 DEF LoadDuePosts, ReadPost, ValidationFails
<1>10. ASSUME NEW s \in Settlers,
             \/ LoadClosedPosts(s) \/ \E p \in Drafts : LoadCandidate(s, p)
             \/ CreateSettlement(s) \/ CreateGrant(s) \/ SettlementFails(s)
      PROVE  UNCHANGED <<status, snapshot>>
  BY <1>10 DEF LoadClosedPosts, LoadCandidate, CreateSettlement, CreateGrant,
               SettlementFails
<1>11. CASE UNCHANGED vars
  BY <1>1, <1>11 DEF vars
<1>12. CASE \E v \in Validators : ValidationStep(v) \/ ValidationFails(v)
  BY <1>1, <1>4, <1>5, <1>9, <1>12 DEF ValidationStep
<1>13. CASE \E s \in Settlers : SettlementStep(s) \/ SettlementFails(s)
  BY <1>1, <1>6, <1>10, <1>13 DEF SettlementStep
<1> QED
  BY <1>1, <1>3, <1>7, <1>8, <1>11, <1>12, <1>13 DEF Next

\* A purchase that keeps a redemption brought a grant, and nothing writes it
\* any more.
LEMMA RedeemedStep ==
    ASSUME TypeInv, RowsInv, [Next]_vars, NEW c \in Checkouts, redemption'[c] # "NONE"
    PROVE  checkout'[c].grant # None
<1> USE DEF postVars, eventVars, bonusVars, jobVars
<1>0. /\ checkout \in [Checkouts -> Checkout]
      /\ redemption \in [Checkouts -> {"NONE", "RESERVED", "USED"}]
      /\ redemption[c] # "NONE" => checkout[c].grant # None /\ checkout[c].pc = "done"
  BY DEF TypeInv, TypeOK, RowsInv, RedeemedIsDone
<1>1. CASE UNCHANGED <<redemption, checkout>>
  BY <1>0, <1>1
<1>2. ASSUME NEW e \in Checkouts, ReserveBonusForCheckout(e) \/ PurchaseStep(e)
      PROVE  checkout'[c].grant # None
  <2>1. checkout[e].pc # "done"
    BY <1>2 DEF ReserveBonusForCheckout, PurchaseStep, MarkRedemptionUsedByReservation,
                RecordPurchaseAttribution, CommitPurchase, RollBackPurchase
  <2>2. \A d \in Checkouts : d # e => checkout'[d] = checkout[d] /\ redemption'[d] = redemption[d]
    BY <1>0, <1>2 DEF ReserveBonusForCheckout, PurchaseStep, CheckoutGoTo,
                MarkRedemptionUsedByReservation, RecordPurchaseAttribution,
                CommitPurchase, RollBackPurchase
  <2>3. CASE CommitPurchase(e)
    <3>1. checkout'[e].grant = checkout[e].grant
      BY <1>0, <2>3 DEF CommitPurchase, CheckoutGoTo, Checkout
    <3>2. checkout[e].grant = None => redemption'[e] = redemption[e]
      BY <2>3 DEF CommitPurchase
    <3>3. CASE c = e
      <4>1. redemption[e] = "NONE"
        BY <1>0, <2>1, <3>3
      <4> QED
        BY <3>1, <3>2, <3>3, <4>1
    <3>4. CASE c # e
      BY <1>0, <2>2, <3>4
    <3> QED
      BY <3>3, <3>4
  <2>4. CASE ~CommitPurchase(e)
    <3>0. redemption[e] = "NONE"
      BY <2>1 DEF TypeInv, RedeemedIsDone
    <3>1. redemption'[e] = redemption[e]
      BY <1>2, <2>4, <3>0 DEF ReserveBonusForCheckout, PurchaseStep,
           MarkRedemptionUsedByReservation, RecordPurchaseAttribution, RollBackPurchase
    <3> QED
      BY <1>0, <2>1, <2>2, <3>1
  <2> QED
    BY <2>3, <2>4
<1>3. ASSUME NEW d \in Drafts,
             \/ StartSocialPromotionDraft(d) \/ DraftExpires(d)
             \/ SubmitSocialPromotionPost(d) \/ CreatePost(d)
             \/ CheckFallsDue(d) \/ TrackPromotionClickByToken(d)
             \/ RetryTechnicalReview(d) \/ AdminDisqualifyPost(d) \/ GrantExpires(d)
             \/ \E u \in Users : RecordRegistrationAttribution(d, u)
      PROVE  UNCHANGED <<redemption, checkout>>
  BY <1>3 DEF StartSocialPromotionDraft, DraftExpires, SubmitSocialPromotionPost,
              CreatePost, CheckFallsDue, TrackPromotionClickByToken, GrantExpires,
              RetryTechnicalReview, AdminDisqualifyPost, RecordRegistrationAttribution
<1>4. ASSUME \/ \E r \in Raffles : RaffleChanges(r)
             \/ \E v \in Validators : ValidationStep(v) \/ ValidationFails(v)
      PROVE  UNCHANGED <<redemption, checkout>>
  BY <1>4 DEF RaffleChanges, ValidationStep, LoadDuePosts, ReadPost, PersistValidation,
              PersistTechnicalReview, ValidationFails
<1>5. ASSUME NEW s \in Settlers, SettlementStep(s) \/ SettlementFails(s)
      PROVE  UNCHANGED <<redemption, checkout>>
  BY <1>5 DEF SettlementStep, LoadClosedPosts, LoadCandidate, DisqualifyUnsettled,
              CreateSettlement, CreateGrant, MarkSettled, SettlementFails
<1>6. CASE UNCHANGED vars
  BY <1>1, <1>6 DEF vars
<1> QED
  BY <1>1, <1>2, <1>3, <1>4, <1>5, <1>6 DEF Next

\* Every step keeps the rows consistent.
LEMMA RowsStep ==
    ASSUME TypeInv, RowsInv, WorkInv, KeyInv, [Next]_vars
    PROVE  RowsInv'
<1>0. Posts \subseteq Posts'
  BY KeyStep
<1>1. ASSUME NEW p \in Drafts, grant'[p] # NoGrant
      PROVE  grant'[p].status # "NONE" /\ p \in Posts'
  <2>1. CASE \E s \in Settlers : CreateGrant(s) /\ settle[s].p = p
    <3>1. p \in Posts
      BY <2>1 DEF CreateGrant, WorkInv
    <3>2. grant[p] # NoGrant => grant[p].status # "NONE"
      BY DEF RowsInv
    <3> QED
      BY <1>0, <1>1, <3>1, <3>2, GrantRowStep
  <2>2. CASE ~ \E s \in Settlers : CreateGrant(s) /\ settle[s].p = p
    <3>1. grant[p] # NoGrant => grant[p].status # "NONE" /\ p \in Posts
      BY DEF RowsInv
    <3> QED
      BY <1>0, <1>1, <2>2, <3>1, GrantRowStep
  <2> QED
    BY <2>1, <2>2
<1>2. \A p \in Drafts : status'[p] = "TECHNICAL_REVIEW" => ~snapshot'[p].valid
  BY ReviewStep
<1>3. \A c \in Checkouts : redemption'[c] # "NONE" => checkout'[c].grant # None
  BY RedeemedStep
<1> QED
  BY <1>1, <1>2, <1>3 DEF RowsInv

\* The composer only takes up drafts that the backend created.
LEMMA ComposerStep ==
    ASSUME TypeInv, ComposerInv, [PagesNext]_<<vars, composer>>
    PROVE  ComposerInv'
<1>0. None \notin Drafts
  BY PromotionConstants
<1>1. [Next]_vars
  BY DEF PagesNext, DialogStep, openComposer, handleOpenChange, backToNetworks, draftAnswered
<1>2. \A d \in Drafts : draft[d] # "NONE" => draft'[d] # "NONE"
  BY <1>1, DraftStays
<1>3. ASSUME composer' \in Composer,
             \/ composer'.draft = None \/ composer'.draft \in {composer.draft, composer.wait}
             \/ draft'[composer'.draft] # "NONE",
             \/ composer'.wait = None \/ composer'.wait \in {composer.draft, composer.wait}
             \/ draft'[composer'.wait] # "NONE"
      PROVE  ComposerInv'
  <2>1. /\ composer'.draft \in Drafts \cup {None} /\ composer'.wait \in Drafts \cup {None}
    BY <1>3 DEF Composer
  <2>2. /\ composer.draft # None => draft[composer.draft] # "NONE"
        /\ composer.wait # None => draft[composer.wait] # "NONE"
    BY DEF ComposerInv
  <2> QED
    BY <1>2, <1>3, <2>1, <2>2 DEF ComposerInv
<1>4. composer \in Composer /\ Closed \in Composer /\ Closed.draft = None /\ Closed.wait = None
  BY DEF ComposerInv, Closed, Composer
<1>5. CASE DialogStep
  <2>1. /\ composer' \in Composer
        /\ composer'.draft \in {None, composer.draft, composer.wait}
        /\ composer'.wait \in {None, composer.wait}
    BY <1>4, <1>5 DEF DialogStep, openComposer, handleOpenChange, backToNetworks,
                      draftAnswered, Composer
  <2> QED
    BY <1>3, <2>1
<1>6. ASSUME NEW d \in Drafts, handleGenerateDraft(d)
      PROVE  ComposerInv'
  <2>1. /\ composer' \in Composer /\ composer'.draft = composer.draft
        /\ composer'.wait = d /\ draft'[d] # "NONE"
    BY <1>4, <1>6 DEF handleGenerateDraft, Composer
  <2> QED
    BY <1>3, <2>1
<1>7. ASSUME NEW d \in Drafts, handleSubmitPost(d)
      PROVE  ComposerInv'
  <2>1. /\ composer' \in Composer /\ composer'.draft = composer.draft
        /\ composer'.wait = composer.draft
    BY <1>4, <1>7 DEF handleSubmitPost, Composer
  <2> QED
    BY <1>3, <2>1
<1>8. ASSUME NEW d \in Drafts, postAnswered(d)
      PROVE  ComposerInv'
  <2>1. /\ composer' \in Composer /\ composer'.draft \in {None, composer.draft}
        /\ composer'.wait = None
    BY <1>4, <1>8 DEF postAnswered, Composer
  <2> QED
    BY <1>3, <2>1
<1>9. CASE UNCHANGED composer
  BY <1>3, <1>4, <1>9
<1> QED
  BY <1>5, <1>6, <1>7, <1>8, <1>9 DEF PagesNext, BehindDialog

\* The pages only add the composer: what jobs, admins and purchases do behind
\* them is what SocialPromotions allows.
THEOREM PagesTheorem == PagesSpec => Spec
<1>1. PagesInit => Init
  BY DEF PagesInit
<1>2. [PagesNext]_<<vars, composer>> => [Next]_vars
  BY DEF PagesNext, DialogStep, openComposer, handleOpenChange, backToNetworks, draftAnswered
<1> QED
  BY <1>1, <1>2, PTL DEF PagesSpec, Spec

\* The invariant of the pages, with those that the theorems above rest on.
PagesInv == RowsInv /\ WorkInv /\ KeyInv /\ ComposerInv

LEMMA PagesInvariant ==
    PagesSpec => [](TypeInv /\ GrantInv /\ ScoreInv /\ RedeemedOnce /\ PagesInv)
<1>1. PagesInit => PagesInv
  <2> SUFFICES ASSUME PagesInit PROVE PagesInv
    OBVIOUS
  <2>1. Posts = {}
    BY DEF PagesInit, Init, Posts
  <2>2. KeyInv
    BY <2>1, FS_EmptySet DEF KeyInv
  <2>3. RowsInv
    BY DEF PagesInit, Init, RowsInv
  <2>4. WorkInv
    BY DEF PagesInit, Init, WorkInv, IdleCheck, IdleSettle
  <2>5. ComposerInv
    BY DEF PagesInit, ComposerInv, Composer, Closed
  <2> QED
    BY <2>2, <2>3, <2>4, <2>5 DEF PagesInv
<1>2. TypeInv /\ PagesInv /\ [Next]_vars /\ [PagesNext]_<<vars, composer>> => PagesInv'
  BY RowsStep, WorkStep, KeyStep, ComposerStep DEF PagesInv
<1>3. PagesSpec => Spec /\ [][PagesNext]_<<vars, composer>>
  BY PagesTheorem, PTL DEF PagesSpec
<1> QED
  BY <1>1, <1>2, <1>3, TypeInvariant, GrantInvariant, ScoreInvariant, RedeemTheorem,
     PTL DEF PagesSpec, Spec

\* No more tickets are reported than were attributed.
LEMMA TicketsReported ==
    ASSUME TypeInv, ScoreInv, KeyInv
    PROVE  AnalyticsSummary(PostStatus).totalTickets <= SumOf(tickets, Posts)
<1> DEFINE f == [p \in Posts |-> snapshot[p].metrics.tickets]
<1>1. /\ \A p \in Posts : snapshot[p].metrics \in Metrics /\ tickets[p] \in Nat
      /\ \A p \in Posts : status[p] \in PostStatus
  BY DEF TypeInv, TypeOK, Snapshot, Posts
<1>2. \A p \in Posts : snapshot[p].metrics.tickets <= tickets[p]
  BY DEF ScoreInv, Within, Posts
<1>3. \A p \in Posts : f[p] \in Int /\ tickets[p] \in Int /\ f[p] <= tickets[p]
  BY <1>1, <1>2 DEF Metrics
<1>4. AnalyticsSummary(PostStatus).totalTickets = SumOf(f, Posts)
  <2>1. {p \in DOMAIN getSocialPromotionAnalytics :
           getSocialPromotionAnalytics[p].status \in PostStatus} = Posts
    BY <1>1 DEF getSocialPromotionAnalytics, mapSocialPromotionAnalyticsRow
  <2>2. [p \in Posts |-> getSocialPromotionAnalytics[p].metrics.tickets] = f
    BY DEF getSocialPromotionAnalytics, mapSocialPromotionAnalyticsRow
  <2> HIDE DEF f
  <2> QED
    BY <2>1, <2>2 DEF AnalyticsSummary
<1> HIDE DEF f
<1> QED
  BY <1>3, <1>4, SumOfLeq DEF KeyInv

\* What grants the pages list: those that were issued, with their status.
LEMMA GrantsListed ==
    ASSUME TypeInv, GrantInv, RowsInv, NEW p \in Posts
    PROVE  /\ p \in DOMAIN PromotionBonusGrantsCard <=> grant[p] # NoGrant
           /\ p \in DOMAIN PromotionBonusGrantsCard =>
                  PromotionBonusGrantsCard[p] = grant[p].status
           /\ mapSocialPromotionAnalyticsRow(p).grantIssued <=> grant[p] # NoGrant
           /\ p \in PromotionBonusSelector <=> grant[p].status = "AVAILABLE"
<1>1. p \in Drafts /\ grant[p].status \in GrantStatus
  BY DEF Posts, TypeInv, TypeOK, NoGrant, GrantStatus
<1>2. /\ grant[p] # NoGrant => settlement[p] # None
      /\ grant[p] # NoGrant <=> grant[p].status # "NONE"
  <2>1. grant[p] # NoGrant => settlement[p] # None
    BY <1>1 DEF GrantInv, PostInv
  <2>2. grant[p] # NoGrant => grant[p].status # "NONE"
    BY <1>1 DEF RowsInv
  <2> QED
    BY <2>1, <2>2 DEF NoGrant
<1> QED
  BY <1>1, <1>2 DEF PromotionBonusGrantsCard, PromotionBonusSelector, myPromotionBonusGrants,
                    mapSocialPromotionAnalyticsRow

\* The analytics of all posts.
LEMMA SummaryOfAll ==
    ASSUME TypeInv
    PROVE  LET s == AnalyticsSummary(PostStatus) IN
           /\ s.settledPosts = {p \in Posts : settlement[p] # None}
           /\ s.grantIssued = {p \in Posts : mapSocialPromotionAnalyticsRow(p).grantIssued}
           /\ AnalyticsSummary({"SETTLED"}).totalPosts = {p \in Posts : status[p] = "SETTLED"}
<1>1. \A p \in Posts : status[p] \in PostStatus
  BY DEF TypeInv, TypeOK, Posts
<1>2. /\ DOMAIN getSocialPromotionAnalytics = Posts
      /\ \A p \in Posts : getSocialPromotionAnalytics[p] = mapSocialPromotionAnalyticsRow(p)
  BY DEF getSocialPromotionAnalytics
<1>3. \A p \in Posts : /\ mapSocialPromotionAnalyticsRow(p).status = status[p]
                       /\ mapSocialPromotionAnalyticsRow(p).totalScore = settlement[p]
  BY DEF mapSocialPromotionAnalyticsRow
<1> QED
  BY <1>1, <1>2, <1>3 DEF AnalyticsSummary

\* The pages agree with each other and with what purchases accept, for any
\* number of posts, runs, purchases and admins behind them.
THEOREM PagesAgree == PagesSpec => []PromotionPagesAgree
<1>1. TypeInv /\ GrantInv /\ ScoreInv /\ RedeemedOnce /\ PagesInv => PromotionPagesAgree
  <2> SUFFICES ASSUME TypeInv, GrantInv, ScoreInv, RedeemedOnce, PagesInv
               PROVE  PromotionPagesAgree
    OBVIOUS
  <2> USE DEF PagesInv
  <2>0. Posts \subseteq Drafts
    BY DEF Posts
  <2>1. \A r \in Raffles : previewPromotionBonus(r) \subseteq PromotionBonusSelector
    BY GrantsListed DEF previewPromotionBonus, getAvailableGrantForBuyer
  <2>2. ASSUME NEW c \in Checkouts, redemption[c] # "NONE"
        PROVE  checkout[c].grant \in DOMAIN PromotionBonusGrantsCard \ PromotionBonusSelector
    <3> DEFINE g == checkout[c].grant
    <3>1. g \in Drafts
      BY <2>2 DEF RowsInv, TypeInv, TypeOK, Checkout
    <3>2. grant[g].status \in {"RESERVED", "USED"}
      BY <2>2, <3>1 DEF RedeemedOnce
    <3>3. grant[g] # NoGrant /\ g \in Posts
      BY <3>1, <3>2 DEF NoGrant, RowsInv
    <3> QED
      BY <3>2, <3>3, GrantsListed
  <2>3. DOMAIN PromotionBonusGrantsCard = AnalyticsSummary(PostStatus).grantIssued
    <3>1. DOMAIN PromotionBonusGrantsCard \subseteq Posts
      BY DEF PromotionBonusGrantsCard, myPromotionBonusGrants
    <3> QED
      BY <3>1, SummaryOfAll, GrantsListed
  <2>4. AnalyticsSummary(PostStatus).grantIssued \subseteq AnalyticsSummary(PostStatus).settledPosts
    BY SummaryOfAll DEF mapSocialPromotionAnalyticsRow
  <2>5. AnalyticsSummary({"SETTLED"}).totalPosts \subseteq AnalyticsSummary(PostStatus).settledPosts
    BY <2>0, SummaryOfAll DEF GrantInv, PostInv
  <2>6. \A p \in Posts : AnalyticsRow(p).grant = "AVAILABLE" <=> p \in PromotionBonusSelector
    <3> TAKE p \in Posts
    <3>1. mapSocialPromotionAnalyticsRow(p).grantStatus = grant[p].status
      BY DEF mapSocialPromotionAnalyticsRow
    <3>2. grant[p].status = "AVAILABLE" => grant[p] # NoGrant
      BY DEF NoGrant
    <3> QED
      BY <3>1, <3>2, GrantsListed DEF AnalyticsRow
  <2>7. \A p \in AnalyticsSummary(PostStatus).settledPosts : AnalyticsRow(p).score = "score"
    BY SummaryOfAll DEF AnalyticsRow, mapSocialPromotionAnalyticsRow
  <2>8. \A row \in SocialPromotionReview : row.failed
    <3> TAKE row \in SocialPromotionReview
    <3>1. PICK p \in Posts : /\ status[p] = "TECHNICAL_REVIEW"
                             /\ row = [post |-> p,
                                       failed |-> ~mapSocialPromotionPost(p).snapshot.valid]
      BY DEF SocialPromotionReview, getTechnicalReviewQueue
    <3>2. ~snapshot[p].valid /\ mapSocialPromotionPost(p).snapshot = snapshot[p]
      BY <2>0, <3>1 DEF RowsInv, mapSocialPromotionPost
    <3> QED
      BY <3>1, <3>2
  <2>9. ASSUME NEW r \in Raffles, NEW x \in SocialPromotionPostsSummary(r),
               NEW y \in SocialPromotionPostsSummary(r), x[2].network = y[2].network
        PROVE  x = y
    <3>1. PICK p \in Posts : RaffleOf[p] = r /\ x = <<p, mapSocialPromotionPost(p)>>
      BY DEF SocialPromotionPostsSummary, mySocialPromotionPosts
    <3>2. PICK q \in Posts : RaffleOf[q] = r /\ y = <<q, mapSocialPromotionPost(q)>>
      BY DEF SocialPromotionPostsSummary, mySocialPromotionPosts
    <3>3. NetworkOf[p] = NetworkOf[q]
      BY <2>9, <3>1, <3>2 DEF mapSocialPromotionPost
    <3>4. p = q
      BY <3>1, <3>2, <3>3 DEF KeyInv
    <3> QED
      BY <3>1, <3>2, <3>4
  <2>10. composer.draft # None => draft[composer.draft] # "NONE"
    BY DEF ComposerInv
  <2> QED
    BY <2>1, <2>2, <2>3, <2>4, <2>5, <2>6, <2>7, <2>8, <2>9, <2>10, TicketsReported
       DEF PromotionPagesAgree
<1> QED
  BY <1>1, PagesInvariant, PTL
=============================================================================
