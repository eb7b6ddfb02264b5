--------------------------- MODULE PromotionPages ---------------------------
(***************************************************************************)
(* The pages of the social promotions: the composer with which a seller    *)
(* registers a post (social-promotion-manager.tsx), the lists of posts and *)
(* grants, the admin's review queue and analytics, and how the page of a   *)
(* post is loaded and parsed (social-promotion-page-loader.service.ts,     *)
(* social-promotion-parser.service.ts).                                    *)
(***************************************************************************)
EXTENDS SocialPromotions, Sums

VARIABLES
    composer    \* the dialog: open, the draft it shows, the call it waits for

Composer == [open : BOOLEAN, draft : Drafts \cup {None}, wait : Drafts \cup {None}]
Closed   == [open |-> FALSE, draft |-> None, wait |-> None]

PagesInit == Init /\ composer = Closed

-----------------------------------------------------------------------------
(* The composer.  Closing it forgets the draft, but not the call under way.  *)

\* A dialog that is opened when every draft was used changes nothing more.
openComposer ==
    /\ ~composer.open
    /\ \E d \in Drafts \cap bound.who : draft[d] = "NONE" \/ composer.draft = d
    /\ composer' = [composer EXCEPT !.open = TRUE]
    /\ UNCHANGED vars

handleOpenChange ==
    /\ composer.open
    /\ composer' = [composer EXCEPT !.open = FALSE, !.draft = None]
    /\ UNCHANGED vars

\* Step 1 offers a draft, step 2 the way back or the registration.
OffersDraft  == composer.open /\ composer.draft = None /\ composer.wait = None
OffersSubmit == composer.open /\ composer.draft # None /\ composer.wait = None

backToNetworks ==
    /\ composer.open /\ composer.draft # None
    /\ composer' = [composer EXCEPT !.draft = None]
    /\ UNCHANGED vars

\* The answer shows the draft, also in a dialog that was closed meanwhile and
\* shows it when it is opened again; or the call fails and the draft is lost.
draftAnswered ==
    /\ composer.wait # None /\ composer.wait \notin submitting
    /\ \E shown \in {composer.wait, composer.draft} :
         composer' = [composer EXCEPT !.draft = shown, !.wait = None]
    /\ UNCHANGED vars

DialogStep == openComposer \/ handleOpenChange \/ backToNetworks \/ draftAnswered

\* The calls of the dialog, each with the step of the backend that it causes.
handleGenerateDraft(d) ==
    /\ OffersDraft /\ draft[d] = "NONE" /\ draft'[d] # "NONE"
    /\ composer' = [composer EXCEPT !.wait = d]

handleSubmitPost(d) ==
    /\ OffersSubmit /\ composer.draft = d /\ d \in submitting' \ submitting
    /\ composer' = [composer EXCEPT !.wait = d]

\* The answer closes the dialog, whatever it shows by now.  (One that is lost
\* leaves it open, and a second registration of the draft is refused.)
postAnswered(d) ==
    /\ d \in submitting \ submitting'
    /\ composer' = IF status'[d] # status[d] THEN Closed
                   ELSE [composer EXCEPT !.wait = None]

\* Everything else goes on behind the dialog.
BehindDialog == /\ submitting' = submitting /\ composer' = composer
                /\ \A d \in Drafts : draft[d] = "NONE" => draft'[d] = "NONE"

PagesNext == \/ DialogStep
             \/ /\ Next
                /\ \/ BehindDialog
                   \/ \E d \in Drafts : \/ handleGenerateDraft(d) \/ handleSubmitPost(d)
                                        \/ postAnswered(d)
PagesSpec == PagesInit /\ [][PagesNext]_<<vars, composer>> /\ Fairness

-----------------------------------------------------------------------------
(* Lists of posts *)

\* mapSocialPromotionPost: what the pages know of a post.
mapSocialPromotionPost(p) == [network |-> NetworkOf[p], status |-> status[p],
                              snapshot |-> snapshot[p], settlement |-> settlement[p]]

mySocialPromotionPosts(r) == {p \in Posts : RaffleOf[p] = r}

\* The summary in the seller's list: metrics unless there is a reason against.
SocialPromotionPostsSummary(r) ==
    {<<p, mapSocialPromotionPost(p)>> : p \in mySocialPromotionPosts(r)}

getTechnicalReviewQueue == {p \in Posts : status[p] = "TECHNICAL_REVIEW"}

\* The admin's queue shows the last failure of each post in it.
SocialPromotionReview ==
    {[post |-> p, failed |-> ~mapSocialPromotionPost(p).snapshot.valid] :
        p \in getTechnicalReviewQueue}

-----------------------------------------------------------------------------
(* Grants *)

\* Mutant: whatever is not expired is offered.
MutGrantsOfAnyStatus(statuses) == {p \in Posts : grant[p] # NoGrant /\ ~grant[p].expired}

\* An expired grant is still listed as AVAILABLE: only purchases look at the date.
myPromotionBonusGrants(statuses) == {p \in Posts : grant[p].status \in statuses}

\* The bonus selector of a raffle page, and the card with all grants.
PromotionBonusSelector   == myPromotionBonusGrants({"AVAILABLE"})
PromotionBonusGrantsCard == [p \in myPromotionBonusGrants(GrantStatus \ {"NONE"}) |-> grant[p].status]

getAvailableGrantForBuyer(p) == grant[p].status = "AVAILABLE" /\ ~grant[p].expired

\* What a preview shows, and a purchase accepts, while the raffle is on sale.
previewPromotionBonus(r) == {p \in Posts : estado[r] = "ACTIVA" /\ getAvailableGrantForBuyer(p)}

-----------------------------------------------------------------------------
(* Analytics *)

mapSocialPromotionAnalyticsRow(p) ==
    [status |-> status[p], metrics |-> snapshot[p].metrics, totalScore |-> settlement[p],
     grantIssued |-> settlement[p] # None /\ grant[p] # NoGrant, grantStatus |-> grant[p].status]

getSocialPromotionAnalytics == [p \in Posts |-> mapSocialPromotionAnalyticsRow(p)]

\* The summary above the table, of the rows that pass the filter on the status.
AnalyticsSummary(statuses) ==
    LET rows == getSocialPromotionAnalytics
        shown == {p \in DOMAIN rows : rows[p].status \in statuses}
    IN  [totalPosts   |-> shown,
         settledPosts |-> {p \in shown : rows[p].totalScore # None},
         grantIssued  |-> {p \in shown : rows[p].grantIssued},
         totalTickets |-> SumOf([p \in shown |-> rows[p].metrics.tickets], shown)]

\* A row of the table: the score, or that there is none yet, and the grant.
AnalyticsRow(p) ==
    LET row == mapSocialPromotionAnalyticsRow(p)
    IN  [badge |-> row.status,
         score |-> IF row.totalScore = None THEN "Sin settlement todavia" ELSE "score",
         grant |-> IF row.grantIssued THEN row.grantStatus ELSE "Sin grant"]

-----------------------------------------------------------------------------
(* Loading and parsing the page of a post *)

MAX_REDIRECTS == 5
Failed == None     \* no page

\* What a browser or a plain request may be given.
PublicPage == [accessible : BOOLEAN, tokenPresent : BOOLEAN, metrics : Engagements \cup {None}]

\* A request that is redirected too often, or away from the network, fails.
loadWithFetch(page, redirects, supported) ==
    IF redirects > MAX_REDIRECTS \/ ~supported THEN Failed ELSE page

\* The browser fails when it times out, or ends up away from the network.
loadWithPlaywright(page, supported) == IF supported THEN page ELSE Failed

\* Every address of a supported network asks for the browser, which replaces
\* the page that was fetched unless it fails.
loadPublicPage(preferBrowser, browserEnabled, fetched, browser) ==
    LET loaded == browserEnabled /\ browser # Failed
    IN  IF preferBrowser /\ loaded THEN browser
        ELSE IF fetched # Failed /\ loaded THEN browser
        ELSE fetched

parsePublicContent(page) == [valid      |-> page.accessible /\ page.tokenPresent,
                             engagement |-> page.metrics]

\* The reading of a validation; Failed sends the post to technical review.
loadAndParse(browserEnabled, fetched, browser, fetchedAgain, browserAgain) ==
    LET first  == loadPublicPage(FALSE, browserEnabled, fetched, browser)
        second == loadPublicPage(TRUE, browserEnabled, fetchedAgain, browserAgain)
    IN  CASE first = Failed -> Failed
          [] first # Failed /\ (second = Failed \/ (browserEnabled /\ browser # Failed))
               -> parsePublicContent(first)
          [] OTHER -> retryWithBrowser(parsePublicContent(first), parsePublicContent(second))

-----------------------------------------------------------------------------
(* Properties *)

\* The pages agree with each other and with what purchases accept, at every
\* moment of the jobs, the admins and the purchases behind them: a grant that a
\* purchase kept is on its owner's card and no longer offered, what is accepted
\* was offered, the analytics count a grant only with the score that
\* reached it and a settled post only with its score, never more tickets than
\* were attributed, and a post that the admin is asked to look at shows a
\* failure.  A post is registered once for a network, and a draft on the
\* composer's second step is one that the backend knows.
PromotionPagesAgree ==
    /\ \A r \in Raffles : previewPromotionBonus(r) \subseteq PromotionBonusSelector
    /\ \A c \in Checkouts : redemption[c] # "NONE" =>
          checkout[c].grant \in DOMAIN PromotionBonusGrantsCard \ PromotionBonusSelector
    /\ LET s == AnalyticsSummary(PostStatus) IN
       /\ s.grantIssued \subseteq s.settledPosts
       /\ DOMAIN PromotionBonusGrantsCard = s.grantIssued
       /\ AnalyticsSummary({"SETTLED"}).totalPosts \subseteq s.settledPosts
       /\ \A p \in Posts : AnalyticsRow(p).grant = "AVAILABLE" <=> p \in PromotionBonusSelector
       /\ \A p \in s.settledPosts : AnalyticsRow(p).score = "score"
       /\ s.totalTickets <= SumOf(tickets, Posts)
    /\ \A row \in SocialPromotionReview : row.failed
    /\ \A r \in Raffles : \A x, y \in SocialPromotionPostsSummary(r) :
          x[2].network = y[2].network => x = y
    /\ composer.draft # None => draft[composer.draft] # "NONE"
=============================================================================
