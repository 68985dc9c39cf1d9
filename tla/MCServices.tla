------------------------------- MODULE MCServices -------------------------------
(***************************************************************************)
(* The services that share no rows with one another, checked side by side: *)
(* each initial state sets one of them to work, in an instance of its own, *)
(* and the others rest.  Knowledge ingestion, whose calls must end, is     *)
(* extended; the others are instances.  ServicesProofs has theorems about  *)
(* what is checked here, for every value of the constants.                 *)
(***************************************************************************)
EXTENDS Integers, FiniteSets, Sequences, KnowledgeIngestion

CONSTANTS
  One, Two, Three,                                             \* sets of slots for calls
  MaxTokens,                                                   \* Accounts
  Keys, MaxPosts,                                              \* Adapters
  MembershipRoles, BrandRoles, Scopes, Asked,                  \* Actors
  Limit, LastWindow,                                           \* Limiter
  Urls, NoUrl, Contents, NoContent,                            \* Inbox
  Hosts, Public, Private, MaxRedirects,                        \* Fetches
  Publications, Instagram, Times, SnapshotPage,                \* Dashboard
  Endpoints, Emissions, Secrets,                               \* Hooks
  Assets, Known, Extensions, Captions, NoAsset, NoExtension, MediaFaults,
                                                               \* Media
  Jobs, MaxDuration, MaxStoryboards,                           \* Planning
  Cases, OtherCases, CasePage                                  \* Trials

ASSUME ServicesAssumption ==
  /\ MaxTokens \in Nat /\ MaxPosts \in Nat /\ MaxRedirects \in Nat
  /\ MembershipRoles \subseteq {"OWNER", "ADMIN", "EDITOR", "REVIEWER", "VIEWER"}
  /\ Scopes \subseteq SUBSET {"READ", "WRITE", "APPROVE", "ADMIN"}
  /\ Limit \in Nat /\ LastWindow \in Nat \ {0}
  /\ Publications \subseteq Nat /\ Instagram \subseteq Publications
  /\ Times \subseteq Nat /\ SnapshotPage \in Nat \ {0}
  /\ NoAsset \notin Assets
  /\ MaxStoryboards \in Nat
  /\ Cases \subseteq Nat /\ IsFiniteSet(Cases) /\ CasePage \in Nat
  /\ IsFiniteSet(OtherCases) /\ Cases \cap OtherCases = {}

VARIABLES
  service,                                                                  \* the one at work
  status, token, refresh, connect, issued, good, lost, late,                \* Accounts
  request, made, present,                                                   \* Adapters
  organization, membership, brand, access, key, credential, session, admission,
  started, missing,                                                         \* Actors
  clock, entry, answer, accepted,                                           \* Limiter
  inbox, sources, items, submission,                                        \* Inbox
  dns, fetch, contacted, requests,                                          \* Fetches
  stored, reported, collection, read, before,                               \* Dashboard
  endpoint, delivery, work, received, answered,                             \* Hooks
  asset, objects, upload, leftovers, composing, output, hearing, transcripts, tracks, failures,
                                                                            \* Media
  approved, recipe, planning, offered, storyboards,                         \* Planning
  cases, run, results, judging, behind                                      \* Trials

accountVars == <<status, token, refresh, connect, issued, good, lost, late>>
adapterVars == <<request, made, present>>
actorVars == <<organization, membership, brand, access, key, credential, session, admission,
               started, missing>>
limiterVars == <<clock, entry, answer, accepted>>
inboxVars == <<inbox, sources, items, submission>>
fetchVars == <<dns, fetch, contacted, requests>>
dashboardVars == <<stored, reported, collection, read, before>>
hookVars == <<endpoint, delivery, work, received, answered>>
mediaVars == <<asset, objects, upload, leftovers, composing, output, hearing, transcripts, tracks,
               failures>>
planVars == <<approved, recipe, planning, offered, storyboards>>
trialVars == <<cases, run, results, judging, behind>>
allVars == <<service, accountVars, adapterVars, vars, actorVars, limiterVars, inboxVars,
             fetchVars, dashboardVars, hookVars, mediaVars, planVars, trialVars>>

\* Two refreshes of one token, and a user who connects again; the platform renews twice.
Accounts == INSTANCE SocialAccounts WITH
  Refreshes <- Two, Connects <- One, credential <- token

Adapters == INSTANCE SocialAdapters WITH Calls <- Two, call <- request

Actors == INSTANCE Access WITH Calls <- One, call <- admission

Limiter == INSTANCE RateLimiter WITH Processes <- Three

Inbox == INSTANCE ResearchInbox WITH Calls <- Three, call <- submission

Fetches == INSTANCE UrlFetch WITH Fetches <- One

Dashboard == INSTANCE Analytics WITH Calls <- One, PageSize <- SnapshotPage, call <- collection

Hooks == INSTANCE Webhooks WITH accepted <- received

\* The bytes of one row three times, as a caption file or as media they are not.
Media == INSTANCE MediaStore WITH Uploads <- Three, MaxFaults <- MediaFaults, faults <- failures

\* The recipe is written over by one that allows another job.
Recipes == {[jobs |-> {job}, min |-> 1, max |-> 1] : job \in Jobs}

Planning == INSTANCE Storyboards WITH Calls <- Two, call <- planning

Trials == INSTANCE Evaluations WITH
  Calls <- Two, Foreign <- OtherCases, PageSize <- CasePage, call <- judging, late <- behind

ServicesInit ==
  /\ service \in {"accounts", "adapters", "knowledge", "actors", "limiter", "inbox", "fetches",
                  "dashboard", "hooks", "media", "planning", "trials"}
  /\ Accounts!Init /\ Adapters!Init /\ Init /\ Actors!Init /\ Limiter!Init
  /\ Inbox!Init /\ Fetches!Init /\ Dashboard!Init /\ Hooks!Init /\ Media!Init
  /\ Planning!Init /\ Trials!Init
  \* What is chosen for a service at rest does not matter.
  /\ service # "actors" => membership = "ADMIN"
  /\ service # "planning" => recipe.jobs = {CHOOSE job \in Jobs : TRUE}
  /\ service # "fetches" => \A h \in Hosts : dns[h] = {}

Accounting ==
  /\ service = "accounts" /\ Accounts!Next
  /\ UNCHANGED <<service, adapterVars, vars, actorVars, limiterVars, inboxVars,
                 fetchVars, dashboardVars, hookVars, mediaVars, planVars, trialVars>>
Adapting ==
  /\ service = "adapters" /\ Adapters!Next
  /\ UNCHANGED <<service, accountVars, vars, actorVars, limiterVars, inboxVars,
                 fetchVars, dashboardVars, hookVars, mediaVars, planVars, trialVars>>
OtherThanKnowledge ==
  <<service, accountVars, adapterVars, actorVars, limiterVars, inboxVars, fetchVars,
    dashboardVars, hookVars, mediaVars, planVars, trialVars>>
Learning == service = "knowledge" /\ Next /\ UNCHANGED OtherThanKnowledge
Admitting ==
  /\ service = "actors" /\ Actors!Next
  /\ UNCHANGED <<service, accountVars, adapterVars, vars, limiterVars, inboxVars,
                 fetchVars, dashboardVars, hookVars, mediaVars, planVars, trialVars>>
Limiting ==
  /\ service = "limiter" /\ Limiter!Next
  /\ UNCHANGED <<service, accountVars, adapterVars, vars, actorVars, inboxVars,
                 fetchVars, dashboardVars, hookVars, mediaVars, planVars, trialVars>>
Submitting ==
  /\ service = "inbox" /\ Inbox!Next
  /\ UNCHANGED <<service, accountVars, adapterVars, vars, actorVars, limiterVars,
                 fetchVars, dashboardVars, hookVars, mediaVars, planVars, trialVars>>
Fetching ==
  /\ service = "fetches" /\ Fetches!Next
  /\ UNCHANGED <<service, accountVars, adapterVars, vars, actorVars, limiterVars,
                 inboxVars, dashboardVars, hookVars, mediaVars, planVars, trialVars>>
Measuring ==
  /\ service = "dashboard" /\ Dashboard!Next
  /\ UNCHANGED <<service, accountVars, adapterVars, vars, actorVars, limiterVars,
                 inboxVars, fetchVars, hookVars, mediaVars, planVars, trialVars>>
Notifying ==
  /\ service = "hooks" /\ Hooks!Next
  /\ UNCHANGED <<service, accountVars, adapterVars, vars, actorVars, limiterVars,
                 inboxVars, fetchVars, dashboardVars, mediaVars, planVars, trialVars>>
Storing ==
  /\ service = "media" /\ Media!Next
  /\ UNCHANGED <<service, accountVars, adapterVars, vars, actorVars, limiterVars,
                 inboxVars, fetchVars, dashboardVars, hookVars, planVars, trialVars>>
Drafting ==
  /\ service = "planning" /\ Planning!Next
  /\ UNCHANGED <<service, accountVars, adapterVars, vars, actorVars, limiterVars,
                 inboxVars, fetchVars, dashboardVars, hookVars, mediaVars, trialVars>>
Judging ==
  /\ service = "trials" /\ Trials!Next
  /\ UNCHANGED <<service, accountVars, adapterVars, vars, actorVars, limiterVars,
                 inboxVars, fetchVars, dashboardVars, hookVars, mediaVars, planVars>>

ServicesNext ==
  \/ Accounting \/ Adapting \/ Learning \/ Admitting \/ Limiting \/ Submitting
  \/ Fetching \/ Measuring \/ Notifying \/ Storing \/ Drafting \/ Judging

\* A call of ingest and its writers go on as their own specification says.
ServicesSpec ==
  ServicesInit /\ [][ServicesNext]_allVars /\ \A c \in Calls : WF_vars(Work(c))

-----------------------------------------------------------------------------
\* Two refreshes of one rotating token never leave the used one behind
\* (social-token-refresh.ts:82-96).
StoredTokenIsGood == Accounts!StoredTokenIsGood

\* A disconnected account is connected again by its user, or by a refresh that was already
\* at work (social-token-refresh.ts:53-56).
OnlyLateRefreshesReconnect == Accounts!OnlyLateRefreshesReconnect

\* What a client of VK or Instagram answers of a post is true of it (providers'
\* publishing.ts:192-236, 377-436).
AnswersAreTrue == Adapters!AnswersAreTrue

\* An operation begins only with what was granted to its caller while it was on its way in
\* (tenant-context.ts:36-65, mcp-auth.ts:63-85).
EffectsAreGranted == Actors!EffectsAreGranted

\* A window never grants more than the limit, though clocks differ (rate-limit.ts:26-41).
NoWindowIsOverspent == Limiter!NoWindowIsOverspent

\* A READY submission has its item, and one call at a time works on it (research.ts:60-86).
ReadyHasItem == Inbox!ReadyHasItem

\* No request goes to an address that is not public (knowledge-url.ts:30-37, 102-137).
OnlyPublicIsContacted == Fetches!OnlyPublicIsContacted

\* The dashboard counts each publication once, by a snapshot at least as new as the newest
\* there was when it began to read (analytics-dashboard.ts:87-133).
DashboardIsComplete == Dashboard!DashboardIsComplete

\* DELIVERED is said of what was accepted, and FAILED never of what was acknowledged
\* (webhooks.ts:81-103).
DeliveriesAreTrue == Hooks!DeliveriesAreTrue

\* A FAILED file leaves no object behind, but for what a clean-up could not delete
\* (media.ts:152-157).
FailedLeavesNothing == Media!FailedLeavesNothing

\* What a production is made of stays READY (captions.ts:68-78, media.ts:355-384).
DerivedFromReady == Media!DerivedFromReady

\* Storyboards are numbered in the order they were stored, and each fits its recipe
\* (video-planning.ts:49-62, storyboard-generation.ts:134-139).
StoryboardsAreNumbered == Planning!StoryboardsAreNumbered

\* The verdict of an evaluation run is given once, and of its results: of a suite that fits a
\* page it lacks only as many cases as results of other suites were counted
\* (evaluations.ts:51-77).
VerdictIsCounted == Trials!VerdictIsCounted
=============================================================================
