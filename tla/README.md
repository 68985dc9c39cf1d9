# Verification of the content factory

TLA+ models of `ams-content-factory`, the TypeScript service that turns research into
approved content, renders it to video and publishes it to VK and Instagram. The state
lives in PostgreSQL (Prisma, READ COMMITTED), long work runs in a worker fed by a pg-boss
queue that delivers *at least once*, and almost every operation is a sequence of separate
statements with an `await` between them. What can go wrong is what happens between two
statements; that is what these modules are about.

## Inventory

| Part | State | Operations | Hard behaviour | Correct when |
| --- | --- | --- | --- | --- |
| Publishing (`core/publishing.ts`, `db/repositories/publishing.ts`) | `Publication.status`, `lastAttemptId`, `PublicationAttempt` rows, the social network | create, schedule, publish, investigate, recover, connect, disconnect | concurrent publishers and investigators, timeouts after a mutation, crashes between provider answer and save | at most one post; the status never contradicts the network |
| Publication dispatch and scheduling (`core/publication-dispatch.ts`, `publication-scheduling.ts`, `publication-dispatch-scheduler.ts`) | `scheduledAt`, dispatch workflow run | dispatch, schedule, reschedule, cancel, enqueueDue | races of the due sweep with reschedule and cancel; duplicate jobs | nothing early, nothing cancelled is posted; what is due is dispatched |
| Workflow runs (`core/workflows.ts`, `db/repositories/workflow-run.ts`, `worker/bootstrap.ts`, `workflow-run-handler.ts`, `queue-reconciliation.ts`, `jobs/queue.ts`) | `WorkflowRun.status`, queued jobs | enqueue by key, handlers, reconcile at start | duplicate delivery, retries, crash between row and job | a queued run is started; SUCCEEDED only if a handler did it |
| Content and editorial (`core/content.ts`, `editorial-approval.ts`, `fact-check.ts`, `content-generation.ts`, `db/repositories/content.ts`, `ai-executions.ts`) | `ContentProject.status`, versions, claims, approvals, `AiExecution` | create, generate, rewrite, append version, fact check, review, approve, ready | a generation claimed twice, a late answer, a status read before a provider call | one version per execution; a submitted text is not changed behind the editor; no project that can no longer be drafted |
| Video (`core/video-providers.ts`, `media.ts`, `video-qc-gate.ts`, `captions.ts`) | `VideoProduction.status`, `RenderJob`, `ProviderUsage`, QC reports | advance, submit, poll, report, gate | a render submitted twice, an answer that cannot be saved, a stale poll, a gate checked and then moved | one provider job per key, billed; READY only after a passed report |
| Media store and captions (`core/media.ts`, `captions.ts`, `transcription.ts`) | `MediaAsset.status`, stored objects, transcripts, caption tracks | store, transcribe, setOutputAsset, createCaptionTrack | uploads of one checksum share a row, and often an object | a FAILED row leaves no object; what a production is made of is READY |
| Storyboards (`core/storyboard-generation.ts`, `video-planning.ts`, `video-recipes.ts`) | storyboards with versions, the recipe | generate, create, upsertRecipe | the recipe written over during a provider call, the next version read before the insert | versions 1, 2, 3; a generated storyboard fits its recipe |
| Social accounts (`core/social-token-refresh.ts`, `publishing.ts`) | account status, credential | connect, refresh, disconnect | refresh against disconnect, two refreshes of one rotating token | the stored token is one the platform accepts; only its user, or a refresh that was already at work, reconnects an account |
| Knowledge (`core/knowledge-ingestion.ts`, `providers/knowledge-url.ts`) | document status, chunks, embeddings | ingest, retry, index, fetch a URL | chunk writers that outlive a failure, deaths while PROCESSING, names that change between redirects | a READY document has its chunks; nothing that was found is lost; only public addresses are contacted |
| Research inbox (`core/research.ts`) | submissions, sources, items | ingest | submissions that share an item, deaths while PROCESSING | a READY submission has its item |
| Rate limiting (`core/rate-limit.ts`) | fixed-window counters | consume | clocks that disagree | never more than the limit in a window |
| Analytics (`core/analytics.ts`, `analytics-dashboard.ts`, `analytics-collection-scheduler.ts`) | metric snapshots, collection runs | schedule 24/72/168 h, collect, dashboard | early and duplicate collection, pages read while rows are stored | one snapshot per window, none early; each publication counted once, by its newest |
| Webhooks (`core/webhooks.ts`, `inbound-webhooks.ts`) | endpoints, deliveries, inbound runs | configure, emit, receive | duplicate events, one delivery of several failing, a secret that changes meanwhile | an event is one run; DELIVERED is what was acknowledged |
| Tenancy and the MCP server (`core/tenant-context.ts`, `mcp-auth.ts`, `apps/mcp`) | memberships, roles, keys, the process's permissions | resolve an actor, start a process, call a tool | roles and keys taken away between two reads | an operation begins only with what was granted |
| Evaluations (`core/evaluations.ts`) | cases of a suite, `EvaluationRun.status`, results | createCase, startRun, recordResult, finishRun | results and cases that change while a run is finished, two finishers, results of other suites' cases | one verdict, of the results; no more cases without one than results were foreign |
| Web pages, prompts, adapters' parsing | | rendering, transport | | covered by the code's own tests |

Parts call each other through the database: a dispatch run names a publication, a
publication names a content project and a social account, a video production belongs to a
content project. There are no in-process locks.

## Modules

| Module | What it is |
| --- | --- |
| `PublicationStates` | the status graph, the two transition tables and the legacy states |
| `PublicationLifecycle` | abstract specification: a status, the number of posts on the network, and what is known of its answer |
| `Publishing` | one publication and any number of concurrent calls, one action per database statement or provider request |
| `WorkflowRuns` | runs of all four types, the broker's jobs, the worker, the due sweep, start-up reconciliation |
| `ContentProject` | one project: drafts, rewrites, fact check, editorial decisions, the move to READY |
| `VideoProduction` | one production: renders submitted and polled, QC reports, gate |
| `SocialAccounts` | one account and its credential: connect, disconnect, refresh |
| `SocialAdapters` | the clients of VK and Instagram, request by request |
| `KnowledgeIngestion`, `UrlFetch` | one knowledge document with its chunk writers; the redirects of one fetch |
| `ResearchInbox` | submissions, sources and items of a brand |
| `MediaStore` | rows and objects of files, and what a production makes of them |
| `Storyboards` | storyboards of a project, the recipe and the provider's call between |
| `Access` | how an actor is resolved: web calls, MCP tools, inbound webhooks |
| `Analytics`, `Webhooks`, `RateLimiter` | snapshots and the dashboard; deliveries of emissions; one counter |
| `Evaluations` | one run of an evaluation suite: cases, results, the verdict |
| `MCServices` | the twelve services above, each with variables of its own |
| `MCPublishing`, `MCWorkflowRuns`, `MCVideoProduction` | symmetry and extra fairness for TLC |
| `PublishingProofs`, `PublishingDeployedProofs`, `WorkflowRunsProofs`, `ContentProjectProofs`, `VideoProductionProofs`, `MediaStoreProofs`, `KnowledgeIngestionProofs`, `ServicesProofs` | theorems |

`Publishing` implements `PublicationLifecycle` (`RefinesLifecycle`): `posted` is the posts
under the dispatch key, `answer` is `Heard`, what the call at work knows of the network's
answer, and "error" for good once the publication is FAILED. `WorkflowRuns` treats a
publication as a status, a schedule and whether `lastAttemptId` is set, and performs
`publish` in one step: `Publishing` has the steps. `ContentProject` sees a video production
only as none, active or failed: `VideoProduction` has its life.

In every module the operations are named after the functions of the code, an update with a
`where status = ...` is a compare-and-set, a value read in one statement and used in a later
one is kept in the record of the call, and calls that would be refused without having
changed anything are not begun. Actions named as a slip (`...Always`, `...Maybe` and the
like) are plausible bugs: nothing uses them; each shows, put in the place of the action
that follows it, that some property would notice.

### Publishing

State: `Publication.status`, `lastAttemptId` (as the key of the attempt), `scheduledAt`
reduced to none, future or due, the attempt row of each idempotency key (status, whether
`providerJobId` is set, number), whether the account has a credential row, and the posts the
network created under each key. A call is a label in `pc` that names the statement it
performs next, the key it works with, and what `investigate` read before it asked the
provider. `transition()` is a compare-and-set on the status (`Moves`, `Reconciles`),
`updateAttempt()` is unconditional (`Mark`); that asymmetry is in the code. `publish`,
`dispatch` and `investigate` are the actions from `BeginPublish` to `Requeue`; the reads of
`publish` are separate steps from what they decide whenever an `await` lies between. `Abort`
is the process dying, or a statement throwing where nothing catches it; `PersistFails` is a
statement throwing after the provider answered, which leads to `markOutcomeUnknown`.

The provider is external: `CallProvider` either creates the post and answers, answers that
it does not know (only providers whose `Answers` include it; such an answer may lack a job),
throws without posting, or, with `TimeoutMayPost`, throws after posting, which is what an
aborted VK request can do. So an error says nothing of the network, and the promise made of
FAILED is no more than this: it is said only after an error, and never of a post whose
success was answered.
`DedupByKey` is VK's `guid`; Instagram has no such key. `StatusWithoutJob` is what
`getStatus` says when no job is known: `OUTCOME_UNKNOWN` for VK and Instagram, `NOT_FOUND`
for the mock. Only `publishFromWorker` has a caller in production (the worker's dispatch);
`publish` and `investigate` are exported and tested. The runs therefore distinguish the
*deployed* shape (dispatch and investigation with the dispatch key) from the *API* shape
(all three operations with several keys).

### WorkflowRuns

State: `WorkflowRun.status` of each run, when it is due, jobs of the broker with the
retries they used, and what the worker does next with each (`pc`). `Enqueue` is
`enqueueWorkflowRun` up to the row, `Send` its `queue.send`; between the two the intent is
in `outbox`, which dies with its process (`Interrupt`). `ScheduleCollection` writes the row
of a collection, which gets no job until a worker starts. `Sweep` and `EnqueueDispatch` are
`enqueueDue`; `StartWorker` is the reconciliation; `Start`, `Refuse`, the `Handle...`
actions and the `Mark...` actions are `processWorkflowRun`; `Retry` and `Die` are pg-boss's
answers to an error and to a worker that vanishes. Statuses are written whatever they
were (`transition`), as in the code.

The only production caller of `enqueueWorkflowRun` is the inbound webhook, with type
`n8n.<topic>` for which no handler is registered; `enqueueDue` has no production caller.
Both are modelled as the code has them, and the liveness properties say what they promise
*if* the sweep is run. Left out: reconciliation takes 100 runs at a time; pg-boss's
`singletonKey`, which the queue's policy does not turn into deduplication.

### ContentProject

State: `ContentProject.status`, the author of each version, the versions that have claims,
the `AiExecution` of each generation key and rewrite, the latest editorial decision, the
production in brief, and the calls at work. The database runs at READ COMMITTED, so
`claimInitialGeneration`, although one transaction, is split where it matters: it reads the
execution (`ReadExecution`) and then resets a failed one by id (`ClaimRetry`) or inserts
(`ClaimNew`, which the unique key serialises). `completeGeneration` and `completeRewrite`
read the execution without a lock, but are single steps all the same: the updates that
follow ask for the same things again (a RESEARCHING or DRAFT project, whose row the first of
them locks, and a RUNNING execution), and one that is refused returns nothing or rolls all
back. `failGeneration` begins with a conditional update, which locks. The provider is
called between `markRunning` and these. A fact check is three steps: read, move, record.
The service's `transition` reads, checks and updates by the status it read. Production asks
it for READY only (`Targets`), and creates every project with a brief and no version except
through MCP, which has no brief version; `Init` has both.

### VideoProduction

State: `VideoProduction.status`, the `RenderJob` of each key (status, operation, is
`providerJobId` set), the usages that know their external job, the latest QC report and
whether one has PASSED, and the provider's own job of each key. `submit` is the actions
from `Begin` to `RecordRefused`: insert, provider call, usage, render, and the recovery of
its catch block, whose own errors are swallowed. A statement that throws may have been
carried out. The job of a create whose answer never came is on neither the render nor the
usage: `KnownJobIsBilled` is about those whose identity was stored. `poll` is `BeginPoll`, `AskProvider` (any job may be described in words that
`statusFor` does not know, and the request may fail), `StoreAnswer`, `AdvanceProduction`.
`advance` and the gate read, then update by the status they read. No service of this part
has a caller in production yet; it is modelled as its exported functions allow.

### The services

Twelve smaller modules have one service each. In all of them a call is a record with the
step it does next and what it read or was given; one action per statement or request.

- `SocialAccounts`: `createSocialAccount` and `upsertCredential` are two statements of a
  connect, `disconnectSocialAccount` one transaction. A refresh is `Begin` (all checks of
  `refreshIfDue`), `Ask`, and `Store` or `MarkAccount`.
  The platform may answer with the same token or a new one and then refuses the old one.
- `SocialAdapters`: a VK post is one request that carries the key, an Instagram post a
  container and its publication. Any request may be cut off before or after it took effect.
  Posts can be deleted on the network.
- `KnowledgeIngestion`: `Claim` is the compare-and-set to PROCESSING, `addChunk` a writer of
  one chunk, `AllWritten`, `Ready` and `Fail` what follows. The first writer that fails ends
  the call; `late` writers of it go on. `findDocumentChunks` and `setChunkEmbedding` index.
  `UrlFetch` resolves each name again at each redirect and requests the address it checked.
- `ResearchInbox`: `ingest` makes or finds the submission, `Claim` takes it, `StoreSource`
  and `StoreItem` write what others may have written, `Ready` and `Fail` settle it.
- `MediaStore`: `look`, `put`, `ready`, `undo` and `fail` are the steps of `store()`. The
  row belongs to the checksum, the object's key also to the extension.
- `Storyboards`: `generate()` reads the project, then the recipe, calls the provider,
  checks the beats against what it read, and inserts; `create()` only inserts.
- `Access`: the four reads of `resolveActorContext`, the start of an MCP process
  (`findActiveApiKey`, `sessionOrganization`, `authenticate`) and its check of each tool, the
  credential of an inbound webhook. `Administer` changes any row at any moment.
- `Analytics`: a collection fetches, then upserts by publication and time; the dashboard
  reads pages by a cursor and keeps the newest row of each publication.
- `Webhooks`: `emit()` reads endpoints, makes a delivery for each, sends and settles it. A
  delivery whose sending throws stays PENDING, and nothing in the code takes it up again.
- `RateLimiter`: `consume` is one upsert; each process has a clock of its own.
- `Evaluations`: `recordResult` reads the status and `createResult` writes, for a case of the
  suite or of another one (`Foreign`), which nothing in the code tells apart; a finisher is
  `findRun` (run and results), `JudgeCounted` (cases, count) and `finishRun` (compare-and-set).

`MCServices` gives each variables of its own (`KnowledgeIngestion`, the only one with
fairness, is extended, the others are instances). They share no rows, so an initial
state sets one of them to work and the others rest: the graph is the union of twelve
graphs, not their product, and each property is checked of its service at full strength.

## Runs

| Run | Question | Result |
| --- | --- | --- |
| `PublishingDeployed` | Does the deployed shape keep its promise? 3 calls, 1 key, requests that throw before or after posting, crashes, failed statements, disconnects; `MaxPosts` 2 so that a second post would be seen | holds: `RefinesLifecycle`, `NeverEarly` |
| `PublishingApi` | What holds whatever the callers do? 2 calls, 2 keys, every operation and answer | holds: `SuccessIsReal`, `StartedAttemptHasOneOwner` |
| `PublishingLive` | Does a claimed publication settle? 3 calls, every call fair | holds: `ClaimSettles` |
| `PublishingTimeout` | INV-04: is FAILED only for what was not posted? | violated: timeout after the post |
| `PublishingSameKey` | W3.5: is a success never recorded FAILED? | violated: two calls, one key |
| `PublishingRequeued` | W3.5: does a requeue lead to another dispatch? | violated: `lastAttemptId` is never cleared |
| `WorkflowRunsSafe` | Is SUCCEEDED only what a handler did? A hook, a health check, a dispatch, 2 jobs, 1 death | holds: `SucceededWasHandled` |
| `WorkflowRunsLive` | Is everything started, and nothing early? A collection, a dispatch, clock 0..1, a retry, a death, sweep and restarts for ever | holds: `QueuedIsDispatched`, `LostJobIsRecovered`, `EarlyCollectionNeverFails` |
| `ContentProject` | 1 generation key, 2 requests for it, a rewrite, a fact check, a transition, 1 death, 2 versions | holds: all seven properties |
| `ContentProjectTwice` | Do concurrent retries call the provider once? | violated: both read FAILED, the later reset wins |
| `VideoProduction` | 1 key, 2 submits, 2 polls, a person, a gate, 2 failed statements or deaths | holds: all five properties |
| `Services` | Does each of the twelve services keep its promise with two or three calls at once, deaths and failures? | holds: all seventeen properties |

Bounds. Two calls are enough for every race of two parties and three for the claim of a
publication, whose loser may be followed by a fresh worker; two keys are enough for a
publication to have an attempt it does not name. Calls restart from idle without bound, so
sequences of calls are not cut. `MaxPosts` and `MaxCalls` cap what a provider will create
for a key: 1 where the property speaks of zero against some, 2 where a second is the
violation. `MaxVersions` 2 is a draft and one text after it; one generation key is enough
because executions of different keys meet only in the project's status (two keys were
checked without rewrite and transition: 367,000 states, no error). One fault reaches every
place a fault can strike, and `VideoProduction` has two, since its recovery can itself fail;
the proofs below have no such bound. `CHECK_DEADLOCK` is off because a published, cancelled or READY thing
has nothing left to do.

In `Services`, three calls let one fail, one retry and one come in between; two chunks let
one writer be late; three refresh tokens are two renewals; four snapshots are two full
pages of two; three windows are an old, a present and a next one; four requests are all
that a fetch may send; three faults cover a failure and two deaths of an ingestion; two
cases fit a page and three do not, and with one case of another suite a run can be PASSED on
a result that is not of the suite. One call at a time is enough for `Access`, whose rows
change between any two of its steps, and for `UrlFetch`, whose names do.

Fairness. `Publishing!FairSpec`: a begun call continues (a Node process runs its promises,
provider requests carry timeouts) and time passes; nobody is forced to schedule, dispatch
or investigate. `SweepingSpec`, used for a refutation, also has the sweep and the
investigations run for ever: what is stuck then is stuck whatever an operator does.
`WorkflowRuns!FairSpec`: time passes, a process that enqueues goes on until it dies, the
broker delivers what it holds (strongly fair, since a slot may be busy at times) and the
worker works. `LiveSpec` adds that the sweep is called again and workers restart now and
then, which is what the two liveness properties are about. `ContentProject!FairSpec`: a
request goes on, since the text provider's call ends after 30 s at the latest.
`VideoProduction` has no fairness: nothing in the code polls by itself.
Of the services only `KnowledgeIngestion` has any: a call that has begun, and each of its
writers, goes on until it ends or dies, since every `await` in it is a database statement.

## Proofs

All theorems are for every value of the constants: any number of calls, keys, runs,
versions and faults. Their assumptions are the ASSUME of each module.

`PublishingProofs`: `TypeCorrect`, `SuccessIsRealAlways`, `StartedAttemptHasOneOwnerAlways`.
None is inductive alone. Typing needs that a call past its first step holds a key
(`KeyHeld`). `SuccessIsReal` needs `Evidence`: a call that is about to record a success
carries the post with it from the step that learns of it to the step that writes it.
Ownership needs `Acquired`: nobody is at the provider for an attempt that has no row.

`PublishingDeployedProofs` fixes what `Deployed` says (dispatch and investigation only, the
provider answers PUBLISHED or throws, no status without a job) and leaves open whether a
request that throws has posted. It proves `NeverEarlyDeployed`, `SuccessNeverFailedDeployed`
and `DeployedRefinesLifecycle` with `DeployedInv`: one worker at a time (`OneWorker`), what
has been done by the time it reaches each label (`Progress`), and what the rows then look
like (`World`). The refinement needs to know what `Heard` is at each label (`HeardIs`) and
that a step can only keep or lose it. `PublicationIsHonest` says what the abstract
specification is worth: two posts never, PUBLISHED only with a post, with one neither
CANCELLED nor QUEUED, FAILED after an error only (`Honest`), and never of a post that came
without one (`SuccessStays`). That FAILED may have a post is not excluded, and cannot be:
`PublishingTimeout` shows it. `DeployedIsHonest` is the consequence for the deployed system,
through the refinement. `ClaimIsHeldDeployed` and `ClaimAdvancesDeployed` are what
`ClaimSettles` rests on: without deaths and disconnections (`Spared`) a PUBLISHING
publication has a worker, and each of its steps takes it nearer to its last, of the eight
there are at the most (`Left`), while no other step moves it.

`WorkflowRunsProofs`: `TypeCorrect`; `SucceededWasHandledAlways`, by `HandledInv` (a worker
that is about to mark a success comes from a handler that returned);
`EarlyCollectionNeverFailsAlways`, by `EarlyInv` (a worker past the due check of a
collection works on a due one) and `DueStays` (what is due stays due: the clock does not go
back and nobody reschedules a collection). `RunningIsHeldAlways`: until a process dies or a
success cannot be marked, a RUNNING run is in the hands of a worker, so such a fault is all
that makes the RUNNING run of the divergences, the one that reconciliation does not list.

`ContentProjectProofs`: `TypeCorrect`; `OneVersionPerExecutionAlways` and
`WaitingHasNoDraftAlways`, by `DraftInv`: an execution has one version at most (`Single`) and
one if it SUCCEEDED (`Kept`), a project that waits has none (`Waiting`), and a
rewrite that has not succeeded none either (`Rewritten`); they assume that nobody asks the
transition for IDEA, RESEARCHING or FAILED. `ReadyIsApprovedAlways` assumes that nobody
asks it for APPROVED. `SubmittedTextIsHumanAlways` assumes nothing. `NoDeadEndAlways` needs
the most: `WayOn` says, as long as no process has died, that an IDEA has no execution
(`IdeaIsFresh`), a request at work has one (`BusyHasExecution`), a FAILED project has a
FAILED one (`FailedHasFailed`), and somebody works on what is RUNNING (`RunningIsRun`) and
on a project that is RESEARCHING (`ResearchingIsBusy`). It assumes what `DraftInv` does and
that there is a generation to ask for. With a death it is false, as the divergences say. `RunningIsRunAlways` states the part of
it on which `RunningSettles` rests.

`VideoProductionProofs`: `TypeCorrect`; `OneProviderJobAlways` and
`KnownJobIsBilledAlways`, by `Inv`: the insert is won by one call (`OneSubmitter`), before
the call nobody has called (`NotCalledYet`), a render never disappears under a call
(`HasRender`), and who records a job has billed it (`Billed`). `RealInv` adds what is known
of the provider's own job: a final status that is stored, or on its way from a poll to the
row, is the job's (`StoredIsReal`, `PollsAreReal`), and a job's final status stays. From it
follow `ConfirmedIsNotFailedAlways` and, as a step property, `FinishedStaysFinishedAlways`:
a late poll either repeats what is stored or carries an answer without meaning.
`LegalMovesAlways` is by `MovesInv`: what an editor has read leads along the table, and
whoever has passed the gate has seen a PASSED report. None has an assumption.

`MediaStoreProofs`: `TypeCorrect`; `FailedLeavesNothingAlways`, by `ObjectsAreHeld`: an
object that is not left over is held by a READY row or by a call that is about to make it
READY or to undo it. A row that is READY stays so (`UpdateKeepsReady`), which is also all
that `DerivedFromReadyAlways` needs.

`KnowledgeIngestionProofs`: `TypeCorrect`; `OneProcessorAlways`, by `OwnedIsTaken` (a
document that a call owns is PROCESSING, or READY if its success was not heard of, so the
next claim fails), and with it `ProcessingIsOwnedAlways`, on which `ProcessingEnds` rests (unless
a call was cut off, a PROCESSING document has an owner); `ReadyIsCompleteAlways` by `WrittenExist` (a call that has seen no failure
has written what it no longer waits for), and `SearchNeverForgetsEver` (chunks only grow, and an indexer embeds only chunks
that exist).

`ServicesProofs` is about the composition `MCServices`, with its bounds as constants: any
sets of slots, keys, tokens, windows, rows, cases, pages and limits. `ServicesAssumption`
asks for little: numbers are numbers, roles and scopes are those of the code, a suite
is finite. `Steps` splits a step of the whole into a step of each service or none; then
each service has an inductive invariant over its own variables.

| Theorems (`...Always`) | Inductive invariant and argument |
| --- | --- |
| `StoredTokenIsGood`, `OnlyLateRefreshesReconnect` | `AccountInv`: the tokens that calls have received and not stored are good, different from one another and from what is stored or being used (`ReceivedInv`), since tokens are issued in order (`IssuedInv`); every refresh under way when the account was disconnected counts as late (`LateInv`) |
| `AnswersAreTrue` | `AdapterInv`: at each step a call's job is of its key and platform, and one that was seen to be gone stays gone, since posts are never unmade and never come back |
| `EffectsAreGranted` | `ActorInv`: at each step a call may still lack only what the checks before it have not covered (`MayMiss`), and what a process was started with was true then (`ProcessInv`) |
| `NoWindowIsOverspent` | `LimiterInv`: the row's count is at least what its window has granted, and later windows have granted nothing |
| `ReadyHasItem` | `InboxInv`: a submission that a call owns is PROCESSING, or READY if the call did not hear of its success, and has one owner; items are never deleted, and whoever is about to write READY has seen its item |
| `OnlyPublicIsContacted` | `FetchInv`: the address in hand was checked after the last redirect; requests sent and redirects left add up |
| `DashboardIsComplete` | `DashboardInv`: every row there was at the start is either seen or after the cursor, and the rows shown include what had been reported of them; the last row of a page exists because the rows after it are the fewest (`LastRow`), and one row is newest of each publication (`LatestOfEach`) |
| `DeliveriesAreTrue` | `HookInv`: the step of a delivery determines its row and whether its receiver has answered |
| `DerivedFromReady`, `FailedLeavesNothing` | those of `MediaStoreProofs`, for the instance `MCServices` has of `MediaStore` |
| `StoryboardsAreNumbered` | `PlanInv`: a call's latest version is not above the number stored, and the version it inserts is unused, so it is the next; of what was found, some recipe of the call's time accepts the beats (`Offered`) |
| `VerdictIsCounted` | `TrialInv`: a finisher's verdict is what it found of the results, but for what was written behind it (`VerdictOf`); as many results as cases, of listed cases or of other suites', leave as many cases without one as there are foreign ones among them at the most (`Counted`, with the library's `FS_Difference` and `FS_Subset`) |

Model-checked only: `ClaimSettles`, `QueuedIsDispatched`, `LostJobIsRecovered`,
`RunningSettles` and `ProcessingEnds`, since liveness under fairness is out of the prover's
reach, and the refutations. Of the first and the last two the safety half is proved: while
something is pending somebody is at work on it. That this somebody takes its steps is
fairness, and TLC's. Every invariant and every action property of a passing run is a
theorem.

## Divergences without a run

Met while modelling, kept here because a run each would say little more:

- One mutation for concurrent duplicates (plan, PR 13.5, line 499): two calls with one key
  both retry a FAILED attempt, one after the other.
- The provider job is kept (W3.5, line 787): `markOutcomeUnknown` has none to write when the
  first save failed.
- PUBLISHING is never terminal (line 775): an account disconnected after the claim leaves it so.
- The due sweep (line 492) lists the same first publications again when they cannot be claimed.
- SUCCEEDED is final (`docs/WORKFLOWS.md:4`): a second delivery writes RUNNING over it.
- A RUNNING run whose worker died is not listed by reconciliation (W4.4, line 740).
- No dead ends (INV-07, lines 305-314): a death leaves an execution PENDING or RUNNING for
  ever; a project that is RESEARCHING without an execution gets one that nobody runs.
- Unsupported findings are returned *before* the project leaves FACT_CHECK (W8.8, lines
  606-607): it enters FACT_CHECK before the claims exist, and a review can follow at once.
- Approval is the editor's (W9.3, lines 620-622): the generic transition accepts
  REVIEW -> APPROVED with `content:write`.
- READY with an active production: `content.ts:73-81` looks first and updates later.
- "Any failed section gives FAILED" (`docs/WORKFLOWS.md:9-11`): `evaluateQc` gives PASSED
  for a section that failed and lists no issue.
- A production that was restarted after FAILED cannot render again: `RenderJob` is unique by
  operation and attempt, and the attempt is always 1.
- Start-up reconciliation "re-enqueues durable intents" (`queue-reconciliation.ts:9`): line
  14 sends every QUEUED run to the queue `workflow.run`, while `publication.dispatch` is
  registered on its own queue only (`bootstrap.ts:42-70`). A dispatch run whose job was lost
  is marked FAILED with UNSUPPORTED_WORKFLOW_TYPE and its publication stays QUEUED until
  the sweep comes by.
- "A durable READY output asset is required" (`transcription.ts:42`): a READY row may have
  lost its object to the clean-up of another upload of the same bytes (`media.ts:152`).
- Disconnecting removes the credential (plan, line 488): a refresh that was at work creates
  it again and marks the account CONNECTED.
- "Every business operation still resolves the authenticated actor in core"
  (`apps/mcp/src/handlers.ts:55`): `create_content_project` (lines 115-126) acts with the
  permissions its process was started with. A key with the scope ADMIN alone starts a
  process that may then read no brand.
- "Approved script" (`storyboard-generation.ts:60`): any version of an approved project is
  accepted, and `create()` checks neither.
- A document or submission whose process died stays PROCESSING, and every later call is
  refused as in progress (`knowledge-ingestion.ts:147`, `research.ts:86`).
- "Every evaluation case requires a result." (`evaluations.ts:68`): results are counted
  (line 67), not matched with cases. `recordResult` (lines 51-62) takes any case id, and
  `EvaluationResult` (`schema.prisma:1215-1230`) does not tie its case to the suite of its
  run: a suite of one case can be PASSED on one result of another suite's case. Of the suite's
  own cases only the first fifty are counted, so fifty results of a suite of fifty-one are a
  verdict and fifty-one never are. A result can also be written after the verdict (lines 59-61).

## Plan

Done: publishing, workflow runs, content and editorial, video production, and the services,
with a theorem for every invariant and action property that the runs check, and for the
safety half of three of the five liveness properties.
What is left:

1. The safety half of the two liveness properties that have none, `QueuedIsDispatched` and
   `LostJobIsRecovered`: that a QUEUED run the sweep has met has a job or an owner.
2. A refinement of the services that have a simple promise, the rate limiter and the
   storyboards, by an abstract specification of a line or two each.
3. `ContentProject` composed with `VideoProduction` (READY against an active production) and
   `evaluateQc` against a reference definition, should runs be traded for them.

## Not modelled

Rendering, HTTP, prompts and texts, token encryption, configuration,
observability, audit rows and cost accounting: they do not change the state the properties
speak of. Tenant scoping is one `where` clause per statement; every model is of a single
tenant, and `Access` has how its actor is found. Of captions, the formatting, the burn-in
and `evaluateQc` are left out, and `createTranscript` of the captions service, which only
tests call. `analyze` and `createInsight` store what a model wrote. Queries of one statement
(workspaces, calendar, context) have no state of their own.

`createKey` and `revoke` of API keys, `grantBrandAccess`, `createCredential`, the outbound
webhooks, the storyboard and the evaluation services have no caller in production; they are modelled as
their exported functions allow.
