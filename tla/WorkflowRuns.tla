----------------------------- MODULE WorkflowRuns -----------------------------
(***************************************************************************)
(* Durable workflow runs, the pg-boss jobs that carry them, and the worker *)
(* (processWorkflowRun): who creates a run, who sends its job, what a      *)
(* handler does, and what happens when a process dies between two steps.   *)
(*                                                                         *)
(* Runs are of four types: n8n.* (hooks: enqueued by a request, no handler *)
(* exists for them), system.health, analytics.collect (persisted with a    *)
(* due time and no job) and publication.dispatch (enqueued by the sweep    *)
(* for due publications).  The publication of a dispatch run is reduced to *)
(* its status, its schedule and whether lastAttemptId is set; Publishing   *)
(* has the details.                                                        *)
(***************************************************************************)
EXTENDS Naturals, FiniteSets

CONSTANTS
  HookRuns, HealthRuns, CollectionRuns, DispatchRuns, \* the runs of each type
  Jobs, NoRun, \* slots for jobs of the broker; what a free slot carries
  RetryLimit,  \* retries the broker gives a job
  BatchSize,   \* publications a sweep lists
  MaxTime,     \* bound on the clock
  MaxFaults    \* bound on deaths of a process

Requested == HookRuns \cup HealthRuns
Generic   == Requested \cup CollectionRuns
Runs      == Generic \cup DispatchRuns

ASSUME WorkflowAssumption ==
  /\ HookRuns \cap HealthRuns = {}
  /\ Requested \cap CollectionRuns = {}
  /\ Generic \cap DispatchRuns = {}
  /\ RetryLimit \in Nat /\ BatchSize \in Nat \ {0}
  /\ MaxTime \in Nat /\ MaxFaults \in Nat

VARIABLES
  run,     \* WorkflowRun.status
  at,      \* WorkflowRun.scheduledFor, or Publication.scheduledAt of a dispatch
  now,     \* the clock
  pub,     \* Publication.status of a dispatch
  last,    \* is Publication.lastAttemptId set?
  swept,   \* publications a sweep has listed and not yet enqueued
  outbox,  \* <<queue, run>> that a live process is about to send
  job,     \* jobs of the broker: queue, run and retries used
  pc,      \* what happens next to a job
  handled, \* runs of which a handler has returned (history)
  faults   \* deaths so far

publications == <<pub, last>>
sending == <<swept, outbox>>
jobs == <<job, pc>>
vars == <<run, at, now, pub, last, swept, outbox, job, pc, handled, faults>>

Queues    == {"workflow.run", "publication.dispatch"}
RunStatus == {"NONE", "QUEUED", "RUNNING", "SUCCEEDED", "FAILED"}
PubStatus == {"QUEUED", "PUBLISHING", "PUBLISHED", "FAILED", "OUTCOME_UNKNOWN", "CANCELLED"}
Job       == [queue : Queues, run : Runs, tries : 0..RetryLimit]
NoJob     == [queue |-> "none", run |-> NoRun, tries |-> 0]
Working   == {"refuse", "handle", "claim", "publish", "succeed", "fail"}
Labels    == {"free", "waiting", "thrown"} \cup Working

TypeOK ==
  /\ run \in [Runs -> RunStatus]
  /\ at \in [Runs -> Nat]
  /\ now \in Nat
  /\ pub \in [DispatchRuns -> PubStatus]
  /\ last \in [DispatchRuns -> BOOLEAN]
  /\ swept \subseteq DispatchRuns
  /\ outbox \subseteq Queues \X Runs
  /\ pc \in [Jobs -> Labels]
  /\ job \in [Jobs -> Job \cup {NoJob}]
  /\ \A j \in Jobs : pc[j] # "free" => job[j] \in Job
  /\ handled \subseteq Runs
  /\ faults \in Nat

\* Publications are queued with a schedule; no run exists yet.
Init ==
  /\ run = [r \in Runs |-> "NONE"]
  /\ at \in {f \in [Runs -> 0..MaxTime] : \A r \in Requested : f[r] = 0}
  /\ now = 0
  /\ pub = [r \in DispatchRuns |-> "QUEUED"]
  /\ last = [r \in DispatchRuns |-> FALSE]
  /\ swept = {} /\ outbox = {}
  /\ job = [j \in Jobs |-> NoJob]
  /\ pc = [j \in Jobs |-> "free"]
  /\ handled = {}
  /\ faults = 0

-----------------------------------------------------------------------------
(* Helpers.                                                                *)

Due(r) == at[r] <= now

\* upsert by (organization, idempotency key) with an empty update.
createOrGet(r) ==
  run' = IF run[r] = "NONE" THEN [run EXCEPT ![r] = "QUEUED"] ELSE run

\* The handlers registered on a queue.
Registered(q) ==
  IF q = "workflow.run" THEN HealthRuns \cup CollectionRuns ELSE DispatchRuns

At(j, label) == pc[j] = label
Goto(j, label) == pc' = [pc EXCEPT ![j] = label] /\ UNCHANGED job
Done(j) == pc' = [pc EXCEPT ![j] = "free"] /\ job' = [job EXCEPT ![j] = NoJob]

\* Statuses are written whatever they were.
transition(r, status) == run' = [run EXCEPT ![r] = status]

-----------------------------------------------------------------------------
(* Creating runs and sending jobs.                                         *)

\* enqueueWorkflowRun: the row, then the job.
Enqueue(r) ==
  /\ createOrGet(r)
  /\ outbox' = outbox \cup {<<"workflow.run", r>>}
  /\ UNCHANGED <<at, now, publications, swept, jobs, handled, faults>>

\* schedulePublication of the analytics scheduler: the row only.
ScheduleCollection(r) ==
  /\ createOrGet(r)
  /\ UNCHANGED <<at, now, publications, sending, jobs, handled, faults>>

\* listDueQueuedPublications: the BatchSize earliest, requeued ones included.
DueQueued == {r \in DispatchRuns : pub[r] = "QUEUED" /\ Due(r)}

Listed(S) ==
  /\ S \subseteq DueQueued
  /\ Cardinality(S) <= BatchSize
  /\ S # DueQueued => Cardinality(S) = BatchSize
  /\ \A r \in S, q \in DueQueued \ S : at[r] <= at[q]

Sweep ==
  /\ swept = {}
  /\ swept' \in {S \in SUBSET DueQueued : Listed(S)}
  /\ UNCHANGED <<run, at, now, publications, outbox, jobs, handled, faults>>

\* For each of them the run is created or found, then its job is sent.
EnqueueDispatch(r) ==
  /\ r \in swept
  /\ createOrGet(r)
  /\ swept' = swept \ {r}
  /\ outbox' = outbox \cup {<<"publication.dispatch", r>>}
  /\ UNCHANGED <<at, now, publications, jobs, handled, faults>>

\* queue.send: a broker job; the singleton key does not merge jobs.
Send(q, r, j) ==
  /\ <<q, r>> \in outbox
  /\ At(j, "free")
  /\ outbox' = outbox \ {<<q, r>>}
  /\ job' = [job EXCEPT ![j] = [queue |-> q, run |-> r, tries |-> 0]]
  /\ pc' = [pc EXCEPT ![j] = "waiting"]
  /\ UNCHANGED <<run, at, now, publications, swept, handled, faults>>

\* Slip: only runs without a scheduledFor are listed.
StartWorkerUnscheduled ==
  /\ outbox' = outbox \cup {<<"workflow.run", r>> :
       r \in {s \in Runs : run[s] = "QUEUED" /\ s \notin CollectionRuns}}
  /\ UNCHANGED <<run, at, now, publications, swept, jobs, handled, faults>>

\* Slip: the query for queued runs forgets scheduledFor.
StartWorkerEager ==
  /\ outbox' = outbox \cup {<<"workflow.run", r>> : r \in {s \in Runs : run[s] = "QUEUED"}}
  /\ UNCHANGED <<run, at, now, publications, swept, jobs, handled, faults>>

\* A worker starts and reconciles: every queued run that is due is sent again,
\* whatever its type, to the queue of generic runs.  A dispatch run has no
\* scheduledFor.
StartWorker ==
  /\ outbox' = outbox \cup {<<"workflow.run", r>> :
       r \in {s \in Runs : run[s] = "QUEUED" /\ (s \in CollectionRuns => Due(s))}}
  /\ UNCHANGED <<run, at, now, publications, swept, jobs, handled, faults>>

\* The process that was enqueueing dies between two statements.
Interrupt ==
  /\ faults < MaxFaults
  /\ sending # <<{}, {}>>
  /\ swept' = {} /\ outbox' = {}
  /\ faults' = faults + 1
  /\ UNCHANGED <<run, at, now, publications, jobs, handled>>

-----------------------------------------------------------------------------
(* processWorkflowRun.                                                     *)

\* Slip: a run that has succeeded is not run again.
StartOnce(j) ==
  LET r == job[j].run IN
  /\ At(j, "waiting")
  /\ \/ /\ run[r] # "SUCCEEDED"
        /\ transition(r, "RUNNING")
        /\ Goto(j, IF r \in Registered(job[j].queue) THEN "handle" ELSE "refuse")
     \/ run[r] = "SUCCEEDED" /\ Done(j) /\ UNCHANGED run
  /\ UNCHANGED <<at, now, publications, sending, handled, faults>>

\* The job is fetched, its handler looked up, the run marked RUNNING.
Start(j) ==
  LET r == job[j].run IN
  /\ At(j, "waiting")
  /\ transition(r, "RUNNING")
  /\ Goto(j, IF r \in Registered(job[j].queue) THEN "handle" ELSE "refuse")
  /\ UNCHANGED <<at, now, publications, sending, handled, faults>>

\* Slip: what has no handler counts as done.
RefuseQuietly(j) ==
  /\ At(j, "refuse")
  /\ transition(job[j].run, "SUCCEEDED")
  /\ Done(j)
  /\ UNCHANGED <<at, now, publications, sending, handled, faults>>

\* No handler is registered: FAILED with UNSUPPORTED_WORKFLOW_TYPE, and a throw.
Refuse(j) ==
  /\ At(j, "refuse")
  /\ transition(job[j].run, "FAILED")
  /\ Goto(j, "thrown")
  /\ UNCHANGED <<at, now, publications, sending, handled, faults>>

\* The handler of a run returns.
Returned(r) == handled' = handled \cup {r}

HandleHealth(j) ==
  /\ At(j, "handle") /\ job[j].run \in HealthRuns
  /\ Returned(job[j].run)
  /\ Goto(j, "succeed")
  /\ UNCHANGED <<run, at, now, publications, sending, faults>>

\* A collection that is early is refused; one that is due may fail at the provider.
HandleCollection(j) ==
  LET r == job[j].run IN
  /\ At(j, "handle") /\ r \in CollectionRuns
  /\ \/ Due(r) /\ Returned(r) /\ Goto(j, "succeed")
     \/ Goto(j, "fail") /\ UNCHANGED handled
  /\ UNCHANGED <<run, at, now, publications, sending, faults>>

\* dispatch(): a publication that is not queued is skipped, which is a success.
HandleDispatch(j) ==
  LET r == job[j].run IN
  /\ At(j, "handle") /\ r \in DispatchRuns
  /\ \/ pub[r] = "QUEUED" /\ Goto(j, "claim") /\ UNCHANGED handled
     \/ pub[r] # "QUEUED" /\ Returned(r) /\ Goto(j, "succeed")
  /\ UNCHANGED <<run, at, now, publications, sending, faults>>

Claim(j) ==
  LET r == job[j].run IN
  /\ At(j, "claim")
  /\ \/ /\ pub[r] = "QUEUED" /\ Due(r) /\ ~last[r]
        /\ pub' = [pub EXCEPT ![r] = "PUBLISHING"]
        /\ Goto(j, "publish")
        /\ UNCHANGED handled
     \/ /\ ~(pub[r] = "QUEUED" /\ Due(r) /\ ~last[r])
        /\ Returned(r)
        /\ Goto(j, "succeed")
        /\ UNCHANGED pub
  /\ UNCHANGED <<run, at, now, last, sending, faults>>

\* publishFromWorker, in one step (Publishing has its steps): it publishes what is
\* PUBLISHING, or QUEUED again, unless it gives up before the attempt.  Whatever
\* does not end PUBLISHED throws.
Publish(j) ==
  LET r == job[j].run IN
  /\ At(j, "publish")
  /\ \/ /\ pub[r] \in {"PUBLISHING", "QUEUED"}
        /\ \E s \in {"PUBLISHED", "FAILED", "OUTCOME_UNKNOWN"} : pub' = [pub EXCEPT ![r] = s]
        /\ last' = [last EXCEPT ![r] = TRUE]
     \/ /\ pub' = [pub EXCEPT ![r] = IF @ = "QUEUED" THEN "PUBLISHING" ELSE @]
        /\ UNCHANGED last
  /\ IF pub'[r] = "PUBLISHED" THEN Returned(r) /\ Goto(j, "succeed")
     ELSE Goto(j, "fail") /\ UNCHANGED handled
  /\ UNCHANGED <<run, at, now, sending, faults>>

\* An error in marking the success is caught like one of the handler.
MarkSucceeded(j) ==
  /\ At(j, "succeed")
  /\ \/ transition(job[j].run, "SUCCEEDED") /\ Done(j) /\ UNCHANGED faults
     \/ /\ faults < MaxFaults
        /\ faults' = faults + 1
        /\ Goto(j, "fail")
        /\ UNCHANGED run
  /\ UNCHANGED <<at, now, publications, sending, handled>>

MarkFailed(j) ==
  /\ At(j, "fail")
  /\ transition(job[j].run, "FAILED")
  /\ Goto(j, "thrown")
  /\ UNCHANGED <<at, now, publications, sending, handled, faults>>

\* Slip: the limit is compared with <=.
RetryOnceMore(j) ==
  /\ At(j, "thrown")
  /\ \/ /\ job[j].tries <= RetryLimit
        /\ job' = [job EXCEPT ![j].tries = @ + 1]
        /\ pc' = [pc EXCEPT ![j] = "waiting"]
     \/ job[j].tries > RetryLimit /\ Done(j)
  /\ UNCHANGED <<run, at, now, publications, sending, handled, faults>>

\* A job whose handler threw, or whose worker died, is retried up to the limit.
Retry(j) ==
  /\ At(j, "thrown")
  /\ \/ /\ job[j].tries < RetryLimit
        /\ job' = [job EXCEPT ![j].tries = @ + 1]
        /\ pc' = [pc EXCEPT ![j] = "waiting"]
     \/ job[j].tries = RetryLimit /\ Done(j)
  /\ UNCHANGED <<run, at, now, publications, sending, handled, faults>>

\* The worker dies with the job in its hands.
Die(j) ==
  /\ faults < MaxFaults
  /\ pc[j] \in Working \cup {"waiting"}
  /\ faults' = faults + 1
  /\ Goto(j, "thrown")
  /\ UNCHANGED <<run, at, now, publications, sending, handled>>

-----------------------------------------------------------------------------
(* The publications and the clock.                                         *)

\* rescheduling and cancelling, before a dispatch.
Reschedule(r) ==
  /\ pub[r] = "QUEUED" /\ ~last[r]
  /\ at' \in {[at EXCEPT ![r] = t] : t \in (now + 1)..MaxTime}
  /\ UNCHANGED <<run, now, publications, sending, jobs, handled, faults>>

Cancel(r) ==
  /\ pub[r] = "QUEUED" /\ ~last[r]
  /\ pub' = [pub EXCEPT ![r] = "CANCELLED"]
  /\ UNCHANGED <<run, at, now, last, sending, jobs, handled, faults>>

\* investigate(): an uncertain publication is found published, or requeued.
Investigate(r) ==
  /\ pub[r] \in {"OUTCOME_UNKNOWN", "PUBLISHING"}
  /\ \E s \in {"PUBLISHED", "QUEUED"} : pub' = [pub EXCEPT ![r] = s]
  /\ UNCHANGED <<run, at, now, last, sending, jobs, handled, faults>>

Tick ==
  /\ now < MaxTime
  /\ now' = now + 1
  /\ UNCHANGED <<run, at, publications, sending, jobs, handled, faults>>

Work(j) ==
  \/ Start(j) \/ Refuse(j)
  \/ HandleHealth(j) \/ HandleCollection(j) \/ HandleDispatch(j) \/ Claim(j) \/ Publish(j)
  \/ MarkSucceeded(j) \/ MarkFailed(j) \/ Retry(j)

Deliver(q, r) == \E j \in Jobs : Send(q, r, j)

Next ==
  \/ \E r \in Requested : Enqueue(r)
  \/ \E r \in CollectionRuns : ScheduleCollection(r)
  \/ Sweep \/ StartWorker \/ Interrupt \/ Tick
  \/ \E r \in DispatchRuns :
       EnqueueDispatch(r) \/ Reschedule(r) \/ Cancel(r) \/ Investigate(r)
  \/ \E q \in Queues, r \in Runs : Deliver(q, r)
  \/ \E j \in Jobs : Work(j) \/ Die(j)

Spec == Init /\ [][Next]_vars

(***************************************************************************)
(* Time passes, a process that began to enqueue goes on until it dies, the *)
(* broker delivers and the worker works.                                   *)
(***************************************************************************)
FairSpec ==
  /\ Spec
  /\ WF_vars(Tick)
  /\ \A r \in DispatchRuns : WF_vars(EnqueueDispatch(r))
  /\ \A q \in Queues, r \in Runs : SF_vars(Deliver(q, r))
  /\ \A j \in Jobs : WF_vars(Work(j))

\* The sweep is called again and again, and workers are restarted now and then.
LiveSpec == FairSpec /\ WF_vars(Sweep) /\ WF_vars(StartWorker)

-----------------------------------------------------------------------------
(* Properties.                                                             *)

\* W4.1: a run is SUCCEEDED only if a handler of its type has returned; being
\* taken from a queue, by whichever worker and however often, is not enough.
SucceededWasHandled == \A r \in Runs : run[r] = "SUCCEEDED" => r \in handled

\* A collection is not spoilt by being delivered before it is due: FAILED, which
\* nothing re-queues, is reached by a due collection only.
EarlyCollectionNeverFails ==
  \A r \in CollectionRuns : run[r] \in {"RUNNING", "FAILED"} => Due(r)

\* A queued publication that no attempt has touched leaves QUEUED: whatever is
\* rescheduled, whichever sender or worker dies, the sweep and the one run per
\* publication bring it to its claim.
QueuedIsDispatched ==
  \A r \in DispatchRuns : (pub[r] = "QUEUED" /\ ~last[r]) ~> pub[r] # "QUEUED"

\* W4.4: a run whose job was never sent, or that waits for its due time, is
\* started by a worker after a restart.
LostJobIsRecovered ==
  \A r \in Generic : run[r] = "QUEUED" ~> run[r] # "QUEUED"
=============================================================================
