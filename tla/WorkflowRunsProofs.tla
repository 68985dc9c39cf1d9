-------------------------- MODULE WorkflowRunsProofs --------------------------
(***************************************************************************)
(* Theorems about WorkflowRuns, for every set of runs and job slots, every *)
(* retry limit and batch size, and any number of faults.                   *)
(***************************************************************************)
EXTENDS WorkflowRuns, TLAPS

-----------------------------------------------------------------------------
(* Type correctness.                                                       *)

LEMMA RunSets ==
  /\ Requested \subseteq Runs /\ Generic \subseteq Runs /\ CollectionRuns \subseteq Generic
  /\ HealthRuns \subseteq Requested /\ DispatchRuns \subseteq Runs
  /\ CollectionRuns \cap DispatchRuns = {} /\ CollectionRuns \cap Requested = {}
BY WorkflowAssumption DEF Runs, Generic, Requested

\* A job that goes on keeps what it carries, and one that is done carries nothing.
LEMMA JobType ==
  ASSUME TypeOK, NEW j \in Jobs, pc[j] # "free",
         Done(j) \/ (\E l \in Labels \ {"free"} : Goto(j, l))
  PROVE  /\ pc' \in [Jobs -> Labels]
         /\ job' \in [Jobs -> Job \cup {NoJob}]
         /\ \A i \in Jobs : pc'[i] # "free" => job'[i] \in Job
<1>1. CASE Done(j)
  <2>1. "free" \in Labels BY DEF Labels
  <2> QED BY <1>1, <2>1 DEF TypeOK, Done
<1>2. CASE \E l \in Labels \ {"free"} : Goto(j, l)
  BY <1>2 DEF TypeOK, Goto
<1> QED BY <1>1, <1>2

\* A job in hand carries a run.
LEMMA Carried ==
  ASSUME TypeOK, NEW j \in Jobs, pc[j] # "free"
  PROVE  job[j].run \in Runs /\ job[j].queue \in Queues /\ job[j].tries \in 0..RetryLimit
BY DEF TypeOK, Job

\* A run that is created or found, or marked, keeps its type.
LEMMA RunType ==
  ASSUME TypeOK, NEW r \in Runs,
         createOrGet(r) \/ (\E s \in RunStatus : transition(r, s))
  PROVE  run' \in [Runs -> RunStatus]
<1>1. "QUEUED" \in RunStatus BY DEF RunStatus
<1> QED BY <1>1 DEF TypeOK, createOrGet, transition

LEMMA LabelSets ==
  /\ Working \subseteq Labels \ {"free"} /\ {"waiting", "thrown"} \subseteq Labels \ {"free"}
  /\ {"RUNNING", "SUCCEEDED", "FAILED"} \subseteq RunStatus
  /\ {"QUEUED", "PUBLISHING", "PUBLISHED", "FAILED", "OUTCOME_UNKNOWN", "CANCELLED"} = PubStatus
BY DEF Labels, Working, RunStatus, PubStatus

LEMMA TypeInit == Init => TypeOK
<1> SUFFICES ASSUME Init PROVE TypeOK
  OBVIOUS
<1>1. /\ "NONE" \in RunStatus /\ "QUEUED" \in PubStatus
      /\ "free" \in Labels
  BY DEF RunStatus, PubStatus, Labels
<1>2. at \in [Runs -> Nat] BY WorkflowAssumption DEF Init
<1> QED BY <1>1, <1>2 DEF Init, TypeOK

LEMMA TypeNext == TypeOK /\ [Next]_vars => TypeOK'
<1> SUFFICES ASSUME TypeOK, [Next]_vars PROVE TypeOK'
  OBVIOUS
<1> USE DEF publications, sending, jobs
<1>1. ASSUME NEW r \in Requested, Enqueue(r) PROVE TypeOK'
  <2>1. r \in Runs /\ <<"workflow.run", r>> \in Queues \X Runs BY RunSets DEF Queues
  <2> QED BY <1>1, <2>1, RunType DEF Enqueue, TypeOK
<1>2. ASSUME NEW r \in CollectionRuns, ScheduleCollection(r) PROVE TypeOK'
  <2>1. r \in Runs BY RunSets
  <2> QED BY <1>2, <2>1, RunType DEF ScheduleCollection, TypeOK
<1>3. ASSUME Sweep PROVE TypeOK'
  BY <1>3 DEF Sweep, Listed, DueQueued, TypeOK
<1>4. ASSUME StartWorker PROVE TypeOK'
  <2>1. outbox' \subseteq Queues \X Runs BY <1>4 DEF StartWorker, TypeOK, Queues
  <2> QED BY <1>4, <2>1 DEF StartWorker, TypeOK
<1>5. ASSUME Interrupt PROVE TypeOK'
  BY <1>5 DEF Interrupt, TypeOK
<1>6. ASSUME Tick PROVE TypeOK'
  BY <1>6 DEF Tick, TypeOK
<1>7. ASSUME NEW r \in DispatchRuns, EnqueueDispatch(r) PROVE TypeOK'
  <2>1. r \in Runs /\ <<"publication.dispatch", r>> \in Queues \X Runs BY RunSets DEF Queues
  <2> QED BY <1>7, <2>1, RunType DEF EnqueueDispatch, TypeOK
<1>8. ASSUME NEW r \in DispatchRuns, Reschedule(r) PROVE TypeOK'
  <2>1. \A t \in (now + 1)..MaxTime : t \in Nat BY WorkflowAssumption DEF TypeOK
  <2>2. at' \in [Runs -> Nat] BY <1>8, <2>1 DEF Reschedule, TypeOK
  <2> QED BY <1>8, <2>2 DEF Reschedule, TypeOK
<1>9. ASSUME NEW r \in DispatchRuns, Cancel(r) PROVE TypeOK'
  BY <1>9, LabelSets DEF Cancel, TypeOK
<1>10. ASSUME NEW r \in DispatchRuns, Investigate(r) PROVE TypeOK'
  BY <1>10, LabelSets DEF Investigate, TypeOK
<1>11. ASSUME NEW q \in Queues, NEW r \in Runs, NEW j \in Jobs, Send(q, r, j) PROVE TypeOK'
  <2>1. [queue |-> q, run |-> r, tries |-> 0] \in Job BY WorkflowAssumption DEF Job
  <2> QED BY <1>11, <2>1, LabelSets DEF Send, TypeOK
<1>12. ASSUME NEW j \in Jobs, Start(j) PROVE TypeOK'
  <2>1. pc[j] # "free" /\ \E l \in {"handle", "refuse"} : Goto(j, l)
    BY <1>12 DEF Start, At
  <2>2. {"handle", "refuse"} \subseteq Labels \ {"free"} BY DEF Labels, Working
  <2> QED BY <1>12, <2>1, <2>2, Carried, JobType, RunType, LabelSets DEF Start, TypeOK
<1>13. ASSUME NEW j \in Jobs, Refuse(j) \/ MarkFailed(j) PROVE TypeOK'
  <2>1. pc[j] # "free" /\ Goto(j, "thrown") /\ transition(job[j].run, "FAILED")
    BY <1>13 DEF Refuse, MarkFailed, At
  <2> QED BY <1>13, <2>1, Carried, JobType, RunType, LabelSets DEF Refuse, MarkFailed, TypeOK
<1>14. ASSUME NEW j \in Jobs, HandleHealth(j) \/ HandleCollection(j) \/ HandleDispatch(j)
       PROVE  TypeOK'
  <2>1. pc[j] # "free" /\ \E l \in {"succeed", "fail", "claim"} : Goto(j, l)
    BY <1>14 DEF HandleHealth, HandleCollection, HandleDispatch, At
  <2>2. {"succeed", "fail", "claim"} \subseteq Labels \ {"free"} BY DEF Labels, Working
  <2>3. handled' \subseteq Runs
    BY <1>14, <2>1, Carried DEF HandleHealth, HandleCollection, HandleDispatch, Returned, TypeOK
  <2> QED BY <1>14, <2>1, <2>2, <2>3, JobType
          DEF HandleHealth, HandleCollection, HandleDispatch, TypeOK
<1>15. ASSUME NEW j \in Jobs, Claim(j) \/ Publish(j) PROVE TypeOK'
  <2>1. pc[j] # "free" /\ \E l \in {"succeed", "fail", "publish"} : Goto(j, l)
    BY <1>15 DEF Claim, Publish, At
  <2>2. {"succeed", "fail", "publish"} \subseteq Labels \ {"free"} BY DEF Labels, Working
  <2>3. handled' \subseteq Runs
    BY <1>15, <2>1, Carried DEF Claim, Publish, Returned, TypeOK
  <2>4. pub' \in [DispatchRuns -> PubStatus] /\ last' \in [DispatchRuns -> BOOLEAN]
    BY <1>15, LabelSets DEF Claim, Publish, TypeOK
  <2> QED BY <1>15, <2>1, <2>2, <2>3, <2>4, JobType DEF Claim, Publish, TypeOK
<1>16. ASSUME NEW j \in Jobs, MarkSucceeded(j) PROVE TypeOK'
  <2>1. pc[j] # "free" /\ (Done(j) \/ Goto(j, "fail"))
    BY <1>16 DEF MarkSucceeded, At
  <2>2. "fail" \in Labels \ {"free"} BY DEF Labels, Working
  <2>3. run' \in [Runs -> RunStatus]
    BY <1>16, <2>1, Carried, RunType, LabelSets DEF MarkSucceeded, TypeOK
  <2>4. faults' \in Nat BY <1>16 DEF MarkSucceeded, TypeOK
  <2> QED BY <1>16, <2>1, <2>2, <2>3, <2>4, JobType DEF MarkSucceeded, TypeOK
<1>17. ASSUME NEW j \in Jobs, Retry(j) PROVE TypeOK'
  <2>1. CASE job[j].tries < RetryLimit
    <3>1. [job[j] EXCEPT !.tries = @ + 1] \in Job
      BY <1>17, <2>1, WorkflowAssumption DEF Retry, At, TypeOK, Job
    <3> QED BY <1>17, <2>1, <3>1, LabelSets, WorkflowAssumption DEF Retry, At, TypeOK
  <2>2. CASE ~(job[j].tries < RetryLimit)
    BY <1>17, <2>2, JobType DEF Retry, At, TypeOK
  <2> QED BY <2>1, <2>2
<1>18. ASSUME NEW j \in Jobs, Die(j) PROVE TypeOK'
  <2>1. pc[j] # "free" BY <1>18, LabelSets DEF Die
  <2>2. faults' \in Nat BY <1>18 DEF Die, TypeOK
  <2> QED BY <1>18, <2>1, <2>2, JobType, LabelSets DEF Die, TypeOK
<1>19. CASE UNCHANGED vars
  BY <1>19 DEF vars, TypeOK
<1> QED
  BY <1>1, <1>2, <1>3, <1>4, <1>5, <1>6, <1>7, <1>8, <1>9, <1>10, <1>11, <1>12, <1>13,
     <1>14, <1>15, <1>16, <1>17, <1>18, <1>19 DEF Next, Work, Deliver

\* Every variable keeps its type, whatever dies or is sent twice.
THEOREM TypeCorrect == Spec => []TypeOK
BY TypeInit, TypeNext, PTL DEF Spec

-----------------------------------------------------------------------------
(* Success is never made up: what is about to be marked has been handled.  *)

HandledInv ==
  /\ SucceededWasHandled
  /\ \A j \in Jobs : pc[j] = "succeed" => job[j].run \in handled

\* Handled runs stay handled, so a step keeps HandledInv if it marks nothing as
\* succeeded and brings no job to that point.
LEMMA HandledQuiet ==
  ASSUME HandledInv, handled \subseteq handled',
         \A r \in Runs : run'[r] = "SUCCEEDED" => run[r] = "SUCCEEDED",
         \A j \in Jobs : pc'[j] = "succeed" => pc[j] = "succeed" /\ job'[j] = job[j]
  PROVE  HandledInv'
BY DEF HandledInv, SucceededWasHandled

\* What only marks a run, or leaves the runs alone.
LEMMA RunMarked ==
  ASSUME TypeOK, NEW r \in Runs, NEW s \in RunStatus, s # "SUCCEEDED",
         createOrGet(r) \/ transition(r, s)
  PROVE  \A q \in Runs : run'[q] = "SUCCEEDED" => run[q] = "SUCCEEDED"
BY DEF TypeOK, createOrGet, transition

\* Moving one job touches no other.
LEMMA JobMoved ==
  ASSUME TypeOK, NEW j \in Jobs, Done(j) \/ (\E l \in Labels \ {"succeed"} : Goto(j, l))
  PROVE  \A i \in Jobs : pc'[i] = "succeed" => pc[i] = "succeed" /\ job'[i] = job[i]
BY DEF TypeOK, Done, Goto

\* A handler that returns brings its job to the point where it succeeds.
LEMMA HandlerReturned ==
  ASSUME TypeOK, HandledInv, NEW j \in Jobs, job[j].run \in Runs,
         Returned(job[j].run), Goto(j, "succeed"), UNCHANGED run
  PROVE  HandledInv'
<1>1. handled \subseteq handled' /\ job[j].run \in handled' BY DEF Returned
<1>2. \A i \in Jobs : pc'[i] = "succeed" => pc[i] = "succeed" \/ i = j
  BY DEF TypeOK, Goto
<1> QED BY <1>1, <1>2 DEF HandledInv, SucceededWasHandled, Goto

LEMMA HandledInit == Init => HandledInv
BY DEF Init, HandledInv, SucceededWasHandled

LEMMA HandledNext == TypeOK /\ HandledInv /\ [Next]_vars => HandledInv'
<1> SUFFICES ASSUME TypeOK, HandledInv, [Next]_vars PROVE HandledInv'
  OBVIOUS
<1> USE DEF publications, sending, jobs
<1>1. ASSUME NEW r \in Requested \cup CollectionRuns, Enqueue(r) \/ ScheduleCollection(r)
      PROVE  HandledInv'
  <2>1. r \in Runs BY RunSets
  <2>2. "RUNNING" \in RunStatus BY DEF RunStatus
  <2> QED BY <1>1, <2>1, <2>2, RunMarked, HandledQuiet DEF Enqueue, ScheduleCollection
<1>2. ASSUME NEW r \in DispatchRuns, EnqueueDispatch(r) PROVE HandledInv'
  <2>1. r \in Runs BY RunSets
  <2>2. "RUNNING" \in RunStatus BY DEF RunStatus
  <2> QED BY <1>2, <2>1, <2>2, RunMarked, HandledQuiet DEF EnqueueDispatch
<1>3. ASSUME Sweep \/ StartWorker \/ Interrupt \/ Tick PROVE HandledInv'
  BY <1>3, HandledQuiet DEF Sweep, StartWorker, Interrupt, Tick
<1>4. ASSUME NEW r \in DispatchRuns, Reschedule(r) \/ Cancel(r) \/ Investigate(r)
      PROVE  HandledInv'
  BY <1>4, HandledQuiet DEF Reschedule, Cancel, Investigate
<1>5. ASSUME NEW q \in Queues, NEW r \in Runs, NEW j \in Jobs, Send(q, r, j) PROVE HandledInv'
  <2>1. \A i \in Jobs : pc'[i] = "succeed" => pc[i] = "succeed" /\ job'[i] = job[i]
    BY <1>5 DEF Send, TypeOK
  <2> QED BY <1>5, <2>1, HandledQuiet DEF Send
<1>6. ASSUME NEW j \in Jobs, Start(j) \/ Refuse(j) \/ MarkFailed(j) PROVE HandledInv'
  <2>1. \E l \in {"handle", "refuse", "thrown"} : Goto(j, l)
    BY <1>6 DEF Start, Refuse, MarkFailed
  <2>2. {"handle", "refuse", "thrown"} \subseteq Labels \ {"succeed"} BY DEF Labels, Working
  <2>3. \E s \in {"RUNNING", "FAILED"} : transition(job[j].run, s)
    BY <1>6 DEF Start, Refuse, MarkFailed
  <2>4. job[j].run \in Runs BY <1>6, Carried DEF Start, Refuse, MarkFailed, At
  <2> QED BY <1>6, <2>1, <2>2, <2>3, <2>4, LabelSets, RunMarked, JobMoved, HandledQuiet
          DEF Start, Refuse, MarkFailed
<1>7. ASSUME NEW j \in Jobs,
             HandleHealth(j) \/ HandleCollection(j) \/ HandleDispatch(j) \/ Claim(j) \/ Publish(j)
      PROVE  HandledInv'
  <2>1. job[j].run \in Runs /\ UNCHANGED run
    BY <1>7, Carried
       DEF HandleHealth, HandleCollection, HandleDispatch, Claim, Publish, At
  <2>2. \/ Returned(job[j].run) /\ Goto(j, "succeed")
        \/ UNCHANGED handled /\ \E l \in {"fail", "claim", "publish"} : Goto(j, l)
    BY <1>7 DEF HandleHealth, HandleCollection, HandleDispatch, Claim, Publish
  <2>3. {"fail", "claim", "publish"} \subseteq Labels \ {"succeed"} BY DEF Labels, Working
  <2> QED BY <2>1, <2>2, <2>3, HandlerReturned, JobMoved, HandledQuiet
<1>8. ASSUME NEW j \in Jobs, MarkSucceeded(j) PROVE HandledInv'
  <2>1. job[j].run \in handled /\ UNCHANGED handled
    BY <1>8 DEF MarkSucceeded, At, HandledInv
  <2>2. \A i \in Jobs : pc'[i] = "succeed" => pc[i] = "succeed" /\ job'[i] = job[i]
    <3>1. Done(j) \/ Goto(j, "fail") BY <1>8 DEF MarkSucceeded
    <3>2. "fail" \in Labels \ {"succeed"} BY DEF Labels, Working
    <3> QED BY <3>1, <3>2, JobMoved
  <2>3. \A r \in Runs : run'[r] = "SUCCEEDED" => run[r] = "SUCCEEDED" \/ r = job[j].run
    BY <1>8 DEF MarkSucceeded, transition, TypeOK
  <2> QED BY <2>1, <2>2, <2>3 DEF HandledInv, SucceededWasHandled
<1>9. ASSUME NEW j \in Jobs, Retry(j) \/ Die(j) PROVE HandledInv'
  <2>1. \A i \in Jobs : pc'[i] = "succeed" => pc[i] = "succeed" /\ job'[i] = job[i]
    BY <1>9 DEF Retry, Die, Done, Goto, TypeOK, At
  <2> QED BY <1>9, <2>1, HandledQuiet DEF Retry, Die
<1>10. CASE UNCHANGED vars
  BY <1>10, HandledQuiet DEF vars
<1> QED
  BY <1>1, <1>2, <1>3, <1>4, <1>5, <1>6, <1>7, <1>8, <1>9, <1>10 DEF Next, Work, Deliver

\* A SUCCEEDED run was handled, however often it was delivered and retried.
THEOREM SucceededWasHandledAlways == Spec => []SucceededWasHandled
<1>1. HandledInv => SucceededWasHandled BY DEF HandledInv
<1> QED BY <1>1, TypeInit, TypeNext, HandledInit, HandledNext, PTL DEF Spec

-----------------------------------------------------------------------------
(* A run that is RUNNING is run, or a worker has died.                     *)

Held(r) == \E j \in Jobs : pc[j] \in Working /\ job[j].run = r
RunningIsHeld == \A r \in Runs : run[r] = "RUNNING" /\ faults = 0 => Held(r)

\* A job at work goes on, or its run is marked, and no other job is touched.
LEMMA HeldByOne ==
  ASSUME TypeOK, RunningIsHeld, NEW j \in Jobs, pc[j] # "free", faults' = faults,
         \A i \in Jobs \ {j} : pc'[i] = pc[i] /\ job'[i] = job[i],
         \A r \in Runs \ {job[j].run} : run'[r] = run[r],
         \/ pc'[j] \in Working /\ job'[j] = job[j]
         \/ run'[job[j].run] # "RUNNING"
         \/ pc[j] \notin Working /\ UNCHANGED run
  PROVE  RunningIsHeld'
<1> SUFFICES ASSUME NEW r \in Runs, run'[r] = "RUNNING", faults = 0 PROVE Held(r)'
  BY DEF RunningIsHeld
<1>1. CASE r = job[j].run /\ pc'[j] \in Working /\ job'[j] = job[j]
  BY <1>1 DEF Held
<1>2. CASE ~(r = job[j].run /\ pc'[j] \in Working /\ job'[j] = job[j])
  <2>1. run[r] = "RUNNING" /\ (r # job[j].run \/ pc[j] \notin Working)
    BY <1>2
  <2>2. PICK i \in Jobs : pc[i] \in Working /\ job[i].run = r
    BY <2>1 DEF RunningIsHeld, Held
  <2>3. i # j
    BY <2>1, <2>2
  <2> QED BY <2>2, <2>3 DEF Held
<1> QED BY <1>1, <1>2

LEMMA HeldQuiet ==
  ASSUME RunningIsHeld, faults' = faults \/ (faults \in Nat /\ faults' = faults + 1),
         \A r \in Runs : run'[r] = "RUNNING" => run[r] = "RUNNING",
         faults' = faults =>
           \A j \in Jobs : pc[j] \in Working => pc'[j] = pc[j] /\ job'[j] = job[j]
  PROVE  RunningIsHeld'
<1> SUFFICES ASSUME NEW r \in Runs, run'[r] = "RUNNING", faults' = 0 PROVE Held(r)'
  BY DEF RunningIsHeld
<1>1. faults' = faults
  OBVIOUS
<1> QED BY <1>1 DEF RunningIsHeld, Held

LEMMA HeldNext == TypeOK /\ RunningIsHeld /\ [Next]_vars => RunningIsHeld'
<1> SUFFICES ASSUME TypeOK, RunningIsHeld, [Next]_vars PROVE RunningIsHeld'
  OBVIOUS
<1> USE DEF publications, sending, jobs
<1>n. faults \in Nat
  BY DEF TypeOK
<1>1. ASSUME NEW r \in Runs, createOrGet(r) PROVE \A q \in Runs : run'[q] = "RUNNING" => run[q] = "RUNNING"
  BY <1>1 DEF createOrGet, TypeOK
<1>2. ASSUME NEW r \in Requested \cup CollectionRuns, Enqueue(r) \/ ScheduleCollection(r)
      PROVE  RunningIsHeld'
  BY <1>2, <1>1, RunSets, HeldQuiet DEF Enqueue, ScheduleCollection
<1>3. ASSUME NEW r \in DispatchRuns, EnqueueDispatch(r) PROVE RunningIsHeld'
  BY <1>3, <1>1, RunSets, HeldQuiet DEF EnqueueDispatch
<1>4. ASSUME Sweep \/ StartWorker \/ Interrupt \/ Tick PROVE RunningIsHeld'
  BY <1>4, <1>n, HeldQuiet DEF Sweep, StartWorker, Interrupt, Tick
<1>5. ASSUME NEW r \in DispatchRuns, Reschedule(r) \/ Cancel(r) \/ Investigate(r)
      PROVE  RunningIsHeld'
  BY <1>5, HeldQuiet DEF Reschedule, Cancel, Investigate
<1>6. ASSUME NEW q \in Queues, NEW r \in Runs, NEW j \in Jobs, Send(q, r, j)
      PROVE  RunningIsHeld'
  <2>1. \A i \in Jobs : pc[i] \in Working => pc'[i] = pc[i] /\ job'[i] = job[i]
    BY <1>6 DEF Send, TypeOK, At, Working
  <2> QED BY <1>6, <2>1, HeldQuiet DEF Send
<1>7. ASSUME NEW j \in Jobs, Done(j) \/ (\E l \in Labels : Goto(j, l))
      PROVE  /\ \A i \in Jobs \ {j} : pc'[i] = pc[i] /\ job'[i] = job[i]
             /\ \A l \in Labels : Goto(j, l) => pc'[j] = l /\ job'[j] = job[j]
  BY <1>7 DEF Done, Goto, TypeOK
<1>8. ASSUME NEW j \in Jobs, NEW s \in RunStatus, job[j].run \in Runs, transition(job[j].run, s)
      PROVE  /\ run'[job[j].run] = s
             /\ \A r \in Runs \ {job[j].run} : run'[r] = run[r]
  BY <1>8 DEF transition, TypeOK
<1>9. ASSUME NEW j \in Jobs, Work(j), faults' = faults PROVE RunningIsHeld'
  <2>1. pc[j] # "free" /\ job[j].run \in Runs
    <3>1. pc[j] # "free"
      BY <1>9 DEF Work, Start, Refuse, HandleHealth, HandleCollection, HandleDispatch, Claim,
         Publish, MarkSucceeded, MarkFailed, Retry, At
    <3> QED BY <3>1, Carried
  <2>2. CASE Start(j)
    <3>1. \E l \in {"handle", "refuse"} : Goto(j, l)
      BY <2>2 DEF Start
    <3>2. pc'[j] \in Working /\ job'[j] = job[j]
      BY <3>1, <1>7 DEF Labels, Working
    <3>3. \A i \in Jobs \ {j} : pc'[i] = pc[i] /\ job'[i] = job[i]
      BY <3>1, <1>7 DEF Labels, Working
    <3>4. \A r \in Runs \ {job[j].run} : run'[r] = run[r]
      BY <2>1, <2>2, <1>8 DEF Start, RunStatus
    <3> QED BY <1>9, <2>1, <3>2, <3>3, <3>4, HeldByOne
  <2>3. CASE Refuse(j) \/ MarkFailed(j)
    <3>1. transition(job[j].run, "FAILED") /\ Goto(j, "thrown")
      BY <2>3 DEF Refuse, MarkFailed
    <3>2. \A i \in Jobs \ {j} : pc'[i] = pc[i] /\ job'[i] = job[i]
      BY <3>1, <1>7 DEF Labels
    <3>3. run'[job[j].run] # "RUNNING" /\ \A r \in Runs \ {job[j].run} : run'[r] = run[r]
      BY <2>1, <3>1, <1>8 DEF RunStatus
    <3> QED BY <1>9, <2>1, <3>2, <3>3, HeldByOne
  <2>4. CASE HandleHealth(j) \/ HandleCollection(j) \/ HandleDispatch(j) \/ Claim(j) \/ Publish(j)
    <3>1. UNCHANGED run /\ \E l \in {"succeed", "fail", "claim", "publish"} : Goto(j, l)
      BY <2>4 DEF HandleHealth, HandleCollection, HandleDispatch, Claim, Publish
    <3>2. /\ pc'[j] \in Working /\ job'[j] = job[j]
          /\ \A i \in Jobs \ {j} : pc'[i] = pc[i] /\ job'[i] = job[i]
      BY <3>1, <1>7 DEF Labels, Working
    <3> QED BY <1>9, <2>1, <3>1, <3>2, HeldByOne
  <2>5. CASE MarkSucceeded(j)
    <3>1. transition(job[j].run, "SUCCEEDED") /\ Done(j)
      BY <1>9, <2>5, <1>n DEF MarkSucceeded
    <3>2. \A i \in Jobs \ {j} : pc'[i] = pc[i] /\ job'[i] = job[i]
      BY <3>1, <1>7
    <3>3. run'[job[j].run] # "RUNNING" /\ \A r \in Runs \ {job[j].run} : run'[r] = run[r]
      BY <2>1, <3>1, <1>8 DEF RunStatus
    <3> QED BY <1>9, <2>1, <3>2, <3>3, HeldByOne
  <2>6. CASE Retry(j)
    <3>1. /\ pc[j] \notin Working /\ UNCHANGED run
          /\ \A i \in Jobs \ {j} : pc'[i] = pc[i] /\ job'[i] = job[i]
      BY <2>6 DEF Retry, Done, At, Working, TypeOK
    <3> QED BY <1>9, <2>1, <3>1, HeldByOne
  <2> QED BY <1>9, <2>2, <2>3, <2>4, <2>5, <2>6 DEF Work
<1>10. ASSUME NEW j \in Jobs, Work(j) \/ Die(j), faults' # faults PROVE RunningIsHeld'
  <2>1. faults' = faults + 1
    BY <1>10 DEF Work, Die, Start, Refuse, HandleHealth, HandleCollection, HandleDispatch, Claim,
       Publish, MarkSucceeded, MarkFailed, Retry
  <2> QED BY <1>n, <2>1 DEF RunningIsHeld
<1>11. ASSUME NEW j \in Jobs, Die(j) PROVE faults' # faults
  BY <1>11, <1>n DEF Die
<1>12. CASE UNCHANGED vars
  BY <1>12, HeldQuiet DEF vars
<1> QED
  BY <1>2, <1>3, <1>4, <1>5, <1>6, <1>9, <1>10, <1>11, <1>12 DEF Next, Deliver

\* Unless a process dies or a success cannot be marked, a RUNNING run is in the hands of a
\* worker, however often it is delivered: only such a fault can leave it RUNNING for good,
\* which the start-up reconciliation does not look for (queue-reconciliation.ts:14).
THEOREM RunningIsHeldAlways == Spec => []RunningIsHeld
<1>1. Init => RunningIsHeld
  BY DEF Init, RunningIsHeld
<1> QED BY <1>1, TypeInit, TypeNext, HeldNext, PTL DEF Spec

-----------------------------------------------------------------------------
(* A collection waits for its time: from the moment somebody is about to   *)
(* send its job until the job is done, it is due.                          *)

EarlyInv ==
  /\ EarlyCollectionNeverFails
  /\ \A q \in Queues, r \in CollectionRuns : <<q, r>> \in outbox => Due(r)
  /\ \A j \in Jobs : pc[j] # "free" /\ job[j].run \in CollectionRuns => Due(job[j].run)

\* The clock and the schedules: what is due stays due.
DueStays == \A r \in CollectionRuns : Due(r) => Due(r)'

LEMMA DueStaysNext == TypeOK /\ [Next]_vars => DueStays
<1> SUFFICES ASSUME TypeOK, [Next]_vars PROVE DueStays
  OBVIOUS
<1> USE DEF publications, sending, jobs
<1>1. \A r \in CollectionRuns : r \in Runs /\ at[r] \in Nat /\ now \in Nat
  BY RunSets DEF TypeOK
<1>2. CASE Tick
  BY <1>1, <1>2 DEF Tick, DueStays, Due
<1>3. ASSUME NEW d \in DispatchRuns, Reschedule(d) PROVE DueStays
  <2>1. \A r \in CollectionRuns : r # d BY RunSets
  <2> QED BY <1>1, <1>3, <2>1 DEF Reschedule, DueStays, Due, TypeOK
<1>4. CASE UNCHANGED <<at, now>>
  BY <1>4 DEF DueStays, Due
<1>5. Tick \/ (\E d \in DispatchRuns : Reschedule(d)) \/ UNCHANGED <<at, now>>
  BY DEF Next, Work, Deliver, vars, Enqueue, ScheduleCollection, Sweep, StartWorker, Interrupt,
         EnqueueDispatch, Cancel, Investigate, Send, Start, Refuse, HandleHealth,
         HandleCollection, HandleDispatch, Claim, Publish, MarkSucceeded, MarkFailed, Retry, Die
<1> QED BY <1>2, <1>3, <1>4, <1>5

\* A step keeps EarlyInv if it starts, sends and carries no collection that was not
\* started, sent or carried before, unless the collection is due.
LEMMA EarlyQuiet ==
  ASSUME EarlyInv, DueStays,
         \A r \in CollectionRuns : run'[r] \in {"RUNNING", "FAILED"} =>
           run[r] \in {"RUNNING", "FAILED"} \/ Due(r),
         \A q \in Queues, r \in CollectionRuns : <<q, r>> \in outbox' =>
           <<q, r>> \in outbox \/ Due(r),
         \A j \in Jobs : pc'[j] # "free" =>
           \/ pc[j] # "free" /\ job'[j].run = job[j].run
           \/ job'[j].run \in CollectionRuns => Due(job'[j].run)
  PROVE  EarlyInv'
<1>1. EarlyCollectionNeverFails'
  <2> SUFFICES ASSUME NEW r \in CollectionRuns, run'[r] \in {"RUNNING", "FAILED"}
               PROVE  Due(r)'
    BY DEF EarlyCollectionNeverFails
  <2> QED BY DEF EarlyInv, EarlyCollectionNeverFails, DueStays
<1>2. ASSUME NEW q \in Queues, NEW r \in CollectionRuns, <<q, r>> \in outbox'
      PROVE  Due(r)'
  BY <1>2 DEF EarlyInv, DueStays
<1>3. ASSUME NEW j \in Jobs, pc'[j] # "free", job'[j].run \in CollectionRuns
      PROVE  Due(job[j].run)'
  BY <1>3 DEF EarlyInv, DueStays, Due
<1> QED BY <1>1, <1>2, <1>3 DEF EarlyInv

\* A job that goes on, or is done, carries what it carried.
LEMMA JobCarries ==
  ASSUME TypeOK, NEW j \in Jobs, pc[j] # "free", Done(j) \/ (\E l \in Labels : Goto(j, l))
  PROVE  \A i \in Jobs : pc'[i] # "free" => pc[i] # "free" /\ job'[i].run = job[i].run
BY DEF TypeOK, Done, Goto

LEMMA EarlyInit == Init => EarlyInv
BY RunSets DEF Init, EarlyInv, EarlyCollectionNeverFails

LEMMA EarlyNext == TypeOK /\ EarlyInv /\ [Next]_vars => EarlyInv'
<1> SUFFICES ASSUME TypeOK, EarlyInv, [Next]_vars PROVE EarlyInv'
  OBVIOUS
<1> USE DEF publications, sending, jobs
<1>d. DueStays BY DueStaysNext
<1>1. ASSUME NEW r \in Requested, Enqueue(r) PROVE EarlyInv'
  <2>1. r \in Runs /\ r \notin CollectionRuns BY RunSets
  <2> QED BY <1>1, <1>d, <2>1, EarlyQuiet DEF Enqueue, createOrGet, TypeOK
<1>2. ASSUME NEW r \in CollectionRuns, ScheduleCollection(r) PROVE EarlyInv'
  <2>1. r \in Runs BY RunSets
  <2> QED BY <1>2, <1>d, <2>1, EarlyQuiet DEF ScheduleCollection, createOrGet, TypeOK
<1>3. ASSUME NEW r \in DispatchRuns, EnqueueDispatch(r) PROVE EarlyInv'
  <2>1. r \in Runs /\ r \notin CollectionRuns BY RunSets
  <2> QED BY <1>3, <1>d, <2>1, EarlyQuiet DEF EnqueueDispatch, createOrGet, TypeOK
<1>4. ASSUME StartWorker PROVE EarlyInv'
  <2>1. \A q \in Queues, r \in CollectionRuns :
          <<q, r>> \in outbox' => <<q, r>> \in outbox \/ Due(r)
    BY <1>4 DEF StartWorker
  <2> QED BY <1>4, <1>d, <2>1, EarlyQuiet DEF StartWorker
<1>5. ASSUME Sweep \/ Interrupt \/ Tick PROVE EarlyInv'
  BY <1>5, <1>d, EarlyQuiet DEF Sweep, Interrupt, Tick
<1>6. ASSUME NEW r \in DispatchRuns, Reschedule(r) \/ Cancel(r) \/ Investigate(r)
      PROVE  EarlyInv'
  BY <1>6, <1>d, EarlyQuiet DEF Reschedule, Cancel, Investigate
<1>7. ASSUME NEW q \in Queues, NEW r \in Runs, NEW j \in Jobs, Send(q, r, j) PROVE EarlyInv'
  <2>1. r \in CollectionRuns => Due(r) BY <1>7 DEF Send, EarlyInv
  <2>2. \A i \in Jobs : pc'[i] # "free" =>
          \/ pc[i] # "free" /\ job'[i].run = job[i].run
          \/ job'[i].run \in CollectionRuns => Due(job'[i].run)
    BY <1>7, <2>1 DEF Send, TypeOK
  <2>3. \A p \in Queues, c \in CollectionRuns :
          <<p, c>> \in outbox' => <<p, c>> \in outbox \/ Due(c)
    BY <1>7 DEF Send
  <2> QED BY <1>7, <1>d, <2>2, <2>3, EarlyQuiet DEF Send
<1>8. ASSUME NEW j \in Jobs, Start(j) \/ Refuse(j) \/ MarkFailed(j) PROVE EarlyInv'
  <2>1. pc[j] # "free" BY <1>8 DEF Start, Refuse, MarkFailed, At
  <2>2. \E l \in Labels : Goto(j, l)
    <3>1. \E l \in {"handle", "refuse", "thrown"} : Goto(j, l)
      BY <1>8 DEF Start, Refuse, MarkFailed
    <3>2. {"handle", "refuse", "thrown"} \subseteq Labels BY DEF Labels, Working
    <3> QED BY <3>1, <3>2
  <2>3. job[j].run \in CollectionRuns => Due(job[j].run) BY <2>1 DEF EarlyInv
  <2>4. \A r \in CollectionRuns : run'[r] \in {"RUNNING", "FAILED"} =>
          run[r] \in {"RUNNING", "FAILED"} \/ Due(r)
    <3>1. \A r \in CollectionRuns : r \in Runs BY RunSets
    <3>2. \E s \in RunStatus : transition(job[j].run, s)
      BY <1>8, LabelSets DEF Start, Refuse, MarkFailed
    <3> QED BY <3>1, <3>2, <2>3 DEF transition, TypeOK
  <2>5. UNCHANGED outbox BY <1>8 DEF Start, Refuse, MarkFailed
  <2> QED BY <1>d, <2>1, <2>2, <2>4, <2>5, JobCarries, EarlyQuiet
<1>9. ASSUME NEW j \in Jobs,
             HandleHealth(j) \/ HandleCollection(j) \/ HandleDispatch(j) \/ Claim(j) \/ Publish(j)
      PROVE  EarlyInv'
  <2>1. pc[j] # "free" /\ UNCHANGED <<run, outbox>>
    BY <1>9 DEF HandleHealth, HandleCollection, HandleDispatch, Claim, Publish, At
  <2>2. \E l \in {"succeed", "fail", "claim", "publish"} : Goto(j, l)
    BY <1>9 DEF HandleHealth, HandleCollection, HandleDispatch, Claim, Publish
  <2>3. {"succeed", "fail", "claim", "publish"} \subseteq Labels BY DEF Labels, Working
  <2> QED BY <1>d, <2>1, <2>2, <2>3, JobCarries, EarlyQuiet
<1>10. ASSUME NEW j \in Jobs, MarkSucceeded(j) PROVE EarlyInv'
  <2>1. pc[j] # "free" /\ UNCHANGED outbox BY <1>10 DEF MarkSucceeded, At
  <2>2. Done(j) \/ Goto(j, "fail") BY <1>10 DEF MarkSucceeded
  <2>3. "fail" \in Labels BY DEF Labels, Working
  <2>4. \A r \in CollectionRuns : run'[r] \in {"RUNNING", "FAILED"} => run'[r] = run[r]
    <3>1. \A r \in CollectionRuns : r \in Runs BY RunSets
    <3> QED BY <1>10, <3>1 DEF MarkSucceeded, transition, TypeOK
  <2> QED BY <1>d, <2>1, <2>2, <2>3, <2>4, JobCarries, EarlyQuiet
<1>11. ASSUME NEW j \in Jobs, Retry(j) \/ Die(j) PROVE EarlyInv'
  <2>1. UNCHANGED <<run, outbox>> BY <1>11 DEF Retry, Die
  <2>2. \A i \in Jobs : pc'[i] # "free" => pc[i] # "free" /\ job'[i].run = job[i].run
    <3>1. CASE Die(j)
      <4>1. pc[j] # "free" BY <3>1, LabelSets DEF Die
      <4> QED BY <3>1, <4>1, LabelSets, JobCarries DEF Die
    <3>2. CASE Retry(j) /\ Done(j)
      BY <3>2, JobCarries DEF Retry, At
    <3>3. CASE Retry(j) /\ ~Done(j)
      <4>1. /\ pc[j] = "thrown" /\ job' = [job EXCEPT ![j].tries = @ + 1]
            /\ pc' = [pc EXCEPT ![j] = "waiting"]
        BY <3>3 DEF Retry, At
      <4>2. job[j] \in Job BY <4>1 DEF TypeOK
      <4>3. job'[j].run = job[j].run BY <4>1, <4>2 DEF TypeOK, Job
      <4> QED BY <4>1, <4>3 DEF TypeOK
    <3> QED BY <1>11, <3>1, <3>2, <3>3
  <2> QED BY <1>d, <2>1, <2>2, EarlyQuiet
<1>12. CASE UNCHANGED vars
  BY <1>12, <1>d, EarlyQuiet DEF vars
<1> QED
  BY <1>1, <1>2, <1>3, <1>4, <1>5, <1>6, <1>7, <1>8, <1>9, <1>10, <1>11, <1>12
     DEF Next, Work, Deliver

\* However late or often reconciliation, the broker and its retries deliver it, a
\* collection is never run, and so never failed, before it is due.
THEOREM EarlyCollectionNeverFailsAlways == Spec => []EarlyCollectionNeverFails
<1>1. EarlyInv => EarlyCollectionNeverFails BY DEF EarlyInv
<1> QED BY <1>1, TypeInit, TypeNext, EarlyInit, EarlyNext, PTL DEF Spec
=============================================================================
