---------------------------- MODULE VideoProduction ----------------------------
(***************************************************************************)
(* One video production from its plan to READY: people who advance it,     *)
(* renders submitted to a video provider and polled, QC reports and the    *)
(* gate, when several calls are at work at once, a statement may fail and  *)
(* a process may die.                                                      *)
(*                                                                         *)
(* The database decides a change of status by the status it is to change   *)
(* from; everything else was read before.  Costs, texts, the output asset  *)
(* and what a render was asked for are left out, and a usage row that no   *)
(* render is linked to: createUsage is part of createRenderJob.            *)
(***************************************************************************)
EXTENDS Naturals

CONSTANTS
  Keys,       \* idempotency keys, each of at most one RenderJob
  Operations, \* what a provider can be asked for, one (provider, operation) each
  Submitters, \* slots for calls of submit
  Pollers,    \* slots for calls of poll
  Editors,    \* slots for calls of advance
  Gates,      \* slots for calls of the QC gate
  NoKey, NoOperation,
  MaxCalls,   \* bound on provider jobs of one key
  MaxFaults   \* bound on failed statements and deaths

ASSUME VideoAssumption ==
  /\ NoKey \notin Keys /\ NoOperation \notin Operations
  /\ MaxCalls \in Nat \ {0} /\ MaxFaults \in Nat

VARIABLES
  production, \* VideoProduction.status
  render,     \* RenderJob of a key: its status, its operation, is providerJobId set?
  billed,     \* keys whose ProviderUsage has the external job
  submit, poll, advance, gate, \* calls at work: the next step and what they hold
  report,     \* the latest QcReport: has it PASSED, or not, or is there none?
  qualified,  \* has there been a PASSED one?
  job,        \* the provider's own job of a key
  calls,      \* jobs the provider created for a key (history)
  answered,   \* keys whose creation the provider confirmed (history)
  faults

renders  == <<render, billed>>
provider == <<job, calls, answered>>
qc       == <<gate, report, qualified>>
vars == <<production, renders, submit, poll, advance, qc, provider, faults>>

VideoProductionStatus ==
  {"PLANNED", "SCRIPT_READY", "STORYBOARD_READY", "WAITING_APPROVAL", "GENERATING",
   "COMPOSING", "QC", "READY", "FAILED", "CANCELLED"}
JobStatus    == {"SUBMITTED", "PROCESSING", "COMPLETED", "FAILED"}
VideoProviderJobStatus == JobStatus \cup {"OUTCOME_UNKNOWN"}
RenderStatus == VideoProviderJobStatus \cup {"NONE", "QUEUED"}

NoRender  == [status |-> "NONE", operation |-> NoOperation, job |-> FALSE]
NoSubmit  == [step |-> "idle", key |-> NoKey, operation |-> NoOperation]
NoPoll    == [step |-> "idle", key |-> NoKey, seen |-> "NONE", found |-> FALSE, answer |-> "NONE"]
NoAdvance == [step |-> "idle", from |-> "PLANNED", to |-> "PLANNED"]

SubmitSteps == {"create", "call", "bill", "record", "rebill", "unknown", "refused"}

TypeOK ==
  /\ production \in VideoProductionStatus
  /\ render \in [Keys -> [status : RenderStatus, operation : Operations \cup {NoOperation},
                          job : BOOLEAN]]
  /\ billed \subseteq Keys
  /\ submit \in [Submitters -> {NoSubmit} \cup
                   [step : SubmitSteps, key : Keys, operation : Operations]]
  /\ poll \in [Pollers -> {NoPoll} \cup
                 [step : {"ask", "store", "advance"}, key : Keys, seen : RenderStatus,
                  found : BOOLEAN, answer : RenderStatus]]
  /\ advance \in [Editors -> [step : {"idle", "read"}, from : VideoProductionStatus,
                              to : VideoProductionStatus]]
  /\ gate \in [Gates -> {"idle", "checking", "passed"}]
  /\ report \in {"NONE", "PASSED", "NOT_PASSED"} /\ qualified \in BOOLEAN
  /\ job \in [Keys -> JobStatus \cup {"NONE"}]
  /\ calls \in [Keys -> Nat]
  /\ answered \subseteq Keys
  /\ faults \in Nat

\* The production was created from an approved storyboard of an approved project.
Init ==
  /\ production = "PLANNED"
  /\ render = [k \in Keys |-> NoRender] /\ billed = {}
  /\ submit = [s \in Submitters |-> NoSubmit]
  /\ poll = [p \in Pollers |-> NoPoll]
  /\ advance = [e \in Editors |-> NoAdvance]
  /\ gate = [g \in Gates |-> "idle"]
  /\ report = "NONE" /\ qualified = FALSE
  /\ job = [k \in Keys |-> "NONE"]
  /\ calls = [k \in Keys |-> 0]
  /\ answered = {}
  /\ faults = 0

videoProductionTransitions ==
  [PLANNED |-> {"SCRIPT_READY", "CANCELLED"},
   SCRIPT_READY |-> {"STORYBOARD_READY", "CANCELLED"},
   STORYBOARD_READY |-> {"WAITING_APPROVAL", "GENERATING", "CANCELLED"},
   WAITING_APPROVAL |-> {"GENERATING", "CANCELLED"},
   GENERATING |-> {"COMPOSING", "FAILED", "CANCELLED"},
   COMPOSING |-> {"QC", "FAILED", "CANCELLED"},
   QC |-> {"FAILED", "COMPOSING"},
   READY |-> {}, FAILED |-> {"GENERATING", "CANCELLED"}, CANCELLED |-> {}]

\* A status is changed only if it is still the one expected.
transitionProduction(from, to) ==
  production' = IF production = from THEN to ELSE production

updateRenderJob(k, from, new) ==
  render' = IF render[k].status = from THEN [render EXCEPT ![k] = new] ELSE render

Fault == faults < MaxFaults /\ faults' = faults + 1

-----------------------------------------------------------------------------
(* submit: one render, from the look for an earlier one to the record of   *)
(* the provider's job.                                                     *)

At(s, step) == submit[s].step = step
Key(s) == submit[s].key
Goto(s, step) == submit' = [submit EXCEPT ![s].step = step]
Finish(s) == submit' = [submit EXCEPT ![s] = NoSubmit]
Bill(k) == billed' = billed \cup {k}

findRenderJobByIdempotency(k) == render[k].status # "NONE"

\* The production must be GENERATING; an earlier render of the key is returned, or
\* refused, without effect.
Begin(s, k, o) ==
  /\ submit[s] = NoSubmit
  /\ production = "GENERATING" /\ ~findRenderJobByIdempotency(k)
  /\ submit' = [submit EXCEPT ![s] = [step |-> "create", key |-> k, operation |-> o]]
  /\ UNCHANGED <<production, renders, poll, advance, qc, provider, faults>>

Queued(s) == [status |-> "QUEUED", operation |-> submit[s].operation, job |-> FALSE]

\* A slip: the idempotency key is not unique.
createRenderJobAgain(s) ==
  /\ At(s, "create")
  /\ render' = [render EXCEPT ![Key(s)] = Queued(s)] /\ Goto(s, "call")
  /\ UNCHANGED <<production, billed, poll, advance, qc, provider, faults>>

\* The key is unique, and so are provider, operation and attempt, which is always 1:
\* whoever comes second throws.
createRenderJob(s) ==
  /\ At(s, "create")
  /\ LET taken == \E k \in Keys : /\ render[k].status # "NONE"
                                  /\ k = Key(s) \/ render[k].operation = submit[s].operation
     IN \/ ~taken /\ render' = [render EXCEPT ![Key(s)] = Queued(s)] /\ Goto(s, "call")
        \/ taken /\ Finish(s) /\ UNCHANGED render
  /\ UNCHANGED <<production, billed, poll, advance, qc, provider, faults>>

Created(k) ==
  /\ calls[k] < MaxCalls
  /\ calls' = [calls EXCEPT ![k] = @ + 1]
  /\ job' = [job EXCEPT ![k] = "SUBMITTED"]

\* The provider creates the job and answers, or throws: before it created the job, or
\* after, when the request times out.
CallProvider(s) ==
  /\ At(s, "call")
  /\ \/ Created(Key(s)) /\ answered' = answered \cup {Key(s)} /\ Goto(s, "bill")
     \/ Created(Key(s)) /\ Goto(s, "refused") /\ UNCHANGED answered
     \/ Goto(s, "refused") /\ UNCHANGED provider
  /\ UNCHANGED <<production, renders, poll, advance, qc, faults>>

\* updateUsage after the provider's answer; an error, after which the statement may
\* have been carried out all the same, leads to the recovery.
BillJob(s) ==
  /\ At(s, "bill")
  /\ \/ Bill(Key(s)) /\ Goto(s, "record") /\ UNCHANGED faults
     \/ Fault /\ Goto(s, "rebill") /\ (UNCHANGED billed \/ Bill(Key(s)))
  /\ UNCHANGED <<production, render, poll, advance, qc, provider>>

Submitted(k, status) == [render[k] EXCEPT !.status = status, !.job = TRUE]

\* A slip: every error is taken for a refusal.
RecordJobOrRefuse(s) ==
  /\ At(s, "record")
  /\ \/ updateRenderJob(Key(s), "QUEUED", Submitted(Key(s), "SUBMITTED")) /\ Finish(s) /\ UNCHANGED faults
     \/ Fault /\ Goto(s, "refused") /\ UNCHANGED render
  /\ UNCHANGED <<production, billed, poll, advance, qc, provider>>

\* updateRenderJob after the provider's answer.
RecordJob(s) ==
  /\ At(s, "record")
  /\ \/ updateRenderJob(Key(s), "QUEUED", Submitted(Key(s), "SUBMITTED")) /\ Finish(s) /\ UNCHANGED faults
     \/ /\ Fault /\ Goto(s, "rebill")
        /\ UNCHANGED render \/ updateRenderJob(Key(s), "QUEUED", Submitted(Key(s), "SUBMITTED"))
  /\ UNCHANGED <<production, billed, poll, advance, qc, provider>>

\* A slip: the recovery goes on although the usage could not be written.
RebillJobMaybe(s) ==
  /\ At(s, "rebill") /\ Goto(s, "unknown")
  /\ \/ Bill(Key(s)) /\ UNCHANGED faults
     \/ Fault /\ UNCHANGED billed
  /\ UNCHANGED <<production, render, poll, advance, qc, provider>>

\* The recovery writes the usage again; its own errors are swallowed.
RebillJob(s) ==
  /\ At(s, "rebill")
  /\ \/ Bill(Key(s)) /\ Goto(s, "unknown") /\ UNCHANGED faults
     \/ Fault /\ Finish(s) /\ UNCHANGED billed
  /\ UNCHANGED <<production, render, poll, advance, qc, provider>>

RecordUnknown(s) ==
  /\ At(s, "unknown") /\ Finish(s)
  /\ \/ updateRenderJob(Key(s), "QUEUED", Submitted(Key(s), "OUTCOME_UNKNOWN")) /\ UNCHANGED faults
     \/ Fault /\ UNCHANGED render
  /\ UNCHANGED <<production, billed, poll, advance, qc, provider>>

\* No answer: the render is FAILED.
RecordRefused(s) ==
  /\ At(s, "refused") /\ Finish(s)
  /\ \/ updateRenderJob(Key(s), "QUEUED", [render[Key(s)] EXCEPT !.status = "FAILED"]) /\ UNCHANGED faults
     \/ Fault /\ UNCHANGED render
  /\ UNCHANGED <<production, billed, poll, advance, qc, provider>>

\* The provider works on the jobs it has.
ProviderWorks(k) ==
  /\ \/ job[k] = "SUBMITTED" /\ job' = [job EXCEPT ![k] = "PROCESSING"]
     \/ job[k] = "PROCESSING" /\ job' \in {[job EXCEPT ![k] = j] : j \in {"COMPLETED", "FAILED"}}
  /\ UNCHANGED <<production, renders, submit, poll, advance, qc, calls, answered, faults>>

-----------------------------------------------------------------------------
(* poll: the provider's status of a render, and what follows from it.      *)

PollAt(p, step) == poll[p].step = step
PollGoto(p, step) == poll' = [poll EXCEPT ![p].step = step]

\* The production and its renders are read; only a render with a job is polled.
BeginPoll(p, k) ==
  /\ PollAt(p, "idle") /\ render[k].job
  /\ poll' = [poll EXCEPT ![p] = [step |-> "ask", key |-> k, seen |-> render[k].status,
                                  found |-> production = "GENERATING", answer |-> "NONE"]]
  /\ UNCHANGED <<production, renders, submit, advance, qc, provider, faults>>

\* What the provider says of a job; what means nothing here is an unknown outcome.
statusFor(said) == IF said \in JobStatus THEN said ELSE "OUTCOME_UNKNOWN"

\* The answer is the job's status, or one that means nothing here, or there is none and
\* the poll throws.
AskProvider(p) ==
  /\ PollAt(p, "ask")
  /\ \/ \E a \in {statusFor(job[poll[p].key]), "OUTCOME_UNKNOWN"} :
          poll' = [poll EXCEPT ![p].step = "store", ![p].answer = a]
     \/ poll' = [poll EXCEPT ![p] = NoPoll]
  /\ UNCHANGED <<production, renders, submit, advance, qc, provider, faults>>

\* A completed render moves on a production that was GENERATING when it was read.
AfterAnswer(p) ==
  IF poll[p].answer = "COMPLETED" /\ poll[p].found
  THEN PollGoto(p, "advance") ELSE poll' = [poll EXCEPT ![p] = NoPoll]

\* A slip: the answer is stored over whatever another poll has stored since.
StoreAnswerAlways(p) ==
  /\ PollAt(p, "store")
  /\ render' = [render EXCEPT ![poll[p].key].status = poll[p].answer]
  /\ AfterAnswer(p)
  /\ UNCHANGED <<production, billed, submit, advance, qc, provider, faults>>

StoreAnswer(p) ==
  LET k == poll[p].key IN
  /\ PollAt(p, "store")
  /\ updateRenderJob(k, poll[p].seen, [render[k] EXCEPT !.status = poll[p].answer])
  /\ AfterAnswer(p)
  /\ UNCHANGED <<production, billed, submit, advance, qc, provider, faults>>

\* A slip: the production is moved whatever has become of it.
AdvanceProductionAlways(p) ==
  /\ PollAt(p, "advance")
  /\ production' = "COMPOSING"
  /\ poll' = [poll EXCEPT ![p] = NoPoll]
  /\ UNCHANGED <<renders, submit, advance, qc, provider, faults>>

AdvanceProduction(p) ==
  /\ PollAt(p, "advance")
  /\ transitionProduction("GENERATING", "COMPOSING")
  /\ poll' = [poll EXCEPT ![p] = NoPoll]
  /\ UNCHANGED <<renders, submit, advance, qc, provider, faults>>

-----------------------------------------------------------------------------
(* People: advancing the production, QC reports, and the gate.             *)

\* advance reads the production and consults the table; the content project and the
\* storyboard, which may make it refuse the first two moves, belong to others.
ReadForAdvance(e) ==
  /\ advance[e].step = "idle"
  /\ \E to \in videoProductionTransitions[production] :
       advance' = [advance EXCEPT ![e] = [step |-> "read", from |-> production, to |-> to]]
  /\ UNCHANGED <<production, renders, submit, poll, qc, provider, faults>>

Advance(e) ==
  /\ advance[e].step = "read"
  /\ transitionProduction(advance[e].from, advance[e].to)
  /\ advance' = [advance EXCEPT ![e] = NoAdvance]
  /\ UNCHANGED <<renders, submit, poll, qc, provider, faults>>

\* Sections that failed and sections that list issues are not the same.
Section == [passed : BOOLEAN, issues : BOOLEAN]

evaluateQc(sections) ==
  IF \E s \in sections : s.issues
  THEN IF \A s \in sections : s.passed THEN "WARNING" ELSE "FAILED"
  ELSE "PASSED"

QcOutcomes == {evaluateQc(sections) : sections \in SUBSET Section \ {{}}}

\* A report is written whatever the status of the production; WARNING and FAILED are
\* alike to the gate.
createQc(outcome) ==
  /\ report' = IF outcome = "PASSED" THEN "PASSED" ELSE "NOT_PASSED"
  /\ qualified' = (qualified \/ outcome = "PASSED")
  /\ UNCHANGED <<production, renders, submit, poll, advance, gate, provider, faults>>

\* The gate reads the production ...
BeginGate(g) ==
  /\ gate[g] = "idle" /\ production = "QC"
  /\ gate' = [gate EXCEPT ![g] = "checking"]
  /\ UNCHANGED <<production, renders, submit, poll, advance, report, qualified, provider, faults>>

\* A slip: a production without a report is let through.
CheckReportLeniently(g) ==
  /\ gate[g] = "checking"
  /\ gate' = [gate EXCEPT ![g] = IF report # "NOT_PASSED" THEN "passed" ELSE "idle"]
  /\ UNCHANGED <<production, renders, submit, poll, advance, report, qualified, provider, faults>>

\* ... then the latest report, which must have PASSED ...
CheckReport(g) ==
  /\ gate[g] = "checking"
  /\ gate' = [gate EXCEPT ![g] = IF report = "PASSED" THEN "passed" ELSE "idle"]
  /\ UNCHANGED <<production, renders, submit, poll, advance, report, qualified, provider, faults>>

\* ... and moves the production from QC.
PassGate(g) ==
  /\ gate[g] = "passed"
  /\ transitionProduction("QC", "READY")
  /\ gate' = [gate EXCEPT ![g] = "idle"]
  /\ UNCHANGED <<renders, submit, poll, advance, report, qualified, provider, faults>>

\* A process dies inside a call of submit.  A poll that dies is one that goes no
\* further, or that throws when it asks.
Die ==
  /\ Fault
  /\ \E s \in Submitters : submit[s] # NoSubmit /\ Finish(s)
  /\ UNCHANGED <<production, renders, poll, advance, qc, provider>>

-----------------------------------------------------------------------------
\* What a call of submit does once it has begun.
Submit(s) ==
  \/ createRenderJob(s) \/ CallProvider(s) \/ BillJob(s) \/ RecordJob(s)
  \/ RebillJob(s) \/ RecordUnknown(s) \/ RecordRefused(s)

Next ==
  \/ \E s \in Submitters, k \in Keys, o \in Operations : Begin(s, k, o)
  \/ \E s \in Submitters : Submit(s)
  \/ \E k \in Keys : ProviderWorks(k)
  \/ \E p \in Pollers, k \in Keys : BeginPoll(p, k)
  \/ \E p \in Pollers : AskProvider(p) \/ StoreAnswer(p) \/ AdvanceProduction(p)
  \/ \E e \in Editors : ReadForAdvance(e) \/ Advance(e)
  \/ \E outcome \in QcOutcomes : createQc(outcome)
  \/ \E g \in Gates : BeginGate(g) \/ CheckReport(g) \/ PassGate(g)
  \/ Die

Spec == Init /\ [][Next]_vars

-----------------------------------------------------------------------------
(* Properties.                                                             *)

\* Concurrent calls of submit with one key, and calls after a failure, never make
\* the provider render twice.
OneProviderJob == \A k \in Keys : calls[k] <= 1

\* A provider job that is known on its render is known on its usage too, whichever
\* statement of submit failed.  (The job of a create that timed out is known on neither.)
KnownJobIsBilled == \A k \in Keys : render[k].job => k \in billed

\* W3.7: a render whose creation the provider confirmed is not FAILED because of
\* what failed here; only the provider can fail it.
ConfirmedIsNotFailed ==
  \A k \in answered : render[k].status = "FAILED" => job[k] = "FAILED"

\* What has been stored as final is never overwritten with what a poll had learnt
\* earlier: only an answer without meaning takes a render out of COMPLETED or FAILED.
FinishedStaysFinished ==
  [][\A k \in Keys : render[k].status \in {"COMPLETED", "FAILED"} =>
       render'[k].status \in {render[k].status, "OUTCOME_UNKNOWN"}]_vars

\* Whoever moves the production, on however old a reading, moves it along the table,
\* and to READY through the gate only.
LegalMoves ==
  [][production' # production =>
       \/ production' \in videoProductionTransitions[production]
       \/ production = "QC" /\ production' = "READY" /\ qualified]_vars
=============================================================================
