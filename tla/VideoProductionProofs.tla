------------------------- MODULE VideoProductionProofs -------------------------
(***************************************************************************)
(* Whatever the calls, their order, their failures and their number: a     *)
(* provider creates at most one job for a key; a render that knows its job *)
(* has it in the account of costs; a final status that is stored is the    *)
(* provider's and stays; and the production moves along its table.         *)
(***************************************************************************)
EXTENDS VideoProduction, TLAPS

Renders == [status : RenderStatus, operation : Operations \cup {NoOperation}, job : BOOLEAN]
Submits == {NoSubmit} \cup [step : SubmitSteps, key : Keys, operation : Operations]
Polls   == {NoPoll} \cup [step : {"ask", "store", "advance"}, key : Keys, seen : RenderStatus,
                          found : BOOLEAN, answer : RenderStatus]

-----------------------------------------------------------------------------
(* Type correctness.                                                       *)

LEMMA TypeInit == Init => TypeOK
<1> SUFFICES ASSUME Init PROVE TypeOK
  OBVIOUS
<1>1. NoRender \in Renders /\ "PLANNED" \in VideoProductionStatus
  BY DEF NoRender, Renders, RenderStatus, VideoProviderJobStatus, VideoProductionStatus
<1>2. /\ production \in VideoProductionStatus /\ render \in [Keys -> Renders]
      /\ billed \subseteq Keys
      /\ submit \in [Submitters -> Submits] /\ poll \in [Pollers -> Polls]
  BY <1>1 DEF Init, Submits, Polls
<1>3. /\ advance \in [Editors -> [step : {"idle", "read"}, from : VideoProductionStatus,
                                  to : VideoProductionStatus]]
      /\ gate \in [Gates -> {"idle", "checking", "passed"}]
      /\ report \in {"NONE", "PASSED", "NOT_PASSED"} /\ qualified \in BOOLEAN
  BY <1>1 DEF Init, NoAdvance
<1>4. /\ job \in [Keys -> JobStatus \cup {"NONE"}] /\ calls \in [Keys -> Nat]
      /\ answered \subseteq Keys
      /\ faults \in Nat
  BY DEF Init
<1> QED BY <1>2, <1>3, <1>4 DEF TypeOK, Renders, Submits, Polls

\* A call of submit that is past its beginning has a key, and keeps its type.
LEMMA SubmitType ==
  ASSUME TypeOK, NEW s \in Submitters, submit[s].step # "idle"
  PROVE  /\ Key(s) \in Keys /\ submit[s].operation \in Operations
         /\ Finish(s) => submit' \in [Submitters -> Submits]
         /\ \A step \in SubmitSteps : Goto(s, step) => submit' \in [Submitters -> Submits]
<1>1. submit \in [Submitters -> Submits]
  BY DEF TypeOK, Submits
<1>2. submit[s] \in [step : SubmitSteps, key : Keys, operation : Operations]
  BY <1>1 DEF Submits, NoSubmit
<1>3. Finish(s) => submit' \in [Submitters -> Submits]
  BY <1>1 DEF Submits, Finish
<1>4. ASSUME NEW step \in SubmitSteps, Goto(s, step) PROVE submit' \in [Submitters -> Submits]
  <2>1. [submit[s] EXCEPT !.step = step] \in Submits
    BY <1>2 DEF Submits
  <2> QED BY <1>1, <1>4, <2>1 DEF Goto
<1> QED BY <1>2, <1>3, <1>4 DEF Key

\* The same of a poll.
LEMMA PollType ==
  ASSUME TypeOK, NEW p \in Pollers, poll[p].step # "idle"
  PROVE  /\ poll[p] \in Polls \ {NoPoll}
         /\ poll' = [poll EXCEPT ![p] = NoPoll] => poll' \in [Pollers -> Polls]
         /\ PollGoto(p, "advance") => poll' \in [Pollers -> Polls]
BY DEF TypeOK, Polls, NoPoll, PollGoto

LEMMA Names ==
  /\ {"NONE", "QUEUED", "SUBMITTED", "FAILED", "OUTCOME_UNKNOWN"} \subseteq RenderStatus
  /\ JobStatus \cup {"NONE"} \subseteq RenderStatus
  /\ VideoProviderJobStatus \subseteq RenderStatus \ {"NONE"}
  /\ {"SUBMITTED", "PROCESSING", "COMPLETED", "FAILED"} \subseteq JobStatus
  /\ {"GENERATING", "COMPOSING", "QC", "READY"} \subseteq VideoProductionStatus
  /\ {"create", "call", "bill", "record", "rebill", "unknown", "refused"} \subseteq SubmitSteps
  /\ \A from \in VideoProductionStatus : videoProductionTransitions[from] \subseteq VideoProductionStatus
BY DEF RenderStatus, VideoProviderJobStatus, JobStatus, VideoProductionStatus, SubmitSteps,
       videoProductionTransitions

LEMMA UpdateType ==
  ASSUME TypeOK, NEW k \in Keys, NEW from, NEW new \in Renders, updateRenderJob(k, from, new)
  PROVE  render' \in [Keys -> Renders]
BY DEF TypeOK, updateRenderJob, Renders

LEMMA SubmitTypeNext ==
  ASSUME TypeOK, NEW s \in Submitters, Submit(s) PROVE TypeOK'
<1> USE Names
<1>1. submit[s].step # "idle"
  BY DEF Submit, createRenderJob, CallProvider, BillJob, RecordJob, RebillJob, RecordUnknown,
         RecordRefused, At
<1>2. /\ Key(s) \in Keys /\ submit[s].operation \in Operations
      /\ render[Key(s)] \in Renders
  BY <1>1, SubmitType DEF TypeOK, Renders
<1>3. submit' \in [Submitters -> Submits]
  <2>1. Finish(s) \/ \E step \in SubmitSteps : Goto(s, step)
    BY DEF Submit, createRenderJob, CallProvider, BillJob, RecordJob, RebillJob, RecordUnknown,
           RecordRefused
  <2> QED BY <1>1, <2>1, SubmitType
<1>4. render' \in [Keys -> Renders]
  <2>1. CASE createRenderJob(s)
    <3>1. Queued(s) \in Renders
      BY <1>2 DEF Queued, Renders
    <3> QED BY <1>2, <2>1, <3>1 DEF createRenderJob, TypeOK, Renders
  <2>2. CASE UNCHANGED render
    BY <2>2 DEF TypeOK, Renders
  <2>3. CASE \E new \in Renders : updateRenderJob(Key(s), "QUEUED", new)
    BY <1>2, <2>3, UpdateType
  <2>4. /\ Submitted(Key(s), "SUBMITTED") \in Renders
        /\ Submitted(Key(s), "OUTCOME_UNKNOWN") \in Renders
        /\ [render[Key(s)] EXCEPT !.status = "FAILED"] \in Renders
    BY <1>2 DEF Submitted, Renders
  <2> QED BY <2>1, <2>2, <2>3, <2>4 DEF Submit, CallProvider, BillJob, RecordJob, RebillJob,
             RecordUnknown, RecordRefused, renders
<1>5. billed' \subseteq Keys
  BY <1>2 DEF TypeOK, Submit, createRenderJob, CallProvider, BillJob, RecordJob, RebillJob,
              RecordUnknown, RecordRefused, Bill, renders
<1>6. /\ job' \in [Keys -> JobStatus \cup {"NONE"}] /\ calls' \in [Keys -> Nat]
      /\ answered' \subseteq Keys
  <2>1. CASE CallProvider(s)
    <3>1. UNCHANGED <<job, calls>> \/ Created(Key(s))
      BY <2>1 DEF CallProvider, provider
    <3>2. UNCHANGED answered \/ answered' = answered \cup {Key(s)}
      BY <2>1 DEF CallProvider, provider
    <3>3. /\ job \in [Keys -> JobStatus \cup {"NONE"}] /\ calls \in [Keys -> Nat]
          /\ answered \subseteq Keys
      BY DEF TypeOK
    <3>4. Created(Key(s)) => job' \in [Keys -> JobStatus \cup {"NONE"}] /\ calls' \in [Keys -> Nat]
      BY <1>2, <3>3 DEF Created
    <3> QED BY <1>2, <3>1, <3>2, <3>3, <3>4
  <2>2. CASE UNCHANGED provider
    BY <2>2 DEF TypeOK, provider
  <2> QED BY <2>1, <2>2 DEF Submit, createRenderJob, BillJob, RecordJob, RebillJob, RecordUnknown,
             RecordRefused
<1>7. faults' \in Nat
  BY DEF TypeOK, Submit, createRenderJob, CallProvider, BillJob, RecordJob, RebillJob,
         RecordUnknown, RecordRefused, Fault
<1>8. UNCHANGED <<production, poll, advance, qc>>
  BY DEF Submit, createRenderJob, CallProvider, BillJob, RecordJob, RebillJob,
         RecordUnknown, RecordRefused
<1> QED BY <1>3, <1>4, <1>5, <1>6, <1>7, <1>8 DEF TypeOK, Renders, Submits, qc

LEMMA TypeNext == TypeOK /\ [Next]_vars => TypeOK'
<1> SUFFICES ASSUME TypeOK, [Next]_vars PROVE TypeOK'
  OBVIOUS
<1> USE Names
<1>1. ASSUME NEW s \in Submitters, NEW k \in Keys, NEW o \in Operations, Begin(s, k, o)
      PROVE  TypeOK'
  BY <1>1 DEF Begin, TypeOK, renders, provider, qc
<1>2. ASSUME NEW s \in Submitters, Submit(s) PROVE TypeOK'
  BY <1>2, SubmitTypeNext
<1>3. ASSUME NEW k \in Keys, ProviderWorks(k) PROVE TypeOK'
  <2>1. PICK j \in JobStatus : job' = [job EXCEPT ![k] = j]
    BY <1>3 DEF ProviderWorks
  <2>2. job' \in [Keys -> JobStatus \cup {"NONE"}]
    BY <2>1 DEF TypeOK
  <2> QED BY <1>3, <2>2 DEF ProviderWorks, TypeOK, renders, qc
<1>4. ASSUME NEW p \in Pollers, NEW k \in Keys, BeginPoll(p, k) PROVE TypeOK'
  BY <1>4 DEF BeginPoll, TypeOK, renders, provider, qc
<1>5. ASSUME NEW p \in Pollers, AskProvider(p) PROVE TypeOK'
  <2>1. /\ poll[p] \in Polls \ {NoPoll}
        /\ \A said : statusFor(said) \in RenderStatus
    BY <1>5, PollType DEF AskProvider, PollAt, statusFor
  <2>2. poll' \in [Pollers -> Polls]
    <3>1. CASE poll' = [poll EXCEPT ![p] = NoPoll]
      BY <1>5, <3>1, PollType DEF AskProvider, PollAt
    <3>2. ASSUME NEW a \in RenderStatus, poll' = [poll EXCEPT ![p].step = "store", ![p].answer = a]
          PROVE  poll' \in [Pollers -> Polls]
      BY <2>1, <3>2 DEF TypeOK, Polls
    <3> QED BY <1>5, <2>1, <3>1, <3>2 DEF AskProvider
  <2> QED BY <1>5, <2>2 DEF AskProvider, TypeOK, Polls, renders, provider, qc
<1>6. ASSUME NEW p \in Pollers, StoreAnswer(p) PROVE TypeOK'
  <2>1. poll[p] \in Polls \ {NoPoll} /\ poll[p].key \in Keys /\ poll[p].answer \in RenderStatus
    BY <1>6, PollType DEF StoreAnswer, PollAt, Polls
  <2>2. [render[poll[p].key] EXCEPT !.status = poll[p].answer] \in Renders
    BY <2>1 DEF TypeOK, Renders
  <2>3. render' \in [Keys -> Renders]
    BY <1>6, <2>1, <2>2, UpdateType DEF StoreAnswer
  <2>4. poll' \in [Pollers -> Polls]
    BY <1>6, PollType DEF StoreAnswer, PollAt, AfterAnswer
  <2> QED BY <1>6, <2>3, <2>4 DEF StoreAnswer, TypeOK, Polls, Renders, provider, qc
<1>7. ASSUME NEW p \in Pollers, AdvanceProduction(p) PROVE TypeOK'
  BY <1>7, PollType
     DEF AdvanceProduction, PollAt, transitionProduction, TypeOK, Polls, renders, provider, qc
<1>8. ASSUME NEW e \in Editors, ReadForAdvance(e) \/ Advance(e) PROVE TypeOK'
  <2>1. CASE ReadForAdvance(e)
    BY <2>1 DEF ReadForAdvance, TypeOK, renders, provider, qc
  <2>2. CASE Advance(e)
    <3>1. "PLANNED" \in VideoProductionStatus
      BY DEF VideoProductionStatus
    <3> QED BY <2>2, <3>1
               DEF Advance, transitionProduction, NoAdvance, TypeOK, renders, provider, qc
  <2> QED BY <1>8, <2>1, <2>2
<1>9. ASSUME NEW outcome \in QcOutcomes, createQc(outcome) PROVE TypeOK'
  BY <1>9 DEF createQc, TypeOK, renders, provider
<1>10. ASSUME NEW g \in Gates, BeginGate(g) \/ CheckReport(g) \/ PassGate(g) PROVE TypeOK'
  BY <1>10 DEF BeginGate, CheckReport, PassGate, transitionProduction, TypeOK, renders, provider
<1>11. CASE Die
  BY <1>11 DEF Die, Fault, Finish, TypeOK, renders, provider, qc
<1>12. CASE UNCHANGED vars
  BY <1>12 DEF vars, TypeOK, renders, provider, qc
<1> QED BY <1>1, <1>2, <1>3, <1>4, <1>5, <1>6, <1>7, <1>8, <1>9, <1>10, <1>11, <1>12 DEF Next

\* Every variable of VideoProduction keeps its type: whoever is at work in submit or
\* poll names a render that may exist.
THEOREM TypeCorrect == Spec => []TypeOK
BY TypeInit, TypeNext, PTL DEF Spec
-----------------------------------------------------------------------------
(* One provider job.                                                       *)

Past(s) == submit[s].step \notin {"idle", "create"}

\* The insert is won by one call, which is the only one to work with the render.
OneSubmitter ==
  \A s, t \in Submitters : Past(s) /\ Past(t) /\ Key(s) = Key(t) => s = t

\* Before the insert nobody has called the provider, and before the call neither.
NotCalledYet ==
  /\ \A k \in Keys : render[k].status = "NONE" => calls[k] = 0
  /\ \A s \in Submitters : submit[s].step = "call" => calls[Key(s)] = 0

\* Whoever is past the insert has a render.
HasRender ==
  \A s \in Submitters : Past(s) => render[Key(s)].status # "NONE"

\* The job is recorded on the render by nobody who has not billed it.
Billed ==
  \A s \in Submitters : submit[s].step \in {"record", "unknown"} => Key(s) \in billed

\* What a poll is about to store is an answer.
Answered == \A p \in Pollers : poll[p].step = "store" => poll[p].answer # "NONE"

Inv ==
  /\ TypeOK /\ OneSubmitter /\ NotCalledYet /\ HasRender /\ Billed
  /\ OneProviderJob /\ KnownJobIsBilled /\ Answered

LEMMA InvInit == Init => Inv
<1> SUFFICES ASSUME Init PROVE Inv
  OBVIOUS
<1>1. /\ \A s \in Submitters : submit[s].step = "idle"
      /\ \A k \in Keys : render[k].status = "NONE" /\ ~render[k].job /\ calls[k] = 0
      /\ \A p \in Pollers : poll[p].step = "idle"
  BY DEF Init, NoSubmit, NoRender, NoPoll
<1> QED BY <1>1, TypeInit DEF Inv, OneSubmitter, NotCalledYet, HasRender, Billed, Past,
           OneProviderJob, KnownJobIsBilled, Answered

\* A step that leaves submit, the usage and the provider's calls alone, and neither
\* gives a render its job nor takes a render away, disturbs nothing but Answered.
LEMMA Elsewhere ==
  ASSUME Inv, TypeOK', Answered', UNCHANGED <<submit, billed, calls>>,
         \A k \in Keys : /\ render'[k].job => render[k].job
                         /\ render'[k].status = "NONE" => render[k].status = "NONE"
  PROVE  Inv'
<1>1. \A s \in Submitters : submit[s].step # "idle" => Key(s) \in Keys
  BY SubmitType DEF Inv
<1> QED BY <1>1 DEF Inv, OneSubmitter, NotCalledYet, HasRender, Billed, Past, Key,
           OneProviderJob, KnownJobIsBilled, Answered

\* A step of one call of submit past its insert.
LEMMA OneStep ==
  ASSUME Inv, NEW s \in Submitters, Submit(s), ~createRenderJob(s)
  PROVE  Inv'
<1> DEFINE k == Key(s)
<1>1. Past(s) /\ k \in Keys /\ TypeOK'
  BY SubmitType, SubmitTypeNext
     DEF Inv, Submit, CallProvider, BillJob, RecordJob, RebillJob, RecordUnknown, RecordRefused,
         At, Past
<1>2. \A t \in Submitters \ {s} : submit'[t] = submit[t] /\ Key(t)' = Key(t)
  BY DEF Inv, TypeOK, Submit, CallProvider, BillJob, RecordJob, RebillJob, RecordUnknown,
         RecordRefused,
         Goto, Finish, Key
<1>3. submit'[s].step \notin {"idle", "create", "call"} => Key(s)' = k
  BY DEF Inv, TypeOK, Submit, CallProvider, BillJob, RecordJob, RebillJob, RecordUnknown,
         RecordRefused,
         Goto, Finish, Key, NoSubmit
<1>4. submit'[s].step # "call"
  BY DEF Inv, TypeOK, Submit, CallProvider, BillJob, RecordJob, RebillJob, RecordUnknown,
         RecordRefused,
         Goto, Finish, NoSubmit
<1>5. \A t \in Submitters \ {s} : Past(t) => Key(t) # k
  BY <1>1 DEF Inv, OneSubmitter
<1>6. /\ billed \subseteq billed'
      /\ submit'[s].step \in {"record", "unknown"} => k \in billed'
  BY DEF Inv, TypeOK, Submit, CallProvider, BillJob, RecordJob, RebillJob, RecordUnknown,
         RecordRefused,
         Goto, Finish, NoSubmit, Bill, renders
<1>7. /\ \A j \in Keys \ {k} : render'[j] = render[j] /\ calls'[j] = calls[j]
      /\ render'[k].status # "NONE" /\ calls'[k] <= 1
  <2>1. render[k].status # "NONE" /\ calls[k] <= 1 /\ calls[k] \in Nat
    BY <1>1 DEF Inv, HasRender, OneProviderJob, TypeOK
  <2>2. CASE CallProvider(s)
    <3>1. calls[k] = 0
      BY <2>2 DEF Inv, NotCalledYet, CallProvider, At
    <3> QED BY <1>1, <2>1, <2>2, <3>1 DEF CallProvider, Created, Inv, TypeOK, renders, provider
  <2>3. CASE UNCHANGED calls
    <3>1. \/ UNCHANGED render
          \/ \E status \in RenderStatus : status # "NONE" /\ updateRenderJob(k, "QUEUED", Submitted(k, status))
          \/ updateRenderJob(k, "QUEUED", [render[k] EXCEPT !.status = "FAILED"])
      BY Names
         DEF Submit, CallProvider, BillJob, RecordJob, RebillJob, RecordUnknown, RecordRefused,
             renders
    <3>2. render \in [Keys -> Renders]
      BY DEF Inv, TypeOK, Renders
    <3>3. \A j \in Keys \ {k} : render'[j] = render[j]
      BY <1>1, <3>1, <3>2 DEF updateRenderJob
    <3>4. render'[k].status # "NONE"
      BY <1>1, <2>1, <3>1, <3>2 DEF updateRenderJob, Submitted, Renders
    <3> QED BY <2>1, <2>3, <3>3, <3>4
  <2> QED BY <2>2, <2>3
             DEF Submit, BillJob, RecordJob, RebillJob, RecordUnknown, RecordRefused, provider
<1>8. render'[k].job => render[k].job \/ k \in billed
  BY <1>1
     DEF Inv, Billed, At, TypeOK, Submit, CallProvider, BillJob, RecordJob, RebillJob,
         RecordUnknown,
         RecordRefused, updateRenderJob, Submitted, renders
<1>9. OneSubmitter' /\ HasRender' /\ Billed'
  <2>1. \A t \in Submitters \ {s} : Past(t)' = Past(t) /\ (Past(t) => Key(t) \in Keys)
    BY <1>2, SubmitType DEF Inv, Past
  <2>2. Past(s)' => Key(s)' = k
    BY <1>3, <1>4 DEF Past
  <2>3. OneSubmitter'
    BY <1>1, <1>2, <1>5, <2>1, <2>2 DEF Inv, OneSubmitter
  <2>4. HasRender'
    BY <1>1, <1>2, <1>5, <1>7, <2>1, <2>2 DEF Inv, HasRender
  <2>5. Billed'
    BY <1>2, <1>3, <1>6 DEF Inv, Billed
  <2> QED BY <2>3, <2>4, <2>5
<1>10. NotCalledYet'
  <2>1. \A t \in Submitters \ {s} : submit[t].step = "call" => Past(t) /\ Key(t) \in Keys
    BY SubmitType DEF Inv, Past
  <2> QED BY <1>2, <1>4, <1>5, <1>7, <2>1 DEF Inv, NotCalledYet
<1>11. OneProviderJob' /\ KnownJobIsBilled'
  BY <1>1, <1>6, <1>7, <1>8 DEF Inv, OneProviderJob, KnownJobIsBilled, Answered
<1>12. Answered'
  BY SubmitTypeNext
     DEF Inv, Answered, Submit, CallProvider, BillJob, RecordJob, RebillJob, RecordUnknown,
         RecordRefused
<1> QED BY <1>1, <1>9, <1>10, <1>11, <1>12 DEF Inv

LEMMA InvNext == Inv /\ [Next]_vars => Inv'
<1> SUFFICES ASSUME Inv, [Next]_vars PROVE Inv'
  OBVIOUS
<1>0. TypeOK /\ TypeOK'
  BY TypeNext DEF Inv
<1>1. ASSUME NEW s \in Submitters, NEW k \in Keys, NEW o \in Operations, Begin(s, k, o) PROVE Inv'
  <2>1. /\ ~Past(s)' /\ submit'[s].step = "create"
        /\ \A t \in Submitters \ {s} : submit'[t] = submit[t]
        /\ UNCHANGED <<render, billed, calls, poll>>
    BY <1>0, <1>1 DEF Begin, TypeOK, Past, renders, provider
  <2> QED BY <1>0, <2>1 DEF Inv, OneSubmitter, NotCalledYet, HasRender, Billed, Past, Key,
             OneProviderJob, KnownJobIsBilled, Answered
<1>2. ASSUME NEW s \in Submitters, createRenderJob(s) PROVE Inv'
  <2> DEFINE k == Key(s)
  <2>1. k \in Keys /\ ~Past(s) /\ submit[s].operation \in Operations
    BY <1>0, <1>2, SubmitType DEF createRenderJob, At, Past
  <2>2. UNCHANGED <<billed, calls, poll>> /\ \A t \in Submitters \ {s} : submit'[t] = submit[t]
    BY <1>0, <1>2 DEF createRenderJob, Goto, Finish, TypeOK, provider
  <2>3. CASE Finish(s) /\ UNCHANGED render
    <3>1. ~Past(s)' /\ submit'[s].step = "idle"
      BY <1>0, <2>3 DEF Finish, NoSubmit, Past, TypeOK
    <3> QED BY <1>0, <2>2, <2>3, <3>1
               DEF Inv, OneSubmitter, NotCalledYet, HasRender, Billed, Past, Key,
               OneProviderJob, KnownJobIsBilled, Answered
  <2>4. CASE /\ render[k].status = "NONE" /\ render' = [render EXCEPT ![k] = Queued(s)]
             /\ Goto(s, "call")
    <3>1. /\ submit'[s].step = "call" /\ Key(s)' = k
          /\ render'[k].status = "QUEUED" /\ ~render'[k].job
          /\ \A j \in Keys \ {k} : render'[j] = render[j]
      BY <1>0, <2>1, <2>4 DEF Goto, Key, Queued, TypeOK, NoSubmit
    <3>2. \A t \in Submitters : Past(t) => Key(t) # k /\ Key(t) \in Keys
      BY <2>4, SubmitType DEF Inv, HasRender, Past
    <3>3. calls[k] = 0
      BY <2>1, <2>4 DEF Inv, NotCalledYet
    <3>4. \A t \in Submitters \ {s} : Past(t)' = Past(t) /\ Key(t)' = Key(t)
      BY <2>2 DEF Past, Key
    <3>5. OneSubmitter' /\ HasRender'
      BY <3>1, <3>2, <3>4 DEF Inv, OneSubmitter, HasRender
    <3>6. NotCalledYet' /\ Billed'
      BY <2>2, <3>1, <3>3, <3>4 DEF Inv, NotCalledYet, Billed
    <3>7. OneProviderJob' /\ KnownJobIsBilled'
      BY <2>1, <2>2, <3>1 DEF Inv, OneProviderJob, KnownJobIsBilled, Answered
    <3> QED BY <1>0, <1>2, <3>5, <3>6, <3>7 DEF Inv, Answered, createRenderJob
  <2> QED BY <1>2, <2>1, <2>3, <2>4 DEF createRenderJob
<1>3. ASSUME NEW s \in Submitters, Submit(s), ~createRenderJob(s) PROVE Inv'
  BY <1>3, OneStep
<1>4. ASSUME NEW p \in Pollers, StoreAnswer(p) PROVE Inv'
  <2>1. poll[p].key \in Keys
    BY <1>0, <1>4, PollType DEF StoreAnswer, PollAt, Polls
  <2>2. UNCHANGED <<submit, billed, calls>>
    BY <1>4 DEF StoreAnswer, provider
  <2>3. poll[p].answer # "NONE"
    BY <1>4 DEF Inv, Answered, StoreAnswer, PollAt
  <2>4. Answered'
    <3>1. poll' = [poll EXCEPT ![p].step = "advance"] \/ poll' = [poll EXCEPT ![p] = NoPoll]
      BY <1>4 DEF StoreAnswer, AfterAnswer, PollGoto
    <3>2. poll'[p].step # "store" /\ \A q \in Pollers \ {p} : poll'[q] = poll[q]
      BY <1>0, <1>4, <3>1, PollType DEF TypeOK, StoreAnswer, PollAt, NoPoll, Polls
    <3> QED BY <3>2 DEF Inv, Answered
  <2>5. \A k \in Keys : /\ render'[k].job => render[k].job
                        /\ render'[k].status = "NONE" => render[k].status = "NONE"
    <3>1. render \in [Keys -> Renders]
      BY <1>0 DEF TypeOK, Renders
    <3> QED BY <1>4, <2>1, <2>3, <3>1 DEF StoreAnswer, updateRenderJob, Renders
  <2> QED BY <1>0, <2>2, <2>4, <2>5, Elsewhere
<1>5. CASE Die
  <2>1. UNCHANGED <<render, billed, calls>>
    BY <1>5 DEF Die, renders, provider
  <2>2. \A t \in Submitters : submit'[t] = submit[t] \/ submit'[t] = NoSubmit
    BY <1>0, <1>5 DEF Die, Finish, TypeOK
  <2>3. Answered'
    BY <1>5 DEF Die, Inv, Answered
  <2> QED BY <1>0, <2>1, <2>2, <2>3
             DEF Inv, OneSubmitter, NotCalledYet, HasRender, Billed, Past, Key, NoSubmit,
             OneProviderJob, KnownJobIsBilled
<1>6. ASSUME UNCHANGED <<renders, submit, calls>>, ~Die, ~(\E p \in Pollers : StoreAnswer(p))
      PROVE  Inv'
  <2>1. Answered'
    <3>1. CASE UNCHANGED poll
      BY <3>1 DEF Inv, Answered
    <3>2. ASSUME NEW p \in Pollers, NEW k \in Keys, BeginPoll(p, k) PROVE Answered'
      BY <1>0, <3>2 DEF BeginPoll, Inv, Answered, TypeOK
    <3>3. ASSUME NEW p \in Pollers, AskProvider(p) PROVE Answered'
      <4>1. \A said : statusFor(said) # "NONE"
        BY DEF statusFor, JobStatus
      <4>2. CASE poll' = [poll EXCEPT ![p] = NoPoll]
        BY <1>0, <4>2 DEF Inv, Answered, TypeOK, NoPoll
      <4>3. ASSUME NEW a, a # "NONE", poll' = [poll EXCEPT ![p].step = "store", ![p].answer = a]
            PROVE  Answered'
        <5>1. poll'[p].answer = a /\ \A q \in Pollers \ {p} : poll'[q] = poll[q]
          BY <1>0, <3>3, <4>3, PollType DEF TypeOK, AskProvider, PollAt, Polls
        <5> QED BY <4>3, <5>1 DEF Inv, Answered
      <4> QED BY <3>3, <4>1, <4>2, <4>3 DEF AskProvider
    <3>4. ASSUME NEW p \in Pollers, AdvanceProduction(p) PROVE Answered'
      BY <1>0, <3>4 DEF AdvanceProduction, Inv, Answered, TypeOK, NoPoll
    <3> QED BY <1>6, <3>1, <3>2, <3>3, <3>4
               DEF Next, vars, ProviderWorks, ReadForAdvance, Advance, createQc,
               BeginGate, CheckReport, PassGate, Begin, Submit, createRenderJob, CallProvider,
               BillJob,
               RecordJob, RebillJob, RecordUnknown, RecordRefused
  <2> QED BY <1>0, <1>6, <2>1, Elsewhere DEF renders
<1>7. UNCHANGED <<renders, submit, calls>> \/ Die
        \/ (\E s \in Submitters, k \in Keys, o \in Operations : Begin(s, k, o))
        \/ (\E s \in Submitters : Submit(s)) \/ (\E p \in Pollers : StoreAnswer(p))
  BY DEF Next, vars, provider, ProviderWorks, BeginPoll, AskProvider, AdvanceProduction,
         ReadForAdvance,
         Advance, createQc, BeginGate, CheckReport, PassGate
<1> QED BY <1>1, <1>2, <1>3, <1>4, <1>5, <1>6, <1>7

\* The invariant above holds of every reachable state.
THEOREM InvAlways == Spec => []Inv
BY InvInit, InvNext, PTL DEF Spec

\* However calls with one key race, fail and are repeated, the provider is asked once.
THEOREM OneProviderJobAlways == Spec => []OneProviderJob
BY InvAlways, PTL DEF Inv

\* Whichever statement fails, a render that knows its job has a usage that knows it.
THEOREM KnownJobIsBilledAlways == Spec => []KnownJobIsBilled
BY InvAlways, PTL DEF Inv
-----------------------------------------------------------------------------
(* What a render says of its job.                                          *)

\* A job there is was asked for.
KnownJob == \A k \in Keys : calls[k] = 0 => job[k] = "NONE" /\ k \notin answered

\* A final status is the job's own, but for a render that failed before its provider had
\* confirmed anything; such a one, like a QUEUED one, has no job to be polled for.
StoredIsReal ==
  \A k \in Keys :
    /\ render[k].status = "QUEUED" => ~render[k].job
    /\ render[k].status = "COMPLETED" => job[k] = "COMPLETED"
    /\ render[k].status = "FAILED" => job[k] = "FAILED" \/ (~render[k].job /\ k \notin answered)

\* Whoever calls the provider has a QUEUED render, and whoever takes its creation for
\* refused has had no answer.
InHand ==
  \A s \in Submitters :
    /\ submit[s].step = "call" => render[Key(s)].status = "QUEUED"
    /\ submit[s].step = "refused" => Key(s) \notin answered

\* What a poll has read and heard is the job's, however long ago: a final status stays.
SeenIsReal(p) ==
  /\ poll[p].seen # "QUEUED"
  /\ poll[p].seen \in {"COMPLETED", "FAILED"} => job[poll[p].key] = poll[p].seen
HeardIsReal(p) ==
  /\ poll[p].answer \in VideoProviderJobStatus
  /\ poll[p].answer \in {"COMPLETED", "FAILED"} => job[poll[p].key] = poll[p].answer
  /\ poll[p].seen \in {"COMPLETED", "FAILED"} => poll[p].answer \in {poll[p].seen, "OUTCOME_UNKNOWN"}
PollsAreReal ==
  \A p \in Pollers : /\ poll[p].step # "idle" => SeenIsReal(p)
                     /\ poll[p].step = "store" => HeardIsReal(p)

RealInv == KnownJob /\ StoredIsReal /\ InHand /\ PollsAreReal

LEMMA RealInit == Init => RealInv
BY DEF Init, RealInv, KnownJob, StoredIsReal, InHand, PollsAreReal, NoRender, NoSubmit, NoPoll

\* The final statuses of jobs stay, and nobody but the calls of submit touches answered.
LEMMA RealPolls ==
  ASSUME Inv, RealInv, UNCHANGED poll,
         \A k \in Keys : job[k] \in {"COMPLETED", "FAILED"} => job'[k] = job[k]
  PROVE  PollsAreReal'
<1>1. \A p \in Pollers : poll[p].step # "idle" => poll[p].key \in Keys
  BY PollType DEF Inv, Polls
<1> QED BY <1>1 DEF RealInv, PollsAreReal, SeenIsReal, HeardIsReal

\* Calls of submit that do not move keep what they hold, when the renders they are about
\* stay QUEUED and unanswered.
LEMMA RealStill ==
  ASSUME Inv, RealInv, UNCHANGED <<submit, answered>>,
         \A k \in Keys : render[k].status = "QUEUED" => render'[k].status = "QUEUED"
  PROVE  InHand'
<1>1. \A s \in Submitters : submit[s].step # "idle" => Key(s) \in Keys
  BY SubmitType DEF Inv
<1> QED BY <1>1 DEF RealInv, InHand, Key

LEMMA RealSubmit ==
  ASSUME Inv, RealInv, NEW s \in Submitters, Submit(s)
  PROVE  RealInv'
<1> DEFINE k == Key(s)
<1>0. /\ TypeOK /\ k \in Keys /\ submit[s].operation \in Operations
      /\ \A t \in Submitters : submit[t].step # "idle" => Key(t) \in Keys
  BY SubmitType
     DEF Inv, Submit, createRenderJob, CallProvider, BillJob, RecordJob, RebillJob, RecordUnknown,
                    RecordRefused, At
<1>1. UNCHANGED poll /\ \A t \in Submitters \ {s} : submit'[t] = submit[t]
  BY <1>0
     DEF TypeOK, Submit, createRenderJob, CallProvider, BillJob, RecordJob, RebillJob,
         RecordUnknown,
         RecordRefused, Goto, Finish
<1>2. ~createRenderJob(s) =>
        \A t \in Submitters \ {s} : submit[t].step \in {"call", "refused"} => Key(t) # k
  BY DEF Inv, OneSubmitter, Past, Submit, CallProvider, BillJob, RecordJob, RebillJob,
         RecordUnknown,
         RecordRefused, At
<1>3. CASE createRenderJob(s)
  <2>1. UNCHANGED provider
    BY <1>3 DEF createRenderJob
  <2>2. CASE UNCHANGED render /\ Finish(s)
    <3>1. submit'[s].step = "idle"
      BY <1>0, <2>2 DEF Finish, TypeOK, NoSubmit
    <3>2. InHand'
      BY <1>1, <2>1, <2>2, <3>1 DEF RealInv, InHand, Key, provider
    <3> QED BY <1>1, <2>1, <2>2, <3>2, RealPolls DEF RealInv, KnownJob, StoredIsReal, provider
  <2>3. CASE /\ render[k].status = "NONE" /\ render' = [render EXCEPT ![k] = Queued(s)]
             /\ Goto(s, "call")
    <3>1. /\ submit'[s].step = "call" /\ Key(s)' = k
          /\ render'[k].status = "QUEUED" /\ ~render'[k].job
          /\ \A j \in Keys \ {k} : render'[j] = render[j]
      BY <1>0, <1>3, <2>3 DEF createRenderJob, At, Goto, Key, Queued, TypeOK, NoSubmit
    <3>2. StoredIsReal' /\ KnownJob'
      BY <2>1, <3>1 DEF RealInv, StoredIsReal, KnownJob, provider
    <3>3. InHand'
      BY <1>0, <1>1, <2>1, <2>3, <3>1 DEF RealInv, InHand, Key, provider
    <3> QED BY <1>1, <2>1, <3>2, <3>3, RealPolls DEF RealInv, provider
  <2> QED BY <1>0, <1>3, <2>2, <2>3 DEF createRenderJob
<1>4. CASE CallProvider(s)
  <2>1. calls[k] = 0 /\ job[k] = "NONE" /\ k \notin answered /\ render[k].status = "QUEUED"
    BY <1>0, <1>4 DEF Inv, NotCalledYet, RealInv, KnownJob, InHand, CallProvider, At
  <2>2. /\ UNCHANGED render
        /\ \A j \in Keys \ {k} : job'[j] = job[j] /\ calls'[j] = calls[j] /\ (j \in answered' <=> j \in answered)
        /\ calls'[k] = 0 => job'[k] = "NONE" /\ k \notin answered'
        /\ submit'[s].step = "refused" => k \notin answered'
        /\ submit'[s].step \in {"bill", "refused"} /\ Key(s)' = k
    BY <1>0, <1>4, <2>1
       DEF CallProvider, Created, Goto, Key, At, TypeOK, NoSubmit, provider, renders
  <2>3. KnownJob' /\ StoredIsReal'
    BY <2>1, <2>2 DEF RealInv, KnownJob, StoredIsReal
  <2>4. InHand'
    <3>1. \A t \in Submitters \ {s} : submit'[t].step \in {"call", "refused"} =>
            Key(t)' = Key(t) /\ Key(t) \in Keys \ {k} /\ submit'[t] = submit[t]
      BY <1>0, <1>1, <1>2, <1>4 DEF Key, CallProvider, createRenderJob, At
    <3> QED BY <2>2, <3>1 DEF RealInv, InHand
  <2>5. PollsAreReal'
    BY <1>1, <2>1, <2>2, RealPolls
  <2> QED BY <2>3, <2>4, <2>5 DEF RealInv
<1>5. CASE BillJob(s) \/ RebillJob(s)
  <2>1. UNCHANGED <<render, provider>> /\ submit'[s].step \notin {"call", "refused"}
    BY <1>0, <1>5 DEF BillJob, RebillJob, Goto, Finish, At, TypeOK, NoSubmit
  <2>2. InHand'
    BY <1>1, <2>1 DEF RealInv, InHand, Key, provider
  <2> QED BY <1>1, <2>1, <2>2, RealPolls DEF RealInv, KnownJob, StoredIsReal, provider
<1>6. CASE RecordJob(s) \/ RecordUnknown(s) \/ RecordRefused(s)
  <2>1. UNCHANGED provider /\ submit'[s].step \notin {"call", "refused"}
    BY <1>0, <1>6 DEF RecordJob, RecordUnknown, RecordRefused, Goto, Finish, At, TypeOK, NoSubmit
  <2>2. \/ UNCHANGED render
        \/ \E status \in {"SUBMITTED", "OUTCOME_UNKNOWN"} :
             updateRenderJob(k, "QUEUED", Submitted(k, status))
        \/ k \notin answered /\ updateRenderJob(k, "QUEUED", [render[k] EXCEPT !.status = "FAILED"])
    BY <1>6 DEF RecordJob, RecordUnknown, RecordRefused, RealInv, InHand, At
  <2>3. /\ \A j \in Keys \ {k} : render'[j] = render[j]
        /\ \/ render'[k] = render[k]
           \/ render'[k].status \in {"SUBMITTED", "OUTCOME_UNKNOWN"}
           \/ render'[k].status = "FAILED" /\ ~render'[k].job /\ k \notin answered
    <3>1. /\ render[k].status = "QUEUED" => ~render[k].job
          /\ render \in [Keys -> Renders]
      BY <1>0 DEF RealInv, StoredIsReal, TypeOK, Renders
    <3>2. ASSUME NEW status \in {"SUBMITTED", "OUTCOME_UNKNOWN"},
                 updateRenderJob(k, "QUEUED", Submitted(k, status))
          PROVE  /\ \A j \in Keys \ {k} : render'[j] = render[j]
                 /\ render'[k] = render[k] \/ render'[k].status = status
      BY <1>0, <3>1, <3>2 DEF updateRenderJob, Submitted, Renders
    <3>3. ASSUME updateRenderJob(k, "QUEUED", [render[k] EXCEPT !.status = "FAILED"])
          PROVE  /\ \A j \in Keys \ {k} : render'[j] = render[j]
                 /\ render'[k] = render[k] \/ (render'[k].status = "FAILED" /\ ~render'[k].job)
      BY <1>0, <3>1, <3>3 DEF updateRenderJob, Renders
    <3> QED BY <2>2, <3>2, <3>3
  <2>4. StoredIsReal'
    BY <2>1, <2>3 DEF RealInv, StoredIsReal, provider
  <2>5. InHand'
    <3>1. \A t \in Submitters \ {s} : submit'[t].step \in {"call", "refused"} =>
            Key(t)' = Key(t) /\ Key(t) \in Keys \ {k} /\ submit'[t] = submit[t]
      BY <1>0, <1>1, <1>2, <1>6
         DEF Key, RecordJob, RecordUnknown, RecordRefused, createRenderJob, At
    <3> QED BY <2>1, <2>3, <3>1 DEF RealInv, InHand, provider
  <2> QED BY <1>1, <2>1, <2>4, <2>5, RealPolls DEF RealInv, KnownJob, provider
<1> QED BY <1>3, <1>4, <1>5, <1>6 DEF Submit

LEMMA RealStore ==
  ASSUME Inv, RealInv, NEW p \in Pollers, StoreAnswer(p)
  PROVE  /\ RealInv'
         /\ \A k \in Keys : render[k].status \in {"COMPLETED", "FAILED"} =>
              render'[k].status \in {render[k].status, "OUTCOME_UNKNOWN"}
<1> DEFINE k == poll[p].key
<1>1. TypeOK /\ k \in Keys /\ SeenIsReal(p) /\ HeardIsReal(p)
  BY PollType DEF Inv, StoreAnswer, PollAt, Polls, RealInv, PollsAreReal
<1>2. UNCHANGED <<submit, provider>>
  BY DEF StoreAnswer
<1>3. /\ \A j \in Keys \ {k} : render'[j] = render[j]
      /\ \/ render'[k] = render[k]
         \/ /\ render[k].status = poll[p].seen /\ render'[k].status = poll[p].answer
            /\ render'[k].job = render[k].job
  BY <1>1 DEF StoreAnswer, updateRenderJob, TypeOK
<1>4. StoredIsReal'
  BY <1>1, <1>2, <1>3
     DEF RealInv, StoredIsReal, HeardIsReal, VideoProviderJobStatus, JobStatus, provider
<1>5. InHand'
  BY <1>1, <1>2, <1>3, RealStill DEF SeenIsReal, provider
<1>6. PollsAreReal'
  <2>1. poll' = [poll EXCEPT ![p].step = "advance"] \/ poll' = [poll EXCEPT ![p] = NoPoll]
    BY DEF StoreAnswer, AfterAnswer, PollGoto
  <2>2. /\ \A q \in Pollers \ {p} : poll'[q] = poll[q]
        /\ \/ poll'[p] = NoPoll
           \/ /\ poll'[p].step = "advance" /\ poll'[p].seen = poll[p].seen /\ poll'[p].key = poll[p].key
    BY <1>1, <2>1, PollType DEF TypeOK, StoreAnswer, PollAt, Polls
  <2> QED BY <1>1, <1>2, <2>2 DEF RealInv, PollsAreReal, SeenIsReal, HeardIsReal, NoPoll, provider
<1>7. \A j \in Keys : render[j].status \in {"COMPLETED", "FAILED"} =>
        render'[j].status \in {render[j].status, "OUTCOME_UNKNOWN"}
  BY <1>1, <1>3 DEF HeardIsReal
<1> QED BY <1>2, <1>4, <1>5, <1>6, <1>7 DEF RealInv, KnownJob, provider

LEMMA RealNext == Inv /\ RealInv /\ [Next]_vars => RealInv'
<1> SUFFICES ASSUME Inv, RealInv, [Next]_vars PROVE RealInv'
  OBVIOUS
<1>0. TypeOK
  BY DEF Inv
<1>1. ASSUME NEW s \in Submitters, NEW k \in Keys, NEW o \in Operations, Begin(s, k, o)
      PROVE  RealInv'
  <2>1. /\ submit'[s].step = "create" /\ \A t \in Submitters \ {s} : submit'[t] = submit[t]
        /\ UNCHANGED <<render, poll, provider>>
    BY <1>0, <1>1 DEF Begin, TypeOK, renders
  <2>2. InHand'
    BY <2>1 DEF RealInv, InHand, Key, provider
  <2> QED BY <2>1, <2>2, RealPolls DEF RealInv, KnownJob, StoredIsReal, provider
<1>2. ASSUME NEW s \in Submitters, Submit(s) PROVE RealInv'
  BY <1>2, RealSubmit
<1>3. ASSUME NEW k \in Keys, ProviderWorks(k) PROVE RealInv'
  <2>1. /\ UNCHANGED <<render, submit, poll, calls, answered>>
        /\ job[k] \in {"SUBMITTED", "PROCESSING"} /\ \A j \in Keys \ {k} : job'[j] = job[j]
    BY <1>0, <1>3 DEF ProviderWorks, TypeOK, renders
  <2>2. InHand'
    BY <2>1, RealStill
  <2>3. KnownJob' /\ StoredIsReal'
    BY <2>1 DEF RealInv, KnownJob, StoredIsReal
  <2>4. PollsAreReal'
    BY <2>1, RealPolls
  <2> QED BY <2>2, <2>3, <2>4 DEF RealInv
<1>4. ASSUME NEW p \in Pollers, NEW k \in Keys, BeginPoll(p, k) PROVE RealInv'
  <2>1. /\ UNCHANGED <<render, submit, provider>> /\ render[k].job
        /\ \A q \in Pollers \ {p} : poll'[q] = poll[q]
        /\ poll'[p].step = "ask" /\ poll'[p].key = k /\ poll'[p].seen = render[k].status
    BY <1>0, <1>4 DEF BeginPoll, TypeOK, renders
  <2>2. PollsAreReal'
    BY <2>1 DEF RealInv, PollsAreReal, SeenIsReal, HeardIsReal, StoredIsReal, provider
  <2> QED BY <2>1, <2>2, RealStill DEF RealInv, KnownJob, StoredIsReal, provider
<1>5. ASSUME NEW p \in Pollers, AskProvider(p) PROVE RealInv'
  <2>1. /\ UNCHANGED <<render, submit, provider>> /\ poll[p].key \in Keys /\ SeenIsReal(p)
        /\ \A q \in Pollers \ {p} : poll'[q] = poll[q]
    BY <1>0, <1>5, PollType DEF AskProvider, PollAt, TypeOK, Polls, renders, RealInv, PollsAreReal
  <2>2. CASE poll' = [poll EXCEPT ![p] = NoPoll]
    BY <1>0, <2>1, <2>2, RealStill
       DEF RealInv, KnownJob, StoredIsReal, PollsAreReal, SeenIsReal, HeardIsReal,
                                 TypeOK, NoPoll, provider
  <2>3. ASSUME NEW a \in {statusFor(job[poll[p].key]), "OUTCOME_UNKNOWN"},
               poll' = [poll EXCEPT ![p].step = "store", ![p].answer = a]
        PROVE  RealInv'
    <3>1. /\ poll'[p].step = "store" /\ poll'[p].key = poll[p].key /\ poll'[p].seen = poll[p].seen
          /\ poll'[p].answer = a
      BY <1>0, <1>5, <2>1, <2>3, PollType DEF AskProvider, PollAt, TypeOK, Polls
    <3>2. /\ a \in VideoProviderJobStatus
          /\ a \in {"COMPLETED", "FAILED"} => job[poll[p].key] = a
          /\ job[poll[p].key] \in {"COMPLETED", "FAILED"} => a \in {job[poll[p].key], "OUTCOME_UNKNOWN"}
      BY <2>3 DEF statusFor, VideoProviderJobStatus, JobStatus
    <3>3. PollsAreReal'
      BY <2>1, <3>1, <3>2 DEF RealInv, PollsAreReal, SeenIsReal, HeardIsReal, provider
    <3> QED BY <2>1, <3>3, RealStill DEF RealInv, KnownJob, StoredIsReal, provider
  <2> QED BY <1>5, <2>2, <2>3 DEF AskProvider
<1>6. ASSUME NEW p \in Pollers, StoreAnswer(p) PROVE RealInv'
  BY <1>6, RealStore
<1>7. ASSUME NEW p \in Pollers, AdvanceProduction(p) PROVE RealInv'
  <2>1. UNCHANGED <<render, submit, provider>>
    BY <1>7 DEF AdvanceProduction, renders
  <2> QED BY <1>0, <1>7, <2>1, RealStill
             DEF AdvanceProduction, RealInv, KnownJob, StoredIsReal, PollsAreReal,
                                       SeenIsReal, HeardIsReal, TypeOK, NoPoll, provider
<1>8. CASE Die
  <2>1. UNCHANGED <<render, poll, provider>>
    BY <1>8 DEF Die, renders
  <2>2. \A t \in Submitters : submit'[t] = submit[t] \/ submit'[t] = NoSubmit
    BY <1>0, <1>8 DEF Die, Finish, TypeOK
  <2>3. InHand'
    BY <2>1, <2>2 DEF RealInv, InHand, Key, NoSubmit, provider
  <2> QED BY <2>1, <2>3, RealPolls DEF RealInv, KnownJob, StoredIsReal, provider
<1>9. CASE UNCHANGED <<render, submit, poll, provider>>
  BY <1>9, RealStill, RealPolls DEF RealInv, KnownJob, StoredIsReal, provider
<1> QED BY <1>1, <1>2, <1>3, <1>4, <1>5, <1>6, <1>7, <1>8, <1>9
        DEF Next, vars, renders, ReadForAdvance, Advance, createQc, BeginGate, CheckReport, PassGate

\* Whatever statement of submit fails, and in whatever order polls answer, a render that
\* the provider has confirmed is FAILED only when the provider's own job is.
THEOREM ConfirmedIsNotFailedAlways == Spec => []ConfirmedIsNotFailed
<1>1. Inv /\ RealInv => ConfirmedIsNotFailed
  BY DEF Inv, TypeOK, RealInv, StoredIsReal, ConfirmedIsNotFailed
<1> QED BY <1>1, InvInit, InvNext, RealInit, RealNext, PTL DEF Spec

\* No poll, however late its answer, overwrites a final status with anything but an
\* answer without meaning.
THEOREM FinishedStaysFinishedAlways == Spec => FinishedStaysFinished
<1> DEFINE Stays == \A k \in Keys : render[k].status \in {"COMPLETED", "FAILED"} =>
                      render'[k].status \in {render[k].status, "OUTCOME_UNKNOWN"}
<1>1. Inv /\ RealInv /\ [Next]_vars => [Stays]_vars
  <2> SUFFICES ASSUME Inv, RealInv, [Next]_vars PROVE Stays
    OBVIOUS
  <2>1. ASSUME NEW p \in Pollers, StoreAnswer(p) PROVE Stays
    BY <2>1, RealStore
  <2>2. ASSUME NEW s \in Submitters, Submit(s) PROVE Stays
    <3>1. Key(s) \in Keys /\ TypeOK
      BY <2>2, SubmitType
         DEF Inv, Submit, createRenderJob, CallProvider, BillJob, RecordJob, RebillJob,
                              RecordUnknown, RecordRefused, At
    <3>2. \/ UNCHANGED render
          \/ render[Key(s)].status = "NONE" /\ render' = [render EXCEPT ![Key(s)] = Queued(s)]
          \/ \E new : updateRenderJob(Key(s), "QUEUED", new)
      BY <2>2, <3>1
         DEF Submit, createRenderJob, CallProvider, BillJob, RecordJob, RebillJob, RecordUnknown,
                 RecordRefused, renders
    <3> QED BY <3>1, <3>2 DEF updateRenderJob, TypeOK
  <2>3. UNCHANGED render \/ (\E s \in Submitters : Submit(s)) \/ (\E p \in Pollers : StoreAnswer(p))
    BY DEF Next, vars, renders, Begin, ProviderWorks, BeginPoll, AskProvider, AdvanceProduction,
           ReadForAdvance,
           Advance, createQc, BeginGate, CheckReport, PassGate, Die
  <2> QED BY <2>1, <2>2, <2>3
<1> QED BY <1>1, InvInit, InvNext, RealInit, RealNext, PTL DEF Spec, FinishedStaysFinished
-----------------------------------------------------------------------------
(* The production's moves.                                                 *)

\* A pending move is one of the table, and the gate that is open has seen a PASSED report.
MovesInv ==
  /\ \A e \in Editors : advance[e].step = "read" => advance[e].to \in videoProductionTransitions[advance[e].from]
  /\ report = "PASSED" => qualified
  /\ \A g \in Gates : gate[g] = "passed" => qualified

LEMMA MovesInit == Init => MovesInv
BY DEF Init, MovesInv, NoAdvance

LEMMA MovesNext ==
  TypeOK /\ MovesInv /\ [Next]_vars
    => /\ MovesInv'
       /\ production' # production =>
            \/ production' \in videoProductionTransitions[production]
            \/ production = "QC" /\ production' = "READY" /\ qualified
<1> SUFFICES ASSUME TypeOK, MovesInv, [Next]_vars
             PROVE  /\ MovesInv'
                    /\ production' # production =>
                         \/ production' \in videoProductionTransitions[production]
                         \/ production = "QC" /\ production' = "READY" /\ qualified
  OBVIOUS
<1>1. ASSUME NEW e \in Editors, ReadForAdvance(e) PROVE MovesInv' /\ UNCHANGED production
  BY <1>1 DEF ReadForAdvance, TypeOK, MovesInv, qc
<1>2. ASSUME NEW e \in Editors, Advance(e)
      PROVE  MovesInv' /\ (production' # production => production' \in videoProductionTransitions[production])
  BY <1>2 DEF Advance, transitionProduction, TypeOK, MovesInv, NoAdvance, qc
<1>3. ASSUME NEW p \in Pollers, AdvanceProduction(p)
      PROVE  MovesInv' /\ (production' # production => production' \in videoProductionTransitions[production])
  BY <1>3 DEF AdvanceProduction, transitionProduction, MovesInv, videoProductionTransitions, qc
<1>4. ASSUME NEW outcome \in QcOutcomes, createQc(outcome) PROVE MovesInv' /\ UNCHANGED production
  BY <1>4 DEF createQc, TypeOK, MovesInv
<1>5. ASSUME NEW g \in Gates, BeginGate(g) \/ CheckReport(g) PROVE MovesInv' /\ UNCHANGED production
  BY <1>5 DEF BeginGate, CheckReport, TypeOK, MovesInv
<1>6. ASSUME NEW g \in Gates, PassGate(g)
      PROVE  /\ MovesInv'
             /\ production' # production => production = "QC" /\ production' = "READY" /\ qualified
  BY <1>6 DEF PassGate, transitionProduction, TypeOK, MovesInv
<1>7. CASE UNCHANGED <<production, advance, qc>>
  BY <1>7 DEF MovesInv, qc
<1> QED BY <1>1, <1>2, <1>3, <1>4, <1>5, <1>6, <1>7
        DEF Next, vars, Begin, Submit, createRenderJob, CallProvider, BillJob, RecordJob,
            RebillJob, RecordUnknown,
            RecordRefused, ProviderWorks, BeginPoll, AskProvider, StoreAnswer, Die

\* However old the reading it acts on, whoever moves the production moves it along the
\* table, or through the gate after a PASSED report.
THEOREM LegalMovesAlways == Spec => LegalMoves
<1>1. TypeOK /\ MovesInv /\ [Next]_vars =>
        [production' # production =>
           \/ production' \in videoProductionTransitions[production]
           \/ production = "QC" /\ production' = "READY" /\ qualified]_vars
  BY MovesNext
<1> QED BY <1>1, TypeInit, TypeNext, MovesInit, MovesNext, PTL DEF Spec, LegalMoves
=============================================================================
