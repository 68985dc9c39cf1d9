------------------------- MODULE ContentProjectProofs -------------------------
(***************************************************************************)
(* Theorems about ContentProject, for every set of keys, requests and      *)
(* slots, any number of versions and any number of deaths.                 *)
(***************************************************************************)
EXTENDS ContentProject, TLAPS

-----------------------------------------------------------------------------
(* Type correctness.                                                       *)

\* Each kind of request works on an execution of its own kind, and a pending
\* transition is one the table and the callers allow, and a fact check has read
\* a version that exists.
RequestInv ==
  /\ \A g \in Generations : request[g].step # "idle" => request[g].exec \in Drafts
  /\ \A w \in Rewrites : request[w].step # "idle" => request[w].exec = w
MoveInv ==
  \A m \in Movers : move[m].step = "read" => move[m].to \in Targets \cap transitions[move[m].from]
CheckInv ==
  \A c \in Checkers : check[c].step # "idle" => check[c].version \in 1..Len(versions)
TypeInv == TypeOK /\ RequestInv /\ MoveInv /\ CheckInv

LEMMA Kinds ==
  /\ Drafts \subseteq Executions /\ Rewrites \subseteq Executions /\ Person \notin Executions
  /\ Generations \subseteq Requests /\ Rewrites \subseteq Requests
  /\ Drafts \cap Rewrites = {} /\ Generations \cap Rewrites = {}
  /\ \A r \in Requests : r \in Generations \/ r \in Rewrites
  /\ Targets \subseteq Statuses
BY ContentAssumption DEF Executions, Requests

LEMMA TypeInit == Init => TypeInv
<1> SUFFICES ASSUME Init PROVE TypeInv
  OBVIOUS
<1>1. /\ "IDEA" \in Statuses /\ "none" \in ExecutionStatus /\ "none" \in Verdicts
      /\ "idle" \in Steps
  BY DEF Statuses, ExecutionStatus, Verdicts, Steps
<1>2. versions \in Seq(Executions \cup {Person}) /\ claims \subseteq 1..Len(versions)
  <2>1. <<>> \in Seq(Executions \cup {Person}) /\ <<Person>> \in Seq(Executions \cup {Person})
    OBVIOUS
  <2> QED BY <2>1 DEF Init
<1>3. request \in [Requests -> [step : Steps, exec : Executions \cup {NoDraft}]]
  BY <1>1 DEF Init, Free
<1>4. \A r \in Requests : request[r].step = "idle"
  BY DEF Init, Free
<1>5. /\ check \in [Checkers -> [step : {"idle", "read", "entered"}, version : Nat]]
      /\ \A c \in Checkers : check[c].step = "idle"
  BY DEF Init, Unread
<1>6. /\ move \in [Movers -> [step : {"idle", "read"}, from : Statuses, to : Statuses]]
      /\ \A m \in Movers : move[m].step = "idle"
  BY <1>1 DEF Init, NoMove
<1> QED BY <1>1, <1>2, <1>3, <1>4, <1>5, <1>6, Kinds
           DEF Init, TypeInv, TypeOK, RequestInv, MoveInv, CheckInv

\* A request that goes on keeps its execution, and one that ends has none.
LEMMA RequestType ==
  ASSUME TypeInv, NEW r \in Requests, request[r].step # "idle",
         Finish(r) \/ (\E s \in Steps : Goto(r, s))
  PROVE  /\ request' \in [Requests -> [step : Steps, exec : Executions \cup {NoDraft}]]
         /\ \A q \in Requests : request'[q].step # "idle" => request'[q].exec \in Executions
         /\ RequestInv'
<1>1. CASE Finish(r)
  <2>1. Free \in [step : Steps, exec : Executions \cup {NoDraft}] /\ Free.step = "idle"
    BY DEF Free, Steps
  <2> QED BY <1>1, <2>1, Kinds DEF TypeInv, TypeOK, RequestInv, Finish
<1>2. CASE \E s \in Steps : Goto(r, s)
  <2> PICK s \in Steps : Goto(r, s)
    BY <1>2
  <2>1. /\ request'[r].step = s /\ request'[r].exec = request[r].exec
        /\ request'[r] \in [step : Steps, exec : Executions \cup {NoDraft}]
        /\ \A q \in Requests \ {r} : request'[q] = request[q]
        /\ request' \in [Requests -> [step : Steps, exec : Executions \cup {NoDraft}]]
    BY DEF TypeInv, TypeOK, Goto
  <2> QED BY <2>1, Kinds DEF TypeInv, TypeOK, RequestInv
<1> QED BY <1>1, <1>2

\* A new version keeps the sequence's type and the numbers of the earlier ones.
LEMMA Appended ==
  ASSUME TypeInv, NEW a \in Executions \cup {Person}, versions' = Append(versions, a)
  PROVE  /\ versions' \in Seq(Executions \cup {Person})
         /\ Len(versions') = Len(versions) + 1
         /\ Len(versions) \in Nat
         /\ versions'[Len(versions) + 1] = a
         /\ \A i \in 1..Len(versions) : versions'[i] = versions[i]
         /\ 1..Len(versions) \subseteq 1..Len(versions')
BY DEF TypeInv, TypeOK

LEMMA Names ==
  /\ {"new", "retry", "claimed", "provider", "failing"} \subseteq Steps
  /\ {"PENDING", "RUNNING", "SUCCEEDED", "FAILED"} \subseteq ExecutionStatus
  /\ {"IDEA", "RESEARCHING", "DRAFT", "FACT_CHECK", "REVIEW", "APPROVED", "REJECTED", "FAILED"} \subseteq Statuses
BY DEF Steps, ExecutionStatus, Statuses

LEMMA TypeNext == TypeInv /\ [Next]_vars => TypeInv'
<1> SUFFICES ASSUME TypeInv, [Next]_vars PROVE TypeInv'
  OBVIOUS
<1> USE Kinds, Names
<1>1. ASSUME NEW g \in Generations, NEW d \in Drafts, ReadExecution(g, d) PROVE TypeInv'
  <2>1. PICK s \in {"new", "retry"} : request' = [request EXCEPT ![g] = [step |-> s, exec |-> d]]
    BY <1>1 DEF ReadExecution
  <2> QED BY <1>1, <2>1 DEF ReadExecution, editing, TypeInv, TypeOK, RequestInv, MoveInv, CheckInv
<1>2. ASSUME NEW w \in Rewrites, StartRewrite(w) PROVE TypeInv'
  BY <1>2 DEF StartRewrite, editing, TypeInv, TypeOK, RequestInv, MoveInv, CheckInv
<1>3. ASSUME NEW r \in Requests, Work(r) PROVE TypeInv'
  <2>1. request[r].step # "idle" /\ request[r].exec \in Executions
    BY <1>3 DEF Work, At, ClaimRetry, ClaimNew, markRunning, completeGeneration, completeRewrite,
                GiveUp, failGeneration, FailRewrite, TypeInv, TypeOK
  <2>2. Finish(r) \/ \E s \in Steps : Goto(r, s)
    BY <1>3 DEF Work, ClaimRetry, ClaimNew, markRunning, completeGeneration, completeRewrite,
                GiveUp, failGeneration, FailRewrite
  <2>3. /\ request' \in [Requests -> [step : Steps, exec : Executions \cup {NoDraft}]]
        /\ \A q \in Requests : request'[q].step # "idle" => request'[q].exec \in Executions
        /\ RequestInv'
    BY <2>1, <2>2, RequestType
  <2>4. UNCHANGED <<editing, deaths>>
    BY <1>3 DEF Work, ClaimRetry, ClaimNew, markRunning, completeGeneration, completeRewrite,
                GiveUp, failGeneration, FailRewrite
  <2>5. exec' \in [Executions -> ExecutionStatus] /\ status' \in Statuses
    BY <1>3, <2>1 DEF Work, ClaimRetry, ClaimNew, markRunning, completeGeneration, completeRewrite,
                GiveUp, failGeneration, FailRewrite, markFailed, TypeInv, TypeOK
  <2>6. versions' \in Seq(Executions \cup {Person}) /\ 1..Len(versions) \subseteq 1..Len(versions')
    <3>1. UNCHANGED versions \/ \E e \in Executions : versions' = Append(versions, e)
      BY <1>3, <2>1
         DEF Work, ClaimRetry, ClaimNew, markRunning, completeGeneration, completeRewrite,
                  GiveUp, failGeneration, FailRewrite
    <3> QED BY <3>1, Appended DEF TypeInv, TypeOK
  <2> QED BY <2>3, <2>4, <2>5, <2>6 DEF editing, TypeInv, TypeOK, MoveInv, CheckInv
<1>4. ASSUME NEW c \in Checkers, ReadDraft(c) \/ EnterFactCheck(c) \/ RecordClaims(c) PROVE TypeInv'
  <2>1. CASE ReadDraft(c)
    <3>1. Len(versions) \in 1..Len(versions)
      BY <2>1 DEF ReadDraft, TypeInv, TypeOK
    <3> QED BY <2>1, <3>1 DEF ReadDraft, generating, TypeInv, TypeOK, RequestInv, MoveInv, CheckInv
  <2>2. CASE EnterFactCheck(c)
    <3>1. Unread \in [step : {"idle", "read", "entered"}, version : Nat] /\ Unread.step = "idle"
      BY DEF Unread
    <3>2. /\ check' \in [Checkers -> [step : {"idle", "read", "entered"}, version : Nat]]
          /\ status' \in Statuses
      <4>1. CASE status = "DRAFT"
        <5>1. /\ check' = [check EXCEPT ![c].step = "entered"]
              /\ status' = "FACT_CHECK"
          BY <2>2, <4>1 DEF EnterFactCheck
        <5> QED BY <5>1 DEF TypeInv, TypeOK
      <4>2. CASE status # "DRAFT"
        <5>1. check' = [check EXCEPT ![c] = Unread] /\ UNCHANGED status
          BY <2>2, <4>2 DEF EnterFactCheck
        <5> QED BY <5>1, <3>1 DEF TypeInv, TypeOK
      <4> QED BY <4>1, <4>2
    <3>3. CheckInv'
      <4>1. /\ check'[c].step = "idle" \/ check'[c].version = check[c].version
            /\ \A k \in Checkers \ {c} : check'[k] = check[k]
        BY <2>2, <3>1 DEF EnterFactCheck, TypeInv, TypeOK
      <4>2. check[c].step # "idle" /\ UNCHANGED versions
        BY <2>2 DEF EnterFactCheck
      <4> QED BY <4>1, <4>2 DEF TypeInv, CheckInv
    <3> QED BY <2>2, <3>2, <3>3 DEF EnterFactCheck, generating, TypeInv, TypeOK, RequestInv, MoveInv
  <2>3. CASE RecordClaims(c)
    BY <2>3
       DEF RecordClaims, upsertContentClaim, generating, Unread, TypeInv, TypeOK, RequestInv,
           MoveInv, CheckInv
  <2> QED BY <1>4, <2>1, <2>2, <2>3
<1>5. CASE appendVersion
  <2>1. /\ versions' \in Seq(Executions \cup {Person})
        /\ 1..Len(versions) \subseteq 1..Len(versions')
    BY <1>5, Appended DEF appendVersion
  <2> QED BY <1>5, <2>1
             DEF appendVersion, generating, editing, TypeInv, TypeOK, RequestInv, MoveInv, CheckInv
<1>6. CASE requestReview
  BY <1>6 DEF requestReview, generating, editing, TypeInv, TypeOK, RequestInv, MoveInv, CheckInv
<1>7. CASE approveManual \/ returnToDraft \/ reject
  BY <1>7 DEF approveManual, returnToDraft, reject, Decide, Verdicts, generating, editing,
              TypeInv, TypeOK, RequestInv, MoveInv, CheckInv
<1>8. ASSUME NEW m \in Movers, ReadForTransition(m) PROVE TypeInv'
  <2>1. PICK to \in Targets \cap transitions[status] :
          move' = [move EXCEPT ![m] = [step |-> "read", from |-> status, to |-> to]]
    BY <1>8 DEF ReadForTransition
  <2>2. move' \in [Movers -> [step : {"idle", "read"}, from : Statuses, to : Statuses]]
    BY <2>1 DEF TypeInv, TypeOK
  <2>3. MoveInv'
    BY <2>1 DEF TypeInv, TypeOK, MoveInv
  <2> QED BY <1>8, <2>2, <2>3
             DEF ReadForTransition, generating, TypeInv, TypeOK, RequestInv, CheckInv
<1>9. ASSUME NEW m \in Movers, Transition(m) PROVE TypeInv'
  <2>1. NoMove \in [step : {"idle", "read"}, from : Statuses, to : Statuses] /\ NoMove.step = "idle"
    BY DEF NoMove
  <2>2. /\ move' \in [Movers -> [step : {"idle", "read"}, from : Statuses, to : Statuses]]
        /\ MoveInv'
    BY <1>9, <2>1 DEF Transition, TypeInv, TypeOK, MoveInv
  <2>3. status' \in Statuses
    BY <1>9 DEF Transition, TypeInv, TypeOK
  <2> QED BY <1>9, <2>2, <2>3 DEF Transition, generating, TypeInv, TypeOK, RequestInv, CheckInv
<1>10. CASE ChangeProduction
  BY <1>10 DEF ChangeProduction, generating, TypeInv, TypeOK, RequestInv, MoveInv, CheckInv
<1>11. CASE Die
  <2>1. CASE \E r \in Requests : ~At(r, "idle") /\ Finish(r) /\ UNCHANGED check
    <3>1. /\ request' \in [Requests -> [step : Steps, exec : Executions \cup {NoDraft}]]
          /\ \A q \in Requests : request'[q].step # "idle" => request'[q].exec \in Executions
          /\ RequestInv'
      BY <2>1, RequestType DEF At
    <3> QED BY <1>11, <2>1, <3>1 DEF Die, TypeInv, TypeOK, MoveInv, CheckInv
  <2>2. CASE \E c \in Checkers : check' = [check EXCEPT ![c] = Unread] /\ UNCHANGED request
    BY <1>11, <2>2 DEF Die, Unread, TypeInv, TypeOK, RequestInv, MoveInv, CheckInv
  <2> QED BY <1>11, <2>1, <2>2 DEF Die
<1>12. CASE UNCHANGED vars
  BY <1>12 DEF vars, editing, TypeInv, TypeOK, RequestInv, MoveInv, CheckInv
<1> QED
  BY <1>1, <1>2, <1>3, <1>4, <1>5, <1>6, <1>7, <1>8, <1>9, <1>10, <1>11, <1>12 DEF Next

LEMMA TypeInvariant == Spec => []TypeInv
BY TypeInit, TypeNext, PTL DEF Spec

\* Every variable keeps its type: in particular claims are recorded only of
\* versions that exist, and a request at work has an execution.
THEOREM TypeCorrect == Spec => []TypeOK
<1>1. TypeInv => TypeOK
  BY DEF TypeInv
<1> QED BY <1>1, TypeInvariant, PTL

-----------------------------------------------------------------------------
(* One version per execution, and no draft of a project that waits for one. *)
(* The transition table is used as production uses it: nobody asks for a    *)
(* status in which a project waits for a draft.                             *)

Single   == \A e \in Executions : \A i, j \in 1..Len(versions) : versions[i] = e /\ versions[j] = e => i = j
Kept     == \A e \in Executions : exec[e] = "SUCCEEDED" => \E i \in 1..Len(versions) : versions[i] = e
Waiting  == status \in Unfinished => \A d \in Drafts : \A i \in 1..Len(versions) : versions[i] # d
Rewritten == \A w \in Rewrites : exec[w] # "SUCCEEDED" => \A i \in 1..Len(versions) : versions[i] # w
DraftInv == Single /\ Kept /\ Waiting /\ Rewritten

LEMMA DraftInit == Init => DraftInv
<1> SUFFICES ASSUME Init PROVE DraftInv
  OBVIOUS
<1>1. \A i \in 1..Len(versions) : versions[i] = Person
  BY DEF Init
<1> QED BY <1>1, Kinds DEF Init, DraftInv, Single, Kept, Waiting, Rewritten

\* What holds of a step that adds no version.
LEMMA NoVersion ==
  ASSUME DraftInv, UNCHANGED versions,
         status' \in Unfinished => status \in Unfinished,
         \A e \in Executions : exec'[e] = "SUCCEEDED" => exec[e] = "SUCCEEDED",
         \A w \in Rewrites : exec[w] = "SUCCEEDED" => exec'[w] = "SUCCEEDED"
  PROVE  DraftInv'
BY DEF DraftInv, Single, Kept, Waiting, Rewritten

\* What holds of a step that adds one, by a person or by an execution without one.
LEMMA OneVersion ==
  ASSUME TypeInv, DraftInv, NEW a \in Executions \cup {Person}, versions' = Append(versions, a),
         a # Person => (exec'[a] = "SUCCEEDED" /\ \A i \in 1..Len(versions) : versions[i] # a),
         \A e \in Executions \ {a} : exec'[e] = exec[e],
         a \in Drafts => status' \notin Unfinished,
         status' \in Unfinished => status \in Unfinished
  PROVE  DraftInv'
<1>1. /\ Len(versions') = Len(versions) + 1 /\ Len(versions) \in Nat
      /\ versions'[Len(versions) + 1] = a
      /\ \A i \in 1..Len(versions) : versions'[i] = versions[i]
  BY Appended
<1>2. \A i \in 1..Len(versions') : i \in 1..Len(versions) \/ (i = Len(versions) + 1 /\ versions'[i] = a)
  BY <1>1
<1>3. Single'
  <2> SUFFICES ASSUME NEW e \in Executions, NEW i \in 1..Len(versions'), NEW j \in 1..Len(versions'),
                      versions'[i] = e, versions'[j] = e
               PROVE  i = j
    BY DEF Single
  <2> QED BY <1>1, <1>2, Kinds DEF DraftInv, Single
<1>4. Kept'
  <2> SUFFICES ASSUME NEW e \in Executions, exec'[e] = "SUCCEEDED"
               PROVE  \E i \in 1..Len(versions') : versions'[i] = e
    BY DEF Kept
  <2>1. CASE e = a
    BY <2>1, <1>1
  <2>2. CASE e # a
    <3>1. PICK i \in 1..Len(versions) : versions[i] = e
      BY <2>2 DEF DraftInv, Kept
    <3> QED BY <3>1, <1>1
  <2> QED BY <2>1, <2>2
<1>5. Waiting'
  BY <1>1, <1>2, Kinds DEF DraftInv, Waiting
<1>6. Rewritten'
  BY <1>1, <1>2, Kinds DEF DraftInv, Rewritten
<1> QED BY <1>3, <1>4, <1>5, <1>6 DEF DraftInv

LEMMA DraftNext ==
  ASSUME Targets \cap Unfinished = {}, TypeInv, DraftInv, [Next]_vars
  PROVE  DraftInv'
<1> USE Kinds
<1>1. ASSUME NEW g \in Generations, NEW d \in Drafts, ReadExecution(g, d) PROVE DraftInv'
  BY <1>1, NoVersion DEF ReadExecution
<1>2. ASSUME NEW w \in Rewrites, StartRewrite(w) PROVE DraftInv'
  BY <1>2, NoVersion DEF StartRewrite, TypeInv, TypeOK
<1>3. ASSUME NEW r \in Requests, Work(r) PROVE DraftInv'
  <2> DEFINE e == request[r].exec
  <2>1. r \in Generations /\ ~At(r, "idle") => e \in Drafts
    BY DEF TypeInv, RequestInv, At
  <2>2. r \in Rewrites /\ ~At(r, "idle") => e = r
    BY DEF TypeInv, RequestInv, At
  <2>3. exec \in [Executions -> ExecutionStatus]
    BY DEF TypeInv, TypeOK
  <2>4. CASE ClaimRetry(r)
    BY <2>1, <2>3, <2>4, NoVersion DEF ClaimRetry, At, Unfinished
  <2>5. CASE ClaimNew(r)
    BY <2>1, <2>3, <2>5, NoVersion DEF ClaimNew, At, Unfinished
  <2>6. CASE markRunning(r)
    <3>1. e \in Executions
      BY <2>1, <2>2, <2>6 DEF markRunning, At
    <3> QED BY <2>3, <2>6, <3>1, NoVersion DEF markRunning
  <2>7. CASE completeGeneration(r)
    <3>1. /\ e \in Drafts /\ versions' = Append(versions, e)
          /\ exec' = [exec EXCEPT ![e] = "SUCCEEDED"] /\ status = "RESEARCHING" /\ status' = "DRAFT"
      BY <2>1, <2>7 DEF completeGeneration, At
    <3>2. \A i \in 1..Len(versions) : versions[i] # e
      BY <3>1 DEF DraftInv, Waiting, Unfinished
    <3>3. status' \notin Unfinished
      BY <3>1 DEF Unfinished
    <3>4. e \in Executions \cup {Person} /\ exec'[e] = "SUCCEEDED"
          /\ \A x \in Executions \ {e} : exec'[x] = exec[x]
      BY <2>3, <3>1
    <3> QED BY <3>1, <3>2, <3>3, <3>4, OneVersion
  <2>8. CASE completeRewrite(r)
    <3>1. /\ r \in Rewrites /\ versions' = Append(versions, r) /\ exec[r] = "RUNNING"
          /\ exec' = [exec EXCEPT ![r] = "SUCCEEDED"] /\ UNCHANGED status
      BY <2>8 DEF completeRewrite
    <3>2. \A i \in 1..Len(versions) : versions[i] # r
      BY <3>1 DEF DraftInv, Rewritten
    <3>3. r \in Executions \cup {Person} /\ exec'[r] = "SUCCEEDED" /\ r \notin Drafts
          /\ \A x \in Executions \ {r} : exec'[x] = exec[x]
      BY <2>3, <3>1
    <3> QED BY <3>1, <3>2, <3>3, OneVersion
  <2>9. CASE GiveUp(r)
    BY <2>9, NoVersion DEF GiveUp
  <2>10. CASE failGeneration(r) \/ FailRewrite(r)
    <3>1. e \in Executions /\ (r \in Rewrites => e = r)
      BY <2>1, <2>2, <2>10 DEF failGeneration, FailRewrite, At
    <3>2. markFailed(e) /\ UNCHANGED versions /\ (status' \in Unfinished => status \in Unfinished)
      BY <2>10, <3>1 DEF failGeneration, FailRewrite, Unfinished
    <3>3. \A x \in Executions : (exec'[x] = "SUCCEEDED") <=> (exec[x] = "SUCCEEDED")
      BY <2>3, <3>1, <3>2 DEF markFailed
    <3> QED BY <3>2, <3>3, NoVersion
  <2> QED BY <1>3, <2>4, <2>5, <2>6, <2>7, <2>8, <2>9, <2>10 DEF Work
<1>4. ASSUME NEW c \in Checkers, ReadDraft(c) \/ EnterFactCheck(c) \/ RecordClaims(c)
      PROVE  DraftInv'
  BY <1>4, NoVersion
     DEF ReadDraft, EnterFactCheck, RecordClaims, upsertContentClaim, generating, Unfinished
<1>5. CASE appendVersion
  BY <1>5, OneVersion DEF appendVersion, generating
<1>6. CASE requestReview \/ approveManual \/ returnToDraft \/ reject
  BY <1>6, NoVersion
     DEF requestReview, approveManual, returnToDraft, reject, Decide, generating, Unfinished
<1>7. ASSUME NEW m \in Movers, ReadForTransition(m) PROVE DraftInv'
  BY <1>7, NoVersion DEF ReadForTransition, generating
<1>8. ASSUME NEW m \in Movers, Transition(m) PROVE DraftInv'
  <2>1. move[m].to \notin Unfinished
    BY <1>8 DEF Transition, TypeInv, MoveInv
  <2> QED BY <1>8, <2>1, NoVersion DEF Transition, generating
<1>9. CASE ChangeProduction
  BY <1>9, NoVersion DEF ChangeProduction, generating
<1>10. CASE Die
  BY <1>10, NoVersion DEF Die
<1>11. CASE UNCHANGED vars
  BY <1>11, NoVersion DEF vars
<1> QED
  BY <1>1, <1>2, <1>3, <1>4, <1>5, <1>6, <1>7, <1>8, <1>9, <1>10, <1>11 DEF Next

LEMMA DraftInvariant ==
  ASSUME Targets \cap Unfinished = {}
  PROVE  Spec => []DraftInv
<1>1. TypeInv /\ DraftInv /\ [Next]_vars => DraftInv'
  BY DraftNext
<1> QED BY <1>1, DraftInit, TypeInvariant, PTL DEF Spec

\* However requests for a draft and rewrites are retried, raced and interrupted,
\* an execution has at most one version, and exactly one once it SUCCEEDED.
THEOREM OneVersionPerExecutionAlways ==
  ASSUME Targets \cap Unfinished = {}
  PROVE  Spec => []OneVersionPerExecution
<1>1. DraftInv => OneVersionPerExecution
  <2> SUFFICES ASSUME DraftInv PROVE OneVersionPerExecution
    OBVIOUS
  <2>1. \A e \in Executions : \A i, j \in Origin(e) : i = j
    BY DEF DraftInv, Single, Origin
  <2>2. \A e \in Executions : exec[e] = "SUCCEEDED" => Origin(e) # {}
    BY DEF DraftInv, Kept, Origin
  <2> QED BY <2>1, <2>2 DEF OneVersionPerExecution
<1> QED BY <1>1, DraftInvariant, PTL

\* A project that still waits for its first draft never has a generated text or a
\* SUCCEEDED generation, so a request for the draft is never told that it is done.
THEOREM WaitingHasNoDraftAlways ==
  ASSUME Targets \cap Unfinished = {}
  PROVE  Spec => []WaitingHasNoDraft
<1>1. DraftInv => WaitingHasNoDraft
  BY Kinds DEF DraftInv, Waiting, Kept, Origin, WaitingHasNoDraft
<1> QED BY <1>1, DraftInvariant, PTL

-----------------------------------------------------------------------------
(* No dead end: a project that waits for a draft can be generated.  Every    *)
(* RUNNING execution has its request, and a RESEARCHING project a request    *)
(* that will settle it or a failed execution that can be claimed again.      *)

Busy    == {"claimed", "provider", "failing"}
Calling == {"provider", "failing"}

IdeaIsFresh ==
  status = "IDEA" => /\ \A d \in Drafts : exec[d] = "none"
                     /\ \A g \in Generations : request[g].step \in {"idle", "new"}
BusyHasExecution == \A g \in Generations : request[g].step \in Busy => exec[request[g].exec] # "none"
FailedHasFailed  == status = "FAILED" => \E d \in Drafts : exec[d] = "FAILED"
RunningIsRun ==
  deaths = 0 => \A d \in Drafts : exec[d] = "RUNNING" =>
                  \E g \in Generations : request[g].step \in Calling /\ request[g].exec = d
ResearchingIsBusy ==
  deaths = 0 /\ status = "RESEARCHING" => \/ \E g \in Generations : request[g].step \in Busy
                                          \/ \E d \in Drafts : exec[d] = "FAILED"
WayOn == IdeaIsFresh /\ BusyHasExecution /\ FailedHasFailed /\ RunningIsRun /\ ResearchingIsBusy

LEMMA WayOnInit == Init => WayOn
<1> SUFFICES ASSUME Init PROVE WayOn
  OBVIOUS
<1>1. /\ \A g \in Generations : request[g].step = "idle"
      /\ \A d \in Drafts : exec[d] = "none"
      /\ status = "IDEA"
  BY Kinds DEF Init, Free
<1> QED BY <1>1
           DEF WayOn, IdeaIsFresh, BusyHasExecution, FailedHasFailed, RunningIsRun,
               ResearchingIsBusy, Busy

\* What holds of a step that concerns no generation.
LEMMA Apart ==
  ASSUME TypeInv, WayOn,
         \A d \in Drafts : exec'[d] = exec[d],
         \A g \in Generations : request'[g] = request[g],
         status' \in Unfinished => status' = status,
         deaths' = deaths
  PROVE  WayOn'
<1>1. \A g \in Generations : request[g].step \in Busy => request[g].exec \in Drafts
  BY DEF TypeInv, RequestInv, Busy
<1>2. IdeaIsFresh' /\ FailedHasFailed'
  BY DEF WayOn, IdeaIsFresh, FailedHasFailed, Unfinished
<1>3. BusyHasExecution'
  BY <1>1 DEF WayOn, BusyHasExecution
<1>4. RunningIsRun'
  BY DEF WayOn, RunningIsRun
<1>5. ResearchingIsBusy'
  BY DEF WayOn, ResearchingIsBusy, Unfinished
<1> QED BY <1>2, <1>3, <1>4, <1>5 DEF WayOn

\* A request whose execution is known to exist, of a project without a draft,
\* finds it unfinished or failed.
LEMMA Unsettled ==
  ASSUME TypeInv, DraftInv, status \in Unfinished, NEW d \in Drafts, exec[d] # "none"
  PROVE  exec[d] \in {"PENDING", "RUNNING", "FAILED"}
<1>1. exec[d] # "SUCCEEDED"
  BY Kinds DEF DraftInv, Kept, Waiting
<1>2. exec[d] \in ExecutionStatus
  BY Kinds DEF TypeInv, TypeOK
<1> QED BY <1>1, <1>2 DEF ExecutionStatus

LEMMA WayOnWork ==
  ASSUME TypeInv, DraftInv, WayOn, NEW g \in Generations, Work(g)
  PROVE  WayOn'
<1> DEFINE d == request[g].exec
<1> USE Kinds
<1>1. /\ d \in Drafts /\ d \in Executions /\ request[g].step # "idle" /\ deaths' = deaths
      /\ exec \in [Executions -> ExecutionStatus] /\ g \in Requests
      /\ request \in [Requests -> [step : Steps, exec : Executions \cup {NoDraft}]]
  BY DEF Work, ClaimRetry, ClaimNew, markRunning, completeGeneration, completeRewrite,
         GiveUp, failGeneration, FailRewrite, At, TypeInv, TypeOK, RequestInv
<1>2. /\ \A h \in Generations \ {g} : request'[h] = request[h]
      /\ \A e \in Drafts \ {d} : exec'[e] = exec[e]
  BY <1>1 DEF Work, ClaimRetry, ClaimNew, markRunning, completeGeneration, completeRewrite,
              GiveUp, failGeneration, FailRewrite, Finish, Goto, markFailed
<1>3. /\ Finish(g) => request'[g].step = "idle"
      /\ \A s \in Steps : Goto(g, s) => request'[g].step = s /\ request'[g].exec = d
  BY <1>1 DEF Finish, Goto, Free
<1>4. \A h \in Generations : request[h].step \in Busy => request[h].exec \in Drafts
  BY DEF TypeInv, RequestInv, Busy
<1>5. \A h \in Generations \ {g} : request[h].step \in Busy => exec[request[h].exec] # "none"
  BY DEF WayOn, BusyHasExecution
<1>6. CASE ClaimRetry(g)
  <2>1. /\ exec'[d] = "PENDING" /\ request'[g].step = "claimed" /\ request'[g].exec = d
        /\ request[g].step = "retry"
        /\ status' = IF status = "FAILED" THEN "RESEARCHING" ELSE status
    BY <1>6, <1>1, <1>3, Names DEF ClaimRetry, At
  <2>2. IdeaIsFresh'
    BY <2>1 DEF WayOn, IdeaIsFresh
  <2>3. BusyHasExecution'
    BY <2>1, <1>2, <1>4, <1>5 DEF BusyHasExecution
  <2>4. FailedHasFailed' /\ ResearchingIsBusy'
    BY <2>1 DEF FailedHasFailed, ResearchingIsBusy, Busy
  <2>5. RunningIsRun'
    BY <2>1, <1>1, <1>2 DEF WayOn, RunningIsRun, Calling
  <2> QED BY <2>2, <2>3, <2>4, <2>5 DEF WayOn
<1>7. CASE ClaimNew(g)
  <2>1. /\ exec'[d] # "none" \/ UNCHANGED exec
        /\ exec'[d] = exec[d] \/ (exec[d] = "none" /\ exec'[d] = "PENDING")
        /\ request[g].step = "new"
        /\ status' # "IDEA" /\ (status' = "FAILED" => FALSE)
        /\ \/ status' = "RESEARCHING" /\ exec'[d] # "none" /\ request'[g].step = "claimed" /\ request'[g].exec = d
           \/ status' = status /\ request'[g].step = "idle"
    BY <1>7, <1>1, <1>3, Names DEF ClaimNew, At
  <2>2. IdeaIsFresh' /\ FailedHasFailed'
    BY <2>1 DEF IdeaIsFresh, FailedHasFailed
  <2>3. BusyHasExecution'
    BY <2>1, <1>2, <1>4, <1>5 DEF BusyHasExecution, Busy
  <2>4. RunningIsRun'
    BY <2>1, <1>1, <1>2 DEF WayOn, RunningIsRun, Calling
  <2>5. ResearchingIsBusy'
    BY <2>1, <1>1, <1>2 DEF WayOn, ResearchingIsBusy, Busy
  <2> QED BY <2>2, <2>3, <2>4, <2>5 DEF WayOn
<1>8. CASE markRunning(g)
  <2>1. /\ request[g].step = "claimed" /\ UNCHANGED status
        /\ \/ exec[d] = "PENDING" /\ exec'[d] = "RUNNING" /\ request'[g].step = "provider" /\ request'[g].exec = d
           \/ exec[d] # "PENDING" /\ exec'[d] = exec[d] /\ request'[g].step = "idle"
    BY <1>8, <1>1, <1>3, Names DEF markRunning, At
  <2>2. exec[d] # "none"
    BY <2>1 DEF WayOn, BusyHasExecution, Busy
  <2>3. IdeaIsFresh'
    BY <2>1 DEF WayOn, IdeaIsFresh
  <2>4. BusyHasExecution'
    BY <2>1, <2>2, <1>2, <1>4, <1>5 DEF BusyHasExecution, Busy
  <2>5. FailedHasFailed'
    BY <2>1, <1>2 DEF WayOn, FailedHasFailed
  <2>6. RunningIsRun'
    BY <2>1, <1>1, <1>2 DEF WayOn, RunningIsRun, Calling
  <2>7. ResearchingIsBusy'
    <3> SUFFICES ASSUME deaths = 0, status = "RESEARCHING"
                 PROVE  \/ \E h \in Generations : request'[h].step \in Busy
                        \/ \E e \in Drafts : exec'[e] = "FAILED"
      BY <1>1, <2>1 DEF ResearchingIsBusy
    <3>1. CASE exec[d] = "PENDING"
      BY <3>1, <2>1 DEF Busy
    <3>2. CASE exec[d] = "FAILED"
      BY <3>2, <2>1, <1>1
    <3>3. CASE exec[d] = "RUNNING"
      <4>1. PICK h \in Generations : request[h].step \in Calling /\ request[h].exec = d
        BY <3>3, <1>1 DEF WayOn, RunningIsRun
      <4>2. h # g
        BY <4>1, <2>1 DEF Calling
      <4> QED BY <4>1, <4>2, <1>2 DEF Calling, Busy
    <3> QED BY <3>1, <3>2, <3>3, <2>2, <1>1, Unsettled DEF Unfinished
  <2> QED BY <2>3, <2>4, <2>5, <2>6, <2>7 DEF WayOn
<1>9. CASE completeGeneration(g)
  <2>1. /\ exec'[d] = "SUCCEEDED" /\ request'[g].step = "idle" /\ status' = "DRAFT"
    BY <1>9, <1>1, <1>3 DEF completeGeneration
  <2>2. IdeaIsFresh' /\ FailedHasFailed' /\ ResearchingIsBusy'
    BY <2>1 DEF IdeaIsFresh, FailedHasFailed, ResearchingIsBusy
  <2>3. BusyHasExecution'
    BY <2>1, <1>2, <1>4, <1>5 DEF BusyHasExecution, Busy
  <2>4. RunningIsRun'
    BY <2>1, <1>1, <1>2 DEF WayOn, RunningIsRun, Calling
  <2> QED BY <2>2, <2>3, <2>4 DEF WayOn
<1>10. CASE GiveUp(g)
  <2>1. /\ UNCHANGED <<exec, status>> /\ request[g].step = "provider"
        /\ request'[g].step = "failing" /\ request'[g].exec = d
    BY <1>10, <1>1, <1>3, Names DEF GiveUp, At
  <2>2. IdeaIsFresh' /\ FailedHasFailed'
    BY <2>1 DEF WayOn, IdeaIsFresh, FailedHasFailed
  <2>3. BusyHasExecution'
    BY <2>1, <1>2, <1>4 DEF WayOn, BusyHasExecution, Busy
  <2>4. RunningIsRun'
    BY <2>1, <1>1, <1>2 DEF WayOn, RunningIsRun, Calling
  <2>5. ResearchingIsBusy'
    BY <2>1, <1>2 DEF WayOn, ResearchingIsBusy, Busy
  <2> QED BY <2>2, <2>3, <2>4, <2>5 DEF WayOn
<1>11. CASE failGeneration(g)
  <2>1. /\ request[g].step = "failing" /\ request'[g].step = "idle"
        /\ exec'[d] = IF exec[d] \in {"PENDING", "RUNNING"} THEN "FAILED" ELSE exec[d]
        /\ status' = IF status = "RESEARCHING" THEN "FAILED" ELSE status
    BY <1>11, <1>1, <1>3 DEF failGeneration, markFailed, At
  <2>2. exec[d] # "none"
    BY <2>1 DEF WayOn, BusyHasExecution, Busy
  <2>3. IdeaIsFresh' /\ ResearchingIsBusy'
    BY <2>1 DEF WayOn, IdeaIsFresh, ResearchingIsBusy
  <2>4. BusyHasExecution'
    BY <2>1, <2>2, <1>2, <1>4, <1>5 DEF BusyHasExecution, Busy
  <2>5. FailedHasFailed'
    <3>1. CASE status = "RESEARCHING"
      <4>1. exec[d] \in {"PENDING", "RUNNING", "FAILED"}
        BY <3>1, <2>2, <1>1, Unsettled DEF Unfinished
      <4> QED BY <4>1, <2>1, <1>1 DEF FailedHasFailed
    <3>2. CASE status # "RESEARCHING"
      BY <3>2, <2>1, <1>1, <1>2 DEF WayOn, FailedHasFailed
    <3> QED BY <3>1, <3>2
  <2>6. RunningIsRun'
    BY <2>1, <1>1, <1>2 DEF WayOn, RunningIsRun, Calling
  <2> QED BY <2>3, <2>4, <2>5, <2>6 DEF WayOn
<1> QED BY <1>6, <1>7, <1>8, <1>9, <1>10, <1>11 DEF Work, completeRewrite, FailRewrite

LEMMA WayOnNext ==
  ASSUME Targets \cap Unfinished = {}, TypeInv, DraftInv, WayOn, [Next]_vars
  PROVE  WayOn'
<1> USE Kinds
<1>1. ASSUME NEW g \in Generations, NEW d \in Drafts, ReadExecution(g, d) PROVE WayOn'
  <2>1. /\ UNCHANGED <<status, exec, deaths>>
        /\ request[g].step = "idle"
        /\ \/ exec[d] = "none" /\ request'[g].step = "new"
           \/ exec[d] = "FAILED" /\ request'[g].step = "retry"
        /\ \A h \in Generations \ {g} : request'[h] = request[h]
    BY <1>1 DEF ReadExecution, At, TypeInv, TypeOK
  <2>2. IdeaIsFresh' /\ FailedHasFailed'
    BY <2>1 DEF WayOn, IdeaIsFresh, FailedHasFailed
  <2>3. BusyHasExecution'
    BY <2>1 DEF WayOn, BusyHasExecution, Busy
  <2>4. RunningIsRun'
    BY <2>1 DEF WayOn, RunningIsRun, Calling
  <2>5. ResearchingIsBusy'
    BY <2>1 DEF WayOn, ResearchingIsBusy, Busy
  <2> QED BY <2>2, <2>3, <2>4, <2>5 DEF WayOn
<1>2. ASSUME NEW w \in Rewrites, StartRewrite(w) PROVE WayOn'
  BY <1>2, Apart DEF StartRewrite, TypeInv, TypeOK
<1>3. ASSUME NEW r \in Requests, Work(r) PROVE WayOn'
  <2>1. CASE r \in Generations
    BY <1>3, <2>1, WayOnWork
  <2>2. CASE r \in Rewrites
    <3>1. request[r].step # "idle" /\ r \notin Generations
      BY <1>3, <2>2
         DEF Work, ClaimRetry, ClaimNew, markRunning, completeGeneration, completeRewrite,
                        GiveUp, failGeneration, FailRewrite, At
    <3>2. request[r].exec = r
      BY <2>2, <3>1 DEF TypeInv, RequestInv
    <3>3. /\ \A d \in Drafts : exec'[d] = exec[d]
          /\ \A g \in Generations : request'[g] = request[g]
          /\ UNCHANGED <<status, deaths>>
      BY <1>3, <2>2, <3>1, <3>2 DEF Work, ClaimRetry, ClaimNew, markRunning, completeGeneration,
           completeRewrite, GiveUp, failGeneration, FailRewrite, Finish, Goto, markFailed,
           TypeInv, TypeOK
    <3> QED BY <3>3, Apart
  <2> QED BY <2>1, <2>2
<1>4. ASSUME NEW c \in Checkers, ReadDraft(c) \/ EnterFactCheck(c) \/ RecordClaims(c) PROVE WayOn'
  BY <1>4, Apart
     DEF ReadDraft, EnterFactCheck, RecordClaims, upsertContentClaim, generating, Unfinished
<1>5. CASE appendVersion \/ requestReview \/ approveManual \/ returnToDraft \/ reject
  BY <1>5, Apart DEF appendVersion, requestReview, approveManual, returnToDraft, reject, Decide,
                     generating, Unfinished
<1>6. ASSUME NEW m \in Movers, ReadForTransition(m) PROVE WayOn'
  BY <1>6, Apart DEF ReadForTransition, generating
<1>7. ASSUME NEW m \in Movers, Transition(m) PROVE WayOn'
  <2>1. move[m].to \notin Unfinished
    BY <1>7 DEF Transition, TypeInv, MoveInv
  <2> QED BY <1>7, <2>1, Apart DEF Transition, generating
<1>8. CASE ChangeProduction
  BY <1>8, Apart DEF ChangeProduction, generating
<1>9. CASE Die
  <2>1. /\ UNCHANGED <<status, exec>> /\ deaths' # 0
        /\ \A g \in Generations : request'[g] = request[g] \/ request'[g].step = "idle"
    BY <1>9 DEF Die, Finish, Free, TypeInv, TypeOK
  <2>2. IdeaIsFresh' /\ FailedHasFailed'
    BY <2>1 DEF WayOn, IdeaIsFresh, FailedHasFailed
  <2>3. BusyHasExecution'
    BY <2>1 DEF WayOn, BusyHasExecution, Busy
  <2>4. RunningIsRun' /\ ResearchingIsBusy'
    BY <2>1 DEF RunningIsRun, ResearchingIsBusy
  <2> QED BY <2>2, <2>3, <2>4 DEF WayOn
<1>10. CASE UNCHANGED vars
  BY <1>10, Apart DEF vars
<1> QED
  BY <1>1, <1>2, <1>3, <1>4, <1>5, <1>6, <1>7, <1>8, <1>9, <1>10 DEF Next

\* While no process has died, a project that waits for its first draft, with no
\* request at work, has a generation some request can claim: neither a failed
\* provider nor two requests for one key leave it RESEARCHING for good.
THEOREM NoDeadEndAlways ==
  ASSUME Targets \cap Unfinished = {}, Drafts # {}
  PROVE  Spec => []NoDeadEnd
<1>1. TypeInv /\ DraftInv /\ WayOn /\ [Next]_vars => WayOn'
  BY WayOnNext
<1>2. WayOn => NoDeadEnd
  <2> SUFFICES ASSUME WayOn, status \in Unfinished, deaths = 0, \A g \in Generations : At(g, "idle")
               PROVE  \E d \in Drafts : exec[d] = "FAILED" \/ (exec[d] = "none" /\ status # "RESEARCHING")
    BY DEF NoDeadEnd
  <2>1. CASE status = "IDEA"
    BY <2>1 DEF WayOn, IdeaIsFresh
  <2>2. CASE status = "FAILED"
    BY <2>2 DEF WayOn, FailedHasFailed
  <2>3. CASE status = "RESEARCHING"
    BY <2>3 DEF WayOn, ResearchingIsBusy, Busy, At
  <2> QED BY <2>1, <2>2, <2>3 DEF Unfinished
<1> QED BY <1>1, <1>2, WayOnInit, TypeInvariant, DraftInvariant, PTL DEF Spec

\* While no process has died, a generation that is RUNNING has its request at the provider or
\* about to record the failure: what RunningSettles rests on.
THEOREM RunningIsRunAlways ==
  ASSUME Targets \cap Unfinished = {}
  PROVE  Spec => []RunningIsRun
<1>1. TypeInv /\ DraftInv /\ WayOn /\ [Next]_vars => WayOn'
  BY WayOnNext
<1>2. WayOn => RunningIsRun
  BY DEF WayOn
<1> QED BY <1>1, <1>2, WayOnInit, TypeInvariant, DraftInvariant, PTL DEF Spec

-----------------------------------------------------------------------------
(* The editor's approval, and the text that was submitted.                 *)

Accepted == {"APPROVED", "PRODUCTION", "QC", "READY", "SCHEDULED", "PUBLISHED"}

\* The table leads to an accepted status only from one, or through APPROVED.
LEMMA TableAccepts ==
  ASSUME NEW from \in Statuses, NEW to \in transitions[from], to \in Accepted, to # "APPROVED"
  PROVE  from \in Accepted
BY DEF Statuses, transitions, Accepted

\* A project is APPROVED, READY or beyond only while an approval is the latest
\* decision on it, provided that no caller of the transition asks for APPROVED:
\* then the only way there is the editor's.
THEOREM ReadyIsApprovedAlways ==
  ASSUME "APPROVED" \notin Targets
  PROVE  Spec => []ReadyIsApproved
<1>1. Init => ReadyIsApproved
  BY DEF Init, ReadyIsApproved
<1>2. TypeInv /\ ReadyIsApproved /\ [Next]_vars => ReadyIsApproved'
  <2> SUFFICES ASSUME TypeInv, ReadyIsApproved, [Next]_vars, status' \in Accepted
               PROVE  verdict' = "APPROVED"
    BY DEF ReadyIsApproved, Accepted
  <2>1. status \in Accepted => verdict = "APPROVED"
    BY DEF ReadyIsApproved, Accepted
  <2>2. ASSUME NEW m \in Movers, Transition(m) PROVE status \in Accepted /\ UNCHANGED verdict
    <3>1. UNCHANGED verdict /\ move[m].step = "read"
      BY <2>2 DEF Transition
    <3>2. CASE status # move[m].from
      BY <2>2, <3>2 DEF Transition
    <3>3. CASE status = move[m].from
      <4>1. status' = move[m].to
        BY <2>2, <3>3 DEF Transition
      <4>2. move[m].to \in Targets /\ move[m].to \in transitions[status] /\ status \in Statuses
        BY <3>1, <3>3 DEF TypeInv, TypeOK, MoveInv
      <4>3. move[m].to # "APPROVED"
        BY <4>2
      <4> QED BY <3>1, <4>1, <4>2, <4>3, TableAccepts
    <3> QED BY <3>1, <3>2, <3>3
  <2>3. ASSUME NEW r \in Requests, Work(r) PROVE status \in Accepted /\ UNCHANGED verdict
    BY <2>3 DEF Work, ClaimRetry, ClaimNew, markRunning, completeGeneration, completeRewrite,
                GiveUp, failGeneration, FailRewrite, editing, Accepted
  <2>4. CASE requestReview \/ approveManual \/ returnToDraft \/ reject
    BY <2>4, <2>1 DEF requestReview, approveManual, returnToDraft, reject, Decide, editing, Accepted
  <2>5. ASSUME NEW c \in Checkers, ReadDraft(c) \/ EnterFactCheck(c) \/ RecordClaims(c)
        PROVE  status \in Accepted /\ UNCHANGED verdict
    BY <2>5 DEF ReadDraft, EnterFactCheck, RecordClaims, upsertContentClaim, Accepted
  <2>6. CASE \/ \E g \in Generations, d \in Drafts : ReadExecution(g, d)
             \/ \E w \in Rewrites : StartRewrite(w)
             \/ appendVersion \/ ChangeProduction \/ Die
             \/ \E m \in Movers : ReadForTransition(m)
    BY <2>6, <2>1 DEF ReadExecution, StartRewrite, appendVersion, ChangeProduction, Die,
                      ReadForTransition, editing
  <2>7. CASE UNCHANGED vars
    BY <2>7, <2>1 DEF vars, editing
  <2> QED BY <2>1, <2>2, <2>3, <2>4, <2>5, <2>6, <2>7 DEF Next
<1> QED BY <1>1, <1>2, TypeInvariant, PTL DEF Spec

\* After a project has left DRAFT for the fact check no generation or rewrite
\* adds a version to it, however late its answer arrives.
THEOREM SubmittedTextIsHumanAlways == Spec => SubmittedTextIsHuman
<1>1. TypeInv /\ [Next]_vars =>
        [\A i \in 1..Len(versions') :
           i > Len(versions) /\ versions'[i] # Person => status \in {"RESEARCHING", "DRAFT"}]_vars
  <2> SUFFICES ASSUME TypeInv, Next, NEW i \in 1..Len(versions'),
                      i > Len(versions), versions'[i] # Person
               PROVE  status \in {"RESEARCHING", "DRAFT"}
    OBVIOUS
  <2>1. versions' # versions
    BY DEF TypeInv, TypeOK
  <2>2. ~appendVersion
    <3> SUFFICES ASSUME appendVersion PROVE FALSE
      OBVIOUS
    <3>1. /\ Len(versions') = Len(versions) + 1 /\ Len(versions) \in Nat
          /\ versions'[Len(versions) + 1] = Person
      BY Appended DEF appendVersion
    <3> QED BY <3>1
  <2>3. \E r \in Requests : completeGeneration(r) \/ completeRewrite(r)
    BY <2>1, <2>2
       DEF Next, Work, ReadExecution, StartRewrite, ClaimRetry, ClaimNew, markRunning, GiveUp,
                      failGeneration, FailRewrite, ReadDraft, EnterFactCheck, RecordClaims,
                      upsertContentClaim,
                      requestReview, approveManual, returnToDraft, reject, Decide,
                      ReadForTransition, Transition, ChangeProduction, Die
  <2> QED BY <2>3 DEF completeGeneration, completeRewrite
<1> QED BY <1>1, TypeInvariant, PTL DEF Spec, SubmittedTextIsHuman
=============================================================================
