----------------------- MODULE PublishingDeployedProofs ----------------------
(***************************************************************************)
(* The deployed system: publications are published by the worker's         *)
(* dispatch only, VK and Instagram answer PUBLISHED or throw, and an       *)
(* attempt without a provider job stays uncertain.  A request that throws  *)
(* may have posted or not.  For any number of workers and investigations,  *)
(* with processes dying and statements failing anywhere, the calls then    *)
(* implement PublicationLifecycle: at most one post, a status that does    *)
(* not contradict the network, and FAILED only after an error.             *)
(***************************************************************************)
EXTENDS PublishingProofs

Deployed ==
  /\ "publish" \notin Ops
  /\ Answers \subseteq {"PUBLISHED"}
  /\ StatusWithoutJob = "OUTCOME_UNKNOWN"

Unclaimed == {"DRAFT", "QUEUED", "CANCELLED"} \cup legacyRecoveryStates

\* Labels of a worker between its claim and the request, after one that was answered, and
\* after one that threw.
BeforePost == {"load", "acquire", "calling"}
AfterPost  == {"recordSucceeded", "finalise", "markUnknown", "markAttempt", "markFinal"}
Failing    == {"recordFailed", "finaliseFailed"}
Working    == BeforePost \cup AfterPost \cup Failing

\* Labels no call of the deployed system reaches.
Unreached ==
  {"queueing", "starting", "reload", "recordUnknown", "finaliseUnknown",
   "rejectAttempt", "requeue"}

\* Only the worker that claimed the publication works on it.
OneWorker ==
  /\ \A c \in Callers : pc[c] \notin Unreached
  /\ \A c, d \in Callers : pc[c] \in Working /\ pc[d] \in Working => c = d
  /\ \A c \in Callers : pc[c] \in Working => status \notin Unclaimed
  /\ \A c \in Callers : key[c] \in {NoKey, DispatchKey}

\* What has been done so far, by the progress of the worker; and an investigation that
\* confirms has read a provider job, which stays.
Progress ==
  /\ \A c \in Callers : pc[c] \in BeforePost \cup Failing =>
       status = "PUBLISHING" /\ ~attempts[DispatchKey].job
  /\ \A c \in Callers : pc[c] \in BeforePost => posts[DispatchKey] = 0
  /\ \A c \in Callers : pc[c] \in {"load", "acquire"} =>
       attempts[DispatchKey].status = "NONE"
  /\ \A c \in Callers : pc[c] \in AfterPost => posts[DispatchKey] > 0 /\ status # "FAILED"
  /\ \A c \in Callers : pc[c] \in {"confirmAttempt", "confirm"} => seen[c].job
  /\ \A c \in Callers : seen[c].job => attempts[DispatchKey].job

\* What the rows and the network look like.
World ==
  /\ last \in {NoKey, DispatchKey}
  /\ posts[DispatchKey] <= 1
  /\ \A k \in Keys \ {DispatchKey} : posts[k] = 0 /\ attempts[k] = NoAttempt
  /\ attempts[DispatchKey].job => posts[DispatchKey] > 0 /\ status # "FAILED"
  /\ attempts[DispatchKey].status = "SUCCEEDED" => attempts[DispatchKey].job
  /\ posts[DispatchKey] > 0
       => status \in {"PUBLISHING", "OUTCOME_UNKNOWN", "PUBLISHED", "FAILED"}
  /\ status = "OUTCOME_UNKNOWN" => posts[DispatchKey] > 0
  /\ status \in Unclaimed => attempts[DispatchKey] = NoAttempt /\ last = NoKey
  /\ status \notin Unclaimed => sched = "due"

DeployedInv == OneWorker /\ Progress /\ World

-----------------------------------------------------------------------------
LEMMA DeployedInit == Deployed /\ Init => DeployedInv
BY PublishingAssumption DEF Init, DeployedInv, OneWorker, Progress, World, Unclaimed,
   Unreached, Working, BeforePost, AfterPost, Failing, NoAttempt, NotSeen, legacyRecoveryStates

\* Every step keeps the invariant.
LEMMA DeployedNext == Deployed /\ TypeInv /\ DeployedInv /\ [Next]_vars => DeployedInv'
<1> SUFFICES ASSUME Deployed, TypeInv, DeployedInv, [Next]_vars PROVE DeployedInv'
  OBVIOUS
<1>d. DispatchKey \in Keys /\ NoKey \notin Keys
  BY PublishingAssumption
<1>k. \A c \in Callers : pc[c] \notin {"idle", "find"} => key[c] = DispatchKey
  <2>1. \A c \in Callers : pc[c] \notin {"idle", "find"} => key[c] \in Keys
    BY DEF TypeInv, TypeOK, KeyHeld, Keyed
  <2> QED BY <2>1, <1>d DEF DeployedInv, OneWorker
<1> USE <1>d, <1>k DEF Deployed, TypeInv, TypeOK, DeployedInv, OneWorker, Progress, World,
         Unclaimed, Unreached, Working, BeforePost, AfterPost, Failing, NotSeen, NoAttempt,
         legacyRecoveryStates, pub, local
\* A step that writes nothing but the one attempt, of a claimed publication.
<1>w. ASSUME status \notin Unclaimed, UNCHANGED <<status, last, sched, posts>>,
             \A k \in Keys \ {DispatchKey} : attempts'[k] = attempts[k],
             attempts'[DispatchKey].job => posts[DispatchKey] > 0 /\ status # "FAILED",
             attempts'[DispatchKey].status = "SUCCEEDED" => attempts'[DispatchKey].job
      PROVE  World'
  BY <1>w
<1>1. ASSUME Schedule PROVE DeployedInv'
  BY <1>1 DEF Schedule
<1>2. ASSUME Reschedule PROVE DeployedInv'
  BY <1>2 DEF Reschedule
<1>3. ASSUME Cancel PROVE DeployedInv'
  BY <1>3 DEF Cancel
<1>4. ASSUME Recover PROVE DeployedInv'
  BY <1>4 DEF Recover, Moves
<1>5. ASSUME BecomeDue PROVE DeployedInv'
  BY <1>5 DEF BecomeDue
<1>6. ASSUME SwitchCredential PROVE DeployedInv'
  BY <1>6 DEF SwitchCredential
<1>7. ASSUME NEW c \in Callers, BeginDispatch(c) PROVE DeployedInv'
  BY <1>7 DEF BeginDispatch, At
<1>8. ASSUME NEW c \in Callers, NEW k \in Keys, BeginPublish(c, k) PROVE DeployedInv'
  BY <1>8 DEF BeginPublish, At
<1>9. ASSUME NEW c \in Callers, BeginInvestigate(c) PROVE DeployedInv'
  BY <1>9 DEF BeginInvestigate, At
<1>10. ASSUME NEW c \in Callers, Claim(c) PROVE DeployedInv'
  BY <1>10 DEF Claim, At, Goto, Return, Claimable
<1>11. ASSUME NEW c \in Callers, Load(c) PROVE DeployedInv'
  BY <1>11 DEF Load, At, Goto, Return, Loaded, Admit
<1>12. ASSUME NEW c \in Callers, Queueing(c) PROVE DeployedInv'
  BY <1>12 DEF Queueing, At, Goto, Return, Moves
<1>13. ASSUME NEW c \in Callers, Starting(c) PROVE DeployedInv'
  BY <1>13 DEF Starting, At, Goto, Return, Moves
<1>14. ASSUME NEW c \in Callers, Reload(c) PROVE DeployedInv'
  BY <1>14 DEF Reload, At, Goto, Return, Admit
<1>15. ASSUME NEW c \in Callers, AcquireAttempt(c) PROVE DeployedInv'
  <2>1. key[c] = DispatchKey /\ attempts[DispatchKey].status = "NONE"
    BY <1>15 DEF AcquireAttempt, At
  <2>2. /\ \A k \in Keys \ {DispatchKey} : attempts'[k] = attempts[k]
        /\ attempts'[DispatchKey].job = FALSE
    BY <1>15, <2>1 DEF AcquireAttempt, Attempt
  <2>3. Goto(c, "calling") /\ UNCHANGED <<pub, credential, posts>>
    BY <1>15, <2>1 DEF AcquireAttempt
  <2>4. OneWorker' /\ Progress'
    BY <1>15, <2>2, <2>3 DEF AcquireAttempt, At, Goto
  <2>5. attempts'[DispatchKey].status = "STARTED" /\ status \notin Unclaimed
    BY <1>15, <2>1 DEF AcquireAttempt, Attempt, At
  <2>6. World'
    BY <1>w, <2>2, <2>3, <2>5
  <2> QED BY <2>4, <2>6
<1>16. ASSUME NEW c \in Callers, CallProvider(c) PROVE DeployedInv'
  BY <1>16 DEF CallProvider, At, Goto, Return, Posted
<1>17. ASSUME NEW c \in Callers, RecordSucceeded(c) PROVE DeployedInv'
  <2>1. key[c] = DispatchKey
    BY <1>17 DEF RecordSucceeded, At
  <2>2. /\ \A k \in Keys \ {DispatchKey} : attempts'[k] = attempts[k]
        /\ attempts'[DispatchKey].status = "SUCCEEDED"
        /\ attempts'[DispatchKey].job = TRUE
    BY <1>17, <2>1 DEF RecordSucceeded, MarkWithJob, Attempt
  <2>3. OneWorker' /\ Progress'
    BY <1>17, <2>2 DEF RecordSucceeded, At, Goto, Return
  <2>4. posts[DispatchKey] > 0 /\ status \notin Unclaimed /\ status # "FAILED"
    BY <1>17 DEF RecordSucceeded, At
  <2>5. UNCHANGED <<pub, credential, posts>>
    BY <1>17 DEF RecordSucceeded
  <2>6. World'
    BY <1>w, <2>2, <2>4, <2>5
  <2> QED BY <2>3, <2>6
<1>18. ASSUME NEW c \in Callers, Finalise(c) PROVE DeployedInv'
  BY <1>18 DEF Finalise, At, Goto, Return, Moves
<1>19. ASSUME NEW c \in Callers, RecordUnknown(c) PROVE DeployedInv'
  BY <1>19 DEF RecordUnknown, At, Goto, Return, MarkWithJob
<1>20. ASSUME NEW c \in Callers, FinaliseUnknown(c) PROVE DeployedInv'
  BY <1>20 DEF FinaliseUnknown, At, Goto, Return, Moves
<1>21. ASSUME NEW c \in Callers, RecordFailed(c) PROVE DeployedInv'
  <2>1. key[c] = DispatchKey
    BY <1>21 DEF RecordFailed, At
  <2>2. /\ \A k \in Keys \ {DispatchKey} : attempts'[k] = attempts[k]
        /\ attempts'[DispatchKey].status = "FAILED"
        /\ attempts'[DispatchKey].job = attempts[DispatchKey].job
    BY <1>21, <2>1 DEF RecordFailed, Mark, Attempt
  <2>3. OneWorker' /\ Progress'
    BY <1>21, <2>2 DEF RecordFailed, At, Goto, Return
  <2>4. status \notin Unclaimed /\ UNCHANGED <<pub, posts>>
    BY <1>21 DEF RecordFailed, At
  <2>5. World'
    BY <1>w, <2>2, <2>4
  <2> QED BY <2>3, <2>5
<1>22. ASSUME NEW c \in Callers, FinaliseFailed(c) PROVE DeployedInv'
  BY <1>22 DEF FinaliseFailed, At, Goto, Return, Moves
<1>23. ASSUME NEW c \in Callers, MarkUnknown(c) PROVE DeployedInv'
  BY <1>23 DEF MarkUnknown, At, Goto, Return
<1>24. ASSUME NEW c \in Callers, MarkAttempt(c) PROVE DeployedInv'
  <2>1. key[c] = DispatchKey
    BY <1>24 DEF MarkAttempt, At
  <2>2. /\ \A k \in Keys \ {DispatchKey} : attempts'[k] = attempts[k]
        /\ attempts'[DispatchKey].status = "OUTCOME_UNKNOWN"
        /\ attempts'[DispatchKey].job = attempts[DispatchKey].job
    BY <1>24, <2>1 DEF MarkAttempt, Mark, Attempt
  <2>3. OneWorker' /\ Progress'
    BY <1>24, <2>2 DEF MarkAttempt, At, Goto, Return
  <2>4. status \notin Unclaimed /\ UNCHANGED <<pub, posts>>
    BY <1>24 DEF MarkAttempt, At
  <2>5. World'
    BY <1>w, <2>2, <2>4
  <2> QED BY <2>3, <2>5
<1>25. ASSUME NEW c \in Callers, MarkFinal(c) PROVE DeployedInv'
  BY <1>25 DEF MarkFinal, At, Goto, Return, Moves
<1>26. ASSUME NEW c \in Callers, FindAttempt(c) PROVE DeployedInv'
  BY <1>26 DEF FindAttempt, At, Goto, Return, InvestigatedAttempt
<1>27. ASSUME NEW c \in Callers, AskProvider(c) PROVE DeployedInv'
  BY <1>27 DEF AskProvider, At, Goto, Return, ProviderStatus
<1>28. ASSUME NEW c \in Callers, ConfirmAttempt(c) PROVE DeployedInv'
  <2>1. key[c] = DispatchKey
    BY <1>28 DEF ConfirmAttempt, At
  <2>2. /\ \A k \in Keys \ {DispatchKey} : attempts'[k] = attempts[k]
        /\ attempts'[DispatchKey].status = "SUCCEEDED"
        /\ attempts'[DispatchKey].job = attempts[DispatchKey].job
    BY <1>28, <2>1 DEF ConfirmAttempt, Mark, Attempt
  <2>3. OneWorker' /\ Progress'
    BY <1>28, <2>2 DEF ConfirmAttempt, At, Goto, Return
  <2>4. attempts[DispatchKey].job /\ status \notin Unclaimed /\ UNCHANGED <<pub, posts>>
    BY <1>28 DEF ConfirmAttempt, At
  <2>5. World'
    BY <1>w, <2>2, <2>4
  <2> QED BY <2>3, <2>5
<1>29. ASSUME NEW c \in Callers, Confirm(c) PROVE DeployedInv'
  <2>1. attempts[DispatchKey].job /\ posts[DispatchKey] > 0 /\ status \notin Unclaimed
    BY <1>29 DEF Confirm, At
  <2>2. /\ status' \in {status, "PUBLISHED"} /\ Return(c)
        /\ UNCHANGED <<last, sched, attempts, credential, posts>>
    BY <1>29 DEF Confirm, Goto, Reconciles
  <2>3. OneWorker'
    BY <2>1, <2>2 DEF Return
  <2>4. Progress'
    BY <2>1, <2>2 DEF Return
  <2>5. World'
    BY <2>1, <2>2
  <2> QED BY <2>3, <2>4, <2>5
<1>30. ASSUME NEW c \in Callers, RejectAttempt(c) PROVE DeployedInv'
  BY <1>30 DEF RejectAttempt, At, Goto, Return, Mark
<1>31. ASSUME NEW c \in Callers, Requeue(c) PROVE DeployedInv'
  BY <1>31 DEF Requeue, At, Goto, Return, Reconciles
<1>32. ASSUME NEW c \in Callers, Abort(c) PROVE DeployedInv'
  BY <1>32 DEF Abort, At, Goto, Return
<1>33. ASSUME NEW c \in Callers, PersistFails(c) PROVE DeployedInv'
  BY <1>33 DEF PersistFails, At, Goto, Return
<1>34. CASE UNCHANGED vars
  BY <1>34 DEF vars
<1> QED
  BY <1>1, <1>2, <1>3, <1>4, <1>5, <1>6, <1>7, <1>8, <1>9, <1>10, <1>11, <1>12, <1>13, <1>14,
     <1>15, <1>16, <1>17, <1>18, <1>19, <1>20, <1>21, <1>22, <1>23, <1>24, <1>25, <1>26, <1>27, <1>28, <1>29, <1>30, <1>31, <1>32, <1>33, <1>34 DEF Next, Step

-----------------------------------------------------------------------------
(* Refinement.                                                             *)

\* The moves of the status graph the deployed calls make, in the abstract module.
LEMMA Moving ==
  /\ \A s \in legacyRecoveryStates \cup {"DRAFT"} : "QUEUED" \in L!publicationTransitions[s]
  /\ {"PUBLISHING", "CANCELLED"} \subseteq L!publicationTransitions["QUEUED"]
  /\ {"PUBLISHED", "OUTCOME_UNKNOWN"} \subseteq L!publicationTransitions["PUBLISHING"]
  /\ "PUBLISHED" \in L!reconciliationTransitions["OUTCOME_UNKNOWN"]
BY DEF L!publicationTransitions, L!reconciliationTransitions, L!PublicationStatus,
   L!legacyRecoveryStates, legacyRecoveryStates

\* What is known of the network's answer, by the progress of the worker.
HeardWhen ==
  /\ \A c \in Callers : pc[c] \in AfterPost => Heard = "ok"
  /\ \A c \in Callers : pc[c] \in Failing => Heard = "error"
  /\ \A c \in Callers : pc[c] \in BeforePost => Heard = "none"
  /\ status \in Unclaimed => Heard = "none"
  /\ status = "FAILED" => Heard = "error"

LEMMA HeardIs == DeployedInv => HeardWhen
BY DEF HeardWhen, Heard, DeployedInv, OneWorker, Progress, Working, BeforePost, AfterPost,
   Failing, Unclaimed, legacyRecoveryStates

\* Every step of the deployed calls is a step of the lifecycle, or none.
LEMMA StepRefines ==
  Deployed /\ TypeInv /\ DeployedInv /\ [Next]_vars => [L!Next]_(L!lifecycle)
<1>h. DeployedInv' => HeardWhen'
  BY HeardIs, PTL
<1> DEFINE Goal == L!Next \/ UNCHANGED <<status, posts[DispatchKey], Heard>>
<1> SUFFICES ASSUME Deployed, TypeInv, DeployedInv, [Next]_vars PROVE Goal
  BY DEF L!lifecycle
<1>w. DeployedInv' /\ HeardWhen /\ HeardWhen'
  BY DeployedNext, HeardIs, <1>h
<1>d. DispatchKey \in Keys /\ NoKey \notin Keys
  BY PublishingAssumption
<1>k. \A c \in Callers : pc[c] \notin {"idle", "find"} => key[c] = DispatchKey
  <2>1. \A c \in Callers : pc[c] \notin {"idle", "find"} => key[c] \in Keys
    BY DEF TypeInv, TypeOK, KeyHeld, Keyed
  <2> QED BY <2>1, <1>d DEF DeployedInv, OneWorker
<1>t. pc \in [Callers -> Labels] /\ status \in PublicationStatus
  BY DEF TypeInv, TypeOK
\* A step of calls that neither had an answer nor get one.
<1>same. ASSUME \A c \in Callers : pc[c] \in AfterPost \cup Failing \/ pc'[c] \in AfterPost \cup Failing
                  => pc'[c] = pc[c],
                status' = status, posts' = posts
         PROVE  Goal
  <2>1. Heard' = Heard
    BY <1>same DEF Heard, AfterPost, Failing
  <2> QED BY <1>same, <2>1
\* An ordinary move before the request.
<1>prepare. ASSUME status \in Unclaimed, status' \in Unclaimed \cup {"PUBLISHING"},
                   status' \in {"QUEUED", "PUBLISHING", "CANCELLED"},
                   status' = "PUBLISHING" => \E c \in Callers : pc'[c] \in BeforePost,
                   status' \in L!publicationTransitions[status], posts' = posts
            PROVE  Goal
  <2>1. Heard' = "none"
    BY <1>prepare, <1>w DEF HeardWhen, Unclaimed, legacyRecoveryStates
  <2>2. posts[DispatchKey] = 0
    BY <1>prepare, <1>d DEF DeployedInv, World, TypeInv, TypeOK, Unclaimed, legacyRecoveryStates
  <2>3. status' \in L!PublicationStatus
    BY <1>prepare DEF L!PublicationStatus
  <2>4. L!Prepare(status')
    BY <1>prepare, <2>1, <2>2 DEF L!Prepare
  <2> QED BY <2>3, <2>4 DEF L!Next
\* A call ends, or gets to where it has no answer.
<1>forget. ASSUME NEW c \in Callers, pc[c] # "idle", pc'[c] \notin AfterPost \cup Failing,
                  \A e \in Callers \ {c} : pc'[e] = pc[e], status # "FAILED", status' # "FAILED"
           PROVE  Heard' \in {Heard, "none"}
  <2>1. CASE \E e \in Callers : pc'[e] \in AfterPost
    <3>1. PICK e \in Callers : pc'[e] \in AfterPost
      BY <2>1
    <3>2. pc[e] \in AfterPost
      BY <1>forget, <3>1
    <3> QED BY <1>w, <3>1, <3>2 DEF HeardWhen
  <2>2. CASE \E e \in Callers : pc'[e] \in Failing
    <3>1. PICK e \in Callers : pc'[e] \in Failing
      BY <2>2
    <3>2. pc[e] \in Failing
      BY <1>forget, <3>1
    <3> QED BY <1>w, <3>1, <3>2 DEF HeardWhen
  <2>3. CASE \A e \in Callers : pc'[e] \notin AfterPost \cup Failing
    BY <1>forget, <2>3 DEF Heard, AfterPost, Failing
  <2> QED BY <2>1, <2>2, <2>3
<1>ends. ASSUME NEW c \in Callers, pc[c] # "idle", pc' = [pc EXCEPT ![c] = "idle"],
                status' = status, posts' = posts
         PROVE  Goal
  <2>1. pc'[c] = "idle" /\ \A e \in Callers \ {c} : pc'[e] = pc[e]
    BY <1>ends, <1>t
  <2>2. CASE status = "FAILED"
    BY <1>ends, <1>w, <2>2 DEF HeardWhen
  <2>3. CASE status # "FAILED"
    <3>1. Heard' \in {Heard, "none"}
      BY <1>ends, <1>forget, <2>1, <2>3 DEF AfterPost, Failing
    <3> QED BY <1>ends, <2>3, <3>1 DEF L!Next, L!Forget, L!Forgotten
  <2> QED BY <2>2, <2>3
\* A call goes on with the answer it has.
<1>onward. ASSUME NEW c \in Callers, NEW label, pc' = [pc EXCEPT ![c] = label],
                  \/ pc[c] \in AfterPost /\ label \in AfterPost
                  \/ pc[c] \in Failing /\ label \in Failing,
                  status' = status, posts' = posts
           PROVE  Goal
  <2>1. pc'[c] = label
    BY <1>onward, <1>t
  <2>2. Heard' = Heard
    BY <1>onward, <1>w, <2>1 DEF HeardWhen
  <2> QED BY <1>onward, <2>2
<1> HIDE DEF Goal
<1> USE <1>d, <1>k, <1>t DEF pub, local
<1>1. ASSUME Schedule PROVE Goal
  BY <1>1, <1>prepare, Moving DEF Schedule, Unclaimed
<1>2. ASSUME Reschedule \/ BecomeDue \/ SwitchCredential PROVE Goal
  BY <1>2, <1>same DEF Reschedule, BecomeDue, SwitchCredential
<1>3. ASSUME Cancel PROVE Goal
  BY <1>3, <1>prepare, Moving DEF Cancel, Unclaimed
<1>4. ASSUME Recover PROVE Goal
  BY <1>4, <1>prepare, Moving DEF Recover, Moves, Unclaimed
<1>5. ASSUME NEW c \in Callers,
             BeginDispatch(c) \/ BeginInvestigate(c) \/ \E k \in Keys : BeginPublish(c, k)
      PROVE  Goal
  <2>1. BeginDispatch(c) \/ BeginInvestigate(c)
    BY <1>5 DEF BeginPublish, Deployed
  <2> QED BY <2>1, <1>same DEF BeginDispatch, BeginInvestigate, At, AfterPost, Failing
<1>6. ASSUME NEW c \in Callers, Claim(c) PROVE Goal
  <2>1. CASE Claimable /\ status' = "PUBLISHING" /\ Goto(c, "load")
    <3>1. status = "QUEUED" /\ pc'[c] \in BeforePost /\ posts' = posts
      BY <1>6, <2>1 DEF Claim, Claimable, Goto, BeforePost
    <3> QED BY <2>1, <3>1, <1>prepare, Moving DEF Unclaimed
  <2>2. CASE Return(c) /\ UNCHANGED status
    BY <1>6, <2>2, <1>ends DEF Claim, At, Return
  <2> QED BY <1>6, <2>1, <2>2 DEF Claim
\* Steps of a call that has not asked the network, and of investigations.
<1>7. ASSUME NEW c \in Callers, Load(c) \/ AcquireAttempt(c) \/ FindAttempt(c) \/ AskProvider(c)
             \/ ConfirmAttempt(c)
      PROVE  Goal
  <2>1. /\ pc[c] \notin AfterPost \cup Failing /\ UNCHANGED <<status, posts>>
        /\ \E label \in Labels \ (AfterPost \cup Failing) : pc' = [pc EXCEPT ![c] = label]
    <3>1. CASE Load(c)
      BY <3>1 DEF Load, At, Loaded, Admit, Goto, Return, AfterPost, Failing, Labels, PublishLabels
    <3>2. CASE AcquireAttempt(c)
      BY <3>2 DEF AcquireAttempt, At, Goto, Return, AfterPost, Failing, Labels, PublishLabels
    <3>3. CASE FindAttempt(c)
      BY <3>3 DEF FindAttempt, At, Return, AfterPost, Failing, Labels, InvestigateLabels
    <3>4. CASE AskProvider(c)
      BY <3>4 DEF AskProvider, At, Goto, Return, AfterPost, Failing, Labels, InvestigateLabels
    <3>5. CASE ConfirmAttempt(c)
      BY <3>5 DEF ConfirmAttempt, At, Goto, Return, AfterPost, Failing, Labels, InvestigateLabels
    <3> QED BY <1>7, <3>1, <3>2, <3>3, <3>4, <3>5
  <2> QED BY <2>1, <1>same
<1>8. ASSUME NEW c \in Callers, Queueing(c) \/ Starting(c) \/ Reload(c) \/ RecordUnknown(c)
             \/ FinaliseUnknown(c) \/ RejectAttempt(c) \/ Requeue(c)
      PROVE  Goal
  BY <1>8 DEF Queueing, Starting, Reload, RecordUnknown, FinaliseUnknown, RejectAttempt, Requeue,
              At, DeployedInv, OneWorker, Unreached
<1>9. ASSUME NEW c \in Callers, CallProvider(c) PROVE Goal
  <2>1. /\ status = "PUBLISHING" /\ posts[DispatchKey] = 0 /\ Heard = "none"
        /\ status' = status /\ key[c] = DispatchKey
    BY <1>9, <1>w DEF CallProvider, At, HeardWhen, DeployedInv, Progress, BeforePost
  <2>2. Goto(c, "recordSucceeded") \/ Goto(c, "recordFailed")
    BY <1>9 DEF CallProvider, Deployed
  <2>3. Heard' \in {"ok", "error"} /\ (Goto(c, "recordFailed") => Heard' = "error")
    BY <1>w, <2>2 DEF HeardWhen, Goto, AfterPost, Failing
  <2>4. CASE Posted(DispatchKey)
    <3>1. posts'[DispatchKey] = 1
      BY <2>1, <2>4 DEF Posted, TypeInv, TypeOK
    <3>2. L!Post
      BY <2>1, <2>3, <3>1 DEF L!Post
    <3> QED BY <3>2 DEF L!Next, Goal
  <2>5. CASE UNCHANGED posts /\ Goto(c, "recordFailed")
    <3>1. L!Refuse
      BY <2>1, <2>3, <2>5 DEF L!Refuse
    <3> QED BY <3>1 DEF L!Next, Goal
  <2> QED BY <1>9, <2>1, <2>4, <2>5 DEF CallProvider, Deployed
<1>10. ASSUME NEW c \in Callers,
              RecordSucceeded(c) \/ MarkAttempt(c) \/ RecordFailed(c) \/ PersistFails(c)
       PROVE  Goal
  <2>1. /\ UNCHANGED <<status, posts>>
        /\ \E label \in Labels :
             /\ pc' = [pc EXCEPT ![c] = label]
             /\ \/ pc[c] \in AfterPost /\ label \in AfterPost
                \/ pc[c] \in Failing /\ label \in Failing
    BY <1>10 DEF RecordSucceeded, MarkAttempt, RecordFailed, PersistFails, At, Goto, AfterPost,
       Failing, Labels, PublishLabels, DeployedInv, OneWorker, Unreached
  <2> QED BY <2>1, <1>onward
<1>11. ASSUME NEW c \in Callers, Finalise(c) PROVE Goal
  <2>1. pc[c] = "finalise" /\ posts[DispatchKey] > 0 /\ posts' = posts
    BY <1>11 DEF Finalise, At, DeployedInv, Progress, AfterPost
  <2>2. CASE Moves("PUBLISHING", "PUBLISHED") /\ Goto(c, "idle")
    <3>1. /\ status = "PUBLISHING" /\ status' = "PUBLISHED"
          /\ pc'[c] = "idle" /\ \A e \in Callers \ {c} : pc'[e] = pc[e]
      BY <2>2 DEF Moves, Goto, Return
    <3>2. Heard' \in {Heard, "none"}
      BY <2>1, <3>1, <1>forget DEF AfterPost, Failing
    <3> QED BY <2>1, <3>1, <3>2, Moving DEF L!Next, L!Confirm, L!Forgotten, Goal
  <2>3. CASE Goto(c, "markUnknown") /\ UNCHANGED status
    BY <2>1, <2>3, <1>onward DEF Goto, AfterPost
  <2> QED BY <1>11, <2>2, <2>3 DEF Finalise
<1>12. ASSUME NEW c \in Callers, FinaliseFailed(c) PROVE Goal
  <2>1. pc[c] = "finaliseFailed" /\ status = "PUBLISHING" /\ Heard = "error" /\ posts' = posts
    BY <1>12, <1>w DEF FinaliseFailed, At, DeployedInv, Progress, HeardWhen, Failing
  <2>2. status' = "FAILED"
    BY <1>12, <2>1 DEF FinaliseFailed, Moves
  <2>3. Heard' = "error"
    BY <1>w, <2>2 DEF HeardWhen
  <2> QED BY <2>1, <2>2, <2>3 DEF L!Next, L!Fail, Goal
<1>13. ASSUME NEW c \in Callers, MarkUnknown(c) PROVE Goal
  <2>1. CASE status = "PUBLISHING"
    BY <1>13, <2>1, <1>onward DEF MarkUnknown, At, Goto, AfterPost
  <2>2. CASE status # "PUBLISHING"
    BY <1>13, <2>2, <1>ends DEF MarkUnknown, At, Goto, Return
  <2> QED BY <2>1, <2>2
<1>14. ASSUME NEW c \in Callers, MarkFinal(c) PROVE Goal
  <2>1. /\ pc[c] = "markFinal" /\ pc' = [pc EXCEPT ![c] = "idle"] /\ posts' = posts
    BY <1>14 DEF MarkFinal, At, Goto, Return
  <2>2. CASE Moves("PUBLISHING", "OUTCOME_UNKNOWN")
    <3>1. status = "PUBLISHING" /\ status' = "OUTCOME_UNKNOWN"
      BY <2>2 DEF Moves
    <3>2. Heard' \in {Heard, "none"}
      BY <2>1, <3>1, <1>forget DEF AfterPost, Failing
    <3> QED BY <2>1, <3>1, <3>2, Moving DEF L!Next, L!Doubt, L!Forgotten, Goal
  <2>3. CASE UNCHANGED status
    BY <2>1, <2>3, <1>ends
  <2> QED BY <1>14, <2>2, <2>3 DEF MarkFinal
<1>15. ASSUME NEW c \in Callers, Confirm(c) PROVE Goal
  <2>1. /\ pc[c] = "confirm" /\ pc' = [pc EXCEPT ![c] = "idle"] /\ posts' = posts
        /\ posts[DispatchKey] > 0
    BY <1>15 DEF Confirm, At, Goto, Return, DeployedInv, Progress, World
  <2>2. CASE Reconciles(seen[c].status, "PUBLISHED")
    <3>1. status \in {"OUTCOME_UNKNOWN", "PUBLISHING"} /\ status' = "PUBLISHED"
      BY <2>2 DEF Reconciles, reconciliationTransitions
    <3>2. Heard' \in {Heard, "none"}
      BY <2>1, <3>1, <1>forget DEF AfterPost, Failing
    <3> QED BY <2>1, <3>1, <3>2, Moving DEF L!Next, L!Confirm, L!Forgotten, Goal
  <2>3. CASE UNCHANGED status
    BY <2>1, <2>3, <1>ends
  <2> QED BY <1>15, <2>2, <2>3 DEF Confirm
<1>16. ASSUME NEW c \in Callers, Abort(c) PROVE Goal
  BY <1>16, <1>ends DEF Abort, Return
<1>17. CASE UNCHANGED vars
  BY <1>17, <1>same DEF vars
<1> QED
  BY <1>1, <1>2, <1>3, <1>4, <1>5, <1>6, <1>7, <1>8, <1>9, <1>10, <1>11, <1>12, <1>13, <1>14,
     <1>15, <1>16, <1>17 DEF Next, Step

\* What the deployed system put on the network had come due, and a publication that
\* was cancelled, rescheduled or queued anew is not on it.
THEOREM NeverEarlyDeployed == ASSUME Deployed PROVE Spec => []NeverEarly
<1>1. TypeInv /\ DeployedInv => NeverEarly
  BY PublishingAssumption
  DEF DeployedInv, World, NeverEarly, Unclaimed, legacyRecoveryStates, TypeInv, TypeOK
<1>2. Init => TypeInv /\ DeployedInv
  BY TypeInit, DeployedInit
<1>3. TypeInv /\ DeployedInv /\ [Next]_vars => TypeInv' /\ DeployedInv'
  BY TypeNext, DeployedNext
<1> QED BY <1>1, <1>2, <1>3, PTL DEF Spec

\* W3.5 holds of the deployed calls, whatever becomes of requests that are cut off: a
\* publication is not FAILED while an attempt of it is recorded as a success
\* (publishing.ts:337-392, 470-500).
THEOREM SuccessNeverFailedDeployed == ASSUME Deployed PROVE Spec => []SuccessNeverFailed
<1>1. TypeInv /\ DeployedInv => SuccessNeverFailed
  BY PublishingAssumption DEF DeployedInv, World, SuccessNeverFailed, NoAttempt
<1>2. Init => TypeInv /\ DeployedInv
  BY TypeInit, DeployedInit
<1>3. TypeInv /\ DeployedInv /\ [Next]_vars => TypeInv' /\ DeployedInv'
  BY TypeNext, DeployedNext
<1> QED BY <1>1, <1>2, <1>3, PTL DEF Spec

\* The deployed system implements PublicationLifecycle, for any number of workers and
\* investigations: at most one post, a status that does not contradict the network, and
\* FAILED only where the request ended in an error, which may have posted all the same.
THEOREM DeployedRefinesLifecycle == ASSUME Deployed PROVE Spec => RefinesLifecycle
<1>1. Init => TypeInv /\ DeployedInv /\ L!Init
  BY TypeInit, DeployedInit, PublishingAssumption
  DEF Init, L!Init, legacyRecoveryStates, L!legacyRecoveryStates, Heard
<1>2. TypeInv /\ DeployedInv /\ [Next]_vars => TypeInv' /\ DeployedInv'
  BY TypeNext, DeployedNext
<1>3. TypeInv /\ DeployedInv /\ [Next]_vars => [L!Next]_(L!lifecycle)
  BY StepRefines
<1> QED BY <1>1, <1>2, <1>3, PTL DEF Spec, RefinesLifecycle, L!Spec

\* The promise of PublicationLifecycle: whatever implements it never has two posts, never
\* says PUBLISHED without one, nor DRAFT, QUEUED or CANCELLED with one; it says FAILED after
\* an error only, and never of a post that came without one.
THEOREM PublicationIsHonest == L!Spec => [](L!TypeOK /\ L!Honest) /\ L!SuccessStays
<1>1. L!Init => L!TypeOK /\ L!Honest
  BY DEF L!Init, L!TypeOK, L!Honest, L!PublicationStatus, L!legacyRecoveryStates
<1>2. L!TypeOK /\ L!Honest /\ [L!Next]_(L!lifecycle) => L!TypeOK' /\ L!Honest'
  <2> SUFFICES ASSUME L!TypeOK, L!Honest, [L!Next]_(L!lifecycle) PROVE L!TypeOK' /\ L!Honest'
    OBVIOUS
  <2> USE DEF L!TypeOK, L!Honest, L!PublicationStatus, L!legacyRecoveryStates
  <2>1. ASSUME NEW to \in L!PublicationStatus, L!Prepare(to) PROVE L!TypeOK' /\ L!Honest'
    BY <2>1 DEF L!Prepare
  <2>2. CASE L!Post
    BY <2>2 DEF L!Post
  <2>3. CASE L!Refuse
    BY <2>3 DEF L!Refuse
  <2>4. CASE L!Forget
    BY <2>4 DEF L!Forget, L!Forgotten
  <2>5. CASE L!Confirm
    BY <2>5 DEF L!Confirm, L!Forgotten
  <2>6. CASE L!Fail
    BY <2>6 DEF L!Fail
  <2>7. CASE L!Doubt
    <3>1. status = "PUBLISHING"
      BY <2>7 DEF L!Doubt, L!publicationTransitions
    <3> QED BY <2>7, <3>1 DEF L!Doubt, L!Forgotten
  <2>8. CASE L!Requeue
    BY <2>8 DEF L!Requeue
  <2>9. CASE UNCHANGED L!lifecycle
    BY <2>9 DEF L!lifecycle
  <2> QED BY <2>1, <2>2, <2>3, <2>4, <2>5, <2>6, <2>7, <2>8, <2>9 DEF L!Next
<1>3. L!TypeOK /\ L!Honest /\ [L!Next]_(L!lifecycle)
        => [posts[DispatchKey] > 0 /\ Heard # "error"
              => Heard' # "error" /\ status' # "FAILED"]_(L!lifecycle)
  <2> SUFFICES ASSUME L!TypeOK, L!Honest, L!Next, posts[DispatchKey] > 0, Heard # "error"
               PROVE  Heard' # "error" /\ status' # "FAILED"
    OBVIOUS
  <2>1. status \in {"PUBLISHING", "OUTCOME_UNKNOWN", "PUBLISHED"} /\ posts[DispatchKey] # 0
    BY DEF L!TypeOK, L!Honest
  <2> QED BY <2>1 DEF L!Next, L!Prepare, L!Post, L!Refuse, L!Forget, L!Forgotten, L!Confirm,
                      L!Fail, L!Doubt, L!Requeue
<1> QED BY <1>1, <1>2, <1>3, PTL DEF L!Spec, L!SuccessStays

\* So does the deployed system: PUBLISHED is said of what is on the network, what is on it
\* is there once, being published, uncertain, PUBLISHED or FAILED, and FAILED it is only
\* if the request that put it there ended in an error.
THEOREM DeployedIsHonest ==
  ASSUME Deployed PROVE Spec => [](L!TypeOK /\ L!Honest) /\ L!SuccessStays
BY DeployedRefinesLifecycle, PublicationIsHonest, PTL DEF RefinesLifecycle

-----------------------------------------------------------------------------
(* What ClaimSettles rests on: a claim has a worker, whose way is finite.  *)

\* While no process dies and the account is not disconnected.
Spared == Faults \cap {"abort", "disconnect"} = {}

\* Somebody works on a publication that is PUBLISHING.
ClaimIsHeld == status = "PUBLISHING" => credential /\ \E c \in Callers : pc[c] \in Working

\* How many statements and requests a worker still has before it, at the most.
Left(label) ==
  CASE label = "load" -> 8
    [] label = "acquire" -> 7
    [] label = "calling" -> 6
    [] label \in {"recordSucceeded", "recordFailed"} -> 5
    [] label \in {"finalise", "finaliseFailed"} -> 4
    [] label = "markUnknown" -> 3
    [] label = "markAttempt" -> 2
    [] label = "markFinal" -> 1

\* A step of the worker takes it nearer to its end, and nobody else takes it anywhere.
Advances ==
  status = "PUBLISHING" /\ status' = "PUBLISHING" =>
    \A c \in Callers : pc[c] \in Working =>
      \/ pc'[c] = pc[c] /\ ~Step(c)
      \/ pc'[c] \in Working /\ Left(pc'[c]) < Left(pc[c])

\* A worker does not stay where it is.
LEMMA StepLeaves ==
  ASSUME TypeInv, NEW c \in Callers, pc[c] \in Working, Step(c)
  PROVE  pc'[c] # pc[c]
<1>p. pc \in [Callers -> Labels]
  BY DEF TypeInv, TypeOK
<1>w. Working = {"load", "acquire", "calling", "recordFailed", "finaliseFailed",
                 "recordSucceeded", "finalise", "markUnknown", "markAttempt", "markFinal"}
  BY DEF Working, BeforePost, AfterPost, Failing
<1>1. ASSUME NEW label, label # pc[c], Goto(c, label) PROVE pc'[c] # pc[c]
  BY <1>1, <1>p, <1>w DEF Goto, Return
<1>2. CASE Load(c)
  <2>1. pc[c] = "load" /\ Goto(c, Loaded(key[c])) /\ Loaded(key[c]) # "load"
    BY <1>2 DEF Load, At, Loaded, Admit
  <2> QED BY <2>1, <1>1
<1>3. CASE AcquireAttempt(c)
  BY <1>3, <1>1 DEF AcquireAttempt, At
<1>4. CASE CallProvider(c)
  BY <1>4, <1>1 DEF CallProvider, At
<1>5. CASE RecordSucceeded(c) \/ Finalise(c) \/ RecordFailed(c) \/ FinaliseFailed(c)
  BY <1>5, <1>1 DEF RecordSucceeded, Finalise, RecordFailed, FinaliseFailed, At
<1>6. CASE MarkUnknown(c) \/ MarkAttempt(c) \/ MarkFinal(c)
  BY <1>6, <1>1 DEF MarkUnknown, MarkAttempt, MarkFinal, At
<1> QED
  BY <1>w, <1>2, <1>3, <1>4, <1>5, <1>6
  DEF Step, At, Claim, Queueing, Starting, Reload, RecordUnknown, FinaliseUnknown, FindAttempt,
      AskProvider, ConfirmAttempt, Confirm, RejectAttempt, Requeue

LEMMA HeldNext ==
  Deployed /\ Spared /\ TypeInv /\ DeployedInv /\ credential /\ ClaimIsHeld /\ [Next]_vars
    => credential' /\ ClaimIsHeld' /\ [Advances]_vars
<1> SUFFICES ASSUME Deployed, Spared, TypeInv, DeployedInv, credential, ClaimIsHeld, [Next]_vars
             PROVE  credential' /\ ClaimIsHeld' /\ Advances
  OBVIOUS
<1> DEFINE Goal == credential' /\ ClaimIsHeld' /\ Advances
<1>d. DispatchKey \in Keys /\ NoKey \notin Keys
  BY PublishingAssumption
<1>k. \A c \in Callers : pc[c] \notin {"idle", "find"} => key[c] = DispatchKey
  <2>1. \A c \in Callers : pc[c] \notin {"idle", "find"} => key[c] \in Keys
    BY DEF TypeInv, TypeOK, KeyHeld, Keyed
  <2> QED BY <2>1, <1>d DEF DeployedInv, OneWorker
<1>w. Working = {"load", "acquire", "calling", "recordFailed", "finaliseFailed",
                 "recordSucceeded", "finalise", "markUnknown", "markAttempt", "markFinal"}
  BY DEF Working, BeforePost, AfterPost, Failing
<1>p. pc \in [Callers -> Labels]
  BY DEF TypeInv, TypeOK
\* A step that leaves the workers' labels, and does not make the status PUBLISHING.
<1>s. ASSUME \A c \in Callers : pc[c] \in Working => pc'[c] = pc[c],
             status' = "PUBLISHING" => status = "PUBLISHING", credential' = credential
      PROVE  Goal
  BY <1>s, StepLeaves DEF ClaimIsHeld, Advances
\* A step that takes one worker on, or ends its work with the claim.
<1>n. ASSUME NEW c \in Callers, NEW label \in Labels, pc' = [pc EXCEPT ![c] = label],
             credential' = credential, status' = status,
             status = "PUBLISHING" => label \in Working /\ Left(label) < Left(pc[c])
      PROVE  Goal
  <2>1. \A e \in Callers : pc'[e] = IF e = c THEN label ELSE pc[e]
    BY <1>n, <1>p
  <2>2. ClaimIsHeld'
    <3>1. CASE status = "PUBLISHING"
      BY <1>n, <2>1, <3>1 DEF ClaimIsHeld
    <3> QED BY <1>n, <3>1 DEF ClaimIsHeld
  <2> QED BY <1>n, <2>1, <2>2, StepLeaves DEF Advances
<1>e. ASSUME NEW c \in Callers, pc' = [pc EXCEPT ![c] = "idle"],
             credential' = credential, status' # "PUBLISHING"
      PROVE  Goal
  BY <1>e DEF ClaimIsHeld, Advances
\* A step of a call that is no worker's.
<1>o. ASSUME NEW c \in Callers, pc[c] \notin Working,
             \A e \in Callers \ {c} : pc'[e] = pc[e],
             status' = "PUBLISHING" => status = "PUBLISHING", credential' = credential
      PROVE  Goal
  BY <1>o, <1>s
<1> HIDE DEF Goal
<1> USE <1>d, <1>k, <1>p DEF pub, local
<1>1. ASSUME Schedule \/ Reschedule \/ Cancel \/ Recover \/ BecomeDue PROVE Goal
  BY <1>1, <1>s DEF Schedule, Reschedule, Cancel, Recover, BecomeDue, Moves
<1>2. ASSUME SwitchCredential PROVE Goal
  BY <1>2 DEF SwitchCredential, Spared
<1>3. ASSUME NEW c \in Callers,
             BeginDispatch(c) \/ BeginInvestigate(c) \/ \E k \in Keys : BeginPublish(c, k)
      PROVE  Goal
  <2>1. BeginDispatch(c) \/ BeginInvestigate(c)
    BY <1>3 DEF BeginPublish, Deployed
  <2>2. /\ pc[c] \notin Working /\ \A e \in Callers \ {c} : pc'[e] = pc[e]
        /\ status' = status /\ credential' = credential
    BY <2>1, <1>w DEF BeginDispatch, BeginInvestigate, At
  <2> QED BY <2>2, <1>o
<1>4. ASSUME NEW c \in Callers, Claim(c) PROVE Goal
  <2>1. pc[c] = "claim" /\ credential' = credential
    BY <1>4 DEF Claim, At
  <2>2. CASE Claimable /\ status' = "PUBLISHING" /\ Goto(c, "load")
    <3>1. pc' = [pc EXCEPT ![c] = "load"] /\ status # "PUBLISHING"
      BY <2>2 DEF Goto, Claimable
    <3>2. pc'[c] = "load" /\ "load" \in Working
      BY <3>1, <1>w
    <3> QED BY <2>1, <2>2, <3>1, <3>2 DEF Goal, ClaimIsHeld, Advances
  <2>3. CASE Return(c) /\ UNCHANGED status
    BY <2>1, <2>3, <1>o, <1>w DEF Return
  <2> QED BY <1>4, <2>2, <2>3 DEF Claim
<1>5. ASSUME NEW c \in Callers, Load(c) PROVE Goal
  <2>1. /\ pc[c] = "load" /\ status = "PUBLISHING" /\ attempts[DispatchKey].status = "NONE"
        /\ key[c] = DispatchKey
    BY <1>5 DEF Load, At, DeployedInv, Progress, BeforePost
  <2>2. Loaded(DispatchKey) = "acquire"
    BY <2>1 DEF Loaded, Admit
  <2> QED BY <1>5, <2>1, <2>2, <1>n, <1>w DEF Load, Goto, Left, Labels, PublishLabels
<1>6. ASSUME NEW c \in Callers, Queueing(c) \/ Starting(c) \/ Reload(c) \/ RecordUnknown(c)
             \/ FinaliseUnknown(c) \/ RejectAttempt(c) \/ Requeue(c)
      PROVE  Goal
  BY <1>6 DEF Queueing, Starting, Reload, RecordUnknown, FinaliseUnknown, RejectAttempt, Requeue,
              At, DeployedInv, OneWorker, Unreached
<1>7. ASSUME NEW c \in Callers, AcquireAttempt(c) PROVE Goal
  <2>1. pc[c] = "acquire" /\ attempts[DispatchKey].status = "NONE" /\ key[c] = DispatchKey
    BY <1>7 DEF AcquireAttempt, At, DeployedInv, Progress
  <2>2. Goto(c, "calling") /\ UNCHANGED <<pub, credential>>
    BY <1>7, <2>1 DEF AcquireAttempt
  <2> QED BY <2>1, <2>2, <1>n, <1>w DEF Goto, Left, Labels, PublishLabels
<1>8. ASSUME NEW c \in Callers, CallProvider(c) PROVE Goal
  <2>1. /\ pc[c] = "calling" /\ UNCHANGED <<pub, credential>>
        /\ Goto(c, "recordSucceeded") \/ Goto(c, "recordFailed")
    BY <1>8 DEF CallProvider, At, Deployed
  <2> QED BY <2>1, <1>n, <1>w DEF Goto, Left, Labels, PublishLabels
<1>9. ASSUME NEW c \in Callers, RecordSucceeded(c) PROVE Goal
  BY <1>9, <1>n, <1>w DEF RecordSucceeded, At, Goto, Left, Labels, PublishLabels
<1>10. ASSUME NEW c \in Callers, Finalise(c) PROVE Goal
  <2>1. CASE Moves("PUBLISHING", "PUBLISHED") /\ Goto(c, "idle") /\ UNCHANGED credential
    BY <2>1, <1>e DEF Moves, Goto, Return
  <2>2. CASE status # "PUBLISHING" /\ Goto(c, "markUnknown") /\ UNCHANGED <<status, credential>>
    BY <2>2, <1>n DEF Goto, Labels, PublishLabels
  <2> QED BY <1>10, <2>1, <2>2 DEF Finalise
<1>11. ASSUME NEW c \in Callers, RecordFailed(c) PROVE Goal
  BY <1>11, <1>n, <1>w DEF RecordFailed, At, Goto, Left, Labels, PublishLabels
<1>12. ASSUME NEW c \in Callers, FinaliseFailed(c) PROVE Goal
  BY <1>12, <1>e DEF FinaliseFailed, Moves, Goto, Return
<1>13. ASSUME NEW c \in Callers, MarkUnknown(c) PROVE Goal
  <2>1. CASE status = "PUBLISHING"
    BY <1>13, <2>1, <1>n, <1>w DEF MarkUnknown, At, Goto, Left, Labels, PublishLabels
  <2>2. CASE status # "PUBLISHING"
    BY <1>13, <2>2, <1>e DEF MarkUnknown, Goto, Return
  <2> QED BY <2>1, <2>2
<1>14. ASSUME NEW c \in Callers, MarkAttempt(c) PROVE Goal
  BY <1>14, <1>n, <1>w DEF MarkAttempt, At, Goto, Left, Labels, PublishLabels
<1>15. ASSUME NEW c \in Callers, MarkFinal(c) PROVE Goal
  BY <1>15, <1>e DEF MarkFinal, Moves, Goto, Return
<1>16. ASSUME NEW c \in Callers, FindAttempt(c) \/ AskProvider(c) \/ ConfirmAttempt(c) PROVE Goal
  <2>1. /\ pc[c] \in {"find", "ask", "confirmAttempt"} /\ UNCHANGED <<pub, credential>>
        /\ \E label \in Labels : pc' = [pc EXCEPT ![c] = label]
    <3>1. CASE FindAttempt(c)
      BY <3>1 DEF FindAttempt, At, Return, Labels, InvestigateLabels
    <3>2. CASE AskProvider(c)
      BY <3>2 DEF AskProvider, At, Goto, Return, Labels, InvestigateLabels
    <3>3. CASE ConfirmAttempt(c)
      BY <3>3 DEF ConfirmAttempt, At, Goto, Return, Labels, InvestigateLabels
    <3> QED BY <1>16, <3>1, <3>2, <3>3
  <2> QED BY <2>1, <1>o, <1>w
<1>17. ASSUME NEW c \in Callers, Confirm(c) PROVE Goal
  <2>1. /\ pc[c] = "confirm" /\ credential' = credential /\ pc' = [pc EXCEPT ![c] = "idle"]
        /\ status' = "PUBLISHING" => status = "PUBLISHING"
    BY <1>17 DEF Confirm, At, Goto, Return, Reconciles
  <2> QED BY <2>1, <1>o, <1>w
<1>18. ASSUME NEW c \in Callers, Abort(c) PROVE Goal
  BY <1>18 DEF Abort, Spared
<1>19. ASSUME NEW c \in Callers, PersistFails(c) PROVE Goal
  <2>1. /\ pc[c] \in {"recordSucceeded", "finalise"} /\ UNCHANGED <<pub, credential>>
        /\ pc' = [pc EXCEPT ![c] = "markUnknown"]
    BY <1>19 DEF PersistFails, Goto, DeployedInv, OneWorker, Unreached
  <2>2. Left("markUnknown") < Left(pc[c])
    BY <2>1 DEF Left
  <2>3. "markUnknown" \in Labels
    BY DEF Labels, PublishLabels
  <2> QED BY <2>1, <2>2, <2>3, <1>n, <1>w
<1>20. CASE UNCHANGED vars
  BY <1>20, <1>s DEF vars, Goal
<1> QED
  BY <1>1, <1>2, <1>3, <1>4, <1>5, <1>6, <1>7, <1>8, <1>9, <1>10, <1>11, <1>12, <1>13, <1>14,
     <1>15, <1>16, <1>17, <1>18, <1>19, <1>20 DEF Next, Step, Goal

LEMMA HeldInit == Init => credential /\ ClaimIsHeld
BY DEF Init, ClaimIsHeld, legacyRecoveryStates

\* A claimed publication is never left alone: as long as no process dies and the account
\* stays connected, some call works on every publication that is PUBLISHING.
THEOREM ClaimIsHeldDeployed == ASSUME Deployed, Spared PROVE Spec => []ClaimIsHeld
<1>1. Init => TypeInv /\ DeployedInv /\ credential /\ ClaimIsHeld
  BY TypeInit, DeployedInit, HeldInit
<1>2. TypeInv /\ DeployedInv /\ credential /\ ClaimIsHeld /\ [Next]_vars
        => TypeInv' /\ DeployedInv' /\ credential' /\ ClaimIsHeld'
  BY TypeNext, DeployedNext, HeldNext
<1> QED BY <1>1, <1>2, PTL DEF Spec

\* And no step of anybody, an investigation included, sends that call back: it has eight
\* statements and requests before it at the most.
THEOREM ClaimAdvancesDeployed == ASSUME Deployed, Spared PROVE Spec => [][Advances]_vars
<1>1. Init => TypeInv /\ DeployedInv /\ credential /\ ClaimIsHeld
  BY TypeInit, DeployedInit, HeldInit
<1>2. TypeInv /\ DeployedInv /\ credential /\ ClaimIsHeld /\ [Next]_vars
        => TypeInv' /\ DeployedInv' /\ credential' /\ ClaimIsHeld' /\ [Advances]_vars
  BY TypeNext, DeployedNext, HeldNext
<1> QED BY <1>1, <1>2, PTL DEF Spec
=============================================================================
