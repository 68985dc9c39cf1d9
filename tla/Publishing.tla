----------------------------- MODULE Publishing -----------------------------
(***************************************************************************)
(* One publication row, its attempt rows, and the calls that work on them  *)
(* concurrently: createPublishingService (publish, investigate, schedule,  *)
(* recover), createPublicationDispatchService (dispatch) and               *)
(* createPublicationSchedulingService (reschedule, cancel).                *)
(*                                                                         *)
(* Every call is a sequence of steps separated by its awaits; a step is    *)
(* one database statement (or transaction) or one provider request.  The   *)
(* label in pc names the step a call does next.  Statements on the status  *)
(* are compare-and-set, statements on an attempt are not.                  *)
(***************************************************************************)
EXTENDS PublicationStates, Naturals, FiniteSets

CONSTANTS
  Callers,          \* concurrent calls of the services (web request or worker job)
  Keys,             \* idempotency keys the callers may present
  DispatchKey,      \* the key of the dispatch run, publication-dispatch:<id>
  NoKey,            \* absence of an attempt
  Ops,              \* operations in use: subset of {"publish","dispatch","investigate"}
  Answers,          \* what the provider may answer: subset of {"PUBLISHED","OUTCOME_UNKNOWN"}
  TimeoutMayPost,   \* may a request that timed out have created the post?
  DedupByKey,       \* does the provider create one post per key (VK guid)?
  StatusWithoutJob, \* getStatus of an attempt whose provider job is not known
  Faults,           \* subset of {"abort","persist","disconnect"}
  MaxPosts          \* bound on the posts the provider creates for one key

ASSUME PublishingAssumption ==
  /\ IsFiniteSet(Keys)
  /\ DispatchKey \in Keys
  /\ NoKey \notin Keys
  /\ Ops \subseteq {"publish", "dispatch", "investigate"}
  /\ Answers \subseteq {"PUBLISHED", "OUTCOME_UNKNOWN"}
  /\ TimeoutMayPost \in BOOLEAN
  /\ DedupByKey \in BOOLEAN
  /\ StatusWithoutJob \in {"NOT_FOUND", "OUTCOME_UNKNOWN"}
  /\ MaxPosts \in Nat

VARIABLES
  status,     \* Publication.status
  last,       \* Publication.lastAttemptId, as the key of that attempt
  sched,      \* Publication.scheduledAt: "none", "future" or "due"
  attempts,   \* PublicationAttempt rows of this publication, by idempotency key
  credential, \* does the social account have a credential row?
  posts,      \* posts on the social network, by the key they were requested under
  pc,         \* next step of each call
  key,        \* idempotency key (publish) or attempt (investigate) of each call
  seen        \* what an investigation has read: status and whether a job is known

pub   == <<status, last, sched>>
local == <<pc, key, seen>>
vars  == <<status, last, sched, attempts, credential, posts, pc, key, seen>>

AttemptStatus == {"NONE", "STARTED", "SUCCEEDED", "FAILED", "OUTCOME_UNKNOWN"}
Attempt   == [status : AttemptStatus, job : BOOLEAN, number : Nat]
NoAttempt == [status |-> "NONE", job |-> FALSE, number |-> 0]
NotSeen   == [status |-> "DRAFT", job |-> FALSE]

PublishLabels ==
  {"load", "queueing", "starting", "reload", "acquire", "calling", "recordSucceeded",
   "finalise", "recordUnknown", "finaliseUnknown", "recordFailed", "finaliseFailed",
   "markUnknown", "markAttempt", "markFinal"}
InvestigateLabels ==
  {"find", "ask", "confirmAttempt", "confirm", "rejectAttempt", "requeue"}
Labels == {"idle", "claim"} \cup PublishLabels \cup InvestigateLabels

TypeOK ==
  /\ status \in PublicationStatus
  /\ last \in Keys \cup {NoKey}
  /\ sched \in {"none", "future", "due"}
  /\ attempts \in [Keys -> Attempt]
  /\ credential \in BOOLEAN
  /\ posts \in [Keys -> Nat]
  /\ pc \in [Callers -> Labels]
  /\ key \in [Callers -> Keys \cup {NoKey}]
  /\ seen \in [Callers -> [status : PublicationStatus, job : BOOLEAN]]

(***************************************************************************)
(* A publication starts as DRAFT; rows an older release left in one of the *)
(* legacy states may carry a schedule.                                     *)
(***************************************************************************)
Init ==
  /\ \/ status = "DRAFT" /\ sched = "none"
     \/ status \in legacyRecoveryStates /\ sched \in {"none", "due"}
  /\ last = NoKey
  /\ attempts = [k \in Keys |-> NoAttempt]
  /\ credential = TRUE
  /\ posts = [k \in Keys |-> 0]
  /\ pc = [c \in Callers |-> "idle"]
  /\ key = [c \in Callers |-> NoKey]
  /\ seen = [c \in Callers |-> NotSeen]

-----------------------------------------------------------------------------
(***************************************************************************)
(* Helpers.  Goto continues a call, returning clears its locals.           *)
(***************************************************************************)
At(c, label) == pc[c] = label

Return(c) ==
  /\ pc' = [pc EXCEPT ![c] = "idle"]
  /\ key' = [key EXCEPT ![c] = NoKey]
  /\ seen' = [seen EXCEPT ![c] = NotSeen]

Goto(c, label) ==
  IF label = "idle" THEN Return(c)
  ELSE pc' = [pc EXCEPT ![c] = label] /\ UNCHANGED <<key, seen>>

\* transition(): a permitted move, written only if the status is still `from'.
Moves(from, to) == to \in publicationTransitions[from] /\ status = from /\ status' = to
Reconciles(from, to) == to \in reconciliationTransitions[from] /\ status = from /\ status' = to

\* updateAttempt(): unconditional on the attempt's present status.
Mark(k, s) == attempts' = [attempts EXCEPT ![k].status = s]
MarkWithJob(k, s) == attempts' = [attempts EXCEPT ![k].status = s, ![k].job = TRUE]

\* publish() after a load that found PUBLISHING: does this call go to the
\* provider, and through createOrGetAttempt or straight (a FAILED attempt)?
Admit(k) ==
  CASE ~credential                    -> "idle"
    [] attempts[k].status = "NONE"    -> "acquire"
    [] attempts[k].status = "FAILED"  -> "calling"
    [] OTHER                          -> "idle"

\* publish() after its first load, and after the load that follows DRAFT -> QUEUED.
Loaded(k) ==
  CASE status = "DRAFT"      -> "queueing"
    [] status = "QUEUED"     -> "starting"
    [] status = "PUBLISHING" -> Admit(k)
    [] OTHER                 -> "idle"

\* Slip: the claim does not look at the schedule.
ClaimableEarly == status = "QUEUED" /\ last = NoKey

\* claimDuePublicationForDispatch: the worker's compare-and-set.
Claimable == status = "QUEUED" /\ sched = "due" /\ last = NoKey

-----------------------------------------------------------------------------
(* Calendar operations: each is decided by one statement.                  *)

Schedule ==
  /\ status = "DRAFT"
  /\ status' = "QUEUED"
  /\ sched' = "future"
  /\ UNCHANGED <<last, attempts, credential, posts, local>>

Reschedule ==
  /\ status = "QUEUED"
  /\ last = NoKey
  /\ sched' = "future"
  /\ UNCHANGED <<status, last, attempts, credential, posts, local>>

Cancel ==
  /\ status = "QUEUED"
  /\ last = NoKey
  /\ status' = "CANCELLED"
  /\ UNCHANGED <<last, sched, attempts, credential, posts, local>>

Recover ==
  /\ status \in legacyRecoveryStates
  /\ Moves(status, "QUEUED")
  /\ UNCHANGED <<last, sched, attempts, credential, posts, local>>

\* scheduledAt passes.
BecomeDue ==
  /\ sched = "future"
  /\ sched' = "due"
  /\ UNCHANGED <<status, last, attempts, credential, posts, local>>

\* The account is disconnected (its credential deleted) or connected again.
SwitchCredential ==
  /\ "disconnect" \in Faults
  /\ credential' = ~credential
  /\ UNCHANGED <<pub, attempts, posts, local>>

-----------------------------------------------------------------------------
(* dispatch(): read the publication, claim it, publish with the run's key. *)

BeginDispatch(c) ==
  /\ "dispatch" \in Ops
  /\ At(c, "idle")
  /\ status = "QUEUED"
  /\ pc' = [pc EXCEPT ![c] = "claim"]
  /\ key' = [key EXCEPT ![c] = DispatchKey]
  /\ UNCHANGED <<pub, attempts, credential, posts, seen>>

Claim(c) ==
  /\ At(c, "claim")
  /\ \/ /\ Claimable
        /\ status' = "PUBLISHING"
        /\ Goto(c, "load")
     \/ ~Claimable /\ Return(c) /\ UNCHANGED status
  /\ UNCHANGED <<last, sched, attempts, credential, posts>>

-----------------------------------------------------------------------------
(* publish(): the row is loaded, moved to PUBLISHING, an attempt acquired. *)

BeginPublish(c, k) ==
  /\ "publish" \in Ops
  /\ At(c, "idle")
  /\ Loaded(k) # "idle"
  /\ pc' = [pc EXCEPT ![c] = Loaded(k)]
  /\ key' = [key EXCEPT ![c] = k]
  /\ UNCHANGED <<pub, attempts, credential, posts, seen>>

Load(c) ==
  /\ At(c, "load")
  /\ Goto(c, Loaded(key[c]))
  /\ UNCHANGED <<pub, attempts, credential, posts>>

\* A lost race from DRAFT is an error for the caller.
Queueing(c) ==
  /\ At(c, "queueing")
  /\ \/ Moves("DRAFT", "QUEUED") /\ Goto(c, "load")
     \/ status # "DRAFT" /\ Return(c) /\ UNCHANGED status
  /\ UNCHANGED <<last, sched, attempts, credential, posts>>

\* A lost race from QUEUED is swallowed: the call goes on with what it reloads.
Starting(c) ==
  /\ At(c, "starting")
  /\ \/ Moves("QUEUED", "PUBLISHING")
     \/ status # "QUEUED" /\ UNCHANGED status
  /\ Goto(c, "reload")
  /\ UNCHANGED <<last, sched, attempts, credential, posts>>

Reload(c) ==
  /\ At(c, "reload")
  /\ Goto(c, IF status = "PUBLISHING" THEN Admit(key[c]) ELSE "idle")
  /\ UNCHANGED <<pub, attempts, credential, posts>>

\* Slip: an attempt in progress is handed to the second caller too.
AcquireAttemptShared(c) ==
  LET k == key[c] IN
  /\ At(c, "acquire")
  /\ \/ /\ attempts[k].status = "NONE"
        /\ attempts' = [attempts EXCEPT ![k] =
             [status |-> "STARTED", job |-> FALSE,
              number |-> 1 + Cardinality({j \in Keys : attempts[j].status # "NONE"})]]
        /\ Goto(c, "calling")
     \/ /\ attempts[k].status # "NONE"
        /\ Goto(c, IF attempts[k].status \in {"STARTED", "FAILED"} THEN "calling" ELSE "idle")
        /\ UNCHANGED attempts
  /\ UNCHANGED <<pub, credential, posts>>

\* createOrGetAttempt(): one transaction that locks the publication row.
AcquireAttempt(c) ==
  LET k == key[c] IN
  /\ At(c, "acquire")
  /\ \/ /\ attempts[k].status = "NONE"
        /\ attempts' = [attempts EXCEPT ![k] =
             [status |-> "STARTED", job |-> FALSE,
              number |-> 1 + Cardinality({j \in Keys : attempts[j].status # "NONE"})]]
        /\ Goto(c, "calling")
     \/ /\ attempts[k].status # "NONE"
        /\ Goto(c, IF attempts[k].status = "FAILED" THEN "calling" ELSE "idle")
        /\ UNCHANGED attempts
  /\ UNCHANGED <<pub, credential, posts>>

\* What a request that reaches the network does there.
Posted(k) ==
  /\ posts[k] < MaxPosts
  /\ posts' = IF DedupByKey /\ posts[k] > 0 THEN posts ELSE [posts EXCEPT ![k] = @ + 1]

\* provider.publish(): the post is created and its identity returned; the
\* provider answers that it does not know; or the request throws.
CallProvider(c) ==
  LET k == key[c] IN
  /\ At(c, "calling")
  /\ \/ "PUBLISHED" \in Answers /\ Posted(k) /\ Goto(c, "recordSucceeded")
     \/ /\ "OUTCOME_UNKNOWN" \in Answers
        /\ Posted(k) \/ UNCHANGED posts
        /\ Goto(c, "recordUnknown")
     \/ UNCHANGED posts /\ Goto(c, "recordFailed")
     \/ TimeoutMayPost /\ Posted(k) /\ Goto(c, "recordFailed")
  /\ UNCHANGED <<pub, attempts, credential>>

-----------------------------------------------------------------------------
(* publish(): the answer is persisted, attempt first, then publication.    *)

\* Slip: the provider's word for the result is stored as the attempt's status.
RecordSucceededRaw(c) ==
  /\ At(c, "recordSucceeded")
  /\ MarkWithJob(key[c], "PUBLISHED")
  /\ Goto(c, "finalise")
  /\ UNCHANGED <<pub, credential, posts>>

RecordSucceeded(c) ==
  /\ At(c, "recordSucceeded")
  /\ MarkWithJob(key[c], "SUCCEEDED")
  /\ Goto(c, "finalise")
  /\ UNCHANGED <<pub, credential, posts>>

Finalise(c) ==
  /\ At(c, "finalise")
  /\ \/ Moves("PUBLISHING", "PUBLISHED") /\ last' = key[c] /\ Goto(c, "idle")
     \/ status # "PUBLISHING" /\ Goto(c, "markUnknown") /\ UNCHANGED <<status, last>>
  /\ UNCHANGED <<sched, attempts, credential, posts>>

\* The provider may not know of a job of its own.
RecordUnknown(c) ==
  /\ At(c, "recordUnknown")
  /\ MarkWithJob(key[c], "OUTCOME_UNKNOWN") \/ Mark(key[c], "OUTCOME_UNKNOWN")
  /\ Goto(c, "finaliseUnknown")
  /\ UNCHANGED <<pub, credential, posts>>

FinaliseUnknown(c) ==
  /\ At(c, "finaliseUnknown")
  /\ \/ Moves("PUBLISHING", "OUTCOME_UNKNOWN") /\ last' = key[c] /\ Goto(c, "idle")
     \/ status # "PUBLISHING" /\ Goto(c, "markUnknown") /\ UNCHANGED <<status, last>>
  /\ UNCHANGED <<sched, attempts, credential, posts>>

RecordFailed(c) ==
  /\ At(c, "recordFailed")
  /\ Mark(key[c], "FAILED")
  /\ Goto(c, "finaliseFailed")
  /\ UNCHANGED <<pub, credential, posts>>

\* Slip: the catch block records the failed attempt and forgets the publication.
FinaliseFailedSilent(c) ==
  /\ At(c, "finaliseFailed")
  /\ Goto(c, "idle")
  /\ UNCHANGED <<pub, attempts, credential, posts>>

FinaliseFailed(c) ==
  /\ At(c, "finaliseFailed")
  /\ \/ Moves("PUBLISHING", "FAILED") /\ last' = key[c]
     \/ status # "PUBLISHING" /\ UNCHANGED <<status, last>>
  /\ Goto(c, "idle")
  /\ UNCHANGED <<sched, attempts, credential, posts>>

\* markOutcomeUnknown(): load, mark the attempt, move the publication.  Any
\* error in it is swallowed by the caller.
MarkUnknown(c) ==
  /\ At(c, "markUnknown")
  /\ Goto(c, IF status = "PUBLISHING" THEN "markAttempt" ELSE "idle")
  /\ UNCHANGED <<pub, attempts, credential, posts>>

MarkAttempt(c) ==
  /\ At(c, "markAttempt")
  /\ Mark(key[c], "OUTCOME_UNKNOWN")
  /\ Goto(c, "markFinal")
  /\ UNCHANGED <<pub, credential, posts>>

MarkFinal(c) ==
  /\ At(c, "markFinal")
  /\ \/ Moves("PUBLISHING", "OUTCOME_UNKNOWN") /\ last' = key[c]
     \/ status # "PUBLISHING" /\ UNCHANGED <<status, last>>
  /\ Goto(c, "idle")
  /\ UNCHANGED <<sched, attempts, credential, posts>>

-----------------------------------------------------------------------------
(* investigate(): load, find the attempt, ask the provider, persist.       *)

BeginInvestigate(c) ==
  /\ "investigate" \in Ops
  /\ At(c, "idle")
  /\ status \in {"OUTCOME_UNKNOWN", "PUBLISHING"}
  /\ credential
  /\ pc' = [pc EXCEPT ![c] = "find"]
  /\ key' = [key EXCEPT ![c] = last]
  /\ seen' = [seen EXCEPT ![c].status = status]
  /\ UNCHANGED <<pub, attempts, credential, posts>>

\* The attempt the publication names, else the newest unsettled one.
InvestigatedAttempt(c, k) ==
  IF key[c] # NoKey THEN k = key[c]
  ELSE /\ attempts[k].status \in {"STARTED", "OUTCOME_UNKNOWN"}
       /\ \A j \in Keys : attempts[j].status \in {"STARTED", "OUTCOME_UNKNOWN"}
                            => attempts[j].number <= attempts[k].number

FindAttempt(c) ==
  /\ At(c, "find")
  /\ \/ \E k \in Keys :
          /\ InvestigatedAttempt(c, k)
          /\ pc' = [pc EXCEPT ![c] = "ask"]
          /\ key' = [key EXCEPT ![c] = k]
          /\ seen' = [seen EXCEPT ![c].job = attempts[k].job]
     \/ (\A k \in Keys : ~InvestigatedAttempt(c, k)) /\ Return(c)
  /\ UNCHANGED <<pub, attempts, credential, posts>>

\* Slip: a provider job counts as a post.
ProviderStatusOptimistic(c) ==
  IF seen[c].job THEN "PUBLISHED" ELSE StatusWithoutJob

\* provider.getStatus(): with a job the provider knows whether the post
\* exists; without one it answers StatusWithoutJob.
ProviderStatus(c) ==
  IF seen[c].job THEN IF posts[key[c]] > 0 THEN "PUBLISHED" ELSE "NOT_FOUND"
  ELSE StatusWithoutJob

AskProvider(c) ==
  /\ At(c, "ask")
  /\ Goto(c, CASE ProviderStatus(c) = "PUBLISHED" -> "confirmAttempt"
               [] ProviderStatus(c) = "NOT_FOUND" -> "rejectAttempt"
               [] OTHER                           -> "idle")
  /\ UNCHANGED <<pub, attempts, credential, posts>>

ConfirmAttempt(c) ==
  /\ At(c, "confirmAttempt")
  /\ Mark(key[c], "SUCCEEDED")
  /\ Goto(c, "confirm")
  /\ UNCHANGED <<pub, credential, posts>>

Confirm(c) ==
  /\ At(c, "confirm")
  /\ \/ Reconciles(seen[c].status, "PUBLISHED")
     \/ status # seen[c].status /\ UNCHANGED status
  /\ Goto(c, "idle")
  /\ UNCHANGED <<last, sched, attempts, credential, posts>>

RejectAttempt(c) ==
  /\ At(c, "rejectAttempt")
  /\ Mark(key[c], "FAILED")
  /\ Goto(c, "requeue")
  /\ UNCHANGED <<pub, credential, posts>>

Requeue(c) ==
  /\ At(c, "requeue")
  /\ \/ Reconciles(seen[c].status, "QUEUED")
     \/ status # seen[c].status /\ UNCHANGED status
  /\ Goto(c, "idle")
  /\ UNCHANGED <<last, sched, attempts, credential, posts>>

-----------------------------------------------------------------------------
(* Failures.                                                               *)

\* The process dies, or a statement throws and nothing handles it.
Abort(c) ==
  /\ "abort" \in Faults
  /\ pc[c] # "idle"
  /\ Return(c)
  /\ UNCHANGED <<pub, attempts, credential, posts>>

\* Slip: the catch block does not remember that the provider had answered.
PersistFailsForgetful(c) ==
  /\ "persist" \in Faults
  /\ pc[c] \in {"recordSucceeded", "finalise", "recordUnknown", "finaliseUnknown"}
  /\ Goto(c, "recordFailed")
  /\ UNCHANGED <<pub, attempts, credential, posts>>

\* A statement throws after the provider answered: the catch block takes over.
PersistFails(c) ==
  /\ "persist" \in Faults
  /\ pc[c] \in {"recordSucceeded", "finalise", "recordUnknown", "finaliseUnknown"}
  /\ Goto(c, "markUnknown")
  /\ UNCHANGED <<pub, attempts, credential, posts>>

-----------------------------------------------------------------------------
\* The steps a started call takes by itself.
Step(c) ==
  \/ Claim(c) \/ Load(c) \/ Queueing(c) \/ Starting(c) \/ Reload(c)
  \/ AcquireAttempt(c) \/ CallProvider(c)
  \/ RecordSucceeded(c) \/ Finalise(c) \/ RecordUnknown(c) \/ FinaliseUnknown(c)
  \/ RecordFailed(c) \/ FinaliseFailed(c)
  \/ MarkUnknown(c) \/ MarkAttempt(c) \/ MarkFinal(c)
  \/ FindAttempt(c) \/ AskProvider(c) \/ ConfirmAttempt(c) \/ Confirm(c)
  \/ RejectAttempt(c) \/ Requeue(c)

Next ==
  \/ Schedule \/ Reschedule \/ Cancel \/ Recover \/ BecomeDue \/ SwitchCredential
  \/ \E c \in Callers :
       \/ BeginDispatch(c)
       \/ \E k \in Keys : BeginPublish(c, k)
       \/ BeginInvestigate(c)
       \/ Step(c)
       \/ Abort(c)
       \/ PersistFails(c)

Spec == Init /\ [][Next]_vars

(***************************************************************************)
(* A call that was started runs on, and time passes.  Nothing forces a     *)
(* user to schedule, or the clock job to dispatch.                         *)
(***************************************************************************)
FairSpec == Spec /\ WF_vars(BecomeDue) /\ \A c \in Callers : WF_vars(Step(c))

-----------------------------------------------------------------------------
(***************************************************************************)
(* Properties.                                                             *)
(***************************************************************************)

\* A success on record is a post on the network: no interleaving of           
\* publishers and investigations, whatever the keys, crashes and lost
\* statements, records SUCCEEDED or PUBLISHED without one.
SuccessIsReal ==
  /\ \A k \in Keys : attempts[k].status = "SUCCEEDED" => posts[k] > 0
  /\ status = "PUBLISHED" => \E k \in Keys : posts[k] > 0

\* Calls that are at the provider, or have its answer in hand, for key k.
AtProvider(k) ==
  {c \in Callers : key[c] = k /\ pc[c] \in {"calling", "recordSucceeded", "recordUnknown",
                                          "recordFailed"}}

\* createOrGetAttempt gives a started attempt to one call only: parallel calls
\* with the same key are turned away while it is in progress.
StartedAttemptHasOneOwner ==
  \A k \in Keys : attempts[k].status = "STARTED" =>
    \A c, d \in AtProvider(k) : c = d

\* The claim resolves the races of dispatch with reschedule and cancel: what is
\* on the network had come due, and a publication that was cancelled, rescheduled
\* or queued anew is not on it.
NeverEarly ==
  (\E k \in Keys : posts[k] > 0) => sched = "due" /\ status \notin {"QUEUED", "CANCELLED"}

\* What a call knows of the network's answer: the success until it is stored or lost, the
\* error until it is stored, and FAILED is an error that was.
Heard ==
  IF \E c \in Callers : pc[c] \in {"recordSucceeded", "finalise", "markUnknown", "markAttempt",
                                    "markFinal"} THEN "ok"
  ELSE IF status = "FAILED" \/ \E c \in Callers : pc[c] \in {"recordFailed", "finaliseFailed"}
    THEN "error" ELSE "none"

\* One row, one status, at most one post, a status that does not contradict the network,
\* and FAILED only for a request that ended in an error: the calls together implement
\* PublicationLifecycle.
L == INSTANCE PublicationLifecycle WITH posted <- posts[DispatchKey], answer <- Heard
RefinesLifecycle == L!Spec

\* A claimed publication does not stay PUBLISHING once its calls run to the end.
ClaimSettles == status = "PUBLISHING" ~> status # "PUBLISHING"

\* INV-04 and the table of W3.4: FAILED is for a mutation that the provider did
\* not perform; what it may have performed is OUTCOME_UNKNOWN.
FailedMeansNoPost == status = "FAILED" => \A k \in Keys : posts[k] = 0

\* W3.5: after the provider returned success, no failure to persist it makes the
\* publication FAILED.
SuccessNeverFailed == status = "FAILED" => \A k \in Keys : attempts[k].status # "SUCCEEDED"

\* W3.5: a publication requeued after NOT_FOUND is dispatched again.
RequeuedIsDispatched == (status = "QUEUED" /\ last # NoKey) ~> status # "QUEUED"
=============================================================================
