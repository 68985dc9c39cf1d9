---------------------------- MODULE ContentProject ----------------------------
(***************************************************************************)
(* One content project from the idea to READY: AI generation and rewriting *)
(* of its text, versions typed by people, the fact check, the editor's     *)
(* decision, and the service's own transition, when several requests work  *)
(* on the project at once and a process may die inside any of them.        *)
(*                                                                         *)
(* A transaction of the code runs at READ COMMITTED: it is one step where  *)
(* every statement re-checks what it depends on, and two steps where a     *)
(* later statement relies on an earlier read.  Texts, prompts and usage    *)
(* counts are left out; a version is reduced to who wrote it.              *)
(***************************************************************************)
EXTENDS Naturals, Sequences

CONSTANTS
  Drafts,      \* idempotency keys of initial generation, draft:<prompt key>
  Rewrites,    \* rewrite requests, each with an execution of its own
  Generations, \* slots for generation requests
  Checkers,    \* slots for fact-check requests
  Movers,      \* slots for calls of the service's transition
  Targets,     \* the statuses those calls ask for; production asks for READY
  Person,      \* the author of a version typed by a user
  NoDraft,     \* what an idle request works on
  MaxVersions, \* bound on the versions people add
  MaxDeaths    \* bound on deaths of a process

Executions == Drafts \cup Rewrites
Requests   == Generations \cup Rewrites
Statuses   == {"IDEA", "RESEARCHING", "DRAFT", "FACT_CHECK", "REVIEW", "APPROVED", "PRODUCTION",
               "QC", "READY", "SCHEDULED", "PUBLISHED", "ARCHIVED", "REJECTED", "FAILED", "CANCELLED"}

ASSUME ContentAssumption ==
  /\ Drafts \cap Rewrites = {} /\ Generations \cap Rewrites = {}
  /\ Person \notin Executions /\ NoDraft \notin Executions
  /\ Targets \subseteq Statuses
  /\ MaxVersions \in Nat /\ MaxDeaths \in Nat

VARIABLES
  status,     \* ContentProject.status
  versions,   \* the author of each ContentVersion, in order of its number
  exec,       \* AiExecution.status
  request,    \* generation and rewrite requests: the next step and the execution
  check,      \* fact-check requests: the next step and the version read
  claims,     \* numbers of the versions whose claims are recorded
  move,       \* transition calls: the next step and the statuses from and to
  production, \* is a VideoProduction active, or failed and so able to restart?
  verdict,    \* the latest Approval row
  deaths      \* deaths so far

editing == <<check, claims, move, production, verdict>>
vars == <<status, versions, exec, request, editing, deaths>>

ExecutionStatus == {"none", "PENDING", "RUNNING", "SUCCEEDED", "FAILED"}
Verdicts == {"none", "APPROVED", "CHANGES_REQUESTED", "REJECTED"}
Steps    == {"idle", "new", "retry", "claimed", "provider", "failing"}
Free     == [step |-> "idle", exec |-> NoDraft]
Unread   == [step |-> "idle", version |-> 0]
NoMove   == [step |-> "idle", from |-> "IDEA", to |-> "IDEA"]

TypeOK ==
  /\ status \in Statuses
  /\ versions \in Seq(Executions \cup {Person})
  /\ exec \in [Executions -> ExecutionStatus]
  /\ request \in [Requests -> [step : Steps, exec : Executions \cup {NoDraft}]]
  /\ \A r \in Requests : request[r].step # "idle" => request[r].exec \in Executions
  /\ check \in [Checkers -> [step : {"idle", "read", "entered"}, version : Nat]]
  /\ claims \subseteq 1..Len(versions)
  /\ move \in [Movers -> [step : {"idle", "read"}, from : Statuses, to : Statuses]]
  /\ production \in {"none", "active", "failed"}
  /\ verdict \in Verdicts
  /\ deaths \in Nat

\* The web form creates the project with its brief as version 1; the MCP tool without.
Init ==
  /\ status = "IDEA"
  /\ versions \in {<<>>, <<Person>>}
  /\ exec = [e \in Executions |-> "none"]
  /\ request = [r \in Requests |-> Free]
  /\ check = [c \in Checkers |-> Unread]
  /\ claims = {}
  /\ move = [m \in Movers |-> NoMove]
  /\ production = "none"
  /\ verdict = "none"
  /\ deaths = 0

transitions ==
  [IDEA |-> {"RESEARCHING", "REJECTED", "CANCELLED"},
   RESEARCHING |-> {"DRAFT", "FAILED", "CANCELLED"},
   DRAFT |-> {"FACT_CHECK", "REJECTED", "CANCELLED"},
   FACT_CHECK |-> {"REVIEW", "DRAFT", "FAILED"},
   REVIEW |-> {"APPROVED", "DRAFT", "REJECTED"},
   APPROVED |-> {"PRODUCTION", "READY", "CANCELLED"},
   PRODUCTION |-> {"QC", "FAILED"},
   QC |-> {"READY", "PRODUCTION", "FAILED"},
   READY |-> {"SCHEDULED", "ARCHIVED"},
   SCHEDULED |-> {"PUBLISHED", "READY", "FAILED"},
   PUBLISHED |-> {"ARCHIVED"},
   ARCHIVED |-> {}, REJECTED |-> {}, CANCELLED |-> {},
   FAILED |-> {"DRAFT", "RESEARCHING", "CANCELLED"}]

-----------------------------------------------------------------------------
(* Requests to generate the first draft, and to rewrite a draft.           *)

At(r, step) == request[r].step = step
Goto(r, step) == request' = [request EXCEPT ![r].step = step]
Finish(r) == request' = [request EXCEPT ![r] = Free]

\* claimInitialGeneration reads the execution of its key.  One that exists and
\* has not failed is only reported: the request ends with no effect.
ReadExecution(g, d) ==
  /\ At(g, "idle")
  /\ \/ exec[d] = "none" /\ request' = [request EXCEPT ![g] = [step |-> "new", exec |-> d]]
     \/ exec[d] = "FAILED" /\ request' = [request EXCEPT ![g] = [step |-> "retry", exec |-> d]]
  /\ UNCHANGED <<status, versions, exec, editing, deaths>>

\* A failed execution is reset by its id alone, whatever has become of it since the read.
ClaimRetry(g) ==
  /\ g \in Generations /\ At(g, "retry")
  /\ exec' = [exec EXCEPT ![request[g].exec] = "PENDING"]
  /\ status' = IF status = "FAILED" THEN "RESEARCHING" ELSE status
  /\ Goto(g, "claimed")
  /\ UNCHANGED <<versions, editing, deaths>>

\* No execution was found: the project must be IDEA or FAILED.  A RESEARCHING
\* project gets its execution too, but nobody to run it.
ClaimNew(g) ==
  LET d == request[g].exec
      upsert == exec' = [exec EXCEPT ![d] = IF @ = "none" THEN "PENDING" ELSE @]
  IN
  /\ g \in Generations /\ At(g, "new")
  /\ \/ status \in {"IDEA", "FAILED"} /\ status' = "RESEARCHING" /\ upsert /\ Goto(g, "claimed")
     \/ status = "RESEARCHING" /\ upsert /\ Finish(g) /\ UNCHANGED status
     \/ status \notin {"IDEA", "FAILED", "RESEARCHING"} /\ Finish(g) /\ UNCHANGED <<status, exec>>
  /\ UNCHANGED <<versions, editing, deaths>>

\* rewriteDraft checks the project and the source version, then creates the execution.
StartRewrite(w) ==
  /\ At(w, "idle") /\ exec[w] = "none"
  /\ status = "DRAFT" /\ versions # <<>>
  /\ exec' = [exec EXCEPT ![w] = "PENDING"]
  /\ request' = [request EXCEPT ![w] = [step |-> "claimed", exec |-> w]]
  /\ UNCHANGED <<status, versions, editing, deaths>>

\* Only a PENDING execution starts; otherwise the request throws.
markRunning(r) ==
  LET e == request[r].exec IN
  /\ At(r, "claimed")
  /\ \/ exec[e] = "PENDING" /\ exec' = [exec EXCEPT ![e] = "RUNNING"] /\ Goto(r, "provider")
     \/ exec[e] # "PENDING" /\ Finish(r) /\ UNCHANGED exec
  /\ UNCHANGED <<status, versions, editing, deaths>>

\* A slip: the project is not checked again when the answer arrives.
completeGenerationAnywhere(g) ==
  LET d == request[g].exec IN
  /\ g \in Generations /\ At(g, "provider") /\ exec[d] = "RUNNING"
  /\ versions' = Append(versions, d)
  /\ exec' = [exec EXCEPT ![d] = "SUCCEEDED"]
  /\ status' = "DRAFT"
  /\ Finish(g)
  /\ UNCHANGED <<editing, deaths>>

\* The provider answered and the answer is stored in one transaction.
completeGeneration(g) ==
  LET d == request[g].exec IN
  /\ g \in Generations /\ At(g, "provider")
  /\ exec[d] = "RUNNING" /\ status = "RESEARCHING"
  /\ versions' = Append(versions, d)
  /\ exec' = [exec EXCEPT ![d] = "SUCCEEDED"]
  /\ status' = "DRAFT"
  /\ Finish(g)
  /\ UNCHANGED <<editing, deaths>>

\* A slip: the rewrite is stored although its project was submitted meanwhile.
completeRewriteAnywhere(w) ==
  /\ w \in Rewrites /\ At(w, "provider") /\ exec[w] = "RUNNING"
  /\ versions' = Append(versions, w)
  /\ exec' = [exec EXCEPT ![w] = "SUCCEEDED"]
  /\ Finish(w)
  /\ UNCHANGED <<status, editing, deaths>>

completeRewrite(w) ==
  /\ w \in Rewrites /\ At(w, "provider")
  /\ exec[w] = "RUNNING" /\ status = "DRAFT"
  /\ versions' = Append(versions, w)
  /\ exec' = [exec EXCEPT ![w] = "SUCCEEDED"]
  /\ Finish(w)
  /\ UNCHANGED <<status, editing, deaths>>

\* A slip: an error after the provider's answer is not followed by failGeneration.
GiveUpSilently(r) ==
  /\ At(r, "provider") /\ Finish(r)
  /\ UNCHANGED <<status, versions, exec, editing, deaths>>

\* The provider failed, the answer could not be saved, or its execution or project had moved on.
GiveUp(r) ==
  /\ At(r, "provider") /\ Goto(r, "failing")
  /\ UNCHANGED <<status, versions, exec, editing, deaths>>

\* A slip: only an execution that has not started is failed.
markFailedUnstarted(e) == exec' = [exec EXCEPT ![e] = IF @ = "PENDING" THEN "FAILED" ELSE @]
markFailed(e) == exec' = [exec EXCEPT ![e] = IF @ \in {"PENDING", "RUNNING"} THEN "FAILED" ELSE @]

\* A slip: the project is failed whatever has become of it.
failGenerationAlways(g) ==
  /\ g \in Generations /\ At(g, "failing")
  /\ markFailed(request[g].exec)
  /\ status' = "FAILED"
  /\ Finish(g)
  /\ UNCHANGED <<versions, editing, deaths>>

failGeneration(g) ==
  /\ g \in Generations /\ At(g, "failing")
  /\ markFailed(request[g].exec)
  /\ status' = IF status = "RESEARCHING" THEN "FAILED" ELSE status
  /\ Finish(g)
  /\ UNCHANGED <<versions, editing, deaths>>

FailRewrite(w) ==
  /\ w \in Rewrites /\ At(w, "failing")
  /\ markFailed(w)
  /\ Finish(w)
  /\ UNCHANGED <<status, versions, editing, deaths>>

\* The process of a request or of a fact check dies between two steps.
Die ==
  /\ deaths < MaxDeaths /\ deaths' = deaths + 1
  /\ \/ \E r \in Requests : ~At(r, "idle") /\ Finish(r) /\ UNCHANGED check
     \/ \E c \in Checkers : check[c].step # "idle" /\ check' = [check EXCEPT ![c] = Unread]
                            /\ UNCHANGED request
  /\ UNCHANGED <<status, versions, exec, claims, move, production, verdict>>

-----------------------------------------------------------------------------
(* People: versions, fact check, editorial decisions, and moving on.       *)

generating == <<exec, request>>

\* A user may add a version whatever the status.
appendVersion ==
  /\ Len(versions) < MaxVersions
  /\ versions' = Append(versions, Person)
  /\ UNCHANGED <<status, generating, editing, deaths>>

\* A slip: the number the next version will get is taken for the latest one.
ReadDraftNext(c) ==
  /\ check[c].step = "idle" /\ status = "DRAFT"
  /\ check' = [check EXCEPT ![c] = [step |-> "read", version |-> Len(versions) + 1]]
  /\ UNCHANGED <<status, versions, generating, claims, move, production, verdict, deaths>>

\* The fact check reads the project and its latest version ...
ReadDraft(c) ==
  /\ check[c].step = "idle"
  /\ status = "DRAFT" /\ versions # <<>>
  /\ check' = [check EXCEPT ![c] = [step |-> "read", version |-> Len(versions)]]
  /\ UNCHANGED <<status, versions, generating, claims, move, production, verdict, deaths>>

\* ... moves the project from DRAFT, or throws ...
EnterFactCheck(c) ==
  /\ check[c].step = "read"
  /\ \/ status = "DRAFT" /\ status' = "FACT_CHECK" /\ check' = [check EXCEPT ![c].step = "entered"]
     \/ status # "DRAFT" /\ check' = [check EXCEPT ![c] = Unread] /\ UNCHANGED status
  /\ UNCHANGED <<versions, generating, claims, move, production, verdict, deaths>>

\* A claim of the same text is found again, and stays one.
upsertContentClaim(version) == claims' = claims \cup {version}

\* ... and then records the claims of the version it read.
RecordClaims(c) ==
  /\ check[c].step = "entered"
  /\ upsertContentClaim(check[c].version)
  /\ check' = [check EXCEPT ![c] = Unread]
  /\ UNCHANGED <<status, versions, generating, move, production, verdict, deaths>>

requestReview ==
  /\ status = "FACT_CHECK" /\ status' = "REVIEW"
  /\ UNCHANGED <<versions, generating, editing, deaths>>

\* The status and the Approval row change in one transaction.
Decide(to, row) ==
  /\ status = "REVIEW" /\ status' = to /\ verdict' = row
  /\ UNCHANGED <<versions, generating, check, claims, move, production, deaths>>

approveManual == Decide("APPROVED", "APPROVED")
returnToDraft == Decide("DRAFT", "CHANGES_REQUESTED")
reject        == Decide("REJECTED", "REJECTED")

\* A slip: the table is consulted as if the project had been approved.
ReadForTransitionEarly(m) ==
  /\ move[m].step = "idle"
  /\ \E to \in Targets \cap (transitions[status] \cup transitions["APPROVED"]) :
       move' = [move EXCEPT ![m] = [step |-> "read", from |-> status, to |-> to]]
  /\ UNCHANGED <<status, versions, generating, check, claims, production, verdict, deaths>>

\* transition reads the project, consults the table, and for APPROVED -> READY
\* looks for an active video production ...
ReadForTransition(m) ==
  /\ move[m].step = "idle"
  /\ \E to \in Targets \cap transitions[status] :
       /\ ~(status = "APPROVED" /\ to = "READY" /\ production = "active")
       /\ move' = [move EXCEPT ![m] = [step |-> "read", from |-> status, to |-> to]]
  /\ UNCHANGED <<status, versions, generating, check, claims, production, verdict, deaths>>

\* ... and changes the status only if it is still the one read.
Transition(m) ==
  /\ move[m].step = "read"
  /\ status' = IF status = move[m].from THEN move[m].to ELSE status
  /\ move' = [move EXCEPT ![m] = NoMove]
  /\ UNCHANGED <<versions, generating, check, claims, production, verdict, deaths>>

\* A production is created from an approved project; it ends READY or CANCELLED,
\* or fails, and a failed one is restarted or cancelled whatever the project's status.
ChangeProduction ==
  /\ \/ production = "none" /\ status = "APPROVED" /\ production' = "active"
     \/ production = "active" /\ production' \in {"none", "failed"}
     \/ production = "failed" /\ production' \in {"none", "active"}
  /\ UNCHANGED <<status, versions, generating, check, claims, move, verdict, deaths>>

-----------------------------------------------------------------------------
\* What a request does once it has begun.
Work(r) ==
  \/ ClaimRetry(r) \/ ClaimNew(r) \/ markRunning(r)
  \/ completeGeneration(r) \/ completeRewrite(r) \/ GiveUp(r)
  \/ failGeneration(r) \/ FailRewrite(r)

Next ==
  \/ \E g \in Generations, d \in Drafts : ReadExecution(g, d)
  \/ \E w \in Rewrites : StartRewrite(w)
  \/ \E r \in Requests : Work(r)
  \/ \E c \in Checkers : ReadDraft(c) \/ EnterFactCheck(c) \/ RecordClaims(c)
  \/ appendVersion \/ requestReview \/ approveManual \/ returnToDraft \/ reject
  \/ \E m \in Movers : ReadForTransition(m) \/ Transition(m)
  \/ ChangeProduction
  \/ Die

Spec == Init /\ [][Next]_vars

\* A request that has begun goes on: each await of it ends, with an answer or
\* an error, unless its process dies.
FairSpec == Spec /\ \A r \in Requests : WF_vars(Work(r))

-----------------------------------------------------------------------------
(* Properties.                                                             *)

Unfinished == {"IDEA", "RESEARCHING", "FAILED"}
Origin(e)  == {i \in 1..Len(versions) : versions[i] = e}

\* However often a generation is retried, raced or interrupted, an execution
\* yields at most one version, and a SUCCEEDED one has it: the request that is
\* told "completed" always finds the version to return.
OneVersionPerExecution ==
  /\ \A e \in Executions : \A i, j \in Origin(e) : i = j
  /\ \A e \in Executions : exec[e] = "SUCCEEDED" => Origin(e) # {}

\* A project that waits for its first draft has no generated text and no
\* SUCCEEDED generation: every further request would be told "completed" and
\* could never draft the project.
WaitingHasNoDraft ==
  status \in Unfinished => \A d \in Drafts : exec[d] # "SUCCEEDED" /\ Origin(d) = {}

\* Unless a process died, a project without a draft and without a request at
\* work can be generated: some request would claim an execution.
NoDeadEnd ==
  (status \in Unfinished /\ deaths = 0 /\ \A g \in Generations : At(g, "idle"))
    => \E d \in Drafts : exec[d] = "FAILED" \/ (exec[d] = "none" /\ status # "RESEARCHING")

\* A project is READY, or on its way there, only with an editor's approval as
\* its latest decision, although a transition acts on a status read earlier.
ReadyIsApproved ==
  status \in {"APPROVED", "PRODUCTION", "QC", "READY", "SCHEDULED", "PUBLISHED"} => verdict = "APPROVED"

\* Once a project has been submitted to the fact check, no generation or rewrite
\* still at work changes its text.
SubmittedTextIsHuman ==
  [][\A i \in 1..Len(versions') :
       i > Len(versions) /\ versions'[i] # Person => status \in {"RESEARCHING", "DRAFT"}]_vars

\* A running generation ends, unless a process dies.
RunningSettles ==
  \A d \in Drafts :
    (exec[d] = "RUNNING" /\ deaths = 0) ~> (exec[d] \in {"SUCCEEDED", "FAILED"} \/ deaths > 0)

\* Concurrent requests for one generation call the provider once
\* (tests/integration/content-generation.test.ts).
OneProviderCall ==
  \A g, h \in Generations :
    At(g, "provider") /\ At(h, "provider") /\ request[g].exec = request[h].exec => g = h
=============================================================================
