------------------------ MODULE PublicationLifecycle ------------------------
(***************************************************************************)
(* What a publication promises to the people who look at the calendar: one *)
(* row, one status, and at most one post on the social network, such that  *)
(* the status never contradicts what is known of the network.  The status  *)
(* graph is the one of packages/core/src/publishing.ts                     *)
(* (publicationTransitions and reconciliationTransitions); `posted' counts *)
(* the posts the network carries, `answer' is what the one who asked for   *)
(* the post has heard.  An error says little: a request that was cut off   *)
(* may have created the post.  Publishing.tla is shown to implement this   *)
(* module.                                                                 *)
(***************************************************************************)
EXTENDS PublicationStates, Naturals

VARIABLES status, \* Publication.status
          posted, \* number of posts the social network carries for it
          answer  \* what the network answered, while somebody knows: "ok" or "error"

lifecycle == <<status, posted, answer>>

-----------------------------------------------------------------------------
Init == status \in {"DRAFT"} \cup legacyRecoveryStates /\ posted = 0 /\ answer = "none"

\* An ordinary move before the provider is called: queue, claim, cancel.
Prepare(to) ==
  /\ to \in {"QUEUED", "PUBLISHING", "CANCELLED"}
  /\ to \in publicationTransitions[status]
  /\ posted = 0
  /\ status' = to /\ answer' = "none"
  /\ UNCHANGED posted

\* The network is asked once: it accepts the one post of a publication that is being
\* published, and says so unless the request is cut off ...
Post ==
  /\ status = "PUBLISHING" /\ posted = 0 /\ answer = "none"
  /\ posted' = 1 /\ answer' \in {"ok", "error"}
  /\ UNCHANGED status

\* ... or accepts nothing.
Refuse ==
  /\ status = "PUBLISHING" /\ posted = 0 /\ answer = "none"
  /\ answer' = "error"
  /\ UNCHANGED <<status, posted>>

\* Who heard the answer is done with it, or dies.
Forgotten == answer' \in {answer, "none"}
Forget == status # "FAILED" /\ Forgotten /\ UNCHANGED <<status, posted>>

\* The success is recorded, by the publisher or by an investigation.
Confirm ==
  /\ posted > 0
  /\ \/ "PUBLISHED" \in publicationTransitions[status]
     \/ "PUBLISHED" \in reconciliationTransitions[status]
  /\ status' = "PUBLISHED" /\ Forgotten
  /\ UNCHANGED posted

\* A failure is recorded only of a request that was answered by an error.
Fail ==
  /\ status = "PUBLISHING" /\ answer = "error"
  /\ status' = "FAILED"
  /\ UNCHANGED <<posted, answer>>

\* The outcome is declared uncertain; the network may or may not have it.
Doubt ==
  /\ "OUTCOME_UNKNOWN" \in publicationTransitions[status]
  /\ status' = "OUTCOME_UNKNOWN" /\ Forgotten
  /\ UNCHANGED posted

\* An investigation established that nothing was posted.
Requeue ==
  /\ posted = 0
  /\ "QUEUED" \in reconciliationTransitions[status]
  /\ status' = "QUEUED" /\ answer' = "none"
  /\ UNCHANGED posted

Next ==
  \/ \E to \in PublicationStatus : Prepare(to)
  \/ Post \/ Refuse \/ Forget
  \/ Confirm \/ Fail \/ Doubt \/ Requeue

Spec == Init /\ [][Next]_lifecycle

\* Types, and: at most one post.
TypeOK ==
  status \in PublicationStatus /\ posted \in 0..1 /\ answer \in {"none", "ok", "error"}

\* What the status says of the network is true, and FAILED is said after an error only.
Honest ==
  /\ status = "PUBLISHED" => posted > 0
  /\ posted > 0 => status \in {"PUBLISHING", "OUTCOME_UNKNOWN", "PUBLISHED", "FAILED"}
  /\ status = "FAILED" => answer = "error"
  /\ answer = "ok" => posted > 0

\* A post that came without an error never comes to be called FAILED.
SuccessStays ==
  [][posted > 0 /\ answer # "error" => answer' # "error" /\ status' # "FAILED"]_lifecycle
=============================================================================
