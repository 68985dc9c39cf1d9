-------------------------- MODULE PublicationStates -------------------------
(***************************************************************************)
(* The status graph of a publication, packages/core/src/publishing.ts.     *)
(***************************************************************************)
(***************************************************************************)
(* States that new code never writes and only `recover' leaves.            *)
(***************************************************************************)
legacyRecoveryStates == {"PREPARING", "UPLOADING", "PROCESSING", "READY_TO_FINALIZE"}

PublicationStatus ==
  {"DRAFT", "QUEUED", "PUBLISHING", "PUBLISHED", "FAILED", "OUTCOME_UNKNOWN",
   "CANCELLED"} \cup legacyRecoveryStates

(***************************************************************************)
(* Moves an ordinary operation may request.                                *)
(***************************************************************************)
publicationTransitions ==
  [s \in PublicationStatus |->
     CASE s = "DRAFT"                 -> {"QUEUED", "CANCELLED"}
       [] s = "QUEUED"                -> {"PUBLISHING", "CANCELLED"}
       [] s \in legacyRecoveryStates  -> {"QUEUED", "FAILED", "CANCELLED"}
       [] s = "PUBLISHING"            -> {"PUBLISHED", "FAILED", "OUTCOME_UNKNOWN"}
       [] s = "FAILED"                -> {"QUEUED", "CANCELLED"}
       [] OTHER                       -> {}]

(***************************************************************************)
(* Moves only the investigation of an uncertain outcome may request.       *)
(***************************************************************************)
reconciliationTransitions ==
  [s \in PublicationStatus |->
     IF s \in {"OUTCOME_UNKNOWN", "PUBLISHING"} THEN {"PUBLISHED", "QUEUED"} ELSE {}]

=============================================================================
