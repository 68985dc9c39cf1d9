---------------------------- MODULE MCWorkflowRuns ----------------------------
(* Instances of WorkflowRuns for TLC. *)
EXTENDS WorkflowRuns, TLC

\* Jobs, and the runs of one type, are interchangeable (safety runs only).
Symmetry == Permutations(Jobs) \cup Permutations(DispatchRuns)
=============================================================================
