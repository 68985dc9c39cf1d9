---------------------------- MODULE MCPublishing ----------------------------
(* Instances of Publishing for TLC. *)
EXTENDS Publishing, TLC

\* Calls are interchangeable (used by the runs without liveness).
CallerSymmetry == Permutations(Callers)

\* The due sweep dispatches for ever and every uncertain publication is
\* investigated for ever: the most an operator could do.
SweepingSpec ==
  /\ FairSpec
  /\ \A c \in Callers : WF_vars(BeginDispatch(c)) /\ WF_vars(BeginInvestigate(c))
=============================================================================
