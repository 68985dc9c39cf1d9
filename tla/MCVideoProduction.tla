--------------------------- MODULE MCVideoProduction ---------------------------
(* Instances of VideoProduction for TLC. *)
EXTENDS VideoProduction, TLC

\* Calls of one kind are interchangeable.
Symmetry == Permutations(Submitters) \cup Permutations(Pollers)
=============================================================================
