CONSTANTS
  Callers = {c1, c2}
  Keys = {k1, k2}
  DispatchKey = k1
  NoKey = NoKey
  Ops = {"publish", "dispatch", "investigate"}
  Answers = {"PUBLISHED", "OUTCOME_UNKNOWN"}
  TimeoutMayPost = TRUE
  DedupByKey = FALSE
  StatusWithoutJob = "NOT_FOUND"
  Faults = {"abort", "persist"}
  MaxPosts = 1
SPECIFICATION Spec
SYMMETRY CallerSymmetry
INVARIANTS TypeOK SuccessIsReal StartedAttemptHasOneOwner
CHECK_DEADLOCK FALSE
