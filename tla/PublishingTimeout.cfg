CONSTANTS
  Callers = {c1}
  Keys = {k1}
  DispatchKey = k1
  NoKey = NoKey
  Ops = {"dispatch", "investigate"}
  Answers = {"PUBLISHED"}
  TimeoutMayPost = TRUE
  DedupByKey = FALSE
  StatusWithoutJob = "OUTCOME_UNKNOWN"
  Faults = {}
  MaxPosts = 1
SPECIFICATION Spec
INVARIANT FailedMeansNoPost
CHECK_DEADLOCK FALSE
