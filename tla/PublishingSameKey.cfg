CONSTANTS
  Callers = {c1, c2}
  Keys = {k1}
  DispatchKey = k1
  NoKey = NoKey
  Ops = {"publish"}
  Answers = {"PUBLISHED"}
  TimeoutMayPost = FALSE
  DedupByKey = FALSE
  StatusWithoutJob = "OUTCOME_UNKNOWN"
  Faults = {}
  MaxPosts = 2
SPECIFICATION Spec
INVARIANT SuccessNeverFailed
CHECK_DEADLOCK FALSE
