CONSTANTS
  Callers = {c1, c2}
  Keys = {k1}
  DispatchKey = k1
  NoKey = NoKey
  Ops = {"dispatch", "investigate"}
  Answers = {"PUBLISHED", "OUTCOME_UNKNOWN"}
  TimeoutMayPost = FALSE
  DedupByKey = FALSE
  StatusWithoutJob = "OUTCOME_UNKNOWN"
  Faults = {}
  MaxPosts = 1
SPECIFICATION SweepingSpec
PROPERTY RequeuedIsDispatched
CHECK_DEADLOCK FALSE
