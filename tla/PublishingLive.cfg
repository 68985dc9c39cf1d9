CONSTANTS
  Callers = {c1, c2, c3}
  Keys = {k1}
  DispatchKey = k1
  NoKey = NoKey
  Ops = {"dispatch", "investigate"}
  Answers = {"PUBLISHED"}
  TimeoutMayPost = TRUE
  DedupByKey = TRUE
  StatusWithoutJob = "OUTCOME_UNKNOWN"
  Faults = {}
  MaxPosts = 2
SPECIFICATION FairSpec
PROPERTY ClaimSettles
CHECK_DEADLOCK FALSE
