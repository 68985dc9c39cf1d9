CONSTANTS
  Callers = {c1, c2, c3}
  Keys = {k1}
  DispatchKey = k1
  NoKey = NoKey
  Ops = {"dispatch", "investigate"}
  Answers = {"PUBLISHED"}
  TimeoutMayPost = TRUE
  DedupByKey = FALSE
  StatusWithoutJob = "OUTCOME_UNKNOWN"
  Faults = {"abort", "persist", "disconnect"}
  MaxPosts = 2
SPECIFICATION Spec
SYMMETRY CallerSymmetry
INVARIANT NeverEarly
PROPERTY RefinesLifecycle
CHECK_DEADLOCK FALSE
