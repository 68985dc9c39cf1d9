SPECIFICATION Spec
CONSTANTS
  NoRun = NoRun
  k1 = k1
  HookRuns = {k1}
  h1 = h1
  HealthRuns = {h1}
  CollectionRuns = {}
  d1 = d1
  DispatchRuns = {d1}
  j1 = j1
  j2 = j2
  Jobs = {j1, j2}
  RetryLimit = 0
  BatchSize = 1
  MaxTime = 0
  MaxFaults = 1
SYMMETRY Symmetry
INVARIANTS TypeOK SucceededWasHandled
CHECK_DEADLOCK FALSE
