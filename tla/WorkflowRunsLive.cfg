SPECIFICATION LiveSpec
CONSTANTS
  NoRun = NoRun
  HookRuns = {}
  HealthRuns = {}
  c1 = c1
  CollectionRuns = {c1}
  d1 = d1
  DispatchRuns = {d1}
  j1 = j1
  Jobs = {j1}
  RetryLimit = 1
  BatchSize = 1
  MaxTime = 1
  MaxFaults = 1
INVARIANTS EarlyCollectionNeverFails
PROPERTIES QueuedIsDispatched LostJobIsRecovered
CHECK_DEADLOCK FALSE
