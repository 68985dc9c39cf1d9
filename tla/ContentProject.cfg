SPECIFICATION FairSpec
CONSTANTS
  Person = Person
  NoDraft = NoDraft
  post = post
  w1 = w1
  g1 = g1
  g2 = g2
  f1 = f1
  m1 = m1
  Drafts = {post}
  Rewrites = {w1}
  Generations = {g1, g2}
  Checkers = {f1}
  Movers = {m1}
  Targets = {"READY"}
  MaxVersions = 2
  MaxDeaths = 1
INVARIANTS TypeOK OneVersionPerExecution WaitingHasNoDraft NoDeadEnd ReadyIsApproved
PROPERTIES SubmittedTextIsHuman RunningSettles
CHECK_DEADLOCK FALSE
