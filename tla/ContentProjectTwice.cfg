SPECIFICATION Spec
CONSTANTS
  Person = Person
  NoDraft = NoDraft
  post = post
  g1 = g1
  g2 = g2
  f1 = f1
  m1 = m1
  Drafts = {post}
  Rewrites = {}
  Generations = {g1, g2}
  Checkers = {f1}
  Movers = {m1}
  Targets = {"READY"}
  MaxVersions = 1
  MaxDeaths = 0
INVARIANT OneProviderCall
CHECK_DEADLOCK FALSE
