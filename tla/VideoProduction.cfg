SPECIFICATION Spec
CONSTANTS
  NoKey = NoKey
  NoOperation = NoOperation
  k1 = k1
  o1 = o1
  s1 = s1
  s2 = s2
  p1 = p1
  p2 = p2
  e1 = e1
  g1 = g1
  Keys = {k1}
  Operations = {o1}
  Submitters = {s1, s2}
  Pollers = {p1, p2}
  Editors = {e1}
  Gates = {g1}
  MaxCalls = 2
  MaxFaults = 2
SYMMETRY Symmetry
INVARIANTS OneProviderJob KnownJobIsBilled ConfirmedIsNotFailed
PROPERTIES FinishedStaysFinished LegalMoves
CHECK_DEADLOCK FALSE
