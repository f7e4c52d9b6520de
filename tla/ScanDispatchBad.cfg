\* Requests the REST server accepts and the node cannot run, and one behind them.
SPECIFICATION Spec
CONSTANTS
  Nodes = {n1, n2}
  Requests = {b1, s1, o1}
  Prefetch = 2
  Retry = 0
  MaxFaults = 1
  s1 = s1
  s2 = s2
  p1 = p1
  l1 = l1
  b1 = b1
  u1 = u1
  o1 = o1
  None = None
  KindOf <- MCKindOf
SYMMETRY NodeSymmetry
INVARIANTS
  ExitsAreBounded
  NoSilentLoss
  EachFaultLosesOne
PROPERTIES
  ImplementsService
CHECK_DEADLOCK FALSE
