\* README.md:21 against a screenshot that fails.
SPECIFICATION FairSpec
CONSTANTS
  Nodes = {n1}
  Requests = {s1, p1}
  Prefetch = 1
  Retry = 0
  MaxFaults = 0
  s1 = s1
  s2 = s2
  p1 = p1
  l1 = l1
  b1 = b1
  u1 = u1
  o1 = o1
  None = None
  KindOf <- MCKindOf
PROPERTIES
  KeptUntilConsumed
CHECK_DEADLOCK FALSE
