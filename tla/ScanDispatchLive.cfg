\* No faults: scans, a screenshot and a modules list, fairness of broker and nodes.
SPECIFICATION FairSpec
CONSTANTS
  Nodes = {n1, n2}
  Requests = {s1, p1, l1}
  Prefetch = 1
  Retry = 0
  MaxFaults = 0
  s1 = s1
  s2 = s2
  p1 = p1
  l1 = l1
  b1 = b1
  u1 = u1
  o1 = o1
  None = None
  KindOf <- MCKindOf
PROPERTIES
  AcceptedIsScanned
  ListIsSent
CHECK_DEADLOCK FALSE
