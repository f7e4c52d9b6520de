\* docs/CHANGELOG.md:68 against the row that put_run inserts.
SPECIFICATION Spec
CONSTANTS
  Nodes = {n1}
  Requests = {s1}
  Prefetch = 1
  Retry = 0
  MaxFaults = 0
  s1 = s1
  s2 = s2
  p1 = p1
  l1 = l1
  b1 = b1
  u1 = u1
  o1 = o1
  None = None
  KindOf <- MCKindOf
INVARIANTS
  CredentialsDiscarded
CHECK_DEADLOCK FALSE
