\* Two nodes, a scan and a screenshot, repeated PUTs, one fault of any kind.
SPECIFICATION Spec
CONSTANTS
  Nodes = {n1, n2}
  Requests = {s1, p1}
  Prefetch = 1
  Retry = 1
  MaxFaults = 1
  s1 = s1
  s2 = s2
  p1 = p1
  l1 = l1
  b1 = b1
  u1 = u1
  o1 = o1
  None = None
  KindOf <- MCKindOf
SYMMETRY NodeSymmetry
INVARIANTS
  TypeOK
  ScannedAtMostOnce
  OneWorkerPerRun
  EndedMeansScanned
  OpenRowHasWorker
  NoSilentLoss
  Inv
CHECK_DEADLOCK FALSE
