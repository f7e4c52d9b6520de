\* A modules list and two screenshots, one fault, fair threads.
SPECIFICATION FairSpec
CONSTANTS
  ListReqs = {l1}
  Shots = {x1, y1}
  Users = {ux, uy}
  MaxPolls = 2
  MaxTries = 1
  MaxFaults = 1
  None = None
  x1 = x1
  x2 = x2
  y1 = y1
  ux = ux
  uy = uy
  UserOf <- MCUserOf
INVARIANTS
  TypeOK
  CachedListIsLate
  PictureLostToAnother
PROPERTIES
  ListInTimeIsDelivered
CHECK_DEADLOCK FALSE
