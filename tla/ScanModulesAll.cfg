\* Every module, one selected per scan.
SPECIFICATION Spec
CONSTANTS
  Checks <- AllChecks
  MaxScans = 2
  MaxSelected = 1
  MaxCrashes = 1
INVARIANTS
  TypeOK
  SessionKeptOnlyAfterFailure
  EveryRunRegistersAfresh
  OmittedOnlyIfFailed
  ForeignFindingsExplained
  AttachmentsExplained
CHECK_DEADLOCK FALSE
