\* FEATURES.md:19 and :28 against the names of the templates.
SPECIFICATION Spec
CONSTANTS
  Checks <- AllChecks
  MaxScans = 1
  MaxSelected = 1
  MaxCrashes = 0
INVARIANTS
  FindingsAreShown
CHECK_DEADLOCK FALSE
