\* webcrawler.js:99 against a malformed address.
SPECIFICATION Spec
CONSTANTS
  Webs <- MCStop
  MaxMoves = 1
  MaxPages = 7
  NoUrl = NoUrl
INVARIANTS
  EngineStops
CHECK_DEADLOCK FALSE
