\* Every small link, and the sites that show the rest.
SPECIFICATION FairSpec
CONSTANTS
  Webs <- MCWebs
  MaxMoves = 1
  MaxPages = 7
  NoUrl = NoUrl
INVARIANTS
  TypeOK
  CrawledOnce
  LinksResolved
  TagsKnown
  PostedTagsKnown
  PostedOnce
  LoginScannedOnce
PROPERTIES
  ScannedPageIsClosed
CHECK_DEADLOCK FALSE
