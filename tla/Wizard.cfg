\* Two hosts, and one step past the buttons.
SPECIFICATION FairSpec
CONSTANTS
  s1 = s1
  s2 = s2
  Sites = {s1, s2}
  Inputs <- MCInputs
  NoSite = NoSite
  MaxTries = 1
  MaxWalks = 1
INVARIANTS
  TypeOK
  SubmittedIsComplete
  LoginIsOfTarget
  TargetIsWhitelisted
  PictureAskedForLogin
  BasicNextWorks
PROPERTIES
  ConsentIsForThis
  PictureIsNotAwaitedForever
