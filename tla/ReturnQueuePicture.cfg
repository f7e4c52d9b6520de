\* graphic.js:255 against two requests of one user, none of them lost.
SPECIFICATION Spec
CONSTANTS
  ListReqs = {}
  Shots = {x1, x2}
  Users = {ux, uy}
  MaxPolls = 1
  MaxTries = 2
  MaxFaults = 0
  None = None
  x1 = x1
  x2 = x2
  y1 = y1
  ux = ux
  uy = uy
  UserOf <- MCUserOf
INVARIANTS
  PictureIsOfLoginPage
CHECK_DEADLOCK FALSE
