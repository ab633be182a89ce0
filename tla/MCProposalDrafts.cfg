CONSTANTS
  d1 = d1
  d2 = d2
  g1 = g1
  x = x
  y = y
  k1 = k1
  k2 = k2
  r1 = r1
  r2 = r2
  None = None
  Company = Company
  Drafts = {d1, d2}
  Live = {d1}
  Groups = {g1}
  Contents = {x, y}
  Contacts = {k1, k2}
  Owner <- MCOwner
  Nameable = {k2}
  MaxBans = 1
  Requests = {r1, r2}
SYMMETRY Symmetry
SPECIFICATION Spec
INVARIANTS DraftsAreInLine ApprovedIsWhatWasHashed BansStopTouches
CHECK_DEADLOCK FALSE
