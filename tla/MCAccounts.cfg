CONSTANTS
  r1 = r1
  r2 = r2
  r3 = r3
  Requests = {r1, r2, r3}
  Grace = 1
  Ttl = 3
  Absolute = 3
  Retention = 0
  MaxTime = 4
  MaxRotations = 2
  Confirmers = {c1, c2}
  Sweepers = {s1}
  NoOne = NoOne
  UrlLife = 1
  Margin = 1
  Stall = 1
  StorageEnd = 3
  Changes = {m1, m2}
  Boots = {b1}
  Keys = {k1, k2, k3, k4}
  Limit = 2
  Budget = 2
  Window = 2
  MaxHits = 4
  HitBudget = 2
  Length = 2
  LastTime = 5
SYMMETRY Symmetry
SPECIFICATION MCSpec
INVARIANTS TypesHold ReadyHasItsObject NothingIsForgotten AnAdministratorRemains LimitsHold
PROPERTIES SessionsGoForward GraceIsKept
CHECK_DEADLOCK FALSE
