CONSTANTS
  d1 = d1
  d2 = d2
  r1 = r1
  r2 = r2
  open = open
  paused = paused
  won = won
  claims = claims
  owner = owner
  reason = reason
  None = None
  Gone = Gone
  Deals = {d1, d2}
  Stages = {open, paused, won}
  WonStages = {won}
  Conditions = {claims, owner, reason}
  Firm = {reason}
  Needs <- MCNeeds
  Examined = {d1}
  Requests = {r1, r2}
  MaxCriteria = 2
  MaxEditions = 2
SYMMETRY Symmetry
SPECIFICATION MCSpec
PROPERTY OthersStayWhereTheyAre
CHECK_DEADLOCK FALSE
