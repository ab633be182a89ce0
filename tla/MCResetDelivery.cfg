CONSTANTS
  k1 = k1
  k2 = k2
  a1 = a1
  a2 = a2
  a3 = a3
  None = None
  Tasks = {k1, k2}
  Attempts = {a1, a2, a3}
  Tokens = {a1, a2, a3}
  MaxAttempts = 2
  Cooldown = 1
  TokenTtl = 4
  Delay = 3
  Deadline = 1
  Lease = 2
  MaxTime = 4
SYMMETRY Symmetry
SPECIFICATION Spec
INVARIANTS TypeOK CooldownHolds GivenUpLeavesNoLink
CHECK_DEADLOCK FALSE
