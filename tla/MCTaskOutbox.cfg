CONSTANTS
  t1 = t1
  d1 = d1
  d2 = d2
  NoTask = NoTask
  Tasks = {t1}
  Drains = {d1, d2}
  MaxAttempts <- MCMaxAttempts
  Limit = 1
  MaxLoops = 1
  MaxRuntime = 3
  LeaseStale = 1
  Deadline = 1
  Stall = 1
  Retention = 1
  BaseDelay = 2
  MaxDelay = 3
  Cooldown = 1
  MaxTime = 7
  MaxFaults = 1
SYMMETRY DrainSymmetry
SPECIFICATION Spec
INVARIANTS NoConcurrentAttempts HolderHasFreshAttempt
PROPERTIES OnlyHolderOrExpiry AttemptsAreSpaced ImplementsLifecycle
CHECK_DEADLOCK FALSE
