CONSTANTS
  t1 = t1
  t2 = t2
  Tasks = {t1, t2}
  MaxAttempts <- MCMaxAttempts
  Procs = {p, q}
  NoProc = NoProc
  MaxFaults = 2
  Handlers = {h1, h2}
  Deferred = {d1, d2, d3}
  c1 = c1
  c2 = c2
  c3 = c3
  pay = pay
  refund = refund
  NoRecord = NoRecord
  Unknown = Unknown
  Calls = {c1, c2, c3}
  Payload <- MCPayload
  Takeover = 1
  MaxTime = 3
  FaultsUntil = 1
SPECIFICATION MCSpec
INVARIANTS TypesHold StopsAreOrderly RepeatsAreAccounted ReplaysAreReal
PROPERTIES KeepsTheLifecycle EveryTaskConcludes ShutdownEnds EveryCallAnswered
CHECK_DEADLOCK FALSE
