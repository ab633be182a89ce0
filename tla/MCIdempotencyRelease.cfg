CONSTANTS
  c1 = c1
  c2 = c2
  c3 = c3
  pay = pay
  refund = refund
  NoRecord = NoRecord
  Unknown = Unknown
  Calls = {c1, c2, c3}
  Payload <- MCPayload
  Takeover = 1
  MaxTime = 3
  FaultsUntil = 1
SPECIFICATION Spec
INVARIANT RepeatsAreCorrect
CHECK_DEADLOCK FALSE
