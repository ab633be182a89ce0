CONSTANTS
  None = None
  Gone = Gone
  NoPayment = NoPayment
  NoTxn = NoTxn
  Payments = {p1, p2}
  Clerks = {c1, c2}
  Amounts = {1, 2}
  MaxTxns = 3
  MaxUnlinked = 1
  Conditional = {w1}
  Counted = {w2}
  Rewritten = {w3}
  MaxSaves = 4
  Entries = {y1, y2}
  Dates = {1, 2, 3}
  Day <- MCDay
  MaxChanges = 3
  Accounts = {a1, a2}
  site = site
  mail = mail
  Domain <- MCDomain
  Channel <- MCChannel
  Forbidden = {a2}
  MaxRuns = 3
SYMMETRY Symmetry
SPECIFICATION MCSpec
INVARIANTS TypesHold LedgerIsSound SummaryFollowsTasks NothingIsDoubled
PROPERTIES NoSilentOverpayment KeepsThePromise UnseenIsKept ImportKeepsItsDistance
CHECK_DEADLOCK FALSE
