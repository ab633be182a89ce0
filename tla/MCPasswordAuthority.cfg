CONSTANTS
  l1 = l1
  l2 = l2
  c1 = c1
  c2 = c2
  b1 = b1
  t1 = t1
  t2 = t2
  p1 = p1
  p2 = p2
  None = None
  Logins = {l1}
  Confirms = {c1, c2}
  Bootstraps = {b1}
  Tokens = {t1, t2}
  Passwords = {p1, p2}
  Cooldown = 0
  TokenTtl = 1
  MaxTime = 2
SYMMETRY Symmetry
SPECIFICATION Spec
INVARIANT LiveSessionsAreCurrent
PROPERTY LinksWorkOnce
CHECK_DEADLOCK FALSE
