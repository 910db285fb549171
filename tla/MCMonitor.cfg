SPECIFICATION MonitorSpec
CONSTANTS
  a1 = a1
  a2 = a2
  k1 = k1
  c1 = c1
  q1 = q1
  Alert = {a1, a2}
  Key = {k1}
  Account = {c1}
  Fqn = {q1}
  watches <- OneKey
  pattern <- FirstMatches
  acct <- OneAccount
  MaxOps = 3
  MaxReloads = 1
INVARIANTS
  PrimedWasObserved
  DivergenceHasCause
PROPERTIES
  OffTakesEffect
CHECK_DEADLOCK FALSE
