SPECIFICATION Spec
CONSTANTS
  A = A
  B = B
  a1 = a1
  a2 = a2
  b1 = b1
  Account = {1, 2}
  App = {A, B}
  Consumer = {a1, a2, b1}
  Valid <- Matching
  Keep = Keep
  None = None
  Request = {r1, r2}
  MaxOps = 4
INVARIANTS
  RegistryFresh
  UnverifiedNeedsOverlap
  ActiveIsStored
CHECK_DEADLOCK FALSE
