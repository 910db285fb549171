SPECIFICATION Spec
CONSTANTS
  Order = {1, 2}
  Request = {r1}
  Budget = 1
  MaxOps = 2
INVARIANTS
  SilenceHasCause
  NotifiedOnce
PROPERTY
  EndIsRecorded
CHECK_DEADLOCK FALSE
