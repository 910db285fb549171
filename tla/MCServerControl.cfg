SPECIFICATION Spec
CONSTANTS
  Request = {r1, r2}
  Client = {c1, c2}
  NoOne = NoOne
  Feature = {ipmi, burst}
  Ipmi = ipmi
  MaxFaults = 2
INVARIANTS
  CarriedOutOnce
  AnswersAreTrue
  RepeatUndoesNothing
  CapabilityHasCause
CHECK_DEADLOCK FALSE
SYMMETRY Symmetry
