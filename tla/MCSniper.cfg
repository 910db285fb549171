SPECIFICATION Spec
CONSTANTS
  a1 = a1
  acc1 = acc1
  Alert = {a1}
  Fqn = {q1, q2}
  Profile = {p1}
  Account = {acc1}
  owner <- OneOwner
  Reload = {r1}
  NoArm = NoArm
  MaxArms = 2
  MaxFires = 2
INVARIANTS
  DuplicateNeedsLostReply
  BlockedHasCause
  DeadArmHasCause
PROPERTIES
  FiresAreAttempts
  RevokedNeverFires
CHECK_DEADLOCK FALSE
SYMMETRY Symmetry
CONSTRAINT ReloadsInTime
