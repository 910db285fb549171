SPECIFICATION Spec
CONSTANTS
  Plan = {p1, p2}
  Armed = {p1}
  Browser = {b1}
  QueueSize = 1
  MaxMoves = 2
  MaxOps = 2
INVARIANTS
  LogFollowsStock
  PictureIsCurrent
  RestockIsAccounted
PROPERTIES
  RestockIsTold
  ArmedIsOffered
CHECK_DEADLOCK FALSE
