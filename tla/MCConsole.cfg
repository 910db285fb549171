CONSTANTS
  Sessions = {s1, s2}
  Sockets = {k1, k2}
  MaxPolls = 1
  None = None
SPECIFICATION Spec
INVARIANT OneConsoleUnlessOverlap
PROPERTY SocketEnds
CHECK_DEADLOCK FALSE
