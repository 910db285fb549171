SPECIFICATION RushSpec
CONSTANTS
  d1 = d1
  d2 = d2
  Datacenter = {d1, d2}
  Price = {1, 2}
  NoPrice = NoPrice
  Request <- Requests
INVARIANTS
  CheckoutIsComplete
  CapFailsClosed
  CleanFailure
PROPERTIES
  ImplementsAttempt
CHECK_DEADLOCK FALSE
