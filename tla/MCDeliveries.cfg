SPECIFICATION DeliveriesSpec
CONSTANTS
  Request = {r1, r2}
  NoTask = NoTask
  MaxTasks = 3
  MaxPuts = 4
  Server = {s1}
  MaxMoves = 2
INVARIANTS
  PollersAccounted
  AnnouncedWasDelivered
  RecordedIsTold
PROPERTIES
  DeliveryIsTold
CHECK_DEADLOCK FALSE
