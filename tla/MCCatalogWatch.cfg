SPECIFICATION Spec
CONSTANTS
  p1 = p1
  p2 = p2
  p3 = p3
  Plan = {p1, p2, p3}
  Price = {1, 2}
  NoPrice = NoPrice
  NoWatch = NoWatch
  Offers <- SomeOffers
  Campaigns <- SomeCampaigns
  Watchable = {p1}
  MaxOps = 3
INVARIANTS
  NotifiedWasTold
  ReportsAccounted
PROPERTIES
  DropToldOnce
  DropIsTold
  SnapshotCatchesUp
CHECK_DEADLOCK FALSE
