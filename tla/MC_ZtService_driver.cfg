SPECIFICATION FairSpec
CONSTANTS
  a1 = a1
  a2 = a2
  n1 = n1
  n2 = n2
  n3 = n3
  App <- OneApp
  Net <- TwoNets
  Saved <- NoneSaved
  Calls <- JustStartJoin
  Paths <- Always
  MayFail = FALSE
  MayCollide = FALSE
  MaxServices = 2
PROPERTY DriverLockReleased
CHECK_DEADLOCK FALSE
