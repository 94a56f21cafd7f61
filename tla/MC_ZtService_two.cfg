SPECIFICATION Spec
CONSTANTS
  a1 = a1
  a2 = a2
  n1 = n1
  n2 = n2
  n3 = n3
  App <- TwoApps
  Net <- OneNet
  Saved <- OneSaved
  Calls <- Nonblocking
  Paths <- Always
  MayFail = FALSE
  MayCollide = FALSE
  MaxServices = 2
INVARIANT TypeOK
INVARIANT DriverStartsOnce
INVARIANT OneTapPerNetwork
SYMMETRY Apps
CHECK_DEADLOCK FALSE
