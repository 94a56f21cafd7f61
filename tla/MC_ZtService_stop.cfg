SPECIFICATION FairSpec
CONSTANTS
  a1 = a1
  a2 = a2
  n1 = n1
  n2 = n2
  n3 = n3
  App <- OneApp
  Net <- OneNet
  Saved <- NoneSaved
  Calls <- StartJoinStop
  Paths <- Always
  MayFail = FALSE
  MayCollide = FALSE
  MaxServices = 2
PROPERTY StopEndsService
CHECK_DEADLOCK FALSE
