SPECIFICATION FairSpec
CONSTANTS
  a1 = a1
  a2 = a2
  n1 = n1
  n2 = n2
  n3 = n3
  App <- OneApp
  Net <- ThreeNets
  Saved <- ThreeNets
  Calls <- Blocking
  Paths <- Sometimes
  MayFail = TRUE
  MayCollide = TRUE
  MaxServices = 3
INVARIANT TapRefsLive
INVARIANT NoCrash
PROPERTY StartJoinDone
PROPERTY StartReturns
CHECK_DEADLOCK FALSE
