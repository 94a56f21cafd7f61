SPECIFICATION FairSpec
CONSTANTS
  V4 = {a4}
  V6 = {a6}
  Broadcast = all
  RxBufSize = 3
  FramesPerCall = 2
  NetifSlots = 2
  MboxSize = 2
  MaxFrames = 3
  MaxNetifs = 3
  HeaderKinds <- Mixed
INVARIANTS
  TypeOK
  PendingIsBacklog
  NoFreedFrameInMbox
PROPERTIES
  CachedFramesAreRouted
CHECK_DEADLOCK FALSE
