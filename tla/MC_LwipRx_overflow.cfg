SPECIFICATION Spec
CONSTANTS
  V4 = {a4}
  V6 = {}
  Broadcast = all
  RxBufSize = 2
  FramesPerCall = 2
  NetifSlots = 2
  MboxSize = 2
  MaxFrames = 3
  MaxNetifs = 2
  HeaderKinds <- Unicast
INVARIANTS
  CachedInsideBuffer
CHECK_DEADLOCK FALSE
