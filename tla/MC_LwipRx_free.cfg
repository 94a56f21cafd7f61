SPECIFICATION Spec
CONSTANTS
  V4 = {}
  V6 = {a6,b6}
  Broadcast = all
  RxBufSize = 2
  FramesPerCall = 2
  NetifSlots = 2
  MboxSize = 2
  MaxFrames = 3
  MaxNetifs = 2
  HeaderKinds <- IPv6Only
INVARIANTS
  FreedPbufsAreReferenced
CHECK_DEADLOCK FALSE
