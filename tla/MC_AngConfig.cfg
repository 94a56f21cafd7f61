SPECIFICATION Spec
CONSTANTS
  home = home
  work = work
  bad = bad
  n1 = n1
  Net <- OneThread
  Remarks <- Two
  Replies <- SomeReplies
  Invalid = bad
  MaxServers = 2
  MaxTime = 2
SYMMETRY Swap
CONSTRAINT UntilOverlap
ACTION_CONSTRAINT Lag
INVARIANTS TypeOK ActiveInRange NothingUnsaved EditorFollows StartsActive
PROPERTY ActiveStays
