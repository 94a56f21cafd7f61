SPECIFICATION Spec
CONSTANTS
  c1 = c1
  c2 = c2
  k1 = k1
  k2 = k2
  Config <- Configs
  Instance <- Instances
  MaxWaiting = 2
SYMMETRY Swap
CONSTRAINT UntilCaught
INVARIANTS TypeOK Stoppable ViewsAgree RunsLast
