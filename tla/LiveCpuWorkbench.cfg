SPECIFICATION PanelFairSpec
CONSTANTS
  MaxSequence = 5
  MaxConnections = 2
  MaxGeneration = 6
  UserOps = {"step"}
  InOrder = TRUE
  Replay = FALSE
INVARIANTS
  ShownIsCurrent
  BusyIsAwaiting
PROPERTIES
  BusyEnds
  LeaseIsReleased
CHECK_DEADLOCK FALSE
