SPECIFICATION Spec
CONSTANTS
  MaxSequence = 6
  MaxConnections = 1
  MaxGeneration = 7
  UserOps = {"step"}
  InOrder = TRUE
  Replay = FALSE
INVARIANTS
  NoOrphanSession
  LeaseIsHeld
  ReservationSuffices
CHECK_DEADLOCK FALSE
