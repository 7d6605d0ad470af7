SPECIFICATION Spec
CONSTANTS
  MaxSequence = 3
  MaxConnections = 2
  MaxGeneration = 6
  UserOps = {"step", "continue", "edit", "stack", "runtime", "storage"}
  InOrder = FALSE
  Replay = TRUE
INVARIANTS
  NoStaleObservation
  ViewMirrorsBridge
  CommandsAreNext
  OneRequestAtATime
PROPERTIES
  ImplementsDebugSession
CHECK_DEADLOCK FALSE
