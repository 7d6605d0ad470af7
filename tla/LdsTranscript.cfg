SPECIFICATION Spec
CONSTANTS
  v1 = v1
  v2 = v2
  captured = captured
  notRepresented = notRepresented
  zero = zero
  one = one
  End = 3
  Checkpoints = {1, 2}
  Pending <- MCPending
  SSAValues = {v1, v2}
  Availabilities = {captured, notRepresented}
  NotRepresented = notRepresented
  MaxPosition = 1
  PageLimit = 2
  Size = 2
  FirstCaptured = 2
  Storage = {zero, one}
  MaxValueRows = 3
  MaxMemoryCells = 2
INVARIANTS
  OneRecordingExplains
  HonestLinesFit
PROPERTIES
  ImplementsRecorder
CHECK_DEADLOCK FALSE
