SPECIFICATION PanelFairSpec
CONSTANTS
  MaxCommands = 4
  MaxEvents = 3
  End = 3
  Counts = {1, 2}
  MaxConnections = 2
  MaxGeneration = 5
INVARIANTS
  RetainedIsCurrent
  HonestRepliesFit
  CommandsAreNext
  ShownIsCurrent
  BusyIsAwaiting
PROPERTIES
  ImplementsDebugSession
  BusyEnds
CHECK_DEADLOCK FALSE
