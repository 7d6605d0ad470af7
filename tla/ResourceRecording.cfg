SPECIFICATION Spec
CONSTANTS
  Captures = {a, b}
  Queries = {p, q}
  Tokens = {t, u}
  None = none
  MaxRev = 3
  MaxPages = 1
  MaxLines = 5
  MaxPoints = 2
INVARIANTS
  LoopIsExact
  EveryPairIsFiled
CHECK_DEADLOCK FALSE
