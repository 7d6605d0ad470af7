SPECIFICATION ReentrantSpec
CONSTANTS
  Contexts = {c1, c2}
  Cursors = {k1}
  Scopes = {f1}
  Windows = {w1}
  NoSelection = NoSelection
  MaxRequests = 3
  MaxId = 4
  MaxDepth = 2
INVARIANTS
  SelectionChangeInvalidates
CHECK_DEADLOCK FALSE
