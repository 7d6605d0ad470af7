SPECIFICATION Spec
CONSTANTS
  Contexts = {c1}
  Cursors = {k1, k2}
  Scopes = {f1, f2}
  Windows = {w1, w2}
  NoSelection = NoSelection
  MaxRequests = 3
  MaxId = 4
INVARIANTS
  ResultIsOwn
PROPERTIES
  CompletesPending
CHECK_DEADLOCK FALSE
