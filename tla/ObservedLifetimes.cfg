SPECIFICATION Spec
CONSTANTS
  DispatchSpaces = {"global"}
  Invocations = {i1, i2}
  Workgroups = {}
  Layouts = {a1, a2}
  MaxBytes = 2
  MaxRows = 4
  MaxAllocation = 3
  MaxSlot = 2
  MaxSize = 1
INVARIANTS
  LoopsAreExact
  DemandIsExact
  SlotsAreExclusive
CHECK_DEADLOCK FALSE
