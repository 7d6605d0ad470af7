SPECIFICATION FairSpec
CONSTANTS
  p1 = p1
  p2 = p2
  l1 = l1
  l2 = l2
  l3 = l3
  Pages <- MCPages
  Locations <- MCLocations
  PageOf <- MCPageOf
  GoalOf <- MCGoalOf
  HomePage = l1
INVARIANTS
  LockedWhileModal
PROPERTIES
  FocusReturns
  NoStolenFocus
  LinkEndsInMain
