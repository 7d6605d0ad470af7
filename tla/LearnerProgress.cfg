SPECIFICATION Spec
CONSTANTS
  Tabs = {t1}
  Lessons = {l1, l2, old}
  Valid = {l1, l2}
INVARIANTS
  ReloadShowsTheSame
PROPERTIES
  ProgressPersists
