SPECIFICATION Spec
CONSTANTS
  Creds = {c1, c2}
  Workers = {w1}
  Loop = loop
  Applier = applier
  Watched = {c1}
  None = None
  JobCap = 1
  Interval = 1
  Pending = 1
  Failure = 1
  Ineffective = 1
  Life = 1
  MaxTime = 2
  MaxUpdates = 1
INVARIANTS
  TypeOK
  NothingForgotten
  RefreshedOnce
PROPERTIES
  Throttled
  DueIsRefreshed
CHECK_DEADLOCK FALSE
