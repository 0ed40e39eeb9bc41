SPECIFICATION MCSpec
CONSTANTS
  Auths = {a1}
  Models = {m1}
  Reqs = {r1, r2}
  Refreshers = {w1}
  Applier = applier
  Catalogs = {c1}
  NoAuth = NoAuth
  NoEntry = NoEntry
  Transient = 1
  Long = 2
  Hint = 1
  MaxLevel = 1
  Cooldown <- MCCooldown
  Outcomes = {"ok", "scoped", "transient", "long", "quota", "hinted", "other"}
  MaxTime = 2
  MaxResults = 2
INVARIANTS
  TypeOK
  SchedulerFollowsManager
  SchedulerModelsCurrent
PROPERTIES
  RebuildRepairs
  ResultsNeverLost
SYMMETRY MCSymmetry
CHECK_DEADLOCK FALSE
