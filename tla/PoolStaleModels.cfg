SPECIFICATION MCSpec
CONSTANTS
  Auths = {a1}
  Models = {m1}
  Reqs = {r1}
  Refreshers = {}
  Applier = applier
  Catalogs = {c1}
  NoAuth = NoAuth
  NoEntry = NoEntry
  Transient = 1
  Long = 2
  Hint = 1
  MaxLevel = 1
  Cooldown <- MCCooldown
  Outcomes = {"ok", "scoped", "transient", "long", "quota", "hinted", "other"}
  MaxTime = 1
  MaxResults = 1
INVARIANT NoStaleRegistration
CHECK_DEADLOCK FALSE
