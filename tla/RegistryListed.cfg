SPECIFICATION Spec
CONSTANTS
  Clients = {c1, c2}
  Models = {m1}
  Providers = {p1}
  Requests = {r1, r2}
  Listers = {}
  Kinds = {"ok", "quota", "other"}
  Window = 2
  MaxDup = 1
  MaxTime = 2
  None = None
SYMMETRY MCSymmetry
INVARIANTS
  AvailableListed
CHECK_DEADLOCK FALSE
