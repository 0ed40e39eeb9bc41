SPECIFICATION MCSpec
CONSTANTS
  Files = {f1}
  Runtimes = {r1}
  Versions = {v1, v2}
  Unusable = {}
  Absent = Absent
  None = None
  QCap = 1
  MaxChanges = 2
  MaxReloads = 1
INVARIANTS
  Converged
CHECK_DEADLOCK FALSE
