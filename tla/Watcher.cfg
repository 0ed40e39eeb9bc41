SPECIFICATION MCSpec
CONSTANTS
  Files = {f1}
  Runtimes = {r1}
  Versions = {v1, v2}
  Unusable = {bad}
  Absent = Absent
  None = None
  QCap = 1
  MaxChanges = 4
  MaxReloads = 2
INVARIANTS
  TypeOK
  PipelineFollows
  ConvergedByEvents
  ReloadRepairs
PROPERTIES
  EventuallyMirrored
CHECK_DEADLOCK FALSE
