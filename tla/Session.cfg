SPECIFICATION Spec
CONSTANTS
  Requests = {r1, r2}
  Streaming = {r1}
  Cap = 1
  MaxData <- MCMaxData
INVARIANTS
  TypeOK
  OkIsComplete
PROPERTIES
  ClosedSettles
  NothingLeaks
CHECK_DEADLOCK FALSE
