SPECIFICATION MCSpec
CONSTANTS
  Auths = {x1, x2}
  Sessions = {1, 2}
  MaxAttempts = 2
  MaxConns = 2
  Cap = 1
  Rejections = {"upgrade", "status"}
  None = None
INVARIANTS
  TypeOK
  OwnAnswers
  NoEarlyPanic
PROPERTIES
  ClientReleased
  NothingStaysOpen
CHECK_DEADLOCK FALSE
