SPECIFICATION MCSpec
CONSTANTS
  Auths = {x1, x2}
  Sessions = {1, 2}
  MaxAttempts = 2
  MaxConns = 1
  Cap = 1
  Rejections = {"upgrade"}
  None = None
PROPERTY UpgradeFailuresSurvived
CHECK_DEADLOCK FALSE
