SPECIFICATION Spec
CONSTANTS
  Txids = {t1}
  Depth = 1
  RollbackFlag = TRUE
  TornHeight = FALSE
  Backends = {"redis", "sql"}
  StartTip = 2
  MaxTip = 3
  MaxInputs = 1
  MaxCallbacks = 1
  MaxFaults = 1
  Bounds <- MCBounds
INVARIANTS
  OnlyOldRolledBack
CHECK_DEADLOCK FALSE
