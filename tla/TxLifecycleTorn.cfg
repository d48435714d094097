SPECIFICATION Spec
CONSTANTS
  Txids = {t1}
  Depth = 1
  RollbackFlag = TRUE
  TornHeight = TRUE
  Backends = {"redis", "sql"}
  StartTip = 2
  MaxTip = 3
  MaxInputs = 1
  MaxCallbacks = 1
  MaxFaults = 1
  Bounds <- MCBounds
INVARIANTS
  ArchivedIsFinal
CHECK_DEADLOCK FALSE
