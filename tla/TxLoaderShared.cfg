SPECIFICATION Spec
CONSTANTS
  Callers = {c1, c2}
  Txids = {t1}
  NoTx = NoTx
  NoFlight = NoFlight
  Deployments <- MCJungleBus
  Depth = 1
  StartTip = 3
  MaxTip = 4
  MaxFaults = 1
INVARIANTS
  NotFoundIsTrue
SYMMETRY Symmetric
CHECK_DEADLOCK FALSE
