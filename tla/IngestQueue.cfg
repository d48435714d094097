SPECIFICATION Spec
CONSTANTS
  Txids = {t1, t2, bad}
  Workers = {w1, w2, w3}
  Poison = {bad}
  NoTx = NoTx
  Configs <- MCConfigs
  MaxEnqueues = 1
  MaxFaults = 1
  MaxStops = 1
INVARIANTS
  TypeOK
  LimiterExact
  OneWorkerPerTx
  NoWorkLost
  StopsClean
PROPERTIES
  EveryTxServed
CHECK_DEADLOCK FALSE
