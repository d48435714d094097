CONSTANTS
  g = g
  a = a
  b = b
  g0 = g0
  a0 = a0
  w1 = w1
  w2 = w2
  None = None
  Tx = {g, a, b}
  Out = {g0, a0}
  TxOf <- MCTxOf
  Ins <- MCIns
  Worker = {w1, w2}
  Backends = {"redis", "pg", "sqlite"}
  MaxOps = 4
  k1 = k1
  k2 = k2
  o1 = o1
  o2 = o2
  t1 = t1
  t2 = t2
  QKey = {k1, k2}
  QOut = {o1, o2}
  QTxid = {t1, t2}
  TxidOf <- MCTxidOf
  QNone = none
  QScores = {1, 2}
  QFroms = {1, 3}
  QLimits = {2}
  QBackends = {"redis", "pg", "sqlite"}
  QStores <- MCStores
  MaxWrites = 1
SYMMETRY Symmetric
SPECIFICATION MCSpec
INVARIANTS
  TypeOK
  QTypeOK
  RolledLeavesNothing
  SavedIsWhole
  EntriesResolve
  Justified
  NothingLeftOut
  PanicsOnlyWhen
PROPERTY MarksChangeHands
CHECK_DEADLOCK FALSE
