CONSTANTS
  g = g
  a = a
  b = b
  g0 = g0
  a0 = a0
  w1 = w1
  w2 = w2
  None = None
  Tx = {g, a, b}
  Out = {g0, a0}
  TxOf <- MCTxOf
  Ins <- MCIns
  Worker = {w1, w2}
  Backends = {"redis", "pg", "sqlite"}
  MaxOps = 4
SYMMETRY Symmetric
SPECIFICATION Spec
INVARIANT UnspentIsUnspent
CHECK_DEADLOCK FALSE
