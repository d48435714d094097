SPECIFICATION MCJobsSpec
CONSTANTS
  t1 = t1
  t2 = t2
  o1 = o1
  OsTx = {t1, t2}
  OsOwner = {o1}
  OsAcct = {1}
  OwnersOf <- MCOwnersOf
  Request = {1}
  Concurrency = 1
  OsConfigs <- MCOsConfigs
  OsMaxTip = 2
  OsBounds <- MCOsBounds
  r0 = r0
  r1 = r1
  r2 = r2
  r3 = r3
  f = f
  a = a
  b = b
  c = c
  OrTx = {r0, r1, r2, r3}
  OrOut = {f, a, b, c}
  NoOut = none
  InsOf <- MCInsOf
  OutsOf <- MCOutsOf
  Sats <- MCSats
  OldTx = {r0}
  Slot = {w1}
  Outside = {x1}
  FailedCap = 1
  OrBounds <- MCOrBounds
INVARIANTS
  JobsTypeOK
  NothingPassed
  OriginTrue
PROPERTIES
  RequestsEnd
  HistoryArrives
  EveryEntryLeaves
CHECK_DEADLOCK FALSE
