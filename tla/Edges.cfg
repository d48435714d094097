SPECIFICATION MCSpec
CONSTANTS
  s1 = s1
  s2 = s2
  SubTx = {s1, s2}
  FirstBlock = 1
  RewindAbove = 1
  RewindBy = 1
  ReorgDepth = 2
  SubConfigs <- MCSubConfigs
  SubMaxTip = 3
  SubBounds <- MCSubBounds
  e1 = e1
  e2 = e2
  e3 = e3
  Session = {e1, e2, e3}
  Topic = {"block", "own"}
  Subscribed = {"block"}
  Callers = {c1, c2}
  Txids = {x1}
  NoTx = NoTx
  NoFlight = NoFlight
  Deployments <- MCDeployments
  Depth = 1
  StartTip = 3
  MaxTip = 4
  MaxFaults = 1
INVARIANTS
  TypeOK
  EdgesTypeOK
  ResumesBehindNothing
  OneBatchGivenUp
  SingleFlight
  NotFoundWithoutFault
  KeptProofsHold
  WaitersAreServed
SYMMETRY Symmetric
CHECK_DEADLOCK FALSE
