SPECIFICATION Spec
CONSTANTS
  a = a
  b = b
  p = p
  a1 = a1
  a2 = a2
  b1 = b1
  o1 = o1
  o2 = o2
  None = None
  Requests = {a1, a2, b1}
  Txids = {a, b, p}
  Outpoints = {o1, o2}
  ReqTx <- MCReqTx
  Inputs <- MCInputs
  Outputs <- MCOutputs
  Backends = {"redis", "postgres"}
  MaxFaults = 1
  MaxEvents = 1
INVARIANTS
  TypeOK
  ExclusiveSubmission
  NoLeakedMarks
  SuccessStaysPending
  SubmittedIsTracked
PROPERTIES
  UnsetsOnlyOwn
CONSTRAINT Together
SYMMETRY Duplicates
CHECK_DEADLOCK FALSE
