SPECIFICATION Spec
CONSTANTS
  p1 = p1
  p2 = p2
  q1 = q1
  q2 = q2
  Callers = {p1, p2}
  Kinds = {"services", "write", "descread"}
  MaxGen = 2
  MaxReq = 2
  Backends = {"binder", "jniproxy"}
  CanCancel = {2}
  CanBreak = {2}
  MaxScans = 2
  Stoppers = {q1, q2}
  StreamEnd = TRUE
SYMMETRY MCSymmetry
INVARIANTS OwnResult  ScanOwned
PROPERTY KeepsPromise
CHECK_DEADLOCK FALSE
