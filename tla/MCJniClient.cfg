SPECIFICATION Spec
CONSTANTS
  p1 = p1
  p2 = p2
  ch1 = ch1
  ch2 = ch2
  Callers = {p1, p2}
  CharOrder <- MCChars
  Filters <- MCFilters
  Kinds = {"services", "read", "descread", "descwrite", "mtu"}
  MaxGen = 2
  MaxReq = 2
  CtxCancel = {2}
  EarlyDrop = FALSE
SYMMETRY MCSymmetry
INVARIANTS OwnWrite OwnResult   RightSubscriber
PROPERTIES KeepsPromise
CHECK_DEADLOCK FALSE
