SPECIFICATION Spec
CONSTANTS
  p1 = p1
  p2 = p2
  ch1 = ch1
  ch2 = ch2
  Callers = {p1}
  CharOrder <- MCChars
  Filters <- MCOneFilter
  Kinds = {"services", "read", "descread", "descwrite", "rssi", "mtu"}
  MaxGen = 2
  MaxReq = 0
  CtxCancel = {1, 2}
  EarlyDrop = FALSE
INVARIANT AlwaysDisconnected
CHECK_DEADLOCK FALSE
