SPECIFICATION Spec
CONSTANTS
  Users = {u1}
  Addr = {a1}
  Chars = {c1}
  MaxCalls = 4
  MaxSessions = 3
  MaxCentrals = 2
  MaxNotifiers = 2
INVARIANTS CharRefLiveUnraced OneActive Mirrored 
CHECK_DEADLOCK FALSE
