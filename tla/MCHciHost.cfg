SPECIFICATION FairSpec
CONSTANTS
  l1 = l1
  l2 = l2
  NoLink = NoLink
  Links <- MCTwo
  Handle <- MCOwn
  Central <- MCOnly2
  Known <- MCAll
  MaxConn = 1
  DataCap = 1
  Prompt = TRUE
  CanClose <- MCTwo
  MaxData = 1
  MaxApp = 2
INVARIANTS NoPanicOnAclCh   AdvertisingRestored
PROPERTIES TasksFinish
CHECK_DEADLOCK FALSE
