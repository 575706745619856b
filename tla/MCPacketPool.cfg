SPECIFICATION PoolFairSpec
CONSTANTS
  b1 = b1
  b2 = b2
  b3 = b3
  b4 = b4
  None = None
  Bufs <- MCBufs
  Depth = 1
  Kinds = {"acl", "direct", "late", "other"}
  MaxPackets = 3
  OpenConns = 0
INVARIANTS OneOwner EarlyIntact
 
CHECK_DEADLOCK FALSE
