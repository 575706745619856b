SPECIFICATION FairSpec
CONSTANTS
  c1 = c1
  c2 = c2
  h1 = h1
  None = None
  Callers <- MCCallers
  Handles <- MCHandles
  Managers <- MCOneManager
  ErrKinds = {"read", "sub"}
  MaxCalls = 2
  MaxCancels = 1
  MaxNotify = 1
  MaxPeerReqs = 1
  MaxDrops = 1
  MaxStops = 1
  MaxFaults = 1
INVARIANTS OwnResponse NoNotificationLost ConfirmedOnce
CHECK_DEADLOCK FALSE
PROPERTIES CallsReturnUndisturbed ConfirmedUnlessStuck
