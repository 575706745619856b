SPECIFICATION FairSpec
CONSTANTS
  s1 = s1
  s2 = s2
  s3 = s3
  None = None
  Nil = Nil
  Senders <- MCSenders
  Op <- MCOp
  Checked <- MCChecked
  StatusOps = {"conn"}
  MaxSends <- MCSends
  MaxCancels = 1
  MaxWriteErrs = 1
INVARIANTS OwnAnswer PacketFindableUnraced NoPanic
PROPERTIES CommandsReturn
CHECK_DEADLOCK FALSE
