SPECIFICATION FairSpec
CONSTANTS
  q1 = q1
  MaxScans = 1
  Stoppers = {q1}
  StreamEnd = FALSE
PROPERTY StopScanningReturns
CHECK_DEADLOCK FALSE
