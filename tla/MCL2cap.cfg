SPECIFICATION FairSpec
CONSTANTS
  x1 = x1
  x2 = x2
  Writers <- MCWriters
  Payloads <- MCPayloads
  BufSize = 7
  Credits = 2
  DataCap = 1
  Padding = {0, 1, 3}
  Drops = 1
INVARIANTS CreditsAccounted ReadsWhatWasWritten
PROPERTIES EverythingRead
CHECK_DEADLOCK FALSE
