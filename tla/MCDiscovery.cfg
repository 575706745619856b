SPECIFICATION FairSpec
CONSTANTS
  NoValue = NoValue
  All = All
  Profiles <- MCProfiles
  LongUUIDs <- MCLong
  Filters <- MCFilters
  Mtus = {10, 23, 30, 300}
  MaxCalls = 3
  MaxFails = 1
  MaxMtuReqs = 2
INVARIANTS DiscoveredAsDeclared WholeValueRead
PROPERTIES CallsEnd
CHECK_DEADLOCK FALSE
