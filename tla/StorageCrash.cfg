SPECIFICATION FairStorageSpec
CONSTANTS
  Key = {k1}
  Reader = {r1}
  MaxCrashes = 1
  MaxFaults = 0
PROPERTY DeletedAfterExpiry
CHECK_DEADLOCK FALSE
