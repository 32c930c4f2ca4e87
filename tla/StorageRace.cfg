SPECIFICATION StorageSpec
CONSTANTS
  Key = {k1}
  Reader = {r1}
  MaxCrashes = 0
  MaxFaults = 0
PROPERTY DeletedIsNotFound
CHECK_DEADLOCK FALSE
