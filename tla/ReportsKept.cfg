SPECIFICATION MCFairSpec
CONSTANTS
  Key = {k1}
  Config <- MinIOConfig
  Tick = {12}
  Start = {0}
  Horizon = 60
  MaxLinks = 1
PROPERTY ReportsDeleted
CHECK_DEADLOCK FALSE
