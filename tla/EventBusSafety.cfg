SPECIFICATION FairOnceSpec
CONSTANTS
  requests = requests
  jobs = jobs
  r = r
  j = j
  k = k
  loose = loose
  Queue = {requests, jobs}
  Message = {j, k, loose}
  Binding <- MCBinding
  MaxRetries = 3
  MaxLosses = 2
INVARIANTS
  BusTypeOK
  DeadAfterRetries
  DuplicatesNeedLoss
  AttemptsBounded
PROPERTIES
  LedgerSpec
  EventuallySettled
CHECK_DEADLOCK FALSE
