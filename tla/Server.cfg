SPECIFICATION MCFairSpec
CONSTANTS
  Addr = {a1}
  Request = {p1, p2}
  Limit = 1
  CheckWait = 4
  WriteTimeout = 6
  Grace = 2
  MaxResets = 2
CHECK_DEADLOCK FALSE
INVARIANTS
  OvershootBounded
  ServerTypeOK
PROPERTIES
  AnsweredInTime
  ShutdownWaits
  SignalEndsProcess
  RequestsEnd
