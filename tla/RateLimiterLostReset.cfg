SPECIFICATION MCFairSpec
CONSTANTS
  Addr = {a1}
  Request = {p1}
  Limit = 2
  MaxResets = 2
PROPERTY RetrySucceeds
