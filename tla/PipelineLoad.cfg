SPECIFICATION FairLoadedSpec
CONSTANTS
  Check = {c1, c2}
  watched = c1
  Result = {low}
  NoResult = NoResult
  MaxRetries = 1
  MaxLosses = 0
PROPERTY Decided
CHECK_DEADLOCK FALSE
