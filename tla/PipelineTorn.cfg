SPECIFICATION PipelineSpec
CONSTANTS
  Check = {c1}
  watched = c1
  Result = {low}
  NoResult = NoResult
  MaxRetries = 1
  MaxLosses = 0
INVARIANT SuccessIsWhole
CHECK_DEADLOCK FALSE
