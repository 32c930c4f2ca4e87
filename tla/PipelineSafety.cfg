SPECIFICATION PipelineSpec
CONSTANTS
  Check = {c1}
  watched = c1
  Result = {low, high}
  NoResult = NoResult
  MaxRetries = 1
  MaxLosses = 1
SYMMETRY Symmetry
INVARIANTS
  PipelineTypeOK
  LinkIsServed
  ReportMatchesAnswer
  Accounted
  DeadIsUndelivered
PROPERTIES
  CompletedIsFinal
  ResultIsKept
  PutsBeforeLinks
  UsesBus
CHECK_DEADLOCK FALSE
