SPECIFICATION FairScreeningSpec
CONSTANTS
  Length <- MCLength
  Score <- MCScore
  Category = {mixer}
  Ident = {ofac, eu}
INVARIANTS
  ScreeningTypeOK
  CheckedIsValid
  MockIsMiddling
  LevelIsNamedOrDerived
  ReportMatchesResponse
  SanctionsAreSeparate
PROPERTY ScoredIsScreened
CHECK_DEADLOCK FALSE
