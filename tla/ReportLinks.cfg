SPECIFICATION MCSpec
CONSTANTS
  Key = {k1}
  Config <- MCConfig
  Tick = {12}
  Start = {23}
  Horizon = 203
  MaxLinks = 2
INVARIANTS
  LinksTypeOK
  FoundUntilExpiry
  NothingServedLate
PROPERTY FreshLinkWorks
CHECK_DEADLOCK FALSE
