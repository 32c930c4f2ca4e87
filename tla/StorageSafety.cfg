SPECIFICATION FairStorageSpec
CONSTANTS
  Key = {k1, k2}
  Reader = {r1}
  MaxCrashes = 2
  MaxFaults = 2
INVARIANTS
  StorageTypeOK
  LiveHasFile
  NoHalfReport
  CopyIsCurrent
PROPERTIES
  ReadBringsReport
  StoreSpec
  DeletedUnlessFailed
CHECK_DEADLOCK FALSE
