SPECIFICATION Spec
CONSTANTS Items <- MCItems  Empty <- MCEmpty
CONSTANTS MaxTick = 3  Keep = 2  InitPeriod = 1  RecoverPeriod = 2  MaxParts = 2  MaxErrors = 1
CONSTANTS NetCap = 2  MayBreak = TRUE  MayResume = TRUE  IsDummy = TRUE
INVARIANTS StorageServes StoredAsBuilt
PROPERTIES FeedSpec
CHECK_DEADLOCK FALSE
