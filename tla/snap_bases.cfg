SPECIFICATION Spec
CONSTANTS Items <- MCOneItem  Empty <- MCEmpty
CONSTANTS MaxTick = 6  Keep = 4  InitPeriod = 1  RecoverPeriod = 2  MaxParts = 1  MaxErrors = 1
CONSTANTS NetCap = 2  MayBreak = FALSE  MayResume = TRUE  IsDummy = FALSE
INVARIANTS BaseAtHand
CHECK_DEADLOCK FALSE
