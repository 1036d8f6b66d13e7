SPECIFICATION MCSpec
CONSTANTS
    Jobs = {a1, a2, u1, u2}
    Abortables = {a1, a2}
    Workers = {w1, w2}
    None = None
    Writers = {w}  InitialSize = 4  LocalSize = 2  MaxWrite = 2  MaxBytes = 5
    Size = 3  MaxQueries = 4  Backlog = 2
    Requests = {r1, r2}
INVARIANTS
    AssertionsHold NoLostWakeup ResultsHold
    NothingLost OwnerServed
    InOrder RowsKept OkIsStored
PROPERTIES
    AbortHolds RequestSpec
    ThreadsEnd
CHECK_DEADLOCK FALSE
