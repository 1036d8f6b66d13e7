SPECIFICATION Spec
CONSTANTS
    Jobs = {a1, u1}
    Abortables = {a1}
    Workers = {w1}
    None = None
INVARIANTS
    AllAborted
CHECK_DEADLOCK FALSE
