SPECIFICATION Spec
CONSTANTS
    Size = 2
    MaxQueries = 3
    Backlog = 3
    Null = Null
INVARIANTS
    AllHandled
CHECK_DEADLOCK FALSE
