SPECIFICATION Spec
CONSTANTS
    Txns = {1, 2, 3}
    Requests <- RowRequests
    SkipHeldKeys = TRUE
    MaxWaiters = 3
    MaxRequests = 7
INVARIANT DeadlockHasVictim
