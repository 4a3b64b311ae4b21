SPECIFICATION FairSpec
CONSTANTS
    Txns = {1, 2, 3}
    Requests <- AllRequests
    SkipHeldKeys = FALSE
    MaxWaiters = 2
    MaxRequests = 5
INVARIANT TypeOK
INVARIANT NoConflictingGrants
INVARIANT VictimsAreWaiting
PROPERTY NoOvertaking
PROPERTY WaitsEnd
