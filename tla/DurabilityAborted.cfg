SPECIFICATION Spec
CONSTANTS
    MaxPages = 2
    PageCounts = {2}
    MaxTxn = 1
    MaxCrashes = 1
    MaxFaults = 1
    MaxCheckpoints = 0
    Failures = {"process", "active"}
CHECK_DEADLOCK FALSE
INVARIANT RecoveredIsLastCommitted
