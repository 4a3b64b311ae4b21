SPECIFICATION FaultSpec
CONSTANTS
    MaxPages = 2
    PageCounts = {2}
    MaxTxn = 2
    MaxCrashes = 2
    MaxFaults = 2
    MaxCheckpoints = 1
    Failures = {"power", "process", "begin_flush", "begin", "active", "abort", "committed"}
CHECK_DEADLOCK FALSE
INVARIANT StoreIsLastCommitted
INVARIANT AckedIsDurable
INVARIANT StatusAndLogAgree
INVARIANT RecoverySucceeds
