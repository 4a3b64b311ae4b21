SPECIFICATION CrashSpec
CONSTANTS
    MaxPages = 2
    PageCounts = {2}
    MaxTxn = 2
    MaxCrashes = 2
    MaxFaults = 2
    MaxCheckpoints = 1
    Failures = {"power", "process", "begin_flush", "begin", "active", "abort", "committed"}
CHECK_DEADLOCK FALSE
INVARIANT TypeOK
INVARIANT WalBeforeData
PROPERTY ImplementsDurableStore
PROPERTY RestartCompletes
