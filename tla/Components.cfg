SPECIFICATION MCSpec
CONSTANTS
    a = a
    b = b
    Sessions = {a, b}
    None = None
    MaxEffects = 3
    MaxSavepoints = 1
    Limits <- Themes
    MaxStatements = 6
    IndexNames = {"i"}
    ConstraintNames = {"k"}
    MaxPlans = 3
    MaxWrites = 2
    MaxCrashes = 2
    Keys = {1, 2}
    order = 3
    MaxEntries = 8
    PageIds = {0, 1, 2}
    capacity = 2
    MaxGuards = 2
    MaxClock = 4
    MaxLsn = 3
    Plugins = {"p", "q"}
    MaxVersion = 2
    MaxOperations = 3
    MaxRestarts = 2
    Runs = {"r"}
    Calls <- ToolCalls
    MAX_CONCURRENT_READ_TOOLS = 1
    MAX_PENDING_APPROVALS = 2
SYMMETRY Perms
INVARIANT LeaseIsOwned
PROPERTY PublishKeepsCommitted
INVARIANT CatalogIsSound
INVARIANT DataRootIsKept
INVARIANT RunsAsWritten
INVARIANT RangesAreExact
INVARIANT PagesAreKept
INVARIANT HelpersAreKept
INVARIANT ApprovalsAreKept
