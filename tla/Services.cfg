SPECIFICATION MCSpec
CONSTANTS
    Queries <- QueryLists
    Extended <- Messages
    Names = {"", "p"}
    Chunks = 2
    max_copy_bytes = 1
    max_portals = 2
    max_prepared_statements = 1
    MaxRequests = 2
    MaxBatch = 3
    MaxCancels = 1
    Calls = {"a", "b"}
    MaxEvents = 1
    MaxDrops = 1
INVARIANT InSync
INVARIANT NoStaleCancel
INVARIANT StateIsTheClients
INVARIANT AnswersAreOnesOwn
PROPERTY RequestsAndDisconnectsEnd
