SPECIFICATION MCSpec
CONSTANTS
    Clients = {s1, s2, s3}
    Threads <- MCThreads
    Channels = {news}
    Payloads = {p, q}
    QueueLimit = 1
    Talkers = {s1, s2}
    MaxRequests = 4
    MaxFailures = 1
    OpenStreams = FALSE
    Nobody = Nobody
    MAX_SPILL_MERGE_FAN_IN = 2
    HASH_PARTITIONS = 2
    MAX_REFERENTIAL_ACTIONS = 5
INVARIANT StreamsAreStable
INVARIANT NotificationsArrive
INVARIANT SleepersAreBlocked
INVARIANT QueriesAreExact
INVARIANT ChangesAreExact
PROPERTY CommitsEnd
