SPECIFICATION Spec
CONSTANTS
    N = 3
    Rows = {r1, r2}
    Kinds = {"keyed"}
    Setups <- All
INVARIANT TypeOK
INVARIANT OneVersionVisible
INVARIANT SnapshotStable
INVARIANT NoFracturedRead
INVARIANT NoLostUpdate
INVARIANT ConflictsAreKnown
INVARIANT Serializable
