SPECIFICATION Spec
CONSTANTS
    N = 3
    Rows = {r1, r2}
    Kinds = {"keyed"}
    Setups <- Pivots
INVARIANT Serializable
