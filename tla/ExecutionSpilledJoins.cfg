SPECIFICATION MCSpec
CONSTANTS
    Plans <- TwoHashJoins
    MAX_SPILL_MERGE_FAN_IN = 2
    HASH_PARTITIONS = 2
INVARIANT SpilledJoinsAreExact
