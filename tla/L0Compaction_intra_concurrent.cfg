SPECIFICATION Spec
CONSTANTS
    Keys <- MCKeys
    Flushes <- MCOneBucket
    enable_intra_l0_compaction = TRUE
    l0_weight_compaction = TRUE
    Trigger = 2
    MaxCompactions = 2
    MaxFlushes = 6
    MaxErrors = 0
INVARIANT ReadsNewest
CHECK_DEADLOCK FALSE
