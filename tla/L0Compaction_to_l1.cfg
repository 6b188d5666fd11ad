SPECIFICATION Spec
CONSTANTS
    Keys <- MCKeys
    Flushes <- MCFlushes
    enable_intra_l0_compaction = FALSE
    l0_weight_compaction = TRUE
    Trigger = 2
    MaxCompactions = 2
    MaxFlushes = 4
    MaxErrors = 1
INVARIANT ReadsNewest
INVARIANT NoSharedInputs
CHECK_DEADLOCK FALSE
