SPECIFICATION FairSpec
CONSTANTS
    Keys <- MCKeys
    Flushes <- MCFlushes
    enable_intra_l0_compaction = TRUE
    l0_weight_compaction = FALSE
    Trigger = 2
    MaxCompactions = 2
    MaxFlushes = 3
    MaxErrors = 0
INVARIANT L1Sorted
INVARIANT NothingLost
PROPERTY DeepL0Compacted
CHECK_DEADLOCK FALSE
