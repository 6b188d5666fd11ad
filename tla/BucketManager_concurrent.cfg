SPECIFICATION Spec
CONSTANTS
    Jobs = {j1, j2}
    Memtables <- PlainMemtables
    CompactionInputs <- PlainInputs
    TargetCount = 2
    WindowSize = 2
    EntryBytes = 3
    EnableBucketAdjustment = TRUE
    MaxFlushes = 3
    MaxEpoch = 2
SYMMETRY JobSymmetry
INVARIANTS
    TypeOK
    FlushWritesEveryEntry
    StatsConserved
PROPERTIES
    AdjustmentPreservesStats
    ImplementsPartition
