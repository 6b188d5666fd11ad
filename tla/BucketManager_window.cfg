SPECIFICATION Spec
CONSTANTS
    Jobs = {j1}
    Memtables <- SequentialMemtables
    CompactionInputs <- SequentialInputs
    TargetCount = 3
    WindowSize = 2
    EntryBytes = 3
    EnableBucketAdjustment = TRUE
    MaxFlushes = 3
    MaxEpoch = 2
INVARIANTS
    Partition
    SnapshotFresh
    WindowSums
    EventsInWindow
