SPECIFICATION FairSpec
CONSTANTS
    Keys <- MCKeys
    Jobs = {j1, j2}
    Writes <- MCPutAll
    Partitions <- MCPartitions
    parallel_split_flush = FALSE
    SyncMayFail = FALSE
    MaxMemtables = 2
    MaxErrors = 1
    MaxCrashes = 0
INVARIANTS NoneStranded InstalledWhole
PROPERTY EveryMemtableFlushed
CHECK_DEADLOCK FALSE
