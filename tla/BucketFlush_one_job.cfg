SPECIFICATION Spec
CONSTANTS
    Keys <- MCKeys
    Jobs = {j1}
    Writes <- MCPuts
    Partitions <- MCPartitions
    parallel_split_flush = TRUE
    SyncMayFail = FALSE
    MaxMemtables = 3
    MaxErrors = 1
    MaxCrashes = 1
INVARIANTS TypeOK NewestFirst ReadsLastWrite
CHECK_DEADLOCK FALSE
