SPECIFICATION Spec
CONSTANTS
    c1 = c1
    c2 = c2
    ColumnFamilies = {c1}
    DefaultColumnFamily = c1
    Buckets <- MCBuckets
    Trigger = 2
    StopTrigger = 2
    max_write_buffer_number = 3
    max_flushes = 2
    max_compactions = 2
    MaxMemtables <- OneFamily
    MaxFailures = 1
    MaxErrors = 1
    MaxRefs = 5
INVARIANT TypeOK
INVARIANT QueuesAccounted
INVARIANT FlushFlagsExact
INVARIANT FlaggedQueued
 
INVARIANT NoFlushForgotten
INVARIANT NoCompactionForgotten
CHECK_DEADLOCK FALSE
