SPECIFICATION FairSpec
CONSTANTS
    c1 = c1
    c2 = c2
    ColumnFamilies = {c1, c2}
    DefaultColumnFamily = c1
    Buckets = {b1}
    Trigger = 1
    StopTrigger = 1
    max_write_buffer_number = 3
    max_flushes = 1
    max_compactions = 1
    MaxMemtables <- TwoFamilies
    MaxFailures = 1
    MaxErrors = 2
    MaxRefs = 1
CHECK_DEADLOCK FALSE
PROPERTY RecoveryCompletesUnlessStalled
PROPERTY StallEnds
PROPERTY MemtablesFlushed
