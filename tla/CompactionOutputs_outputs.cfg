SPECIFICATION Spec
CONSTANTS
  kMaxSequenceNumber = 9
  EntryBytes = 100
  TargetOutputFileSize = 200
  MaxCompactionBytes = 500
  None = None
  MaxMixedUser = 3
  Workloads <- MCWorkloads
INVARIANTS AssertsHold FilesOrdered ReadsPreserved OverlapBounded BucketsCut TtlFilesApart CursorSplits
CHECK_DEADLOCK FALSE
