SPECIFICATION FairSpec
CONSTANTS
  StorageSizes = {20, 25}
  BufferSize = 7
  PageBytes = 4
  PreambleBytes = 9
  PollLimit = 3
  MaxBatches = 2
  MaxStarts = 2
INVARIANTS
  TypeOK
  NothingUsedAfterDestroy
  RefusedLeavesNothing
  FailureSeenInTime
  ErrorBatchesExact
PROPERTIES
  ImplementsContract
