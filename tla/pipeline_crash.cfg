CONSTANTS
  s1 = s1
  s2 = s2
  d1 = d1
  d2 = d2
  d3 = d3
  Streams = {s1, s2}
  SaveThreshold = 2
  MaxPosition = 3
  SavesCanFail = FALSE
  NumWorkers = 2
  BatchSize = 2
  GroupByDistinctId = FALSE
  IngestCapacity = 1
  BatchingCapacity = 1
  WriteCapacity = 1
  Source <- Skipped
  WorkerOf <- TwoWorkers
  CanCancel = FALSE
  CanCrash = TRUE
SPECIFICATION FairSpec
INVARIANTS
  NoLossBelowCheckpoint
PROPERTIES
  OrderPerDocument
  UsesTracker
  AllReplicated
CHECK_DEADLOCK FALSE
