CONSTANTS
  s1 = s1
  s2 = s2
  d1 = d1
  d2 = d2
  d3 = d3
  Streams = {s1, s2}
  SaveThreshold = 2
  MaxPosition = 2
  SavesCanFail = FALSE
  NumWorkers = 1
  BatchSize = 2
  GroupByDistinctId = TRUE
  IngestCapacity = 1
  BatchingCapacity = 1
  WriteCapacity = 1
  Source <- Dropped
  WorkerOf <- OneWorker
  CanCancel = TRUE
  CanCrash = FALSE
SPECIFICATION FairSpec
INVARIANTS
  TypeOK
  AckedHasOutcome
  GroupsDrainedAtClose
PROPERTIES
  ShutdownCompletes
CHECK_DEADLOCK FALSE
