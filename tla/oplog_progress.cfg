CONSTANTS
  NumDocs = 2
  Existing = {}
  MaxChanges = 2
  NumWorkers = 1
  QueueSize = 1
  BatchSize = 1
  MaxResumes = 1
  SaveThreshold = 2
  MaxRuns = 2
  Invocations <- LiveThenRetry
  RetryFirst = TRUE
  CanStop = TRUE
SPECIFICATION FairSpec
PROPERTIES
  RunsProceed
  CatchesUp
CHECK_DEADLOCK FALSE
