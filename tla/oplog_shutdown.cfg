CONSTANTS
  NumDocs = 2
  Existing = {1}
  MaxChanges = 2
  NumWorkers = 1
  QueueSize = 1
  BatchSize = 1
  MaxResumes = 1
  SaveThreshold = 2
  MaxRuns = 2
  Invocations <- LiveOnly
  RetryFirst = TRUE
  CanStop = TRUE
SPECIFICATION Spec
INVARIANT
  NothingAbandoned
CHECK_DEADLOCK FALSE
