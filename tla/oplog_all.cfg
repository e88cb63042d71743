CONSTANTS
  NumDocs = 2
  Existing = {1}
  MaxChanges = 2
  NumWorkers = 1
  QueueSize = 1
  BatchSize = 2
  MaxResumes = 1
  SaveThreshold = 2
  MaxRuns = 3
  Invocations <- AllStarts
  RetryFirst = TRUE
  CanStop = TRUE
SPECIFICATION Spec
INVARIANTS
  TypeOK
  AccountedFor
  BlockedHasRecord
CHECK_DEADLOCK FALSE
