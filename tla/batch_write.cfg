CONSTANTS
  NumDocs = 3
  MinBatchSize = 1
  MaxRetries = 2
  Modes = {"resilient", "fail-fast"}
  UpsertModes = {TRUE, FALSE}
  SplitModes = {TRUE, FALSE}
  WriteErrors = TRUE
  TransformErrors = TRUE
  InvalidIds = TRUE
  Collisions = TRUE
  UniqueIndexes = TRUE
  CanCancel = TRUE
SPECIFICATION FairSpec
INVARIANTS
  TypeOK
  WrittenOrRecorded
  SuccessIsWritten
PROPERTIES
  WriteReturns
CHECK_DEADLOCK FALSE
