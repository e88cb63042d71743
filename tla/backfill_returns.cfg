CONSTANTS
  NumDocs = 7
  IdType <- OneType
  DiscoveryCanFail = TRUE
  Workers = {w1, w2}
  BatchSize = 2
  ChannelCapacity = 1
  SaveThreshold = 2
  Resilient = FALSE
  WriteErrors = TRUE
  ReadsCanFail = FALSE
  SavesCanFail = FALSE
  CanCancel = TRUE
  CanCrash = FALSE
SPECIFICATION FairSpec
PROPERTIES
  MigrationReturns
  BackfillCompletes
CHECK_DEADLOCK FALSE
