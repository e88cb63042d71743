CONSTANTS
  NumDocs = 5
  IdType <- TwoTypes
  DiscoveryCanFail = FALSE
  Workers = {w1, w2}
  BatchSize = 2
  ChannelCapacity = 1
  SaveThreshold = 2
  Resilient = TRUE
  WriteErrors = TRUE
  ReadsCanFail = TRUE
  SavesCanFail = TRUE
  CanCancel = TRUE
  CanCrash = TRUE
SPECIFICATION Spec
SYMMETRY WorkerSymmetry
INVARIANTS
  TypeOK
  BookmarkIsSafe
PROPERTIES
  BookmarksAdvance
  CompletionIsEarned
CHECK_DEADLOCK FALSE
