CONSTANTS
  Docs = {d1, d2, d3}
  MaxOps = 3
  Groupings = {TRUE, FALSE}
  ForceOrdered = FALSE
  UpsertMode = FALSE
  WriteErrors = TRUE
  TransformErrors = TRUE
  UniqueIndexes = TRUE
  CanCancel = TRUE
SPECIFICATION Spec
SYMMETRY DocSymmetry
INVARIANTS
  NoSilentLoss
  TypeOK
  SuccessIsReal
  EveryOperationMarked
PROPERTIES
  ResolvedIsCurrent
CHECK_DEADLOCK FALSE
