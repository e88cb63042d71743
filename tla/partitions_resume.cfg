CONSTANTS
  Collections <- CollectionsByRange
  Totals = {4, 8}
  MinDocsPerPartition = 2
  MaxReadPartitions = {3}
  MayBeSequential = TRUE
  WorkersPerPartition = 1
  MaxInFlight = 2
  MaxFailures = 1
SPECIFICATION FairSpec
INVARIANTS
  TypeOK
  NothingSkipped
  FinishedMeansDone
  PartitionsAreDisjoint
PROPERTIES
  BackfillCompletes
