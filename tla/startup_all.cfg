CONSTANTS
  MaxPosition = 2
  EventTime <- Seconds
  PartitionOf <- Alternating
  Starts <- AllStarts
  Leftovers <- OldFiles
  HistoryCanExpire = TRUE
  DeletesCanFail = FALSE
SPECIFICATION Spec
INVARIANTS
  TypeOK
  StreamsCoverAll
  RestartResumes
