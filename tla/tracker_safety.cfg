SPECIFICATION TrackerSpec
CONSTANTS
  Streams = {s1, s2}
  SaveThreshold = 2
  MaxPosition = 3
  SavesCanFail = TRUE
INVARIANTS
  TrackerTypeOK
  NoUnackedBelowCheckpoint
  SafePrefixCounted
PROPERTY
  ImplementsCheckpointing
