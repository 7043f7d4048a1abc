CONSTANTS
  Release = {1, 2}
  Cards <- Complete
  Chunks = 2
  BackupName = {"b1", "b2"}
  Silent = FALSE
  MaxFaults = 2
SPECIFICATION AllSpec
INVARIANTS
  InstalledIsWhole
  ComesBack
  MeaningKept
  NestedIsReachable
PROPERTIES
  VersionIsWritten
  EachTurnShrinks
