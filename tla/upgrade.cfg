SPECIFICATION UpgFairSpec
CONSTANTS
  Chunks = 2
  InSector6 = 1
  BitValues = {1, 2}
  Images <- TwoImages
  FlagErased = TRUE
  Faults = 3
INVARIANTS UpgTypeOK OnlySummedRuns CompleteRuns FirstTime
PROPERTIES EndsInApp
CHECK_DEADLOCK FALSE
