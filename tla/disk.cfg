SPECIFICATION DiskFairSpec
CONSTANTS
  MaxSupportedLun = 2
  Answers = {1, 2}
INVARIANT
  DiskTypeOK
  OwnCommand
  CapacityKnown
  ErrorRecorded
PROPERTY
  TransferEnds
  ExaminationEnds
