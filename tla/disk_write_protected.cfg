SPECIFICATION DiskFairSpec
CONSTANTS
  MaxSupportedLun = 1
  Answers = {0}
PROPERTY
  WriteProtectReported
