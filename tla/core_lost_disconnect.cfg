SPECIFICATION CoreFairSpec
CONSTANTS
  QLen = 2
  NPipes = 6
  MaxErrorCount = 1
  MaxEnumRetry = 1
  MaxReset = 1
  ResetTimeout = 0
  Refusable <- HandledRefusal
  LossyBus = FALSE
  QuickReplug = TRUE
  AppPersists = FALSE
PROPERTY
  Settles
