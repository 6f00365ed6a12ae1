SPECIFICATION CoreSpec
CONSTANTS
  QLen = 2
  NPipes = 6
  MaxErrorCount = 2
  MaxEnumRetry = 1
  MaxReset = 1
  ResetTimeout = 0
  Refusable <- AnyRefusal
  LossyBus = TRUE
  QuickReplug = FALSE
  AppPersists = TRUE
PROPERTY
  OwnAnswer
