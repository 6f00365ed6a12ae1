SPECIFICATION CoreSpec
CONSTANTS
  QLen = 3
  NPipes = 11
  MaxErrorCount = 2
  MaxEnumRetry = 3
  MaxReset = 3
  ResetTimeout = 1
  Refusable <- AnyRefusal
  LossyBus = TRUE
  QuickReplug = TRUE
  AppPersists = FALSE
INVARIANT
  CoreTypeOK
  NoLostWakeup
  OwnRequest
PROPERTY
  UserSpec
