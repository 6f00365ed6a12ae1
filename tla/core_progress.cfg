SPECIFICATION CoreFairSpec
CONSTANTS
  QLen = 2
  NPipes = 6
  MaxErrorCount = 2
  MaxEnumRetry = 1
  MaxReset = 1
  ResetTimeout = 0
  Refusable <- HandledRefusal
  LossyBus = TRUE
  QuickReplug = FALSE
  AppPersists = FALSE
INVARIANT
  PipeOwnership
PROPERTY
  DisconnectHandled
  EnumCompleteIfQuiet
  SettlesIfQuiet
  OwnPipesUnlessGivenUp
  SessionSpec
