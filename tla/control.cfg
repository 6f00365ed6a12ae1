SPECIFICATION CtlFairSpec
CONSTANTS
  Requests <- AllShapes
  MaxErrorCount = 2
INVARIANT
  CtlTypeOK
PROPERTY
  OkIsComplete
  Answered
  ControlTransferSpec
