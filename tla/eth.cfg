SPECIFICATION EthFairSpec
CONSTANTS
  RxBufs = 2
  TxBufs = 2
INVARIANT
  EthTypeOK
  RxRing
  NoFrameStranded
  NeverBusy
  TxRing
  SentIntact
  LinkedMac
PROPERTY
  OkIsSent
  RxServed
  TxDrains
  MacFollows
