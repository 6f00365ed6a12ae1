SPECIFICATION BotFairSpec
CONSTANTS
  MaxPackets = 3
  Stalls = TRUE
  Breaks = TRUE
INVARIANT
  BotTypeOK
  Lockstep
PROPERTY
  ScsiCommandSpec
  BotAnswered
