SPECIFICATION BotFairSpec
CONSTANTS
  MaxPackets = 2
  Stalls = TRUE
  Breaks = FALSE
PROPERTY
  StatusAfterStall
