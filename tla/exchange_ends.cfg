SPECIFICATION FairSpec
CONSTANTS
  Size = 1
  MaxInventory = 1
  MaxProbes = 1
  MaxFlattens = 2
  MaxTrades = 2
  Faults <- NetworkFaults
  InTurn = FALSE
  Shortfalls <- Refused
  Timely = TRUE
  InOrder = TRUE
  ResizeUpdates = FALSE
  RestTimely = TRUE
  PositionFeed = FALSE
  MaxLosses = 1
PROPERTIES
  EndsOrStalls
CHECK_DEADLOCK FALSE
