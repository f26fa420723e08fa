SPECIFICATION ExSpec
CONSTANTS
  Size = 2
  MaxInventory = 4
  MaxProbes = 2
  MaxFlattens = 4
  MaxTrades = 2
  Faults = {}
  InTurn = FALSE
  Shortfalls <- Refused
  Timely = TRUE
  InOrder = TRUE
  ResizeUpdates = FALSE
  RestTimely = FALSE
  PositionFeed = TRUE
  MaxLosses = 1
INVARIANTS
  FinishedIsClean
PROPERTIES
  MeetsContract
CHECK_DEADLOCK FALSE
