SPECIFICATION ExSpec
CONSTANTS
  Size = 2
  MaxInventory = 4
  MaxProbes = 1
  MaxFlattens = 3
  MaxTrades = 2
  Faults = {}
  InTurn = TRUE
  Shortfalls <- InPart
  Timely = TRUE
  InOrder = TRUE
  ResizeUpdates = FALSE
  RestTimely = TRUE
  PositionFeed = FALSE
  MaxLosses = 1
INVARIANTS
  FinishedIsClean
CHECK_DEADLOCK FALSE
