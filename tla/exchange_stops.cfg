SPECIFICATION FairSpec
CONSTANTS
  Size = 1
  MaxInventory = 1
  MaxProbes = 1
  MaxFlattens = 2
  MaxTrades = 2
  Faults <- StopRequest
  InTurn = FALSE
  Shortfalls = {}
  Timely = TRUE
  InOrder = TRUE
  ResizeUpdates = FALSE
  RestTimely = TRUE
  PositionFeed = FALSE
  MaxLosses = 0
PROPERTIES
  StopsOrStalls
CHECK_DEADLOCK FALSE
