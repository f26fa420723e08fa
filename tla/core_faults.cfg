SPECIFICATION Spec
CONSTANTS
  Size = 1
  MaxInventory = 1
  MaxProbes = 1
  MaxFlattens = 0
  MaxTrades = 1
  Faults <- OutsideFaults
INVARIANTS
  GateCountsOneRequest
PROPERTIES
  PlacesAreRecorded
  AcknowledgesWhenIdle
CHECK_DEADLOCK FALSE
