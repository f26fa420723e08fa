SPECIFICATION Spec
CONSTANTS
  Size = 2
  MaxInventory = 2
  MaxProbes = 2
  MaxFlattens = 0
  MaxTrades = 1
  Faults = {}
INVARIANTS
  TypeOK
  PhasesMatchProgress
  OnlyOwnMessagesBind
  WaitsCanTimeOut
PROPERTIES
  PlacesOnlyWhenIdle
  LateResponseNeverRegresses
  RecancelsOnlySeenOrders
CHECK_DEADLOCK FALSE
