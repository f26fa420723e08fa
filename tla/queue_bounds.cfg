SPECIFICATION Spec
CONSTANTS
  Own = 2
  MaxLevel = 3
  MaxFeed = 3
  InSync = TRUE
INVARIANTS
  TypeOK
  QuantilesOrdered
  BoundsHoldAhead
CHECK_DEADLOCK FALSE
