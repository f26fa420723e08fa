SPECIFICATION Spec
CONSTANTS
  Quotes <- MCQuotes
  Venues = {binance}
  Freshness = 1
  DefaultFreshness = 2
  MaxTime = 3
  MaxActions = 2
  MaxWall = 2
  Horizons <- MCHorizons
  MaxFills = 2
  Digits = 2
  MaxDigits = 2
  Levels = {0, 2}
  ProbeNotional = 150
  MaxNotional = 200
  Slippage = 100
INVARIANTS TypeOK FreshQuotesAreUsed ActionsAreNumberedOnce PricesKeepTheirSide MarkoutsAreComplete
