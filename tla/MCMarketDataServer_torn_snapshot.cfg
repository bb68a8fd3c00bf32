\* A book that changes while the market data thread reads it.
CONSTANTS
  INT_LIMIT = 4
  U64_LIMIT = 32
  NumOfLevels = 2
  CHUNK = 1
  POOL_SIZE = 2
  StartOfPrice = 1
  Volumes <- OneUnit
  Prices <- BookPrices
  OrderIds <- NamedIds
  MaxOrders = 2
  MaxFailures = 1
SPECIFICATION ServerSpec
INVARIANTS
  BestPricesHaveVolume
CHECK_DEADLOCK FALSE
