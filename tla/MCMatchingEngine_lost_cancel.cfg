\* Ids that wrap around the id table.
CONSTANTS
  INT_LIMIT = 4
  U64_LIMIT = 32
  NumOfLevels = 2
  CHUNK = 2
  POOL_SIZE = 2
  StartOfPrice = 1
  Volumes <- SmallVolumes
  Prices <- BookPrices
  OrderIds <- NamedIds
  MaxOrders = 3
SPECIFICATION Spec
PROPERTIES
  CancelRemovesOrder
