\* Volumes of every kind, a main thread that never stops matching.
CONSTANTS
  INT_LIMIT = 2
  U64_LIMIT = 8
  NumOfLevels = 1
  CHUNK = 2
  POOL_SIZE = 3
  StartOfPrice = 1
  Volumes <- AllVolumes
  Prices <- BookPrices
  OrderIds <- GivenIds
  MaxOrders = 3
SPECIFICATION FairSpec
PROPERTIES
  TradesRemoveAnOrder
  UncrossesAtRest
