\* An order can be gone from the book before it is cancelled.
CONSTANTS
  INT_LIMIT = 4
  U64_LIMIT = 32
  NumOfLevels = 1
  CHUNK = 2
  POOL_SIZE = 2
  StartOfPrice = 1
  Volumes <- SmallVolumes
  Prices <- BookPrices
  OrderIds <- NamedIds
  MaxOrders = 2
  t1 = t1
  t2 = t2
  Traders <- TwoTraders
SPECIFICATION EntrySpec
PROPERTIES
  CancelConfirmsRemoval
