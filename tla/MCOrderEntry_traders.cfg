\* As many slots as traders, other clients, and ids that wrap around the id table.
CONSTANTS
  INT_LIMIT = 4
  U64_LIMIT = 32
  NumOfLevels = 1
  CHUNK = 2
  POOL_SIZE = 2
  StartOfPrice = 1
  Volumes <- OneUnit
  Prices <- PricesAround
  OrderIds <- NamedIds
  MaxOrders = 3
  t1 = t1
  t2 = t2
  Traders <- TwoTraders
SPECIFICATION FairEntrySpec
INVARIANTS
  EntryTypeOK
  NoOrphanOrders
  IdsAreTheirOwn
PROPERTIES
  TradersFindRoom
  TradersAreAnswered
CHECK_DEADLOCK FALSE
