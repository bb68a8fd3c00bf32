\* Words of one level each; a process whose socket fails twice has ended.
CONSTANTS
  INT_LIMIT = 4
  U64_LIMIT = 32
  NumOfLevels = 2
  CHUNK = 1
  POOL_SIZE = 2
  StartOfPrice = 1
  Volumes <- OneUnit
  Prices <- BookPrices
  OrderIds <- NamedIds
  MaxOrders = 2
  MaxFailures = 1
SPECIFICATION FairServerSpec
INVARIANTS
  ServerTypeOK
PROPERTIES
  FeedSettles
  TradesAreAnnounced
CHECK_DEADLOCK FALSE
