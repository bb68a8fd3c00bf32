\* The stepwise engine against the atomic one and LimitOrderBook, with ids that share table entries.
CONSTANTS
  INT_LIMIT = 4
  U64_LIMIT = 32
  NumOfLevels = 2
  CHUNK = 2
  POOL_SIZE = 2
  StartOfPrice = 1
  Volumes <- SmallVolumes
  Prices <- PricesAround
  OrderIds <- NamedIds
  MaxOrders = 5
SPECIFICATION AtomicitySpec
PROPERTIES
  HandlersAreAtomic
  StepsKeepPromise
  StepsReturnSlots
