\* Levels in two words, ids that wrap around the id table, a pool at its limit.
CONSTANTS
  INT_LIMIT = 4
  U64_LIMIT = 32
  NumOfLevels = 3
  CHUNK = 2
  POOL_SIZE = 3
  StartOfPrice = 1
  Volumes <- SmallVolumes
  Prices <- BoundaryPrices
  OrderIds <- NamedIds
  MaxOrders = 4
SPECIFICATION HistorySpec
INVARIANTS
  TypeOK
  BitmapMatchesLevels
  SlotsHaveOneOwner
  QueuesInArrivalOrder
  MappingLeadsToOrder
PROPERTIES
  PriceTimePriority
  MatchesIffCrossed
  FillsAreExact
  CancelFindsOrder
