\* Prices on both sides of the book's.
CONSTANTS
  INT_LIMIT = 4
  U64_LIMIT = 32
  NumOfLevels = 2
  CHUNK = 2
  POOL_SIZE = 2
  StartOfPrice = 1
  Volumes <- SmallVolumes
  Prices <- PricesAround
  OrderIds <- GivenIds
  MaxOrders = 3
SPECIFICATION Spec
INVARIANTS
  NoSlotIsLost
