\* A volume that does not fit an int.
CONSTANTS
  INT_LIMIT = 4
  U64_LIMIT = 32
  NumOfLevels = 2
  CHUNK = 2
  POOL_SIZE = 2
  StartOfPrice = 1
  Volumes <- VolumesBeyondInt
  Prices <- BookPrices
  OrderIds <- GivenIds
  MaxOrders = 2
SPECIFICATION Spec
PROPERTIES
  TradeIsSmallerVolume
