\* Users who leave at any time, and requests that arrive in parts.
CONSTANTS
  INT_LIMIT = 8
  U64_LIMIT = 32
  NumOfLevels = 1
  CHUNK = 2
  POOL_SIZE = 2
  StartOfPrice = 2
  WEIGHTS <- PowersOfTwo
  Volumes <- OneUnit
  Prices <- TypedPrices
  OrderIds <- NamedIds
  MaxOrders = 2
  u1 = u1
  u2 = u2
  Users <- TwoUsers
SPECIFICATION FairSessionsSpec
INVARIANTS
  OrdersAsAsked
  OwnersKnowTheirOrders
PROPERTIES
  SessionsEnd
  TerminalsAreAnswered
