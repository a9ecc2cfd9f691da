\* Two prices of one side in one slot of the hash map.
SPECIFICATION FeedSpec
CONSTANTS
  Clients = {c1}
  i1 = i1
  i2 = i2
  beyond = beyond
  OrderIds <- MCRequestIds
  RequestIds <- MCRequestIds
  Quotes <- CollidingQuotes
  Quantities = {1}
  MAX_PRICE_LEVELS = 4
  MaxOrders = 3
  UniqueIds = TRUE
  None = None
PROPERTY BestPriceFirst
CHECK_DEADLOCK FALSE
