\* The order book, its price-time priority and what others make of its messages.
\* The process may have been ended by a failed check: CHECK_DEADLOCK FALSE.
SPECIFICATION FeedSpec
CONSTANTS
  Clients = {c1, c2}
  i1 = i1
  i2 = i2
  beyond = beyond
  OrderIds <- MCOrderIds
  RequestIds <- MCRequestIds
  Quotes <- MCQuotes
  Quantities = {1, 2}
  MAX_PRICE_LEVELS = 4
  MaxOrders = 4
  UniqueIds = TRUE
  None = None
INVARIANTS
  TypeOK
  LevelsWellFormed
  ClientMapExact
  PriorityFollowsArrival
  SnapshotInSync
  ReportedIsResting
PROPERTIES
  PriceTimePriority
  UpdatesAccepted
  ResponsesAddUp
VIEW MCView
SYMMETRY MCSymmetry
CHECK_DEADLOCK FALSE
