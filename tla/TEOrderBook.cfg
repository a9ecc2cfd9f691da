\* One CLEAR, after which prices of the book before it do not come back.
\* A book that has had all its ids and no CLEAR left may stop.
SPECIFICATION Spec
CONSTANTS
  MAX_PRICE_LEVELS = 4
  MAX_ORDER_IDS = 4
  Quotes <- MCQuotes
  Quantities = {1, 2}
  MaxClears = 1
  ReusedPrices = FALSE
  Null = Null
INVARIANTS
  TypeOK
  ListsShowTheBook
  ListsGoBothWays
  BlocksAccountedFor
  HoldsWhatTheExchangeHolds
VIEW MCView
PROPERTY BBOStaysRight
CHECK_DEADLOCK FALSE
