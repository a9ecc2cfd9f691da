\* A price comes back after a CLEAR.
SPECIFICATION Spec
CONSTANTS
  MAX_PRICE_LEVELS = 4
  MAX_ORDER_IDS = 4
  Quotes <- FewQuotes
  Quantities = {1}
  MaxClears = 1
  ReusedPrices = TRUE
  Null = Null
INVARIANT ListsShowTheBook
CHECK_DEADLOCK FALSE
