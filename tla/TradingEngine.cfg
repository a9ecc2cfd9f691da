\* manage_order on the managed orders themselves, fills counted.
\* After MaxOrders orders the client has no more to do.
SPECIFICATION Spec
CONSTANTS
  BestOffers <- MCBestOffers
  TradeSize = 2
  MaxOrders = 3
  SizeMax = 2
  PositionMax = 3
  LossMax <- MCLossMax
  Threshold = 1
  Direct = TRUE
  Routed = TRUE
  None = None
INVARIANTS
  OneOrderPerSide
  ExposureWithinLimit
  PnlAddsUp
  SettledAgrees
PROPERTY EveryRequestIsAnswered
