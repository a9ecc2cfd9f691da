\* manage_orders, as the market maker calls it, in TradingEngine::run.
SPECIFICATION Spec
CONSTANTS
  BestOffers <- MCBestOffers
  TradeSize = 1
  MaxOrders = 3
  SizeMax = 2
  PositionMax = 3
  LossMax <- MCLossMax
  Threshold = 1
  Direct = FALSE
  Routed = FALSE
  None = None
INVARIANT OneOrderPerSide
