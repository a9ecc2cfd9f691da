----------------------------- MODULE MarketMaker -----------------------------
(***************************************************************************)
(* Client::FeatureEngine's market price and the quotes Client::MarketMaker *)
(* derives from it and the best bid and offer of the book.                 *)
(***************************************************************************)
EXTENDS Ratios

CONSTANT Threshold   \* threshold of the ticker's TradeEngineConf

(* The average of bid and offer, each weighted with the other's quantity.  *)
market_price(bbo) ==
  Ratio(bbo.bid * bbo.ask_qty + bbo.ask * bbo.bid_qty, bbo.bid_qty + bbo.ask_qty)

(* A quote stays one tick behind the best one when that is within the      *)
(* threshold of the market price.                                          *)
Quotes(bbo) ==
  LET price == market_price(bbo)
  IN [bid |-> IF AtLeast(Minus(price, Whole(bbo.bid)), Whole(Threshold))
              THEN bbo.bid ELSE bbo.bid - 1,
      ask |-> IF AtLeast(Minus(Whole(bbo.ask), price), Whole(Threshold))
              THEN bbo.ask ELSE bbo.ask + 1]
=============================================================================
