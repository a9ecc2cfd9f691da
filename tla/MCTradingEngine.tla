--------------------------- MODULE MCTradingEngine ---------------------------
(***************************************************************************)
(* A small instance of the trading engine: offers whose quantities move    *)
(* one quote or the other, a lower market, and a book without offers.      *)
(***************************************************************************)
EXTENDS TradingEngine

Offer(bid, ask, bid_qty, ask_qty) ==
  [bid |-> bid, ask |-> ask, bid_qty |-> bid_qty, ask_qty |-> ask_qty]

MCBestOffers == {Offer(4, 6, 1, 1), Offer(4, 6, 3, 1), Offer(2, 4, 1, 3),
                 Offer(None, 6, None, 1)}

MCLossMax == -1
=============================================================================
