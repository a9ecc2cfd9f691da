---------------------------- MODULE MCMarketData ----------------------------
(***************************************************************************)
(* A small instance of the market data path: every order starts with two   *)
(* units, so that it can be modified once.                                 *)
(***************************************************************************)
EXTENDS MarketData

MCContents == {[side |-> "BUY", price |-> 1, qty |-> 2, priority |-> 1]}
=============================================================================
