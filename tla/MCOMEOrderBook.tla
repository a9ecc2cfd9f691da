--------------------------- MODULE MCOMEOrderBook ---------------------------
(***************************************************************************)
(* A small instance of the order book: two participants with two order ids *)
(* each and one id beyond the map, bids and asks that can rest apart, meet *)
(* and cross, quantities that give exact, partial and multiple fills.      *)
(***************************************************************************)
EXTENDS OMEOrderBookFeed

LOCAL INSTANCE TLC

CONSTANTS i1, i2, beyond

MCOrderIds == {i1, i2}

MCRequestIds == {i1, i2, beyond}

(* Four prices, each with a slot of its own; one level more than the pool  *)
(* can serve.                                                              *)
MCQuotes == {<<"BUY", p>> : p \in {1, 2, 3}} \cup {<<"SELL", p>> : p \in {2, 3, 4}}

(* Asks at 1 and 5, which share a slot, and a bid at 6.                    *)
CollidingQuotes == {<<"SELL", 1>>, <<"SELL", 5>>, <<"BUY", 6>>}

(* What a step sends is checked as it is sent and never read again.        *)
MCView == <<book, next_market_oid, incoming, alive, snapshot, reported>>

MCSymmetry == Permutations(Clients) \cup Permutations(MCOrderIds)
=============================================================================
