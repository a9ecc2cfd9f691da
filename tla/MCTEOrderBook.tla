--------------------------- MODULE MCTEOrderBook ---------------------------
EXTENDS TEOrderBook

(* Three levels of bids, two of asks; at 3 either side may have one.       *)
MCQuotes == {<<"BUY", 1>>, <<"BUY", 2>>, <<"BUY", 3>>, <<"SELL", 3>>, <<"SELL", 4>>}

FewQuotes == {<<"BUY", 1>>, <<"SELL", 2>>}

(* The contents of blocks that were given back, and the levels that stale  *)
(* slots point to, are never read unless ReusedPrices is TRUE.             *)
MCView ==
  <<[o \in DOMAIN orders |-> IF orders_free[o] THEN Null ELSE orders[o]],
    [l \in DOMAIN levels |-> IF levels_free[l] THEN Null ELSE levels[l]],
    [slot \in Slots |-> IF Stale(slot) THEN "stale" ELSE map_price_to_price_level[slot]],
    i_next_order, i_next_level, id_to_order, best, bbo, alive, feed>>
=============================================================================
