----------------------------- MODULE TEOrderBook -----------------------------
(***************************************************************************)
(* Client::TEOrderBook, the order book of one ticker that the client's     *)
(* trading engine builds from the market updates, pointer by pointer: the  *)
(* blocks of its two pools, the circular doubly linked lists of the orders *)
(* at a price and of the levels of a side, and the maps from order ids and *)
(* prices to them.  A block keeps its contents when it is given back.      *)
(*                                                                         *)
(* `fed' is the book the updates describe, and what they are taken from:   *)
(* a book that the exchange could have, whose orders come either one by    *)
(* one or, after a CLEAR, as a snapshot; both come in the order of their   *)
(* ids.  TRADE updates change nothing here, and priorities are only        *)
(* stored.                                                                 *)
(***************************************************************************)
EXTENDS Integers, SequencesExt, Totals

CONSTANTS
  MAX_PRICE_LEVELS, \* slots of the price map, blocks of the level pool
  MAX_ORDER_IDS,    \* entries of the order map, blocks of the order pool
  Quotes,           \* the <<side, price>> pairs of orders
  Quantities,       \* their quantities
  MaxClears,        \* bound: CLEAR updates
  ReusedPrices,     \* TRUE: prices from before a CLEAR come back after it
  Null

ASSUME TEAssumption ==
  /\ MAX_PRICE_LEVELS \in Nat \ {0}
  /\ MAX_ORDER_IDS \in Nat \ {0}
  /\ Quotes \subseteq {"BUY", "SELL"} \X Nat
  /\ Quantities \subseteq Nat \ {0}
  /\ MaxClears \in Nat
  /\ ReusedPrices \in BOOLEAN
  /\ Null \notin Nat   \* Null is no block

(* No two prices share a slot; see OMEOrderBook for what happens if they   *)
(* do.                                                                     *)
ASSUME SlotAssumption ==
  \A q1, q2 \in Quotes : q1[2] % MAX_PRICE_LEVELS = q2[2] % MAX_PRICE_LEVELS => q1[2] = q2[2]

VARIABLES
  orders,                    \* blocks of order_pool: what was last put there
  levels,                    \* blocks of orders_at_price_pool
  orders_free, i_next_order, \* which are free, and which one comes next
  levels_free, i_next_level,
  id_to_order,               \* order id -> block
  map_price_to_price_level,  \* slot -> block
  best,                      \* bids_by_price and asks_by_price, by side
  bbo,                       \* by side: price and quantity of the best offer
  alive,                     \* no ASSERT has failed, no null pointer was used
  fed,                       \* the orders on the book that the updates describe
  last_oid,                  \* the last id added to it
  n_clears

members == <<orders, levels, orders_free, i_next_order, levels_free, i_next_level,
             id_to_order, map_price_to_price_level, best, alive>>
feed == <<fed, last_oid, n_clears>>
vars == <<members, bbo, feed>>

Sides == {"BUY", "SELL"}
OrderIds == 1 .. MAX_ORDER_IDS - 1
Slots == 0 .. MAX_PRICE_LEVELS - 1

OrderPool == INSTANCE MemPool
  WITH N <- MAX_ORDER_IDS, is_free <- orders_free, i_next_free <- i_next_order

LevelPool == INSTANCE MemPool
  WITH N <- MAX_PRICE_LEVELS, is_free <- levels_free, i_next_free <- i_next_level

MoreAggressive(side, p, q) == IF side = "BUY" THEN p > q ELSE p < q

price_to_index(price) == price % MAX_PRICE_LEVELS

get_level_for_price(price) == map_price_to_price_level[price_to_index(price)]

NoOffer == [price |-> Null, qty |-> Null]   \* Price_INVALID, Qty_INVALID

-----------------------------------------------------------------------------
(* Circular lists: memory maps blocks to records with prev and next.       *)

LinkBefore(memory, new, target) ==
  [memory EXCEPT ![memory[target].prev].next = new,
                 ![new].prev = memory[target].prev,
                 ![new].next = target,
                 ![target].prev = new]

(* Slip: only linked forward.                                            *)
LinkSelfForward(memory, new) == [memory EXCEPT ![new].next = new]

LinkSelf(memory, new) == [memory EXCEPT ![new].prev = new, ![new].next = new]

(* Slip: the next node keeps its link back.                              *)
UnlinkKeepingBack(memory, b) ==
  [memory EXCEPT ![memory[b].prev].next = memory[b].next,
                 ![b].prev = Null, ![b].next = Null]

Unlink(memory, b) ==
  [memory EXCEPT ![memory[b].prev].next = memory[b].next,
                 ![memory[b].next].prev = memory[b].prev,
                 ![b].prev = Null, ![b].next = Null]

(* The blocks of a list, from its first one until it comes round.          *)
Along(memory, first, link) ==
  IF first = Null THEN <<>>
  ELSE LET size == Cardinality(DOMAIN memory)
           at[k \in 0 .. size] ==
             IF k = 0 THEN first
             ELSE IF k > 1 /\ at[k - 1] \in {first, Null} THEN at[k - 1]
             ELSE memory[at[k - 1]][link]
           ends == {k \in 1 .. size : at[k] \in {first, Null}} \cup {size}
       IN [k \in 1 .. Min(ends) |-> at[k - 1]]

Forward(memory, first) == Along(memory, first, "next")

Levels(side) == Forward(levels, best[side])

Queue(l) == Forward(orders, levels[l].order_0)

-----------------------------------------------------------------------------
(* Slip: the new level always goes to the end.                           *)
WalkStopAtEnd(memory, side, price) == best[side]

(* add_price_level walks from the best level to the first one that the new *)
(* level does not come after, or round to the best one; it is linked in    *)
(* before that, and becomes the best level if it beats the best one.       *)
WalkStop(memory, side, price) ==
  LET walk == Forward(memory, best[side])
      stops == {k \in DOMAIN walk : ~ MoreAggressive(side, memory[walk[k]].price, price)}
  IN IF stops = {} THEN best[side] ELSE walk[Min(stops)]

add_price_level(memory, l) ==
  LET side  == memory[l].side
      price == memory[l].price
  IN /\ map_price_to_price_level' =
          [map_price_to_price_level EXCEPT ![price_to_index(price)] = l]
     /\ levels' = IF best[side] = Null THEN LinkSelf(memory, l)
                  ELSE LinkBefore(memory, l, WalkStop(memory, side, price))
     /\ best' = IF best[side] = Null \/ MoreAggressive(side, price, memory[best[side]].price)
                THEN [best EXCEPT ![side] = l] ELSE best

(* The first order at its price opens a level.                             *)
AddToNewLevel(memory, o) ==
  LET l == i_next_level
      taken == [levels_free EXCEPT ![l] = FALSE]
  IN /\ orders' = LinkSelf(memory, o)
     /\ levels_free' = taken
     /\ IF LevelPool!Overrun(taken, l)
        THEN alive' = FALSE /\ UNCHANGED <<levels, i_next_level, map_price_to_price_level, best>>
        ELSE /\ i_next_level' = LevelPool!FirstFreeAfter(taken, l)
             /\ add_price_level(
                  [levels EXCEPT ![l] = [side |-> memory[o].side, price |-> memory[o].price,
                                         order_0 |-> o, prev |-> Null, next |-> Null]], l)
             /\ UNCHANGED alive

(* A later one is linked in behind the last, which is before the first.    *)
AddToLevel(memory, o, l) ==
  LET first == levels[l].order_0
  IN /\ IF memory[first].prev = Null THEN alive' = FALSE /\ orders' = memory
        ELSE orders' = LinkBefore(memory, o, first) /\ UNCHANGED alive
     /\ UNCHANGED <<levels, levels_free, i_next_level, map_price_to_price_level, best>>

add_order(order) ==
  LET o == i_next_order
      memory == [orders EXCEPT ![o] = [id |-> order.oid, side |-> order.side,
                   price |-> order.price, qty |-> order.qty, prev |-> Null, next |-> Null]]
      level == get_level_for_price(order.price)
  IN /\ orders_free' = [orders_free EXCEPT ![o] = FALSE]
     /\ IF OrderPool!Overrun(orders_free', o)
        THEN /\ alive' = FALSE
             /\ UNCHANGED <<orders, levels, i_next_order, levels_free, i_next_level,
                            id_to_order, map_price_to_price_level, best>>
        ELSE /\ i_next_order' = OrderPool!FirstFreeAfter(orders_free', o)
             /\ IF level = Null THEN AddToNewLevel(memory, o) ELSE AddToLevel(memory, o, level)
             /\ id_to_order' = [id_to_order EXCEPT ![order.oid] = o]

-----------------------------------------------------------------------------
(* Slip: the block is not given back.                                    *)
NotFreed(free, b) == free

(* A block that is given back.                                             *)
Freed(free, b) == [free EXCEPT ![b] = TRUE]

(* The best level once one has gone.                                       *)
BestWithout(side, l) ==
  IF levels[l].next = l THEN [best EXCEPT ![side] = Null]
  ELSE IF best[side] = l THEN [best EXCEPT ![side] = levels[l].next] ELSE best

remove_price_level(side, price) ==
  LET l == get_level_for_price(price)
  IN /\ levels' = IF levels[l].next = l THEN levels ELSE Unlink(levels, l)
     /\ best' = BestWithout(side, l)
     /\ map_price_to_price_level' =
          [map_price_to_price_level EXCEPT ![price_to_index(price)] = Null]
     /\ levels_free' = Freed(levels_free, l)
     /\ alive' = ~ levels_free[l]
     /\ UNCHANGED i_next_level

remove_order(o) ==
  LET order == orders[o]
      l == get_level_for_price(order.price)
  IN /\ IF order.prev = o
        THEN remove_price_level(order.side, order.price) /\ UNCHANGED orders
        ELSE /\ levels' = IF levels[l].order_0 = o
                          THEN [levels EXCEPT ![l].order_0 = order.next] ELSE levels
             /\ orders' = Unlink(orders, o)
             /\ UNCHANGED <<levels_free, i_next_level, map_price_to_price_level, best, alive>>
     /\ id_to_order' = [id_to_order EXCEPT ![order.id] = Null]
     /\ orders_free' = Freed(orders_free, o)
     /\ UNCHANGED i_next_order

(* Everything goes but the map from prices to levels.                      *)
clear_entire_book ==
  LET listed(side) == ToSet(Levels(side))
  IN /\ orders_free' = [o \in DOMAIN orders |->
                          orders_free[o] \/ \E oid \in OrderIds : id_to_order[oid] = o]
     /\ id_to_order' = [oid \in OrderIds |-> Null]
     /\ levels_free' = [l \in DOMAIN levels |->
                          levels_free[l] \/ \E side \in Sides : l \in listed(side)]
     /\ best' = [side \in Sides |-> Null]
     /\ UNCHANGED <<orders, levels, i_next_order, i_next_level, map_price_to_price_level, alive>>

-----------------------------------------------------------------------------
(* Slip: only the first order is counted.                                *)
TopOfBookHead(side) ==
  IF best'[side] = Null THEN NoOffer
  ELSE [price |-> levels'[best'[side]].price, qty |-> orders'[levels'[best'[side]].order_0].qty]

(* update_bbo: the price of the best level and the quantity of its orders. *)
TopOfBook(side) ==
  IF best'[side] = Null THEN NoOffer
  ELSE LET at_best == Forward(orders', levels'[best'[side]].order_0)
       IN [price |-> levels'[best'[side]].price,
           qty |-> Total([i \in DOMAIN at_best |-> orders'[at_best[i]].qty])]

(* Whether an update changes the best offer of a side is decided before    *)
(* the update is applied.                                                  *)
IsUpdated(side, update) ==
  /\ best[side] # Null
  /\ update.side = side
  /\ ~ MoreAggressive(side, levels[best[side]].price, update.price)

update_bbo(update) ==
  bbo' = [side \in Sides |->
            IF alive' /\ IsUpdated(side, update) THEN TopOfBook(side) ELSE bbo[side]]

-----------------------------------------------------------------------------
Init ==
  /\ orders = [o \in OrderPool!Blocks |-> Null]
  /\ levels = [l \in LevelPool!Blocks |-> Null]
  /\ orders_free = [o \in OrderPool!Blocks |-> TRUE]
  /\ levels_free = [l \in LevelPool!Blocks |-> TRUE]
  /\ i_next_order = 0
  /\ i_next_level = 0
  /\ id_to_order = [oid \in OrderIds |-> Null]
  /\ map_price_to_price_level = [slot \in Slots |-> Null]
  /\ best = [side \in Sides |-> Null]
  /\ bbo = [side \in Sides |-> NoOffer]
  /\ alive = TRUE
  /\ fed = {}
  /\ last_oid = 0
  /\ n_clears = 0

(* What the exchange may have on its book: nothing crossed, and no more    *)
(* levels than its own pool, as big as this one, has room for.             *)
CanRest(book) ==
  /\ \A o1, o2 \in book : o1.side = "BUY" /\ o2.side = "SELL" => o1.price < o2.price
  /\ Cardinality({o.price : o \in book}) < MAX_PRICE_LEVELS

(* A slot that a CLEAR left behind: its level is not on the book.          *)
Stale(slot) ==
  /\ map_price_to_price_level[slot] # Null
  /\ \A o \in fed : price_to_index(o.price) # slot

(* on_market_update, by the type of the update.  Order ids matter only by  *)
(* their order, so those that the book never sees are left out.            *)
Add(order) ==
  /\ alive
  /\ order.oid = last_oid + 1
  /\ CanRest(fed \cup {order})
  /\ ReusedPrices \/ ~ Stale(price_to_index(order.price))
  /\ add_order(order)
  /\ update_bbo(order)
  /\ fed' = fed \cup {order}
  /\ last_oid' = order.oid
  /\ UNCHANGED n_clears

Modify(order, qty) ==
  /\ alive
  /\ qty < order.qty
  /\ orders' = [orders EXCEPT ![id_to_order[order.oid]].qty = qty]
  /\ UNCHANGED <<levels, orders_free, i_next_order, levels_free, i_next_level, id_to_order,
                 map_price_to_price_level, best, alive>>
  /\ update_bbo(order)
  /\ fed' = (fed \ {order}) \cup {[order EXCEPT !.qty = qty]}
  /\ UNCHANGED <<last_oid, n_clears>>

Cancel(order) ==
  /\ alive
  /\ remove_order(id_to_order[order.oid])
  /\ update_bbo(order)
  /\ fed' = fed \ {order}
  /\ UNCHANGED <<last_oid, n_clears>>

(* A CLEAR has no side, so it leaves the best offers as they are.          *)
Clear ==
  /\ alive
  /\ n_clears < MaxClears
  /\ clear_entire_book
  /\ UNCHANGED bbo
  /\ fed' = {}
  /\ last_oid' = 0
  /\ n_clears' = n_clears + 1

Next ==
  \/ \E oid \in OrderIds, quote \in Quotes, qty \in Quantities :
       Add([oid |-> oid, side |-> quote[1], price |-> quote[2], qty |-> qty])
  \/ \E order \in fed : \E qty \in Quantities : Modify(order, qty)
  \/ \E order \in fed : Cancel(order)
  \/ Clear

Spec == Init /\ [][Next]_vars

-----------------------------------------------------------------------------
(* Pointers point into the pools, and those of blocks in use are not null. *)
TypeOK ==
  /\ alive => \A o \in DOMAIN orders : ~ orders_free[o] =>
       {orders[o].prev, orders[o].next} \subseteq DOMAIN orders
  /\ alive => \A l \in DOMAIN levels : ~ levels_free[l] =>
       /\ {levels[l].prev, levels[l].next} \subseteq DOMAIN levels
       /\ levels[l].order_0 \in DOMAIN orders
  /\ best \in [Sides -> DOMAIN levels \cup {Null}]
  /\ id_to_order \in [OrderIds -> DOMAIN orders \cup {Null}]
  /\ map_price_to_price_level \in [Slots -> DOMAIN levels \cup {Null}]
  /\ i_next_level \in DOMAIN levels /\ i_next_order \in DOMAIN orders
  /\ alive \in BOOLEAN

Shown(o) == [oid |-> orders[o].id, side |-> orders[o].side, price |-> orders[o].price,
             qty |-> orders[o].qty]

Ahead(o1, o2) ==
  \/ MoreAggressive(o1.side, o1.price, o2.price)
  \/ o1.price = o2.price /\ o1.oid < o2.oid

(* Who walks the lists of the book from bids_by_price or asks_by_price     *)
(* meets every order of the fed book once, in price-time priority, and     *)
(* nothing else, whatever was added, removed and cleared before.           *)
ListsShowTheBook ==
  alive => \A side \in Sides :
    LET walk == [i \in DOMAIN Levels(side) |-> Queue(Levels(side)[i])]
        met == {p \in (DOMAIN walk) \X (1 .. MAX_ORDER_IDS) : p[2] \in DOMAIN walk[p[1]]}
        at(p) == Shown(walk[p[1]][p[2]])
    IN /\ {at(p) : p \in met} = {o \in fed : o.side = side}
       /\ \A p, q \in met :
            p[1] < q[1] \/ (p[1] = q[1] /\ p[2] < q[2]) => Ahead(at(p), at(q))

(* The lists are the same backwards: prev undoes next.                     *)
ListsGoBothWays ==
  alive => \A side \in Sides :
    /\ best[side] # Null =>
         Reverse(Along(levels, best[side], "prev")) = Tail(Levels(side)) \o <<best[side]>>
    /\ \A l \in ToSet(Levels(side)) :
         Reverse(Along(orders, levels[l].order_0, "prev")) =
           Tail(Queue(l)) \o <<levels[l].order_0>>

(* No block leaks and no list or map leads to a block that was given back: *)
(* the blocks in use are those of the orders and levels on the book.       *)
BlocksAccountedFor ==
  alive =>
    /\ OrderPool!Used = {id_to_order[o.oid] : o \in fed}
    /\ \A oid \in OrderIds : id_to_order[oid] = Null \/ \E o \in fed : o.oid = oid
    /\ LevelPool!Used = UNION {ToSet(Levels(side)) : side \in Sides}

(* The client has room for every book that the exchange has room for.      *)
HoldsWhatTheExchangeHolds == alive

(* The best offer of a side of the fed book.                               *)
BestOffer(side) ==
  LET on_side == {o \in fed : o.side = side}
      top == {o \in on_side : \A other \in on_side : ~ MoreAggressive(side, other.price, o.price)}
      amount(oid) == IF \E o \in top : o.oid = oid THEN (CHOOSE o \in top : o.oid = oid).qty ELSE 0
  IN IF on_side = {} THEN NoOffer
     ELSE [price |-> (CHOOSE o \in top : TRUE).price,
           qty |-> Total([oid \in OrderIds |-> amount(oid)])]

(* The best offers that strategies trade on keep up with the book: an      *)
(* update of a side that has orders leaves the best offer right if it was  *)
(* right before, or if the update changed what it should be.  (The first   *)
(* order of an empty side, and a CLEAR, change it without being noticed.)  *)
BBOStaysRight ==
  [][\A side \in Sides :
       LET before == BestOffer(side)
       IN alive' /\ n_clears' = n_clears /\ before # NoOffer
            /\ (bbo[side] = before \/ BestOffer(side)' # before)
          => bbo'[side] = BestOffer(side)']_vars
=============================================================================
