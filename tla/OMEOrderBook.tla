---------------------------- MODULE OMEOrderBook ----------------------------
(***************************************************************************)
(* Exchange::OMEOrderBook, the limit order book of one ticker, with the    *)
(* types of ome_order.h and the way the matching engine thread drives it   *)
(* (order_matching_engine.cpp): one request at a time is taken through     *)
(* add() or cancel().                                                      *)
(*                                                                         *)
(* Data structures.  A price level lives in the slot that its price hashes *)
(* to.  The circular lists of the code are sequences here: a level's       *)
(* orders from order_0 on, and a side's levels from bids_by_price or       *)
(* asks_by_price on; TEOrderBook has the same lists pointer by pointer.    *)
(* An order is named by its market order id: the order pool hands out its  *)
(* blocks in that order and has one for each id.                           *)
(*                                                                         *)
(* add() is split where it sends something: NewOrder up to ACCEPTED, one   *)
(* Match for each pass of find_match's loop, then Rest or Filled.  The     *)
(* book is busy in between, so nothing else happens to it, but the other   *)
(* end of its queues may run.                                              *)
(***************************************************************************)
EXTENDS Integers, SequencesExt, Participants

CONSTANTS
  OrderIds,         \* order ids below MAX_ORDER_IDS
  MAX_PRICE_LEVELS, \* slots of the hash map, blocks of the level pool
  UniqueIds         \* TRUE: a client never reuses the id of a resting order

(* An order on the book.                                                   *)
BookOrder == [client: Clients, coid: OrderIds, side: Sides, price: Prices, qty: Nat \ {0},
              priority: Nat \ {0}]

(* What add() is at work on.                                               *)
IncomingOrder == [oid: 1 .. MaxOrders, client: Clients, coid: RequestIds, side: Sides,
                  price: Prices, qty: Nat]

(* What a slot of the hash map may hold.                                   *)
PriceLevel == [side: Sides, price: Prices, orders: Seq(1 .. MaxOrders)]

ASSUME OMEAssumption ==
  /\ OrderIds \subseteq RequestIds
  /\ MAX_PRICE_LEVELS \in Nat \ {0}
  /\ UniqueIds \in BOOLEAN
  /\ None \notin Nat
  /\ None \notin PriceLevel
  /\ None \notin IncomingOrder

(* No two prices that are ever quoted hash to the same slot.               *)
DistinctSlots ==
  \A p, q \in Prices : p % MAX_PRICE_LEVELS = q % MAX_PRICE_LEVELS => p = q

(* Where prices do share slots, a slot's prices are quoted on one side     *)
(* only.  (Otherwise the code appends a bid to a level of asks and later   *)
(* empties the wrong side; that is undefined behaviour and not modelled.)  *)
ASSUME SlotSideAssumption ==
  \/ DistinctSlots
  \/ \A q1, q2 \in Quotes :
       q1[2] % MAX_PRICE_LEVELS = q2[2] % MAX_PRICE_LEVELS => q1[1] = q2[1]

VARIABLES
  orders,                    \* the orders on the book, by market order id
  map_price_to_price_level,  \* slot -> price level or None
  levels_by_price,           \* side -> its slots, most aggressive first
  map_client_id_to_order,    \* client -> order id -> market order id or None
  next_market_oid,
  incoming,                  \* the order add() is at work on, or None
  alive,                     \* the process has not been ended by a failed check
  responses,                 \* what the last step sent to the clients,
  updates                    \* and to the market

vars == <<orders, map_price_to_price_level, levels_by_price, map_client_id_to_order,
          next_market_oid, incoming, alive, responses, updates>>

book == <<orders, map_price_to_price_level, levels_by_price, map_client_id_to_order>>

Slots == 0 .. MAX_PRICE_LEVELS - 1

Opposite(side) == IF side = "BUY" THEN "SELL" ELSE "BUY"

(* Price p is more aggressive than price q.                                *)
MoreAggressive(side, p, q) == IF side = "BUY" THEN p > q ELSE p < q

-----------------------------------------------------------------------------
(* Helpers of the class.                                                   *)

price_to_index(price) == price % MAX_PRICE_LEVELS

get_level_for_price(price) == map_price_to_price_level[price_to_index(price)]

(* Slip: priorities begin at zero.                                       *)
get_next_priority_from_zero(price) ==
  LET level == get_level_for_price(price)
  IN IF level = None THEN 0 ELSE orders[Last(level.orders)].priority + 1

(* Slip: counted from the level's first order.                           *)
get_next_priority_of_first(price) ==
  LET level == get_level_for_price(price)
  IN IF level = None THEN 1 ELSE orders[Head(level.orders)].priority + 1

get_next_priority(price) ==
  LET level == get_level_for_price(price)
  IN IF level = None THEN 1 ELSE orders[Last(level.orders)].priority + 1

(* Slip: a new level always becomes the best one.                        *)
InsertionPointAtHead(side, price) == 1

(* The walk of add_price_level from the most aggressive level of a side to *)
(* the first one that the new level does not come after.                   *)
InsertionPoint(side, price) ==
  LET slots == levels_by_price[side]
      notAfter == {i \in DOMAIN slots :
                     ~ MoreAggressive(side, map_price_to_price_level[slots[i]].price, price)}
  IN IF notAfter = {} THEN Len(slots) + 1
     ELSE CHOOSE i \in notAfter : \A j \in notAfter : i <= j

(* The order at the head of the most aggressive level against which an     *)
(* incoming order of a side could be matched.                              *)
HasOpposite == levels_by_price[Opposite(incoming.side)] # <<>>

(* Slip: matching starts from the worst level.                           *)
LastOpposite ==
  Last(map_price_to_price_level[Head(levels_by_price[Opposite(incoming.side)])].orders)

BestOpposite ==
  Head(map_price_to_price_level[Head(levels_by_price[Opposite(incoming.side)])].orders)

(* The condition of find_match's loop, with the break it contains.         *)
CanMatch ==
  /\ incoming.qty > 0
  /\ HasOpposite
  /\ ~ MoreAggressive(incoming.side, orders[BestOpposite].price, incoming.price)

-----------------------------------------------------------------------------
(* Changes to the book's data structures.                                  *)

add_order_to_book(oid, order) ==
  LET slot  == price_to_index(order.price)
      level == map_price_to_price_level[slot]
  IN /\ orders' = [o \in DOMAIN orders \cup {oid} |-> IF o = oid THEN order ELSE orders[o]]
     /\ map_client_id_to_order' =
          [map_client_id_to_order EXCEPT ![order.client][order.coid] = oid]
     /\ IF level = None
        THEN /\ map_price_to_price_level' =
                  [map_price_to_price_level EXCEPT ![slot] =
                     [side |-> order.side, price |-> order.price, orders |-> <<oid>>]]
             /\ levels_by_price' =
                  [levels_by_price EXCEPT ![order.side] =
                     InsertAt(@, InsertionPoint(order.side, order.price), slot)]
        ELSE /\ map_price_to_price_level' =
                  [map_price_to_price_level EXCEPT ![slot].orders = Append(@, oid)]
             /\ UNCHANGED levels_by_price

(* Slip: the client's entry is not cleared.                              *)
remove_order_keeping_client_map(oid) ==
  LET order == orders[oid]
      slot  == price_to_index(order.price)
  IN /\ orders' = [o \in DOMAIN orders \ {oid} |-> orders[o]]
     /\ UNCHANGED map_client_id_to_order
     /\ IF Len(map_price_to_price_level[slot].orders) = 1
        THEN /\ map_price_to_price_level' = [map_price_to_price_level EXCEPT ![slot] = None]
             /\ levels_by_price' = [levels_by_price EXCEPT ![order.side] = RemoveFirst(@, slot)]
        ELSE /\ map_price_to_price_level' =
                  [map_price_to_price_level EXCEPT ![slot].orders = RemoveFirst(@, oid)]
             /\ UNCHANGED levels_by_price

remove_order_from_book(oid) ==
  LET order == orders[oid]
      slot  == price_to_index(order.price)
  IN /\ orders' = [o \in DOMAIN orders \ {oid} |-> orders[o]]
     /\ map_client_id_to_order' =
          [map_client_id_to_order EXCEPT ![order.client][order.coid] = None]
     /\ IF Len(map_price_to_price_level[slot].orders) = 1
        THEN \* remove_price_level
             /\ map_price_to_price_level' = [map_price_to_price_level EXCEPT ![slot] = None]
             /\ levels_by_price' = [levels_by_price EXCEPT ![order.side] = RemoveFirst(@, slot)]
        ELSE /\ map_price_to_price_level' =
                  [map_price_to_price_level EXCEPT ![slot].orders = RemoveFirst(@, oid)]
             /\ UNCHANGED levels_by_price

-----------------------------------------------------------------------------
(* Messages.                                                               *)

Response(type, o, oid, price, exec, leaves) ==
  [type |-> type, client |-> o.client, coid |-> o.coid, oid |-> oid,
   side |-> o.side, price |-> price, exec |-> exec, leaves |-> leaves]

Update(type, oid, side, price, qty, priority) ==
  [type |-> type, oid |-> oid, side |-> side, price |-> price, qty |-> qty,
   priority |-> priority]

-----------------------------------------------------------------------------
(* add()                                                                   *)

(* Participants choose the id; the shipped client never reuses one.        *)
IdIsFree(client, coid) ==
  UniqueIds /\ coid \in OrderIds => map_client_id_to_order[client][coid] = None

NewOrder(client, coid, side, price, qty) ==
  /\ alive
  /\ incoming = None
  /\ next_market_oid <= MaxOrders
  /\ IdIsFree(client, coid)
  /\ incoming' = [oid |-> next_market_oid, client |-> client, coid |-> coid,
                  side |-> side, price |-> price, qty |-> qty]
  /\ next_market_oid' = next_market_oid + 1
  /\ responses' = <<Response("ACCEPTED", incoming', next_market_oid, price, 0, qty)>>
  /\ updates' = <<>>
  /\ UNCHANGED <<book, alive>>

(* Slip: fills all of the resting order, however small the incoming one. *)
FillQtyOfResting(o) == orders[o].qty

(* What is filled of the incoming order by resting order o.                *)
FillQty(o) == IF incoming.qty < orders[o].qty THEN incoming.qty ELSE orders[o].qty

(* Slip: the responses are written before the quantities are reduced.    *)
FilledResponsesBeforeFill(o) ==
  <<Response("FILLED", incoming, incoming.oid, orders[o].price, FillQty(o), incoming.qty),
    Response("FILLED", orders[o], o, orders[o].price, FillQty(o), orders[o].qty)>>

(* Both sides of a trade are told of it, the incoming order first, at the  *)
(* resting order's price.                                                  *)
FilledResponses(o) ==
  <<Response("FILLED", incoming, incoming.oid, orders[o].price, FillQty(o),
             incoming.qty - FillQty(o)),
    Response("FILLED", orders[o], o, orders[o].price, FillQty(o), orders[o].qty - FillQty(o))>>

(* The market is told of the trade and of what is left of the resting      *)
(* order.                                                                  *)
TradeUpdate(o) == Update("TRADE", None, incoming.side, orders[o].price, FillQty(o), None)

(* Slip: MODIFY carries the quantity before the trade.                   *)
RestingUpdateWithOldQty(o) ==
  IF FillQty(o) = orders[o].qty
  THEN Update("CANCEL", o, orders[o].side, orders[o].price, orders[o].qty, None)
  ELSE Update("MODIFY", o, orders[o].side, orders[o].price, orders[o].qty, orders[o].priority)

(* Slip: the update carries the side of the aggressor.                   *)
RestingUpdateWithSideOfTrade(o) ==
  IF FillQty(o) = orders[o].qty
  THEN Update("CANCEL", o, incoming.side, orders[o].price, orders[o].qty, None)
  ELSE Update("MODIFY", o, incoming.side, orders[o].price, orders[o].qty - FillQty(o),
              orders[o].priority)

RestingUpdate(o) ==
  IF FillQty(o) = orders[o].qty
  THEN Update("CANCEL", o, orders[o].side, orders[o].price, orders[o].qty, None)
  ELSE Update("MODIFY", o, orders[o].side, orders[o].price, orders[o].qty - FillQty(o),
              orders[o].priority)

(* One pass of find_match's loop: match() against the best opposite order. *)
Match ==
  /\ alive
  /\ incoming # None
  /\ CanMatch
  /\ LET o == BestOpposite
     IN /\ incoming' = [incoming EXCEPT !.qty = @ - FillQty(o)]
        /\ responses' = FilledResponses(o)
        /\ updates' = <<TradeUpdate(o), RestingUpdate(o)>>
        /\ IF FillQty(o) = orders[o].qty
           THEN remove_order_from_book(o)
           ELSE /\ orders' = [orders EXCEPT ![o].qty = @ - FillQty(o)]
                /\ UNCHANGED <<map_price_to_price_level, levels_by_price,
                               map_client_id_to_order>>
  /\ UNCHANGED <<next_market_oid, alive>>

(* MemPool::allocate takes a block and then looks for the next free one;   *)
(* the process ends when that block was the last.                          *)
LevelPoolOverrun ==
  Cardinality({s \in Slots : map_price_to_price_level[s] # None}) = MAX_PRICE_LEVELS - 1

(* What ends the process while the remainder is put on the book: the level *)
(* pool's check, or the bounds check of the client order map.              *)
RestIsFatal ==
  \/ get_level_for_price(incoming.price) = None /\ LevelPoolOverrun
  \/ incoming.coid \notin OrderIds

RestOrder ==
  [client |-> incoming.client, coid |-> incoming.coid, side |-> incoming.side,
   price |-> incoming.price, qty |-> incoming.qty,
   priority |-> get_next_priority(incoming.price)]

Rest ==
  /\ alive
  /\ incoming # None
  /\ ~ CanMatch
  /\ incoming.qty > 0
  /\ ~ RestIsFatal
  /\ add_order_to_book(incoming.oid, RestOrder)
  /\ updates' = <<Update("ADD", incoming.oid, incoming.side, incoming.price, incoming.qty,
                         RestOrder.priority)>>
  /\ responses' = <<>>
  /\ incoming' = None
  /\ UNCHANGED <<next_market_oid, alive>>

RestFatal ==
  /\ alive
  /\ incoming # None
  /\ ~ CanMatch
  /\ incoming.qty > 0
  /\ RestIsFatal
  /\ alive' = FALSE
  /\ UNCHANGED <<book, next_market_oid, incoming, responses, updates>>

Filled ==
  /\ alive
  /\ incoming # None
  /\ incoming.qty = 0
  /\ incoming' = None
  /\ responses' = <<>>
  /\ updates' = <<>>
  /\ UNCHANGED <<book, next_market_oid, alive>>

-----------------------------------------------------------------------------
(* cancel()                                                                *)

Cancel(client, coid) ==
  /\ alive
  /\ incoming = None
  /\ coid \in OrderIds
  /\ map_client_id_to_order[client][coid] # None
  /\ LET oid   == map_client_id_to_order[client][coid]
         order == orders[oid]
     IN /\ responses' = <<Response("CANCELLED", order, oid, order.price, None, order.qty)>>
        /\ updates' = <<Update("CANCEL", oid, order.side, order.price, 0, order.priority)>>
        /\ remove_order_from_book(oid)
  /\ UNCHANGED <<next_market_oid, incoming, alive>>

CancelRejected(client, coid) ==
  /\ alive
  /\ incoming = None
  /\ coid \in OrderIds
  /\ map_client_id_to_order[client][coid] = None
  /\ responses' = <<[type |-> "CANCEL_REJECTED", client |-> client, coid |-> coid,
                     oid |-> None, side |-> "INVALID", price |-> None, exec |-> None,
                     leaves |-> None]>>
  /\ updates' = <<>>
  /\ UNCHANGED <<book, next_market_oid, incoming, alive>>

(* The bounds check of map_client_order.at(order_id) throws out of a       *)
(* noexcept function.                                                      *)
CancelFatal(client, coid) ==
  /\ alive
  /\ incoming = None
  /\ coid \notin OrderIds
  /\ alive' = FALSE
  /\ UNCHANGED <<book, next_market_oid, incoming, responses, updates>>

(* A request that asks neither for a new order nor for a cancel.           *)
InvalidRequest ==
  /\ alive
  /\ incoming = None
  /\ alive' = FALSE
  /\ UNCHANGED <<book, next_market_oid, incoming, responses, updates>>

-----------------------------------------------------------------------------
Init ==
  /\ orders = [o \in {} |-> None]
  /\ map_price_to_price_level = [s \in Slots |-> None]
  /\ levels_by_price = [side \in Sides |-> <<>>]
  /\ map_client_id_to_order = [c \in Clients |-> [i \in OrderIds |-> None]]
  /\ next_market_oid = 1
  /\ incoming = None
  /\ alive = TRUE
  /\ responses = <<>>
  /\ updates = <<>>

Next ==
  \/ \E client \in Clients, coid \in RequestIds, quote \in Quotes, qty \in Quantities :
       NewOrder(client, coid, quote[1], quote[2], qty)
  \/ Match
  \/ Rest
  \/ RestFatal
  \/ Filled
  \/ \E client \in Clients, coid \in RequestIds :
       \/ Cancel(client, coid)
       \/ CancelRejected(client, coid)
       \/ CancelFatal(client, coid)
  \/ InvalidRequest

Spec == Init /\ [][Next]_vars

-----------------------------------------------------------------------------
TypeOK ==
  /\ DOMAIN orders \in SUBSET (1 .. MaxOrders)
  /\ orders \in [DOMAIN orders -> BookOrder]
  /\ map_price_to_price_level \in [Slots -> PriceLevel \cup {None}]
  /\ levels_by_price \in [Sides -> Seq(Slots)]
  /\ map_client_id_to_order \in [Clients -> [OrderIds -> 1 .. MaxOrders \cup {None}]]
  /\ next_market_oid \in 1 .. MaxOrders + 1
  /\ incoming \in IncomingOrder \cup {None}
  /\ alive \in BOOLEAN

(* What the book promises: its orders, whatever the levels and lists they  *)
(* are kept in, are a LimitOrderBook's.                                     *)
Resting ==
  {[oid |-> o, client |-> orders[o].client, coid |-> orders[o].coid, side |-> orders[o].side,
    price |-> orders[o].price, qty |-> orders[o].qty] : o \in DOMAIN orders}

Promise == INSTANCE LimitOrderBook WITH resting <- Resting

(* find_match trades in price-time priority, cancel() withdraws the order  *)
(* that was asked for and rejects only what does not rest, and every trade *)
(* and cancel is answered with the right responses in the right order.     *)
PriceTimePriority == Promise!Spec

(* The levels, their lists and the orders agree: a slot holds a level      *)
(* exactly when it is in the list of one side, once; a side's list runs    *)
(* from its most to its least aggressive price; a level's queue holds the  *)
(* orders at its price and side, in the order of their arrival; and every  *)
(* order is in the queue of its price.                                     *)
LevelsWellFormed ==
  /\ \A slot \in Slots :
       LET level == map_price_to_price_level[slot]
       IN IF level = None
          THEN \A side \in Sides : \A i \in DOMAIN levels_by_price[side] :
                 levels_by_price[side][i] # slot
          ELSE /\ price_to_index(level.price) = slot
               /\ \E i \in DOMAIN levels_by_price[level.side] :
                    levels_by_price[level.side][i] = slot
               /\ level.orders # <<>>
               /\ \A i \in DOMAIN level.orders :
                    LET o == level.orders[i]
                    IN /\ o \in DOMAIN orders
                       /\ orders[o].side = level.side
                       /\ orders[o].price = level.price
                       /\ \A j \in DOMAIN level.orders : i < j => o < level.orders[j]
  /\ \A side \in Sides : \A i, j \in DOMAIN levels_by_price[side] :
       LET Level(k) == map_price_to_price_level[levels_by_price[side][k]]
       IN /\ Level(i).side = side
          /\ i < j => MoreAggressive(side, Level(i).price, Level(j).price)
  /\ \A o \in DOMAIN orders :
       \E i \in DOMAIN get_level_for_price(orders[o].price).orders :
         get_level_for_price(orders[o].price).orders[i] = o

(* The client map leads to every order on the book and to nothing else: an *)
(* entry is cleared with its order, so that a cancel can never reach a     *)
(* block that was given back to the pool.                                  *)
ClientMapExact ==
  /\ \A c \in Clients, i \in OrderIds :
       LET o == map_client_id_to_order[c][i]
       IN o # None => o \in DOMAIN orders /\ orders[o].client = c /\ orders[o].coid = i
  /\ \A o \in DOMAIN orders :
       map_client_id_to_order[orders[o].client][orders[o].coid] = o

(* The priority a market update carries is the order's place in the queue: *)
(* among the orders of one price, later ones have the larger priority.     *)
PriorityFollowsArrival ==
  \A o1, o2 \in DOMAIN orders :
    /\ orders[o1].side = orders[o2].side
    /\ orders[o1].price = orders[o2].price
    /\ o1 < o2
    => orders[o1].priority < orders[o2].priority

(* Matches are made from the most to the least aggressive price level: no  *)
(* trade passes over a resting order at a better price.                    *)
BestPriceFirst ==
  [][\A i \in DOMAIN updates' : updates'[i].type = "TRADE" =>
       \A o \in DOMAIN orders : orders[o].side # updates'[i].side =>
         ~ MoreAggressive(orders[o].side, orders[o].price, updates'[i].price)]_vars
=============================================================================
