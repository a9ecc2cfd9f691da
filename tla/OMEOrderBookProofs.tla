------------------------- MODULE OMEOrderBookProofs -------------------------
(***************************************************************************)
(* OMEOrderBook for any participants, prices, quantities and sizes of its  *)
(* tables.                                                                 *)
(*                                                                         *)
(* What the runs check of the levels is not inductive where prices share a *)
(* slot, nor without the order of arrival and the quotes the prices come   *)
(* from: IInv below is.  Everything else follows from it.  The last part   *)
(* is about OMEOrderBookFeed.                                              *)
(***************************************************************************)
EXTENDS OMEOrderBookFeed, SequenceTheorems, WellFoundedInduction, TLAPS

(* Market order ids are handed out in the order of arrival.                *)
ArrivalOrder ==
  /\ \A o \in DOMAIN orders : o < next_market_oid
  /\ incoming # None =>
       /\ incoming.oid < next_market_oid
       /\ \A o \in DOMAIN orders : o < incoming.oid

(* What is on the book was quoted.                                         *)
OnlyQuotes ==
  /\ \A o \in DOMAIN orders : <<orders[o].side, orders[o].price>> \in Quotes
  /\ incoming # None => <<incoming.side, incoming.price>> \in Quotes

(* A level's queue holds resting orders of its side whose prices hash to   *)
(* its slot, in the order of arrival and of their priorities.              *)
QueueWellFormed(slot, level) ==
  /\ price_to_index(level.price) = slot
  /\ level.orders # <<>>
  /\ \A i \in 1 .. Len(level.orders) :
       /\ level.orders[i] \in DOMAIN orders
       /\ orders[level.orders[i]].side = level.side
       /\ price_to_index(orders[level.orders[i]].price) = slot
  /\ \A i, j \in 1 .. Len(level.orders) : i < j =>
       /\ level.orders[i] < level.orders[j]
       /\ orders[level.orders[i]].priority < orders[level.orders[j]].priority

Queues ==
  \A slot \in Slots : map_price_to_price_level[slot] # None =>
    QueueWellFormed(slot, map_price_to_price_level[slot])

(* Every order is in the queue of its slot.                                *)
Queued ==
  \A o \in DOMAIN orders :
    /\ get_level_for_price(orders[o].price) # None
    /\ \E i \in 1 .. Len(get_level_for_price(orders[o].price).orders) :
         get_level_for_price(orders[o].price).orders[i] = o

(* The list of a side has the levels of that side, each once, sorted.      *)
Listed ==
  \A slot \in Slots : map_price_to_price_level[slot] # None =>
    \E i \in 1 .. Len(levels_by_price[map_price_to_price_level[slot].side]) :
      levels_by_price[map_price_to_price_level[slot].side][i] = slot

SideSorted(side) ==
  /\ \A i \in 1 .. Len(levels_by_price[side]) :
       /\ map_price_to_price_level[levels_by_price[side][i]] # None
       /\ map_price_to_price_level[levels_by_price[side][i]].side = side
  /\ \A i, j \in 1 .. Len(levels_by_price[side]) : i < j =>
       MoreAggressive(side, map_price_to_price_level[levels_by_price[side][i]].price,
                            map_price_to_price_level[levels_by_price[side][j]].price)

Sorted == \A side \in Sides : SideSorted(side)

(* A client's entry leads to its own resting order.                        *)
NoDanglingEntry ==
  \A c \in Clients, i \in OrderIds : map_client_id_to_order[c][i] # None =>
    /\ map_client_id_to_order[c][i] \in DOMAIN orders
    /\ orders[map_client_id_to_order[c][i]].client = c
    /\ orders[map_client_id_to_order[c][i]].coid = i

(* An id that a client does not reuse leads to its order, and while an     *)
(* order is added its entry is still free.                                 *)
EveryOrderHasEntry ==
  /\ \A o \in DOMAIN orders : map_client_id_to_order[orders[o].client][orders[o].coid] = o
  /\ incoming # None /\ incoming.coid \in OrderIds =>
       map_client_id_to_order[incoming.client][incoming.coid] = None

(* Bids are below offers.                                                  *)
NotCrossed ==
  \A o1, o2 \in DOMAIN orders :
    orders[o1].side = "BUY" /\ orders[o2].side = "SELL" => orders[o1].price < orders[o2].price

IInv ==
  /\ TypeOK
  /\ ArrivalOrder
  /\ OnlyQuotes
  /\ Queues
  /\ Queued
  /\ Listed
  /\ Sorted
  /\ NoDanglingEntry
  /\ UniqueIds => EveryOrderHasEntry
  /\ DistinctSlots => NotCrossed
-----------------------------------------------------------------------------
(* Lists.                                                                  *)

(* Every set of numbers that is not empty has a least one.                 *)
LEMMA LeastNumber ==
  ASSUME NEW T \in SUBSET Nat, T # {}
  PROVE  \E n \in T : \A m \in T : n <= m
<1>1. PICK n \in T : \A m \in T : ~ (<<m, n>> \in OpToRel(<, Nat))
  BY NatLessThanWellFounded, WFMin
<1>2. \A m \in T : ~ (m < n)
  BY <1>1 DEF OpToRel
<1> QED
  BY <1>2

(* A member is put in at a place of a list, and the rest moves on.         *)
LEMMA InsertedAt ==
  ASSUME NEW S, NEW s \in Seq(S), NEW e \in S, NEW i \in 1 .. Len(s) + 1
  PROVE  /\ InsertAt(s, i, e) \in Seq(S)
         /\ Len(InsertAt(s, i, e)) = Len(s) + 1
         /\ \A k \in 1 .. Len(s) + 1 :
              InsertAt(s, i, e)[k] = IF k < i THEN s[k] ELSE IF k = i THEN e ELSE s[k - 1]
<1> DEFINE a == SubSeq(s, 1, i - 1)
           c == SubSeq(s, i, Len(s))
<1>1. a \in Seq(S) /\ Len(a) = i - 1 /\ \A k \in 1 .. i - 1 : a[k] = s[k]
  BY SubSeqProperties, ElementOfSeq
<1>2. c \in Seq(S) /\ Len(c) = Len(s) - i + 1
      /\ \A k \in 1 .. Len(s) - i + 1 : c[k] = s[i + k - 1]
  BY SubSeqProperties, ElementOfSeq
<1> DEFINE b == a \o <<e>>
<1>3. <<e>> \in Seq(S) /\ Len(<<e>>) = 1 /\ <<e>>[1] = e
  OBVIOUS
<1> HIDE DEF a, c
<1>4. b \in Seq(S) /\ Len(b) = i /\ \A k \in 1 .. i : b[k] = IF k < i THEN s[k] ELSE e
  BY <1>1, <1>3, ConcatProperties
<1>5. InsertAt(s, i, e) = b \o c
  BY DEF InsertAt, a, c
<1> HIDE DEF b
<1>6. b \o c \in Seq(S) /\ Len(b \o c) = Len(b) + Len(c)
      /\ \A k \in 1 .. Len(b) + Len(c) :
           (b \o c)[k] = IF k <= Len(b) THEN b[k] ELSE c[k - Len(b)]
  BY <1>2, <1>4, ConcatProperties
<1>7. Len(b) + Len(c) = Len(s) + 1
  BY <1>2, <1>4
<1>8. \A k \in 1 .. Len(s) + 1 :
        (b \o c)[k] = IF k < i THEN s[k] ELSE IF k = i THEN e ELSE s[k - 1]
  BY <1>2, <1>4, <1>6, <1>7
<1> QED
  BY <1>5, <1>6, <1>7, <1>8

(* A member is taken out of a list, and the rest moves up.                 *)
LEMMA RemovedFirst ==
  ASSUME NEW S, NEW s \in Seq(S), NEW e, \E i \in 1 .. Len(s) : s[i] = e
  PROVE  /\ RemoveFirst(s, e) \in Seq(S)
         /\ Len(RemoveFirst(s, e)) = Len(s) - 1
         /\ \E i \in 1 .. Len(s) :
              /\ s[i] = e
              /\ \A k \in 1 .. Len(s) - 1 :
                   RemoveFirst(s, e)[k] = IF k < i THEN s[k] ELSE s[k + 1]
<1> DEFINE I == {j \in 1 .. Len(s) : s[j] = e}
           i == Min(I)
           a == SubSeq(s, 1, i - 1)
           c == SubSeq(s, i + 1, Len(s))
<1>1. i \in I
  <2>1. I # {} /\ I \in SUBSET Nat
    OBVIOUS
  <2>2. PICK n \in I : \A m \in I : n <= m
    BY <2>1, LeastNumber
  <2> QED
    BY <2>2 DEF Min
<1>2. RemoveFirst(s, e) = a \o c
  BY <1>1 DEF RemoveFirst, SelectInSeq, RemoveAt
<1> HIDE DEF i
<1>3. a \in Seq(S) /\ Len(a) = i - 1 /\ \A k \in 1 .. i - 1 : a[k] = s[k]
  BY <1>1, SubSeqProperties, ElementOfSeq
<1>4. c \in Seq(S) /\ Len(c) = Len(s) - i
      /\ \A k \in 1 .. Len(s) - i : c[k] = s[i + k]
  BY <1>1, SubSeqProperties, ElementOfSeq
<1> HIDE DEF a, c
<1>5. i \in 1 .. Len(s) /\ s[i] = e
  BY <1>1
<1>6. a \o c \in Seq(S) /\ Len(a \o c) = Len(a) + Len(c)
      /\ \A k \in 1 .. Len(a) + Len(c) :
           (a \o c)[k] = IF k <= Len(a) THEN a[k] ELSE c[k - Len(a)]
  BY <1>3, <1>4, ConcatProperties
<1>7. Len(a) + Len(c) = Len(s) - 1
  BY <1>3, <1>4, <1>5
<1>8. \A k \in 1 .. Len(s) - 1 : (a \o c)[k] = IF k < i THEN s[k] ELSE s[k + 1]
  BY SMTT(30), <1>3, <1>4, <1>5, <1>6, <1>7
<1> QED
  BY <1>2, <1>5, <1>6, <1>7, <1>8

-----------------------------------------------------------------------------
(* The hash map and the sides' lists.                                      *)

LEMMA PricesAreIntegers == Prices \subseteq Int
  BY ParticipantsAssumption DEF Prices

LEMMA Slot ==
  ASSUME NEW price \in Int
  PROVE  price_to_index(price) \in Slots
  BY OMEAssumption DEF price_to_index, Slots

(* What a slot that is not empty holds.                                    *)
LEMMA LevelType ==
  ASSUME TypeOK, NEW slot \in Slots, map_price_to_price_level[slot] # None
  PROVE  /\ map_price_to_price_level[slot] \in PriceLevel
         /\ map_price_to_price_level[slot].side \in Sides
         /\ map_price_to_price_level[slot].price \in Int
         /\ map_price_to_price_level[slot].orders \in Seq(1 .. MaxOrders)
<1>1. map_price_to_price_level[slot] \in PriceLevel
  BY DEF TypeOK
<1> QED
  BY <1>1, PricesAreIntegers DEF PriceLevel

(* What a place of a side's list leads to.                                 *)
LEMMA ListedLevel ==
  ASSUME TypeOK, Queues, Sorted, NEW side \in Sides, NEW i \in 1 .. Len(levels_by_price[side])
  PROVE  /\ levels_by_price[side][i] \in Slots
         /\ map_price_to_price_level[levels_by_price[side][i]] # None
         /\ map_price_to_price_level[levels_by_price[side][i]].side = side
         /\ map_price_to_price_level[levels_by_price[side][i]].price \in Int
         /\ price_to_index(map_price_to_price_level[levels_by_price[side][i]].price)
              = levels_by_price[side][i]
<1>1. levels_by_price[side] \in Seq(Slots)
  BY DEF TypeOK
<1>2. levels_by_price[side][i] \in Slots
  BY <1>1, ElementOfSeq
<1>3. /\ map_price_to_price_level[levels_by_price[side][i]] # None
      /\ map_price_to_price_level[levels_by_price[side][i]].side = side
  BY DEF Sorted, SideSorted
<1> QED
  BY <1>2, <1>3, LevelType DEF Queues, QueueWellFormed

(* add_price_level's walk ends between the levels that are more aggressive *)
(* than the new one and those that are less.                               *)
LEMMA InsertionPointBetween ==
  ASSUME TypeOK, Queues, Sorted, NEW side \in Sides, NEW price \in Int,
         get_level_for_price(price) = None
  PROVE  /\ InsertionPoint(side, price) \in 1 .. Len(levels_by_price[side]) + 1
         /\ \A j \in 1 .. Len(levels_by_price[side]) :
              IF j < InsertionPoint(side, price)
              THEN MoreAggressive(side,
                     map_price_to_price_level[levels_by_price[side][j]].price, price)
              ELSE MoreAggressive(side,
                     price, map_price_to_price_level[levels_by_price[side][j]].price)
<1> DEFINE slots == levels_by_price[side]
           P(j) == map_price_to_price_level[slots[j]].price
           notAfter == {i \in 1 .. Len(slots) : ~ MoreAggressive(side, P(i), price)}
<1>1. slots \in Seq(Slots) /\ Len(slots) \in Nat /\ DOMAIN slots = 1 .. Len(slots)
  BY LenProperties DEF TypeOK
<1>2. \A j \in 1 .. Len(slots) : P(j) \in Int /\ P(j) # price
  BY ListedLevel DEF get_level_for_price
<1>3. \A i, j \in 1 .. Len(slots) : i < j => MoreAggressive(side, P(i), P(j))
  BY DEF Sorted, SideSorted
<1>4. CASE notAfter = {}
  <2>1. InsertionPoint(side, price) = Len(slots) + 1
    BY <1>1, <1>4 DEF InsertionPoint
  <2> QED
    BY <1>1, <1>4, <2>1
<1>5. CASE notAfter # {}
  <2>0. notAfter \in SUBSET Nat
    BY <1>1
  <2>1. PICK n \in notAfter : \A m \in notAfter : n <= m
    BY <1>5, <2>0, LeastNumber
  <2>2. \E i \in notAfter : \A j \in notAfter : i <= j
    BY <2>1
  <2>3. InsertionPoint(side, price) = CHOOSE i \in notAfter : \A j \in notAfter : i <= j
    BY <1>1, <1>5 DEF InsertionPoint
  <2>4. /\ InsertionPoint(side, price) \in notAfter
        /\ \A j \in notAfter : InsertionPoint(side, price) <= j
    BY <2>2, <2>3
  <2> DEFINE k == InsertionPoint(side, price)
  <2> HIDE DEF k
  <2>5. k \in 1 .. Len(slots) /\ ~ MoreAggressive(side, P(k), price)
        /\ \A j \in 1 .. Len(slots) : j < k => MoreAggressive(side, P(j), price)
    BY <1>1, <2>4 DEF k
  <2>6. \A j \in 1 .. Len(slots) : j >= k => MoreAggressive(side, price, P(j))
    BY SMTT(30), <1>1, <1>2, <1>3, <2>5 DEF MoreAggressive
  <2> QED
    BY <1>1, <2>5, <2>6 DEF k
<1> QED
  BY <1>4, <1>5

-----------------------------------------------------------------------------
(* add_order_to_book and remove_order_from_book.                           *)

(* The part of the invariant that is about the book's data structures.     *)
Structure == Queues /\ Queued /\ Listed /\ Sorted

(* The types of the book's data structures.                                *)
BookTypeOK ==
  /\ DOMAIN orders \in SUBSET (1 .. MaxOrders)
  /\ orders \in [DOMAIN orders -> BookOrder]
  /\ map_price_to_price_level \in [Slots -> PriceLevel \cup {None}]
  /\ levels_by_price \in [Sides -> Seq(Slots)]
  /\ map_client_id_to_order \in [Clients -> [OrderIds -> 1 .. MaxOrders \cup {None}]]

(* The youngest order joins the queue of its price, in a level of its own  *)
(* if there is none.                                                       *)
LEMMA AddOrder ==
  ASSUME TypeOK, Structure,
         NEW oid \in 1 .. MaxOrders, \A o \in DOMAIN orders : o < oid,
         NEW order \in BookOrder,
         order.priority = get_next_priority(order.price),
         get_level_for_price(order.price) # None =>
           get_level_for_price(order.price).side = order.side,
         add_order_to_book(oid, order)
  PROVE  BookTypeOK' /\ Structure'
<1> DEFINE slot  == price_to_index(order.price)
           level == map_price_to_price_level[slot]
<1>1. order.price \in Int /\ order.side \in Sides /\ order.price \in Prices
      /\ order.client \in Clients /\ order.coid \in OrderIds
  BY PricesAreIntegers DEF BookOrder
<1>2. slot \in Slots
  BY <1>1, Slot
<1>3. oid \notin DOMAIN orders
  <2>1. oid \in DOMAIN orders => oid < oid
    OBVIOUS
  <2> QED
    BY <2>1
<1>4. /\ DOMAIN orders' = DOMAIN orders \cup {oid}
      /\ orders'[oid] = order
      /\ \A o \in DOMAIN orders : orders'[o] = orders[o]
      /\ orders' \in [DOMAIN orders' -> BookOrder]
  BY <1>3 DEF add_order_to_book, TypeOK
<1>5. map_client_id_to_order' \in [Clients -> [OrderIds -> 1 .. MaxOrders \cup {None}]]
  BY <1>1 DEF add_order_to_book, TypeOK
<1>6. CASE level = None
  <2> DEFINE new == [side |-> order.side, price |-> order.price, orders |-> <<oid>>]
             point == InsertionPoint(order.side, order.price)
             list == levels_by_price[order.side]
             list1 == InsertAt(list, point, slot)
  <2>1. map_price_to_price_level' = [map_price_to_price_level EXCEPT ![slot] = new]
        /\ levels_by_price' = [levels_by_price EXCEPT ![order.side] = list1]
    BY <1>6 DEF add_order_to_book
  <2>2. <<oid>> \in Seq(1 .. MaxOrders) /\ Len(<<oid>>) = 1 /\ <<oid>>[1] = oid /\ <<oid>> # <<>>
    OBVIOUS
  <2>3. /\ new \in PriceLevel
        /\ new.side = order.side /\ new.price = order.price
        /\ Len(new.orders) = 1 /\ new.orders[1] = oid /\ new.orders # <<>>
    BY <1>1, <2>2 DEF PriceLevel
  <2> HIDE DEF new
  <2>31. new # None
    BY <2>3, OMEAssumption
  <2>4. map_price_to_price_level' \in [Slots -> PriceLevel \cup {None}]
        /\ map_price_to_price_level'[slot] = new
        /\ \A s \in Slots : s # slot =>
             map_price_to_price_level'[s] = map_price_to_price_level[s]
    BY <1>2, <2>1, <2>3, <2>31 DEF TypeOK
  <2>5. list \in Seq(Slots) /\ Len(list) \in Nat
    BY <1>1, LenProperties DEF TypeOK
  <2>6. /\ point \in 1 .. Len(list) + 1
        /\ \A j \in 1 .. Len(list) :
             IF j < point
             THEN MoreAggressive(order.side, map_price_to_price_level[list[j]].price, order.price)
             ELSE MoreAggressive(order.side, order.price, map_price_to_price_level[list[j]].price)
    BY <1>1, <1>6, InsertionPointBetween DEF Structure, get_level_for_price
  <2> HIDE DEF point
  <2> HIDE DEF list, slot
  <2>7. /\ list1 \in Seq(Slots) /\ Len(list1) = Len(list) + 1
        /\ \A k \in 1 .. Len(list) + 1 :
             list1[k] = IF k < point THEN list[k] ELSE IF k = point THEN slot ELSE list[k - 1]
    <3>1. list \in Seq(Slots) /\ slot \in Slots /\ point \in 1 .. Len(list) + 1
      BY <1>2, <2>5, <2>6
    <3>2. /\ InsertAt(list, point, slot) \in Seq(Slots)
          /\ Len(InsertAt(list, point, slot)) = Len(list) + 1
          /\ \A k \in 1 .. Len(list) + 1 :
               InsertAt(list, point, slot)[k]
                 = IF k < point THEN list[k] ELSE IF k = point THEN slot ELSE list[k - 1]
      <4>1. /\ list \in Seq(Slots) /\ slot \in Slots
        BY ONLY <3>1
      <4>2. point \in 1 .. Len(list) + 1
        BY ONLY <3>1
      <4> QED
        BY ONLY SMTT(30), <4>1, <4>2, InsertedAt
    <3>3. list1 = InsertAt(list, point, slot)
      OBVIOUS
    <3> HIDE DEF list1
    <3> QED
      BY ONLY <3>2, <3>3
  <2> HIDE DEF list1
  <2>8. levels_by_price' \in [Sides -> Seq(Slots)]
        /\ levels_by_price'[order.side] = list1
        /\ \A side \in Sides : side # order.side => levels_by_price'[side] = levels_by_price[side]
    BY <1>1, <2>1, <2>7 DEF TypeOK
  <2>9. BookTypeOK'
    BY <1>4, <1>5, <2>4, <2>8 DEF BookTypeOK, TypeOK
  <2>10. Queues'
    <3> SUFFICES ASSUME NEW s \in Slots, map_price_to_price_level'[s] # None
                 PROVE  QueueWellFormed(s, map_price_to_price_level[s])'
      BY DEF Queues
    <3>1. CASE s = slot
      <4>1. map_price_to_price_level'[s] = new
        BY <2>4, <3>1
      <4>2. \A i \in 1 .. Len(new.orders) : i = 1 /\ new.orders[i] = oid
        BY <2>3
      <4> QED
        BY <1>4, <2>3, <3>1, <4>1, <4>2 DEF QueueWellFormed, slot, price_to_index
    <3>2. CASE s # slot
      <4>1. map_price_to_price_level'[s] = map_price_to_price_level[s]
        BY <2>4, <3>2
      <4>2. QueueWellFormed(s, map_price_to_price_level[s])
        BY <4>1 DEF Structure, Queues
      <4> QED
        BY <1>4, <4>1, <4>2 DEF QueueWellFormed
    <3> QED
      BY <3>1, <3>2
  <2>11. Queued'
    <3> SUFFICES ASSUME NEW o \in DOMAIN orders'
                 PROVE  LET l == map_price_to_price_level'[price_to_index(orders'[o].price)]
                        IN l # None /\ \E i \in 1 .. Len(l.orders) : l.orders[i] = o
      BY DEF Queued, get_level_for_price, price_to_index
    <3>1. CASE o = oid
      <4>1. map_price_to_price_level'[price_to_index(orders'[o].price)] = new
        BY <1>4, <2>4, <3>1 DEF slot
      <4>2. 1 \in 1 .. Len(new.orders) /\ new.orders[1] = o
        BY <2>3, <3>1
      <4> QED
        BY <2>31, <4>1, <4>2
    <3>2. CASE o # oid
      <4>1. o \in DOMAIN orders /\ orders'[o] = orders[o]
        BY <1>4, <3>2
      <4>2. orders[o].price \in Int
        BY <4>1, PricesAreIntegers DEF TypeOK, BookOrder
      <4>3. map_price_to_price_level[price_to_index(orders[o].price)] # None
            /\ \E i \in 1 .. Len(map_price_to_price_level[price_to_index(orders[o].price)].orders) :
                 map_price_to_price_level[price_to_index(orders[o].price)].orders[i] = o
        BY <4>1 DEF Structure, Queued, get_level_for_price
      <4>4. price_to_index(orders[o].price) # slot
        BY <1>6, <4>3 DEF slot
      <4> QED
        BY <2>4, <4>1, <4>2, <4>3, <4>4, Slot
    <3> QED
      BY <3>1, <3>2
  <2>12. Listed'
    <3> SUFFICES ASSUME NEW s \in Slots, map_price_to_price_level'[s] # None
                 PROVE  LET l == levels_by_price'[map_price_to_price_level'[s].side]
                        IN \E i \in 1 .. Len(l) : l[i] = s
      BY DEF Listed
    <3>1. CASE s = slot
      BY <2>3, <2>4, <2>5, <2>6, <2>7, <2>8, <3>1
    <3>2. CASE s # slot
      <4>1. map_price_to_price_level'[s] = map_price_to_price_level[s]
        BY <2>4, <3>2
      <4>2. map_price_to_price_level[s].side \in Sides
        BY <3>2, <4>1, LevelType
      <4>3. PICK i \in 1 .. Len(levels_by_price[map_price_to_price_level[s].side]) :
              levels_by_price[map_price_to_price_level[s].side][i] = s
        BY <3>2, <4>1 DEF Structure, Listed
      <4>4. CASE map_price_to_price_level[s].side = order.side
        <5>1. i \in 1 .. Len(list) /\ list[i] = s
          BY <4>3, <4>4 DEF list
        <5>2. CASE i < point
          <6>1. i \in 1 .. Len(list1) /\ list1[i] = s
            BY <5>1, <5>2, <2>5, <2>6, <2>7
          <6> QED
            BY <6>1, <4>1, <4>4, <2>8
        <5>3. CASE i >= point
          <6>1. i + 1 \in 1 .. Len(list1) /\ list1[i + 1] = s
            BY <5>1, <5>3, <2>5, <2>6, <2>7
          <6> QED
            BY <6>1, <4>1, <4>4, <2>8
        <5> QED
          BY <5>1, <5>2, <5>3, <2>5, <2>6
      <4>5. CASE map_price_to_price_level[s].side # order.side
        BY <4>1, <4>2, <4>3, <4>5, <2>8
      <4> QED
        BY <4>4, <4>5
    <3> QED
      BY <3>1, <3>2
  <2>13. Sorted'
    <3> SUFFICES ASSUME NEW side \in Sides
                 PROVE  SideSorted(side)'
      BY DEF Sorted
    <3>1. \A i \in 1 .. Len(levels_by_price[side]) :
            /\ levels_by_price[side][i] \in Slots /\ levels_by_price[side][i] # slot
            /\ map_price_to_price_level'[levels_by_price[side][i]]
                 = map_price_to_price_level[levels_by_price[side][i]]
            /\ map_price_to_price_level[levels_by_price[side][i]] # None
            /\ map_price_to_price_level[levels_by_price[side][i]].side = side
      BY <1>6, <2>4, ListedLevel DEF Structure
    <3>2. \A i, j \in 1 .. Len(levels_by_price[side]) : i < j =>
            MoreAggressive(side, map_price_to_price_level[levels_by_price[side][i]].price,
                                 map_price_to_price_level[levels_by_price[side][j]].price)
      BY DEF Structure, Sorted, SideSorted
    <3>3. CASE side # order.side
      <4>1. levels_by_price'[side] = levels_by_price[side]
        BY <2>8, <3>3
      <4> QED
        BY <3>1, <3>2, <4>1 DEF SideSorted
    <3>4. CASE side = order.side
      <4> DEFINE Q(s) == map_price_to_price_level'[s].price
      <4>1. \A k \in 1 .. Len(list1) :
              /\ map_price_to_price_level'[list1[k]] # None
              /\ map_price_to_price_level'[list1[k]].side = side
        <5> SUFFICES ASSUME NEW k \in 1 .. Len(list1)
                     PROVE  list1[k] = slot \/ \E j \in 1 .. Len(list) : list1[k] = list[j]
          BY <2>3, <2>31, <2>4, <3>1, <3>4 DEF list
        <5>1. CASE k < point
          BY <5>1, <2>5, <2>6, <2>7
        <5>2. CASE k > point
          <6>1. k - 1 \in 1 .. Len(list) /\ list1[k] = list[k - 1]
            BY <5>2, <2>5, <2>6, <2>7
          <6> QED
            BY <6>1
        <5> QED
          BY <5>1, <5>2, <2>5, <2>6, <2>7
      <4>2. Q(slot) = order.price
            /\ \A j \in 1 .. Len(list) : Q(list[j]) = map_price_to_price_level[list[j]].price
        BY <2>3, <2>4, <3>1, <3>4 DEF list
      <4>3. \A j \in 1 .. Len(list) : IF j < point THEN MoreAggressive(side, Q(list[j]), Q(slot))
                                      ELSE MoreAggressive(side, Q(slot), Q(list[j]))
        BY <2>6, <3>4, <4>2
      <4>4. \A i, j \in 1 .. Len(list) : i < j => MoreAggressive(side, Q(list[i]), Q(list[j]))
        BY <3>2, <3>4, <4>2 DEF list
      <4> HIDE DEF Q
      <4>5. \A i, j \in 1 .. Len(list1) : i < j => MoreAggressive(side, Q(list1[i]), Q(list1[j]))
        <5> SUFFICES ASSUME NEW i \in 1 .. Len(list1), NEW j \in 1 .. Len(list1), i < j
                     PROVE  MoreAggressive(side, Q(list1[i]), Q(list1[j]))
          OBVIOUS
        <5>1. CASE j < point
          <6>1. list1[j] = list[j] /\ list1[i] = list[i]
                /\ i \in 1 .. Len(list) /\ j \in 1 .. Len(list)
            BY <5>1, <2>5, <2>6, <2>7
          <6> QED
            BY <6>1, <4>4
        <5>2. CASE j = point
          <6>1. list1[j] = slot /\ list1[i] = list[i] /\ i \in 1 .. Len(list) /\ i < point
            BY <5>2, <2>5, <2>6, <2>7
          <6> QED
            BY <6>1, <4>3
        <5>3. CASE i = point
          <6>1. j - 1 \in 1 .. Len(list) /\ list1[j] = list[j - 1] /\ list1[i] = slot
            BY <5>3, <2>5, <2>6, <2>7
          <6> QED
            BY <6>1, <5>3, <4>3, <2>6
        <5>4. CASE i < point /\ point < j
          <6>1. j - 1 \in 1 .. Len(list) /\ list1[j] = list[j - 1] /\ list1[i] = list[i]
                /\ i \in 1 .. Len(list) /\ i < j - 1
            BY <5>4, <2>5, <2>6, <2>7
          <6> QED
            BY <6>1, <4>4
        <5>5. CASE point < i
          <6>1. j - 1 \in 1 .. Len(list) /\ list1[j] = list[j - 1] /\ list1[i] = list[i - 1]
                /\ i - 1 \in 1 .. Len(list) /\ i - 1 < j - 1
            BY <5>5, <2>5, <2>6, <2>7
          <6> QED
            BY <6>1, <4>4
        <5> QED
          BY <5>1, <5>2, <5>3, <5>4, <5>5, <2>6, <2>7
      <4> QED
        BY <2>8, <3>4, <4>1, <4>5 DEF SideSorted, Q
    <3> QED
      BY <3>3, <3>4
  <2> QED
    BY <2>9, <2>10, <2>11, <2>12, <2>13 DEF Structure
<1>7. CASE level # None
  <2>1. /\ level \in PriceLevel /\ level.orders \in Seq(1 .. MaxOrders)
        /\ QueueWellFormed(slot, level)
    BY <1>2, <1>7, LevelType DEF Structure, Queues
  <2> DEFINE queue == level.orders
             queue1 == Append(queue, oid)
             new == [level EXCEPT !.orders = queue1]
  <2>2. /\ map_price_to_price_level' = [map_price_to_price_level EXCEPT ![slot] = new]
        /\ levels_by_price' = levels_by_price
    BY <1>2, <1>7 DEF add_order_to_book, TypeOK
  <2>3. /\ queue1 \in Seq(1 .. MaxOrders) /\ Len(queue1) = Len(queue) + 1 /\ queue1 # <<>>
        /\ queue1[Len(queue) + 1] = oid /\ Len(queue) \in Nat /\ Len(queue) > 0
        /\ \A i \in 1 .. Len(queue) : queue1[i] = queue[i]
    <3>1. queue \in Seq(1 .. MaxOrders) /\ queue # <<>>
      BY <2>1 DEF QueueWellFormed
    <3> HIDE DEF queue
    <3>2. Len(queue) \in Nat /\ Len(queue) > 0
      BY <3>1, EmptySeq, LenProperties
    <3> QED
      BY <3>1, <3>2, AppendProperties
  <2> HIDE DEF queue1
  <2>4. /\ new \in PriceLevel /\ new.orders = queue1
        /\ new.side = level.side /\ new.price = level.price
    BY <2>1, <2>3 DEF PriceLevel
  <2> HIDE DEF new
  <2>5. new # None
    BY <2>4, OMEAssumption
  <2>6. map_price_to_price_level' \in [Slots -> PriceLevel \cup {None}]
        /\ map_price_to_price_level'[slot] = new
        /\ \A s \in Slots : s # slot =>
             map_price_to_price_level'[s] = map_price_to_price_level[s]
    BY <1>2, <2>2, <2>4 DEF TypeOK
  <2>7. \A s \in Slots :
          /\ map_price_to_price_level'[s] # None <=> map_price_to_price_level[s] # None
          /\ map_price_to_price_level[s] # None =>
               /\ map_price_to_price_level'[s].side = map_price_to_price_level[s].side
               /\ map_price_to_price_level'[s].price = map_price_to_price_level[s].price
    BY <1>7, <2>4, <2>5, <2>6
  <2>8. level.side = order.side
    BY <1>7 DEF get_level_for_price
  <2>9. order.priority > orders[queue[Len(queue)]].priority
    <3>1. queue[Len(queue)] \in DOMAIN orders
      BY <2>1, <2>3 DEF QueueWellFormed
    <3>2. orders[queue[Len(queue)]].priority \in Nat
      BY <3>1 DEF TypeOK, BookOrder
    <3> QED
      BY <1>7, <3>2 DEF get_next_priority, get_level_for_price, Last
  <2> HIDE DEF slot, level
  <2>10. BookTypeOK'
    BY <1>4, <1>5, <2>2, <2>6 DEF BookTypeOK, TypeOK
  <2>11. Queues'
    <3> SUFFICES ASSUME NEW s \in Slots, map_price_to_price_level'[s] # None
                 PROVE  QueueWellFormed(s, map_price_to_price_level[s])'
      BY DEF Queues
    <3>1. CASE s = slot
      <4>1. \A i \in 1 .. Len(queue) :
              /\ queue[i] \in DOMAIN orders /\ orders'[queue[i]] = orders[queue[i]]
              /\ orders[queue[i]].side = order.side
              /\ price_to_index(orders[queue[i]].price) = slot
              /\ queue[i] < oid
        BY <1>4, <2>1, <2>8 DEF QueueWellFormed
      <4>2. \A i, j \in 1 .. Len(queue) : i < j =>
              queue[i] < queue[j] /\ orders[queue[i]].priority < orders[queue[j]].priority
        BY <2>1 DEF QueueWellFormed
      <4>3. \A i \in 1 .. Len(queue) : orders[queue[i]].priority < order.priority
        <5> SUFFICES ASSUME NEW i \in 1 .. Len(queue)
                     PROVE  orders[queue[i]].priority < order.priority
          OBVIOUS
        <5>1. orders[queue[i]].priority \in Nat /\ orders[queue[Len(queue)]].priority \in Nat
              /\ order.priority \in Nat
          <6>1. Len(queue) \in 1 .. Len(queue)
            BY <2>3
          <6>2. orders[queue[i]] \in BookOrder /\ orders[queue[Len(queue)]] \in BookOrder
            BY <4>1, <6>1 DEF TypeOK
          <6> QED
            BY <6>2 DEF BookOrder
        <5>2. i = Len(queue) \/ orders[queue[i]].priority < orders[queue[Len(queue)]].priority
          BY SMTT(30), <2>3, <4>2
        <5> QED
          BY <2>9, <5>1, <5>2
      <4>4. \A i \in 1 .. Len(queue1) :
              /\ queue1[i] \in DOMAIN orders'
              /\ orders'[queue1[i]].side = order.side
              /\ price_to_index(orders'[queue1[i]].price) = slot
        BY <1>4, <2>3, <4>1 DEF slot
      <4>5. \A i, j \in 1 .. Len(queue1) : i < j =>
              queue1[i] < queue1[j] /\ orders'[queue1[i]].priority < orders'[queue1[j]].priority
        <5> SUFFICES ASSUME NEW i \in 1 .. Len(queue1), NEW j \in 1 .. Len(queue1), i < j
                     PROVE  queue1[i] < queue1[j]
                            /\ orders'[queue1[i]].priority < orders'[queue1[j]].priority
          OBVIOUS
        <5>1. i \in 1 .. Len(queue) /\ queue1[i] = queue[i]
          BY <2>3
        <5>2. CASE j = Len(queue1)
          BY <1>4, <2>3, <4>1, <4>3, <5>1, <5>2
        <5>3. CASE j # Len(queue1)
          <6>1. j \in 1 .. Len(queue) /\ queue1[j] = queue[j]
            BY <2>3, <5>3
          <6> QED
            BY <4>1, <4>2, <5>1, <6>1
        <5> QED
          BY <5>2, <5>3
      <4>6. price_to_index(level.price) = slot
        BY <2>1 DEF QueueWellFormed
      <4> QED
        BY <2>3, <2>4, <2>6, <2>8, <3>1, <4>4, <4>5, <4>6 DEF QueueWellFormed, price_to_index
    <3>2. CASE s # slot
      <4>1. map_price_to_price_level'[s] = map_price_to_price_level[s]
        BY <2>6, <3>2
      <4>2. QueueWellFormed(s, map_price_to_price_level[s])
        BY <4>1 DEF Structure, Queues
      <4> QED
        BY <1>4, <4>1, <4>2 DEF QueueWellFormed
    <3> QED
      BY <3>1, <3>2
  <2>12. Queued'
    <3> SUFFICES ASSUME NEW o \in DOMAIN orders'
                 PROVE  LET l == map_price_to_price_level'[price_to_index(orders'[o].price)]
                        IN l # None /\ \E i \in 1 .. Len(l.orders) : l.orders[i] = o
      BY DEF Queued, get_level_for_price, price_to_index
    <3>1. CASE o = oid
      <4>1. map_price_to_price_level'[price_to_index(orders'[o].price)] = new
        BY <1>4, <2>6, <3>1 DEF slot
      <4>2. Len(queue) + 1 \in 1 .. Len(new.orders) /\ new.orders[Len(queue) + 1] = o
        BY <2>3, <2>4, <3>1
      <4> QED
        BY <2>5, <4>1, <4>2
    <3>2. CASE o # oid
      <4>1. o \in DOMAIN orders /\ orders'[o] = orders[o]
        BY <1>4, <3>2
      <4>2. price_to_index(orders[o].price) \in Slots
        BY <4>1, PricesAreIntegers, Slot DEF TypeOK, BookOrder
      <4>3. map_price_to_price_level[price_to_index(orders[o].price)] # None
        BY <4>1 DEF Structure, Queued, get_level_for_price
      <4>4. PICK i \in 1 .. Len(map_price_to_price_level[price_to_index(orders[o].price)].orders) :
              map_price_to_price_level[price_to_index(orders[o].price)].orders[i] = o
        BY <4>1 DEF Structure, Queued, get_level_for_price
      <4>5. CASE price_to_index(orders[o].price) = slot
        <5>1. i \in 1 .. Len(queue) /\ queue[i] = o
          BY <4>4, <4>5 DEF level
        <5>2. i \in 1 .. Len(new.orders) /\ new.orders[i] = o
          BY <5>1, <2>3, <2>4
        <5> QED
          BY <2>5, <2>6, <4>1, <4>5, <5>2
      <4>6. CASE price_to_index(orders[o].price) # slot
        BY <2>6, <4>1, <4>2, <4>3, <4>4, <4>6
      <4> QED
        BY <4>5, <4>6
    <3> QED
      BY <3>1, <3>2
  <2>13. Listed'
    BY <2>2, <2>7 DEF Structure, Listed
  <2>14. Sorted'
    <3> SUFFICES ASSUME NEW side \in Sides
                 PROVE  SideSorted(side)'
      BY DEF Sorted
    <3>1. \A i \in 1 .. Len(levels_by_price[side]) :
            /\ map_price_to_price_level'[levels_by_price[side][i]] # None
            /\ map_price_to_price_level'[levels_by_price[side][i]].side = side
            /\ map_price_to_price_level'[levels_by_price[side][i]].price
                 = map_price_to_price_level[levels_by_price[side][i]].price
      BY <2>7, ListedLevel DEF Structure
    <3>2. \A i, j \in 1 .. Len(levels_by_price[side]) : i < j =>
            MoreAggressive(side, map_price_to_price_level[levels_by_price[side][i]].price,
                                 map_price_to_price_level[levels_by_price[side][j]].price)
      BY DEF Structure, Sorted, SideSorted
    <3> QED
      BY <2>2, <3>1, <3>2 DEF SideSorted
  <2> QED
    BY <2>10, <2>11, <2>12, <2>13, <2>14 DEF Structure
<1> QED
  BY <1>6, <1>7

(* A resting order leaves the queue of its price, and the last one takes   *)
(* the level with it.                                                      *)
LEMMA RemoveOrder ==
  ASSUME TypeOK, Structure, NEW oid \in DOMAIN orders, remove_order_from_book(oid)
  PROVE  BookTypeOK' /\ Structure'
<1> DEFINE order == orders[oid]
           slot  == price_to_index(order.price)
           level == map_price_to_price_level[slot]
           queue == level.orders
<1>1. order \in BookOrder /\ order.price \in Int /\ order.side \in Sides
      /\ order.client \in Clients /\ order.coid \in OrderIds
  BY PricesAreIntegers DEF TypeOK, BookOrder
<1>2. slot \in Slots
  BY <1>1, Slot
<1>3. level # None /\ \E i \in 1 .. Len(queue) : queue[i] = oid
  BY DEF Structure, Queued, get_level_for_price
<1>4. level \in PriceLevel /\ queue \in Seq(1 .. MaxOrders) /\ QueueWellFormed(slot, level)
  BY <1>2, <1>3, LevelType DEF Structure, Queues
<1>5. level.side = order.side
  BY <1>3, <1>4 DEF QueueWellFormed
<1>6. /\ orders' = [o \in DOMAIN orders \ {oid} |-> orders[o]]
      /\ map_client_id_to_order' =
           [map_client_id_to_order EXCEPT ![order.client][order.coid] = None]
  BY DEF remove_order_from_book
<1>7. /\ DOMAIN orders' = DOMAIN orders \ {oid}
      /\ \A o \in DOMAIN orders' : orders'[o] = orders[o]
      /\ orders' \in [DOMAIN orders' -> BookOrder]
  BY <1>6 DEF TypeOK
<1>8. map_client_id_to_order' \in [Clients -> [OrderIds -> 1 .. MaxOrders \cup {None}]]
  BY <1>1, <1>6 DEF TypeOK
<1>9. \A s \in Slots : s # slot /\ map_price_to_price_level[s] # None =>
        \A i \in 1 .. Len(map_price_to_price_level[s].orders) :
          map_price_to_price_level[s].orders[i] \in DOMAIN orders'
  BY <1>7 DEF Structure, Queues, QueueWellFormed
<1>10. \A s \in Slots : s # slot /\ map_price_to_price_level[s] # None
                        /\ map_price_to_price_level'[s] = map_price_to_price_level[s] =>
         QueueWellFormed(s, map_price_to_price_level[s])'
  <2> SUFFICES ASSUME NEW s \in Slots, s # slot, map_price_to_price_level[s] # None,
                      map_price_to_price_level'[s] = map_price_to_price_level[s]
               PROVE  QueueWellFormed(s, map_price_to_price_level[s])'
    OBVIOUS
  <2>1. QueueWellFormed(s, map_price_to_price_level[s])
    BY DEF Structure, Queues
  <2> QED
    BY <1>7, <1>9, <2>1 DEF QueueWellFormed
<1>11. ASSUME NEW o \in DOMAIN orders'
       PROVE  /\ o \in DOMAIN orders /\ o # oid /\ orders'[o] = orders[o]
              /\ price_to_index(orders[o].price) \in Slots
              /\ map_price_to_price_level[price_to_index(orders[o].price)] # None
              /\ \E i \in 1 .. Len(map_price_to_price_level[price_to_index(orders[o].price)].orders) :
                   map_price_to_price_level[price_to_index(orders[o].price)].orders[i] = o
  <2>1. o \in DOMAIN orders /\ o # oid /\ orders'[o] = orders[o]
    BY <1>7
  <2>2. orders[o].price \in Int
    BY <2>1, PricesAreIntegers DEF TypeOK, BookOrder
  <2> QED
    BY <2>1, <2>2, Slot DEF Structure, Queued, get_level_for_price
<1>12. CASE Len(queue) = 1
  <2> DEFINE list  == levels_by_price[order.side]
             list1 == RemoveFirst(list, slot)
  <2>1. /\ map_price_to_price_level' = [map_price_to_price_level EXCEPT ![slot] = None]
        /\ levels_by_price' = [levels_by_price EXCEPT ![order.side] = list1]
    BY <1>12 DEF remove_order_from_book
  <2>2. \A i \in 1 .. Len(queue) : queue[i] = oid
    BY <1>3, <1>12
  <2>3. list \in Seq(Slots) /\ Len(list) \in Nat
    BY <1>1, LenProperties DEF TypeOK
  <2>4. \E i \in 1 .. Len(list) : list[i] = slot
    BY <1>2, <1>3, <1>5 DEF Structure, Listed
  <2> HIDE DEF list, slot
  <2>5. list1 \in Seq(Slots) /\ Len(list1) = Len(list) - 1
    BY <2>3, <2>4, RemovedFirst
  <2>6. PICK p \in 1 .. Len(list) :
          /\ list[p] = slot
          /\ \A k \in 1 .. Len(list) - 1 : list1[k] = IF k < p THEN list[k] ELSE list[k + 1]
    BY <2>3, <2>4, RemovedFirst
  <2> HIDE DEF list1
  <2>7. /\ map_price_to_price_level' \in [Slots -> PriceLevel \cup {None}]
        /\ map_price_to_price_level'[slot] = None
        /\ \A s \in Slots : s # slot =>
             map_price_to_price_level'[s] = map_price_to_price_level[s]
    BY <1>2, <2>1 DEF TypeOK
  <2>8. levels_by_price' \in [Sides -> Seq(Slots)]
        /\ levels_by_price'[order.side] = list1
        /\ \A side \in Sides : side # order.side => levels_by_price'[side] = levels_by_price[side]
    BY <1>1, <2>1, <2>5 DEF TypeOK
  <2>9. BookTypeOK'
    BY <1>7, <1>8, <2>7, <2>8 DEF BookTypeOK, TypeOK
  <2>10. Queues'
    BY <1>10, <2>7 DEF Queues
  <2>11. Queued'
    <3> SUFFICES ASSUME NEW o \in DOMAIN orders'
                 PROVE  LET l == map_price_to_price_level'[price_to_index(orders'[o].price)]
                        IN l # None /\ \E i \in 1 .. Len(l.orders) : l.orders[i] = o
      BY DEF Queued, get_level_for_price, price_to_index
    <3>1. price_to_index(orders[o].price) # slot
      BY <1>11, <2>2
    <3> QED
      BY <1>11, <2>7, <3>1
  <2>12. Listed'
    <3> SUFFICES ASSUME NEW s \in Slots, map_price_to_price_level'[s] # None
                 PROVE  LET l == levels_by_price'[map_price_to_price_level'[s].side]
                        IN \E i \in 1 .. Len(l) : l[i] = s
      BY DEF Listed
    <3>1. s # slot /\ map_price_to_price_level'[s] = map_price_to_price_level[s]
      BY <2>7
    <3>2. map_price_to_price_level[s].side \in Sides
      BY <3>1, LevelType
    <3>3. PICK i \in 1 .. Len(levels_by_price[map_price_to_price_level[s].side]) :
            levels_by_price[map_price_to_price_level[s].side][i] = s
      BY <3>1 DEF Structure, Listed
    <3>4. CASE map_price_to_price_level[s].side = order.side
      <4>1. i \in 1 .. Len(list) /\ list[i] = s
        BY <3>3, <3>4 DEF list
      <4>2. CASE i < p
        <5>1. i \in 1 .. Len(list1) /\ list1[i] = s
          BY <2>3, <2>5, <2>6, <4>1, <4>2
        <5> QED
          BY <2>8, <3>1, <3>4, <5>1
      <4>3. CASE i > p
        <5>1. i - 1 \in 1 .. Len(list1) /\ list1[i - 1] = s
          BY <2>3, <2>5, <2>6, <4>1, <4>3
        <5> QED
          BY <2>8, <3>1, <3>4, <5>1
      <4> QED
        BY <2>3, <2>6, <3>1, <4>1, <4>2, <4>3
    <3>5. CASE map_price_to_price_level[s].side # order.side
      BY <2>8, <3>1, <3>2, <3>3, <3>5
    <3> QED
      BY <3>4, <3>5
  <2>13. Sorted'
    <3> SUFFICES ASSUME NEW side \in Sides
                 PROVE  SideSorted(side)'
      BY DEF Sorted
    <3> DEFINE P(s) == map_price_to_price_level[s].price
    <3>1. \A i \in 1 .. Len(levels_by_price[side]) :
            /\ levels_by_price[side][i] \in Slots
            /\ map_price_to_price_level[levels_by_price[side][i]] # None
            /\ map_price_to_price_level[levels_by_price[side][i]].side = side
            /\ P(levels_by_price[side][i]) \in Int
      BY ListedLevel DEF Structure
    <3>2. \A i, j \in 1 .. Len(levels_by_price[side]) : i < j =>
            MoreAggressive(side, P(levels_by_price[side][i]), P(levels_by_price[side][j]))
      BY DEF Structure, Sorted, SideSorted
    <3>3. CASE side # order.side
      <4>1. levels_by_price'[side] = levels_by_price[side]
        BY <2>8, <3>3
      <4>2. \A i \in 1 .. Len(levels_by_price[side]) : levels_by_price[side][i] # slot
        BY <1>5, <3>1, <3>3 DEF slot
      <4>3. \A i \in 1 .. Len(levels_by_price[side]) :
              map_price_to_price_level'[levels_by_price[side][i]]
                = map_price_to_price_level[levels_by_price[side][i]]
        BY <2>7, <3>1, <4>2
      <4> QED
        BY SMTT(30), <3>1, <3>2, <4>1, <4>3 DEF SideSorted
    <3>4. CASE side = order.side
      <4>1. ASSUME NEW k \in 1 .. Len(list1)
            PROVE  \E j \in 1 .. Len(list) :
                     j = (IF k < p THEN k ELSE k + 1) /\ j # p /\ list1[k] = list[j]
        BY <2>3, <2>5, <2>6
      <4>2. \A j \in 1 .. Len(list) : j # p => list[j] # slot
        <5> SUFFICES ASSUME NEW j \in 1 .. Len(list), j # p, list[j] = slot
                     PROVE  FALSE
          OBVIOUS
        <5>1. P(list[j]) \in Int /\ P(list[p]) = P(list[j])
          BY <2>6, <3>1, <3>4 DEF list
        <5>2. j < p \/ p < j
          BY <2>3
        <5>3. MoreAggressive(side, P(list[j]), P(list[p]))
              \/ MoreAggressive(side, P(list[p]), P(list[j]))
          BY <3>2, <3>4, <5>2 DEF list
        <5> QED
          BY <5>1, <5>3 DEF MoreAggressive
      <4>3. \A k \in 1 .. Len(list1) :
              map_price_to_price_level'[list1[k]] = map_price_to_price_level[list1[k]]
              /\ map_price_to_price_level[list1[k]] # None
              /\ map_price_to_price_level[list1[k]].side = side
        <5> SUFFICES ASSUME NEW k \in 1 .. Len(list1)
                     PROVE  map_price_to_price_level'[list1[k]] = map_price_to_price_level[list1[k]]
                            /\ map_price_to_price_level[list1[k]] # None
                            /\ map_price_to_price_level[list1[k]].side = side
          OBVIOUS
        <5>1. PICK j \in 1 .. Len(list) : j # p /\ list1[k] = list[j]
          BY <4>1
        <5>2. /\ list[j] \in Slots /\ map_price_to_price_level[list[j]] # None
              /\ map_price_to_price_level[list[j]].side = side
          BY <3>1, <3>4 DEF list
        <5> QED
          BY <2>7, <4>2, <5>1, <5>2
      <4>4. \A i, j \in 1 .. Len(list1) : i < j => MoreAggressive(side, P(list1[i]), P(list1[j]))
        <5> SUFFICES ASSUME NEW i \in 1 .. Len(list1), NEW j \in 1 .. Len(list1), i < j
                     PROVE  MoreAggressive(side, P(list1[i]), P(list1[j]))
          OBVIOUS
        <5>1. PICK i1 \in 1 .. Len(list) : i1 = (IF i < p THEN i ELSE i + 1) /\ list1[i] = list[i1]
          BY <4>1
        <5>2. PICK j1 \in 1 .. Len(list) : j1 = (IF j < p THEN j ELSE j + 1) /\ list1[j] = list[j1]
          BY <4>1
        <5>3. i1 < j1
          BY <2>3, <2>5, <2>6, <5>1, <5>2
        <5> QED
          BY <3>2, <3>4, <5>1, <5>2, <5>3 DEF list
      <4> QED
        BY <2>8, <3>4, <4>3, <4>4 DEF SideSorted
    <3> QED
      BY <3>3, <3>4
  <2> QED
    BY <2>9, <2>10, <2>11, <2>12, <2>13 DEF Structure
<1>13. CASE Len(queue) # 1
  <2> DEFINE queue1 == RemoveFirst(queue, oid)
             new == [level EXCEPT !.orders = queue1]
  <2>1. /\ map_price_to_price_level' = [map_price_to_price_level EXCEPT ![slot] = new]
        /\ levels_by_price' = levels_by_price
    BY <1>2, <1>13 DEF remove_order_from_book, TypeOK
  <2> HIDE DEF queue
  <2>2. queue1 \in Seq(1 .. MaxOrders) /\ Len(queue1) = Len(queue) - 1 /\ Len(queue) \in Nat
    BY <1>3, <1>4, RemovedFirst, LenProperties
  <2>3. PICK p \in 1 .. Len(queue) :
          /\ queue[p] = oid
          /\ \A k \in 1 .. Len(queue) - 1 : queue1[k] = IF k < p THEN queue[k] ELSE queue[k + 1]
    BY <1>3, <1>4, RemovedFirst
  <2>4. Len(queue1) > 0 /\ queue1 # <<>>
    BY <1>13, <2>2, <2>3
  <2> HIDE DEF queue1
  <2>5. /\ new \in PriceLevel /\ new.orders = queue1
        /\ new.side = level.side /\ new.price = level.price
    BY <1>4, <2>2 DEF PriceLevel
  <2> HIDE DEF new
  <2>6. new # None
    BY <2>5, OMEAssumption
  <2>7. map_price_to_price_level' \in [Slots -> PriceLevel \cup {None}]
        /\ map_price_to_price_level'[slot] = new
        /\ \A s \in Slots : s # slot =>
             map_price_to_price_level'[s] = map_price_to_price_level[s]
    BY <1>2, <2>1, <2>5 DEF TypeOK
  <2>8. \A s \in Slots :
          /\ map_price_to_price_level'[s] # None <=> map_price_to_price_level[s] # None
          /\ map_price_to_price_level[s] # None =>
               /\ map_price_to_price_level'[s].side = map_price_to_price_level[s].side
               /\ map_price_to_price_level'[s].price = map_price_to_price_level[s].price
    BY <1>3, <2>5, <2>6, <2>7
  <2>9. ASSUME NEW k \in 1 .. Len(queue1)
        PROVE  \E j \in 1 .. Len(queue) :
                 j = (IF k < p THEN k ELSE k + 1) /\ j # p /\ queue1[k] = queue[j]
    BY <2>2, <2>3
  <2>10. /\ \A i \in 1 .. Len(queue) :
              /\ queue[i] \in DOMAIN orders
              /\ orders[queue[i]].side = level.side
              /\ price_to_index(orders[queue[i]].price) = slot
         /\ \A i, j \in 1 .. Len(queue) : i < j =>
              queue[i] < queue[j] /\ orders[queue[i]].priority < orders[queue[j]].priority
         /\ price_to_index(level.price) = slot
    BY <1>4 DEF QueueWellFormed, queue
  <2>11. \A j \in 1 .. Len(queue) : j # p => queue[j] # oid
    <3> SUFFICES ASSUME NEW j \in 1 .. Len(queue), j # p, queue[j] = oid
                 PROVE  FALSE
      OBVIOUS
    <3>1. oid \in Nat
      BY ParticipantsAssumption DEF TypeOK
    <3>2. j < p \/ p < j
      BY <2>2
    <3>3. oid < oid
      BY <2>3, <2>10, <3>2
    <3> QED
      BY <3>1, <3>3
  <2> HIDE DEF slot, level
  <2>12. BookTypeOK'
    BY <1>7, <1>8, <2>1, <2>7 DEF BookTypeOK, TypeOK
  <2>13. Queues'
    <3> SUFFICES ASSUME NEW s \in Slots, map_price_to_price_level'[s] # None
                 PROVE  QueueWellFormed(s, map_price_to_price_level[s])'
      BY DEF Queues
    <3>1. CASE s = slot
      <4>1. \A i \in 1 .. Len(queue1) :
              /\ queue1[i] \in DOMAIN orders' /\ orders'[queue1[i]] = orders[queue1[i]]
              /\ orders'[queue1[i]].side = level.side
              /\ price_to_index(orders'[queue1[i]].price) = slot
        BY <1>7, <2>9, <2>10, <2>11
      <4>2. \A i, j \in 1 .. Len(queue1) : i < j =>
              queue1[i] < queue1[j] /\ orders'[queue1[i]].priority < orders'[queue1[j]].priority
        <5> SUFFICES ASSUME NEW i \in 1 .. Len(queue1), NEW j \in 1 .. Len(queue1), i < j
                     PROVE  queue1[i] < queue1[j]
                            /\ orders[queue1[i]].priority < orders[queue1[j]].priority
          BY <4>1
        <5>1. PICK i1 \in 1 .. Len(queue) :
                i1 = (IF i < p THEN i ELSE i + 1) /\ queue1[i] = queue[i1]
          BY <2>9
        <5>2. PICK j1 \in 1 .. Len(queue) :
                j1 = (IF j < p THEN j ELSE j + 1) /\ queue1[j] = queue[j1]
          BY <2>9
        <5>3. i1 < j1
          BY <2>2, <2>3, <5>1, <5>2
        <5> QED
          BY <2>10, <5>1, <5>2, <5>3
      <4> QED
        BY <2>4, <2>5, <2>7, <2>10, <3>1, <4>1, <4>2 DEF QueueWellFormed, price_to_index
    <3>2. CASE s # slot
      BY <1>10, <2>7, <3>2 DEF slot
    <3> QED
      BY <3>1, <3>2
  <2>14. Queued'
    <3> SUFFICES ASSUME NEW o \in DOMAIN orders'
                 PROVE  LET l == map_price_to_price_level'[price_to_index(orders'[o].price)]
                        IN l # None /\ \E i \in 1 .. Len(l.orders) : l.orders[i] = o
      BY DEF Queued, get_level_for_price, price_to_index
    <3>1. CASE price_to_index(orders[o].price) = slot
      <4>1. PICK i \in 1 .. Len(queue) : queue[i] = o
        BY <1>11, <3>1 DEF queue, level
      <4>2. i # p
        BY <1>11, <2>3, <4>1
      <4>3. CASE i < p
        <5>1. i \in 1 .. Len(queue1) /\ queue1[i] = o
          BY <2>2, <2>3, <4>1, <4>3
        <5> QED
          BY <1>11, <2>5, <2>6, <2>7, <3>1, <5>1
      <4>4. CASE i > p
        <5>1. i - 1 \in 1 .. Len(queue1) /\ queue1[i - 1] = o
          BY <2>2, <2>3, <4>1, <4>4
        <5> QED
          BY <1>11, <2>5, <2>6, <2>7, <3>1, <5>1
      <4> QED
        BY <2>2, <2>3, <4>1, <4>2, <4>3, <4>4
    <3>2. CASE price_to_index(orders[o].price) # slot
      BY <1>11, <2>7, <3>2
    <3> QED
      BY <3>1, <3>2
  <2>15. Listed'
    BY <2>1, <2>8 DEF Structure, Listed
  <2>16. Sorted'
    <3> SUFFICES ASSUME NEW side \in Sides
                 PROVE  SideSorted(side)'
      BY DEF Sorted
    <3>1. \A i \in 1 .. Len(levels_by_price[side]) :
            /\ map_price_to_price_level'[levels_by_price[side][i]] # None
            /\ map_price_to_price_level'[levels_by_price[side][i]].side = side
            /\ map_price_to_price_level'[levels_by_price[side][i]].price
                 = map_price_to_price_level[levels_by_price[side][i]].price
      BY <2>8, ListedLevel DEF Structure
    <3>2. \A i, j \in 1 .. Len(levels_by_price[side]) : i < j =>
            MoreAggressive(side, map_price_to_price_level[levels_by_price[side][i]].price,
                                 map_price_to_price_level[levels_by_price[side][j]].price)
      BY DEF Structure, Sorted, SideSorted
    <3> QED
      BY <2>1, <3>1, <3>2 DEF SideSorted
  <2> QED
    BY <2>12, <2>13, <2>14, <2>15, <2>16 DEF Structure
<1> QED
  BY <1>12, <1>13

(* A resting order that is partly filled keeps its place.                  *)
LEMMA ShrinkOrder ==
  ASSUME TypeOK, Structure, NEW oid \in DOMAIN orders, NEW qty \in Nat \ {0},
         orders' = [orders EXCEPT ![oid].qty = qty],
         UNCHANGED <<map_price_to_price_level, levels_by_price, map_client_id_to_order>>
  PROVE  BookTypeOK' /\ Structure'
<1>1. /\ DOMAIN orders' = DOMAIN orders
      /\ orders' \in [DOMAIN orders -> BookOrder]
      /\ \A o \in DOMAIN orders : /\ orders'[o].side = orders[o].side
                                  /\ orders'[o].price = orders[o].price
                                  /\ orders'[o].priority = orders[o].priority
  BY DEF TypeOK, BookOrder
<1>2. BookTypeOK'
  BY <1>1 DEF BookTypeOK, TypeOK
<1>3. Queues'
  <2> SUFFICES ASSUME NEW slot \in Slots, map_price_to_price_level[slot] # None
               PROVE  QueueWellFormed(slot, map_price_to_price_level[slot])'
    BY DEF Queues
  <2>1. QueueWellFormed(slot, map_price_to_price_level[slot])
    BY DEF Structure, Queues
  <2> QED
    BY <1>1, <2>1 DEF QueueWellFormed, price_to_index
<1>4. Queued'
  BY <1>1 DEF Structure, Queued, get_level_for_price, price_to_index
<1>5. Listed' /\ Sorted'
  BY DEF Structure, Listed, Sorted, SideSorted
<1> QED
  BY <1>2, <1>3, <1>4, <1>5 DEF Structure

-----------------------------------------------------------------------------
(* What the head of a side's list is.                                      *)

(* Where prices do not share slots, an order has its level's price.        *)
LEMMA PriceOfLevel ==
  ASSUME DistinctSlots, TypeOK, Structure, NEW o \in DOMAIN orders
  PROVE  get_level_for_price(orders[o].price).price = orders[o].price
<1>1. orders[o].price \in Prices /\ price_to_index(orders[o].price) \in Slots
  BY PricesAreIntegers, Slot DEF TypeOK, BookOrder
<1>2. get_level_for_price(orders[o].price) # None
  BY DEF Structure, Queued
<1>3. get_level_for_price(orders[o].price).price \in Prices
  BY <1>1, <1>2, LevelType DEF get_level_for_price, PriceLevel
<1>4. price_to_index(get_level_for_price(orders[o].price).price) = price_to_index(orders[o].price)
  BY <1>1, <1>2 DEF Structure, Queues, QueueWellFormed, get_level_for_price
<1> QED
  BY <1>1, <1>3, <1>4 DEF DistinctSlots, price_to_index

(* An order is in a level of its side.                                     *)
LEMMA SideOfLevel ==
  ASSUME TypeOK, Structure, NEW o \in DOMAIN orders
  PROVE  get_level_for_price(orders[o].price).side = orders[o].side
<1>1. price_to_index(orders[o].price) \in Slots
  BY PricesAreIntegers, Slot DEF TypeOK, BookOrder
<1>2. PICK i \in 1 .. Len(get_level_for_price(orders[o].price).orders) :
        get_level_for_price(orders[o].price).orders[i] = o
  BY DEF Structure, Queued
<1>3. QueueWellFormed(price_to_index(orders[o].price), get_level_for_price(orders[o].price))
  BY <1>1 DEF Structure, Queues, Queued, get_level_for_price
<1> QED
  BY <1>2, <1>3 DEF QueueWellFormed

(* The order find_match looks at rests on the other side, and where prices *)
(* do not share slots it is the first in price-time priority there.        *)
LEMMA BestIsFirst ==
  ASSUME TypeOK, Structure, incoming # None, HasOpposite
  PROVE  /\ BestOpposite \in DOMAIN orders
         /\ orders[BestOpposite].side = Opposite(incoming.side)
         /\ DistinctSlots =>
              \A o \in DOMAIN orders : orders[o].side = Opposite(incoming.side) =>
                \/ o = BestOpposite
                \/ MoreAggressive(orders[o].side, orders[BestOpposite].price, orders[o].price)
                \/ orders[BestOpposite].price = orders[o].price /\ BestOpposite < o
<1> DEFINE side == Opposite(incoming.side)
           list == levels_by_price[side]
           best == map_price_to_price_level[list[1]]
<1>1. side \in Sides
  BY DEF Opposite, Sides
<1>2. list \in Seq(Slots) /\ list # <<>>
  BY <1>1 DEF TypeOK, HasOpposite
<1>3. Len(list) \in Nat /\ 1 \in 1 .. Len(list) /\ Head(list) = list[1]
  BY <1>2, EmptySeq
<1>4. /\ list[1] \in Slots /\ best # None /\ best.side = side /\ best.price \in Int
  BY <1>1, <1>3, ListedLevel DEF Structure
<1>5. best.orders \in Seq(1 .. MaxOrders) /\ QueueWellFormed(list[1], best)
  BY <1>4, LevelType DEF Structure, Queues
<1>6. /\ Len(best.orders) \in Nat /\ 1 \in 1 .. Len(best.orders)
      /\ Head(best.orders) = best.orders[1]
  <2>1. best.orders # <<>>
    BY <1>5 DEF QueueWellFormed
  <2> QED
    BY <1>5, <2>1, EmptySeq
<1>7. BestOpposite = best.orders[1]
  BY <1>3, <1>6 DEF BestOpposite
<1>8. BestOpposite \in DOMAIN orders /\ orders[BestOpposite].side = side
      /\ price_to_index(orders[BestOpposite].price) = list[1]
  BY <1>4, <1>5, <1>6, <1>7 DEF QueueWellFormed
<1>9. ASSUME DistinctSlots, NEW o \in DOMAIN orders, orders[o].side = side
      PROVE  \/ o = BestOpposite
             \/ MoreAggressive(side, orders[BestOpposite].price, orders[o].price)
             \/ orders[BestOpposite].price = orders[o].price /\ BestOpposite < o
  <2> DEFINE slot == price_to_index(orders[o].price)
             level == map_price_to_price_level[slot]
  <2>1. slot \in Slots
    BY PricesAreIntegers, Slot DEF TypeOK, BookOrder
  <2>2. level # None /\ level.price = orders[o].price /\ level.side = side
    BY <1>9, PriceOfLevel, SideOfLevel DEF get_level_for_price, Structure, Queued
  <2>3. best.price = orders[BestOpposite].price
    BY <1>8, <1>9, PriceOfLevel DEF get_level_for_price
  <2>4. PICK k \in 1 .. Len(list) : list[k] = slot
    BY <2>1, <2>2 DEF Structure, Listed
  <2>5. CASE k = 1
    <3>1. PICK i \in 1 .. Len(best.orders) : best.orders[i] = o
      BY <2>4, <2>5 DEF Structure, Queued, get_level_for_price
    <3>2. i = 1 \/ 1 < i
      BY <1>6
    <3>3. \A j \in 1 .. Len(best.orders) : 1 < j => best.orders[1] < best.orders[j]
      BY <1>5, <1>6 DEF QueueWellFormed
    <3> QED
      BY <1>7, <2>2, <2>3, <2>4, <2>5, <3>1, <3>2, <3>3
  <2>6. CASE k # 1
    <3>1. MoreAggressive(side, best.price, level.price)
      BY <1>1, <1>3, <2>4, <2>6 DEF Structure, Sorted, SideSorted
    <3> QED
      BY <2>2, <2>3, <3>1
  <2> QED
    BY <2>5, <2>6
<1> QED
  BY <1>8, <1>9

-----------------------------------------------------------------------------
(* The invariant, one action after the other.                              *)

LEMMA InitIInv == Init => IInv
<1> SUFFICES ASSUME Init
             PROVE  IInv
  OBVIOUS
<1>1. DOMAIN orders = {} /\ incoming = None
  BY DEF Init
<1>2. TypeOK
  <2>1. orders \in [DOMAIN orders -> BookOrder]
    BY DEF Init
  <2>2. map_price_to_price_level \in [Slots -> PriceLevel \cup {None}]
    BY DEF Init
  <2>3. levels_by_price \in [Sides -> Seq(Slots)]
    BY DEF Init
  <2>4. map_client_id_to_order \in [Clients -> [OrderIds -> 1 .. MaxOrders \cup {None}]]
    BY DEF Init
  <2>5. next_market_oid \in 1 .. MaxOrders + 1 /\ alive \in BOOLEAN
    BY ParticipantsAssumption DEF Init
  <2> QED
    BY <1>1, <2>1, <2>2, <2>3, <2>4, <2>5 DEF TypeOK
<1>3. \A slot \in Slots : map_price_to_price_level[slot] = None
  BY DEF Init
<1>4. Queues /\ Listed
  BY <1>3 DEF Queues, Listed
<1>5. Sorted
  BY DEF Init, Sorted, SideSorted
<1>6. NoDanglingEntry
  BY DEF Init, NoDanglingEntry
<1> QED
  BY <1>1, <1>2, <1>4, <1>5, <1>6
     DEF IInv, ArrivalOrder, OnlyQuotes, Queued, EveryOrderHasEntry, NotCrossed

(* A step that leaves the book alone leaves its structure alone.           *)
LEMMA BookUnchanged ==
  ASSUME IInv, UNCHANGED book
  PROVE  BookTypeOK' /\ Structure' /\ NoDanglingEntry' /\ (DistinctSlots => NotCrossed')
<1>1. BookTypeOK'
  BY DEF IInv, TypeOK, BookTypeOK, book
<1>2. Queues'
  BY DEF IInv, Queues, QueueWellFormed, book, price_to_index
<1>3. Queued'
  BY DEF IInv, Queued, get_level_for_price, book, price_to_index
<1>4. Listed' /\ Sorted'
  BY DEF IInv, Listed, Sorted, SideSorted, book
<1>5. NoDanglingEntry' /\ (DistinctSlots => NotCrossed')
  BY DEF IInv, NoDanglingEntry, NotCrossed, book
<1> QED
  BY <1>1, <1>2, <1>3, <1>4, <1>5 DEF Structure

(* What the parts of the invariant amount to.                              *)
LEMMA Assemble ==
  ASSUME BookTypeOK', Structure',
         next_market_oid' \in 1 .. MaxOrders + 1,
         incoming' \in IncomingOrder \cup {None},
         alive' \in BOOLEAN,
         ArrivalOrder', OnlyQuotes', NoDanglingEntry',
         UniqueIds => EveryOrderHasEntry', DistinctSlots => NotCrossed'
  PROVE  IInv'
<1>1. TypeOK'
  BY DEF BookTypeOK, TypeOK
<1> QED
  BY <1>1 DEF IInv, Structure

LEMMA NewOrderIInv ==
  ASSUME IInv, NEW client \in Clients, NEW coid \in RequestIds, NEW quote \in Quotes,
         NEW qty \in Quantities, NewOrder(client, coid, quote[1], quote[2], qty)
  PROVE  IInv'
<1> DEFINE new == [oid |-> next_market_oid, client |-> client, coid |-> coid,
                   side |-> quote[1], price |-> quote[2], qty |-> qty]
<1>1. /\ incoming' = new /\ next_market_oid' = next_market_oid + 1
      /\ next_market_oid \in 1 .. MaxOrders
      /\ UNCHANGED book /\ alive' = alive /\ IdIsFree(client, coid)
  BY DEF NewOrder, IInv, TypeOK
<1>2. quote[1] \in Sides /\ quote[2] \in Prices /\ qty \in Nat
      /\ <<quote[1], quote[2]>> = quote
  BY ParticipantsAssumption DEF Prices
<1>3. new \in IncomingOrder
  BY <1>1, <1>2 DEF IncomingOrder
<1>4. next_market_oid' \in 1 .. MaxOrders + 1
  BY <1>1, ParticipantsAssumption
<1>5. ArrivalOrder'
  <2>1. \A o \in DOMAIN orders : o \in Nat /\ o < next_market_oid
    BY ParticipantsAssumption DEF IInv, ArrivalOrder, TypeOK
  <2> QED
    BY <1>1, <2>1 DEF ArrivalOrder, book
<1>6. OnlyQuotes'
  BY <1>1, <1>2 DEF IInv, OnlyQuotes, book
<1>7. UniqueIds => EveryOrderHasEntry'
  BY <1>1 DEF IInv, EveryOrderHasEntry, IdIsFree, book
<1>8. alive' \in BOOLEAN
  BY <1>1 DEF IInv, TypeOK
<1> QED
  BY <1>1, <1>3, <1>4, <1>5, <1>6, <1>7, <1>8, BookUnchanged, Assemble

(* What holds of the orders that stay on the book still holds.             *)
LEMMA OrdersStay ==
  ASSUME IInv,
         DOMAIN orders' \subseteq DOMAIN orders,
         \A o \in DOMAIN orders' :
           /\ orders'[o].client = orders[o].client /\ orders'[o].coid = orders[o].coid
           /\ orders'[o].side = orders[o].side /\ orders'[o].price = orders[o].price,
         UNCHANGED next_market_oid,
         \/ incoming' = None
         \/ /\ incoming # None
            /\ incoming'.oid = incoming.oid
            /\ incoming'.side = incoming.side /\ incoming'.price = incoming.price
  PROVE  /\ ArrivalOrder' /\ OnlyQuotes' /\ (DistinctSlots => NotCrossed')
         /\ next_market_oid' \in 1 .. MaxOrders + 1
<1>1. ArrivalOrder'
  BY DEF IInv, ArrivalOrder
<1>2. OnlyQuotes'
  BY DEF IInv, OnlyQuotes
<1>3. DistinctSlots => NotCrossed'
  BY DEF IInv, NotCrossed
<1> QED
  BY <1>1, <1>2, <1>3 DEF IInv, TypeOK

(* remove_order_from_book clears the entry of the order it removes, and no *)
(* other.                                                                  *)
LEMMA EntryRemoved ==
  ASSUME IInv, NEW oid \in DOMAIN orders, remove_order_from_book(oid),
         \/ incoming' = None
         \/ /\ incoming # None
            /\ incoming'.client = incoming.client /\ incoming'.coid = incoming.coid
  PROVE  NoDanglingEntry' /\ (UniqueIds => EveryOrderHasEntry')
<1> DEFINE client == orders[oid].client
           coid   == orders[oid].coid
<1>1. client \in Clients /\ coid \in OrderIds
  BY DEF IInv, TypeOK, BookOrder
<1>2. /\ DOMAIN orders' = DOMAIN orders \ {oid}
      /\ \A o \in DOMAIN orders' : orders'[o] = orders[o]
      /\ map_client_id_to_order' = [map_client_id_to_order EXCEPT ![client][coid] = None]
  BY DEF remove_order_from_book
<1>3. \A c \in Clients, i \in OrderIds :
        map_client_id_to_order'[c][i] =
          IF c = client /\ i = coid THEN None ELSE map_client_id_to_order[c][i]
  BY <1>1, <1>2 DEF IInv, TypeOK
<1>4. NoDanglingEntry'
  BY <1>2, <1>3 DEF IInv, NoDanglingEntry
<1>5. ASSUME UniqueIds
      PROVE  EveryOrderHasEntry'
  <2>1. \A o \in DOMAIN orders' :
          /\ orders[o].client \in Clients /\ orders[o].coid \in OrderIds
          /\ map_client_id_to_order[orders[o].client][orders[o].coid] = o
          /\ o # oid /\ o \in Nat
    BY <1>2, <1>5, ParticipantsAssumption DEF IInv, TypeOK, BookOrder, EveryOrderHasEntry
  <2>2. map_client_id_to_order[client][coid] = oid
    BY <1>5 DEF IInv, EveryOrderHasEntry
  <2>3. \A o \in DOMAIN orders' :
          map_client_id_to_order'[orders'[o].client][orders'[o].coid] = o
    BY <1>2, <1>3, <2>1, <2>2
  <2>4. ASSUME incoming' # None, incoming'.coid \in OrderIds
        PROVE  map_client_id_to_order'[incoming'.client][incoming'.coid] = None
    <3>1. incoming # None /\ incoming.client = incoming'.client /\ incoming.coid = incoming'.coid
      BY <2>4
    <3>2. incoming.client \in Clients
      BY <3>1 DEF IInv, TypeOK, IncomingOrder
    <3>3. map_client_id_to_order[incoming.client][incoming.coid] = None
      BY <1>5, <2>4, <3>1 DEF IInv, EveryOrderHasEntry
    <3> QED
      BY <1>3, <2>4, <3>1, <3>2, <3>3
  <2> QED
    BY <2>3, <2>4 DEF EveryOrderHasEntry
<1> QED
  BY <1>4, <1>5

LEMMA FillQtyRange ==
  ASSUME IInv, incoming # None, NEW o \in DOMAIN orders
  PROVE  /\ FillQty(o) \in Nat /\ orders[o].qty \in Nat \ {0} /\ incoming.qty \in Nat
         /\ FillQty(o) <= incoming.qty /\ FillQty(o) <= orders[o].qty
         /\ incoming.qty - FillQty(o) \in Nat /\ orders[o].qty - FillQty(o) \in Nat
<1>1. orders[o].qty \in Nat \ {0} /\ incoming.qty \in Nat
  BY DEF IInv, TypeOK, BookOrder, IncomingOrder
<1> QED
  BY <1>1 DEF FillQty

LEMMA MatchIInv ==
  ASSUME IInv, Match
  PROVE  IInv'
<1> DEFINE o == BestOpposite
           rest == incoming.qty - FillQty(o)
<1>1. incoming # None /\ HasOpposite
  BY DEF Match, CanMatch
<1>2. o \in DOMAIN orders
  BY <1>1, BestIsFirst DEF IInv, Structure
<1>3. /\ incoming' = [incoming EXCEPT !.qty = rest]
      /\ UNCHANGED <<next_market_oid, alive>>
  BY DEF Match
<1>4. rest \in Nat /\ FillQty(o) \in Nat /\ orders[o].qty \in Nat \ {0}
      /\ orders[o].qty - FillQty(o) \in Nat
  BY <1>1, <1>2, FillQtyRange
<1>5. incoming \in IncomingOrder
  BY <1>1 DEF IInv, TypeOK
<1> HIDE DEF rest
<1>6. /\ incoming' \in IncomingOrder
      /\ incoming'.oid = incoming.oid /\ incoming'.client = incoming.client
      /\ incoming'.coid = incoming.coid
      /\ incoming'.side = incoming.side /\ incoming'.price = incoming.price
  BY <1>3, <1>4, <1>5 DEF IncomingOrder
<1>7. CASE FillQty(o) = orders[o].qty
  <2>1. remove_order_from_book(o)
    BY <1>7 DEF Match
  <2>2. BookTypeOK' /\ Structure'
    BY <1>2, <2>1, RemoveOrder DEF IInv, Structure
  <2>3. DOMAIN orders' \subseteq DOMAIN orders /\ \A x \in DOMAIN orders' : orders'[x] = orders[x]
    BY <2>1 DEF remove_order_from_book
  <2>4. NoDanglingEntry' /\ (UniqueIds => EveryOrderHasEntry')
    BY <1>1, <1>2, <1>6, <2>1, EntryRemoved
  <2>5. /\ ArrivalOrder' /\ OnlyQuotes' /\ (DistinctSlots => NotCrossed')
        /\ next_market_oid' \in 1 .. MaxOrders + 1
    BY <1>1, <1>3, <1>6, <2>3, OrdersStay
  <2> QED
    BY <1>3, <1>6, <2>2, <2>4, <2>5, Assemble DEF IInv, TypeOK
<1>8. CASE FillQty(o) # orders[o].qty
  <2> DEFINE left == orders[o].qty - FillQty(o)
  <2>1. /\ orders' = [orders EXCEPT ![o].qty = left]
        /\ UNCHANGED <<map_price_to_price_level, levels_by_price, map_client_id_to_order>>
    BY <1>8 DEF Match
  <2>2. left \in Nat \ {0}
    BY <1>4, <1>8
  <2> HIDE DEF left
  <2>3. BookTypeOK' /\ Structure'
    BY <1>2, <2>1, <2>2, ShrinkOrder DEF IInv, Structure
  <2>4. /\ DOMAIN orders' = DOMAIN orders
        /\ \A x \in DOMAIN orders :
             /\ orders'[x].client = orders[x].client /\ orders'[x].coid = orders[x].coid
             /\ orders'[x].side = orders[x].side /\ orders'[x].price = orders[x].price
    BY <2>1 DEF IInv, TypeOK, BookOrder
  <2>5. NoDanglingEntry'
    BY <2>1, <2>4 DEF IInv, NoDanglingEntry
  <2>6. UniqueIds => EveryOrderHasEntry'
    BY <1>1, <1>6, <2>1, <2>4 DEF IInv, EveryOrderHasEntry
  <2>7. /\ ArrivalOrder' /\ OnlyQuotes' /\ (DistinctSlots => NotCrossed')
        /\ next_market_oid' \in 1 .. MaxOrders + 1
    BY <1>1, <1>3, <1>6, <2>4, OrdersStay
  <2> QED
    BY <1>3, <1>6, <2>3, <2>5, <2>6, <2>7, Assemble DEF IInv, TypeOK
<1> QED
  BY <1>7, <1>8

(* When find_match's loop has ended, the book has nothing that the rest of *)
(* the incoming order could trade with.                                    *)
LEMMA NothingToMatch ==
  ASSUME IInv, DistinctSlots, incoming # None, incoming.qty > 0, ~ CanMatch,
         NEW o \in DOMAIN orders, orders[o].side # incoming.side
  PROVE  MoreAggressive(incoming.side, orders[o].price, incoming.price)
<1>1. /\ incoming.side \in Sides /\ orders[o].side \in Sides
      /\ incoming.price \in Int /\ orders[o].price \in Int
  BY PricesAreIntegers DEF IInv, TypeOK, BookOrder, IncomingOrder
<1>2. orders[o].side = Opposite(incoming.side)
  BY <1>1 DEF Opposite, Sides
<1>3. HasOpposite
  <2>1. price_to_index(orders[o].price) \in Slots
    BY <1>1, Slot
  <2>2. /\ get_level_for_price(orders[o].price) # None
        /\ get_level_for_price(orders[o].price).side = orders[o].side
    BY SideOfLevel DEF IInv, Structure, Queued
  <2>3. PICK i \in 1 .. Len(levels_by_price[orders[o].side]) :
          levels_by_price[orders[o].side][i] = price_to_index(orders[o].price)
    BY <2>1, <2>2 DEF IInv, Listed, get_level_for_price
  <2> QED
    BY <1>2, <2>3 DEF HasOpposite
<1>4. MoreAggressive(incoming.side, orders[BestOpposite].price, incoming.price)
  BY <1>3 DEF CanMatch
<1>5. /\ BestOpposite \in DOMAIN orders
      /\ \/ o = BestOpposite
         \/ MoreAggressive(orders[o].side, orders[BestOpposite].price, orders[o].price)
         \/ orders[BestOpposite].price = orders[o].price
  BY <1>2, <1>3, BestIsFirst DEF IInv, Structure
<1>6. orders[BestOpposite].price \in Int
  BY <1>5, PricesAreIntegers DEF IInv, TypeOK, BookOrder
<1> QED
  BY <1>1, <1>4, <1>5, <1>6 DEF MoreAggressive, Sides

(* A level that the rest of an order joins is one of its own side.         *)
LEMMA JoinsItsSide ==
  ASSUME IInv, incoming # None, incoming.qty > 0, ~ CanMatch,
         get_level_for_price(incoming.price) # None
  PROVE  get_level_for_price(incoming.price).side = incoming.side
<1> DEFINE slot  == price_to_index(incoming.price)
           level == map_price_to_price_level[slot]
           o     == level.orders[1]
<1>1. /\ incoming.price \in Prices /\ incoming.price \in Int /\ incoming.side \in Sides
      /\ <<incoming.side, incoming.price>> \in Quotes
  BY PricesAreIntegers DEF IInv, TypeOK, OnlyQuotes, IncomingOrder
<1>2. slot \in Slots /\ level # None
  BY <1>1, Slot DEF get_level_for_price
<1>3. level.orders \in Seq(1 .. MaxOrders) /\ QueueWellFormed(slot, level)
  BY <1>2, LevelType DEF IInv, Queues
<1>4. 1 \in 1 .. Len(level.orders)
  <2>1. level.orders # <<>>
    BY <1>3 DEF QueueWellFormed
  <2> QED
    BY <1>3, <2>1, EmptySeq
<1>5. o \in DOMAIN orders /\ orders[o].side = level.side /\ price_to_index(orders[o].price) = slot
  BY <1>3, <1>4 DEF QueueWellFormed
<1>6. /\ <<orders[o].side, orders[o].price>> \in Quotes
      /\ orders[o].price \in Prices /\ orders[o].price \in Int
  BY <1>5, PricesAreIntegers DEF IInv, TypeOK, OnlyQuotes, BookOrder
<1>7. CASE DistinctSlots
  <2>1. orders[o].price = incoming.price
    BY <1>1, <1>5, <1>6, <1>7 DEF DistinctSlots, price_to_index
  <2>2. ~ MoreAggressive(incoming.side, orders[o].price, incoming.price)
    BY <1>1, <2>1 DEF MoreAggressive
  <2> QED
    BY <1>5, <1>7, <2>2, NothingToMatch DEF get_level_for_price
<1>8. CASE ~ DistinctSlots
  <2>1. <<orders[o].side, orders[o].price>>[2] % MAX_PRICE_LEVELS
          = <<incoming.side, incoming.price>>[2] % MAX_PRICE_LEVELS
    BY <1>5 DEF price_to_index
  <2>2. <<orders[o].side, orders[o].price>>[1] = <<incoming.side, incoming.price>>[1]
    BY <1>1, <1>6, <1>8, <2>1, SlotSideAssumption
  <2> QED
    BY <1>5, <2>2 DEF get_level_for_price
<1> QED
  BY <1>7, <1>8

LEMMA RestOrderType ==
  ASSUME IInv, incoming # None, incoming.qty > 0, ~ RestIsFatal
  PROVE  RestOrder \in BookOrder
<1> DEFINE slot  == price_to_index(incoming.price)
           level == map_price_to_price_level[slot]
<1>1. /\ incoming.client \in Clients /\ incoming.coid \in OrderIds /\ incoming.side \in Sides
      /\ incoming.price \in Prices /\ incoming.price \in Int /\ incoming.qty \in Nat \ {0}
  BY PricesAreIntegers DEF IInv, TypeOK, RestIsFatal, IncomingOrder
<1>2. get_next_priority(incoming.price) \in Nat \ {0}
  <2>1. CASE level = None
    BY <2>1 DEF get_next_priority, get_level_for_price
  <2>2. CASE level # None
    <3>1. slot \in Slots
      BY <1>1, Slot
    <3>2. level.orders \in Seq(1 .. MaxOrders) /\ QueueWellFormed(slot, level)
      BY <2>2, <3>1, LevelType DEF IInv, Queues
    <3>3. Len(level.orders) \in 1 .. Len(level.orders)
      <4>1. level.orders # <<>>
        BY <3>2 DEF QueueWellFormed
      <4> QED
        BY <3>2, <4>1, EmptySeq
    <3>4. Last(level.orders) \in DOMAIN orders
      BY <3>2, <3>3 DEF QueueWellFormed, Last
    <3>5. orders[Last(level.orders)].priority \in Nat \ {0}
      BY <3>4 DEF IInv, TypeOK, BookOrder
    <3> QED
      BY <2>2, <3>5 DEF get_next_priority, get_level_for_price
  <2> QED
    BY <2>1, <2>2
<1> QED
  BY <1>1, <1>2 DEF RestOrder, BookOrder

LEMMA RestIInv ==
  ASSUME IInv, Rest
  PROVE  IInv'
<1> DEFINE oid == incoming.oid
           order == RestOrder
<1>1. /\ incoming # None /\ incoming.qty > 0 /\ ~ CanMatch /\ ~ RestIsFatal
      /\ add_order_to_book(oid, order)
      /\ incoming' = None /\ UNCHANGED <<next_market_oid, alive>>
  BY DEF Rest
<1>2. order \in BookOrder
  BY <1>1, RestOrderType
<1>3. /\ order.client = incoming.client /\ order.coid = incoming.coid
      /\ order.side = incoming.side /\ order.price = incoming.price
      /\ order.priority = get_next_priority(incoming.price)
  BY DEF RestOrder
<1> HIDE DEF order
<1>4. oid \in 1 .. MaxOrders /\ oid < next_market_oid /\ \A o \in DOMAIN orders : o < oid
  BY <1>1 DEF IInv, TypeOK, ArrivalOrder, IncomingOrder
<1>5. BookTypeOK' /\ Structure'
  BY <1>1, <1>2, <1>3, <1>4, JoinsItsSide, AddOrder DEF IInv, Structure
<1>6. oid \notin DOMAIN orders
  <2>1. oid \in DOMAIN orders => oid < oid
    BY <1>4
  <2> QED
    BY <1>4, <2>1
<1>7. /\ DOMAIN orders' = DOMAIN orders \cup {oid}
      /\ orders'[oid] = order
      /\ \A o \in DOMAIN orders : orders'[o] = orders[o]
  BY <1>1, <1>6 DEF add_order_to_book
<1>8. ArrivalOrder'
  BY <1>1, <1>4, <1>7 DEF IInv, ArrivalOrder
<1>9. OnlyQuotes'
  BY <1>1, <1>3, <1>7 DEF IInv, OnlyQuotes
<1>10. incoming.client \in Clients /\ incoming.coid \in OrderIds
  BY <1>1 DEF IInv, TypeOK, RestIsFatal, IncomingOrder
<1>11. \A c \in Clients, i \in OrderIds :
         map_client_id_to_order'[c][i] =
           IF c = incoming.client /\ i = incoming.coid THEN oid ELSE map_client_id_to_order[c][i]
  BY <1>1, <1>3, <1>10 DEF add_order_to_book, IInv, TypeOK
<1>12. NoDanglingEntry'
  BY <1>3, <1>7, <1>11 DEF IInv, NoDanglingEntry
<1>13. ASSUME UniqueIds
       PROVE  EveryOrderHasEntry'
  <2>1. map_client_id_to_order[incoming.client][incoming.coid] = None
    BY <1>1, <1>10, <1>13 DEF IInv, EveryOrderHasEntry
  <2>2. \A o \in DOMAIN orders :
          /\ orders[o].client \in Clients /\ orders[o].coid \in OrderIds
          /\ map_client_id_to_order[orders[o].client][orders[o].coid] = o
          /\ o # None
    BY <1>13, OMEAssumption, ParticipantsAssumption DEF IInv, TypeOK, BookOrder, EveryOrderHasEntry
  <2>3. \A o \in DOMAIN orders :
          map_client_id_to_order'[orders[o].client][orders[o].coid] = o
    BY <1>11, <2>1, <2>2
  <2>4. map_client_id_to_order'[order.client][order.coid] = oid
    BY <1>3, <1>10, <1>11
  <2> QED
    BY <1>1, <1>7, <2>3, <2>4 DEF EveryOrderHasEntry
<1>14. ASSUME DistinctSlots
       PROVE  NotCrossed'
  <2> SUFFICES ASSUME NEW b \in DOMAIN orders', NEW a \in DOMAIN orders',
                      orders'[b].side = "BUY", orders'[a].side = "SELL"
               PROVE  orders'[b].price < orders'[a].price
    BY DEF NotCrossed
  <2>1. order.price \in Int /\ \A o \in DOMAIN orders : orders[o].price \in Int
    BY <1>2, PricesAreIntegers DEF IInv, TypeOK, BookOrder
  <2>2. CASE b \in DOMAIN orders /\ a \in DOMAIN orders
    BY <1>7, <1>14, <2>2 DEF IInv, NotCrossed
  <2>3. CASE b = oid /\ a \in DOMAIN orders
    <3>1. orders[a].side # incoming.side /\ incoming.side = "BUY"
      BY <1>3, <1>7, <2>3
    <3>2. MoreAggressive("BUY", orders[a].price, incoming.price)
      BY <1>1, <1>14, <2>3, <3>1, NothingToMatch
    <3> QED
      BY <1>3, <1>7, <2>1, <2>3, <3>2 DEF MoreAggressive
  <2>4. CASE b \in DOMAIN orders /\ a = oid
    <3>1. orders[b].side # incoming.side /\ incoming.side = "SELL"
      BY <1>3, <1>7, <2>4
    <3>2. MoreAggressive("SELL", orders[b].price, incoming.price)
      BY <1>1, <1>14, <2>4, <3>1, NothingToMatch
    <3> QED
      BY <1>3, <1>7, <2>1, <2>4, <3>2 DEF MoreAggressive
  <2> QED
    BY <1>7, <2>2, <2>3, <2>4
<1> QED
  BY <1>1, <1>5, <1>8, <1>9, <1>12, <1>13, <1>14, Assemble DEF IInv, TypeOK

LEMMA FilledIInv ==
  ASSUME IInv, Filled
  PROVE  IInv'
<1>1. /\ UNCHANGED book /\ UNCHANGED orders /\ UNCHANGED map_client_id_to_order
      /\ incoming' = None /\ UNCHANGED <<next_market_oid, alive>>
  BY DEF Filled, book
<1>2. UniqueIds => EveryOrderHasEntry'
  BY <1>1 DEF IInv, EveryOrderHasEntry
<1> QED
  BY <1>1, <1>2, BookUnchanged, OrdersStay, Assemble DEF IInv, TypeOK

LEMMA CancelIInv ==
  ASSUME IInv, NEW client \in Clients, NEW coid \in RequestIds, Cancel(client, coid)
  PROVE  IInv'
<1> DEFINE oid == map_client_id_to_order[client][coid]
<1>1. /\ coid \in OrderIds /\ oid # None /\ incoming = None
      /\ remove_order_from_book(oid) /\ UNCHANGED <<next_market_oid, incoming, alive>>
  BY DEF Cancel
<1>2. oid \in DOMAIN orders
  BY <1>1 DEF IInv, NoDanglingEntry
<1> HIDE DEF oid
<1>3. BookTypeOK' /\ Structure'
  BY <1>1, <1>2, RemoveOrder DEF IInv, Structure
<1>4. NoDanglingEntry' /\ (UniqueIds => EveryOrderHasEntry')
  BY <1>1, <1>2, EntryRemoved
<1>5. DOMAIN orders' \subseteq DOMAIN orders /\ \A o \in DOMAIN orders' : orders'[o] = orders[o]
  BY <1>1 DEF remove_order_from_book
<1>6. /\ ArrivalOrder' /\ OnlyQuotes' /\ (DistinctSlots => NotCrossed')
      /\ next_market_oid' \in 1 .. MaxOrders + 1
  BY <1>1, <1>5, OrdersStay
<1> QED
  BY <1>1, <1>3, <1>4, <1>6, Assemble DEF IInv, TypeOK

(* The other steps change nothing that the invariant is about.             *)
LEMMA NothingIInv ==
  ASSUME IInv, UNCHANGED <<book, next_market_oid, incoming>>, alive' \in BOOLEAN
  PROVE  IInv'
<1>1. UNCHANGED book /\ UNCHANGED orders /\ UNCHANGED map_client_id_to_order
  BY DEF book
<1>2. ArrivalOrder' /\ OnlyQuotes' /\ (UniqueIds => EveryOrderHasEntry')
  BY <1>1 DEF IInv, ArrivalOrder, OnlyQuotes, EveryOrderHasEntry
<1> QED
  BY <1>1, <1>2, BookUnchanged, Assemble DEF IInv, TypeOK

LEMMA NextIInv == IInv /\ [Next]_vars => IInv'
<1> SUFFICES ASSUME IInv, [Next]_vars
             PROVE  IInv'
  OBVIOUS
<1>1. alive \in BOOLEAN
  BY DEF IInv, TypeOK
<1>2. CASE UNCHANGED vars
  BY <1>1, <1>2, NothingIInv DEF vars, book
<1>3. CASE RestFatal \/ InvalidRequest
  BY <1>3, NothingIInv DEF RestFatal, InvalidRequest
<1>4. ASSUME NEW client \in Clients, NEW coid \in RequestIds, CancelRejected(client, coid)
      PROVE  IInv'
  BY <1>1, <1>4, NothingIInv DEF CancelRejected
<1>5. ASSUME NEW client \in Clients, NEW coid \in RequestIds, CancelFatal(client, coid)
      PROVE  IInv'
  BY <1>5, NothingIInv DEF CancelFatal
<1> QED
  BY <1>2, <1>3, <1>4, <1>5, NewOrderIInv, MatchIInv, RestIInv, FilledIInv, CancelIInv DEF Next

LEMMA Invariance == Spec => []IInv
  BY InitIInv, NextIInv, PTL DEF Spec

(* The structures of the book stay what their types say.                   *)
THEOREM TypeCorrect == Spec => []TypeOK
  BY Invariance, PTL DEF IInv

-----------------------------------------------------------------------------
(* What the invariant says of the properties.                              *)

LEMMA LevelsFromIInv ==
  ASSUME IInv, DistinctSlots
  PROVE  LevelsWellFormed
<1>1. \A side \in Sides : DOMAIN levels_by_price[side] = 1 .. Len(levels_by_price[side])
  BY LenProperties DEF IInv, TypeOK
<1>2. ASSUME NEW slot \in Slots, map_price_to_price_level[slot] = None,
             NEW side \in Sides, NEW i \in DOMAIN levels_by_price[side]
      PROVE  levels_by_price[side][i] # slot
  BY <1>1, <1>2, ListedLevel DEF IInv
<1>3. ASSUME NEW slot \in Slots, map_price_to_price_level[slot] # None
      PROVE  LET level == map_price_to_price_level[slot]
             IN /\ price_to_index(level.price) = slot
                /\ \E i \in DOMAIN levels_by_price[level.side] :
                     levels_by_price[level.side][i] = slot
                /\ level.orders # <<>>
                /\ \A i \in DOMAIN level.orders :
                     LET o == level.orders[i]
                     IN /\ o \in DOMAIN orders
                        /\ orders[o].side = level.side
                        /\ orders[o].price = level.price
                        /\ \A j \in DOMAIN level.orders : i < j => o < level.orders[j]
  <2> DEFINE level == map_price_to_price_level[slot]
  <2>1. /\ level.side \in Sides /\ level.price \in Int
        /\ level.orders \in Seq(1 .. MaxOrders) /\ QueueWellFormed(slot, level)
    BY <1>3, LevelType DEF IInv, Queues
  <2>2. DOMAIN level.orders = 1 .. Len(level.orders)
    BY <2>1, LenProperties
  <2>3. \E i \in DOMAIN levels_by_price[level.side] : levels_by_price[level.side][i] = slot
    BY <1>1, <1>3, <2>1 DEF IInv, Listed
  <2>4. \A i \in DOMAIN level.orders :
          /\ level.orders[i] \in DOMAIN orders
          /\ orders[level.orders[i]].side = level.side
          /\ price_to_index(orders[level.orders[i]].price) = slot
          /\ \A j \in DOMAIN level.orders : i < j => level.orders[i] < level.orders[j]
    BY <2>1, <2>2 DEF QueueWellFormed
  <2>5. \A i \in DOMAIN level.orders : orders[level.orders[i]].price = level.price
    BY <2>4, PriceOfLevel DEF IInv, Structure, get_level_for_price
  <2> QED
    BY <2>1, <2>3, <2>4, <2>5 DEF QueueWellFormed
<1>4. ASSUME NEW side \in Sides,
             NEW i \in DOMAIN levels_by_price[side], NEW j \in DOMAIN levels_by_price[side]
      PROVE  LET Level(k) == map_price_to_price_level[levels_by_price[side][k]]
             IN /\ Level(i).side = side
                /\ i < j => MoreAggressive(side, Level(i).price, Level(j).price)
  BY <1>1 DEF IInv, Sorted, SideSorted
<1>5. ASSUME NEW o \in DOMAIN orders
      PROVE  \E i \in DOMAIN get_level_for_price(orders[o].price).orders :
               get_level_for_price(orders[o].price).orders[i] = o
  <2>1. price_to_index(orders[o].price) \in Slots
    BY PricesAreIntegers, Slot DEF IInv, TypeOK, BookOrder
  <2>2. get_level_for_price(orders[o].price) # None
        /\ \E i \in 1 .. Len(get_level_for_price(orders[o].price).orders) :
             get_level_for_price(orders[o].price).orders[i] = o
    BY DEF IInv, Queued
  <2>3. get_level_for_price(orders[o].price).orders \in Seq(1 .. MaxOrders)
    BY <2>1, <2>2, LevelType DEF IInv, get_level_for_price
  <2> QED
    BY <2>2, <2>3, LenProperties
<1> QED
  BY <1>2, <1>3, <1>4, <1>5 DEF LevelsWellFormed

LEMMA EntriesFromIInv ==
  ASSUME IInv, UniqueIds
  PROVE  ClientMapExact
BY DEF IInv, NoDanglingEntry, EveryOrderHasEntry, ClientMapExact

LEMMA PriorityFromIInv ==
  ASSUME IInv
  PROVE  PriorityFollowsArrival
<1> SUFFICES ASSUME NEW o1 \in DOMAIN orders, NEW o2 \in DOMAIN orders,
                    orders[o1].price = orders[o2].price, o1 < o2
             PROVE  orders[o1].priority < orders[o2].priority
  BY DEF PriorityFollowsArrival
<1> DEFINE slot  == price_to_index(orders[o1].price)
           queue == map_price_to_price_level[slot].orders
<1>1. slot \in Slots
  BY PricesAreIntegers, Slot DEF IInv, TypeOK, BookOrder
<1>2. map_price_to_price_level[slot] # None
  BY DEF IInv, Queued, get_level_for_price
<1>3. QueueWellFormed(slot, map_price_to_price_level[slot]) /\ Len(queue) \in Nat
  BY <1>1, <1>2, LevelType, LenProperties DEF IInv, Queues
<1>4. PICK i \in 1 .. Len(queue) : queue[i] = o1
  BY DEF IInv, Queued, get_level_for_price
<1>5. PICK j \in 1 .. Len(queue) : queue[j] = o2
  BY DEF IInv, Queued, get_level_for_price
<1>6. o1 \in Nat /\ o2 \in Nat
  BY ParticipantsAssumption DEF IInv, TypeOK
<1>7. i < j
  <2>1. \A k, l \in 1 .. Len(queue) : k < l => queue[k] < queue[l]
    BY <1>3 DEF QueueWellFormed
  <2>2. ~ (j < i) /\ i # j
    BY <1>4, <1>5, <1>6, <2>1
  <2> QED
    BY <1>3, <2>2
<1> QED
  BY <1>3, <1>4, <1>5, <1>7 DEF QueueWellFormed

(* The levels, the sides' lists and the orders agree, provided no two      *)
(* prices hash to one slot (MAX_PRICE_LEVELS levels have room for that     *)
(* many consecutive prices).                                               *)
THEOREM LevelsAgree == DistinctSlots => (Spec => []LevelsWellFormed)
<1> SUFFICES ASSUME DistinctSlots
             PROVE  Spec => []LevelsWellFormed
  OBVIOUS
<1>1. IInv => LevelsWellFormed
  BY LevelsFromIInv
<1> QED
  BY <1>1, Invariance, PTL

(* The client map leads to every order on the book and to nothing else,    *)
(* provided clients do not reuse the id of a resting order.                *)
THEOREM ClientMapLeadsToOrders == UniqueIds => (Spec => []ClientMapExact)
<1> SUFFICES ASSUME UniqueIds
             PROVE  Spec => []ClientMapExact
  OBVIOUS
<1>1. IInv => ClientMapExact
  BY EntriesFromIInv
<1> QED
  BY <1>1, Invariance, PTL

(* Even where clients reuse ids, a cancel never reaches an order that left *)
(* the book, nor another client's: an order may become unreachable, but no *)
(* entry outlives its order.                                               *)
THEOREM NoEntryDangles == Spec => []NoDanglingEntry
  BY Invariance, PTL DEF IInv

(* The priorities in market updates follow the order of arrival at each    *)
(* price, also where prices share a slot.                                  *)
THEOREM PrioritiesFollowArrival == Spec => []PriorityFollowsArrival
  BY Invariance, PriorityFromIInv, PTL

-----------------------------------------------------------------------------
(* The refinement of LimitOrderBook.                                       *)

(* An order on the book as LimitOrderBook has it.                          *)
RestingOrder(o) ==
  [oid |-> o, client |-> orders[o].client, coid |-> orders[o].coid, side |-> orders[o].side,
   price |-> orders[o].price, qty |-> orders[o].qty]

LEMMA RestingIs == Resting = {RestingOrder(o) : o \in DOMAIN orders}
  BY DEF Resting, RestingOrder

LEMMA InitRefines == Init => Promise!Init
  BY DEF Init, Promise!Init, Resting

LEMMA NewOrderRefines ==
  ASSUME IInv, NEW client \in Clients, NEW coid \in RequestIds, NEW quote \in Quotes,
         NEW qty \in Quantities, NewOrder(client, coid, quote[1], quote[2], qty)
  PROVE  Promise!Submit(client, coid, quote[1], quote[2], qty)
<1>1. Resting' = Resting
  BY DEF NewOrder, book, Resting
<1> QED
  BY <1>1 DEF NewOrder, Promise!Submit, Promise!Accepted, Response

LEMMA FilledRefines ==
  ASSUME Filled
  PROVE  Promise!Done
<1>1. Resting' = Resting
  BY DEF Filled, book, Resting
<1> QED
  BY <1>1 DEF Filled, Promise!Done

LEMMA CancelRejectedRefines ==
  ASSUME IInv, UniqueIds, NEW client \in Clients, NEW coid \in RequestIds,
         CancelRejected(client, coid)
  PROVE  Promise!Reject(client, coid)
<1>1. Resting' = Resting
  BY DEF CancelRejected, book, Resting
<1>2. ASSUME NEW r \in Resting, r.client = client, r.coid = coid
      PROVE  FALSE
  <2>1. PICK o \in DOMAIN orders : r = RestingOrder(o)
    BY RestingIs
  <2>2. orders[o].client = client /\ orders[o].coid = coid
    BY <1>2, <2>1 DEF RestingOrder
  <2>3. map_client_id_to_order[client][coid] = o
    BY <2>2 DEF IInv, EveryOrderHasEntry
  <2> QED
    BY <2>3, OMEAssumption, ParticipantsAssumption DEF CancelRejected, IInv, TypeOK
<1> QED
  BY <1>1, <1>2 DEF CancelRejected, Promise!Reject, Promise!CancelRejected

LEMMA CancelRefines ==
  ASSUME IInv, NEW client \in Clients, NEW coid \in RequestIds, Cancel(client, coid)
  PROVE  \E r \in Resting : Promise!Cancel(r)
<1> DEFINE oid == map_client_id_to_order[client][coid]
<1>1. oid \in DOMAIN orders /\ incoming = None
  BY DEF Cancel, IInv, NoDanglingEntry
<1>2. /\ remove_order_from_book(oid) /\ UNCHANGED <<next_market_oid, incoming>>
      /\ responses' = <<Response("CANCELLED", orders[oid], oid, orders[oid].price, None,
                                 orders[oid].qty)>>
  BY DEF Cancel
<1> HIDE DEF oid
<1>3. /\ DOMAIN orders' = DOMAIN orders \ {oid}
      /\ \A o \in DOMAIN orders' : orders'[o] = orders[o]
  BY <1>2 DEF remove_order_from_book
<1>4. RestingOrder(oid) \in Resting
  BY <1>1, RestingIs
<1>5. Resting' = Resting \ {RestingOrder(oid)}
  BY <1>1, <1>3 DEF Resting, RestingOrder
<1>6. responses' = <<Promise!Cancelled(RestingOrder(oid))>>
  BY <1>2 DEF Response, Promise!Cancelled, RestingOrder
<1> QED
  BY <1>1, <1>2, <1>4, <1>5, <1>6 DEF Promise!Cancel

LEMMA RestRefines ==
  ASSUME IInv, DistinctSlots, Rest
  PROVE  Promise!Rest
<1>1. /\ incoming # None /\ incoming.qty > 0 /\ ~ CanMatch
      /\ add_order_to_book(incoming.oid, RestOrder)
      /\ incoming' = None /\ responses' = <<>> /\ UNCHANGED next_market_oid
  BY DEF Rest
<1>2. incoming \in IncomingOrder
  BY <1>1 DEF IInv, TypeOK
<1>3. PICK oid \in 1 .. MaxOrders : oid = incoming.oid
  BY <1>2 DEF IncomingOrder
<1>4. oid \notin DOMAIN orders
  <2>1. oid \in DOMAIN orders => oid < oid
    BY <1>1, <1>3 DEF IInv, ArrivalOrder
  <2> QED
    BY <2>1
<1>5. /\ DOMAIN orders' = DOMAIN orders \cup {oid}
      /\ orders'[oid] = RestOrder
      /\ \A o \in DOMAIN orders : orders'[o] = orders[o]
  BY <1>1, <1>4, <1>3 DEF add_order_to_book
<1>6. RestingOrder(oid)' = incoming
  BY <1>2, <1>5, <1>3 DEF RestingOrder, RestOrder, IncomingOrder
<1>7. Resting' = Resting \cup {incoming}
  <2>1. Resting' = {RestingOrder(o)' : o \in DOMAIN orders'}
    BY DEF Resting, RestingOrder
  <2>2. \A o \in DOMAIN orders : RestingOrder(o)' = RestingOrder(o)
    BY <1>5 DEF RestingOrder
  <2> QED
    BY <1>5, <1>6, <2>1, <2>2, RestingIs
<1>8. ASSUME NEW r \in Resting
      PROVE  ~ Promise!Crosses(r)
  <2>1. PICK o \in DOMAIN orders : r = RestingOrder(o)
    BY RestingIs
  <2>2. r.side = orders[o].side /\ r.price = orders[o].price
    BY <2>1 DEF RestingOrder
  <2>3. r.side # incoming.side => MoreAggressive(incoming.side, r.price, incoming.price)
    BY <1>1, <2>2, NothingToMatch
  <2> QED
    BY <2>3 DEF Promise!Crosses, Promise!MoreAggressive, MoreAggressive
<1> QED
  BY <1>1, <1>7, <1>8 DEF Promise!Rest

LEMMA MatchRefines ==
  ASSUME IInv, DistinctSlots, Match
  PROVE  \E r \in Resting : Promise!Trade(r)
<1>1. incoming # None /\ incoming.qty > 0 /\ HasOpposite
  BY DEF Match, CanMatch
<1>2. PICK o \in DOMAIN orders : o = BestOpposite
  BY <1>1, BestIsFirst DEF IInv, Structure
<1> DEFINE r == RestingOrder(o)
           exec == FillQty(o)
<1>3. /\ incoming # None /\ incoming.qty > 0 /\ HasOpposite
      /\ ~ MoreAggressive(incoming.side, orders[o].price, incoming.price)
  BY <1>2 DEF Match, CanMatch
<1>4. /\ o \in DOMAIN orders
      /\ orders[o].side = Opposite(incoming.side)
      /\ \A x \in DOMAIN orders : orders[x].side = Opposite(incoming.side) =>
           \/ x = o
           \/ MoreAggressive(orders[x].side, orders[o].price, orders[x].price)
           \/ orders[o].price = orders[x].price /\ o < x
  BY <1>3, <1>2, BestIsFirst DEF IInv, Structure
<1>5. /\ incoming' = [incoming EXCEPT !.qty = @ - exec]
      /\ responses' = FilledResponses(o)
      /\ UNCHANGED next_market_oid
  BY <1>2 DEF Match
<1>6. /\ exec \in Nat /\ orders[o].qty \in Nat \ {0} /\ incoming.qty \in Nat
      /\ exec = IF orders[o].qty < incoming.qty THEN orders[o].qty ELSE incoming.qty
  BY <1>3, <1>4, FillQtyRange DEF FillQty
<1>7. /\ r.oid = o /\ r.side = orders[o].side /\ r.price = orders[o].price
      /\ r.qty = orders[o].qty /\ r.client = orders[o].client /\ r.coid = orders[o].coid
  BY DEF RestingOrder
<1> DEFINE left == [r EXCEPT !.qty = @ - exec]
           taker == [incoming EXCEPT !.qty = @ - exec]
<1>8. left = [oid |-> o, client |-> orders[o].client, coid |-> orders[o].coid,
              side |-> orders[o].side, price |-> orders[o].price, qty |-> orders[o].qty - exec]
  BY DEF RestingOrder
<1>9. Promise!IsNextToTrade(r)
  <2>1. r \in Resting
    BY <1>4, RestingIs
  <2>2. incoming.side \in Sides
    BY <1>3 DEF IInv, TypeOK, IncomingOrder
  <2>3. Promise!Crosses(r)
    BY <1>3, <1>4, <1>7, <2>2
       DEF Promise!Crosses, Promise!MoreAggressive, MoreAggressive, Opposite, Sides
  <2>4. ASSUME NEW other \in Resting, other.side = r.side, other # r
        PROVE  Promise!Ahead(r, other)
    <3>1. PICK x \in DOMAIN orders : other = RestingOrder(x)
      BY RestingIs
    <3>2. x # o /\ other.oid = x /\ other.price = orders[x].price /\ other.side = orders[x].side
      BY <2>4, <3>1 DEF RestingOrder
    <3> QED
      BY <1>4, <1>7, <2>4, <3>2 DEF Promise!Ahead, Promise!MoreAggressive, MoreAggressive
  <2> QED
    BY <2>1, <2>3, <2>4 DEF Promise!IsNextToTrade
<1>10. Resting' = (Resting \ {r}) \cup (IF left.qty = 0 THEN {} ELSE {left})
  <2>1. Resting' = {RestingOrder(x)' : x \in DOMAIN orders'}
    BY DEF Resting, RestingOrder
  <2>2. \A x, y \in DOMAIN orders : RestingOrder(x) = RestingOrder(y) => x = y
    BY DEF RestingOrder
  <2>3. left.qty = orders[o].qty - exec
    BY <1>8
  <2>4. CASE exec = orders[o].qty
    <3>1. remove_order_from_book(o)
      BY <1>2, <2>4 DEF Match
    <3>2. DOMAIN orders' = DOMAIN orders \ {o} /\ \A x \in DOMAIN orders' : orders'[x] = orders[x]
      BY <3>1 DEF remove_order_from_book
    <3>3. \A x \in DOMAIN orders' : RestingOrder(x)' = RestingOrder(x)
      BY <3>2 DEF RestingOrder
    <3>4. left.qty = 0
      BY <1>6, <2>3, <2>4
    <3> QED
      BY <1>4, <2>1, <2>2, <3>2, <3>3, <3>4, RestingIs
  <2>5. CASE exec # orders[o].qty
    <3>1. orders' = [orders EXCEPT ![o].qty = @ - exec]
      BY <1>2, <2>5 DEF Match
    <3>2. /\ DOMAIN orders' = DOMAIN orders
          /\ \A x \in DOMAIN orders : x # o => orders'[x] = orders[x]
          /\ orders'[o] = [orders[o] EXCEPT !.qty = orders[o].qty - exec]
      BY <1>4, <3>1 DEF IInv, TypeOK
    <3>3. \A x \in DOMAIN orders : x # o => RestingOrder(x)' = RestingOrder(x)
      BY <3>2 DEF RestingOrder
    <3>4. orders[o] \in BookOrder
      BY <1>4 DEF IInv, TypeOK
    <3>5. RestingOrder(o)' = left
      BY <1>8, <3>2, <3>4 DEF RestingOrder, BookOrder
    <3>6. left.qty # 0
      BY <1>6, <2>3, <2>5
    <3> HIDE DEF left, r
    <3> QED
      BY <1>4, <2>1, <2>2, <3>2, <3>3, <3>5, <3>6, RestingIs DEF r
  <2> QED
    BY <2>4, <2>5
<1>11. responses' = <<Promise!Filled(incoming, r.price, exec, taker.qty),
                     Promise!Filled(r, r.price, exec, left.qty)>>
  <2>1. taker.qty = incoming.qty - exec
    BY <1>3 DEF IInv, TypeOK
  <2>2. left.qty = orders[o].qty - exec
    BY <1>8
  <2> HIDE DEF left, taker
  <2> QED
    BY <1>5, <1>7, <2>1, <2>2 DEF FilledResponses, Response, Promise!Filled
<1>12. exec = IF r.qty < incoming.qty THEN r.qty ELSE incoming.qty
  BY <1>6, <1>7
<1> QED
  BY <1>3, <1>4, <1>5, <1>9, <1>10, <1>11, <1>12, RestingIs DEF Promise!Trade

LEMMA NextRefines ==
  ASSUME IInv, DistinctSlots, UniqueIds, [Next]_vars
  PROVE  [Promise!Next]_Promise!vars
<1>1. ASSUME UNCHANGED <<orders, incoming, next_market_oid, responses>>
      PROVE  UNCHANGED Promise!vars
  <2>1. Resting' = Resting
    BY <1>1 DEF Resting
  <2> QED
    BY <1>1, <2>1 DEF Promise!vars
<1>2. CASE UNCHANGED vars
  BY <1>1, <1>2 DEF vars
<1>3. CASE RestFatal \/ InvalidRequest
  BY <1>1, <1>3 DEF RestFatal, InvalidRequest, book
<1>4. ASSUME NEW client \in Clients, NEW coid \in RequestIds, CancelFatal(client, coid)
      PROVE  UNCHANGED Promise!vars
  BY <1>1, <1>4 DEF CancelFatal, book
<1>5. ASSUME NEW client \in Clients, NEW coid \in RequestIds, NEW quote \in Quotes,
             NEW qty \in Quantities, NewOrder(client, coid, quote[1], quote[2], qty)
      PROVE  Promise!Next
  <2>1. quote[1] \in Promise!Sides /\ quote[2] \in Promise!Prices
    BY ParticipantsAssumption DEF Promise!Prices, Promise!Sides, Sides
  <2>2. Promise!Submit(client, coid, quote[1], quote[2], qty)
    BY <1>5, NewOrderRefines
  <2> QED
    BY <2>1, <2>2 DEF Promise!Next
<1>6. CASE Match
  BY <1>6, MatchRefines DEF Promise!Next
<1>7. CASE Rest
  BY <1>7, RestRefines DEF Promise!Next
<1>8. CASE Filled
  BY <1>8, FilledRefines DEF Promise!Next
<1>9. ASSUME NEW client \in Clients, NEW coid \in RequestIds, Cancel(client, coid)
      PROVE  Promise!Next
  BY <1>9, CancelRefines DEF Promise!Next
<1>10. ASSUME NEW client \in Clients, NEW coid \in RequestIds, CancelRejected(client, coid)
       PROVE  Promise!Next
  BY <1>10, CancelRejectedRefines DEF Promise!Next
<1> QED
  BY <1>2, <1>3, <1>4, <1>5, <1>6, <1>7, <1>8, <1>9, <1>10 DEF Next

(* The book with its levels, queues, hash map and client map is what       *)
(* LimitOrderBook promises: matching in price-time priority, cancels that  *)
(* hit the order that was meant and are rejected only when there is none,  *)
(* and the right responses in the right order, step by step; provided no   *)
(* two prices share a slot and clients do not reuse ids of resting orders. *)
THEOREM Refinement == DistinctSlots /\ UniqueIds => (Spec => PriceTimePriority)
<1> SUFFICES ASSUME DistinctSlots, UniqueIds
             PROVE  Spec => PriceTimePriority
  OBVIOUS
<1>1. IInv /\ [Next]_vars => [Promise!Next]_Promise!vars
  BY NextRefines
<1> QED
  BY <1>1, InitRefines, Invariance, PTL DEF Spec, PriceTimePriority, Promise!Spec

PromiseProofs == INSTANCE LimitOrderBookProofs WITH resting <- Resting

(* What was proved of the promise holds of the book that keeps it: a bid   *)
(* and an ask that could trade never rest together.                        *)
THEOREM BookNeverCrossed == DistinctSlots /\ UniqueIds => (Spec => []Promise!Uncrossed)
<1>1. PromiseProofs!ParticipantsAssumption
  BY ParticipantsAssumption DEF PromiseProofs!ParticipantsAssumption, PromiseProofs!Sides, Sides
<1>2. PromiseProofs!Init <=> Promise!Init
  BY DEF PromiseProofs!Init, Promise!Init
<1>3. PromiseProofs!Next <=> Promise!Next
  <2>1. ASSUME NEW client, NEW coid, NEW side, NEW price, NEW qty
        PROVE  PromiseProofs!Submit(client, coid, side, price, qty)
                 <=> Promise!Submit(client, coid, side, price, qty)
    BY DEF PromiseProofs!Submit, Promise!Submit, PromiseProofs!Accepted, Promise!Accepted
  <2>2. ASSUME NEW o
        PROVE  PromiseProofs!Trade(o) <=> Promise!Trade(o)
    BY DEF PromiseProofs!Trade, Promise!Trade, PromiseProofs!Filled, Promise!Filled,
         PromiseProofs!IsNextToTrade, Promise!IsNextToTrade, PromiseProofs!Crosses,
         Promise!Crosses, PromiseProofs!Ahead, Promise!Ahead,
         PromiseProofs!MoreAggressive, Promise!MoreAggressive
  <2>3. PromiseProofs!Rest <=> Promise!Rest
    BY DEF PromiseProofs!Rest, Promise!Rest, PromiseProofs!Crosses, Promise!Crosses,
         PromiseProofs!MoreAggressive, Promise!MoreAggressive
  <2>4. PromiseProofs!Done <=> Promise!Done
    BY DEF PromiseProofs!Done, Promise!Done
  <2>5. ASSUME NEW o
        PROVE  PromiseProofs!Cancel(o) <=> Promise!Cancel(o)
    BY DEF PromiseProofs!Cancel, Promise!Cancel, PromiseProofs!Cancelled,
         Promise!Cancelled
  <2>6. ASSUME NEW client, NEW coid
        PROVE  PromiseProofs!Reject(client, coid) <=> Promise!Reject(client, coid)
    BY DEF PromiseProofs!Reject, Promise!Reject, PromiseProofs!CancelRejected,
         Promise!CancelRejected
  <2> QED
    BY <2>1, <2>2, <2>3, <2>4, <2>5, <2>6
       DEF PromiseProofs!Next, Promise!Next, PromiseProofs!Sides, Promise!Sides,
           PromiseProofs!Prices, Promise!Prices
<1>4. PromiseProofs!Uncrossed <=> Promise!Uncrossed
  BY DEF PromiseProofs!Uncrossed, Promise!Uncrossed
<1>5. PromiseProofs!Spec => []PromiseProofs!Uncrossed
  BY <1>1, PromiseProofs!NeverCrossed
<1> SUFFICES ASSUME DistinctSlots, UniqueIds
             PROVE  Spec => []Promise!Uncrossed
  OBVIOUS
<1>6. Spec => PriceTimePriority
  BY Refinement
<1>7. [Promise!Next]_Promise!vars => [PromiseProofs!Next]_PromiseProofs!vars
  BY <1>3 DEF PromiseProofs!vars, Promise!vars
<1> QED
  BY <1>2, <1>4, <1>5, <1>6, <1>7, PTL DEF PriceTimePriority, Promise!Spec, PromiseProofs!Spec

-----------------------------------------------------------------------------
(* Trades and the best price.                                              *)

(* No order on the book is better than one that was just traded with.      *)
NothingBetter(bookOrders, sent) ==
  \A i \in DOMAIN sent : sent[i].type = "TRADE" =>
    \A o \in DOMAIN bookOrders : bookOrders[o].side # sent[i].side =>
      ~ MoreAggressive(bookOrders[o].side, bookOrders[o].price, sent[i].price)

(* A step that ends the process leaves the last messages where they are,   *)
(* so the property needs what it says of them afterwards as well.          *)
LEMMA TradesAtBest ==
  ASSUME IInv, DistinctSlots, NothingBetter(orders, updates), [Next]_vars
  PROVE  NothingBetter(orders, updates)' /\ NothingBetter(orders, updates')
<1>1. CASE Match
  <2> DEFINE o == BestOpposite
  <2>1. incoming # None /\ HasOpposite /\ updates' = <<TradeUpdate(o), RestingUpdate(o)>>
    BY <1>1 DEF Match, CanMatch
  <2>2. /\ o \in DOMAIN orders
        /\ \A x \in DOMAIN orders : orders[x].side = Opposite(incoming.side) =>
             \/ x = o
             \/ MoreAggressive(orders[x].side, orders[o].price, orders[x].price)
             \/ orders[o].price = orders[x].price
    BY <2>1, BestIsFirst DEF IInv, Structure
  <2>3. \A x \in DOMAIN orders : orders[x].price \in Int /\ orders[x].side \in Sides
    BY PricesAreIntegers DEF IInv, TypeOK, BookOrder
  <2>4. incoming.side \in Sides
    BY <2>1 DEF IInv, TypeOK, IncomingOrder
  <2>5. \A x \in DOMAIN orders : orders[x].side # incoming.side =>
          ~ MoreAggressive(orders[x].side, orders[x].price, orders[o].price)
    BY <2>2, <2>3, <2>4 DEF MoreAggressive, Opposite, Sides
  <2>6. \A i \in DOMAIN updates' : updates'[i].type = "TRADE" =>
          updates'[i].side = incoming.side /\ updates'[i].price = orders[o].price
    <3>1. TradeUpdate(o).side = incoming.side /\ TradeUpdate(o).price = orders[o].price
      BY DEF TradeUpdate, Update
    <3>2. RestingUpdate(o).type # "TRADE"
      BY DEF RestingUpdate, Update
    <3>3. \A i \in DOMAIN updates' :
            updates'[i] = TradeUpdate(o) \/ updates'[i] = RestingUpdate(o)
      BY <2>1
    <3> QED
      BY <3>1, <3>2, <3>3
  <2>7. NothingBetter(orders, updates')
    BY <2>5, <2>6 DEF NothingBetter
  <2>8. /\ DOMAIN orders' \subseteq DOMAIN orders
        /\ \A x \in DOMAIN orders' : /\ orders'[x].side = orders[x].side
                                     /\ orders'[x].price = orders[x].price
    <3>1. CASE remove_order_from_book(o)
      BY <3>1 DEF remove_order_from_book
    <3>2. CASE orders' = [orders EXCEPT ![o].qty = @ - FillQty(o)]
      BY <2>2, <3>2 DEF IInv, TypeOK, BookOrder
    <3> QED
      BY <1>1, <3>1, <3>2 DEF Match
  <2>9. NothingBetter(orders, updates)'
    BY <2>7, <2>8 DEF NothingBetter
  <2> QED
    BY <2>7, <2>9
<1>2. ASSUME \A i \in DOMAIN updates' : updates'[i].type # "TRADE"
      PROVE  NothingBetter(orders, updates)' /\ NothingBetter(orders, updates')
  BY <1>2 DEF NothingBetter
<1>3. ASSUME UNCHANGED <<orders, updates>>
      PROVE  NothingBetter(orders, updates)' /\ NothingBetter(orders, updates')
  BY <1>3
<1>4. ASSUME NEW u, u.type # "TRADE", updates' = <<u>>
      PROVE  NothingBetter(orders, updates)' /\ NothingBetter(orders, updates')
  BY <1>2, <1>4
<1>5. ASSUME updates' = <<>>
      PROVE  NothingBetter(orders, updates)' /\ NothingBetter(orders, updates')
  BY <1>2, <1>5
<1>6. ASSUME NEW client \in Clients, NEW coid \in RequestIds, NEW quote \in Quotes,
             NEW qty \in Quantities, NewOrder(client, coid, quote[1], quote[2], qty)
      PROVE  NothingBetter(orders, updates)' /\ NothingBetter(orders, updates')
  BY <1>5, <1>6 DEF NewOrder
<1>7. CASE Rest
  BY <1>4, <1>7 DEF Rest, Update
<1>8. CASE Filled
  BY <1>5, <1>8 DEF Filled
<1>9. ASSUME NEW client \in Clients, NEW coid \in RequestIds, Cancel(client, coid)
      PROVE  NothingBetter(orders, updates)' /\ NothingBetter(orders, updates')
  BY <1>4, <1>9 DEF Cancel, Update
<1>10. ASSUME NEW client \in Clients, NEW coid \in RequestIds,
              CancelRejected(client, coid) \/ CancelFatal(client, coid)
       PROVE  NothingBetter(orders, updates)' /\ NothingBetter(orders, updates')
  BY <1>3, <1>5, <1>10 DEF CancelRejected, CancelFatal, book
<1>11. CASE RestFatal \/ InvalidRequest \/ UNCHANGED vars
  BY <1>3, <1>11 DEF RestFatal, InvalidRequest, book, vars
<1> QED
  BY <1>1, <1>6, <1>7, <1>8, <1>9, <1>10, <1>11 DEF Next

(* No trade passes over a resting order at a better price, provided no two *)
(* prices share a slot: price_collisions shows that where they do, one     *)
(* does.                                                                   *)
THEOREM TradesAtBestPrice == DistinctSlots => (Spec => BestPriceFirst)
<1> SUFFICES ASSUME DistinctSlots
             PROVE  Spec => BestPriceFirst
  OBVIOUS
<1>1. Init => NothingBetter(orders, updates)
  BY DEF Init, NothingBetter
<1>2. IInv /\ NothingBetter(orders, updates) /\ [Next]_vars =>
        /\ NothingBetter(orders, updates)'
        /\ [\A i \in DOMAIN updates' : updates'[i].type = "TRADE" =>
              \A o \in DOMAIN orders : orders[o].side # updates'[i].side =>
                ~ MoreAggressive(orders[o].side, orders[o].price, updates'[i].price)]_vars
  BY TradesAtBest DEF NothingBetter
<1> QED
  BY <1>1, <1>2, Invariance, PTL DEF Spec, BestPriceFirst

-----------------------------------------------------------------------------
(***************************************************************************)
(* OMEOrderBookFeed, shared slots and reused ids included: what those who  *)
(* only see the book's messages make of them.                              *)
(*                                                                         *)
(* The picture of the book is exact in every state, also between the steps *)
(* of one request.  What participants know of their orders is not: the     *)
(* incoming order is open, as far as they know, before it rests; Reported  *)
(* says so.                                                                *)
(***************************************************************************)

Pictured(o) ==
  [side |-> orders[o].side, price |-> orders[o].price, qty |-> orders[o].qty,
   priority |-> orders[o].priority]

Pictures == snapshot = [o \in DOMAIN orders |-> Pictured(o)]

(* What is left of an order that was accepted.                             *)
Open(o) ==
  IF o \in DOMAIN orders THEN orders[o].qty
  ELSE IF incoming # None /\ incoming.oid = o THEN incoming.qty
  ELSE 0

Reports == reported = [o \in 1 .. next_market_oid - 1 |-> Open(o)]

FeedInv == IInv /\ Pictures /\ Reports

(* What UpdatesAccepted and ResponsesAddUp say of a step.                  *)
UpdatesAcceptable(sent) ==
  \A i \in DOMAIN sent :
    UpdateAsserts(FoldLeft(add_to_snapshot, snapshot, SubSeq(sent, 1, i - 1)), sent[i])

AddsUp(r) ==
  CASE r.type = "ACCEPTED" -> r.oid \notin DOMAIN reported /\ r.exec = 0
    [] r.type = "FILLED" ->
         r.oid \in DOMAIN reported /\ r.exec > 0
         /\ r.leaves \in Nat /\ r.leaves = reported[r.oid] - r.exec
    [] r.type = "CANCELLED" ->
         r.oid \in DOMAIN reported /\ r.leaves > 0 /\ r.leaves = reported[r.oid]
    [] OTHER -> r.oid = None

StepIsRight ==
  /\ UpdatesAcceptable(updates')
  /\ \A i \in DOMAIN responses' : AddsUp(responses'[i])
  /\ Pictures' /\ Reports'

-----------------------------------------------------------------------------
(* Folds over the messages of one step, of which there are at most two.    *)

LEMMA MaxIs ==
  /\ Max({1}) = 1
  /\ Max({2}) = 2
  /\ Max({1, 2}) = 2
  BY DEF Max

LEMMA PictureNone ==
  ASSUME NEW p
  PROVE  FoldLeft(add_to_snapshot, p, <<>>) = p
<1> DEFINE Rec(g) == g = [s \in SUBSET (DOMAIN <<>>) |->
                            IF s = {} THEN p
                            ELSE LET i == Max(s) IN add_to_snapshot(g[s \ {i}], <<>>[i])]
           it == CHOOSE g : Rec(g)
<1>1. FoldLeft(add_to_snapshot, p, <<>>) = it[DOMAIN <<>>]
  BY DEF FoldLeft, MapThenFoldSet
<1>2. DOMAIN <<>> = {}
  OBVIOUS
<1>3. Rec([s \in SUBSET (DOMAIN <<>>) |-> p])
  BY <1>2
<1>4. Rec(it)
  BY <1>3
<1> HIDE DEF it
<1> QED
  BY <1>1, <1>2, <1>4

LEMMA PictureOne ==
  ASSUME NEW p, NEW u
  PROVE  FoldLeft(add_to_snapshot, p, <<u>>) = add_to_snapshot(p, u)
<1> DEFINE m == <<u>>
           Rec(g) == g = [s \in SUBSET (DOMAIN m) |->
                            IF s = {} THEN p
                            ELSE LET i == Max(s) IN add_to_snapshot(g[s \ {i}], m[i])]
           it == CHOOSE g : Rec(g)
           f == [s \in SUBSET {1} |-> IF s = {} THEN p ELSE add_to_snapshot(p, u)]
<1>1. FoldLeft(add_to_snapshot, p, m) = it[DOMAIN m]
  BY DEF FoldLeft, MapThenFoldSet
<1>2. DOMAIN m = {1} /\ m[1] = u
  OBVIOUS
<1> HIDE DEF m
<1>3. \A s \in SUBSET {1} : s = {} \/ s = {1}
  OBVIOUS
<1>4. f[{}] = p /\ f[{1}] = add_to_snapshot(p, u) /\ f = [s \in SUBSET {1} |-> f[s]]
  OBVIOUS
<1> HIDE DEF f
<1>5. ASSUME NEW s \in SUBSET {1}
      PROVE  f[s] = IF s = {} THEN p ELSE LET i == Max(s) IN add_to_snapshot(f[s \ {i}], m[i])
  <2>1. CASE s = {}
    BY <1>4, <2>1
  <2>2. CASE s = {1}
    <3>1. Max(s) = 1 /\ s \ {1} = {} /\ s # {}
      BY <2>2, MaxIs
    <3> QED
      BY <1>2, <1>4, <2>2, <3>1
  <2> QED
    BY <1>3, <2>1, <2>2
<1>6. Rec(f)
  BY <1>2, <1>4, <1>5
<1>7. Rec(it)
  BY <1>6
<1> HIDE DEF it
<1>8. it[{}] = p
  BY <1>2, <1>7
<1>9. it[{1}] = add_to_snapshot(p, u)
  <2>1. Max({1}) = 1 /\ {1} \ {1} = {} /\ {1} # {} /\ {1} \in SUBSET {1}
    BY MaxIs
  <2> QED
    BY <1>2, <1>7, <1>8, <2>1
<1> QED
  BY <1>1, <1>2, <1>9 DEF m

LEMMA PictureTwo ==
  ASSUME NEW p, NEW u, NEW v
  PROVE  FoldLeft(add_to_snapshot, p, <<u, v>>) = add_to_snapshot(add_to_snapshot(p, u), v)
<1> DEFINE m == <<u, v>>
           Rec(g) == g = [s \in SUBSET (DOMAIN m) |->
                            IF s = {} THEN p
                            ELSE LET i == Max(s) IN add_to_snapshot(g[s \ {i}], m[i])]
           it == CHOOSE g : Rec(g)
           f == [s \in SUBSET {1, 2} |->
                   IF s = {} THEN p
                   ELSE IF s = {1} THEN add_to_snapshot(p, u)
                   ELSE IF s = {2} THEN add_to_snapshot(p, v)
                   ELSE add_to_snapshot(add_to_snapshot(p, u), v)]
<1>1. FoldLeft(add_to_snapshot, p, m) = it[DOMAIN m]
  BY DEF FoldLeft, MapThenFoldSet
<1>2. DOMAIN m = {1, 2} /\ m[1] = u /\ m[2] = v
  OBVIOUS
<1> HIDE DEF m
<1>3. \A s \in SUBSET {1, 2} : s = {} \/ s = {1} \/ s = {2} \/ s = {1, 2}
  OBVIOUS
<1>4. /\ f[{}] = p /\ f[{1}] = add_to_snapshot(p, u) /\ f[{2}] = add_to_snapshot(p, v)
      /\ f[{1, 2}] = add_to_snapshot(add_to_snapshot(p, u), v)
      /\ f = [s \in SUBSET {1, 2} |-> f[s]]
  <2>1. {1, 2} # {} /\ {1, 2} # {1} /\ {1, 2} # {2} /\ {1} # {2} /\ {1} # {} /\ {2} # {}
    OBVIOUS
  <2>2. {} \in SUBSET {1, 2} /\ {1} \in SUBSET {1, 2} /\ {2} \in SUBSET {1, 2}
        /\ {1, 2} \in SUBSET {1, 2}
    OBVIOUS
  <2> QED
    BY <2>1, <2>2
<1> HIDE DEF f
<1>5. /\ Max({1}) = 1 /\ {1} \ {1} = {}
      /\ Max({2}) = 2 /\ {2} \ {2} = {}
      /\ Max({1, 2}) = 2 /\ {1, 2} \ {2} = {1}
      /\ {1} # {} /\ {2} # {} /\ {1, 2} # {}
  BY MaxIs
<1>6. ASSUME NEW s \in SUBSET {1, 2}
      PROVE  f[s] = IF s = {} THEN p ELSE LET i == Max(s) IN add_to_snapshot(f[s \ {i}], m[i])
  <2>1. CASE s = {}
    BY <1>4, <2>1
  <2>2. CASE s = {1}
    BY <1>2, <1>4, <1>5, <2>2
  <2>3. CASE s = {2}
    BY <1>2, <1>4, <1>5, <2>3
  <2>4. CASE s = {1, 2}
    BY <1>2, <1>4, <1>5, <2>4
  <2> QED
    BY <1>3, <2>1, <2>2, <2>3, <2>4
<1>7. Rec(f)
  BY <1>2, <1>4, <1>6
<1>8. Rec(it)
  BY <1>7
<1> HIDE DEF it
<1>9. {} \in SUBSET {1, 2} /\ {1} \in SUBSET {1, 2} /\ {1, 2} \in SUBSET {1, 2}
  OBVIOUS
<1>10. it[{}] = p
  BY <1>2, <1>8, <1>9
<1>11. it[{1}] = add_to_snapshot(p, u)
  <2>1. it[{1}] = IF {1} = {} THEN p
                  ELSE LET i == Max({1}) IN add_to_snapshot(it[{1} \ {i}], m[i])
    BY <1>2, <1>8, <1>9
  <2>2. {1} # {} /\ Max({1}) = 1 /\ {1} \ {1} = {}
    BY <1>5
  <2> QED
    BY ONLY <1>2, <1>10, <2>1, <2>2
<1>12. it[{1, 2}] = add_to_snapshot(add_to_snapshot(p, u), v)
  BY <1>2, <1>5, <1>8, <1>9, <1>11
<1> QED
  BY <1>1, <1>2, <1>12 DEF m

LEMMA ToldNone ==
  ASSUME NEW p
  PROVE  FoldLeft(Told, p, <<>>) = p
<1> DEFINE Rec(g) == g = [s \in SUBSET (DOMAIN <<>>) |->
                            IF s = {} THEN p
                            ELSE LET i == Max(s) IN Told(g[s \ {i}], <<>>[i])]
           it == CHOOSE g : Rec(g)
<1>1. FoldLeft(Told, p, <<>>) = it[DOMAIN <<>>]
  BY DEF FoldLeft, MapThenFoldSet
<1>2. DOMAIN <<>> = {}
  OBVIOUS
<1>3. Rec([s \in SUBSET (DOMAIN <<>>) |-> p])
  BY <1>2
<1>4. Rec(it)
  BY <1>3
<1> HIDE DEF it
<1> QED
  BY <1>1, <1>2, <1>4

LEMMA ToldOne ==
  ASSUME NEW p, NEW u
  PROVE  FoldLeft(Told, p, <<u>>) = Told(p, u)
<1> DEFINE m == <<u>>
           Rec(g) == g = [s \in SUBSET (DOMAIN m) |->
                            IF s = {} THEN p
                            ELSE LET i == Max(s) IN Told(g[s \ {i}], m[i])]
           it == CHOOSE g : Rec(g)
           f == [s \in SUBSET {1} |-> IF s = {} THEN p ELSE Told(p, u)]
<1>1. FoldLeft(Told, p, m) = it[DOMAIN m]
  BY DEF FoldLeft, MapThenFoldSet
<1>2. DOMAIN m = {1} /\ m[1] = u
  OBVIOUS
<1> HIDE DEF m
<1>3. \A s \in SUBSET {1} : s = {} \/ s = {1}
  OBVIOUS
<1>4. f[{}] = p /\ f[{1}] = Told(p, u) /\ f = [s \in SUBSET {1} |-> f[s]]
  OBVIOUS
<1> HIDE DEF f
<1>5. ASSUME NEW s \in SUBSET {1}
      PROVE  f[s] = IF s = {} THEN p ELSE LET i == Max(s) IN Told(f[s \ {i}], m[i])
  <2>1. CASE s = {}
    BY <1>4, <2>1
  <2>2. CASE s = {1}
    <3>1. Max(s) = 1 /\ s \ {1} = {} /\ s # {}
      BY <2>2, MaxIs
    <3> QED
      BY <1>2, <1>4, <2>2, <3>1
  <2> QED
    BY <1>3, <2>1, <2>2
<1>6. Rec(f)
  BY <1>2, <1>4, <1>5
<1>7. Rec(it)
  BY <1>6
<1> HIDE DEF it
<1>8. it[{}] = p
  BY <1>2, <1>7
<1>9. it[{1}] = Told(p, u)
  <2>1. Max({1}) = 1 /\ {1} \ {1} = {} /\ {1} # {} /\ {1} \in SUBSET {1}
    BY MaxIs
  <2> QED
    BY <1>2, <1>7, <1>8, <2>1
<1> QED
  BY <1>1, <1>2, <1>9 DEF m

LEMMA ToldTwo ==
  ASSUME NEW p, NEW u, NEW v
  PROVE  FoldLeft(Told, p, <<u, v>>) = Told(Told(p, u), v)
<1> DEFINE m == <<u, v>>
           Rec(g) == g = [s \in SUBSET (DOMAIN m) |->
                            IF s = {} THEN p
                            ELSE LET i == Max(s) IN Told(g[s \ {i}], m[i])]
           it == CHOOSE g : Rec(g)
           f == [s \in SUBSET {1, 2} |->
                   IF s = {} THEN p
                   ELSE IF s = {1} THEN Told(p, u)
                   ELSE IF s = {2} THEN Told(p, v)
                   ELSE Told(Told(p, u), v)]
<1>1. FoldLeft(Told, p, m) = it[DOMAIN m]
  BY DEF FoldLeft, MapThenFoldSet
<1>2. DOMAIN m = {1, 2} /\ m[1] = u /\ m[2] = v
  OBVIOUS
<1> HIDE DEF m
<1>3. \A s \in SUBSET {1, 2} : s = {} \/ s = {1} \/ s = {2} \/ s = {1, 2}
  OBVIOUS
<1>4. /\ f[{}] = p /\ f[{1}] = Told(p, u) /\ f[{2}] = Told(p, v)
      /\ f[{1, 2}] = Told(Told(p, u), v)
      /\ f = [s \in SUBSET {1, 2} |-> f[s]]
  <2>1. {1, 2} # {} /\ {1, 2} # {1} /\ {1, 2} # {2} /\ {1} # {2} /\ {1} # {} /\ {2} # {}
    OBVIOUS
  <2>2. {} \in SUBSET {1, 2} /\ {1} \in SUBSET {1, 2} /\ {2} \in SUBSET {1, 2}
        /\ {1, 2} \in SUBSET {1, 2}
    OBVIOUS
  <2> QED
    BY <2>1, <2>2
<1> HIDE DEF f
<1>5. /\ Max({1}) = 1 /\ {1} \ {1} = {}
      /\ Max({2}) = 2 /\ {2} \ {2} = {}
      /\ Max({1, 2}) = 2 /\ {1, 2} \ {2} = {1}
      /\ {1} # {} /\ {2} # {} /\ {1, 2} # {}
  BY MaxIs
<1>6. ASSUME NEW s \in SUBSET {1, 2}
      PROVE  f[s] = IF s = {} THEN p ELSE LET i == Max(s) IN Told(f[s \ {i}], m[i])
  <2>1. CASE s = {}
    BY <1>4, <2>1
  <2>2. CASE s = {1}
    BY <1>2, <1>4, <1>5, <2>2
  <2>3. CASE s = {2}
    BY <1>2, <1>4, <1>5, <2>3
  <2>4. CASE s = {1, 2}
    BY <1>2, <1>4, <1>5, <2>4
  <2> QED
    BY <1>3, <2>1, <2>2, <2>3, <2>4
<1>7. Rec(f)
  BY <1>2, <1>4, <1>6
<1>8. Rec(it)
  BY <1>7
<1> HIDE DEF it
<1>9. {} \in SUBSET {1, 2} /\ {1} \in SUBSET {1, 2} /\ {1, 2} \in SUBSET {1, 2}
  OBVIOUS
<1>10. it[{}] = p
  BY <1>2, <1>8, <1>9
<1>11. it[{1}] = Told(p, u)
  <2>1. it[{1}] = IF {1} = {} THEN p
                  ELSE LET i == Max({1}) IN Told(it[{1} \ {i}], m[i])
    BY <1>2, <1>8, <1>9
  <2>2. {1} # {} /\ Max({1}) = 1 /\ {1} \ {1} = {}
    BY <1>5
  <2> QED
    BY ONLY <1>2, <1>10, <2>1, <2>2
<1>12. it[{1, 2}] = Told(Told(p, u), v)
  BY <1>2, <1>5, <1>8, <1>9, <1>11
<1> QED
  BY <1>1, <1>2, <1>12 DEF m
-----------------------------------------------------------------------------
(* What a step's messages do to those who receive them.                    *)

LEMMA AcceptableNone == UpdatesAcceptable(<<>>)
  BY DEF UpdatesAcceptable

LEMMA AcceptableOne ==
  ASSUME NEW u, UpdateAsserts(snapshot, u)
  PROVE  UpdatesAcceptable(<<u>>)
<1>1. DOMAIN <<u>> = {1} /\ <<u>>[1] = u
  OBVIOUS
<1>2. SubSeq(<<u>>, 1, 1 - 1) = <<>>
  BY SubSeqEmpty
<1> QED
  BY <1>1, <1>2, PictureNone DEF UpdatesAcceptable

LEMMA AcceptableTwo ==
  ASSUME NEW u, NEW v, UpdateAsserts(snapshot, u),
         UpdateAsserts(add_to_snapshot(snapshot, u), v)
  PROVE  UpdatesAcceptable(<<u, v>>)
<1>1. DOMAIN <<u, v>> = {1, 2} /\ <<u, v>>[1] = u /\ <<u, v>>[2] = v
  OBVIOUS
<1>2. SubSeq(<<u, v>>, 1, 1 - 1) = <<>>
  OBVIOUS
<1>3. SubSeq(<<u, v>>, 1, 2 - 1) = <<u>>
  <2> DEFINE m == <<u, v>>
             S == {u, v}
  <2>1. m[1] = u /\ \A i \in 1 .. 1 : m[i] \in S
    OBVIOUS
  <2>2. <<u>> \in Seq(S) /\ Len(<<u>>) = 1 /\ <<u>>[1] = u
    OBVIOUS
  <2> HIDE DEF m, S
  <2>3. SubSeq(m, 1, 1) \in Seq(S) /\ Len(SubSeq(m, 1, 1)) = 1 /\ SubSeq(m, 1, 1)[1] = u
    BY <2>1, SubSeqProperties
  <2>4. \A i \in 1 .. Len(SubSeq(m, 1, 1)) : SubSeq(m, 1, 1)[i] = <<u>>[i]
    BY <2>2, <2>3
  <2>5. SubSeq(m, 1, 1) = <<u>>
    BY <2>2, <2>3, <2>4, SeqEqual
  <2> QED
    BY <2>5 DEF m
<1> QED
  BY <1>1, <1>2, <1>3, PictureNone, PictureOne DEF UpdatesAcceptable

(* The account with another open quantity for one order.                   *)
Noted(open, oid, qty) == [x \in DOMAIN open \cup {oid} |-> IF x # oid THEN open[x] ELSE qty]

LEMMA ToldOf ==
  ASSUME NEW open, NEW type, type # "CANCELLED",
         NEW o, NEW oid \in Nat, NEW price, NEW exec, NEW leaves
  PROVE  Told(open, Response(type, o, oid, price, exec, leaves)) = Noted(open, oid, leaves)
  BY OMEAssumption DEF Told, Response, Noted

LEMMA ToldOfCancelled ==
  ASSUME NEW open, NEW o, NEW oid \in Nat, NEW price, NEW exec, NEW leaves
  PROVE  Told(open, Response("CANCELLED", o, oid, price, exec, leaves)) = Noted(open, oid, 0)
  BY OMEAssumption DEF Told, Response, Noted

LEMMA NewOrderFeed ==
  ASSUME FeedInv, NEW client \in Clients, NEW coid \in RequestIds, NEW quote \in Quotes,
         NEW qty \in Quantities, NewOrder(client, coid, quote[1], quote[2], qty), Deliver, alive'
  PROVE  StepIsRight
<1> DEFINE oid == next_market_oid
           new == [oid |-> oid, client |-> client, coid |-> coid,
                   side |-> quote[1], price |-> quote[2], qty |-> qty]
           r   == Response("ACCEPTED", new, oid, quote[2], 0, qty)
<1>1. /\ incoming = None /\ incoming' = new /\ next_market_oid' = oid + 1
      /\ responses' = <<r>> /\ updates' = <<>> /\ orders' = orders
  BY DEF NewOrder, book
<1>2. oid \in Nat \ {0} /\ \A o \in DOMAIN orders : o < oid /\ o \in Nat
  BY DEF FeedInv, IInv, TypeOK, ArrivalOrder
<1>3. snapshot' = snapshot
  BY <1>1, PictureNone DEF Deliver
<1>4. reported' = Told(reported, r)
  BY <1>1, ToldOne DEF Deliver
<1>5. reported' = Noted(reported, oid, qty)
  BY <1>2, <1>4, ToldOf
<1>6. DOMAIN reported = 1 .. oid - 1 /\ \A x \in 1 .. oid - 1 : reported[x] = Open(x)
  BY DEF FeedInv, Reports
<1>7. Pictures'
  BY <1>1, <1>3 DEF FeedInv, Pictures, Pictured
<1>8. Reports'
  <2>1. (1 .. oid - 1) \cup {oid} = 1 .. oid + 1 - 1
    BY <1>2
  <2>2. new.oid = oid /\ new.qty = qty /\ new # None
    <3>1. new \in IncomingOrder
      <4>1. oid \in 1 .. MaxOrders
        BY DEF NewOrder, FeedInv, IInv, TypeOK
      <4>2. quote[1] \in Sides /\ quote[2] \in Prices /\ qty \in Nat
        BY ParticipantsAssumption DEF Prices
      <4> QED
        BY <4>1, <4>2 DEF IncomingOrder
    <3> QED
      BY <3>1, OMEAssumption
  <2>3. \A x \in 1 .. oid + 1 - 1 :
          Open(x)' = IF x # oid THEN reported[x] ELSE qty
    BY <1>1, <1>2, <1>6, <2>1, <2>2 DEF Open
  <2> QED
    BY <1>1, <1>5, <1>6, <2>1, <2>3 DEF Reports, Noted
<1>9. AddsUp(r)
  BY <1>2, <1>6 DEF AddsUp, Response
<1> QED
  BY <1>1, <1>7, <1>8, <1>9, AcceptableNone DEF StepIsRight

LEMMA PictureAdded ==
  ASSUME Pictures, NEW oid, NEW order,
         orders' = [o \in DOMAIN orders \cup {oid} |-> IF o = oid THEN order ELSE orders[o]],
         snapshot' = add_to_snapshot(snapshot, Update("ADD", oid, order.side, order.price,
                                                      order.qty, order.priority))
  PROVE  Pictures'
<1> DEFINE content == [side |-> order.side, price |-> order.price, qty |-> order.qty,
                       priority |-> order.priority]
<1>1. snapshot' = Picture(snapshot, oid, content)
  BY DEF add_to_snapshot, Update
<1>2. DOMAIN orders' = DOMAIN orders \cup {oid} /\ DOMAIN snapshot = DOMAIN orders
  BY DEF Pictures
<1>3. orders'[oid] = order /\ \A o \in DOMAIN orders : o # oid => orders'[o] = orders[o]
  OBVIOUS
<1>4. Pictured(oid)' = content
  BY <1>3 DEF Pictured
<1>5. \A o \in DOMAIN orders : o # oid => Pictured(o)' = snapshot[o]
  BY <1>3 DEF Pictured, Pictures
<1> HIDE DEF content
<1> QED
  BY <1>1, <1>2, <1>4, <1>5 DEF Picture, Pictures

LEMMA PictureRemoved ==
  ASSUME Pictures, NEW oid, NEW side, NEW price, NEW qty, NEW priority,
         orders' = [o \in DOMAIN orders \ {oid} |-> orders[o]],
         snapshot' = add_to_snapshot(snapshot, Update("CANCEL", oid, side, price, qty, priority))
  PROVE  Pictures'
<1>1. snapshot' = [o \in DOMAIN snapshot \ {oid} |-> snapshot[o]]
  BY DEF add_to_snapshot, Update
<1>2. DOMAIN orders' = DOMAIN orders \ {oid} /\ DOMAIN snapshot = DOMAIN orders
  BY DEF Pictures
<1>3. \A o \in DOMAIN orders' : Pictured(o)' = snapshot[o]
  BY DEF Pictured, Pictures
<1> QED
  BY <1>1, <1>2, <1>3 DEF Pictures

LEMMA PictureShrunk ==
  ASSUME TypeOK, Pictures, NEW oid \in DOMAIN orders, NEW qty, NEW priority,
         orders' = [orders EXCEPT ![oid].qty = qty],
         snapshot' = add_to_snapshot(snapshot, Update("MODIFY", oid, orders[oid].side,
                                                      orders[oid].price, qty, priority))
  PROVE  Pictures'
<1>1. snapshot' = [snapshot EXCEPT ![oid].qty = qty, ![oid].price = orders[oid].price]
  BY DEF add_to_snapshot, Update
<1>2. DOMAIN orders' = DOMAIN orders /\ DOMAIN snapshot = DOMAIN orders
      /\ snapshot[oid] = Pictured(oid)
  BY DEF Pictures
<1>3. DOMAIN snapshot' = DOMAIN orders
      /\ snapshot' = [o \in DOMAIN orders |-> snapshot'[o]]
  BY <1>1, <1>2
<1>4. ASSUME NEW o \in DOMAIN orders
      PROVE  snapshot'[o] = Pictured(o)'
  <2>1. CASE o # oid
    BY <1>1, <1>2, <2>1 DEF Pictured, Pictures
  <2>2. CASE o = oid
    <3>1. /\ orders'[o].side = orders[o].side /\ orders'[o].price = orders[o].price
          /\ orders'[o].priority = orders[o].priority /\ orders'[o].qty = qty
      BY <2>2 DEF TypeOK, BookOrder
    <3>2. snapshot'[o] = [side |-> orders[o].side, price |-> orders[o].price, qty |-> qty,
                          priority |-> orders[o].priority]
      BY <1>1, <1>2, <2>2 DEF Pictured
    <3> QED
      BY <3>1, <3>2 DEF Pictured
  <2> QED
    BY <2>1, <2>2
<1> QED
  BY <1>2, <1>3, <1>4 DEF Pictures

(* A step that accepts no order, and what its responses must say.          *)
LEMMA ReportsAfter ==
  ASSUME next_market_oid' = next_market_oid,
         DOMAIN reported' = 1 .. next_market_oid - 1,
         reported' = [x \in DOMAIN reported' |-> reported'[x]],
         \A x \in 1 .. next_market_oid - 1 : reported'[x] = Open(x)'
  PROVE  Reports'
  BY DEF Reports

LEMMA RestFeed ==
  ASSUME FeedInv, Rest, Deliver, alive'
  PROVE  StepIsRight
<1> DEFINE oid == incoming.oid
           u   == Update("ADD", oid, RestOrder.side, RestOrder.price, RestOrder.qty,
                         RestOrder.priority)
<1>1. /\ incoming # None /\ incoming' = None /\ next_market_oid' = next_market_oid
      /\ responses' = <<>> /\ updates' = <<u>>
      /\ orders' = [o \in DOMAIN orders \cup {oid} |-> IF o = oid THEN RestOrder ELSE orders[o]]
  BY DEF Rest, add_order_to_book, RestOrder
<1>2. oid \notin DOMAIN orders /\ RestOrder.qty = incoming.qty
  <2>1. \A o \in DOMAIN orders : o < oid /\ o \in Nat
    BY <1>1 DEF FeedInv, IInv, ArrivalOrder, TypeOK
  <2> QED
    BY <2>1 DEF RestOrder
<1>3. snapshot' = add_to_snapshot(snapshot, u)
  BY <1>1, PictureOne DEF Deliver
<1>4. reported' = reported
  BY <1>1, ToldNone DEF Deliver
<1>5. Pictures'
  BY <1>1, <1>3, PictureAdded DEF FeedInv
<1>6. DOMAIN snapshot = DOMAIN orders
  BY DEF FeedInv, Pictures
<1>7. UpdatesAcceptable(updates')
  <2>1. UpdateAsserts(snapshot, u)
    BY <1>2, <1>6 DEF UpdateAsserts, Update
  <2> QED
    BY <1>1, <2>1, AcceptableOne
<1>8. Reports'
  <2>1. DOMAIN reported = 1 .. next_market_oid - 1 /\ reported = [x \in DOMAIN reported |-> reported[x]]
        /\ \A x \in 1 .. next_market_oid - 1 : reported[x] = Open(x)
    BY DEF FeedInv, Reports
  <2>2. ASSUME NEW x
        PROVE  Open(x)' = Open(x)
    <3>1. CASE x = oid
      BY <1>1, <1>2, <3>1 DEF Open
    <3>2. CASE x # oid
      BY <1>1, <3>2 DEF Open
    <3> QED
      BY <3>1, <3>2
  <2> QED
    BY <1>1, <1>4, <2>1, <2>2, ReportsAfter
<1> QED
  BY <1>1, <1>5, <1>7, <1>8 DEF StepIsRight

LEMMA FilledFeed ==
  ASSUME FeedInv, Filled, Deliver, alive'
  PROVE  StepIsRight
<1>1. /\ incoming # None /\ incoming.qty = 0 /\ incoming' = None
      /\ next_market_oid' = next_market_oid /\ orders' = orders
      /\ responses' = <<>> /\ updates' = <<>>
  BY DEF Filled, book
<1>2. snapshot' = snapshot /\ reported' = reported
  BY <1>1, PictureNone, ToldNone DEF Deliver
<1>3. Pictures'
  BY <1>1, <1>2 DEF FeedInv, Pictures, Pictured
<1>4. DOMAIN reported = 1 .. next_market_oid - 1 /\ reported = [x \in DOMAIN reported |-> reported[x]]
      /\ \A x \in 1 .. next_market_oid - 1 : reported[x] = Open(x)
  BY DEF FeedInv, Reports
<1>5. \A x : Open(x)' = Open(x)
  BY <1>1 DEF Open
<1>6. Reports'
  BY <1>1, <1>2, <1>4, <1>5, ReportsAfter
<1> QED
  BY <1>1, <1>3, <1>6, AcceptableNone DEF StepIsRight

LEMMA CancelRejectedFeed ==
  ASSUME FeedInv, NEW client \in Clients, NEW coid \in RequestIds, CancelRejected(client, coid),
         Deliver, alive'
  PROVE  StepIsRight
<1> DEFINE r == [type |-> "CANCEL_REJECTED", client |-> client, coid |-> coid,
                 oid |-> None, side |-> "INVALID", price |-> None, exec |-> None,
                 leaves |-> None]
<1>1. /\ UNCHANGED <<orders, next_market_oid, incoming>>
      /\ responses' = <<r>> /\ updates' = <<>>
  BY DEF CancelRejected, book
<1>2. snapshot' = snapshot
  BY <1>1, PictureNone DEF Deliver
<1>3. reported' = reported
  BY ZenonT(30), <1>1, ToldOne DEF Deliver, Told
<1>4. Pictures' /\ Reports'
  BY <1>1, <1>2, <1>3 DEF FeedInv, Pictures, Pictured, Reports, Open
<1>5. AddsUp(r)
  BY DEF AddsUp
<1> QED
  BY <1>1, <1>4, <1>5, AcceptableNone DEF StepIsRight

LEMMA CancelFeed ==
  ASSUME FeedInv, NEW client \in Clients, NEW coid \in RequestIds, Cancel(client, coid),
         Deliver, alive'
  PROVE  StepIsRight
<1> DEFINE oid   == map_client_id_to_order[client][coid]
           order == orders[oid]
           r     == Response("CANCELLED", order, oid, order.price, None, order.qty)
           u     == Update("CANCEL", oid, order.side, order.price, 0, order.priority)
<1>1. /\ incoming = None /\ UNCHANGED <<next_market_oid, incoming>>
      /\ responses' = <<r>> /\ updates' = <<u>>
      /\ orders' = [o \in DOMAIN orders \ {oid} |-> orders[o]]
  BY DEF Cancel, remove_order_from_book
<1>2. oid \in DOMAIN orders
  BY DEF Cancel, FeedInv, IInv, NoDanglingEntry
<1>3. oid \in 1 .. next_market_oid - 1 /\ order.qty \in Nat \ {0}
  <2>1. oid < next_market_oid /\ oid \in 1 .. MaxOrders /\ next_market_oid \in Nat
    BY <1>2 DEF FeedInv, IInv, ArrivalOrder, TypeOK
  <2>2. order \in BookOrder
    BY <1>2 DEF FeedInv, IInv, TypeOK
  <2> QED
    BY <2>1, <2>2 DEF BookOrder
<1> HIDE DEF oid, order
<1>4. snapshot' = add_to_snapshot(snapshot, u)
  BY <1>1, PictureOne DEF Deliver
<1>5. reported' = Noted(reported, oid, 0)
  <2>1. reported' = Told(reported, r)
    BY <1>1, ToldOne DEF Deliver
  <2>2. oid \in Nat
    BY <1>3
  <2> QED
    BY <2>1, <2>2, ToldOfCancelled
<1>6. Pictures'
  BY <1>1, <1>4, PictureRemoved DEF FeedInv
<1>7. DOMAIN snapshot = DOMAIN orders /\ snapshot[oid].side = order.side
  BY <1>2 DEF FeedInv, Pictures, Pictured, order
<1>8. UpdatesAcceptable(updates')
  <2>1. UpdateAsserts(snapshot, u)
    BY <1>2, <1>7 DEF UpdateAsserts, Update
  <2> QED
    BY <1>1, <2>1, AcceptableOne
<1>9. DOMAIN reported = 1 .. next_market_oid - 1
      /\ \A x \in 1 .. next_market_oid - 1 : reported[x] = Open(x)
  BY DEF FeedInv, Reports
<1>10. Reports'
  <2>1. /\ DOMAIN reported' = 1 .. next_market_oid - 1
        /\ reported' = [x \in DOMAIN reported' |-> reported'[x]]
        /\ \A x \in 1 .. next_market_oid - 1 : reported'[x] = IF x # oid THEN reported[x] ELSE 0
    BY <1>3, <1>5, <1>9 DEF Noted
  <2>2. ASSUME NEW x \in 1 .. next_market_oid - 1
        PROVE  Open(x)' = IF x # oid THEN reported[x] ELSE 0
    <3>1. CASE x = oid
      BY <1>1, <3>1 DEF Open
    <3>2. CASE x # oid
      BY <1>1, <1>9, <3>2 DEF Open
    <3> QED
      BY <3>1, <3>2
  <2> QED
    BY <1>1, <2>1, <2>2, ReportsAfter
<1>11. AddsUp(r)
  <2>1. reported[oid] = order.qty /\ oid \in DOMAIN reported /\ order.qty > 0
    BY <1>2, <1>3, <1>9 DEF Open, order
  <2> QED
    BY <2>1 DEF AddsUp, Response
<1> QED
  BY <1>1, <1>6, <1>8, <1>10, <1>11 DEF StepIsRight

(* A step that sends two updates and two responses hands over first the    *)
(* first of each, then the second.                                         *)
LEMMA TwoDelivered ==
  ASSUME NEW u, NEW v, NEW r, NEW q, Deliver, alive',
         updates' = <<u, v>>, responses' = <<r, q>>
  PROVE  /\ snapshot' = add_to_snapshot(add_to_snapshot(snapshot, u), v)
         /\ reported' = Told(Told(reported, r), q)
<1> DEFINE Pic(p, m) == FoldLeft(add_to_snapshot, p, m)
           Rep(p, m) == FoldLeft(Told, p, m)
<1>1. snapshot' = Pic(snapshot, <<u, v>>)
  BY DEF Deliver
<1>2. reported' = Rep(reported, <<r, q>>)
  BY DEF Deliver
<1>3. \A p, x, y : Pic(p, <<x, y>>) = add_to_snapshot(add_to_snapshot(p, x), y)
  BY PictureTwo
<1>4. \A p, x, y : Rep(p, <<x, y>>) = Told(Told(p, x), y)
  BY ToldTwo
<1> HIDE DEF Pic, Rep
<1> QED
  BY <1>1, <1>2, <1>3, <1>4

LEMMA MatchFeed ==
  ASSUME FeedInv, Match, Deliver, alive'
  PROVE  StepIsRight
<1> DEFINE o    == BestOpposite
           oid  == incoming.oid
           fill == FillQty(o)
           r1   == Response("FILLED", incoming, oid, orders[o].price, fill, incoming.qty - fill)
           r2   == Response("FILLED", orders[o], o, orders[o].price, fill, orders[o].qty - fill)
           u1   == TradeUpdate(o)
           u2   == RestingUpdate(o)
<1>1. /\ incoming # None /\ HasOpposite /\ incoming.qty > 0
      /\ incoming' = [incoming EXCEPT !.qty = @ - fill]
      /\ next_market_oid' = next_market_oid
      /\ responses' = <<r1, r2>> /\ updates' = <<u1, u2>>
  BY DEF Match, CanMatch, FilledResponses
<1>2. o \in DOMAIN orders
  BY <1>1, BestIsFirst DEF FeedInv, IInv, Structure
<1>3. /\ fill \in Nat /\ orders[o].qty \in Nat \ {0} /\ incoming.qty \in Nat
      /\ incoming.qty - fill \in Nat /\ orders[o].qty - fill \in Nat
  BY <1>1, <1>2, FillQtyRange DEF FeedInv
<1>4. fill > 0
  BY <1>1, <1>3 DEF FillQty
<1>5. /\ incoming \in IncomingOrder
      /\ oid \in 1 .. next_market_oid - 1 /\ o \in 1 .. next_market_oid - 1
      /\ oid \notin DOMAIN orders /\ o # oid
  <2>1. incoming \in IncomingOrder /\ next_market_oid \in Nat
    BY <1>1 DEF FeedInv, IInv, TypeOK
  <2>2. oid < next_market_oid /\ \A x \in DOMAIN orders : x < oid /\ x < next_market_oid
    BY <1>1 DEF FeedInv, IInv, ArrivalOrder
  <2>3. oid \in 1 .. MaxOrders /\ \A x \in DOMAIN orders : x \in 1 .. MaxOrders
    BY <2>1 DEF FeedInv, IInv, TypeOK, IncomingOrder
  <2>4. \A x \in DOMAIN orders : x # oid
    BY <2>2, <2>3
  <2> QED
    BY <1>2, <2>1, <2>2, <2>3, <2>4
<1>6. incoming'.oid = oid /\ incoming'.qty = incoming.qty - fill /\ incoming' # None
  <2>1. incoming' \in IncomingOrder
    BY <1>1, <1>3, <1>5 DEF IncomingOrder
  <2>2. incoming'.oid = oid /\ incoming'.qty = incoming.qty - fill
    BY <1>1, <1>5 DEF IncomingOrder
  <2> QED
    BY <2>1, <2>2, OMEAssumption
<1>7. snapshot' = add_to_snapshot(snapshot, u2) /\ add_to_snapshot(snapshot, u1) = snapshot
  <2>1. add_to_snapshot(snapshot, u1) = snapshot
    BY DEF add_to_snapshot, TradeUpdate, Update
  <2>2. snapshot' = add_to_snapshot(add_to_snapshot(snapshot, u1), u2)
    <3> HIDE DEF u1, u2, r1, r2
    <3> QED
      BY <1>1, TwoDelivered
  <2> QED
    BY <2>1, <2>2
<1>8. reported' = Noted(Noted(reported, oid, incoming.qty - fill), o, orders[o].qty - fill)
  <2>1. reported' = Told(Told(reported, r1), r2)
    <3> HIDE DEF u1, u2, r1, r2
    <3> QED
      BY <1>1, TwoDelivered
  <2>2. oid \in Nat /\ o \in Nat
    BY <1>5
  <2>3. Told(reported, r1) = Noted(reported, oid, incoming.qty - fill)
    BY <2>2, ToldOf
  <2>4. ASSUME NEW open
        PROVE  Told(open, r2) = Noted(open, o, orders[o].qty - fill)
    BY <2>2, ToldOf
  <2> QED
    BY <2>1, <2>3, <2>4
<1>9. DOMAIN snapshot = DOMAIN orders /\ snapshot[o].side = orders[o].side
  BY <1>2 DEF FeedInv, Pictures, Pictured
<1>10. /\ Pictures' /\ UpdateAsserts(snapshot, u2)
       /\ \A x \in DOMAIN orders : x # o => x \in DOMAIN orders' /\ orders'[x] = orders[x]
       /\ DOMAIN orders' \subseteq DOMAIN orders
       /\ IF o \in DOMAIN orders' THEN orders'[o].qty = orders[o].qty - fill
          ELSE orders[o].qty - fill = 0
  <2>1. CASE fill = orders[o].qty
    <3>1. orders' = [x \in DOMAIN orders \ {o} |-> orders[x]]
      BY <2>1 DEF Match, remove_order_from_book
    <3>2. u2 = Update("CANCEL", o, orders[o].side, orders[o].price, orders[o].qty, None)
      BY <2>1 DEF RestingUpdate
    <3>3. Pictures'
      BY <1>7, <3>1, <3>2, PictureRemoved DEF FeedInv
    <3>4. UpdateAsserts(snapshot, u2)
      BY <1>2, <1>9, <3>2 DEF UpdateAsserts, Update
    <3> QED
      BY <1>3, <2>1, <3>1, <3>3, <3>4
  <2>2. CASE fill # orders[o].qty
    <3> DEFINE left == orders[o].qty - fill
    <3>1. orders' = [orders EXCEPT ![o].qty = left]
      BY <2>2 DEF Match
    <3>2. u2 = Update("MODIFY", o, orders[o].side, orders[o].price, left, orders[o].priority)
      BY <2>2 DEF RestingUpdate
    <3> HIDE DEF left
    <3>3. Pictures'
      BY <1>2, <1>7, <3>1, <3>2, PictureShrunk DEF FeedInv, IInv
    <3>4. UpdateAsserts(snapshot, u2)
      BY <1>2, <1>9, <3>2 DEF UpdateAsserts, Update
    <3>5. DOMAIN orders' = DOMAIN orders /\ orders'[o].qty = left
      BY <1>2, <3>1 DEF FeedInv, IInv, TypeOK, BookOrder
    <3> QED
      BY <1>2, <3>1, <3>3, <3>4, <3>5 DEF left
  <2> QED
    BY <2>1, <2>2
<1>11. UpdatesAcceptable(updates')
  <2>1. UpdateAsserts(snapshot, u1)
    BY DEF UpdateAsserts, TradeUpdate, Update
  <2> QED
    BY <1>1, <1>7, <1>10, <2>1, AcceptableTwo
<1>12. DOMAIN reported = 1 .. next_market_oid - 1
       /\ \A x \in 1 .. next_market_oid - 1 : reported[x] = Open(x)
  BY DEF FeedInv, Reports
<1>13. reported[oid] = incoming.qty /\ reported[o] = orders[o].qty
  BY <1>1, <1>2, <1>5, <1>12 DEF Open
<1> HIDE DEF o, oid, fill
<1>14. Reports'
  <2>1. /\ DOMAIN reported' = 1 .. next_market_oid - 1
        /\ reported' = [x \in DOMAIN reported' |-> reported'[x]]
        /\ \A x \in 1 .. next_market_oid - 1 :
             reported'[x] = IF x = o THEN orders[o].qty - fill
                            ELSE IF x = oid THEN incoming.qty - fill
                            ELSE reported[x]
    BY <1>5, <1>8, <1>12 DEF Noted
  <2>2. ASSUME NEW x \in 1 .. next_market_oid - 1
        PROVE  Open(x)' = IF x = o THEN orders[o].qty - fill
                          ELSE IF x = oid THEN incoming.qty - fill
                          ELSE reported[x]
    <3>1. CASE x = o
      BY <1>5, <1>6, <1>10, <3>1 DEF Open
    <3>2. CASE x = oid
      BY <1>5, <1>6, <1>10, <3>2 DEF Open
    <3>3. CASE x # o /\ x # oid
      BY <1>1, <1>6, <1>10, <1>12, <3>3 DEF Open, oid
    <3> QED
      BY <3>1, <3>2, <3>3, <1>5
  <2> QED
    BY <1>1, <2>1, <2>2, ReportsAfter
<1>15. AddsUp(r1)
  <2>1. oid \in DOMAIN reported /\ incoming.qty - fill = reported[oid] - fill
    BY <1>5, <1>12, <1>13
  <2> QED
    BY <1>3, <1>4, <2>1 DEF AddsUp, Response
<1>16. AddsUp(r2)
  <2>1. o \in DOMAIN reported /\ orders[o].qty - fill = reported[o] - fill
    BY <1>5, <1>12, <1>13
  <2> QED
    BY <1>3, <1>4, <2>1 DEF AddsUp, Response
<1>17. \A i \in DOMAIN responses' : AddsUp(responses'[i])
  BY <1>1, <1>15, <1>16
<1> QED
  BY <1>10, <1>11, <1>14, <1>17 DEF StepIsRight

-----------------------------------------------------------------------------
LEMMA FeedStep ==
  ASSUME FeedInv, FeedNext, alive'
  PROVE  StepIsRight
<1>1. Next /\ Deliver
  BY DEF FeedNext
<1>2. ASSUME NEW client \in Clients, NEW coid \in RequestIds, NEW quote \in Quotes,
             NEW qty \in Quantities, NewOrder(client, coid, quote[1], quote[2], qty)
      PROVE  StepIsRight
  BY <1>1, <1>2, NewOrderFeed
<1>3. CASE Match
  BY <1>1, <1>3, MatchFeed
<1>4. CASE Rest
  BY <1>1, <1>4, RestFeed
<1>5. CASE Filled
  BY <1>1, <1>5, FilledFeed
<1>6. ASSUME NEW client \in Clients, NEW coid \in RequestIds, Cancel(client, coid)
      PROVE  StepIsRight
  BY <1>1, <1>6, CancelFeed
<1>7. ASSUME NEW client \in Clients, NEW coid \in RequestIds, CancelRejected(client, coid)
      PROVE  StepIsRight
  BY <1>1, <1>7, CancelRejectedFeed
<1>8. ASSUME NEW client \in Clients, NEW coid \in RequestIds, CancelFatal(client, coid)
      PROVE  StepIsRight
  BY <1>8 DEF CancelFatal
<1>9. CASE RestFatal \/ InvalidRequest
  BY <1>9 DEF RestFatal, InvalidRequest
<1> QED
  BY <1>1, <1>2, <1>3, <1>4, <1>5, <1>6, <1>7, <1>8, <1>9 DEF Next

(* A step that ends the process changes nothing that messages show.        *)
LEMMA FatalStep ==
  ASSUME FeedInv, FeedNext, ~ alive'
  PROVE  Pictures' /\ Reports'
<1>1. UNCHANGED <<orders, next_market_oid, incoming>>
  BY DEF FeedNext, Next, RestFatal, CancelFatal, InvalidRequest, book, NewOrder, Match, Rest,
       Filled, Cancel, CancelRejected
<1>2. UNCHANGED <<snapshot, reported>>
  BY DEF FeedNext, Deliver
<1> QED
  BY <1>1, <1>2 DEF FeedInv, Pictures, Pictured, Reports, Open

LEMMA InitFeedInv == FeedInit => FeedInv
<1> SUFFICES ASSUME FeedInit
             PROVE  FeedInv
  OBVIOUS
<1>1. IInv
  BY InitIInv DEF FeedInit
<1>2. DOMAIN orders = {} /\ next_market_oid = 1
      /\ snapshot = [o \in {} |-> None] /\ reported = [o \in {} |-> 0]
  BY DEF FeedInit, Init
<1>3. Pictures
  BY <1>2 DEF Pictures
<1>4. 1 .. next_market_oid - 1 = {}
  BY <1>2
<1>5. Reports
  BY <1>2, <1>4 DEF Reports
<1> QED
  BY <1>1, <1>3, <1>5 DEF FeedInv

LEMMA NextFeedInv == FeedInv /\ [FeedNext]_feedVars => FeedInv'
<1> SUFFICES ASSUME FeedInv, [FeedNext]_feedVars
             PROVE  FeedInv'
  OBVIOUS
<1>1. IInv'
  BY NextIInv DEF FeedInv, FeedNext, feedVars
<1>2. CASE FeedNext
  BY <1>1, <1>2, FeedStep, FatalStep DEF FeedInv, StepIsRight
<1>3. CASE UNCHANGED feedVars
  BY <1>1, <1>3 DEF FeedInv, Pictures, Pictured, Reports, Open, feedVars, vars
<1> QED
  BY <1>2, <1>3

LEMMA FeedInvariance == FeedSpec => []FeedInv
  BY InitFeedInv, NextFeedInv, PTL DEF FeedSpec

-----------------------------------------------------------------------------
(* Whoever applies the market updates holds exactly the book, whatever was *)
(* added, matched and cancelled: send_market_update leaves nothing out.    *)
THEOREM PictureIsTheBook == FeedSpec => []SnapshotInSync
<1>1. FeedInv => SnapshotInSync
  BY DEF FeedInv, Pictures, Pictured, SnapshotInSync
<1> QED
  BY <1>1, FeedInvariance, PTL

(* No market update fails an assertion of the synthesizer's                *)
(* add_to_snapshot, which would end the exchange's process.                *)
THEOREM UpdatesNeverRefused == FeedSpec => UpdatesAccepted
<1>1. FeedInv /\ [FeedNext]_feedVars =>
        [alive' => \A i \in DOMAIN updates' :
           UpdateAsserts(FoldLeft(add_to_snapshot, snapshot, SubSeq(updates', 1, i - 1)),
                         updates'[i])]_feedVars
  BY FeedStep DEF StepIsRight, UpdatesAcceptable
<1> QED
  BY <1>1, FeedInvariance, PTL DEF FeedSpec, UpdatesAccepted

(* The responses about each order add up from its acceptance to its last   *)
(* fill or its cancel, however it is matched.                              *)
THEOREM ResponsesAlwaysAddUp == FeedSpec => ResponsesAddUp
<1>1. FeedInv /\ [FeedNext]_feedVars =>
        [alive' => \A i \in DOMAIN responses' :
           LET r == responses'[i]
           IN CASE r.type = "ACCEPTED" -> r.oid \notin DOMAIN reported /\ r.exec = 0
                [] r.type = "FILLED" ->
                     r.oid \in DOMAIN reported /\ r.exec > 0
                     /\ r.leaves \in Nat /\ r.leaves = reported[r.oid] - r.exec
                [] r.type = "CANCELLED" ->
                     r.oid \in DOMAIN reported /\ r.leaves > 0 /\ r.leaves = reported[r.oid]
                [] OTHER -> r.oid = None]_feedVars
  BY FeedStep DEF StepIsRight, AddsUp
<1> QED
  BY <1>1, FeedInvariance, PTL DEF FeedSpec, ResponsesAddUp

(* Between requests the orders a participant thinks open, from responses   *)
(* alone, are the ones that rest, with the quantity that rests.            *)
THEOREM ParticipantsKnowTheirOrders == FeedSpec => []ReportedIsResting
<1>1. FeedInv => ReportedIsResting
  <2> SUFFICES ASSUME FeedInv, incoming = None
               PROVE  /\ DOMAIN orders = {o \in DOMAIN reported : reported[o] > 0}
                      /\ \A o \in DOMAIN orders : orders[o].qty = reported[o]
    BY DEF ReportedIsResting
  <2>1. \A o \in DOMAIN orders : o \in 1 .. next_market_oid - 1 /\ orders[o].qty > 0
    <3>1. next_market_oid \in Nat /\ \A o \in DOMAIN orders : o \in Nat \ {0} /\ o < next_market_oid
      BY DEF FeedInv, IInv, TypeOK, ArrivalOrder
    <3>2. \A o \in DOMAIN orders : orders[o].qty \in Nat \ {0}
      BY DEF FeedInv, IInv, TypeOK, BookOrder
    <3> QED
      BY <3>1, <3>2
  <2>2. /\ DOMAIN reported = 1 .. next_market_oid - 1
        /\ \A o \in 1 .. next_market_oid - 1 :
             reported[o] = IF o \in DOMAIN orders THEN orders[o].qty ELSE 0
    BY DEF FeedInv, Reports, Open
  <2>3. ASSUME NEW o
        PROVE  o \in DOMAIN orders <=> o \in DOMAIN reported /\ reported[o] > 0
    BY <2>1, <2>2
  <2>4. DOMAIN orders = {o \in DOMAIN reported : reported[o] > 0}
    BY <2>3
  <2> QED
    BY <2>1, <2>2, <2>4
<1> QED
  BY <1>1, FeedInvariance, PTL
=============================================================================
