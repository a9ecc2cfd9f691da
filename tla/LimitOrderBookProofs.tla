------------------------ MODULE LimitOrderBookProofs ------------------------
(***************************************************************************)
(* LimitOrderBook for any participants, prices and quantities, and books   *)
(* of any size.                                                            *)
(***************************************************************************)
EXTENDS LimitOrderBook, TLAPS

RestingOrder == [oid: Nat \ {0}, client: Clients, coid: RequestIds, side: Sides,
                 price: Prices, qty: Nat \ {0}]

(* Prices can be compared.                                                *)
LEMMA PricesAreIntegers == Prices \subseteq Int
  BY ParticipantsAssumption DEF Prices, Sides

LEMMA InitIInv == Init => IInv
  BY DEF Init, IInv, TypeOK, Uncrossed, ArrivalOrder

(* One conjunct of the invariant after the other, for each action.         *)
LEMMA SubmitIInv ==
  ASSUME IInv,
         NEW client \in Clients, NEW coid \in RequestIds, NEW side \in Sides,
         NEW price \in Prices, NEW qty \in Quantities,
         Submit(client, coid, side, price, qty)
  PROVE  IInv'
<1> USE DEF IInv
<1>1. incoming' \in Order /\ incoming'.oid = next_market_oid
  BY PricesAreIntegers, ParticipantsAssumption DEF Submit, TypeOK, Order
<1>2. TypeOK'
  BY <1>1 DEF Submit, TypeOK
<1>3. Uncrossed'
  BY DEF Submit, Uncrossed
<1>4. ArrivalOrder'
  BY <1>1 DEF Submit, TypeOK, ArrivalOrder
<1> QED
  BY <1>2, <1>3, <1>4

LEMMA TradeIInv ==
  ASSUME IInv, NEW o \in resting, Trade(o)
  PROVE  IInv'
<1> USE DEF IInv
<1> DEFINE fill  == IF o.qty < incoming.qty THEN o.qty ELSE incoming.qty
           left  == [o EXCEPT !.qty = @ - fill]
           taker == [incoming EXCEPT !.qty = @ - fill]
<1>1. o \in RestingOrder /\ incoming \in Order
  BY DEF Trade, IsNextToTrade, Crosses, TypeOK, RestingOrder
<1>2. fill \in Nat /\ fill <= o.qty /\ fill <= incoming.qty
  BY <1>1 DEF RestingOrder, Order
<1>3. taker \in Order /\ taker.oid = incoming.oid
  BY <1>1, <1>2 DEF Order
<1>4. left.qty # 0 => left \in RestingOrder
  BY <1>1, <1>2 DEF RestingOrder
<1>5. left.oid = o.oid /\ left.side = o.side /\ left.price = o.price
  BY <1>1 DEF RestingOrder
<1>6. incoming' = taker /\ next_market_oid' = next_market_oid
      /\ resting' \subseteq (resting \ {o}) \cup {left}
      /\ (left.qty = 0 => resting' = resting \ {o})
  BY DEF Trade
<1> HIDE DEF fill, left, taker
<1>7. TypeOK'
  BY <1>3, <1>4, <1>6 DEF TypeOK, RestingOrder
<1>8. Uncrossed'
  BY <1>5, <1>6 DEF Uncrossed
<1>9. ArrivalOrder'
  <2>1. incoming # None
    BY DEF Trade, IsNextToTrade, Crosses
  <2>2. \A o1 \in resting' : o1 = left \/ (o1 \in resting /\ o1 # o)
    BY <1>6
  <2>3. \A o1 \in resting' : \E r \in resting : o1.oid = r.oid
    BY <2>2, <1>5
  <2>4. \A o1, o2 \in resting' : o1.oid = o2.oid => o1 = o2
    BY <2>2, <1>5 DEF ArrivalOrder
  <2>5. \A o1 \in resting' : o1.oid < next_market_oid /\ o1.oid < incoming.oid
    BY <2>1, <2>3 DEF ArrivalOrder
  <2> QED
    BY <1>3, <1>6, <2>1, <2>4, <2>5 DEF ArrivalOrder
<1> QED
  BY <1>7, <1>8, <1>9

(* The remainder may rest: the orders it does not cross leave the book     *)
(* uncrossed with it.                                                      *)
LEMMA RestIInv ==
  ASSUME IInv, Rest
  PROVE  IInv'
<1> USE DEF IInv
<1>1. incoming \in RestingOrder
  BY DEF Rest, TypeOK, Order, RestingOrder
<1>2. TypeOK'
  BY <1>1 DEF Rest, TypeOK, RestingOrder
<1>3. Uncrossed'
  <2> SUFFICES ASSUME NEW b \in resting', NEW a \in resting',
                      b.side = "BUY", a.side = "SELL"
               PROVE  b.price < a.price
    BY DEF Uncrossed
  <2>1. CASE b \in resting /\ a \in resting
    BY <2>1 DEF Uncrossed
  <2>2. CASE b = incoming /\ a \in resting
    <3>1. ~ Crosses(a)
      BY <2>2 DEF Rest
    <3>2. a.price \in Int /\ b.price \in Int
      BY <1>1, <2>2, PricesAreIntegers, ParticipantsAssumption DEF TypeOK, RestingOrder
    <3> QED
      BY <2>2, <3>1, <3>2 DEF Rest, Crosses, MoreAggressive
  <2>3. CASE b \in resting /\ a = incoming
    <3>1. ~ Crosses(b)
      BY <2>3 DEF Rest
    <3>2. a.price \in Int /\ b.price \in Int
      BY <1>1, <2>3, PricesAreIntegers, ParticipantsAssumption DEF TypeOK, RestingOrder
    <3> QED
      BY <2>3, <3>1, <3>2 DEF Rest, Crosses, MoreAggressive
  <2> QED
    BY <2>1, <2>2, <2>3 DEF Rest
<1>4. ArrivalOrder'
  <2>1. resting' = resting \cup {incoming} /\ incoming' = None
        /\ next_market_oid' = next_market_oid /\ incoming # None
    BY DEF Rest
  <2> QED
    BY <2>1, <1>1 DEF ArrivalOrder, TypeOK, RestingOrder
<1> QED
  BY <1>2, <1>3, <1>4

LEMMA OthersIInv ==
  ASSUME IInv,
         \/ Done
         \/ \E o \in resting : Cancel(o)
         \/ \E client \in Clients, coid \in RequestIds : Reject(client, coid)
  PROVE  IInv'
<1>1. resting' \subseteq resting /\ next_market_oid' = next_market_oid
      /\ (incoming' = None \/ incoming' = incoming)
  BY DEF Done, Cancel, Reject
<1> QED
  BY <1>1 DEF IInv, TypeOK, Uncrossed, ArrivalOrder

LEMMA NextIInv == IInv /\ [Next]_vars => IInv'
<1> SUFFICES ASSUME IInv, [Next]_vars
             PROVE  IInv'
  OBVIOUS
<1>1. CASE UNCHANGED vars
  BY <1>1 DEF vars, IInv, TypeOK, Uncrossed, ArrivalOrder
<1> QED
  BY <1>1, SubmitIInv, TradeIInv, RestIInv, OthersIInv DEF Next

LEMMA Invariance == Spec => []IInv
  BY InitIInv, NextIInv, PTL DEF Spec

(* The book is never crossed, in whatever order requests, trades and       *)
(* cancels come.                                                           *)
THEOREM NeverCrossed == Spec => []Uncrossed
  BY Invariance, PTL DEF IInv

(* Quantities never go below zero and nothing rests without a quantity.    *)
THEOREM TypeCorrect == Spec => []TypeOK
  BY Invariance, PTL DEF IInv

(* A market order id names one order for as long as the book lives.        *)
THEOREM IdsNameOrders == Spec => []ArrivalOrder
  BY Invariance, PTL DEF IInv
=============================================================================
