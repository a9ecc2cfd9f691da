---------------------------- MODULE TradingEngine ----------------------------
(***************************************************************************)
(* The thread of Client::TradingEngine with one ticker: responses to its   *)
(* orders and updates of its order book move the position and its profit   *)
(* and loss; the market maker quotes from the book, and the order manager  *)
(* requests orders, while fills and cancels cross on their way.            *)
(*                                                                         *)
(* Fills reach the position if responses come by way of                    *)
(* TradingEngine::on_order_response (Routed); run() hands them to the      *)
(* strategy directly, and the position stays zero.                         *)
(*                                                                         *)
(* The exchange is what LimitOrderBook promises, seen by one client: its   *)
(* order is accepted, is filled in parts by anyone at any time, and is     *)
(* cancelled if it still rests.  Requests and responses arrive in order.   *)
(***************************************************************************)
EXTENDS OrderManager, MarketMaker, Totals, FiniteSetsExt

CONSTANTS
  BestOffers,   \* best bids and offers the client's book may show
  MaxOrders,    \* bound: orders ever requested
  Routed        \* TRUE: responses go through TradingEngine::on_order_response

ASSUME EngineAssumption ==
  /\ TradeSize \in Nat \ {0}
  /\ MaxOrders \in Nat /\ SizeMax \in Nat /\ PositionMax \in Nat
  /\ LossMax \in Int /\ Threshold \in Int
  /\ BestOffers \subseteq [bid: Int \cup {None}, ask: Int \cup {None},
                           bid_qty: Nat \cup {None}, ask_qty: Nat \cup {None}]
  /\ Direct \in BOOLEAN /\ Routed \in BOOLEAN

VARIABLES
  position,   \* the ticker's Position
  loop,       \* which loop of TradingEngine::run the thread is in
  responses,  \* on their way to the client
  resting,    \* the client's orders on the exchange's book
  cash,       \* what the fills the client was told of have cost and brought
  mark        \* the price the position was last valued at

exchangeVars == <<responses, resting>>
moneyVars == <<position, cash, mark>>

vars == <<managerVars, loop, exchangeVars, moneyVars>>

Init ==
  /\ ManagerInit
  /\ position = NewPosition
  /\ loop = "responses"
  /\ responses = <<>>
  /\ resting = {}
  /\ cash = 0
  /\ mark = Whole(0)

-----------------------------------------------------------------------------
(* TradingEngine::run goes through all responses, then through all market  *)
(* updates.                                                                *)

(* Slip: the strategy alone is told, and the position misses the fill.   *)
OrderResponseToStrategy(response) ==
  /\ order' = IF response.side \in Sides
              THEN [order EXCEPT ![response.side] = AfterResponse(@, response)] ELSE order
  /\ cash' = IF response.type = "FILLED"
             THEN cash - side_to_value(response.side) * response.price * response.exec ELSE cash
  /\ UNCHANGED <<position, mark>>

OrderResponse(response) ==
  /\ order' = IF response.side \in Sides
              THEN [order EXCEPT ![response.side] = AfterResponse(@, response)] ELSE order
  /\ cash' = IF response.type = "FILLED"
             THEN cash - side_to_value(response.side) * response.price * response.exec ELSE cash
  /\ IF Routed /\ response.type = "FILLED"
     THEN /\ position' = add_fill(position, response.side, response.price, response.exec)
          /\ mark' = IF position'.position = 0 THEN Whole(0) ELSE Whole(response.price)
     ELSE UNCHANGED <<position, mark>>

HandleResponse ==
  /\ loop = "responses"
  /\ responses # <<>>
  /\ OrderResponse(Head(responses))
  /\ responses' = Tail(responses)
  /\ UNCHANGED <<next_oid, requests, loop, resting>>

NoMoreResponses ==
  /\ loop = "responses"
  /\ responses = <<>>
  /\ loop' = "updates"
  /\ UNCHANGED <<managerVars, exchangeVars, moneyVars>>

(* A market update moved the book: the position is valued anew, and if     *)
(* both sides have offers the market maker quotes.                         *)
on_order_book_update(bbo) ==
  /\ loop = "updates"
  /\ position' = on_bbo_update(position, bbo)
  /\ mark' = IF position.position # 0 /\ None \notin {bbo.bid, bbo.ask} THEN Mid(bbo) ELSE mark
  /\ IF None \in {bbo.bid, bbo.ask} THEN UNCHANGED managerVars
     ELSE manage_orders(position', Quotes(bbo).bid, Quotes(bbo).ask)
  /\ next_oid' <= MaxOrders + 1
  /\ UNCHANGED <<loop, exchangeVars, cash>>

NoMoreUpdates ==
  /\ loop = "updates"
  /\ loop' = "responses"
  /\ UNCHANGED <<managerVars, exchangeVars, moneyVars>>

-----------------------------------------------------------------------------
(* The exchange.                                                           *)

Response(type, o, price, exec) ==
  [type |-> type, oid |-> o.oid, side |-> o.side, price |-> price, exec |-> exec,
   leaves |-> o.qty]

Accept ==
  /\ requests # <<>>
  /\ LET request == Head(requests)
         o == [oid |-> request.oid, side |-> request.side, price |-> request.price,
               qty |-> request.qty]
     IN /\ request.type = "NEW"
        /\ resting' = resting \cup {o}
        /\ responses' = Append(responses, Response("ACCEPTED", o, o.price, 0))
  /\ requests' = Tail(requests)
  /\ UNCHANGED <<order, next_oid, loop, moneyVars>>

(* A fill of the order by an aggressor, or as one just after it came.      *)
Fill(o, qty) ==
  /\ LET left == [o EXCEPT !.qty = @ - qty]
     IN /\ resting' = (resting \ {o}) \cup (IF left.qty = 0 THEN {} ELSE {left})
        /\ responses' = Append(responses, Response("FILLED", left, o.price, qty))
  /\ UNCHANGED <<managerVars, loop, moneyVars>>

(* A cancel that names no order ends the exchange's process (OMEOrderBook, *)
(* CancelFatal): nothing more happens there.                               *)
CancelRequest ==
  /\ requests # <<>>
  /\ Head(requests).type = "CANCEL"
  /\ Head(requests).oid # None
  /\ requests' = Tail(requests)
  /\ UNCHANGED <<order, next_oid, loop, moneyVars>>

Cancel ==
  /\ CancelRequest
  /\ \E o \in resting :
       /\ o.oid = Head(requests).oid
       /\ resting' = resting \ {o}
       /\ responses' = Append(responses, Response("CANCELLED", o, o.price, None))

(* A rejection carries neither side nor market order id.                   *)
CancelRejected ==
  /\ CancelRequest
  /\ \A o \in resting : o.oid # Head(requests).oid
  /\ responses' = Append(responses,
                         Response("CANCEL_REJECTED",
                                  [oid |-> Head(requests).oid, side |-> "INVALID", qty |-> None],
                                  None, None))
  /\ UNCHANGED resting

-----------------------------------------------------------------------------
Client == HandleResponse \/ NoMoreResponses \/ NoMoreUpdates

Exchange == Accept \/ Cancel \/ CancelRejected

Next ==
  \/ Client
  \/ \E bbo \in BestOffers : on_order_book_update(bbo)
  \/ Exchange
  \/ \E o \in resting : \E qty \in 1 .. o.qty : Fill(o, qty)

(* The client's thread goes round its loops, as it always can: updates do  *)
(* not come faster than it handles them.  The exchange takes requests from *)
(* its queue.  This is weak fairness of Client and of Exchange, with the   *)
(* condition written out under which each cannot step.                     *)
Fairness ==
  /\ []<><<Client>>_vars
  /\ []<>(requests = <<>> \/ Head(requests).oid = None) \/ []<><<Exchange>>_vars

Spec == Init /\ [][Next]_vars /\ Fairness

-----------------------------------------------------------------------------
(* The exchange never has, or is about to have, two orders of a side from  *)
(* this manager: an order that must be replaced is gone before the next    *)
(* one is requested, however fills and cancels cross on their way.         *)
OneOrderPerSide ==
  \A side \in Sides :
    Cardinality({o \in resting : o.side = side})
      + Cardinality({i \in DOMAIN requests :
                       requests[i].type = "NEW" /\ requests[i].side = side}) <= 1

(* The position stays within its limit whatever happens to the orders that *)
(* are out: the fills a side may still bring are those on their way, what  *)
(* rests and what is requested, and the limit has room for all of them.    *)
OnTheirWay(side) ==
  [i \in DOMAIN responses |->
     IF responses[i].type = "FILLED" /\ responses[i].side = side THEN responses[i].exec ELSE 0]

Requested(side) ==
  [i \in DOMAIN requests |->
     IF requests[i].type = "NEW" /\ requests[i].side = side THEN requests[i].qty ELSE 0]

Exposure(side) ==
  side_to_value(side) * position.position
    + Total(OnTheirWay(side))
    + Total(Requested(side))
    + MapThenSumSet(LAMBDA o : o.qty, {o \in resting : o.side = side})

ExposureWithinLimit == \A side \in Sides : Exposure(side) <= PositionMax

(* The books balance: whatever fills opened, added to, reduced or turned   *)
(* round the position, in whatever order the market moved meanwhile, total *)
(* profit and loss is the cash that the fills the client was told of       *)
(* brought, plus the position at the price it was last valued at.  The     *)
(* loss limit goes by it.  No fill may miss the position: if responses are *)
(* not Routed, the cash is not accounted for.                              *)
PnlAddsUp ==
  position.pnl_total = Plus(Whole(cash), Times(mark, position.position))

(* Once all messages have arrived the manager's view is the exchange's: an *)
(* order that rests is LIVE with its id, price and quantity, any other is  *)
(* not, and none is pending for ever.                                      *)
SettledAgrees ==
  requests = <<>> /\ responses = <<>> =>
    \A side \in Sides :
      /\ order[side].state \notin {"PENDING_NEW", "PENDING_CANCEL"}
      /\ {o \in resting : o.side = side} =
           IF order[side].state = "LIVE"
           THEN {[oid |-> order[side].id, side |-> side, price |-> order[side].price,
                  qty |-> order[side].qty]}
           ELSE {}

(* Every request is answered in the end: no order stays pending, also when *)
(* the exchange rejects a cancel because the order was filled meanwhile.   *)
EveryRequestIsAnswered ==
  \A side \in Sides :
    order[side].state \in {"PENDING_NEW", "PENDING_CANCEL"}
      ~> order[side].state \notin {"PENDING_NEW", "PENDING_CANCEL"}
=============================================================================
