---------------------------- MODULE OrderManager ----------------------------
(***************************************************************************)
(* Client::OrderManager for one ticker: it keeps one order for each side,  *)
(* requests it, and replaces it when the strategy quotes another price.    *)
(*                                                                         *)
(* A strategy reaches manage_order with the managed orders themselves      *)
(* (Direct) or through manage_orders, which hands copies of them to it     *)
(* and drops them.                                                         *)
(***************************************************************************)
EXTENDS Sequences, PositionManager

CONSTANTS
  TradeSize,   \* the quantity the strategy quotes
  Direct       \* TRUE: the strategy calls manage_order with the managed orders

VARIABLES
  order,      \* side -> the order the manager keeps for it
  next_oid,
  requests    \* on their way to the exchange

managerVars == <<order, next_oid, requests>>

NoOrder == [id |-> None, price |-> None, qty |-> None, state |-> "INVALID"]

ManagerInit ==
  /\ order = [side \in Sides |-> NoOrder]
  /\ next_oid = 1
  /\ requests = <<>>

-----------------------------------------------------------------------------
(* Slip: pending orders are taken for dead ones.                         *)
WantsNewUnlessLive(o, price) == o.state # "LIVE" /\ price # None

(* What manage_order does with an order: whether it sends a request, which *)
(* one, and the state that leaves.  A price of None asks for no order, but *)
(* cancels one.                                                            *)
WantsNew(o, price) == o.state \in {"INVALID", "DEAD"} /\ price # None

WantsCancel(o, price) == o.state = "LIVE" /\ o.price # price

(* manage_order on the order of a side, for the price and whether a new    *)
(* order is allowed: the request it sends, and the order it leaves.        *)
request_new_order(side, oid, price) ==
  [type |-> "NEW", side |-> side, oid |-> oid, price |-> price, qty |-> TradeSize]

request_cancel_order(side, o) ==
  [type |-> "CANCEL", side |-> side, oid |-> o.id, price |-> o.price, qty |-> o.qty]

Sends(side, oid, price, allowed) ==
  LET o == order[side]
  IN IF WantsNew(o, price) /\ allowed THEN <<request_new_order(side, oid, price)>>
     ELSE IF WantsCancel(o, price) THEN <<request_cancel_order(side, o)>>
     ELSE <<>>

Managed(side, oid, price, allowed) ==
  LET o == order[side]
  IN IF WantsNew(o, price) /\ allowed
     THEN [id |-> oid, price |-> price, qty |-> TradeSize, state |-> "PENDING_NEW"]
     ELSE IF WantsCancel(o, price) THEN [o EXCEPT !.state = "PENDING_CANCEL"]
     ELSE o

(* manage_orders: the bid, then the ask, each checked against position p.  *)
manage_orders(p, bid, ask) ==
  LET may_buy  == get_trade_risk(p, "BUY", TradeSize)
      may_sell == get_trade_risk(p, "SELL", TradeSize)
      ask_oid  == IF WantsNew(order["BUY"], bid) /\ may_buy THEN next_oid + 1 ELSE next_oid
  IN /\ requests' = requests \o Sends("BUY", next_oid, bid, may_buy)
                             \o Sends("SELL", ask_oid, ask, may_sell)
     /\ next_oid' = IF WantsNew(order["SELL"], ask) /\ may_sell THEN ask_oid + 1 ELSE ask_oid
     /\ order' = IF Direct
                 THEN [order EXCEPT !["BUY"] = Managed("BUY", next_oid, bid, may_buy),
                                    !["SELL"] = Managed("SELL", ask_oid, ask, may_sell)]
                 ELSE order

(* Slip: a partial fill leaves the quantity.                             *)
AfterResponseKeepingQty(o, response) ==
  CASE response.type = "ACCEPTED"  -> [o EXCEPT !.state = "LIVE"]
    [] response.type = "CANCELLED" \/ response.leaves = 0 -> [o EXCEPT !.state = "DEAD"]
    [] OTHER -> o

(* Slip: an order filled to the end stays LIVE.                          *)
AfterResponseNeverFilled(o, response) ==
  CASE response.type = "ACCEPTED"  -> [o EXCEPT !.state = "LIVE"]
    [] response.type = "CANCELLED" -> [o EXCEPT !.state = "DEAD"]
    [] response.type = "FILLED"    -> [o EXCEPT !.qty = response.leaves]
    [] OTHER -> o

(* on_order_response finds the order by the response's side, whatever id   *)
(* it has.                                                                 *)
AfterResponse(o, response) ==
  CASE response.type = "ACCEPTED"  -> [o EXCEPT !.state = "LIVE"]
    [] response.type = "CANCELLED" -> [o EXCEPT !.state = "DEAD"]
    [] response.type = "FILLED"    ->
         [o EXCEPT !.qty = response.leaves,
                   !.state = IF response.leaves = 0 THEN "DEAD" ELSE @]
    [] OTHER -> o
=============================================================================
