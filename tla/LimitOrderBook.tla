--------------------------- MODULE LimitOrderBook ---------------------------
(***************************************************************************)
(* What an exchange's order book promises its participants: a set of       *)
(* resting limit orders, matched in price-time priority.  There are no     *)
(* price levels, no queues, no hash map and no pools here; OMEOrderBook     *)
(* implements this specification with them.                                *)
(*                                                                         *)
(* A request for a new order is a short transaction of the book: it is     *)
(* accepted, it trades with one resting order after the other, and what    *)
(* is left of it rests.  The steps are separate because each of them sends *)
(* responses, which other threads may read while the next one runs.        *)
(***************************************************************************)
EXTENDS Integers, Participants

VARIABLES
  resting,          \* the orders on the book
  incoming,         \* the order being matched, or None
  next_market_oid,  \* the id the next accepted order gets, also its arrival time
  responses         \* the responses the last step sent, in order

vars == <<resting, incoming, next_market_oid, responses>>

Order == [oid: Nat \ {0}, client: Clients, coid: RequestIds, side: Sides,
          price: Prices, qty: Nat]

(* Price p is more aggressive than price q on a side: it trades first.     *)
MoreAggressive(side, p, q) == IF side = "BUY" THEN p > q ELSE p < q

(* A resting order stands before another one of its side in price-time     *)
(* priority.                                                               *)
Ahead(o1, o2) ==
  \/ MoreAggressive(o1.side, o1.price, o2.price)
  \/ o1.price = o2.price /\ o1.oid < o2.oid

(* Resting order o can trade with the incoming order.                      *)
Crosses(o) ==
  /\ incoming # None
  /\ o.side # incoming.side
  /\ ~ MoreAggressive(incoming.side, o.price, incoming.price)

(* The resting order the incoming one must trade with next.                *)
IsNextToTrade(o) ==
  /\ o \in resting
  /\ Crosses(o)
  /\ \A other \in resting : other.side = o.side /\ other # o => Ahead(o, other)

-----------------------------------------------------------------------------
Accepted(o) ==
  [type |-> "ACCEPTED", client |-> o.client, coid |-> o.coid, oid |-> o.oid,
   side |-> o.side, price |-> o.price, exec |-> 0, leaves |-> o.qty]

Filled(o, price, exec, leaves) ==
  [type |-> "FILLED", client |-> o.client, coid |-> o.coid, oid |-> o.oid,
   side |-> o.side, price |-> price, exec |-> exec, leaves |-> leaves]

Cancelled(o) ==
  [type |-> "CANCELLED", client |-> o.client, coid |-> o.coid, oid |-> o.oid,
   side |-> o.side, price |-> o.price, exec |-> None, leaves |-> o.qty]

CancelRejected(client, coid) ==
  [type |-> "CANCEL_REJECTED", client |-> client, coid |-> coid, oid |-> None,
   side |-> "INVALID", price |-> None, exec |-> None, leaves |-> None]

-----------------------------------------------------------------------------
Init ==
  /\ resting = {}
  /\ incoming = None
  /\ next_market_oid = 1
  /\ responses = <<>>

(* A new order is accepted before it is matched.                           *)
Submit(client, coid, side, price, qty) ==
  /\ incoming = None
  /\ next_market_oid <= MaxOrders
  /\ incoming' = [oid |-> next_market_oid, client |-> client, coid |-> coid,
                  side |-> side, price |-> price, qty |-> qty]
  /\ next_market_oid' = next_market_oid + 1
  /\ responses' = <<Accepted(incoming')>>
  /\ UNCHANGED resting

(* One trade, at the resting order's price; the aggressor is told first.   *)
Trade(o) ==
  /\ IsNextToTrade(o)
  /\ incoming.qty > 0
  /\ LET fill  == IF o.qty < incoming.qty THEN o.qty ELSE incoming.qty
         left  == [o EXCEPT !.qty = @ - fill]
         taker == [incoming EXCEPT !.qty = @ - fill]
     IN /\ incoming' = taker
        /\ resting' = (resting \ {o}) \cup (IF left.qty = 0 THEN {} ELSE {left})
        /\ responses' = <<Filled(incoming, o.price, fill, taker.qty),
                          Filled(o, o.price, fill, left.qty)>>
  /\ UNCHANGED next_market_oid

(* Nothing is left to trade with: the rest of the order joins the book.    *)
Rest ==
  /\ incoming # None
  /\ \A o \in resting : ~ Crosses(o)
  /\ incoming.qty > 0
  /\ resting' = resting \cup {incoming}
  /\ incoming' = None
  /\ responses' = <<>>
  /\ UNCHANGED next_market_oid

(* The order is filled and leaves no trace on the book.                    *)
Done ==
  /\ incoming # None
  /\ incoming.qty = 0
  /\ incoming' = None
  /\ responses' = <<>>
  /\ UNCHANGED <<resting, next_market_oid>>

(* A resting order is withdrawn by the client that owns it.                *)
Cancel(o) ==
  /\ incoming = None
  /\ o \in resting
  /\ resting' = resting \ {o}
  /\ responses' = <<Cancelled(o)>>
  /\ UNCHANGED <<incoming, next_market_oid>>

(* A cancel is rejected exactly when the client has no such order resting. *)
Reject(client, coid) ==
  /\ incoming = None
  /\ \A o \in resting : o.client # client \/ o.coid # coid
  /\ responses' = <<CancelRejected(client, coid)>>
  /\ UNCHANGED <<resting, incoming, next_market_oid>>

Next ==
  \/ \E client \in Clients, coid \in RequestIds, side \in Sides, price \in Prices,
        qty \in Quantities : Submit(client, coid, side, price, qty)
  \/ \E o \in resting : Trade(o)
  \/ Rest
  \/ Done
  \/ \E o \in resting : Cancel(o)
  \/ \E client \in Clients, coid \in RequestIds : Reject(client, coid)

Spec == Init /\ [][Next]_vars

-----------------------------------------------------------------------------
TypeOK ==
  /\ resting \in SUBSET [oid: Nat \ {0}, client: Clients, coid: RequestIds,
                         side: Sides, price: Prices, qty: Nat \ {0}]
  /\ incoming \in Order \cup {None}
  /\ next_market_oid \in Nat \ {0}

(* No two resting orders can trade with each other: every match the book   *)
(* owes its participants has been made before an order is put to rest      *)
(* (OMEOrderBook::find_match runs to its end before add_order_to_book).     *)
Uncrossed ==
  \A o1, o2 \in resting :
    o1.side = "BUY" /\ o2.side = "SELL" => o1.price < o2.price

(* Market order ids name orders: one order per id, all of them below the   *)
(* next id, the order being matched younger than every resting one.        *)
ArrivalOrder ==
  /\ \A o1, o2 \in resting : o1.oid = o2.oid => o1 = o2
  /\ \A o \in resting : o.oid < next_market_oid
  /\ incoming # None =>
       /\ incoming.oid < next_market_oid
       /\ \A o \in resting : o.oid < incoming.oid

(* The inductive invariant: what may rest depends on the types of the      *)
(* prices and, through the identity of orders, on their arrival order.     *)
IInv == TypeOK /\ Uncrossed /\ ArrivalOrder
=============================================================================
