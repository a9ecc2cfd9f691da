--------------------------- MODULE PositionManager ---------------------------
(***************************************************************************)
(* Client::Position, of which the PositionManager has one for each ticker, *)
(* with what the RiskManager asks of it: a position is a record of the     *)
(* class's members.  The total quantity traded, which nothing reads, is    *)
(* left out, and so is the pointer to the best bid and offer.              *)
(***************************************************************************)
EXTENDS Ratios

CONSTANTS
  SizeMax,     \* size_max,
  PositionMax, \* position_max and
  LossMax,     \* loss_max of the ticker's RiskConf
  None         \* an INVALID value

Sides == {"BUY", "SELL"}

side_to_value(side) == IF side = "BUY" THEN 1 ELSE -1

Opposite(side) == IF side = "BUY" THEN "SELL" ELSE "BUY"

NoOpen == [side \in Sides |-> Whole(0)]

NewPosition ==
  [position |-> 0, pnl_real |-> Whole(0), pnl_unreal |-> Whole(0), pnl_total |-> Whole(0),
   vwap_open |-> NoOpen]

(* The open profit or loss of the position at a price: per unit, against   *)
(* the average price it was opened at, and then for all units.             *)
Unrealised(p, price) ==
  LET size == Magnitude(p.position)
  IN IF p.position > 0
     THEN Times(Minus(price, Over(p.vwap_open["BUY"], size)), size)
     ELSE Times(Minus(Over(p.vwap_open["SELL"], size), price), size)

Valued(p, price) ==
  LET unreal == IF p.position = 0 THEN Whole(0) ELSE Unrealised(p, price)
  IN [p EXCEPT !.pnl_unreal = unreal, !.pnl_total = Plus(unreal, p.pnl_real)]

Opened(p, side, price, exec) ==
  [p EXCEPT !.position = @ + exec * side_to_value(side),
            !.vwap_open[side] = Plus(@, Whole(price * exec))]

(* Slip: what was opened on the other side is not taken off.             *)
ClosedWithoutFlip(p, side, price, exec) ==
  LET old     == Magnitude(p.position)
      new     == p.position + exec * side_to_value(side)
      average == Over(p.vwap_open[Opposite(side)], old)
      closed  == IF exec < old THEN exec ELSE old
  IN [p EXCEPT
        !.position  = new,
        !.pnl_real  = Plus(@, Times(Minus(average, Whole(price)), closed * side_to_value(side))),
        !.vwap_open = IF new = 0 THEN NoOpen
                      ELSE [@ EXCEPT ![Opposite(side)] = Times(average, Magnitude(new))]]

(* A fill against the position: what it closes is realised, and if it goes *)
(* through zero the rest opens a position on its own side.                 *)
Closed(p, side, price, exec) ==
  LET old     == Magnitude(p.position)
      new     == p.position + exec * side_to_value(side)
      average == Over(p.vwap_open[Opposite(side)], old)
      closed  == IF exec < old THEN exec ELSE old
  IN [p EXCEPT
        !.position  = new,
        !.pnl_real  = Plus(@, Times(Minus(average, Whole(price)), closed * side_to_value(side))),
        !.vwap_open =
          IF new = 0 THEN NoOpen
          ELSE IF new * p.position < 0
          THEN [NoOpen EXCEPT ![side] = Whole(price * Magnitude(new))]
          ELSE [@ EXCEPT ![Opposite(side)] = Times(average, Magnitude(new))]]

add_fill(p, side, price, exec) ==
  Valued(IF p.position * side_to_value(side) >= 0
         THEN Opened(p, side, price, exec)
         ELSE Closed(p, side, price, exec),
         Whole(price))

Mid(bbo) == Ratio(bbo.bid + bbo.ask, 2)

on_bbo_update(p, bbo) ==
  IF p.position # 0 /\ bbo.bid # None /\ bbo.ask # None THEN Valued(p, Mid(bbo)) ELSE p

-----------------------------------------------------------------------------
(* Slip: a sale is counted like a purchase.                              *)
get_trade_risk_without_side(p, side, qty) ==
  /\ qty <= SizeMax
  /\ Magnitude(p.position + qty) <= PositionMax
  /\ AtLeast(p.pnl_total, Whole(LossMax))

(* The result is ALLOWED.                                                  *)
get_trade_risk(p, side, qty) ==
  /\ qty <= SizeMax
  /\ Magnitude(p.position + side_to_value(side) * qty) <= PositionMax
  /\ AtLeast(p.pnl_total, Whole(LossMax))
=============================================================================
