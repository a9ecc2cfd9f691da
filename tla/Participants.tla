---------------------------- MODULE Participants ----------------------------
(***************************************************************************)
(* Who takes part in the market of one ticker and what they may ask for:   *)
(* the parameters that LimitOrderBook and OMEOrderBook, which implements   *)
(* it, have in common.                                                     *)
(***************************************************************************)
EXTENDS Integers

CONSTANTS
  Clients,      \* client ids below MAX_N_CLIENTS
  RequestIds,   \* the order ids participants put into requests
  Quotes,       \* the <<side, price>> pairs participants send
  Quantities,   \* the quantities they send
  MaxOrders,    \* bound: how many orders are ever accepted
  None          \* no order; a field of a message that carries no value

Sides == {"BUY", "SELL"}

ASSUME ParticipantsAssumption ==
  /\ Quotes \subseteq Sides \X Int
  /\ Quantities \subseteq Nat
  /\ MaxOrders \in Nat

Prices == {q[2] : q \in Quotes}
=============================================================================
