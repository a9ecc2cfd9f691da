------------------------- MODULE SnapshotSynthesizer -------------------------
(***************************************************************************)
(* What Exchange::SnapshotSynthesizer makes of the market updates: a       *)
(* picture of each ticker's book, from the order ids it holds to the       *)
(* order's update, and the snapshot it publishes of all pictures.          *)
(***************************************************************************)
EXTENDS Integers, SequencesExt, Ascending

Picture(snapshot, oid, order) ==
  [o \in DOMAIN snapshot \cup {oid} |-> IF o = oid THEN order ELSE snapshot[o]]

(* What add_to_snapshot asserts of an update before it applies it.         *)
UpdateAsserts(snapshot, update) ==
  CASE update.type = "ADD" -> update.oid \notin DOMAIN snapshot
    [] update.type \in {"MODIFY", "CANCEL"} ->
         update.oid \in DOMAIN snapshot /\ snapshot[update.oid].side = update.side
    [] OTHER -> TRUE

(* The picture after the update.  MODIFY changes quantity and price only.  *)
add_to_snapshot(snapshot, update) ==
  CASE update.type = "ADD" ->
         Picture(snapshot, update.oid,
                 [side |-> update.side, price |-> update.price, qty |-> update.qty,
                  priority |-> update.priority])
    [] update.type = "MODIFY" ->
         [snapshot EXCEPT ![update.oid].qty = update.qty, ![update.oid].price = update.price]
    [] update.type = "CANCEL" ->
         [o \in DOMAIN snapshot \ {update.oid} |-> snapshot[o]]
    [] OTHER -> snapshot

-----------------------------------------------------------------------------
(* Slip: no CLEAR before the orders.                                     *)
TickerMessagesWithoutClear(ticker, snapshot) ==
  LET oids == Ascending(DOMAIN snapshot)
  IN [i \in DOMAIN oids |->
        [type |-> "ADD", ticker |-> ticker, oid |-> oids[i],
         side |-> snapshot[oids[i]].side, price |-> snapshot[oids[i]].price,
         qty |-> snapshot[oids[i]].qty, priority |-> snapshot[oids[i]].priority]]

(* publish_snapshot: SNAPSHOT_START, then for each ticker CLEAR and its    *)
(* orders by id, then SNAPSHOT_END.  Both ends carry the number of the     *)
(* last update in the picture; the messages are numbered from zero.        *)
TickerMessages(ticker, snapshot) ==
  LET oids == Ascending(DOMAIN snapshot)
  IN <<[type |-> "CLEAR", ticker |-> ticker]>> \o
     [i \in DOMAIN oids |->
        [type |-> "ADD", ticker |-> ticker, oid |-> oids[i],
         side |-> snapshot[oids[i]].side, price |-> snapshot[oids[i]].price,
         qty |-> snapshot[oids[i]].qty, priority |-> snapshot[oids[i]].priority]]

SnapshotMessages(tickers, pictures, n_seq_last) ==
  LET updates ==
        <<[type |-> "SNAPSHOT_START", oid |-> n_seq_last]>> \o
        FlattenSeq([i \in DOMAIN tickers |-> TickerMessages(tickers[i], pictures[tickers[i]])]) \o
        <<[type |-> "SNAPSHOT_END", oid |-> n_seq_last]>>
  IN [i \in DOMAIN updates |-> [n_seq |-> i - 1, ome_update |-> updates[i]]]

(* A datagram is sent after each order and at the end: a message that is   *)
(* not an order travels with the next one that is.                         *)
Datagrams(messages) ==
  LET ends == Ascending({i \in DOMAIN messages : messages[i].ome_update.type = "ADD"}
                           \cup {Len(messages)})
  IN [k \in DOMAIN ends |->
        SubSeq(messages, IF k = 1 THEN 1 ELSE ends[k - 1] + 1, ends[k])]
=============================================================================
