-------------------------- MODULE OMEOrderBookFeed --------------------------
(***************************************************************************)
(* The order book together with the two parties that only see what it      *)
(* sends: the snapshot synthesizer, which keeps a picture of the book from *)
(* the market updates, and the participants, who keep the open quantity of *)
(* each of their orders from the responses.  The queues in between are     *)
(* FIFO and lose nothing (LFQueue), so each message is applied as it is    *)
(* sent.                                                                   *)
(***************************************************************************)
EXTENDS OMEOrderBook, SnapshotSynthesizer

VARIABLES
  snapshot,   \* the synthesizer's picture of the ticker
  reported    \* market order id -> open quantity by the responses so far

feedVars == <<vars, snapshot, reported>>

(* The last response about an order says what is left of it; a cancelled   *)
(* order has nothing left.                                                 *)
Told(open, response) ==
  IF response.oid = None THEN open
  ELSE [o \in DOMAIN open \cup {response.oid} |->
          IF o # response.oid THEN open[o]
          ELSE IF response.type = "CANCELLED" THEN 0 ELSE response.leaves]

FeedInit ==
  /\ Init
  /\ snapshot = [o \in {} |-> None]
  /\ reported = [o \in {} |-> 0]

Deliver ==
  IF alive'
  THEN /\ snapshot' = FoldLeft(add_to_snapshot, snapshot, updates')
       /\ reported' = FoldLeft(Told, reported, responses')
  ELSE UNCHANGED <<snapshot, reported>>

FeedNext == Next /\ Deliver

FeedSpec == FeedInit /\ [][FeedNext]_feedVars

-----------------------------------------------------------------------------
(* The updates rebuild the book: a receiver that applied all of them holds *)
(* exactly the resting orders, with their quantities and priorities.       *)
SnapshotInSync ==
  /\ DOMAIN snapshot = DOMAIN orders
  /\ \A o \in DOMAIN orders :
       snapshot[o] = [side |-> orders[o].side, price |-> orders[o].price,
                      qty |-> orders[o].qty, priority |-> orders[o].priority]

(* No update the engine sends fails an ASSERT of add_to_snapshot.          *)
UpdatesAccepted ==
  [][alive' => \A i \in DOMAIN updates' :
       UpdateAsserts(FoldLeft(add_to_snapshot, snapshot, SubSeq(updates', 1, i - 1)),
                     updates'[i])]_feedVars

(* The responses about an order add up: it is accepted once and first, a   *)
(* fill takes away what it says, a cancel returns what was left, and then  *)
(* there are no more.                                                      *)
ResponsesAddUp ==
  [][alive' => \A i \in DOMAIN responses' :
       LET r == responses'[i]
       IN CASE r.type = "ACCEPTED" -> r.oid \notin DOMAIN reported /\ r.exec = 0
            [] r.type = "FILLED" ->
                 r.oid \in DOMAIN reported /\ r.exec > 0
                 /\ r.leaves \in Nat /\ r.leaves = reported[r.oid] - r.exec
            [] r.type = "CANCELLED" ->
                 r.oid \in DOMAIN reported /\ r.leaves > 0 /\ r.leaves = reported[r.oid]
            [] OTHER -> r.oid = None]_feedVars

(* Between requests a participant's view is the book: the orders it thinks *)
(* open are the ones that rest, with the quantity it thinks they have.     *)
ReportedIsResting ==
  alive /\ incoming = None =>
    /\ DOMAIN orders = {o \in DOMAIN reported : reported[o] > 0}
    /\ \A o \in DOMAIN orders : orders[o].qty = reported[o]
=============================================================================
