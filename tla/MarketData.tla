----------------------------- MODULE MarketData -----------------------------
(***************************************************************************)
(* The way of market data from the matching engine to a trading client:    *)
(* the thread of MarketDataPublisher, the thread of SnapshotSynthesizer,   *)
(* two multicast streams that lose datagrams, and the client's thread,     *)
(* MarketDataConsumer.  The client may start late: the first datagrams are *)
(* lost then.                                                              *)
(*                                                                         *)
(* The matching engine is here what OMEOrderBookFeed shows it to be: it    *)
(* sends updates that fit the book, and never reuses an order id.  Of a    *)
(* TRADE, which changes no book, only the number it takes matters.         *)
(***************************************************************************)
EXTENDS SnapshotSynthesizer, MarketDataConsumer

CONSTANTS
  MAX_TICKERS,        \* tickers are numbered from zero
  OrderIds,           \* market order ids, numbers
  Contents,           \* what an order can be when added: side, price, qty, priority
  MaxUpdates,         \* bound: updates the matching engine sends
  MaxLost,            \* bound: incremental datagrams lost
  MaxSnapshotLost,    \* bound: snapshot datagrams lost while the client listens
  MaxReordered,       \* bound: incremental datagrams that overtake older ones
  MaxInFlight         \* bound: snapshot datagrams in the client's socket

ASSUME MarketDataAssumption ==
  /\ MAX_TICKERS \in Nat \ {0}
  /\ OrderIds \subseteq Nat
  /\ {MaxUpdates, MaxLost, MaxSnapshotLost, MaxReordered, MaxInFlight} \subseteq Nat

VARIABLES
  sent_updates,  \* every update the matching engine has queued for the publisher
  n_seq_next,    \* MDP: the number of the next one to publish
  tx_buffer,     \* MDP: the datagram being put together
  tx_snapshot_updates, \* MDP to SS: the queue of numbered updates
  pictures,      \* SS: ticker -> picture of its book
  n_seq_last,    \* SS: the last update in the pictures
  publishing,    \* SS: datagrams left of the snapshot it is sending
  incremental,   \* datagrams in the client's incremental socket
  snapshots,     \* and in its snapshot socket
  mdc,           \* the consumer
  client_book,   \* the books the updates pushed to the trading engine make
  position,      \* how many of the exchange's updates the client last was in step with
  lost,          \* numbers of the incremental updates that were lost
  n_lost, n_snapshot_lost, n_reordered   \* datagrams, counted for the bounds

publisherVars == <<n_seq_next, tx_buffer>>
synthesizerVars == <<pictures, n_seq_last, publishing>>
clientVars == <<mdc, client_book, position>>
lossVars == <<lost, n_lost, n_snapshot_lost, n_reordered>>

vars == <<sent_updates, publisherVars, tx_snapshot_updates, synthesizerVars, incremental,
          snapshots, clientVars, lossVars>>

Tickers == 0 .. MAX_TICKERS - 1

TickerSeq == Ascending(Tickers)

EmptyBooks == [t \in Tickers |-> [o \in {} |-> 0]]

(* The books after an update.                                              *)
Applied(books, update) ==
  CASE update.type = "CLEAR" -> [books EXCEPT ![update.ticker] = [o \in {} |-> 0]]
    [] update.type = "TRADE" -> books
    [] OTHER -> [books EXCEPT ![update.ticker] = add_to_snapshot(@, update)]

(* The books after the first n of some updates.                            *)
AppliedFirst(n, updates, books) ==
  LET after[i \in 0 .. n] == IF i = 0 THEN books ELSE Applied(after[i - 1], updates[i])
  IN after[n]

(* The exchange's books after its first n updates.                         *)
Books(n) == AppliedFirst(n, sent_updates, EmptyBooks)

-----------------------------------------------------------------------------
Init ==
  /\ sent_updates = <<>>
  /\ n_seq_next = 1
  /\ tx_buffer = <<>>
  /\ tx_snapshot_updates = <<>>
  /\ pictures = EmptyBooks
  /\ n_seq_last = 0
  /\ publishing = <<>>
  /\ incremental = <<>>
  /\ snapshots = <<>>
  /\ mdc = NewConsumer
  /\ client_book = EmptyBooks
  /\ position = 0
  /\ lost = {}
  /\ n_lost = 0
  /\ n_snapshot_lost = 0
  /\ n_reordered = 0

(* The updates the matching engine may send of a ticker.                   *)
OrderUpdate(type, ticker, oid, content) ==
  [type |-> type, ticker |-> ticker, oid |-> oid, side |-> content.side,
   price |-> content.price, qty |-> content.qty, priority |-> content.priority]

EngineUpdates(ticker) ==
  LET book  == Books(Len(sent_updates))[ticker]
      added == {sent_updates[i].oid : i \in {j \in DOMAIN sent_updates :
                  sent_updates[j].type = "ADD" /\ sent_updates[j].ticker = ticker}}
  IN {OrderUpdate("ADD", ticker, o, c) :
        o \in {oid \in OrderIds : \A a \in added : a < oid}, c \in Contents}
     \cup {OrderUpdate("CANCEL", ticker, o, book[o]) : o \in DOMAIN book}
     \cup {[type |-> "TRADE", ticker |-> ticker]}
     \cup UNION {{OrderUpdate("MODIFY", ticker, o, [book[o] EXCEPT !.qty = q]) :
                    q \in 1 .. book[o].qty - 1} : o \in DOMAIN book}

EngineSends(update) ==
  /\ Len(sent_updates) < MaxUpdates
  /\ sent_updates' = Append(sent_updates, update)
  /\ UNCHANGED <<publisherVars, tx_snapshot_updates, synthesizerVars, incremental, snapshots,
                 clientVars, lossVars>>

-----------------------------------------------------------------------------
(* MarketDataPublisher::run: the loop over the queue numbers each update   *)
(* and hands it to the stream's buffer and to the synthesizer ...          *)
PublishUpdate ==
  /\ n_seq_next <= Len(sent_updates)
  /\ LET message == [n_seq |-> n_seq_next, ome_update |-> sent_updates[n_seq_next]]
     IN /\ tx_buffer' = Append(tx_buffer, message)
        /\ tx_snapshot_updates' = Append(tx_snapshot_updates, message)
  /\ n_seq_next' = n_seq_next + 1
  /\ UNCHANGED <<sent_updates, synthesizerVars, incremental, snapshots, clientVars, lossVars>>

(* ... and when it has emptied the queue the buffer leaves as a datagram,  *)
(* which reaches the client's socket or is lost.                           *)
Transmit ==
  /\ n_seq_next > Len(sent_updates)
  /\ tx_buffer # <<>>
  /\ tx_buffer' = <<>>
  /\ UNCHANGED <<sent_updates, n_seq_next, tx_snapshot_updates, synthesizerVars, snapshots,
                 clientVars, n_snapshot_lost, n_reordered>>

SendIncremental ==
  /\ Transmit
  /\ incremental' = Append(incremental, tx_buffer)
  /\ UNCHANGED <<lost, n_lost>>

LoseIncremental ==
  /\ n_lost < MaxLost
  /\ Transmit
  /\ n_lost' = n_lost + 1
  /\ lost' = lost \cup {tx_buffer[i].n_seq : i \in DOMAIN tx_buffer}
  /\ UNCHANGED incremental

-----------------------------------------------------------------------------
(* SnapshotSynthesizer::run: apply what is queued, then, at an interval,   *)
(* publish a snapshot.  The thread does nothing else meanwhile.            *)
AddToSnapshot ==
  /\ publishing = <<>>
  /\ tx_snapshot_updates # <<>>
  /\ LET message == Head(tx_snapshot_updates)
     IN /\ pictures' = Applied(pictures, message.ome_update)
        /\ n_seq_last' = message.n_seq
  /\ tx_snapshot_updates' = Tail(tx_snapshot_updates)
  /\ UNCHANGED <<sent_updates, publisherVars, publishing, incremental, snapshots, clientVars,
                 lossVars>>

StartSnapshot ==
  /\ publishing = <<>>
  /\ tx_snapshot_updates = <<>>
  /\ UNCHANGED <<sent_updates, publisherVars, tx_snapshot_updates, pictures, n_seq_last,
                 incremental, snapshots, clientVars, lossVars>>
  /\ publishing' = Datagrams(SnapshotMessages(TickerSeq, pictures, n_seq_last))

(* One datagram of the snapshot leaves.  The client listens to the stream  *)
(* only during a recovery.                                                 *)
SendSnapshot ==
  /\ publishing # <<>>
  /\ Len(snapshots) < MaxInFlight
  /\ publishing' = Tail(publishing)
  /\ snapshots' = IF mdc.is_in_recovery THEN Append(snapshots, Head(publishing)) ELSE snapshots
  /\ UNCHANGED <<sent_updates, publisherVars, tx_snapshot_updates, pictures, n_seq_last,
                 incremental, clientVars, lossVars>>

LoseSnapshot ==
  /\ publishing # <<>>
  /\ mdc.is_in_recovery
  /\ n_snapshot_lost < MaxSnapshotLost
  /\ n_snapshot_lost' = n_snapshot_lost + 1
  /\ publishing' = Tail(publishing)
  /\ UNCHANGED <<sent_updates, publisherVars, tx_snapshot_updates, pictures, n_seq_last,
                 incremental, snapshots, clientVars, lost, n_lost, n_reordered>>

-----------------------------------------------------------------------------
(* The callback of one socket handles a datagram.  A recovery that starts  *)
(* or ends opens or closes the snapshot socket: what it held is gone.      *)
Receive(is_snapshot, datagram) ==
  LET c == rx_callback(is_snapshot, mdc, datagram)
  IN /\ mdc' = [c EXCEPT !.pushed = <<>>]
     /\ client_book' = AppliedFirst(Len(c.pushed), c.pushed, client_book)
     /\ position' = IF c.is_in_recovery THEN position ELSE c.n_seq_inc_next - 1

ReceiveIncremental ==
  /\ incremental # <<>>
  /\ incremental' = Tail(incremental)
  /\ Receive(FALSE, Head(incremental))
  /\ snapshots' = IF mdc'.is_in_recovery = mdc.is_in_recovery THEN snapshots ELSE <<>>
  /\ UNCHANGED <<sent_updates, publisherVars, tx_snapshot_updates, synthesizerVars, lossVars>>

ReceiveSnapshot ==
  /\ snapshots # <<>>
  /\ Receive(TRUE, Head(snapshots))
  /\ snapshots' = IF mdc'.is_in_recovery THEN Tail(snapshots) ELSE <<>>
  /\ UNCHANGED <<sent_updates, publisherVars, tx_snapshot_updates, synthesizerVars,
                 incremental, lossVars>>

(* The network delivers a datagram before the one sent earlier.            *)
Overtake ==
  /\ Len(incremental) > 1
  /\ n_reordered < MaxReordered
  /\ n_reordered' = n_reordered + 1
  /\ incremental' = <<incremental[2], incremental[1]>> \o SubSeq(incremental, 3, Len(incremental))
  /\ UNCHANGED <<sent_updates, publisherVars, tx_snapshot_updates, synthesizerVars, snapshots,
                 clientVars, lost, n_lost, n_snapshot_lost>>

-----------------------------------------------------------------------------
Publisher == PublishUpdate \/ SendIncremental \/ LoseIncremental

Synthesizer == AddToSnapshot \/ StartSnapshot \/ SendSnapshot \/ LoseSnapshot

Next ==
  \/ \E t \in Tickers : \E u \in EngineUpdates(t) : EngineSends(u)
  \/ Publisher
  \/ Synthesizer
  \/ ReceiveIncremental
  \/ ReceiveSnapshot
  \/ Overtake

(* Each thread runs on: the publisher and the synthesizer spin on their    *)
(* queues, a snapshot is due again after each interval, and the consumer   *)
(* polls both sockets in turn; losses are finite.  The last three          *)
(* conjuncts are weak fairness written out, with the condition under which *)
(* the action is enabled (the second a stronger one): TLC takes very long  *)
(* to evaluate ENABLED for actions that compute as much as these.          *)
Fairness ==
  /\ WF_vars(Publisher)
  /\ []<>(Len(snapshots) = MaxInFlight) \/ []<><<Synthesizer>>_vars
  /\ []<>(incremental = <<>>) \/ []<><<ReceiveIncremental>>_vars
  /\ []<>(snapshots = <<>>) \/ []<><<ReceiveSnapshot>>_vars

Spec == Init /\ [][Next]_vars /\ Fairness

-----------------------------------------------------------------------------
TypeOK ==
  /\ n_seq_next \in 1 .. Len(sent_updates) + 1
  /\ n_seq_last \in 0 .. n_seq_next - 1
  /\ \A t \in Tickers : DOMAIN pictures[t] \subseteq OrderIds
  /\ mdc.n_seq_inc_next \in 1 .. n_seq_next
  /\ mdc.is_in_recovery \in BOOLEAN
  /\ ~ mdc.is_in_recovery =>
       mdc.queued_snapshot_updates = NoUpdates /\ mdc.queued_incremental_updates = NoUpdates

(* The client's books are always books the exchange had: outside of a      *)
(* recovery those after all updates below the number it expects next, in a *)
(* recovery those it had when it lost track.                               *)
ClientBookIsReal == client_book = Books(position)

(* The client goes back to books that it has moved on from only by a       *)
(* recovery that a late update began, one below the number it expected,    *)
(* and in which nothing newer has come: a snapshot that is older than its  *)
(* books completes it then.  No recovery from a gap takes it back.         *)
ClientGoesBackOnlyIfLate ==
  [][position' < position =>
       LET late == DOMAIN mdc.queued_incremental_updates
       IN late # {} /\ \A n \in late : n <= position]_vars

(* The client does not stay in a recovery for ever, and whatever reaches   *)
(* it takes effect: an update it has received, or one older than that, is  *)
(* in its books some time later.  Where datagrams overtake each other the  *)
(* latter may be undone: a client that has gone back lacks updates it had, *)
(* until the next update shows it the gap.                                 *)
EveryUpdateTakesEffect ==
  /\ []<>(~ mdc.is_in_recovery)
  /\ \A k \in 1 .. MaxUpdates :
       n_seq_next > k /\ tx_buffer = <<>> /\ k \notin lost /\ n_reordered = 0
         ~> ~ mdc.is_in_recovery /\ mdc.n_seq_inc_next > k
=============================================================================
