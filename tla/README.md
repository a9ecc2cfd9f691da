# Nitek in TLA+

Nitek is a trading exchange and the framework of a trading client for it, in C++. This directory
holds TLA+ models of both sides, the configurations that check them with TLC, and theorems that
TLAPS proves. Source files are named by their path below `source/nitek/` or, for `llbase/`,
`source/`, or by their file name alone, which is unique.

Run anything here from this directory, for example

    tlc -config OMEOrderBook.cfg MCOMEOrderBook.tla
    tlapm MemPoolProofs.tla

`PROJECT.json` lists every run, says which lines of the source each definition models, and names
the hazards the properties are aimed at.


## 1. The system

One process is the exchange, others are trading clients. Inside each, a few threads spin on
queues and sockets and hand each other messages; nothing is locked and nothing is stored on
disk. `ExchangeServer` starts the exchange's three threads (`nitek_main.cpp` so far only the
matching engine); the repository has no program for the client yet, only its parts.

    client process                              exchange process
    TradingEngine --requests queue--> OrderGatewayClient
                                        | TCP
                                        v
                          OrderGatewayServer (TCPServer, FIFOSequencer)
                                        | requests queue
                                        v
                          OrderMatchingEngine (an OMEOrderBook per ticker)
                            | responses queue          | updates queue
                            v                          v
             OrderGatewayServer (back by TCP)   MarketDataPublisher
                                                   |          | queue
                              incremental stream   |          v
                                   (multicast)     |   SnapshotSynthesizer
                                                   v          v  snapshot stream
    TradingEngine <--updates queue--  MarketDataConsumer  <---+
    (a TEOrderBook per ticker, OrderManager, RiskManager, PositionManager, MarketMaker)

### Inventory

| Component | State | Operations | Correct when | Model |
|---|---|---|---|---|
| Exchange order book, `exchange/orders/ome_order_book.*` | orders, levels by price and by slot, client id map, next market order id, two pools | `add` (with `find_match`, `match`), `cancel` | it trades in price-time priority; no cancel or fill reaches an order that has left; messages describe it exactly | `OMEOrderBook`, abstractly `LimitOrderBook` |
| Order matching engine, `exchange/orders/order_matching_engine.*` | a book per ticker, its queues, `is_running` | `run`, `process_client_request`, `start`, `stop` | one request after the other, every response and update sent | in `OMEOrderBook`; start and stop in `ExchangeServer` |
| Market data publisher, `exchange/data/market_data_publisher.*` | `n_seq_next`, the stream's buffer | `run` | numbers without gap; synthesizer and stream get the same | `MarketData` |
| Snapshot synthesizer, `exchange/data/snapshot_synthesizer.*` | a picture of each book, `n_seq_last` | `add_to_snapshot`, `publish_snapshot`, `run` | each snapshot is one state of the books, marked with its number | `SnapshotSynthesizer`, `MarketData` |
| Order gateway server, `exchange/networking/order_gateway_server.*`; TCP server, `llbase/tcp_server.*`, `tcp_socket.*` | per client socket and two sequence numbers; lists of readable and writable sockets | `run`, `rx_callback`, `poll`, `tx_and_rx` | every client's requests once and in order to the engine; every response to its client | `OrderGateway` |
| FIFO sequencer, `exchange/networking/fifo_sequencer.h` | pending requests with receive times | `push_client_request`, `sequence_and_publish` | requests published by receive time | `OrderGateway` |
| Order gateway client, `client/networking/order_gateway_client.*` | socket, two sequence numbers | `run`, `rx_callback` | as the server's | `OrderGateway` |
| Market data consumer, `client/data/market_data_consumer.*` | next number, recovery flag, two maps of queued updates | `rx_callback`, `queue_update`, `snapshot_sync_start`, `snapshot_sync_check` | what it hands on makes books the exchange had, and it catches up | `MarketDataConsumer`, `MarketData` |
| Client order book, `client/orders/te_order_book.*` | order and level blocks in circular lists, maps, BBO | `on_market_update` for ADD, MODIFY, CANCEL, CLEAR, TRADE; `update_bbo` | lists, maps and BBO show the book the updates describe | `TEOrderBook` |
| Order manager, `client/trading/order_manager.h` | an order for each side, next order id | `manage_orders`, `manage_order`, `on_order_response` | at most one order out per side; its view agrees with the exchange | `OrderManager` |
| Risk and position managers, `risk_manager.*`, `position_manager.h` | limits; position, average prices, profit and loss | `get_trade_risk`, `add_fill`, `on_bbo_update` | the position stays within its limit; profit and loss add up | `PositionManager` |
| Market maker, features, `market_maker.*`, `feature_engine.h` | market price | `on_order_book_update` | it quotes from the book as it is | `MarketMaker` |
| Trading engine, `client/trading/trading_engine.*` | the above, its queues | `run`, `start`, `stop`, `on_*` | everything that arrives is handled, in order, by all of the above | `TradingEngine`; start and stop not modelled |
| Memory pool, `llbase/mempool.h` | blocks and flags, index of the next free one | `allocate`, `deallocate` | never hands out a block in use | `MemPool` |
| Lock-free queue, `llbase/lfqueue.h` | blocks, two indices, a count | get and increment, for writing and reading | each item once, complete, in order | `LFQueue` |
| Logger, `llbase/logging.h` | a queue of elements, a thread, a file | `push_element`, `process_queue`, the destructor | what was logged is in the file when it is closed | `Logger` |
| Exchange server, `exchange_server.*`; threads, `llbase/threading.h` | the components, the queues between them, `is_running` of each | `start`, `stop`, the destructor; `create_and_start_thread` | a stop ends, and nothing runs on what is gone | `ExchangeServer` |
| Time, macros, `nitek_main.cpp` | | | | not modelled |

Reading the code, these are what is hard about it:

* Two threads at one queue, with an index and a count that change apart.
* Datagrams that are lost or overtaken while the receiver recovers, from two streams at once,
  and snapshots that follow one another.
* TCP reads that end anywhere, and two passes over the sockets, of which only the first
  publishes.
* Fills and cancels that cross on their way between client and exchange.
* Hand-linked circular lists whose heads move in several places, and pools whose blocks come
  back in any order.
* Limits: hash slots, pool sizes, order ids, queue sizes, the position.
* Fills that open, reduce and turn round a position, with profit and loss in four members.
* Threads that are started and stopped by flags, and members destroyed in the order C++ gives
  them.


## 2. The modules

| Module | What it is | Composed with |
|---|---|---|
| `Participants` | parameters of a market: clients, quotes, quantities | extended by the two books |
| `LimitOrderBook` | abstract: a set of orders matched by price-time priority | |
| `OMEOrderBook` | the exchange's book, implements `LimitOrderBook` | instance `Promise` |
| `SnapshotSynthesizer` | pictures and snapshot messages, as operators | |
| `OMEOrderBookFeed` | book with the two who only see its messages | `OMEOrderBook`, `SnapshotSynthesizer` |
| `MemPool` | the pool | instantiated twice by `TEOrderBook` |
| `LFQueue` | the queue, step by step | extended by `Logger` |
| `Logger` | the logger with its thread and its destructor | `LFQueue` |
| `MarketDataConsumer` | the consumer's callbacks, as operators | |
| `MarketData` | publisher, synthesizer, streams and consumer | `SnapshotSynthesizer`, `MarketDataConsumer` |
| `TEOrderBook` | the client's book, pointer by pointer | `MemPool` |
| `Ratios` | exact fractions for the client's `double` | |
| `PositionManager` | a position and its risk check, as operators | `Ratios` |
| `MarketMaker` | market price and quotes, as operators | `Ratios` |
| `Totals` | sums over sequences of messages | |
| `OrderManager` | the managed orders and what is done with them | `PositionManager` |
| `TradingEngine` | the client's trading thread against an exchange | `OrderManager`, `MarketMaker`, `Totals` |
| `OrderGateway` | both gateways, TCP and the sequencer | |
| `ExchangeServer` | start, stop and destruction of the exchange's threads | |
| `Ascending` | a set of numbers as a sequence | |
| `MC...` | constants, views and symmetry of the instances | |
| `...Proofs` | theorems and their proofs | |

Conventions. Variables and operators have the names of the members and functions they model. A
failed `ASSERT` or `FATAL`, an exception out of a `noexcept` function and the use of a null
pointer end the process: `alive` becomes FALSE. INVALID values are a model value `None` or
`Null`. Definitions introduced by a comment that begins with *Slip:* are not part of a model.
Each is a variant of the definition it precedes with a plausible mistake in it; put in that
definition's place it makes a named property fail, which shows that the property depends on that
code (`PROJECT.json`, `mutants`).


## 3. Component by component

### LimitOrderBook and OMEOrderBook

`LimitOrderBook` is what a participant is promised: a set `resting`, and an incoming order that
is accepted, trades with the best and oldest order on the other side as long as prices cross,
and then rests. No level, queue, slot or pool occurs in it. `OMEOrderBook` has the code's
structure: the hash map from `price % MAX_PRICE_LEVELS` to levels, sorted lists of levels, a
queue of orders in each level, the map from client and order id, the level pool's limit. The
circular lists are sequences here (`TEOrderBook` has the same lists as pointers), and pool
blocks are named by the market order id of what they hold.

`add()` sends messages as it goes, and its readers are other threads, so it is split where it sends:
`NewOrder` (ACCEPTED), one `Match` per pass of `find_match`'s loop with its two responses and two
updates, then `Rest` or `Filled`. `Cancel`, `CancelRejected` and the fatal outcomes `RestFatal`,
`CancelFatal` and `InvalidRequest` are the rest. `orders`, level structures and messages correspond
through

    Resting == { order o with its id : o \in DOMAIN orders }

and `PriceTimePriority` is `Promise!Spec` under this mapping, responses included.

`OMEOrderBookFeed` adds the synthesizer's picture, maintained from the updates alone, and the
quantities participants compute from their responses alone.

Two assumptions. Participants do not reuse the id of an order that rests (`UniqueIds`); the
shipped client counts ids upwards, and reuse makes `map_client_id_to_order` forget the first
order. Where prices do share slots, a slot's prices are quoted on one side only
(`SlotSideAssumption`): otherwise the code mixes the sides in one level and later clears the wrong
head (`ome_order_book.cpp:254`), after which pointers lead to freed blocks. It is not enough that
two *different* prices of a slot are on one side: a slot that one price has quoted on both sides
may hold its asks when a bid at the other price arrives. Where each price has a slot of its own
(`DistinctSlots`), any price may be quoted on both sides. Prices of one side in a slot are
modelled; see the finding in section 5.

Participants have valid client ids, so `cancel()` never finds an id beyond
`map_client_id_to_order` (`ome_order_book.cpp:60`), and the order pool is taken to have a block for
every order: a book that holds as many orders as the pool has blocks ends the process as
`RestFatal` does.

### MemPool

`allocate` and `deallocate` with the index of the next free block. The scan of
`update_next_free_index` is an operator, the first free block after the index going round. The
block is marked used before the scan, which is why the pool ends the process with its last free
block: N blocks hold N - 1 objects.

### LFQueue

Two threads, `writer` and `reader`, with one action for each step the other thread can see: taking a
block, filling it (not atomic: a block is `Unfinished` meanwhile), advancing the index, changing the
count. The code compares nothing with the read index when it hands out a block to write, so the
writer may run over unread items; `overrun` remembers this, and `ReaderHoldsNextItem` holds up to
then. It is set when the writer is given a block while the count is as large as the queue, which is
a little early: nothing is lost before the block is filled, and the reader, whose index moves before
the count, may just be done with it. No caller checks either. The queues are large
(`MAX_CLIENT_UPDATES`, `MAX_MARKET_UPDATES`); that they suffice is an assumption of the models that
use a queue as a sequence.

The operations on the atomics are sequentially consistent in the code (no weaker memory order is
given), which is what interleaving assumes.

### Logger

`Logger` puts the logger's thread and its owner round the steps of `LFQueue`: `push_element`
writes an item, `WriteElement` is a pass of the inner loop of `process_queue`, `Flush` its end
and `TestRunning` the outer loop's condition. The owner logs, and later is in `~Logger`: it
waits for a queue of size zero, clears `is_running`, joins. The question is whether "size zero",
which the thread makes true before it goes back for the next element, is enough to end on
(`AllLoggedWhenClosed`), and whether the wait and the join end, also when the thread has not run
yet (`DestructorReturns`). What an element holds is left out. One thread logs; that some of the
repository's loggers are used by two is noted in section 7.

### SnapshotSynthesizer, MarketDataConsumer and MarketData

`MarketData` has a thread's worth of actions for each party: `EngineSends` stands for the matching
engine and sends only updates that fit the book, which `OMEOrderBookFeed` shows of it (a MODIFY only
lowers a quantity); `PublishUpdate` and `SendIncremental`/`LoseIncremental` are the loop of
`MarketDataPublisher::run` and the sending after it; `AddToSnapshot`, `StartSnapshot`,
`SendSnapshot`/`LoseSnapshot` the synthesizer; `ReceiveIncremental` and `ReceiveSnapshot` the
callback of one socket for one datagram; `Overtake` reorders the incremental stream. Snapshot
datagrams keep their order: one that is overtaken makes a gap, for which the consumer throws away
what it has queued, as it does after a loss, and would count as one in the bounds and hypotheses on
losses. Joining and leaving the snapshot group is modelled: outside a recovery the client does not
listen, and what its socket held is gone. A client that starts late is one that has lost the first
datagrams.

`client_book` is what the updates handed to the trading engine make, and `position` the number
of the exchange's updates after which they should be equal to `Books(position)`.

Noted while modelling: a gap is seen only when a later message arrives, so the loss of the last
datagram before a quiet time is noticed late; `EveryUpdateTakesEffect` therefore speaks of
updates that were not lost. A datagram that is overtaken looks like a gap and starts a recovery
that none needed. One that comes after the client has recovered past it does harm: nothing newer
is queued, so any snapshot completes that recovery, also one taken before the client's last
updates (`snapshot_sync_check` sets `n_seq_inc_next` to the snapshot's number plus one without
looking at how far the client has come). The client's books go back to older ones, which are
still real ones, and if nothing more is sent they stay there. It takes two overtakings, or four
updates of which one is lost, to get there. `ClientGoesBackOnlyIfLate` says that this is the only
way back; the part of `EveryUpdateTakesEffect` about updates asks that datagrams keep their order.
Pictures are arrays of `MAX_ORDER_IDS` entries indexed by an id that only grows. The assertion at
the end of `add_to_snapshot`, that numbers follow each other (`snapshot_synthesizer.cpp:94`), is no
guard in the model: `AddToSnapshot` takes what comes. That it never fails is proved
(`SynthesizerMissesNothing`).

### TEOrderBook

The client's book with its real data structure: blocks with `prev` and `next`, which keep their
contents when freed, two `MemPool` instances, `id_to_order`, `map_price_to_price_level`, the
heads `best`, and the BBO. The linking and unlinking follow the assignments of the code. `fed`
is the book that the updates describe; `Add`, `Modify`, `Cancel`, `Clear` are `on_market_update`
for each type, where `Modify` and `Cancel` only name orders of `fed`, and orders come in the
order of their ids, one by one or as a snapshot after a `Clear`, as `MarketData` delivers them.

The BBO is not refreshed by the first order of an empty side and by a CLEAR: whether it changes
is decided from the side's head before the update (`te_order_book.cpp:20`). `BBOStaysRight`
states what does hold: outside of these two, an update leaves the best offer right if it was
right, or if the update changed what it should be.

### PositionManager, MarketMaker, OrderManager and TradingEngine

One ticker of one client, all of what happens in the thread of `TradingEngine::run`, against the
exchange as `LimitOrderBook` promises it: the client's order is accepted, filled in parts by
anyone at any moment, or cancelled. The thread alternates between responses and book updates.

`on_order_book_update` is the whole call: the position is valued at the mid price, the market
price is computed, and if both sides have offers the market maker quotes and the order manager
manages the bid, then the ask, each after its risk check. `OrderResponse` is
`TradingEngine::on_order_response`: a fill goes into the position, then the managed order
changes. `PositionManager` has `add_fill` branch by branch: a fill opens or adds to the
position, or closes some of it, realises that profit, and if it goes through zero opens the
rest on its own side. `Closed` and `Opened` are these; `Valued` is what follows in both.

`double` is modelled by exact fractions in lowest terms (`Ratios`). Quantities and prices are
integers, a rounding error is far below the smallest difference of two prices, and no property
turns on one. `market_price` weights bid and ask each with the other's quantity, as the code
does; the formula in the comment above it (`feature_engine.h:45`) weights each with its own, the
sentence below that formula agrees with the code.

Two constants select a path of the code. `Direct = TRUE` is a strategy that calls `manage_order`
with the managed orders; `FALSE` is `manage_orders` as the market maker calls it, with copies
(`order_manager.h:100`). `Routed = TRUE` sends responses by `TradingEngine::on_order_response`,
which updates the position; `FALSE` is `TradingEngine::run` (`trading_engine.cpp:89`), which
hands them to the strategy's callback alone. With `FALSE` the position stays zero, no loss is
ever seen, and the position limit limits only single orders. The passing run checks that the
design is right where it is used as its comments say; `trading_engine_copied` runs what the
shipped market maker and engine do, with both FALSE. Section 5 has what becomes of `PnlAddsUp`.

`ExposureWithinLimit` counts everything that may still become position on a side: the position
seen, fills on their way, what rests, what is requested. `PnlAddsUp` compares the position's
profit and loss with an account kept beside it: `cash` is what the fills that the engine was told
of cost and brought, whether or not the position was told too, `mark` the price the position was
last valued at. Neither variable is read by an action. A `Fill` has the client's own price. An
aggressive order trades at the price of the order it meets (`ome_order_book.cpp:109`), which is as
good or better; `BooksBalance` holds for any prices.

A cancel that names no order id (the copies lead to one) ends the exchange's process
(`OMEOrderBook`, `CancelFatal`): here no action takes such a request.

### ExchangeServer

The thread that owns an `ExchangeServer` runs `Program`: `start()` creates the components and
their threads, `Destroy` is the destructor with the `stop()` it calls and the members in the
reverse order of their declaration. For each component there are the steps of
`create_and_start_thread` (create, wait until the thread has begun), of `stop` (clear the flag,
join) and of its thread (`Begin`, `Run`, `End`). All set `is_running` before they create the
thread, but the matching engine, whose `run()` sets it: a `stop()` that comes first is undone,
and the join waits for ever (`order_matching_engine.cpp:68`). `StopEndsTheThread` is about
that, see section 5.

### OrderGateway

For each client: its gateway thread, a TCP connection each way, and the server's socket. A
message crosses in two parts so that a read can end inside one, and a part carries the time it
arrived. `ClientPass` is one round of `OrderGatewayClient::run`. The server's thread is `Poll`,
then `RxPass` for each socket and `RxDone`, then `TxPass` for each writable socket, then
`LoadResponses`. `Process` is the matching engine: it answers each request, and an order that
trades is reported filled to its client and to the client of the order it meets, one that has
rested. `answers` is all it has said. One trade for a request is a bound, and what a response says
is left out, but for the request that made its order.

Three things the code does that a reader may not expect:

* The second loop of `TCPServer::tx_and_rx` also reads, but does not call `rx_done_callback`.
  Requests read there wait in the sequencer until any socket has data in a later first loop
  (`tcp_server.cpp:124`). `EveryRequestIsSequenced` therefore ends at the sequencer: that the
  engine gets the request in the end (`EveryRequestIsPublished`) is not true of the code,
  see section 5.
* "First in, first out" across clients (`fifo_sequencer.h:31`) holds within what one pass has
  read; what a later pass reads follows, whatever its receive time. `RequestsInOrder` is per
  client.
* Receive times are not unique, and a read has one time for all its messages. `std::sort` is not
  stable. libstdc++ keeps the order of equal elements only up to 16 of them, which it sorts by
  insertion. `InsertionLimit` is that number: up to it `Sortings` is the one order that insertion
  gives, beyond it any order that is sorted by time. `FewPending` says that the sequencer is below
  the limit; it is so in every state of the run `order_gateway` and it is the hypothesis of the
  theorems. It is needed: with a limit of 1 in place of 16 TLC finds `RequestsInOrder` violated
  after eight states, by two requests of one client that arrive in one read and come out the other
  way round. In the code this takes more than 16 pending requests (`fifo_sequencer.h:53`), which
  nothing prevents, the array has room for 1024.

Connections are made once. Reconnects, partial sends and full buffers are left out, section 7.
Each message has a time, and times rise along a connection; one for which the kernel gives no
timestamp has time zero in the code (`tcp_socket.cpp:41`) and would be sorted before all others.


## 4. Runs that pass

Distinct states in parentheses. Each invariant and property of a run is violated by at least one
slip (section 2).

| Run | Shows |
|---|---|
| `order_book` (821,856) | `OMEOrderBook` implements `LimitOrderBook` (`PriceTimePriority`). Levels, lists and orders agree (`LevelsWellFormed`), the client map leads to live orders only (`ClientMapExact`), the priority in the messages is the place in the queue. The updates rebuild the book exactly (`SnapshotInSync`) without failing a check of the receiver (`UpdatesAccepted`); the responses add up over accept, partial fills and cancel (`ResponsesAddUp`), and what participants compute from them is the book (`ReportedIsResting`). |
| `mempool` (390) | The pool knows a free block in every order of returns (`NextFreeIsFree`), holds exactly one less than it has, and ends the process only then. |
| `logger` (878) | Items arrive once, complete and in order up to an overrun; the count is never zero when it is lowered; zero means all handled; every item is handled. The destructor returns, and then all is written. |
| `market_data` (361,632) | Two tickers over streams that lose and reorder: the client's books are real, go back only after a late update (`ClientGoesBackOnlyIfLate`), recoveries end, and without reordering every update received takes effect. |
| `client_book` (141,906) | Lists show the fed book in priority order, in both directions; no block leaks; the pool never runs out on a book the exchange can hold; the BBO. |
| `trading_engine` (141,386) | One order per side at most, exposure within the limit, profit and loss that balance, agreement once messages have settled, no order pending for ever. |
| `order_gateway` (321,459) | Requests in order per client, no response lost or repeated, those that fill the resting orders of others included; requests get to the sequencer, answers to the client. |

### Bounds, and why they are enough

* `order_book`: 2 clients, ids `i1`, `i2` and one beyond the map; prices 1 to 4, of which 2 and
  3 are quoted on both sides; quantities 1 and 2; 4 orders; 4 slots, so 3 levels before the
  pool's check fails. This gives exact and partial fills, an order that sweeps two levels, two
  orders at a price with the first filled in part, levels inserted at either end and between,
  the fatal fourth level. A bug in the lists needs three levels or three orders at a price.
* `mempool`: 6 blocks; any of them can be in use, but not all, with the index on any free one.
* `logger`: 3 blocks and 7 items, more than twice round; overruns included. The owner may destroy
  the logger between any two items.
* `market_data`: 2 tickers with one order id each, quantities 1 and 2, 3 updates, one datagram
  lost on each stream, two overtakings, without which the client never goes back, 1 snapshot
  datagram in flight. A recovery that fails
  and one that succeeds after it fit, with updates before, between and after. A snapshot of one
  order is five messages, its two markers and a CLEAR for each ticker among them, in datagrams
  as the code cuts them.
* `client_book`: 4 blocks each for orders and levels, three of which can be used; 4 prices, 3
  for bids; one CLEAR. Three elements are the smallest circular list in which first, middle and
  last differ.
* `trading_engine`: four states of the best bid and offer, of which two differ only in
  quantities and so move one quote, one is a lower market, one has no bid; 3 orders, quantity 2
  so that fills are partial, position limit 3, so that one full order plus part of another
  reaches it, and a loss limit that a fall of the market crosses. Positions turn round in one
  fill, and average prices are fractions.
* `order_gateway`: two requests of one client and one of another, in all cuts. Two of one client
  are needed for order, the second client for passes over two sockets.

### Views and symmetry

`MCView` of `MCOMEOrderBook` leaves out `responses` and `updates`: properties read them only
primed, in the step that sends them, and no action reads them. `MCView` of `MCTEOrderBook`
leaves out what freed blocks contain and which freed level a stale slot points to; without
reused prices nothing reads either (the run with reused prices has no view). Clients and order
ids are symmetric in `order_book`, which checks safety only.

### Fairness

All threads are polling loops that never block on one another, so weak fairness of a thread's
steps is what the code's scheduling gives.

* `Logger` (and `LFQueue`): the logger's thread, a push once begun and the destructor once begun.
  Nothing obliges the owner to log or to destroy the logger.
* `MarketData`: publisher, synthesizer (a snapshot is due again after each interval) and both of
  the consumer's sockets, written out as `[]<>` formulas with the enabling condition in place of
  ENABLED. The engine need not send. Losses are bounded, which is the assumption that a recovery
  sooner or later meets a complete snapshot.
* `TradingEngine`: the client's thread gets on with its loops, and the exchange with its queue,
  written out as `[]<>` formulas like those of `MarketData`. Book updates are not fair; that the
  client leaves the loop over updates is the assumption that they do not come faster than it
  handles them.
* `OrderGateway`: each client's pass, the server's pass, the engine, written out as `[]<>`
  formulas. Nobody need connect or request.
* `ExchangeServer`: each thread that was created, and the owner within `start()` and from the
  destructor on. It need never destroy the server.


## 5. Runs that find a violation

| Run | What the code's own words say | What happens |
|---|---|---|
| `price_collisions`, `BestPriceFirst` | "matches are made from most to least aggressive price level" (`ome_order_book.cpp:148`) | Levels are looked up by `price % 16` and the price is not compared. Asks 16 ticks apart share a level, and a bid trades with the worse one if it came first. |
| `mixed_snapshots`, `ClientBookIsReal` | "verify no snapshot packet loss via n_seq" (`market_data_consumer.cpp:163`) | Every snapshot is numbered from zero. With the end of one and the start of the next lost, the halves join up, and the client recovers to a book that never was. |
| `client_book_cleared`, `ListsShowTheBook` | "Clear the book by emptying all its members." (`te_order_book.h:52`) | `map_price_to_price_level` stays. After a CLEAR, which begins every ticker of a snapshot, an order at an old price joins a freed level: it is on no list. |
| `trading_engine_copied`, `OneOrderPerSide` | PENDING_NEW is "new order send but not accepted by exchange yet" (`om_order.h:27`) | `manage_orders` works on copies (`auto`, not `auto&`), so the state is lost, and each book update requests one more order. |
| `exchange_server`, `StopKillsChildThreads` | "Stop the server, killing all child threads." (`exchange_server.h:61`) | `stop()` ends only the server's own thread. The queues are destroyed before the components, whose threads poll them until then. |

Four of these come with a run that passes without the cause: `order_book` has a slot for each
price, `market_data` loses one snapshot datagram, `client_book` sees no old price after a CLEAR,
`trading_engine` hands over the orders themselves.

Three more properties do not hold of the code, which anyone can see by changing a configuration:

* `PnlAddsUp` with `Routed = FALSE` in `TradingEngine.cfg`: violated in eight states.
  `on_order_response` "Updates positioning and informs trading algorithm." (`trading_engine.h:99`),
  but `run()` calls the algorithm's callback alone. A bid is filled, and position, profit and loss
  stay zero. Within `trading_engine` the same is the slip `OrderResponseToStrategy`.
* `EveryRequestIsPublished` as the PROPERTY of `OrderGateway.cfg`: TLC finds a request that is read
  in the second loop of `tx_and_rx`, after which nothing is published. It waits until something else
  is received; a client that sends no more before it has its answer waits for ever.
* `StopEndsTheThread` as the PROPERTY of `ExchangeServer.cfg`: "the running thread halts its loop
  when is_running becomes false" (`order_matching_engine.cpp:40`), but `run()` sets `is_running`. A
  `stop()` that comes before it is undone, and the join waits for ever.


## 6. What is proved

TLAPS proves these for all values of the constants that meet the named assumptions.

**MemPoolProofs** (`NAssumption`: at least one block). The invariant is `TypeOK` with
`NextFreeIsFree`: the index stands on a free block because `deallocate` never moves it and
`allocate` moves it only to a block the scan found free. That a scan which does not overrun
finds one is the lemma `ScanFindsFreeBlock`. From the invariant follow `AlwaysNextFreeIsFree`;
`AlwaysHoldsOneLess`, since one block is free, by the library's facts on cardinality; and
`AllocateFailsOnlyWhenFull`, the action property that `allocate` ends the process only with N -
1 blocks in use.

**LoggerProofs** (`QueueAssumption`: at least one block) is about `LFQueue` and `Logger`. None of
the properties of the queue is inductive: the count lags behind the indices, and what the reader
finds depends on where all written items lie. `IInv` is `TypeOK`, `Counts` (the count in terms of
items written and read, at each place of the two threads), and, up to an overrun, `Layout` (every
complete item k that was not read lies k - n_read - 1 blocks after the read index, and the write
index where the next belongs). Each step of either thread preserves it; the critical ones are those
that write a block, where `Layout` says that no unread item lies there. It yields
`AlwaysReaderHoldsNextItem`, `AlwaysCountNeverZeroAtRead`, `AlwaysEmptyMeansHandled` and
`TypeCorrect`.

Every step of a logger is a step or a stutter of its queue
(`StepsOfQueue`), so `IInv` of the queue holds, and `UsesQueueProperly` says so of behaviours.
To it comes `Phases`: once the owner has seen a count of zero, nobody writes and the count
stays zero, and the thread is between its loops only when it holds no element. A count of zero
means that the reader is idle (`EmptyIsIdle`), and with all of it that everything written has
been read: `AlwaysAllLoggedWhenClosed`.

**LimitOrderBookProofs** (`ParticipantsAssumption`: prices are integers, quantities naturals).
`IInv` is `TypeOK`, `Uncrossed` and `ArrivalOrder`. `Uncrossed` survives `Rest` because whatever
crosses the incoming order has left; `Trade` replaces an order, and that it replaces one only
needs ids to be unique, hence `ArrivalOrder`. Theorems `NeverCrossed`, `IdsNameOrders` and
`TypeCorrect`.

**OMEOrderBookProofs** (`OMEAssumption`, which asks of `None`, the null pointer, only that it is no
order id, level or order; `SlotSideAssumption`). `LevelsWellFormed` is not inductive: that a removal
leaves the lists sorted and without a trace of the order needs each order in one queue once, each
level in one list once, and the level of a slot to be of the side and, where slots are distinct, of
the price of its orders. `IInv` is `TypeOK` with the named parts `ArrivalOrder` (ids rise in a
queue, and the incoming order is younger than what rests), `OnlyQuotes`, `Queues` and `Queued`
(queues lead to orders and orders are queued), `Listed` and `Sorted` (the same of levels and lists),
`NoDanglingEntry`, `EveryOrderHasEntry` if ids are unique, and `NotCrossed` if slots are distinct.
Each action has a lemma for each part it disturbs. The parts that need a hypothesis on slots or ids
state it, so that the theorems hold for instances with shared slots where they can:
`NoEntryDangles`, `PrioritiesFollowArrival` and `TypeCorrect` always, `LevelsAgree`,
`ClientMapLeadsToOrders`, `TradesAtBestPrice` and `Refinement` with the hypotheses they name.
`Refinement` shows that `Init` and each step map to a step of `LimitOrderBook` or a stutter: the
crucial lemma is that `BestOpposite`, the head of the queue of the first level, is what the promise
calls the best, and that `CanMatch` is false only if nothing crosses. `BookNeverCrossed` then is
`NeverCrossed` of `LimitOrderBookProofs` seen through the mapping.

The last part of the module is about `OMEOrderBookFeed`, with no hypothesis on slots or ids.
`FeedInv` is `IInv` of the book with `Pictures` and `Reports`. `SnapshotInSync` holds in every
state, also between the steps of one request, because `Rest`, `Match` and `Cancel` send the update
of what they do to the book in the same step; `Pictures` states it as one equation of functions.
`ReportedIsResting` holds only between requests and is not inductive: `Reports` says for every id
handed out what its participant thinks is open, which for the incoming order is what `match` has
left of it. A step sends at most two messages on each side; `PictureTwo` and `ToldTwo` unfold
`FoldLeft` over them, and each action then has one lemma. Theorems `PictureIsTheBook`,
`UpdatesNeverRefused`, `ResponsesAlwaysAddUp` and `ParticipantsKnowTheirOrders`.

**TradingEngineProofs** (`EngineAssumption`; hypothesis `Direct`, the managed orders themselves and
not copies, but for `BooksBalance`). `OneOrderPerSide` alone is not inductive, because a request can
be sent again as soon as the state of the managed order is wrong. `IInv` says for each state of a
side's managed order what may be on its way: nothing (`NothingOut`), a request (`OnItsWay`), an
order at the exchange with its fills and its cancel (`AtTheExchange`); that the quantities in the
responses under way connect to each other and to what the manager keeps (`FillsConnect`), that a
cancel names the order that is out (`CancelsMatch`), that ids are used once (`IdsFresh`), and that
what is claimed of the position has room (`HasRoom`), for which `Total` of `Totals` needs lemmas on
appending and taking off. `NeverTwoOrders`, `ViewsAgree`, `PositionWithinLimit` and `TypeCorrect`
follow. The run `trading_engine_copied` shows that `Direct` is needed.

`BooksBalance` says `PnlAddsUp` under the hypothesis `Routed` alone: it holds for copies as well,
and section 5 shows that `Routed` is needed. `PnlAddsUp`
alone is not inductive, because the total says nothing of how it is split. `MInv` adds `Balanced`:
without a position nothing is left of its cost and the realised profit is the cash; with one, the
realised profit is the cash plus the cost of the open units (minus their proceeds, if short). What
was opened on the *other* side may be left over from before and plays no part. It also adds
`Priced`, the types of requests, responses and orders without `Direct`. `OpenedBalances`,
`ClosedBalances` and `ValuedAddsUp` show the parts of `add_fill` keep `Balanced`, and that valuing
brings the total to cash plus position. They compare fractions, so they rest on `RatioSame`:
`n / d` and `m / e` that are one number have one `Ratio`. Its proof goes by the greatest common
factor and a combination that comes to 1 (`Bezout`, from the least positive combination).
`PlusIs`, `TimesIs`, `OverIs` and `MinusIs` then reduce an equation of fractions to one of integers.

**OrderGatewayProofs** (`GatewayAssumption`; hypothesis `[]FewPending`, see section 3). What a run
sees of a stream depends on everything before it, so `IInv` describes whole streams: `Upstream`
(the messages in a client's buffers, on the connection and in the server's buffer are, in order,
its requests from `rx_n_seq` to `n_loaded`, cut in two parts each, at most one part of a message
being left alone), `TimesOK` and `ClientsInTime` (times rise along a connection and, for each
client, along `pending_requests`, so that sorting by time does not disturb its order), `AcceptedOK`
(published and pending requests of a client together are its first requests, once each and in
order) and `DownstreamOK` (the equation of `ResponsesInOrder`, with the numbers that make the
client accept what is on its way). `StreamCut` is the lemma that a read may end anywhere;
`InsertedSorts` and `SequencedIs` say what sorting does to one client's requests, `AllAccepted` and
`OfClientConcat` what the recursive functions `Accepted` and `OfClient` do. Their induction goes
over the least number at which a set of naturals fails, with the library's `WFMin`, since the
theorems on induction that take a predicate cannot be used. `RequestsKeepTheirOrder`,
`ResponsesKeepTheirOrder` and `TypeCorrect` follow.

**MarketDataProofs** (`MarketDataAssumption`: at least one ticker; any number of losses, overtakings
and datagrams under way). What a datagram does to the client depends on everything it has queued,
so `IInv` says of each message, wherever it is, what it can be: in the publisher's buffer, on the
stream and in the synthesizer's queue a published update (`PublisherOK`, `IncrementalOK`,
`HandedOverOK`, which also counts: pictures and queue together hold what was published), in a
snapshot an end marker only at the end, with a number the pictures had reached
(`SnapshotDatagramOK`). `ConsumerOK` is about the consumer's members: in a recovery at least one
update is queued, and the queued snapshot never has its end marker at its top, since that would
have been used or dropped at once (`SnapshotQueueOK`). Hence an incremental update never ends a
recovery (`IncrementalMessage`), only an end marker does (`SnapshotMessage`), and then the number
expected next is above all that was queued (`NextAfter`, for every set of queued numbers). `Handled`
and `Flattened` unfold the loops of `rx_callback` and of `publish_snapshot` by induction, as in
`OrderGatewayProofs`. `TypeCorrect` and `OnlyLateTakesBack` follow. The latter was not provable as
first stated, that a client never goes back: the bounds of the run had been too small to show the
late update of section 3.

For `ClientAlwaysReal` (hypothesis `MaxSnapshotLost <= 1`; with 2, `mixed_snapshots` refutes it)
numbers are not enough: `BInv`, inductive relative to `IInv`, is about contents. `BooksOK` adds to
`ClientBookIsReal` that the pictures are the books of `n_seq_last`, and that no client is ahead of
the publisher; `ConsecutiveOK` that the numbers in an incremental datagram follow each other;
`QueuedOK` that queued updates are those the exchange sent under their numbers; `SendingOK` that
what is left of a snapshot are parts of it, up to its end. `HeardOK` is the part that the loss of
datagrams is about: what is queued, and each datagram in the snapshot socket, is of some one
snapshot (`tag`), and where two of them meet there is the end of the one or the start of the other,
since one loss cannot take both. Hence what is queued when an end marker comes, without a gap, is
one snapshot. The lemmas lead there from the operators: `AppliedJoin` (applying updates to books, in
two parts), `AscendingOnto` (a map is walked through all of its keys in order), `SnapshotIs` (the
messages of a snapshot turn any books into those it is of), `SentAsParts` (how it is cut into
datagrams), `IncrementalDatagramOf` and `SnapshotDatagramOf` (what a datagram pushes and queues).
`SynthesizerMissesNothing` follows from `HandedOverOK`: what the synthesizer takes next has the
number after its last.

**TEOrderBookProofs** (`TEAssumption`, `SlotAssumption`; hypothesis `~ ReusedPrices`, that no price
from before a CLEAR comes back after it, without which `client_book_cleared` shows
`ListsShowTheBook` false). None of the run's invariants is inductive: what a link may be changed to
depends on all the others of its list. `IInv` says that there are sequences of blocks, `L[side]` for
the levels of a side and `Q[l]` for the orders of a level, with `Book(L, Q)`. In it `Ring` says that
the links lead along such a sequence and round, both ways, without meeting a block twice; `SideOK`
and `QueueOK` that levels lie from the best price on and orders by age, and belong there; `Found`
that every order of the fed book is the one its id leads to, and is in the queue of its price;
`UsedOK` that nothing else is in use; `PoolsOK` that either pool's next block is free.
`RingInserted` and `RingWithout` are about `LinkBefore` and `Unlink` in any ring, `AlongIs` shows
that whoever follows the links meets the sequence. `OrderPoolRoom` and `LevelPoolRoom` count: an id
or a price that is left means a free block that the scan of `MemPool` finds, with
`ScanFindsFreeBlock` again. Each update then has a lemma that names the sequences after it:
`AddToLevelBook`, `AddToNewLevelBook`, `ModifyBook`, `CancelOneOfMany`, `CancelLast`, `ClearBook`.
From `IInv` follow `TypeCorrect`, `AlwaysShowsTheBook`, `AlwaysGoBothWays`, `AlwaysAccountedFor` and
`AlwaysHoldsWhatTheExchangeHolds`. `BestOffersKeepUp` is the action property `BBOStaysRight`: the
best offer of the fed book is what the first level shows (`QueueTotal`, where the sum over a queue
is compared with the sum over all ids, `SparseTotal`), and an update that `IsUpdated` passes over
leaves the orders at the top alone (`NotNoticed`).

**Only model-checked.** Liveness under fairness, which is beyond the prover. Every safety invariant
and action property of a passing run is stated by a theorem, with the hypotheses named above.

## 7. Not modelled, and the plan

Left out for good:

* Formatting, time keeping, pinning of threads to cores, the trade ratio that nothing reads.
* The rounding of floating point.
* System calls, socket options and the multicast socket's 64 MiB buffer.
* Two sides in one slot, reuse of a resting id, overrun queues used as sequences: each is
  undefined or excluded behaviour, named above.
* Two threads that log through one logger, and format into one string: `TradingEngine::stop`
  and `ExchangeServer::stop` log from their caller's thread. The queue is made for one writer.
* `create_and_start_thread` captures its locals by reference and lets its caller go on before
  the thread has used them (`threading.h:73`); `Position` keeps a pointer to a local copy of the
  best bid and offer (`trading_engine.h:84`), which only `to_str` reads.
* `nitek_main.cpp`: its signal handler runs destructors on whichever thread the signal finds,
  with a logger that the main loop may just be using.

Not modelled, and what would come next:

1. *More of the system.*
   * `start` and `stop` of the client's components. `TradingEngine::stop` waits for two empty
     queues (`trading_engine.cpp:62`), each as `Logger` waits for one.
   * `OrderGateway` with reconnects (`order_gateway_server.h:88`), partial sends
     (`tcp_socket.cpp:63`) and full buffers, and the order across clients. It connects each client
     once and takes a send to be complete.
   * The market updates that `TEOrderBook` handles composed with `TradingEngine`, which takes
     any best bid and offer for the next.
2. *More proofs.*
   * `MarketData`: that two losses do no harm unless they take the end of one snapshot and the start
     of the next. `HeardOK` would have to say which datagrams were lost.
