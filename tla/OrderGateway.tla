---------------------------- MODULE OrderGateway ----------------------------
(***************************************************************************)
(* The way of requests and responses between the trading clients and the   *)
(* matching engine: OrderGatewayClient and its TCPSocket for each client,  *)
(* a TCP connection, and OrderGatewayServer with its TCPServer and         *)
(* FIFOSequencer.  Each of them is one thread that goes round a loop.      *)
(*                                                                         *)
(* A message crosses a connection in two parts, so that a read may end     *)
(* within one; the parts carry the time at which they came in.  A client's *)
(* n-th request is [client |-> c, n |-> n]; it travels with the sequence   *)
(* number that OrderGatewayClient gives it.  The matching engine answers   *)
(* each, and reports fills to the clients whose orders have rested; a      *)
(* response bears the name of the request whose order it is about.         *)
(* Connections are made once, and neither buffers nor connections overflow *)
(* or break.                                                               *)
(***************************************************************************)
EXTENDS Integers, SequencesExt

CONSTANTS
  Clients,
  MaxRequests,    \* bound: client -> its requests
  InsertionLimit  \* std::sort keeps the order of equals among so many: 16 in libstdc++

ASSUME GatewayAssumption ==
  IsFiniteSet(Clients) /\ MaxRequests \in [Clients -> Nat] /\ InsertionLimit \in Nat

VARIABLES
  n_requested,   \* client -> how many requests its trading engine has queued
  n_loaded,      \* and how many of those have gone to the socket's tx_buffer
  client_tx,     \* client -> tx_buffer of its socket: messages
  to_server,     \* client -> parts on the connection, or waiting in the kernel
  server_rx,     \* client -> rx_buffer of the server's socket: parts
  rx_sockets,    \* the server's sockets in the order of their connections
  tx_sockets,    \* those that epoll has reported as writable
  loop,          \* where the server thread is: [at, left, receiving]
  rx_n_seq,      \* client -> the number of the next request expected
  pending_requests, \* of the FIFO sequencer: [t_rx, request]
  rx_requests,   \* every request published to the matching engine
  n_processed,   \* how many of them it has processed
  answers,       \* every response it has sent
  rx_responses,  \* those that wait for the server
  tx_n_seq,      \* client -> the number of the next response
  server_tx,     \* client -> tx_buffer of the server's socket: messages
  to_client,     \* client -> parts on the connection back
  client_rx,     \* client -> rx_buffer of the client's socket
  n_seq_next_expected, \* client -> the number of the response expected next
  tx_responses,  \* client -> the responses handed to its trading engine
  now

clientVars == <<n_requested, n_loaded, client_tx, client_rx, n_seq_next_expected, tx_responses>>
socketVars == <<server_rx, rx_sockets, tx_sockets>>
gatewayVars == <<loop, rx_n_seq, pending_requests, tx_n_seq, server_tx>>
engineVars == <<rx_requests, n_processed, answers, rx_responses>>

vars == <<clientVars, to_server, to_client, socketVars, gatewayVars, engineVars, now>>

Message(n_seq, request) == [n_seq |-> n_seq, request |-> request]

-----------------------------------------------------------------------------
(* Streams of parts.                                                       *)

(* The requests or responses of one client among those of all.             *)
OfClient(requests, c) ==
  LET upTo[n \in 0 .. Len(requests)] ==
        IF n = 0 THEN <<>>
        ELSE IF requests[n].client = c THEN Append(upTo[n - 1], requests[n]) ELSE upTo[n - 1]
  IN upTo[Len(requests)]

(* What send() puts on a connection: all of a socket's tx_buffer.          *)
Parts(messages, t) ==
  [i \in 1 .. 2 * Len(messages) |-> [of |-> messages[(i + 1) \div 2], t |-> t]]

(* The whole messages that a callback finds in a buffer, and what it moves *)
(* to the front for the next one.                                          *)
Whole(buffer) == [i \in 1 .. Len(buffer) \div 2 |-> buffer[2 * i].of]

(* Slip: what is left of a message is thrown away.                       *)
NoRest(buffer) == <<>>

(* Slip: nothing is removed from the buffer.                             *)
RestOfAll(buffer) == buffer

Rest(buffer) == IF Len(buffer) % 2 = 0 THEN <<>> ELSE <<Last(buffer)>>

(* How much recvmsg may take: anything, but something if there is anything.*)
Readable(stream) == IF stream = <<>> THEN {0} ELSE 1 .. Len(stream)

Taken(stream, k) == SubSeq(stream, 1, k)

Left(stream, k) == SubSeq(stream, k + 1, Len(stream))

-----------------------------------------------------------------------------
Init ==
  /\ n_requested = [c \in Clients |-> 0]
  /\ n_loaded = [c \in Clients |-> 0]
  /\ client_tx = [c \in Clients |-> <<>>]
  /\ to_server = [c \in Clients |-> <<>>]
  /\ server_rx = [c \in Clients |-> <<>>]
  /\ rx_sockets = <<>>
  /\ tx_sockets = <<>>
  /\ loop = [at |-> "poll", left |-> <<>>, receiving |-> FALSE]
  /\ rx_n_seq = [c \in Clients |-> 1]
  /\ pending_requests = <<>>
  /\ rx_requests = <<>>
  /\ n_processed = 0
  /\ answers = <<>>
  /\ rx_responses = <<>>
  /\ tx_n_seq = [c \in Clients |-> 1]
  /\ server_tx = [c \in Clients |-> <<>>]
  /\ to_client = [c \in Clients |-> <<>>]
  /\ client_rx = [c \in Clients |-> <<>>]
  /\ n_seq_next_expected = [c \in Clients |-> 1]
  /\ tx_responses = [c \in Clients |-> <<>>]
  /\ now = 0

(* The trading engine of a client queues a request.                        *)
SendRequest(c) ==
  /\ n_requested[c] < MaxRequests[c]
  /\ n_requested' = [n_requested EXCEPT ![c] = @ + 1]
  /\ UNCHANGED <<n_loaded, client_tx, client_rx, n_seq_next_expected, tx_responses, to_server,
                 to_client, socketVars, gatewayVars, engineVars, now>>

(* Both rx_callbacks: messages of the client whose connection it is that   *)
(* bear the number expected are passed on, others are dropped.             *)
Accepted(messages, c, n_seq) ==
  LET upTo[i \in 0 .. Len(messages)] ==
        IF i = 0 THEN [n_seq |-> n_seq, requests |-> <<>>]
        ELSE LET before == upTo[i - 1]
                 m == messages[i]
             IN IF m.request.client = c /\ m.n_seq = before.n_seq
                THEN [n_seq |-> before.n_seq + 1, requests |-> Append(before.requests, m.request)]
                ELSE before
  IN upTo[Len(messages)]

(* One pass of OrderGatewayClient::run: tx_and_rx reads, then sends what   *)
(* was loaded in the pass before; then the queued requests are loaded.     *)
ClientPass(c, k) ==
  LET buffer == client_rx[c] \o Taken(to_client[c], k)
      accepted == Accepted(Whole(buffer), c, n_seq_next_expected[c])
  IN /\ to_client' = [to_client EXCEPT ![c] = Left(@, k)]
     /\ client_rx' = [client_rx EXCEPT ![c] = Rest(buffer)]
     /\ n_seq_next_expected' = [n_seq_next_expected EXCEPT ![c] = accepted.n_seq]
     /\ tx_responses' = [tx_responses EXCEPT ![c] = @ \o accepted.requests]
     /\ to_server' = [to_server EXCEPT ![c] = @ \o Parts(client_tx[c], now)]
     /\ now' \in IF client_tx[c] = <<>> THEN {now} ELSE {now, now + 1}
     /\ client_tx' = [client_tx EXCEPT ![c] =
          [i \in 1 .. n_requested[c] - n_loaded[c] |->
             Message(n_loaded[c] + i, [client |-> c, n |-> n_loaded[c] + i])]]
     /\ n_loaded' = [n_loaded EXCEPT ![c] = n_requested[c]]
     /\ UNCHANGED <<n_requested, socketVars, gatewayVars, engineVars>>

-----------------------------------------------------------------------------
(* TCPServer::poll: sockets accepted before are writable, new connections  *)
(* are accepted.  The clients connect when they like.                      *)
Poll(new) ==
  /\ loop.at = "poll"
  /\ ToSet(new) \cap ToSet(rx_sockets) = {}
  /\ tx_sockets' = rx_sockets
  /\ rx_sockets' = rx_sockets \o new
  /\ loop' = [at |-> "rx", left |-> rx_sockets', receiving |-> FALSE]
  /\ UNCHANGED <<clientVars, to_server, to_client, server_rx, rx_n_seq, pending_requests,
                 tx_n_seq, server_tx, engineVars, now>>

(* OrderGatewayServer::rx_callback: push_client_request for each of them.  *)
Pushed(accepted, t) ==
  [i \in DOMAIN accepted.requests |-> [t_rx |-> t, request |-> accepted.requests[i]]]

(* TCPSocket::tx_and_rx on the next socket of a pass.  What one read takes *)
(* has one time, that of its last part.                                    *)
SocketTxRx(c, k) ==
  LET buffer == server_rx[c] \o Taken(to_server[c], k)
      accepted == Accepted(Whole(buffer), c, rx_n_seq[c])
  IN /\ to_server' = [to_server EXCEPT ![c] = Left(@, k)]
     /\ server_rx' = [server_rx EXCEPT ![c] = Rest(buffer)]
     /\ rx_n_seq' = [rx_n_seq EXCEPT ![c] = accepted.n_seq]
     /\ pending_requests' = pending_requests \o
          (IF k = 0 THEN <<>> ELSE Pushed(accepted, to_server[c][k].t))
     /\ to_client' = [to_client EXCEPT ![c] = @ \o Parts(server_tx[c], now)]
     /\ server_tx' = [server_tx EXCEPT ![c] = <<>>]
     /\ UNCHANGED <<clientVars, rx_sockets, tx_sockets, tx_n_seq, engineVars, now>>

(* The first loop of TCPServer::tx_and_rx.                                 *)
RxPass(k) ==
  /\ loop.at = "rx"
  /\ loop.left # <<>>
  /\ SocketTxRx(Head(loop.left), k)
  /\ loop' = [loop EXCEPT !.left = Tail(@), !.receiving = @ \/ k > 0]

(* Slip: equal times are turned round.                                   *)
InsertedBeforeEqual(sorted, p) ==
  LET earlier == {i \in DOMAIN sorted : sorted[i].t_rx < p.t_rx}
  IN InsertAt(sorted, Max(earlier \cup {0}) + 1, p)

(* std::sort by receive time.  A few elements it sorts by insertion, each  *)
(* behind the last one that is not later.                                  *)
Inserted(sorted, p) ==
  LET notLater == {i \in DOMAIN sorted : sorted[i].t_rx <= p.t_rx}
  IN InsertAt(sorted, Max(notLater \cup {0}) + 1, p)

SortedByTime(pending) ==
  LET upTo[n \in 0 .. Len(pending)] ==
        IF n = 0 THEN <<>> ELSE Inserted(upTo[n - 1], pending[n])
  IN upTo[Len(pending)]

RequestsIn(pending) == [i \in DOMAIN pending |-> pending[i].request]

(* With more of them, equal times may come out in any order.               *)
Sortings(pending) ==
  IF Len(pending) <= InsertionLimit THEN {SortedByTime(pending)}
  ELSE {sorted \in {[i \in DOMAIN pending |-> pending[f[i]]] :
                     f \in Bijection(DOMAIN pending, DOMAIN pending)} :
          \A i, j \in DOMAIN sorted : i < j => sorted[i].t_rx <= sorted[j].t_rx}

Sequenced == {RequestsIn(sorted) : sorted \in Sortings(pending_requests)}

(* After it, sequence_and_publish, if any socket has received.             *)
RxDone ==
  /\ loop.at = "rx"
  /\ loop.left = <<>>
  /\ IF loop.receiving
     THEN /\ \E requests \in Sequenced : rx_requests' = rx_requests \o requests
          /\ pending_requests' = <<>>
     ELSE UNCHANGED <<rx_requests, pending_requests>>
  /\ loop' = [at |-> "tx", left |-> tx_sockets, receiving |-> FALSE]
  /\ UNCHANGED <<clientVars, to_server, to_client, socketVars, rx_n_seq, tx_n_seq, server_tx,
                 n_processed, answers, rx_responses, now>>

(* The second loop, which also reads, but publishes nothing.               *)
TxPass(k) ==
  /\ loop.at = "tx"
  /\ loop.left # <<>>
  /\ SocketTxRx(Head(loop.left), k)
  /\ loop' = [loop EXCEPT !.left = Tail(@)]

(* The rest of OrderGatewayServer::run's loop: the responses are loaded    *)
(* into the sockets, numbered for each client.                             *)
ResponsesFor(c) == OfClient(rx_responses, c)

(* Slip: each pass numbers from one.                                     *)
NumberedFromOne(c) ==
  LET of_c == ResponsesFor(c)
  IN [i \in DOMAIN of_c |-> Message(i, of_c[i])]

Numbered(c) ==
  LET of_c == ResponsesFor(c)
  IN [i \in DOMAIN of_c |-> Message(tx_n_seq[c] + i - 1, of_c[i])]

LoadResponses ==
  /\ loop.at = "tx"
  /\ loop.left = <<>>
  /\ server_tx' = [c \in Clients |-> server_tx[c] \o Numbered(c)]
  /\ tx_n_seq' = [c \in Clients |-> tx_n_seq[c] + Len(ResponsesFor(c))]
  /\ rx_responses' = <<>>
  /\ loop' = [at |-> "poll", left |-> <<>>, receiving |-> FALSE]
  /\ UNCHANGED <<clientVars, to_server, to_client, socketVars, rx_n_seq, pending_requests,
                 rx_requests, n_processed, answers, now>>

(* The matching engine processes the next request and answers it.  An      *)
(* order that trades has a fill reported to its client, and one to the     *)
(* client of the order that rested.  (One trade at most: a bound.)         *)
Answers(request, before) ==
  {<<request>>} \cup {<<request, request, rested>> : rested \in before}

Process ==
  /\ n_processed < Len(rx_requests)
  /\ n_processed' = n_processed + 1
  /\ \E sent \in Answers(rx_requests[n_processed + 1],
                         ToSet(SubSeq(rx_requests, 1, n_processed))) :
       answers' = answers \o sent /\ rx_responses' = rx_responses \o sent
  /\ UNCHANGED <<clientVars, to_server, to_client, socketVars, gatewayVars, rx_requests, now>>

-----------------------------------------------------------------------------
(* The clients that connect between two polls, in any order.               *)
Connecting == {new \in SeqOf(Clients, Cardinality(Clients)) : IsInjective(new)}

Server ==
  \/ \E new \in Connecting : Poll(new)
  \/ \E k \in Readable(IF loop.left = <<>> THEN <<>> ELSE to_server[Head(loop.left)]) :
       RxPass(k) \/ TxPass(k)
  \/ RxDone
  \/ LoadResponses

Next ==
  \/ \E c \in Clients : SendRequest(c)
  \/ \E c \in Clients : \E k \in Readable(to_client[c]) : ClientPass(c, k)
  \/ Server
  \/ Process

(* Every thread goes round its loop for ever; a client need never connect. *)
(* This is weak fairness of each thread, with the condition written out    *)
(* under which its steps change nothing.                                   *)
NothingToDo(c) == to_client[c] = <<>> /\ client_tx[c] = <<>> /\ n_loaded[c] = n_requested[c]

Fairness ==
  /\ \A c \in Clients :
       []<>NothingToDo(c) \/ []<><<\E k \in Readable(to_client[c]) : ClientPass(c, k)>>_vars
  /\ []<><<Server>>_vars
  /\ []<>(n_processed = Len(rx_requests)) \/ []<><<Process>>_vars

Spec == Init /\ [][Next]_vars /\ Fairness

-----------------------------------------------------------------------------
Requests == UNION {[client: {c}, n: 1 .. MaxRequests[c]] : c \in Clients}

TypeOK ==
  /\ \A c \in Clients : n_loaded[c] <= n_requested[c] /\ n_requested[c] <= MaxRequests[c]
  /\ \A c \in Clients : Len(server_rx[c]) < 2 /\ Len(client_rx[c]) < 2
  /\ IsInjective(rx_sockets) /\ ToSet(tx_sockets) \subseteq ToSet(rx_sockets)
  /\ loop.at \in {"poll", "rx", "tx"}
  /\ ToSet(rx_requests) \subseteq Requests
  /\ n_processed \in 0 .. Len(rx_requests)

(* The sequencer has no more to sort than it keeps in order.               *)
FewPending == Len(pending_requests) <= InsertionLimit

(* The matching engine sees the requests of each client exactly once, in   *)
(* the order in which the client made them, whatever the reads cut apart   *)
(* and the sequencer sorts, as long as it has few to sort.                 *)
RequestsInOrder ==
  \A c \in Clients :
    LET of_c == OfClient(rx_requests, c)
    IN \A i \in DOMAIN of_c : of_c[i].n = i

(* No response is ever lost, repeated or out of step: what a client got,   *)
(* what of the messages on their way to it will be accepted there, and what*)
(* waits for the server are together the engine's answers to this client,  *)
(* in the engine's order.                                                  *)
OnTheWay(c) == Whole(client_rx[c] \o to_client[c]) \o server_tx[c]

ResponsesInOrder ==
  \A c \in Clients :
    tx_responses[c] \o Accepted(OnTheWay(c), c, n_seq_next_expected[c]).requests \o ResponsesFor(c)
      = OfClient(answers, c)

(* A request of a connected client reaches the sequencer.  (When the       *)
(* matching engine gets it is another matter: see TxPass.)                 *)
EveryRequestIsSequenced ==
  \A c \in Clients : \A n \in 1 .. MaxRequests[c] :
    c \in ToSet(rx_sockets) /\ n_requested[c] >= n ~> rx_n_seq[c] > n

(* A request that has reached the sequencer is published to the matching   *)
(* engine.  It does not hold: a request that is read in the second loop of *)
(* TCPServer::tx_and_rx waits until a first loop receives, see TxPass.     *)
EveryRequestIsPublished ==
  \A c \in Clients : \A n \in 1 .. MaxRequests[c] :
    rx_n_seq[c] > n ~> Len(OfClient(rx_requests, c)) >= n

(* What the matching engine was given is answered to the client.           *)
EveryAnswerArrives ==
  []<>(/\ n_processed = Len(rx_requests)
       /\ \A c \in Clients : tx_responses[c] = OfClient(answers, c))
=============================================================================
