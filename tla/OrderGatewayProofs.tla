-------------------------- MODULE OrderGatewayProofs --------------------------
(***************************************************************************)
(* OrderGateway for any clients and numbers of requests: what the gateways *)
(* make of streams that are cut anywhere, and what sorting by receive time *)
(* leaves of the order of each client.                                     *)
(***************************************************************************)
EXTENDS OrderGateway, SequenceTheorems, FiniteSetTheorems, WellFoundedInduction, TLAPS

Request == [client : Clients, n : Nat]
Sent == [n_seq : Nat, request : Request]
Part == [of : Sent, t : Nat]
Pending == [t_rx : Nat, request : Request]

(* The messages of a list bear consecutive numbers and are all of one      *)
(* client.                                                                 *)
Consecutive(messages, c, n_seq) ==
  \A i \in 1 .. Len(messages) :
    messages[i].n_seq = n_seq + i - 1 /\ messages[i].request.client = c

RequestsOf(messages) == [i \in 1 .. Len(messages) |-> messages[i].request]

FirstRequests(c, k) == [i \in 1 .. k |-> [client |-> c, n |-> i]]

(* The requests of one client have come in one after the other.            *)
ClientsInTime(pending) ==
  \A i, j \in 1 .. Len(pending) :
    i <= j /\ pending[i].request.client = pending[j].request.client
      => pending[i].t_rx <= pending[j].t_rx

TypeInv ==
  /\ n_requested \in [Clients -> Nat] /\ n_loaded \in [Clients -> Nat]
  /\ client_tx \in [Clients -> Seq(Sent)] /\ server_tx \in [Clients -> Seq(Sent)]
  /\ to_server \in [Clients -> Seq(Part)] /\ server_rx \in [Clients -> Seq(Part)]
  /\ to_client \in [Clients -> Seq(Part)] /\ client_rx \in [Clients -> Seq(Part)]
  /\ rx_sockets \in Seq(Clients) /\ tx_sockets \in Seq(Clients)
  /\ loop \in [at : {"poll", "rx", "tx"}, left : Seq(Clients), receiving : BOOLEAN]
  /\ rx_n_seq \in [Clients -> Nat \ {0}] /\ tx_n_seq \in [Clients -> Nat]
  /\ n_seq_next_expected \in [Clients -> Nat]
  /\ pending_requests \in Seq(Pending)
  /\ rx_requests \in Seq(Request) /\ rx_responses \in Seq(Request) /\ answers \in Seq(Request)
  /\ n_processed \in 0 .. Len(rx_requests)
  /\ tx_responses \in [Clients -> Seq(Request)]
  /\ now \in Nat

(* No socket is in the list twice.                                         *)
Sockets ==
  /\ \A i, j \in 1 .. Len(rx_sockets) : rx_sockets[i] = rx_sockets[j] => i = j
  /\ \A i \in 1 .. Len(tx_sockets) : \E j \in 1 .. Len(rx_sockets) : tx_sockets[i] = rx_sockets[j]

Counted(c) == n_loaded[c] <= n_requested[c] /\ n_requested[c] <= MaxRequests[c]

(* The messages of a client that the server has not accepted: the next one *)
(* it expects comes first, and the last one loaded comes last.             *)
Upstream(c) == Whole(server_rx[c] \o to_server[c]) \o client_tx[c]

UpstreamOK(c) ==
  /\ Len(server_rx[c]) < 2 /\ (Len(server_rx[c]) + Len(to_server[c])) % 2 = 0
  /\ Consecutive(Upstream(c), c, rx_n_seq[c])
  /\ \A i \in 1 .. Len(Upstream(c)) : Upstream(c)[i].request.n = Upstream(c)[i].n_seq
  /\ n_loaded[c] + 1 = rx_n_seq[c] + Len(Upstream(c))

(* What comes later has the later time.                                    *)
TimesOK(c) ==
  /\ \A i, j \in 1 .. Len(to_server[c]) : i <= j => to_server[c][i].t <= to_server[c][j].t
  /\ \A i \in 1 .. Len(to_server[c]) : to_server[c][i].t <= now
  /\ \A m \in 1 .. Len(pending_requests) : pending_requests[m].request.client = c =>
       /\ pending_requests[m].t_rx <= now
       /\ \A i \in 1 .. Len(to_server[c]) : pending_requests[m].t_rx <= to_server[c][i].t

(* What was accepted is with the matching engine or the sequencer, once    *)
(* and in order.                                                           *)
AcceptedOK(c) ==
  OfClient(rx_requests, c) \o OfClient(RequestsIn(pending_requests), c)
    = FirstRequests(c, rx_n_seq[c] - 1)

Accounted(r) == r.n \in 1 .. rx_n_seq[r.client] - 1

(* The responses to a client are numbered as it expects, and what it has   *)
(* got, what comes to it and what will are the answers so far.             *)
DownstreamOK(c) ==
  /\ Len(client_rx[c]) < 2 /\ (Len(client_rx[c]) + Len(to_client[c])) % 2 = 0
  /\ Consecutive(OnTheWay(c), c, n_seq_next_expected[c])
  /\ tx_n_seq[c] = n_seq_next_expected[c] + Len(OnTheWay(c))
  /\ (tx_responses[c] \o RequestsOf(OnTheWay(c))) \o OfClient(rx_responses, c)
       = OfClient(answers, c)

IInv ==
  /\ TypeInv
  /\ Sockets
  /\ ClientsInTime(pending_requests)
  /\ \A i \in 1 .. Len(rx_requests) : Accounted(rx_requests[i])
  /\ \A i \in 1 .. Len(pending_requests) : Accounted(pending_requests[i].request)
  /\ \A c \in Clients : Counted(c) /\ UpstreamOK(c) /\ TimesOK(c) /\ AcceptedOK(c)
                        /\ DownstreamOK(c)

-----------------------------------------------------------------------------
(* Induction, for sets of numbers.                                         *)

LEMMA LeastNumber ==
  ASSUME NEW T \in SUBSET Nat, T # {}
  PROVE  \E n \in T : \A m \in T : n <= m
<1>1. PICK n \in T : \A m \in T : ~ (<<m, n>> \in OpToRel(<, Nat))
  BY NatLessThanWellFounded, WFMin
<1>2. \A m \in T : ~ (m < n)
  BY <1>1 DEF OpToRel
<1> QED
  BY <1>2

LEMMA Induction ==
  ASSUME NEW P \in SUBSET Nat, 0 \in P, \A n \in P : n + 1 \in P
  PROVE  P = Nat
<1> DEFINE bad == Nat \ P
<1> SUFFICES ASSUME bad # {}
             PROVE  FALSE
  OBVIOUS
<1>1. PICK n \in bad : \A m \in bad : n <= m
  <2>1. bad \in SUBSET Nat
    OBVIOUS
  <2> HIDE DEF bad
  <2> QED
    BY <2>1, LeastNumber
<1>2. n # 0 /\ n - 1 \in Nat
  OBVIOUS
<1>3. n - 1 \in P
  BY <1>1, <1>2
<1> QED
  BY <1>2, <1>3

-----------------------------------------------------------------------------
(* The requests of one client.                                             *)

(* f is what OfClient computes, up to the k-th of the requests.            *)
Picks(f, requests, c, k) ==
  /\ f[0] = <<>>
  /\ \A n \in 1 .. k :
       f[n] = IF requests[n].client = c THEN Append(f[n - 1], requests[n]) ELSE f[n - 1]

LEMMA PicksExist ==
  ASSUME NEW S, NEW s \in Seq(S), NEW c
  PROVE  \E f \in [0 .. Len(s) -> Seq(S)] : Picks(f, s, c, Len(s))
<1> DEFINE P == {k \in Nat : k <= Len(s) => \E f \in [0 .. k -> Seq(S)] : Picks(f, s, c, k)}
<1>1. Len(s) \in Nat /\ \A n \in 1 .. Len(s) : s[n] \in S
  BY LenProperties, ElementOfSeq
<1>2. 0 \in P
  <2>1. [n \in 0 .. 0 |-> <<>>] \in [0 .. 0 -> Seq(S)]
    BY EmptySeq
  <2>2. Picks([n \in 0 .. 0 |-> <<>>], s, c, 0)
    BY DEF Picks
  <2> QED
    BY <2>1, <2>2
<1>3. ASSUME NEW k \in P
      PROVE  k + 1 \in P
  <2> SUFFICES ASSUME k + 1 <= Len(s)
               PROVE  \E f \in [0 .. k + 1 -> Seq(S)] : Picks(f, s, c, k + 1)
    OBVIOUS
  <2>1. PICK f \in [0 .. k -> Seq(S)] : Picks(f, s, c, k)
    BY <1>1
  <2> DEFINE e == IF s[k + 1].client = c THEN Append(f[k], s[k + 1]) ELSE f[k]
             g == [n \in 0 .. k + 1 |-> IF n = k + 1 THEN e ELSE f[n]]
  <2>2. e \in Seq(S)
    <3>1. k \in 0 .. k /\ f[k] \in Seq(S) /\ s[k + 1] \in S
      BY <1>1
    <3>2. Append(f[k], s[k + 1]) \in Seq(S)
      BY <3>1, AppendProperties
    <3> QED
      BY <3>1, <3>2
  <2>3. g \in [0 .. k + 1 -> Seq(S)]
    <3> HIDE DEF e
    <3>1. \A n \in 0 .. k + 1 : n # k + 1 => n \in 0 .. k
      OBVIOUS
    <3> QED
      BY <2>2, <3>1
  <2>4. Picks(g, s, c, k + 1)
    <3>1. g[0] = f[0] /\ g[k + 1] = e /\ \A n \in 0 .. k : g[n] = f[n]
      BY DEF g
    <3>2. \A n \in 1 .. k + 1 : n - 1 \in 0 .. k /\ (n # k + 1 => n \in 1 .. k)
      OBVIOUS
    <3>3. k + 1 - 1 = k
      OBVIOUS
    <3> HIDE DEF g
    <3>4. ASSUME NEW n \in 1 .. k
          PROVE  g[n] = IF s[n].client = c THEN Append(g[n - 1], s[n]) ELSE g[n - 1]
      <4>1. n \in 0 .. k /\ n - 1 \in 0 .. k
        OBVIOUS
      <4>2. g[n] = f[n] /\ g[n - 1] = f[n - 1]
        BY <3>1, <4>1
      <4> QED
        BY <2>1, <4>2 DEF Picks
    <3>5. g[k + 1] = IF s[k + 1].client = c THEN Append(g[k + 1 - 1], s[k + 1]) ELSE g[k + 1 - 1]
      BY <3>1, <3>2, <3>3
    <3>6. \A n \in 1 .. k + 1 : g[n] = IF s[n].client = c THEN Append(g[n - 1], s[n]) ELSE g[n - 1]
      BY <3>2, <3>4, <3>5
    <3> QED
      BY <2>1, <3>1, <3>6 DEF Picks
  <2> QED
    BY <2>3, <2>4
<1>4. P \in SUBSET Nat
  OBVIOUS
<1> HIDE DEF P
<1>5. P = Nat
  BY <1>2, <1>3, <1>4, Induction
<1> QED
  BY <1>1, <1>5 DEF P

LEMMA OfClientIs ==
  ASSUME NEW s, Len(s) \in Nat, NEW c, NEW f, DOMAIN f = 0 .. Len(s), Picks(f, s, c, Len(s)),
         f = [n \in 0 .. Len(s) |-> f[n]]
  PROVE  OfClient(s, c) = f[Len(s)]
<1> DEFINE Rec(g) == g = [n \in 0 .. Len(s) |->
                            IF n = 0 THEN <<>>
                            ELSE IF s[n].client = c THEN Append(g[n - 1], s[n]) ELSE g[n - 1]]
           upTo == CHOOSE g : Rec(g)
           P == {n \in Nat : n <= Len(s) => upTo[n] = f[n]}
<1>1. OfClient(s, c) = upTo[Len(s)]
  BY DEF OfClient
<1>2. Rec(f)
  <2>1. \A n \in 0 .. Len(s) : n # 0 => n \in 1 .. Len(s)
    OBVIOUS
  <2> QED
    BY <2>1 DEF Picks
<1>3. Rec(upTo)
  BY <1>2
<1> HIDE DEF upTo
<1>4. upTo[0] = <<>>
      /\ \A n \in 1 .. Len(s) :
           upTo[n] = IF s[n].client = c THEN Append(upTo[n - 1], s[n]) ELSE upTo[n - 1]
  <2>1. \A n \in 1 .. Len(s) : n \in 0 .. Len(s) /\ n # 0
    OBVIOUS
  <2>2. 0 \in 0 .. Len(s)
    OBVIOUS
  <2> QED
    BY <1>3, <2>1, <2>2
<1>5. 0 \in P
  BY <1>4 DEF Picks
<1>6. ASSUME NEW n \in P
      PROVE  n + 1 \in P
  <2> SUFFICES ASSUME n + 1 <= Len(s)
               PROVE  upTo[n + 1] = f[n + 1]
    OBVIOUS
  <2>1. n \in Nat /\ n + 1 \in 1 .. Len(s) /\ n + 1 - 1 = n
    OBVIOUS
  <2>2. upTo[n] = f[n]
    BY <2>1
  <2>3. upTo[n + 1] = IF s[n + 1].client = c THEN Append(upTo[n], s[n + 1]) ELSE upTo[n]
    BY <1>4, <2>1
  <2>4. f[n + 1] = IF s[n + 1].client = c THEN Append(f[n], s[n + 1]) ELSE f[n]
    BY <2>1 DEF Picks
  <2> QED
    BY <2>2, <2>3, <2>4
<1>7. P \in SUBSET Nat
  OBVIOUS
<1> HIDE DEF P
<1>8. P = Nat
  BY <1>5, <1>6, <1>7, Induction
<1> QED
  BY <1>1, <1>8 DEF P

LEMMA OfClientEmpty ==
  ASSUME NEW c
  PROVE  OfClient(<<>>, c) = <<>>
<1> DEFINE f == [n \in 0 .. 0 |-> <<>>]
<1>1. Len(<<>>) = 0 /\ DOMAIN f = 0 .. Len(<<>>) /\ f[0] = <<>>
  OBVIOUS
<1>2. Picks(f, <<>>, c, Len(<<>>))
  BY <1>1 DEF Picks
<1>3. f = [n \in 0 .. Len(<<>>) |-> f[n]]
  BY <1>1
<1> HIDE DEF f
<1> QED
  BY <1>1, <1>2, <1>3, OfClientIs

LEMMA OfClientAppend ==
  ASSUME NEW S, NEW s \in Seq(S), NEW x \in S, NEW c
  PROVE  /\ OfClient(s, c) \in Seq(S)
         /\ OfClient(Append(s, x), c) =
              IF x.client = c THEN Append(OfClient(s, c), x) ELSE OfClient(s, c)
<1> DEFINE t == Append(s, x)
<1>1. /\ t \in Seq(S) /\ Len(t) = Len(s) + 1 /\ Len(s) \in Nat /\ t[Len(s) + 1] = x
      /\ \A i \in 1 .. Len(s) : t[i] = s[i]
  BY AppendProperties, LenProperties
<1> HIDE DEF t
<1>2. PICK f \in [0 .. Len(t) -> Seq(S)] : Picks(f, t, c, Len(t))
  BY <1>1, PicksExist
<1>3. OfClient(t, c) = f[Len(t)]
  BY <1>1, <1>2, OfClientIs
<1> DEFINE g == [n \in 0 .. Len(s) |-> f[n]]
<1>4. DOMAIN g = 0 .. Len(s) /\ g = [n \in 0 .. Len(s) |-> g[n]]
      /\ \A n \in 0 .. Len(s) : g[n] = f[n]
  OBVIOUS
<1> HIDE DEF g
<1>5. Picks(g, s, c, Len(s))
  <2>1. g[0] = <<>>
    BY <1>1, <1>2, <1>4 DEF Picks
  <2>2. ASSUME NEW n \in 1 .. Len(s)
        PROVE  g[n] = IF s[n].client = c THEN Append(g[n - 1], s[n]) ELSE g[n - 1]
    <3>1. n \in 1 .. Len(t) /\ n \in 0 .. Len(s) /\ n - 1 \in 0 .. Len(s)
      BY <1>1
    <3>2. g[n] = f[n] /\ g[n - 1] = f[n - 1] /\ t[n] = s[n]
      BY <1>1, <1>4, <3>1
    <3> QED
      BY <1>2, <3>1, <3>2 DEF Picks
  <2> QED
    BY <2>1, <2>2 DEF Picks
<1>6. OfClient(s, c) = g[Len(s)]
  BY <1>1, <1>4, <1>5, OfClientIs
<1>7. g[Len(s)] = f[Len(s)] /\ f[Len(s)] \in Seq(S)
  BY <1>1, <1>2, <1>4
<1>8. f[Len(t)] = IF x.client = c THEN Append(f[Len(s)], x) ELSE f[Len(s)]
  <2>1. Len(t) \in 1 .. Len(t) /\ Len(t) - 1 = Len(s) /\ t[Len(t)] = x
    BY <1>1
  <2> QED
    BY <1>2, <2>1 DEF Picks
<1> QED
  BY <1>3, <1>6, <1>7, <1>8 DEF t

LEMMA OfClientType ==
  ASSUME NEW S, NEW s \in Seq(S), NEW c
  PROVE  OfClient(s, c) \in Seq(S)
<1>1. CASE S = {}
  <2>1. s = <<>>
    BY <1>1, EmptySeq, ElementOfSeq
  <2> QED
    BY <2>1, OfClientEmpty, EmptySeq
<1>2. CASE S # {}
  <2>1. PICK x \in S : TRUE
    BY <1>2
  <2> QED
    BY <2>1, OfClientAppend
<1> QED
  BY <1>1, <1>2

LEMMA OfClientConcat ==
  ASSUME NEW S, NEW s \in Seq(S), NEW t \in Seq(S), NEW c
  PROVE  OfClient(s \o t, c) = OfClient(s, c) \o OfClient(t, c)
<1> DEFINE u(k) == SubSeq(t, 1, k)
           P == {k \in Nat : k <= Len(t) =>
                   OfClient(s \o u(k), c) = OfClient(s, c) \o OfClient(u(k), c)}
<1>0. \A q1, q2, q3 \in Seq(S) : (q1 \o q2) \o q3 = q1 \o (q2 \o q3)
  BY ConcatAssociative
<1>1. Len(t) \in Nat /\ \A n \in 1 .. Len(t) : t[n] \in S
  BY LenProperties, ElementOfSeq
<1>2. ASSUME NEW q \in Seq(S)
      PROVE  OfClient(q, c) \in Seq(S)
  BY OfClientType
<1>3. 0 \in P
  <2>1. u(0) = <<>>
    BY SubSeqEmpty
  <2>2. s \o <<>> = s /\ OfClient(s, c) \o <<>> = OfClient(s, c)
    BY <1>2, ConcatEmptySeq
  <2> QED
    BY <2>1, <2>2, OfClientEmpty
<1>4. ASSUME NEW k \in P
      PROVE  k + 1 \in P
  <2> SUFFICES ASSUME k + 1 <= Len(t)
               PROVE  OfClient(s \o u(k + 1), c) = OfClient(s, c) \o OfClient(u(k + 1), c)
    OBVIOUS
  <2>1. k \in Nat /\ k + 1 \in 1 .. Len(t) /\ t[k + 1] \in S /\ k <= Len(t)
    BY <1>1
  <2>2. u(k) \in Seq(S)
    BY <1>1, <2>1, SubSeqProperties
  <2>3. u(k + 1) = Append(u(k), t[k + 1])
    <3>1. k + 1 - 1 = k /\ k + 1 \in 1 .. k + 1 /\ 1 \in 1 .. Len(t) /\ k + 1 \in 1 .. Len(t)
      BY <1>1, <2>1
    <3>2. SubSeq(t, 1, k + 1) = SubSeq(t, 1, k + 1 - 1) \o <<t[k + 1]>>
      BY <3>1, SubSeqRecursiveSecond
    <3>3. Append(u(k), t[k + 1]) = u(k) \o <<t[k + 1]>>
      BY <2>1, <2>2, AppendIsConcat
    <3> QED
      BY <3>1, <3>2, <3>3
  <2>4. OfClient(s \o u(k), c) = OfClient(s, c) \o OfClient(u(k), c)
    BY <2>1
  <2> HIDE DEF u
  <2>5. s \o u(k + 1) = Append(s \o u(k), t[k + 1])
    <3>1. <<t[k + 1]>> \in Seq(S)
      BY <2>1
    <3>2. s \o (u(k) \o <<t[k + 1]>>) = (s \o u(k)) \o <<t[k + 1]>>
      BY SMTT(30), <2>2, <3>1, ConcatAssociative
    <3>3. s \o u(k) \in Seq(S)
      BY <2>2, ConcatProperties
    <3>4. Append(s \o u(k), t[k + 1]) = (s \o u(k)) \o <<t[k + 1]>>
      BY <2>1, <3>3, AppendIsConcat
    <3>5. Append(u(k), t[k + 1]) = u(k) \o <<t[k + 1]>>
      BY <2>1, <2>2, AppendIsConcat
    <3> QED
      BY <2>3, <3>2, <3>4, <3>5
  <2>6. s \o u(k) \in Seq(S)
    BY <2>2, ConcatProperties
  <2>7. CASE t[k + 1].client # c
    <3>0. \A q \in Seq(S), x \in S : x.client # c => OfClient(Append(q, x), c) = OfClient(q, c)
      BY OfClientAppend
    <3>1. OfClient(s \o u(k + 1), c) = OfClient(s \o u(k), c)
      BY <2>1, <2>5, <2>6, <2>7, <3>0
    <3>2. OfClient(u(k + 1), c) = OfClient(u(k), c)
      BY <2>1, <2>2, <2>3, <2>7, <3>0
    <3> QED
      BY <2>4, <3>1, <3>2
  <2>8. CASE t[k + 1].client = c
    <3> DEFINE a == OfClient(s, c)
               b == OfClient(u(k), c)
    <3>1. OfClient(s \o u(k + 1), c) = Append(a \o b, t[k + 1])
      BY ZenonT(30), <2>1, <2>4, <2>5, <2>6, <2>8, OfClientAppend
    <3>2. OfClient(u(k + 1), c) = Append(b, t[k + 1])
      BY <2>1, <2>2, <2>3, <2>8, OfClientAppend
    <3>3. a \in Seq(S) /\ b \in Seq(S) /\ <<t[k + 1]>> \in Seq(S)
      BY <1>2, <2>1, <2>2
    <3> HIDE DEF a, b
    <3>4. Append(a \o b, t[k + 1]) = a \o Append(b, t[k + 1])
      <4>1. a \o b \in Seq(S)
        BY <3>3, ConcatProperties
      <4>2. Append(a \o b, t[k + 1]) = (a \o b) \o <<t[k + 1]>>
        BY <2>1, <4>1, AppendIsConcat
      <4>3. Append(b, t[k + 1]) = b \o <<t[k + 1]>>
        BY <2>1, <3>3, AppendIsConcat
      <4>4. (a \o b) \o <<t[k + 1]>> = a \o (b \o <<t[k + 1]>>)
        BY <1>0, <3>3
      <4> QED
        BY <4>2, <4>3, <4>4
    <3> QED
      BY <3>1, <3>2, <3>4 DEF a
  <2> QED
    BY <2>7, <2>8
<1>5. P \in SUBSET Nat
  OBVIOUS
<1>6. P = Nat
  <2> HIDE DEF P
  <2> QED
    BY <1>3, <1>4, <1>5, Induction
<1>7. Len(t) \in P
  BY <1>1, <1>6
<1>8. u(Len(t)) = t
  BY SubSeqFull
<1>9. OfClient(s \o u(Len(t)), c) = OfClient(s, c) \o OfClient(u(Len(t)), c)
  BY <1>1, <1>7
<1> QED
  BY <1>8, <1>9

(* What only one client sent, or only others.                              *)
LEMMA OfClientAllOrNone ==
  ASSUME NEW S, NEW s \in Seq(S), NEW c
  PROVE  /\ (\A i \in 1 .. Len(s) : s[i].client = c) => OfClient(s, c) = s
         /\ (\A i \in 1 .. Len(s) : s[i].client # c) => OfClient(s, c) = <<>>
<1>1. Len(s) \in Nat /\ s \in [1 .. Len(s) -> S] /\ \A n \in 1 .. Len(s) : s[n] \in S
  BY LenProperties, ElementOfSeq
<1>2. ASSUME \A i \in 1 .. Len(s) : s[i].client = c
      PROVE  OfClient(s, c) = s
  <2> DEFINE f == [n \in 0 .. Len(s) |-> SubSeq(s, 1, n)]
  <2>1. f[0] = <<>> /\ f[Len(s)] = s
    BY <1>1, SubSeqEmpty, SubSeqFull
  <2>2. ASSUME NEW n \in 1 .. Len(s)
        PROVE  f[n] = Append(f[n - 1], s[n])
    <3>1. n \in 0 .. Len(s) /\ n - 1 \in 0 .. Len(s) /\ 1 \in 1 .. Len(s) /\ n \in 1 .. n
          /\ \A i \in 1 .. n - 1 : s[i] \in S
      BY <1>1
    <3>2. SubSeq(s, 1, n) = SubSeq(s, 1, n - 1) \o <<s[n]>>
      BY <3>1, SubSeqRecursiveSecond
    <3>3. SubSeq(s, 1, n - 1) \in Seq(S)
      BY <3>1, SubSeqProperties
    <3>4. Append(SubSeq(s, 1, n - 1), s[n]) = SubSeq(s, 1, n - 1) \o <<s[n]>>
      BY <1>1, <3>3, AppendIsConcat
    <3> QED
      BY <3>1, <3>2, <3>4
  <2>3. DOMAIN f = 0 .. Len(s) /\ f = [n \in 0 .. Len(s) |-> f[n]]
    OBVIOUS
  <2> HIDE DEF f
  <2>4. Picks(f, s, c, Len(s))
    BY <1>2, <2>1, <2>2 DEF Picks
  <2> QED
    BY <1>1, <2>1, <2>3, <2>4, OfClientIs
<1>3. ASSUME \A i \in 1 .. Len(s) : s[i].client # c
      PROVE  OfClient(s, c) = <<>>
  <2> DEFINE f == [n \in 0 .. Len(s) |-> <<>>]
  <2>1. \A n \in 0 .. Len(s) : f[n] = <<>>
    OBVIOUS
  <2>2. DOMAIN f = 0 .. Len(s) /\ f = [n \in 0 .. Len(s) |-> f[n]]
    OBVIOUS
  <2> HIDE DEF f
  <2>3. \A n \in 1 .. Len(s) : n \in 0 .. Len(s) /\ n - 1 \in 0 .. Len(s)
    BY <1>1
  <2>4. 0 \in 0 .. Len(s) /\ Len(s) \in 0 .. Len(s)
    BY <1>1
  <2>5. Picks(f, s, c, Len(s))
    BY <1>3, <2>1, <2>3, <2>4 DEF Picks
  <2>6. OfClient(s, c) = f[Len(s)]
    BY <1>1, <2>2, <2>5, OfClientIs
  <2> QED
    BY <2>1, <2>4, <2>6
<1> QED
  BY <1>2, <1>3

-----------------------------------------------------------------------------
(* Messages that bear the numbers expected are all accepted.               *)

LEMMA AllAccepted ==
  ASSUME NEW ms \in Seq(Sent), NEW c, NEW n_seq \in Nat, Consecutive(ms, c, n_seq)
  PROVE  /\ Accepted(ms, c, n_seq).n_seq = n_seq + Len(ms)
         /\ Accepted(ms, c, n_seq).requests = RequestsOf(ms)
<1> DEFINE Rec(g) == g = [i \in 0 .. Len(ms) |->
                            IF i = 0 THEN [n_seq |-> n_seq, requests |-> <<>>]
                            ELSE LET before == g[i - 1]
                                     m == ms[i]
                                 IN IF m.request.client = c /\ m.n_seq = before.n_seq
                                    THEN [n_seq |-> before.n_seq + 1,
                                          requests |-> Append(before.requests, m.request)]
                                    ELSE before]
           upTo == CHOOSE g : Rec(g)
           first(k) == [i \in 1 .. k |-> ms[i].request]
           w == [k \in 0 .. Len(ms) |-> [n_seq |-> n_seq + k, requests |-> first(k)]]
           P == {k \in Nat : k <= Len(ms) => upTo[k] = w[k]}
<1>1. Len(ms) \in Nat /\ \A i \in 1 .. Len(ms) : ms[i] \in Sent /\ ms[i].request \in Request
  <2>1. Len(ms) \in Nat /\ \A i \in 1 .. Len(ms) : ms[i] \in Sent
    BY LenProperties, ElementOfSeq
  <2>2. \A m \in Sent : m.request \in Request
    BY DEF Sent
  <2> QED
    BY <2>1, <2>2
<1>2. Accepted(ms, c, n_seq) = upTo[Len(ms)]
  BY DEF Accepted
<1>3. first(0) = <<>>
  OBVIOUS
<1>4. ASSUME NEW k \in 1 .. Len(ms)
      PROVE  Append(first(k - 1), ms[k].request) = first(k)
  <2>1. k \in Nat /\ k - 1 \in Nat /\ \A i \in 1 .. k : i \in 1 .. Len(ms)
    BY <1>1
  <2>2. first(k - 1) \in Seq(Request) /\ Len(first(k - 1)) = k - 1
        /\ \A i \in 1 .. k - 1 : first(k - 1)[i] = ms[i].request
    BY <1>1, <2>1
  <2>3. first(k) \in Seq(Request) /\ Len(first(k)) = k
        /\ \A i \in 1 .. k : first(k)[i] = ms[i].request
    BY <1>1, <2>1
  <2> HIDE DEF first
  <2>4. /\ Append(first(k - 1), ms[k].request) \in Seq(Request)
        /\ Len(Append(first(k - 1), ms[k].request)) = k
        /\ \A i \in 1 .. k - 1 : Append(first(k - 1), ms[k].request)[i] = ms[i].request
        /\ Append(first(k - 1), ms[k].request)[k] = ms[k].request
    BY <1>1, <2>1, <2>2, AppendProperties
  <2>5. ASSUME NEW i \in 1 .. k
        PROVE  Append(first(k - 1), ms[k].request)[i] = first(k)[i]
    <3>1. i = k \/ i \in 1 .. k - 1
      BY <2>1
    <3>2. CASE i = k
      BY <2>3, <2>4, <3>2
    <3>3. CASE i \in 1 .. k - 1
      BY <2>3, <2>4, <3>3
    <3> QED
      BY <3>1, <3>2, <3>3
  <2> QED
    BY <2>3, <2>4, <2>5, SeqEqual
<1> HIDE DEF first
<1>5. /\ w[0] = [n_seq |-> n_seq, requests |-> <<>>]
      /\ \A k \in 1 .. Len(ms) :
           /\ ms[k].request.client = c /\ ms[k].n_seq = w[k - 1].n_seq
           /\ w[k] = [n_seq |-> w[k - 1].n_seq + 1,
                      requests |-> Append(w[k - 1].requests, ms[k].request)]
  <2>1. \A k \in 0 .. Len(ms) : w[k].n_seq = n_seq + k /\ w[k].requests = first(k)
                               /\ w[k] = [n_seq |-> n_seq + k, requests |-> first(k)]
    OBVIOUS
  <2>2. w[0] = [n_seq |-> n_seq, requests |-> <<>>]
    BY <1>1, <1>3, <2>1
  <2>3. ASSUME NEW k \in 1 .. Len(ms)
        PROVE  /\ ms[k].request.client = c /\ ms[k].n_seq = w[k - 1].n_seq
               /\ w[k] = [n_seq |-> w[k - 1].n_seq + 1,
                          requests |-> Append(w[k - 1].requests, ms[k].request)]
    <3> HIDE DEF w
    <3>1. k \in 0 .. Len(ms) /\ k - 1 \in 0 .. Len(ms) /\ k \in Int
      BY <1>1
    <3>2. ms[k].request.client = c /\ ms[k].n_seq = n_seq + k - 1
      BY DEF Consecutive
    <3>3. w[k - 1].n_seq = n_seq + (k - 1) /\ w[k - 1].requests = first(k - 1)
          /\ w[k] = [n_seq |-> n_seq + k, requests |-> first(k)]
      BY <2>1, <3>1
    <3>4. Append(w[k - 1].requests, ms[k].request) = first(k)
      BY <1>4, <3>3
    <3>5. n_seq + (k - 1) + 1 = n_seq + k /\ n_seq + k - 1 = n_seq + (k - 1)
      BY <3>1
    <3> QED
      BY <3>2, <3>3, <3>4, <3>5
  <2> QED
    BY <2>2, <2>3
<1>6. w = [k \in 0 .. Len(ms) |-> w[k]]
  OBVIOUS
<1>7. w[Len(ms)].n_seq = n_seq + Len(ms) /\ w[Len(ms)].requests = first(Len(ms))
  BY <1>1
<1> HIDE DEF w
<1>8. Rec(w)
  <2>1. \A k \in 0 .. Len(ms) : k # 0 => k \in 1 .. Len(ms)
    OBVIOUS
  <2> QED
    BY <1>5, <1>6, <2>1
<1>9. Rec(upTo)
  BY <1>8
<1> HIDE DEF upTo
<1>10. upTo[0] = [n_seq |-> n_seq, requests |-> <<>>]
  BY <1>1, <1>9
<1>11. ASSUME NEW k \in 1 .. Len(ms), upTo[k - 1] = w[k - 1]
       PROVE  upTo[k] = w[k]
  <2>1. k \in 0 .. Len(ms) /\ k # 0
    OBVIOUS
  <2> QED
    BY ZenonT(30), <1>5, <1>9, <1>11, <2>1
<1>12. 0 \in P
  BY <1>5, <1>10
<1>13. ASSUME NEW k \in P
       PROVE  k + 1 \in P
  <2> SUFFICES ASSUME k + 1 <= Len(ms)
               PROVE  upTo[k + 1] = w[k + 1]
    OBVIOUS
  <2>1. k \in Nat /\ k + 1 \in 1 .. Len(ms) /\ k + 1 - 1 = k
    BY <1>1
  <2>2. upTo[k] = w[k]
    BY <1>1, <2>1
  <2> QED
    BY <1>11, <2>1, <2>2
<1>14. P \in SUBSET Nat
  OBVIOUS
<1>15. P = Nat
  <2> HIDE DEF P
  <2> QED
    BY <1>12, <1>13, <1>14, Induction
<1>16. upTo[Len(ms)] = w[Len(ms)]
  BY <1>1, <1>15
<1> QED
  BY <1>2, <1>7, <1>16 DEF RequestsOf, first

-----------------------------------------------------------------------------
(* Streams.                                                                *)

LEMMA WholeMessages ==
  ASSUME NEW b \in Seq(Part)
  PROVE  /\ Whole(b) \in Seq(Sent) /\ Len(Whole(b)) = Len(b) \div 2
         /\ \A i \in 1 .. Len(b) \div 2 : Whole(b)[i] = b[2 * i].of
<1>1. Len(b) \in Nat /\ \A i \in 1 .. Len(b) : b[i] \in Part /\ b[i].of \in Sent
  <2>1. Len(b) \in Nat /\ \A i \in 1 .. Len(b) : b[i] \in Part
    BY LenProperties, ElementOfSeq
  <2>2. \A p \in Part : p.of \in Sent
    BY DEF Part
  <2> QED
    BY <2>1, <2>2
<1>2. Len(b) \div 2 \in Nat /\ \A i \in 1 .. Len(b) \div 2 : 2 * i \in 1 .. Len(b)
  BY <1>1
<1>3. \A i \in 1 .. Len(b) \div 2 : b[2 * i].of \in Sent
  BY <1>1, <1>2
<1> QED
  BY <1>2, <1>3 DEF Whole

(* A buffer that takes k parts off a stream: the whole messages in it come *)
(* first, the rest of it goes with what is left of the stream.             *)
LEMMA StreamCut ==
  ASSUME NEW rx \in Seq(Part), NEW stream \in Seq(Part), NEW k \in 0 .. Len(stream),
         (Len(rx) + Len(stream)) % 2 = 0
  PROVE  LET buffer == rx \o Taken(stream, k)
         IN /\ buffer \in Seq(Part) /\ Rest(buffer) \in Seq(Part) /\ Left(stream, k) \in Seq(Part)
            /\ Len(Rest(buffer)) < 2
            /\ (Len(Rest(buffer)) + Len(Left(stream, k))) % 2 = 0
            /\ Whole(rx \o stream) = Whole(buffer) \o Whole(Rest(buffer) \o Left(stream, k))
            /\ Len(Left(stream, k)) = Len(stream) - k
            /\ \A i \in 1 .. Len(stream) - k : Left(stream, k)[i] = stream[k + i]
<1> DEFINE taken == Taken(stream, k)
           left == Left(stream, k)
           buffer == rx \o taken
           rest == Rest(buffer)
           all == rx \o stream
           h == Len(buffer) \div 2
<1>1. Len(rx) \in Nat /\ Len(stream) \in Nat
      /\ (\A i \in 1 .. Len(stream) : stream[i] \in Part)
      /\ (\A i \in 1 .. k : stream[i] \in Part) /\ (\A i \in k + 1 .. Len(stream) : stream[i] \in Part)
  BY LenProperties, ElementOfSeq
<1>2. taken \in Seq(Part) /\ Len(taken) = k /\ \A i \in 1 .. k : taken[i] = stream[i]
  <2>1. /\ SubSeq(stream, 1, k) \in Seq(Part)
        /\ Len(SubSeq(stream, 1, k)) = IF 1 <= k THEN k - 1 + 1 ELSE 0
        /\ \A i \in 1 .. k - 1 + 1 : SubSeq(stream, 1, k)[i] = stream[1 + i - 1]
    BY <1>1, SubSeqProperties
  <2>2. \A i \in 1 .. k : i \in 1 .. k - 1 + 1 /\ 1 + i - 1 = i
    OBVIOUS
  <2> QED
    BY <2>1, <2>2 DEF Taken
<1>3. left \in Seq(Part) /\ Len(left) = Len(stream) - k
      /\ \A i \in 1 .. Len(stream) - k : left[i] = stream[k + i]
  <2>1. /\ SubSeq(stream, k + 1, Len(stream)) \in Seq(Part)
        /\ Len(SubSeq(stream, k + 1, Len(stream))) =
             IF k + 1 <= Len(stream) THEN Len(stream) - (k + 1) + 1 ELSE 0
        /\ \A i \in 1 .. Len(stream) - (k + 1) + 1 :
             SubSeq(stream, k + 1, Len(stream))[i] = stream[k + 1 + i - 1]
    BY <1>1, SubSeqProperties
  <2>2. \A i \in 1 .. Len(stream) - k : i \in 1 .. Len(stream) - (k + 1) + 1 /\ k + 1 + i - 1 = k + i
    BY <1>1
  <2>3. (IF k + 1 <= Len(stream) THEN Len(stream) - (k + 1) + 1 ELSE 0) = Len(stream) - k
    BY <1>1
  <2> QED
    BY <2>1, <2>2, <2>3 DEF Left
<1> HIDE DEF taken, left
<1>4. /\ buffer \in Seq(Part) /\ Len(buffer) = Len(rx) + k
      /\ \A i \in 1 .. Len(rx) + k : buffer[i] = IF i <= Len(rx) THEN rx[i] ELSE stream[i - Len(rx)]
  <2>1. /\ rx \o taken \in Seq(Part) /\ Len(rx \o taken) = Len(rx) + k
        /\ \A i \in 1 .. Len(rx) + k :
             (rx \o taken)[i] = IF i <= Len(rx) THEN rx[i] ELSE taken[i - Len(rx)]
    BY <1>2, ConcatProperties
  <2>2. \A i \in 1 .. Len(rx) + k : ~ (i <= Len(rx)) => i - Len(rx) \in 1 .. k
    BY <1>1
  <2> QED
    BY <1>2, <2>1, <2>2
<1>5. /\ all \in Seq(Part) /\ Len(all) = Len(rx) + Len(stream)
      /\ \A i \in 1 .. Len(rx) + Len(stream) :
           all[i] = IF i <= Len(rx) THEN rx[i] ELSE stream[i - Len(rx)]
  BY ConcatProperties
<1> HIDE DEF buffer, all
<1>6. \A i \in 1 .. Len(rx) + k : buffer[i] = all[i]
  <2>1. \A i \in 1 .. Len(rx) + k : i \in 1 .. Len(rx) + Len(stream)
    BY <1>1
  <2> QED
    BY <1>4, <1>5, <2>1
<1>7. /\ rest \in Seq(Part) /\ Len(rest) = Len(buffer) - 2 * h /\ Len(rest) < 2
      /\ Len(rest) = 1 => rest[1] = buffer[Len(buffer)]
  <2>1. CASE Len(buffer) % 2 = 0
    <3>1. Len(buffer) - 2 * h = 0
      BY <1>1, <1>4, <2>1
    <3>2. rest = <<>>
      BY <2>1 DEF Rest
    <3> QED
      BY <3>1, <3>2
  <2>2. CASE Len(buffer) % 2 # 0
    <3>1. Len(buffer) - 2 * h = 1 /\ Len(buffer) \in 1 .. Len(buffer)
      BY <1>1, <1>4, <2>2
    <3>2. rest = <<buffer[Len(buffer)]>>
      BY <2>2 DEF Rest, Last
    <3>3. buffer[Len(buffer)] \in Part
      BY <1>4, <3>1, ElementOfSeq
    <3> QED
      BY <3>1, <3>2, <3>3
  <2> QED
    BY <2>1, <2>2
<1>8. h \in Nat /\ 2 * h <= Len(buffer) /\ Len(buffer) <= 2 * h + 1
  BY <1>1, <1>4
<1> HIDE DEF rest, h
<1> DEFINE tail == rest \o left
<1>9. /\ tail \in Seq(Part) /\ Len(tail) = Len(all) - 2 * h
      /\ \A i \in 1 .. Len(all) - 2 * h : tail[i] = all[2 * h + i]
  <2>1. /\ tail \in Seq(Part) /\ Len(tail) = Len(rest) + Len(left)
        /\ \A i \in 1 .. Len(rest) + Len(left) :
             tail[i] = IF i <= Len(rest) THEN rest[i] ELSE left[i - Len(rest)]
    BY <1>3, <1>7, ConcatProperties
  <2> HIDE DEF tail
  <2>2. Len(rest) + Len(left) = Len(all) - 2 * h /\ Len(rest) \in Nat
    BY <1>1, <1>3, <1>4, <1>5, <1>7, <1>8
  <2>3. ASSUME NEW i \in 1 .. Len(all) - 2 * h
        PROVE  tail[i] = all[2 * h + i]
    <3>1. tail[i] = IF i <= Len(rest) THEN rest[i] ELSE left[i - Len(rest)]
      BY <2>1, <2>2
    <3>2. CASE i <= Len(rest)
      <4>1. i = 1 /\ Len(rest) = 1 /\ 2 * h + i = Len(buffer)
        BY <1>1, <1>4, <1>7, <1>8, <3>2
      <4>2. Len(buffer) \in 1 .. Len(rx) + k
        BY <1>4, <1>8, <4>1
      <4> QED
        BY <1>6, <1>7, <3>1, <3>2, <4>1, <4>2
    <3>3. CASE ~ (i <= Len(rest))
      <4>1. i - Len(rest) \in 1 .. Len(stream) - k
        BY <1>1, <1>3, <2>2, <3>3
      <4>2. left[i - Len(rest)] = stream[k + (i - Len(rest))]
        BY <1>3, <4>1
      <4>3. 2 * h + i \in 1 .. Len(rx) + Len(stream) /\ ~ (2 * h + i <= Len(rx))
            /\ 2 * h + i - Len(rx) = k + (i - Len(rest))
        BY <1>1, <1>4, <1>5, <1>7, <1>8, <3>3
      <4>4. all[2 * h + i] = stream[2 * h + i - Len(rx)]
        <5>1. \A j \in 1 .. Len(rx) + Len(stream) :
                ~ (j <= Len(rx)) => all[j] = stream[j - Len(rx)]
          BY <1>5
        <5>2. PICK j : j = 2 * h + i
          OBVIOUS
        <5>3. j \in 1 .. Len(rx) + Len(stream) /\ ~ (j <= Len(rx))
          BY <4>3, <5>2
        <5>4. all[j] = stream[j - Len(rx)]
          BY <5>1, <5>3
        <5> QED
          BY <1>8, <5>2, <5>4
      <4> QED
        BY <3>1, <3>3, <4>2, <4>3, <4>4
    <3> QED
      BY <3>2, <3>3
  <2> QED
    BY <2>1, <2>2, <2>3
<1> HIDE DEF tail
<1>10. Whole(all) = Whole(buffer) \o Whole(tail)
  <2> DEFINE x == Whole(buffer)
             y == Whole(tail)
             z == Whole(all)
             m == (Len(all) - 2 * h) \div 2
  <2>1. x \in Seq(Sent) /\ Len(x) = h /\ \A i \in 1 .. h : x[i] = buffer[2 * i].of
    BY <1>4, WholeMessages DEF h
  <2>2. y \in Seq(Sent) /\ Len(y) = m /\ \A i \in 1 .. m : y[i] = tail[2 * i].of
    BY <1>9, WholeMessages
  <2>3. z \in Seq(Sent) /\ Len(z) = Len(all) \div 2
        /\ \A i \in 1 .. Len(all) \div 2 : z[i] = all[2 * i].of
    BY <1>5, WholeMessages
  <2>4. m \in Nat /\ Len(all) \div 2 = h + m /\ 2 * m <= Len(all) - 2 * h /\ Len(all) \in Nat
    <3>1. Len(all) \in Nat /\ 2 * h <= Len(all) /\ Len(all) % 2 = 0
      <4>1. Len(all) = Len(rx) + Len(stream) /\ Len(buffer) = Len(rx) + k
        BY <1>4, <1>5
      <4>2. Len(all) \in Nat /\ Len(buffer) <= Len(all)
        BY <1>1, <4>1
      <4>3. 2 * h <= Len(all)
        BY <1>8, <4>1, <4>2
      <4> QED
        BY <4>1, <4>2, <4>3
    <3>2. \A a, d \in Nat : 2 * d <= a /\ a % 2 = 0 =>
            /\ (a - 2 * d) \div 2 \in Nat /\ a \div 2 = d + (a - 2 * d) \div 2
            /\ 2 * ((a - 2 * d) \div 2) <= a - 2 * d
      OBVIOUS
    <3> QED
      BY <1>8, <3>1, <3>2
  <2> HIDE DEF x, y, z, m
  <2>5. /\ x \o y \in Seq(Sent) /\ Len(x \o y) = h + m
        /\ \A i \in 1 .. h + m : (x \o y)[i] = IF i <= h THEN x[i] ELSE y[i - h]
    BY <2>1, <2>2, ConcatProperties
  <2>6. ASSUME NEW i \in 1 .. h + m
        PROVE  z[i] = (x \o y)[i]
    <3>1. z[i] = all[2 * i].of
      BY <2>3, <2>4
    <3>2. CASE i <= h
      <4>1. i \in 1 .. h /\ 2 * i \in 1 .. Len(rx) + k
        BY <1>4, <1>8, <2>4, <3>2
      <4> QED
        BY <1>6, <2>1, <2>5, <3>1, <3>2, <4>1
    <3>3. CASE ~ (i <= h)
      <4>1. i - h \in 1 .. m /\ 2 * (i - h) \in 1 .. Len(all) - 2 * h /\ 2 * h + 2 * (i - h) = 2 * i
        BY <1>8, <2>4, <3>3
      <4>2. y[i - h] = tail[2 * (i - h)].of /\ tail[2 * (i - h)] = all[2 * h + 2 * (i - h)]
        BY <1>9, <2>2, <4>1
      <4> QED
        BY <2>5, <3>1, <3>3, <4>1, <4>2
    <3> QED
      BY <3>2, <3>3
  <2>7. z = x \o y
    BY <2>3, <2>4, <2>5, <2>6, SeqEqual
  <2> QED
    BY <2>7 DEF x, y, z
<1>11. (Len(rest) + Len(left)) % 2 = 0
  BY <1>1, <1>3, <1>4, <1>7, <1>8
<1> QED
  BY <1>3, <1>4, <1>7, <1>10, <1>11 DEF taken, left, buffer, rest, all, tail

(* What is sent comes after all that is on its way.                        *)
LEMMA StreamSent ==
  ASSUME NEW s \in Seq(Part), Len(s) % 2 = 0, NEW ms \in Seq(Sent), NEW t \in Nat
  PROVE  /\ Parts(ms, t) \in Seq(Part) /\ Len(Parts(ms, t)) = 2 * Len(ms)
         /\ \A i \in 1 .. 2 * Len(ms) : Parts(ms, t)[i].t = t
         /\ Whole(s \o Parts(ms, t)) = Whole(s) \o ms
<1> DEFINE q == Parts(ms, t)
           all == s \o q
           h == Len(s) \div 2
<1>1. Len(ms) \in Nat /\ Len(s) \in Nat /\ \A i \in 1 .. Len(ms) : ms[i] \in Sent
  BY LenProperties, ElementOfSeq
<1>2. \A i \in 1 .. 2 * Len(ms) : (i + 1) \div 2 \in 1 .. Len(ms)
  BY <1>1
<1>3. \A i \in 1 .. 2 * Len(ms) : [of |-> ms[(i + 1) \div 2], t |-> t] \in Part
  BY <1>1, <1>2 DEF Part
<1>4. q \in Seq(Part) /\ Len(q) = 2 * Len(ms)
      /\ \A i \in 1 .. 2 * Len(ms) : q[i] = [of |-> ms[(i + 1) \div 2], t |-> t]
  BY <1>1, <1>3 DEF Parts
<1> HIDE DEF q
<1>5. /\ all \in Seq(Part) /\ Len(all) = Len(s) + 2 * Len(ms)
      /\ \A i \in 1 .. Len(s) + 2 * Len(ms) : all[i] = IF i <= Len(s) THEN s[i] ELSE q[i - Len(s)]
  <2>1. /\ s \o q \in Seq(Part) /\ Len(s \o q) = Len(s) + Len(q)
        /\ \A i \in 1 .. Len(s) + Len(q) : (s \o q)[i] = IF i <= Len(s) THEN s[i] ELSE q[i - Len(s)]
    BY <1>4, ConcatProperties
  <2> QED
    BY <1>4, <2>1
<1> HIDE DEF all
<1>6. h \in Nat /\ Len(s) = 2 * h /\ Len(all) \div 2 = h + Len(ms)
  <2>1. \A a, d \in Nat : a % 2 = 0 =>
          a \div 2 \in Nat /\ a = 2 * (a \div 2) /\ (a + 2 * d) \div 2 = a \div 2 + d
    OBVIOUS
  <2> QED
    BY <1>1, <1>5, <2>1
<1>7. Whole(s) \in Seq(Sent) /\ Len(Whole(s)) = h /\ \A i \in 1 .. h : Whole(s)[i] = s[2 * i].of
  BY WholeMessages
<1>8. Whole(all) \in Seq(Sent) /\ Len(Whole(all)) = h + Len(ms)
      /\ \A i \in 1 .. h + Len(ms) : Whole(all)[i] = all[2 * i].of
  BY <1>5, <1>6, WholeMessages
<1> HIDE DEF h
<1> DEFINE z == Whole(s) \o ms
<1>9. /\ z \in Seq(Sent) /\ Len(z) = h + Len(ms)
      /\ \A i \in 1 .. h + Len(ms) : z[i] = IF i <= h THEN Whole(s)[i] ELSE ms[i - h]
  BY <1>7, ConcatProperties
<1> HIDE DEF z
<1>10. ASSUME NEW i \in 1 .. h + Len(ms)
       PROVE  Whole(all)[i] = z[i]
  <2>1. 2 * i \in 1 .. Len(s) + 2 * Len(ms)
    BY <1>1, <1>6
  <2>2. CASE i <= h
    <3>1. i \in 1 .. h /\ 2 * i <= Len(s)
      BY <1>6, <2>2
    <3> QED
      BY <1>5, <1>7, <1>8, <1>9, <2>1, <2>2, <3>1
  <2>3. CASE ~ (i <= h)
    <3>1. ~ (2 * i <= Len(s)) /\ 2 * i - Len(s) \in 1 .. 2 * Len(ms)
          /\ (2 * i - Len(s) + 1) \div 2 = i - h
      BY <1>1, <1>6, <2>3
    <3>2. all[2 * i] = q[2 * i - Len(s)]
      BY <1>5, <2>1, <3>1
    <3>3. q[2 * i - Len(s)].of = ms[i - h]
      BY <1>4, <3>1
    <3> QED
      BY <1>8, <1>9, <2>3, <3>2, <3>3
  <2> QED
    BY <2>2, <2>3
<1>11. Whole(all) = z
  BY <1>8, <1>9, <1>10, SeqEqual
<1> QED
  BY <1>4, <1>11 DEF q, all, z

-----------------------------------------------------------------------------
(* Sorting by receive time.                                                *)

ByTime(s) ==
  \A i, j \in 1 .. Len(s) : i <= j => s[i].t_rx <= s[j].t_rx

(* An element is inserted between those that are not later and those that  *)
(* are.                                                                    *)
LEMMA InsertedBetween ==
  ASSUME NEW s \in Seq(Pending), ByTime(s), NEW p \in Pending
  PROVE  \E b \in 0 .. Len(s) :
           /\ Inserted(s, p) = (SubSeq(s, 1, b) \o <<p>>) \o SubSeq(s, b + 1, Len(s))
           /\ \A i \in 1 .. b : s[i].t_rx <= p.t_rx
           /\ \A i \in b + 1 .. Len(s) : p.t_rx < s[i].t_rx
<1>1. /\ Len(s) \in Nat /\ DOMAIN s = 1 .. Len(s) /\ \A i \in 1 .. Len(s) : s[i].t_rx \in Nat
      /\ p.t_rx \in Nat
  <2>1. Len(s) \in Nat /\ DOMAIN s = 1 .. Len(s) /\ \A i \in 1 .. Len(s) : s[i] \in Pending
    BY LenProperties, ElementOfSeq
  <2>2. \A q \in Pending : q.t_rx \in Nat
    BY DEF Pending
  <2> QED
    BY <2>1, <2>2
<1> DEFINE later == {i \in 1 .. Len(s) + 1 : i = Len(s) + 1 \/ p.t_rx < s[i].t_rx}
           notLater == {i \in 1 .. Len(s) : s[i].t_rx <= p.t_rx}
<1>2. PICK n \in later : \A m \in later : n <= m
  <2>1. later \in SUBSET Nat /\ Len(s) + 1 \in later
    BY <1>1
  <2> HIDE DEF later
  <2> QED
    BY <2>1, LeastNumber
<1> DEFINE b == n - 1
<1>3. n \in 1 .. Len(s) + 1 /\ b \in 0 .. Len(s) /\ b + 1 = n
  BY <1>1
<1>4. \A i \in 1 .. b : s[i].t_rx <= p.t_rx
  <2> SUFFICES ASSUME NEW i \in 1 .. b
               PROVE  s[i].t_rx <= p.t_rx
    OBVIOUS
  <2>1. i \in 1 .. Len(s) /\ ~ (n <= i)
    BY <1>1, <1>3
  <2>2. i \notin later
    BY <1>2, <2>1
  <2> QED
    BY <1>1, <2>1, <2>2
<1>5. \A i \in b + 1 .. Len(s) : p.t_rx < s[i].t_rx
  <2> SUFFICES ASSUME NEW i \in b + 1 .. Len(s)
               PROVE  p.t_rx < s[i].t_rx
    OBVIOUS
  <2>1. n \in 1 .. Len(s) /\ i \in 1 .. Len(s) /\ n <= i
    BY <1>1, <1>3
  <2>2. p.t_rx < s[n].t_rx
    BY <1>1, <2>1
  <2>3. s[n].t_rx <= s[i].t_rx
    BY <2>1 DEF ByTime
  <2> QED
    BY <1>1, <2>1, <2>2, <2>3
<1>6. b \in notLater \cup {0} /\ \A i \in notLater \cup {0} : b >= i
  <2>1. b \in notLater \cup {0}
    <3>1. CASE b = 0
      BY <3>1
    <3>2. CASE b # 0
      <4>1. b \in 1 .. b /\ b \in 1 .. Len(s)
        BY <1>1, <1>3, <3>2
      <4> QED
        BY <1>4, <4>1
    <3> QED
      BY <3>1, <3>2
  <2>2. ASSUME NEW i \in notLater \cup {0}
        PROVE  b >= i
    <3>1. CASE i = 0
      BY <1>1, <1>3, <3>1
    <3>2. CASE i # 0
      <4>1. i \in 1 .. Len(s) /\ s[i].t_rx <= p.t_rx
        BY <3>2
      <4>2. i \notin b + 1 .. Len(s)
        BY <1>1, <1>5, <4>1
      <4> QED
        BY <1>1, <1>3, <4>1, <4>2
    <3> QED
      BY <3>1, <3>2
  <2> QED
    BY <2>1, <2>2
<1>7. Inserted(s, p) = InsertAt(s, Max(notLater \cup {0}) + 1, p)
  BY <1>1 DEF Inserted
<1>8. notLater \cup {0} \in SUBSET Int
  BY <1>1
<1> HIDE DEF notLater, later, b
<1>9. Max(notLater \cup {0}) = b
  <2> DEFINE T == notLater \cup {0}
  <2>1. b \in T /\ (\A i \in T : b >= i) /\ T \in SUBSET Int
    BY <1>6, <1>8
  <2> HIDE DEF T
  <2>2. \A x \in T : (\A i \in T : x >= i) => x = b
    BY <2>1
  <2>3. Max(T) \in T /\ \A i \in T : Max(T) >= i
    BY <2>1 DEF Max
  <2> QED
    BY <2>2, <2>3 DEF T
<1>10. Inserted(s, p) = (SubSeq(s, 1, b) \o <<p>>) \o SubSeq(s, b + 1, Len(s))
  <2>2. PICK m : m = b + 1 /\ m - 1 = b
    BY <1>3
  <2>3. InsertAt(s, m, p) = (SubSeq(s, 1, m - 1) \o <<p>>) \o SubSeq(s, m, Len(s))
    BY DEF InsertAt
  <2> QED
    BY <1>7, <1>9, <2>2, <2>3
<1> QED
  BY <1>3, <1>4, <1>5, <1>10

LEMMA RequestsInType ==
  ASSUME NEW s \in Seq(Pending)
  PROVE  /\ RequestsIn(s) \in Seq(Request) /\ Len(RequestsIn(s)) = Len(s)
         /\ \A i \in 1 .. Len(s) : RequestsIn(s)[i] = s[i].request
<1>1. Len(s) \in Nat /\ DOMAIN s = 1 .. Len(s) /\ \A i \in 1 .. Len(s) : s[i] \in Pending
  BY LenProperties, ElementOfSeq
<1>2. \A i \in 1 .. Len(s) : s[i].request \in Request
  BY <1>1 DEF Pending
<1> QED
  BY <1>1, <1>2 DEF RequestsIn

LEMMA RequestsInConcat ==
  ASSUME NEW s \in Seq(Pending), NEW t \in Seq(Pending)
  PROVE  RequestsIn(s \o t) = RequestsIn(s) \o RequestsIn(t)
<1> DEFINE a == RequestsIn(s)
           b == RequestsIn(t)
           z == RequestsIn(s \o t)
<1>1. Len(s) \in Nat /\ Len(t) \in Nat
  BY LenProperties
<1>2. a \in Seq(Request) /\ Len(a) = Len(s) /\ \A i \in 1 .. Len(s) : a[i] = s[i].request
  BY RequestsInType
<1>3. b \in Seq(Request) /\ Len(b) = Len(t) /\ \A i \in 1 .. Len(t) : b[i] = t[i].request
  BY RequestsInType
<1>4. /\ s \o t \in Seq(Pending) /\ Len(s \o t) = Len(s) + Len(t)
      /\ \A i \in 1 .. Len(s) + Len(t) : (s \o t)[i] = IF i <= Len(s) THEN s[i] ELSE t[i - Len(s)]
  BY ConcatProperties
<1>5. z \in Seq(Request) /\ Len(z) = Len(s) + Len(t)
      /\ \A i \in 1 .. Len(s) + Len(t) : z[i] = (s \o t)[i].request
  BY <1>4, RequestsInType
<1> HIDE DEF a, b, z
<1>6. /\ a \o b \in Seq(Request) /\ Len(a \o b) = Len(s) + Len(t)
      /\ \A i \in 1 .. Len(s) + Len(t) : (a \o b)[i] = IF i <= Len(s) THEN a[i] ELSE b[i - Len(s)]
  <2>1. /\ a \o b \in Seq(Request) /\ Len(a \o b) = Len(a) + Len(b)
        /\ \A i \in 1 .. Len(a) + Len(b) : (a \o b)[i] = IF i <= Len(a) THEN a[i] ELSE b[i - Len(a)]
    <3>1. \A x, y \in Seq(Request) :
            /\ x \o y \in Seq(Request) /\ Len(x \o y) = Len(x) + Len(y)
            /\ \A i \in 1 .. Len(x) + Len(y) :
                 (x \o y)[i] = IF i <= Len(x) THEN x[i] ELSE y[i - Len(x)]
      BY ConcatProperties
    <3> QED
      BY <1>2, <1>3, <3>1
  <2> QED
    BY <1>2, <1>3, <2>1
<1>7. ASSUME NEW i \in 1 .. Len(s) + Len(t)
      PROVE  z[i] = (a \o b)[i]
  <2>1. CASE i <= Len(s)
    BY SMTT(30), <1>1, <1>2, <1>4, <1>5, <1>6, <2>1
  <2>2. CASE ~ (i <= Len(s))
    <3>1. i - Len(s) \in 1 .. Len(t)
      BY <1>1, <2>2
    <3> QED
      BY <1>3, <1>4, <1>5, <1>6, <2>2, <3>1
  <2> QED
    BY <2>1, <2>2
<1>8. z = a \o b
  BY <1>5, <1>6, <1>7, SeqEqual
<1> QED
  BY <1>8 DEF a, b, z

(* What has been made of the first k of the pending requests: they are     *)
(* sorted, and each client's are in the order in which they came.          *)
SortedUpTo(q, pending, k) ==
  /\ q \in Seq(Pending)
  /\ ByTime(q)
  /\ \A i \in 1 .. Len(q) : \E j \in 1 .. k : q[i] = pending[j]
  /\ \A c \in Clients :
       OfClient(RequestsIn(q), c) = OfClient(RequestsIn(SubSeq(pending, 1, k)), c)

LEMMA InsertedSorts ==
  ASSUME NEW pending \in Seq(Pending), ClientsInTime(pending), NEW k \in Nat,
         k + 1 <= Len(pending), NEW q, SortedUpTo(q, pending, k)
  PROVE  SortedUpTo(Inserted(q, pending[k + 1]), pending, k + 1)
<1> DEFINE p == pending[k + 1]
           r == Inserted(q, p)
<1>1. /\ Len(pending) \in Nat /\ k + 1 \in 1 .. Len(pending)
      /\ \A i \in 1 .. Len(pending) : pending[i] \in Pending
  BY LenProperties, ElementOfSeq
<1>2. p \in Pending /\ q \in Seq(Pending) /\ Len(q) \in Nat /\ \A i \in 1 .. Len(q) : q[i] \in Pending
  <2>1. q \in Seq(Pending)
    BY DEF SortedUpTo
  <2> QED
    BY <1>1, <2>1, LenProperties, ElementOfSeq
<1>3. \A x \in Pending : x.t_rx \in Nat /\ x.request \in Request
  BY DEF Pending
<1> HIDE DEF p
<1>4. PICK b \in 0 .. Len(q) :
        /\ r = (SubSeq(q, 1, b) \o <<p>>) \o SubSeq(q, b + 1, Len(q))
        /\ \A i \in 1 .. b : q[i].t_rx <= p.t_rx
        /\ \A i \in b + 1 .. Len(q) : p.t_rx < q[i].t_rx
  BY <1>2, InsertedBetween DEF SortedUpTo
<1> HIDE DEF r
<1> DEFINE front == SubSeq(q, 1, b)
           back == SubSeq(q, b + 1, Len(q))
           fp == front \o <<p>>
<1>5. front \in Seq(Pending) /\ Len(front) = b /\ \A i \in 1 .. b : front[i] = q[i]
  <2>1. \A i \in 1 .. b : q[i] \in Pending
    BY <1>2
  <2>2. /\ SubSeq(q, 1, b) \in Seq(Pending)
        /\ Len(SubSeq(q, 1, b)) = IF 1 <= b THEN b - 1 + 1 ELSE 0
        /\ \A i \in 1 .. b - 1 + 1 : SubSeq(q, 1, b)[i] = q[1 + i - 1]
    BY <2>1, SubSeqProperties
  <2>3. \A i \in 1 .. b : i \in 1 .. b - 1 + 1 /\ 1 + i - 1 = i
    OBVIOUS
  <2> QED
    BY <2>2, <2>3
<1>6. /\ back \in Seq(Pending) /\ Len(back) = Len(q) - b
      /\ \A i \in 1 .. Len(q) - b : back[i] = q[b + i]
  <2>1. \A i \in b + 1 .. Len(q) : q[i] \in Pending
    BY <1>2
  <2>2. /\ SubSeq(q, b + 1, Len(q)) \in Seq(Pending)
        /\ Len(SubSeq(q, b + 1, Len(q))) = IF b + 1 <= Len(q) THEN Len(q) - (b + 1) + 1 ELSE 0
        /\ \A i \in 1 .. Len(q) - (b + 1) + 1 : SubSeq(q, b + 1, Len(q))[i] = q[b + 1 + i - 1]
    BY <1>2, <2>1, SubSeqProperties
  <2>3. \A i \in 1 .. Len(q) - b : i \in 1 .. Len(q) - (b + 1) + 1 /\ b + 1 + i - 1 = b + i
    BY <1>2
  <2>4. (IF b + 1 <= Len(q) THEN Len(q) - (b + 1) + 1 ELSE 0) = Len(q) - b
    BY <1>2
  <2> QED
    BY <2>2, <2>3, <2>4
<1>7. front \o back = q
  <2>1. 1 \in 1 .. Len(q) + 1 /\ b \in 1 - 1 .. Len(q) /\ Len(q) \in b .. Len(q)
    BY <1>2
  <2>2. front \o back = SubSeq(q, 1, Len(q))
    BY <1>2, <2>1, ConcatAdjacentSubSeq
  <2> QED
    BY <1>2, <2>2, SubSeqFull
<1>8. r = fp \o back
  BY <1>4
<1> HIDE DEF front, back
<1>9. /\ <<p>> \in Seq(Pending) /\ fp \in Seq(Pending) /\ Len(fp) = b + 1
      /\ \A i \in 1 .. b + 1 : fp[i] = IF i <= b THEN q[i] ELSE p
  <2>1. <<p>> \in Seq(Pending) /\ Len(<<p>>) = 1 /\ <<p>>[1] = p
    BY <1>2
  <2>2. /\ front \o <<p>> \in Seq(Pending) /\ Len(front \o <<p>>) = Len(front) + Len(<<p>>)
        /\ \A i \in 1 .. Len(front) + Len(<<p>>) :
             (front \o <<p>>)[i] = IF i <= Len(front) THEN front[i] ELSE <<p>>[i - Len(front)]
    BY <1>5, <2>1, ConcatProperties
  <2>3. \A i \in 1 .. b + 1 : (i <= b => i \in 1 .. b) /\ (~ (i <= b) => i - b = 1)
    OBVIOUS
  <2> QED
    BY <1>5, <2>1, <2>2, <2>3
<1> HIDE DEF fp
<1>10. /\ r \in Seq(Pending) /\ Len(r) = Len(q) + 1
       /\ \A i \in 1 .. Len(q) + 1 :
            r[i] = IF i <= b THEN q[i] ELSE IF i = b + 1 THEN p ELSE q[i - 1]
  <2>1. /\ r \in Seq(Pending) /\ Len(r) = Len(fp) + Len(back)
        /\ \A i \in 1 .. Len(fp) + Len(back) :
             r[i] = IF i <= Len(fp) THEN fp[i] ELSE back[i - Len(fp)]
    BY <1>6, <1>8, <1>9, ConcatProperties
  <2>2. Len(fp) + Len(back) = Len(q) + 1
    BY <1>2, <1>6, <1>9
  <2>3. ASSUME NEW i \in 1 .. Len(q) + 1
        PROVE  r[i] = IF i <= b THEN q[i] ELSE IF i = b + 1 THEN p ELSE q[i - 1]
    <3>1. CASE i <= b + 1
      <4>1. r[i] = fp[i] /\ i \in 1 .. b + 1
        BY <1>9, <2>1, <2>2, <3>1
      <4> QED
        BY <1>9, <4>1
    <3>2. CASE ~ (i <= b + 1)
      <4>1. r[i] = back[i - (b + 1)]
        BY <1>9, <2>1, <2>2, <3>2
      <4>2. i - (b + 1) \in 1 .. Len(q) - b /\ b + (i - (b + 1)) = i - 1
        BY <1>2, <3>2
      <4>3. back[i - (b + 1)] = q[i - 1]
        BY <1>6, <4>2
      <4> QED
        BY <3>2, <4>1, <4>3
    <3> QED
      BY <3>1, <3>2
  <2> QED
    BY <2>1, <2>2, <2>3
<1>11. ByTime(r)
  <2> SUFFICES ASSUME NEW i \in 1 .. Len(q) + 1, NEW j \in 1 .. Len(q) + 1, i <= j
               PROVE  r[i].t_rx <= r[j].t_rx
    BY <1>10 DEF ByTime
  <2>1. \A m, n \in 1 .. Len(q) : m <= n => q[m].t_rx <= q[n].t_rx
    BY DEF SortedUpTo, ByTime
  <2>2. p.t_rx \in Nat /\ \A m \in 1 .. Len(q) : q[m].t_rx \in Nat
    BY <1>2, <1>3
  <2>3. CASE i <= b
    <3>1. r[i] = q[i] /\ i \in 1 .. b /\ i \in 1 .. Len(q)
      BY <1>2, <1>10, <2>3
    <3>2. CASE j <= b
      <4>1. r[j] = q[j] /\ j \in 1 .. Len(q)
        BY <1>2, <1>10, <3>2
      <4> QED
        BY <2>1, <3>1, <4>1
    <3>3. CASE j = b + 1
      <4>1. r[j] = p
        BY <1>10, <3>3
      <4> QED
        BY <1>4, <3>1, <4>1
    <3>4. CASE j > b + 1
      <4>1. r[j] = q[j - 1] /\ j - 1 \in 1 .. Len(q) /\ i <= j - 1
        BY <1>2, <1>10, <2>3, <3>4
      <4> QED
        BY <2>1, <3>1, <4>1
    <3> QED
      BY <3>2, <3>3, <3>4
  <2>4. CASE i = b + 1
    <3>1. r[i] = p
      BY <1>10, <2>4
    <3>2. CASE j = b + 1
      BY <2>2, <2>4, <3>1, <3>2
    <3>3. CASE j > b + 1
      <4>1. r[j] = q[j - 1] /\ j - 1 \in b + 1 .. Len(q) /\ j - 1 \in 1 .. Len(q)
        BY <1>2, <1>10, <3>3
      <4>2. p.t_rx < q[j - 1].t_rx
        BY <1>4, <4>1
      <4>3. q[j - 1].t_rx \in Nat
        BY <2>2, <4>1
      <4>4. p.t_rx <= q[j - 1].t_rx
        BY <2>2, <4>2, <4>3
      <4> QED
        BY <3>1, <4>1, <4>4
    <3> QED
      BY <2>4, <3>2, <3>3
  <2>5. CASE i > b + 1
    <3>1. r[i] = q[i - 1] /\ r[j] = q[j - 1] /\ i - 1 \in 1 .. Len(q) /\ j - 1 \in 1 .. Len(q)
          /\ i - 1 <= j - 1
      BY <1>2, <1>10, <2>5
    <3> QED
      BY <2>1, <3>1
  <2> QED
    BY <2>3, <2>4, <2>5
<1>12. \A i \in 1 .. Len(r) : \E j \in 1 .. k + 1 : r[i] = pending[j]
  <2>1. \A i \in 1 .. Len(q) : \E j \in 1 .. k + 1 : q[i] = pending[j]
    <3>1. \A j \in 1 .. k : j \in 1 .. k + 1
      OBVIOUS
    <3> QED
      BY <3>1 DEF SortedUpTo
  <2>2. k + 1 \in 1 .. k + 1 /\ p = pending[k + 1]
    BY DEF p
  <2> SUFFICES ASSUME NEW i \in 1 .. Len(q) + 1
               PROVE  \E j \in 1 .. k + 1 : r[i] = pending[j]
    BY <1>10
  <2>3. CASE i <= b
    <3>1. r[i] = q[i] /\ i \in 1 .. Len(q)
      BY <1>2, <1>10, <2>3
    <3> QED
      BY <2>1, <3>1
  <2>4. CASE i = b + 1
    BY <1>10, <2>2, <2>4
  <2>5. CASE i > b + 1
    <3>1. r[i] = q[i - 1] /\ i - 1 \in 1 .. Len(q)
      BY <1>2, <1>10, <2>5
    <3> QED
      BY <2>1, <3>1
  <2> QED
    BY <2>3, <2>4, <2>5
<1>13. ASSUME NEW c \in Clients
       PROVE  OfClient(RequestsIn(r), c) = OfClient(RequestsIn(SubSeq(pending, 1, k + 1)), c)
  <2> DEFINE F == OfClient(RequestsIn(front), c)
             B == OfClient(RequestsIn(back), c)
             E == OfClient(RequestsIn(<<p>>), c)
             old == SubSeq(pending, 1, k)
  <2>0. \A x, y \in Seq(Request) : OfClient(x \o y, c) = OfClient(x, c) \o OfClient(y, c)
    BY OfClientConcat
  <2>1. RequestsIn(front) \in Seq(Request) /\ RequestsIn(back) \in Seq(Request)
        /\ RequestsIn(<<p>>) \in Seq(Request) /\ RequestsIn(fp) \in Seq(Request)
    BY <1>5, <1>6, <1>9, RequestsInType
  <2>2. F \in Seq(Request) /\ B \in Seq(Request) /\ E \in Seq(Request)
    BY <2>1, OfClientType
  <2>3. OfClient(RequestsIn(r), c) = (F \o E) \o B
    <3>1. RequestsIn(r) = RequestsIn(fp) \o RequestsIn(back)
      BY <1>6, <1>8, <1>9, RequestsInConcat
    <3>2. RequestsIn(fp) = RequestsIn(front) \o RequestsIn(<<p>>)
      BY <1>5, <1>9, RequestsInConcat DEF fp
    <3>3. OfClient(RequestsIn(fp), c) = F \o E
      BY <2>0, <2>1, <3>2
    <3>4. OfClient(RequestsIn(r), c) = OfClient(RequestsIn(fp), c) \o B
      BY <2>0, <2>1, <3>1
    <3> QED
      BY <3>3, <3>4
  <2>4. OfClient(RequestsIn(q), c) = F \o B
    <3>1. RequestsIn(q) = RequestsIn(front) \o RequestsIn(back)
      BY <1>5, <1>6, <1>7, RequestsInConcat
    <3> QED
      BY <2>0, <2>1, <3>1
  <2>5. old \in Seq(Pending)
    <3>1. \A i \in 1 .. k : pending[i] \in Pending
      BY <1>1
    <3> QED
      BY <3>1, SubSeqProperties
  <2>6. SubSeq(pending, 1, k + 1) = old \o <<p>>
    <3>1. k + 1 - 1 = k /\ 1 \in 1 .. Len(pending) /\ k + 1 \in 1 .. Len(pending)
          /\ k + 1 \in 1 .. k + 1
      BY <1>1
    <3>2. SubSeq(pending, 1, k + 1) = SubSeq(pending, 1, k + 1 - 1) \o <<pending[k + 1]>>
      BY <3>1, SubSeqRecursiveSecond
    <3> QED
      BY <3>1, <3>2 DEF p
  <2>7. OfClient(RequestsIn(SubSeq(pending, 1, k + 1)), c) = (F \o B) \o E
    <3>1. RequestsIn(SubSeq(pending, 1, k + 1)) = RequestsIn(old) \o RequestsIn(<<p>>)
      BY <1>9, <2>5, <2>6, RequestsInConcat
    <3>2. RequestsIn(old) \in Seq(Request)
      BY <2>5, RequestsInType
    <3>3. OfClient(RequestsIn(old), c) = F \o B
      BY <2>4 DEF SortedUpTo
    <3>4. OfClient(RequestsIn(SubSeq(pending, 1, k + 1)), c) = OfClient(RequestsIn(old), c) \o E
      BY <2>0, <2>1, <3>1, <3>2
    <3> QED
      BY <3>3, <3>4
  <2>8. CASE p.request.client # c
    <3>1. Len(RequestsIn(<<p>>)) = 1 /\ RequestsIn(<<p>>)[1] = p.request
      <4>1. Len(<<p>>) = 1 /\ <<p>>[1] = p
        OBVIOUS
      <4> QED
        BY <1>9, <4>1, RequestsInType DEF RequestsIn
    <3>2. E = <<>>
      BY <2>1, <2>8, <3>1, OfClientAllOrNone
    <3> HIDE DEF F, B, E
    <3>3. F \o <<>> = F /\ F \o B \in Seq(Request)
      BY <2>2, ConcatEmptySeq, ConcatProperties
    <3>4. (F \o B) \o <<>> = F \o B
      BY <3>3, ConcatEmptySeq
    <3> QED
      BY <2>3, <2>7, <3>2, <3>3, <3>4
  <2>9. CASE p.request.client = c
    <3>1. ASSUME NEW i \in 1 .. Len(back)
          PROVE  RequestsIn(back)[i].client # c
      <4>1. b + i \in b + 1 .. Len(q) /\ b + i \in 1 .. Len(q) /\ back[i] = q[b + i]
        BY SMTT(30), <1>2, <1>6
      <4>2. PICK j \in 1 .. k : q[b + i] = pending[j]
        BY <4>1 DEF SortedUpTo
      <4>3. j \in 1 .. Len(pending) /\ j <= k + 1
        BY <1>1
      <4>4. pending[j].request.client = c => pending[j].t_rx <= p.t_rx
        BY <1>1, <2>9, <4>3 DEF ClientsInTime, p
      <4>5. p.t_rx < pending[j].t_rx
        BY <1>4, <4>1, <4>2
      <4>6. p.t_rx \in Nat /\ pending[j].t_rx \in Nat
        BY <1>1, <1>2, <1>3, <4>3
      <4>7. RequestsIn(back)[i] = pending[j].request
        BY <1>6, <4>1, <4>2, RequestsInType
      <4> QED
        BY <4>4, <4>5, <4>6, <4>7
    <3>2. Len(RequestsIn(back)) = Len(back)
      BY <1>6, RequestsInType
    <3>3. B = <<>>
      BY <2>1, <3>1, <3>2, OfClientAllOrNone
    <3> HIDE DEF F, B, E
    <3>4. F \o <<>> = F /\ F \o E \in Seq(Request)
      BY <2>2, ConcatEmptySeq, ConcatProperties
    <3>5. (F \o E) \o <<>> = F \o E
      BY <3>4, ConcatEmptySeq
    <3> QED
      BY <2>3, <2>7, <3>3, <3>4, <3>5
  <2> QED
    BY <2>8, <2>9
<1> QED
  BY <1>10, <1>11, <1>12, <1>13 DEF SortedUpTo, p, r

(* f holds what the insertions make of the pending requests, one by one.   *)
Insertions(f, pending, k) ==
  /\ f[0] = <<>>
  /\ \A n \in 1 .. k : f[n] = Inserted(f[n - 1], pending[n])
  /\ \A n \in 0 .. k : SortedUpTo(f[n], pending, n)

LEMMA InsertionsExist ==
  ASSUME NEW pending \in Seq(Pending), ClientsInTime(pending)
  PROVE  \E f : DOMAIN f = 0 .. Len(pending) /\ Insertions(f, pending, Len(pending))
                /\ f = [n \in 0 .. Len(pending) |-> f[n]]
<1> DEFINE P == {k \in Nat : k <= Len(pending) =>
                   \E f : DOMAIN f = 0 .. k /\ Insertions(f, pending, k)
                          /\ f = [n \in 0 .. k |-> f[n]]}
<1>1. Len(pending) \in Nat
  BY LenProperties
<1>2. 0 \in P
  <2> DEFINE f == [n \in 0 .. 0 |-> <<>>]
  <2>1. DOMAIN f = 0 .. 0 /\ f[0] = <<>> /\ f = [n \in 0 .. 0 |-> f[n]]
    OBVIOUS
  <2>2. SortedUpTo(<<>>, pending, 0)
    <3>1. <<>> \in Seq(Pending) /\ Len(<<>>) = 0 /\ ByTime(<<>>)
      BY EmptySeq DEF ByTime
    <3>2. SubSeq(pending, 1, 0) = <<>>
      BY SubSeqEmpty
    <3>3. \A i \in 1 .. 0 : FALSE
      OBVIOUS
    <3> QED
      BY ONLY <3>1, <3>2, <3>3 DEF SortedUpTo
  <2> HIDE DEF f
  <2>3. Insertions(f, pending, 0)
    <3>1. \A n \in 0 .. 0 : n = 0
      OBVIOUS
    <3> QED
      BY <2>1, <2>2, <3>1 DEF Insertions
  <2> QED
    BY <2>1, <2>3
<1>3. ASSUME NEW k \in P
      PROVE  k + 1 \in P
  <2> SUFFICES ASSUME k + 1 <= Len(pending)
               PROVE  \E f : DOMAIN f = 0 .. k + 1 /\ Insertions(f, pending, k + 1)
                             /\ f = [n \in 0 .. k + 1 |-> f[n]]
    OBVIOUS
  <2>1. k \in Nat /\ k <= Len(pending)
    BY <1>1
  <2>2. PICK f : DOMAIN f = 0 .. k /\ Insertions(f, pending, k)
    BY <2>1
  <2> DEFINE e == Inserted(f[k], pending[k + 1])
             g == [n \in 0 .. k + 1 |-> IF n = k + 1 THEN e ELSE f[n]]
  <2>3. SortedUpTo(e, pending, k + 1)
    <3>1. SortedUpTo(f[k], pending, k)
      BY <2>1, <2>2 DEF Insertions
    <3> QED
      BY <2>1, <3>1, InsertedSorts
  <2> HIDE DEF e
  <2>4. DOMAIN g = 0 .. k + 1 /\ g = [n \in 0 .. k + 1 |-> g[n]]
    OBVIOUS
  <2>5. g[k + 1] = e /\ \A n \in 0 .. k : g[n] = f[n]
    BY <2>1
  <2> HIDE DEF g
  <2>6. Insertions(g, pending, k + 1)
    <3>1. g[0] = <<>>
      BY <2>1, <2>2, <2>5 DEF Insertions
    <3>2. ASSUME NEW n \in 1 .. k + 1
          PROVE  g[n] = Inserted(g[n - 1], pending[n])
      <4>1. CASE n = k + 1
        <5>1. n - 1 = k /\ g[k] = f[k]
          BY <2>1, <2>5, <4>1
        <5> QED
          BY <2>5, <4>1, <5>1 DEF e
      <4>2. CASE n # k + 1
        <5>1. n \in 1 .. k /\ n \in 0 .. k /\ n - 1 \in 0 .. k
          BY <2>1, <4>2
        <5>2. g[n] = f[n] /\ g[n - 1] = f[n - 1]
          BY <2>5, <5>1
        <5> QED
          BY <2>2, <5>1, <5>2 DEF Insertions
      <4> QED
        BY <4>1, <4>2
    <3>3. ASSUME NEW n \in 0 .. k + 1
          PROVE  SortedUpTo(g[n], pending, n)
      <4>1. CASE n = k + 1
        BY <2>3, <2>5, <4>1
      <4>2. CASE n # k + 1
        <5>1. n \in 0 .. k
          BY <2>1, <4>2
        <5>2. g[n] = f[n]
          BY <2>5, <5>1
        <5> QED
          BY <2>2, <5>1, <5>2 DEF Insertions
      <4> QED
        BY <4>1, <4>2
    <3> QED
      BY <3>1, <3>2, <3>3 DEF Insertions
  <2> QED
    BY <2>4, <2>6
<1>4. P \in SUBSET Nat
  OBVIOUS
<1>5. P = Nat
  <2> HIDE DEF P
  <2> QED
    BY <1>2, <1>3, <1>4, Induction
<1> QED
  BY <1>1, <1>5

(* The sequencer's order is by receive time and keeps that of each client. *)
LEMMA SortedPending ==
  ASSUME NEW pending \in Seq(Pending), ClientsInTime(pending)
  PROVE  SortedUpTo(SortedByTime(pending), pending, Len(pending))
<1> DEFINE Rec(g) == g = [n \in 0 .. Len(pending) |->
                            IF n = 0 THEN <<>> ELSE Inserted(g[n - 1], pending[n])]
           upTo == CHOOSE g : Rec(g)
<1>1. Len(pending) \in Nat
  BY LenProperties
<1>2. PICK f : DOMAIN f = 0 .. Len(pending) /\ Insertions(f, pending, Len(pending))
               /\ f = [n \in 0 .. Len(pending) |-> f[n]]
  BY InsertionsExist
<1> DEFINE P == {n \in Nat : n <= Len(pending) => upTo[n] = f[n]}
<1>3. SortedByTime(pending) = upTo[Len(pending)]
  BY DEF SortedByTime
<1>4. Rec(f)
  <2>1. \A n \in 0 .. Len(pending) : n # 0 => n \in 1 .. Len(pending)
    OBVIOUS
  <2> QED
    BY <1>2, <2>1 DEF Insertions
<1>5. Rec(upTo)
  BY <1>4
<1> HIDE DEF upTo
<1>6. upTo[0] = <<>>
  BY <1>1, <1>5
<1>7. ASSUME NEW n \in 1 .. Len(pending)
      PROVE  upTo[n] = Inserted(upTo[n - 1], pending[n])
  <2>1. n \in 0 .. Len(pending) /\ n # 0
    OBVIOUS
  <2> QED
    BY <1>5, <2>1
<1>8. 0 \in P
  BY <1>2, <1>6 DEF Insertions
<1>9. ASSUME NEW n \in P
      PROVE  n + 1 \in P
  <2> SUFFICES ASSUME n + 1 <= Len(pending)
               PROVE  upTo[n + 1] = f[n + 1]
    OBVIOUS
  <2>1. n \in Nat /\ n + 1 \in 1 .. Len(pending) /\ n + 1 - 1 = n
    BY <1>1
  <2>2. upTo[n] = f[n]
    BY <1>1, <2>1
  <2>3. upTo[n + 1] = Inserted(upTo[n], pending[n + 1])
    BY <1>7, <2>1
  <2>4. f[n + 1] = Inserted(f[n], pending[n + 1])
    BY SMTT(30), <1>2, <2>1 DEF Insertions
  <2> QED
    BY <2>2, <2>3, <2>4
<1>10. P \in SUBSET Nat
  OBVIOUS
<1>11. P = Nat
  <2> HIDE DEF P
  <2> QED
    BY <1>8, <1>9, <1>10, Induction
<1>12. upTo[Len(pending)] = f[Len(pending)]
  BY <1>1, <1>11
<1>13. SortedUpTo(f[Len(pending)], pending, Len(pending))
  BY <1>1, <1>2 DEF Insertions
<1> QED
  BY <1>3, <1>12, <1>13

InOrder == RequestsIn(SortedByTime(pending_requests))

LEMMA SequencedIs ==
  ASSUME pending_requests \in Seq(Pending), ClientsInTime(pending_requests)
  PROVE  /\ FewPending => Sequenced = {InOrder}
         /\ InOrder \in Seq(Request)
         /\ \A i \in 1 .. Len(InOrder) : \E j \in 1 .. Len(pending_requests) :
              InOrder[i] = pending_requests[j].request
         /\ \A c \in Clients :
              OfClient(InOrder, c) = OfClient(RequestsIn(pending_requests), c)
<1> DEFINE q == SortedByTime(pending_requests)
<1>1. SortedUpTo(q, pending_requests, Len(pending_requests))
  BY SortedPending
<1>2. SubSeq(pending_requests, 1, Len(pending_requests)) = pending_requests
  BY SubSeqFull
<1>3. InOrder = RequestsIn(q) /\ (FewPending => Sequenced = {InOrder})
  BY DEF InOrder, Sequenced, Sortings, FewPending
<1> HIDE DEF q
<1>4. q \in Seq(Pending)
  BY <1>1 DEF SortedUpTo
<1>5. RequestsIn(q) \in Seq(Request) /\ Len(RequestsIn(q)) = Len(q)
      /\ \A i \in 1 .. Len(q) : RequestsIn(q)[i] = q[i].request
  BY <1>4, RequestsInType
<1> QED
  BY <1>1, <1>2, <1>3, <1>5 DEF SortedUpTo

-----------------------------------------------------------------------------
(* Lists of messages.                                                      *)

LEMMA Concat ==
  ASSUME NEW S
  PROVE  /\ \A x, y \in Seq(S) :
              /\ x \o y \in Seq(S) /\ Len(x \o y) = Len(x) + Len(y)
              /\ \A i \in 1 .. Len(x) + Len(y) :
                   (x \o y)[i] = IF i <= Len(x) THEN x[i] ELSE y[i - Len(x)]
         /\ \A x, y, z \in Seq(S) : (x \o y) \o z = x \o (y \o z)
         /\ \A x \in Seq(S) : x \o <<>> = x /\ <<>> \o x = x
         /\ <<>> \in Seq(S) /\ \A x \in Seq(S) : Len(x) \in Nat
<1>1. \A x, y \in Seq(S) :
        /\ x \o y \in Seq(S) /\ Len(x \o y) = Len(x) + Len(y)
        /\ \A i \in 1 .. Len(x) + Len(y) :
             (x \o y)[i] = IF i <= Len(x) THEN x[i] ELSE y[i - Len(x)]
  BY ConcatProperties
<1>2. \A x, y, z \in Seq(S) : (x \o y) \o z = x \o (y \o z)
  BY ConcatAssociative
<1>3. \A x \in Seq(S) : x \o <<>> = x /\ <<>> \o x = x
  BY ConcatEmptySeq
<1>4. <<>> \in Seq(S) /\ \A x \in Seq(S) : Len(x) \in Nat
  BY EmptySeq, LenProperties
<1> QED
  BY <1>1, <1>2, <1>3, <1>4

LEMMA ConsecutiveConcat ==
  ASSUME NEW a \in Seq(Sent), NEW b \in Seq(Sent), NEW c, NEW n \in Nat
  PROVE  Consecutive(a \o b, c, n) <=> Consecutive(a, c, n) /\ Consecutive(b, c, n + Len(a))
<1> DEFINE z == a \o b
<1>1. Len(a) \in Nat /\ Len(b) \in Nat /\ Len(z) = Len(a) + Len(b)
      /\ \A i \in 1 .. Len(a) + Len(b) : z[i] = IF i <= Len(a) THEN a[i] ELSE b[i - Len(a)]
  BY Concat
<1> HIDE DEF z
<1>2. ASSUME Consecutive(z, c, n)
      PROVE  Consecutive(a, c, n) /\ Consecutive(b, c, n + Len(a))
  <2>1. ASSUME NEW i \in 1 .. Len(a)
        PROVE  a[i].n_seq = n + i - 1 /\ a[i].request.client = c
    <3>1. i \in 1 .. Len(z) /\ z[i] = a[i]
      BY <1>1
    <3> QED
      BY <1>2, <3>1 DEF Consecutive
  <2>2. ASSUME NEW i \in 1 .. Len(b)
        PROVE  b[i].n_seq = n + Len(a) + i - 1 /\ b[i].request.client = c
    <3>1. PICK j : j = Len(a) + i
      OBVIOUS
    <3>2. j \in 1 .. Len(z) /\ ~ (j <= Len(a)) /\ j - Len(a) = i
      BY <1>1, <3>1
    <3>3. z[j] = b[i]
      BY <1>1, <3>2
    <3>4. z[j].n_seq = n + j - 1 /\ z[j].request.client = c
      BY <1>2, <3>2 DEF Consecutive
    <3> QED
      BY <1>1, <3>1, <3>3, <3>4
  <2> QED
    BY <2>1, <2>2 DEF Consecutive
<1>3. ASSUME Consecutive(a, c, n), Consecutive(b, c, n + Len(a))
      PROVE  Consecutive(z, c, n)
  <2> SUFFICES ASSUME NEW i \in 1 .. Len(a) + Len(b)
               PROVE  z[i].n_seq = n + i - 1 /\ z[i].request.client = c
    BY <1>1 DEF Consecutive
  <2>1. CASE i <= Len(a)
    <3>1. i \in 1 .. Len(a) /\ z[i] = a[i]
      BY <1>1, <2>1
    <3> QED
      BY <1>3, <3>1 DEF Consecutive
  <2>2. CASE ~ (i <= Len(a))
    <3>1. i - Len(a) \in 1 .. Len(b) /\ z[i] = b[i - Len(a)]
      BY <1>1, <2>2
    <3>2. b[i - Len(a)].n_seq = n + Len(a) + (i - Len(a)) - 1 /\ b[i - Len(a)].request.client = c
      BY <1>3, <3>1 DEF Consecutive
    <3>3. n + Len(a) + (i - Len(a)) - 1 = n + i - 1
      BY <1>1
    <3> QED
      BY <3>1, <3>2, <3>3
  <2> QED
    BY <2>1, <2>2
<1> QED
  BY <1>2, <1>3 DEF z

LEMMA RequestsOfConcat ==
  ASSUME NEW a \in Seq(Sent), NEW b \in Seq(Sent)
  PROVE  /\ RequestsOf(a) \in Seq(Request) /\ Len(RequestsOf(a)) = Len(a)
         /\ \A i \in 1 .. Len(a) : RequestsOf(a)[i] = a[i].request
         /\ RequestsOf(a \o b) = RequestsOf(a) \o RequestsOf(b)
<1>1. ASSUME NEW x \in Seq(Sent)
      PROVE  /\ RequestsOf(x) \in Seq(Request) /\ Len(RequestsOf(x)) = Len(x)
             /\ \A i \in 1 .. Len(x) : RequestsOf(x)[i] = x[i].request
  <2>1. Len(x) \in Nat /\ \A i \in 1 .. Len(x) : x[i] \in Sent
    BY LenProperties, ElementOfSeq
  <2>2. \A i \in 1 .. Len(x) : x[i].request \in Request
    BY <2>1 DEF Sent
  <2> QED
    BY <2>1, <2>2 DEF RequestsOf
<1> DEFINE p == RequestsOf(a)
           q == RequestsOf(b)
           z == a \o b
           r == RequestsOf(z)
<1>2. z \in Seq(Sent) /\ Len(a) \in Nat /\ Len(b) \in Nat /\ Len(z) = Len(a) + Len(b)
      /\ \A i \in 1 .. Len(a) + Len(b) : z[i] = IF i <= Len(a) THEN a[i] ELSE b[i - Len(a)]
  BY Concat
<1>3. /\ p \in Seq(Request) /\ Len(p) = Len(a) /\ \A i \in 1 .. Len(a) : p[i] = a[i].request
      /\ q \in Seq(Request) /\ Len(q) = Len(b) /\ \A i \in 1 .. Len(b) : q[i] = b[i].request
  BY <1>1
<1>4. r \in Seq(Request) /\ Len(r) = Len(a) + Len(b)
      /\ \A i \in 1 .. Len(a) + Len(b) : r[i] = z[i].request
  BY <1>1, <1>2
<1> HIDE DEF p, q, r, z
<1>5. /\ p \o q \in Seq(Request) /\ Len(p \o q) = Len(p) + Len(q)
      /\ \A i \in 1 .. Len(p) + Len(q) : (p \o q)[i] = IF i <= Len(p) THEN p[i] ELSE q[i - Len(p)]
  BY <1>3, Concat
<1>6. ASSUME NEW i \in 1 .. Len(a) + Len(b)
      PROVE  r[i] = (p \o q)[i]
  <2>1. CASE i <= Len(a)
    BY <1>2, <1>3, <1>4, <1>5, <2>1
  <2>2. CASE ~ (i <= Len(a))
    <3>1. i - Len(a) \in 1 .. Len(b)
      BY <1>2, <2>2
    <3>2. r[i] = b[i - Len(a)].request
      BY <1>2, <1>4, <2>2
    <3>3. (p \o q)[i] = q[i - Len(a)]
      BY <1>3, <1>5, <2>2
    <3> QED
      BY <1>3, <3>1, <3>2, <3>3
  <2> QED
    BY <2>1, <2>2
<1>7. r = p \o q
  BY <1>3, <1>4, <1>5, <1>6, SeqEqual
<1> QED
  BY <1>1, <1>7 DEF p, q, r, z

(* A read: the whole messages in the buffer are accepted, and what stays   *)
(* behind goes on where they end.                                          *)
ReadIs(rx, stream, tx, k, c, n) ==
  LET buffer == rx \o Taken(stream, k)
      w == Whole(buffer)
      u == Whole(Rest(buffer) \o Left(stream, k)) \o tx
  IN /\ w \in Seq(Sent) /\ u \in Seq(Sent)
     /\ Rest(buffer) \in Seq(Part) /\ Left(stream, k) \in Seq(Part)
     /\ Whole(rx \o stream) \o tx = w \o u
     /\ Consecutive(w, c, n) /\ Consecutive(u, c, n + Len(w))
     /\ Accepted(w, c, n).n_seq = n + Len(w) /\ Accepted(w, c, n).requests = RequestsOf(w)
     /\ Len(Rest(buffer)) < 2
     /\ (Len(Rest(buffer)) + Len(Left(stream, k))) % 2 = 0
     /\ Len(Left(stream, k)) = Len(stream) - k
     /\ \A i \in 1 .. Len(stream) - k : Left(stream, k)[i] = stream[k + i]
     /\ k = 0 /\ Len(rx) < 2 => w = <<>>

LEMMA ReadAccepts ==
  ASSUME NEW rx \in Seq(Part), NEW stream \in Seq(Part), NEW tx \in Seq(Sent),
         NEW k \in 0 .. Len(stream), (Len(rx) + Len(stream)) % 2 = 0,
         NEW c, NEW n \in Nat, Consecutive(Whole(rx \o stream) \o tx, c, n)
  PROVE  ReadIs(rx, stream, tx, k, c, n)
<1> DEFINE buffer == rx \o Taken(stream, k)
           rest == Rest(buffer)
           left == Left(stream, k)
           w == Whole(buffer)
           v == Whole(rest \o left)
           all == Whole(rx \o stream)
<1>1. /\ buffer \in Seq(Part) /\ rest \in Seq(Part) /\ left \in Seq(Part)
      /\ Len(rest) < 2 /\ (Len(rest) + Len(left)) % 2 = 0
      /\ all = w \o v
      /\ Len(left) = Len(stream) - k /\ \A i \in 1 .. Len(stream) - k : left[i] = stream[k + i]
  BY StreamCut
<1>2. k = 0 /\ Len(rx) < 2 => w = <<>>
  <2> SUFFICES ASSUME k = 0, Len(rx) < 2
               PROVE  w = <<>>
    OBVIOUS
  <2>1. Taken(stream, k) = <<>>
    BY SubSeqEmpty DEF Taken
  <2>2. buffer = rx
    BY <2>1, ConcatEmptySeq
  <2>3. Len(buffer) \div 2 = 0
    BY <2>2, Concat
  <2> HIDE DEF buffer
  <2>4. w \in Seq(Sent) /\ Len(w) = 0
    BY <1>1, <2>3, WholeMessages
  <2> HIDE DEF w
  <2> QED
    BY <2>4, EmptySeq
<1> HIDE DEF buffer, rest, left
<1>3. rest \o left \in Seq(Part)
  BY <1>1, Concat
<1>4. w \in Seq(Sent) /\ v \in Seq(Sent)
  BY <1>1, <1>3, WholeMessages
<1> HIDE DEF w, v, all
<1>5. v \o tx \in Seq(Sent) /\ all \o tx = w \o (v \o tx)
  <2>1. /\ \A x, y \in Seq(Sent) : x \o y \in Seq(Sent)
        /\ \A x, y, z \in Seq(Sent) : (x \o y) \o z = x \o (y \o z)
    BY Concat
  <2> QED
    BY <1>1, <1>4, <2>1
<1>6. Consecutive(w, c, n) /\ Consecutive(v \o tx, c, n + Len(w))
  BY <1>4, <1>5, ConsecutiveConcat DEF all
<1>7. Accepted(w, c, n).n_seq = n + Len(w) /\ Accepted(w, c, n).requests = RequestsOf(w)
  BY <1>4, <1>6, AllAccepted
<1> QED
  BY <1>1, <1>2, <1>4, <1>5, <1>6, <1>7 DEF ReadIs, buffer, rest, left, w, v, all

(* A send: the messages of the buffer join the stream.                     *)
SendIs(rx, stream, tx, t) ==
  LET sent == stream \o Parts(tx, t)
  IN /\ sent \in Seq(Part)
     /\ (Len(rx) + Len(sent)) % 2 = 0
     /\ Whole(rx \o sent) = Whole(rx \o stream) \o tx
     /\ \A i \in 1 .. Len(sent) : \/ i \in 1 .. Len(stream) /\ sent[i] = stream[i]
                                  \/ i > Len(stream) /\ sent[i].t = t

LEMMA SendJoins ==
  ASSUME NEW rx \in Seq(Part), NEW stream \in Seq(Part), NEW tx \in Seq(Sent), NEW t \in Nat,
         (Len(rx) + Len(stream)) % 2 = 0
  PROVE  SendIs(rx, stream, tx, t)
<1> DEFINE s == rx \o stream
           q == Parts(tx, t)
<1>1. s \in Seq(Part) /\ Len(s) = Len(rx) + Len(stream)
  BY Concat
<1>2. /\ q \in Seq(Part) /\ Len(q) = 2 * Len(tx)
      /\ \A i \in 1 .. 2 * Len(tx) : q[i].t = t
      /\ Whole(s \o q) = Whole(s) \o tx
  <2> HIDE DEF s
  <2> QED
    BY <1>1, StreamSent
<1> HIDE DEF q
<1>3. rx \o (stream \o q) = s \o q
  <2>1. \A x, y, z \in Seq(Part) : (x \o y) \o z = x \o (y \o z)
    BY Concat
  <2> QED
    BY <1>2, <2>1
<1>4. /\ stream \o q \in Seq(Part) /\ Len(stream \o q) = Len(stream) + Len(q)
      /\ \A i \in 1 .. Len(stream) + Len(q) :
           (stream \o q)[i] = IF i <= Len(stream) THEN stream[i] ELSE q[i - Len(stream)]
      /\ Len(stream) \in Nat /\ Len(tx) \in Nat /\ Len(rx) \in Nat
  <2>1. \A x, y \in Seq(Part) :
          /\ x \o y \in Seq(Part) /\ Len(x \o y) = Len(x) + Len(y)
          /\ \A i \in 1 .. Len(x) + Len(y) :
               (x \o y)[i] = IF i <= Len(x) THEN x[i] ELSE y[i - Len(x)]
    BY Concat
  <2>2. Len(stream) \in Nat /\ Len(tx) \in Nat /\ Len(rx) \in Nat
    BY LenProperties
  <2> QED
    BY <1>2, <2>1, <2>2
<1>5. (Len(rx) + Len(stream \o q)) % 2 = 0
  <2>1. \A a, d \in Nat : a % 2 = 0 => (a + 2 * d) % 2 = 0
    OBVIOUS
  <2>2. Len(rx) + Len(stream \o q) = Len(rx) + Len(stream) + 2 * Len(tx)
    BY <1>2, <1>4
  <2>3. Len(rx) + Len(stream) \in Nat /\ Len(tx) \in Nat
    <3>1. Len(rx) \in Nat /\ Len(stream) \in Nat /\ Len(tx) \in Nat
      BY LenProperties
    <3> QED
      BY <3>1
  <2> QED
    BY <2>1, <2>2, <2>3
<1>6. ASSUME NEW i \in 1 .. Len(stream \o q)
      PROVE  \/ i \in 1 .. Len(stream) /\ (stream \o q)[i] = stream[i]
             \/ i > Len(stream) /\ (stream \o q)[i].t = t
  <2>1. CASE i <= Len(stream)
    BY <1>4, <2>1
  <2>2. CASE ~ (i <= Len(stream))
    <3>1. i - Len(stream) \in 1 .. 2 * Len(tx) /\ (stream \o q)[i] = q[i - Len(stream)]
      BY <1>2, <1>4, <2>2
    <3> QED
      BY <1>2, <1>4, <2>2, <3>1
  <2> QED
    BY <2>1, <2>2
<1>7. Whole(rx \o (stream \o q)) = Whole(s) \o tx
  BY <1>2, <1>3
<1> QED
  BY <1>4, <1>5, <1>6, <1>7 DEF SendIs, q, s

-----------------------------------------------------------------------------
(* The invariant holds at first, and every action keeps it.                *)

(* What the conjuncts about a client depend on.                            *)
UpstreamVars(c) ==
  <<server_rx[c], to_server[c], client_tx[c], rx_n_seq[c], n_loaded[c]>>

DownstreamVars(c) ==
  <<client_rx[c], to_client[c], server_tx[c], n_seq_next_expected[c], tx_n_seq[c], tx_responses[c]>>

LEMMA Frames ==
  ASSUME NEW c \in Clients
  PROVE  /\ UpstreamOK(c) /\ UNCHANGED UpstreamVars(c) => UpstreamOK(c)'
         /\ DownstreamOK(c) /\ UNCHANGED <<DownstreamVars(c), engineVars>> => DownstreamOK(c)'
         /\ TimesOK(c) /\ UNCHANGED <<to_server[c], pending_requests, now>> => TimesOK(c)'
         /\ AcceptedOK(c) /\ UNCHANGED <<rx_requests, pending_requests, rx_n_seq[c]>>
              => AcceptedOK(c)'
         /\ Counted(c) /\ UNCHANGED <<n_loaded[c], n_requested[c]>> => Counted(c)'
<1>1. UpstreamOK(c) /\ UNCHANGED UpstreamVars(c) => UpstreamOK(c)'
  <2> SUFFICES ASSUME UpstreamOK(c), UNCHANGED UpstreamVars(c)
               PROVE  UpstreamOK(c)'
    OBVIOUS
  <2>1. /\ server_rx'[c] = server_rx[c] /\ to_server'[c] = to_server[c]
        /\ rx_n_seq'[c] = rx_n_seq[c] /\ n_loaded'[c] = n_loaded[c]
        /\ Upstream(c)' = Upstream(c)
    BY DEF UpstreamVars, Upstream
  <2> QED
    BY <2>1 DEF UpstreamOK
<1>2. DownstreamOK(c) /\ UNCHANGED <<DownstreamVars(c), engineVars>> => DownstreamOK(c)'
  <2> SUFFICES ASSUME DownstreamOK(c), UNCHANGED <<DownstreamVars(c), engineVars>>
               PROVE  DownstreamOK(c)'
    OBVIOUS
  <2>1. /\ client_rx'[c] = client_rx[c] /\ to_client'[c] = to_client[c]
        /\ n_seq_next_expected'[c] = n_seq_next_expected[c] /\ tx_n_seq'[c] = tx_n_seq[c]
        /\ tx_responses'[c] = tx_responses[c] /\ rx_responses' = rx_responses
        /\ answers' = answers
        /\ OnTheWay(c)' = OnTheWay(c)
    BY DEF DownstreamVars, OnTheWay, engineVars
  <2> QED
    BY <2>1 DEF DownstreamOK
<1>3. TimesOK(c) /\ UNCHANGED <<to_server[c], pending_requests, now>> => TimesOK(c)'
  BY DEF TimesOK
<1>4. AcceptedOK(c) /\ UNCHANGED <<rx_requests, pending_requests, rx_n_seq[c]>> => AcceptedOK(c)'
  BY DEF AcceptedOK
<1>5. Counted(c) /\ UNCHANGED <<n_loaded[c], n_requested[c]>> => Counted(c)'
  BY DEF Counted
<1> QED
  BY <1>1, <1>2, <1>3, <1>4, <1>5

LEMMA Nothing ==
  /\ Whole(<<>>) = <<>> /\ RequestsOf(<<>>) = <<>> /\ RequestsIn(<<>>) = <<>>
  /\ <<>> \in Seq(Part) /\ <<>> \in Seq(Sent) /\ <<>> \in Seq(Request) /\ <<>> \in Seq(Pending)
  /\ Len(<<>>) = 0
<1>1. /\ <<>> \in Seq(Part) /\ <<>> \in Seq(Sent) /\ <<>> \in Seq(Request) /\ <<>> \in Seq(Pending)
      /\ Len(<<>>) = 0
  BY EmptySeq
<1>2. Whole(<<>>) \in Seq(Sent) /\ Len(Whole(<<>>)) = 0
  <2>1. 0 \div 2 = 0
    OBVIOUS
  <2> QED
    BY <1>1, <2>1, WholeMessages
<1>3. RequestsOf(<<>>) \in Seq(Request) /\ Len(RequestsOf(<<>>)) = 0
  BY <1>1, RequestsOfConcat
<1>4. RequestsIn(<<>>) \in Seq(Request) /\ Len(RequestsIn(<<>>)) = 0
  BY <1>1, RequestsInType
<1> QED
  BY <1>1, <1>2, <1>3, <1>4, EmptySeq

LEMMA InitIInv == Init => IInv
<1> SUFFICES ASSUME Init
             PROVE  IInv
  OBVIOUS
<1>1. TypeInv
  <2>1. <<>> \in Seq(Clients) /\ <<>> \in Seq(Part) /\ <<>> \in Seq(Sent) /\ <<>> \in Seq(Request)
        /\ <<>> \in Seq(Pending) /\ Len(<<>>) = 0
    BY EmptySeq
  <2> QED
    BY <2>1 DEF Init, TypeInv
<1>2. Sockets
  BY Nothing DEF Init, Sockets
<1>3. ClientsInTime(pending_requests)
  BY Nothing DEF Init, ClientsInTime
<1>4. /\ \A i \in 1 .. Len(rx_requests) : Accounted(rx_requests[i])
      /\ \A i \in 1 .. Len(pending_requests) : Accounted(pending_requests[i].request)
  BY Nothing DEF Init
<1>5. ASSUME NEW c \in Clients
      PROVE  Counted(c) /\ UpstreamOK(c) /\ TimesOK(c) /\ AcceptedOK(c) /\ DownstreamOK(c)
  <2>1. /\ server_rx[c] = <<>> /\ to_server[c] = <<>> /\ client_tx[c] = <<>>
        /\ client_rx[c] = <<>> /\ to_client[c] = <<>> /\ server_tx[c] = <<>>
        /\ n_loaded[c] = 0 /\ n_requested[c] = 0 /\ rx_n_seq[c] = 1 /\ tx_n_seq[c] = 1
        /\ n_seq_next_expected[c] = 1 /\ tx_responses[c] = <<>>
        /\ rx_requests = <<>> /\ rx_responses = <<>> /\ pending_requests = <<>> /\ answers = <<>>
        /\ now = 0
    BY DEF Init
  <2>2. <<>> \o <<>> = <<>>
    BY Nothing, ConcatEmptySeq
  <2>3. Upstream(c) = <<>> /\ OnTheWay(c) = <<>>
    BY <2>1, <2>2, Nothing DEF Upstream, OnTheWay
  <2>4. MaxRequests[c] \in Nat
    BY GatewayAssumption
  <2>5. Counted(c)
    BY <2>1, <2>4 DEF Counted
  <2>6. UpstreamOK(c)
    BY <2>1, <2>3, Nothing DEF UpstreamOK, Consecutive
  <2>7. TimesOK(c)
    BY <2>1, Nothing DEF TimesOK
  <2>8. AcceptedOK(c)
    <3>1. FirstRequests(c, 0) = <<>>
      <4>1. 1 .. 0 = {}
        OBVIOUS
      <4>2. FirstRequests(c, 0) = [i \in {} |-> [client |-> c, n |-> i]]
        BY <4>1 DEF FirstRequests
      <4>3. FirstRequests(c, 0) \in Seq(Request) /\ Len(FirstRequests(c, 0)) = 0
        BY <4>1 DEF FirstRequests
      <4> QED
        BY <4>3, EmptySeq
    <3>2. rx_n_seq[c] - 1 = 0
      BY <2>1
    <3> QED
      BY <2>1, <2>2, <3>1, <3>2, Nothing, OfClientEmpty DEF AcceptedOK
  <2>9. DownstreamOK(c)
    <3>1. Len(client_rx[c]) < 2 /\ (Len(client_rx[c]) + Len(to_client[c])) % 2 = 0
          /\ tx_n_seq[c] = n_seq_next_expected[c] + Len(OnTheWay(c))
          /\ Consecutive(OnTheWay(c), c, n_seq_next_expected[c])
      BY <2>1, <2>3, Nothing DEF Consecutive
    <3> QED
      BY <2>1, <2>2, <2>3, <3>1, Nothing, OfClientEmpty DEF DownstreamOK
  <2> QED
    BY <2>5, <2>6, <2>7, <2>8, <2>9
<1> QED
  BY <1>1, <1>2, <1>3, <1>4, <1>5 DEF IInv

LEMMA SendRequestStep ==
  ASSUME IInv, NEW c \in Clients, SendRequest(c)
  PROVE  IInv'
<1>1. TypeInv'
  <2>1. n_requested' \in [Clients -> Nat]
    BY SMTT(30) DEF IInv, TypeInv, SendRequest
  <2> QED
    BY <2>1 DEF IInv, TypeInv, SendRequest, socketVars, gatewayVars, engineVars
<1>2. Sockets'
  BY DEF IInv, Sockets, SendRequest, socketVars
<1>3. /\ ClientsInTime(pending_requests)'
      /\ (\A i \in 1 .. Len(rx_requests) : Accounted(rx_requests[i]))'
      /\ (\A i \in 1 .. Len(pending_requests) : Accounted(pending_requests[i].request))'
  BY DEF IInv, ClientsInTime, Accounted, SendRequest, gatewayVars, engineVars
<1>4. ASSUME NEW d \in Clients
      PROVE  (Counted(d) /\ UpstreamOK(d) /\ TimesOK(d) /\ AcceptedOK(d) /\ DownstreamOK(d))'
  <2>1. Counted(d)'
    <3>1. n_loaded[d] \in Nat /\ n_requested[d] \in Nat /\ MaxRequests[d] \in Nat
      BY GatewayAssumption DEF IInv, TypeInv
    <3>2. n_requested'[d] = IF d = c THEN n_requested[d] + 1 ELSE n_requested[d]
      BY DEF SendRequest, IInv, TypeInv
    <3> QED
      BY <3>1, <3>2 DEF IInv, Counted, SendRequest
  <2>2. UNCHANGED <<UpstreamVars(d), DownstreamVars(d), engineVars, to_server[d],
                    pending_requests, now, rx_requests, rx_n_seq[d]>>
    BY DEF SendRequest, UpstreamVars, DownstreamVars, socketVars, gatewayVars, engineVars
  <2> QED
    BY <2>1, <2>2, Frames DEF IInv
<1> QED
  BY <1>1, <1>2, <1>3, <1>4 DEF IInv

LEMMA Typed ==
  ASSUME TypeInv, NEW c \in Clients
  PROVE  /\ server_rx[c] \in Seq(Part) /\ to_server[c] \in Seq(Part)
         /\ client_rx[c] \in Seq(Part) /\ to_client[c] \in Seq(Part)
         /\ client_tx[c] \in Seq(Sent) /\ server_tx[c] \in Seq(Sent)
         /\ tx_responses[c] \in Seq(Request)
         /\ Whole(server_rx[c] \o to_server[c]) \in Seq(Sent) /\ Upstream(c) \in Seq(Sent)
         /\ Whole(client_rx[c] \o to_client[c]) \in Seq(Sent) /\ OnTheWay(c) \in Seq(Sent)
         /\ n_loaded[c] \in Nat /\ n_requested[c] \in Nat
         /\ rx_n_seq[c] \in Nat \ {0} /\ tx_n_seq[c] \in Nat /\ n_seq_next_expected[c] \in Nat
<1>1. /\ server_rx[c] \in Seq(Part) /\ to_server[c] \in Seq(Part)
      /\ client_rx[c] \in Seq(Part) /\ to_client[c] \in Seq(Part)
      /\ client_tx[c] \in Seq(Sent) /\ server_tx[c] \in Seq(Sent)
      /\ tx_responses[c] \in Seq(Request)
      /\ n_loaded[c] \in Nat /\ n_requested[c] \in Nat
      /\ rx_n_seq[c] \in Nat \ {0} /\ tx_n_seq[c] \in Nat /\ n_seq_next_expected[c] \in Nat
  BY DEF TypeInv
<1>2. \A x, y \in Seq(Part) : x \o y \in Seq(Part)
  BY Concat
<1>3. \A x, y \in Seq(Sent) : x \o y \in Seq(Sent)
  BY Concat
<1>4. \A x \in Seq(Part) : Whole(x) \in Seq(Sent)
  BY WholeMessages
<1> QED
  BY <1>1, <1>2, <1>3, <1>4 DEF Upstream, OnTheWay

LEMMA OfClientMembers ==
  ASSUME NEW S, NEW s \in Seq(S), NEW c
  PROVE  \A i \in 1 .. Len(OfClient(s, c)) : OfClient(s, c)[i].client = c
<1>1. Len(s) \in Nat /\ \A n \in 1 .. Len(s) : s[n] \in S
  BY LenProperties, ElementOfSeq
<1>2. PICK f \in [0 .. Len(s) -> Seq(S)] : Picks(f, s, c, Len(s))
  BY PicksExist
<1>3. OfClient(s, c) = f[Len(s)]
  BY <1>1, <1>2, OfClientIs
<1> DEFINE P == {k \in Nat : k <= Len(s) => \A i \in 1 .. Len(f[k]) : f[k][i].client = c}
<1>4. 0 \in P
  <2>1. f[0] = <<>> /\ Len(<<>>) = 0
    BY <1>2, EmptySeq DEF Picks
  <2> QED
    BY <2>1
<1>5. ASSUME NEW k \in P
      PROVE  k + 1 \in P
  <2> SUFFICES ASSUME k + 1 <= Len(s), NEW i \in 1 .. Len(f[k + 1])
               PROVE  f[k + 1][i].client = c
    OBVIOUS
  <2>1. k + 1 \in 1 .. Len(s) /\ k \in 0 .. Len(s) /\ k + 1 - 1 = k
    BY <1>1
  <2>2. f[k + 1] = IF s[k + 1].client = c THEN Append(f[k], s[k + 1]) ELSE f[k]
    BY <1>2, <2>1 DEF Picks
  <2>3. f[k] \in Seq(S) /\ s[k + 1] \in S
    BY <1>1, <2>1
  <2>4. \A j \in 1 .. Len(f[k]) : f[k][j].client = c
    BY <1>1, <2>1
  <2> DEFINE e == f[k]
             x == s[k + 1]
  <2>5. /\ Len(Append(e, x)) = Len(e) + 1 /\ Len(e) \in Nat
        /\ \A j \in 1 .. Len(e) : Append(e, x)[j] = e[j]
        /\ Append(e, x)[Len(e) + 1] = x
    <3> HIDE DEF e, x
    <3>1. e \in Seq(S) /\ x \in S
      BY <2>3 DEF e, x
    <3> QED
      BY <3>1, AppendProperties, LenProperties
  <2>6. CASE x.client = c
    <3>1. f[k + 1] = Append(e, x)
      BY <2>2, <2>6
    <3>2. i \in 1 .. Len(e) + 1
      BY <2>5, <3>1
    <3>3. i \in 1 .. Len(e) \/ i = Len(e) + 1
      BY <2>5, <3>2
    <3> HIDE DEF e
    <3>4. \A j \in 1 .. Len(e) : e[j].client = c
      BY <2>4 DEF e
    <3> QED
      BY <2>5, <2>6, <3>1, <3>3, <3>4
  <2>7. CASE x.client # c
    BY <2>2, <2>4, <2>7
  <2> QED
    BY <2>6, <2>7
<1>6. P \in SUBSET Nat
  OBVIOUS
<1> HIDE DEF P
<1>7. P = Nat
  BY <1>4, <1>5, <1>6, Induction
<1> QED
  BY <1>1, <1>3, <1>7 DEF P

LEMMA NumberedIs ==
  ASSUME TypeInv, NEW c \in Clients
  PROVE  /\ ResponsesFor(c) \in Seq(Request)
         /\ Numbered(c) \in Seq(Sent) /\ Len(Numbered(c)) = Len(ResponsesFor(c))
         /\ Consecutive(Numbered(c), c, tx_n_seq[c])
         /\ RequestsOf(Numbered(c)) = ResponsesFor(c)
<1> DEFINE r == ResponsesFor(c)
           m == Numbered(c)
<1>1. r \in Seq(Request)
  BY OfClientType DEF TypeInv, ResponsesFor
<1>2. \A i \in 1 .. Len(r) : r[i].client = c
  BY OfClientMembers DEF TypeInv, ResponsesFor
<1>3. m = [i \in DOMAIN r |-> [n_seq |-> tx_n_seq[c] + i - 1, request |-> r[i]]]
  BY DEF Numbered, Message
<1> HIDE DEF r, m
<1>4. Len(r) \in Nat /\ DOMAIN r = 1 .. Len(r) /\ \A i \in 1 .. Len(r) : r[i] \in Request
  BY <1>1, LenProperties, ElementOfSeq
<1>5. tx_n_seq[c] \in Nat
  BY DEF TypeInv
<1>6. m \in Seq(Sent)
  <2>1. \A i \in 1 .. Len(r) : tx_n_seq[c] + i - 1 \in Nat
    BY <1>4, <1>5
  <2>2. m \in [1 .. Len(r) -> Sent]
    BY <1>3, <1>4, <2>1 DEF Sent
  <2> QED
    BY <1>4, <2>2, SeqDef
<1>7. Len(m) = Len(r)
  <2>1. DOMAIN m = 1 .. Len(m) /\ Len(m) \in Nat
    BY <1>6, LenProperties
  <2>2. DOMAIN m = 1 .. Len(r)
    BY <1>3, <1>4
  <2>3. \A a, b \in Nat : 1 .. a = 1 .. b => a = b
    <3> SUFFICES ASSUME NEW a \in Nat, NEW b \in Nat, 1 .. a = 1 .. b
                 PROVE  a = b
      OBVIOUS
    <3>1. a > 0 => a \in 1 .. b
      OBVIOUS
    <3>2. b > 0 => b \in 1 .. a
      OBVIOUS
    <3> QED
      BY <3>1, <3>2
  <2> QED
    BY <1>4, <2>1, <2>2, <2>3
<1>8. \A i \in 1 .. Len(r) : m[i].n_seq = tx_n_seq[c] + i - 1 /\ m[i].request = r[i]
  BY <1>3, <1>4
<1>9. Consecutive(m, c, tx_n_seq[c])
  BY <1>2, <1>7, <1>8 DEF Consecutive, r
<1>10. RequestsOf(m) = r
  <2>1. /\ RequestsOf(m) \in Seq(Request) /\ Len(RequestsOf(m)) = Len(m)
        /\ \A i \in 1 .. Len(m) : RequestsOf(m)[i] = m[i].request
    BY <1>6, RequestsOfConcat
  <2> QED
    BY <1>1, <1>7, <1>8, <2>1, SeqEqual
<1> QED
  BY <1>1, <1>6, <1>7, <1>9, <1>10 DEF r, m

LEMMA LoadResponsesStep ==
  ASSUME IInv, LoadResponses
  PROVE  IInv'
<1>1. ASSUME NEW c \in Clients
      PROVE  /\ server_tx'[c] = server_tx[c] \o Numbered(c) /\ server_tx'[c] \in Seq(Sent)
             /\ tx_n_seq'[c] = tx_n_seq[c] + Len(ResponsesFor(c)) /\ tx_n_seq'[c] \in Nat
  <2>1. Numbered(c) \in Seq(Sent) /\ server_tx[c] \in Seq(Sent) /\ tx_n_seq[c] \in Nat
        /\ ResponsesFor(c) \in Seq(Request)
    BY NumberedIs, Typed DEF IInv
  <2>2. server_tx[c] \o Numbered(c) \in Seq(Sent)
    BY <2>1, ConcatProperties
  <2>3. Len(ResponsesFor(c)) \in Nat
    BY <2>1, LenProperties
  <2>4. server_tx'[c] = server_tx[c] \o Numbered(c)
        /\ tx_n_seq'[c] = tx_n_seq[c] + Len(ResponsesFor(c))
    BY DEF LoadResponses
  <2> QED
    BY <2>1, <2>2, <2>3, <2>4
<1>2. TypeInv'
  <2>1. server_tx' \in [Clients -> Seq(Sent)] /\ tx_n_seq' \in [Clients -> Nat]
    BY <1>1 DEF LoadResponses
  <2>2. rx_responses' \in Seq(Request) /\ <<>> \in Seq(Clients)
    BY EmptySeq DEF LoadResponses
  <2>3. loop' \in [at : {"poll", "rx", "tx"}, left : Seq(Clients), receiving : BOOLEAN]
    BY <2>2 DEF LoadResponses
  <2> QED
    BY <2>1, <2>2, <2>3 DEF IInv, TypeInv, LoadResponses, clientVars, socketVars
<1>3. Sockets'
  BY DEF IInv, Sockets, LoadResponses, socketVars
<1>4. /\ ClientsInTime(pending_requests)'
      /\ (\A i \in 1 .. Len(rx_requests) : Accounted(rx_requests[i]))'
      /\ (\A i \in 1 .. Len(pending_requests) : Accounted(pending_requests[i].request))'
  BY DEF IInv, ClientsInTime, Accounted, LoadResponses
<1>5. ASSUME NEW c \in Clients
      PROVE  (Counted(c) /\ UpstreamOK(c) /\ TimesOK(c) /\ AcceptedOK(c) /\ DownstreamOK(c))'
  <2>1. UNCHANGED <<UpstreamVars(c), to_server[c], pending_requests, now, rx_requests, rx_n_seq[c],
                    n_loaded[c], n_requested[c]>>
    BY DEF LoadResponses, UpstreamVars, clientVars, socketVars
  <2>2. (Counted(c) /\ UpstreamOK(c) /\ TimesOK(c) /\ AcceptedOK(c))'
    BY <2>1, Frames DEF IInv
  <2> DEFINE coming == Whole(client_rx[c] \o to_client[c])
             way == OnTheWay(c)
             loaded == Numbered(c)
             r == ResponsesFor(c)
             n == n_seq_next_expected[c]
             t == tx_responses[c]
  <2>3. /\ coming \in Seq(Sent) /\ server_tx[c] \in Seq(Sent) /\ way \in Seq(Sent)
        /\ way = coming \o server_tx[c]
        /\ n \in Nat /\ t \in Seq(Request) /\ tx_n_seq[c] \in Nat
    BY Typed DEF IInv, OnTheWay
  <2>4. /\ r \in Seq(Request) /\ loaded \in Seq(Sent) /\ Len(loaded) = Len(r)
        /\ Consecutive(loaded, c, tx_n_seq[c]) /\ RequestsOf(loaded) = r
    BY NumberedIs DEF IInv
  <2>5. OnTheWay(c)' = way \o loaded
    <3>1. OnTheWay(c)' = coming \o (server_tx[c] \o loaded)
      BY <1>1 DEF OnTheWay, LoadResponses, clientVars
    <3> HIDE DEF coming, way, loaded
    <3>2. \A x, y, z \in Seq(Sent) : (x \o y) \o z = x \o (y \o z)
      BY Concat
    <3> QED
      BY <2>3, <2>4, <3>1, <3>2
  <2>6. Consecutive(way, c, n) /\ tx_n_seq[c] = n + Len(way)
        /\ (t \o RequestsOf(way)) \o r = OfClient(answers, c)
        /\ Len(client_rx[c]) < 2 /\ (Len(client_rx[c]) + Len(to_client[c])) % 2 = 0
    BY DEF IInv, DownstreamOK, ResponsesFor
  <2>7. /\ client_rx'[c] = client_rx[c] /\ to_client'[c] = to_client[c]
        /\ n_seq_next_expected'[c] = n /\ tx_responses'[c] = t /\ rx_responses' = <<>>
        /\ answers' = answers
        /\ tx_n_seq'[c] = tx_n_seq[c] + Len(r)
    BY <1>1 DEF LoadResponses, clientVars
  <2> HIDE DEF way, loaded, r, n, t
  <2>8. Consecutive(way \o loaded, c, n)
    <3>1. Consecutive(way \o loaded, c, n)
            <=> Consecutive(way, c, n) /\ Consecutive(loaded, c, n + Len(way))
      BY <2>3, <2>4, ConsecutiveConcat
    <3>2. Consecutive(loaded, c, n + Len(way))
      BY <2>4, <2>6
    <3> QED
      BY <2>6, <3>1, <3>2
  <2>9. tx_n_seq'[c] = n + Len(way \o loaded)
    <3>1. Len(way \o loaded) = Len(way) + Len(loaded)
      BY <2>3, <2>4, ConcatProperties
    <3>2. Len(way) \in Nat /\ Len(loaded) \in Nat
      BY <2>3, <2>4, LenProperties
    <3>3. tx_n_seq'[c] = (n + Len(way)) + Len(loaded)
      BY <2>4, <2>6, <2>7
    <3>4. n \in Nat
      BY <2>3
    <3>5. \A i, j, k \in Nat : (i + j) + k = i + (j + k)
      OBVIOUS
    <3> QED
      BY <3>1, <3>2, <3>3, <3>4, <3>5
  <2>10. (t \o RequestsOf(way \o loaded)) \o OfClient(<<>>, c) = (t \o RequestsOf(way)) \o r
    <3>1. RequestsOf(way \o loaded) = RequestsOf(way) \o r /\ RequestsOf(way) \in Seq(Request)
      BY <2>3, <2>4, RequestsOfConcat
    <3> DEFINE q == RequestsOf(way)
    <3>2. q \in Seq(Request)
      BY <3>1
    <3> HIDE DEF q
    <3>3. \A x, y, z \in Seq(Request) :
            (x \o y) \o z = x \o (y \o z) /\ x \o y \in Seq(Request) /\ x \o <<>> = x
      BY Concat
    <3>4. (t \o (q \o r)) \o <<>> = (t \o q) \o r
      <4>0. t \in Seq(Request) /\ r \in Seq(Request)
        BY <2>3, <2>4
      <4>1. q \o r \in Seq(Request) /\ t \o (q \o r) = (t \o q) \o r
        BY <3>2, <3>3, <4>0
      <4>2. t \o (q \o r) \in Seq(Request)
        BY <3>3, <4>0, <4>1
      <4> QED
        BY <3>3, <4>1, <4>2
    <3> QED
      BY <3>1, <3>4, OfClientEmpty DEF q
  <2>11. DownstreamOK(c)'
    <3>1. Len(client_rx'[c]) < 2 /\ (Len(client_rx'[c]) + Len(to_client'[c])) % 2 = 0
      BY <2>6, <2>7
    <3> QED
      BY <2>5, <2>6, <2>7, <2>8, <2>9, <2>10, <3>1 DEF DownstreamOK
  <2> QED
    BY <2>2, <2>11
<1> QED
  BY <1>2, <1>3, <1>4, <1>5 DEF IInv

(* Each answer goes to those who have made a request.                      *)
LEMMA AnswersType ==
  ASSUME NEW r \in Request, NEW before \in Seq(Request), NEW sent \in Answers(r, ToSet(before))
  PROVE  sent \in Seq(Request)
<1>1. \A x \in ToSet(before) : x \in Request
  <2>1. DOMAIN before = 1 .. Len(before) /\ \A i \in 1 .. Len(before) : before[i] \in Request
    BY LenProperties, ElementOfSeq
  <2> QED
    BY <2>1 DEF ToSet
<1>2. <<r>> \in Seq(Request)
  OBVIOUS
<1>3. \A x \in Request : <<r, r, x>> \in Seq(Request)
  OBVIOUS
<1> QED
  BY <1>1, <1>2, <1>3 DEF Answers

LEMMA ProcessStep ==
  ASSUME IInv, Process
  PROVE  IInv'
<1> DEFINE r == rx_requests[n_processed + 1]
           before == SubSeq(rx_requests, 1, n_processed)
<1>1. /\ rx_requests \in Seq(Request) /\ rx_responses \in Seq(Request) /\ answers \in Seq(Request)
      /\ n_processed \in 0 .. Len(rx_requests) /\ Len(rx_requests) \in Nat
  BY LenProperties DEF IInv, TypeInv
<1>2. n_processed \in Nat /\ n_processed + 1 \in 1 .. Len(rx_requests)
  BY <1>1 DEF Process
<1>3. r \in Request
  BY <1>1, <1>2, ElementOfSeq
<1>4. before \in Seq(Request)
  <2>1. \A i \in 1 .. n_processed : rx_requests[i] \in Request
    BY <1>1, <1>2, ElementOfSeq
  <2> QED
    BY <1>2, <2>1, SubSeqProperties
<1>5. PICK sent \in Answers(r, ToSet(before)) :
        answers' = answers \o sent /\ rx_responses' = rx_responses \o sent
  BY DEF Process
<1> HIDE DEF r, before
<1>6. sent \in Seq(Request)
  BY <1>3, <1>4, AnswersType
<1>7. TypeInv'
  <2>1. rx_responses' \in Seq(Request) /\ answers' \in Seq(Request)
    BY <1>1, <1>5, <1>6, ConcatProperties
  <2>2. n_processed' \in 0 .. Len(rx_requests) /\ rx_requests' = rx_requests
    BY <1>1, <1>2 DEF Process
  <2> QED
    BY <2>1, <2>2 DEF IInv, TypeInv, Process, clientVars, socketVars, gatewayVars
<1>8. Sockets'
  BY DEF IInv, Sockets, Process, socketVars
<1>9. /\ ClientsInTime(pending_requests)'
      /\ (\A i \in 1 .. Len(rx_requests) : Accounted(rx_requests[i]))'
      /\ (\A i \in 1 .. Len(pending_requests) : Accounted(pending_requests[i].request))'
  BY DEF IInv, ClientsInTime, Accounted, Process, gatewayVars
<1>10. ASSUME NEW c \in Clients
       PROVE  (Counted(c) /\ UpstreamOK(c) /\ TimesOK(c) /\ AcceptedOK(c) /\ DownstreamOK(c))'
  <2>1. UNCHANGED <<UpstreamVars(c), to_server[c], pending_requests, now, rx_requests, rx_n_seq[c],
                    n_loaded[c], n_requested[c]>>
    BY DEF Process, UpstreamVars, clientVars, socketVars, gatewayVars
  <2>2. (Counted(c) /\ UpstreamOK(c) /\ TimesOK(c) /\ AcceptedOK(c))'
    BY <2>1, Frames DEF IInv
  <2>3. /\ client_rx'[c] = client_rx[c] /\ to_client'[c] = to_client[c]
        /\ n_seq_next_expected'[c] = n_seq_next_expected[c] /\ tx_n_seq'[c] = tx_n_seq[c]
        /\ tx_responses'[c] = tx_responses[c] /\ OnTheWay(c)' = OnTheWay(c)
    BY DEF Process, OnTheWay, clientVars, gatewayVars
  <2> DEFINE got == tx_responses[c] \o RequestsOf(OnTheWay(c))
             waiting == OfClient(rx_responses, c)
             answered == OfClient(answers, c)
             more == OfClient(sent, c)
  <2>4. /\ got \in Seq(Request) /\ waiting \in Seq(Request)
        /\ answered \in Seq(Request) /\ more \in Seq(Request)
    <3>1. RequestsOf(OnTheWay(c)) \in Seq(Request) /\ tx_responses[c] \in Seq(Request)
      BY Typed, RequestsOfConcat DEF IInv
    <3> QED
      BY <1>1, <1>6, <3>1, ConcatProperties, OfClientType
  <2>5. got \o waiting = answered
    BY DEF IInv, DownstreamOK
  <2>6. OfClient(rx_responses', c) = waiting \o more /\ OfClient(answers', c) = answered \o more
    <3>1. /\ OfClient(rx_responses \o sent, c) = waiting \o more
          /\ OfClient(answers \o sent, c) = answered \o more
      <4>1. \A x, y \in Seq(Request) : OfClient(x \o y, c) = OfClient(x, c) \o OfClient(y, c)
        BY OfClientConcat
      <4> QED
        BY <1>1, <1>6, <4>1
    <3>2. rx_responses' = rx_responses \o sent /\ answers' = answers \o sent
      BY <1>5
    <3> HIDE DEF waiting, answered, more
    <3> QED
      BY <3>1, <3>2
  <2>7. got \o (waiting \o more) = answered \o more
    <3> HIDE DEF got, waiting, answered, more
    <3>1. (got \o waiting) \o more = got \o (waiting \o more)
      BY <2>4, ConcatAssociative
    <3> QED
      BY <2>5, <3>1
  <2>8. DownstreamOK(c)'
    <3>1. (tx_responses'[c] \o RequestsOf(OnTheWay(c)')) \o OfClient(rx_responses', c)
            = OfClient(answers', c)
      BY <2>3, <2>6, <2>7
    <3> QED
      BY <2>3, <3>1 DEF IInv, DownstreamOK
  <2> QED
    BY <2>2, <2>8
<1> QED
  BY <1>7, <1>8, <1>9, <1>10 DEF IInv

LEMMA ConnectingIs ==
  ASSUME NEW new \in Connecting
  PROVE  new \in Seq(Clients) /\ \A i, j \in 1 .. Len(new) : new[i] = new[j] => i = j
<1>1. Cardinality(Clients) \in Nat
  BY GatewayAssumption, FS_CardinalityType
<1>2. PICK m \in 0 .. Cardinality(Clients) : new \in [1 .. m -> Clients]
  BY DEF Connecting, SeqOf
<1>3. new \in Seq(Clients)
  <2>1. m \in Nat
    BY <1>1, <1>2
  <2> QED
    BY <1>2, <2>1, SeqDef
<1>4. DOMAIN new = 1 .. Len(new)
  BY <1>3, LenProperties
<1> QED
  BY <1>3, <1>4 DEF Connecting, IsInjective

LEMMA PollStep ==
  ASSUME IInv, NEW new \in Connecting, Poll(new)
  PROVE  IInv'
<1>1. /\ rx_sockets \in Seq(Clients) /\ new \in Seq(Clients)
      /\ \A i, j \in 1 .. Len(new) : new[i] = new[j] => i = j
      /\ \A i, j \in 1 .. Len(rx_sockets) : rx_sockets[i] = rx_sockets[j] => i = j
  BY ConnectingIs DEF IInv, TypeInv, Sockets
<1>2. rx_sockets' = rx_sockets \o new /\ tx_sockets' = rx_sockets
  BY DEF Poll
<1>3. /\ rx_sockets' \in Seq(Clients) /\ Len(rx_sockets') = Len(rx_sockets) + Len(new)
      /\ \A i \in 1 .. Len(rx_sockets) + Len(new) :
           rx_sockets'[i] = IF i <= Len(rx_sockets) THEN rx_sockets[i] ELSE new[i - Len(rx_sockets)]
      /\ Len(rx_sockets) \in Nat /\ Len(new) \in Nat
  BY <1>1, <1>2, ConcatProperties, LenProperties
<1>4. TypeInv'
  <2>1. loop' \in [at : {"poll", "rx", "tx"}, left : Seq(Clients), receiving : BOOLEAN]
    BY <1>3 DEF Poll
  <2> QED
    BY <1>1, <1>2, <1>3, <2>1 DEF IInv, TypeInv, Poll, clientVars, engineVars
<1>5. Sockets'
  <2>1. \A i \in 1 .. Len(rx_sockets), j \in 1 .. Len(new) : rx_sockets[i] # new[j]
    <3>1. DOMAIN rx_sockets = 1 .. Len(rx_sockets) /\ DOMAIN new = 1 .. Len(new)
      BY <1>1, LenProperties
    <3> QED
      BY <3>1 DEF Poll, ToSet
  <2>2. ASSUME NEW i \in 1 .. Len(rx_sockets'), NEW j \in 1 .. Len(rx_sockets'),
               rx_sockets'[i] = rx_sockets'[j]
        PROVE  i = j
    <3>1. i \in 1 .. Len(rx_sockets) + Len(new) /\ j \in 1 .. Len(rx_sockets) + Len(new)
      BY <1>3
    <3>2. CASE i <= Len(rx_sockets) /\ j <= Len(rx_sockets)
      <4>1. i \in 1 .. Len(rx_sockets) /\ j \in 1 .. Len(rx_sockets)
        BY <1>3, <3>1, <3>2
      <4>2. rx_sockets[i] = rx_sockets[j]
        BY <1>3, <2>2, <3>1, <3>2
      <4> QED
        BY <1>1, <4>1, <4>2
    <3>3. CASE i <= Len(rx_sockets) /\ j > Len(rx_sockets)
      <4>1. i \in 1 .. Len(rx_sockets) /\ j - Len(rx_sockets) \in 1 .. Len(new)
        BY <1>3, <3>1, <3>3
      <4>2. rx_sockets[i] = new[j - Len(rx_sockets)]
        BY <1>3, <2>2, <3>1, <3>3
      <4> QED
        BY <2>1, <4>1, <4>2
    <3>4. CASE i > Len(rx_sockets) /\ j <= Len(rx_sockets)
      <4>1. j \in 1 .. Len(rx_sockets) /\ i - Len(rx_sockets) \in 1 .. Len(new)
        BY <1>3, <3>1, <3>4
      <4>2. rx_sockets[j] = new[i - Len(rx_sockets)]
        BY <1>3, <2>2, <3>1, <3>4
      <4> QED
        BY <2>1, <4>1, <4>2
    <3>5. CASE i > Len(rx_sockets) /\ j > Len(rx_sockets)
      <4>1. i - Len(rx_sockets) \in 1 .. Len(new) /\ j - Len(rx_sockets) \in 1 .. Len(new)
        BY <1>3, <3>1, <3>5
      <4>2. new[i - Len(rx_sockets)] = new[j - Len(rx_sockets)]
        BY <1>3, <2>2, <3>1, <3>5
      <4>3. i - Len(rx_sockets) = j - Len(rx_sockets)
        BY <1>1, <4>1, <4>2
      <4> QED
        BY <1>3, <3>1, <4>3
    <3> QED
      BY <1>3, <3>1, <3>2, <3>3, <3>4, <3>5
  <2>3. ASSUME NEW i \in 1 .. Len(tx_sockets')
        PROVE  \E j \in 1 .. Len(rx_sockets') : tx_sockets'[i] = rx_sockets'[j]
    <3>1. i \in 1 .. Len(rx_sockets')
      BY <1>2, <1>3
    <3>2. tx_sockets'[i] = rx_sockets'[i]
      BY <1>2, <1>3
    <3> QED
      BY <3>1, <3>2
  <2> QED
    BY <2>2, <2>3 DEF Sockets
<1>6. /\ ClientsInTime(pending_requests)'
      /\ (\A i \in 1 .. Len(rx_requests) : Accounted(rx_requests[i]))'
      /\ (\A i \in 1 .. Len(pending_requests) : Accounted(pending_requests[i].request))'
  BY DEF IInv, ClientsInTime, Accounted, Poll, engineVars
<1>7. ASSUME NEW c \in Clients
      PROVE  (Counted(c) /\ UpstreamOK(c) /\ TimesOK(c) /\ AcceptedOK(c) /\ DownstreamOK(c))'
  <2>1. UNCHANGED <<UpstreamVars(c), DownstreamVars(c), engineVars, to_server[c], pending_requests,
                    now, rx_requests, rx_n_seq[c], n_loaded[c], n_requested[c]>>
    BY DEF Poll, UpstreamVars, DownstreamVars, clientVars, engineVars
  <2> QED
    BY <2>1, Frames DEF IInv
<1> QED
  BY <1>4, <1>5, <1>6, <1>7 DEF IInv

LEMMA RxDoneStep ==
  ASSUME IInv, FewPending, RxDone
  PROVE  IInv'
<1>1. /\ rx_requests \in Seq(Request) /\ pending_requests \in Seq(Pending)
      /\ n_processed \in 0 .. Len(rx_requests) /\ Len(rx_requests) \in Nat
      /\ tx_sockets \in Seq(Clients)
  BY LenProperties DEF IInv, TypeInv
<1> DEFINE s == IF loop.receiving THEN InOrder ELSE <<>>
           before == RequestsIn(pending_requests)
<1>2. /\ Sequenced = {InOrder} /\ InOrder \in Seq(Request)
      /\ \A i \in 1 .. Len(InOrder) : \E j \in 1 .. Len(pending_requests) :
           InOrder[i] = pending_requests[j].request
      /\ \A c \in Clients : OfClient(InOrder, c) = OfClient(before, c)
  BY SequencedIs DEF IInv, TypeInv
<1>3. /\ s \in Seq(Request)
      /\ \A i \in 1 .. Len(s) : \E j \in 1 .. Len(pending_requests) :
           s[i] = pending_requests[j].request
  BY <1>2, Nothing
<1>4. rx_requests' = rx_requests \o s /\ pending_requests' \in {pending_requests, <<>>}
      /\ (pending_requests' = pending_requests => s = <<>> \/ pending_requests = <<>>)
      /\ (~ loop.receiving => pending_requests' = pending_requests)
  <2>1. rx_requests \o <<>> = rx_requests
    BY <1>1, ConcatEmptySeq
  <2>2. CASE loop.receiving
    BY <1>2, <2>2 DEF RxDone
  <2>3. CASE ~ loop.receiving
    BY <2>1, <2>3 DEF RxDone
  <2> QED
    BY <2>2, <2>3
<1>5. ASSUME NEW c \in Clients
      PROVE  OfClient(s, c) \o OfClient(RequestsIn(pending_requests'), c) = OfClient(before, c)
  <2>1. OfClient(before, c) \in Seq(Request)
    BY <1>1, RequestsInType, OfClientType
  <2>2. OfClient(<<>>, c) = <<>> /\ RequestsIn(<<>>) = <<>>
    BY OfClientEmpty, Nothing
  <2>3. CASE loop.receiving
    <3>1. s = InOrder /\ pending_requests' = <<>>
      BY <2>3 DEF RxDone
    <3> HIDE DEF s, before
    <3> QED
      BY <1>2, <2>1, <2>2, <3>1, ConcatEmptySeq
  <2>4. CASE ~ loop.receiving
    <3>1. s = <<>> /\ pending_requests' = pending_requests
      BY <2>4 DEF RxDone
    <3>2. RequestsIn(pending_requests') = before
      BY <3>1
    <3> HIDE DEF s, before
    <3> QED
      BY <2>1, <2>2, <3>1, <3>2, ConcatEmptySeq
  <2> QED
    BY <2>3, <2>4
<1> HIDE DEF s, before
<1>6. /\ rx_requests' \in Seq(Request) /\ Len(rx_requests') = Len(rx_requests) + Len(s)
      /\ \A i \in 1 .. Len(rx_requests) + Len(s) :
           rx_requests'[i] = IF i <= Len(rx_requests) THEN rx_requests[i]
                             ELSE s[i - Len(rx_requests)]
      /\ Len(s) \in Nat
  BY <1>1, <1>3, <1>4, ConcatProperties, LenProperties
<1>7. /\ pending_requests' \in Seq(Pending) /\ Len(pending_requests') \in Nat
      /\ Len(pending_requests') <= Len(pending_requests)
      /\ \A i \in 1 .. Len(pending_requests') : pending_requests'[i] = pending_requests[i]
  <2>1. Len(<<>>) = 0 /\ <<>> \in Seq(Pending) /\ Len(pending_requests) \in Nat
    BY <1>1, EmptySeq, LenProperties
  <2>2. CASE pending_requests' = pending_requests
    BY <1>1, <2>1, <2>2
  <2>3. CASE pending_requests' = <<>>
    BY <2>1, <2>3
  <2> QED
    BY <1>4, <2>2, <2>3
<1>8. TypeInv'
  <2>1. loop' \in [at : {"poll", "rx", "tx"}, left : Seq(Clients), receiving : BOOLEAN]
    BY <1>1 DEF RxDone
  <2>2. n_processed' \in 0 .. Len(rx_requests')
    BY <1>1, <1>6 DEF RxDone
  <2> QED
    BY <1>6, <1>7, <2>1, <2>2 DEF IInv, TypeInv, RxDone, clientVars, socketVars
<1>9. Sockets'
  BY DEF IInv, Sockets, RxDone, socketVars
<1>10. ClientsInTime(pending_requests)'
  <2>1. ClientsInTime(pending_requests) /\ Len(pending_requests) \in Nat
    BY <1>1, LenProperties DEF IInv
  <2> QED
    BY <1>7, <2>1 DEF ClientsInTime
<1>11. \A i \in 1 .. Len(pending_requests) : Accounted(pending_requests[i].request)
  BY DEF IInv
<1>12. (\A i \in 1 .. Len(rx_requests) : Accounted(rx_requests[i]))'
  <2> SUFFICES ASSUME NEW i \in 1 .. Len(rx_requests')
               PROVE  Accounted(rx_requests[i])'
    OBVIOUS
  <2>1. rx_n_seq' = rx_n_seq /\ \A j \in 1 .. Len(rx_requests) : Accounted(rx_requests[j])
    BY DEF RxDone, IInv
  <2>2. CASE i <= Len(rx_requests)
    <3>1. rx_requests'[i] = rx_requests[i] /\ i \in 1 .. Len(rx_requests)
      BY <1>1, <1>6, <2>2
    <3> QED
      BY <2>1, <3>1 DEF Accounted
  <2>3. CASE i > Len(rx_requests)
    <3>1. rx_requests'[i] = s[i - Len(rx_requests)] /\ i - Len(rx_requests) \in 1 .. Len(s)
      BY <1>1, <1>6, <2>3
    <3>2. PICK j \in 1 .. Len(pending_requests) : rx_requests'[i] = pending_requests[j].request
      BY <1>3, <3>1
    <3> QED
      BY <1>11, <2>1, <3>2 DEF Accounted
  <2> QED
    BY <1>1, <2>2, <2>3
<1>13. (\A i \in 1 .. Len(pending_requests) : Accounted(pending_requests[i].request))'
  <2>1. Len(pending_requests) \in Nat /\ rx_n_seq' = rx_n_seq
    BY <1>1, LenProperties DEF RxDone
  <2> QED
    BY <1>7, <1>11, <2>1 DEF Accounted
<1>14. ASSUME NEW c \in Clients
       PROVE  (Counted(c) /\ UpstreamOK(c) /\ TimesOK(c) /\ AcceptedOK(c) /\ DownstreamOK(c))'
  <2>1. UNCHANGED <<UpstreamVars(c), n_loaded[c], n_requested[c]>>
    BY DEF RxDone, UpstreamVars, clientVars, socketVars
  <2>2. (Counted(c) /\ UpstreamOK(c))'
    BY <2>1, Frames DEF IInv
  <2>3. TimesOK(c)'
    <3>1. TimesOK(c) /\ Len(pending_requests) \in Nat
      BY <1>1, LenProperties DEF IInv
    <3>2. to_server' = to_server /\ now' = now
      BY DEF RxDone
    <3>3. \A m \in 1 .. Len(pending_requests') :
            m \in 1 .. Len(pending_requests) /\ pending_requests'[m] = pending_requests[m]
      BY <1>7, <3>1
    <3> QED
      BY <3>1, <3>2, <3>3 DEF TimesOK
  <2>4. AcceptedOK(c)'
    <3> DEFINE x == OfClient(rx_requests, c)
               y == OfClient(s, c)
               z == OfClient(RequestsIn(pending_requests'), c)
    <3>1. x \in Seq(Request) /\ y \in Seq(Request) /\ z \in Seq(Request)
      BY <1>1, <1>3, <1>7, RequestsInType, OfClientType
    <3>2. OfClient(rx_requests', c) = x \o y
      BY <1>1, <1>3, <1>4, OfClientConcat
    <3>3. y \o z = OfClient(before, c)
      BY <1>5
    <3>4. x \o OfClient(before, c) = FirstRequests(c, rx_n_seq[c] - 1)
      BY DEF IInv, AcceptedOK, before
    <3>5. OfClient(RequestsIn(pending_requests'), c) = z
      OBVIOUS
    <3> HIDE DEF x, y, z
    <3>6. (x \o y) \o z = x \o (y \o z)
      BY <3>1, ConcatAssociative
    <3>7. (x \o y) \o z = FirstRequests(c, rx_n_seq[c] - 1)
      BY <3>3, <3>4, <3>6
    <3>8. rx_n_seq' = rx_n_seq
      BY DEF RxDone
    <3> QED
      BY <3>2, <3>5, <3>7, <3>8 DEF AcceptedOK
  <2>5. DownstreamOK(c)'
    <3>1. /\ client_rx'[c] = client_rx[c] /\ to_client'[c] = to_client[c]
          /\ n_seq_next_expected'[c] = n_seq_next_expected[c] /\ tx_n_seq'[c] = tx_n_seq[c]
          /\ tx_responses'[c] = tx_responses[c] /\ OnTheWay(c)' = OnTheWay(c)
          /\ rx_responses' = rx_responses /\ answers' = answers
      BY DEF RxDone, OnTheWay, clientVars
    <3> QED
      BY <3>1 DEF IInv, DownstreamOK
  <2> QED
    BY <2>2, <2>3, <2>4, <2>5
<1> QED
  BY <1>8, <1>9, <1>10, <1>12, <1>13, <1>14 DEF IInv

(* The messages that a client has loaded go on where those before them end.*)
LEMMA LoadedIs ==
  ASSUME NEW c \in Clients, NEW n \in Nat, NEW m \in Nat, n <= m
  PROVE  LET loaded == [i \in 1 .. m - n |-> Message(n + i, [client |-> c, n |-> n + i])]
         IN /\ loaded \in Seq(Sent) /\ Len(loaded) = m - n
            /\ Consecutive(loaded, c, n + 1)
            /\ \A i \in 1 .. Len(loaded) : loaded[i].request.n = loaded[i].n_seq
<1> DEFINE loaded == [i \in 1 .. m - n |-> Message(n + i, [client |-> c, n |-> n + i])]
<1>1. m - n \in Nat /\ \A i \in 1 .. m - n : n + i \in Nat /\ n + 1 + i - 1 = n + i
  OBVIOUS
<1>2. loaded \in [1 .. m - n -> Sent]
  BY <1>1 DEF Message, Sent, Request
<1>3. loaded \in Seq(Sent)
  BY <1>1, <1>2, SeqDef
<1>4. Len(loaded) = m - n
  BY <1>1
<1>5. \A i \in 1 .. m - n : loaded[i] = [n_seq |-> n + i, request |-> [client |-> c, n |-> n + i]]
  BY DEF Message
<1> HIDE DEF loaded
<1>6. Consecutive(loaded, c, n + 1)
  <2>1. \A i \in 1 .. m - n : loaded[i].n_seq = n + 1 + i - 1 /\ loaded[i].request.client = c
    <3>1. \A i \in 1 .. m - n : loaded[i].n_seq = n + i /\ loaded[i].request.client = c
      <4> SUFFICES ASSUME NEW i \in 1 .. m - n
                   PROVE  loaded[i].n_seq = n + i /\ loaded[i].request.client = c
        OBVIOUS
      <4>1. loaded[i] = [n_seq |-> n + i, request |-> [client |-> c, n |-> n + i]]
        BY <1>5
      <4> QED
        BY <4>1
    <3>2. \A i \in 1 .. m - n : n + 1 + i - 1 = n + i
      OBVIOUS
    <3> QED
      BY <3>1, <3>2
  <2> QED
    BY <1>4, <2>1 DEF Consecutive
<1>7. ASSUME NEW i \in 1 .. Len(loaded)
      PROVE  loaded[i].request.n = loaded[i].n_seq
  <2>1. loaded[i] = [n_seq |-> n + i, request |-> [client |-> c, n |-> n + i]]
    BY <1>4, <1>5
  <2> QED
    BY <2>1
<1> QED
  BY <1>3, <1>4, <1>6, <1>7 DEF loaded

LEMMA TimesAreNumbers ==
  /\ \A s \in Seq(Part) : \A i \in 1 .. Len(s) : s[i].t \in Nat
  /\ \A s \in Seq(Pending) : \A i \in 1 .. Len(s) : s[i].t_rx \in Nat
<1>1. \A s \in Seq(Part) : \A i \in 1 .. Len(s) : s[i] \in Part
  BY ElementOfSeq
<1>2. \A s \in Seq(Pending) : \A i \in 1 .. Len(s) : s[i] \in Pending
  BY ElementOfSeq
<1>3. (\A p \in Part : p.t \in Nat) /\ \A p \in Pending : p.t_rx \in Nat
  BY DEF Part, Pending
<1> QED
  BY <1>1, <1>2, <1>3

LEMMA ReadableIs ==
  ASSUME NEW S, NEW s \in Seq(S), NEW k \in Readable(s)
  PROVE  k \in 0 .. Len(s)
<1>1. Len(s) \in Nat
  BY LenProperties
<1> QED
  BY <1>1 DEF Readable

LEMMA ClientPassStep ==
  ASSUME IInv, NEW c \in Clients, NEW k \in Readable(to_client[c]), ClientPass(c, k)
  PROVE  IInv'
<1> DEFINE rx == client_rx[c]
           stream == to_client[c]
           tx == server_tx[c]
           n == n_seq_next_expected[c]
           t == tx_responses[c]
           buffer == rx \o Taken(stream, k)
           w == Whole(buffer)
           u == Whole(Rest(buffer) \o Left(stream, k)) \o tx
           up_rx == server_rx[c]
           up_stream == to_server[c]
           up_tx == client_tx[c]
           loaded == [i \in 1 .. n_requested[c] - n_loaded[c] |->
                        Message(n_loaded[c] + i, [client |-> c, n |-> n_loaded[c] + i])]
<1>1. /\ rx \in Seq(Part) /\ stream \in Seq(Part) /\ tx \in Seq(Sent) /\ n \in Nat
      /\ t \in Seq(Request) /\ tx_n_seq[c] \in Nat
      /\ up_rx \in Seq(Part) /\ up_stream \in Seq(Part) /\ up_tx \in Seq(Sent)
      /\ Upstream(c) \in Seq(Sent) /\ OnTheWay(c) \in Seq(Sent)
      /\ n_loaded[c] \in Nat /\ n_requested[c] \in Nat /\ rx_n_seq[c] \in Nat
  BY Typed DEF IInv
<1>2. k \in 0 .. Len(stream)
  BY <1>1, ReadableIs
<1>3. /\ Len(rx) < 2 /\ (Len(rx) + Len(stream)) % 2 = 0
      /\ OnTheWay(c) = Whole(rx \o stream) \o tx
      /\ Consecutive(OnTheWay(c), c, n) /\ tx_n_seq[c] = n + Len(OnTheWay(c))
      /\ (t \o RequestsOf(OnTheWay(c))) \o OfClient(rx_responses, c)
           = OfClient(answers, c)
  BY DEF IInv, DownstreamOK, OnTheWay
<1>4. /\ w \in Seq(Sent) /\ u \in Seq(Sent)
      /\ Rest(buffer) \in Seq(Part) /\ Left(stream, k) \in Seq(Part)
      /\ OnTheWay(c) = w \o u
      /\ Consecutive(w, c, n) /\ Consecutive(u, c, n + Len(w))
      /\ Accepted(w, c, n).n_seq = n + Len(w) /\ Accepted(w, c, n).requests = RequestsOf(w)
      /\ Len(Rest(buffer)) < 2 /\ (Len(Rest(buffer)) + Len(Left(stream, k))) % 2 = 0
  <2>1. Consecutive(Whole(rx \o stream) \o tx, c, n)
    BY <1>3
  <2>2. /\ rx \in Seq(Part) /\ stream \in Seq(Part) /\ tx \in Seq(Sent) /\ n \in Nat
        /\ k \in 0 .. Len(stream) /\ (Len(rx) + Len(stream)) % 2 = 0
    BY <1>1, <1>2, <1>3
  <2> HIDE DEF rx, stream, tx, n
  <2>3. /\ w \in Seq(Sent) /\ u \in Seq(Sent)
        /\ Rest(buffer) \in Seq(Part) /\ Left(stream, k) \in Seq(Part)
        /\ Whole(rx \o stream) \o tx = w \o u
        /\ Consecutive(w, c, n) /\ Consecutive(u, c, n + Len(w))
        /\ Accepted(w, c, n).n_seq = n + Len(w) /\ Accepted(w, c, n).requests = RequestsOf(w)
        /\ Len(Rest(buffer)) < 2 /\ (Len(Rest(buffer)) + Len(Left(stream, k))) % 2 = 0
    <3>1. ReadIs(rx, stream, tx, k, c, n)
      BY <2>1, <2>2, ReadAccepts
    <3> QED
      BY <3>1 DEF ReadIs
  <2> QED
    BY <1>3, <2>3
<1>5. /\ to_client' = [to_client EXCEPT ![c] = Left(stream, k)]
      /\ client_rx' = [client_rx EXCEPT ![c] = Rest(buffer)]
      /\ n_seq_next_expected' = [n_seq_next_expected EXCEPT ![c] = n + Len(w)]
      /\ tx_responses' = [tx_responses EXCEPT ![c] = t \o RequestsOf(w)]
      /\ to_server' = [to_server EXCEPT ![c] = up_stream \o Parts(up_tx, now)]
      /\ client_tx' = [client_tx EXCEPT ![c] = loaded]
      /\ n_loaded' = [n_loaded EXCEPT ![c] = n_requested[c]]
      /\ UNCHANGED <<n_requested, socketVars, gatewayVars, engineVars>>
  BY <1>4 DEF ClientPass
<1>6. now \in Nat /\ now' \in Nat /\ now <= now'
  <2>1. now \in Nat
    BY DEF IInv, TypeInv
  <2>2. now' = now \/ now' = now + 1
    BY DEF ClientPass
  <2> QED
    BY <2>1, <2>2
<1>7. /\ n_loaded[c] <= n_requested[c] /\ n_requested[c] <= MaxRequests[c]
      /\ Len(up_rx) < 2 /\ (Len(up_rx) + Len(up_stream)) % 2 = 0
      /\ Consecutive(Upstream(c), c, rx_n_seq[c])
      /\ \A i \in 1 .. Len(Upstream(c)) : Upstream(c)[i].request.n = Upstream(c)[i].n_seq
      /\ n_loaded[c] + 1 = rx_n_seq[c] + Len(Upstream(c))
      /\ Upstream(c) = Whole(up_rx \o up_stream) \o up_tx
  BY DEF IInv, Counted, UpstreamOK, Upstream
<1>8. /\ loaded \in Seq(Sent) /\ Len(loaded) = n_requested[c] - n_loaded[c]
      /\ Consecutive(loaded, c, n_loaded[c] + 1)
      /\ \A i \in 1 .. Len(loaded) : loaded[i].request.n = loaded[i].n_seq
  <2> DEFINE l == n_loaded[c]
             q == n_requested[c]
  <2>1. l \in Nat /\ q \in Nat /\ l <= q
    BY <1>1, <1>7
  <2> HIDE DEF l, q
  <2>2. LET ms == [i \in 1 .. q - l |-> Message(l + i, [client |-> c, n |-> l + i])]
        IN /\ ms \in Seq(Sent) /\ Len(ms) = q - l
           /\ Consecutive(ms, c, l + 1)
           /\ \A i \in 1 .. Len(ms) : ms[i].request.n = ms[i].n_seq
    BY <2>1, LoadedIs
  <2> QED
    BY <2>2 DEF l, q
<1>9. /\ up_stream \o Parts(up_tx, now) \in Seq(Part)
      /\ (Len(up_rx) + Len(up_stream \o Parts(up_tx, now))) % 2 = 0
      /\ Whole(up_rx \o (up_stream \o Parts(up_tx, now))) = Upstream(c)
      /\ \A i \in 1 .. Len(up_stream \o Parts(up_tx, now)) :
           \/ i \in 1 .. Len(up_stream) /\ (up_stream \o Parts(up_tx, now))[i] = up_stream[i]
           \/ i > Len(up_stream) /\ (up_stream \o Parts(up_tx, now))[i].t = now
  <2>1. /\ up_rx \in Seq(Part) /\ up_stream \in Seq(Part) /\ up_tx \in Seq(Sent) /\ now \in Nat
        /\ (Len(up_rx) + Len(up_stream)) % 2 = 0
    BY <1>1, <1>6, <1>7
  <2> HIDE DEF up_rx, up_stream, up_tx
  <2>2. /\ up_stream \o Parts(up_tx, now) \in Seq(Part)
        /\ (Len(up_rx) + Len(up_stream \o Parts(up_tx, now))) % 2 = 0
        /\ Whole(up_rx \o (up_stream \o Parts(up_tx, now))) = Whole(up_rx \o up_stream) \o up_tx
        /\ \A i \in 1 .. Len(up_stream \o Parts(up_tx, now)) :
             \/ i \in 1 .. Len(up_stream) /\ (up_stream \o Parts(up_tx, now))[i] = up_stream[i]
             \/ i > Len(up_stream) /\ (up_stream \o Parts(up_tx, now))[i].t = now
    <3>1. SendIs(up_rx, up_stream, up_tx, now)
      BY <2>1, SendJoins
    <3> QED
      BY <3>1 DEF SendIs
  <2> QED
    BY <1>7, <2>2
<1> DEFINE sent == up_stream \o Parts(up_tx, now)
<1>10. /\ to_client'[c] = Left(stream, k) /\ client_rx'[c] = Rest(buffer)
       /\ n_seq_next_expected'[c] = n + Len(w) /\ tx_responses'[c] = t \o RequestsOf(w)
       /\ to_server'[c] = sent /\ client_tx'[c] = loaded /\ n_loaded'[c] = n_requested[c]
  BY <1>5 DEF IInv, TypeInv
<1>11. RequestsOf(w) \in Seq(Request) /\ t \o RequestsOf(w) \in Seq(Request) /\ Len(w) \in Nat
       /\ n + Len(w) \in Nat
  <2> HIDE DEF w, n, t
  <2>1. RequestsOf(w) \in Seq(Request) /\ Len(w) \in Nat
    BY <1>4, RequestsOfConcat, LenProperties
  <2> QED
    BY <1>1, <2>1, ConcatProperties
<1> HIDE DEF rx, stream, tx, n, t, buffer, w, u, up_rx, up_stream, up_tx, loaded, sent
<1>12. TypeInv'
  <2>1. /\ to_client' \in [Clients -> Seq(Part)] /\ client_rx' \in [Clients -> Seq(Part)]
        /\ n_seq_next_expected' \in [Clients -> Nat]
        /\ tx_responses' \in [Clients -> Seq(Request)]
        /\ to_server' \in [Clients -> Seq(Part)] /\ client_tx' \in [Clients -> Seq(Sent)]
        /\ n_loaded' \in [Clients -> Nat]
    BY <1>1, <1>4, <1>5, <1>8, <1>9, <1>11 DEF IInv, TypeInv
  <2> QED
    BY <1>5, <1>6, <2>1 DEF IInv, TypeInv, socketVars, gatewayVars, engineVars
<1>13. Sockets'
  BY <1>5 DEF IInv, Sockets, socketVars
<1>14. /\ ClientsInTime(pending_requests)'
       /\ (\A i \in 1 .. Len(rx_requests) : Accounted(rx_requests[i]))'
       /\ (\A i \in 1 .. Len(pending_requests) : Accounted(pending_requests[i].request))'
  BY <1>5 DEF IInv, ClientsInTime, Accounted, gatewayVars, engineVars
<1>15. ASSUME NEW d \in Clients, d # c
       PROVE  (Counted(d) /\ UpstreamOK(d) /\ TimesOK(d) /\ AcceptedOK(d) /\ DownstreamOK(d))'
  <2>1. UNCHANGED <<UpstreamVars(d), DownstreamVars(d), engineVars, to_server[d], pending_requests,
                    rx_requests, rx_n_seq[d], n_loaded[d], n_requested[d]>>
    BY <1>5, <1>15 DEF UpstreamVars, DownstreamVars, socketVars, gatewayVars, engineVars
  <2>2. (Counted(d) /\ UpstreamOK(d) /\ AcceptedOK(d) /\ DownstreamOK(d))'
    BY <2>1, Frames DEF IInv
  <2>3. TimesOK(d)'
    <3>1. TimesOK(d)
      BY DEF IInv
    <3>2. to_server'[d] = to_server[d] /\ pending_requests' = pending_requests
      BY <2>1
    <3>3. to_server[d] \in Seq(Part) /\ pending_requests \in Seq(Pending)
      BY DEF IInv, TypeInv
    <3>4. \A i \in 1 .. Len(to_server[d]) : to_server[d][i].t \in Nat
      BY <3>3, TimesAreNumbers
    <3>5. \A i \in 1 .. Len(pending_requests) : pending_requests[i].t_rx \in Nat
      BY <3>3, TimesAreNumbers
    <3>6. \A i \in Nat : i <= now => i <= now'
      BY <1>6
    <3>7. /\ \A i \in 1 .. Len(to_server[d]) : to_server[d][i].t <= now'
          /\ \A m \in 1 .. Len(pending_requests) : pending_requests[m].request.client = d =>
               pending_requests[m].t_rx <= now'
      BY <3>1, <3>4, <3>5, <3>6 DEF TimesOK
    <3> QED
      BY <3>1, <3>2, <3>7 DEF TimesOK
  <2> QED
    BY <2>2, <2>3
<1>16. Counted(c)'
  <2>1. MaxRequests[c] \in Nat
    BY GatewayAssumption
  <2>2. n_loaded'[c] = n_requested[c] /\ n_requested'[c] = n_requested[c]
    BY <1>5, <1>10
  <2>3. n_requested[c] \in Nat /\ n_requested[c] <= MaxRequests[c]
    BY <1>1, <1>7
  <2> QED
    BY <2>1, <2>2, <2>3 DEF Counted
<1>17. UpstreamOK(c)'
  <2> DEFINE up == Upstream(c)
  <2>1. Upstream(c)' = up \o loaded
    <3>1. server_rx'[c] = up_rx
      BY <1>5 DEF socketVars, up_rx
    <3> QED
      BY <1>9, <1>10, <3>1 DEF Upstream, sent
  <2>2. up \in Seq(Sent) /\ rx_n_seq[c] \in Nat /\ Len(up) \in Nat /\ Len(loaded) \in Nat
    BY <1>1, <1>8, LenProperties
  <2>3. /\ Consecutive(up, c, rx_n_seq[c]) /\ n_loaded[c] + 1 = rx_n_seq[c] + Len(up)
        /\ \A i \in 1 .. Len(up) : up[i].request.n = up[i].n_seq
    BY <1>7
  <2> HIDE DEF up
  <2>4. Consecutive(up \o loaded, c, rx_n_seq[c])
    <3>1. Consecutive(up \o loaded, c, rx_n_seq[c])
            <=> Consecutive(up, c, rx_n_seq[c]) /\ Consecutive(loaded, c, rx_n_seq[c] + Len(up))
      BY <1>8, <2>2, ConsecutiveConcat
    <3>2. Consecutive(loaded, c, rx_n_seq[c] + Len(up))
      BY <1>8, <2>3
    <3> QED
      BY <2>3, <3>1, <3>2
  <2>5. /\ Len(up \o loaded) = Len(up) + Len(loaded)
        /\ \A i \in 1 .. Len(up) + Len(loaded) :
             (up \o loaded)[i] = IF i <= Len(up) THEN up[i] ELSE loaded[i - Len(up)]
    BY <1>8, <2>2, ConcatProperties
  <2>6. ASSUME NEW i \in 1 .. Len(up \o loaded)
        PROVE  (up \o loaded)[i].request.n = (up \o loaded)[i].n_seq
    <3>1. CASE i <= Len(up)
      BY <2>2, <2>3, <2>5, <3>1
    <3>2. CASE i > Len(up)
      <4>1. i - Len(up) \in 1 .. Len(loaded) /\ (up \o loaded)[i] = loaded[i - Len(up)]
        BY <2>2, <2>5, <3>2
      <4> QED
        BY <1>8, <4>1
    <3> QED
      BY <2>2, <3>1, <3>2
  <2>7. n_loaded'[c] + 1 = rx_n_seq[c] + Len(up \o loaded)
    <3>1. \A l, q, x, y, z \in Nat : l + 1 = x + y /\ z = q - l => q + 1 = x + (y + z)
      OBVIOUS
    <3> DEFINE l == n_loaded[c]
               q == n_requested[c]
               x == rx_n_seq[c]
               y == Len(up)
               z == Len(loaded)
    <3>2. l \in Nat /\ q \in Nat /\ x \in Nat /\ y \in Nat /\ z \in Nat
      BY <1>1, <2>2
    <3>3. l + 1 = x + y /\ z = q - l
      BY <1>8, <2>3
    <3> HIDE DEF l, q, x, y, z
    <3>4. q + 1 = x + (y + z)
      BY <3>1, <3>2, <3>3
    <3>5. n_requested[c] + 1 = rx_n_seq[c] + (Len(up) + Len(loaded))
      BY <3>4 DEF q, x, y, z
    <3> QED
      BY <1>10, <2>5, <3>5
  <2>8. server_rx'[c] = up_rx /\ to_server'[c] = sent /\ rx_n_seq'[c] = rx_n_seq[c]
    BY <1>5, <1>10 DEF socketVars, gatewayVars, up_rx
  <2> QED
    BY <1>7, <1>9, <2>1, <2>4, <2>6, <2>7, <2>8 DEF UpstreamOK, sent
<1>18. TimesOK(c)'
  <2>1. /\ \A i, j \in 1 .. Len(up_stream) : i <= j => up_stream[i].t <= up_stream[j].t
        /\ \A i \in 1 .. Len(up_stream) : up_stream[i].t <= now
        /\ \A m \in 1 .. Len(pending_requests) : pending_requests[m].request.client = c =>
             /\ pending_requests[m].t_rx <= now
             /\ \A i \in 1 .. Len(up_stream) : pending_requests[m].t_rx <= up_stream[i].t
    BY DEF IInv, TimesOK, up_stream
  <2>2. pending_requests \in Seq(Pending)
    BY DEF IInv, TypeInv
  <2>3. \A i \in 1 .. Len(pending_requests) : pending_requests[i].t_rx \in Nat
    BY <2>2, TimesAreNumbers
  <2>4. \A i \in 1 .. Len(up_stream) : up_stream[i].t \in Nat
    BY <1>1, TimesAreNumbers
  <2>5. Len(up_stream) \in Nat /\ Len(sent) \in Nat
    BY <1>1, <1>9, LenProperties DEF sent
  <2>6. \A i \in 1 .. Len(sent) :
           \/ i \in 1 .. Len(up_stream) /\ sent[i] = up_stream[i]
           \/ i > Len(up_stream) /\ sent[i].t = now
    BY <1>9 DEF sent
  <2>7. ASSUME NEW i \in 1 .. Len(sent), NEW j \in 1 .. Len(sent), i <= j
        PROVE  sent[i].t <= sent[j].t
    <3>1. CASE j \in 1 .. Len(up_stream) /\ sent[j] = up_stream[j]
      <4>1. i \in 1 .. Len(up_stream)
        BY <2>5, <2>7, <3>1
      <4>2. sent[i] = up_stream[i]
        BY <2>5, <2>6, <4>1
      <4> QED
        BY <2>1, <2>7, <3>1, <4>1, <4>2
    <3>2. CASE j > Len(up_stream) /\ sent[j].t = now
      <4>1. CASE i \in 1 .. Len(up_stream) /\ sent[i] = up_stream[i]
        BY <2>1, <3>2, <4>1
      <4>2. CASE i > Len(up_stream) /\ sent[i].t = now
        BY <1>6, <3>2, <4>2
      <4> QED
        BY <2>6, <4>1, <4>2
    <3> QED
      BY <2>6, <3>1, <3>2
  <2>8. ASSUME NEW i \in 1 .. Len(sent)
        PROVE  sent[i].t <= now'
    BY <1>6, <2>1, <2>4, <2>6
  <2>9. ASSUME NEW m \in 1 .. Len(pending_requests), pending_requests[m].request.client = c
        PROVE  /\ pending_requests[m].t_rx <= now'
               /\ \A i \in 1 .. Len(sent) : pending_requests[m].t_rx <= sent[i].t
    <3>1. pending_requests[m].t_rx <= now /\ pending_requests[m].t_rx \in Nat
      BY <2>1, <2>3, <2>9
    <3>2. \A i \in 1 .. Len(up_stream) : pending_requests[m].t_rx <= up_stream[i].t
      BY <2>1, <2>9
    <3>3. \A i \in 1 .. Len(sent) : pending_requests[m].t_rx <= sent[i].t
      BY <2>6, <3>1, <3>2
    <3> QED
      BY <1>6, <3>1, <3>3
  <2>10. to_server'[c] = sent /\ pending_requests' = pending_requests
    BY <1>5, <1>10 DEF gatewayVars
  <2> QED
    BY <2>7, <2>8, <2>9, <2>10 DEF TimesOK
<1>19. AcceptedOK(c)'
  <2>1. UNCHANGED <<rx_requests, pending_requests, rx_n_seq[c]>>
    BY <1>5 DEF gatewayVars, engineVars
  <2> QED
    BY <2>1, Frames DEF IInv
<1>20. DownstreamOK(c)'
  <2>1. OnTheWay(c)' = u
    <3>1. server_tx'[c] = tx
      BY <1>5 DEF gatewayVars, tx
    <3> QED
      BY <1>10, <3>1 DEF OnTheWay, u
  <2>2. Len(u) \in Nat /\ Len(w) \in Nat /\ Len(w \o u) = Len(w) + Len(u)
    BY <1>4, ConcatProperties, LenProperties
  <2>3. tx_n_seq[c] = n + Len(w) + Len(u)
    <3>1. tx_n_seq[c] = n + Len(w \o u)
      BY <1>3, <1>4
    <3> QED
      BY <1>1, <2>2, <3>1
  <2>4. t \o RequestsOf(w \o u) = (t \o RequestsOf(w)) \o RequestsOf(u)
    <3> DEFINE p == RequestsOf(w)
               q == RequestsOf(u)
    <3>1. p \in Seq(Request) /\ q \in Seq(Request) /\ RequestsOf(w \o u) = p \o q
      BY <1>4, RequestsOfConcat
    <3>0. t \in Seq(Request)
      BY <1>1
    <3> HIDE DEF p, q
    <3>2. (t \o p) \o q = t \o (p \o q)
      BY <3>0, <3>1, ConcatAssociative
    <3>3. t \o RequestsOf(w \o u) = (t \o p) \o q
      BY <3>1, <3>2
    <3> QED
      BY <3>3 DEF p, q
  <2>5. t \o RequestsOf(OnTheWay(c)) = tx_responses'[c] \o RequestsOf(OnTheWay(c)')
    BY <1>4, <1>10, <2>1, <2>4
  <2>6. /\ tx_n_seq'[c] = tx_n_seq[c]
        /\ rx_responses' = rx_responses /\ answers' = answers
    BY <1>5 DEF gatewayVars, engineVars
  <2>7. (tx_responses'[c] \o RequestsOf(OnTheWay(c)')) \o OfClient(rx_responses', c)
          = OfClient(answers', c)
    BY <1>3, <2>5, <2>6
  <2>8. Consecutive(OnTheWay(c)', c, n_seq_next_expected'[c])
    BY <1>4, <1>10, <2>1
  <2>9. tx_n_seq'[c] = n_seq_next_expected'[c] + Len(OnTheWay(c)')
    BY <1>10, <2>1, <2>3, <2>6
  <2>10. Len(client_rx'[c]) < 2 /\ (Len(client_rx'[c]) + Len(to_client'[c])) % 2 = 0
    BY <1>4, <1>10
  <2> QED
    BY <2>7, <2>8, <2>9, <2>10 DEF DownstreamOK
<1> QED
  BY <1>12, <1>13, <1>14, <1>15, <1>16, <1>17, <1>18, <1>19, <1>20 DEF IInv

LEMMA FirstRequestsAre ==
  ASSUME NEW c \in Clients, NEW k \in Nat
  PROVE  /\ FirstRequests(c, k) \in Seq(Request) /\ Len(FirstRequests(c, k)) = k
         /\ \A i \in 1 .. k : FirstRequests(c, k)[i] = [client |-> c, n |-> i]
<1> DEFINE f == FirstRequests(c, k)
<1>1. f \in [1 .. k -> Request]
  BY DEF FirstRequests, Request
<1>2. f \in Seq(Request)
  BY <1>1, SeqDef
<1>3. Len(f) = k /\ \A i \in 1 .. k : f[i] = [client |-> c, n |-> i]
  BY DEF FirstRequests
<1> QED
  BY <1>2, <1>3

LEMMA PushedIs ==
  ASSUME NEW accepted, accepted.requests \in Seq(Request), NEW t \in Nat
  PROVE  /\ Pushed(accepted, t) \in Seq(Pending)
         /\ Len(Pushed(accepted, t)) = Len(accepted.requests)
         /\ \A i \in 1 .. Len(accepted.requests) :
              /\ Pushed(accepted, t)[i].t_rx = t
              /\ Pushed(accepted, t)[i].request = accepted.requests[i]
<1> DEFINE r == accepted.requests
           p == Pushed(accepted, t)
<1>1. p = [i \in DOMAIN r |-> [t_rx |-> t, request |-> r[i]]]
  BY DEF Pushed
<1>2. Len(r) \in Nat /\ DOMAIN r = 1 .. Len(r) /\ \A i \in 1 .. Len(r) : r[i] \in Request
  BY LenProperties, ElementOfSeq
<1> HIDE DEF r, p
<1>3. p \in [1 .. Len(r) -> Pending]
  BY <1>1, <1>2 DEF Pending
<1>4. p \in Seq(Pending)
  BY <1>2, <1>3, SeqDef
<1>5. Len(p) = Len(r)
  <2>1. p = [i \in 1 .. Len(r) |-> [t_rx |-> t, request |-> r[i]]]
    BY <1>1, <1>2
  <2> QED
    BY <1>2, <2>1
<1>6. \A i \in 1 .. Len(r) : p[i].t_rx = t /\ p[i].request = r[i]
  BY <1>1, <1>2
<1> QED
  BY <1>4, <1>5, <1>6 DEF p, r

(* A socket's turn moves what it accepts from its client to the sequencer. *)
LEMMA SocketTxRxStep ==
  ASSUME IInv, NEW c \in Clients, NEW k \in 0 .. Len(to_server[c]), SocketTxRx(c, k),
         loop' \in [at : {"poll", "rx", "tx"}, left : Seq(Clients), receiving : BOOLEAN]
  PROVE  IInv'
<1> DEFINE rx == server_rx[c]
           stream == to_server[c]
           tx == client_tx[c]
           n == rx_n_seq[c]
           buffer == rx \o Taken(stream, k)
           w == Whole(buffer)
           u == Whole(Rest(buffer) \o Left(stream, k)) \o tx
           pushed == IF k = 0 THEN <<>> ELSE Pushed(Accepted(w, c, n), stream[k].t)
           pending == pending_requests
           down_rx == client_rx[c]
           down_stream == to_client[c]
           down_tx == server_tx[c]
           sent == down_stream \o Parts(down_tx, now)
<1>1. /\ rx \in Seq(Part) /\ stream \in Seq(Part) /\ tx \in Seq(Sent) /\ n \in Nat \ {0}
      /\ down_rx \in Seq(Part) /\ down_stream \in Seq(Part) /\ down_tx \in Seq(Sent)
      /\ n_loaded[c] \in Nat /\ Upstream(c) \in Seq(Sent)
  BY Typed DEF IInv
<1>2. /\ Len(rx) < 2 /\ (Len(rx) + Len(stream)) % 2 = 0
      /\ Upstream(c) = Whole(rx \o stream) \o tx
      /\ Consecutive(Upstream(c), c, n)
      /\ \A i \in 1 .. Len(Upstream(c)) : Upstream(c)[i].request.n = Upstream(c)[i].n_seq
      /\ n_loaded[c] + 1 = n + Len(Upstream(c))
  BY DEF IInv, UpstreamOK, Upstream
<1>3. ReadIs(rx, stream, tx, k, c, n)
  <2>1. /\ rx \in Seq(Part) /\ stream \in Seq(Part) /\ tx \in Seq(Sent) /\ n \in Nat
        /\ k \in 0 .. Len(stream) /\ (Len(rx) + Len(stream)) % 2 = 0
        /\ Consecutive(Whole(rx \o stream) \o tx, c, n)
    BY <1>1, <1>2
  <2> HIDE DEF rx, stream, tx, n
  <2> QED
    BY <2>1, ReadAccepts
<1>4. /\ w \in Seq(Sent) /\ u \in Seq(Sent)
      /\ Rest(buffer) \in Seq(Part) /\ Left(stream, k) \in Seq(Part)
      /\ Upstream(c) = w \o u
      /\ Consecutive(w, c, n) /\ Consecutive(u, c, n + Len(w))
      /\ Accepted(w, c, n).n_seq = n + Len(w) /\ Accepted(w, c, n).requests = RequestsOf(w)
      /\ Len(Rest(buffer)) < 2 /\ (Len(Rest(buffer)) + Len(Left(stream, k))) % 2 = 0
      /\ Len(Left(stream, k)) = Len(stream) - k
      /\ \A i \in 1 .. Len(stream) - k : Left(stream, k)[i] = stream[k + i]
      /\ k = 0 => w = <<>>
  <2> HIDE DEF rx, stream, tx, n
  <2> QED
    BY <1>2, <1>3 DEF ReadIs
<1>5. SendIs(down_rx, down_stream, down_tx, now)
  <2>1. (Len(down_rx) + Len(down_stream)) % 2 = 0 /\ now \in Nat
    BY DEF IInv, DownstreamOK, TypeInv
  <2> HIDE DEF down_rx, down_stream, down_tx
  <2> QED
    BY <1>1, <2>1, SendJoins
<1>6. /\ sent \in Seq(Part)
      /\ (Len(down_rx) + Len(sent)) % 2 = 0
      /\ Whole(down_rx \o sent) = OnTheWay(c)
  <2>1. OnTheWay(c) = Whole(down_rx \o down_stream) \o down_tx
    BY DEF OnTheWay
  <2> HIDE DEF down_rx, down_stream, down_tx
  <2> QED
    BY <1>5, <2>1 DEF SendIs
<1>7. /\ to_server' = [to_server EXCEPT ![c] = Left(stream, k)]
      /\ server_rx' = [server_rx EXCEPT ![c] = Rest(buffer)]
      /\ rx_n_seq' = [rx_n_seq EXCEPT ![c] = n + Len(w)]
      /\ pending_requests' = pending \o pushed
      /\ to_client' = [to_client EXCEPT ![c] = sent]
      /\ server_tx' = [server_tx EXCEPT ![c] = <<>>]
      /\ UNCHANGED <<clientVars, rx_sockets, tx_sockets, tx_n_seq, engineVars, now>>
  BY <1>4 DEF SocketTxRx
<1>8. /\ to_server'[c] = Left(stream, k) /\ server_rx'[c] = Rest(buffer)
      /\ rx_n_seq'[c] = n + Len(w) /\ to_client'[c] = sent /\ server_tx'[c] = <<>>
      /\ \A d \in Clients : d # c => rx_n_seq'[d] = rx_n_seq[d]
  BY <1>7 DEF IInv, TypeInv
<1>9. pending \in Seq(Pending) /\ Len(pending) \in Nat /\ ClientsInTime(pending)
  BY LenProperties DEF IInv, TypeInv
<1>10. Len(stream) \in Nat /\ Len(w) \in Nat /\ Len(u) \in Nat /\ Len(w \o u) = Len(w) + Len(u)
  <2> HIDE DEF stream, w, u
  <2> QED
    BY <1>1, <1>4, ConcatProperties, LenProperties
<1>11. /\ \A i \in 1 .. Len(w) : w[i].request \in Request /\ w[i].request.client = c
                                 /\ w[i].request.n = n + i - 1
       /\ \A i \in 1 .. Len(u) : u[i].request.n = u[i].n_seq
  <2> HIDE DEF w, u, n
  <2>1. \A i \in 1 .. Len(w) : w[i] \in Sent
    BY <1>4, ElementOfSeq
  <2>2. \A i \in 1 .. Len(w) + Len(u) : (w \o u)[i] = IF i <= Len(w) THEN w[i] ELSE u[i - Len(w)]
    BY <1>4, ConcatProperties
  <2>3. \A i \in 1 .. Len(w) + Len(u) : (w \o u)[i].request.n = (w \o u)[i].n_seq
    BY <1>2, <1>4, <1>10
  <2>4. ASSUME NEW i \in 1 .. Len(w)
        PROVE  w[i].request \in Request /\ w[i].request.client = c
               /\ w[i].request.n = n + i - 1
    <3>1. w[i].request \in Request
      BY <2>1 DEF Sent
    <3>2. w[i].n_seq = n + i - 1 /\ w[i].request.client = c
      BY <1>4 DEF Consecutive
    <3>3. i \in 1 .. Len(w) + Len(u) /\ (w \o u)[i] = w[i]
      BY <1>10, <2>2
    <3>4. w[i].request.n = w[i].n_seq
      BY <2>3, <3>3
    <3> QED
      BY <3>1, <3>2, <3>4
  <2>5. ASSUME NEW i \in 1 .. Len(u)
        PROVE  u[i].request.n = u[i].n_seq
    <3>1. PICK j \in 1 .. Len(w) + Len(u) : j = Len(w) + i
      BY <1>10
    <3>2. ~ (j <= Len(w)) /\ j - Len(w) = i
      BY <1>10, <3>1
    <3>3. (w \o u)[j] = u[i]
      BY <2>2, <3>2
    <3> QED
      BY <2>3, <3>3
  <2> QED
    BY <2>4, <2>5
<1>12. /\ RequestsOf(w) \in Seq(Request) /\ Len(RequestsOf(w)) = Len(w)
       /\ \A i \in 1 .. Len(w) : RequestsOf(w)[i] = w[i].request
  <2> HIDE DEF w
  <2> QED
    BY <1>4, RequestsOfConcat
<1>13. /\ pushed \in Seq(Pending) /\ Len(pushed) = Len(w)
       /\ \A i \in 1 .. Len(w) : pushed[i].request = w[i].request
                                 /\ k > 0 /\ pushed[i].t_rx = stream[k].t
  <2>1. CASE k = 0
    <3>1. w = <<>> /\ pushed = <<>>
      BY <1>4, <2>1
    <3> HIDE DEF w, pushed
    <3> QED
      BY <3>1, Nothing
  <2>2. CASE k # 0
    <3> DEFINE accepted == Accepted(w, c, n)
               t == stream[k].t
    <3>1. k \in 1 .. Len(stream)
      BY <1>10, <2>2
    <3>2. t \in Nat
      <4> HIDE DEF stream
      <4> QED
        BY <1>1, <3>1, TimesAreNumbers
    <3>3. pushed = Pushed(accepted, t)
      BY <2>2
    <3>4. accepted.requests = RequestsOf(w)
      BY <1>4
    <3> HIDE DEF w, pushed, accepted, t
    <3>5. accepted.requests \in Seq(Request)
      BY <1>12, <3>4
    <3>6. /\ Pushed(accepted, t) \in Seq(Pending)
          /\ Len(Pushed(accepted, t)) = Len(accepted.requests)
          /\ \A i \in 1 .. Len(accepted.requests) :
               /\ Pushed(accepted, t)[i].t_rx = t
               /\ Pushed(accepted, t)[i].request = accepted.requests[i]
      BY <3>2, <3>5, PushedIs
    <3>7. pushed \in Seq(Pending) /\ Len(pushed) = Len(w)
      BY <1>12, <3>3, <3>4, <3>6
    <3>8. \A i \in 1 .. Len(w) : pushed[i].t_rx = t /\ pushed[i].request = w[i].request
      BY <1>12, <3>3, <3>4, <3>6
    <3> QED
      BY <3>1, <3>7, <3>8 DEF t
  <2> QED
    BY <2>1, <2>2
<1> HIDE DEF rx, stream, tx, n, buffer, w, u, pushed, pending, down_rx, down_stream, down_tx, sent
<1>14. /\ pending_requests' \in Seq(Pending) /\ Len(pending_requests') = Len(pending) + Len(w)
       /\ \A i \in 1 .. Len(pending) + Len(w) :
            pending_requests'[i] = IF i <= Len(pending) THEN pending[i] ELSE pushed[i - Len(pending)]
  <2>1. /\ pending \o pushed \in Seq(Pending) /\ Len(pending \o pushed) = Len(pending) + Len(pushed)
        /\ \A i \in 1 .. Len(pending) + Len(pushed) :
             (pending \o pushed)[i] = IF i <= Len(pending) THEN pending[i]
                                      ELSE pushed[i - Len(pending)]
    <3>1. pending \in Seq(Pending) /\ pushed \in Seq(Pending)
      BY <1>9, <1>13
    <3> QED
      BY <3>1, ConcatProperties
  <2>2. pending_requests' = pending \o pushed /\ Len(pushed) = Len(w)
    BY <1>7, <1>13
  <2> QED
    BY <2>1, <2>2
<1>15. /\ \A i \in 1 .. Len(pending) : pending_requests'[i] = pending[i]
       /\ \A i \in 1 .. Len(pending) + Len(w) : ~ (i <= Len(pending)) =>
            /\ i - Len(pending) \in 1 .. Len(w)
            /\ pending_requests'[i].request = w[i - Len(pending)].request
            /\ k > 0 /\ pending_requests'[i].t_rx = stream[k].t
            /\ pending_requests'[i].request.client = c
  <2>1. \A i \in 1 .. Len(pending) : pending_requests'[i] = pending[i]
    BY SMTT(30), <1>9, <1>10, <1>14
  <2>2. ASSUME NEW i \in 1 .. Len(pending) + Len(w), ~ (i <= Len(pending))
        PROVE  /\ i - Len(pending) \in 1 .. Len(w)
               /\ pending_requests'[i].request = w[i - Len(pending)].request
               /\ k > 0 /\ pending_requests'[i].t_rx = stream[k].t
               /\ pending_requests'[i].request.client = c
    <3>0. Len(pending) \in Nat /\ Len(w) \in Nat
      BY <1>9, <1>10
    <3>1. PICK j \in 1 .. Len(w) : j = i - Len(pending)
      <4>1. i - Len(pending) \in 1 .. Len(w)
        BY <2>2, <3>0
      <4> QED
        BY <4>1
    <3>2. pending_requests'[i] = pushed[j]
      BY <1>14, <2>2, <3>1
    <3>3. pushed[j].request = w[j].request /\ k > 0 /\ pushed[j].t_rx = stream[k].t
      BY <1>13
    <3>4. w[j].request.client = c
      BY <1>11
    <3> QED
      BY <3>1, <3>2, <3>3, <3>4
  <2> QED
    BY <2>1, <2>2
<1>16. TypeInv'
  <2>1. n + Len(w) \in Nat \ {0}
    BY <1>1, <1>10
  <2>2. /\ to_server' \in [Clients -> Seq(Part)] /\ server_rx' \in [Clients -> Seq(Part)]
        /\ rx_n_seq' \in [Clients -> Nat \ {0}] /\ to_client' \in [Clients -> Seq(Part)]
        /\ server_tx' \in [Clients -> Seq(Sent)]
    BY <1>4, <1>6, <1>7, <2>1, Nothing DEF IInv, TypeInv
  <2> QED
    BY <1>7, <1>14, <2>2 DEF IInv, TypeInv, clientVars, engineVars
<1>17. Sockets'
  BY <1>7 DEF IInv, Sockets
<1>18. TimesOK(c)
  BY DEF IInv
<1>19. ClientsInTime(pending_requests)'
  <2> SUFFICES ASSUME NEW i \in 1 .. Len(pending_requests'), NEW j \in 1 .. Len(pending_requests'),
                      i <= j,
                      pending_requests'[i].request.client = pending_requests'[j].request.client
               PROVE  pending_requests'[i].t_rx <= pending_requests'[j].t_rx
    BY DEF ClientsInTime
  <2>1. i \in 1 .. Len(pending) + Len(w) /\ j \in 1 .. Len(pending) + Len(w)
    BY <1>14
  <2>2. CASE j <= Len(pending)
    <3>1. i \in 1 .. Len(pending) /\ j \in 1 .. Len(pending)
      BY <1>9, <2>1, <2>2
    <3>2. pending_requests'[i] = pending[i] /\ pending_requests'[j] = pending[j]
      BY <1>15, <3>1
    <3> QED
      BY <1>9, <3>1, <3>2 DEF ClientsInTime
  <2>3. CASE ~ (j <= Len(pending))
    <3>1. k > 0 /\ pending_requests'[j].t_rx = stream[k].t
          /\ pending_requests'[j].request.client = c
      BY <1>15, <2>1, <2>3
    <3>2. k \in 1 .. Len(stream) /\ stream[k].t \in Nat
      <4>1. k \in 1 .. Len(stream)
        BY <1>10, <3>1 DEF stream
      <4> QED
        BY <1>1, <4>1, TimesAreNumbers
    <3>3. CASE i <= Len(pending)
      <4>1. i \in 1 .. Len(pending)
        BY <1>9, <2>1, <3>3
      <4>2. pending_requests'[i] = pending[i] /\ pending[i].request.client = c
        BY <1>15, <3>1, <4>1
      <4>3. pending[i].t_rx <= stream[k].t
        BY <1>18, <3>2, <4>1, <4>2 DEF TimesOK, stream, pending
      <4> QED
        BY <3>1, <4>2, <4>3
    <3>4. CASE ~ (i <= Len(pending))
      <4>1. pending_requests'[i].t_rx = stream[k].t
        BY <1>15, <2>1, <3>4
      <4> QED
        BY <3>1, <3>2, <4>1
    <3> QED
      BY <3>3, <3>4
  <2> QED
    BY <2>2, <2>3
<1>20. ASSUME NEW r \in Request, Accounted(r)
       PROVE  Accounted(r)'
  <2>1. r.client \in Clients /\ r.n \in Nat
    BY DEF Request
  <2>2. rx_n_seq[r.client] \in Nat /\ rx_n_seq'[r.client] \in Nat
        /\ rx_n_seq[r.client] <= rx_n_seq'[r.client]
    <3>1. CASE r.client = c
      BY <1>1, <1>8, <1>10, <3>1 DEF n
    <3>2. CASE r.client # c
      <4>1. rx_n_seq'[r.client] = rx_n_seq[r.client]
        BY <1>8, <2>1, <3>2
      <4>2. rx_n_seq[r.client] \in Nat
        BY <2>1 DEF IInv, TypeInv
      <4> QED
        BY <4>1, <4>2
    <3> QED
      BY <3>1, <3>2
  <2> QED
    BY <1>20, <2>1, <2>2 DEF Accounted
<1>21. (\A i \in 1 .. Len(rx_requests) : Accounted(rx_requests[i]))'
  <2> SUFFICES ASSUME NEW i \in 1 .. Len(rx_requests')
               PROVE  Accounted(rx_requests[i])'
    OBVIOUS
  <2>1. rx_requests' = rx_requests
    BY <1>7 DEF engineVars
  <2>2. rx_requests[i] \in Request /\ Accounted(rx_requests[i])
    BY <2>1, ElementOfSeq DEF IInv, TypeInv
  <2> DEFINE r == rx_requests[i]
  <2>3. r \in Request /\ r.n \in 1 .. rx_n_seq[r.client] - 1
    BY <2>2 DEF Accounted
  <2>4. r.n \in 1 .. rx_n_seq'[r.client] - 1
    <3> HIDE DEF r
    <3> QED
      BY <1>20, <2>3 DEF Accounted
  <2> QED
    BY <2>1, <2>4 DEF Accounted
<1>22. (\A i \in 1 .. Len(pending_requests) : Accounted(pending_requests[i].request))'
  <2> SUFFICES ASSUME NEW i \in 1 .. Len(pending_requests')
               PROVE  Accounted(pending_requests[i].request)'
    OBVIOUS
  <2> DEFINE r == pending_requests'[i].request
  <2>1. i \in 1 .. Len(pending) + Len(w)
    BY <1>14
  <2>2. r.n \in 1 .. rx_n_seq'[r.client] - 1
    <3>1. CASE i <= Len(pending)
      <4>1. i \in 1 .. Len(pending)
        BY <1>9, <2>1, <3>1
      <4>2. r = pending[i].request
        BY <1>15, <4>1
      <4>3. r \in Request
        <5>1. pending[i] \in Pending
          BY <1>9, <4>1, ElementOfSeq
        <5> QED
          BY <4>2, <5>1 DEF Pending
      <4>4. r.n \in 1 .. rx_n_seq[r.client] - 1
        BY <4>1, <4>2 DEF IInv, Accounted, pending
      <4> HIDE DEF r
      <4> QED
        BY <1>20, <4>3, <4>4 DEF Accounted
    <3>2. CASE ~ (i <= Len(pending))
      <4>1. i - Len(pending) \in 1 .. Len(w) /\ r = w[i - Len(pending)].request
        BY <1>15, <2>1, <3>2
      <4>2. PICK j \in 1 .. Len(w) : r = w[j].request
        BY <4>1
      <4>3. r.client = c /\ r.n = n + j - 1
        BY <1>11, <4>2
      <4> HIDE DEF r
      <4>4. n + j - 1 \in 1 .. n + Len(w) - 1
        BY <1>1, <1>10
      <4>5. rx_n_seq'[r.client] = n + Len(w)
        BY <1>8, <4>3
      <4> QED
        BY <1>1, <1>10, <4>3, <4>4, <4>5
    <3> QED
      BY <3>1, <3>2
  <2> QED
    BY <2>2 DEF Accounted
<1>23. RequestsIn(pending_requests') = RequestsIn(pending) \o RequestsOf(w)
  <2>1. RequestsIn(pending \o pushed) = RequestsIn(pending) \o RequestsIn(pushed)
    BY <1>9, <1>13, RequestsInConcat
  <2>2. RequestsIn(pushed) = RequestsOf(w)
    <3>1. /\ RequestsIn(pushed) \in Seq(Request) /\ Len(RequestsIn(pushed)) = Len(pushed)
          /\ \A i \in 1 .. Len(pushed) : RequestsIn(pushed)[i] = pushed[i].request
      BY <1>13, RequestsInType
    <3>2. /\ Len(RequestsIn(pushed)) = Len(RequestsOf(w))
          /\ \A i \in 1 .. Len(RequestsIn(pushed)) : RequestsIn(pushed)[i] = RequestsOf(w)[i]
      BY <1>12, <1>13, <3>1
    <3> QED
      BY <1>12, <3>1, <3>2, SeqEqual
  <2> QED
    BY <1>7, <2>1, <2>2
<1>24. RequestsIn(pending) \in Seq(Request)
  BY <1>9, RequestsInType
<1>25. ASSUME NEW d \in Clients
       PROVE  /\ OfClient(RequestsIn(pending_requests'), d)
                   = OfClient(RequestsIn(pending), d) \o OfClient(RequestsOf(w), d)
              /\ d # c => OfClient(RequestsIn(pending_requests'), d) = OfClient(RequestsIn(pending), d)
              /\ OfClient(RequestsOf(w), c) = RequestsOf(w)
  <2>1. OfClient(RequestsIn(pending_requests'), d)
          = OfClient(RequestsIn(pending), d) \o OfClient(RequestsOf(w), d)
    BY <1>12, <1>23, <1>24, OfClientConcat
  <2>2. \A i \in 1 .. Len(RequestsOf(w)) : RequestsOf(w)[i].client = c
    BY <1>11, <1>12
  <2>3. OfClient(RequestsOf(w), c) = RequestsOf(w)
    BY <1>12, <2>2, OfClientAllOrNone
  <2>4. ASSUME d # c
        PROVE  OfClient(RequestsIn(pending_requests'), d) = OfClient(RequestsIn(pending), d)
    <3>1. \A i \in 1 .. Len(RequestsOf(w)) : RequestsOf(w)[i].client # d
      BY <2>2, <2>4
    <3>2. OfClient(RequestsOf(w), d) = <<>>
      BY <1>12, <3>1, OfClientAllOrNone
    <3>3. OfClient(RequestsIn(pending), d) \in Seq(Request)
      BY <1>24, OfClientType
    <3> QED
      BY <2>1, <3>2, <3>3, ConcatEmptySeq
  <2> QED
    BY <2>1, <2>3, <2>4
<1>26. ASSUME NEW d \in Clients, d # c
       PROVE  (Counted(d) /\ UpstreamOK(d) /\ TimesOK(d) /\ AcceptedOK(d) /\ DownstreamOK(d))'
  <2>1. UNCHANGED <<UpstreamVars(d), DownstreamVars(d), engineVars, to_server[d], now,
                    rx_requests, rx_n_seq[d], n_loaded[d], n_requested[d]>>
    BY <1>7, <1>26 DEF UpstreamVars, DownstreamVars, clientVars, engineVars
  <2>2. (Counted(d) /\ UpstreamOK(d) /\ DownstreamOK(d))'
    BY <2>1, Frames DEF IInv
  <2>3. TimesOK(d)'
    <3>1. TimesOK(d)
      BY DEF IInv
    <3>2. \A m \in 1 .. Len(pending_requests') :
            pending_requests'[m].request.client = d =>
              m \in 1 .. Len(pending) /\ pending_requests'[m] = pending[m]
      <4> SUFFICES ASSUME NEW m \in 1 .. Len(pending_requests'),
                          pending_requests'[m].request.client = d
                   PROVE  m \in 1 .. Len(pending) /\ pending_requests'[m] = pending[m]
        OBVIOUS
      <4>1. m \in 1 .. Len(pending) + Len(w)
        BY <1>14
      <4>2. m <= Len(pending)
        BY <1>15, <1>26, <4>1
      <4>3. m \in 1 .. Len(pending)
        BY <1>9, <4>1, <4>2
      <4> QED
        BY <1>15, <4>3
    <3>3. to_server'[d] = to_server[d] /\ now' = now
      BY <2>1
    <3>4. \A m \in 1 .. Len(pending_requests') :
            pending_requests'[m].request.client = d =>
              /\ pending_requests'[m].t_rx <= now
              /\ \A i \in 1 .. Len(to_server[d]) :
                   pending_requests'[m].t_rx <= to_server[d][i].t
      BY <3>1, <3>2 DEF TimesOK, pending
    <3> QED
      BY <3>1, <3>3, <3>4 DEF TimesOK
  <2>4. AcceptedOK(d)'
    <3>1. OfClient(RequestsIn(pending_requests'), d) = OfClient(RequestsIn(pending_requests), d)
      BY <1>25, <1>26 DEF pending
    <3>2. rx_requests' = rx_requests /\ rx_n_seq'[d] = rx_n_seq[d]
      BY <2>1
    <3> QED
      BY <3>1, <3>2 DEF IInv, AcceptedOK
  <2> QED
    BY <2>2, <2>3, <2>4
<1>27. Counted(c)'
  <2>1. UNCHANGED <<n_loaded[c], n_requested[c]>>
    BY <1>7 DEF clientVars
  <2> QED
    BY <2>1, Frames DEF IInv
<1>28. UpstreamOK(c)'
  <2>1. Upstream(c)' = u
    <3>1. client_tx'[c] = tx
      BY <1>7 DEF clientVars, tx
    <3> QED
      BY <1>8, <3>1 DEF Upstream, u
  <2>2. n_loaded[c] + 1 = n + Len(w) + Len(u)
    <3>1. n_loaded[c] + 1 = n + Len(w \o u)
      BY <1>2, <1>4
    <3> QED
      BY <1>1, <1>10, <3>1
  <2>3. n_loaded'[c] = n_loaded[c]
    BY <1>7 DEF clientVars
  <2> QED
    BY <1>4, <1>8, <1>11, <2>1, <2>2, <2>3 DEF UpstreamOK
<1>29. TimesOK(c)'
  <2> DEFINE left == Left(stream, k)
  <2>1. /\ \A i, j \in 1 .. Len(stream) : i <= j => stream[i].t <= stream[j].t
        /\ \A i \in 1 .. Len(stream) : stream[i].t <= now
        /\ \A m \in 1 .. Len(pending) : pending[m].request.client = c =>
             /\ pending[m].t_rx <= now
             /\ \A i \in 1 .. Len(stream) : pending[m].t_rx <= stream[i].t
    BY <1>18 DEF TimesOK, stream, pending
  <2>2. k \in 0 .. Len(stream)
    BY DEF stream
  <2>3. \A i \in 1 .. Len(left) : k + i \in 1 .. Len(stream) /\ left[i] = stream[k + i]
    <3>1. Len(left) = Len(stream) - k /\ \A i \in 1 .. Len(stream) - k : left[i] = stream[k + i]
      BY <1>4
    <3> HIDE DEF left
    <3>2. \A i \in 1 .. Len(stream) - k : k + i \in 1 .. Len(stream)
      BY <1>10, <2>2
    <3> QED
      BY <3>1, <3>2
  <2>4. to_server'[c] = left /\ now' = now
    BY <1>7, <1>8
  <2>5. Len(left) \in Nat
    BY <1>4, LenProperties
  <2> HIDE DEF left
  <2>6. \A i, j \in 1 .. Len(left) : i <= j => left[i].t <= left[j].t
    <3> SUFFICES ASSUME NEW i \in 1 .. Len(left), NEW j \in 1 .. Len(left), i <= j
                 PROVE  left[i].t <= left[j].t
      OBVIOUS
    <3>1. PICK x \in 1 .. Len(stream) : x = k + i /\ left[i] = stream[x]
      BY <2>3
    <3>2. PICK y \in 1 .. Len(stream) : y = k + j /\ left[j] = stream[y]
      BY <2>3
    <3>3. x <= y
      BY <2>2, <3>1, <3>2
    <3> QED
      BY <2>1, <3>1, <3>2, <3>3
  <2>7. \A i \in 1 .. Len(left) : left[i].t <= now
    BY <2>1, <2>3
  <2>8. ASSUME NEW m \in 1 .. Len(pending_requests'),
               pending_requests'[m].request.client = c
        PROVE  /\ pending_requests'[m].t_rx <= now
               /\ \A i \in 1 .. Len(left) : pending_requests'[m].t_rx <= left[i].t
    <3>1. m \in 1 .. Len(pending) + Len(w)
      BY <1>14
    <3>2. CASE m <= Len(pending)
      <4>1. m \in 1 .. Len(pending)
        BY <1>9, <3>1, <3>2
      <4>2. pending_requests'[m] = pending[m]
        BY <1>15, <4>1
      <4> QED
        BY <2>1, <2>3, <2>8, <4>1, <4>2
    <3>3. CASE ~ (m <= Len(pending))
      <4>1. k > 0 /\ pending_requests'[m].t_rx = stream[k].t
        BY <1>15, <3>1, <3>3
      <4>2. k \in 1 .. Len(stream)
        BY <1>10, <2>2, <4>1
      <4>3. \A i \in 1 .. Len(left) : stream[k].t <= left[i].t
        <5> SUFFICES ASSUME NEW i \in 1 .. Len(left)
                     PROVE  stream[k].t <= left[i].t
          OBVIOUS
        <5>1. PICK x \in 1 .. Len(stream) : x = k + i /\ left[i] = stream[x]
          BY <2>3
        <5>2. k <= x
          BY <4>2, <5>1
        <5> QED
          BY <2>1, <4>2, <5>1, <5>2
      <4> QED
        BY <2>1, <4>1, <4>2, <4>3
    <3> QED
      BY <3>2, <3>3
  <2> QED
    BY <2>4, <2>6, <2>7, <2>8 DEF TimesOK
<1>30. AcceptedOK(c)'
  <2> DEFINE x == OfClient(rx_requests, c)
             y == OfClient(RequestsIn(pending), c)
             z == RequestsOf(w)
  <2>1. x \in Seq(Request) /\ y \in Seq(Request) /\ z \in Seq(Request)
    BY <1>12, <1>24, OfClientType DEF IInv, TypeInv
  <2>2. x \o y = FirstRequests(c, n - 1)
    BY DEF IInv, AcceptedOK, n, pending
  <2>3. OfClient(RequestsIn(pending_requests'), c) = y \o z
    BY <1>25
  <2>4. OfClient(rx_requests', c) = x
    BY <1>7 DEF engineVars
  <2>5. Len(z) = Len(w) /\ \A i \in 1 .. Len(w) : z[i] = [client |-> c, n |-> n + i - 1]
    <3>1. \A i \in 1 .. Len(w) : w[i].request = [client |-> c, n |-> n + i - 1]
      <4> SUFFICES ASSUME NEW i \in 1 .. Len(w)
                   PROVE  w[i].request = [client |-> c, n |-> n + i - 1]
        OBVIOUS
      <4> DEFINE r == w[i].request
      <4>1. r \in Request /\ r.client = c /\ r.n = n + i - 1
        BY <1>11
      <4>2. r = [client |-> r.client, n |-> r.n]
        <5> HIDE DEF r
        <5> QED
          BY <4>1 DEF Request
      <4> HIDE DEF r
      <4>3. r = [client |-> c, n |-> n + i - 1]
        BY <4>1, <4>2
      <4> QED
        BY <4>3 DEF r
    <3> QED
      BY <1>12, <3>1
  <2> HIDE DEF x, y, z
  <2>6. FirstRequests(c, n - 1) \o z = FirstRequests(c, n - 1 + Len(w))
    <3> DEFINE a == FirstRequests(c, n - 1)
               b == FirstRequests(c, n - 1 + Len(w))
    <3>1. n - 1 \in Nat /\ n - 1 + Len(w) \in Nat
      BY <1>1, <1>10
    <3>2. a \in Seq(Request) /\ Len(a) = n - 1
          /\ \A i \in 1 .. n - 1 : a[i] = [client |-> c, n |-> i]
      BY <3>1, FirstRequestsAre
    <3>3. b \in Seq(Request) /\ Len(b) = n - 1 + Len(w)
          /\ \A i \in 1 .. n - 1 + Len(w) : b[i] = [client |-> c, n |-> i]
      BY <3>1, FirstRequestsAre
    <3> HIDE DEF a, b
    <3>4. /\ a \o z \in Seq(Request) /\ Len(a \o z) = n - 1 + Len(w)
          /\ \A i \in 1 .. n - 1 + Len(w) :
               (a \o z)[i] = IF i <= n - 1 THEN a[i] ELSE z[i - (n - 1)]
      BY <2>1, <2>5, <3>2, ConcatProperties
    <3>5. ASSUME NEW i \in 1 .. n - 1 + Len(w)
          PROVE  (a \o z)[i] = b[i]
      <4>1. CASE i <= n - 1
        <5>1. i \in 1 .. n - 1
          BY <3>1, <4>1
        <5>2. (a \o z)[i] = a[i]
          BY <3>4, <4>1
        <5> QED
          BY <3>2, <3>3, <5>1, <5>2
      <4>2. CASE ~ (i <= n - 1)
        <5>1. PICK j \in 1 .. Len(w) : j = i - (n - 1)
          BY <1>1, <1>10, <4>2
        <5>2. (a \o z)[i] = z[j]
          BY <3>4, <4>2, <5>1
        <5>3. n + j - 1 = i
          BY <1>1, <5>1
        <5> QED
          BY <2>5, <3>3, <5>2, <5>3
      <4> QED
        BY <4>1, <4>2
    <3>6. a \o z = b
      BY <3>3, <3>4, <3>5, SeqEqual
    <3> QED
      BY <3>6 DEF a, b
  <2>7. x \o (y \o z) = (x \o y) \o z
    BY SMTT(30), <2>1, ConcatAssociative
  <2>8. n + Len(w) - 1 = n - 1 + Len(w)
    BY <1>1, <1>10
  <2>9. x \o (y \o z) = FirstRequests(c, rx_n_seq'[c] - 1)
    <3>1. rx_n_seq'[c] - 1 = n - 1 + Len(w)
      BY <1>1, <1>8, <1>10, <2>8
    <3>2. x \o (y \o z) = FirstRequests(c, n - 1 + Len(w))
      BY <2>2, <2>6, <2>7
    <3> QED
      BY <3>1, <3>2
  <2> QED
    BY <2>3, <2>4, <2>9 DEF AcceptedOK
<1>31. DownstreamOK(c)'
  <2>1. OnTheWay(c)' = OnTheWay(c)
    <3>1. client_rx'[c] = down_rx
      BY <1>7 DEF clientVars, down_rx
    <3>2. OnTheWay(c)' = Whole(down_rx \o sent) \o <<>>
      BY <1>8, <3>1 DEF OnTheWay
    <3>3. OnTheWay(c) \in Seq(Sent)
      BY Typed DEF IInv
    <3>4. OnTheWay(c)' = OnTheWay(c) \o <<>>
      BY <1>6, <3>2
    <3> QED
      BY <3>3, <3>4, ConcatEmptySeq
  <2>2. /\ client_rx'[c] = down_rx /\ to_client'[c] = sent
        /\ n_seq_next_expected'[c] = n_seq_next_expected[c] /\ tx_n_seq' = tx_n_seq
        /\ tx_responses'[c] = tx_responses[c]
        /\ rx_responses' = rx_responses /\ answers' = answers
    BY <1>7, <1>8 DEF clientVars, engineVars, down_rx
  <2>3. /\ Len(down_rx) < 2 /\ Consecutive(OnTheWay(c), c, n_seq_next_expected[c])
        /\ tx_n_seq[c] = n_seq_next_expected[c] + Len(OnTheWay(c))
        /\ (tx_responses[c] \o RequestsOf(OnTheWay(c))) \o OfClient(rx_responses, c)
             = OfClient(answers, c)
    BY DEF IInv, DownstreamOK, down_rx
  <2> QED
    BY <1>6, <2>1, <2>2, <2>3 DEF DownstreamOK
<1> QED
  BY <1>16, <1>17, <1>19, <1>21, <1>22, <1>26, <1>27, <1>28, <1>29, <1>30, <1>31 DEF IInv

LEMMA Stutter ==
  ASSUME IInv, UNCHANGED vars
  PROVE  IInv'
<1> USE DEF vars, clientVars, socketVars, gatewayVars, engineVars
<1>1. TypeInv' /\ Sockets'
  BY DEF IInv, TypeInv, Sockets
<1>2. /\ ClientsInTime(pending_requests)'
      /\ (\A i \in 1 .. Len(rx_requests) : Accounted(rx_requests[i]))'
      /\ (\A i \in 1 .. Len(pending_requests) : Accounted(pending_requests[i].request))'
  BY DEF IInv, ClientsInTime, Accounted
<1>3. ASSUME NEW c \in Clients
      PROVE  (Counted(c) /\ UpstreamOK(c) /\ TimesOK(c) /\ AcceptedOK(c) /\ DownstreamOK(c))'
  <2>1. UNCHANGED <<UpstreamVars(c), DownstreamVars(c), engineVars, to_server[c], pending_requests,
                    now, rx_requests, rx_n_seq[c], n_loaded[c], n_requested[c]>>
    BY DEF UpstreamVars, DownstreamVars
  <2> QED
    BY <2>1, Frames DEF IInv
<1> QED
  BY <1>1, <1>2, <1>3 DEF IInv

LEMMA PassStep ==
  ASSUME IInv, NEW k \in Readable(IF loop.left = <<>> THEN <<>> ELSE to_server[Head(loop.left)]),
         RxPass(k) \/ TxPass(k)
  PROVE  IInv'
<1> DEFINE c == Head(loop.left)
<1>1. loop.left # <<>> /\ SocketTxRx(c, k)
  BY DEF RxPass, TxPass
<1>2. loop \in [at : {"poll", "rx", "tx"}, left : Seq(Clients), receiving : BOOLEAN]
  BY DEF IInv, TypeInv
<1>3. c \in Clients /\ Tail(loop.left) \in Seq(Clients)
  <2>1. loop.left \in Seq(Clients)
    BY <1>2
  <2> QED
    BY <1>1, <2>1, HeadTailProperties
<1>4. k \in 0 .. Len(to_server[c])
  <2>1. k \in Readable(to_server[c])
    BY <1>1
  <2>2. to_server[c] \in Seq(Part)
    BY <1>3, Typed DEF IInv
  <2> HIDE DEF c
  <2> QED
    BY <2>1, <2>2, ReadableIs
<1>5. loop' \in [at : {"poll", "rx", "tx"}, left : Seq(Clients), receiving : BOOLEAN]
  <2>1. CASE RxPass(k)
    <3>1. loop' = [loop EXCEPT !.left = Tail(loop.left), !.receiving = loop.receiving \/ k > 0]
      BY <2>1 DEF RxPass
    <3>2. (loop.receiving \/ k > 0) \in BOOLEAN
      OBVIOUS
    <3> QED
      BY <1>2, <1>3, <3>1, <3>2
  <2>2. CASE TxPass(k)
    <3>1. loop' = [loop EXCEPT !.left = Tail(loop.left)]
      BY <2>2 DEF TxPass
    <3> QED
      BY <1>2, <1>3, <3>1
  <2> QED
    BY <2>1, <2>2
<1> HIDE DEF c
<1> QED
  BY <1>1, <1>3, <1>4, <1>5, SocketTxRxStep

LEMMA NextIInv ==
  ASSUME IInv, FewPending, [Next]_vars
  PROVE  IInv'
<1>1. ASSUME NEW c \in Clients, SendRequest(c)
      PROVE  IInv'
  BY <1>1, SendRequestStep
<1>2. ASSUME NEW c \in Clients, NEW k \in Readable(to_client[c]), ClientPass(c, k)
      PROVE  IInv'
  BY <1>2, ClientPassStep
<1>3. ASSUME NEW new \in Connecting, Poll(new)
      PROVE  IInv'
  BY <1>3, PollStep
<1>4. ASSUME NEW k \in Readable(IF loop.left = <<>> THEN <<>> ELSE to_server[Head(loop.left)]),
             RxPass(k) \/ TxPass(k)
      PROVE  IInv'
  BY <1>4, PassStep
<1>5. CASE RxDone
  BY <1>5, RxDoneStep
<1>6. CASE LoadResponses
  BY <1>6, LoadResponsesStep
<1>7. CASE Process
  BY <1>7, ProcessStep
<1>8. CASE UNCHANGED vars
  BY <1>8, Stutter
<1> QED
  BY <1>1, <1>2, <1>3, <1>4, <1>5, <1>6, <1>7, <1>8 DEF Next, Server

LEMMA Invariance == Spec /\ []FewPending => []IInv
  BY InitIInv, NextIInv, PTL DEF Spec

-----------------------------------------------------------------------------
(* Every state keeps the type invariant: no client has loaded more than it *)
(* has queued, a buffer never keeps more than half a message, no socket is *)
(* registered twice, and the matching engine gets only requests that were  *)
(* made.                                                                   *)
THEOREM TypeCorrect == Spec /\ []FewPending => []TypeOK
<1>1. IInv => TypeOK
  <2> SUFFICES ASSUME IInv
               PROVE  TypeOK
    OBVIOUS
  <2>1. \A c \in Clients : n_loaded[c] <= n_requested[c] /\ n_requested[c] <= MaxRequests[c]
    BY DEF IInv, Counted
  <2>2. \A c \in Clients : Len(server_rx[c]) < 2 /\ Len(client_rx[c]) < 2
    BY DEF IInv, UpstreamOK, DownstreamOK
  <2>3. DOMAIN rx_sockets = 1 .. Len(rx_sockets) /\ DOMAIN tx_sockets = 1 .. Len(tx_sockets)
        /\ DOMAIN rx_requests = 1 .. Len(rx_requests)
    BY LenProperties DEF IInv, TypeInv
  <2>4. IsInjective(rx_sockets) /\ ToSet(tx_sockets) \subseteq ToSet(rx_sockets)
    BY SMTT(30), <2>3 DEF IInv, Sockets, IsInjective, ToSet
  <2>5. loop.at \in {"poll", "rx", "tx"} /\ n_processed \in 0 .. Len(rx_requests)
    BY DEF IInv, TypeInv
  <2>6. ASSUME NEW i \in 1 .. Len(rx_requests)
        PROVE  rx_requests[i] \in Requests
    <3> DEFINE r == rx_requests[i]
               c == r.client
    <3>1. r \in Request /\ r.n \in 1 .. rx_n_seq[c] - 1
      BY ElementOfSeq DEF IInv, TypeInv, Accounted
    <3>2. c \in Clients /\ r.n \in Nat /\ r = [client |-> c, n |-> r.n]
      <4> HIDE DEF r
      <4> QED
        BY <3>1 DEF Request
    <3> HIDE DEF r, c
    <3>3. /\ n_loaded[c] \in Nat /\ n_requested[c] \in Nat /\ rx_n_seq[c] \in Nat
          /\ Len(Upstream(c)) \in Nat /\ MaxRequests[c] \in Nat
      BY <3>2, Typed, LenProperties, GatewayAssumption DEF IInv
    <3>4. n_loaded[c] + 1 = rx_n_seq[c] + Len(Upstream(c))
      BY <3>2 DEF IInv, UpstreamOK
    <3>5. n_loaded[c] <= n_requested[c] /\ n_requested[c] <= MaxRequests[c]
      BY <2>1, <3>2
    <3>6. r.n \in 1 .. MaxRequests[c]
      BY <3>1, <3>2, <3>3, <3>4, <3>5
    <3>7. r \in [client : {c}, n : 1 .. MaxRequests[c]]
      BY <3>2, <3>6
    <3> QED
      BY <3>2, <3>7 DEF Requests, r
  <2>7. ToSet(rx_requests) \subseteq Requests
    BY <2>3, <2>6 DEF ToSet
  <2> QED
    BY <2>1, <2>2, <2>4, <2>5, <2>7 DEF TypeOK
<1> QED
  BY <1>1, Invariance, PTL

(* FIFOSequencer and the rx_callbacks together: the matching engine gets   *)
(* the requests of every client once each and in the order they were made, *)
(* wherever the reads cut the streams and whatever has the same time.      *)
THEOREM RequestsKeepTheirOrder == Spec /\ []FewPending => []RequestsInOrder
<1>1. IInv => RequestsInOrder
  <2> SUFFICES ASSUME IInv, NEW c \in Clients, NEW i \in DOMAIN OfClient(rx_requests, c)
               PROVE  OfClient(rx_requests, c)[i].n = i
    BY DEF RequestsInOrder
  <2> DEFINE x == OfClient(rx_requests, c)
             y == OfClient(RequestsIn(pending_requests), c)
             k == rx_n_seq[c] - 1
  <2>1. x \in Seq(Request) /\ y \in Seq(Request) /\ k \in Nat
    <3>1. rx_requests \in Seq(Request) /\ pending_requests \in Seq(Pending)
      BY DEF IInv, TypeInv
    <3>2. RequestsIn(pending_requests) \in Seq(Request)
      BY <3>1, RequestsInType
    <3>3. rx_n_seq[c] \in Nat \ {0}
      BY Typed DEF IInv
    <3> QED
      BY <3>1, <3>2, <3>3, OfClientType
  <2>2. x \o y = FirstRequests(c, k)
    BY DEF IInv, AcceptedOK
  <2>3. i \in DOMAIN x
    OBVIOUS
  <2> HIDE DEF x, y, k
  <2>4. /\ Len(x \o y) = Len(x) + Len(y)
        /\ \A j \in 1 .. Len(x) + Len(y) : (x \o y)[j] = IF j <= Len(x) THEN x[j] ELSE y[j - Len(x)]
        /\ Len(x) \in Nat /\ Len(y) \in Nat /\ DOMAIN x = 1 .. Len(x)
    BY <2>1, ConcatProperties, LenProperties
  <2>5. i \in 1 .. Len(x) + Len(y) /\ i <= Len(x)
    BY <2>3, <2>4
  <2>6. (x \o y)[i] = x[i]
    BY <2>4, <2>5
  <2>7. /\ Len(FirstRequests(c, k)) = k
        /\ \A j \in 1 .. k : FirstRequests(c, k)[j] = [client |-> c, n |-> j]
    BY <2>1, FirstRequestsAre
  <2>8. i \in 1 .. k
    BY <2>2, <2>4, <2>5, <2>7
  <2>9. x[i] = [client |-> c, n |-> i]
    BY <2>2, <2>6, <2>7, <2>8
  <2> QED
    BY <2>9 DEF x
<1> QED
  BY <1>1, Invariance, PTL

(* The way back: no response is lost, repeated or refused.  What a client  *)
(* has got, what comes to it and will be accepted, and what the server has *)
(* still to load are the matching engine's answers to it, in their order.  *)
THEOREM ResponsesKeepTheirOrder == Spec /\ []FewPending => []ResponsesInOrder
<1>1. IInv => ResponsesInOrder
  <2> SUFFICES ASSUME IInv, NEW c \in Clients
               PROVE  tx_responses[c] \o Accepted(OnTheWay(c), c, n_seq_next_expected[c]).requests
                        \o ResponsesFor(c)
                        = OfClient(answers, c)
    BY DEF ResponsesInOrder
  <2>1. OnTheWay(c) \in Seq(Sent) /\ n_seq_next_expected[c] \in Nat
    BY Typed DEF IInv
  <2>2. Consecutive(OnTheWay(c), c, n_seq_next_expected[c])
    BY DEF IInv, DownstreamOK
  <2>3. Accepted(OnTheWay(c), c, n_seq_next_expected[c]).requests = RequestsOf(OnTheWay(c))
    BY <2>1, <2>2, AllAccepted
  <2> QED
    BY <2>3 DEF IInv, DownstreamOK, ResponsesFor
<1> QED
  BY <1>1, Invariance, PTL
=============================================================================
