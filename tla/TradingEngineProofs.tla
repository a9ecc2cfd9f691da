-------------------------- MODULE TradingEngineProofs --------------------------
(***************************************************************************)
(* TradingEngine with the managed orders themselves (Direct), for any      *)
(* offers, quantities and limits, and any number of orders and messages.   *)
(*                                                                         *)
(* That a side never has two orders out is not inductive: what the manager *)
(* does next depends on the state it keeps, so the invariant says for      *)
(* every state of a managed order which of its messages are on their way   *)
(* and what rests on the exchange.                                         *)
(*                                                                         *)
(* That the books balance is proved for copies of the orders too.  It      *)
(* needs what each fill does to the realised profit and to the cost of the *)
(* open position, and that Ratio is one value for each number.             *)
(***************************************************************************)
EXTENDS TradingEngine, SequenceTheorems, FiniteSetTheorems, WellFoundedInduction, TLAPS

Price == Int \cup {None}

ManagedOrder ==
  [id: Nat \cup {None}, price: Price, qty: Nat \cup {None},
   state: {"INVALID", "PENDING_NEW", "LIVE", "PENDING_CANCEL", "DEAD"}]

Request == [type: {"NEW", "CANCEL"}, side: Sides, oid: Nat, price: Price, qty: Nat]

Answer ==
  [type: {"ACCEPTED", "FILLED", "CANCELLED"}, oid: Nat, side: Sides, price: Price,
   exec: Nat \cup {None}, leaves: Nat]
  \cup [type: {"CANCEL_REJECTED"}, oid: Nat, side: {"INVALID"}, price: {None},
        exec: {None}, leaves: {None}]

RestingOrder == [oid: Nat, side: Sides, price: Price, qty: Nat \ {0}]

TypeOK ==
  /\ order \in [Sides -> ManagedOrder]
  /\ next_oid \in Nat \ {0}
  /\ requests \in Seq(Request)
  /\ responses \in Seq(Answer)
  /\ resting \in SUBSET RestingOrder
  /\ "position" \in DOMAIN position /\ position.position \in Int

-----------------------------------------------------------------------------
(* What is out for a side: requests for a new order, responses, orders.    *)
Asked(side, reqs) == {i \in DOMAIN reqs : reqs[i].type = "NEW" /\ reqs[i].side = side}

Told(side, resps) == {i \in DOMAIN resps : resps[i].side = side}

Fills(side, resps) == {i \in Told(side, resps) : resps[i].type = "FILLED"}

Rests(side, rest) == {x \in rest : x.side = side}

(* The last response an order gets.                                        *)
Ends(response) ==
  \/ response.type = "CANCELLED"
  \/ response.type = "FILLED" /\ response.leaves = 0

(* The manager keeps no order for the side, and nothing is out.            *)
NothingOut(side, o, reqs, resps, rest) ==
  /\ o.state \in {"INVALID", "DEAD"}
  /\ Asked(side, reqs) = {} /\ Told(side, resps) = {} /\ Rests(side, rest) = {}

(* The order it keeps is on its way to the exchange, once.                 *)
OnItsWay(side, o, reqs, resps, rest) ==
  /\ o.state = "PENDING_NEW"
  /\ o.id \in Nat /\ o.qty = TradeSize
  /\ \E i \in DOMAIN reqs :
       /\ Asked(side, reqs) = {i}
       /\ reqs[i].oid = o.id /\ reqs[i].price = o.price /\ reqs[i].qty = TradeSize
  /\ Told(side, resps) = {} /\ Rests(side, rest) = {}

(* The fills on their way start from the quantity the manager knows of,    *)
(* each continues the one before, and the last leaves what rests.          *)
FillsConnect(side, o, resps, rest) ==
  /\ \A i \in Fills(side, resps) :
       /\ resps[i].exec \in Nat /\ resps[i].leaves \in Nat
       /\ (\A j \in Fills(side, resps) : i <= j) => o.qty = resps[i].exec + resps[i].leaves
       /\ \A j \in Fills(side, resps) :
            i < j /\ (\A k \in Fills(side, resps) : k <= i \/ j <= k)
              => resps[i].leaves = resps[j].exec + resps[j].leaves
       /\ (\A j \in Fills(side, resps) : j <= i) =>
            \A x \in Rests(side, rest) : x.qty = resps[i].leaves
  /\ Fills(side, resps) = {} => \A x \in Rests(side, rest) : x.qty = o.qty

OnTheWay(side, resps) ==
  [i \in DOMAIN resps |->
     IF resps[i].type = "FILLED" /\ resps[i].side = side THEN resps[i].exec ELSE 0]

(* The exchange has accepted it: it rests, or its last response is on its  *)
(* way.                                                                    *)
AtTheExchange(side, o, reqs, resps, rest) ==
  /\ o.state \in {"PENDING_NEW", "LIVE", "PENDING_CANCEL"}
  /\ o.id \in Nat /\ o.qty \in Nat
  /\ Asked(side, reqs) = {}
  /\ \A i, j \in Told(side, resps) : i < j => resps[j].type # "ACCEPTED"
  /\ o.state = "PENDING_NEW" <=> \E i \in Told(side, resps) : resps[i].type = "ACCEPTED"
  /\ \A i \in Told(side, resps) : Ends(resps[i]) =>
       /\ Rests(side, rest) = {}
       /\ \A j \in Told(side, resps) : j <= i
  /\ Rests(side, rest) = {} => \E i \in Told(side, resps) : Ends(resps[i])
  /\ \A x, y \in Rests(side, rest) : x = y
  /\ \A x \in Rests(side, rest) : x.oid = o.id /\ x.price = o.price
  /\ FillsConnect(side, o, resps, rest)
  /\ Total(OnTheWay(side, resps)) \in Int
  /\ Rests(side, rest) = {} => Total(OnTheWay(side, resps)) <= o.qty
  /\ \A x \in Rests(side, rest) : Total(OnTheWay(side, resps)) + x.qty <= o.qty

(* A request to cancel an order the exchange has is out exactly while the  *)
(* order is pending cancel.                                                *)
CancelsMatch(side, o, reqs, rest) ==
  /\ o.state \in {"PENDING_NEW", "LIVE"} =>
       \A i \in DOMAIN reqs : reqs[i].type = "CANCEL" => reqs[i].oid # o.id
  /\ o.state = "PENDING_CANCEL" /\ Rests(side, rest) # {} =>
       \E i \in DOMAIN reqs : reqs[i].type = "CANCEL" /\ reqs[i].oid = o.id

Accounted(side, o, reqs, resps, rest) ==
  \/ NothingOut(side, o, reqs, resps, rest)
  \/ OnItsWay(side, o, reqs, resps, rest)
  \/ AtTheExchange(side, o, reqs, resps, rest)

SideOK(side, o, reqs, resps, rest) ==
  Accounted(side, o, reqs, resps, rest) /\ CancelsMatch(side, o, reqs, rest)

(* Order ids are fresh.                                                    *)
IdsFresh(orders, next, reqs) ==
  /\ \A side \in Sides : orders[side].state # "INVALID" =>
       /\ orders[side].id \in Nat /\ orders[side].id < next
       /\ \A other \in Sides : other # side /\ orders[other].state # "INVALID" =>
            orders[other].id # orders[side].id
  /\ \A i \in DOMAIN reqs : reqs[i].oid < next

(* What is left of the order a side has out.                               *)
Claim(o) == IF o.state \in {"INVALID", "DEAD"} THEN 0 ELSE o.qty

(* The position has room for it.                                           *)
HasRoom(side, o, p) == side_to_value(side) * p + Claim(o) <= PositionMax

IInv ==
  /\ TypeOK
  /\ \A side \in Sides : SideOK(side, order[side], requests, responses, resting)
  /\ IdsFresh(order, next_oid, requests)
  /\ \A side \in Sides : HasRoom(side, order[side], position.position)

-----------------------------------------------------------------------------
(* Sums.                                                                   *)

LEMMA LeastNumber ==
  ASSUME NEW T \in SUBSET Nat, T # {}
  PROVE  \E n \in T : \A m \in T : n <= m
<1>1. PICK n \in T : \A m \in T : ~ (<<m, n>> \in OpToRel(<, Nat))
  BY NatLessThanWellFounded, WFMin
<1>2. \A m \in T : ~ (m < n)
  BY <1>1 DEF OpToRel
<1> QED
  BY <1>2

(* The total is what any running sum comes to.                             *)
LEMMA TotalIs ==
  ASSUME NEW s \in Seq(Int), NEW f \in [0 .. Len(s) -> Int], f[0] = 0,
         \A n \in 1 .. Len(s) : f[n] = f[n - 1] + s[n]
  PROVE  Total(s) = f[Len(s)]
<1> DEFINE upTo[n \in 0 .. Len(s)] == IF n = 0 THEN 0 ELSE upTo[n - 1] + s[n]
           bad == {n \in 0 .. Len(s) : upTo[n] # f[n]}
<1>1. f = [n \in 0 .. Len(s) |-> IF n = 0 THEN 0 ELSE f[n - 1] + s[n]]
  <2>1. \A n \in 0 .. Len(s) : n # 0 => n \in 1 .. Len(s)
    OBVIOUS
  <2> QED
    BY <2>1
<1>2. upTo = [n \in 0 .. Len(s) |-> IF n = 0 THEN 0 ELSE upTo[n - 1] + s[n]]
  BY <1>1 DEF upTo
<1>3. Total(s) = upTo[Len(s)]
  BY DEF Total
<1> HIDE DEF upTo
<1>4. upTo[0] = 0 /\ \A n \in 1 .. Len(s) : upTo[n] = upTo[n - 1] + s[n]
  <2>1. upTo[0] = 0
    BY <1>2
  <2>2. \A n \in 1 .. Len(s) : n \in 0 .. Len(s) /\ n # 0
    OBVIOUS
  <2> QED
    BY <1>2, <2>1, <2>2
<1>5. bad = {}
  <2> SUFFICES ASSUME bad # {}
               PROVE  FALSE
    OBVIOUS
  <2>1. bad \in SUBSET Nat
    OBVIOUS
  <2>2. PICK n \in bad : \A m \in bad : n <= m
    <3> HIDE DEF bad
    <3> QED
      BY <2>1, LeastNumber
  <2>3. n \in 1 .. Len(s)
    BY <1>4
  <2>4. n - 1 \notin bad /\ n - 1 \in 0 .. Len(s)
    BY <2>2, <2>3
  <2> QED
    BY <1>4, <2>3, <2>4
<1> QED
  BY <1>3, <1>5

(* Every sequence of integers has a running sum.                           *)
LEMMA RunningSum ==
  ASSUME NEW s \in Seq(Int)
  PROVE  \E f \in [0 .. Len(s) -> Int] :
           f[0] = 0 /\ \A n \in 1 .. Len(s) : f[n] = f[n - 1] + s[n]
<1> DEFINE Runs(f, k) == f[0] = 0 /\ \A n \in 1 .. k : f[n] = f[n - 1] + s[n]
           bad == {k \in 0 .. Len(s) : ~ \E f \in [0 .. k -> Int] : Runs(f, k)}
<1>1. bad = {}
  <2> SUFFICES ASSUME bad # {}
               PROVE  FALSE
    OBVIOUS
  <2>1. bad \in SUBSET Nat
    OBVIOUS
  <2>2. PICK k \in bad : \A m \in bad : k <= m
    <3> HIDE DEF bad
    <3> QED
      BY <2>1, LeastNumber
  <2>3. k # 0
    <3>1. [n \in 0 .. 0 |-> 0] \in [0 .. 0 -> Int] /\ Runs([n \in 0 .. 0 |-> 0], 0)
      OBVIOUS
    <3> QED
      BY <3>1
  <2>4. k \in 1 .. Len(s) /\ k - 1 \in 0 .. Len(s) /\ k - 1 \notin bad
    <3>1. k \in 1 .. Len(s)
      BY <2>3
    <3> HIDE DEF bad
    <3> QED
      BY <2>2, <3>1
  <2>5. PICK f \in [0 .. k - 1 -> Int] : Runs(f, k - 1)
    BY <2>4
  <2> DEFINE g == [n \in 0 .. k |-> IF n = k THEN f[k - 1] + s[k] ELSE f[n]]
  <2>6. s[k] \in Int /\ f[k - 1] \in Int
    BY <2>3, <2>4
  <2>7. g \in [0 .. k -> Int]
    BY <2>6
  <2>8. Runs(g, k)
    BY <2>3, <2>5
  <2> QED
    BY <2>7, <2>8
<1>2. Len(s) \notin bad
  BY <1>1
<1> QED
  BY <1>2

LEMMA TotalOfZeros ==
  ASSUME NEW s \in Seq(Int), \A n \in 1 .. Len(s) : s[n] = 0
  PROVE  Total(s) = 0
<1> DEFINE f == [n \in 0 .. Len(s) |-> 0]
<1>1. f \in [0 .. Len(s) -> Int] /\ f[0] = 0 /\ f[Len(s)] = 0
  OBVIOUS
<1>2. \A n \in 1 .. Len(s) : f[n] = f[n - 1] + s[n]
  OBVIOUS
<1> HIDE DEF f
<1> QED
  BY <1>1, <1>2, TotalIs

(* Only one of the amounts counts.                                         *)
LEMMA TotalOfOne ==
  ASSUME NEW s \in Seq(Int), NEW i \in 1 .. Len(s),
         \A n \in 1 .. Len(s) : n # i => s[n] = 0
  PROVE  Total(s) = s[i]
<1> DEFINE f == [n \in 0 .. Len(s) |-> IF n < i THEN 0 ELSE s[i]]
<1>1. f \in [0 .. Len(s) -> Int] /\ f[0] = 0 /\ f[Len(s)] = s[i]
  OBVIOUS
<1>2. \A n \in 1 .. Len(s) : f[n] = f[n - 1] + s[n]
  OBVIOUS
<1> HIDE DEF f
<1> QED
  BY <1>1, <1>2, TotalIs

LEMMA TotalOfAppended ==
  ASSUME NEW s \in Seq(Int), NEW x \in Int
  PROVE  Total(s) \in Int /\ Total(Append(s, x)) = Total(s) + x
<1> DEFINE t == Append(s, x)
<1>1. t \in Seq(Int) /\ Len(t) = Len(s) + 1 /\ t[Len(t)] = x
      /\ \A n \in 1 .. Len(s) : t[n] = s[n]
  OBVIOUS
<1> HIDE DEF t
<1>2. PICK f \in [0 .. Len(t) -> Int] :
        f[0] = 0 /\ \A n \in 1 .. Len(t) : f[n] = f[n - 1] + t[n]
  BY <1>1, RunningSum
<1>3. Total(t) = f[Len(t)]
  BY <1>1, <1>2, TotalIs
<1> DEFINE g == [n \in 0 .. Len(s) |-> f[n]]
<1>4. g \in [0 .. Len(s) -> Int] /\ g[0] = 0 /\ g[Len(s)] = f[Len(t) - 1]
      /\ \A n \in 1 .. Len(s) : g[n] = g[n - 1] + s[n]
  BY <1>1, <1>2
<1> HIDE DEF g
<1>5. Total(s) = g[Len(s)]
  BY <1>4, TotalIs
<1>6. f[Len(t)] = f[Len(t) - 1] + t[Len(t)] /\ f[Len(t) - 1] \in Int
  BY <1>1, <1>2
<1> QED
  BY <1>1, <1>3, <1>4, <1>5, <1>6 DEF t

LEMMA TotalOfTail ==
  ASSUME NEW s \in Seq(Int), s # <<>>
  PROVE  Total(Tail(s)) \in Int /\ Total(s) = s[1] + Total(Tail(s))
<1> DEFINE t == Tail(s)
<1>1. t \in Seq(Int) /\ Len(t) = Len(s) - 1 /\ s[1] \in Int
      /\ \A n \in 1 .. Len(t) : t[n] = s[n + 1]
  OBVIOUS
<1> HIDE DEF t
<1>2. PICK f \in [0 .. Len(t) -> Int] :
        f[0] = 0 /\ \A n \in 1 .. Len(t) : f[n] = f[n - 1] + t[n]
  BY <1>1, RunningSum
<1>3. Total(t) = f[Len(t)]
  BY <1>1, <1>2, TotalIs
<1> DEFINE g == [n \in 0 .. Len(s) |-> IF n = 0 THEN 0 ELSE s[1] + f[n - 1]]
<1>4. Len(s) \in Nat \ {0} /\ Len(t) \in Nat /\ f[Len(t)] \in Int
  <2>1. Len(s) \in Nat \ {0} /\ Len(t) \in Nat
    BY <1>1
  <2>2. Len(t) \in 0 .. Len(t)
    BY <2>1
  <2> QED
    BY <1>2, <2>1, <2>2
<1>5. g \in [0 .. Len(s) -> Int] /\ g[0] = 0 /\ g[Len(s)] = s[1] + f[Len(t)]
  BY <1>1, <1>2, <1>4
<1>6. \A n \in 1 .. Len(s) : g[n] = g[n - 1] + s[n]
  <2> SUFFICES ASSUME NEW n \in 1 .. Len(s)
               PROVE  g[n] = g[n - 1] + s[n]
    OBVIOUS
  <2>1. CASE n = 1
    BY <1>1, <1>2, <2>1
  <2>2. CASE n # 1
    <3>1. n - 1 \in 1 .. Len(t) /\ t[n - 1] = s[n]
      BY SMTT(30), <1>1, <1>4, <2>2
    <3>2. f[n - 1] = f[(n - 1) - 1] + t[n - 1]
      BY <1>2, <3>1
    <3>3. (n - 1) - 1 = n - 2 /\ n - 2 \in 0 .. Len(t)
      BY <1>4, <3>1
    <3>4. f[n - 2] \in Int
      BY <1>2, <3>3
    <3>5. s[n] \in Int
      OBVIOUS
    <3>6. g[n] = s[1] + f[n - 1] /\ g[n - 1] = s[1] + f[n - 2]
      BY <2>2, <3>3
    <3> QED
      BY <1>1, <3>1, <3>2, <3>3, <3>4, <3>5, <3>6
  <2> QED
    BY <2>1, <2>2
<1> HIDE DEF g
<1>7. Total(s) = g[Len(s)]
  BY <1>5, <1>6, TotalIs
<1> QED
  BY <1>3, <1>4, <1>5, <1>7 DEF t

-----------------------------------------------------------------------------
(* Messages come and go.                                                   *)

LEMMA AppendedTo ==
  ASSUME NEW S, NEW s \in Seq(S), NEW x \in S
  PROVE  /\ Append(s, x) \in Seq(S)
         /\ DOMAIN s = 1 .. Len(s) /\ Len(s) \in Nat
         /\ DOMAIN Append(s, x) = 1 .. Len(s) + 1 /\ Len(Append(s, x)) = Len(s) + 1
         /\ \A i \in DOMAIN s : i \in DOMAIN Append(s, x) /\ Append(s, x)[i] = s[i]
         /\ Append(s, x)[Len(s) + 1] = x
  OBVIOUS

LEMMA TakenFrom ==
  ASSUME NEW S, NEW s \in Seq(S), s # <<>>
  PROVE  /\ Tail(s) \in Seq(S) /\ Head(s) \in S /\ Head(s) = s[1]
         /\ DOMAIN s = 1 .. Len(s) /\ Len(s) \in Nat \ {0}
         /\ DOMAIN Tail(s) = 1 .. Len(s) - 1 /\ Len(Tail(s)) = Len(s) - 1
         /\ \A i \in DOMAIN Tail(s) : i + 1 \in DOMAIN s /\ Tail(s)[i] = s[i + 1]
         /\ \A i \in DOMAIN s : i = 1 \/ i - 1 \in DOMAIN Tail(s)
  OBVIOUS

(* Which responses a side has been sent, after one more or one less.       *)
LEMMA ToldAfterAppend ==
  ASSUME NEW side, NEW resps \in Seq(Answer), NEW r \in Answer
  PROVE  /\ Told(side, Append(resps, r)) =
              Told(side, resps) \cup (IF r.side = side THEN {Len(resps) + 1} ELSE {})
         /\ Told(side, resps) \subseteq 1 .. Len(resps)
         /\ Fills(side, Append(resps, r)) =
              Fills(side, resps)
                \cup (IF r.side = side /\ r.type = "FILLED" THEN {Len(resps) + 1} ELSE {})
         /\ Fills(side, resps) \subseteq 1 .. Len(resps)
<1> DEFINE t == Append(resps, r)
<1>1. /\ DOMAIN t = 1 .. Len(resps) + 1 /\ DOMAIN resps = 1 .. Len(resps) /\ Len(resps) \in Nat
      /\ \A i \in DOMAIN resps : t[i] = resps[i]
      /\ t[Len(resps) + 1] = r
  BY AppendedTo
<1> HIDE DEF t
<1>2. Told(side, t) = Told(side, resps) \cup (IF r.side = side THEN {Len(resps) + 1} ELSE {})
  BY <1>1 DEF Told
<1>3. Fills(side, t) =
        Fills(side, resps)
          \cup (IF r.side = side /\ r.type = "FILLED" THEN {Len(resps) + 1} ELSE {})
  BY <1>1 DEF Told, Fills
<1> QED
  BY <1>1, <1>2, <1>3 DEF Told, Fills, t

LEMMA ToldAfterTail ==
  ASSUME NEW side, NEW resps \in Seq(Answer), resps # <<>>
  PROVE  /\ Told(side, Tail(resps)) \subseteq 1 .. Len(resps) - 1
         /\ Told(side, resps) \subseteq 1 .. Len(resps)
         /\ \A i \in Told(side, Tail(resps)) :
              i + 1 \in Told(side, resps) /\ Tail(resps)[i] = resps[i + 1]
         /\ \A i \in Told(side, resps) : i # 1 => i - 1 \in Told(side, Tail(resps))
         /\ 1 \in Told(side, resps) <=> Head(resps).side = side
<1> DEFINE t == Tail(resps)
<1>1. /\ DOMAIN t = 1 .. Len(resps) - 1 /\ DOMAIN resps = 1 .. Len(resps)
      /\ Len(resps) \in Nat \ {0} /\ Head(resps) = resps[1]
      /\ \A i \in DOMAIN t : i + 1 \in DOMAIN resps /\ t[i] = resps[i + 1]
      /\ \A i \in DOMAIN resps : i = 1 \/ i - 1 \in DOMAIN t
  BY TakenFrom
<1> HIDE DEF t
<1>2. \A i \in DOMAIN resps : i # 1 => t[i - 1] = resps[i]
  BY <1>1
<1>3. /\ Told(side, t) \subseteq 1 .. Len(resps) - 1
      /\ Told(side, resps) \subseteq 1 .. Len(resps)
      /\ \A i \in Told(side, t) : i + 1 \in Told(side, resps) /\ t[i] = resps[i + 1]
      /\ \A i \in Told(side, resps) : i # 1 => i - 1 \in Told(side, t)
      /\ 1 \in Told(side, resps) <=> Head(resps).side = side
  BY <1>1, <1>2 DEF Told
<1> QED
  BY <1>3 DEF t

(* The quantity of the fills on their way.                                 *)
LEMMA FillsAdd ==
  ASSUME NEW side, NEW resps \in Seq(Answer),
         \A i \in Fills(side, resps) : resps[i].exec \in Nat
  PROVE  /\ OnTheWay(side, resps) \in Seq(Int)
         /\ Told(side, resps) = {} => Total(OnTheWay(side, resps)) = 0
         /\ \A r \in Answer :
              (r.type = "FILLED" /\ r.side = side => r.exec \in Nat) =>
                Total(OnTheWay(side, Append(resps, r))) =
                  Total(OnTheWay(side, resps))
                    + (IF r.type = "FILLED" /\ r.side = side THEN r.exec ELSE 0)
         /\ resps # <<>> =>
              /\ Total(OnTheWay(side, Tail(resps))) \in Int
              /\ Total(OnTheWay(side, resps)) =
                   Total(OnTheWay(side, Tail(resps)))
                     + (IF Head(resps).type = "FILLED" /\ Head(resps).side = side
                        THEN Head(resps).exec ELSE 0)
<1> DEFINE a == OnTheWay(side, resps)
<1>1. DOMAIN resps = 1 .. Len(resps) /\ Len(resps) \in Nat
  OBVIOUS
<1>2. \A i \in DOMAIN resps : a[i] \in Int
  BY DEF OnTheWay, Fills, Told
<1>3. a \in Seq(Int) /\ Len(a) = Len(resps)
  <2>1. a = [i \in 1 .. Len(resps) |-> a[i]]
    BY <1>1 DEF OnTheWay
  <2> HIDE DEF a
  <2> QED
    BY <1>1, <1>2, <2>1
<1>4. Told(side, resps) = {} => Total(a) = 0
  <2> SUFFICES ASSUME Told(side, resps) = {}
               PROVE  Total(a) = 0
    OBVIOUS
  <2>1. \A i \in 1 .. Len(a) : a[i] = 0
    BY <1>1, <1>3 DEF OnTheWay, Told
  <2> HIDE DEF a
  <2> QED
    BY <1>3, <2>1, TotalOfZeros
<1>5. ASSUME NEW r \in Answer, r.type = "FILLED" /\ r.side = side => r.exec \in Nat
      PROVE  Total(OnTheWay(side, Append(resps, r))) =
               Total(a) + (IF r.type = "FILLED" /\ r.side = side THEN r.exec ELSE 0)
  <2> DEFINE x == IF r.type = "FILLED" /\ r.side = side THEN r.exec ELSE 0
             t == Append(resps, r)
             b == OnTheWay(side, t)
  <2>1. /\ DOMAIN t = 1 .. Len(resps) + 1
        /\ \A i \in DOMAIN resps : t[i] = resps[i]
        /\ t[Len(resps) + 1] = r
    BY AppendedTo
  <2> HIDE DEF t
  <2>2. DOMAIN b = 1 .. Len(resps) + 1 /\ b[Len(resps) + 1] = x
        /\ \A i \in 1 .. Len(resps) : b[i] = a[i]
    BY <1>1, <2>1 DEF OnTheWay
  <2>3. x \in Int
    BY <1>5
  <2>4. b = [i \in 1 .. Len(resps) + 1 |-> b[i]]
    BY <2>1 DEF OnTheWay
  <2> HIDE DEF a, b, x
  <2>5. b = Append(a, x)
    <3>1. b \in Seq(Int) /\ Len(b) = Len(a) + 1
      <4>1. \A i \in 1 .. Len(resps) + 1 : b[i] \in Int
        BY <1>1, <1>2, <2>2, <2>3
      <4> QED
        BY <1>1, <1>3, <2>4, <4>1
    <3>2. Append(a, x) \in Seq(Int) /\ Len(Append(a, x)) = Len(a) + 1
          /\ \A i \in 1 .. Len(a) + 1 : Append(a, x)[i] = b[i]
      BY <1>3, <2>2, <2>3
    <3> QED
      BY <3>1, <3>2, SeqEqual
  <2>6. Total(b) = Total(a) + x
    BY <1>3, <2>3, <2>5, TotalOfAppended
  <2> QED
    BY <2>6 DEF b, x, t
<1>6. ASSUME resps # <<>>
      PROVE  /\ Total(OnTheWay(side, Tail(resps))) \in Int
             /\ Total(a) = Total(OnTheWay(side, Tail(resps)))
                            + (IF Head(resps).type = "FILLED" /\ Head(resps).side = side
                               THEN Head(resps).exec ELSE 0)
  <2> DEFINE t == Tail(resps)
             b == OnTheWay(side, t)
  <2>1. /\ DOMAIN t = 1 .. Len(resps) - 1 /\ Len(resps) \in Nat \ {0} /\ Head(resps) = resps[1]
        /\ \A i \in DOMAIN t : i + 1 \in DOMAIN resps /\ t[i] = resps[i + 1]
    BY <1>6, TakenFrom
  <2> HIDE DEF t
  <2>2. DOMAIN b = 1 .. Len(resps) - 1 /\ \A i \in 1 .. Len(resps) - 1 : b[i] = a[i + 1]
    BY <2>1 DEF OnTheWay
  <2>3. a[1] = IF Head(resps).type = "FILLED" /\ Head(resps).side = side
               THEN Head(resps).exec ELSE 0
    BY <1>1, <2>1 DEF OnTheWay
  <2>4. b = [i \in 1 .. Len(resps) - 1 |-> b[i]]
    BY <2>1 DEF OnTheWay
  <2>5. a # <<>>
    <3> HIDE DEF a
    <3> QED
      BY <1>3, <2>1
  <2> HIDE DEF a, b
  <2>6. b = Tail(a)
    <3>1. b \in Seq(Int) /\ Len(b) = Len(a) - 1
      BY <1>1, <1>2, <1>3, <2>1, <2>2, <2>4
    <3>2. Tail(a) \in Seq(Int) /\ Len(Tail(a)) = Len(a) - 1
          /\ \A i \in 1 .. Len(a) - 1 : Tail(a)[i] = b[i]
      BY <1>3, <2>2, <2>5
    <3> QED
      BY <3>1, <3>2, SeqEqual
  <2>7. Total(b) \in Int /\ Total(a) = a[1] + Total(b) /\ a[1] \in Int
    BY <1>3, <2>5, <2>6, TotalOfTail
  <2> QED
    BY <2>3, <2>7 DEF b, t
<1> QED
  BY <1>3, <1>4, <1>5, <1>6

-----------------------------------------------------------------------------
(* An order at the exchange, response by response.                         *)

LEMMA AnswerElsewhere ==
  ASSUME NEW side \in Sides, NEW o, NEW reqs, NEW resps \in Seq(Answer), NEW rest, NEW rest2,
         NEW r \in Answer, r.side # side, Rests(side, rest2) = Rests(side, rest),
         AtTheExchange(side, o, reqs, resps, rest)
  PROVE  AtTheExchange(side, o, reqs, Append(resps, r), rest2)
<1> DEFINE t == Append(resps, r)
<1>1. Told(side, t) = Told(side, resps) /\ Fills(side, t) = Fills(side, resps)
  <2>1. /\ Told(side, t) =
             Told(side, resps) \cup (IF r.side = side THEN {Len(resps) + 1} ELSE {})
        /\ Fills(side, t) =
             Fills(side, resps)
               \cup (IF r.side = side /\ r.type = "FILLED" THEN {Len(resps) + 1} ELSE {})
    BY ToldAfterAppend
  <2> HIDE DEF t
  <2> QED
    BY <2>1
<1>2. /\ \A i \in Told(side, resps) : t[i] = resps[i]
      /\ \A i \in Fills(side, resps) : t[i] = resps[i]
  BY AppendedTo DEF Told, Fills
<1>3. Total(OnTheWay(side, t)) = Total(OnTheWay(side, resps)) + 0
  BY FillsAdd DEF AtTheExchange, FillsConnect
<1> HIDE DEF t
<1>4. Total(OnTheWay(side, t)) = Total(OnTheWay(side, resps))
  BY <1>3 DEF AtTheExchange
<1>5. FillsConnect(side, o, t, rest2)
  <2>1. FillsConnect(side, o, resps, rest)
    BY DEF AtTheExchange
  <2> HIDE DEF AtTheExchange
  <2> QED
    BY ONLY <1>1, <1>2, <2>1, Rests(side, rest2) = Rests(side, rest) DEF FillsConnect
<1>6. AtTheExchange(side, o, reqs, t, rest2)
  BY <1>1, <1>2, <1>4, <1>5 DEF AtTheExchange
<1> QED
  BY <1>6 DEF t

LEMMA FillsAfterTail ==
  ASSUME NEW side, NEW resps \in Seq(Answer), resps # <<>>
  PROVE  /\ \A i \in Fills(side, Tail(resps)) : i + 1 \in Fills(side, resps)
         /\ \A i \in Fills(side, resps) : i # 1 => i - 1 \in Fills(side, Tail(resps))
         /\ 1 \in Fills(side, resps) <=>
              Head(resps).side = side /\ Head(resps).type = "FILLED"
<1> DEFINE t == Tail(resps)
<1>1. /\ Told(side, t) \subseteq 1 .. Len(resps) - 1
      /\ Told(side, resps) \subseteq 1 .. Len(resps)
      /\ \A i \in Told(side, t) : i + 1 \in Told(side, resps) /\ t[i] = resps[i + 1]
      /\ \A i \in Told(side, resps) : i # 1 => i - 1 \in Told(side, t)
      /\ 1 \in Told(side, resps) <=> Head(resps).side = side
      /\ Head(resps) = resps[1] /\ Len(resps) \in Nat
  BY ToldAfterTail, TakenFrom
<1> HIDE DEF t
<1>2. \A i \in Told(side, resps) : i # 1 => t[i - 1] = resps[i]
  BY <1>1
<1> QED
  BY <1>1, <1>2 DEF Fills, t

(* Taking a response that is no fill leaves the chain of fills as it is.   *)
LEMMA FillsConnectAfterTail ==
  ASSUME NEW side, NEW o, NEW resps \in Seq(Answer), NEW rest,
         resps # <<>>, 1 \notin Fills(side, resps),
         FillsConnect(side, o, resps, rest)
  PROVE  FillsConnect(side, o, Tail(resps), rest)
<1> DEFINE t == Tail(resps)
<1>1. /\ Told(side, t) \subseteq Nat /\ Told(side, resps) \subseteq Nat
      /\ \A i \in Told(side, t) : i + 1 \in Told(side, resps) /\ t[i] = resps[i + 1]
  BY ToldAfterTail
<1>2. /\ Fills(side, t) \subseteq Told(side, t) /\ Fills(side, resps) \subseteq Told(side, resps)
      /\ \A i \in Fills(side, t) : i + 1 \in Fills(side, resps)
      /\ \A i \in Fills(side, resps) : i - 1 \in Fills(side, t)
  <2>1. Fills(side, t) \subseteq Told(side, t) /\ Fills(side, resps) \subseteq Told(side, resps)
    BY DEF Fills
  <2> HIDE DEF t
  <2> QED
    BY <2>1, FillsAfterTail DEF t
<1> HIDE DEF t
<1>3. FillsConnect(side, o, t, rest)
  <2>1. ASSUME NEW i \in Fills(side, t)
        PROVE  /\ t[i].exec \in Nat /\ t[i].leaves \in Nat
               /\ (\A j \in Fills(side, t) : i <= j) => o.qty = t[i].exec + t[i].leaves
               /\ (\A j \in Fills(side, t) : j <= i) =>
                    \A x \in Rests(side, rest) : x.qty = t[i].leaves
    <3>1. i + 1 \in Fills(side, resps) /\ t[i] = resps[i + 1]
      BY <1>1, <1>2
    <3>2. (\A j \in Fills(side, t) : i <= j) => \A j \in Fills(side, resps) : i + 1 <= j
      BY <1>1, <1>2
    <3>3. (\A j \in Fills(side, t) : j <= i) => \A j \in Fills(side, resps) : j <= i + 1
      BY <1>1, <1>2
    <3> QED
      BY <3>1, <3>2, <3>3 DEF FillsConnect
  <2>2. ASSUME NEW i \in Fills(side, t), NEW j \in Fills(side, t),
               i < j, \A k \in Fills(side, t) : k <= i \/ j <= k
        PROVE  t[i].leaves = t[j].exec + t[j].leaves
    <3>1. /\ i + 1 \in Fills(side, resps) /\ t[i] = resps[i + 1]
          /\ j + 1 \in Fills(side, resps) /\ t[j] = resps[j + 1] /\ i + 1 < j + 1
      BY <1>1, <1>2, <2>2
    <3>2. ASSUME NEW k \in Fills(side, resps)
          PROVE  k <= i + 1 \/ j + 1 <= k
      <4>1. k - 1 <= i \/ j <= k - 1
        BY <1>2, <2>2
      <4>2. k \in Nat /\ i \in Nat /\ j \in Nat
        BY <1>1, <1>2, <2>2
      <4> QED
        BY <4>1, <4>2
    <3> QED
      BY <3>1, <3>2 DEF FillsConnect
  <2>3. Fills(side, t) = {} => Fills(side, resps) = {}
    BY <1>2
  <2> QED
    BY <2>1, <2>2, <2>3 DEF FillsConnect
<1> QED
  BY <1>3 DEF t

LEMMA TailElsewhere ==
  ASSUME NEW side \in Sides, NEW o, NEW reqs, NEW resps \in Seq(Answer), NEW rest,
         resps # <<>>, Head(resps).side # side,
         AtTheExchange(side, o, reqs, resps, rest)
  PROVE  AtTheExchange(side, o, reqs, Tail(resps), rest)
<1> DEFINE t == Tail(resps)
<1>1. /\ Told(side, t) \subseteq Nat /\ Told(side, resps) \subseteq Nat
      /\ \A i \in Told(side, t) : i + 1 \in Told(side, resps) /\ t[i] = resps[i + 1]
      /\ \A i \in Told(side, resps) : i - 1 \in Told(side, t) /\ t[i - 1] = resps[i]
  BY ToldAfterTail
<1>2. Total(OnTheWay(side, resps)) = Total(OnTheWay(side, t)) + 0
      /\ Total(OnTheWay(side, t)) \in Int
  BY FillsAdd DEF AtTheExchange, FillsConnect
<1> HIDE DEF t
<1>3. Total(OnTheWay(side, t)) = Total(OnTheWay(side, resps))
  BY <1>2
<1>4. FillsConnect(side, o, t, rest)
  BY FillsConnectAfterTail, FillsAfterTail DEF AtTheExchange, t
<1>5. /\ \A i, j \in Told(side, t) : i < j => t[j].type # "ACCEPTED"
      /\ o.state = "PENDING_NEW" <=> \E i \in Told(side, t) : t[i].type = "ACCEPTED"
  <2>1. ASSUME NEW i \in Told(side, t), NEW j \in Told(side, t), i < j
        PROVE  t[j].type # "ACCEPTED"
    <3>1. /\ i + 1 \in Told(side, resps) /\ j + 1 \in Told(side, resps) /\ i + 1 < j + 1
          /\ t[j] = resps[j + 1]
      BY <1>1, <2>1
    <3> QED
      BY <3>1 DEF AtTheExchange
  <2>2. (\E i \in Told(side, t) : t[i].type = "ACCEPTED")
          <=> \E i \in Told(side, resps) : resps[i].type = "ACCEPTED"
    BY ZenonT(30), <1>1
  <2> QED
    BY <2>1, <2>2 DEF AtTheExchange
<1>6. /\ \A i \in Told(side, t) : Ends(t[i]) =>
            Rests(side, rest) = {} /\ \A j \in Told(side, t) : j <= i
      /\ Rests(side, rest) = {} => \E i \in Told(side, t) : Ends(t[i])
  <2>1. ASSUME NEW i \in Told(side, t), Ends(t[i])
        PROVE  Rests(side, rest) = {} /\ \A j \in Told(side, t) : j <= i
    <3>1. i + 1 \in Told(side, resps) /\ Ends(resps[i + 1])
      BY <1>1, <2>1
    <3>2. Rests(side, rest) = {} /\ \A j \in Told(side, resps) : j <= i + 1
      BY <3>1 DEF AtTheExchange
    <3>3. \A j \in Told(side, t) : j <= i
      BY <1>1, <3>2
    <3> QED
      BY <3>2, <3>3
  <2>2. (\E i \in Told(side, resps) : Ends(resps[i])) => \E i \in Told(side, t) : Ends(t[i])
    BY <1>1
  <2> QED
    BY <2>1, <2>2 DEF AtTheExchange
<1>7. AtTheExchange(side, o, reqs, t, rest)
  BY <1>3, <1>4, <1>5, <1>6 DEF AtTheExchange
<1> QED
  BY <1>7 DEF t

(* The manager hears that its order was accepted.                          *)
LEMMA TailAccepted ==
  ASSUME NEW side \in Sides, NEW o \in ManagedOrder, NEW reqs, NEW resps \in Seq(Answer),
         NEW rest, resps # <<>>, Head(resps).side = side, Head(resps).type = "ACCEPTED",
         AtTheExchange(side, o, reqs, resps, rest)
  PROVE  /\ o.state = "PENDING_NEW"
         /\ AtTheExchange(side, [o EXCEPT !.state = "LIVE"], reqs, Tail(resps), rest)
<1> DEFINE t == Tail(resps)
           o2 == [o EXCEPT !.state = "LIVE"]
<1>1. /\ Told(side, t) \subseteq Nat \ {0} /\ Told(side, resps) \subseteq Nat \ {0}
      /\ \A i \in Told(side, t) : i + 1 \in Told(side, resps) /\ t[i] = resps[i + 1]
      /\ \A i \in Told(side, resps) : i # 1 => i - 1 \in Told(side, t)
      /\ 1 \in Told(side, resps) /\ resps[1] = Head(resps)
  BY ToldAfterTail, TakenFrom
<1>2. 1 \notin Fills(side, resps)
  BY <1>1 DEF Fills
<1>3. o2.state = "LIVE" /\ o2.id = o.id /\ o2.price = o.price /\ o2.qty = o.qty
  BY DEF ManagedOrder
<1>4. FillsConnect(side, o2, t, rest)
  <2>1. FillsConnect(side, o, t, rest)
    BY <1>2, FillsConnectAfterTail DEF AtTheExchange
  <2> HIDE DEF t, o2
  <2> QED
    BY <1>3, <2>1 DEF FillsConnect
<1>5. Total(OnTheWay(side, resps)) = Total(OnTheWay(side, t)) + 0
      /\ Total(OnTheWay(side, t)) \in Int
  BY FillsAdd DEF AtTheExchange, FillsConnect
<1> HIDE DEF t, o2
<1>6. Total(OnTheWay(side, t)) = Total(OnTheWay(side, resps))
  BY <1>5
<1>7. o.state = "PENDING_NEW"
  BY <1>1 DEF AtTheExchange
<1>8. ASSUME NEW i \in Told(side, t)
      PROVE  t[i].type # "ACCEPTED"
  <2>1. i + 1 \in Told(side, resps) /\ 1 < i + 1 /\ t[i] = resps[i + 1]
    <3>1. i + 1 # 1
      BY <1>1
    <3> QED
      BY <1>1, <3>1
  <2> QED
    BY <1>1, <2>1 DEF AtTheExchange
<1>9. ASSUME NEW i \in Told(side, t), Ends(t[i])
      PROVE  Rests(side, rest) = {} /\ \A j \in Told(side, t) : j <= i
  <2>1. i + 1 \in Told(side, resps) /\ Ends(resps[i + 1])
    BY <1>1, <1>9
  <2>2. Rests(side, rest) = {} /\ \A j \in Told(side, resps) : j <= i + 1
    BY <2>1 DEF AtTheExchange
  <2> QED
    BY <1>1, <2>2
<1>10. Rests(side, rest) = {} => \E i \in Told(side, t) : Ends(t[i])
  <2> SUFFICES ASSUME Rests(side, rest) = {}
               PROVE  \E i \in Told(side, t) : Ends(t[i])
    OBVIOUS
  <2>1. PICK i \in Told(side, resps) : Ends(resps[i])
    BY DEF AtTheExchange
  <2>2. i # 1 /\ i \in Nat
    BY <1>1, <2>1 DEF Ends
  <2>3. i - 1 \in Told(side, t) /\ t[i - 1] = resps[(i - 1) + 1] /\ (i - 1) + 1 = i
    BY <1>1, <2>2
  <2> QED
    BY <2>1, <2>3
<1>11. AtTheExchange(side, o2, reqs, t, rest)
  BY <1>3, <1>4, <1>6, <1>8, <1>9, <1>10 DEF AtTheExchange
<1> QED
  BY <1>7, <1>11 DEF t, o2

(* The manager hears the last it will hear of its order.                   *)
LEMMA TailEnds ==
  ASSUME NEW side \in Sides, NEW o, NEW reqs, NEW resps \in Seq(Answer),
         NEW rest, resps # <<>>, Head(resps).side = side, Ends(Head(resps)),
         AtTheExchange(side, o, reqs, resps, rest)
  PROVE  Asked(side, reqs) = {} /\ Told(side, Tail(resps)) = {} /\ Rests(side, rest) = {}
<1>1. /\ Told(side, Tail(resps)) \subseteq 1 .. Len(resps) - 1
      /\ \A i \in Told(side, Tail(resps)) : i + 1 \in Told(side, resps)
      /\ 1 \in Told(side, resps) /\ resps[1] = Head(resps) /\ Len(resps) \in Nat
  BY ToldAfterTail, TakenFrom
<1>2. Rests(side, rest) = {} /\ \A j \in Told(side, resps) : j <= 1
  BY <1>1 DEF AtTheExchange
<1>3. \A i \in Told(side, Tail(resps)) : i + 1 <= 1 /\ i \in Nat /\ i >= 1
  BY <1>1, <1>2
<1> QED
  BY <1>2, <1>3 DEF AtTheExchange

(* The manager hears of a fill that leaves some of its order.              *)
LEMMA TailFilled ==
  ASSUME NEW side \in Sides, NEW o \in ManagedOrder, NEW reqs, NEW resps \in Seq(Answer),
         NEW rest \in SUBSET RestingOrder, resps # <<>>, Head(resps).side = side,
         Head(resps).type = "FILLED",
         ~ Ends(Head(resps)), AtTheExchange(side, o, reqs, resps, rest)
  PROVE  /\ o.state # "PENDING_NEW"
         /\ Head(resps).exec \in Nat /\ Head(resps).leaves \in Nat
         /\ o.qty = Head(resps).exec + Head(resps).leaves
         /\ AtTheExchange(side, [o EXCEPT !.qty = Head(resps).leaves], reqs, Tail(resps), rest)
<1> DEFINE t == Tail(resps)
           h == Head(resps)
           o2 == [o EXCEPT !.qty = h.leaves]
<1>1. /\ Told(side, t) \subseteq Nat \ {0} /\ Told(side, resps) \subseteq Nat \ {0}
      /\ \A i \in Told(side, t) : i + 1 \in Told(side, resps) /\ t[i] = resps[i + 1]
      /\ \A i \in Told(side, resps) : i # 1 => i - 1 \in Told(side, t)
      /\ 1 \in Told(side, resps) /\ resps[1] = h
  BY ToldAfterTail, TakenFrom
<1>2. /\ Fills(side, t) \subseteq Told(side, t) /\ Fills(side, resps) \subseteq Told(side, resps)
      /\ 1 \in Fills(side, resps)
      /\ \A i \in Fills(side, t) : i + 1 \in Fills(side, resps)
      /\ \A i \in Fills(side, resps) : i # 1 => i - 1 \in Fills(side, t)
  <2>1. Fills(side, t) \subseteq Told(side, t) /\ Fills(side, resps) \subseteq Told(side, resps)
    BY DEF Fills
  <2> HIDE DEF t
  <2> QED
    BY <2>1, FillsAfterTail DEF t
<1>3. h.exec \in Nat /\ h.leaves \in Nat /\ o.qty = h.exec + h.leaves
  <2>1. \A j \in Fills(side, resps) : 1 <= j
    BY <1>1, <1>2
  <2> QED
    BY <1>1, <1>2, <2>1 DEF AtTheExchange, FillsConnect
<1>4. o2.state = o.state /\ o2.id = o.id /\ o2.price = o.price /\ o2.qty = h.leaves
  BY DEF ManagedOrder
<1>5. Total(OnTheWay(side, resps)) = Total(OnTheWay(side, t)) + h.exec
      /\ Total(OnTheWay(side, t)) \in Int
  BY FillsAdd DEF AtTheExchange, FillsConnect
<1> HIDE DEF t, h, o2
<1>6. o.state # "PENDING_NEW" /\ \A i \in Told(side, resps) : resps[i].type # "ACCEPTED"
  <2>1. h.type # "ACCEPTED"
    BY DEF h
  <2>2. \A i \in Told(side, resps) : i # 1 => 1 < i
    BY <1>1
  <2> QED
    BY <1>1, <2>1, <2>2 DEF AtTheExchange
<1>7. FillsConnect(side, o2, t, rest)
  <2>1. ASSUME NEW i \in Fills(side, t)
        PROVE  /\ t[i].exec \in Nat /\ t[i].leaves \in Nat
               /\ (\A j \in Fills(side, t) : j <= i) =>
                    \A x \in Rests(side, rest) : x.qty = t[i].leaves
    <3>1. i + 1 \in Fills(side, resps) /\ t[i] = resps[i + 1] /\ i \in Nat
      BY <1>1, <1>2
    <3>2. ASSUME \A j \in Fills(side, t) : j <= i, NEW k \in Fills(side, resps)
          PROVE  k <= i + 1
      <4>1. CASE k = 1
        BY <3>1, <4>1
      <4>2. CASE k # 1
        <5>1. k - 1 <= i /\ k \in Nat
          BY <1>1, <1>2, <3>2, <4>2
        <5> QED
          BY <3>1, <5>1
      <4> QED
        BY <4>1, <4>2
    <3> QED
      BY <3>1, <3>2 DEF AtTheExchange, FillsConnect
  <2>2. ASSUME NEW i \in Fills(side, t), \A j \in Fills(side, t) : i <= j
        PROVE  h.leaves = t[i].exec + t[i].leaves
    <3>1. i + 1 \in Fills(side, resps) /\ t[i] = resps[i + 1] /\ i \in Nat \ {0}
      BY <1>1, <1>2
    <3>2. ASSUME NEW k \in Fills(side, resps)
          PROVE  k <= 1 \/ i + 1 <= k
      <4>1. CASE k # 1
        <5>1. i <= k - 1 /\ k \in Nat
          BY <1>1, <1>2, <2>2, <4>1
        <5> QED
          BY <3>1, <5>1
      <4> QED
        BY <4>1
    <3>3. 1 < i + 1
      BY <3>1
    <3>4. \A k \in Fills(side, resps) :
            1 < k /\ (\A m \in Fills(side, resps) : m <= 1 \/ k <= m)
              => resps[1].leaves = resps[k].exec + resps[k].leaves
      BY <1>2 DEF AtTheExchange, FillsConnect
    <3>5. resps[1].leaves = resps[i + 1].exec + resps[i + 1].leaves
      BY <3>1, <3>2, <3>3, <3>4
    <3> QED
      BY <1>1, <3>1, <3>5
  <2>3. ASSUME NEW i \in Fills(side, t), NEW j \in Fills(side, t),
               i < j, \A k \in Fills(side, t) : k <= i \/ j <= k
        PROVE  t[i].leaves = t[j].exec + t[j].leaves
    <3>1. /\ i + 1 \in Fills(side, resps) /\ t[i] = resps[i + 1] /\ i \in Nat /\ j \in Nat
          /\ j + 1 \in Fills(side, resps) /\ t[j] = resps[j + 1] /\ i + 1 < j + 1
      BY <1>1, <1>2, <2>3
    <3>2. ASSUME NEW k \in Fills(side, resps)
          PROVE  k <= i + 1 \/ j + 1 <= k
      <4>1. CASE k = 1
        BY <3>1, <4>1
      <4>2. CASE k # 1
        <5>1. (k - 1 <= i \/ j <= k - 1) /\ k \in Nat
          BY <1>1, <1>2, <2>3, <4>2
        <5> QED
          BY <3>1, <5>1
      <4> QED
        BY <4>1, <4>2
    <3> QED
      BY SMTT(30), <3>1, <3>2 DEF AtTheExchange, FillsConnect
  <2>4. ASSUME Fills(side, t) = {}
        PROVE  \A x \in Rests(side, rest) : x.qty = h.leaves
    <3>1. \A j \in Fills(side, resps) : j <= 1
      BY <1>2, <2>4
    <3> QED
      BY <1>1, <1>2, <3>1 DEF AtTheExchange, FillsConnect
  <2> QED
    BY <1>4, <2>1, <2>2, <2>3, <2>4 DEF FillsConnect
<1>8. ASSUME NEW i \in Told(side, t), Ends(t[i])
      PROVE  Rests(side, rest) = {} /\ \A j \in Told(side, t) : j <= i
  <2>1. i + 1 \in Told(side, resps) /\ Ends(resps[i + 1])
    BY <1>1, <1>8
  <2>2. Rests(side, rest) = {} /\ \A j \in Told(side, resps) : j <= i + 1
    BY <2>1 DEF AtTheExchange
  <2> QED
    BY <1>1, <2>2
<1>9. Rests(side, rest) = {} => \E i \in Told(side, t) : Ends(t[i])
  <2> SUFFICES ASSUME Rests(side, rest) = {}
               PROVE  \E i \in Told(side, t) : Ends(t[i])
    OBVIOUS
  <2>1. PICK i \in Told(side, resps) : Ends(resps[i])
    BY DEF AtTheExchange
  <2>2. i # 1 /\ i \in Nat
    BY <1>1, <2>1 DEF h
  <2>3. i - 1 \in Told(side, t) /\ t[i - 1] = resps[(i - 1) + 1] /\ (i - 1) + 1 = i
    BY <1>1, <2>2
  <2> QED
    BY <2>1, <2>3
<1>10. \A i \in Told(side, t) : t[i].type # "ACCEPTED"
  BY <1>1, <1>6
<1>11. /\ Rests(side, rest) = {} => Total(OnTheWay(side, t)) <= h.leaves
       /\ \A x \in Rests(side, rest) : Total(OnTheWay(side, t)) + x.qty <= h.leaves
  <2>1. Rests(side, rest) = {} => Total(OnTheWay(side, t)) <= h.leaves
    BY <1>3, <1>5 DEF AtTheExchange
  <2>2. \A x \in Rests(side, rest) : x.qty \in Int
    BY DEF Rests, RestingOrder
  <2>3. \A x \in Rests(side, rest) : Total(OnTheWay(side, resps)) + x.qty <= o.qty
    BY DEF AtTheExchange
  <2>4. \A x \in Rests(side, rest) : Total(OnTheWay(side, t)) + x.qty <= h.leaves
    BY <1>3, <1>5, <2>2, <2>3
  <2> QED
    BY <2>1, <2>4
<1>12. AtTheExchange(side, o2, reqs, t, rest)
  BY <1>3, <1>4, <1>5, <1>6, <1>7, <1>8, <1>9, <1>10, <1>11 DEF AtTheExchange
<1> QED
  BY <1>3, <1>6, <1>12 DEF t, h, o2

(* The exchange accepts the order: it rests.                               *)
LEMMA AnswerAccepted ==
  ASSUME NEW side \in Sides, NEW o \in ManagedOrder, NEW reqs, NEW reqs2,
         NEW resps \in Seq(Answer), NEW rest, NEW rest2,
         NEW r \in Answer, r.side = side, r.type = "ACCEPTED",
         NEW x \in RestingOrder, Rests(side, rest2) = {x},
         x.oid = o.id, x.price = o.price, x.qty = TradeSize,
         OnItsWay(side, o, reqs, resps, rest), Asked(side, reqs2) = {}
  PROVE  AtTheExchange(side, o, reqs2, Append(resps, r), rest2)
<1> DEFINE t == Append(resps, r)
           n == Len(resps) + 1
<1>1. Told(side, t) = {n} /\ t[n] = r /\ Fills(side, t) = {} /\ Fills(side, resps) = {}
  <2>1. /\ Told(side, t) = Told(side, resps) \cup {n}
        /\ t[n] = r
    BY ToldAfterAppend, AppendedTo
  <2>2. Told(side, resps) = {}
    BY DEF OnItsWay
  <2> HIDE DEF t, n
  <2> QED
    BY <2>1, <2>2 DEF Fills
<1>2. Total(OnTheWay(side, t)) = 0
  <2>1. Total(OnTheWay(side, t)) = Total(OnTheWay(side, resps)) + 0
    BY <1>1, FillsAdd
  <2>2. Total(OnTheWay(side, resps)) = 0
    BY <1>1, FillsAdd DEF OnItsWay
  <2> QED
    BY <2>1, <2>2
<1> HIDE DEF t, n
<1>3. FillsConnect(side, o, t, rest2)
  BY <1>1 DEF FillsConnect, OnItsWay
<1>4. ~ Ends(r)
  BY DEF Ends
<1>5. n \in Nat
  BY DEF n
<1>6. x.qty \in Nat
  BY DEF RestingOrder
<1>7. AtTheExchange(side, o, reqs2, t, rest2)
  BY <1>1, <1>2, <1>3, <1>4, <1>5, <1>6 DEF AtTheExchange, OnItsWay
<1> QED
  BY <1>7 DEF t

(* The resting order is filled, in part or to the end.                     *)
LEMMA AnswerFilled ==
  ASSUME NEW side \in Sides, NEW o \in ManagedOrder, NEW reqs,
         NEW resps \in Seq(Answer), NEW rest, NEW rest2,
         NEW x \in RestingOrder, Rests(side, rest) = {x}, NEW qty \in 1 .. x.qty,
         NEW r \in Answer, r.side = side, r.type = "FILLED", r.exec = qty,
         r.leaves = x.qty - qty,
         Rests(side, rest2) =
           IF x.qty - qty = 0 THEN {} ELSE {[x EXCEPT !.qty = x.qty - qty]},
         AtTheExchange(side, o, reqs, resps, rest)
  PROVE  AtTheExchange(side, o, reqs, Append(resps, r), rest2)
<1> DEFINE t == Append(resps, r)
           n == Len(resps) + 1
           left == [x EXCEPT !.qty = x.qty - qty]
<1>1. /\ Told(side, t) = Told(side, resps) \cup {n}
      /\ Fills(side, t) = Fills(side, resps) \cup {n}
      /\ t[n] = r
      /\ \A i \in Told(side, resps) : i \in Nat /\ i < n /\ t[i] = resps[i]
      /\ Fills(side, resps) \subseteq Told(side, resps)
      /\ n \in Nat
  <2>1. /\ Told(side, t) = Told(side, resps) \cup {n}
        /\ Fills(side, t) = Fills(side, resps) \cup {n}
    BY ToldAfterAppend
  <2>2. t[n] = r /\ \A i \in DOMAIN resps : i \in Nat /\ i < n /\ t[i] = resps[i]
    BY AppendedTo
  <2> HIDE DEF t
  <2> QED
    BY <2>1, <2>2 DEF Told, Fills
<1>2. /\ x.qty \in Nat /\ qty \in Nat \ {0} /\ r.exec \in Nat /\ r.leaves \in Nat
      /\ x.qty = r.exec + r.leaves
      /\ left.qty = r.leaves /\ left.oid = x.oid /\ left.price = x.price
  BY DEF RestingOrder
<1>3. Total(OnTheWay(side, t)) = Total(OnTheWay(side, resps)) + qty
  BY FillsAdd, <1>2 DEF AtTheExchange, FillsConnect
<1> HIDE DEF t, n, left
<1>4. \A i \in Told(side, resps) : ~ Ends(resps[i])
  BY DEF AtTheExchange
<1>5. FillsConnect(side, o, t, rest2)
  <2>1. FillsConnect(side, o, resps, rest)
    BY DEF AtTheExchange
  <2>2. /\ t[n].exec \in Nat /\ t[n].leaves \in Nat
        /\ \A y \in Rests(side, rest2) : y.qty = t[n].leaves
    BY <1>1, <1>2 DEF left
  <2>3. ASSUME \A j \in Fills(side, t) : n <= j
        PROVE  o.qty = t[n].exec + t[n].leaves
    <3>1. Fills(side, resps) = {}
      BY <1>1, <2>3
    <3> QED
      BY <1>1, <1>2, <2>1, <3>1 DEF FillsConnect
  <2>4. ASSUME NEW i \in Fills(side, resps)
        PROVE  /\ t[i].exec \in Nat /\ t[i].leaves \in Nat
               /\ (\A j \in Fills(side, t) : i <= j) => o.qty = t[i].exec + t[i].leaves
               /\ ~ \A j \in Fills(side, t) : j <= i
    <3>1. t[i] = resps[i] /\ i < n /\ i \in Nat
      BY <1>1
    <3>2. (\A j \in Fills(side, t) : i <= j) => \A j \in Fills(side, resps) : i <= j
      BY <1>1
    <3> QED
      BY <1>1, <2>1, <3>1, <3>2 DEF FillsConnect
  <2>5. ASSUME NEW i \in Fills(side, t), NEW j \in Fills(side, t),
               i < j, \A k \in Fills(side, t) : k <= i \/ j <= k
        PROVE  t[i].leaves = t[j].exec + t[j].leaves
    <3>1. i # n /\ i \in Fills(side, resps) /\ t[i] = resps[i] /\ i \in Nat
      BY <1>1, <2>5
    <3>2. CASE j = n
      <4>1. \A k \in Fills(side, resps) : k <= i
        BY <1>1, <2>5, <3>2
      <4>2. x.qty = resps[i].leaves
        BY <2>1, <3>1, <4>1 DEF FillsConnect
      <4> QED
        BY <1>1, <1>2, <3>1, <3>2, <4>2
    <3>3. CASE j # n
      <4>1. j \in Fills(side, resps) /\ t[j] = resps[j]
        BY <1>1, <3>3
      <4>2. \A k \in Fills(side, resps) : k <= i \/ j <= k
        BY <1>1, <2>5
      <4> QED
        BY <2>1, <2>5, <3>1, <4>1, <4>2 DEF FillsConnect
    <3> QED
      BY <3>2, <3>3
  <2>6. Fills(side, t) # {}
    BY <1>1
  <2> QED
    BY <1>1, <2>2, <2>3, <2>4, <2>5, <2>6 DEF FillsConnect
<1>6. /\ \A i, j \in Told(side, t) : i < j => t[j].type # "ACCEPTED"
      /\ o.state = "PENDING_NEW" <=> \E i \in Told(side, t) : t[i].type = "ACCEPTED"
  BY <1>1 DEF AtTheExchange
<1>7. \A i \in Told(side, t) : Ends(t[i]) => i = n
  BY <1>1, <1>4
<1>8. \A j \in Told(side, t) : j <= n
  BY <1>1
<1>9. Ends(t[n]) <=> Rests(side, rest2) = {}
  BY <1>1, <1>2 DEF Ends
<1>10. /\ \A y, z \in Rests(side, rest2) : y = z
       /\ \A y \in Rests(side, rest2) : y.oid = o.id /\ y.price = o.price
  BY <1>2 DEF AtTheExchange, left
<1>11. /\ Total(OnTheWay(side, t)) \in Int
       /\ Rests(side, rest2) = {} => Total(OnTheWay(side, t)) <= o.qty
       /\ \A y \in Rests(side, rest2) : Total(OnTheWay(side, t)) + y.qty <= o.qty
  <2>1. Total(OnTheWay(side, resps)) + x.qty <= o.qty /\ o.qty \in Nat
        /\ Total(OnTheWay(side, resps)) \in Int
    BY DEF AtTheExchange
  <2>2. \A y \in Rests(side, rest2) : y.qty = x.qty - qty
    BY <1>2 DEF left
  <2> QED
    BY SMTT(30), <1>2, <1>3, <2>1, <2>2
<1>12. AtTheExchange(side, o, reqs, t, rest2)
  BY <1>1, <1>5, <1>6, <1>7, <1>8, <1>9, <1>10, <1>11 DEF AtTheExchange
<1> QED
  BY <1>12 DEF t

(* The resting order is withdrawn.                                         *)
LEMMA AnswerCancelled ==
  ASSUME NEW side \in Sides, NEW o \in ManagedOrder, NEW reqs,
         NEW resps \in Seq(Answer), NEW rest, NEW rest2,
         NEW x \in RestingOrder, Rests(side, rest) = {x}, Rests(side, rest2) = {},
         NEW r \in Answer, r.side = side, r.type = "CANCELLED",
         AtTheExchange(side, o, reqs, resps, rest)
  PROVE  AtTheExchange(side, o, reqs, Append(resps, r), rest2)
<1> DEFINE t == Append(resps, r)
           n == Len(resps) + 1
<1>1. /\ Told(side, t) = Told(side, resps) \cup {n}
      /\ Fills(side, t) = Fills(side, resps)
      /\ t[n] = r
      /\ \A i \in Told(side, resps) : i \in Nat /\ i < n /\ t[i] = resps[i]
      /\ Fills(side, resps) \subseteq Told(side, resps)
      /\ n \in Nat
  <2>1. /\ Told(side, t) = Told(side, resps) \cup {n}
        /\ Fills(side, t) = Fills(side, resps) \cup {}
    BY ToldAfterAppend
  <2>2. t[n] = r /\ \A i \in DOMAIN resps : i \in Nat /\ i < n /\ t[i] = resps[i]
    BY AppendedTo
  <2> HIDE DEF t
  <2> QED
    BY <2>1, <2>2 DEF Told, Fills
<1>2. Total(OnTheWay(side, t)) = Total(OnTheWay(side, resps)) + 0
  BY SMTT(30), FillsAdd DEF AtTheExchange, FillsConnect
<1> HIDE DEF t, n
<1>3. \A i \in Told(side, resps) : ~ Ends(resps[i])
  BY DEF AtTheExchange
<1>4. FillsConnect(side, o, t, rest2)
  <2>1. FillsConnect(side, o, resps, rest) /\ \A i \in Fills(side, resps) : t[i] = resps[i]
    BY <1>1 DEF AtTheExchange
  <2> QED
    BY ONLY SMTT(30), <1>1, <2>1, Rests(side, rest2) = {} DEF FillsConnect
<1>5. /\ \A i, j \in Told(side, t) : i < j => t[j].type # "ACCEPTED"
      /\ o.state = "PENDING_NEW" <=> \E i \in Told(side, t) : t[i].type = "ACCEPTED"
  BY <1>1 DEF AtTheExchange
<1>6. \A i \in Told(side, t) : Ends(t[i]) <=> i = n
  BY <1>1, <1>3 DEF Ends
<1>7. \A j \in Told(side, t) : j <= n
  BY <1>1
<1>8. Total(OnTheWay(side, t)) \in Int /\ Total(OnTheWay(side, t)) <= o.qty
  <2>1. Total(OnTheWay(side, resps)) + x.qty <= o.qty /\ o.qty \in Nat
        /\ Total(OnTheWay(side, resps)) \in Int
    BY DEF AtTheExchange
  <2>2. x.qty \in Nat
    BY DEF RestingOrder
  <2> QED
    BY <1>2, <2>1, <2>2
<1>9. AtTheExchange(side, o, reqs, t, rest2)
  BY <1>1, <1>4, <1>5, <1>6, <1>7, <1>8 DEF AtTheExchange
<1> QED
  BY <1>9 DEF t

-----------------------------------------------------------------------------
(* Requests come and go.                                                   *)

LEMMA AskedAfterAppend ==
  ASSUME NEW side, NEW reqs \in Seq(Request), NEW q \in Request
  PROVE  /\ Asked(side, Append(reqs, q)) =
              Asked(side, reqs)
                \cup (IF q.type = "NEW" /\ q.side = side THEN {Len(reqs) + 1} ELSE {})
         /\ Asked(side, reqs) \subseteq DOMAIN reqs
<1> DEFINE t == Append(reqs, q)
<1>1. /\ DOMAIN t = 1 .. Len(reqs) + 1 /\ DOMAIN reqs = 1 .. Len(reqs) /\ Len(reqs) \in Nat
      /\ \A i \in DOMAIN reqs : t[i] = reqs[i]
      /\ t[Len(reqs) + 1] = q
  BY AppendedTo
<1> HIDE DEF t
<1>2. Asked(side, t) =
        Asked(side, reqs)
          \cup (IF q.type = "NEW" /\ q.side = side THEN {Len(reqs) + 1} ELSE {})
  BY <1>1 DEF Asked
<1> QED
  BY <1>2 DEF t, Asked

LEMMA AskedAfterTail ==
  ASSUME NEW side, NEW reqs \in Seq(Request), reqs # <<>>
  PROVE  /\ Asked(side, reqs) \subseteq Nat \ {0} /\ Asked(side, Tail(reqs)) \subseteq Nat \ {0}
         /\ \A i \in Asked(side, Tail(reqs)) : i + 1 \in Asked(side, reqs)
         /\ \A i \in Asked(side, reqs) : i # 1 => i - 1 \in Asked(side, Tail(reqs))
         /\ 1 \in Asked(side, reqs) <=> Head(reqs).type = "NEW" /\ Head(reqs).side = side
<1> DEFINE t == Tail(reqs)
<1>1. /\ DOMAIN t = 1 .. Len(reqs) - 1 /\ DOMAIN reqs = 1 .. Len(reqs)
      /\ Len(reqs) \in Nat \ {0} /\ Head(reqs) = reqs[1]
      /\ \A i \in DOMAIN t : i + 1 \in DOMAIN reqs /\ t[i] = reqs[i + 1]
      /\ \A i \in DOMAIN reqs : i = 1 \/ i - 1 \in DOMAIN t
  BY TakenFrom
<1> HIDE DEF t
<1>2. \A i \in DOMAIN reqs : i # 1 => t[i - 1] = reqs[i]
  BY <1>1
<1>3. /\ Asked(side, reqs) \subseteq Nat \ {0} /\ Asked(side, t) \subseteq Nat \ {0}
      /\ \A i \in Asked(side, t) : i + 1 \in Asked(side, reqs)
      /\ \A i \in Asked(side, reqs) : i # 1 => i - 1 \in Asked(side, t)
      /\ 1 \in Asked(side, reqs) <=> Head(reqs).type = "NEW" /\ Head(reqs).side = side
  BY <1>1, <1>2 DEF Asked
<1> QED
  BY <1>3 DEF t

(* A request that is not about the side's order is sent.                   *)
LEMMA RequestElsewhere ==
  ASSUME NEW side \in Sides, NEW o, NEW reqs \in Seq(Request), NEW resps, NEW rest,
         NEW q \in Request, q.side # side,
         q.type = "CANCEL" => q.oid # o.id \/ o.state \notin {"PENDING_NEW", "LIVE"},
         SideOK(side, o, reqs, resps, rest)
  PROVE  SideOK(side, o, Append(reqs, q), resps, rest)
<1> DEFINE t == Append(reqs, q)
<1>1. Asked(side, t) = Asked(side, reqs)
  <2>1. Asked(side, t) =
          Asked(side, reqs)
            \cup (IF q.type = "NEW" /\ q.side = side THEN {Len(reqs) + 1} ELSE {})
    BY AskedAfterAppend
  <2> HIDE DEF t
  <2> QED
    BY <2>1
<1>2. /\ DOMAIN t = DOMAIN reqs \cup {Len(reqs) + 1}
      /\ \A i \in DOMAIN reqs : i \in DOMAIN t /\ t[i] = reqs[i]
      /\ t[Len(reqs) + 1] = q
  BY AppendedTo
<1> HIDE DEF t
<1>3. Accounted(side, o, t, resps, rest)
  BY <1>1, <1>2 DEF SideOK, Accounted, NothingOut, OnItsWay, AtTheExchange
<1>4. CancelsMatch(side, o, t, rest)
  BY <1>2 DEF SideOK, CancelsMatch
<1> QED
  BY <1>3, <1>4 DEF SideOK, t

(* The manager requests a new order with a fresh id.                       *)
LEMMA RequestNew ==
  ASSUME NEW side \in Sides, NEW o, NEW o2 \in ManagedOrder, NEW reqs \in Seq(Request),
         NEW resps, NEW rest,
         NEW q \in Request, q.type = "NEW", q.side = side, q.oid = o2.id,
         q.price = o2.price, q.qty = TradeSize,
         o2.state = "PENDING_NEW", o2.id \in Nat, o2.qty = TradeSize,
         \A i \in DOMAIN reqs : reqs[i].oid # o2.id,
         o.state \in {"INVALID", "DEAD"}, SideOK(side, o, reqs, resps, rest)
  PROVE  SideOK(side, o2, Append(reqs, q), resps, rest)
<1> DEFINE t == Append(reqs, q)
           n == Len(reqs) + 1
<1>1. NothingOut(side, o, reqs, resps, rest)
  BY DEF SideOK, Accounted, OnItsWay, AtTheExchange
<1>2. Asked(side, t) = {n}
  <2>1. Asked(side, t) = Asked(side, reqs) \cup {n}
    BY AskedAfterAppend
  <2> HIDE DEF t, n
  <2> QED
    BY <1>1, <2>1 DEF NothingOut
<1>3. /\ DOMAIN t = DOMAIN reqs \cup {n}
      /\ \A i \in DOMAIN reqs : t[i] = reqs[i]
      /\ t[n] = q
  BY AppendedTo
<1> HIDE DEF t, n
<1>4. OnItsWay(side, o2, t, resps, rest)
  BY <1>1, <1>2, <1>3 DEF NothingOut, OnItsWay
<1>5. CancelsMatch(side, o2, t, rest)
  BY <1>3 DEF CancelsMatch
<1> QED
  BY <1>4, <1>5 DEF SideOK, Accounted, t

(* The manager requests that its order be cancelled.                       *)
LEMMA RequestCancel ==
  ASSUME NEW side \in Sides, NEW o \in ManagedOrder, NEW reqs \in Seq(Request),
         NEW resps, NEW rest, NEW q \in Request, q.type = "CANCEL", q.oid = o.id,
         o.state = "LIVE", SideOK(side, o, reqs, resps, rest)
  PROVE  SideOK(side, [o EXCEPT !.state = "PENDING_CANCEL"], Append(reqs, q), resps, rest)
<1> DEFINE t == Append(reqs, q)
           n == Len(reqs) + 1
           o2 == [o EXCEPT !.state = "PENDING_CANCEL"]
<1>1. AtTheExchange(side, o, reqs, resps, rest)
  BY DEF SideOK, Accounted, NothingOut, OnItsWay
<1>2. Asked(side, t) = {}
  <2>1. Asked(side, t) = Asked(side, reqs) \cup {}
    BY AskedAfterAppend
  <2> HIDE DEF t
  <2> QED
    BY <1>1, <2>1 DEF AtTheExchange
<1>3. n \in DOMAIN t /\ t[n] = q
  BY AppendedTo
<1>4. o2.state = "PENDING_CANCEL" /\ o2.id = o.id /\ o2.price = o.price /\ o2.qty = o.qty
  BY DEF ManagedOrder
<1> HIDE DEF t, n, o2
<1>5. FillsConnect(side, o2, resps, rest)
  <2>1. FillsConnect(side, o, resps, rest)
    BY <1>1 DEF AtTheExchange
  <2> QED
    BY ONLY <1>4, <2>1 DEF FillsConnect
<1>6. AtTheExchange(side, o2, t, resps, rest)
  BY <1>1, <1>2, <1>4, <1>5 DEF AtTheExchange
<1>7. CancelsMatch(side, o2, t, rest)
  BY <1>3, <1>4 DEF CancelsMatch
<1> QED
  BY <1>6, <1>7 DEF SideOK, Accounted, t, o2

(* The exchange takes a request that is none of the side for a new order.  *)
LEMMA RequestTaken ==
  ASSUME NEW side \in Sides, NEW o, NEW reqs \in Seq(Request), NEW resps, NEW rest,
         reqs # <<>>, Head(reqs).type = "NEW" => Head(reqs).side # side,
         Accounted(side, o, reqs, resps, rest)
  PROVE  Accounted(side, o, Tail(reqs), resps, rest)
<1> DEFINE t == Tail(reqs)
<1>1. /\ Asked(side, reqs) \subseteq Nat \ {0} /\ Asked(side, t) \subseteq Nat \ {0}
      /\ \A i \in Asked(side, t) : i + 1 \in Asked(side, reqs)
      /\ \A i \in Asked(side, reqs) : i - 1 \in Asked(side, t)
  BY AskedAfterTail
<1>2. /\ DOMAIN t = 1 .. Len(reqs) - 1 /\ Len(reqs) \in Nat
      /\ \A i \in DOMAIN t : t[i] = reqs[i + 1]
  BY TakenFrom
<1>3. Asked(side, t) \subseteq DOMAIN t
  BY DEF Asked
<1> HIDE DEF t
<1>4. CASE Asked(side, reqs) = {}
  <2>1. Asked(side, t) = {}
    BY <1>1, <1>4
  <2> QED
    BY <1>4, <2>1 DEF Accounted, NothingOut, OnItsWay, AtTheExchange, t
<1>5. CASE OnItsWay(side, o, reqs, resps, rest)
  <2>1. PICK i \in DOMAIN reqs :
          /\ Asked(side, reqs) = {i}
          /\ reqs[i].oid = o.id /\ reqs[i].price = o.price /\ reqs[i].qty = TradeSize
    BY <1>5 DEF OnItsWay
  <2>2. i - 1 \in Asked(side, t) /\ i \in Nat
    BY <1>1, <2>1
  <2>3. \A j \in Asked(side, t) : j = i - 1
    BY <1>1, <2>1, <2>2
  <2>4. Asked(side, t) = {i - 1} /\ i - 1 \in DOMAIN t
    BY <1>3, <2>2, <2>3
  <2>5. t[i - 1] = reqs[i]
    <3>1. (i - 1) + 1 = i
      BY <2>2
    <3> QED
      BY <1>2, <2>4, <3>1
  <2> QED
    BY <1>5, <2>1, <2>4, <2>5 DEF Accounted, OnItsWay, t
<1> QED
  BY <1>4, <1>5 DEF Accounted, NothingOut, AtTheExchange

LEMMA CancelTaken ==
  ASSUME NEW side, NEW o, NEW reqs \in Seq(Request), NEW rest, NEW rest2,
         reqs # <<>>, Rests(side, rest2) # {} => Rests(side, rest) # {},
         \/ Head(reqs).type # "CANCEL"
         \/ Head(reqs).oid # o.id
         \/ Rests(side, rest2) = {},
         CancelsMatch(side, o, reqs, rest)
  PROVE  CancelsMatch(side, o, Tail(reqs), rest2)
<1> DEFINE t == Tail(reqs)
<1>1. /\ Head(reqs) = reqs[1]
      /\ DOMAIN reqs = 1 .. Len(reqs) /\ Len(reqs) \in Nat
      /\ \A i \in DOMAIN t : i + 1 \in DOMAIN reqs /\ t[i] = reqs[i + 1]
      /\ \A i \in DOMAIN reqs : i = 1 \/ i - 1 \in DOMAIN t
  BY TakenFrom
<1> HIDE DEF t
<1>2. \A i \in DOMAIN reqs : i # 1 => t[i - 1] = reqs[i]
  BY <1>1
<1>3. CancelsMatch(side, o, t, rest2)
  BY <1>1, <1>2 DEF CancelsMatch
<1> QED
  BY <1>3 DEF t

-----------------------------------------------------------------------------
(* The steps.                                                              *)

(* An answer to the other side is sent, or handled.                        *)
LEMMA AnsweredElsewhere ==
  ASSUME NEW side \in Sides, NEW o, NEW reqs, NEW resps \in Seq(Answer), NEW rest, NEW rest2,
         NEW r \in Answer, r.side # side, Rests(side, rest2) = Rests(side, rest),
         Accounted(side, o, reqs, resps, rest)
  PROVE  Accounted(side, o, reqs, Append(resps, r), rest2)
<1>1. CASE AtTheExchange(side, o, reqs, resps, rest)
  BY <1>1, AnswerElsewhere DEF Accounted
<1>2. CASE Told(side, resps) = {}
  <2>1. Told(side, Append(resps, r)) = Told(side, resps) \cup {}
    BY ToldAfterAppend
  <2>2. Told(side, Append(resps, r)) = {}
    BY <1>2, <2>1
  <2> QED
    BY <1>1, <2>2 DEF Accounted, NothingOut, OnItsWay
<1> QED
  BY <1>1, <1>2 DEF Accounted, NothingOut, OnItsWay

LEMMA HeardElsewhere ==
  ASSUME NEW side \in Sides, NEW o, NEW reqs, NEW resps \in Seq(Answer), NEW rest,
         resps # <<>>, Head(resps).side # side,
         SideOK(side, o, reqs, resps, rest)
  PROVE  SideOK(side, o, reqs, Tail(resps), rest)
<1>1. CASE AtTheExchange(side, o, reqs, resps, rest)
  BY <1>1, TailElsewhere DEF SideOK, Accounted
<1>2. CASE Told(side, resps) = {}
  <2>1. Told(side, Tail(resps)) = {}
    BY <1>2, ToldAfterTail
  <2> QED
    BY <1>1, <2>1 DEF SideOK, Accounted, NothingOut, OnItsWay
<1> QED
  BY <1>1, <1>2 DEF SideOK, Accounted, NothingOut, OnItsWay

(* What the manager makes of the response to a side's order.               *)
LEMMA Heard ==
  ASSUME NEW side \in Sides, NEW o \in ManagedOrder, NEW reqs, NEW resps \in Seq(Answer),
         NEW rest \in SUBSET RestingOrder, resps # <<>>, Head(resps).side = side,
         SideOK(side, o, reqs, resps, rest)
  PROVE  LET r == Head(resps)
             o2 == AfterResponse(o, r)
         IN /\ o2 \in ManagedOrder
            /\ o2.id = o.id /\ o.state # "INVALID" /\ o2.state # "INVALID"
            /\ SideOK(side, o2, reqs, Tail(resps), rest)
            /\ Claim(o) \in Nat /\ Claim(o2) \in Nat
            /\ r.type # "FILLED" => Claim(o2) <= Claim(o)
            /\ r.type = "FILLED" => r.exec \in Nat /\ Claim(o2) + r.exec = Claim(o)
<1> DEFINE r == Head(resps)
           o2 == AfterResponse(o, r)
<1>1. 1 \in Told(side, resps)
  BY ToldAfterTail
<1>2. AtTheExchange(side, o, reqs, resps, rest)
  BY <1>1 DEF SideOK, Accounted, NothingOut, OnItsWay
<1>3. r \in Answer /\ r.type \in {"ACCEPTED", "FILLED", "CANCELLED"} /\ r.leaves \in Nat
  <2>1. r \in Answer
    BY TakenFrom
  <2> QED
    BY <2>1 DEF Answer, Sides
<1>4. /\ o.state \in {"PENDING_NEW", "LIVE", "PENDING_CANCEL"}
      /\ o.qty \in Nat /\ Claim(o) = o.qty
  BY <1>2 DEF AtTheExchange, Claim
<1>5. CASE r.type = "ACCEPTED"
  <2>1. o2 = [o EXCEPT !.state = "LIVE"]
    BY <1>5 DEF AfterResponse
  <2>2. /\ o.state = "PENDING_NEW"
        /\ AtTheExchange(side, o2, reqs, Tail(resps), rest)
    BY <1>2, <1>5, <2>1, TailAccepted
  <2>3. o2 \in ManagedOrder /\ o2.id = o.id /\ o2.state = "LIVE" /\ o2.qty = o.qty
    BY <2>1 DEF ManagedOrder
  <2> HIDE DEF o2, r
  <2>4. CancelsMatch(side, o2, reqs, rest)
    BY <2>2, <2>3 DEF SideOK, CancelsMatch
  <2>5. Claim(o2) = o.qty
    BY <2>3 DEF Claim
  <2> QED
    BY <1>4, <1>5, <2>2, <2>3, <2>4, <2>5 DEF SideOK, Accounted, o2, r
<1>6. CASE Ends(r)
  <2>1. Asked(side, reqs) = {} /\ Told(side, Tail(resps)) = {} /\ Rests(side, rest) = {}
    BY <1>2, <1>6, TailEnds
  <2>2. o2 \in ManagedOrder /\ o2.id = o.id /\ o2.state = "DEAD"
    BY <1>3, <1>6 DEF AfterResponse, Ends, ManagedOrder
  <2>3. r.type = "FILLED" => r.exec \in Nat /\ r.exec = o.qty
    <3> SUFFICES ASSUME r.type = "FILLED"
                 PROVE  r.exec \in Nat /\ r.exec = o.qty
      OBVIOUS
    <3>1. Fills(side, resps) \subseteq 1 .. Len(resps)
      BY ToldAfterTail DEF Fills
    <3>2. r = resps[1] /\ 1 \in Fills(side, resps) /\ \A j \in Fills(side, resps) : 1 <= j
      BY <1>1, <3>1, TakenFrom DEF Fills
    <3>3. resps[1].exec \in Nat /\ o.qty = resps[1].exec + resps[1].leaves
      BY <1>2, <3>2 DEF AtTheExchange, FillsConnect
    <3>4. r.leaves = 0
      BY <1>6 DEF Ends
    <3> QED
      BY <3>2, <3>3, <3>4
  <2> HIDE DEF o2, r
  <2>4. NothingOut(side, o2, reqs, Tail(resps), rest) /\ CancelsMatch(side, o2, reqs, rest)
    BY <2>1, <2>2 DEF NothingOut, CancelsMatch
  <2>5. Claim(o2) = 0
    BY <2>2 DEF Claim
  <2> QED
    BY <1>4, <2>2, <2>3, <2>4, <2>5 DEF SideOK, Accounted, o2, r
<1>7. CASE r.type = "FILLED" /\ ~ Ends(r)
  <2>1. r.leaves # 0
    BY <1>7 DEF Ends
  <2>2. o2 = [o EXCEPT !.qty = r.leaves]
    BY <1>7, <2>1 DEF AfterResponse, ManagedOrder
  <2>3. /\ r.exec \in Nat /\ o.qty = r.exec + r.leaves
        /\ AtTheExchange(side, [o EXCEPT !.qty = r.leaves], reqs, Tail(resps), rest)
    BY <1>2, <1>7, TailFilled
  <2>4. o2 \in ManagedOrder /\ o2.id = o.id /\ o2.state = o.state /\ o2.qty = r.leaves
    BY <1>3, <2>2 DEF ManagedOrder
  <2>5. AtTheExchange(side, o2, reqs, Tail(resps), rest)
    BY <2>2, <2>3
  <2> HIDE DEF o2, r
  <2>6. CancelsMatch(side, o2, reqs, rest)
    BY <2>4 DEF SideOK, CancelsMatch
  <2>7. Claim(o2) = r.leaves
    BY <1>4, <2>4 DEF Claim
  <2> QED
    BY <1>3, <1>4, <1>7, <2>3, <2>4, <2>5, <2>6, <2>7 DEF SideOK, Accounted, o2, r
<1> QED
  BY <1>3, <1>5, <1>6, <1>7 DEF Ends

LEMMA AddFill ==
  ASSUME NEW p, "position" \in DOMAIN p, NEW side, NEW price, NEW exec
  PROVE  /\ "position" \in DOMAIN add_fill(p, side, price, exec)
         /\ add_fill(p, side, price, exec).position = p.position + exec * side_to_value(side)
<1>1. ASSUME NEW q, "position" \in DOMAIN q, NEW at
      PROVE  "position" \in DOMAIN Valued(q, at) /\ Valued(q, at).position = q.position
  BY <1>1 DEF Valued
<1>2. /\ "position" \in DOMAIN Opened(p, side, price, exec)
      /\ Opened(p, side, price, exec).position = p.position + exec * side_to_value(side)
  BY DEF Opened
<1>3. /\ "position" \in DOMAIN Closed(p, side, price, exec)
      /\ Closed(p, side, price, exec).position = p.position + exec * side_to_value(side)
  BY DEF Closed
<1> QED
  BY <1>1, <1>2, <1>3 DEF add_fill

LEMMA HandleResponseIInv ==
  ASSUME IInv, HandleResponse
  PROVE  IInv'
<1> DEFINE r == Head(responses)
<1>1. /\ responses # <<>> /\ responses' = Tail(responses)
      /\ OrderResponse(r)
      /\ UNCHANGED <<next_oid, requests, resting>>
  BY DEF HandleResponse
<1>2. /\ r \in Answer /\ responses' \in Seq(Answer)
      /\ order \in [Sides -> ManagedOrder] /\ resting \in SUBSET RestingOrder
      /\ responses \in Seq(Answer) /\ requests \in Seq(Request)
  BY <1>1, TakenFrom DEF IInv, TypeOK
<1>3. ASSUME NEW side \in Sides, r.side # side
      PROVE  /\ order'[side] = order[side]
             /\ SideOK(side, order'[side], requests', responses', resting')
  <2>1. order'[side] = order[side]
    BY <1>1, <1>2, <1>3 DEF OrderResponse
  <2>2. SideOK(side, order[side], requests, responses, resting)
    BY DEF IInv
  <2>3. SideOK(side, order[side], requests, Tail(responses), resting)
    BY <1>1, <1>2, <1>3, <2>2, HeardElsewhere
  <2> QED
    BY <1>1, <2>1, <2>3
<1>4. ASSUME NEW side \in Sides, r.side = side
      PROVE  /\ order'[side] = AfterResponse(order[side], r)
             /\ order'[side] \in ManagedOrder
             /\ order'[side].id = order[side].id /\ order[side].state # "INVALID"
             /\ order'[side].state # "INVALID"
             /\ SideOK(side, order'[side], requests', responses', resting')
             /\ Claim(order[side]) \in Nat /\ Claim(order'[side]) \in Nat
             /\ r.type # "FILLED" => Claim(order'[side]) <= Claim(order[side])
             /\ r.type = "FILLED" =>
                  r.exec \in Nat /\ Claim(order'[side]) + r.exec = Claim(order[side])
  <2>1. order'[side] = AfterResponse(order[side], r)
    BY <1>1, <1>2, <1>4 DEF OrderResponse
  <2>2. SideOK(side, order[side], requests, responses, resting)
        /\ order[side] \in ManagedOrder
    BY <1>2 DEF IInv
  <2> QED
    BY <1>1, <1>2, <1>4, <2>1, <2>2, Heard
<1>5. order' \in [Sides -> ManagedOrder]
  <2>1. \A side \in Sides : order'[side] \in ManagedOrder
    BY <1>2, <1>3, <1>4
  <2>2. order' = [order EXCEPT ![r.side] = AfterResponse(@, r)] \/ order' = order
    BY <1>1 DEF OrderResponse
  <2>3. order' = [side \in Sides |-> order'[side]]
    BY <1>2, <2>2
  <2> QED
    BY <2>1, <2>3
<1>6. /\ "position" \in DOMAIN position' /\ position'.position \in Int
      /\ \A side \in Sides : HasRoom(side, order'[side], position'.position)
  <2>1. /\ "position" \in DOMAIN position /\ position.position \in Int
        /\ \A side \in Sides : HasRoom(side, order[side], position.position)
    BY DEF IInv, TypeOK
  <2>2. CASE Routed /\ r.type = "FILLED"
    <3>1. r.side \in Sides
      BY <1>2, <2>2 DEF Answer
    <3>2. PICK s \in Sides : s = r.side
      BY <3>1
    <3>3. position' = add_fill(position, s, r.price, r.exec)
      BY <1>1, <2>2, <3>2 DEF OrderResponse
    <3>4. "position" \in DOMAIN position'
          /\ position'.position = position.position + r.exec * side_to_value(s)
      BY <2>1, <3>3, AddFill
    <3>5. r.exec \in Nat /\ Claim(order'[s]) + r.exec = Claim(order[s])
          /\ Claim(order[s]) \in Nat /\ Claim(order'[s]) \in Nat
      BY <1>4, <2>2, <3>2
    <3>6. position'.position \in Int
      BY <2>1, <3>4, <3>5 DEF side_to_value
    <3>7. HasRoom(s, order'[s], position'.position)
      <4>1. CASE s = "BUY"
        <5>1. side_to_value(s) = 1
          BY <4>1 DEF side_to_value
        <5>2. position.position + Claim(order[s]) <= PositionMax
          BY <2>1, <5>1 DEF HasRoom
        <5> QED
          BY <2>1, <3>4, <3>5, <5>1, <5>2 DEF HasRoom
      <4>2. CASE s = "SELL"
        <5>1. side_to_value(s) = -1
          BY <4>2 DEF side_to_value
        <5>2. -position.position + Claim(order[s]) <= PositionMax
          BY <2>1, <5>1 DEF HasRoom
        <5> QED
          BY <2>1, <3>4, <3>5, <5>1, <5>2 DEF HasRoom
      <4> QED
        BY <4>1, <4>2 DEF Sides
    <3>8. ASSUME NEW t \in Sides, t # s
          PROVE  HasRoom(t, order'[t], position'.position)
      <4>1. order'[t] = order[t]
        BY <1>3, <3>2, <3>8
      <4>2. side_to_value(t) * position'.position <= side_to_value(t) * position.position
            /\ side_to_value(t) * position'.position \in Int
            /\ side_to_value(t) * position.position \in Int
        BY <2>1, <3>4, <3>5, <3>8 DEF side_to_value, Sides
      <4>3. side_to_value(t) * position.position + Claim(order[t]) <= PositionMax
        BY <2>1 DEF HasRoom
      <4>4. Claim(order[t]) \in Int /\ PositionMax \in Int
        <5>1. SideOK(t, order[t], requests, responses, resting)
          BY DEF IInv
        <5> QED
          BY <5>1, EngineAssumption
             DEF SideOK, Accounted, NothingOut, OnItsWay, AtTheExchange, Claim
      <4> QED
        BY <4>1, <4>2, <4>3, <4>4 DEF HasRoom
    <3> QED
      BY <3>4, <3>6, <3>7, <3>8
  <2>3. CASE ~ (Routed /\ r.type = "FILLED")
    <3>1. position' = position
      BY <1>1, <2>3 DEF OrderResponse
    <3>2. ASSUME NEW side \in Sides
          PROVE  HasRoom(side, order'[side], position.position)
      <4>1. CASE r.side # side
        BY <1>3, <2>1, <4>1
      <4>2. CASE r.side = side
        <5>1. /\ Claim(order'[side]) \in Nat /\ Claim(order[side]) \in Nat
              /\ Claim(order'[side]) <= Claim(order[side])
          BY <1>4, <4>2
        <5>2. side_to_value(side) * position.position \in Int /\ PositionMax \in Int
          BY <2>1, EngineAssumption DEF side_to_value
        <5> QED
          BY <2>1, <5>1, <5>2 DEF HasRoom
      <4> QED
        BY <4>1, <4>2
    <3> QED
      BY <2>1, <3>1, <3>2
  <2> QED
    BY <2>2, <2>3
<1>7. IdsFresh(order', next_oid', requests')
  <2>1. \A side \in Sides : /\ order'[side].id = order[side].id
                            /\ order'[side].state # "INVALID" => order[side].state # "INVALID"
    BY <1>3, <1>4
  <2>2. IdsFresh(order, next_oid, requests)
    BY DEF IInv
  <2> QED
    BY <1>1, <2>1, <2>2 DEF IdsFresh
<1>8. TypeOK'
  BY <1>1, <1>2, <1>5, <1>6 DEF IInv, TypeOK
<1> QED
  BY <1>3, <1>4, <1>6, <1>7, <1>8 DEF IInv

(* The exchange's steps leave the manager and the position alone.          *)
LEMMA ExchangeIInv ==
  ASSUME IInv, UNCHANGED <<order, next_oid, position>>,
         requests' \in Seq(Request), responses' \in Seq(Answer),
         resting' \in SUBSET RestingOrder,
         \A i \in DOMAIN requests' : requests'[i].oid < next_oid,
         \A side \in Sides : SideOK(side, order[side], requests', responses', resting')
  PROVE  IInv'
BY DEF IInv, TypeOK, IdsFresh

LEMMA TakenIds ==
  ASSUME IInv, requests # <<>>
  PROVE  /\ Tail(requests) \in Seq(Request) /\ Head(requests) \in Request
         /\ \A i \in DOMAIN Tail(requests) : Tail(requests)[i].oid < next_oid
         /\ Head(requests) = requests[1] /\ 1 \in DOMAIN requests
<1>1. requests \in Seq(Request) /\ \A i \in DOMAIN requests : requests[i].oid < next_oid
  BY DEF IInv, TypeOK, IdsFresh
<1> QED
  BY <1>1, TakenFrom

(* A resting order is the one the manager has at the exchange.             *)
LEMMA RestingIsManaged ==
  ASSUME IInv, NEW x \in resting
  PROVE  /\ x \in RestingOrder
         /\ x.side \in Sides
         /\ AtTheExchange(x.side, order[x.side], requests, responses, resting)
         /\ Rests(x.side, resting) = {x}
         /\ order[x.side].id = x.oid
<1>1. x \in RestingOrder /\ x.side \in Sides /\ x \in Rests(x.side, resting)
  BY DEF IInv, TypeOK, RestingOrder, Rests
<1>2. SideOK(x.side, order[x.side], requests, responses, resting)
  BY <1>1 DEF IInv
<1>3. AtTheExchange(x.side, order[x.side], requests, responses, resting)
  BY <1>1, <1>2 DEF SideOK, Accounted, NothingOut, OnItsWay
<1> QED
  BY <1>1, <1>3 DEF AtTheExchange

LEMMA AcceptIInv ==
  ASSUME IInv, Accept
  PROVE  IInv'
<1> DEFINE q == Head(requests)
           x == [oid |-> q.oid, side |-> q.side, price |-> q.price, qty |-> q.qty]
           r == Response("ACCEPTED", x, x.price, 0)
<1>1. /\ requests # <<>> /\ q.type = "NEW"
      /\ resting' = resting \cup {x}
      /\ responses' = Append(responses, r)
      /\ requests' = Tail(requests)
      /\ UNCHANGED <<order, next_oid, position>>
  BY DEF Accept, moneyVars
<1>2. /\ requests' \in Seq(Request) /\ q \in Request /\ q = requests[1]
      /\ \A i \in DOMAIN requests' : requests'[i].oid < next_oid
  BY <1>1, TakenIds
<1>3. PICK s \in Sides : s = q.side
  BY <1>2 DEF Request
<1>4. /\ order \in [Sides -> ManagedOrder] /\ requests \in Seq(Request)
      /\ responses \in Seq(Answer) /\ resting \in SUBSET RestingOrder
      /\ \A side \in Sides : SideOK(side, order[side], requests, responses, resting)
  BY DEF IInv, TypeOK
<1>5. 1 \in Asked(s, requests) /\ Asked(s, requests) \subseteq Nat \ {0}
  BY <1>1, <1>3, <1>4, AskedAfterTail
<1>6. OnItsWay(s, order[s], requests, responses, resting)
  BY <1>4, <1>5 DEF SideOK, Accounted, NothingOut, AtTheExchange
<1>7. /\ Asked(s, requests) = {1}
      /\ q.oid = order[s].id /\ q.price = order[s].price /\ q.qty = TradeSize
  BY <1>2, <1>5, <1>6 DEF OnItsWay
<1>8. x \in RestingOrder /\ r \in Answer /\ r.side = s /\ r.type = "ACCEPTED"
      /\ x.oid = q.oid /\ x.price = q.price /\ x.qty = q.qty /\ x.side = s
  BY <1>2, <1>3, <1>7, EngineAssumption DEF Request, RestingOrder, Response, Answer
<1> HIDE DEF q, x, r
<1>9. SideOK(s, order[s], requests', responses', resting')
  <2>1. Rests(s, resting') = {x}
    BY <1>1, <1>6, <1>8 DEF OnItsWay, Rests
  <2>2. Asked(s, requests') = {}
    <3>1. Asked(s, Tail(requests)) \subseteq Nat \ {0}
          /\ \A i \in Asked(s, Tail(requests)) : i + 1 \in Asked(s, requests)
      BY <1>1, <1>4, AskedAfterTail
    <3>2. \A i \in Asked(s, Tail(requests)) : i + 1 = 1 /\ i \in Nat \ {0}
      BY <1>7, <3>1
    <3> QED
      BY <1>1, <3>2
  <2>3. AtTheExchange(s, order[s], requests', responses', resting')
    BY <1>1, <1>4, <1>6, <1>7, <1>8, <2>1, <2>2, AnswerAccepted
  <2>4. CancelsMatch(s, order[s], requests', resting')
    <3>1. order[s].state = "PENDING_NEW"
      BY <1>6 DEF OnItsWay
    <3>2. CancelsMatch(s, order[s], requests, resting)
      BY <1>4 DEF SideOK
    <3>3. CancelsMatch(s, order[s], requests', resting)
      BY <1>1, <1>4, <3>2, CancelTaken DEF q
    <3> QED
      BY <3>1, <3>3 DEF CancelsMatch
  <2> QED
    BY <2>3, <2>4 DEF SideOK, Accounted
<1>10. ASSUME NEW t \in Sides, t # s
       PROVE  SideOK(t, order[t], requests', responses', resting')
  <2>1. Rests(t, resting') = Rests(t, resting)
    BY <1>1, <1>8, <1>10 DEF Rests
  <2>2. Accounted(t, order[t], requests', responses, resting)
    BY <1>1, <1>3, <1>4, <1>10, RequestTaken DEF SideOK, q
  <2>3. Accounted(t, order[t], requests', responses', resting')
    BY <1>1, <1>4, <1>8, <1>10, <2>1, <2>2, AnsweredElsewhere
  <2>4. CancelsMatch(t, order[t], requests', resting')
    BY <1>1, <1>4, <2>1, CancelTaken DEF SideOK, q
  <2> QED
    BY <2>3, <2>4 DEF SideOK
<1>11. responses' \in Seq(Answer) /\ resting' \in SUBSET RestingOrder
  BY <1>1, <1>4, <1>8, AppendedTo
<1> QED
  BY <1>1, <1>2, <1>9, <1>10, <1>11, ExchangeIInv

LEMMA FillIInv ==
  ASSUME IInv, NEW x \in resting, NEW qty \in 1 .. x.qty, Fill(x, qty)
  PROVE  IInv'
<1> DEFINE left == [x EXCEPT !.qty = @ - qty]
           r == Response("FILLED", left, x.price, qty)
<1>1. /\ resting' = (resting \ {x}) \cup (IF left.qty = 0 THEN {} ELSE {left})
      /\ responses' = Append(responses, r)
      /\ UNCHANGED <<order, next_oid, position, requests>>
  BY DEF Fill, managerVars, moneyVars
<1>2. /\ x \in RestingOrder
      /\ AtTheExchange(x.side, order[x.side], requests, responses, resting)
      /\ Rests(x.side, resting) = {x}
  BY RestingIsManaged
<1>3. PICK s \in Sides : s = x.side
  BY <1>2 DEF RestingOrder
<1>4. /\ order \in [Sides -> ManagedOrder] /\ requests \in Seq(Request)
      /\ responses \in Seq(Answer) /\ resting \in SUBSET RestingOrder
      /\ \A side \in Sides : SideOK(side, order[side], requests, responses, resting)
      /\ \A i \in DOMAIN requests : requests[i].oid < next_oid
  BY DEF IInv, TypeOK, IdsFresh
<1>5. /\ qty \in Nat \ {0} /\ x.qty - qty \in Nat
      /\ left.qty = x.qty - qty /\ left.side = s
      /\ left = [x EXCEPT !.qty = x.qty - qty]
  BY <1>2, <1>3 DEF RestingOrder
<1>6. left.qty # 0 => left \in RestingOrder
  BY <1>2, <1>5 DEF RestingOrder
<1>7. r \in Answer /\ r.side = s /\ r.type = "FILLED" /\ r.exec = qty /\ r.leaves = x.qty - qty
  BY <1>2, <1>3, <1>5 DEF RestingOrder, Response, Answer
<1> HIDE DEF left, r
<1>8. Rests(s, resting') = IF x.qty - qty = 0 THEN {} ELSE {[x EXCEPT !.qty = x.qty - qty]}
  BY <1>1, <1>2, <1>3, <1>5 DEF Rests
<1>9. SideOK(s, order[s], requests', responses', resting')
  <2>1. AtTheExchange(s, order[s], requests, responses', resting')
    <3>1. /\ Rests(s, resting) = {x} /\ order[s] \in ManagedOrder
          /\ AtTheExchange(s, order[s], requests, responses, resting)
      BY <1>2, <1>3, <1>4
    <3>2. AtTheExchange(s, order[s], requests, Append(responses, r), resting')
      BY <1>2, <1>4, <1>7, <1>8, <3>1, AnswerFilled
    <3> QED
      BY <1>1, <3>2
  <2>2. CancelsMatch(s, order[s], requests, resting')
    BY <1>2, <1>3, <1>4 DEF SideOK, CancelsMatch
  <2> QED
    BY <1>1, <2>1, <2>2 DEF SideOK, Accounted
<1>10. ASSUME NEW t \in Sides, t # s
       PROVE  SideOK(t, order[t], requests', responses', resting')
  <2>1. Rests(t, resting') = Rests(t, resting)
    BY <1>1, <1>3, <1>5, <1>10 DEF Rests
  <2>2. Accounted(t, order[t], requests, responses', resting')
    BY <1>1, <1>4, <1>7, <1>10, <2>1, AnsweredElsewhere DEF SideOK
  <2>3. CancelsMatch(t, order[t], requests, resting')
    BY <1>4, <2>1 DEF SideOK, CancelsMatch
  <2> QED
    BY <1>1, <2>2, <2>3 DEF SideOK
<1>11. responses' \in Seq(Answer) /\ resting' \in SUBSET RestingOrder
  BY <1>1, <1>4, <1>6, <1>7, AppendedTo
<1> QED
  BY <1>1, <1>4, <1>9, <1>10, <1>11, ExchangeIInv

LEMMA CancelIInv ==
  ASSUME IInv, Cancel
  PROVE  IInv'
<1>1. PICK x \in resting :
        /\ x.oid = Head(requests).oid
        /\ resting' = resting \ {x}
        /\ responses' = Append(responses, Response("CANCELLED", x, x.price, None))
  BY DEF Cancel
<1>2. /\ requests # <<>> /\ Head(requests).type = "CANCEL" /\ requests' = Tail(requests)
      /\ UNCHANGED <<order, next_oid, position>>
  BY DEF Cancel, CancelRequest, moneyVars
<1> DEFINE r == Response("CANCELLED", x, x.price, None)
<1>3. /\ x \in RestingOrder
      /\ AtTheExchange(x.side, order[x.side], requests, responses, resting)
      /\ Rests(x.side, resting) = {x} /\ order[x.side].id = x.oid
  BY RestingIsManaged
<1>4. PICK s \in Sides : s = x.side
  BY <1>3 DEF RestingOrder
<1>5. /\ order \in [Sides -> ManagedOrder] /\ requests \in Seq(Request)
      /\ responses \in Seq(Answer) /\ resting \in SUBSET RestingOrder
      /\ \A side \in Sides : SideOK(side, order[side], requests, responses, resting)
  BY DEF IInv, TypeOK
<1>6. /\ requests' \in Seq(Request)
      /\ \A i \in DOMAIN requests' : requests'[i].oid < next_oid
  BY <1>2, TakenIds
<1>7. r \in Answer /\ r.side = s /\ r.type = "CANCELLED"
  BY <1>3, <1>4 DEF RestingOrder, Response, Answer
<1>8. responses' = Append(responses, r)
  BY <1>1
<1> HIDE DEF r
<1>9. ASSUME NEW side \in Sides
      PROVE  Accounted(side, order[side], requests', responses, resting)
  BY <1>2, <1>5, RequestTaken DEF SideOK
<1>10. SideOK(s, order[s], requests', responses', resting')
  <2>1. Rests(s, resting') = {}
    BY <1>1, <1>3, <1>4 DEF Rests
  <2>2. AtTheExchange(s, order[s], requests', responses, resting)
    BY <1>3, <1>4, <1>9 DEF Accounted, NothingOut, OnItsWay
  <2>3. AtTheExchange(s, order[s], requests', responses', resting')
    BY <1>3, <1>4, <1>5, <1>7, <1>8, <2>1, <2>2, AnswerCancelled
  <2>4. CancelsMatch(s, order[s], requests', resting')
    BY <1>2, <1>5, <2>1, CancelTaken DEF SideOK
  <2> QED
    BY <2>3, <2>4 DEF SideOK, Accounted
<1>11. ASSUME NEW t \in Sides, t # s
       PROVE  SideOK(t, order[t], requests', responses', resting')
  <2>1. Rests(t, resting') = Rests(t, resting)
    BY <1>1, <1>4, <1>11 DEF Rests
  <2>2. Accounted(t, order[t], requests', responses', resting')
    BY <1>5, <1>7, <1>8, <1>9, <1>11, <2>1, AnsweredElsewhere
  <2>3. CancelsMatch(t, order[t], requests', resting')
    <3>1. order[s].id # order[t].id \/ order[t].state = "INVALID"
      BY <1>3, <1>4, <1>11 DEF IInv, IdsFresh, AtTheExchange
    <3>2. CASE order[s].id # order[t].id
      BY <1>1, <1>2, <1>3, <1>4, <1>5, <2>1, <3>2, CancelTaken DEF SideOK
    <3>3. CASE order[t].state = "INVALID"
      BY <3>3 DEF CancelsMatch
    <3> QED
      BY <3>1, <3>2, <3>3
  <2> QED
    BY <2>2, <2>3 DEF SideOK
<1>12. responses' \in Seq(Answer) /\ resting' \in SUBSET RestingOrder
  BY <1>1, <1>5, <1>7, <1>8, AppendedTo
<1> QED
  BY <1>2, <1>6, <1>10, <1>11, <1>12, ExchangeIInv

LEMMA CancelRejectedIInv ==
  ASSUME IInv, CancelRejected
  PROVE  IInv'
<1> DEFINE r == Response("CANCEL_REJECTED",
                         [oid |-> Head(requests).oid, side |-> "INVALID", qty |-> None],
                         None, None)
<1>1. /\ requests # <<>> /\ Head(requests).type = "CANCEL" /\ requests' = Tail(requests)
      /\ \A x \in resting : x.oid # Head(requests).oid
      /\ responses' = Append(responses, r)
      /\ UNCHANGED <<order, next_oid, position, resting>>
  BY DEF CancelRejected, CancelRequest, moneyVars
<1>2. /\ requests' \in Seq(Request) /\ Head(requests) \in Request
      /\ \A i \in DOMAIN requests' : requests'[i].oid < next_oid
  BY <1>1, TakenIds
<1>3. /\ order \in [Sides -> ManagedOrder] /\ requests \in Seq(Request)
      /\ responses \in Seq(Answer) /\ resting \in SUBSET RestingOrder
      /\ \A side \in Sides : SideOK(side, order[side], requests, responses, resting)
  BY DEF IInv, TypeOK
<1>4. r \in Answer /\ r.side = "INVALID"
  BY <1>2 DEF Response, Answer, Request
<1> HIDE DEF r
<1>5. ASSUME NEW side \in Sides
      PROVE  SideOK(side, order[side], requests', responses', resting')
  <2>1. Accounted(side, order[side], requests', responses, resting)
    BY <1>1, <1>3, RequestTaken DEF SideOK
  <2>2. side # "INVALID"
    BY DEF Sides
  <2>3. Accounted(side, order[side], requests', responses', resting')
    BY <1>1, <1>3, <1>4, <2>1, <2>2, AnsweredElsewhere
  <2>4. Head(requests).oid # order[side].id \/ Rests(side, resting) = {}
    <3> SUFFICES ASSUME NEW x \in Rests(side, resting)
                 PROVE  Head(requests).oid # order[side].id
      OBVIOUS
    <3>1. x \in resting /\ x.side = side
      BY DEF Rests
    <3> QED
      BY <1>1, <3>1, RestingIsManaged
  <2>5. CancelsMatch(side, order[side], requests', resting')
    BY <1>1, <1>3, <2>4, CancelTaken DEF SideOK
  <2> QED
    BY <2>3, <2>5 DEF SideOK
<1>6. responses' \in Seq(Answer)
  BY <1>1, <1>3, <1>4, AppendedTo
<1> QED
  BY <1>1, <1>2, <1>3, <1>5, <1>6, ExchangeIInv

(* The manager sees to the order of a side, after requests reqs were sent: *)
(* it leaves an order and sends at most one request, and the position has  *)
(* room for the order if a new one is allowed only then.                   *)
LEMMA ManagedSide ==
  ASSUME NEW side \in Sides, order \in [Sides -> ManagedOrder],
         NEW reqs \in Seq(Request), NEW oid \in Nat, NEW price \in Int, NEW allowed,
         \A i \in DOMAIN reqs : reqs[i].oid < oid,
         order[side].state # "INVALID" => order[side].id \in Nat /\ order[side].id < oid,
         SideOK(side, order[side], reqs, responses, resting)
  PROVE  LET o2 == Managed(side, oid, price, allowed)
             reqs2 == reqs \o Sends(side, oid, price, allowed)
             next == IF WantsNew(order[side], price) /\ allowed THEN oid + 1 ELSE oid
         IN /\ o2 \in ManagedOrder /\ reqs2 \in Seq(Request)
            /\ next \in Nat /\ oid <= next
            /\ SideOK(side, o2, reqs2, responses, resting)
            /\ \A i \in DOMAIN reqs2 : reqs2[i].oid < next
            /\ o2.state # "INVALID" => o2.id \in Nat /\ o2.id < next
            /\ o2.state # "INVALID" => \/ o2.id = oid
                                       \/ o2.id = order[side].id /\ order[side].state # "INVALID"
            /\ \/ Claim(o2) = Claim(order[side])
               \/ allowed /\ Claim(o2) = TradeSize
            /\ \A t \in Sides : \A o :
                 /\ t # side
                 /\ SideOK(t, o, reqs, responses, resting)
                 /\ o.state # "INVALID" /\ order[side].state # "INVALID" => o.id # order[side].id
                 => SideOK(t, o, reqs2, responses, resting)
<1> DEFINE o == order[side]
           o2 == Managed(side, oid, price, allowed)
           reqs2 == reqs \o Sends(side, oid, price, allowed)
           next == IF WantsNew(o, price) /\ allowed THEN oid + 1 ELSE oid
           Elsewhere(rs) ==
             \A t \in Sides : \A x :
               /\ t # side
               /\ SideOK(t, x, reqs, responses, resting)
               /\ x.state # "INVALID" /\ o.state # "INVALID" => x.id # o.id
               => SideOK(t, x, rs, responses, resting)
<1> SUFFICES /\ o2 \in ManagedOrder /\ reqs2 \in Seq(Request)
             /\ next \in Nat /\ oid <= next
             /\ SideOK(side, o2, reqs2, responses, resting)
             /\ \A i \in DOMAIN reqs2 : reqs2[i].oid < next
             /\ o2.state # "INVALID" => o2.id \in Nat /\ o2.id < next
             /\ o2.state # "INVALID" => \/ o2.id = oid
                                        \/ o2.id = o.id /\ o.state # "INVALID"
             /\ \/ Claim(o2) = Claim(o)
                \/ allowed /\ Claim(o2) = TradeSize
             /\ Elsewhere(reqs2)
  OBVIOUS
<1>1. o \in ManagedOrder
  OBVIOUS
<1>2. CASE WantsNew(o, price) /\ allowed
  <2> DEFINE q == request_new_order(side, oid, price)
  <2>1. o2 = [id |-> oid, price |-> price, qty |-> TradeSize, state |-> "PENDING_NEW"]
        /\ Sends(side, oid, price, allowed) = <<q>>
    BY <1>2 DEF Managed, Sends
  <2>2. q \in Request /\ q.type = "NEW" /\ q.side = side /\ q.oid = oid /\ q.price = price
        /\ q.qty = TradeSize
    BY EngineAssumption DEF request_new_order, Request, Price
  <2>3. o2 \in ManagedOrder /\ o2.id = oid /\ o2.price = price /\ o2.qty = TradeSize
        /\ o2.state = "PENDING_NEW"
    BY <2>1, EngineAssumption DEF ManagedOrder, Price
  <2>4. o.state \in {"INVALID", "DEAD"}
    BY <1>2 DEF WantsNew
  <2> HIDE DEF q, o2
  <2>5. reqs2 = Append(reqs, q)
    BY <2>1, <2>2
  <2> HIDE DEF reqs2
  <2>6. SideOK(side, o2, reqs2, responses, resting)
    <3>1. \A i \in DOMAIN reqs : reqs[i].oid # o2.id
      BY <2>3 DEF Request
    <3> QED
      BY <2>2, <2>3, <2>4, <2>5, <3>1, RequestNew
  <2>7. reqs2 \in Seq(Request) /\ \A i \in DOMAIN reqs2 : reqs2[i].oid < oid + 1
    <3>1. /\ reqs2 \in Seq(Request)
          /\ DOMAIN reqs2 = 1 .. Len(reqs) + 1 /\ DOMAIN reqs = 1 .. Len(reqs)
          /\ \A i \in DOMAIN reqs : reqs2[i] = reqs[i]
          /\ reqs2[Len(reqs) + 1] = q /\ Len(reqs) \in Nat
      BY <2>2, <2>5, AppendedTo
    <3>2. \A i \in DOMAIN reqs : reqs[i].oid \in Nat
      <4>1. \A i \in DOMAIN reqs : reqs[i] \in Request
        OBVIOUS
      <4> QED
        BY <4>1 DEF Request
    <3> QED
      BY <2>2, <3>1, <3>2
  <2>8. Elsewhere(reqs2)
    BY <2>2, <2>5, RequestElsewhere
  <2>9. Claim(o2) = TradeSize
    BY <2>3 DEF Claim
  <2>10. next = oid + 1
    BY <1>2
  <2> HIDE DEF next, o, Elsewhere
  <2> QED
    BY <1>2, <2>3, <2>6, <2>7, <2>8, <2>9, <2>10
<1>3. CASE ~ (WantsNew(o, price) /\ allowed) /\ WantsCancel(o, price)
  <2> DEFINE q == request_cancel_order(side, o)
  <2>1. o2 = [o EXCEPT !.state = "PENDING_CANCEL"]
        /\ Sends(side, oid, price, allowed) = <<q>>
    BY <1>3 DEF Managed, Sends
  <2>2. o.state = "LIVE"
    BY <1>3 DEF WantsCancel
  <2>3. o.id \in Nat /\ o.qty \in Nat
    BY <2>2 DEF SideOK, Accounted, NothingOut, OnItsWay, AtTheExchange
  <2>4. q \in Request /\ q.type = "CANCEL" /\ q.side = side /\ q.oid = o.id
    BY <1>1, <2>3 DEF request_cancel_order, Request, ManagedOrder
  <2>5. o2 \in ManagedOrder /\ o2.id = o.id /\ o2.qty = o.qty /\ o2.state = "PENDING_CANCEL"
    BY <1>1, <2>1 DEF ManagedOrder
  <2>6. SideOK(side, o2, reqs2, responses, resting)
    <3>1. reqs2 = Append(reqs, q)
      <4> HIDE DEF q
      <4> QED
        BY <2>1, <2>4
    <3>2. SideOK(side, [o EXCEPT !.state = "PENDING_CANCEL"], Append(reqs, q), responses, resting)
      <4> HIDE DEF q
      <4> QED
        BY <1>1, <2>2, <2>4, RequestCancel
    <3> QED
      BY <2>1, <3>1, <3>2
  <2> HIDE DEF q, o2
  <2>7. reqs2 = Append(reqs, q)
    BY <2>1, <2>4
  <2> HIDE DEF reqs2
  <2>8. o.id < oid
    BY <2>2
  <2>9. reqs2 \in Seq(Request) /\ \A i \in DOMAIN reqs2 : reqs2[i].oid < oid
    <3>1. /\ reqs2 \in Seq(Request)
          /\ DOMAIN reqs2 = 1 .. Len(reqs) + 1 /\ DOMAIN reqs = 1 .. Len(reqs)
          /\ \A i \in DOMAIN reqs : reqs2[i] = reqs[i]
          /\ reqs2[Len(reqs) + 1] = q /\ Len(reqs) \in Nat
      BY <2>4, <2>7, AppendedTo
    <3> QED
      BY <2>4, <2>8, <3>1
  <2>10. ASSUME NEW t \in Sides, NEW x, t # side, SideOK(t, x, reqs, responses, resting),
                x.state # "INVALID" /\ o.state # "INVALID" => x.id # o.id
         PROVE  SideOK(t, x, reqs2, responses, resting)
    <3>1. q.oid # x.id \/ x.state \notin {"PENDING_NEW", "LIVE"}
      BY <2>2, <2>4, <2>10
    <3> QED
      BY <2>4, <2>7, <2>10, <3>1, RequestElsewhere
  <2>11. Claim(o2) = Claim(o)
    BY <2>2, <2>5 DEF Claim
  <2>12. Elsewhere(reqs2) /\ next = oid
    BY <1>3, <2>10
  <2> HIDE DEF next, o, Elsewhere
  <2> QED
    BY <2>2, <2>3, <2>5, <2>6, <2>8, <2>9, <2>11, <2>12
<1>4. CASE ~ (WantsNew(o, price) /\ allowed) /\ ~ WantsCancel(o, price)
  <2>1. o2 = o /\ Sends(side, oid, price, allowed) = <<>>
    BY <1>4 DEF Managed, Sends
  <2>2. reqs2 = reqs /\ next = oid
    BY <1>4, <2>1
  <2> HIDE DEF o2, reqs2, next
  <2> QED
    BY <1>1, <2>1, <2>2
<1> QED
  BY <1>2, <1>3, <1>4

LEMMA QuotesAreIntegers ==
  ASSUME NEW bbo \in BestOffers, None \notin {bbo.bid, bbo.ask}
  PROVE  Quotes(bbo).bid \in Int /\ Quotes(bbo).ask \in Int
<1>1. bbo.bid \in Int /\ bbo.ask \in Int
  BY EngineAssumption
<1>2. /\ Quotes(bbo).bid = bbo.bid \/ Quotes(bbo).bid = bbo.bid - 1
      /\ Quotes(bbo).ask = bbo.ask \/ Quotes(bbo).ask = bbo.ask + 1
  BY DEF Quotes
<1> QED
  BY <1>1, <1>2

(* A side has room for an order that was allowed at this position.         *)
LEMMA AllowedHasRoom ==
  ASSUME NEW side \in Sides, NEW o, Claim(o) = TradeSize, NEW p, p.position \in Int,
         get_trade_risk(p, side, TradeSize)
  PROVE  HasRoom(side, o, p.position)
<1>1. Magnitude(p.position + side_to_value(side) * TradeSize) <= PositionMax
  BY DEF get_trade_risk
<1>2. TradeSize \in Nat /\ PositionMax \in Nat
  BY EngineAssumption
<1>3. CASE side = "BUY"
  <2>1. side_to_value(side) = 1
    BY <1>3 DEF side_to_value
  <2> QED
    BY <1>1, <1>2, <2>1 DEF HasRoom, Magnitude
<1>4. CASE side = "SELL"
  <2>1. side_to_value(side) = -1
    BY <1>4 DEF side_to_value
  <2> QED
    BY <1>1, <1>2, <2>1 DEF HasRoom, Magnitude
<1> QED
  BY <1>3, <1>4 DEF Sides

(* manage_orders, from a position p with room for what is out.             *)
LEMMA ManageOrdersIInv ==
  ASSUME IInv, Direct, NEW bid \in Int, NEW ask \in Int,
         "position" \in DOMAIN position', position'.position = position.position,
         manage_orders(position', bid, ask), UNCHANGED exchangeVars
  PROVE  IInv'
<1> DEFINE mayBuy == get_trade_risk(position', "BUY", TradeSize)
           maySell == get_trade_risk(position', "SELL", TradeSize)
           askOid == IF WantsNew(order["BUY"], bid) /\ mayBuy THEN next_oid + 1 ELSE next_oid
           next == IF WantsNew(order["SELL"], ask) /\ maySell THEN askOid + 1 ELSE askOid
           reqs == requests \o Sends("BUY", next_oid, bid, mayBuy)
           reqs2 == reqs \o Sends("SELL", askOid, ask, maySell)
           buy == Managed("BUY", next_oid, bid, mayBuy)
           sell == Managed("SELL", askOid, ask, maySell)
<1>1. /\ requests' = reqs2 /\ next_oid' = next
      /\ order' = [order EXCEPT !["BUY"] = buy, !["SELL"] = sell]
      /\ UNCHANGED <<responses, resting>>
  <2>1. requests' = reqs2
    BY DEF manage_orders
  <2> QED
    BY <2>1 DEF manage_orders, exchangeVars
<1>2. /\ order \in [Sides -> ManagedOrder] /\ requests \in Seq(Request) /\ next_oid \in Nat
      /\ \A i \in DOMAIN requests : requests[i].oid < next_oid
      /\ \A side \in Sides : SideOK(side, order[side], requests, responses, resting)
      /\ \A side \in Sides : order[side].state # "INVALID" =>
           order[side].id \in Nat /\ order[side].id < next_oid
      /\ order["BUY"].state # "INVALID" /\ order["SELL"].state # "INVALID" =>
           order["BUY"].id # order["SELL"].id
      /\ "BUY" \in Sides /\ "SELL" \in Sides
      /\ \A side \in Sides : HasRoom(side, order[side], position.position)
      /\ responses \in Seq(Answer) /\ resting \in SUBSET RestingOrder /\ next_oid # 0
      /\ position.position \in Int
  BY DEF IInv, TypeOK, IdsFresh, Sides
<1>3. /\ buy \in ManagedOrder /\ reqs \in Seq(Request)
      /\ askOid \in Nat /\ next_oid <= askOid
      /\ SideOK("BUY", buy, reqs, responses, resting)
      /\ \A i \in DOMAIN reqs : reqs[i].oid < askOid
      /\ buy.state # "INVALID" => buy.id \in Nat /\ buy.id < askOid
      /\ buy.state # "INVALID" => \/ buy.id = next_oid
                                  \/ buy.id = order["BUY"].id /\ order["BUY"].state # "INVALID"
      /\ \/ Claim(buy) = Claim(order["BUY"])
         \/ mayBuy /\ Claim(buy) = TradeSize
      /\ SideOK("SELL", order["SELL"], reqs, responses, resting)
  <2> HIDE DEF mayBuy
  <2>1. "SELL" # "BUY" /\ "SELL" \in Sides /\ "BUY" \in Sides
    BY DEF Sides
  <2> QED
    BY <1>2, <2>1, ManagedSide
<1>4. order["SELL"].state # "INVALID" => order["SELL"].id \in Nat /\ order["SELL"].id < askOid
  BY <1>2, <1>3
<1>5. buy.state # "INVALID" /\ order["SELL"].state # "INVALID" => buy.id # order["SELL"].id
  BY <1>2, <1>3
<1> HIDE DEF askOid, reqs, buy
<1>6. /\ sell \in ManagedOrder /\ reqs2 \in Seq(Request)
      /\ next \in Nat /\ askOid <= next
      /\ SideOK("SELL", sell, reqs2, responses, resting)
      /\ \A i \in DOMAIN reqs2 : reqs2[i].oid < next
      /\ sell.state # "INVALID" => sell.id \in Nat /\ sell.id < next
      /\ sell.state # "INVALID" => \/ sell.id = askOid
                                   \/ sell.id = order["SELL"].id /\ order["SELL"].state # "INVALID"
      /\ \/ Claim(sell) = Claim(order["SELL"])
         \/ maySell /\ Claim(sell) = TradeSize
      /\ SideOK("BUY", buy, reqs2, responses, resting)
  <2> HIDE DEF maySell
  <2>1. "SELL" # "BUY" /\ "SELL" \in Sides /\ "BUY" \in Sides
    BY DEF Sides
  <2> QED
    BY SMTT(30), <1>2, <1>3, <1>4, <1>5, <2>1, ManagedSide
<1> HIDE DEF next, reqs2, sell
<1>7. buy.state # "INVALID" /\ sell.state # "INVALID" => buy.id # sell.id
  BY <1>3, <1>5, <1>6
<1>8. /\ order' \in [Sides -> ManagedOrder] /\ order'["BUY"] = buy /\ order'["SELL"] = sell
      /\ Sides = {"BUY", "SELL"}
  BY <1>1, <1>2, <1>3, <1>6 DEF Sides
<1>9. \A side \in Sides : SideOK(side, order'[side], requests', responses', resting')
  BY <1>1, <1>6, <1>8
<1>10. IdsFresh(order', next_oid', requests')
  <2>1. buy.state # "INVALID" => buy.id \in Nat /\ buy.id < next
    BY <1>3, <1>6
  <2> QED
    BY <1>1, <1>6, <1>7, <1>8, <2>1 DEF IdsFresh
<1>11. \A side \in Sides : HasRoom(side, order'[side], position'.position)
  <2>1. HasRoom("BUY", buy, position'.position)
    BY <1>2, <1>3, AllowedHasRoom DEF HasRoom
  <2>2. HasRoom("SELL", sell, position'.position)
    BY <1>2, <1>6, AllowedHasRoom DEF HasRoom
  <2> QED
    BY <1>8, <2>1, <2>2
<1>12. TypeOK'
  BY <1>1, <1>2, <1>3, <1>6, <1>8 DEF TypeOK
<1> QED
  BY <1>9, <1>10, <1>11, <1>12 DEF IInv

LEMMA OrderBookUpdateIInv ==
  ASSUME IInv, Direct, NEW bbo \in BestOffers, on_order_book_update(bbo)
  PROVE  IInv'
<1>1. "position" \in DOMAIN position' /\ position'.position = position.position
  <2>1. "position" \in DOMAIN position /\ position' = on_bbo_update(position, bbo)
    BY DEF IInv, TypeOK, on_order_book_update
  <2> QED
    BY <2>1 DEF on_bbo_update, Valued
<1>2. CASE None \in {bbo.bid, bbo.ask}
  <2>1. UNCHANGED <<order, next_oid, requests, responses, resting>>
    BY <1>2 DEF on_order_book_update, managerVars, exchangeVars
  <2> QED
    BY <1>1, <2>1 DEF IInv, TypeOK
<1>3. CASE None \notin {bbo.bid, bbo.ask}
  <2>1. manage_orders(position', Quotes(bbo).bid, Quotes(bbo).ask) /\ UNCHANGED exchangeVars
    BY <1>3 DEF on_order_book_update
  <2> QED
    BY <1>1, <1>3, <2>1, QuotesAreIntegers, ManageOrdersIInv
<1> QED
  BY <1>2, <1>3

LEMMA InitIInv == Init => IInv
<1> SUFFICES ASSUME Init
             PROVE  IInv
  OBVIOUS
<1>1. /\ order = [side \in Sides |-> NoOrder] /\ next_oid = 1 /\ requests = <<>>
      /\ responses = <<>> /\ resting = {} /\ position = NewPosition
  BY DEF Init, ManagerInit
<1>2. "position" \in DOMAIN position /\ position.position = 0
  BY <1>1 DEF NewPosition
<1>3. TypeOK
  BY <1>1, <1>2 DEF TypeOK, NoOrder, ManagedOrder, Price
<1>4. \A side \in Sides : order[side] = NoOrder /\ NoOrder.state = "INVALID"
  BY <1>1 DEF NoOrder
<1>5. \A side \in Sides : SideOK(side, order[side], requests, responses, resting)
  BY <1>1, <1>4
     DEF SideOK, Accounted, NothingOut, CancelsMatch, Asked, Told, Rests
<1>6. IdsFresh(order, next_oid, requests)
  BY <1>1, <1>4 DEF IdsFresh
<1>7. \A side \in Sides : HasRoom(side, order[side], position.position)
  BY <1>2, <1>4, EngineAssumption DEF HasRoom, Claim, side_to_value
<1> QED
  BY <1>3, <1>5, <1>6, <1>7 DEF IInv

LEMMA NextIInv ==
  ASSUME IInv, Direct, [Next]_vars
  PROVE  IInv'
<1>1. CASE UNCHANGED vars
  BY <1>1 DEF IInv, TypeOK, vars, managerVars, exchangeVars, moneyVars
<1>2. CASE NoMoreResponses \/ NoMoreUpdates
  BY <1>2 DEF IInv, TypeOK, NoMoreResponses, NoMoreUpdates, managerVars, exchangeVars, moneyVars
<1> QED
  BY <1>1, <1>2, HandleResponseIInv, OrderBookUpdateIInv, AcceptIInv, CancelIInv,
     CancelRejectedIInv, FillIInv
     DEF Next, Client, Exchange

LEMMA Invariance == Direct => (Spec => []IInv)
<1> SUFFICES ASSUME Direct
             PROVE  Spec => []IInv
  OBVIOUS
<1>1. IInv /\ [Next]_vars => IInv'
  BY NextIInv
<1> QED
  BY <1>1, InitIInv, PTL DEF Spec

(* The manager's orders, their requests and responses are always of the    *)
(* right types: in particular every cancel it sends names an order.        *)
THEOREM TypeCorrect == Direct => (Spec => []TypeOK)
<1> SUFFICES ASSUME Direct
             PROVE  Spec => []TypeOK
  OBVIOUS
<1>1. IInv => TypeOK
  BY DEF IInv
<1> QED
  BY <1>1, Invariance, PTL

(* A side never has two orders out, whatever fills and cancels cross.      *)
THEOREM NeverTwoOrders == Direct => (Spec => []OneOrderPerSide)
<1> SUFFICES ASSUME Direct
             PROVE  Spec => []OneOrderPerSide
  OBVIOUS
<1>1. IInv => OneOrderPerSide
  <2> SUFFICES ASSUME IInv, NEW side \in Sides
               PROVE  Cardinality(Rests(side, resting)) + Cardinality(Asked(side, requests)) <= 1
    BY DEF OneOrderPerSide, Rests, Asked
  <2>1. Cardinality({}) = 0 /\ \A x : Cardinality({x}) = 1
    BY FS_EmptySet, FS_Singleton
  <2>2. Accounted(side, order[side], requests, responses, resting)
    BY DEF IInv, SideOK
  <2>3. CASE Asked(side, requests) = {} /\ Rests(side, resting) = {}
    BY <2>1, <2>3
  <2>4. CASE OnItsWay(side, order[side], requests, responses, resting)
    <3>1. PICK i \in DOMAIN requests : Asked(side, requests) = {i}
      BY <2>4 DEF OnItsWay
    <3>2. Cardinality(Asked(side, requests)) = 1
      BY <2>1, <3>1
    <3>3. Cardinality(Rests(side, resting)) = 0
      BY <2>1, <2>4 DEF OnItsWay
    <3> QED
      BY <3>2, <3>3
  <2>5. CASE AtTheExchange(side, order[side], requests, responses, resting)
    <3>1. Asked(side, requests) = {} /\ \A x, y \in Rests(side, resting) : x = y
      BY <2>5 DEF AtTheExchange
    <3>2. CASE Rests(side, resting) # {}
      <4>1. PICK x \in Rests(side, resting) : TRUE
        BY <3>2
      <4>2. Rests(side, resting) = {x}
        BY <3>1, <4>1
      <4>3. Cardinality(Rests(side, resting)) = 1
        BY <2>1, <4>2
      <4>4. Cardinality(Asked(side, requests)) = 0
        BY <2>1, <3>1
      <4> QED
        BY <4>3, <4>4
    <3> QED
      BY <2>3, <3>1, <3>2
  <2> QED
    BY <2>2, <2>3, <2>4, <2>5 DEF Accounted, NothingOut
<1> QED
  BY <1>1, Invariance, PTL

(* When nothing is on its way, what the manager keeps for a side is what   *)
(* rests on the exchange, and nothing is pending.                          *)
THEOREM ViewsAgree == Direct => (Spec => []SettledAgrees)
<1> SUFFICES ASSUME Direct
             PROVE  Spec => []SettledAgrees
  OBVIOUS
<1>1. IInv => SettledAgrees
  <2> SUFFICES ASSUME IInv, requests = <<>>, responses = <<>>, NEW side \in Sides
               PROVE  /\ order[side].state \notin {"PENDING_NEW", "PENDING_CANCEL"}
                      /\ Rests(side, resting) =
                           IF order[side].state = "LIVE"
                           THEN {[oid |-> order[side].id, side |-> side,
                                  price |-> order[side].price, qty |-> order[side].qty]}
                           ELSE {}
    BY DEF SettledAgrees, Rests
  <2>1. SideOK(side, order[side], requests, responses, resting)
    BY DEF IInv
  <2>2. Told(side, responses) = {} /\ Fills(side, responses) = {} /\ Asked(side, requests) = {}
        /\ DOMAIN requests = {}
    BY DEF Told, Fills, Asked
  <2>3. CASE NothingOut(side, order[side], requests, responses, resting)
    BY <2>3 DEF NothingOut
  <2>4. CASE AtTheExchange(side, order[side], requests, responses, resting)
    <3>1. Rests(side, resting) # {} /\ order[side].state # "PENDING_NEW"
      BY <2>2, <2>4 DEF AtTheExchange
    <3>2. order[side].state = "LIVE"
      BY <2>1, <2>2, <2>4, <3>1 DEF SideOK, CancelsMatch, AtTheExchange
    <3>3. PICK x \in Rests(side, resting) : TRUE
      BY <3>1
    <3>4. Rests(side, resting) = {x} /\ x.oid = order[side].id /\ x.price = order[side].price
          /\ x.qty = order[side].qty
      BY <2>2, <2>4, <3>3 DEF AtTheExchange, FillsConnect
    <3>5. x \in RestingOrder /\ x.side = side
      BY <3>3 DEF IInv, TypeOK, Rests
    <3>6. x = [oid |-> order[side].id, side |-> side,
               price |-> order[side].price, qty |-> order[side].qty]
      BY <3>4, <3>5 DEF RestingOrder
    <3> QED
      BY <3>2, <3>4, <3>6
  <2>5. ~ OnItsWay(side, order[side], requests, responses, resting)
    BY <2>2 DEF OnItsWay
  <2> QED
    BY <2>1, <2>3, <2>4, <2>5 DEF SideOK, Accounted
<1> QED
  BY <1>1, Invariance, PTL

-----------------------------------------------------------------------------
(* The exposure.                                                           *)

LEMMA RestingSum ==
  ASSUME NEW x, x.qty \in Int
  PROVE  /\ MapThenSumSet(LAMBDA o : o.qty, {}) = 0
         /\ MapThenSumSet(LAMBDA o : o.qty, {x}) = x.qty
<1>1. MapThenSumSet(LAMBDA o : o.qty, {}) = 0
  BY DEF MapThenSumSet, MapThenFoldSet
<1>2. MapThenSumSet(LAMBDA o : o.qty, {x}) = x.qty
  <2> DEFINE Rec(f) == f = [s \in SUBSET {x} |->
                              IF s = {} THEN 0
                              ELSE LET o == CHOOSE y \in s : TRUE
                                   IN  o.qty + f[s \ {o}]]
             iter == CHOOSE f : Rec(f)
             w == [s \in SUBSET {x} |-> IF s = {} THEN 0 ELSE x.qty]
  <2>1. MapThenSumSet(LAMBDA o : o.qty, {x}) = iter[{x}]
    BY DEF MapThenSumSet, MapThenFoldSet
  <2>2. \A s \in SUBSET {x} : s # {} =>
          s = {x} /\ (CHOOSE y \in s : TRUE) = x /\ s \ {x} = {}
    OBVIOUS
  <2>3. Rec(w)
    BY <2>2
  <2>4. Rec(iter)
    BY <2>3
  <2> HIDE DEF iter
  <2>5. iter[{}] = 0
    BY <2>4
  <2>6. iter[{x}] = x.qty + iter[{}]
    BY <2>2, <2>4
  <2> QED
    BY <2>1, <2>5, <2>6
<1> QED
  BY <1>1, <1>2

(* The quantity requested for a side.                                      *)
LEMMA RequestedSum ==
  ASSUME IInv, NEW side \in Sides
  PROVE  /\ Asked(side, requests) = {} => Total(Requested(side)) = 0
         /\ OnItsWay(side, order[side], requests, responses, resting)
              => Total(Requested(side)) = TradeSize
<1> DEFINE a == Requested(side)
<1>1. requests \in Seq(Request) /\ DOMAIN requests = 1 .. Len(requests) /\ Len(requests) \in Nat
      /\ \A i \in DOMAIN requests : requests[i] \in Request
  BY DEF IInv, TypeOK
<1>2. a \in Seq(Int) /\ Len(a) = Len(requests)
  <2>1. \A i \in DOMAIN requests : a[i] \in Int
    BY <1>1 DEF Requested, Request
  <2>2. a = [i \in 1 .. Len(requests) |-> a[i]]
    BY <1>1 DEF Requested
  <2> HIDE DEF a
  <2> QED
    BY <1>1, <2>1, <2>2
<1>3. \A i \in 1 .. Len(a) : i \notin Asked(side, requests) => a[i] = 0
  BY <1>1, <1>2 DEF Requested, Asked
<1>4. ASSUME OnItsWay(side, order[side], requests, responses, resting)
      PROVE  \E i \in 1 .. Len(a) : a[i] = TradeSize /\ Asked(side, requests) = {i}
  <2>1. PICK i \in DOMAIN requests : Asked(side, requests) = {i} /\ requests[i].qty = TradeSize
    BY <1>4 DEF OnItsWay
  <2>2. requests[i].type = "NEW" /\ requests[i].side = side
    BY <2>1 DEF Asked
  <2> QED
    BY <1>1, <1>2, <2>1, <2>2 DEF Requested
<1> HIDE DEF a
<1>5. Asked(side, requests) = {} => Total(a) = 0
  BY <1>2, <1>3, TotalOfZeros
<1>6. OnItsWay(side, order[side], requests, responses, resting) => Total(a) = TradeSize
  BY <1>2, <1>3, <1>4, TotalOfOne
<1> QED
  BY <1>5, <1>6 DEF a

(* The position stays within its limit whatever becomes of the orders that *)
(* are out: at most what the claim of a side's order covers can still be   *)
(* filled, and the risk check left room for that.                          *)
THEOREM PositionWithinLimit == Direct => (Spec => []ExposureWithinLimit)
<1> SUFFICES ASSUME Direct
             PROVE  Spec => []ExposureWithinLimit
  OBVIOUS
<1>1. IInv => ExposureWithinLimit
  <2> SUFFICES ASSUME IInv, NEW side \in Sides
               PROVE  Exposure(side) <= PositionMax
    BY DEF ExposureWithinLimit
  <2> DEFINE p == side_to_value(side) * position.position
             filled == Total(OnTheWay(side, responses))
             asked == Total(Requested(side))
             rests == MapThenSumSet(LAMBDA o : o.qty, Rests(side, resting))
  <2>1. Exposure(side) = p + filled + asked + rests
    BY DEF Exposure, OnTheirWay, OnTheWay, Rests
  <2>2. p \in Int /\ PositionMax \in Int /\ TradeSize \in Nat
    BY EngineAssumption DEF IInv, TypeOK, side_to_value
  <2>3. p + Claim(order[side]) <= PositionMax
    BY DEF IInv, HasRoom
  <2>4. /\ responses \in Seq(Answer) /\ resting \in SUBSET RestingOrder
        /\ Accounted(side, order[side], requests, responses, resting)
    BY DEF IInv, TypeOK, SideOK
  <2>5. Told(side, responses) = {} => filled = 0
    BY <2>4, FillsAdd DEF Fills
  <2>6. Rests(side, resting) = {} => rests = 0
    <3>1. [qty |-> 0].qty \in Int
      OBVIOUS
    <3> QED
      BY <3>1, RestingSum
  <2>7. \A x \in Rests(side, resting) : x.qty \in Nat
    BY <2>4 DEF Rests, RestingOrder
  <2>8. \A x : x.qty \in Int /\ Rests(side, resting) = {x} => rests = x.qty
    BY RestingSum
  <2> HIDE DEF p, filled, asked, rests
  <2>9. CASE NothingOut(side, order[side], requests, responses, resting)
    <3>1. filled = 0 /\ rests = 0 /\ asked = 0 /\ Claim(order[side]) = 0
      BY <2>5, <2>6, <2>9, RequestedSum DEF NothingOut, Claim, asked
    <3> QED
      BY <2>1, <2>2, <2>3, <3>1
  <2>10. CASE OnItsWay(side, order[side], requests, responses, resting)
    <3>1. filled = 0 /\ rests = 0 /\ asked = TradeSize /\ Claim(order[side]) = TradeSize
      BY <2>5, <2>6, <2>10, RequestedSum DEF OnItsWay, Claim, asked
    <3> QED
      BY <2>1, <2>2, <2>3, <3>1
  <2>11. CASE AtTheExchange(side, order[side], requests, responses, resting)
    <3>1. /\ asked = 0 /\ Claim(order[side]) = order[side].qty /\ order[side].qty \in Nat
          /\ filled \in Int
      BY <2>11, RequestedSum DEF AtTheExchange, Claim, asked, filled
    <3>2. filled + rests <= order[side].qty /\ rests \in Nat
      <4>1. CASE Rests(side, resting) = {}
        BY <2>6, <2>11, <3>1, <4>1 DEF AtTheExchange, filled
      <4>2. CASE Rests(side, resting) # {}
        <5>1. PICK x \in Rests(side, resting) : TRUE
          BY <4>2
        <5>2. Rests(side, resting) = {x} /\ filled + x.qty <= order[side].qty
          BY <2>11, <5>1 DEF AtTheExchange, filled
        <5>3. rests = x.qty /\ x.qty \in Nat
          BY <2>7, <2>8, <5>2
        <5> QED
          BY <5>2, <5>3
      <4> QED
        BY <4>1, <4>2
    <3> QED
      BY <2>1, <2>2, <2>3, <3>1, <3>2
  <2> QED
    BY <2>4, <2>9, <2>10, <2>11 DEF Accounted
<1> QED
  BY <1>1, Invariance, PTL

-----------------------------------------------------------------------------
(* Fractions.  Two ways of writing a number have one Ratio: what it takes  *)
(* off is the greatest common factor, so numerator and denominator are     *)
(* coprime, some combination of them is 1, and only one pair is left.      *)

(* No number above 1 divides both.                                         *)
Coprime(a, b) ==
  \A g \in Nat \ {0} : \A x, y \in Int : a = g * x /\ b = g * y => g = 1

(* a / b and c / d are one number.                                         *)
OneNumber(a, b, c, d) == a * d = c * b

Divides(b, d) == \E k \in Nat \ {0} : d = b * k

LEMMA CommonFactorDivides ==
  ASSUME NEW n \in Int, NEW d \in Nat \ {0}
  PROVE  \E f \in Nat \ {0} : \E a, b \in Int :
           /\ f = CommonFactor(n, d)
           /\ n = f * a /\ d = f * b /\ n \div f = a /\ d \div f = b
           /\ \A g \in 1 .. d : n % g = 0 /\ d % g = 0 => g <= f
<1> DEFINE S == {f \in 1 .. d : n % f = 0 /\ d % f = 0}
<1>1. \E f \in S : \A g \in S : f >= g
  <2> DEFINE T == {d - f : f \in S}
  <2>1. 1 \in S
    OBVIOUS
  <2>2. T \in SUBSET Nat /\ T # {}
    BY <2>1
  <2>3. PICK t \in T : \A u \in T : t <= u
    <3> HIDE DEF T
    <3> QED
      BY <2>2, LeastNumber
  <2>4. PICK f \in S : t = d - f
    OBVIOUS
  <2>5. \A g \in S : d - g \in T
    OBVIOUS
  <2>6. \A g \in S : g \in Int
    OBVIOUS
  <2> HIDE DEF S, T
  <2> QED
    BY <2>3, <2>4, <2>5, <2>6
<1>2. CommonFactor(n, d) = CHOOSE f \in S : \A g \in S : f >= g
  BY DEF CommonFactor, Max
<1>3. PICK f : f = CommonFactor(n, d)
  OBVIOUS
<1>4. f \in S /\ \A g \in S : f >= g
  <2> HIDE DEF S
  <2> QED
    BY <1>1, <1>2, <1>3
<1>5. f \in Nat \ {0} /\ n % f = 0 /\ d % f = 0
  BY <1>4
<1>6. n = f * (n \div f) /\ n \div f \in Int
  BY <1>5
<1>7. d = f * (d \div f) /\ d \div f \in Int
  BY <1>5
<1>8. \A g \in 1 .. d : n % g = 0 /\ d % g = 0 => g <= f
  BY <1>4, <1>5
<1> QED
  BY <1>3, <1>5, <1>6, <1>7, <1>8

(* The remainder of a product is zero.                                     *)
LEMMA ProductRemainder ==
  ASSUME NEW f \in Nat \ {0}, NEW q \in Int
  PROVE  (f * q) % f = 0
<1> DEFINE r == (f * q) % f
           e == (f * q) \div f
<1>1. f * q \in Int
  OBVIOUS
<1>2. f * q = f * e + r /\ e \in Int /\ r \in 0 .. f - 1
  BY <1>1
<1> HIDE DEF r, e
<1>3. r = f * (q - e) /\ q - e \in Int
  BY <1>2
<1>4. CASE q - e >= 1
  BY <1>2, <1>3, <1>4
<1>5. CASE q - e <= -1
  BY <1>2, <1>3, <1>5
<1>6. CASE q - e = 0
  BY <1>3, <1>6 DEF r
<1> QED
  BY <1>3, <1>4, <1>5, <1>6

LEMMA Division ==
  ASSUME NEW n \in Int, NEW d \in Nat \ {0}
  PROVE  \E q \in Int, r \in 0 .. d - 1 : n = d * q + r
<1>1. n = d * (n \div d) + (n % d) /\ n \div d \in Int /\ n % d \in 0 .. d - 1
  OBVIOUS
<1> QED
  BY <1>1

LEMMA LowestTerms ==
  ASSUME NEW n \in Int, NEW d \in Nat \ {0}
  PROVE  \E f \in Nat \ {0}, a \in Int, b \in Nat \ {0} :
           /\ n = f * a /\ d = f * b /\ Coprime(a, b)
           /\ Ratio(n, d) = [num |-> a, den |-> b]
<1>1. PICK f \in Nat \ {0}, a \in Int, b \in Int :
        /\ f = CommonFactor(n, d)
        /\ n = f * a /\ d = f * b /\ n \div f = a /\ d \div f = b
        /\ \A g \in 1 .. d : n % g = 0 /\ d % g = 0 => g <= f
  BY CommonFactorDivides
<1>2. b \in Nat \ {0}
  BY <1>1
<1>3. Ratio(n, d) = [num |-> a, den |-> b]
  BY <1>1 DEF Ratio
<1>4. ASSUME NEW g \in Nat \ {0}, NEW x \in Int, NEW y \in Int, a = g * x, b = g * y
      PROVE  g = 1
  <2>1. PICK h \in Nat \ {0} : h = f * g
    OBVIOUS
  <2>2. n = h * x /\ d = h * y
    <3>1. n = f * (g * x) /\ d = f * (g * y)
      BY <1>1, <1>4
    <3>2. f * (g * x) = (f * g) * x /\ f * (g * y) = (f * g) * y
      OBVIOUS
    <3> QED
      BY <2>1, <3>1, <3>2
  <2>3. y \in Nat \ {0}
    BY <1>2, <1>4
  <2>4. h <= d
    BY <2>2, <2>3
  <2>5. n % h = 0 /\ d % h = 0
    BY <2>2, ProductRemainder
  <2>6. h <= f
    BY <1>1, <2>4, <2>5
  <2> QED
    BY <2>1, <2>6
<1>5. Coprime(a, b)
  BY <1>4 DEF Coprime
<1> QED
  BY <1>1, <1>2, <1>3, <1>5

(* A combination of coprime numbers is 1.                                  *)
LEMMA Bezout ==
  ASSUME NEW a \in Int, NEW b \in Nat \ {0}, Coprime(a, b)
  PROVE  \E x, y \in Int : a * x + b * y = 1
<1> DEFINE Combines(m) == \E x, y \in Int : m = a * x + b * y
           T == {m \in Nat \ {0} : Combines(m)}
<1>1. b \in T
  <2>1. b = a * 0 + b * 1
    OBVIOUS
  <2> QED
    BY <2>1
<1>2. PICK m \in T : \A k \in T : m <= k
  <2>1. T \in SUBSET Nat /\ T # {}
    BY <1>1
  <2> HIDE DEF T
  <2> QED
    BY <2>1, LeastNumber
<1>3. PICK x \in Int, y \in Int : m = a * x + b * y
  OBVIOUS
<1>4. m \in Nat \ {0}
  OBVIOUS
<1>5. ASSUME NEW c \in Int, NEW u \in Int, NEW v \in Int, c = a * u + b * v
      PROVE  \E q \in Int : c = m * q
  <2>1. PICK q \in Int, r \in 0 .. m - 1 : c = m * q + r
    BY <1>4, Division
  <2>2. r = a * (u - q * x) + b * (v - q * y)
    <3>1. r = (a * u + b * v) - (a * x + b * y) * q
      BY <1>3, <1>4, <1>5, <2>1
    <3> QED
      BY <3>1
  <2>3. u - q * x \in Int /\ v - q * y \in Int
    OBVIOUS
  <2>4. Combines(r)
    BY <2>2, <2>3
  <2>5. r = 0
    <3>1. r # 0 => r \in Nat \ {0}
      BY <1>4
    <3>2. r # 0 => r \in T
      <4> HIDE DEF Combines
      <4> QED
        BY <2>4, <3>1
    <3> HIDE DEF T
    <3> QED
      BY <1>2, <1>4, <3>2
  <2> QED
    BY <1>4, <2>1, <2>5
<1>6. \E q \in Int : a = m * q
  <2>1. a = a * 1 + b * 0 /\ 0 \in Int /\ 1 \in Int /\ a \in Int /\ b \in Int
    OBVIOUS
  <2> HIDE DEF T
  <2> QED
    BY <1>5, <2>1
<1>7. \E q \in Int : b = m * q
  <2>1. b = a * 0 + b * 1 /\ 0 \in Int /\ 1 \in Int /\ a \in Int /\ b \in Int
    OBVIOUS
  <2> HIDE DEF T
  <2> QED
    BY <1>5, <2>1
<1>8. m = 1
  BY <1>4, <1>6, <1>7 DEF Coprime
<1> QED
  BY <1>3, <1>8

(* If a / b and c / d are one number, and a and b are coprime, d is a      *)
(* multiple of b.                                                          *)
LEMMA DenominatorDivides ==
  ASSUME NEW a \in Int, NEW b \in Nat \ {0}, NEW c \in Int, NEW d \in Nat \ {0},
         Coprime(a, b), OneNumber(a, b, c, d)
  PROVE  Divides(b, d)
<1>1. PICK x \in Int, y \in Int : a * x + b * y = 1
  BY Bezout
<1>2. PICK k \in Int : k = c * x + d * y
  OBVIOUS
<1>3. d = b * k
  <2>1. d = d * (a * x + b * y)
    BY <1>1
  <2>2. d = (a * d) * x + b * (d * y)
    BY <2>1
  <2>3. d = (c * b) * x + b * (d * y)
    BY <2>2 DEF OneNumber
  <2> QED
    BY <1>2, <2>3
<1> QED
  BY <1>3 DEF Divides

LEMMA RatioSame ==
  ASSUME NEW n \in Int, NEW d \in Nat \ {0}, NEW m \in Int, NEW e \in Nat \ {0},
         OneNumber(n, d, m, e)
  PROVE  Ratio(n, d) = Ratio(m, e)
<1>1. PICK f \in Nat \ {0}, a \in Int, b \in Nat \ {0} :
        n = f * a /\ d = f * b /\ Coprime(a, b) /\ Ratio(n, d) = [num |-> a, den |-> b]
  BY LowestTerms
<1>2. PICK g \in Nat \ {0}, u \in Int, v \in Nat \ {0} :
        m = g * u /\ e = g * v /\ Coprime(u, v) /\ Ratio(m, e) = [num |-> u, den |-> v]
  BY LowestTerms
<1>3. a * v = u * b
  <2>1. (f * a) * (g * v) = (g * u) * (f * b)
    BY <1>1, <1>2 DEF OneNumber
  <2>2. PICK h \in Nat \ {0} : h = f * g
    OBVIOUS
  <2>3. (a * v) * h = (u * b) * h
    BY <2>1, <2>2
  <2>4. a * v \in Int /\ u * b \in Int
    OBVIOUS
  <2> QED
    BY <2>2, <2>3, <2>4
<1>4. b = v
  <2>1. OneNumber(a, b, u, v) /\ OneNumber(u, v, a, b)
    BY <1>3 DEF OneNumber
  <2>2. Divides(b, v)
    BY <1>1, <2>1, DenominatorDivides
  <2>3. Divides(v, b)
    BY <1>2, <2>1, DenominatorDivides
  <2>4. v >= b
    BY <2>2 DEF Divides
  <2>5. b >= v
    BY <2>3 DEF Divides
  <2> QED
    BY <2>4, <2>5
<1>5. a = u
  BY <1>3, <1>4
<1> QED
  BY <1>1, <1>2, <1>4, <1>5

Fraction == {Ratio(n, d) : n \in Int, d \in Nat \ {0}}

LEMMA RatioIs ==
  ASSUME NEW n \in Int, NEW d \in Nat \ {0}
  PROVE  \E a \in Int, b \in Nat \ {0} :
           Ratio(n, d) = [num |-> a, den |-> b] /\ OneNumber(a, b, n, d)
<1>1. PICK f \in Nat \ {0}, a \in Int, b \in Nat \ {0} :
        /\ n = f * a /\ d = f * b /\ Coprime(a, b)
        /\ Ratio(n, d) = [num |-> a, den |-> b]
  BY LowestTerms
<1>2. a * (f * b) = (f * a) * b
  OBVIOUS
<1>3. OneNumber(a, b, n, d)
  BY <1>1, <1>2 DEF OneNumber
<1> QED
  BY <1>1, <1>3

LEMMA WholeIs ==
  ASSUME NEW n \in Int
  PROVE  Whole(n) = Ratio(n, 1) /\ Whole(n) \in Fraction
<1>1. PICK d \in Nat \ {0} : d = 1
  OBVIOUS
<1>2. PICK f \in Nat \ {0}, a \in Int, b \in Nat \ {0} :
        /\ n = f * a /\ d = f * b /\ Coprime(a, b)
        /\ Ratio(n, d) = [num |-> a, den |-> b]
  BY LowestTerms
<1>3. f = 1 /\ b = 1 /\ a = n
  BY <1>1, <1>2
<1>4. Whole(n) = Ratio(n, d)
  BY <1>1, <1>2, <1>3 DEF Whole
<1> QED
  BY <1>1, <1>4 DEF Fraction

LEMMA PlusIs ==
  ASSUME NEW n \in Int, NEW d \in Nat \ {0}, NEW m \in Int, NEW e \in Nat \ {0}
  PROVE  Plus(Ratio(n, d), Ratio(m, e)) = Ratio(n * e + m * d, d * e)
<1>1. PICK a \in Int, b \in Nat \ {0} :
        Ratio(n, d) = [num |-> a, den |-> b] /\ OneNumber(a, b, n, d)
  BY RatioIs
<1>2. PICK u \in Int, v \in Nat \ {0} :
        Ratio(m, e) = [num |-> u, den |-> v] /\ OneNumber(u, v, m, e)
  BY RatioIs
<1>3. Plus(Ratio(n, d), Ratio(m, e)) = Ratio(a * v + u * b, b * v)
  BY <1>1, <1>2 DEF Plus
<1>4. PICK x \in Int, y \in Nat \ {0} : x = a * v + u * b /\ y = b * v
  OBVIOUS
<1>5. PICK w \in Int, z \in Nat \ {0} : w = n * e + m * d /\ z = d * e
  OBVIOUS
<1>6. OneNumber(x, y, w, z)
  <2>1. a * d = n * b /\ u * e = m * v
    BY <1>1, <1>2 DEF OneNumber
  <2>2. (a * v + u * b) * (d * e) = (a * d) * (v * e) + (u * e) * (b * d)
    OBVIOUS
  <2>3. (n * e + m * d) * (b * v) = (n * b) * (v * e) + (m * v) * (b * d)
    OBVIOUS
  <2>4. (a * v + u * b) * (d * e) = (n * e + m * d) * (b * v)
    BY <2>1, <2>2, <2>3
  <2> QED
    BY <1>4, <1>5, <2>4 DEF OneNumber
<1>7. Ratio(x, y) = Ratio(w, z)
  BY <1>6, RatioSame
<1> QED
  BY <1>3, <1>4, <1>5, <1>7

LEMMA TimesIs ==
  ASSUME NEW n \in Int, NEW d \in Nat \ {0}, NEW k \in Int
  PROVE  Times(Ratio(n, d), k) = Ratio(n * k, d)
<1>1. PICK a \in Int, b \in Nat \ {0} :
        Ratio(n, d) = [num |-> a, den |-> b] /\ OneNumber(a, b, n, d)
  BY RatioIs
<1>2. Times(Ratio(n, d), k) = Ratio(a * k, b)
  BY <1>1 DEF Times
<1>3. PICK x \in Int, w \in Int : x = a * k /\ w = n * k
  OBVIOUS
<1>4. OneNumber(x, b, w, d)
  <2>1. a * d = n * b
    BY <1>1 DEF OneNumber
  <2>2. (a * k) * d = (a * d) * k /\ (n * k) * b = (n * b) * k
    OBVIOUS
  <2>3. (a * k) * d = (n * k) * b
    BY <2>1, <2>2
  <2> QED
    BY <1>3, <2>3 DEF OneNumber
<1>5. Ratio(x, b) = Ratio(w, d)
  BY <1>4, RatioSame
<1> QED
  BY <1>2, <1>3, <1>5

LEMMA OverIs ==
  ASSUME NEW n \in Int, NEW d \in Nat \ {0}, NEW k \in Nat \ {0}
  PROVE  Over(Ratio(n, d), k) = Ratio(n, d * k)
<1>1. PICK a \in Int, b \in Nat \ {0} :
        Ratio(n, d) = [num |-> a, den |-> b] /\ OneNumber(a, b, n, d)
  BY RatioIs
<1>2. Over(Ratio(n, d), k) = Ratio(a, b * k)
  BY <1>1 DEF Over
<1>3. PICK y \in Nat \ {0}, z \in Nat \ {0} : y = b * k /\ z = d * k
  OBVIOUS
<1>4. OneNumber(a, y, n, z)
  <2>1. a * d = n * b
    BY <1>1 DEF OneNumber
  <2>2. a * (d * k) = (a * d) * k /\ n * (b * k) = (n * b) * k
    OBVIOUS
  <2>3. a * (d * k) = n * (b * k)
    BY <2>1, <2>2
  <2> QED
    BY <1>3, <2>3 DEF OneNumber
<1>5. Ratio(a, y) = Ratio(n, z)
  BY <1>4, RatioSame
<1> QED
  BY <1>2, <1>3, <1>5

LEMMA MinusIs ==
  ASSUME NEW n \in Int, NEW d \in Nat \ {0}, NEW m \in Int, NEW e \in Nat \ {0}
  PROVE  Minus(Ratio(n, d), Ratio(m, e)) = Ratio(n * e - m * d, d * e)
<1>1. Times(Ratio(m, e), -1) = Ratio(m * (-1), e)
  BY TimesIs
<1>2. PICK k \in Int : k = m * (-1)
  OBVIOUS
<1>3. Plus(Ratio(n, d), Ratio(k, e)) = Ratio(n * e + k * d, d * e)
  BY PlusIs
<1>4. n * e + k * d = n * e - m * d
  BY <1>2
<1> QED
  BY <1>1, <1>2, <1>3, <1>4 DEF Minus

(* Sums with whole numbers, written over the other's denominator.          *)
LEMMA PlusWhole ==
  ASSUME NEW n \in Int, NEW d \in Nat \ {0}, NEW k \in Int
  PROVE  /\ Plus(Ratio(n, d), Whole(k)) = Ratio(n + k * d, d)
         /\ Plus(Whole(k), Ratio(n, d)) = Ratio(k * d + n, d)
         /\ Minus(Ratio(n, d), Whole(k)) = Ratio(n - k * d, d)
         /\ Minus(Whole(k), Ratio(n, d)) = Ratio(k * d - n, d)
<1>1. PICK e \in Nat \ {0} : e = 1
  OBVIOUS
<1>2. Whole(k) = Ratio(k, e)
  BY <1>1, WholeIs
<1>3. /\ Plus(Ratio(n, d), Ratio(k, e)) = Ratio(n * e + k * d, d * e)
      /\ Plus(Ratio(k, e), Ratio(n, d)) = Ratio(k * d + n * e, e * d)
      /\ Minus(Ratio(n, d), Ratio(k, e)) = Ratio(n * e - k * d, d * e)
      /\ Minus(Ratio(k, e), Ratio(n, d)) = Ratio(k * d - n * e, e * d)
  BY PlusIs, MinusIs
<1>4. n * e = n /\ d * e = d /\ e * d = d
  BY <1>1
<1> QED
  BY <1>2, <1>3, <1>4

(* Common factors do not matter.                                           *)
LEMMA RatioReduces ==
  ASSUME NEW n \in Int, NEW d \in Nat \ {0}, NEW k \in Nat \ {0}
  PROVE  Ratio(n * k, d * k) = Ratio(n, d)
<1>1. PICK m \in Int, e \in Nat \ {0} : m = n * k /\ e = d * k
  OBVIOUS
<1>2. (n * k) * d = n * (d * k)
  OBVIOUS
<1>3. OneNumber(m, e, n, d)
  BY <1>1, <1>2 DEF OneNumber
<1> QED
  BY <1>1, <1>3, RatioSame

LEMMA TimesNothing ==
  ASSUME NEW r \in Fraction
  PROVE  Times(r, 0) = Whole(0)
<1>1. PICK n \in Int, d \in Nat \ {0} : r = Ratio(n, d)
  BY DEF Fraction
<1>2. PICK z \in Int, e \in Nat \ {0} : z = 0 /\ e = 1
  OBVIOUS
<1>3. Times(r, z) = Ratio(n * z, d)
  BY <1>1, TimesIs
<1>4. n * z = z
  BY <1>2
<1>5. OneNumber(z, d, z, e)
  BY <1>2 DEF OneNumber
<1>6. Ratio(z, d) = Ratio(z, e)
  BY <1>5, RatioSame
<1>7. Whole(z) = Ratio(z, e)
  BY <1>2, WholeIs
<1> QED
  BY <1>2, <1>3, <1>4, <1>6, <1>7

LEMMA FractionsClosed ==
  ASSUME NEW r \in Fraction, NEW s \in Fraction, NEW k \in Int
  PROVE  /\ Plus(r, s) \in Fraction /\ Minus(r, s) \in Fraction /\ Times(r, k) \in Fraction
         /\ k # 0 => Over(r, Magnitude(k)) \in Fraction
<1>1. PICK n \in Int, d \in Nat \ {0} : r = Ratio(n, d)
  BY DEF Fraction
<1>2. PICK m \in Int, e \in Nat \ {0} : s = Ratio(m, e)
  BY DEF Fraction
<1>3. Plus(r, s) \in Fraction
  <2>1. PICK u \in Int, v \in Nat \ {0} : u = n * e + m * d /\ v = d * e
    OBVIOUS
  <2>2. Plus(r, s) = Ratio(u, v)
    BY <1>1, <1>2, <2>1, PlusIs
  <2> QED
    BY <2>2 DEF Fraction
<1>4. Minus(r, s) \in Fraction
  <2>1. PICK u \in Int, v \in Nat \ {0} : u = n * e - m * d /\ v = d * e
    OBVIOUS
  <2>2. Minus(r, s) = Ratio(u, v)
    BY <1>1, <1>2, <2>1, MinusIs
  <2> QED
    BY <2>2 DEF Fraction
<1>5. Times(r, k) \in Fraction
  <2>1. PICK u \in Int : u = n * k
    OBVIOUS
  <2>2. Times(r, k) = Ratio(u, d)
    BY <1>1, <2>1, TimesIs
  <2> QED
    BY <2>2 DEF Fraction
<1>6. ASSUME k # 0
      PROVE  Over(r, Magnitude(k)) \in Fraction
  <2>1. PICK q \in Nat \ {0} : q = Magnitude(k)
    BY <1>6 DEF Magnitude
  <2>2. PICK v \in Nat \ {0} : v = d * q
    OBVIOUS
  <2>3. Over(r, q) = Ratio(n, v)
    BY <1>1, <2>2, OverIs
  <2> QED
    BY <2>1, <2>3 DEF Fraction
<1> QED
  BY <1>3, <1>4, <1>5, <1>6

-----------------------------------------------------------------------------
(* The money.  While the position is open, realised profit and the cash    *)
(* the fills brought differ by what the open units have cost.              *)
Holding ==
  [position: Int, pnl_real: Fraction, pnl_unreal: Fraction, pnl_total: Fraction,
   vwap_open: [Sides -> Fraction]]

(* Realised profit is the cash plus v, the cost of a long (s is 1) or the  *)
(* proceeds of a short position (s is -1).                                 *)
CostsOpen(real, c, v, s) == real = Plus(Whole(c), Times(v, s))

Balanced(p, c) ==
  /\ p.position = 0 => p.vwap_open = NoOpen /\ p.pnl_real = Whole(c)
  /\ \A side \in Sides : p.position * side_to_value(side) > 0 =>
       CostsOpen(p.pnl_real, c, p.vwap_open[side], side_to_value(side))

LEMMA CostsOpenIs ==
  ASSUME NEW c \in Int, NEW n \in Int, NEW d \in Nat \ {0}, NEW s \in Int
  PROVE  Plus(Whole(c), Times(Ratio(n, d), s)) = Ratio(c * d + n * s, d)
<1>1. PICK k \in Int : k = n * s
  OBVIOUS
<1>2. Times(Ratio(n, d), s) = Ratio(k, d)
  BY <1>1, TimesIs
<1>3. Plus(Whole(c), Ratio(k, d)) = Ratio(c * d + k, d)
  BY PlusWhole
<1> QED
  BY <1>1, <1>2, <1>3

(* So it is on the side of the position, and on either side without one.   *)
LEMMA OpenCost ==
  ASSUME NEW p \in Holding, NEW c \in Int, NEW side \in Sides, Balanced(p, c),
         p.position * side_to_value(side) >= 0
  PROVE  CostsOpen(p.pnl_real, c, p.vwap_open[side], side_to_value(side))
<1>1. p.position \in Int /\ side_to_value(side) \in {1, -1}
  BY DEF Holding, side_to_value
<1>2. CASE p.position = 0
  <2>1. p.vwap_open[side] = Whole(0) /\ p.pnl_real = Whole(c)
    BY <1>2 DEF Balanced, NoOpen
  <2>2. PICK z \in Int, e \in Nat \ {0}, s \in Int : z = 0 /\ e = 1 /\ s = side_to_value(side)
    BY <1>1
  <2>3. Whole(z) = Ratio(z, e) /\ Whole(c) = Ratio(c, e)
    BY <2>2, WholeIs
  <2>4. Plus(Whole(c), Times(Ratio(z, e), s)) = Ratio(c * e + z * s, e)
    BY CostsOpenIs
  <2>5. c * e + z * s = c
    BY <2>2
  <2> QED
    BY <2>1, <2>2, <2>3, <2>4, <2>5 DEF CostsOpen
<1>3. CASE p.position # 0
  <2>1. p.position * side_to_value(side) > 0
    BY <1>1, <1>3
  <2> QED
    BY <2>1 DEF Balanced
<1> QED
  BY <1>2, <1>3

(* Units that are added cost x, and x is the cash they take.               *)
LEMMA CostGrows ==
  ASSUME NEW real, NEW c \in Int, NEW v \in Fraction, NEW s \in {1, -1}, NEW x \in Int,
         CostsOpen(real, c, v, s)
  PROVE  CostsOpen(real, c - s * x, Plus(v, Whole(x)), s)
<1>1. PICK n \in Int, d \in Nat \ {0} : v = Ratio(n, d)
  BY DEF Fraction
<1>2. PICK m \in Int, e \in Int : m = n + x * d /\ e = c - s * x
  OBVIOUS
<1>3. Plus(v, Whole(x)) = Ratio(m, d)
  BY <1>1, <1>2, PlusWhole
<1>4. real = Ratio(c * d + n * s, d)
  BY <1>1, CostsOpenIs DEF CostsOpen
<1>5. Plus(Whole(e), Times(Ratio(m, d), s)) = Ratio(e * d + m * s, d)
  BY CostsOpenIs
<1>6. e * d + m * s = c * d + n * s
  BY <1>2
<1> QED
  BY <1>2, <1>3, <1>4, <1>5, <1>6 DEF CostsOpen

LEMMA OpenedBalances ==
  ASSUME NEW p \in Holding, NEW c \in Int, NEW side \in Sides, NEW price \in Int,
         NEW exec \in Nat, Balanced(p, c), p.position * side_to_value(side) >= 0
  PROVE  /\ Opened(p, side, price, exec) \in Holding
         /\ Balanced(Opened(p, side, price, exec), c - side_to_value(side) * (price * exec))
<1>1. PICK q : q = Opened(p, side, price, exec)
  OBVIOUS
<1>2. PICK s \in {1, -1} : s = side_to_value(side)
  BY DEF side_to_value
<1>3. PICK x \in Int : x = price * exec
  OBVIOUS
<1>4. PICK v \in Fraction : v = Plus(p.vwap_open[side], Whole(x))
  <2>1. p.vwap_open[side] \in Fraction /\ Whole(x) \in Fraction
    BY WholeIs DEF Holding
  <2> QED
    BY <2>1, FractionsClosed
<1>5. q = [p EXCEPT !.position = p.position + exec * s, !.vwap_open[side] = v]
  BY <1>1, <1>2, <1>3, <1>4 DEF Opened
<1>6. p.position \in Int
  BY DEF Holding
<1>7. q \in Holding
  <2>1. p.position + exec * s \in Int
    BY <1>6
  <2>2. [p.vwap_open EXCEPT ![side] = v] \in [Sides -> Fraction]
    BY DEF Holding
  <2>3. q = [p EXCEPT !.position = p.position + exec * s,
                      !.vwap_open = [p.vwap_open EXCEPT ![side] = v]]
    BY <1>5
  <2> QED
    BY <2>1, <2>2, <2>3 DEF Holding
<1>8. /\ q.position = p.position + exec * s /\ q.pnl_real = p.pnl_real
      /\ q.vwap_open = [p.vwap_open EXCEPT ![side] = v] /\ q.vwap_open[side] = v
  BY <1>5 DEF Holding
<1>9. CostsOpen(q.pnl_real, c - s * x, v, s)
  <2>1. PICK w, r : w \in Fraction /\ w = p.vwap_open[side] /\ r = p.pnl_real
    BY DEF Holding
  <2>2. CostsOpen(r, c, w, s)
    BY <1>2, <2>1, OpenCost
  <2>3. CostsOpen(r, c - s * x, Plus(w, Whole(x)), s)
    BY <2>1, <2>2, CostGrows
  <2> QED
    BY <1>4, <1>8, <2>1, <2>3
<1>10. \A other \in Sides : q.position * side_to_value(other) > 0 => other = side
  <2>1. q.position * s >= 0
    BY <1>2, <1>6, <1>8
  <2> QED
    BY <1>2, <1>6, <1>8, <2>1 DEF Sides, side_to_value
<1>11. ASSUME q.position = 0
       PROVE  q.vwap_open = NoOpen /\ q.pnl_real = Whole(c - s * x)
  <2>1. p.position = 0 /\ exec = 0
    BY <1>2, <1>6, <1>8, <1>11
  <2>2. x = 0 /\ c - s * x = c
    BY <1>3, <2>1
  <2>3. p.vwap_open = NoOpen /\ p.pnl_real = Whole(c)
    BY <2>1 DEF Balanced
  <2>4. v = Whole(0)
    <3>1. PICK z \in Int, e \in Nat \ {0} : z = 0 /\ e = 1
      OBVIOUS
    <3>2. Plus(Ratio(z, e), Whole(z)) = Ratio(z + z * e, e)
      BY PlusWhole
    <3>3. z + z * e = z /\ Whole(z) = Ratio(z, e)
      BY <3>1, WholeIs
    <3>4. v = Plus(Whole(z), Whole(z))
      BY <1>4, <2>2, <2>3, <3>1 DEF NoOpen
    <3> QED
      BY <3>1, <3>2, <3>3, <3>4
  <2> QED
    BY <1>8, <2>2, <2>3, <2>4 DEF NoOpen
<1> QED
  BY <1>1, <1>2, <1>3, <1>7, <1>8, <1>9, <1>10, <1>11 DEF Balanced

(* Closing units at a price: k of the old ones, which cost v, take the     *)
(* realised profit to total.                                               *)
Realises(real, v, old, price, k, total) ==
  Plus(real, Times(Minus(Over(v, old), Whole(price)), k)) = total

Gains(c, n, d, s, price, old, closed, k, e, x) ==
  /\ k = closed * (-s) /\ e = d * old
  /\ x = (c * d + n * s) * old - (n - price * e) * (closed * s)

(* A fill against the position realises the difference between its price   *)
(* and the average cost, for what it closes.                               *)
LEMMA Realised ==
  ASSUME NEW c \in Int, NEW n \in Int, NEW d \in Nat \ {0}, NEW s \in {1, -1},
         NEW price \in Int, NEW old \in Nat \ {0}, NEW closed \in Int,
         NEW real, CostsOpen(real, c, Ratio(n, d), s),
         NEW k \in Int, NEW e \in Nat \ {0}, NEW x \in Int,
         Gains(c, n, d, s, price, old, closed, k, e, x)
  PROVE  Realises(real, Ratio(n, d), old, price, k, Ratio(x, e))
<1>1. Over(Ratio(n, d), old) = Ratio(n, e)
  BY OverIs DEF Gains
<1>2. PICK m \in Int : m = n - price * e
  OBVIOUS
<1>3. Minus(Ratio(n, e), Whole(price)) = Ratio(m, e)
  BY <1>2, PlusWhole
<1>4. PICK w \in Int : w = m * k
  OBVIOUS
<1>5. Times(Ratio(m, e), k) = Ratio(w, e)
  BY <1>4, TimesIs
<1>6. PICK u \in Int : u = c * d + n * s
  OBVIOUS
<1>7. real = Ratio(u, d)
  BY <1>6, CostsOpenIs DEF CostsOpen
<1>8. Plus(Ratio(u, d), Ratio(w, e)) = Ratio(u * e + w * d, d * e)
  BY PlusIs
<1>9. x = u * old + w
  BY <1>2, <1>4, <1>6 DEF Gains
<1>10. u * e + w * d = x * d /\ d * e = e * d
  BY <1>9 DEF Gains
<1>11. Ratio(x * d, e * d) = Ratio(x, e)
  BY RatioReduces
<1> QED
  BY <1>1, <1>3, <1>5, <1>7, <1>8, <1>10, <1>11 DEF Realises

(* What remains open keeps the average.                                    *)
LEMMA RealisedInPart ==
  ASSUME NEW c \in Int, NEW v \in Fraction, NEW s \in {1, -1},
         NEW price \in Int, NEW old \in Nat \ {0}, NEW closed \in 0 .. old,
         NEW real, CostsOpen(real, c, v, s)
  PROVE  CostsOpen(Plus(real, Times(Minus(Over(v, old), Whole(price)), closed * (-s))),
                   c + s * (price * closed), Times(Over(v, old), old - closed), s)
<1>1. PICK n \in Int, d \in Nat \ {0} : v = Ratio(n, d)
  BY DEF Fraction
<1>2. PICK e \in Nat \ {0} : e = d * old
  OBVIOUS
<1>3. Over(Ratio(n, d), old) = Ratio(n, e)
  BY <1>2, OverIs
<1>4. PICK k \in Int, m \in Int, b \in Int :
        k = old - closed /\ m = n * k /\ b = c + s * (price * closed)
  OBVIOUS
<1>5. Times(Ratio(n, e), k) = Ratio(m, e)
  BY <1>4, TimesIs
<1>6. Plus(Whole(b), Times(Ratio(m, e), s)) = Ratio(b * e + m * s, e)
  BY CostsOpenIs
<1>7. PICK x \in Int : x = (c * d + n * s) * old - (n - price * e) * (closed * s)
  OBVIOUS
<1>8. b * e + m * s = x
  BY <1>2, <1>4, <1>7
<1>9. PICK q \in Int : q = closed * (-s)
  OBVIOUS
<1>10. Realises(real, Ratio(n, d), old, price, q, Ratio(x, e))
  <2>1. CostsOpen(real, c, Ratio(n, d), s) /\ closed \in Int
    BY <1>1
  <2>2. Gains(c, n, d, s, price, old, closed, q, e, x)
    BY <1>2, <1>7, <1>9 DEF Gains
  <2> QED
    BY <2>1, <2>2, Realised
<1> QED
  BY <1>1, <1>3, <1>4, <1>5, <1>6, <1>8, <1>9, <1>10 DEF CostsOpen, Realises

ClosesAll(c, s, price, old, k, b) ==
  k = old * (-s) /\ b = c + s * (price * old)

LEMMA RealisedInFull ==
  ASSUME NEW c \in Int, NEW v \in Fraction, NEW s \in {1, -1},
         NEW price \in Int, NEW old \in Nat \ {0},
         NEW real, CostsOpen(real, c, v, s),
         NEW k \in Int, NEW b \in Int, ClosesAll(c, s, price, old, k, b)
  PROVE  Realises(real, v, old, price, k, Whole(b))
<1>1. PICK f \in Fraction : f = Over(v, old)
  <2>1. old \in Int /\ old # 0 /\ Magnitude(old) = old
    BY DEF Magnitude
  <2> QED
    BY <2>1, FractionsClosed
<1>2. old \in 0 .. old /\ old - old = 0
  OBVIOUS
<1>3. CostsOpen(Plus(real, Times(Minus(f, Whole(price)), old * (-s))),
                c + s * (price * old), Times(f, 0), s)
  <2>1. CostsOpen(Plus(real, Times(Minus(Over(v, old), Whole(price)), old * (-s))),
                  c + s * (price * old), Times(Over(v, old), old - old), s)
    BY <1>2, RealisedInPart
  <2> QED
    BY <1>1, <1>2, <2>1
<1>4. PICK z \in Int, e \in Nat \ {0} : z = 0 /\ e = 1
  OBVIOUS
<1>5. Times(f, 0) = Ratio(z, e)
  BY <1>4, TimesNothing, WholeIs
<1>6. Plus(Whole(b), Times(Ratio(z, e), s)) = Ratio(b * e + z * s, e)
  BY CostsOpenIs
<1>7. b * e + z * s = b /\ Whole(b) = Ratio(b, e)
  BY <1>4, WholeIs
<1> QED
  BY <1>1, <1>3, <1>4, <1>5, <1>6, <1>7 DEF CostsOpen, ClosesAll, Realises

(* What a fill opens on its own side.                                      *)
LEMMA CostOfOpening ==
  ASSUME NEW c \in Int, NEW x \in Int, NEW s \in {1, -1}
  PROVE  CostsOpen(Whole(c + s * x), c, Whole(x), s)
<1>1. PICK e \in Nat \ {0}, b \in Int : e = 1 /\ b = c + s * x
  OBVIOUS
<1>2. Plus(Whole(c), Times(Ratio(x, e), s)) = Ratio(c * e + x * s, e)
  BY CostsOpenIs
<1>3. c * e + x * s = b /\ Whole(x) = Ratio(x, e) /\ Whole(b) = Ratio(b, e)
  BY <1>1, WholeIs
<1> QED
  BY <1>1, <1>2, <1>3 DEF CostsOpen

LEMMA ClosedBalances ==
  ASSUME NEW p \in Holding, NEW c \in Int, NEW side \in Sides, NEW price \in Int,
         NEW exec \in Nat, Balanced(p, c), p.position * side_to_value(side) < 0
  PROVE  /\ Closed(p, side, price, exec) \in Holding
         /\ Balanced(Closed(p, side, price, exec), c - side_to_value(side) * (price * exec))
<1>1. PICK q : q = Closed(p, side, price, exec)
  OBVIOUS
<1>2. PICK other \in Sides : other = Opposite(side)
  BY DEF Opposite, Sides
<1>3. PICK s \in {1, -1} :
        /\ s = side_to_value(other) /\ -s = side_to_value(side)
        /\ \A sd \in Sides : sd = side \/ sd = other
  <2>1. \A sd \in Sides : sd = side \/ sd = other
    BY <1>2 DEF Opposite, Sides
  <2>2. PICK s \in {1, -1} : s = side_to_value(other)
    BY DEF side_to_value
  <2>3. side_to_value(side) = -s
    BY <1>2, <2>2 DEF side_to_value, Opposite, Sides
  <2> QED
    BY <2>1, <2>2, <2>3
<1>4. p.position \in Int
  BY DEF Holding
<1>5. PICK old \in Nat \ {0} : old = Magnitude(p.position)
  BY <1>3, <1>4 DEF Magnitude
<1>6. p.position = s * old
  BY <1>3, <1>4, <1>5 DEF Magnitude
<1>7. PICK new \in Int : new = p.position + exec * (-s)
  BY <1>4
<1>8. new = s * (old - exec)
  BY <1>6, <1>7
<1>9. PICK closed \in 0 .. old : closed = IF exec < old THEN exec ELSE old
  OBVIOUS
<1>10. PICK v \in Fraction : v = p.vwap_open[other]
  BY DEF Holding
<1>11. PICK average \in Fraction : average = Over(v, old)
  <2>1. old \in Int /\ old # 0 /\ Magnitude(old) = old
    BY DEF Magnitude
  <2> QED
    BY <2>1, FractionsClosed
<1>12. PICK real : real = p.pnl_real
  OBVIOUS
<1>13. CostsOpen(real, c, v, s) /\ real \in Fraction
  <2>1. p.position * side_to_value(other) >= 0
    BY <1>3, <1>6
  <2> QED
    BY <1>3, <1>10, <1>12, <2>1, OpenCost DEF Holding
<1>14. PICK gain : gain = Plus(real, Times(Minus(average, Whole(price)), closed * (-s)))
  OBVIOUS
<1>15. gain \in Fraction
  <2>1. PICK k \in Int : k = closed * (-s)
    OBVIOUS
  <2>2. Minus(average, Whole(price)) \in Fraction
    <3>1. Whole(price) \in Fraction
      BY WholeIs
    <3> QED
      BY <3>1, FractionsClosed
  <2>3. Times(Minus(average, Whole(price)), k) \in Fraction
    BY <2>2, FractionsClosed
  <2> QED
    BY <1>13, <1>14, <2>1, <2>3, FractionsClosed
<1>16. PICK open :
         open = IF new = 0 THEN NoOpen
                ELSE IF new * p.position < 0
                THEN [NoOpen EXCEPT ![side] = Whole(price * Magnitude(new))]
                ELSE [p.vwap_open EXCEPT ![other] = Times(average, Magnitude(new))]
  OBVIOUS
<1>17. q = [p EXCEPT !.position = new, !.pnl_real = gain, !.vwap_open = open]
  BY <1>1, <1>2, <1>3, <1>5, <1>7, <1>9, <1>10, <1>11, <1>12, <1>14, <1>16 DEF Closed
<1>18. Magnitude(new) \in Int
  BY DEF Magnitude
<1>19. open \in [Sides -> Fraction]
  <2>1. Whole(0) \in Fraction
    BY WholeIs
  <2>2. NoOpen \in [Sides -> Fraction]
    BY <2>1 DEF NoOpen
  <2>3. PICK x \in Int : x = price * Magnitude(new)
    BY <1>18
  <2>4. Whole(x) \in Fraction
    BY WholeIs
  <2>5. Times(average, Magnitude(new)) \in Fraction
    BY <1>18, FractionsClosed
  <2>6. p.vwap_open \in [Sides -> Fraction]
    BY DEF Holding
  <2> QED
    BY <1>16, <2>2, <2>3, <2>4, <2>5, <2>6
<1>20. q \in Holding /\ q.position = new /\ q.pnl_real = gain /\ q.vwap_open = open
  BY <1>15, <1>17, <1>19 DEF Holding
<1>21. PICK b \in Int : b = c - (-s) * (price * exec)
  OBVIOUS
<1>22. CASE exec < old
  <2>1. closed = exec /\ new * s > 0 /\ ~ new * (-s) > 0 /\ new # 0 /\ Magnitude(new) = old - closed
    BY <1>8, <1>9, <1>22 DEF Magnitude
  <2>2. ~ new * p.position < 0
    BY <1>6, <1>8, <1>22
  <2>3. open[other] = Times(average, old - closed)
    BY <1>16, <2>1, <2>2 DEF Holding
  <2>4. CostsOpen(gain, c + s * (price * closed), Times(average, old - closed), s)
    BY <1>11, <1>13, <1>14, RealisedInPart
  <2>5. c + s * (price * closed) = b
    BY <1>21, <2>1
  <2> QED
    BY <1>1, <1>3, <1>20, <1>21, <2>1, <2>3, <2>4, <2>5 DEF Balanced
<1>23. CASE ~ (exec < old)
  <2>1. closed = old
    BY <1>9, <1>23
  <2>2. gain = Whole(c + s * (price * old))
    <3>1. PICK k \in Int, a \in Int : k = old * (-s) /\ a = c + s * (price * old)
      OBVIOUS
    <3>2. Realises(real, v, old, price, k, Whole(a))
      <4>1. CostsOpen(real, c, v, s)
        BY <1>13
      <4>2. ClosesAll(c, s, price, old, k, a)
        BY <3>1 DEF ClosesAll
      <4> QED
        BY <4>1, <4>2, RealisedInFull
    <3> QED
      BY <1>11, <1>14, <2>1, <3>1, <3>2 DEF Realises
  <2>3. CASE exec = old
    <3>1. new = 0 /\ ~ new * s > 0 /\ ~ new * (-s) > 0 /\ open = NoOpen
      BY <1>8, <1>16, <2>3
    <3>2. c + s * (price * old) = b
      BY <1>21, <2>3
    <3> QED
      BY <1>1, <1>3, <1>20, <1>21, <2>2, <3>1, <3>2 DEF Balanced
  <2>4. CASE exec > old
    <3>1. new # 0 /\ ~ new * s > 0 /\ new * p.position < 0 /\ Magnitude(new) = exec - old
      BY <1>6, <1>8, <2>4 DEF Magnitude
    <3>2. PICK x \in Int : x = price * (exec - old)
      OBVIOUS
    <3>3. open[side] = Whole(x)
      BY <1>16, <3>1, <3>2 DEF NoOpen
    <3>4. CostsOpen(Whole(b + (-s) * x), b, Whole(x), -s)
      <4>1. PICK t \in {1, -1} : t = -s
        OBVIOUS
      <4>2. CostsOpen(Whole(b + t * x), b, Whole(x), t)
        BY CostOfOpening
      <4> QED
        BY <4>1, <4>2
    <3>5. b + (-s) * x = c + s * (price * old)
      BY <1>21, <3>2
    <3> QED
      BY <1>1, <1>3, <1>20, <1>21, <2>2, <3>1, <3>3, <3>4, <3>5 DEF Balanced
  <2> QED
    BY <1>23, <2>3, <2>4
<1> QED
  BY <1>22, <1>23

(* Valued at a price, what is open counts as sold or bought at that price. *)
LEMMA ValuedAddsUp ==
  ASSUME NEW p \in Holding, NEW c \in Int, NEW price \in Fraction, Balanced(p, c)
  PROVE  /\ Valued(p, price) \in Holding
         /\ Valued(p, price).position = p.position
         /\ Balanced(Valued(p, price), c)
         /\ Valued(p, price).pnl_total = Plus(Whole(c), Times(price, p.position))
<1>1. PICK q : q = Valued(p, price)
  OBVIOUS
<1>2. PICK unreal : unreal = IF p.position = 0 THEN Whole(0) ELSE Unrealised(p, price)
  OBVIOUS
<1>3. PICK total : total = Plus(unreal, p.pnl_real)
  OBVIOUS
<1>4. q = [p EXCEPT !.pnl_unreal = unreal, !.pnl_total = total]
  BY <1>1, <1>2, <1>3 DEF Valued
<1>5. p.position \in Int /\ p.pnl_real \in Fraction
  BY DEF Holding
<1>6. unreal \in Fraction
  <2>1. CASE p.position = 0
    BY <1>2, <2>1, WholeIs
  <2>2. CASE p.position # 0
    <3>1. PICK size \in Int : size = Magnitude(p.position)
      BY <1>5 DEF Magnitude
    <3>2. ASSUME NEW side \in Sides
          PROVE  /\ Times(Minus(price, Over(p.vwap_open[side], size)), size) \in Fraction
                 /\ Times(Minus(Over(p.vwap_open[side], size), price), size) \in Fraction
      <4>1. PICK w \in Fraction : w = p.vwap_open[side]
        BY DEF Holding
      <4>2. PICK a \in Fraction : a = Over(w, size)
        BY <1>5, <2>2, <3>1, FractionsClosed
      <4>3. Minus(price, a) \in Fraction /\ Minus(a, price) \in Fraction
        BY FractionsClosed
      <4> QED
        BY <4>1, <4>2, <4>3, FractionsClosed
    <3> QED
      BY <1>2, <2>2, <3>1, <3>2 DEF Unrealised, Sides
  <2> QED
    BY <2>1, <2>2
<1>7. total \in Fraction
  BY <1>3, <1>5, <1>6, FractionsClosed
<1>8. /\ q \in Holding /\ q.position = p.position /\ q.pnl_real = p.pnl_real
      /\ q.vwap_open = p.vwap_open /\ q.pnl_total = total
  BY <1>4, <1>6, <1>7 DEF Holding
<1>9. Balanced(q, c)
  BY <1>8 DEF Balanced
<1>10. total = Plus(Whole(c), Times(price, p.position))
  <2>1. CASE p.position = 0
    <3>1. Times(price, p.position) = Whole(0) /\ total = Plus(Whole(0), Whole(c))
      BY <1>2, <1>3, <2>1, TimesNothing DEF Balanced
    <3>2. PICK z \in Int, e \in Nat \ {0} : z = 0 /\ e = 1
      OBVIOUS
    <3>3. Plus(Ratio(c, e), Whole(z)) = Ratio(c + z * e, e)
          /\ Plus(Whole(z), Ratio(c, e)) = Ratio(z * e + c, e)
      BY PlusWhole
    <3>4. z * e + c = c + z * e /\ Whole(c) = Ratio(c, e)
      BY <3>2, WholeIs
    <3> QED
      BY <3>1, <3>2, <3>3, <3>4
  <2>2. CASE p.position # 0
    <3>1. PICK side \in Sides, s \in {1, -1} :
            s = side_to_value(side) /\ p.position * s > 0 /\ side = IF s = 1 THEN "BUY" ELSE "SELL"
      BY <1>5, <2>2 DEF Sides, side_to_value
    <3>2. PICK size \in Nat \ {0} : size = Magnitude(p.position) /\ p.position = s * size
      BY <1>5, <3>1 DEF Magnitude
    <3>3. PICK n \in Int, d \in Nat \ {0} : p.vwap_open[side] = Ratio(n, d)
      BY DEF Holding, Fraction
    <3>4. PICK a \in Int, b \in Nat \ {0} : price = Ratio(a, b)
      BY DEF Fraction
    <3>5. PICK e \in Nat \ {0} : e = d * size
      OBVIOUS
    <3>6. Over(p.vwap_open[side], size) = Ratio(n, e)
      BY <3>3, <3>5, OverIs
    <3>7. PICK m \in Int, w \in Int, f \in Nat \ {0} :
            m = (a * e - n * b) * s /\ w = m * size /\ f = b * e
      OBVIOUS
    <3>8. unreal = Ratio(w, f)
      <4>1. CASE s = 1
        <5>1. unreal = Times(Minus(price, Over(p.vwap_open[side], size)), size)
          BY <1>2, <1>5, <2>2, <3>1, <3>2, <4>1 DEF Unrealised
        <5>2. Minus(Ratio(a, b), Ratio(n, e)) = Ratio(a * e - n * b, b * e)
          BY MinusIs
        <5>3. a * e - n * b = m
          BY <3>7, <4>1
        <5>4. Times(Ratio(m, f), size) = Ratio(w, f)
          BY <3>7, TimesIs
        <5> QED
          BY <3>4, <3>6, <3>7, <5>1, <5>2, <5>3, <5>4
      <4>2. CASE s = -1
        <5>1. unreal = Times(Minus(Over(p.vwap_open[side], size), price), size)
          BY <1>2, <1>5, <2>2, <3>1, <3>2, <4>2 DEF Unrealised
        <5>2. Minus(Ratio(n, e), Ratio(a, b)) = Ratio(n * b - a * e, e * b)
          BY MinusIs
        <5>3. n * b - a * e = m /\ e * b = f
          BY <3>7, <4>2
        <5>4. Times(Ratio(m, f), size) = Ratio(w, f)
          BY <3>7, TimesIs
        <5> QED
          BY <3>4, <3>6, <5>1, <5>2, <5>3, <5>4
      <4> QED
        BY <4>1, <4>2
    <3>9. PICK u \in Int, g \in Nat \ {0} : u = c * d + n * s /\ g = b * d
      OBVIOUS
    <3>10. p.pnl_real = Ratio(u, d)
      <4>1. CostsOpen(p.pnl_real, c, p.vwap_open[side], s)
        BY <3>1 DEF Balanced
      <4> QED
        BY <3>3, <3>9, <4>1, CostsOpenIs DEF CostsOpen
    <3>11. Ratio(w, f) = Ratio(m, g)
      <4>1. f = g * size
        BY <3>5, <3>7, <3>9
      <4>2. Ratio(m * size, g * size) = Ratio(m, g)
        BY RatioReduces
      <4> QED
        BY <3>7, <4>1, <4>2
    <3>12. Plus(Ratio(m, g), Ratio(u, d)) = Ratio(m * d + u * g, g * d)
      BY PlusIs
    <3>13. PICK k \in Int, x \in Int : k = c * b + x /\ x = a * (s * size)
      OBVIOUS
    <3>14. Plus(Whole(c), Times(price, p.position)) = Ratio(k, b)
      <4>1. Times(Ratio(a, b), p.position) = Ratio(a * p.position, b)
        BY <1>5, TimesIs
      <4>2. Plus(Whole(c), Ratio(x, b)) = Ratio(c * b + x, b)
        BY PlusWhole
      <4> QED
        BY <3>2, <3>4, <3>13, <4>1, <4>2
    <3>15. Ratio(m * d + u * g, g * d) = Ratio(k, b)
      <4>1. PICK h \in Nat \ {0} : h = d * d
        OBVIOUS
      <4>2. m * d + u * g = k * h
        <5>1. s * s = 1
          OBVIOUS
        <5>2. m = (a * (d * size) - n * b) * s
          BY <3>5, <3>7
        <5>3. m * d + u * g = a * (s * size) * (d * d) - (n * s) * (b * d) + c * d * (b * d)
                               + (n * s) * (b * d)
          BY <3>9, <5>2
        <5> QED
          BY <3>13, <4>1, <5>3
      <4>3. g * d = b * h
        BY <3>9, <4>1
      <4>4. Ratio(k * h, b * h) = Ratio(k, b)
        BY RatioReduces
      <4> QED
        BY <4>2, <4>3, <4>4
    <3> QED
      BY <1>3, <3>8, <3>10, <3>11, <3>12, <3>14, <3>15
  <2> QED
    BY <2>1, <2>2
<1> QED
  BY <1>1, <1>8, <1>9, <1>10

-----------------------------------------------------------------------------
(* What is on its way between client and exchange, however the strategy    *)
(* reaches the manager: an order to be filled has a price, as has a fill.  *)
PricedRequest ==
  [type: {"NEW"}, side: Sides, oid: Nat, price: Int, qty: Nat]
  \cup [type: {"CANCEL"}, side: Sides, oid: Nat \cup {None}, price: Price, qty: Nat \cup {None}]

PricedAnswer ==
  [type: {"ACCEPTED", "FILLED"}, oid: Nat, side: Sides, price: Int, exec: Nat, leaves: Nat]
  \cup [type: {"CANCELLED", "CANCEL_REJECTED"}, oid: Nat \cup {None}, side: Sides \cup {"INVALID"},
        price: Price, exec: {None}, leaves: Nat \cup {None}]

PricedOrder == [oid: Nat, side: Sides, price: Int, qty: Nat]

Priced ==
  /\ order \in [Sides -> ManagedOrder]
  /\ next_oid \in Nat
  /\ requests \in Seq(PricedRequest)
  /\ responses \in Seq(PricedAnswer)
  /\ resting \in SUBSET PricedOrder

MoneyOK ==
  /\ position \in Holding
  /\ cash \in Int
  /\ mark \in Fraction
  /\ Balanced(position, cash)
  /\ PnlAddsUp

MInv == Priced /\ MoneyOK

LEMMA InitMInv == Init => MInv
<1> SUFFICES ASSUME Init
             PROVE  MInv
  OBVIOUS
<1>1. Priced
  BY DEF Init, ManagerInit, Priced, NoOrder, ManagedOrder, Price
<1>2. PICK z \in Int, w \in Fraction : z = 0 /\ w = Whole(z)
  BY WholeIs
<1>3. NoOpen \in [Sides -> Fraction]
  BY <1>2 DEF NoOpen
<1>4. /\ position \in Holding /\ position.position = z /\ position.pnl_real = w
      /\ position.vwap_open = NoOpen /\ position.pnl_total = w
      /\ cash = z /\ mark = w
  BY <1>2, <1>3 DEF Init, NewPosition, Holding
<1>5. Balanced(position, cash)
  BY <1>2, <1>4 DEF Balanced, side_to_value
<1>6. PnlAddsUp
  <2>1. Times(w, 0) = w
    BY <1>2, TimesNothing
  <2>2. PICK e \in Nat \ {0} : e = 1
    OBVIOUS
  <2>3. Plus(Ratio(z, e), Whole(z)) = Ratio(z + z * e, e)
    BY PlusWhole
  <2>4. z + z * e = z /\ w = Ratio(z, e)
    BY <1>2, <2>2, WholeIs
  <2> QED
    BY <1>2, <1>4, <2>1, <2>3, <2>4 DEF PnlAddsUp
<1> QED
  BY <1>1, <1>2, <1>4, <1>5, <1>6 DEF MInv, MoneyOK

(* What the position is after a fill, at the fill's price.                 *)
LEMMA FillAddsUp ==
  ASSUME NEW p \in Holding, NEW c \in Int, NEW side \in Sides, NEW price \in Int,
         NEW exec \in Nat, Balanced(p, c),
         NEW q, q = add_fill(p, side, price, exec),
         NEW b \in Int, b = c - side_to_value(side) * price * exec
  PROVE  /\ q \in Holding /\ Balanced(q, b)
         /\ q.pnl_total = Plus(Whole(b), Times(Whole(price), q.position))
<1>1. PICK s \in {1, -1} : s = side_to_value(side)
  BY DEF side_to_value
<1>2. b = c - s * (price * exec)
  BY <1>1
<1>3. PICK o : o = IF p.position * side_to_value(side) >= 0
                   THEN Opened(p, side, price, exec) ELSE Closed(p, side, price, exec)
  OBVIOUS
<1>4. o \in Holding /\ Balanced(o, b)
  <2>1. CASE p.position * side_to_value(side) >= 0
    BY <1>1, <1>2, <1>3, <2>1, OpenedBalances
  <2>2. CASE p.position * side_to_value(side) < 0
    <3>1. ~ p.position * side_to_value(side) >= 0
      BY <1>1, <2>2 DEF Holding
    <3> QED
      BY <1>1, <1>2, <1>3, <2>2, <3>1, ClosedBalances
  <2>3. p.position \in Int
    BY DEF Holding
  <2> QED
    BY <1>1, <2>1, <2>2, <2>3
<1>5. q = Valued(o, Whole(price))
  BY <1>3 DEF add_fill
<1>6. PICK w \in Fraction : w = Whole(price)
  BY WholeIs
<1>7. /\ Valued(o, w) \in Holding /\ Valued(o, w).position = o.position
      /\ Balanced(Valued(o, w), b)
      /\ Valued(o, w).pnl_total = Plus(Whole(b), Times(w, o.position))
  BY <1>4, ValuedAddsUp
<1> QED
  BY <1>5, <1>6, <1>7

LEMMA ResponseMoney ==
  ASSUME Routed, MInv, NEW response \in PricedAnswer, OrderResponse(response)
  PROVE  MoneyOK'
<1>1. CASE response.type # "FILLED"
  <2>1. UNCHANGED moneyVars
    BY <1>1 DEF OrderResponse, moneyVars
  <2> QED
    BY <2>1 DEF moneyVars, MInv, MoneyOK, PnlAddsUp
<1>2. CASE response.type = "FILLED"
  <2>1. PICK side \in Sides, price \in Int, exec \in Nat :
          side = response.side /\ price = response.price /\ exec = response.exec
    BY <1>2 DEF PricedAnswer
  <2>2. /\ position' = add_fill(position, side, price, exec)
        /\ cash' = cash - side_to_value(side) * price * exec
        /\ mark' = IF position'.position = 0 THEN Whole(0) ELSE Whole(price)
    BY <1>2, <2>1 DEF OrderResponse
  <2>3. position \in Holding /\ cash \in Int /\ Balanced(position, cash)
    BY DEF MInv, MoneyOK
  <2>4. cash' \in Int
    BY <2>2, <2>3 DEF side_to_value
  <2>5. /\ position' \in Holding /\ Balanced(position', cash')
        /\ position'.pnl_total = Plus(Whole(cash'), Times(Whole(price), position'.position))
    <3>1. PICK p \in Holding, c \in Int, b \in Int : p = position /\ c = cash /\ b = cash'
      BY <2>3, <2>4
    <3> DEFINE q == position'
    <3>2. /\ Balanced(p, c) /\ q = add_fill(p, side, price, exec)
          /\ b = c - side_to_value(side) * price * exec
      BY <2>2, <2>3, <3>1
    <3> HIDE DEF q
    <3>3. /\ q \in Holding /\ Balanced(q, b)
          /\ q.pnl_total = Plus(Whole(b), Times(Whole(price), q.position))
      BY <3>2, FillAddsUp
    <3> QED
      BY <3>1, <3>3 DEF q
  <2>6. Whole(0) \in Fraction /\ Whole(price) \in Fraction
    BY WholeIs
  <2>7. mark' \in Fraction
    BY <2>2, <2>6
  <2>8. PnlAddsUp'
    <3>1. CASE position'.position = 0
      <4>1. Times(Whole(price), 0) = Whole(0) /\ Times(Whole(0), 0) = Whole(0)
        BY <2>6, TimesNothing
      <4> QED
        BY <2>2, <2>5, <3>1, <4>1 DEF PnlAddsUp
    <3>2. CASE position'.position # 0
      BY <2>2, <2>5, <3>2 DEF PnlAddsUp
    <3> QED
      BY <3>1, <3>2
  <2> QED
    BY <2>4, <2>5, <2>7, <2>8 DEF MoneyOK
<1> QED
  BY <1>1, <1>2

LEMMA ResponseOrders ==
  ASSUME MInv, NEW response \in PricedAnswer, OrderResponse(response)
  PROVE  order' \in [Sides -> ManagedOrder]
<1>1. order \in [Sides -> ManagedOrder]
  BY DEF MInv, Priced
<1>2. ASSUME NEW o \in ManagedOrder
      PROVE  AfterResponse(o, response) \in ManagedOrder
  <2>1. response.type = "FILLED" => response.leaves \in Nat
    BY DEF PricedAnswer
  <2> QED
    BY <2>1 DEF AfterResponse, ManagedOrder
<1>3. response.side \in Sides => AfterResponse(order[response.side], response) \in ManagedOrder
  BY <1>1, <1>2
<1> QED
  BY <1>1, <1>3 DEF OrderResponse

LEMMA HandleResponseMInv ==
  ASSUME Routed, MInv, HandleResponse
  PROVE  MInv'
<1>1. responses \in Seq(PricedAnswer) /\ responses # <<>>
  BY DEF MInv, Priced, HandleResponse
<1>2. PICK response \in PricedAnswer : response = Head(responses)
  BY <1>1
<1>3. Tail(responses) \in Seq(PricedAnswer)
  BY <1>1
<1>4. MoneyOK' /\ order' \in [Sides -> ManagedOrder]
  BY <1>2, ResponseMoney, ResponseOrders DEF HandleResponse
<1>5. Priced'
  BY <1>3, <1>4 DEF HandleResponse, MInv, Priced
<1> QED
  BY <1>4, <1>5 DEF MInv

LEMMA SentIsPriced ==
  ASSUME NEW side \in Sides, order[side] \in ManagedOrder, NEW oid \in Nat, NEW price \in Int,
         NEW allowed
  PROVE  /\ Sends(side, oid, price, allowed) \in Seq(PricedRequest)
         /\ Managed(side, oid, price, allowed) \in ManagedOrder
<1>1. PICK o \in ManagedOrder : o = order[side]
  OBVIOUS
<1>2. TradeSize \in Nat
  BY EngineAssumption
<1>3. request_new_order(side, oid, price) \in PricedRequest
  BY <1>2 DEF request_new_order, PricedRequest
<1>4. request_cancel_order(side, o) \in PricedRequest
  BY DEF request_cancel_order, PricedRequest, ManagedOrder
<1>5. Sends(side, oid, price, allowed) \in Seq(PricedRequest)
  <2>1. <<request_new_order(side, oid, price)>> \in Seq(PricedRequest)
    BY <1>3
  <2>2. <<request_cancel_order(side, o)>> \in Seq(PricedRequest)
    BY <1>4
  <2>3. <<>> \in Seq(PricedRequest)
    OBVIOUS
  <2> QED
    BY <1>1, <2>1, <2>2, <2>3 DEF Sends
<1>6. Managed(side, oid, price, allowed) \in ManagedOrder
  <2>1. [id |-> oid, price |-> price, qty |-> TradeSize, state |-> "PENDING_NEW"] \in ManagedOrder
    BY <1>2 DEF ManagedOrder, Price
  <2>2. [o EXCEPT !.state = "PENDING_CANCEL"] \in ManagedOrder
    BY DEF ManagedOrder
  <2> QED
    BY <1>1, <2>1, <2>2 DEF Managed
<1> QED
  BY <1>5, <1>6

LEMMA ManageOrdersPriced ==
  ASSUME Priced, NEW p, NEW bid \in Int, NEW ask \in Int, manage_orders(p, bid, ask),
         UNCHANGED exchangeVars
  PROVE  Priced'
<1>1. PICK mayBuy, maySell :
        /\ mayBuy = get_trade_risk(p, "BUY", TradeSize)
        /\ maySell = get_trade_risk(p, "SELL", TradeSize)
  OBVIOUS
<1>2. PICK askOid \in Nat :
        askOid = IF WantsNew(order["BUY"], bid) /\ mayBuy THEN next_oid + 1 ELSE next_oid
  BY DEF Priced
<1>3. order \in [Sides -> ManagedOrder] /\ next_oid \in Nat /\ "BUY" \in Sides /\ "SELL" \in Sides
  BY DEF Priced, Sides
<1>4. PICK buy, sell :
        /\ buy = Managed("BUY", next_oid, bid, mayBuy)
        /\ sell = Managed("SELL", askOid, ask, maySell)
  OBVIOUS
<1>5. buy \in ManagedOrder /\ Sends("BUY", next_oid, bid, mayBuy) \in Seq(PricedRequest)
  BY <1>3, <1>4, SentIsPriced
<1>6. sell \in ManagedOrder /\ Sends("SELL", askOid, ask, maySell) \in Seq(PricedRequest)
  BY <1>3, <1>4, SentIsPriced
<1>7. requests' = requests \o Sends("BUY", next_oid, bid, mayBuy)
                           \o Sends("SELL", askOid, ask, maySell)
  BY <1>1, <1>2 DEF manage_orders
<1>8. requests' \in Seq(PricedRequest)
  <2>1. PICK a \in Seq(PricedRequest), b \in Seq(PricedRequest), r \in Seq(PricedRequest) :
          /\ a = Sends("BUY", next_oid, bid, mayBuy) /\ b = Sends("SELL", askOid, ask, maySell)
          /\ r = requests
    BY <1>5, <1>6 DEF Priced
  <2>2. (r \o a) \o b \in Seq(PricedRequest)
    OBVIOUS
  <2> QED
    BY <1>7, <2>1, <2>2
<1>9. order' = IF Direct THEN [order EXCEPT !["BUY"] = buy, !["SELL"] = sell] ELSE order
  BY <1>1, <1>2, <1>4 DEF manage_orders
<1>10. order' \in [Sides -> ManagedOrder]
  BY <1>3, <1>5, <1>6, <1>9
<1>11. next_oid' \in Nat
  BY <1>1, <1>2 DEF manage_orders
<1> QED
  BY <1>8, <1>10, <1>11 DEF Priced, exchangeVars

LEMMA OrderBookUpdateMInv ==
  ASSUME MInv, NEW bbo \in BestOffers, on_order_book_update(bbo)
  PROVE  MInv'
<1>1. CASE None \in {bbo.bid, bbo.ask}
  BY <1>1 DEF on_order_book_update, on_bbo_update, managerVars, exchangeVars,
              MInv, Priced, MoneyOK, PnlAddsUp
<1>2. CASE None \notin {bbo.bid, bbo.ask}
  <2>1. bbo.bid \in Int /\ bbo.ask \in Int /\ bbo.bid # None /\ bbo.ask # None
    BY <1>2, EngineAssumption
  <2>2. Priced'
    <3>1. manage_orders(position', Quotes(bbo).bid, Quotes(bbo).ask) /\ UNCHANGED exchangeVars
      BY <1>2 DEF on_order_book_update
    <3> QED
      BY <1>2, <3>1, QuotesAreIntegers, ManageOrdersPriced DEF MInv
  <2>3. PICK price \in Fraction : price = Mid(bbo)
    <3>1. PICK n \in Int, d \in Nat \ {0} : n = bbo.bid + bbo.ask /\ d = 2
      BY <2>1
    <3> QED
      BY <3>1 DEF Mid, Fraction
  <2>4. /\ position' = IF position.position # 0 THEN Valued(position, price) ELSE position
        /\ mark' = IF position.position # 0 THEN price ELSE mark
        /\ cash' = cash
    BY <1>2, <2>1, <2>3 DEF on_order_book_update, on_bbo_update
  <2>5. MoneyOK'
    <3>1. CASE position.position = 0
      BY <2>4, <3>1 DEF MInv, MoneyOK, PnlAddsUp
    <3>2. CASE position.position # 0
      <4>1. PICK p \in Holding, c \in Int : p = position /\ c = cash /\ Balanced(p, c)
        BY DEF MInv, MoneyOK
      <4>2. /\ Valued(p, price) \in Holding /\ Valued(p, price).position = p.position
            /\ Balanced(Valued(p, price), c)
            /\ Valued(p, price).pnl_total = Plus(Whole(c), Times(price, p.position))
        BY <4>1, ValuedAddsUp
      <4> QED
        BY <2>4, <3>2, <4>1, <4>2 DEF MoneyOK, PnlAddsUp
    <3> QED
      BY <3>1, <3>2
  <2> QED
    BY <2>2, <2>5 DEF MInv
<1> QED
  BY <1>1, <1>2

LEMMA MoneyUnchanged ==
  ASSUME MInv, UNCHANGED moneyVars
  PROVE  MoneyOK'
BY DEF MInv, MoneyOK, PnlAddsUp, moneyVars

LEMMA ExchangePriced ==
  ASSUME MInv,
         \/ Accept \/ Cancel \/ CancelRejected
         \/ \E o \in resting : \E qty \in 1 .. o.qty : Fill(o, qty)
  PROVE  MInv'
<1>1. /\ requests \in Seq(PricedRequest) /\ responses \in Seq(PricedAnswer)
      /\ resting \in SUBSET PricedOrder
  BY DEF MInv, Priced
<1>2. \A response \in PricedAnswer : Append(responses, response) \in Seq(PricedAnswer)
  BY <1>1
<1>3. requests # <<>> => Head(requests) \in PricedRequest /\ Tail(requests) \in Seq(PricedRequest)
  BY <1>1
<1>4. CASE Accept
  <2>1. PICK request \in PricedRequest : request = Head(requests) /\ request.type = "NEW"
    BY <1>3, <1>4 DEF Accept
  <2>2. PICK o \in PricedOrder :
          o = [oid |-> request.oid, side |-> request.side, price |-> request.price,
               qty |-> request.qty]
    BY <2>1 DEF PricedRequest, PricedOrder
  <2>3. Response("ACCEPTED", o, o.price, 0) \in PricedAnswer
    BY DEF Response, PricedOrder, PricedAnswer
  <2>4. /\ resting' = resting \cup {o}
        /\ responses' = Append(responses, Response("ACCEPTED", o, o.price, 0))
        /\ requests' = Tail(requests) /\ requests # <<>>
        /\ UNCHANGED <<order, next_oid, moneyVars>>
    BY <1>4, <2>1, <2>2 DEF Accept
  <2>5. resting' \in SUBSET PricedOrder
    BY <1>1, <2>4
  <2>6. Priced'
    BY <1>2, <1>3, <2>3, <2>4, <2>5 DEF MInv, Priced
  <2> QED
    BY <2>4, <2>6, MoneyUnchanged DEF MInv
<1>5. CASE Cancel
  <2>1. PICK o \in resting :
          /\ resting' = resting \ {o}
          /\ responses' = Append(responses, Response("CANCELLED", o, o.price, None))
    BY <1>5 DEF Cancel
  <2>2. o \in PricedOrder
    BY <1>1
  <2>3. Response("CANCELLED", o, o.price, None) \in PricedAnswer
    BY <2>2 DEF Response, PricedOrder, PricedAnswer, Price
  <2>4. /\ requests' = Tail(requests) /\ requests # <<>>
        /\ UNCHANGED <<order, next_oid, moneyVars>>
    BY <1>5 DEF Cancel, CancelRequest
  <2>5. resting' \in SUBSET PricedOrder
    BY <1>1, <2>1
  <2>6. Priced'
    BY <1>2, <1>3, <2>1, <2>3, <2>4, <2>5 DEF MInv, Priced
  <2> QED
    BY <2>4, <2>6, MoneyUnchanged DEF MInv
<1>6. CASE CancelRejected
  <2>1. PICK request \in PricedRequest : request = Head(requests)
    BY <1>3, <1>6 DEF CancelRejected, CancelRequest
  <2>2. PICK answer :
          answer = Response("CANCEL_REJECTED",
                            [oid |-> request.oid, side |-> "INVALID", qty |-> None], None, None)
    OBVIOUS
  <2>3. answer \in PricedAnswer
    <3>1. request.oid \in Nat \cup {None}
      BY DEF PricedRequest
    <3> QED
      BY <2>2, <3>1 DEF Response, PricedAnswer, Price
  <2>4. /\ responses' = Append(responses, answer) /\ resting' = resting
        /\ requests' = Tail(requests) /\ requests # <<>>
        /\ UNCHANGED <<order, next_oid, moneyVars>>
    BY <1>6, <2>1, <2>2 DEF CancelRejected, CancelRequest
  <2>5. Priced'
    BY <1>2, <1>3, <2>3, <2>4 DEF MInv, Priced
  <2> QED
    BY <2>4, <2>5, MoneyUnchanged DEF MInv
<1>7. CASE \E o \in resting : \E qty \in 1 .. o.qty : Fill(o, qty)
  <2>1. PICK o \in resting : \E qty \in 1 .. o.qty : Fill(o, qty)
    BY <1>7
  <2>2. o \in PricedOrder
    BY <1>1
  <2>3. PICK qty \in 1 .. o.qty : Fill(o, qty)
    BY <2>1
  <2>4. PICK left \in PricedOrder : left = [o EXCEPT !.qty = @ - qty]
    <3>1. o.qty - qty \in Nat
      BY <2>2 DEF PricedOrder
    <3> QED
      BY <2>2, <3>1 DEF PricedOrder
  <2>5. Response("FILLED", left, o.price, qty) \in PricedAnswer
    BY <2>2 DEF Response, PricedOrder, PricedAnswer
  <2>6. /\ resting' = (resting \ {o}) \cup (IF left.qty = 0 THEN {} ELSE {left})
        /\ responses' = Append(responses, Response("FILLED", left, o.price, qty))
        /\ UNCHANGED <<order, next_oid, requests, moneyVars>>
    BY <2>3, <2>4 DEF Fill, managerVars
  <2>7. resting' \in SUBSET PricedOrder
    BY <1>1, <2>6
  <2>8. Priced'
    BY <1>2, <2>5, <2>6, <2>7 DEF MInv, Priced
  <2> QED
    BY <2>6, <2>8, MoneyUnchanged DEF MInv
<1> QED
  BY <1>4, <1>5, <1>6, <1>7

LEMMA NextMInv ==
  ASSUME Routed, MInv, [Next]_vars
  PROVE  MInv'
<1>1. CASE UNCHANGED vars \/ NoMoreResponses \/ NoMoreUpdates
  <2>1. UNCHANGED <<managerVars, exchangeVars, moneyVars>>
    BY <1>1 DEF vars, NoMoreResponses, NoMoreUpdates
  <2>2. Priced'
    BY <2>1 DEF MInv, Priced, managerVars, exchangeVars
  <2> QED
    BY <2>1, <2>2, MoneyUnchanged DEF MInv
<1> QED
  BY <1>1, HandleResponseMInv, OrderBookUpdateMInv, ExchangePriced DEF Next, Client, Exchange

(* The books balance, whatever the fills and the market do, and however    *)
(* the strategy reaches the manager, if responses come by way of           *)
(* on_order_response: total profit and loss is the cash the fills brought  *)
(* plus the position at the price it was last valued at.                   *)
THEOREM BooksBalance == Routed => (Spec => []PnlAddsUp)
<1> SUFFICES ASSUME Routed
             PROVE  Spec => []PnlAddsUp
  OBVIOUS
<1>1. MInv /\ [Next]_vars => MInv'
  BY NextMInv
<1>2. MInv => PnlAddsUp
  BY DEF MInv, MoneyOK
<1> QED
  BY <1>1, <1>2, InitMInv, PTL DEF Spec
===============================================================================
