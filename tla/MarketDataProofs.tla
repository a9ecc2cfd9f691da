-------------------------- MODULE MarketDataProofs --------------------------
(***************************************************************************)
(* MarketData for any tickers, orders, bounds, losses and overtakings.     *)
(*                                                                         *)
(* How far a client has come depends on what is on its way to it on two    *)
(* streams, and on what it has queued.  IInv says of the numbers of every  *)
(* message, queued or on its way, how far they go.  BInv, further down,    *)
(* says which update or which snapshot the message is of, and what the     *)
(* client's books become by it.                                            *)
(***************************************************************************)
EXTENDS MarketData, SequenceTheorems, FiniteSetTheorems, WellFoundedInduction, TLAPS

(* The elements of a sequence, and that it is one, whatever they are.      *)
Of(s) == {s[i] : i \in 1 .. Len(s)}

IsSeq(s) == s \in Seq(Of(s))

(* The messages that the publisher has sent so far.                        *)
Published == {[n_seq |-> n, ome_update |-> sent_updates[n]] : n \in 1 .. n_seq_next - 1}

EngineUpdateOK(update) ==
  /\ update.type \in {"ADD", "MODIFY", "CANCEL", "TRADE"}
  /\ update.ticker \in Tickers
  /\ update.type = "ADD" => update.oid \in OrderIds

(* A datagram of a snapshot: the end marker is its last message, and bears *)
(* the number of an update that the pictures contain.                      *)
SnapshotDatagramOK(datagram, covered) ==
  /\ Len(datagram) \in Nat
  /\ \A i \in 1 .. Len(datagram) :
       /\ datagram[i].n_seq \in Nat
       /\ datagram[i].ome_update.type = "SNAPSHOT_END" =>
            i = Len(datagram) /\ datagram[i].ome_update.oid \in 0 .. covered

EngineOK == IsSeq(sent_updates) /\ \A u \in Of(sent_updates) : EngineUpdateOK(u)

NumbersOK == n_seq_next \in 1 .. Len(sent_updates) + 1 /\ n_seq_last \in 0 .. n_seq_next - 1

PublisherOK == IsSeq(tx_buffer) /\ Of(tx_buffer) \subseteq Published

(* What is queued for the synthesizer follows on what its pictures hold.   *)
HandedOverOK ==
  /\ IsSeq(tx_snapshot_updates) /\ Of(tx_snapshot_updates) \subseteq Published
  /\ n_seq_last + Len(tx_snapshot_updates) = n_seq_next - 1
  /\ \A i \in 1 .. Len(tx_snapshot_updates) : tx_snapshot_updates[i].n_seq = n_seq_last + i

PicturesOK ==
  /\ pictures = [t \in Tickers |-> pictures[t]]
  /\ \A t \in Tickers : IsFiniteSet(DOMAIN pictures[t]) /\ DOMAIN pictures[t] \subseteq OrderIds

IncrementalOK ==
  IsSeq(incremental) /\ \A d \in Of(incremental) : IsSeq(d) /\ Of(d) \subseteq Published

SnapshotsOK ==
  /\ IsSeq(publishing) /\ IsSeq(snapshots)
  /\ \A d \in Of(publishing) : SnapshotDatagramOK(d, n_seq_last)
  /\ \A d \in Of(snapshots) : SnapshotDatagramOK(d, n_seq_last)

-----------------------------------------------------------------------------
(* The consumer, when updates up to the last one were published and        *)
(* snapshots cover those up to the one covered.                            *)

IsConsumer(c) ==
  c = [n_seq_inc_next |-> c.n_seq_inc_next, is_in_recovery |-> c.is_in_recovery,
       pushed |-> c.pushed, queued_snapshot_updates |-> c.queued_snapshot_updates,
       queued_incremental_updates |-> c.queued_incremental_updates]

(* No end marker is left as the last message of the queued snapshot: it    *)
(* would have been used or dropped.                                        *)
SnapshotQueueOK(queue, covered) ==
  /\ IsFiniteSet(DOMAIN queue) /\ DOMAIN queue \subseteq Nat
  /\ \A n \in DOMAIN queue : queue[n].type = "SNAPSHOT_END" =>
       queue[n].oid \in 0 .. covered /\ \E m \in DOMAIN queue : m > n

(* A recovery has some incremental update queued: that which began it.     *)
ConsumerOK(c, last, covered) ==
  /\ IsConsumer(c)
  /\ c.n_seq_inc_next \in 1 .. last + 1
  /\ c.is_in_recovery \in BOOLEAN
  /\ DOMAIN c.queued_incremental_updates \subseteq 1 .. last
  /\ SnapshotQueueOK(c.queued_snapshot_updates, covered)
  /\ c.is_in_recovery => DOMAIN c.queued_incremental_updates # {}
  /\ ~ c.is_in_recovery =>
       c.queued_snapshot_updates = NoUpdates /\ c.queued_incremental_updates = NoUpdates

(* Outside of a recovery the client is in step with what it expects next.  *)
ClientOK ==
  /\ ConsumerOK(mdc, n_seq_next - 1, n_seq_last)
  /\ position \in Nat
  /\ ~ mdc.is_in_recovery => position = mdc.n_seq_inc_next - 1

IInv == EngineOK /\ NumbersOK /\ PublisherOK /\ HandedOverOK /\ PicturesOK /\ IncrementalOK
        /\ SnapshotsOK /\ ClientOK

-----------------------------------------------------------------------------
(* Numbers.                                                                *)

LEMMA LeastNumber ==
  ASSUME NEW T \in SUBSET Nat, T # {}
  PROVE  \E n \in T : \A m \in T : n <= m
<1>1. PICK n \in T : \A m \in T : ~ (<<m, n>> \in OpToRel(<, Nat))
  BY NatLessThanWellFounded, WFMin
<1>2. \A m \in T : ~ (m < n)
  BY <1>1 DEF OpToRel
<1> QED
  BY <1>2

LEMMA Induction ==
  ASSUME NEW P \in SUBSET Nat, 0 \in P, \A n \in P : n + 1 \in P
  PROVE  P = Nat
<1> DEFINE bad == Nat \ P
<1> SUFFICES ASSUME bad # {}
             PROVE  FALSE
  OBVIOUS
<1>1. PICK n \in bad : \A m \in bad : n <= m
  <2>1. bad \in SUBSET Nat
    OBVIOUS
  <2> HIDE DEF bad
  <2> QED
    BY <2>1, LeastNumber
<1>2. n # 0 /\ n - 1 \in Nat
  OBVIOUS
<1>3. n - 1 \in P
  BY <1>1, <1>2
<1> QED
  BY <1>2, <1>3

LEMMA MinOf ==
  ASSUME NEW T \in SUBSET Nat, T # {}
  PROVE  Min(T) \in T /\ \A n \in T : Min(T) <= n
<1>1. \E n \in T : \A m \in T : n <= m
  BY LeastNumber
<1> QED
  BY <1>1 DEF Min

LEMMA Greatest ==
  ASSUME NEW T \in SUBSET Nat, IsFiniteSet(T), T # {}
  PROVE  \E n \in T : \A m \in T : m <= n
<1> DEFINE P == {k \in Nat : \A R \in SUBSET Nat : IsFiniteSet(R) /\ Cardinality(R) = k + 1
                   => \E n \in R : \A m \in R : m <= n}
<1>1. 0 \in P
  <2> SUFFICES ASSUME NEW R \in SUBSET Nat, IsFiniteSet(R), Cardinality(R) = 1
               PROVE  \E n \in R : \A m \in R : m <= n
    OBVIOUS
  <2>1. PICK x : R = {x}
    BY FS_Singleton, Zenon
  <2> QED
    BY <2>1
<1>2. ASSUME NEW k \in P
      PROVE  k + 1 \in P
  <2> SUFFICES ASSUME NEW R \in SUBSET Nat, IsFiniteSet(R), Cardinality(R) = k + 1 + 1
               PROVE  \E n \in R : \A m \in R : m <= n
    OBVIOUS
  <2>1. k \in Nat
    OBVIOUS
  <2>2. PICK x \in R : TRUE
    <3>1. Cardinality(R) # 0
      BY <2>1
    <3> QED
      BY <3>1, FS_EmptySet, Zenon
  <2> DEFINE rest == R \ {x}
  <2>3. IsFiniteSet(rest) /\ Cardinality(rest) = k + 1 /\ rest \in SUBSET Nat
    BY <2>1, <2>2, FS_RemoveElement
  <2>4. PICK n \in rest : \A m \in rest : m <= n
    <3> HIDE DEF rest
    <3> QED
      BY <2>3
  <2>5. x \in Nat /\ n \in Nat /\ n \in R /\ \A m \in R : m \in Nat /\ (m = x \/ m <= n)
    BY <2>2, <2>4
  <2> QED
    BY <2>5
<1>3. P \in SUBSET Nat
  OBVIOUS
<1> HIDE DEF P
<1>4. P = Nat
  BY <1>1, <1>2, <1>3, Induction
<1>5. Cardinality(T) \in Nat /\ Cardinality(T) # 0
  BY FS_CardinalityType, FS_EmptySet
<1>6. Cardinality(T) - 1 \in P /\ Cardinality(T) - 1 + 1 = Cardinality(T)
  BY <1>4, <1>5
<1> QED
  BY <1>6 DEF P

LEMMA MaxOf ==
  ASSUME NEW T \in SUBSET Nat, IsFiniteSet(T), T # {}
  PROVE  Max(T) \in T /\ \A n \in T : n <= Max(T)
<1>1. \E n \in T : \A m \in T : n >= m
  BY Greatest
<1> QED
  BY <1>1 DEF Max

(* A finite set of numbers has a member at each place.                     *)
LEMMA AscendingPlace ==
  ASSUME NEW T \in SUBSET Nat, IsFiniteSet(T), NEW i \in 1 .. Cardinality(T)
  PROVE  /\ Ascending(T)[i] \in T
         /\ Cardinality({m \in T : m < Ascending(T)[i]}) = i - 1
<1> DEFINE Below(R, n) == {m \in R : m < n}
           P == {k \in Nat : \A R \in SUBSET Nat : IsFiniteSet(R) /\ Cardinality(R) = k
                   => \A j \in 1 .. k : \E n \in R : Cardinality(Below(R, n)) = j - 1}
<1>1. 0 \in P
  OBVIOUS
<1>2. ASSUME NEW k \in P
      PROVE  k + 1 \in P
  <2> SUFFICES ASSUME NEW R \in SUBSET Nat, IsFiniteSet(R), Cardinality(R) = k + 1,
                      NEW j \in 1 .. k + 1
               PROVE  \E n \in R : Cardinality(Below(R, n)) = j - 1
    OBVIOUS
  <2>1. k \in Nat
    OBVIOUS
  <2>2. PICK x \in R : \A m \in R : m <= x
    <3>1. Cardinality(R) # 0
      BY <2>1
    <3>2. R # {}
      BY <3>1, FS_EmptySet, Zenon
    <3> QED
      BY <3>2, Greatest
  <2> DEFINE rest == R \ {x}
  <2>3. IsFiniteSet(rest) /\ Cardinality(rest) = k /\ rest \in SUBSET Nat
    <3>1. IsFiniteSet(R \ {x}) /\ Cardinality(R \ {x}) = Cardinality(R) - 1
      BY <2>2, FS_RemoveElement, Zenon
    <3> QED
      BY <2>1, <3>1
  <2>4. CASE j = k + 1
    <3>1. {m \in R : m < x} = R \ {x}
      <4>1. x \in Nat /\ \A m \in R : m \in Nat /\ m <= x
        BY <2>2
      <4>2. \A m \in R : m < x <=> m # x
        BY <4>1
      <4> QED
        BY <4>2
    <3>2. Cardinality(R \ {x}) = j - 1
      BY <2>1, <2>3, <2>4
    <3> QED
      BY <2>2, <3>1, <3>2
  <2>5. CASE j # k + 1
    <3>1. j \in 1 .. k
      BY <2>1, <2>5
    <3>2. PICK n \in rest : Cardinality(Below(rest, n)) = j - 1
      <4> HIDE DEF rest
      <4> QED
        BY <2>3, <3>1
    <3>3. Below(R, n) = Below(rest, n) /\ n \in R
      BY <2>2, <3>2
    <3> QED
      BY <3>2, <3>3
  <2> QED
    BY <2>4, <2>5
<1>3. P \in SUBSET Nat
  OBVIOUS
<1> HIDE DEF P
<1>4. P = Nat
  BY <1>1, <1>2, <1>3, Induction
<1>5. Cardinality(T) \in P
  BY <1>4, FS_CardinalityType
<1>6. \E n \in T : Cardinality(Below(T, n)) = i - 1
  BY <1>5 DEF P
<1> DEFINE c == CHOOSE n \in T : Cardinality(Below(T, n)) = i - 1
<1>7. c \in T /\ Cardinality(Below(T, c)) = i - 1
  BY <1>6
<1>8. Ascending(T)[i] = c
  BY DEF Ascending
<1> HIDE DEF c
<1> QED
  BY <1>7, <1>8

LEMMA AscendingMember ==
  ASSUME NEW T \in SUBSET Nat, IsFiniteSet(T), NEW i \in 1 .. Cardinality(T)
  PROVE  Ascending(T)[i] \in T
  BY AscendingPlace

LEMMA AscendingDomain ==
  ASSUME NEW T, IsFiniteSet(T)
  PROVE  DOMAIN Ascending(T) = 1 .. Cardinality(T) /\ Cardinality(T) \in Nat
         /\ Len(Ascending(T)) = Cardinality(T)
  BY FS_CardinalityType DEF Ascending

-----------------------------------------------------------------------------
(* Sequences of whatever they consist of.                                  *)

LEMMA IsSeqOf ==
  ASSUME NEW S, NEW s \in Seq(S)
  PROVE  IsSeq(s) /\ Of(s) \subseteq S /\ Len(s) \in Nat
<1>1. Len(s) \in Nat /\ s \in [1 .. Len(s) -> S]
  BY LenProperties
<1>2. s \in [1 .. Len(s) -> Of(s)]
  BY <1>1 DEF Of
<1>3. s \in Seq(Of(s))
  BY <1>1, <1>2, SeqDef
<1> QED
  BY <1>1, <1>3 DEF IsSeq, Of

LEMMA EmptyIsSeq == IsSeq(<<>>) /\ Of(<<>>) = {} /\ Len(<<>>) = 0
<1> DEFINE e == <<>>
           none == {}
<1>1. e \in Seq(none) /\ Len(e) = 0
  BY EmptySeq
<1> HIDE DEF e, none
<1>2. IsSeq(e) /\ Of(e) \subseteq none
  BY <1>1, IsSeqOf
<1> QED
  BY <1>1, <1>2 DEF e, none

LEMMA SeqMembers ==
  ASSUME NEW s, IsSeq(s)
  PROVE  /\ Len(s) \in Nat /\ s \in Seq(Of(s))
         /\ \A i \in 1 .. Len(s) : s[i] \in Of(s)
         /\ s = <<>> <=> Len(s) = 0
<1>1. Len(s) \in Nat /\ s \in Seq(Of(s))
  BY LenProperties DEF IsSeq
<1>2. s # <<>> => Len(s) # 0
  BY <1>1, EmptySeq
<1> QED
  BY <1>1, <1>2, EmptyIsSeq DEF Of

LEMMA AppendIsSeq ==
  ASSUME NEW s, IsSeq(s), NEW x
  PROVE  /\ IsSeq(Append(s, x)) /\ Of(Append(s, x)) = Of(s) \cup {x}
         /\ Len(Append(s, x)) = Len(s) + 1 /\ Len(s) \in Nat
         /\ \A i \in 1 .. Len(s) : Append(s, x)[i] = s[i]
         /\ Append(s, x)[Len(s) + 1] = x
<1> DEFINE S == Of(s) \cup {x}
           t == Append(s, x)
<1>1. s \in Seq(S) /\ x \in S
  BY SeqMonotonic DEF IsSeq
<1> HIDE DEF S
<1>2. /\ t \in Seq(S) /\ Len(t) = Len(s) + 1 /\ t[Len(s) + 1] = x /\ Len(s) \in Nat
      /\ \A i \in 1 .. Len(s) : t[i] = s[i]
  BY <1>1, AppendProperties, LenProperties
<1> HIDE DEF t
<1>3. IsSeq(t)
  BY <1>2, IsSeqOf
<1>4. Of(t) = Of(s) \cup {x}
  <2>1. \A i \in 1 .. Len(s) : i \in 1 .. Len(t)
    BY <1>2
  <2>2. \A i \in 1 .. Len(t) : i \in 1 .. Len(s) \/ i = Len(s) + 1
    BY <1>2
  <2>3. Len(s) + 1 \in 1 .. Len(t)
    BY <1>2
  <2> QED
    BY <1>2, <2>1, <2>2, <2>3 DEF Of
<1> QED
  BY <1>2, <1>3, <1>4 DEF t

LEMMA TailIsSeq ==
  ASSUME NEW s, IsSeq(s), s # <<>>
  PROVE  /\ Head(s) \in Of(s) /\ IsSeq(Tail(s)) /\ Of(Tail(s)) \subseteq Of(s)
         /\ Len(s) \in Nat \ {0} /\ Len(Tail(s)) = Len(s) - 1 /\ Head(s) = s[1]
         /\ \A i \in 1 .. Len(s) - 1 : Tail(s)[i] = s[i + 1]
<1>1. s \in Seq(Of(s))
  BY DEF IsSeq
<1>2. /\ Head(s) \in Of(s) /\ Tail(s) \in Seq(Of(s)) /\ Len(Tail(s)) = Len(s) - 1
      /\ \A i \in 1 .. Len(Tail(s)) : Tail(s)[i] = s[i + 1]
  BY <1>1, HeadTailProperties
<1>3. Len(s) \in Nat \ {0}
  BY <1>1, EmptySeq
<1>4. IsSeq(Tail(s)) /\ Of(Tail(s)) \subseteq Of(s)
  BY <1>2, IsSeqOf
<1> QED
  BY <1>2, <1>3, <1>4

(* Swapping the first two elements changes nothing else.                   *)
LEMMA SwapIsSeq ==
  ASSUME NEW s, IsSeq(s), Len(s) > 1
  PROVE  LET t == <<s[2], s[1]>> \o SubSeq(s, 3, Len(s))
         IN IsSeq(t) /\ Of(t) \subseteq Of(s)
<1> DEFINE t == <<s[2], s[1]>> \o SubSeq(s, 3, Len(s))
<1>1. Len(s) \in Nat /\ \A i \in 1 .. Len(s) : s[i] \in Of(s)
  BY SeqMembers
<1>2. SubSeq(s, 3, Len(s)) \in Seq(Of(s))
  BY <1>1, SubSeqProperties
<1>3. <<s[2], s[1]>> \in Seq(Of(s))
  BY <1>1
<1>4. t \in Seq(Of(s))
  BY <1>2, <1>3, ConcatProperties
<1> HIDE DEF t
<1> QED
  BY <1>4, IsSeqOf DEF t

-----------------------------------------------------------------------------
(* The handling of a datagram, message by message.                         *)

Handles(f, is_snapshot, c, datagram, k) ==
  f = [i \in 0 .. k |-> IF i = 0 THEN c ELSE rx_message(is_snapshot, f[i - 1], datagram[i])]

LEMMA HandlesExists ==
  ASSUME NEW is_snapshot, NEW c, NEW datagram, NEW len \in Nat
  PROVE  \E f : Handles(f, is_snapshot, c, datagram, len)
<1> DEFINE P == {k \in Nat : \E f : Handles(f, is_snapshot, c, datagram, k)}
<1>1. 0 \in P
  <2>1. Handles([i \in 0 .. 0 |-> c], is_snapshot, c, datagram, 0)
    BY DEF Handles
  <2> QED
    BY <2>1
<1>2. ASSUME NEW k \in P
      PROVE  k + 1 \in P
  <2>1. PICK f : Handles(f, is_snapshot, c, datagram, k)
    OBVIOUS
  <2> DEFINE e == rx_message(is_snapshot, f[k], datagram[k + 1])
             g == [i \in 0 .. k + 1 |-> IF i = k + 1 THEN e ELSE f[i]]
             h == [i \in 0 .. k + 1 |->
                     IF i = 0 THEN c ELSE rx_message(is_snapshot, g[i - 1], datagram[i])]
  <2>2. k \in Nat /\ k + 1 \in Nat
    OBVIOUS
  <2>3. ASSUME NEW i \in 0 .. k + 1
        PROVE  g[i] = IF i = 0 THEN c ELSE rx_message(is_snapshot, g[i - 1], datagram[i])
    <3> HIDE DEF e
    <3>1. CASE i = k + 1
      <4>1. g[i] = e /\ i # 0 /\ i - 1 = k /\ k \in 0 .. k + 1 /\ k # k + 1
        BY <2>2, <3>1
      <4>2. g[i - 1] = f[k]
        BY <4>1
      <4> QED
        BY <3>1, <4>1, <4>2 DEF e
    <3>2. CASE i # k + 1 /\ i # 0
      <4>1. i \in 0 .. k /\ i - 1 \in 0 .. k /\ i - 1 \in 0 .. k + 1 /\ i - 1 # k + 1
        BY <2>2, <3>2
      <4>2. g[i] = f[i] /\ g[i - 1] = f[i - 1]
        BY <3>2, <4>1
      <4>3. f[i] = rx_message(is_snapshot, f[i - 1], datagram[i])
        BY <2>1, <3>2, <4>1 DEF Handles
      <4> QED
        BY <3>2, <4>2, <4>3
    <3>3. CASE i # k + 1 /\ i = 0
      <4>1. i \in 0 .. k
        BY <2>2, <3>3
      <4>2. g[i] = f[i]
        BY <3>3
      <4>3. f[i] = c
        BY <2>1, <3>3, <4>1 DEF Handles
      <4> QED
        BY <3>3, <4>2, <4>3
    <3> QED
      BY <3>1, <3>2, <3>3
  <2> HIDE DEF e
  <2>4. g = h
    BY <2>3
  <2> HIDE DEF g
  <2>5. Handles(g, is_snapshot, c, datagram, k + 1)
    BY <2>4 DEF Handles
  <2> QED
    BY <2>2, <2>5
<1>3. P \in SUBSET Nat
  OBVIOUS
<1> HIDE DEF P
<1>4. P = Nat
  BY <1>1, <1>2, <1>3, Induction
<1> QED
  BY <1>4 DEF P

HandledAs(f, is_snapshot, c, datagram) ==
  /\ f[0] = c
  /\ \A i \in Nat : i + 1 <= Len(datagram) =>
       f[i + 1] = rx_message(is_snapshot, f[i], datagram[i + 1])
  /\ HandleMessages(is_snapshot, c, datagram) = f[Len(datagram)]

LEMMA Handled ==
  ASSUME NEW is_snapshot, NEW c, NEW datagram, Len(datagram) \in Nat
  PROVE  \E f : HandledAs(f, is_snapshot, c, datagram)
<1> DEFINE f == CHOOSE f : Handles(f, is_snapshot, c, datagram, Len(datagram))
<1>1. Handles(f, is_snapshot, c, datagram, Len(datagram))
  BY HandlesExists
<1>2. HandleMessages(is_snapshot, c, datagram) = f[Len(datagram)]
  BY DEF HandleMessages, Handles
<1> HIDE DEF f
<1>3. f[0] = c
  BY <1>1 DEF Handles
<1>4. ASSUME NEW i \in Nat, i + 1 <= Len(datagram)
      PROVE  f[i + 1] = rx_message(is_snapshot, f[i], datagram[i + 1])
  <2>1. i + 1 \in 0 .. Len(datagram) /\ i + 1 # 0 /\ i + 1 - 1 = i
    BY <1>4
  <2>2. f[i + 1] = rx_message(is_snapshot, f[i + 1 - 1], datagram[i + 1])
    BY <1>1, <2>1 DEF Handles
  <2> QED
    BY <2>1, <2>2
<1> QED
  BY <1>2, <1>3, <1>4 DEF HandledAs

-----------------------------------------------------------------------------
(* The number that is expected after a snapshot is none that was queued.   *)
LEMMA NextAfter ==
  ASSUME NEW last \in Nat, NEW N \in SUBSET (1 .. last), NEW first \in 1 .. last + 1
  PROVE  LET later == {n \in N : n >= first}
             next  == Min((first .. first + Cardinality(later)) \ later)
         IN /\ next \in first .. last + 1
            /\ ~ IncrementalGap(later, first) => \A n \in N : n < next
<1> DEFINE later == {n \in N : n >= first}
           k == Cardinality(later)
           T == (first .. first + k) \ later
<1>1. IsFiniteSet(later)
  <2>1. IsFiniteSet(1 .. last)
    BY FS_Interval
  <2>2. later \in SUBSET (1 .. last)
    OBVIOUS
  <2> HIDE DEF later
  <2> QED
    BY <2>1, <2>2, FS_Subset
<1>2. k \in Nat
  BY <1>1, FS_CardinalityType
<1> HIDE DEF k
<1>3. T # {}
  <2> SUFFICES ASSUME (first .. first + k) \in SUBSET later
               PROVE  FALSE
    OBVIOUS
  <2>1. Cardinality(first .. first + k) <= Cardinality(later)
    <3> DEFINE R == first .. first + k
    <3>1. R \in SUBSET later
      OBVIOUS
    <3> HIDE DEF R, later
    <3>2. Cardinality(R) <= Cardinality(later)
      BY <1>1, <3>1, FS_Subset
    <3> QED
      BY <3>2 DEF R
  <2>2. Cardinality(first .. first + k) = first + k - first + 1
    <3> DEFINE b == first + k
    <3>1. first \in Int /\ b \in Int /\ ~ (first > b)
      BY <1>2
    <3> HIDE DEF b
    <3>2. Cardinality(first .. b) = b - first + 1
      BY <3>1, FS_Interval
    <3> QED
      BY <1>2, <3>2 DEF b
  <2> QED
    BY <1>2, <2>1, <2>2 DEF k
<1>4. T \in SUBSET Nat
  BY <1>2
<1>5. Min(T) \in T /\ \A n \in T : Min(T) <= n
  <2> HIDE DEF T
  <2> QED
    BY <1>3, <1>4, MinOf
<1>6. Min(T) \in first .. last + 1
  <2>1. Min(T) \in Nat /\ Min(T) >= first /\ Min(T) <= first + k
    BY <1>2, <1>5
  <2>2. CASE first + k >= last + 1
    <3>1. last + 1 \in T
      BY <1>2, <2>2
    <3>2. Min(T) <= last + 1
      <4> HIDE DEF T
      <4> QED
        BY <1>5, <3>1
    <3> HIDE DEF T
    <3> QED
      BY <2>1, <3>2
  <2> HIDE DEF T
  <2>3. CASE ~ (first + k >= last + 1)
    BY <1>2, <2>1, <2>3
  <2> QED
    BY <2>2, <2>3
<1>7. ASSUME ~ IncrementalGap(later, first), NEW n \in N
      PROVE  n < Min(T)
  <2>1. later = first .. first + k - 1
    BY <1>7 DEF IncrementalGap, k
  <2>2. Min(T) \in Nat /\ Min(T) \notin later /\ Min(T) >= first /\ Min(T) <= first + k
    BY <1>2, <1>5
  <2>3. n \in later \/ n < first
    OBVIOUS
  <2> HIDE DEF T, later
  <2>4. Min(T) >= first + k
    BY <1>2, <2>1, <2>2
  <2>5. n \in first .. first + k - 1 \/ n < first
    BY <2>1, <2>3
  <2>6. n \in Nat /\ first \in Nat /\ Min(T) \in Nat
    BY <2>2
  <2> QED
    BY <1>2, <2>4, <2>5, <2>6
<1> QED
  BY <1>6, <1>7 DEF k

-----------------------------------------------------------------------------
(* A consumer in a recovery that has just queued a message.                *)
Recovering(c, last, covered) ==
  /\ IsConsumer(c)
  /\ c.n_seq_inc_next \in 1 .. last + 1
  /\ c.is_in_recovery = TRUE
  /\ DOMAIN c.queued_incremental_updates \subseteq 1 .. last
  /\ DOMAIN c.queued_incremental_updates # {}
  /\ IsFiniteSet(DOMAIN c.queued_snapshot_updates) /\ DOMAIN c.queued_snapshot_updates \subseteq Nat
  /\ \A n \in DOMAIN c.queued_snapshot_updates :
       c.queued_snapshot_updates[n].type = "SNAPSHOT_END" =>
         c.queued_snapshot_updates[n].oid \in 0 .. covered

AtItsEnd(queue) == DOMAIN queue # {} /\ queue[Max(DOMAIN queue)].type = "SNAPSHOT_END"

(* What a message leaves behind: a recovery that goes on keeps the queued  *)
(* incremental updates, and one that ends has come further than them all.  *)
Settled(c, d, last, covered) ==
  /\ ConsumerOK(d, last, covered)
  /\ d.is_in_recovery => d.queued_incremental_updates = c.queued_incremental_updates
  /\ ~ d.is_in_recovery => \A n \in DOMAIN c.queued_incremental_updates : n < d.n_seq_inc_next

LEMMA NothingQueued ==
  ASSUME NEW covered
  PROVE  DOMAIN NoUpdates = {} /\ SnapshotQueueOK(NoUpdates, covered) /\ ~ AtItsEnd(NoUpdates)
<1>1. DOMAIN NoUpdates = {}
  BY DEF NoUpdates
<1>2. IsFiniteSet(DOMAIN NoUpdates)
  BY <1>1, FS_EmptySet
<1> QED
  BY <1>1, <1>2 DEF SnapshotQueueOK, AtItsEnd

LEMMA NewConsumerOK ==
  ASSUME NEW last \in Nat, NEW covered
  PROVE  ConsumerOK(NewConsumer, last, covered)
<1>1. SnapshotQueueOK(NoUpdates, covered) /\ DOMAIN NoUpdates = {}
  BY NothingQueued
<1> QED
  BY <1>1 DEF ConsumerOK, IsConsumer, NewConsumer

LEMMA Renewed ==
  ASSUME NEW next, NEW all
  PROVE  [NewConsumer EXCEPT !.n_seq_inc_next = next, !.pushed = all] =
           [n_seq_inc_next |-> next, is_in_recovery |-> FALSE, pushed |-> all,
            queued_snapshot_updates |-> NoUpdates, queued_incremental_updates |-> NoUpdates]
<1> DEFINE one  == 1
           no   == FALSE
           none == <<>>
           d    == [NewConsumer EXCEPT !.n_seq_inc_next = next]
<1>1. NewConsumer =
        [n_seq_inc_next |-> one, is_in_recovery |-> no, pushed |-> none,
         queued_snapshot_updates |-> NoUpdates, queued_incremental_updates |-> NoUpdates]
  BY DEF NewConsumer
<1> HIDE DEF one, no, none
<1>2. d = [n_seq_inc_next |-> next, is_in_recovery |-> no, pushed |-> none,
           queued_snapshot_updates |-> NoUpdates, queued_incremental_updates |-> NoUpdates]
  BY <1>1
<1>3. [NewConsumer EXCEPT !.n_seq_inc_next = next, !.pushed = all] = [d EXCEPT !.pushed = all]
  OBVIOUS
<1> HIDE DEF d
<1>4. [d EXCEPT !.pushed = all] =
        [n_seq_inc_next |-> next, is_in_recovery |-> no, pushed |-> all,
         queued_snapshot_updates |-> NoUpdates, queued_incremental_updates |-> NoUpdates]
  BY <1>2
<1> QED
  BY <1>3, <1>4 DEF no

LEMMA Discarded ==
  ASSUME NEW c, NEW last \in Nat, NEW covered, Recovering(c, last, covered),
         NEW next \in 1 .. last + 1
  PROVE  LET d == [Discard(c) EXCEPT !.n_seq_inc_next = next]
         IN Settled(c, d, last, covered) /\ d.is_in_recovery
<1>1. SnapshotQueueOK(NoUpdates, covered)
  BY NothingQueued
<1>2. Discard(c) =
        [n_seq_inc_next |-> c.n_seq_inc_next, is_in_recovery |-> c.is_in_recovery,
         pushed |-> c.pushed, queued_snapshot_updates |-> NoUpdates,
         queued_incremental_updates |-> c.queued_incremental_updates]
  BY DEF Discard, Recovering, IsConsumer
<1>3. [Discard(c) EXCEPT !.n_seq_inc_next = next] =
        [n_seq_inc_next |-> next, is_in_recovery |-> c.is_in_recovery, pushed |-> c.pushed,
         queued_snapshot_updates |-> NoUpdates,
         queued_incremental_updates |-> c.queued_incremental_updates]
  BY <1>2
<1> QED
  BY <1>1, <1>3 DEF Settled, Recovering, ConsumerOK, IsConsumer

LEMMA DiscardedOnly ==
  ASSUME NEW c, NEW last \in Nat, NEW covered, Recovering(c, last, covered)
  PROVE  Settled(c, Discard(c), last, covered) /\ Discard(c).is_in_recovery
<1> DEFINE d == [Discard(c) EXCEPT !.n_seq_inc_next = c.n_seq_inc_next]
<1>1. c.n_seq_inc_next \in 1 .. last + 1
  BY DEF Recovering
<1>2. Settled(c, d, last, covered) /\ d.is_in_recovery
  BY <1>1, Discarded
<1>3. d = Discard(c)
  BY DEF Discard, Recovering, IsConsumer
<1> QED
  BY <1>2, <1>3

LEMMA Completed ==
  ASSUME NEW c, NEW last \in Nat, NEW covered \in 0 .. last, Recovering(c, last, covered),
         AtItsEnd(c.queued_snapshot_updates)
  PROVE  Settled(c, CompleteSync(c), last, covered)
<1> DEFINE snapshot == c.queued_snapshot_updates
           queued   == c.queued_incremental_updates
           first    == AfterSnapshot(snapshot)
           later    == {n \in DOMAIN queued : n >= first}
           next     == Min((first .. first + Cardinality(later)) \ later)
           all      == c.pushed \o updates_to_process(snapshot, queued, later)
<1>1. first \in 1 .. last + 1
  <2>1. Max(DOMAIN snapshot) \in DOMAIN snapshot
    BY MaxOf DEF Recovering, AtItsEnd
  <2>2. snapshot[Max(DOMAIN snapshot)].oid \in 0 .. covered
    BY <2>1 DEF Recovering, AtItsEnd
  <2> QED
    BY <2>2 DEF AfterSnapshot
<1>2. DOMAIN queued \in SUBSET (1 .. last)
  BY DEF Recovering
<1>3. /\ next \in first .. last + 1
      /\ ~ IncrementalGap(later, first) => \A n \in DOMAIN queued : n < next
  <2> HIDE DEF queued, first
  <2> QED
    BY <1>1, <1>2, NextAfter
<1>4. next \in 1 .. last + 1
  <2> HIDE DEF first, next
  <2> QED
    BY <1>1, <1>3
<1>5. CompleteSync(c) = IF IncrementalGap(later, first)
                        THEN [Discard(c) EXCEPT !.n_seq_inc_next = next]
                        ELSE [NewConsumer EXCEPT !.n_seq_inc_next = next, !.pushed = all]
  BY DEF CompleteSync
<1> HIDE DEF snapshot, first, later, next, all
<1>6. CASE IncrementalGap(later, first)
  BY <1>4, <1>5, <1>6, Discarded
<1>7. CASE ~ IncrementalGap(later, first)
  <2> DEFINE d == [NewConsumer EXCEPT !.n_seq_inc_next = next, !.pushed = all]
  <2>1. d = [n_seq_inc_next |-> next, is_in_recovery |-> FALSE, pushed |-> all,
             queued_snapshot_updates |-> NoUpdates, queued_incremental_updates |-> NoUpdates]
    BY Renewed
  <2>2. SnapshotQueueOK(NoUpdates, covered) /\ DOMAIN NoUpdates = {}
    BY NothingQueued
  <2> HIDE DEF d
  <2>3. ConsumerOK(d, last, covered)
    BY <1>4, <2>1, <2>2 DEF ConsumerOK, IsConsumer
  <2>4. CompleteSync(c) = d /\ d.is_in_recovery = FALSE /\ d.n_seq_inc_next = next
    BY <1>5, <1>7, <2>1 DEF d
  <2> QED
    BY <1>3, <1>7, <2>3, <2>4 DEF Settled, queued
<1> QED
  BY <1>6, <1>7

LEMMA SyncCheck ==
  ASSUME NEW c, NEW last \in Nat, NEW covered \in 0 .. last, Recovering(c, last, covered)
  PROVE  /\ Settled(c, snapshot_sync_check(c), last, covered)
         /\ ~ AtItsEnd(c.queued_snapshot_updates) => snapshot_sync_check(c).is_in_recovery
<1> DEFINE snapshot == c.queued_snapshot_updates
           numbers  == DOMAIN snapshot
           d        == snapshot_sync_check(c)
<1>1. CASE d = c /\ ~ AtItsEnd(snapshot)
  <2>1. ASSUME NEW n \in numbers, snapshot[n].type = "SNAPSHOT_END"
        PROVE  \E m \in numbers : m > n
    <3>1. numbers # {} /\ snapshot[Max(numbers)].type # "SNAPSHOT_END"
      BY <1>1 DEF AtItsEnd
    <3>2. Max(numbers) \in numbers /\ n <= Max(numbers) /\ numbers \subseteq Nat
      BY <3>1, MaxOf DEF Recovering
    <3>3. n # Max(numbers)
      BY <2>1, <3>1
    <3> QED
      BY <3>2, <3>3
  <2>2. SnapshotQueueOK(snapshot, covered)
    BY <2>1 DEF SnapshotQueueOK, Recovering
  <2>3. ConsumerOK(c, last, covered)
    BY <2>2 DEF ConsumerOK, Recovering
  <2>4. c.is_in_recovery = TRUE
    BY DEF Recovering
  <2>5. Settled(c, c, last, covered)
    BY <2>3, <2>4 DEF Settled
  <2> HIDE DEF d
  <2> QED
    BY <1>1, <2>4, <2>5 DEF d
<1>2. CASE d = Discard(c)
  <2> HIDE DEF d
  <2> QED
    BY <1>2, DiscardedOnly DEF d
<1>3. CASE d = CompleteSync(c) /\ AtItsEnd(snapshot)
  <2> HIDE DEF d
  <2> QED
    BY <1>3, Completed DEF d
<1>4. \/ d = c /\ ~ AtItsEnd(snapshot)
      \/ d = Discard(c)
      \/ d = CompleteSync(c) /\ AtItsEnd(snapshot)
  BY DEF snapshot_sync_check, AtItsEnd
<1> QED
  BY <1>1, <1>2, <1>3, <1>4

LEMMA NotAtItsEnd ==
  ASSUME NEW queue, NEW covered, SnapshotQueueOK(queue, covered)
  PROVE  ~ AtItsEnd(queue)
<1> SUFFICES ASSUME AtItsEnd(queue)
             PROVE  FALSE
  OBVIOUS
<1>1. DOMAIN queue # {} /\ queue[Max(DOMAIN queue)].type = "SNAPSHOT_END"
  BY DEF AtItsEnd
<1>2. DOMAIN queue \subseteq Nat /\ Max(DOMAIN queue) \in DOMAIN queue
      /\ \A n \in DOMAIN queue : n <= Max(DOMAIN queue)
  BY <1>1, MaxOf DEF SnapshotQueueOK
<1>3. PICK m \in DOMAIN queue : m > Max(DOMAIN queue)
  BY <1>1, <1>2 DEF SnapshotQueueOK
<1> QED
  BY <1>2, <1>3

-----------------------------------------------------------------------------
(* An incremental update never ends a recovery, and outside of one it only *)
(* takes the consumer on.                                                  *)
LEMMA IncrementalQueued ==
  ASSUME NEW c, NEW last \in Nat, NEW covered \in 0 .. last, IsConsumer(c),
         c.n_seq_inc_next \in 1 .. last + 1, c.is_in_recovery = TRUE,
         DOMAIN c.queued_incremental_updates \subseteq 1 .. last,
         SnapshotQueueOK(c.queued_snapshot_updates, covered),
         NEW message, message.n_seq \in 1 .. last
  PROVE  LET d == queue_update(FALSE, c, message)
         IN ConsumerOK(d, last, covered) /\ d.is_in_recovery
<1> DEFINE put == Put(c.queued_incremental_updates, message)
           x == [c EXCEPT !.queued_incremental_updates = put]
<1>1. DOMAIN put = DOMAIN c.queued_incremental_updates \cup {message.n_seq}
  BY DEF Put
<1> HIDE DEF put
<1>2. x = [n_seq_inc_next |-> c.n_seq_inc_next, is_in_recovery |-> c.is_in_recovery,
           pushed |-> c.pushed, queued_snapshot_updates |-> c.queued_snapshot_updates,
           queued_incremental_updates |-> put]
  BY DEF IsConsumer
<1>3. queue_update(FALSE, c, message) = snapshot_sync_check(x)
  BY DEF queue_update, put
<1> HIDE DEF x
<1>4. Recovering(x, last, covered)
  BY <1>1, <1>2 DEF Recovering, IsConsumer, SnapshotQueueOK
<1>5. ~ AtItsEnd(x.queued_snapshot_updates)
  BY <1>2, NotAtItsEnd
<1> QED
  BY <1>3, <1>4, <1>5, SyncCheck DEF Settled

LEMMA IncrementalMessage ==
  ASSUME NEW c, NEW last \in Nat, NEW covered \in 0 .. last, ConsumerOK(c, last, covered),
         NEW message, message.n_seq \in 1 .. last
  PROVE  LET d == rx_message(FALSE, c, message)
         IN /\ ConsumerOK(d, last, covered)
            /\ ~ d.is_in_recovery => ~ c.is_in_recovery /\ d.n_seq_inc_next >= c.n_seq_inc_next
<1> DEFINE yes == TRUE
           d == rx_message(FALSE, c, message)
           z == [c EXCEPT !.is_in_recovery = yes]
           y == snapshot_sync_start(z)
           w == [c EXCEPT !.n_seq_inc_next = @ + 1, !.pushed = Append(@, message.ome_update)]
<1>1. CASE c.is_in_recovery
  <2>1. d = queue_update(FALSE, c, message)
    BY <1>1 DEF rx_message
  <2>2. c.is_in_recovery = TRUE /\ c.n_seq_inc_next \in 1 .. last + 1
    BY <1>1 DEF ConsumerOK
  <2>3. IsConsumer(c) /\ DOMAIN c.queued_incremental_updates \subseteq 1 .. last
        /\ SnapshotQueueOK(c.queued_snapshot_updates, covered)
    BY DEF ConsumerOK
  <2> QED
    BY <2>1, <2>2, <2>3, IncrementalQueued
<1>2. CASE ~ c.is_in_recovery /\ message.n_seq # c.n_seq_inc_next
  <2>1. d = queue_update(FALSE, y, message)
    BY <1>2 DEF rx_message
  <2> HIDE DEF yes
  <2>2. z = [n_seq_inc_next |-> c.n_seq_inc_next, is_in_recovery |-> yes, pushed |-> c.pushed,
             queued_snapshot_updates |-> c.queued_snapshot_updates,
             queued_incremental_updates |-> c.queued_incremental_updates]
    BY DEF ConsumerOK, IsConsumer
  <2> HIDE DEF z
  <2>3. y = [n_seq_inc_next |-> c.n_seq_inc_next, is_in_recovery |-> yes, pushed |-> c.pushed,
             queued_snapshot_updates |-> NoUpdates, queued_incremental_updates |-> NoUpdates]
    <3> DEFINE v == [z EXCEPT !.queued_snapshot_updates = NoUpdates]
    <3>1. v = [n_seq_inc_next |-> c.n_seq_inc_next, is_in_recovery |-> yes, pushed |-> c.pushed,
               queued_snapshot_updates |-> NoUpdates,
               queued_incremental_updates |-> c.queued_incremental_updates]
      BY <2>2
    <3>2. y = [v EXCEPT !.queued_incremental_updates = NoUpdates]
      BY DEF snapshot_sync_start
    <3> HIDE DEF v
    <3> QED
      BY <3>1, <3>2
  <2>4. SnapshotQueueOK(NoUpdates, covered) /\ DOMAIN NoUpdates = {}
    BY NothingQueued
  <2> HIDE DEF y
  <2>5. IsConsumer(y) /\ y.n_seq_inc_next \in 1 .. last + 1 /\ y.is_in_recovery = TRUE
    BY <2>3 DEF IsConsumer, ConsumerOK, yes
  <2>6. DOMAIN y.queued_incremental_updates \subseteq 1 .. last
        /\ SnapshotQueueOK(y.queued_snapshot_updates, covered)
    BY <2>3, <2>4
  <2> QED
    BY <2>1, <2>5, <2>6, IncrementalQueued
<1>3. CASE ~ c.is_in_recovery /\ message.n_seq = c.n_seq_inc_next
  <2>1. d = w
    BY <1>3 DEF rx_message
  <2>2. w = [n_seq_inc_next |-> c.n_seq_inc_next + 1, is_in_recovery |-> c.is_in_recovery,
             pushed |-> Append(c.pushed, message.ome_update),
             queued_snapshot_updates |-> c.queued_snapshot_updates,
             queued_incremental_updates |-> c.queued_incremental_updates]
    <3> DEFINE next == c.n_seq_inc_next + 1
               all == Append(c.pushed, message.ome_update)
               v == [c EXCEPT !.n_seq_inc_next = next]
    <3> HIDE DEF next, all
    <3>1. v = [n_seq_inc_next |-> next, is_in_recovery |-> c.is_in_recovery, pushed |-> c.pushed,
               queued_snapshot_updates |-> c.queued_snapshot_updates,
               queued_incremental_updates |-> c.queued_incremental_updates]
      BY DEF ConsumerOK, IsConsumer
    <3>2. w = [v EXCEPT !.pushed = all]
      BY <3>1 DEF ConsumerOK, IsConsumer, next, all
    <3> HIDE DEF v
    <3>3. w = [n_seq_inc_next |-> next, is_in_recovery |-> c.is_in_recovery, pushed |-> all,
               queued_snapshot_updates |-> c.queued_snapshot_updates,
               queued_incremental_updates |-> c.queued_incremental_updates]
      BY <3>1, <3>2
    <3> QED
      BY <3>3 DEF next, all
  <2>3. c.n_seq_inc_next \in 1 .. last /\ c.n_seq_inc_next + 1 \in 1 .. last + 1
    BY <1>3
  <2> HIDE DEF w
  <2>4. ConsumerOK(w, last, covered)
    BY <1>3, <2>2, <2>3 DEF ConsumerOK, IsConsumer
  <2>5. ~ w.is_in_recovery /\ w.n_seq_inc_next >= c.n_seq_inc_next
    BY <1>3, <2>2, <2>3
  <2> QED
    BY <1>3, <2>1, <2>4, <2>5
<1> QED
  BY <1>1, <1>2, <1>3

LEMMA IncrementalDatagram ==
  ASSUME NEW c, NEW last \in Nat, NEW covered \in 0 .. last, ConsumerOK(c, last, covered),
         NEW datagram, Len(datagram) \in Nat,
         \A i \in 1 .. Len(datagram) : datagram[i].n_seq \in 1 .. last
  PROVE  LET d == rx_callback(FALSE, c, datagram)
         IN /\ ConsumerOK(d, last, covered)
            /\ ~ d.is_in_recovery => ~ c.is_in_recovery /\ d.n_seq_inc_next >= c.n_seq_inc_next
<1> DEFINE no == FALSE
<1> HIDE DEF no
<1>1. PICK f : HandledAs(f, no, c, datagram)
  BY Handled
<1> DEFINE Good(d) == /\ ConsumerOK(d, last, covered)
                      /\ ~ d.is_in_recovery =>
                           ~ c.is_in_recovery /\ d.n_seq_inc_next >= c.n_seq_inc_next
           P == {i \in Nat : i <= Len(datagram) => Good(f[i])}
<1>2. 0 \in P
  <2>1. Good(c)
    BY DEF ConsumerOK
  <2>2. f[0] = c
    BY <1>1 DEF HandledAs
  <2> QED
    BY <2>1, <2>2
<1>3. ASSUME NEW k \in P
      PROVE  k + 1 \in P
  <2> SUFFICES ASSUME k + 1 <= Len(datagram)
               PROVE  Good(f[k + 1])
    OBVIOUS
  <2>1. k \in Nat /\ k + 1 \in 1 .. Len(datagram) /\ k + 1 - 1 = k /\ k <= Len(datagram)
    OBVIOUS
  <2>2. f[k + 1] = rx_message(FALSE, f[k], datagram[k + 1]) /\ Good(f[k])
    <3>1. f[k + 1] = rx_message(no, f[k], datagram[k + 1])
      BY <1>1, <2>1 DEF HandledAs
    <3>2. Good(f[k])
      BY <2>1
    <3> QED
      BY <2>1, <3>1, <3>2 DEF no
  <2>3. datagram[k + 1].n_seq \in 1 .. last
    BY <2>1
  <2> DEFINE old == f[k]
             new == rx_message(FALSE, old, datagram[k + 1])
  <2>4. ConsumerOK(old, last, covered)
    BY <2>2
  <2>5. /\ ConsumerOK(new, last, covered)
        /\ ~ new.is_in_recovery => ~ old.is_in_recovery /\ new.n_seq_inc_next >= old.n_seq_inc_next
    <3> HIDE DEF old
    <3> QED
      BY <2>3, <2>4, IncrementalMessage
  <2> HIDE DEF old, new
  <2>6. old.n_seq_inc_next \in Nat /\ new.n_seq_inc_next \in Nat /\ c.n_seq_inc_next \in Nat
    BY <2>4, <2>5 DEF ConsumerOK
  <2>7. Good(old) /\ f[k + 1] = new
    BY <2>2 DEF old, new
  <2>8. Good(new)
    BY <2>5, <2>6, <2>7
  <2> QED
    BY <2>7, <2>8
<1>4. P \in SUBSET Nat
  OBVIOUS
<1> HIDE DEF P
<1>5. P = Nat
  BY <1>2, <1>3, <1>4, Induction
<1>6. Good(f[Len(datagram)])
  BY <1>5 DEF P
<1>7. rx_callback(FALSE, c, datagram) = f[Len(datagram)]
  BY <1>1 DEF rx_callback, no, HandledAs
<1> QED
  BY <1>6, <1>7

-----------------------------------------------------------------------------
(* Of a snapshot only the end marker can end a recovery.                   *)
LEMMA PutSnapshot ==
  ASSUME NEW queue, NEW covered, SnapshotQueueOK(queue, covered),
         NEW message, message.n_seq \in Nat, message.n_seq \notin DOMAIN queue,
         message.ome_update.type = "SNAPSHOT_END" => message.ome_update.oid \in 0 .. covered
  PROVE  LET put == Put(queue, message)
         IN /\ IsFiniteSet(DOMAIN put) /\ DOMAIN put \subseteq Nat
            /\ \A n \in DOMAIN put : put[n].type = "SNAPSHOT_END" => put[n].oid \in 0 .. covered
            /\ message.ome_update.type # "SNAPSHOT_END" => ~ AtItsEnd(put)
<1> DEFINE put == Put(queue, message)
<1>1. /\ DOMAIN put = DOMAIN queue \cup {message.n_seq}
      /\ put[message.n_seq] = message.ome_update
      /\ \A n \in DOMAIN queue : put[n] = queue[n]
  BY DEF Put
<1> HIDE DEF put
<1>2. IsFiniteSet(DOMAIN put) /\ DOMAIN put \subseteq Nat
  BY <1>1, FS_AddElement DEF SnapshotQueueOK
<1>3. ASSUME NEW n \in DOMAIN put, put[n].type = "SNAPSHOT_END"
      PROVE  put[n].oid \in 0 .. covered
  <2>1. CASE n = message.n_seq
    BY <1>1, <1>3, <2>1
  <2>2. CASE n \in DOMAIN queue
    BY <1>1, <1>3, <2>2 DEF SnapshotQueueOK
  <2> QED
    BY <1>1, <2>1, <2>2
<1>4. ASSUME message.ome_update.type # "SNAPSHOT_END", AtItsEnd(put)
      PROVE  FALSE
  <2> DEFINE top == Max(DOMAIN put)
  <2>1. put[top].type = "SNAPSHOT_END" /\ DOMAIN put # {}
    BY <1>4 DEF AtItsEnd
  <2>2. top \in DOMAIN put /\ \A n \in DOMAIN put : n <= top
    BY <1>2, <2>1, MaxOf
  <2> HIDE DEF top
  <2>3. top \in DOMAIN queue
    BY <1>1, <1>4, <2>1, <2>2
  <2>4. PICK m \in DOMAIN queue : m > top
    BY <1>1, <2>1, <2>3 DEF SnapshotQueueOK
  <2>5. m \in Nat /\ top \in Nat /\ m <= top
    BY <1>1, <1>2, <2>2, <2>4
  <2> QED
    BY <2>4, <2>5
<1> QED
  BY <1>2, <1>3, <1>4 DEF put

LEMMA WithSnapshot ==
  ASSUME NEW c, IsConsumer(c), NEW queue
  PROVE  [c EXCEPT !.queued_snapshot_updates = queue] =
           [n_seq_inc_next |-> c.n_seq_inc_next, is_in_recovery |-> c.is_in_recovery,
            pushed |-> c.pushed, queued_snapshot_updates |-> queue,
            queued_incremental_updates |-> c.queued_incremental_updates]
  BY DEF IsConsumer

LEMMA SnapshotMessage ==
  ASSUME NEW c, NEW last \in Nat, NEW covered \in 0 .. last, ConsumerOK(c, last, covered),
         c.is_in_recovery, NEW message, message.n_seq \in Nat,
         message.ome_update.type = "SNAPSHOT_END" => message.ome_update.oid \in 0 .. covered
  PROVE  LET d == rx_message(TRUE, c, message)
         IN /\ Settled(c, d, last, covered)
            /\ message.ome_update.type # "SNAPSHOT_END" => d.is_in_recovery
<1> DEFINE queue == IF message.n_seq \in DOMAIN c.queued_snapshot_updates THEN NoUpdates
                    ELSE c.queued_snapshot_updates
           put == Put(queue, message)
           x == [c EXCEPT !.queued_snapshot_updates = put]
<1>1. SnapshotQueueOK(queue, covered) /\ message.n_seq \notin DOMAIN queue
  BY NothingQueued DEF ConsumerOK
<1> HIDE DEF queue
<1>2. /\ IsFiniteSet(DOMAIN put) /\ DOMAIN put \subseteq Nat
      /\ \A n \in DOMAIN put : put[n].type = "SNAPSHOT_END" => put[n].oid \in 0 .. covered
      /\ message.ome_update.type # "SNAPSHOT_END" => ~ AtItsEnd(put)
  BY <1>1, PutSnapshot
<1>3. rx_message(TRUE, c, message) = snapshot_sync_check(x)
  BY DEF rx_message, queue_update, QueueSnapshot, queue
<1> HIDE DEF put
<1>4. x = [n_seq_inc_next |-> c.n_seq_inc_next, is_in_recovery |-> c.is_in_recovery,
           pushed |-> c.pushed, queued_snapshot_updates |-> put,
           queued_incremental_updates |-> c.queued_incremental_updates]
  BY WithSnapshot DEF ConsumerOK
<1> HIDE DEF x
<1>5. c.is_in_recovery = TRUE
  BY DEF ConsumerOK
<1>6. Recovering(x, last, covered)
  BY <1>2, <1>4, <1>5 DEF Recovering, IsConsumer, ConsumerOK
<1> DEFINE d == snapshot_sync_check(x)
<1>7. Settled(x, d, last, covered) /\ (~ AtItsEnd(x.queued_snapshot_updates) => d.is_in_recovery)
  BY <1>6, SyncCheck
<1> HIDE DEF d
<1>8. Settled(c, d, last, covered)
  BY <1>4, <1>7 DEF Settled
<1>9. message.ome_update.type # "SNAPSHOT_END" => d.is_in_recovery
  BY <1>2, <1>4, <1>7
<1> QED
  BY <1>3, <1>8, <1>9 DEF d

LEMMA SnapshotDatagram ==
  ASSUME NEW c, NEW last \in Nat, NEW covered \in 0 .. last, ConsumerOK(c, last, covered),
         c.is_in_recovery, NEW datagram, SnapshotDatagramOK(datagram, covered)
  PROVE  Settled(c, rx_callback(TRUE, c, datagram), last, covered)
<1> DEFINE yes == TRUE
<1> HIDE DEF yes
<1>0. Len(datagram) \in Nat
  BY DEF SnapshotDatagramOK
<1>1. PICK f : HandledAs(f, yes, c, datagram)
  BY <1>0, Handled
<1> DEFINE Good(d, i) == /\ Settled(c, d, last, covered)
                         /\ ~ d.is_in_recovery => i = Len(datagram)
           P == {i \in Nat : i <= Len(datagram) => Good(f[i], i)}
<1>2. 0 \in P
  <2>1. Good(c, 0)
    BY DEF Settled
  <2>2. f[0] = c
    BY <1>1 DEF HandledAs
  <2> QED
    BY <2>1, <2>2
<1>3. ASSUME NEW k \in P
      PROVE  k + 1 \in P
  <2> SUFFICES ASSUME k + 1 <= Len(datagram)
               PROVE  Good(f[k + 1], k + 1)
    OBVIOUS
  <2>1. k \in Nat /\ k + 1 \in 1 .. Len(datagram) /\ k <= Len(datagram) /\ k # Len(datagram)
    BY <1>0
  <2> DEFINE old == f[k]
             message == datagram[k + 1]
             new == rx_message(TRUE, old, message)
  <2>2. f[k + 1] = new
    BY <1>1, <2>1 DEF HandledAs, yes
  <2>3. Good(old, k)
    BY <2>1
  <2>4. ConsumerOK(old, last, covered) /\ old.is_in_recovery
        /\ old.queued_incremental_updates = c.queued_incremental_updates
    <3> HIDE DEF old
    <3> QED
      BY <2>1, <2>3 DEF Settled
  <2>5. /\ message.n_seq \in Nat
        /\ message.ome_update.type = "SNAPSHOT_END" =>
             k + 1 = Len(datagram) /\ message.ome_update.oid \in 0 .. covered
    BY <2>1 DEF SnapshotDatagramOK
  <2> HIDE DEF old, message
  <2>6. /\ Settled(old, new, last, covered)
        /\ message.ome_update.type # "SNAPSHOT_END" => new.is_in_recovery
    BY <2>4, <2>5, SnapshotMessage
  <2> HIDE DEF new
  <2>7. Settled(c, new, last, covered)
    BY <2>4, <2>6 DEF Settled
  <2>8. ~ new.is_in_recovery => k + 1 = Len(datagram)
    BY <2>5, <2>6
  <2>9. Good(new, k + 1)
    BY <2>7, <2>8
  <2> QED
    BY <2>2, <2>9
<1>4. P \in SUBSET Nat
  OBVIOUS
<1> HIDE DEF P
<1>5. P = Nat
  BY <1>2, <1>3, <1>4, Induction
<1>6. Good(f[Len(datagram)], Len(datagram))
  BY <1>0, <1>5 DEF P
<1>7. rx_callback(TRUE, c, datagram) = f[Len(datagram)]
  BY <1>1 DEF rx_callback, yes, HandledAs
<1> QED
  BY <1>6, <1>7

-----------------------------------------------------------------------------
(* The datagrams of a snapshot.                                            *)

LEMMA FunctionIsSeq ==
  ASSUME NEW n \in Nat, NEW s, s = [k \in 1 .. n |-> s[k]]
  PROVE  IsSeq(s) /\ Len(s) = n
<1> DEFINE T == {s[k] : k \in 1 .. n}
<1>1. s \in [1 .. n -> T]
  OBVIOUS
<1> HIDE DEF T
<1>2. s \in Seq(T)
  BY <1>1, SeqDef
<1>3. Len(s) = n
  BY <1>1, <1>2, LenProperties
<1> QED
  BY <1>2, <1>3, IsSeqOf

Flattens(f, seqs, k) ==
  f = [i \in 1 .. k |-> IF i = 1 THEN seqs[i] ELSE f[i - 1] \o seqs[i]]

LEMMA FlattensExists ==
  ASSUME NEW seqs, NEW len \in Nat
  PROVE  \E f : Flattens(f, seqs, len)
<1> DEFINE P == {k \in Nat : \E f : Flattens(f, seqs, k)}
<1>1. 0 \in P
  <2>1. Flattens([i \in 1 .. 0 |-> seqs[i]], seqs, 0)
    BY DEF Flattens
  <2> QED
    BY <2>1
<1>2. ASSUME NEW k \in P
      PROVE  k + 1 \in P
  <2>1. PICK f : Flattens(f, seqs, k)
    OBVIOUS
  <2> DEFINE e == IF k + 1 = 1 THEN seqs[k + 1] ELSE f[k] \o seqs[k + 1]
             g == [i \in 1 .. k + 1 |-> IF i = k + 1 THEN e ELSE f[i]]
             h == [i \in 1 .. k + 1 |-> IF i = 1 THEN seqs[i] ELSE g[i - 1] \o seqs[i]]
  <2>2. k \in Nat /\ k + 1 \in Nat
    OBVIOUS
  <2>3. ASSUME NEW i \in 1 .. k + 1
        PROVE  g[i] = IF i = 1 THEN seqs[i] ELSE g[i - 1] \o seqs[i]
    <3> HIDE DEF e
    <3>1. CASE i = k + 1 /\ i # 1
      <4>1. g[i] = e /\ i - 1 = k /\ k \in 1 .. k + 1 /\ k # k + 1
        BY <2>2, <3>1
      <4>2. g[i - 1] = f[k]
        BY <4>1
      <4> QED
        BY <3>1, <4>1, <4>2 DEF e
    <3>2. CASE i = k + 1 /\ i = 1
      <4>1. g[i] = e
        BY <3>2
      <4> QED
        BY <3>2, <4>1 DEF e
    <3>3. CASE i # k + 1
      <4>1. i \in 1 .. k /\ g[i] = f[i]
        BY <2>2, <3>3
      <4>2. f[i] = IF i = 1 THEN seqs[i] ELSE f[i - 1] \o seqs[i]
        BY <2>1, <4>1 DEF Flattens
      <4>3. i # 1 => g[i - 1] = f[i - 1]
        <5>1. i # 1 => i - 1 \in 1 .. k + 1 /\ i - 1 # k + 1
          BY <2>2, <4>1
        <5> QED
          BY <5>1
      <4> HIDE DEF g
      <4> QED
        BY <4>1, <4>2, <4>3
    <3> QED
      BY <3>1, <3>2, <3>3
  <2> HIDE DEF e
  <2>4. g = h
    BY <2>3
  <2> HIDE DEF g
  <2>5. Flattens(g, seqs, k + 1)
    BY <2>4 DEF Flattens
  <2> QED
    BY <2>2, <2>5
<1>3. P \in SUBSET Nat
  OBVIOUS
<1> HIDE DEF P
<1>4. P = Nat
  BY <1>1, <1>2, <1>3, Induction
<1> QED
  BY <1>4 DEF P

(* Flattening puts nothing between the sequences.                          *)
LEMMA Flattened ==
  ASSUME NEW S, NEW seqs, Len(seqs) \in Nat \ {0}, \A i \in 1 .. Len(seqs) : seqs[i] \in Seq(S)
  PROVE  FlattenSeq(seqs) \in Seq(S)
<1> DEFINE f == CHOOSE f : Flattens(f, seqs, Len(seqs))
<1>1. Flattens(f, seqs, Len(seqs))
  BY FlattensExists
<1>2. FlattenSeq(seqs) = f[Len(seqs)]
  BY DEF FlattenSeq, Flattens
<1> HIDE DEF f
<1> DEFINE P == {k \in Nat : k + 1 <= Len(seqs) => f[k + 1] \in Seq(S)}
<1>3. 0 \in P
  <2>1. 1 \in 1 .. Len(seqs)
    OBVIOUS
  <2>2. f[1] = seqs[1]
    BY <1>1, <2>1 DEF Flattens
  <2> QED
    BY <2>1, <2>2
<1>4. ASSUME NEW k \in P
      PROVE  k + 1 \in P
  <2> SUFFICES ASSUME k + 1 + 1 <= Len(seqs)
               PROVE  f[k + 1 + 1] \in Seq(S)
    OBVIOUS
  <2> DEFINE i == k + 1 + 1
  <2>1. i \in 1 .. Len(seqs) /\ i # 1 /\ i - 1 = k + 1 /\ k + 1 <= Len(seqs) /\ k \in Nat
    OBVIOUS
  <2>2. f[k + 1] \in Seq(S)
    BY <2>1
  <2> HIDE DEF i
  <2>3. f[i] = f[i - 1] \o seqs[i]
    BY <1>1, <2>1 DEF Flattens
  <2>4. f[i - 1] \in Seq(S) /\ seqs[i] \in Seq(S)
    BY <2>1, <2>2
  <2>5. f[i] \in Seq(S)
    BY <2>3, <2>4, ConcatProperties
  <2> QED
    BY <2>5 DEF i
<1>5. P \in SUBSET Nat
  OBVIOUS
<1> HIDE DEF P
<1>6. P = Nat
  BY <1>3, <1>4, <1>5, Induction
<1>7. PICK k \in Nat : k + 1 = Len(seqs)
  <2>1. Len(seqs) - 1 \in Nat /\ Len(seqs) - 1 + 1 = Len(seqs)
    OBVIOUS
  <2> QED
    BY <2>1
<1>8. k \in P /\ k + 1 <= Len(seqs)
  BY <1>6, <1>7
<1>9. f[k + 1] \in Seq(S)
  BY <1>8 DEF P
<1> QED
  BY <1>2, <1>7, <1>9

-----------------------------------------------------------------------------
(* What a snapshot consists of between its markers.                        *)
OrderMessage(t, o) ==
  [type |-> "ADD", ticker |-> t, oid |-> o, side |-> pictures[t][o].side,
   price |-> pictures[t][o].price, qty |-> pictures[t][o].qty,
   priority |-> pictures[t][o].priority]

BookMessages ==
  {[type |-> "CLEAR", ticker |-> t] : t \in Tickers}
  \cup {OrderMessage(t, o) : t \in Tickers, o \in OrderIds}

LEMMA BookMessageTypes ==
  ASSUME NEW u \in BookMessages
  PROVE  u.type # "SNAPSHOT_END"
<1>1. CASE \E t \in Tickers : u = [type |-> "CLEAR", ticker |-> t]
  BY <1>1
<1>2. CASE \E t \in Tickers, o \in OrderIds : u = OrderMessage(t, o)
  <2>1. PICK t \in Tickers, o \in OrderIds : u = OrderMessage(t, o)
    BY <1>2
  <2> QED
    BY <2>1 DEF OrderMessage
<1> QED
  BY <1>1, <1>2 DEF BookMessages

LEMMA TickersOK ==
  IsFiniteSet(Tickers) /\ Tickers \in SUBSET Nat /\ Cardinality(Tickers) \in Nat \ {0}
<1>1. MAX_TICKERS \in Nat \ {0}
  BY MarketDataAssumption
<1> DEFINE a == 0
           b == MAX_TICKERS - 1
<1>2. a \in Int /\ b \in Int /\ ~ (a > b)
  BY <1>1
<1> HIDE DEF a, b
<1>3. IsFiniteSet(a .. b) /\ Cardinality(a .. b) = b - a + 1
  BY <1>2, FS_Interval
<1>4. Tickers = a .. b
  BY DEF a, b, Tickers
<1>5. b - a + 1 = MAX_TICKERS
  BY <1>1 DEF a, b
<1> QED
  BY <1>1, <1>3, <1>4, <1>5 DEF Tickers

LEMMA OfOneTicker ==
  ASSUME PicturesOK, NEW t \in Tickers
  PROVE  TickerMessages(t, pictures[t]) \in Seq(BookMessages)
<1> DEFINE oids == Ascending(DOMAIN pictures[t])
           n == Cardinality(DOMAIN pictures[t])
           orders == [i \in DOMAIN oids |-> OrderMessage(t, oids[i])]
           clear == [type |-> "CLEAR", ticker |-> t]
<1>1. IsFiniteSet(DOMAIN pictures[t]) /\ DOMAIN pictures[t] \subseteq OrderIds
      /\ DOMAIN pictures[t] \in SUBSET Nat
  BY MarketDataAssumption DEF PicturesOK
<1>2. DOMAIN oids = 1 .. n /\ n \in Nat
  BY <1>1, AscendingDomain
<1>3. \A i \in 1 .. n : oids[i] \in OrderIds
  BY <1>1, AscendingMember
<1> HIDE DEF n
<1>4. TickerMessages(t, pictures[t]) = <<clear>> \o orders
  BY DEF TickerMessages, OrderMessage
<1> HIDE DEF oids
<1>5. orders \in Seq(BookMessages)
  <2>1. \A i \in 1 .. n : OrderMessage(t, oids[i]) \in BookMessages
    BY <1>3 DEF BookMessages
  <2>2. orders \in [1 .. n -> BookMessages]
    BY <1>2, <2>1
  <2> HIDE DEF orders
  <2> QED
    BY <1>2, <2>2, SeqDef
<1>6. clear \in BookMessages
  BY DEF BookMessages
<1> HIDE DEF orders, clear
<1>7. <<clear>> \in Seq(BookMessages)
  BY <1>6
<1> QED
  BY <1>4, <1>5, <1>7, ConcatProperties

LEMMA OfAllTickers ==
  ASSUME PicturesOK
  PROVE  FlattenSeq([i \in DOMAIN TickerSeq |->
                       TickerMessages(TickerSeq[i], pictures[TickerSeq[i]])]) \in Seq(BookMessages)
<1> DEFINE n == Cardinality(Tickers)
           seqs == [i \in DOMAIN TickerSeq |-> TickerMessages(TickerSeq[i], pictures[TickerSeq[i]])]
<1>1. DOMAIN TickerSeq = 1 .. n /\ n \in Nat \ {0}
  BY TickersOK, AscendingDomain DEF TickerSeq
<1>2. \A i \in 1 .. n : TickerSeq[i] \in Tickers
  BY TickersOK, AscendingMember DEF TickerSeq
<1> HIDE DEF n
<1>3. \A i \in 1 .. n : seqs[i] \in Seq(BookMessages)
  BY <1>1, <1>2, OfOneTicker
<1>4. Len(seqs) = n
  <2>1. seqs = [i \in 1 .. n |-> seqs[i]]
    BY <1>1
  <2> HIDE DEF seqs
  <2> QED
    BY <1>1, <2>1, FunctionIsSeq
<1> HIDE DEF seqs
<1>5. FlattenSeq(seqs) \in Seq(BookMessages)
  BY <1>1, <1>3, <1>4, Flattened
<1> QED
  BY <1>5 DEF seqs

(* Only the last message is an end marker.                                 *)
EndsWith(messages, covered) ==
  \A i \in 1 .. Len(messages) :
    /\ messages[i].n_seq \in Nat
    /\ messages[i].ome_update.type = "SNAPSHOT_END" =>
         i = Len(messages) /\ messages[i].ome_update.oid = covered

LEMMA SnapshotMessagesOK ==
  ASSUME PicturesOK, n_seq_last \in Nat
  PROVE  LET messages == SnapshotMessages(TickerSeq, pictures, n_seq_last)
         IN /\ Len(messages) \in Nat \ {0} /\ DOMAIN messages = 1 .. Len(messages)
            /\ EndsWith(messages, n_seq_last)
<1> DEFINE start == [type |-> "SNAPSHOT_START", oid |-> n_seq_last]
           end == [type |-> "SNAPSHOT_END", oid |-> n_seq_last]
           books == FlattenSeq([i \in DOMAIN TickerSeq |->
                                  TickerMessages(TickerSeq[i], pictures[TickerSeq[i]])])
           updates == <<start>> \o books \o <<end>>
           messages == [i \in DOMAIN updates |-> [n_seq |-> i - 1, ome_update |-> updates[i]]]
           S == BookMessages \cup {start, end}
<1>1. books \in Seq(BookMessages)
  BY OfAllTickers
<1>2. SnapshotMessages(TickerSeq, pictures, n_seq_last) = messages
  BY DEF SnapshotMessages
<1> HIDE DEF books
<1>3. books \in Seq(S) /\ Len(books) \in Nat
  BY <1>1, SeqMonotonic, LenProperties
<1>4. start \in S /\ end \in S
  OBVIOUS
<1> HIDE DEF start, end, S
<1>5. <<start>> \in Seq(S) /\ <<end>> \in Seq(S) /\ Len(<<start>>) = 1 /\ Len(<<end>>) = 1
      /\ <<start>>[1] = start /\ <<end>>[1] = end
  BY <1>4
<1> DEFINE first == <<start>>
           most == first \o books
           last == <<end>>
<1> HIDE DEF first, last
<1>6. /\ most \in Seq(S) /\ Len(most) = 1 + Len(books)
      /\ \A i \in 1 .. 1 + Len(books) : most[i] = IF i <= 1 THEN first[i] ELSE books[i - 1]
  BY <1>3, <1>5, ConcatProperties DEF first
<1> HIDE DEF most
<1>7. /\ most \o last \in Seq(S) /\ Len(most \o last) = Len(most) + 1
      /\ \A i \in 1 .. Len(most) + 1 :
           (most \o last)[i] = IF i <= Len(most) THEN most[i] ELSE last[i - Len(most)]
  BY <1>5, <1>6, ConcatProperties DEF last
<1>8. updates = most \o last
  BY DEF most, last, first
<1> HIDE DEF updates
<1>9. DOMAIN updates = 1 .. Len(books) + 2 /\ Len(updates) = Len(books) + 2
  BY <1>3, <1>6, <1>7, <1>8, LenProperties
<1>10. Len(messages) = Len(books) + 2 /\ DOMAIN messages = 1 .. Len(books) + 2
  <2>1. messages = [i \in 1 .. Len(books) + 2 |-> messages[i]]
    BY <1>9
  <2>2. Len(books) + 2 \in Nat
    BY <1>3
  <2>3. DOMAIN messages = 1 .. Len(books) + 2
    BY <1>9
  <2> HIDE DEF messages
  <2> QED
    BY <2>1, <2>2, <2>3, FunctionIsSeq
<1>11. ASSUME NEW i \in 1 .. Len(books) + 2
       PROVE  /\ messages[i].n_seq \in Nat
              /\ messages[i].ome_update.type = "SNAPSHOT_END" =>
                   i = Len(books) + 2 /\ messages[i].ome_update.oid = n_seq_last
  <2>1. messages[i].n_seq = i - 1 /\ messages[i].ome_update = updates[i]
    BY <1>9
  <2> HIDE DEF messages
  <2>2. i - 1 \in Nat
    BY <1>3
  <2>3. CASE i = 1
    <3>1. i \in 1 .. Len(most) + 1 /\ i <= Len(most) /\ i \in 1 .. 1 + Len(books)
      BY <1>3, <1>6, <2>3
    <3>2. updates[i] = start
      BY <1>5, <1>6, <1>7, <1>8, <2>3, <3>1 DEF first
    <3> QED
      BY <2>1, <2>2, <3>2 DEF start
  <2>4. CASE i > 1 /\ i < Len(books) + 2
    <3>1. i \in 1 .. Len(most) + 1 /\ i <= Len(most) /\ i \in 1 .. 1 + Len(books) /\ ~ (i <= 1)
          /\ i - 1 \in 1 .. Len(books)
      BY <1>3, <1>6, <2>4
    <3>2. updates[i] = books[i - 1]
      BY <1>6, <1>7, <1>8, <3>1
    <3>3. books[i - 1] \in BookMessages
      BY <1>1, <3>1, ElementOfSeq
    <3>4. books[i - 1].type # "SNAPSHOT_END"
      BY <3>3, BookMessageTypes
    <3> QED
      BY <2>1, <2>2, <3>2, <3>4
  <2>5. CASE i = Len(books) + 2
    <3>1. i \in 1 .. Len(most) + 1 /\ ~ (i <= Len(most)) /\ i - Len(most) = 1
      BY <1>3, <1>6, <2>5
    <3>2. updates[i] = end
      BY <1>5, <1>7, <1>8, <3>1 DEF last
    <3> QED
      BY <2>1, <2>2, <2>5, <3>2 DEF end
  <2>6. i = 1 \/ (i > 1 /\ i < Len(books) + 2) \/ i = Len(books) + 2
    BY <1>3
  <2> QED
    BY <2>3, <2>4, <2>5, <2>6
<1> HIDE DEF messages
<1>12. EndsWith(messages, n_seq_last)
  BY <1>10, <1>11 DEF EndsWith
<1> QED
  BY <1>2, <1>3, <1>10, <1>12

LEMMA DatagramsOK ==
  ASSUME NEW messages, Len(messages) \in Nat \ {0}, DOMAIN messages = 1 .. Len(messages),
         NEW covered \in Nat, EndsWith(messages, covered)
  PROVE  LET datagrams == Datagrams(messages)
         IN IsSeq(datagrams) /\ \A d \in Of(datagrams) : SnapshotDatagramOK(d, covered)
<1> DEFINE E == {i \in DOMAIN messages : messages[i].ome_update.type = "ADD"} \cup {Len(messages)}
           ends == Ascending(E)
           n == Cardinality(E)
           from(k) == IF k = 1 THEN 1 ELSE ends[k - 1] + 1
           datagrams == [k \in DOMAIN ends |-> SubSeq(messages, from(k), ends[k])]
<1>1. E \in SUBSET (1 .. Len(messages)) /\ E \in SUBSET Nat
  OBVIOUS
<1>2. IsFiniteSet(E)
  <2>1. IsFiniteSet(1 .. Len(messages))
    BY FS_Interval
  <2> HIDE DEF E
  <2> QED
    BY <1>1, <2>1, FS_Subset
<1>3. Datagrams(messages) = datagrams
  BY DEF Datagrams
<1> HIDE DEF E
<1>4. DOMAIN ends = 1 .. n /\ n \in Nat
  BY <1>2, AscendingDomain
<1>5. \A k \in 1 .. n : ends[k] \in 1 .. Len(messages)
  BY <1>1, <1>2, AscendingMember
<1> HIDE DEF ends, n
<1>6. ASSUME NEW k \in 1 .. n
      PROVE  SnapshotDatagramOK(datagrams[k], covered)
  <2> DEFINE a == from(k)
             b == ends[k]
             d == SubSeq(messages, a, b)
             S == {messages[i] : i \in a .. b}
  <2>1. b \in 1 .. Len(messages) /\ a \in Int /\ b \in Int /\ a >= 1
    <3>1. k = 1 \/ k - 1 \in 1 .. n
      BY <1>4
    <3>2. k # 1 => ends[k - 1] \in 1 .. Len(messages)
      BY <1>5, <3>1
    <3> QED
      BY <1>5, <3>2
  <2>2. datagrams[k] = d
    BY <1>4
  <2> HIDE DEF a, b, datagrams
  <2>3. \A i \in a .. b : messages[i] \in S
    OBVIOUS
  <2> HIDE DEF S
  <2>4. /\ Len(d) = IF a <= b THEN b - a + 1 ELSE 0
        /\ \A i \in 1 .. b - a + 1 : d[i] = messages[a + i - 1]
    BY <2>1, <2>3, SubSeqProperties
  <2> HIDE DEF d
  <2>5. Len(d) \in Nat
    BY <2>1, <2>4
  <2>6. ASSUME NEW i \in 1 .. Len(d)
        PROVE  /\ d[i].n_seq \in Nat
               /\ d[i].ome_update.type = "SNAPSHOT_END" =>
                    i = Len(d) /\ d[i].ome_update.oid \in 0 .. covered
    <3>1. Len(d) = b - a + 1 /\ a <= b
      BY <2>1, <2>4, <2>5
    <3> DEFINE j == a + i - 1
    <3>2. j \in 1 .. Len(messages) /\ (j = Len(messages) => i = Len(d))
      BY <2>1, <3>1
    <3>3. d[i] = messages[j]
      BY <2>4, <3>1
    <3> HIDE DEF j
    <3>4. covered \in 0 .. covered
      OBVIOUS
    <3> QED
      BY <3>2, <3>3, <3>4 DEF EndsWith
  <2> QED
    BY <2>2, <2>5, <2>6 DEF SnapshotDatagramOK
<1>7. IsSeq(datagrams) /\ Len(datagrams) = n
  <2>1. datagrams = [k \in 1 .. n |-> datagrams[k]]
    BY <1>4
  <2> HIDE DEF datagrams
  <2> QED
    BY <1>4, <2>1, FunctionIsSeq
<1> HIDE DEF datagrams
<1>8. \A d \in Of(datagrams) : SnapshotDatagramOK(d, covered)
  BY <1>6, <1>7 DEF Of
<1> QED
  BY <1>3, <1>7, <1>8

LEMMA SnapshotOK ==
  ASSUME PicturesOK, n_seq_last \in Nat
  PROVE  LET datagrams == Datagrams(SnapshotMessages(TickerSeq, pictures, n_seq_last))
         IN IsSeq(datagrams) /\ \A d \in Of(datagrams) : SnapshotDatagramOK(d, n_seq_last)
<1> DEFINE messages == SnapshotMessages(TickerSeq, pictures, n_seq_last)
<1>1. /\ Len(messages) \in Nat \ {0} /\ DOMAIN messages = 1 .. Len(messages)
      /\ EndsWith(messages, n_seq_last)
  BY SnapshotMessagesOK
<1> HIDE DEF messages
<1>2. IsSeq(Datagrams(messages))
      /\ \A d \in Of(Datagrams(messages)) : SnapshotDatagramOK(d, n_seq_last)
  BY <1>1, DatagramsOK
<1> QED
  BY <1>2 DEF messages

-----------------------------------------------------------------------------
(* The invariant holds at the start.                                       *)
LEMMA AtTheStart == Init => IInv
<1> SUFFICES ASSUME Init
             PROVE  IInv
  OBVIOUS
<1>1. IsSeq(<<>>) /\ Of(<<>>) = {} /\ Len(<<>>) = 0
  BY EmptyIsSeq
<1>2. EngineOK /\ NumbersOK /\ PublisherOK
  BY <1>1 DEF Init, EngineOK, NumbersOK, PublisherOK
<1>3. HandedOverOK
  BY <1>1 DEF Init, HandedOverOK
<1>4. PicturesOK
  <2>1. pictures = [t \in Tickers |-> [o \in {} |-> 0]]
    BY DEF Init, EmptyBooks
  <2>2. \A t \in Tickers : pictures[t] = [o \in {} |-> 0] /\ DOMAIN pictures[t] = {}
    BY <2>1
  <2>3. IsFiniteSet({})
    BY FS_EmptySet
  <2>4. pictures = [t \in Tickers |-> pictures[t]]
    BY <2>1
  <2> QED
    BY <2>2, <2>3, <2>4 DEF PicturesOK
<1>5. IncrementalOK /\ SnapshotsOK
  BY <1>1 DEF Init, IncrementalOK, SnapshotsOK
<1>6. ClientOK
  <2>1. ConsumerOK(NewConsumer, 0, 0)
    BY NewConsumerOK
  <2>2. n_seq_next - 1 = 0 /\ n_seq_last = 0 /\ mdc = NewConsumer /\ position = 0
    BY DEF Init
  <2>3. NewConsumer.n_seq_inc_next - 1 = 0
    BY DEF NewConsumer
  <2> QED
    BY <2>1, <2>2, <2>3 DEF ClientOK
<1> QED
  BY <1>2, <1>3, <1>4, <1>5, <1>6 DEF IInv

(* Each part of it changes only with the variables it is about.            *)
LEMMA Frame ==
  ASSUME IInv
  PROVE  /\ UNCHANGED sent_updates => EngineOK'
         /\ UNCHANGED <<sent_updates, n_seq_next, n_seq_last>> => NumbersOK'
         /\ UNCHANGED <<sent_updates, n_seq_next>> => Published' = Published
         /\ UNCHANGED tx_buffer /\ Published \subseteq Published' => PublisherOK'
         /\ UNCHANGED <<tx_snapshot_updates, n_seq_next, n_seq_last>>
            /\ Published \subseteq Published' => HandedOverOK'
         /\ UNCHANGED pictures => PicturesOK'
         /\ UNCHANGED incremental /\ Published \subseteq Published' => IncrementalOK'
         /\ UNCHANGED <<publishing, snapshots, n_seq_last>> => SnapshotsOK'
         /\ UNCHANGED <<mdc, position, n_seq_next, n_seq_last>> => ClientOK'
<1>1. UNCHANGED sent_updates => EngineOK'
  BY DEF IInv, EngineOK
<1>2. UNCHANGED <<sent_updates, n_seq_next, n_seq_last>> => NumbersOK'
  BY DEF IInv, NumbersOK
<1>3. UNCHANGED <<sent_updates, n_seq_next>> => Published' = Published
  BY DEF Published
<1>4. UNCHANGED tx_buffer /\ Published \subseteq Published' => PublisherOK'
  BY DEF IInv, PublisherOK
<1>5. UNCHANGED <<tx_snapshot_updates, n_seq_next, n_seq_last>>
        /\ Published \subseteq Published' => HandedOverOK'
  BY DEF IInv, HandedOverOK
<1>6. UNCHANGED pictures => PicturesOK'
  BY DEF IInv, PicturesOK
<1>7. UNCHANGED incremental /\ Published \subseteq Published' => IncrementalOK'
  <2>1. IncrementalOK
    BY DEF IInv
  <2> SUFFICES ASSUME incremental' = incremental, Published \subseteq Published'
               PROVE  /\ IsSeq(incremental')
                      /\ \A d \in Of(incremental') : IsSeq(d) /\ Of(d) \subseteq Published'
    BY DEF IncrementalOK
  <2> QED
    BY <2>1 DEF IncrementalOK
<1>8. UNCHANGED <<publishing, snapshots, n_seq_last>> => SnapshotsOK'
  BY DEF IInv, SnapshotsOK
<1>9. UNCHANGED <<mdc, position, n_seq_next, n_seq_last>> => ClientOK'
  BY DEF IInv, ClientOK
<1> QED
  BY <1>1, <1>2, <1>3, <1>4, <1>5, <1>6, <1>7, <1>8, <1>9

(* As more is published or covered, what was right remains right.          *)
LEMMA ConsumerGrows ==
  ASSUME NEW c, NEW last \in Nat, NEW covered \in 0 .. last, ConsumerOK(c, last, covered),
         NEW next_last \in Nat, last <= next_last,
         NEW next_covered \in Nat, covered <= next_covered
  PROVE  ConsumerOK(c, next_last, next_covered)
<1>1. c.n_seq_inc_next \in 1 .. next_last + 1
  BY DEF ConsumerOK
<1>2. DOMAIN c.queued_incremental_updates \subseteq 1 .. next_last
  BY DEF ConsumerOK
<1>3. SnapshotQueueOK(c.queued_snapshot_updates, next_covered)
  <2> DEFINE q == c.queued_snapshot_updates
  <2>1. SnapshotQueueOK(q, covered)
    BY DEF ConsumerOK
  <2> HIDE DEF q
  <2>2. ASSUME NEW n \in DOMAIN q, q[n].type = "SNAPSHOT_END"
        PROVE  q[n].oid \in 0 .. next_covered /\ \E m \in DOMAIN q : m > n
    <3>1. q[n].oid \in 0 .. covered /\ \E m \in DOMAIN q : m > n
      BY <2>1, <2>2 DEF SnapshotQueueOK
    <3> QED
      BY <3>1
  <2>3. SnapshotQueueOK(q, next_covered)
    BY <2>1, <2>2 DEF SnapshotQueueOK
  <2> QED
    BY <2>3 DEF q
<1> QED
  BY <1>1, <1>2, <1>3 DEF ConsumerOK

LEMMA DatagramGrows ==
  ASSUME NEW datagram, NEW covered \in Nat, SnapshotDatagramOK(datagram, covered)
  PROVE  SnapshotDatagramOK(datagram, covered + 1)
<1>1. 0 .. covered \subseteq 0 .. covered + 1
  OBVIOUS
<1> QED
  BY <1>1 DEF SnapshotDatagramOK

LEMMA Numbers ==
  ASSUME IInv
  PROVE  /\ n_seq_next \in Nat \ {0} /\ n_seq_last \in Nat /\ n_seq_next - 1 \in Nat
         /\ n_seq_last \in 0 .. n_seq_next - 1 /\ Len(sent_updates) \in Nat
         /\ n_seq_next - 1 <= Len(sent_updates)
<1>1. Len(sent_updates) \in Nat
  BY SeqMembers DEF IInv, EngineOK
<1> QED
  BY <1>1 DEF IInv, NumbersOK

-----------------------------------------------------------------------------
(* The matching engine and the publisher.                                  *)
LEMMA EngineSendsKeeps ==
  ASSUME IInv, NEW t \in Tickers, NEW u \in EngineUpdates(t), EngineSends(u)
  PROVE  IInv'
<1>1. sent_updates' = Append(sent_updates, u)
      /\ UNCHANGED <<n_seq_next, n_seq_last, tx_buffer, tx_snapshot_updates, pictures, publishing,
                     incremental, snapshots, mdc, position>>
  BY DEF EngineSends, publisherVars, synthesizerVars, clientVars
<1>2. EngineUpdateOK(u)
  <2> DEFINE book == Books(Len(sent_updates))[t]
             added == {sent_updates[i].oid : i \in {j \in DOMAIN sent_updates :
                         sent_updates[j].type = "ADD" /\ sent_updates[j].ticker = t}}
             free == {oid \in OrderIds : \A a \in added : a < oid}
             adds == {OrderUpdate("ADD", t, o, c) : o \in free, c \in Contents}
             cancels == {OrderUpdate("CANCEL", t, o, book[o]) : o \in DOMAIN book}
             trades == {[type |-> "TRADE", ticker |-> t]}
             modifies == UNION {{OrderUpdate("MODIFY", t, o, [book[o] EXCEPT !.qty = q]) :
                                   q \in 1 .. book[o].qty - 1} : o \in DOMAIN book}
  <2>1. EngineUpdates(t) = adds \cup cancels \cup trades \cup modifies
    BY DEF EngineUpdates
  <2> HIDE DEF book, added
  <2>2. CASE u \in adds
    <3> HIDE DEF free
    <3>1. PICK o \in free, c \in Contents : u = OrderUpdate("ADD", t, o, c)
      BY <2>2
    <3>2. o \in OrderIds
      BY DEF free
    <3> QED
      BY <3>1, <3>2 DEF EngineUpdateOK, OrderUpdate
  <2>3. CASE u \in cancels
    <3>1. PICK o \in DOMAIN book : u = OrderUpdate("CANCEL", t, o, book[o])
      BY <2>3, Zenon
    <3> QED
      BY <3>1 DEF EngineUpdateOK, OrderUpdate
  <2>4. CASE u \in trades
    BY <2>4 DEF EngineUpdateOK
  <2>5. CASE u \in modifies
    <3>1. PICK o \in DOMAIN book : \E q \in 1 .. book[o].qty - 1 :
            u = OrderUpdate("MODIFY", t, o, [book[o] EXCEPT !.qty = q])
      BY <2>5, Zenon
    <3>2. PICK content : u = OrderUpdate("MODIFY", t, o, content)
      BY <3>1, Zenon
    <3> QED
      BY <3>2 DEF EngineUpdateOK, OrderUpdate
  <2> HIDE DEF adds, cancels, trades, modifies
  <2> QED
    BY <2>1, <2>2, <2>3, <2>4, <2>5
<1>3. /\ IsSeq(sent_updates') /\ Of(sent_updates') = Of(sent_updates) \cup {u}
      /\ Len(sent_updates') = Len(sent_updates) + 1
      /\ \A i \in 1 .. Len(sent_updates) : sent_updates'[i] = sent_updates[i]
  BY <1>1, AppendIsSeq DEF IInv, EngineOK
<1>4. EngineOK'
  BY <1>2, <1>3 DEF IInv, EngineOK, EngineUpdateOK
<1>5. NumbersOK'
  BY <1>1, <1>3, Numbers DEF NumbersOK
<1>6. Published' = Published
  <2>1. \A n \in 1 .. n_seq_next - 1 : sent_updates'[n] = sent_updates[n]
    BY <1>3, Numbers
  <2> QED
    BY <1>1, <2>1 DEF Published
<1> QED
  BY <1>1, <1>4, <1>5, <1>6, Frame DEF IInv

LEMMA PublishUpdateKeeps == IInv /\ PublishUpdate => IInv'
<1> SUFFICES ASSUME IInv, PublishUpdate
             PROVE  IInv'
  OBVIOUS
<1> DEFINE message == [n_seq |-> n_seq_next, ome_update |-> sent_updates[n_seq_next]]
<1>1. /\ n_seq_next <= Len(sent_updates)
      /\ tx_buffer' = Append(tx_buffer, message)
      /\ tx_snapshot_updates' = Append(tx_snapshot_updates, message)
      /\ n_seq_next' = n_seq_next + 1
      /\ UNCHANGED <<sent_updates, n_seq_last, pictures, publishing, incremental, snapshots, mdc,
                     position>>
  BY DEF PublishUpdate, synthesizerVars, clientVars
<1>2. Published \subseteq Published' /\ message \in Published'
  <2>1. Published' = {[n_seq |-> n, ome_update |-> sent_updates[n]] : n \in 1 .. n_seq_next}
    <3>1. n_seq_next' - 1 = n_seq_next
      BY <1>1, Numbers
    <3> QED
      BY <1>1, <3>1 DEF Published
  <2>2. n_seq_next \in 1 .. n_seq_next /\ 1 .. n_seq_next - 1 \subseteq 1 .. n_seq_next
    BY Numbers
  <2> QED
    BY <2>1, <2>2 DEF Published
<1>3. message.n_seq = n_seq_next
  OBVIOUS
<1> HIDE DEF message
<1>4. NumbersOK'
  BY <1>1, Numbers DEF NumbersOK
<1>5. PublisherOK'
  <2>1. IsSeq(tx_buffer') /\ Of(tx_buffer') = Of(tx_buffer) \cup {message}
    BY <1>1, AppendIsSeq DEF IInv, PublisherOK
  <2> QED
    BY <1>2, <2>1 DEF IInv, PublisherOK
<1>6. HandedOverOK'
  <2> DEFINE s == tx_snapshot_updates
  <2>1. /\ IsSeq(s') /\ Of(s') = Of(s) \cup {message}
        /\ Len(s') = Len(s) + 1 /\ Len(s) \in Nat
        /\ \A i \in 1 .. Len(s) : s'[i] = s[i]
        /\ s'[Len(s) + 1] = message
    BY <1>1, AppendIsSeq DEF IInv, HandedOverOK
  <2>2. n_seq_last + Len(s) = n_seq_next - 1 /\ \A i \in 1 .. Len(s) : s[i].n_seq = n_seq_last + i
    BY DEF IInv, HandedOverOK
  <2>3. n_seq_last' + Len(s') = n_seq_next' - 1
    BY <1>1, <2>1, <2>2, Numbers
  <2>4. ASSUME NEW i \in 1 .. Len(s')
        PROVE  s'[i].n_seq = n_seq_last' + i
    <3>1. CASE i \in 1 .. Len(s)
      BY <1>1, <2>1, <2>2, <3>1
    <3>2. CASE i = Len(s) + 1
      BY <1>1, <1>3, <2>1, <2>2, <3>2, Numbers
    <3> QED
      BY <2>1, <3>1, <3>2
  <2>5. Of(s') \subseteq Published'
    BY <1>2, <2>1 DEF IInv, HandedOverOK
  <2> QED
    BY <2>1, <2>3, <2>4, <2>5 DEF HandedOverOK
<1>7. ClientOK'
  <2>1. ConsumerOK(mdc, n_seq_next - 1, n_seq_last)
    BY DEF IInv, ClientOK
  <2>2. n_seq_next' - 1 \in Nat /\ n_seq_next - 1 <= n_seq_next' - 1 /\ n_seq_last <= n_seq_last
        /\ n_seq_next - 1 \in Nat /\ n_seq_last \in 0 .. n_seq_next - 1 /\ n_seq_last \in Nat
    BY <1>1, Numbers
  <2> DEFINE last == n_seq_next - 1
             next_last == n_seq_next' - 1
  <2> HIDE DEF last, next_last
  <2>3. ConsumerOK(mdc, next_last, n_seq_last)
    BY <2>1, <2>2, ConsumerGrows DEF last, next_last
  <2> QED
    BY <1>1, <2>3 DEF IInv, ClientOK, next_last
<1> QED
  BY <1>1, <1>2, <1>4, <1>5, <1>6, <1>7, Frame DEF IInv

LEMMA TransmitKeeps ==
  ASSUME IInv, Transmit
  PROVE  /\ EngineOK' /\ NumbersOK' /\ PublisherOK' /\ HandedOverOK' /\ PicturesOK' /\ SnapshotsOK'
         /\ ClientOK' /\ Published' = Published
<1>1. /\ tx_buffer' = <<>>
      /\ UNCHANGED <<sent_updates, n_seq_next, tx_snapshot_updates, pictures, n_seq_last,
                     publishing, snapshots, mdc, position>>
  BY DEF Transmit, synthesizerVars, clientVars
<1>2. PublisherOK'
  BY <1>1, EmptyIsSeq DEF PublisherOK
<1> QED
  BY <1>1, <1>2, Frame

LEMMA SendIncrementalKeeps == IInv /\ SendIncremental => IInv'
<1> SUFFICES ASSUME IInv, SendIncremental
             PROVE  IInv'
  OBVIOUS
<1>1. incremental' = Append(incremental, tx_buffer) /\ Transmit
  BY DEF SendIncremental
<1>2. IsSeq(incremental') /\ Of(incremental') = Of(incremental) \cup {tx_buffer}
  BY <1>1, AppendIsSeq DEF IInv, IncrementalOK
<1>3. Published' = Published
  BY <1>1, TransmitKeeps
<1>4. \A d \in Of(incremental') : IsSeq(d) /\ Of(d) \subseteq Published'
  BY <1>2, <1>3 DEF IInv, IncrementalOK, PublisherOK
<1>5. IncrementalOK'
  BY <1>2, <1>4 DEF IncrementalOK
<1> QED
  BY <1>1, <1>5, TransmitKeeps DEF IInv

LEMMA LoseIncrementalKeeps == IInv /\ LoseIncremental => IInv'
<1> SUFFICES ASSUME IInv, LoseIncremental
             PROVE  IInv'
  OBVIOUS
<1>1. UNCHANGED incremental /\ Transmit
  BY DEF LoseIncremental
<1>2. IncrementalOK'
  BY <1>1, TransmitKeeps, Frame
<1> QED
  BY <1>1, <1>2, TransmitKeeps DEF IInv

-----------------------------------------------------------------------------
(* The synthesizer.                                                        *)
LEMMA AppliedPictures ==
  ASSUME PicturesOK, NEW u, EngineUpdateOK(u)
  PROVE  LET after == Applied(pictures, u)
         IN /\ after = [t \in Tickers |-> after[t]]
            /\ \A t \in Tickers : IsFiniteSet(DOMAIN after[t]) /\ DOMAIN after[t] \subseteq OrderIds
<1> DEFINE k == u.ticker
           picture == add_to_snapshot(pictures[k], u)
           after == [pictures EXCEPT ![k] = picture]
<1>1. /\ pictures = [t \in Tickers |-> pictures[t]]
      /\ \A t \in Tickers : IsFiniteSet(DOMAIN pictures[t]) /\ DOMAIN pictures[t] \subseteq OrderIds
  BY DEF PicturesOK
<1>2. u.type \in {"ADD", "MODIFY", "CANCEL", "TRADE"} /\ k \in Tickers
      /\ (u.type = "ADD" => u.oid \in OrderIds)
  BY DEF EngineUpdateOK
<1>3. CASE u.type = "TRADE"
  BY <1>1, <1>3 DEF Applied
<1>4. CASE u.type # "TRADE"
  <2>1. Applied(pictures, u) = after
    BY <1>2, <1>4 DEF Applied
  <2>2. IsFiniteSet(DOMAIN picture) /\ DOMAIN picture \subseteq OrderIds
    <3> DEFINE old == pictures[k]
    <3>1. IsFiniteSet(DOMAIN old) /\ DOMAIN old \subseteq OrderIds
      BY <1>1, <1>2
    <3> HIDE DEF old
    <3>2. CASE u.type = "ADD"
      <4>1. DOMAIN add_to_snapshot(old, u) = DOMAIN old \cup {u.oid}
        BY <3>2 DEF add_to_snapshot, Picture
      <4>2. IsFiniteSet(DOMAIN old \cup {u.oid})
        BY <3>1, FS_AddElement
      <4> QED
        BY <1>2, <3>1, <3>2, <4>1, <4>2 DEF old
    <3>3. CASE u.type = "MODIFY"
      <4>1. DOMAIN add_to_snapshot(old, u) = DOMAIN old
        BY <3>3 DEF add_to_snapshot
      <4> QED
        BY <3>1, <4>1 DEF old
    <3>4. CASE u.type = "CANCEL"
      <4>1. DOMAIN add_to_snapshot(old, u) = DOMAIN old \ {u.oid}
        BY <3>4 DEF add_to_snapshot
      <4>2. IsFiniteSet(DOMAIN old \ {u.oid})
        BY <3>1, FS_RemoveElement
      <4> QED
        BY <3>1, <4>1, <4>2 DEF old
    <3> QED
      BY <1>2, <1>4, <3>2, <3>3, <3>4
  <2> HIDE DEF picture
  <2>3. after = [t \in Tickers |-> IF t = k THEN picture ELSE pictures[t]]
    BY <1>1
  <2> HIDE DEF after, k
  <2>4. after = [t \in Tickers |-> after[t]]
    BY <2>3
  <2>5. \A t \in Tickers : after[t] = IF t = k THEN picture ELSE pictures[t]
    BY <2>3
  <2> QED
    BY <1>1, <2>1, <2>2, <2>4, <2>5
<1> QED
  BY <1>3, <1>4

LEMMA AddToSnapshotKeeps == IInv /\ AddToSnapshot => IInv'
<1> SUFFICES ASSUME IInv, AddToSnapshot
             PROVE  IInv'
  OBVIOUS
<1> DEFINE s == tx_snapshot_updates
           message == Head(s)
<1>1. /\ s # <<>> /\ s' = Tail(s)
      /\ pictures' = Applied(pictures, message.ome_update)
      /\ n_seq_last' = message.n_seq
      /\ UNCHANGED <<sent_updates, n_seq_next, tx_buffer, publishing, incremental, snapshots, mdc,
                     position>>
  BY DEF AddToSnapshot, publisherVars, clientVars
<1>2. /\ message \in Of(s) /\ IsSeq(Tail(s)) /\ Of(Tail(s)) \subseteq Of(s)
      /\ Len(s) \in Nat \ {0} /\ Len(Tail(s)) = Len(s) - 1 /\ message = s[1]
      /\ \A i \in 1 .. Len(s) - 1 : Tail(s)[i] = s[i + 1]
  BY <1>1, TailIsSeq DEF IInv, HandedOverOK
<1>3. /\ n_seq_last + Len(s) = n_seq_next - 1
      /\ \A i \in 1 .. Len(s) : s[i].n_seq = n_seq_last + i
      /\ Of(s) \subseteq Published
  BY DEF IInv, HandedOverOK
<1>4. n_seq_last' = n_seq_last + 1
  <2>1. 1 \in 1 .. Len(s)
    BY <1>2
  <2> QED
    BY <1>1, <1>2, <1>3, <2>1
<1>5. EngineUpdateOK(message.ome_update)
  <2>1. PICK n \in 1 .. n_seq_next - 1 : message = [n_seq |-> n, ome_update |-> sent_updates[n]]
    BY <1>2, <1>3 DEF Published
  <2>2. n \in 1 .. Len(sent_updates)
    BY Numbers
  <2>3. sent_updates[n] \in Of(sent_updates)
    BY <2>2 DEF Of
  <2>4. message.ome_update = sent_updates[n]
    BY <2>1
  <2> QED
    BY <2>3, <2>4 DEF IInv, EngineOK
<1> HIDE DEF message
<1>6. PicturesOK'
  <2>1. PicturesOK
    BY DEF IInv
  <2> QED
    BY <1>1, <1>5, <2>1, AppliedPictures DEF PicturesOK
<1>7. NumbersOK'
  BY <1>1, <1>2, <1>3, <1>4, Numbers DEF NumbersOK
<1>8. Published' = Published
  BY <1>1, Frame
<1>9. HandedOverOK'
  <2>1. n_seq_last' + Len(s') = n_seq_next' - 1
    BY <1>1, <1>2, <1>3, <1>4, Numbers
  <2>2. ASSUME NEW i \in 1 .. Len(s')
        PROVE  s'[i].n_seq = n_seq_last' + i
    <3>1. i \in 1 .. Len(s) - 1 /\ i + 1 \in 1 .. Len(s)
      BY <1>1, <1>2
    <3>2. s'[i] = s[i + 1] /\ s[i + 1].n_seq = n_seq_last + (i + 1)
      BY <1>1, <1>2, <1>3, <3>1
    <3> QED
      BY <1>4, <3>1, <3>2, Numbers
  <2> QED
    BY <1>1, <1>2, <1>3, <1>8, <2>1, <2>2 DEF HandedOverOK
<1>10. SnapshotsOK'
  <2>1. SnapshotsOK /\ n_seq_last \in Nat
    BY Numbers DEF IInv
  <2>2. \A d : SnapshotDatagramOK(d, n_seq_last) => SnapshotDatagramOK(d, n_seq_last + 1)
    BY <2>1, DatagramGrows
  <2> QED
    BY <1>1, <1>4, <2>1, <2>2 DEF SnapshotsOK
<1>11. ClientOK'
  <2> DEFINE last == n_seq_next - 1
             covered == n_seq_last + 1
  <2>1. ConsumerOK(mdc, last, n_seq_last)
    BY DEF IInv, ClientOK
  <2>2. last \in Nat /\ n_seq_last \in 0 .. last /\ covered \in Nat /\ last <= last
        /\ n_seq_last <= covered
    BY Numbers
  <2> HIDE DEF last, covered
  <2>3. ConsumerOK(mdc, last, covered)
    BY <2>1, <2>2, ConsumerGrows
  <2> QED
    BY <1>1, <1>4, <2>3 DEF IInv, ClientOK, last, covered
<1> QED
  BY <1>1, <1>6, <1>7, <1>8, <1>9, <1>10, <1>11, Frame DEF IInv

LEMMA StartSnapshotKeeps == IInv /\ StartSnapshot => IInv'
<1> SUFFICES ASSUME IInv, StartSnapshot
             PROVE  IInv'
  OBVIOUS
<1> DEFINE datagrams == Datagrams(SnapshotMessages(TickerSeq, pictures, n_seq_last))
<1>1. /\ publishing' = datagrams
      /\ UNCHANGED <<sent_updates, n_seq_next, tx_buffer, tx_snapshot_updates, pictures, n_seq_last,
                     incremental, snapshots, mdc, position>>
  BY DEF StartSnapshot, publisherVars, clientVars
<1>2. IsSeq(datagrams) /\ \A d \in Of(datagrams) : SnapshotDatagramOK(d, n_seq_last)
  BY SnapshotOK, Numbers DEF IInv
<1> HIDE DEF datagrams
<1>3. SnapshotsOK'
  BY <1>1, <1>2 DEF IInv, SnapshotsOK
<1> QED
  BY <1>1, <1>3, Frame DEF IInv

LEMMA SendSnapshotKeeps == IInv /\ SendSnapshot => IInv'
<1> SUFFICES ASSUME IInv, SendSnapshot
             PROVE  IInv'
  OBVIOUS
<1>1. /\ publishing # <<>> /\ publishing' = Tail(publishing)
      /\ snapshots' \in {Append(snapshots, Head(publishing)), snapshots}
      /\ UNCHANGED <<sent_updates, n_seq_next, tx_buffer, tx_snapshot_updates, pictures, n_seq_last,
                     incremental, mdc, position>>
  BY DEF SendSnapshot, publisherVars, clientVars
<1>2. /\ Head(publishing) \in Of(publishing) /\ IsSeq(publishing')
      /\ Of(publishing') \subseteq Of(publishing)
  BY <1>1, TailIsSeq DEF IInv, SnapshotsOK
<1>3. IsSeq(snapshots') /\ Of(snapshots') \subseteq Of(snapshots) \cup {Head(publishing)}
  <2> DEFINE d == Head(publishing)
  <2>1. snapshots' \in {Append(snapshots, d), snapshots}
    BY <1>1
  <2>2. IsSeq(snapshots)
    BY DEF IInv, SnapshotsOK
  <2> HIDE DEF d
  <2>3. IsSeq(Append(snapshots, d)) /\ Of(Append(snapshots, d)) = Of(snapshots) \cup {d}
    BY <2>2, AppendIsSeq
  <2>4. IsSeq(snapshots') /\ Of(snapshots') \subseteq Of(snapshots) \cup {d}
    BY <2>1, <2>2, <2>3
  <2> QED
    BY <2>4 DEF d
<1>4. SnapshotsOK'
  BY <1>1, <1>2, <1>3 DEF IInv, SnapshotsOK
<1> QED
  BY <1>1, <1>4, Frame DEF IInv

LEMMA LoseSnapshotKeeps == IInv /\ LoseSnapshot => IInv'
<1> SUFFICES ASSUME IInv, LoseSnapshot
             PROVE  IInv'
  OBVIOUS
<1>1. /\ publishing # <<>> /\ publishing' = Tail(publishing)
      /\ UNCHANGED <<sent_updates, n_seq_next, tx_buffer, tx_snapshot_updates, pictures, n_seq_last,
                     incremental, snapshots, mdc, position>>
  BY DEF LoseSnapshot, publisherVars, clientVars
<1>2. IsSeq(publishing') /\ Of(publishing') \subseteq Of(publishing)
  BY <1>1, TailIsSeq DEF IInv, SnapshotsOK
<1>3. SnapshotsOK'
  BY <1>1, <1>2 DEF IInv, SnapshotsOK
<1> QED
  BY <1>1, <1>3, Frame DEF IInv

-----------------------------------------------------------------------------
(* The client.                                                             *)
LEMMA WithoutPushed ==
  ASSUME NEW c, NEW last, NEW covered, ConsumerOK(c, last, covered)
  PROVE  LET d == [c EXCEPT !.pushed = <<>>]
         IN /\ ConsumerOK(d, last, covered)
            /\ d.is_in_recovery = c.is_in_recovery /\ d.n_seq_inc_next = c.n_seq_inc_next
<1> DEFINE none == <<>>
           d == [c EXCEPT !.pushed = none]
<1> HIDE DEF none
<1>1. IsConsumer(c)
  BY DEF ConsumerOK
<1>2. d = [n_seq_inc_next |-> c.n_seq_inc_next, is_in_recovery |-> c.is_in_recovery,
           pushed |-> none, queued_snapshot_updates |-> c.queued_snapshot_updates,
           queued_incremental_updates |-> c.queued_incremental_updates]
  BY <1>1 DEF IsConsumer
<1> HIDE DEF d
<1>3. ConsumerOK(d, last, covered)
  BY <1>2 DEF ConsumerOK, IsConsumer
<1>4. d.is_in_recovery = c.is_in_recovery /\ d.n_seq_inc_next = c.n_seq_inc_next
  BY <1>2
<1> QED
  BY <1>3, <1>4 DEF d, none

(* A step of the client: what it leaves, given what the datagram's last    *)
(* message leaves.                                                         *)
LEMMA Received ==
  ASSUME IInv, NEW is_snapshot, NEW datagram, Receive(is_snapshot, datagram),
         ConsumerOK(rx_callback(is_snapshot, mdc, datagram), n_seq_next - 1, n_seq_last),
         UNCHANGED <<n_seq_next, n_seq_last>>
  PROVE  LET c == rx_callback(is_snapshot, mdc, datagram)
         IN /\ ClientOK'
            /\ mdc'.is_in_recovery = c.is_in_recovery
            /\ position' = IF c.is_in_recovery THEN position ELSE c.n_seq_inc_next - 1
<1> DEFINE c == rx_callback(is_snapshot, mdc, datagram)
<1>1. /\ mdc' = [c EXCEPT !.pushed = <<>>]
      /\ position' = IF c.is_in_recovery THEN position ELSE c.n_seq_inc_next - 1
  BY DEF Receive
<1>2. ConsumerOK(c, n_seq_next - 1, n_seq_last)
  OBVIOUS
<1> HIDE DEF c
<1>3. /\ ConsumerOK(mdc', n_seq_next - 1, n_seq_last)
      /\ mdc'.is_in_recovery = c.is_in_recovery /\ mdc'.n_seq_inc_next = c.n_seq_inc_next
  BY <1>1, <1>2, WithoutPushed
<1>4. c.n_seq_inc_next - 1 \in Nat
  BY <1>2, Numbers DEF ConsumerOK
<1>5. position' \in Nat
  BY <1>1, <1>4 DEF IInv, ClientOK
<1>6. ~ mdc'.is_in_recovery => position' = mdc'.n_seq_inc_next - 1
  BY <1>1, <1>3
<1>7. ClientOK'
  BY <1>3, <1>5, <1>6 DEF ClientOK
<1> QED
  BY <1>1, <1>3, <1>7 DEF c

(* An incremental datagram takes the client nowhere back.                  *)
LEMMA IncrementalReceived ==
  ASSUME IInv, ReceiveIncremental
  PROVE  ClientOK' /\ position <= position'
<1> DEFINE datagram == Head(incremental)
           c == rx_callback(FALSE, mdc, datagram)
           last == n_seq_next - 1
<1>1. /\ incremental # <<>> /\ Receive(FALSE, datagram)
      /\ UNCHANGED <<n_seq_next, n_seq_last>>
  BY DEF ReceiveIncremental, publisherVars, synthesizerVars
<1>2. IsSeq(datagram) /\ Of(datagram) \subseteq Published
  BY <1>1, TailIsSeq DEF IInv, IncrementalOK
<1>3. last \in Nat /\ n_seq_last \in 0 .. last
  BY Numbers
<1>4. ConsumerOK(mdc, last, n_seq_last)
  BY DEF IInv, ClientOK
<1> HIDE DEF datagram
<1>5. Len(datagram) \in Nat /\ \A i \in 1 .. Len(datagram) : datagram[i].n_seq \in 1 .. last
  <2>1. Len(datagram) \in Nat /\ \A i \in 1 .. Len(datagram) : datagram[i] \in Published
    BY <1>2, SeqMembers
  <2>2. \A m \in Published : m.n_seq \in 1 .. last
    BY DEF Published
  <2> QED
    BY <2>1, <2>2
<1> HIDE DEF last
<1>6. /\ ConsumerOK(c, last, n_seq_last)
      /\ ~ c.is_in_recovery => ~ mdc.is_in_recovery /\ c.n_seq_inc_next >= mdc.n_seq_inc_next
  BY <1>3, <1>4, <1>5, IncrementalDatagram
<1> HIDE DEF c
<1>7. ClientOK' /\ position' = IF c.is_in_recovery THEN position ELSE c.n_seq_inc_next - 1
  BY <1>1, <1>6, Received DEF c, last
<1>8. position \in Nat /\ (~ mdc.is_in_recovery => position = mdc.n_seq_inc_next - 1)
  BY DEF IInv, ClientOK
<1>9. c.n_seq_inc_next \in Nat /\ mdc.n_seq_inc_next \in Nat
  BY <1>3, <1>4, <1>6 DEF ConsumerOK
<1> QED
  BY <1>6, <1>7, <1>8, <1>9

LEMMA ReceiveIncrementalKeeps == IInv /\ ReceiveIncremental => IInv'
<1> SUFFICES ASSUME IInv, ReceiveIncremental
             PROVE  IInv'
  OBVIOUS
<1>1. /\ incremental # <<>> /\ incremental' = Tail(incremental)
      /\ snapshots' \in {snapshots, <<>>}
      /\ UNCHANGED <<sent_updates, n_seq_next, tx_buffer, tx_snapshot_updates, pictures, n_seq_last,
                     publishing>>
  BY DEF ReceiveIncremental, publisherVars, synthesizerVars
<1>2. ClientOK'
  BY IncrementalReceived
<1>3. IncrementalOK'
  <2>1. IsSeq(incremental') /\ Of(incremental') \subseteq Of(incremental)
    BY <1>1, TailIsSeq DEF IInv, IncrementalOK
  <2>2. Published' = Published
    BY <1>1, Frame
  <2> QED
    BY <2>1, <2>2 DEF IInv, IncrementalOK
<1>4. SnapshotsOK'
  <2>1. IsSeq(snapshots') /\ Of(snapshots') \subseteq Of(snapshots)
    BY <1>1, EmptyIsSeq DEF IInv, SnapshotsOK
  <2> QED
    BY <1>1, <2>1 DEF IInv, SnapshotsOK
<1> QED
  BY <1>1, <1>2, <1>3, <1>4, Frame DEF IInv

(* A snapshot takes the client back only if nothing that is queued is      *)
(* newer than the books it goes back to.                                   *)
LEMMA SnapshotReceived ==
  ASSUME IInv, ReceiveSnapshot
  PROVE  /\ ClientOK'
         /\ position' < position =>
              /\ DOMAIN mdc.queued_incremental_updates # {}
              /\ \A n \in DOMAIN mdc.queued_incremental_updates : n <= position
<1> DEFINE datagram == Head(snapshots)
           c == rx_callback(TRUE, mdc, datagram)
           last == n_seq_next - 1
<1>1. /\ snapshots # <<>> /\ Receive(TRUE, datagram)
      /\ UNCHANGED <<n_seq_next, n_seq_last>>
  BY DEF ReceiveSnapshot, publisherVars, synthesizerVars
<1>2. SnapshotDatagramOK(datagram, n_seq_last)
  BY <1>1, TailIsSeq DEF IInv, SnapshotsOK
<1>3. last \in Nat /\ n_seq_last \in 0 .. last
  BY Numbers
<1>4. ConsumerOK(mdc, last, n_seq_last)
  BY DEF IInv, ClientOK
<1>5. position \in Nat /\ (~ mdc.is_in_recovery => position = mdc.n_seq_inc_next - 1)
  BY DEF IInv, ClientOK
<1> HIDE DEF datagram, last
<1>6. CASE mdc.is_in_recovery
  <2>1. Settled(mdc, c, last, n_seq_last)
    BY <1>2, <1>3, <1>4, <1>6, SnapshotDatagram
  <2>2. ConsumerOK(c, last, n_seq_last)
    BY <2>1 DEF Settled
  <2> HIDE DEF c
  <2>3. ClientOK' /\ position' = IF c.is_in_recovery THEN position ELSE c.n_seq_inc_next - 1
    BY <1>1, <2>2, Received DEF c, last
  <2>4. ASSUME position' < position
        PROVE  /\ DOMAIN mdc.queued_incremental_updates # {}
               /\ \A n \in DOMAIN mdc.queued_incremental_updates : n <= position
    <3>1. ~ c.is_in_recovery /\ position' = c.n_seq_inc_next - 1
      BY <1>5, <2>3, <2>4
    <3>2. DOMAIN mdc.queued_incremental_updates # {}
          /\ DOMAIN mdc.queued_incremental_updates \subseteq 1 .. last
      BY <1>4, <1>6 DEF ConsumerOK
    <3>3. \A n \in DOMAIN mdc.queued_incremental_updates : n < c.n_seq_inc_next
      BY <2>1, <3>1 DEF Settled
    <3>4. c.n_seq_inc_next \in Nat
      BY <1>3, <2>2 DEF ConsumerOK
    <3>5. ASSUME NEW n \in DOMAIN mdc.queued_incremental_updates
          PROVE  n <= position
      <4>1. n \in Nat /\ n < c.n_seq_inc_next
        BY <1>3, <3>2, <3>3
      <4> QED
        BY <1>5, <2>4, <3>1, <3>4, <4>1
    <3> QED
      BY <3>2, <3>5
  <2> QED
    BY <2>3, <2>4
<1>7. CASE ~ mdc.is_in_recovery
  <2>1. c = mdc
    BY <1>7 DEF rx_callback
  <2>2. ClientOK' /\ position' = IF c.is_in_recovery THEN position ELSE c.n_seq_inc_next - 1
    <3>1. ConsumerOK(c, last, n_seq_last)
      BY <1>4, <2>1
    <3> HIDE DEF c
    <3> QED
      BY <1>1, <3>1, Received DEF c, last
  <2> HIDE DEF c
  <2>3. position' = position
    BY <1>5, <1>7, <2>1, <2>2
  <2> QED
    BY <1>5, <2>2, <2>3
<1> QED
  BY <1>6, <1>7

LEMMA ReceiveSnapshotKeeps == IInv /\ ReceiveSnapshot => IInv'
<1> SUFFICES ASSUME IInv, ReceiveSnapshot
             PROVE  IInv'
  OBVIOUS
<1>1. /\ snapshots # <<>> /\ snapshots' \in {Tail(snapshots), <<>>}
      /\ UNCHANGED <<sent_updates, n_seq_next, tx_buffer, tx_snapshot_updates, pictures, n_seq_last,
                     publishing, incremental>>
  BY DEF ReceiveSnapshot, publisherVars, synthesizerVars
<1>2. ClientOK'
  BY SnapshotReceived
<1>3. SnapshotsOK'
  <2>1. IsSeq(snapshots') /\ Of(snapshots') \subseteq Of(snapshots)
    BY <1>1, TailIsSeq, EmptyIsSeq DEF IInv, SnapshotsOK
  <2> QED
    BY <1>1, <2>1 DEF IInv, SnapshotsOK
<1> QED
  BY <1>1, <1>2, <1>3, Frame DEF IInv

LEMMA OvertakeKeeps == IInv /\ Overtake => IInv'
<1> SUFFICES ASSUME IInv, Overtake
             PROVE  IInv'
  OBVIOUS
<1>1. /\ Len(incremental) > 1
      /\ incremental' =
           <<incremental[2], incremental[1]>> \o SubSeq(incremental, 3, Len(incremental))
      /\ UNCHANGED <<sent_updates, n_seq_next, tx_buffer, tx_snapshot_updates, pictures, n_seq_last,
                     publishing, snapshots, mdc, position>>
  BY DEF Overtake, publisherVars, synthesizerVars, clientVars
<1>2. IncrementalOK'
  <2>1. IsSeq(incremental') /\ Of(incremental') \subseteq Of(incremental)
    BY <1>1, SwapIsSeq DEF IInv, IncrementalOK
  <2>2. Published' = Published
    BY <1>1, Frame
  <2> QED
    BY <2>1, <2>2 DEF IInv, IncrementalOK
<1> QED
  BY <1>1, <1>2, Frame DEF IInv

-----------------------------------------------------------------------------
LEMMA Invariance == Spec => []IInv
<1>1. Init => IInv
  BY AtTheStart
<1>2. IInv /\ [Next]_vars => IInv'
  <2> SUFFICES ASSUME IInv, [Next]_vars
               PROVE  IInv'
    OBVIOUS
  <2>1. CASE \E t \in Tickers : \E u \in EngineUpdates(t) : EngineSends(u)
    BY <2>1, EngineSendsKeeps
  <2>2. CASE Publisher
    BY <2>2, PublishUpdateKeeps, SendIncrementalKeeps, LoseIncrementalKeeps DEF Publisher
  <2>3. CASE Synthesizer
    BY <2>3, AddToSnapshotKeeps, StartSnapshotKeeps, SendSnapshotKeeps, LoseSnapshotKeeps
       DEF Synthesizer
  <2>4. CASE ReceiveIncremental
    BY <2>4, ReceiveIncrementalKeeps
  <2>5. CASE ReceiveSnapshot
    BY <2>5, ReceiveSnapshotKeeps
  <2>6. CASE Overtake
    BY <2>6, OvertakeKeeps
  <2>7. CASE UNCHANGED vars
    <3>1. UNCHANGED <<sent_updates, n_seq_next, tx_buffer, tx_snapshot_updates, pictures,
                      n_seq_last, publishing, incremental, snapshots, mdc, position>>
      BY <2>7 DEF vars, publisherVars, synthesizerVars, clientVars
    <3> QED
      BY <3>1, Frame DEF IInv
  <2> QED
    BY <2>1, <2>2, <2>3, <2>4, <2>5, <2>6, <2>7 DEF Next
<1> QED
  BY <1>1, <1>2, PTL DEF Spec

(* The numbers of the stream, of the pictures and of the client are never  *)
(* ahead of each other: the synthesizer covers no update that was not      *)
(* published, and the client expects none beyond the next one to be.       *)
THEOREM TypeCorrect == Spec => []TypeOK
<1>1. IInv => TypeOK
  <2> SUFFICES ASSUME IInv
               PROVE  TypeOK
    OBVIOUS
  <2>1. n_seq_next - 1 + 1 = n_seq_next
    BY Numbers
  <2>2. ConsumerOK(mdc, n_seq_next - 1, n_seq_last) /\ NumbersOK /\ PicturesOK
    BY DEF IInv, ClientOK
  <2> QED
    BY <2>1, <2>2 DEF ConsumerOK, NumbersOK, PicturesOK, TypeOK
<1> QED
  BY <1>1, Invariance, PTL

(* What the synthesizer takes from its queue bears the number after the    *)
(* last one it has: the ASSERT at the end of add_to_snapshot (line 94 of   *)
(* snapshot_synthesizer.cpp) never fails.                                  *)
NextInSequence ==
  tx_snapshot_updates # <<>> => Head(tx_snapshot_updates).n_seq = n_seq_last + 1

THEOREM SynthesizerMissesNothing == Spec => []NextInSequence
<1>1. IInv => NextInSequence
  <2> SUFFICES ASSUME IInv, tx_snapshot_updates # <<>>
               PROVE  Head(tx_snapshot_updates).n_seq = n_seq_last + 1
    BY DEF NextInSequence
  <2>1. IsSeq(tx_snapshot_updates)
    BY DEF IInv, HandedOverOK
  <2>2. 1 \in 1 .. Len(tx_snapshot_updates)
        /\ Head(tx_snapshot_updates) = tx_snapshot_updates[1]
    BY <2>1 DEF IsSeq
  <2> QED
    BY <2>2 DEF IInv, HandedOverOK
<1> QED
  BY <1>1, Invariance, PTL

(* Whatever is lost and however datagrams overtake each other, a recovery  *)
(* from a gap never takes a client back to books that it had moved on      *)
(* from: that takes a late update, and nothing newer queued.               *)
THEOREM OnlyLateTakesBack == Spec => ClientGoesBackOnlyIfLate
<1> DEFINE OnlyIfLate ==
             position' < position =>
               LET late == DOMAIN mdc.queued_incremental_updates
               IN late # {} /\ \A n \in late : n <= position
<1>1. IInv /\ [Next]_vars => [OnlyIfLate]_vars
  <2> SUFFICES ASSUME IInv, [Next]_vars, ~ UNCHANGED vars
               PROVE  OnlyIfLate
    OBVIOUS
  <2>1. position \in Nat
    BY DEF IInv, ClientOK
  <2>2. CASE UNCHANGED position
    BY <2>1, <2>2
  <2>3. CASE ReceiveIncremental
    <3>1. position' \in Nat /\ position <= position'
      BY <2>3, IncrementalReceived DEF ClientOK
    <3> QED
      BY <2>1, <3>1
  <2>4. CASE ReceiveSnapshot
    BY <2>4, SnapshotReceived
  <2>5. UNCHANGED position \/ ReceiveIncremental \/ ReceiveSnapshot
    BY DEF Next, Publisher, Synthesizer, EngineSends, PublishUpdate, SendIncremental,
           LoseIncremental, Transmit, AddToSnapshot, StartSnapshot, SendSnapshot, LoseSnapshot,
           Overtake, clientVars
  <2> QED
    BY <2>2, <2>3, <2>4, <2>5
<1>2. ClientGoesBackOnlyIfLate <=> [][OnlyIfLate]_vars
  BY DEF ClientGoesBackOnlyIfLate
<1> QED
  BY <1>1, <1>2, Invariance, PTL DEF Spec

-----------------------------------------------------------------------------
(* What becomes of books update by update.                                 *)

Applies(f, updates, books, k) ==
  f = [i \in 0 .. k |-> IF i = 0 THEN books ELSE Applied(f[i - 1], updates[i])]

LEMMA AppliesExists ==
  ASSUME NEW updates, NEW books, NEW len \in Nat
  PROVE  \E f : Applies(f, updates, books, len)
<1> DEFINE P == {k \in Nat : \E f : Applies(f, updates, books, k)}
<1>1. 0 \in P
  <2>1. Applies([i \in 0 .. 0 |-> books], updates, books, 0)
    BY DEF Applies
  <2> QED
    BY <2>1
<1>2. ASSUME NEW k \in P
      PROVE  k + 1 \in P
  <2>1. PICK f : Applies(f, updates, books, k)
    OBVIOUS
  <2> DEFINE e == Applied(f[k], updates[k + 1])
             g == [i \in 0 .. k + 1 |-> IF i = k + 1 THEN e ELSE f[i]]
             h == [i \in 0 .. k + 1 |-> IF i = 0 THEN books ELSE Applied(g[i - 1], updates[i])]
  <2>2. k \in Nat /\ k + 1 \in Nat
    OBVIOUS
  <2>3. ASSUME NEW i \in 0 .. k + 1
        PROVE  g[i] = IF i = 0 THEN books ELSE Applied(g[i - 1], updates[i])
    <3> HIDE DEF e
    <3>1. CASE i = k + 1
      <4>1. g[i] = e /\ i # 0 /\ i - 1 = k /\ k \in 0 .. k + 1 /\ k # k + 1
        BY <2>2, <3>1
      <4>2. g[i - 1] = f[k]
        BY <4>1
      <4> QED
        BY <3>1, <4>1, <4>2 DEF e
    <3>2. CASE i # k + 1
      <4>1. i \in 0 .. k /\ g[i] = f[i]
        BY <2>2, <3>2
      <4>2. f[i] = IF i = 0 THEN books ELSE Applied(f[i - 1], updates[i])
        BY <2>1, <4>1 DEF Applies
      <4>3. i # 0 => g[i - 1] = f[i - 1]
        <5>1. i # 0 => i - 1 \in 0 .. k + 1 /\ i - 1 # k + 1
          BY <2>2, <4>1
        <5> QED
          BY <5>1
      <4> HIDE DEF g
      <4> QED
        BY <4>1, <4>2, <4>3
    <3> QED
      BY <3>1, <3>2
  <2> HIDE DEF e
  <2>4. g = h
    BY <2>3
  <2> HIDE DEF g
  <2>5. Applies(g, updates, books, k + 1)
    BY <2>4 DEF Applies
  <2> QED
    BY <2>2, <2>5
<1>3. P \in SUBSET Nat
  OBVIOUS
<1> HIDE DEF P
<1>4. P = Nat
  BY <1>1, <1>2, <1>3, Induction
<1> QED
  BY <1>4 DEF P

LEMMA AppliesAgree ==
  ASSUME NEW updates, NEW books, NEW j \in Nat, NEW k \in Nat, j <= k, NEW f, NEW g,
         Applies(f, updates, books, j), Applies(g, updates, books, k)
  PROVE  f[j] = g[j]
<1> DEFINE P == {i \in Nat : i <= j => f[i] = g[i]}
<1>1. 0 \in P
  <2>1. f[0] = books /\ g[0] = books
    BY DEF Applies
  <2> QED
    BY <2>1
<1>2. ASSUME NEW i \in P
      PROVE  i + 1 \in P
  <2> SUFFICES ASSUME i + 1 <= j
               PROVE  f[i + 1] = g[i + 1]
    OBVIOUS
  <2>1. i \in Nat /\ i + 1 \in 0 .. j /\ i + 1 \in 0 .. k /\ i + 1 # 0 /\ i + 1 - 1 = i /\ i <= j
    OBVIOUS
  <2>2. f[i + 1] = Applied(f[i + 1 - 1], updates[i + 1])
        /\ g[i + 1] = Applied(g[i + 1 - 1], updates[i + 1])
    BY <2>1 DEF Applies
  <2> QED
    BY <2>1, <2>2
<1>3. P \in SUBSET Nat
  OBVIOUS
<1> HIDE DEF P
<1>4. P = Nat
  BY <1>1, <1>2, <1>3, Induction
<1> QED
  BY <1>4 DEF P

LEMMA AppliedStep ==
  ASSUME NEW updates, NEW books, NEW n \in Nat
  PROVE  /\ AppliedFirst(0, updates, books) = books
         /\ AppliedFirst(n + 1, updates, books)
              = Applied(AppliedFirst(n, updates, books), updates[n + 1])
<1> DEFINE F(k) == CHOOSE f : Applies(f, updates, books, k)
<1>1. \A k \in Nat : Applies(F(k), updates, books, k)
  BY AppliesExists
<1>2. \A k \in Nat : AppliedFirst(k, updates, books) = F(k)[k]
  BY DEF AppliedFirst, Applies
<1> HIDE DEF F
<1>3. 0 \in Nat /\ n + 1 \in Nat /\ n <= n + 1
  OBVIOUS
<1>4. F(0)[0] = books
  <2>1. Applies(F(0), updates, books, 0)
    BY <1>1, <1>3
  <2> QED
    BY <2>1 DEF Applies
<1>5. F(n)[n] = F(n + 1)[n]
  BY <1>1, <1>3, AppliesAgree
<1>6. F(n + 1)[n + 1] = Applied(F(n + 1)[n], updates[n + 1])
  <2>1. Applies(F(n + 1), updates, books, n + 1)
    BY <1>1, <1>3
  <2>2. n + 1 \in 0 .. n + 1 /\ n + 1 # 0 /\ n + 1 - 1 = n
    OBVIOUS
  <2> QED
    BY <2>1, <2>2 DEF Applies
<1> QED
  BY <1>2, <1>3, <1>4, <1>5, <1>6

(* Some updates, and then others.                                          *)
Joined(w, u, j, v, k) == (\A i \in 1 .. j : w[i] = u[i]) /\ (\A i \in 1 .. k : w[j + i] = v[i])

LEMMA AppliedJoin ==
  ASSUME NEW u, NEW v, NEW w, NEW j \in Nat, NEW k \in Nat, NEW books, Joined(w, u, j, v, k)
  PROVE  AppliedFirst(j + k, w, books) = AppliedFirst(k, v, AppliedFirst(j, u, books))
<1>0. (\A i \in 1 .. j : w[i] = u[i]) /\ (\A i \in 1 .. k : w[j + i] = v[i])
  BY DEF Joined
<1>1. AppliedFirst(j, w, books) = AppliedFirst(j, u, books)
  <2> DEFINE P == {i \in Nat : i <= j => AppliedFirst(i, w, books) = AppliedFirst(i, u, books)}
  <2>1. 0 \in P
    <3>1. AppliedFirst(0, w, books) = books /\ AppliedFirst(0, u, books) = books
      BY AppliedStep
    <3> QED
      BY <3>1
  <2>2. ASSUME NEW i \in P
        PROVE  i + 1 \in P
    <3> SUFFICES ASSUME i + 1 <= j
                 PROVE  AppliedFirst(i + 1, w, books) = AppliedFirst(i + 1, u, books)
      OBVIOUS
    <3>1. i \in Nat /\ i + 1 \in 1 .. j /\ i <= j
      OBVIOUS
    <3>2. /\ AppliedFirst(i + 1, w, books) = Applied(AppliedFirst(i, w, books), w[i + 1])
          /\ AppliedFirst(i + 1, u, books) = Applied(AppliedFirst(i, u, books), u[i + 1])
      BY <3>1, AppliedStep
    <3> QED
      BY <1>0, <3>1, <3>2
  <2>3. P \in SUBSET Nat
    OBVIOUS
  <2> HIDE DEF P
  <2>4. P = Nat
    BY <2>1, <2>2, <2>3, Induction
  <2> QED
    BY <2>4 DEF P
<1> DEFINE half == AppliedFirst(j, u, books)
           P == {i \in Nat : i <= k => AppliedFirst(j + i, w, books) = AppliedFirst(i, v, half)}
<1> HIDE DEF half
<1>2. 0 \in P
  <2>1. AppliedFirst(0, v, half) = half /\ j + 0 = j
    BY AppliedStep
  <2> QED
    BY <1>1, <2>1 DEF half
<1>3. ASSUME NEW i \in P
      PROVE  i + 1 \in P
  <2> SUFFICES ASSUME i + 1 <= k
               PROVE  AppliedFirst(j + (i + 1), w, books) = AppliedFirst(i + 1, v, half)
    OBVIOUS
  <2>1. i \in Nat /\ i + 1 \in 1 .. k /\ i <= k /\ j + i \in Nat /\ j + (i + 1) = (j + i) + 1
    OBVIOUS
  <2>2. AppliedFirst((j + i) + 1, w, books) = Applied(AppliedFirst(j + i, w, books), w[(j + i) + 1])
    BY <2>1, AppliedStep
  <2>3. AppliedFirst(i + 1, v, half) = Applied(AppliedFirst(i, v, half), v[i + 1])
    BY <2>1, AppliedStep
  <2>4. w[(j + i) + 1] = v[i + 1]
    BY <1>0, <2>1
  <2> QED
    BY <2>1, <2>2, <2>3, <2>4
<1>4. P \in SUBSET Nat
  OBVIOUS
<1> HIDE DEF P
<1>5. P = Nat
  BY <1>2, <1>3, <1>4, Induction
<1> QED
  BY <1>5 DEF P, half

LEMMA AppliedSame ==
  ASSUME NEW u, NEW w, NEW j \in Nat, NEW books, \A i \in 1 .. j : w[i] = u[i]
  PROVE  AppliedFirst(j, w, books) = AppliedFirst(j, u, books)
<1>1. AppliedFirst(j + 0, w, books) = AppliedFirst(0, u, AppliedFirst(j, u, books))
  <2> DEFINE k == 0
  <2>1. k \in Nat /\ Joined(w, u, j, u, k)
    BY DEF Joined
  <2> HIDE DEF k
  <2>2. AppliedFirst(j + k, w, books) = AppliedFirst(k, u, AppliedFirst(j, u, books))
    BY <2>1, AppliedJoin
  <2> QED
    BY <2>2 DEF k
<1>2. AppliedFirst(0, u, AppliedFirst(j, u, books)) = AppliedFirst(j, u, books) /\ j + 0 = j
  BY AppliedStep
<1> QED
  BY <1>1, <1>2

-----------------------------------------------------------------------------
(* The order in which numbers are walked.                                  *)

LEMMA BelowGrows ==
  ASSUME NEW T \in SUBSET Nat, IsFiniteSet(T), NEW m \in T, NEW n \in T, m < n
  PROVE  /\ Cardinality({k \in T : k < m}) < Cardinality({k \in T : k < n})
         /\ Cardinality({k \in T : k < m}) \in Nat /\ Cardinality({k \in T : k < n}) \in Nat
         /\ Cardinality({k \in T : k < n}) < Cardinality(T) /\ Cardinality(T) \in Nat
<1> DEFINE A == {k \in T : k < m}
           B == {k \in T : k < n}
<1>1. A \in SUBSET B /\ B \in SUBSET T /\ m \in B /\ m \notin A /\ n \notin B /\ n \in T
  <2>1. m \in Nat /\ n \in Nat /\ \A k \in T : k \in Nat
    OBVIOUS
  <2>2. \A k \in T : k < m => k < n
    BY <2>1
  <2>3. ~ (m < m) /\ ~ (n < n)
    BY <2>1
  <2>4. A \in SUBSET B
    BY <2>2
  <2>5. B \in SUBSET T /\ m \in B
    OBVIOUS
  <2>6. m \notin A /\ n \notin B
    BY <2>3
  <2> QED
    BY <2>4, <2>5, <2>6
<1> HIDE DEF A, B
<1>2. IsFiniteSet(A) /\ IsFiniteSet(B)
  BY <1>1, FS_Subset
<1>3. Cardinality(A) < Cardinality(B) /\ Cardinality(B) < Cardinality(T)
  <2>1. A # B /\ B # T
    BY <1>1
  <2>2. Cardinality(A) <= Cardinality(B) /\ Cardinality(A) # Cardinality(B)
    BY <1>1, <1>2, <2>1, FS_Subset
  <2>3. Cardinality(B) <= Cardinality(T) /\ Cardinality(B) # Cardinality(T)
    BY <1>1, <2>1, FS_Subset
  <2>4. Cardinality(A) \in Nat /\ Cardinality(B) \in Nat /\ Cardinality(T) \in Nat
    BY <1>2, FS_CardinalityType
  <2> QED
    BY <2>2, <2>3, <2>4
<1>4. Cardinality(A) \in Nat /\ Cardinality(B) \in Nat /\ Cardinality(T) \in Nat
  BY <1>2, FS_CardinalityType
<1> QED
  BY <1>3, <1>4 DEF A, B

LEMMA PlaceIsUnique ==
  ASSUME NEW T \in SUBSET Nat, IsFiniteSet(T), NEW m \in T, NEW n \in T,
         Cardinality({k \in T : k < m}) = Cardinality({k \in T : k < n})
  PROVE  m = n
<1>1. m \in Nat /\ n \in Nat
  OBVIOUS
<1>2. CASE m < n
  BY <1>2, BelowGrows
<1>3. CASE n < m
  BY <1>3, BelowGrows
<1> QED
  BY <1>1, <1>2, <1>3

(* Every member is walked, the smaller ones first.                         *)
LEMMA AscendingOnto ==
  ASSUME NEW T \in SUBSET Nat, IsFiniteSet(T), NEW n \in T
  PROVE  \E i \in 1 .. Cardinality(T) : Ascending(T)[i] = n
<1> DEFINE B == {k \in T : k < n}
           i == Cardinality(B) + 1
<1>1. B \in SUBSET T /\ n \notin B
  BY n \in Nat
<1> HIDE DEF B
<1>2. Cardinality(B) \in Nat /\ Cardinality(B) < Cardinality(T) /\ Cardinality(T) \in Nat
  <2>1. IsFiniteSet(B) /\ B # T
    BY <1>1, FS_Subset
  <2>2. Cardinality(B) <= Cardinality(T) /\ Cardinality(B) # Cardinality(T)
    BY <1>1, <2>1, FS_Subset
  <2>3. Cardinality(B) \in Nat /\ Cardinality(T) \in Nat
    BY <2>1, FS_CardinalityType
  <2> QED
    BY <2>2, <2>3
<1>3. i \in 1 .. Cardinality(T) /\ i - 1 = Cardinality(B)
  BY <1>2
<1> HIDE DEF i
<1>4. Ascending(T)[i] \in T /\ Cardinality({k \in T : k < Ascending(T)[i]}) = i - 1
  BY <1>3, AscendingPlace
<1>5. Ascending(T)[i] = n
  <2> DEFINE a == Ascending(T)[i]
  <2>1. a \in T /\ Cardinality({k \in T : k < a}) = Cardinality({k \in T : k < n})
    BY <1>3, <1>4 DEF B
  <2> HIDE DEF a
  <2>2. a = n
    BY <2>1, PlaceIsUnique
  <2> QED
    BY <2>2 DEF a
<1> QED
  BY <1>3, <1>5

LEMMA AscendingGrows ==
  ASSUME NEW T \in SUBSET Nat, IsFiniteSet(T),
         NEW i \in 1 .. Cardinality(T), NEW j \in 1 .. Cardinality(T), i < j
  PROVE  Ascending(T)[i] < Ascending(T)[j]
<1> DEFINE a == Ascending(T)[i]
           b == Ascending(T)[j]
<1>1. a \in T /\ Cardinality({k \in T : k < a}) = i - 1
  BY AscendingPlace
<1>2. b \in T /\ Cardinality({k \in T : k < b}) = j - 1
  BY AscendingPlace
<1> HIDE DEF a, b
<1>3. a # b
  BY <1>1, <1>2
<1>4. ~ (b < a)
  <2> SUFFICES ASSUME b < a
               PROVE  FALSE
    OBVIOUS
  <2>1. Cardinality({k \in T : k < b}) < Cardinality({k \in T : k < a})
    BY <1>1, <1>2, BelowGrows
  <2>2. j - 1 < i - 1
    BY <1>1, <1>2, <2>1
  <2>3. i \in Nat /\ j \in Nat
    BY FS_CardinalityType
  <2> QED
    BY <2>2, <2>3
<1>5. a \in Nat /\ b \in Nat
  BY <1>1, <1>2
<1> QED
  BY <1>3, <1>4, <1>5 DEF a, b

LEMMA AscendingOfInterval ==
  ASSUME NEW a \in Nat, NEW b \in Nat, a <= b
  PROVE  /\ IsFiniteSet(a .. b) /\ a .. b \in SUBSET Nat /\ Cardinality(a .. b) = b - a + 1
         /\ \A i \in 1 .. b - a + 1 : Ascending(a .. b)[i] = a + i - 1
<1> DEFINE T == a .. b
<1>1. IsFiniteSet(T) /\ T \in SUBSET Nat /\ Cardinality(T) = b - a + 1
  BY FS_Interval
<1>2. ASSUME NEW i \in 1 .. b - a + 1
      PROVE  Ascending(T)[i] = a + i - 1
  <2> DEFINE n == Ascending(T)[i]
             B == {m \in T : m < n}
  <2>1. n \in T /\ Cardinality(B) = i - 1
    <3> HIDE DEF T
    <3> QED
      BY <1>1, AscendingPlace
  <2> HIDE DEF n
  <2>2. B = a .. n - 1 /\ n \in Nat /\ n >= a
    BY <2>1
  <2>3. Cardinality(a .. n - 1) = n - a
    <3> DEFINE c == n - 1
    <3>1. a \in Int /\ c \in Int /\ (a > c => n - a = 0) /\ c - a + 1 = n - a
      BY <2>2
    <3> HIDE DEF c
    <3>2. Cardinality(a .. c) = IF a > c THEN 0 ELSE c - a + 1
      BY <3>1, FS_Interval
    <3> QED
      BY <3>1, <3>2 DEF c
  <2>4. n - a = i - 1
    BY <2>1, <2>2, <2>3
  <2> QED
    BY <2>2, <2>4 DEF n
<1> QED
  BY <1>1, <1>2

-----------------------------------------------------------------------------
(* Books as the exchange's updates make them.                              *)

IsOrder(r) == r = [side |-> r.side, price |-> r.price, qty |-> r.qty, priority |-> r.priority]

IsPicture(p) ==
  /\ p = [o \in DOMAIN p |-> p[o]]
  /\ IsFiniteSet(DOMAIN p) /\ DOMAIN p \subseteq OrderIds
  /\ \A o \in DOMAIN p : IsOrder(p[o])

OfTickers(books) == books = [t \in Tickers |-> books[t]]

AreBooks(books) == OfTickers(books) /\ \A t \in Tickers : IsPicture(books[t])

LEMMA EmptyPicture == IsPicture([o \in {} |-> 0])
<1> DEFINE p == [o \in {} |-> 0]
<1>1. DOMAIN p = {} /\ p = [o \in DOMAIN p |-> p[o]]
  OBVIOUS
<1>2. IsFiniteSet({})
  BY FS_EmptySet
<1> HIDE DEF p
<1>3. IsPicture(p)
  BY <1>1, <1>2 DEF IsPicture
<1> QED
  BY <1>3 DEF p

LEMMA EmptyBooksAre == AreBooks(EmptyBooks)
<1>1. \A t \in Tickers : EmptyBooks[t] = [o \in {} |-> 0]
  BY DEF EmptyBooks
<1>2. OfTickers(EmptyBooks)
  BY DEF EmptyBooks, OfTickers
<1> QED
  BY <1>1, <1>2, EmptyPicture DEF AreBooks

LEMMA OrderAdded ==
  ASSUME NEW p, IsPicture(p), NEW oid \in OrderIds, NEW order, IsOrder(order)
  PROVE  IsPicture(Picture(p, oid, order))
<1> DEFINE q == Picture(p, oid, order)
<1>1. /\ DOMAIN q = DOMAIN p \cup {oid} /\ q = [o \in DOMAIN q |-> q[o]]
      /\ \A o \in DOMAIN q : q[o] = IF o = oid THEN order ELSE p[o]
  BY DEF Picture
<1> HIDE DEF q
<1>2. IsFiniteSet(DOMAIN q) /\ DOMAIN q \subseteq OrderIds
  BY <1>1, FS_AddElement DEF IsPicture
<1>3. \A o \in DOMAIN q : IsOrder(q[o])
  BY <1>1 DEF IsPicture
<1>4. IsPicture(q)
  BY <1>1, <1>2, <1>3 DEF IsPicture
<1> QED
  BY <1>4 DEF q

(* The fields of an order that MODIFY sets.                                *)
Modified(r, u) == [[r EXCEPT !.qty = u.qty] EXCEPT !.price = u.price]

LEMMA ModifiedIs ==
  ASSUME NEW r, IsOrder(r), NEW u
  PROVE  Modified(r, u) =
           [side |-> r.side, price |-> u.price, qty |-> u.qty, priority |-> r.priority]
<1> DEFINE q == u.qty
           p == u.price
           s == [r EXCEPT !.qty = q]
<1> HIDE DEF q, p
<1>1. s = [side |-> r.side, price |-> r.price, qty |-> q, priority |-> r.priority]
  BY DEF IsOrder
<1> HIDE DEF s
<1>2. [s EXCEPT !.price = p] = [side |-> r.side, price |-> p, qty |-> q, priority |-> r.priority]
  BY <1>1
<1> QED
  BY <1>2 DEF Modified, s, q, p

LEMMA PictureKept ==
  ASSUME NEW p, IsPicture(p), NEW u, EngineUpdateOK(u)
  PROVE  IsPicture(add_to_snapshot(p, u))
<1>1. CASE u.type = "ADD"
  <2> DEFINE order == [side |-> u.side, price |-> u.price, qty |-> u.qty, priority |-> u.priority]
  <2>1. add_to_snapshot(p, u) = Picture(p, u.oid, order)
    BY <1>1 DEF add_to_snapshot
  <2>2. IsOrder(order)
    BY DEF IsOrder
  <2>3. u.oid \in OrderIds
    BY <1>1 DEF EngineUpdateOK
  <2> HIDE DEF order
  <2> QED
    BY <2>1, <2>2, <2>3, OrderAdded
<1>2. CASE u.type = "MODIFY"
  <2> DEFINE q == [p EXCEPT ![u.oid].qty = u.qty, ![u.oid].price = u.price]
  <2>1. add_to_snapshot(p, u) = q
    BY <1>2 DEF add_to_snapshot
  <2>2. /\ DOMAIN q = DOMAIN p /\ q = [o \in DOMAIN q |-> q[o]]
        /\ \A o \in DOMAIN q :
             q[o] = IF o = u.oid THEN Modified(p[o], u) ELSE p[o]
    BY DEF IsPicture, Modified
  <2>3. ASSUME NEW o \in DOMAIN p
        PROVE  IsOrder(Modified(p[o], u))
    <3>1. IsOrder(p[o])
      BY DEF IsPicture
    <3>2. Modified(p[o], u) =
            [side |-> p[o].side, price |-> u.price, qty |-> u.qty, priority |-> p[o].priority]
      BY ONLY <3>1, ModifiedIs
    <3> QED
      BY ONLY <3>2 DEF IsOrder
  <2> HIDE DEF q
  <2>4. \A o \in DOMAIN q : IsOrder(q[o])
    BY <2>2, <2>3 DEF IsPicture
  <2>5. IsPicture(q)
    BY <2>2, <2>4 DEF IsPicture
  <2> QED
    BY <2>1, <2>5
<1>3. CASE u.type = "CANCEL"
  <2> DEFINE q == [o \in DOMAIN p \ {u.oid} |-> p[o]]
  <2>1. add_to_snapshot(p, u) = q
    BY <1>3 DEF add_to_snapshot
  <2>2. /\ DOMAIN q = DOMAIN p \ {u.oid} /\ q = [o \in DOMAIN q |-> q[o]]
        /\ \A o \in DOMAIN q : q[o] = p[o]
    OBVIOUS
  <2> HIDE DEF q
  <2>3. IsFiniteSet(DOMAIN q) /\ DOMAIN q \subseteq OrderIds
    BY <2>2, FS_Subset DEF IsPicture
  <2>4. IsPicture(q)
    BY <2>2, <2>3 DEF IsPicture
  <2> QED
    BY <2>1, <2>4
<1>4. CASE u.type = "TRADE"
  BY <1>4 DEF add_to_snapshot
<1> QED
  BY <1>1, <1>2, <1>3, <1>4 DEF EngineUpdateOK

LEMMA BooksKept ==
  ASSUME NEW books, AreBooks(books), NEW u, EngineUpdateOK(u)
  PROVE  AreBooks(Applied(books, u))
<1>1. CASE u.type = "TRADE"
  BY <1>1 DEF Applied
<1>2. CASE u.type # "TRADE"
  <2> DEFINE p == add_to_snapshot(books[u.ticker], u)
             after == [books EXCEPT ![u.ticker] = p]
  <2>1. Applied(books, u) = after
    BY <1>2 DEF Applied, EngineUpdateOK
  <2>2. u.ticker \in Tickers
    BY DEF EngineUpdateOK
  <2>3. IsPicture(p)
    BY <2>2, PictureKept DEF AreBooks
  <2> HIDE DEF p
  <2>4. /\ after = [t \in Tickers |-> after[t]]
        /\ \A t \in Tickers : after[t] = IF t = u.ticker THEN p ELSE books[t]
    BY DEF AreBooks, OfTickers
  <2> HIDE DEF after
  <2>5. AreBooks(after)
    BY <2>3, <2>4 DEF AreBooks, OfTickers
  <2> QED
    BY <2>1, <2>5
<1> QED
  BY <1>1, <1>2

LEMMA ExchangeBooks ==
  ASSUME EngineOK, NEW n \in 0 .. Len(sent_updates)
  PROVE  AreBooks(Books(n))
<1> DEFINE P == {k \in Nat : k <= Len(sent_updates) => AreBooks(Books(k))}
<1>1. Len(sent_updates) \in Nat /\ \A i \in 1 .. Len(sent_updates) : EngineUpdateOK(sent_updates[i])
  BY SeqMembers DEF EngineOK
<1>2. 0 \in P
  <2>1. Books(0) = EmptyBooks
    BY AppliedStep DEF Books
  <2> QED
    BY <2>1, EmptyBooksAre
<1>3. ASSUME NEW k \in P
      PROVE  k + 1 \in P
  <2> SUFFICES ASSUME k + 1 <= Len(sent_updates)
               PROVE  AreBooks(Books(k + 1))
    OBVIOUS
  <2>1. k \in Nat /\ k <= Len(sent_updates) /\ k + 1 \in 1 .. Len(sent_updates)
    BY <1>1
  <2>2. Books(k + 1) = Applied(Books(k), sent_updates[k + 1])
    BY <2>1, AppliedStep DEF Books
  <2>3. EngineUpdateOK(sent_updates[k + 1]) /\ AreBooks(Books(k))
    BY <1>1, <2>1
  <2> QED
    BY <2>2, <2>3, BooksKept
<1>4. P \in SUBSET Nat
  OBVIOUS
<1> HIDE DEF P
<1>5. P = Nat
  BY <1>2, <1>3, <1>4, Induction
<1>6. n \in Nat /\ n <= Len(sent_updates)
  BY <1>1
<1> QED
  BY <1>5, <1>6 DEF P

-----------------------------------------------------------------------------
(* What a snapshot makes of any books.                                     *)

Concatenates(w, s, t) ==
  /\ IsSeq(w) /\ Len(w) = Len(s) + Len(t) /\ Len(s) \in Nat /\ Len(t) \in Nat
  /\ \A i \in 1 .. Len(s) : w[i] = s[i]
  /\ \A i \in 1 .. Len(t) : w[Len(s) + i] = t[i]

LEMMA ConcatIsSeq ==
  ASSUME NEW s, IsSeq(s), NEW t, IsSeq(t)
  PROVE  Concatenates(s \o t, s, t)
<1> DEFINE S == Of(s) \cup Of(t)
<1>0. PICK w : w = s \o t
  OBVIOUS
<1>1. s \in Seq(S) /\ t \in Seq(S)
  BY SeqMonotonic DEF IsSeq
<1> HIDE DEF S
<1>2. /\ w \in Seq(S) /\ Len(w) = Len(s) + Len(t) /\ Len(s) \in Nat /\ Len(t) \in Nat
      /\ \A i \in 1 .. Len(s) + Len(t) : w[i] = IF i <= Len(s) THEN s[i] ELSE t[i - Len(s)]
  BY <1>0, <1>1, ConcatProperties, LenProperties
<1>3. IsSeq(w)
  BY <1>2, IsSeqOf
<1>4. \A i \in 1 .. Len(s) : w[i] = s[i]
  BY <1>2
<1>5. ASSUME NEW i \in 1 .. Len(t)
      PROVE  w[Len(s) + i] = t[i]
  <2>1. Len(s) + i \in 1 .. Len(s) + Len(t) /\ ~ (Len(s) + i <= Len(s)) /\ Len(s) + i - Len(s) = i
    BY <1>2
  <2> QED
    BY <1>2, <2>1
<1> QED
  BY <1>0, <1>2, <1>3, <1>4, <1>5 DEF Concatenates

LEMMA OneIsSeq ==
  ASSUME NEW x
  PROVE  IsSeq(<<x>>) /\ Len(<<x>>) = 1 /\ <<x>>[1] = x
<1>1. <<x>> \in Seq({x}) /\ Len(<<x>>) = 1
  OBVIOUS
<1> DEFINE s == <<x>>
<1>2. s \in Seq({x})
  BY <1>1
<1> HIDE DEF s
<1>3. IsSeq(s)
  BY <1>2, IsSeqOf
<1> QED
  BY <1>1, <1>3 DEF s

ClearOf(t) == [type |-> "CLEAR", ticker |-> t]

OrderOf(t, p, o) ==
  [type |-> "ADD", ticker |-> t, oid |-> o, side |-> p[o].side, price |-> p[o].price,
   qty |-> p[o].qty, priority |-> p[o].priority]

LEMMA TickerMessagesAre ==
  ASSUME NEW t \in Tickers, NEW p, IsPicture(p)
  PROVE  LET s == TickerMessages(t, p)
             n == Cardinality(DOMAIN p)
         IN /\ IsSeq(s) /\ Len(s) = n + 1 /\ n \in Nat
            /\ s[1] = ClearOf(t)
            /\ \A i \in 1 .. n : s[i + 1] = OrderOf(t, p, Ascending(DOMAIN p)[i])
<1> DEFINE oids == Ascending(DOMAIN p)
           n == Cardinality(DOMAIN p)
           orders == [i \in DOMAIN oids |-> OrderOf(t, p, oids[i])]
           clear == ClearOf(t)
<1>1. DOMAIN oids = 1 .. n /\ n \in Nat
  BY AscendingDomain DEF IsPicture
<1> HIDE DEF n
<1>2. TickerMessages(t, p) = <<clear>> \o orders
  BY DEF TickerMessages, OrderOf, ClearOf
<1> HIDE DEF oids
<1>3. IsSeq(orders) /\ Len(orders) = n /\ \A i \in 1 .. n : orders[i] = OrderOf(t, p, oids[i])
  <2>1. orders = [i \in 1 .. n |-> orders[i]] /\ \A i \in 1 .. n : orders[i] = OrderOf(t, p, oids[i])
    BY <1>1
  <2> HIDE DEF orders
  <2> QED
    BY <1>1, <2>1, FunctionIsSeq
<1> HIDE DEF orders, clear
<1> DEFINE first == <<clear>>
<1>4. IsSeq(first) /\ Len(first) = 1 /\ first[1] = clear
  BY OneIsSeq
<1> HIDE DEF first
<1>5. /\ IsSeq(first \o orders) /\ Len(first \o orders) = 1 + n
      /\ \A i \in 1 .. 1 : (first \o orders)[i] = first[i]
      /\ \A i \in 1 .. n : (first \o orders)[1 + i] = orders[i]
  <2>0. PICK w : w = first \o orders
    OBVIOUS
  <2>1. /\ IsSeq(w) /\ Len(w) = Len(first) + Len(orders)
        /\ \A i \in 1 .. Len(first) : w[i] = first[i]
        /\ \A i \in 1 .. Len(orders) : w[Len(first) + i] = orders[i]
    <3>1. IsSeq(first) /\ IsSeq(orders)
      BY <1>3, <1>4
    <3>2. Concatenates(w, first, orders)
      BY <2>0, <3>1, ConcatIsSeq
    <3> QED
      BY <3>2 DEF Concatenates
  <2>2. /\ IsSeq(w) /\ Len(w) = 1 + n
        /\ \A i \in 1 .. 1 : w[i] = first[i]
        /\ \A i \in 1 .. n : w[1 + i] = orders[i]
    BY <1>3, <1>4, <2>1
  <2> QED
    BY <2>0, <2>2
<1> DEFINE s == first \o orders
<1>6. IsSeq(s) /\ Len(s) = n + 1 /\ s[1] = clear
  BY <1>1, <1>4, <1>5
<1>7. ASSUME NEW i \in 1 .. n
      PROVE  s[i + 1] = OrderOf(t, p, oids[i])
  <2>1. 1 + i = i + 1
    BY <1>1
  <2> QED
    BY <1>3, <1>5, <2>1
<1> QED
  BY <1>1, <1>2, <1>6, <1>7 DEF oids, n, clear, first

(* The orders that have the first k ids.                                   *)
FirstOrders(p, k) == [o \in {Ascending(DOMAIN p)[i] : i \in 1 .. k} |-> p[o]]

LEMMA OneTicker ==
  ASSUME NEW t \in Tickers, NEW p, IsPicture(p), NEW books, OfTickers(books)
  PROVE  LET s == TickerMessages(t, p)
         IN AppliedFirst(Len(s), s, books) = [books EXCEPT ![t] = p]
<1> DEFINE n == Cardinality(DOMAIN p)
           oids == Ascending(DOMAIN p)
           With(q) == [books EXCEPT ![t] = q]
<1>1. PICK s : s = TickerMessages(t, p)
  OBVIOUS
<1>2. /\ Len(s) = n + 1 /\ n \in Nat /\ s[1] = ClearOf(t)
      /\ \A i \in 1 .. n : s[i + 1] = OrderOf(t, p, oids[i])
  BY <1>1, TickerMessagesAre
<1>3. \A i \in 1 .. n : oids[i] \in DOMAIN p
  <2>1. DOMAIN p \in SUBSET Nat /\ IsFiniteSet(DOMAIN p)
    BY MarketDataAssumption DEF IsPicture
  <2> QED
    BY <2>1, AscendingMember
<1>4. FirstOrders(p, n) = p
  <2>1. DOMAIN p \in SUBSET Nat /\ IsFiniteSet(DOMAIN p)
    BY MarketDataAssumption DEF IsPicture
  <2>2. \A o \in DOMAIN p : \E i \in 1 .. n : oids[i] = o
    BY <2>1, AscendingOnto
  <2>3. {oids[i] : i \in 1 .. n} = DOMAIN p
    BY <1>3, <2>2
  <2>4. FirstOrders(p, n) = [o \in DOMAIN p |-> p[o]]
    BY <2>3 DEF FirstOrders
  <2> QED
    BY <2>4 DEF IsPicture
<1> HIDE DEF n
<1> DEFINE P == {k \in Nat : k <= n => AppliedFirst(k + 1, s, books) = With(FirstOrders(p, k))}
<1>5. 0 \in P
  <2>1. AppliedFirst(0 + 1, s, books) = Applied(books, ClearOf(t))
    BY <1>2, AppliedStep
  <2>2. Applied(books, ClearOf(t)) = With([o \in {} |-> 0])
    BY DEF Applied, ClearOf
  <2>3. FirstOrders(p, 0) = [o \in {} |-> 0]
    BY DEF FirstOrders
  <2> QED
    BY <2>1, <2>2, <2>3
<1>6. ASSUME NEW k \in P
      PROVE  k + 1 \in P
  <2> SUFFICES ASSUME k + 1 <= n
               PROVE  AppliedFirst((k + 1) + 1, s, books) = With(FirstOrders(p, k + 1))
    OBVIOUS
  <2> DEFINE o == oids[k + 1]
             u == OrderOf(t, p, o)
             q == FirstOrders(p, k)
  <2>1. k \in Nat /\ k <= n /\ k + 1 \in 1 .. n
    BY <1>2
  <2>2. AppliedFirst(k + 1, s, books) = With(q)
    BY <2>1
  <2>3. AppliedFirst((k + 1) + 1, s, books) = Applied(With(q), u)
    BY <1>2, <2>1, <2>2, AppliedStep
  <2>4. o \in DOMAIN p
    BY <1>3, <2>1
  <2> HIDE DEF q
  <2>5. With(q)[t] = q
    BY DEF OfTickers
  <2>6. Applied(With(q), u) = With(Picture(q, o, p[o]))
    <3>1. u.type = "ADD" /\ u.ticker = t /\ u.oid = o /\ u.side = p[o].side /\ u.price = p[o].price
          /\ u.qty = p[o].qty /\ u.priority = p[o].priority
      BY DEF OrderOf
    <3> HIDE DEF u
    <3>2. Applied(With(q), u) = [With(q) EXCEPT ![t] = add_to_snapshot(q, u)]
      BY <2>5, <3>1 DEF Applied
    <3>3. p[o] = [side |-> u.side, price |-> u.price, qty |-> u.qty, priority |-> u.priority]
      BY <2>4, <3>1 DEF IsPicture, IsOrder
    <3>4. add_to_snapshot(q, u) = Picture(q, o, p[o])
      BY <3>1, <3>3 DEF add_to_snapshot
    <3> DEFINE r == Picture(q, o, p[o])
    <3>5. Applied(With(q), u) = [With(q) EXCEPT ![t] = r]
      BY <3>2, <3>4
    <3> HIDE DEF r
    <3>6. [With(q) EXCEPT ![t] = r] = With(r)
      BY DEF OfTickers
    <3> QED
      BY <3>5, <3>6 DEF r
  <2>7. Picture(q, o, p[o]) = FirstOrders(p, k + 1)
    <3>1. {oids[i] : i \in 1 .. k + 1} = {oids[i] : i \in 1 .. k} \cup {o}
      <4>1. 1 .. k + 1 = 1 .. k \cup {k + 1}
        BY <2>1
      <4> QED
        BY <4>1
    <3> DEFINE D == {oids[i] : i \in 1 .. k}
    <3>2. q = [x \in D |-> p[x]] /\ FirstOrders(p, k + 1) = [x \in D \cup {o} |-> p[x]]
      BY <3>1 DEF FirstOrders, q
    <3> HIDE DEF D, o
    <3>3. Picture(q, o, p[o]) = [x \in D \cup {o} |-> p[x]]
      BY <3>2 DEF Picture
    <3> QED
      BY <3>2, <3>3
  <2> QED
    BY <2>3, <2>6, <2>7
<1>7. P \in SUBSET Nat
  OBVIOUS
<1> HIDE DEF P
<1>8. P = Nat
  BY <1>5, <1>6, <1>7, Induction
<1>9. AppliedFirst(n + 1, s, books) = With(FirstOrders(p, n))
  <2>1. n \in P
    BY <1>2, <1>8
  <2>2. n <= n
    BY <1>2
  <2> QED
    BY <2>1, <2>2 DEF P
<1> QED
  BY <1>1, <1>2, <1>4, <1>9

(* The books when the first k tickers are those of a snapshot.             *)
Mixed(b, books, k) == [t \in Tickers |-> IF t < k THEN b[t] ELSE books[t]]

(* A sequence of updates that replaces the books of the first k tickers.   *)
Replaces(s, b, k) ==
  /\ IsSeq(s)
  /\ \A i \in 1 .. Len(s) : s[i].type \in {"ADD", "CLEAR"}
  /\ \A books : OfTickers(books) => AppliedFirst(Len(s), s, books) = Mixed(b, books, k)

LEMMA TickersInOrder ==
  /\ MAX_TICKERS \in Nat \ {0} /\ DOMAIN TickerSeq = 1 .. MAX_TICKERS
  /\ \A i \in 1 .. MAX_TICKERS : TickerSeq[i] = i - 1 /\ i - 1 \in Tickers
<1> DEFINE a == 0
           b == MAX_TICKERS - 1
<1>1. MAX_TICKERS \in Nat \ {0} /\ a \in Nat /\ b \in Nat /\ a <= b /\ b - a + 1 = MAX_TICKERS
      /\ \A i \in 1 .. MAX_TICKERS : a + i - 1 = i - 1 /\ i - 1 \in 0 .. MAX_TICKERS - 1
  BY MarketDataAssumption
<1>2. TickerSeq = Ascending(a .. b)
  BY DEF TickerSeq, Tickers
<1> HIDE DEF a, b
<1>3. /\ IsFiniteSet(a .. b) /\ Cardinality(a .. b) = b - a + 1
      /\ \A i \in 1 .. b - a + 1 : Ascending(a .. b)[i] = a + i - 1
  BY <1>1, AscendingOfInterval
<1>4. DOMAIN Ascending(a .. b) = 1 .. Cardinality(a .. b)
  BY <1>3, AscendingDomain
<1> QED
  BY <1>1, <1>2, <1>3, <1>4 DEF Tickers

LEMMA NoTicker ==
  ASSUME NEW b, NEW books, OfTickers(books)
  PROVE  Mixed(b, books, 0) = books
<1>1. \A t \in Tickers : ~ (t < 0)
  BY MarketDataAssumption DEF Tickers
<1> QED
  BY <1>1 DEF Mixed, OfTickers

LEMMA EveryTicker ==
  ASSUME NEW b, OfTickers(b), NEW books
  PROVE  Mixed(b, books, MAX_TICKERS) = b
<1>1. \A t \in Tickers : t < MAX_TICKERS
  BY MarketDataAssumption DEF Tickers
<1> QED
  BY <1>1 DEF Mixed, OfTickers

LEMMA MoreTickers ==
  ASSUME NEW b, NEW books, NEW k \in Nat, k \in Tickers
  PROVE  /\ OfTickers(Mixed(b, books, k))
         /\ [Mixed(b, books, k) EXCEPT ![k] = b[k]] = Mixed(b, books, k + 1)
<1>1. OfTickers(Mixed(b, books, k))
  BY DEF Mixed, OfTickers
<1>2. \A t \in Tickers : t < k + 1 <=> t < k \/ t = k
  BY MarketDataAssumption DEF Tickers
<1>3. ~ (k < k)
  OBVIOUS
<1> QED
  BY <1>1, <1>2, <1>3 DEF Mixed

LEMMA TickerReplaces ==
  ASSUME NEW b, AreBooks(b), NEW t \in Tickers
  PROVE  LET s == TickerMessages(t, b[t])
         IN /\ IsSeq(s) /\ \A i \in 1 .. Len(s) : s[i].type \in {"ADD", "CLEAR"}
            /\ \A books : OfTickers(books) =>
                 AppliedFirst(Len(s), s, books) = [books EXCEPT ![t] = b[t]]
<1> DEFINE p == b[t]
           n == Cardinality(DOMAIN p)
<1>1. IsPicture(p)
  BY DEF AreBooks
<1> HIDE DEF p
<1>2. PICK s : s = TickerMessages(t, p)
  OBVIOUS
<1>3. /\ IsSeq(s) /\ Len(s) = n + 1 /\ n \in Nat
      /\ s[1] = ClearOf(t)
      /\ \A i \in 1 .. n : s[i + 1] = OrderOf(t, p, Ascending(DOMAIN p)[i])
  BY <1>1, <1>2, TickerMessagesAre
<1> HIDE DEF n
<1>4. ASSUME NEW i \in 1 .. Len(s)
      PROVE  s[i].type \in {"ADD", "CLEAR"}
  <2>1. CASE i = 1
    BY <1>3, <2>1 DEF ClearOf
  <2>2. CASE i # 1
    <3>1. PICK j \in 1 .. n : i = j + 1
      <4>1. i - 1 \in 1 .. n /\ i = (i - 1) + 1
        BY <1>3, <2>2
      <4> QED
        BY <4>1
    <3>2. s[i] = OrderOf(t, p, Ascending(DOMAIN p)[j])
      BY <1>3, <3>1
    <3> QED
      BY <3>2 DEF OrderOf
  <2> QED
    BY <2>1, <2>2
<1>5. ASSUME NEW books, OfTickers(books)
      PROVE  AppliedFirst(Len(s), s, books) = [books EXCEPT ![t] = p]
  BY <1>1, <1>2, <1>5, OneTicker
<1> QED
  BY <1>2, <1>3, <1>4, <1>5 DEF p

LEMMA OneMoreReplaces ==
  ASSUME NEW b, AreBooks(b), NEW k \in Nat, k \in Tickers, NEW s, Replaces(s, b, k)
  PROVE  Replaces(s \o TickerMessages(k, b[k]), b, k + 1)
<1>1. PICK one : one = TickerMessages(k, b[k])
  OBVIOUS
<1>2. PICK w : w = s \o one
  OBVIOUS
<1>3. /\ IsSeq(one) /\ \A i \in 1 .. Len(one) : one[i].type \in {"ADD", "CLEAR"}
      /\ \A books : OfTickers(books) =>
           AppliedFirst(Len(one), one, books) = [books EXCEPT ![k] = b[k]]
  BY <1>1, TickerReplaces
<1>4. IsSeq(s) /\ \A i \in 1 .. Len(s) : s[i].type \in {"ADD", "CLEAR"}
  BY DEF Replaces
<1>5. /\ IsSeq(w) /\ Len(w) = Len(s) + Len(one) /\ Len(s) \in Nat /\ Len(one) \in Nat
      /\ \A i \in 1 .. Len(s) : w[i] = s[i]
      /\ \A i \in 1 .. Len(one) : w[Len(s) + i] = one[i]
  <2>1. IsSeq(s) /\ IsSeq(one)
    BY <1>3, <1>4
  <2>2. Concatenates(w, s, one)
    BY <1>2, <2>1, ConcatIsSeq
  <2> QED
    BY <2>2 DEF Concatenates
<1>6. ASSUME NEW i \in 1 .. Len(w)
      PROVE  w[i].type \in {"ADD", "CLEAR"}
  <2>1. CASE i \in 1 .. Len(s)
    BY <1>4, <1>5, <2>1
  <2>2. CASE i \notin 1 .. Len(s)
    <3>1. PICK j \in 1 .. Len(one) : i = Len(s) + j
      <4>1. i - Len(s) \in 1 .. Len(one) /\ i = Len(s) + (i - Len(s))
        BY <1>5, <2>2
      <4> QED
        BY <4>1
    <3> QED
      BY <1>3, <1>5, <3>1
  <2> QED
    BY <2>1, <2>2
<1>7. ASSUME NEW books, OfTickers(books)
      PROVE  AppliedFirst(Len(w), w, books) = Mixed(b, books, k + 1)
  <2>1. AppliedFirst(Len(s) + Len(one), w, books)
          = AppliedFirst(Len(one), one, AppliedFirst(Len(s), s, books))
    <3>1. Joined(w, s, Len(s), one, Len(one))
      BY <1>5 DEF Joined
    <3> QED
      BY <1>5, <3>1, AppliedJoin
  <2>2. AppliedFirst(Len(s), s, books) = Mixed(b, books, k)
    BY <1>7 DEF Replaces
  <2>3. /\ OfTickers(Mixed(b, books, k))
        /\ [Mixed(b, books, k) EXCEPT ![k] = b[k]] = Mixed(b, books, k + 1)
    BY MoreTickers
  <2>4. AppliedFirst(Len(one), one, Mixed(b, books, k)) = [Mixed(b, books, k) EXCEPT ![k] = b[k]]
    BY <1>3, <2>3
  <2> QED
    BY <1>5, <2>1, <2>2, <2>3, <2>4
<1>8. Replaces(w, b, k + 1)
  BY <1>5, <1>6, <1>7 DEF Replaces
<1> QED
  BY <1>1, <1>2, <1>8

LEMMA FlattenedAs ==
  ASSUME NEW seqs, Len(seqs) \in Nat \ {0}
  PROVE  \E f : Flattens(f, seqs, Len(seqs)) /\ FlattenSeq(seqs) = f[Len(seqs)]
<1> DEFINE f == CHOOSE f : Flattens(f, seqs, Len(seqs))
<1>1. Flattens(f, seqs, Len(seqs))
  BY FlattensExists
<1>2. FlattenSeq(seqs) = f[Len(seqs)]
  BY DEF FlattenSeq, Flattens
<1> QED
  BY <1>1, <1>2

LEMMA AllTickers ==
  ASSUME NEW b, AreBooks(b)
  PROVE  Replaces(FlattenSeq([i \in DOMAIN TickerSeq |->
                                TickerMessages(TickerSeq[i], b[TickerSeq[i]])]), b, MAX_TICKERS)
<1> DEFINE n == MAX_TICKERS
           seqs == [i \in DOMAIN TickerSeq |-> TickerMessages(TickerSeq[i], b[TickerSeq[i]])]
<1>1. /\ n \in Nat \ {0} /\ DOMAIN TickerSeq = 1 .. n
      /\ \A i \in 1 .. n : TickerSeq[i] = i - 1 /\ i - 1 \in Tickers
  BY TickersInOrder
<1> HIDE DEF n
<1>2. \A i \in 1 .. n : seqs[i] = TickerMessages(i - 1, b[i - 1])
  BY <1>1
<1>3. Len(seqs) = n
  <2>1. seqs = [i \in 1 .. n |-> seqs[i]]
    BY <1>1
  <2> HIDE DEF seqs
  <2> QED
    BY <1>1, <2>1, FunctionIsSeq
<1> HIDE DEF seqs
<1>4. PICK f : Flattens(f, seqs, Len(seqs)) /\ FlattenSeq(seqs) = f[Len(seqs)]
  BY <1>1, <1>3, FlattenedAs
<1>5. Flattens(f, seqs, n)
  BY <1>3, <1>4
<1> DEFINE P == {k \in Nat : k + 1 <= n => Replaces(f[k + 1], b, k + 1)}
<1>6. 0 \in P
  <2>1. 1 \in 1 .. n /\ 0 \in Tickers /\ 1 - 1 = 0 /\ 0 + 1 = 1
    <3>1. 1 \in 1 .. n /\ 1 - 1 = 0 /\ 0 + 1 = 1
      BY <1>1
    <3> QED
      BY <1>1, <3>1
  <2>2. f[1] = TickerMessages(0, b[0])
    BY <1>2, <1>5, <2>1 DEF Flattens
  <2>3. PICK s : s = TickerMessages(0, b[0])
    OBVIOUS
  <2>4. /\ IsSeq(s) /\ \A i \in 1 .. Len(s) : s[i].type \in {"ADD", "CLEAR"}
        /\ \A books : OfTickers(books) =>
             AppliedFirst(Len(s), s, books) = [books EXCEPT ![0] = b[0]]
    BY <2>1, <2>3, TickerReplaces
  <2>5. ASSUME NEW books, OfTickers(books)
        PROVE  [books EXCEPT ![0] = b[0]] = Mixed(b, books, 1)
    <3>1. [Mixed(b, books, 0) EXCEPT ![0] = b[0]] = Mixed(b, books, 0 + 1)
      BY <2>1, MoreTickers
    <3>2. Mixed(b, books, 0) = books
      BY <2>5, NoTicker
    <3> QED
      BY <2>1, <3>1, <3>2
  <2>6. Replaces(s, b, 1)
    BY <2>4, <2>5 DEF Replaces
  <2> QED
    BY <2>1, <2>2, <2>3, <2>6
<1>7. ASSUME NEW k \in P
      PROVE  k + 1 \in P
  <2> SUFFICES ASSUME (k + 1) + 1 <= n
               PROVE  Replaces(f[(k + 1) + 1], b, (k + 1) + 1)
    OBVIOUS
  <2>1. PICK i \in 1 .. n : i = (k + 1) + 1
    <3>1. (k + 1) + 1 \in 1 .. n
      BY <1>1
    <3> QED
      BY <3>1
  <2>2. k \in Nat /\ i # 1 /\ i - 1 = k + 1 /\ k + 1 <= n /\ k + 1 \in Nat
    BY <1>1, <2>1
  <2>3. f[i] = f[k + 1] \o TickerMessages(k + 1, b[k + 1])
    <3>1. \A j \in 1 .. n : j # 1 => f[j] = f[j - 1] \o seqs[j]
      BY <1>5 DEF Flattens
    <3>2. f[i] = f[i - 1] \o seqs[i] /\ seqs[i] = TickerMessages(i - 1, b[i - 1])
      BY <1>2, <2>2, <3>1
    <3> QED
      BY <2>2, <3>2
  <2>4. Replaces(f[k + 1], b, k + 1)
    BY <2>2
  <2>5. k + 1 \in Tickers
    BY <1>1, <2>2
  <2>6. PICK j \in Nat : j = k + 1
    BY <2>2
  <2>7. Replaces(f[j] \o TickerMessages(j, b[j]), b, j + 1)
    BY <2>4, <2>5, <2>6, OneMoreReplaces
  <2> QED
    BY <2>1, <2>3, <2>6, <2>7
<1>8. P \in SUBSET Nat
  OBVIOUS
<1> HIDE DEF P
<1>9. P = Nat
  BY <1>6, <1>7, <1>8, Induction
<1>10. Replaces(f[n], b, n)
  <2>1. PICK k \in Nat : k + 1 = n
    <3>1. n - 1 \in Nat /\ (n - 1) + 1 = n
      BY <1>1
    <3> QED
      BY <3>1
  <2>2. k + 1 <= n
    BY <1>1, <2>1
  <2> QED
    BY <1>9, <2>1, <2>2 DEF P
<1> QED
  BY <1>3, <1>4, <1>10 DEF seqs, n

-----------------------------------------------------------------------------
(* The messages of a snapshot of some books, that the first m updates made. *)
Between(u, messages) == \A i \in 1 .. Len(messages) - 2 : u[i] = messages[i + 1].ome_update

IsSnapshot(messages, b, m) ==
  /\ Len(messages) \in Nat \ {0, 1} /\ DOMAIN messages = 1 .. Len(messages)
  /\ \A i \in 1 .. Len(messages) :
       /\ messages[i].n_seq = i - 1
       /\ i = 1 => messages[i].ome_update.type = "SNAPSHOT_START"
       /\ i = Len(messages) =>
            messages[i].ome_update.type = "SNAPSHOT_END" /\ messages[i].ome_update.oid = m
       /\ i # 1 /\ i # Len(messages) => messages[i].ome_update.type \in {"ADD", "CLEAR"}
  /\ \A u, books : OfTickers(books) /\ Between(u, messages) =>
       AppliedFirst(Len(messages) - 2, u, books) = b

LEMMA SnapshotMakes ==
  ASSUME NEW messages, NEW b, NEW m, IsSnapshot(messages, b, m),
         NEW u, Between(u, messages), NEW books, OfTickers(books)
  PROVE  AppliedFirst(Len(messages) - 2, u, books) = b
  BY DEF IsSnapshot

LEMMA SnapshotIs ==
  ASSUME NEW b, AreBooks(b), NEW m
  PROVE  IsSnapshot(SnapshotMessages(TickerSeq, b, m), b, m)
<1>1. PICK flat : flat = FlattenSeq([i \in DOMAIN TickerSeq |->
                                       TickerMessages(TickerSeq[i], b[TickerSeq[i]])])
  OBVIOUS
<1>2. PICK start, end, first, last :
        /\ start = [type |-> "SNAPSHOT_START", oid |-> m] /\ first = <<start>>
        /\ end = [type |-> "SNAPSHOT_END", oid |-> m] /\ last = <<end>>
  OBVIOUS
<1>3. PICK most, updates : most = first \o flat /\ updates = most \o last
  OBVIOUS
<1>4. PICK messages : messages = [i \in DOMAIN updates |-> [n_seq |-> i - 1, ome_update |-> updates[i]]]
  OBVIOUS
<1>5. SnapshotMessages(TickerSeq, b, m) = messages
  BY <1>1, <1>2, <1>3, <1>4 DEF SnapshotMessages
<1>6. Replaces(flat, b, MAX_TICKERS)
  BY <1>1, AllTickers
<1>7. IsSeq(flat) /\ IsSeq(first) /\ IsSeq(last) /\ Len(first) = 1 /\ Len(last) = 1
      /\ first[1] = start /\ last[1] = end
  BY <1>2, <1>6, OneIsSeq DEF Replaces
<1> DEFINE n == Len(flat)
<1>8. /\ IsSeq(most) /\ Len(most) = 1 + n /\ n \in Nat /\ most[1] = start
      /\ \A i \in 1 .. n : most[1 + i] = flat[i]
  <2>1. /\ IsSeq(most) /\ Len(most) = Len(first) + Len(flat) /\ Len(flat) \in Nat
        /\ \A i \in 1 .. Len(first) : most[i] = first[i]
        /\ \A i \in 1 .. Len(flat) : most[Len(first) + i] = flat[i]
    <3>1. most = first \o flat
      BY <1>3
    <3>2. IsSeq(first) /\ IsSeq(flat)
      BY <1>7
    <3>3. Concatenates(most, first, flat)
      BY <3>1, <3>2, ConcatIsSeq
    <3> QED
      BY <3>3 DEF Concatenates
  <2> QED
    BY <1>7, <2>1
<1> HIDE DEF n
<1>9. /\ IsSeq(updates) /\ Len(updates) = n + 2
      /\ updates[1] = start /\ updates[n + 2] = end
      /\ \A i \in 1 .. n : updates[1 + i] = flat[i]
  <2>1. /\ IsSeq(updates) /\ Len(updates) = Len(most) + Len(last)
        /\ \A i \in 1 .. Len(most) : updates[i] = most[i]
        /\ \A i \in 1 .. Len(last) : updates[Len(most) + i] = last[i]
    <3>1. updates = most \o last
      BY <1>3
    <3>2. IsSeq(most) /\ IsSeq(last)
      BY <1>7, <1>8
    <3>3. Concatenates(updates, most, last)
      BY <3>1, <3>2, ConcatIsSeq
    <3> QED
      BY <3>3 DEF Concatenates
  <2>2. updates[1] = start
    <3>1. 1 \in 1 .. Len(most)
      BY <1>8
    <3> QED
      BY <1>8, <2>1, <3>1
  <2>3. updates[n + 2] = end
    <3>1. 1 \in 1 .. Len(last) /\ Len(most) + 1 = n + 2
      BY <1>7, <1>8
    <3> QED
      BY <1>7, <2>1, <3>1
  <2>4. ASSUME NEW i \in 1 .. n
        PROVE  updates[1 + i] = flat[i]
    <3>1. 1 + i \in 1 .. Len(most)
      BY <1>8
    <3> QED
      BY <1>8, <2>1, <3>1
  <2>5. Len(updates) = n + 2
    BY <1>7, <1>8, <2>1
  <2> QED
    BY <2>1, <2>2, <2>3, <2>4, <2>5
<1>10. DOMAIN updates = 1 .. n + 2
  <2>1. updates \in Seq(Of(updates))
    BY <1>9 DEF IsSeq
  <2> QED
    BY <1>9, <2>1, LenProperties
<1>11. /\ Len(messages) = n + 2 /\ DOMAIN messages = 1 .. n + 2 /\ n + 2 \in Nat \ {0, 1}
       /\ \A i \in 1 .. n + 2 : messages[i].n_seq = i - 1 /\ messages[i].ome_update = updates[i]
  <2>1. /\ messages = [i \in 1 .. n + 2 |-> messages[i]]
        /\ \A i \in 1 .. n + 2 : messages[i].n_seq = i - 1 /\ messages[i].ome_update = updates[i]
    BY <1>4, <1>10
  <2>2. n + 2 \in Nat \ {0, 1}
    BY <1>8
  <2>3. Len(messages) = n + 2
    BY <2>1, <2>2, FunctionIsSeq
  <2> QED
    BY <2>1, <2>2, <2>3
<1>12. ASSUME NEW i \in 1 .. n + 2
       PROVE  /\ i = 1 => updates[i].type = "SNAPSHOT_START"
              /\ i = n + 2 => updates[i].type = "SNAPSHOT_END" /\ updates[i].oid = m
              /\ i # 1 /\ i # n + 2 => updates[i].type \in {"ADD", "CLEAR"}
  <2>1. start.type = "SNAPSHOT_START" /\ end.type = "SNAPSHOT_END" /\ end.oid = m
    BY <1>2
  <2>2. ASSUME i # 1, i # n + 2
        PROVE  updates[i].type \in {"ADD", "CLEAR"}
    <3>1. PICK j \in 1 .. n : i = 1 + j
      <4>1. i - 1 \in 1 .. n /\ i = 1 + (i - 1)
        BY <1>8, <2>2
      <4> QED
        BY <4>1
    <3>2. updates[i] = flat[j]
      BY <1>9, <3>1
    <3>3. flat[j].type \in {"ADD", "CLEAR"}
      BY <1>6 DEF Replaces, n
    <3> QED
      BY <3>2, <3>3
  <2> QED
    BY <1>9, <2>1, <2>2
<1>13. ASSUME NEW u, NEW books, OfTickers(books), Between(u, messages)
       PROVE  AppliedFirst(n, u, books) = b
  <2>1. ASSUME NEW i \in 1 .. n
        PROVE  u[i] = flat[i]
    <3>1. i \in 1 .. Len(messages) - 2 /\ i + 1 \in 1 .. n + 2 /\ i + 1 = 1 + i
      BY <1>8, <1>11
    <3>2. u[i] = messages[i + 1].ome_update
      BY <1>13, <3>1 DEF Between
    <3> QED
      BY <1>9, <1>11, <3>1, <3>2
  <2>2. AppliedFirst(n, u, books) = AppliedFirst(n, flat, books)
    BY <1>8, <2>1, AppliedSame
  <2>3. AppliedFirst(n, flat, books) = Mixed(b, books, MAX_TICKERS)
    BY <1>6, <1>13 DEF Replaces, n
  <2>4. Mixed(b, books, MAX_TICKERS) = b
    BY EveryTicker DEF AreBooks
  <2> QED
    BY <2>2, <2>3, <2>4
<1>14. Len(messages) - 2 = n
  BY <1>8, <1>11
<1>15. IsSnapshot(messages, b, m)
  BY <1>11, <1>12, <1>13, <1>14 DEF IsSnapshot
<1> QED
  BY <1>5, <1>15

-----------------------------------------------------------------------------
(* The datagrams that a snapshot is sent in.                               *)
PartOf(d, messages) ==
  /\ Len(d) \in Nat \ {0}
  /\ \A i \in 1 .. Len(d) :
       d[i].n_seq \in 0 .. Len(messages) - 1 /\ d[i] = messages[d[i].n_seq + 1]

Starts(d) == d[1].n_seq = 0

Ends(d) == d[Len(d)].ome_update.type = "SNAPSHOT_END"

LEMMA PieceOf ==
  ASSUME NEW messages, NEW b, NEW m, IsSnapshot(messages, b, m),
         NEW from \in 1 .. Len(messages), NEW to \in 1 .. Len(messages), from <= to
  PROVE  LET d == SubSeq(messages, from, to)
         IN /\ PartOf(d, messages)
            /\ from = 1 => Starts(d)
            /\ to = Len(messages) => Ends(d)
<1>1. /\ Len(messages) \in Nat \ {0, 1} /\ DOMAIN messages = 1 .. Len(messages)
      /\ \A i \in 1 .. Len(messages) : messages[i].n_seq = i - 1
      /\ messages[Len(messages)].ome_update.type = "SNAPSHOT_END"
  <2>1. /\ Len(messages) \in Nat \ {0, 1} /\ DOMAIN messages = 1 .. Len(messages)
        /\ \A i \in 1 .. Len(messages) : messages[i].n_seq = i - 1
    BY DEF IsSnapshot
  <2>2. Len(messages) \in 1 .. Len(messages)
    BY <2>1
  <2> QED
    BY <2>1, <2>2 DEF IsSnapshot
<1>2. PICK d : d = SubSeq(messages, from, to)
  OBVIOUS
<1>3. PICK S : \A i \in from .. to : messages[i] \in S
  <2>1. \A i \in from .. to : messages[i] \in {messages[j] : j \in from .. to}
    OBVIOUS
  <2> QED
    BY <2>1
<1>4. from \in Int /\ to \in Int
  OBVIOUS
<1>5. /\ Len(d) = to - from + 1
      /\ \A i \in 1 .. to - from + 1 : d[i] = messages[from + i - 1]
  BY <1>2, <1>3, <1>4, SubSeqProperties
<1>6. Len(d) \in Nat \ {0}
  BY <1>5
<1>7. ASSUME NEW i \in 1 .. Len(d)
      PROVE  d[i].n_seq \in 0 .. Len(messages) - 1 /\ d[i] = messages[d[i].n_seq + 1]
  <2>1. PICK j \in 1 .. Len(messages) : j = from + i - 1
    <3>1. from + i - 1 \in 1 .. Len(messages)
      BY <1>1, <1>5
    <3> QED
      BY <3>1
  <2>2. d[i] = messages[j]
    BY <1>5, <2>1
  <2>3. messages[j].n_seq = j - 1 /\ j - 1 \in 0 .. Len(messages) - 1 /\ (j - 1) + 1 = j
    BY <1>1
  <2> QED
    BY <2>2, <2>3
<1>8. PartOf(d, messages)
  BY <1>6, <1>7 DEF PartOf
<1>9. from = 1 => Starts(d)
  <2> SUFFICES ASSUME from = 1
               PROVE  d[1].n_seq = 0
    BY DEF Starts
  <2>1. 1 \in 1 .. to - from + 1 /\ from + 1 - 1 = 1 /\ 1 \in 1 .. Len(messages) /\ 1 - 1 = 0
    BY <1>1
  <2> QED
    BY <1>1, <1>5, <2>1
<1>10. to = Len(messages) => Ends(d)
  <2> SUFFICES ASSUME to = Len(messages)
               PROVE  d[Len(d)].ome_update.type = "SNAPSHOT_END"
    BY DEF Ends
  <2>1. Len(d) \in 1 .. to - from + 1 /\ from + Len(d) - 1 = to
    BY <1>5
  <2>2. d[Len(d)] = messages[to]
    BY <1>5, <2>1
  <2> QED
    BY <1>1, <2>2
<1> QED
  BY <1>2, <1>8, <1>9, <1>10

LEMMA SentAsParts ==
  ASSUME NEW messages, NEW b, NEW m, IsSnapshot(messages, b, m)
  PROVE  LET datagrams == Datagrams(messages)
         IN /\ IsSeq(datagrams) /\ Len(datagrams) \in Nat \ {0}
            /\ \A k \in 1 .. Len(datagrams) : PartOf(datagrams[k], messages)
            /\ Starts(datagrams[1]) /\ Ends(datagrams[Len(datagrams)])
<1>1. Len(messages) \in Nat \ {0, 1} /\ DOMAIN messages = 1 .. Len(messages)
  BY DEF IsSnapshot
<1>2. PICK E : E = {i \in DOMAIN messages : messages[i].ome_update.type = "ADD"}
                     \cup {Len(messages)}
  OBVIOUS
<1>3. E \in SUBSET (1 .. Len(messages)) /\ E \in SUBSET Nat /\ Len(messages) \in E
  BY <1>1, <1>2
<1>4. IsFiniteSet(E)
  <2>1. IsFiniteSet(1 .. Len(messages))
    BY <1>1, FS_Interval
  <2> QED
    BY <1>3, <2>1, FS_Subset
<1> DEFINE ends == Ascending(E)
           n == Cardinality(E)
           from(k) == IF k = 1 THEN 1 ELSE ends[k - 1] + 1
<1>5. PICK datagrams : datagrams = [k \in DOMAIN ends |-> SubSeq(messages, from(k), ends[k])]
  OBVIOUS
<1>6. Datagrams(messages) = datagrams
  BY <1>2, <1>5 DEF Datagrams
<1>7. DOMAIN ends = 1 .. n /\ n \in Nat
  BY <1>4, AscendingDomain
<1>8. \A k \in 1 .. n : ends[k] \in 1 .. Len(messages)
  BY <1>3, <1>4, AscendingMember
<1>9. \A j, k \in 1 .. n : j < k => ends[j] < ends[k]
  BY <1>3, <1>4, AscendingGrows
<1>10. PICK last \in 1 .. n : ends[last] = Len(messages)
  BY <1>3, <1>4, AscendingOnto
<1> HIDE DEF ends, n
<1>11. n # 0 /\ last = n
  <2>1. n \in 1 .. n
    BY <1>7
  <2>2. last < n => ends[last] < ends[n]
    BY <1>9, <2>1
  <2>3. ends[n] <= Len(messages) /\ ends[n] \in Nat
    BY <1>1, <1>8, <2>1
  <2> QED
    BY <1>1, <1>7, <1>10, <2>2, <2>3
<1>12. ASSUME NEW k \in 1 .. n
       PROVE  /\ PartOf(datagrams[k], messages)
              /\ k = 1 => Starts(datagrams[k])
              /\ k = n => Ends(datagrams[k])
  <2>1. PICK a, c : a = from(k) /\ c = ends[k]
    OBVIOUS
  <2>2. c \in 1 .. Len(messages) /\ a \in 1 .. Len(messages) /\ a <= c
    <3>1. CASE k = 1
      <4>1. a = 1
        BY <2>1, <3>1
      <4> QED
        BY <1>1, <1>8, <2>1, <4>1
    <3>2. CASE k # 1
      <4>1. PICK j \in 1 .. n : j = k - 1 /\ j < k
        <5>1. k - 1 \in 1 .. n /\ k - 1 < k
          BY <1>7, <3>2
        <5> QED
          BY <5>1
      <4>2. a = ends[j] + 1
        BY <2>1, <3>2, <4>1
      <4>3. ends[j] < ends[k] /\ ends[j] \in 1 .. Len(messages) /\ c \in 1 .. Len(messages)
        BY <1>8, <1>9, <2>1, <4>1
      <4> QED
        BY <1>1, <2>1, <4>2, <4>3
    <3> QED
      BY <3>1, <3>2
  <2>3. datagrams[k] = SubSeq(messages, a, c)
    BY <1>5, <1>7, <2>1
  <2>4. k = 1 => a = 1
    BY <2>1
  <2>5. k = n => c = Len(messages)
    BY <1>10, <1>11, <2>1
  <2> QED
    BY <2>2, <2>3, <2>4, <2>5, PieceOf
<1>13. IsSeq(datagrams) /\ Len(datagrams) = n
  <2>1. datagrams = [k \in 1 .. n |-> datagrams[k]]
    BY <1>5, <1>7
  <2> QED
    BY <1>7, <2>1, FunctionIsSeq
<1>14. 1 \in 1 .. n /\ n \in 1 .. n
  BY <1>7, <1>11
<1> QED
  BY <1>6, <1>7, <1>11, <1>12, <1>13, <1>14

-----------------------------------------------------------------------------
(* What a recovery has queued, and what it makes of it.                    *)
Within(queue, messages) ==
  \A n \in DOMAIN queue :
    n \in 0 .. Len(messages) - 1 /\ queue[n] = messages[n + 1].ome_update

QueueOf(queue, messages) == (DOMAIN queue # {} => 0 \in DOMAIN queue) /\ Within(queue, messages)

(* A snapshot that the first m updates made, and the k updates after it.   *)
CaughtUpBy(d, queued, messages, m, k, u, v) ==
  /\ d.n_seq_inc_next = m + 1 + k
  /\ m + 1 .. m + k \subseteq DOMAIN queued
  /\ d.pushed = <<>> \o (u \o v)
  /\ IsSeq(u) /\ Len(u) = Len(messages) - 2 /\ Between(u, messages)
  /\ IsSeq(v) /\ Len(v) = k /\ \A i \in 1 .. k : v[i] = queued[m + i]

CaughtUp(d, queued, messages, m) ==
  \E k \in Nat : \E u, v : CaughtUpBy(d, queued, messages, m, k, u, v)

Stretch(s, queue, a, k) ==
  IsSeq(s) /\ Len(s) = k /\ \A i \in 1 .. k : s[i] = queue[a + i - 1]

LEMMA InOrderOfInterval ==
  ASSUME NEW queue, NEW a \in Nat, NEW k \in Nat
  PROVE  Stretch(InOrder(queue, a .. a + k - 1), queue, a, k)
<1> DEFINE b == a + k - 1
           ns == Ascending(a .. b)
<1>1. PICK s : s = InOrder(queue, a .. a + k - 1)
  OBVIOUS
<1>2. DOMAIN ns = 1 .. k /\ \A i \in 1 .. k : ns[i] = a + i - 1
  <2>1. CASE k = 0
    <3>1. a .. b = {}
      BY <2>1
    <3>2. IsFiniteSet({}) /\ Cardinality({}) = 0
      BY FS_EmptySet
    <3>3. DOMAIN Ascending({}) = 1 .. 0
      BY <3>2, AscendingDomain
    <3> HIDE DEF b
    <3>4. DOMAIN ns = 1 .. 0
      BY <3>1, <3>3
    <3> HIDE DEF ns
    <3>5. 1 .. 0 = 1 .. k /\ \A i \in 1 .. k : FALSE
      BY <2>1
    <3> QED
      BY <3>4, <3>5
  <2>2. CASE k # 0
    <3>1. b \in Nat /\ a <= b /\ b - a + 1 = k
      BY <2>2
    <3> HIDE DEF b
    <3>2. /\ IsFiniteSet(a .. b) /\ Cardinality(a .. b) = b - a + 1
          /\ \A i \in 1 .. b - a + 1 : Ascending(a .. b)[i] = a + i - 1
      BY <3>1, AscendingOfInterval
    <3>3. DOMAIN Ascending(a .. b) = 1 .. Cardinality(a .. b)
      BY <3>2, AscendingDomain
    <3> QED
      BY <3>1, <3>2, <3>3
  <2> QED
    BY <2>1, <2>2
<1>3. s = [i \in DOMAIN ns |-> queue[ns[i]]]
  BY <1>1 DEF InOrder
<1> HIDE DEF ns
<1>4. s = [i \in 1 .. k |-> s[i]] /\ \A i \in 1 .. k : s[i] = queue[a + i - 1]
  BY <1>2, <1>3
<1>5. IsSeq(s) /\ Len(s) = k
  BY <1>4, FunctionIsSeq
<1> QED
  BY <1>1, <1>4, <1>5 DEF Stretch

LEMMA StartIsFirst ==
  ASSUME NEW messages, NEW b, NEW m, IsSnapshot(messages, b, m),
         NEW queue, Within(queue, messages), NEW n \in DOMAIN queue
  PROVE  /\ n \in Nat
         /\ queue[n].type = "SNAPSHOT_START" => n = 0
         /\ queue[n].type = "SNAPSHOT_END" => n = Len(messages) - 1
         /\ n = 0 => IsMarker(queue[n])
         /\ n = Len(messages) - 1 => IsMarker(queue[n]) /\ queue[n].type = "SNAPSHOT_END"
                                     /\ queue[n].oid = m
         /\ n # 0 /\ n # Len(messages) - 1 => ~ IsMarker(queue[n])
<1>1. n \in 0 .. Len(messages) - 1 /\ queue[n] = messages[n + 1].ome_update
  BY DEF Within
<1>2. Len(messages) \in Nat \ {0, 1}
  BY DEF IsSnapshot
<1>3. PICK i \in 1 .. Len(messages) : i = n + 1 /\ n = i - 1 /\ n \in Nat
  <2>1. n + 1 \in 1 .. Len(messages) /\ n = (n + 1) - 1 /\ n \in Nat
    BY <1>1, <1>2
  <2> QED
    BY <2>1
<1>4. /\ i = 1 => messages[i].ome_update.type = "SNAPSHOT_START"
      /\ i = Len(messages) =>
           messages[i].ome_update.type = "SNAPSHOT_END" /\ messages[i].ome_update.oid = m
      /\ i # 1 /\ i # Len(messages) => messages[i].ome_update.type \in {"ADD", "CLEAR"}
  BY DEF IsSnapshot
<1>5. (n = 0 <=> i = 1) /\ (n = Len(messages) - 1 <=> i = Len(messages))
  <2>1. PICK len \in Nat : len = Len(messages)
    BY <1>2
  <2>2. PICK p \in Nat : p = n
    BY <1>3
  <2>3. PICK j \in Nat : j = i /\ j = p + 1
    BY <1>2, <1>3, <2>2
  <2>4. (p = 0 <=> j = 1) /\ (p = len - 1 <=> j = len)
    BY <2>3
  <2> QED
    BY <2>1, <2>2, <2>3, <2>4
<1>6. queue[n] = messages[i].ome_update
  BY <1>1, <1>3
<1>7. ~ (i = 1 /\ i = Len(messages))
  BY <1>2
<1> QED
  BY <1>3, <1>4, <1>5, <1>6, <1>7 DEF IsMarker

LEMMA WholeSnapshot ==
  ASSUME NEW messages, NEW b, NEW m, IsSnapshot(messages, b, m),
         NEW queue, Within(queue, messages), IsFiniteSet(DOMAIN queue), DOMAIN queue \subseteq Nat,
         AtItsEnd(queue), ~ SnapshotHasGap(queue)
  PROVE  /\ DOMAIN queue = 0 .. Len(messages) - 1
         /\ Max(DOMAIN queue) = Len(messages) - 1
<1> DEFINE top == Max(DOMAIN queue)
           k == Cardinality(DOMAIN queue)
<1>1. DOMAIN queue # {} /\ queue[top].type = "SNAPSHOT_END"
  BY DEF AtItsEnd
<1>2. top \in DOMAIN queue
  BY <1>1, MaxOf
<1> HIDE DEF top
<1>3. top = Len(messages) - 1
  BY <1>1, <1>2, StartIsFirst
<1>4. DOMAIN queue = 0 .. k - 1
  BY DEF SnapshotHasGap
<1>5. k \in Nat
  BY FS_CardinalityType
<1> HIDE DEF k
<1>6. \A n \in DOMAIN queue : n \in 0 .. Len(messages) - 1
  BY DEF Within
<1>7. Len(messages) \in Nat \ {0, 1}
  BY DEF IsSnapshot
<1>8. Len(messages) - 1 \in 0 .. k - 1
  BY <1>2, <1>3, <1>4
<1>9. k - 1 \in DOMAIN queue
  BY <1>4, <1>5, <1>7, <1>8
<1>10. k - 1 = Len(messages) - 1
  BY <1>5, <1>6, <1>7, <1>8, <1>9
<1> QED
  BY <1>3, <1>4, <1>10 DEF top

LEMMA OrdersOfWhole ==
  ASSUME NEW messages, NEW b, NEW m, IsSnapshot(messages, b, m),
         NEW queue, Within(queue, messages), DOMAIN queue = 0 .. Len(messages) - 1
  PROVE  LET u == InOrder(queue, {n \in DOMAIN queue : ~ IsMarker(queue[n])})
         IN IsSeq(u) /\ Len(u) = Len(messages) - 2 /\ Between(u, messages)
<1>1. PICK k \in Nat : k = Len(messages) - 2 /\ Len(messages) - 1 = k + 1
  <2>1. Len(messages) \in Nat \ {0, 1}
    BY DEF IsSnapshot
  <2>2. PICK len \in Nat : len = Len(messages) /\ len # 0 /\ len # 1
    BY <2>1
  <2>3. len - 2 \in Nat /\ len - 1 = (len - 2) + 1
    BY <2>2
  <2> QED
    BY <2>2, <2>3
<1>2. {n \in DOMAIN queue : ~ IsMarker(queue[n])} = 1 .. 1 + k - 1
  <2>1. \A n \in DOMAIN queue : ~ IsMarker(queue[n]) <=> n # 0 /\ n # k + 1
    BY <1>1, StartIsFirst
  <2>2. DOMAIN queue = 0 .. k + 1
    BY <1>1
  <2>3. \A n : n \in 1 .. 1 + k - 1 <=> n \in 0 .. k + 1 /\ n # 0 /\ n # k + 1
    OBVIOUS
  <2> QED
    BY <2>1, <2>2, <2>3
<1>3. PICK u : u = InOrder(queue, 1 .. 1 + k - 1)
  OBVIOUS
<1>4. IsSeq(u) /\ Len(u) = k /\ \A i \in 1 .. k : u[i] = queue[1 + i - 1]
  <2>1. PICK a \in Nat : a = 1
    OBVIOUS
  <2>2. u = InOrder(queue, a .. a + k - 1)
    BY <1>3, <2>1
  <2>3. Stretch(u, queue, a, k)
    BY <2>2, InOrderOfInterval
  <2> QED
    BY <2>1, <2>3 DEF Stretch
<1>5. ASSUME NEW i \in 1 .. Len(messages) - 2
      PROVE  u[i] = messages[i + 1].ome_update
  <2>0. i \in 1 .. k
    BY <1>1
  <2>1. i \in 1 .. k /\ 1 + i - 1 = i /\ i \in DOMAIN queue
    <3>1. i \in 0 .. k + 1 /\ 1 + i - 1 = i
      BY <2>0
    <3>2. DOMAIN queue = 0 .. k + 1
      BY <1>1
    <3> QED
      BY <2>0, <3>1, <3>2
  <2>2. queue[i] = messages[i + 1].ome_update
    BY <2>1 DEF Within
  <2> QED
    BY <1>4, <2>1, <2>2
<1>6. Between(u, messages)
  BY <1>5 DEF Between
<1> QED
  BY <1>1, <1>2, <1>3, <1>4, <1>6

(* A recovery that goes on, and keeps what it queued of one stream.        *)
StillQueues(d, queued) ==
  /\ d.is_in_recovery = TRUE /\ d.pushed = <<>>
  /\ d.queued_incremental_updates = queued

LEMMA DiscardedIs ==
  ASSUME NEW c, IsConsumer(c), c.is_in_recovery = TRUE, c.pushed = <<>>, NEW next
  PROVE  /\ LET d == [Discard(c) EXCEPT !.n_seq_inc_next = next]
            IN StillQueues(d, c.queued_incremental_updates) /\ d.queued_snapshot_updates = NoUpdates
         /\ StillQueues(Discard(c), c.queued_incremental_updates)
         /\ Discard(c).queued_snapshot_updates = NoUpdates
<1>1. PICK x : x = Discard(c)
  OBVIOUS
<1>2. x = [n_seq_inc_next |-> c.n_seq_inc_next, is_in_recovery |-> c.is_in_recovery,
           pushed |-> c.pushed, queued_snapshot_updates |-> NoUpdates,
           queued_incremental_updates |-> c.queued_incremental_updates]
  BY <1>1 DEF Discard, IsConsumer
<1>3. PICK y : y = [x EXCEPT !.n_seq_inc_next = next]
  OBVIOUS
<1>4. y = [n_seq_inc_next |-> next, is_in_recovery |-> c.is_in_recovery,
           pushed |-> c.pushed, queued_snapshot_updates |-> NoUpdates,
           queued_incremental_updates |-> c.queued_incremental_updates]
  BY <1>2, <1>3
<1>5. StillQueues(x, c.queued_incremental_updates) /\ x.queued_snapshot_updates = NoUpdates
  BY <1>2 DEF StillQueues
<1>6. StillQueues(y, c.queued_incremental_updates) /\ y.queued_snapshot_updates = NoUpdates
  BY <1>4 DEF StillQueues
<1> QED
  BY <1>1, <1>3, <1>5, <1>6

LEMMA NextAfterWhole ==
  ASSUME NEW first \in Nat, NEW k \in Nat
  PROVE  Min((first .. first + k) \ (first .. first + k - 1)) = first + k
<1>1. PICK T : T = (first .. first + k) \ (first .. first + k - 1)
  OBVIOUS
<1>2. \A n : n \in T <=> n = first + k
  BY <1>1
<1>3. T \in SUBSET Nat /\ T # {}
  BY <1>2
<1>4. Min(T) \in T
  BY <1>3, MinOf
<1> QED
  BY <1>1, <1>2, <1>4

LEMMA CompletedAs ==
  ASSUME NEW messages, NEW b, NEW last \in Nat, NEW m \in 0 .. last, IsSnapshot(messages, b, m),
         NEW c, IsConsumer(c), c.is_in_recovery = TRUE, c.pushed = <<>>,
         DOMAIN c.queued_incremental_updates \subseteq 1 .. last,
         Within(c.queued_snapshot_updates, messages),
         DOMAIN c.queued_snapshot_updates = 0 .. Len(messages) - 1,
         Max(DOMAIN c.queued_snapshot_updates) = Len(messages) - 1
  PROVE  LET d == CompleteSync(c)
         IN \/ /\ StillQueues(d, c.queued_incremental_updates)
               /\ d.queued_snapshot_updates = NoUpdates
            \/ d.is_in_recovery = FALSE /\ CaughtUp(d, c.queued_incremental_updates, messages, m)
<1>1. PICK snapshot, queued : /\ snapshot = c.queued_snapshot_updates
                              /\ queued = c.queued_incremental_updates
  OBVIOUS
<1>2. PICK first \in Nat : first = m + 1 /\ first = AfterSnapshot(snapshot)
  <2>1. Len(messages) - 1 \in DOMAIN snapshot
    <3>1. Len(messages) \in Nat \ {0, 1}
      BY DEF IsSnapshot
    <3> QED
      BY <1>1, <3>1
  <2>2. snapshot[Len(messages) - 1].oid = m
    BY <1>1, <2>1, StartIsFirst
  <2>3. AfterSnapshot(snapshot) = m + 1
    BY <1>1, <2>2 DEF AfterSnapshot
  <2>4. m + 1 \in Nat
    OBVIOUS
  <2> QED
    BY <2>3, <2>4
<1>3. PICK later : later = {n \in DOMAIN queued : n >= first}
  OBVIOUS
<1>4. PICK k \in Nat : k = Cardinality(later)
  <2>1. IsFiniteSet(1 .. last)
    BY FS_Interval
  <2>2. later \in SUBSET (1 .. last)
    BY <1>1, <1>3
  <2>3. IsFiniteSet(later)
    BY <2>1, <2>2, FS_Subset
  <2> QED
    BY <2>3, FS_CardinalityType
<1>5. PICK next : next = Min((first .. first + k) \ later)
  OBVIOUS
<1>6. PICK all : all = c.pushed \o updates_to_process(snapshot, queued, later)
  OBVIOUS
<1>7. CompleteSync(c) = IF IncrementalGap(later, first)
                        THEN [Discard(c) EXCEPT !.n_seq_inc_next = next]
                        ELSE [NewConsumer EXCEPT !.n_seq_inc_next = next, !.pushed = all]
  BY <1>1, <1>2, <1>3, <1>4, <1>5, <1>6 DEF CompleteSync
<1>8. CASE IncrementalGap(later, first)
  BY <1>7, <1>8, DiscardedIs
<1>9. CASE ~ IncrementalGap(later, first)
  <2>1. PICK d : d = CompleteSync(c)
    OBVIOUS
  <2>2. d = [n_seq_inc_next |-> next, is_in_recovery |-> FALSE, pushed |-> all,
             queued_snapshot_updates |-> NoUpdates, queued_incremental_updates |-> NoUpdates]
    BY <1>7, <1>9, <2>1, Renewed
  <2>3. d.is_in_recovery = FALSE /\ d.n_seq_inc_next = next /\ d.pushed = all
    BY <2>2
  <2>4. later = first .. first + k - 1
    BY <1>4, <1>9 DEF IncrementalGap
  <2>5. next = first + k
    BY <1>5, <2>4, NextAfterWhole
  <2>6. PICK u : /\ u = InOrder(snapshot, {n \in DOMAIN snapshot : ~ IsMarker(snapshot[n])})
                 /\ IsSeq(u) /\ Len(u) = Len(messages) - 2 /\ Between(u, messages)
    BY <1>1, OrdersOfWhole
  <2>13. PICK v : v = InOrder(queued, first .. first + k - 1)
    OBVIOUS
  <2>14. Stretch(v, queued, first, k)
    BY <2>13, InOrderOfInterval
  <2>7. IsSeq(v) /\ Len(v) = k /\ \A i \in 1 .. k : v[i] = queued[first + i - 1]
    BY <2>14 DEF Stretch
  <2>8. all = <<>> \o (u \o v)
    BY <1>6, <2>4, <2>6, <2>13 DEF updates_to_process
  <2>9. \A i \in 1 .. k : v[i] = queued[m + i]
    <3>1. \A i \in 1 .. k : first + i - 1 = m + i
      BY <1>2
    <3> QED
      BY <2>7, <3>1
  <2>10. m + 1 .. m + k \subseteq DOMAIN queued
    <3>1. m + 1 .. m + k = first .. first + k - 1
      BY <1>2
    <3> QED
      BY <1>3, <2>4, <3>1
  <2>11. next = m + 1 + k
    BY <1>2, <2>5
  <2>12. CaughtUp(d, queued, messages, m)
    <3>1. CaughtUpBy(d, queued, messages, m, k, u, v)
      BY <2>3, <2>6, <2>7, <2>8, <2>9, <2>10, <2>11 DEF CaughtUpBy
    <3> QED
      BY <3>1 DEF CaughtUp
  <2> QED
    BY <1>1, <2>1, <2>3, <2>12
<1> QED
  BY <1>8, <1>9

LEMMA SnapshotChecked ==
  ASSUME NEW messages, NEW b, NEW last \in Nat, NEW m \in 0 .. last, IsSnapshot(messages, b, m),
         NEW c, IsConsumer(c), c.is_in_recovery = TRUE, c.pushed = <<>>,
         DOMAIN c.queued_incremental_updates \subseteq 1 .. last,
         NEW queue, queue = c.queued_snapshot_updates, Within(queue, messages),
         IsFiniteSet(DOMAIN queue), DOMAIN queue \subseteq Nat
  PROVE  LET d == snapshot_sync_check(c)
         IN \/ /\ StillQueues(d, c.queued_incremental_updates)
               /\ QueueOf(d.queued_snapshot_updates, messages)
               /\ AtItsEnd(queue) => d.queued_snapshot_updates = NoUpdates
            \/ /\ d.is_in_recovery = FALSE /\ AtItsEnd(queue)
               /\ CaughtUp(d, c.queued_incremental_updates, messages, m)
<1>1. PICK d : d = snapshot_sync_check(c)
  OBVIOUS
<1>2. DOMAIN NoUpdates = {} /\ QueueOf(NoUpdates, messages)
  <2>1. DOMAIN NoUpdates = {}
    BY DEF NoUpdates
  <2> QED
    BY <2>1 DEF QueueOf, Within
<1>3. CASE DOMAIN queue = {}
  <2>1. d = c
    BY <1>1, <1>3 DEF snapshot_sync_check
  <2>2. QueueOf(queue, messages) /\ ~ AtItsEnd(queue)
    BY <1>3 DEF QueueOf, AtItsEnd
  <2> QED
    BY <1>1, <2>1, <2>2 DEF StillQueues
<1>4. CASE /\ DOMAIN queue # {}
           /\ queue[Min(DOMAIN queue)].type # "SNAPSHOT_START" \/ SnapshotHasGap(queue)
  <2>1. d = Discard(c)
    BY <1>1, <1>4 DEF snapshot_sync_check
  <2> QED
    BY <1>1, <1>2, <2>1, DiscardedIs
<1>5. CASE /\ DOMAIN queue # {}
           /\ queue[Min(DOMAIN queue)].type = "SNAPSHOT_START" /\ ~ SnapshotHasGap(queue)
           /\ queue[Max(DOMAIN queue)].type # "SNAPSHOT_END"
  <2>1. d = c
    BY <1>1, <1>5 DEF snapshot_sync_check
  <2>2. Min(DOMAIN queue) \in DOMAIN queue
    BY <1>5, MinOf
  <2>3. 0 \in DOMAIN queue
    BY <1>5, <2>2, StartIsFirst
  <2>4. QueueOf(queue, messages) /\ ~ AtItsEnd(queue)
    BY <1>5, <2>3 DEF QueueOf, AtItsEnd
  <2> QED
    BY <1>1, <2>1, <2>4 DEF StillQueues
<1>6. CASE /\ DOMAIN queue # {}
           /\ queue[Min(DOMAIN queue)].type = "SNAPSHOT_START" /\ ~ SnapshotHasGap(queue)
           /\ queue[Max(DOMAIN queue)].type = "SNAPSHOT_END"
  <2>1. d = CompleteSync(c)
    BY <1>1, <1>6 DEF snapshot_sync_check
  <2>2. AtItsEnd(queue)
    BY <1>6 DEF AtItsEnd
  <2>3. DOMAIN queue = 0 .. Len(messages) - 1 /\ Max(DOMAIN queue) = Len(messages) - 1
    BY <1>6, <2>2, WholeSnapshot
  <2>4. \/ /\ StillQueues(d, c.queued_incremental_updates)
           /\ d.queued_snapshot_updates = NoUpdates
        \/ d.is_in_recovery = FALSE /\ CaughtUp(d, c.queued_incremental_updates, messages, m)
    BY <2>1, <2>3, CompletedAs
  <2> QED
    BY <1>1, <1>2, <2>2, <2>4
<1> QED
  BY <1>3, <1>4, <1>5, <1>6

(* A message of a snapshot goes on with what is queued, or starts afresh.  *)
Fits(queue, messages, n) == QueueOf(queue, messages) \/ (n = 0 /\ 0 \in DOMAIN queue)

Outcome(d, queued, messages, m, ended) ==
  \/ /\ StillQueues(d, queued)
     /\ QueueOf(d.queued_snapshot_updates, messages)
     /\ ended => d.queued_snapshot_updates = NoUpdates
  \/ d.is_in_recovery = FALSE /\ CaughtUp(d, queued, messages, m)

LEMMA PutWithin ==
  ASSUME NEW messages, NEW b, NEW m, IsSnapshot(messages, b, m),
         NEW queue, IsFiniteSet(DOMAIN queue), DOMAIN queue \subseteq Nat,
         NEW message, message.n_seq \in 0 .. Len(messages) - 1,
         message = messages[message.n_seq + 1],
         Fits(queue, messages, message.n_seq)
  PROVE  LET put == Put(IF message.n_seq \in DOMAIN queue THEN NoUpdates ELSE queue, message)
         IN /\ Within(put, messages) /\ IsFiniteSet(DOMAIN put) /\ DOMAIN put \subseteq Nat
            /\ message.ome_update.type = "SNAPSHOT_END" => AtItsEnd(put)
<1>1. PICK q : q = IF message.n_seq \in DOMAIN queue THEN NoUpdates ELSE queue
  OBVIOUS
<1>2. IsFiniteSet(DOMAIN q) /\ DOMAIN q \subseteq Nat /\ Within(q, messages)
  <2>1. DOMAIN NoUpdates = {} /\ IsFiniteSet(DOMAIN NoUpdates)
    <3>1. DOMAIN NoUpdates = {}
      BY DEF NoUpdates
    <3> QED
      BY <3>1, FS_EmptySet
  <2>2. Within(NoUpdates, messages)
    BY <2>1 DEF Within
  <2>3. message.n_seq \notin DOMAIN queue => Within(queue, messages)
    BY DEF Fits, QueueOf
  <2> QED
    BY <1>1, <2>1, <2>2, <2>3
<1>3. PICK put : put = Put(q, message)
  OBVIOUS
<1>4. /\ DOMAIN put = DOMAIN q \cup {message.n_seq}
      /\ put[message.n_seq] = message.ome_update
      /\ \A n \in DOMAIN q : n # message.n_seq => put[n] = q[n]
  BY <1>3 DEF Put
<1>5. IsFiniteSet(DOMAIN put) /\ DOMAIN put \subseteq Nat
  <2>1. message.n_seq \in Nat
    OBVIOUS
  <2>2. IsFiniteSet(DOMAIN q \cup {message.n_seq})
    BY <1>2, FS_AddElement
  <2> QED
    BY <1>2, <1>4, <2>1, <2>2
<1>6. Within(put, messages)
  BY <1>2, <1>4 DEF Within
<1>7. ASSUME message.ome_update.type = "SNAPSHOT_END"
      PROVE  AtItsEnd(put)
  <2>1. message.n_seq \in DOMAIN put /\ message.n_seq = Len(messages) - 1
    BY <1>4, <1>6, <1>7, StartIsFirst
  <2>2. PICK top : top = Max(DOMAIN put)
    OBVIOUS
  <2>3. top \in DOMAIN put /\ message.n_seq <= top
    BY <1>5, <2>1, <2>2, MaxOf
  <2>4. top \in 0 .. Len(messages) - 1
    BY <1>6, <2>3 DEF Within
  <2>5. top = message.n_seq
    <3>1. PICK len \in Nat : len = Len(messages)
      BY DEF IsSnapshot
    <3> QED
      BY <2>1, <2>3, <2>4, <3>1
  <2> QED
    BY <1>4, <1>7, <2>2, <2>5 DEF AtItsEnd
<1> QED
  BY <1>1, <1>3, <1>5, <1>6, <1>7

LEMMA SnapshotMessageOf ==
  ASSUME NEW messages, NEW b, NEW last \in Nat, NEW covered \in 0 .. last, NEW m \in 0 .. covered,
         IsSnapshot(messages, b, m),
         NEW c, ConsumerOK(c, last, covered), c.is_in_recovery, c.pushed = <<>>,
         NEW message, message.n_seq \in 0 .. Len(messages) - 1,
         message = messages[message.n_seq + 1],
         Fits(c.queued_snapshot_updates, messages, message.n_seq)
  PROVE  Outcome(rx_message(TRUE, c, message), c.queued_incremental_updates, messages, m,
                 message.ome_update.type = "SNAPSHOT_END")
<1>1. PICK queue : queue = c.queued_snapshot_updates
  OBVIOUS
<1>2. PICK put : put = Put(IF message.n_seq \in DOMAIN queue THEN NoUpdates ELSE queue, message)
  OBVIOUS
<1>3. IsConsumer(c) /\ c.is_in_recovery = TRUE /\ IsFiniteSet(DOMAIN queue)
      /\ DOMAIN queue \subseteq Nat /\ DOMAIN c.queued_incremental_updates \subseteq 1 .. last
  BY <1>1 DEF ConsumerOK, SnapshotQueueOK
<1>4. /\ Within(put, messages) /\ IsFiniteSet(DOMAIN put) /\ DOMAIN put \subseteq Nat
      /\ message.ome_update.type = "SNAPSHOT_END" => AtItsEnd(put)
  <2>1. Fits(queue, messages, message.n_seq)
    BY <1>1
  <2> QED
    BY <1>2, <1>3, <2>1, PutWithin
<1>5. PICK x : x = [c EXCEPT !.queued_snapshot_updates = put]
  OBVIOUS
<1>6. rx_message(TRUE, c, message) = snapshot_sync_check(x)
  BY <1>1, <1>2, <1>5 DEF rx_message, queue_update, QueueSnapshot
<1>7. x = [n_seq_inc_next |-> c.n_seq_inc_next, is_in_recovery |-> c.is_in_recovery,
           pushed |-> c.pushed, queued_snapshot_updates |-> put,
           queued_incremental_updates |-> c.queued_incremental_updates]
  BY <1>3, <1>5, WithSnapshot
<1>8. /\ IsConsumer(x) /\ x.is_in_recovery = TRUE /\ x.pushed = <<>>
      /\ x.queued_incremental_updates = c.queued_incremental_updates
      /\ put = x.queued_snapshot_updates
  BY <1>3, <1>7 DEF IsConsumer
<1>9. PICK d : d = snapshot_sync_check(x)
  OBVIOUS
<1>10. \/ /\ StillQueues(d, x.queued_incremental_updates)
          /\ QueueOf(d.queued_snapshot_updates, messages)
          /\ AtItsEnd(put) => d.queued_snapshot_updates = NoUpdates
       \/ /\ d.is_in_recovery = FALSE /\ AtItsEnd(put)
          /\ CaughtUp(d, x.queued_incremental_updates, messages, m)
  <2>1. m \in 0 .. last
    OBVIOUS
  <2>2. DOMAIN x.queued_incremental_updates \subseteq 1 .. last
    BY <1>3, <1>8
  <2> QED
    BY <1>4, <1>8, <1>9, <2>1, <2>2, SnapshotChecked
<1> QED
  BY <1>4, <1>6, <1>8, <1>9, <1>10 DEF Outcome

LEMMA SnapshotDatagramOf ==
  ASSUME NEW messages, NEW b, NEW last \in Nat, NEW covered \in 0 .. last, NEW m \in 0 .. covered,
         IsSnapshot(messages, b, m),
         NEW c, ConsumerOK(c, last, covered), c.is_in_recovery, c.pushed = <<>>,
         NEW datagram, SnapshotDatagramOK(datagram, covered), PartOf(datagram, messages),
         Fits(c.queued_snapshot_updates, messages, datagram[1].n_seq)
  PROVE  Outcome(rx_callback(TRUE, c, datagram), c.queued_incremental_updates, messages, m,
                 Ends(datagram))
<1>0. Len(datagram) \in Nat \ {0}
  BY DEF PartOf
<1> DEFINE yes == TRUE
<1> HIDE DEF yes
<1>1. PICK f : HandledAs(f, yes, c, datagram)
  BY <1>0, Handled
<1>2. /\ f[0] = c
      /\ \A i \in Nat : i + 1 <= Len(datagram) =>
           f[i + 1] = rx_message(TRUE, f[i], datagram[i + 1])
      /\ rx_callback(TRUE, c, datagram) = f[Len(datagram)]
  BY <1>1 DEF HandledAs, rx_callback, yes
<1> DEFINE queued == c.queued_incremental_updates
           IsEnd(i) == datagram[i].ome_update.type = "SNAPSHOT_END"
           Good(i) == /\ ConsumerOK(f[i], last, covered)
                      /\ Outcome(f[i], queued, messages, m, IsEnd(i))
                      /\ ~ IsEnd(i) => f[i].is_in_recovery
           P == {i \in Nat : i + 1 <= Len(datagram) => Good(i + 1)}
<1>3. ASSUME NEW i \in 1 .. Len(datagram), NEW old, old = f[i - 1], ConsumerOK(old, last, covered),
             StillQueues(old, queued),
             Fits(old.queued_snapshot_updates, messages, datagram[i].n_seq)
      PROVE  Good(i)
  <2>1. PICK message : message = datagram[i]
    OBVIOUS
  <2>2. message.n_seq \in 0 .. Len(messages) - 1 /\ message = messages[message.n_seq + 1]
    BY <2>1 DEF PartOf
  <2>3. PICK new : new = rx_message(TRUE, old, message)
    OBVIOUS
  <2>4. f[i] = new
    <3>1. i - 1 \in Nat /\ (i - 1) + 1 = i /\ i <= Len(datagram)
      BY <1>0
    <3> QED
      BY <1>2, <1>3, <2>1, <2>3, <3>1
  <2>5. old.is_in_recovery /\ old.pushed = <<>> /\ old.queued_incremental_updates = queued
    BY <1>3 DEF StillQueues
  <2>6. Outcome(new, queued, messages, m, message.ome_update.type = "SNAPSHOT_END")
    <3>1. Fits(old.queued_snapshot_updates, messages, message.n_seq)
      BY <1>3, <2>1
    <3>2. ConsumerOK(old, last, covered)
      BY <1>3
    <3> HIDE DEF queued
    <3> QED
      BY <2>2, <2>3, <2>5, <3>1, <3>2, SnapshotMessageOf
  <2>7. /\ ConsumerOK(new, last, covered)
        /\ message.ome_update.type # "SNAPSHOT_END" => new.is_in_recovery
    <3>1. message.n_seq \in Nat
      BY <2>1 DEF SnapshotDatagramOK
    <3>2. message.ome_update.type = "SNAPSHOT_END" => message.ome_update.oid \in 0 .. covered
      BY <2>1 DEF SnapshotDatagramOK
    <3>3. /\ Settled(old, new, last, covered)
          /\ message.ome_update.type # "SNAPSHOT_END" => new.is_in_recovery
      BY <1>3, <2>3, <2>5, <3>1, <3>2, SnapshotMessage
    <3> QED
      BY <3>3 DEF Settled
  <2> QED
    BY <2>1, <2>4, <2>6, <2>7
<1>4. 0 \in P
  <2>1. 1 \in 1 .. Len(datagram) /\ 1 - 1 = 0 /\ 0 + 1 = 1
    BY <1>0
  <2>2. StillQueues(c, queued)
    BY DEF StillQueues, ConsumerOK
  <2>3. Good(1)
    BY <1>2, <1>3, <2>1, <2>2
  <2> QED
    BY <2>1, <2>3
<1>5. ASSUME NEW k \in P
      PROVE  k + 1 \in P
  <2> SUFFICES ASSUME (k + 1) + 1 <= Len(datagram)
               PROVE  Good((k + 1) + 1)
    OBVIOUS
  <2>1. PICK j \in 1 .. Len(datagram) : j = k + 1 /\ j # Len(datagram) /\ j + 1 \in 1 .. Len(datagram)
                                        /\ (j + 1) - 1 = j
    <3>1. k \in Nat
      OBVIOUS
    <3>2. k + 1 \in 1 .. Len(datagram) /\ k + 1 # Len(datagram) /\ (k + 1) + 1 \in 1 .. Len(datagram)
          /\ ((k + 1) + 1) - 1 = k + 1
      BY <1>0, <3>1
    <3> QED
      BY <3>2
  <2>2. Good(j)
    BY <1>0, <2>1
  <2>3. ~ IsEnd(j)
    BY <2>1 DEF SnapshotDatagramOK
  <2>4. PICK old : old = f[j]
    OBVIOUS
  <2>5. StillQueues(old, queued) /\ QueueOf(old.queued_snapshot_updates, messages)
    BY <2>2, <2>3, <2>4 DEF Outcome
  <2>6. Good(j + 1)
    BY <2>1, <2>2, <2>4, <2>5, <1>3 DEF Fits
  <2> QED
    BY <2>1, <2>6
<1>6. P \in SUBSET Nat
  OBVIOUS
<1> HIDE DEF P
<1>7. P = Nat
  BY <1>4, <1>5, <1>6, Induction
<1>8. Good(Len(datagram))
  <2>1. PICK k \in Nat : k + 1 = Len(datagram)
    <3>1. Len(datagram) - 1 \in Nat /\ (Len(datagram) - 1) + 1 = Len(datagram)
      BY <1>0
    <3> QED
      BY <3>1
  <2>2. k + 1 <= Len(datagram)
    BY <1>0, <2>1
  <2> QED
    BY <1>7, <2>1, <2>2 DEF P
<1> QED
  BY <1>2, <1>8 DEF Ends

-----------------------------------------------------------------------------
(* What the updates that are pushed make of the client's books.            *)
LEMMA AppliedConcat ==
  ASSUME NEW s, IsSeq(s), NEW t, IsSeq(t), NEW books
  PROVE  /\ IsSeq(s \o t)
         /\ AppliedFirst(Len(s \o t), s \o t, books)
              = AppliedFirst(Len(t), t, AppliedFirst(Len(s), s, books))
<1>1. PICK w : w = s \o t
  OBVIOUS
<1>2. IsSeq(s) /\ IsSeq(t)
  OBVIOUS
<1>3. Concatenates(w, s, t)
  BY <1>1, <1>2, ConcatIsSeq
<1>4. /\ IsSeq(w) /\ Len(w) = Len(s) + Len(t) /\ Len(s) \in Nat /\ Len(t) \in Nat
      /\ Joined(w, s, Len(s), t, Len(t))
  BY <1>3 DEF Concatenates, Joined
<1>5. AppliedFirst(Len(s) + Len(t), w, books)
        = AppliedFirst(Len(t), t, AppliedFirst(Len(s), s, books))
  BY <1>4, AppliedJoin
<1> QED
  BY <1>1, <1>4, <1>5

(* The exchange's books some updates later.                                *)
SentAfter(m, k, v) == \A i \in 1 .. k : v[i] = sent_updates[m + i]

LEMMA BooksLater ==
  ASSUME NEW m \in Nat, NEW k \in Nat, NEW v, SentAfter(m, k, v)
  PROVE  AppliedFirst(k, v, Books(m)) = Books(m + k)
<1>1. Joined(sent_updates, sent_updates, m, v, k)
  BY DEF Joined, SentAfter
<1>2. AppliedFirst(m + k, sent_updates, EmptyBooks)
        = AppliedFirst(k, v, AppliedFirst(m, sent_updates, EmptyBooks))
  BY <1>1, AppliedJoin
<1> QED
  BY <1>2 DEF Books

LEMMA CaughtUpBooks ==
  ASSUME NEW messages, NEW m \in Nat, IsSnapshot(messages, Books(m), m),
         NEW queued, \A n \in DOMAIN queued : queued[n] = sent_updates[n],
         NEW d, CaughtUp(d, queued, messages, m), NEW books, OfTickers(books)
  PROVE  AppliedFirst(Len(d.pushed), d.pushed, books) = Books(d.n_seq_inc_next - 1)
<1>1. PICK k \in Nat : \E u, v : CaughtUpBy(d, queued, messages, m, k, u, v)
  BY DEF CaughtUp
<1>2. PICK u, v : CaughtUpBy(d, queued, messages, m, k, u, v)
  BY <1>1
<1>3. /\ d.n_seq_inc_next = m + 1 + k
       /\ m + 1 .. m + k \subseteq DOMAIN queued
       /\ d.pushed = <<>> \o (u \o v)
       /\ IsSeq(u) /\ Len(u) = Len(messages) - 2 /\ Between(u, messages)
       /\ IsSeq(v) /\ Len(v) = k /\ \A i \in 1 .. k : v[i] = queued[m + i]
  BY <1>2 DEF CaughtUpBy
<1>4. AppliedFirst(Len(u), u, books) = Books(m)
  <2>1. AppliedFirst(Len(messages) - 2, u, books) = Books(m)
    BY <1>3, SnapshotMakes
  <2> QED
    BY <1>3, <2>1
<1>5. AppliedFirst(Len(v), v, Books(m)) = Books(m + k)
  <2>1. ASSUME NEW i \in 1 .. k
        PROVE  v[i] = sent_updates[m + i]
    <3>1. m + i \in m + 1 .. m + k
      OBVIOUS
    <3>2. m + i \in DOMAIN queued
      BY <1>3, <3>1
    <3> QED
      BY <1>3, <3>2
  <2>2. SentAfter(m, k, v)
    BY <2>1 DEF SentAfter
  <2> QED
    BY <1>3, <2>2, BooksLater
<1>6. PICK w : w = u \o v
  OBVIOUS
<1>7. IsSeq(w) /\ AppliedFirst(Len(w), w, books) = Books(m + k)
  <2>1. IsSeq(u) /\ IsSeq(v)
    BY <1>3
  <2>2. IsSeq(w) /\ AppliedFirst(Len(w), w, books)
                      = AppliedFirst(Len(v), v, AppliedFirst(Len(u), u, books))
    BY <1>6, <2>1, AppliedConcat
  <2> QED
    BY <1>4, <1>5, <2>2
<1>8. PICK none : none = <<>>
  OBVIOUS
<1>9. AppliedFirst(Len(none \o w), none \o w, books) = Books(m + k)
  <2>1. IsSeq(none) /\ Len(none) = 0
    BY <1>8, EmptyIsSeq
  <2>2. AppliedFirst(Len(none \o w), none \o w, books)
          = AppliedFirst(Len(w), w, AppliedFirst(Len(none), none, books))
    <3>1. IsSeq(none) /\ IsSeq(w)
      BY <1>7, <2>1
    <3> QED
      BY ONLY <3>1, AppliedConcat
  <2>3. AppliedFirst(0, none, books) = books
    BY AppliedStep
  <2> QED
    BY <1>7, <2>1, <2>2, <2>3
<1>10. m + 1 + k - 1 = m + k
  OBVIOUS
<1> QED
  BY <1>3, <1>6, <1>8, <1>9, <1>10

-----------------------------------------------------------------------------
(* What the messages of the incremental stream push and queue.             *)
LEMMA IncrementalQueuedAs ==
  ASSUME NEW covered, NEW c, IsConsumer(c), c.is_in_recovery = TRUE, c.pushed = <<>>,
         SnapshotQueueOK(c.queued_snapshot_updates, covered), NEW message
  PROVE  LET d == queue_update(FALSE, c, message)
         IN /\ StillQueues(d, Put(c.queued_incremental_updates, message))
            /\ d.queued_snapshot_updates \in {c.queued_snapshot_updates, NoUpdates}
<1>1. PICK put : put = Put(c.queued_incremental_updates, message)
  OBVIOUS
<1>2. PICK x : x = [c EXCEPT !.queued_incremental_updates = put]
  OBVIOUS
<1>3. x = [n_seq_inc_next |-> c.n_seq_inc_next, is_in_recovery |-> c.is_in_recovery,
           pushed |-> c.pushed, queued_snapshot_updates |-> c.queued_snapshot_updates,
           queued_incremental_updates |-> put]
  BY <1>2 DEF IsConsumer
<1>4. queue_update(FALSE, c, message) = snapshot_sync_check(x)
  BY <1>1, <1>2 DEF queue_update
<1>5. /\ IsConsumer(x) /\ x.is_in_recovery = TRUE /\ x.pushed = <<>>
      /\ x.queued_incremental_updates = put
      /\ x.queued_snapshot_updates = c.queued_snapshot_updates
  BY <1>3 DEF IsConsumer
<1>6. ~ AtItsEnd(x.queued_snapshot_updates)
  BY <1>5, NotAtItsEnd
<1>7. PICK d : d = snapshot_sync_check(x)
  OBVIOUS
<1>8. d = x \/ d = Discard(x)
  BY <1>6, <1>7 DEF snapshot_sync_check, AtItsEnd
<1>9. CASE d = x
  BY <1>1, <1>4, <1>5, <1>7, <1>9 DEF StillQueues
<1>10. CASE d = Discard(x)
  <2>1. StillQueues(Discard(x), x.queued_incremental_updates)
        /\ Discard(x).queued_snapshot_updates = NoUpdates
    BY <1>5, DiscardedIs
  <2> QED
    BY <1>1, <1>4, <1>5, <1>7, <1>10, <2>1
<1> QED
  BY <1>8, <1>9, <1>10

StepOf(c, d, message) ==
  /\ c.pushed = <<>> /\ (c.is_in_recovery \/ message.n_seq # c.n_seq_inc_next) =>
       /\ StillQueues(d, Put(c.queued_incremental_updates, message))
       /\ d.queued_snapshot_updates \in {c.queued_snapshot_updates, NoUpdates}
  /\ ~ c.is_in_recovery /\ message.n_seq = c.n_seq_inc_next =>
       /\ d.is_in_recovery = FALSE /\ d.n_seq_inc_next = c.n_seq_inc_next + 1
       /\ d.pushed = Append(c.pushed, message.ome_update)

LEMMA IncrementalMessageOf ==
  ASSUME NEW last \in Nat, NEW covered, NEW c, ConsumerOK(c, last, covered), NEW message,
         NEW d, d = rx_message(FALSE, c, message)
  PROVE  StepOf(c, d, message)
<1>1. d = rx_message(FALSE, c, message)
  OBVIOUS
<1>2. /\ IsConsumer(c) /\ c.is_in_recovery \in BOOLEAN
      /\ SnapshotQueueOK(c.queued_snapshot_updates, covered)
      /\ ~ c.is_in_recovery =>
           c.queued_snapshot_updates = NoUpdates /\ c.queued_incremental_updates = NoUpdates
  BY DEF ConsumerOK
<1>3. CASE c.is_in_recovery
  <2>1. d = queue_update(FALSE, c, message) /\ c.is_in_recovery = TRUE
    BY <1>1, <1>2, <1>3 DEF rx_message
  <2>2. c.pushed = <<>> =>
          /\ StillQueues(d, Put(c.queued_incremental_updates, message))
          /\ d.queued_snapshot_updates \in {c.queued_snapshot_updates, NoUpdates}
    BY <1>2, <2>1, IncrementalQueuedAs
  <2> QED
    BY <1>1, <1>3, <2>2 DEF StepOf
<1>4. CASE ~ c.is_in_recovery /\ message.n_seq # c.n_seq_inc_next
  <2>1. PICK yes : yes = TRUE
    OBVIOUS
  <2>2. PICK z : z = [c EXCEPT !.is_in_recovery = yes]
    OBVIOUS
  <2>3. PICK y : y = snapshot_sync_start(z)
    OBVIOUS
  <2>4. d = queue_update(FALSE, y, message)
    BY <1>1, <1>4, <2>1, <2>2, <2>3 DEF rx_message
  <2>5. z = [n_seq_inc_next |-> c.n_seq_inc_next, is_in_recovery |-> yes, pushed |-> c.pushed,
             queued_snapshot_updates |-> c.queued_snapshot_updates,
             queued_incremental_updates |-> c.queued_incremental_updates]
    BY <1>2, <2>2 DEF IsConsumer
  <2>6. z.queued_snapshot_updates = NoUpdates /\ z.queued_incremental_updates = NoUpdates
    BY <1>2, <1>4, <2>5
  <2>7. y = z
    BY <2>3, <2>5, <2>6 DEF snapshot_sync_start
  <2>8. IsConsumer(y) /\ y.is_in_recovery = TRUE /\ y.pushed = c.pushed
        /\ y.queued_snapshot_updates = c.queued_snapshot_updates
        /\ y.queued_incremental_updates = c.queued_incremental_updates
    BY <2>1, <2>5, <2>7 DEF IsConsumer
  <2>9. c.pushed = <<>> =>
          /\ StillQueues(d, Put(y.queued_incremental_updates, message))
          /\ d.queued_snapshot_updates \in {y.queued_snapshot_updates, NoUpdates}
    BY <1>2, <2>4, <2>8, IncrementalQueuedAs
  <2> QED
    BY <1>1, <1>4, <2>8, <2>9 DEF StepOf
<1>5. CASE ~ c.is_in_recovery /\ message.n_seq = c.n_seq_inc_next
  <2>1. PICK next, all : next = c.n_seq_inc_next + 1 /\ all = Append(c.pushed, message.ome_update)
    OBVIOUS
  <2>2. PICK v : v = [c EXCEPT !.n_seq_inc_next = next]
    OBVIOUS
  <2>3. v = [n_seq_inc_next |-> next, is_in_recovery |-> c.is_in_recovery, pushed |-> c.pushed,
             queued_snapshot_updates |-> c.queued_snapshot_updates,
             queued_incremental_updates |-> c.queued_incremental_updates]
    BY <1>2, <2>2 DEF IsConsumer
  <2>4. d = [v EXCEPT !.pushed = all]
    <3>1. d = [c EXCEPT !.n_seq_inc_next = @ + 1, !.pushed = Append(@, message.ome_update)]
      BY <1>1, <1>5 DEF rx_message
    <3> QED
      BY <1>2, <2>1, <2>2, <2>3, <3>1 DEF IsConsumer
  <2>5. d.is_in_recovery = c.is_in_recovery /\ d.n_seq_inc_next = next /\ d.pushed = all
    BY <2>3, <2>4
  <2> QED
    BY <1>1, <1>2, <1>5, <2>1, <2>5 DEF StepOf
<1> QED
  BY <1>3, <1>4, <1>5 DEF StepOf

Consecutive(datagram) ==
  \A i \in 1 .. Len(datagram) : datagram[i].n_seq = datagram[1].n_seq + i - 1

HasQueuedSent(c) ==
  \A n \in DOMAIN c.queued_incremental_updates : c.queued_incremental_updates[n] = sent_updates[n]

(* The datagram begins a recovery, or comes during one ...                 *)
Recovers(c, d) ==
  /\ d.is_in_recovery = TRUE /\ d.pushed = <<>> /\ HasQueuedSent(d)
  /\ d.queued_snapshot_updates \in {c.queued_snapshot_updates, NoUpdates}

(* ... or its first i messages are what the client expected.               *)
KeepsUp(c, d, i) ==
  /\ c.is_in_recovery = FALSE /\ d.is_in_recovery = FALSE
  /\ d.n_seq_inc_next = c.n_seq_inc_next + i
  /\ IsSeq(d.pushed) /\ Len(d.pushed) = i
  /\ \A j \in 1 .. i : d.pushed[j] = sent_updates[c.n_seq_inc_next + j - 1]

LEMMA PutSent ==
  ASSUME NEW c, NEW d, HasQueuedSent(c), NEW message,
         message.ome_update = sent_updates[message.n_seq],
         StillQueues(d, Put(c.queued_incremental_updates, message))
  PROVE  HasQueuedSent(d)
<1>1. PICK put : put = Put(c.queued_incremental_updates, message)
  OBVIOUS
<1>2. /\ DOMAIN put = DOMAIN c.queued_incremental_updates \cup {message.n_seq}
      /\ put[message.n_seq] = message.ome_update
      /\ \A n \in DOMAIN c.queued_incremental_updates :
           n # message.n_seq => put[n] = c.queued_incremental_updates[n]
  BY <1>1 DEF Put
<1>3. \A n \in DOMAIN put : put[n] = sent_updates[n]
  BY <1>2 DEF HasQueuedSent
<1> QED
  BY <1>1, <1>3 DEF HasQueuedSent, StillQueues

LEMMA OneMorePushed ==
  ASSUME NEW c, c.n_seq_inc_next \in Nat, NEW i \in Nat, NEW old, KeepsUp(c, old, i),
         NEW new, new.is_in_recovery = FALSE, new.n_seq_inc_next = old.n_seq_inc_next + 1,
         new.pushed = Append(old.pushed, sent_updates[old.n_seq_inc_next])
  PROVE  KeepsUp(c, new, i + 1)
<1>1. PICK s, t, x : s = old.pushed /\ x = sent_updates[old.n_seq_inc_next] /\ t = Append(s, x)
  OBVIOUS
<1>2. IsSeq(s) /\ Len(s) = i /\ \A j \in 1 .. i : s[j] = sent_updates[c.n_seq_inc_next + j - 1]
  BY <1>1 DEF KeepsUp
<1>3. /\ IsSeq(t) /\ Len(t) = i + 1 /\ t[i + 1] = x
      /\ \A j \in 1 .. i : t[j] = s[j]
  BY <1>1, <1>2, AppendIsSeq
<1>4. x = sent_updates[c.n_seq_inc_next + (i + 1) - 1] /\ new.n_seq_inc_next = c.n_seq_inc_next + (i + 1)
  <2>1. old.n_seq_inc_next = c.n_seq_inc_next + i
    BY DEF KeepsUp
  <2>2. c.n_seq_inc_next + (i + 1) - 1 = c.n_seq_inc_next + i
        /\ c.n_seq_inc_next + i + 1 = c.n_seq_inc_next + (i + 1)
    OBVIOUS
  <2> QED
    BY <1>1, <2>1, <2>2
<1>5. ASSUME NEW j \in 1 .. i + 1
      PROVE  t[j] = sent_updates[c.n_seq_inc_next + j - 1]
  <2>1. j \in 1 .. i \/ j = i + 1
    OBVIOUS
  <2> QED
    BY <1>2, <1>3, <1>4, <2>1
<1>6. new.pushed = t
  BY <1>1
<1>7. c.is_in_recovery = FALSE
  BY DEF KeepsUp
<1> QED
  BY <1>3, <1>4, <1>5, <1>6, <1>7 DEF KeepsUp

LEMMA IncrementalDatagramOf ==
  ASSUME NEW last \in Nat, NEW covered \in 0 .. last, NEW c, ConsumerOK(c, last, covered),
         c.pushed = <<>>, HasQueuedSent(c), NEW datagram, Len(datagram) \in Nat,
         Consecutive(datagram),
         \A i \in 1 .. Len(datagram) : /\ datagram[i].n_seq \in 1 .. last
                                       /\ datagram[i].ome_update = sent_updates[datagram[i].n_seq],
         NEW d, d = rx_callback(FALSE, c, datagram)
  PROVE  Recovers(c, d) \/ KeepsUp(c, d, Len(datagram))
<1> DEFINE no == FALSE
<1> HIDE DEF no
<1>1. PICK f : HandledAs(f, no, c, datagram)
  BY Handled
<1>2. /\ f[0] = c
      /\ \A i \in Nat : i + 1 <= Len(datagram) =>
           f[i + 1] = rx_message(FALSE, f[i], datagram[i + 1])
      /\ rx_callback(FALSE, c, datagram) = f[Len(datagram)]
  BY <1>1 DEF HandledAs, rx_callback, no
<1>3. c.n_seq_inc_next \in Nat
  BY DEF ConsumerOK
<1> DEFINE Good(i) == /\ ConsumerOK(f[i], last, covered)
                      /\ \/ Recovers(c, f[i])
                         \/ /\ KeepsUp(c, f[i], i)
                            /\ i # 0 => datagram[1].n_seq = c.n_seq_inc_next
           P == {i \in Nat : i <= Len(datagram) => Good(i)}
<1>4. 0 \in P
  <2>1. CASE c.is_in_recovery
    BY <1>2, <2>1 DEF Recovers, ConsumerOK
  <2>2. CASE ~ c.is_in_recovery
    <3>1. c.is_in_recovery = FALSE
      BY <2>2 DEF ConsumerOK
    <3>2. IsSeq(c.pushed) /\ Len(c.pushed) = 0
      BY EmptyIsSeq
    <3>3. c.n_seq_inc_next = c.n_seq_inc_next + 0 /\ \A j \in 1 .. 0 : FALSE
      BY <1>3
    <3>4. KeepsUp(c, c, 0)
      BY <3>1, <3>2, <3>3 DEF KeepsUp
    <3> QED
      BY <1>2, <3>4
  <2> QED
    BY <2>1, <2>2
<1>5. ASSUME NEW k \in P
      PROVE  k + 1 \in P
  <2> SUFFICES ASSUME k + 1 <= Len(datagram)
               PROVE  Good(k + 1)
    OBVIOUS
  <2>1. k \in Nat /\ k <= Len(datagram) /\ k + 1 \in 1 .. Len(datagram) /\ 1 \in 1 .. Len(datagram)
    OBVIOUS
  <2>2. PICK old, message, new :
          old = f[k] /\ message = datagram[k + 1] /\ new = rx_message(FALSE, old, message)
    OBVIOUS
  <2>3. f[k + 1] = new
    BY <1>2, <2>1, <2>2
  <2>4. ConsumerOK(old, last, covered)
    BY <2>1, <2>2
  <2>5. message.n_seq \in 1 .. last /\ message.ome_update = sent_updates[message.n_seq]
        /\ message.n_seq = datagram[1].n_seq + (k + 1) - 1
    BY <2>1, <2>2 DEF Consecutive
  <2>6. ConsumerOK(new, last, covered)
    BY <2>2, <2>4, <2>5, IncrementalMessage
  <2>7. /\ old.pushed = <<>> /\ (old.is_in_recovery \/ message.n_seq # old.n_seq_inc_next) =>
             /\ StillQueues(new, Put(old.queued_incremental_updates, message))
             /\ new.queued_snapshot_updates \in {old.queued_snapshot_updates, NoUpdates}
        /\ ~ old.is_in_recovery /\ message.n_seq = old.n_seq_inc_next =>
             /\ new.is_in_recovery = FALSE /\ new.n_seq_inc_next = old.n_seq_inc_next + 1
             /\ new.pushed = Append(old.pushed, message.ome_update)
    <3>1. new = rx_message(FALSE, old, message)
      BY <2>2
    <3>2. StepOf(old, new, message)
      BY <2>4, <3>1, IncrementalMessageOf
    <3> QED
      BY <3>2 DEF StepOf
  <2>8. CASE Recovers(c, old)
    <3>1. old.pushed = <<>> /\ old.is_in_recovery = TRUE /\ HasQueuedSent(old)
          /\ old.queued_snapshot_updates \in {c.queued_snapshot_updates, NoUpdates}
      BY <2>8 DEF Recovers
    <3>2. /\ StillQueues(new, Put(old.queued_incremental_updates, message))
          /\ new.queued_snapshot_updates \in {c.queued_snapshot_updates, NoUpdates}
      BY <2>7, <3>1
    <3>3. HasQueuedSent(new)
      BY <2>5, <3>1, <3>2, PutSent
    <3>4. Recovers(c, new)
      BY <3>2, <3>3 DEF Recovers, StillQueues
    <3> QED
      BY <2>3, <2>6, <3>4
  <2>9. CASE /\ KeepsUp(c, old, k)
             /\ k # 0 => datagram[1].n_seq = c.n_seq_inc_next
             /\ message.n_seq = old.n_seq_inc_next
    <3>1. ~ old.is_in_recovery /\ old.n_seq_inc_next = c.n_seq_inc_next + k
      BY <2>9 DEF KeepsUp
    <3>2. new.is_in_recovery = FALSE /\ new.n_seq_inc_next = old.n_seq_inc_next + 1
          /\ new.pushed = Append(old.pushed, sent_updates[old.n_seq_inc_next])
      BY <2>5, <2>7, <2>9, <3>1
    <3>3. KeepsUp(c, new, k + 1)
      BY <1>3, <2>1, <2>9, <3>2, OneMorePushed
    <3>4. datagram[1].n_seq = c.n_seq_inc_next
      <4>1. CASE k = 0
        <5>1. message = datagram[1] /\ old.n_seq_inc_next = c.n_seq_inc_next
          BY <1>3, <2>2, <3>1, <4>1
        <5> QED
          BY <2>9, <5>1
      <4> QED
        BY <2>9, <4>1
    <3> QED
      BY <2>3, <2>6, <3>3, <3>4
  <2>10. CASE /\ KeepsUp(c, old, k)
              /\ k # 0 => datagram[1].n_seq = c.n_seq_inc_next
              /\ message.n_seq # old.n_seq_inc_next
    <3>1. k = 0
      <4> SUFFICES ASSUME k # 0
                   PROVE  FALSE
        OBVIOUS
      <4>1. message.n_seq = c.n_seq_inc_next + (k + 1) - 1
        BY <2>5, <2>10
      <4>2. old.n_seq_inc_next = c.n_seq_inc_next + k
        BY <2>10 DEF KeepsUp
      <4>3. c.n_seq_inc_next + (k + 1) - 1 = c.n_seq_inc_next + k
        BY <1>3, <2>1
      <4> QED
        BY <2>10, <4>1, <4>2, <4>3
    <3>2. old = c
      BY <1>2, <2>2, <3>1
    <3>3. /\ StillQueues(new, Put(old.queued_incremental_updates, message))
          /\ new.queued_snapshot_updates \in {c.queued_snapshot_updates, NoUpdates}
      BY <2>7, <2>10, <3>2
    <3>4. HasQueuedSent(new)
      BY <2>5, <3>2, <3>3, PutSent
    <3>5. Recovers(c, new)
      BY <3>3, <3>4 DEF Recovers, StillQueues
    <3> QED
      BY <2>3, <2>6, <3>5
  <2>11. Recovers(c, old) \/ (KeepsUp(c, old, k) /\ (k # 0 => datagram[1].n_seq = c.n_seq_inc_next))
    BY <2>1, <2>2
  <2> QED
    BY <2>8, <2>9, <2>10, <2>11
<1>6. P \in SUBSET Nat
  OBVIOUS
<1> HIDE DEF P
<1>7. P = Nat
  BY <1>4, <1>5, <1>6, Induction
<1>8. Good(Len(datagram))
  BY <1>7 DEF P
<1> QED
  BY <1>2, <1>8

-----------------------------------------------------------------------------
(* Snapshots, parts of which the client has queued or will receive.        *)
(* tag[0] is the one that is queued, tag[i] the one of the datagram        *)
(* snaps[i], current the one being sent, of which publ is left.  More of   *)
(* one follows, or another one starts, after anything but an end marker.   *)
OpenAfter(queue, snaps, i) ==
  \/ i = 0 /\ DOMAIN queue # {}
  \/ i # 0 /\ ~ Ends(snaps[i])

HeardAs(tag, queue, snaps, publ, current, loss) ==
  /\ QueueOf(queue, tag[0])
  /\ \A i \in 1 .. Len(snaps) :
       /\ PartOf(snaps[i], tag[i])
       /\ OpenAfter(queue, snaps, i - 1) => tag[i] = tag[i - 1] \/ Starts(snaps[i])
  /\ publ # <<>> /\ OpenAfter(queue, snaps, Len(snaps)) =>
       tag[Len(snaps)] = current \/ (loss # 0 /\ Starts(publ[1]))
  /\ publ = <<>> /\ loss = 0 => ~ OpenAfter(queue, snaps, Len(snaps))

CanBeHeard(all, queue, snaps, publ, current, loss) ==
  \E tag \in [0 .. Len(snaps) -> all] : HeardAs(tag, queue, snaps, publ, current, loss)

LEMMA NoneQueued == DOMAIN NoUpdates = {} /\ \A messages : QueueOf(NoUpdates, messages)
<1>1. DOMAIN NoUpdates = {}
  BY DEF NoUpdates
<1> QED
  BY <1>1 DEF QueueOf, Within

LEMMA HeardNothing ==
  ASSUME NEW all, NEW x \in all, NEW publ, NEW current, NEW loss
  PROVE  CanBeHeard(all, NoUpdates, <<>>, publ, current, loss)
<1>1. PICK none : none = <<>>
  OBVIOUS
<1>2. Len(none) = 0
  BY <1>1, EmptyIsSeq
<1>3. PICK tag : tag = [i \in 0 .. 0 |-> x]
  OBVIOUS
<1>4. tag \in [0 .. 0 -> all] /\ tag[0] = x
  BY <1>3
<1>5. ~ OpenAfter(NoUpdates, none, 0)
  BY NoneQueued DEF OpenAfter
<1>6. HeardAs(tag, NoUpdates, none, publ, current, loss)
  BY <1>2, <1>5, NoneQueued DEF HeardAs
<1>7. CanBeHeard(all, NoUpdates, none, publ, current, loss)
  BY <1>2, <1>4, <1>6 DEF CanBeHeard
<1> QED
  BY <1>1, <1>7

LEMMA HeardOfMore ==
  ASSUME NEW all, NEW more, all \subseteq more,
         NEW queue, NEW snaps, NEW publ, NEW current, NEW loss,
         CanBeHeard(all, queue, snaps, publ, current, loss)
  PROVE  CanBeHeard(more, queue, snaps, publ, current, loss)
<1>1. PICK tag \in [0 .. Len(snaps) -> all] : HeardAs(tag, queue, snaps, publ, current, loss)
  BY DEF CanBeHeard
<1>2. tag \in [0 .. Len(snaps) -> more]
  OBVIOUS
<1> QED
  BY <1>1, <1>2 DEF CanBeHeard

LEMMA HeardWithoutQueue ==
  ASSUME NEW all, NEW queue, NEW snaps, Len(snaps) \in Nat, NEW publ, NEW current, NEW loss,
         CanBeHeard(all, queue, snaps, publ, current, loss)
  PROVE  CanBeHeard(all, NoUpdates, snaps, publ, current, loss)
<1>1. PICK tag \in [0 .. Len(snaps) -> all] : HeardAs(tag, queue, snaps, publ, current, loss)
  BY DEF CanBeHeard
<1>2. \A i \in Nat : OpenAfter(NoUpdates, snaps, i) => OpenAfter(queue, snaps, i)
  BY NoneQueued DEF OpenAfter
<1>3. HeardAs(tag, NoUpdates, snaps, publ, current, loss)
  <2>1. ASSUME NEW i \in 1 .. Len(snaps)
        PROVE  /\ PartOf(snaps[i], tag[i])
               /\ OpenAfter(NoUpdates, snaps, i - 1) => tag[i] = tag[i - 1] \/ Starts(snaps[i])
    <3>1. i - 1 \in Nat
      OBVIOUS
    <3> QED
      BY <1>1, <1>2, <3>1 DEF HeardAs
  <2>2. OpenAfter(NoUpdates, snaps, Len(snaps)) => OpenAfter(queue, snaps, Len(snaps))
    BY <1>2
  <2> QED
    BY <1>1, <2>1, <2>2, NoneQueued DEF HeardAs
<1> QED
  BY <1>3 DEF CanBeHeard

LEMMA HeardWhenStarted ==
  ASSUME NEW all, NEW queue, NEW snaps, NEW old, NEW loss \in Nat,
         CanBeHeard(all, queue, snaps, <<>>, old, loss),
         NEW publ, publ = <<>> \/ Starts(publ[1]), NEW current
  PROVE  CanBeHeard(all, queue, snaps, publ, current, loss)
<1>1. PICK tag \in [0 .. Len(snaps) -> all] : HeardAs(tag, queue, snaps, <<>>, old, loss)
  BY DEF CanBeHeard
<1>2. HeardAs(tag, queue, snaps, publ, current, loss)
  BY <1>1 DEF HeardAs
<1> QED
  BY <1>2 DEF CanBeHeard

LEMMA HeardWhenLost ==
  ASSUME NEW all, NEW queue, NEW snaps, NEW publ, publ # <<>>, NEW current,
         CanBeHeard(all, queue, snaps, publ, current, 0), NEW rest
  PROVE  CanBeHeard(all, queue, snaps, rest, current, 1)
<1>1. PICK tag \in [0 .. Len(snaps) -> all] : HeardAs(tag, queue, snaps, publ, current, 0)
  BY DEF CanBeHeard
<1>2. HeardAs(tag, queue, snaps, rest, current, 1)
  BY <1>1 DEF HeardAs
<1> QED
  BY <1>2 DEF CanBeHeard

LEMMA HeardWhenSent ==
  ASSUME NEW all, NEW queue, NEW snaps, IsSeq(snaps), NEW publ, NEW current \in all, NEW loss,
         CanBeHeard(all, queue, snaps, publ, current, loss),
         NEW d, publ # <<>>, d = publ[1], PartOf(d, current), NEW rest, rest = <<>> => Ends(d)
  PROVE  CanBeHeard(all, queue, Append(snaps, d), rest, current, loss)
<1>1. PICK tag \in [0 .. Len(snaps) -> all] : HeardAs(tag, queue, snaps, publ, current, loss)
  BY DEF CanBeHeard
<1>2. PICK t : t = Append(snaps, d)
  OBVIOUS
<1>3. PICK len \in Nat : len = Len(snaps)
  BY SeqMembers
<1>4. Len(t) = len + 1 /\ t[len + 1] = d /\ \A i \in 1 .. len : t[i] = snaps[i]
  BY <1>2, <1>3, AppendIsSeq
<1>5. PICK new : new = [i \in 0 .. len + 1 |-> IF i = len + 1 THEN current ELSE tag[i]]
  OBVIOUS
<1>6. /\ new \in [0 .. len + 1 -> all] /\ new[len + 1] = current
      /\ \A i \in 0 .. len : new[i] = tag[i]
  BY <1>3, <1>5
<1>7. \A i \in 0 .. len : OpenAfter(queue, t, i) <=> OpenAfter(queue, snaps, i)
  BY <1>4 DEF OpenAfter
<1>8. OpenAfter(queue, t, len + 1) <=> ~ Ends(d)
  BY <1>4 DEF OpenAfter
<1>9. ASSUME NEW i \in 1 .. len + 1
      PROVE  /\ PartOf(t[i], new[i])
             /\ OpenAfter(queue, t, i - 1) => new[i] = new[i - 1] \/ Starts(t[i])
  <2>1. CASE i \in 1 .. len
    <3>1. i - 1 \in 0 .. len /\ i \in 0 .. len
      BY <2>1
    <3>2. /\ PartOf(snaps[i], tag[i])
          /\ OpenAfter(queue, snaps, i - 1) => tag[i] = tag[i - 1] \/ Starts(snaps[i])
      BY <1>1, <1>3, <2>1 DEF HeardAs
    <3> QED
      BY <1>4, <1>6, <1>7, <2>1, <3>1, <3>2
  <2>2. CASE i = len + 1
    <3>1. i - 1 = len /\ len \in 0 .. len
      BY <2>2
    <3>2. OpenAfter(queue, snaps, len) => tag[len] = current \/ Starts(d)
      BY <1>1, <1>3 DEF HeardAs
    <3> QED
      BY <1>4, <1>6, <1>7, <2>2, <3>1, <3>2
  <2> QED
    BY <2>1, <2>2
<1>10. QueueOf(queue, new[0])
  <2>1. new[0] = tag[0]
    BY <1>6
  <2> QED
    BY <1>1, <2>1 DEF HeardAs
<1>11. HeardAs(new, queue, t, rest, current, loss)
  BY <1>4, <1>6, <1>8, <1>9, <1>10 DEF HeardAs
<1> QED
  BY <1>2, <1>4, <1>6, <1>11 DEF CanBeHeard

LEMMA HeardWhenReceived ==
  ASSUME NEW all, NEW queue, NEW snaps, IsSeq(snaps), snaps # <<>>, NEW publ, NEW current, NEW loss,
         NEW tag \in [0 .. Len(snaps) -> all], HeardAs(tag, queue, snaps, publ, current, loss),
         NEW after, QueueOf(after, tag[1]), Ends(snaps[1]) => after = NoUpdates
  PROVE  CanBeHeard(all, after, Tail(snaps), publ, current, loss)
<1>1. PICK t : t = Tail(snaps)
  OBVIOUS
<1>2. PICK len \in Nat \ {0} : len = Len(snaps)
  BY TailIsSeq
<1>3. Len(t) = len - 1 /\ \A i \in 1 .. len - 1 : t[i] = snaps[i + 1]
  BY <1>1, <1>2, TailIsSeq
<1>4. PICK new : new = [i \in 0 .. len - 1 |-> tag[i + 1]]
  OBVIOUS
<1>5. new \in [0 .. len - 1 -> all] /\ \A i \in 0 .. len - 1 : new[i] = tag[i + 1]
  BY <1>2, <1>4
<1>6. ASSUME NEW i \in 0 .. len - 1, OpenAfter(after, t, i)
      PROVE  OpenAfter(queue, snaps, i + 1)
  <2>1. i = 0 \/ i \in 1 .. len - 1
    OBVIOUS
  <2>2. CASE i = 0
    <3>1. ~ Ends(snaps[1])
      BY <1>6, <2>2, NoneQueued DEF OpenAfter
    <3> QED
      BY <2>2, <3>1 DEF OpenAfter
  <2>3. CASE i \in 1 .. len - 1
    BY <1>3, <1>6, <2>3 DEF OpenAfter
  <2> QED
    BY <2>1, <2>2, <2>3
<1>7. ASSUME NEW i \in 1 .. len - 1
      PROVE  /\ PartOf(t[i], new[i])
             /\ OpenAfter(after, t, i - 1) => new[i] = new[i - 1] \/ Starts(t[i])
  <2>1. i - 1 \in 0 .. len - 1 /\ i \in 0 .. len - 1 /\ i + 1 \in 1 .. len /\ (i - 1) + 1 = i
        /\ (i + 1) - 1 = i
    BY <1>2
  <2>2. /\ PartOf(snaps[i + 1], tag[i + 1])
        /\ OpenAfter(queue, snaps, i) => tag[i + 1] = tag[i] \/ Starts(snaps[i + 1])
    <3>1. PICK j \in 1 .. len : j = i + 1 /\ j - 1 = i
      BY <2>1
    <3>2. /\ PartOf(snaps[j], tag[j])
          /\ OpenAfter(queue, snaps, j - 1) => tag[j] = tag[j - 1] \/ Starts(snaps[j])
      BY <1>2 DEF HeardAs
    <3> QED
      BY <3>1, <3>2
  <2>3. new[i] = tag[i + 1] /\ new[i - 1] = tag[i] /\ t[i] = snaps[i + 1]
    BY <1>3, <1>5, <2>1
  <2>4. OpenAfter(after, t, i - 1) => OpenAfter(queue, snaps, i)
    BY <1>6, <2>1
  <2> QED
    BY <2>2, <2>3, <2>4
<1>8. new[0] = tag[1] /\ new[len - 1] = tag[len]
  <2>1. 0 \in 0 .. len - 1 /\ len - 1 \in 0 .. len - 1 /\ (len - 1) + 1 = len /\ 0 + 1 = 1
    BY <1>2
  <2> QED
    BY <1>5, <2>1
<1>9. OpenAfter(after, t, len - 1) => OpenAfter(queue, snaps, len)
  <2>1. len - 1 \in 0 .. len - 1 /\ (len - 1) + 1 = len
    BY <1>2
  <2> QED
    BY <1>6, <2>1
<1>10. HeardAs(new, after, t, publ, current, loss)
  <2>1. /\ publ # <<>> /\ OpenAfter(queue, snaps, len) =>
             tag[len] = current \/ (loss # 0 /\ Starts(publ[1]))
        /\ publ = <<>> /\ loss = 0 => ~ OpenAfter(queue, snaps, len)
    BY <1>2 DEF HeardAs
  <2> QED
    BY <1>3, <1>7, <1>8, <1>9, <2>1 DEF HeardAs
<1> QED
  BY <1>1, <1>3, <1>5, <1>10 DEF CanBeHeard

-----------------------------------------------------------------------------
(* BInv says of every message on its way, of whichever snapshot, what the  *)
(* client's books become by it.                                            *)
Snap(m) == SnapshotMessages(TickerSeq, Books(m), m)

Snaps == {Snap(m) : m \in 0 .. n_seq_last}

BooksOK ==
  pictures = Books(n_seq_last) /\ client_book = Books(position) /\ position < n_seq_next

ConsecutiveOK ==
  /\ \A i \in 1 .. Len(tx_buffer) : tx_buffer[i].n_seq = n_seq_next - 1 - Len(tx_buffer) + i
  /\ \A d \in Of(incremental) : Consecutive(d)

QueuedOK ==
  mdc.pushed = <<>> /\ HasQueuedSent(mdc) /\ (~ mdc.is_in_recovery => snapshots = <<>>)

SendingOK ==
  /\ \A k \in 1 .. Len(publishing) : PartOf(publishing[k], Snap(n_seq_last))
  /\ publishing # <<>> => Ends(publishing[Len(publishing)])
  /\ n_snapshot_lost \in Nat

HeardOK ==
  CanBeHeard(Snaps, mdc.queued_snapshot_updates, snapshots, publishing, Snap(n_seq_last),
             n_snapshot_lost)

BInv == BooksOK /\ ConsecutiveOK /\ QueuedOK /\ SendingOK /\ HeardOK

SentKept == \A i \in 1 .. Len(sent_updates) : sent_updates'[i] = sent_updates[i]

LEMMA BooksSame ==
  ASSUME IInv, SentKept, NEW m \in 0 .. Len(sent_updates)
  PROVE  Books(m)' = Books(m) /\ Snap(m)' = Snap(m)
<1>1. PICK s, t : s = sent_updates /\ t = sent_updates'
  OBVIOUS
<1>2. m \in Nat /\ \A i \in 1 .. m : t[i] = s[i]
  BY <1>1, Numbers DEF SentKept
<1>3. AppliedFirst(m, t, EmptyBooks) = AppliedFirst(m, s, EmptyBooks)
  BY <1>2, AppliedSame
<1>4. Books(m)' = Books(m)
  BY <1>1, <1>3 DEF Books
<1>5. Snap(m)' = Snap(m)
  BY <1>4 DEF Snap
<1> QED
  BY <1>4, <1>5

LEMMA SnapsSame ==
  ASSUME IInv, SentKept, UNCHANGED n_seq_last
  PROVE  Snaps' = Snaps /\ Snap(n_seq_last)' = Snap(n_seq_last)
         /\ Books(n_seq_last)' = Books(n_seq_last)
<1>1. n_seq_last \in 0 .. Len(sent_updates)
  BY Numbers
<1>2. \A m \in 0 .. n_seq_last : Snap(m)' = Snap(m) /\ Books(m)' = Books(m)
  <2>1. \A m \in 0 .. n_seq_last : m \in 0 .. Len(sent_updates)
    BY <1>1, Numbers
  <2> QED
    BY <2>1, BooksSame
<1>3. Snaps' = Snaps
  BY <1>2 DEF Snaps
<1>4. PICK m \in 0 .. n_seq_last : m = n_seq_last
  BY <1>1
<1>5. Snap(n_seq_last)' = Snap(m)' /\ Books(n_seq_last)' = Books(m)'
  BY <1>4 DEF Snap, Books
<1> QED
  BY <1>2, <1>3, <1>4, <1>5

LEMMA SnapsAre ==
  ASSUME IInv, NEW m \in 0 .. n_seq_last
  PROVE  IsSnapshot(Snap(m), Books(m), m) /\ Snap(m) \in Snaps
<1>1. m \in 0 .. Len(sent_updates)
  BY Numbers
<1>2. AreBooks(Books(m))
  BY <1>1, ExchangeBooks DEF IInv
<1> QED
  BY <1>2, SnapshotIs DEF Snap, Snaps

LEMMA BooksFrame ==
  ASSUME IInv, BInv, SentKept, NumbersOK'
  PROVE  /\ UNCHANGED <<pictures, n_seq_last, client_book, position>> /\ n_seq_next <= n_seq_next'
              => BooksOK'
         /\ UNCHANGED <<tx_buffer, n_seq_next, incremental>> => ConsecutiveOK'
         /\ UNCHANGED <<mdc, snapshots>> => QueuedOK'
         /\ UNCHANGED <<publishing, n_seq_last, n_snapshot_lost>> => SendingOK'
         /\ UNCHANGED <<mdc, snapshots, publishing, n_seq_last, n_snapshot_lost>> => HeardOK'
<1>1. ASSUME UNCHANGED <<pictures, n_seq_last, client_book, position>>, n_seq_next <= n_seq_next'
      PROVE  BooksOK'
  <2>1. BooksOK /\ position \in Nat
    BY DEF BInv, IInv, ClientOK
  <2>2. PICK p \in 0 .. Len(sent_updates) : p = position
    BY <2>1, Numbers DEF BooksOK
  <2>3. Books(position)' = Books(p)'
    BY <1>1, <2>2 DEF Books
  <2>4. Books(p)' = Books(p)
    BY BooksSame
  <2>5. Books(n_seq_last)' = Books(n_seq_last)
    BY <1>1, SnapsSame
  <2>6. n_seq_next' \in Nat
    BY DEF NumbersOK
  <2>7. position < n_seq_next'
    BY <1>1, <2>1, <2>6, Numbers DEF BooksOK
  <2> QED
    BY <1>1, <2>1, <2>2, <2>3, <2>4, <2>5, <2>7 DEF BooksOK
<1>2. UNCHANGED <<tx_buffer, n_seq_next, incremental>> => ConsecutiveOK'
  BY DEF BInv, ConsecutiveOK
<1>3. ASSUME UNCHANGED <<mdc, snapshots>>
      PROVE  QueuedOK'
  <2>1. QueuedOK
    BY DEF BInv
  <2>2. DOMAIN mdc.queued_incremental_updates \subseteq 1 .. Len(sent_updates)
    BY Numbers DEF IInv, ClientOK, ConsumerOK
  <2>3. HasQueuedSent(mdc)'
    BY <1>3, <2>1, <2>2 DEF QueuedOK, HasQueuedSent, SentKept
  <2> QED
    BY <1>3, <2>1, <2>3 DEF QueuedOK
<1>4. ASSUME UNCHANGED <<publishing, n_seq_last, n_snapshot_lost>>
      PROVE  SendingOK'
  <2>1. Snap(n_seq_last)' = Snap(n_seq_last)
    BY <1>4, SnapsSame
  <2> QED
    BY <1>4, <2>1 DEF BInv, SendingOK
<1>5. ASSUME UNCHANGED <<mdc, snapshots, publishing, n_seq_last, n_snapshot_lost>>
      PROVE  HeardOK'
  <2>1. Snap(n_seq_last)' = Snap(n_seq_last) /\ Snaps' = Snaps
    BY <1>5, SnapsSame
  <2> QED
    BY <1>5, <2>1 DEF BInv, HeardOK
<1> QED
  BY <1>1, <1>2, <1>3, <1>4, <1>5

(* The exchange's side.                                                    *)
LEMMA EngineSendsBooks ==
  ASSUME IInv, BInv, IInv', NEW u, EngineSends(u)
  PROVE  BInv'
<1>1. /\ sent_updates' = Append(sent_updates, u)
      /\ UNCHANGED <<pictures, n_seq_last, client_book, position, n_seq_next, tx_buffer,
                     incremental, mdc, snapshots, publishing, n_snapshot_lost>>
  BY DEF EngineSends, publisherVars, synthesizerVars, clientVars, lossVars
<1>2. SentKept
  BY <1>1, AppendIsSeq DEF IInv, EngineOK, SentKept
<1>3. NumbersOK' /\ n_seq_next <= n_seq_next'
  BY <1>1, Numbers DEF IInv
<1> QED
  BY <1>1, <1>2, <1>3, BooksFrame DEF BInv

LEMMA PublishUpdateBooks ==
  ASSUME IInv, BInv, IInv', PublishUpdate
  PROVE  BInv'
<1>1. PICK message : message = [n_seq |-> n_seq_next, ome_update |-> sent_updates[n_seq_next]]
  OBVIOUS
<1>2. /\ tx_buffer' = Append(tx_buffer, message) /\ n_seq_next' = n_seq_next + 1
      /\ UNCHANGED <<sent_updates, pictures, n_seq_last, client_book, position,
                     incremental, mdc, snapshots, publishing, n_snapshot_lost>>
  BY <1>1 DEF PublishUpdate, synthesizerVars, clientVars, lossVars
<1>3. SentKept
  BY <1>2 DEF SentKept
<1>4. NumbersOK' /\ n_seq_next <= n_seq_next'
  BY <1>2, Numbers DEF IInv
<1>5. ConsecutiveOK'
  <2>1. IsSeq(tx_buffer) /\ Len(tx_buffer) \in Nat /\ ConsecutiveOK
    BY SeqMembers DEF IInv, PublisherOK, BInv
  <2>2. PICK old, new, len : old = tx_buffer /\ new = tx_buffer' /\ len = Len(old) /\ len \in Nat
    BY <2>1
  <2>3. Len(new) = len + 1 /\ new[len + 1] = message /\ \A i \in 1 .. len : new[i] = old[i]
    BY <1>2, <2>1, <2>2, AppendIsSeq
  <2>4. PICK next \in Nat : next = n_seq_next
    BY Numbers
  <2>5. ASSUME NEW i \in 1 .. len + 1
        PROVE  new[i].n_seq = (next + 1) - 1 - (len + 1) + i
    <3>1. CASE i \in 1 .. len
      <4>1. new[i].n_seq = next - 1 - len + i
        BY <2>1, <2>2, <2>3, <2>4, <3>1 DEF ConsecutiveOK
      <4>2. next - 1 - len + i = (next + 1) - 1 - (len + 1) + i
        BY <2>2, <2>4
      <4> QED
        BY <4>1, <4>2
    <3>2. CASE i = len + 1
      <4>1. new[i].n_seq = next
        BY <1>1, <2>3, <2>4, <3>2
      <4>2. next = (next + 1) - 1 - (len + 1) + i
        BY <2>2, <2>4, <3>2
      <4> QED
        BY <4>1, <4>2
    <3> QED
      BY <2>2, <3>1, <3>2
  <2> QED
    BY <1>2, <2>1, <2>2, <2>3, <2>4, <2>5 DEF ConsecutiveOK
<1> QED
  BY <1>2, <1>3, <1>4, <1>5, BooksFrame DEF BInv

LEMMA TransmitBooks ==
  ASSUME IInv, BInv, IInv', Transmit, UNCHANGED n_snapshot_lost,
         incremental' \in {Append(incremental, tx_buffer), incremental}
  PROVE  BInv'
<1>1. /\ tx_buffer' = <<>>
      /\ UNCHANGED <<sent_updates, pictures, n_seq_last, client_book, position, n_seq_next,
                     mdc, snapshots, publishing, n_snapshot_lost>>
  BY DEF Transmit, synthesizerVars, clientVars
<1>2. SentKept
  BY <1>1 DEF SentKept
<1>3. NumbersOK' /\ n_seq_next <= n_seq_next'
  BY <1>1, Numbers DEF IInv
<1>4. Consecutive(tx_buffer)
  <2>0. Len(tx_buffer) \in Nat /\ n_seq_next \in Nat
    BY Numbers, SeqMembers DEF IInv, PublisherOK
  <2>1. PICK s, len, next :
          s = tx_buffer /\ len = Len(s) /\ next = n_seq_next /\ len \in Nat /\ next \in Nat
    BY <2>0
  <2>2. \A i \in 1 .. len : s[i].n_seq = next - 1 - len + i
    BY <2>1 DEF BInv, ConsecutiveOK
  <2>3. ASSUME NEW i \in 1 .. len
        PROVE  s[i].n_seq = s[1].n_seq + i - 1
    <3>1. s[i].n_seq = next - 1 - len + i /\ s[1].n_seq = next - 1 - len + 1
      BY <2>1, <2>2
    <3>2. next - 1 - len + i = next - 1 - len + 1 + i - 1
      BY <2>1
    <3> QED
      BY <3>1, <3>2
  <2> QED
    BY <2>1, <2>3 DEF Consecutive
<1>5. ConsecutiveOK'
  <2>1. IsSeq(incremental) /\ \A d \in Of(incremental) : Consecutive(d)
    BY DEF IInv, IncrementalOK, BInv, ConsecutiveOK
  <2>2. Of(incremental') \subseteq Of(incremental) \cup {tx_buffer}
    <3>1. PICK d : d = tx_buffer
      OBVIOUS
    <3>2. Of(Append(incremental, d)) = Of(incremental) \cup {d}
      BY <2>1, AppendIsSeq
    <3> QED
      BY <3>1, <3>2
  <2>3. \A d \in Of(incremental') : Consecutive(d)
    BY <1>4, <2>1, <2>2
  <2>4. Len(tx_buffer') = 0
    BY <1>1, EmptyIsSeq
  <2> QED
    BY <2>3, <2>4 DEF ConsecutiveOK
<1> QED
  BY <1>1, <1>2, <1>3, <1>5, BooksFrame DEF BInv

LEMMA AddToSnapshotBooks ==
  ASSUME IInv, BInv, IInv', AddToSnapshot
  PROVE  BInv'
<1>1. PICK message : message = Head(tx_snapshot_updates)
  OBVIOUS
<1>2. /\ publishing = <<>> /\ tx_snapshot_updates # <<>>
      /\ pictures' = Applied(pictures, message.ome_update) /\ n_seq_last' = message.n_seq
      /\ UNCHANGED <<sent_updates, client_book, position, n_seq_next, tx_buffer,
                     incremental, mdc, snapshots, publishing, n_snapshot_lost>>
  BY <1>1 DEF AddToSnapshot, publisherVars, clientVars, lossVars
<1>3. SentKept
  BY <1>2 DEF SentKept
<1>4. NumbersOK' /\ n_seq_next <= n_seq_next'
  BY <1>2, Numbers DEF IInv
<1>5. PICK k \in Nat : k = n_seq_last
  BY Numbers
<1>6. message.n_seq = k + 1 /\ message.ome_update = sent_updates[k + 1]
  <2>1. /\ message \in Of(tx_snapshot_updates) /\ message = tx_snapshot_updates[1]
        /\ 1 \in 1 .. Len(tx_snapshot_updates)
    BY <1>1, <1>2, TailIsSeq DEF IInv, HandedOverOK
  <2>2. message.n_seq = k + 1 /\ message \in Published
    BY <1>5, <2>1 DEF IInv, HandedOverOK
  <2>3. PICK n \in 1 .. n_seq_next - 1 : message = [n_seq |-> n, ome_update |-> sent_updates[n]]
    BY <2>2 DEF Published
  <2>4. message.n_seq = n /\ message.ome_update = sent_updates[n]
    BY <2>3
  <2> QED
    BY <2>2, <2>4
<1>7. k \in 0 .. Len(sent_updates) /\ k + 1 \in 0 .. Len(sent_updates)
  <2>1. k + 1 \in 0 .. n_seq_next - 1
    BY <1>2, <1>4, <1>6 DEF NumbersOK
  <2> QED
    BY <1>5, <2>1, Numbers
<1>8. BooksOK'
  <2>1. pictures' = Applied(Books(k), sent_updates[k + 1])
    BY <1>2, <1>5, <1>6 DEF BInv, BooksOK
  <2>2. Books(k + 1) = Applied(Books(k), sent_updates[k + 1])
    BY AppliedStep DEF Books
  <2>3. PICK j \in 0 .. Len(sent_updates) : j = k + 1
    BY <1>7
  <2>4. Books(j)' = Books(j)
    BY <1>3, BooksSame
  <2>5. Books(n_seq_last)' = Books(j)'
    BY <1>2, <1>6, <2>3 DEF Books
  <2>6. pictures' = Books(n_seq_last)'
    BY <2>1, <2>2, <2>3, <2>4, <2>5
  <2>7. position \in Nat /\ position < n_seq_next /\ client_book = Books(position)
    BY DEF IInv, ClientOK, BInv, BooksOK
  <2>8. PICK p \in 0 .. Len(sent_updates) : p = position
    BY <2>7, Numbers
  <2>9. Books(position)' = Books(p)' /\ Books(p)' = Books(p)
    BY <1>2, <1>3, <2>8, BooksSame DEF Books
  <2> QED
    BY <1>2, <2>6, <2>7, <2>8, <2>9 DEF BooksOK
<1>9. SendingOK'
  <2>1. Len(publishing') = 0 /\ publishing' = <<>> /\ n_snapshot_lost' \in Nat
    BY <1>2, EmptyIsSeq DEF BInv, SendingOK
  <2> QED
    BY <2>1 DEF SendingOK
<1>10. HeardOK'
  <2>1. Snaps \subseteq Snaps'
    <3>1. ASSUME NEW m \in 0 .. n_seq_last
          PROVE  Snap(m) \in Snaps'
      <4>1. m \in 0 .. Len(sent_updates) /\ m \in 0 .. n_seq_last'
        BY <1>2, <1>5, <1>6, <1>7
      <4>2. Snap(m)' = Snap(m)
        BY <1>3, <4>1, BooksSame
      <4> QED
        BY <4>1, <4>2 DEF Snaps
    <3> QED
      BY <3>1 DEF Snaps
  <2>2. PICK queue, snaps, now, loss, next :
          /\ queue = mdc.queued_snapshot_updates /\ snaps = snapshots
          /\ now = Snap(n_seq_last) /\ loss = n_snapshot_lost /\ next = Snap(n_seq_last)'
    OBVIOUS
  <2>7. loss \in Nat
    BY <2>2 DEF BInv, SendingOK
  <2>3. PICK none : none = <<>>
    OBVIOUS
  <2>4. CanBeHeard(Snaps, queue, snaps, none, now, loss)
    BY <1>2, <2>2, <2>3 DEF BInv, HeardOK
  <2>5. CanBeHeard(Snaps', queue, snaps, none, now, loss)
    BY <2>1, <2>4, HeardOfMore
  <2>6. CanBeHeard(Snaps', queue, snaps, none, next, loss)
    BY <2>3, <2>5, <2>7, HeardWhenStarted
  <2> QED
    BY <1>2, <2>2, <2>3, <2>6 DEF HeardOK
<1>11. ConsecutiveOK' /\ QueuedOK'
  BY <1>2, <1>3, <1>4, BooksFrame
<1> QED
  BY <1>8, <1>9, <1>10, <1>11 DEF BInv

LEMMA StartSnapshotBooks ==
  ASSUME IInv, BInv, IInv', StartSnapshot
  PROVE  BInv'
<1>1. /\ publishing = <<>>
      /\ publishing' = Datagrams(SnapshotMessages(TickerSeq, pictures, n_seq_last))
      /\ UNCHANGED <<sent_updates, pictures, n_seq_last, client_book, position, n_seq_next, tx_buffer,
                     incremental, mdc, snapshots, n_snapshot_lost>>
  BY DEF StartSnapshot, publisherVars, clientVars, lossVars
<1>2. SentKept
  BY <1>1 DEF SentKept
<1>3. NumbersOK' /\ n_seq_next <= n_seq_next'
  BY <1>1, Numbers DEF IInv
<1>4. Snap(n_seq_last)' = Snap(n_seq_last) /\ Snaps' = Snaps
  BY <1>1, <1>2, SnapsSame
<1>5. PICK messages, b, m : messages = Snap(n_seq_last) /\ b = Books(n_seq_last) /\ m = n_seq_last
  OBVIOUS
<1>6. IsSnapshot(messages, b, m)
  <2>1. n_seq_last \in 0 .. n_seq_last
    BY Numbers
  <2>2. IsSnapshot(Snap(n_seq_last), Books(n_seq_last), n_seq_last)
    BY <2>1, SnapsAre
  <2> QED
    BY <1>5, <2>2
<1>7. PICK s : s = Datagrams(messages)
  OBVIOUS
<1>8. /\ Len(s) \in Nat \ {0} /\ Starts(s[1]) /\ Ends(s[Len(s)])
      /\ \A k \in 1 .. Len(s) : PartOf(s[k], messages)
  BY <1>6, <1>7, SentAsParts
<1>9. publishing' = s
  <2>1. messages = SnapshotMessages(TickerSeq, pictures, n_seq_last)
    BY <1>5 DEF Snap, BInv, BooksOK
  <2> QED
    BY <1>1, <1>7, <2>1
<1>10. SendingOK'
  BY <1>1, <1>4, <1>5, <1>8, <1>9 DEF BInv, SendingOK
<1>11. HeardOK'
  <2>1. PICK queue, snaps, loss, none, all :
          /\ queue = mdc.queued_snapshot_updates /\ snaps = snapshots
          /\ loss = n_snapshot_lost /\ none = <<>> /\ all = Snaps
    OBVIOUS
  <2>2. loss \in Nat /\ CanBeHeard(all, queue, snaps, none, messages, loss)
    BY <1>1, <1>5, <2>1 DEF BInv, SendingOK, HeardOK
  <2>3. CanBeHeard(all, queue, snaps, s, messages, loss)
    BY <1>8, <2>1, <2>2, HeardWhenStarted
  <2> QED
    BY <1>1, <1>4, <1>5, <1>9, <2>1, <2>3 DEF HeardOK
<1>12. BooksOK' /\ ConsecutiveOK' /\ QueuedOK'
  BY <1>1, <1>2, <1>3, BooksFrame
<1> QED
  BY <1>10, <1>11, <1>12 DEF BInv

(* What is left of a snapshot when one of its datagrams has been sent.     *)
LEMMA RestOfSnapshot ==
  ASSUME IInv, BInv, publishing # <<>>, publishing' = Tail(publishing),
         UNCHANGED <<sent_updates, n_seq_last>>, n_snapshot_lost' \in Nat
  PROVE  /\ SendingOK'
         /\ Head(publishing) = publishing[1] /\ PartOf(Head(publishing), Snap(n_seq_last))
         /\ publishing' = <<>> => Ends(Head(publishing))
<1>1. IsSeq(publishing) /\ SendingOK
  BY DEF IInv, SnapshotsOK, BInv
<1>2. Snap(n_seq_last)' = Snap(n_seq_last)
  <2>1. SentKept
    BY DEF SentKept
  <2> QED
    BY <2>1, SnapsSame
<1>3. PICK s, t, messages : s = publishing /\ t = publishing' /\ messages = Snap(n_seq_last)
  OBVIOUS
<1>4. /\ s # <<>> /\ t = Tail(s) /\ IsSeq(s)
      /\ \A k \in 1 .. Len(s) : PartOf(s[k], messages)
      /\ Ends(s[Len(s)])
  BY <1>1, <1>3 DEF SendingOK
<1>5. /\ Len(s) \in Nat \ {0} /\ Len(t) = Len(s) - 1 /\ Head(s) = s[1] /\ IsSeq(t)
      /\ \A i \in 1 .. Len(s) - 1 : t[i] = s[i + 1]
  BY <1>4, TailIsSeq
<1>6. PICK len \in Nat : len = Len(t) /\ len + 1 = Len(s)
  BY <1>5
<1>7. \A k \in 1 .. len : PartOf(t[k], messages)
  <2>1. ASSUME NEW k \in 1 .. len
        PROVE  PartOf(t[k], messages)
    <3>1. k + 1 \in 1 .. Len(s) /\ k \in 1 .. Len(s) - 1
      BY <1>6
    <3> QED
      BY <1>4, <1>5, <3>1
  <2> QED
    BY <2>1
<1>8. t # <<>> => Ends(t[len])
  <2>1. CASE len = 0
    BY <1>5, <1>6, <2>1, EmptySeq
  <2>2. CASE len # 0
    <3>1. len \in 1 .. Len(s) - 1
      BY <1>6, <2>2
    <3> QED
      BY <1>4, <1>5, <1>6, <3>1
  <2> QED
    BY <2>1, <2>2
<1>9. t = <<>> => Ends(s[1])
  <2>1. t = <<>> => len = 0
    BY <1>6, EmptyIsSeq
  <2>2. len = 0 => Len(s) = 1
    BY <1>6
  <2> QED
    BY <1>4, <2>1, <2>2
<1>10. PartOf(s[1], messages)
  <2>1. 1 \in 1 .. Len(s)
    BY <1>5
  <2> QED
    BY <1>4, <2>1
<1>11. SendingOK'
  BY <1>2, <1>3, <1>6, <1>7, <1>8 DEF SendingOK
<1> QED
  BY <1>3, <1>5, <1>9, <1>10, <1>11

LEMMA SendSnapshotBooks ==
  ASSUME IInv, BInv, IInv', SendSnapshot
  PROVE  BInv'
<1>1. PICK d : d = Head(publishing)
  OBVIOUS
<1>2. /\ publishing # <<>> /\ publishing' = Tail(publishing)
      /\ snapshots' = IF mdc.is_in_recovery THEN Append(snapshots, d) ELSE snapshots
      /\ UNCHANGED <<sent_updates, pictures, n_seq_last, client_book, position, n_seq_next, tx_buffer,
                     incremental, mdc, n_snapshot_lost>>
  BY <1>1 DEF SendSnapshot, publisherVars, clientVars, lossVars
<1>3. SentKept
  BY <1>2 DEF SentKept
<1>4. NumbersOK' /\ n_seq_next <= n_seq_next'
  BY <1>2, Numbers DEF IInv
<1>5. PICK queue, snaps, publ, rest, current, loss, all :
        /\ queue = mdc.queued_snapshot_updates /\ snaps = snapshots /\ publ = publishing
        /\ rest = publishing' /\ current = Snap(n_seq_last) /\ loss = n_snapshot_lost /\ all = Snaps
  OBVIOUS
<1>6. /\ SendingOK' /\ publ # <<>> /\ d = publ[1] /\ PartOf(d, current)
      /\ rest = <<>> => Ends(d)
  BY <1>1, <1>2, <1>5, RestOfSnapshot DEF BInv, SendingOK
<1>7. IsSeq(snaps) /\ current \in all /\ CanBeHeard(all, queue, snaps, publ, current, loss)
  <2>1. n_seq_last \in 0 .. n_seq_last
    BY Numbers
  <2> QED
    BY <1>5, <2>1, SnapsAre DEF IInv, SnapshotsOK, BInv, HeardOK
<1>8. CanBeHeard(all, queue, snapshots', rest, current, loss)
  <2>1. CASE mdc.is_in_recovery
    <3>1. snapshots' = Append(snaps, d)
      BY <1>2, <1>5, <2>1
    <3>2. CanBeHeard(all, queue, Append(snaps, d), rest, current, loss)
      BY <1>6, <1>7, HeardWhenSent
    <3> QED
      BY <3>1, <3>2
  <2>2. CASE ~ mdc.is_in_recovery
    <3>1. snapshots' = <<>> /\ queue = NoUpdates
      BY <1>2, <1>5, <2>2 DEF BInv, QueuedOK, IInv, ClientOK, ConsumerOK
    <3> QED
      BY <1>7, <3>1, HeardNothing
  <2> QED
    BY <2>1, <2>2
<1>9. HeardOK'
  <2>1. Snaps' = Snaps /\ Snap(n_seq_last)' = Snap(n_seq_last)
    BY <1>2, <1>3, SnapsSame
  <2> QED
    BY <1>2, <1>5, <1>8, <2>1 DEF HeardOK
<1>10. QueuedOK'
  <2>1. mdc' = mdc /\ sent_updates' = sent_updates /\ (~ mdc.is_in_recovery => snapshots' = snapshots)
    BY <1>2
  <2> QED
    BY <2>1 DEF BInv, QueuedOK, HasQueuedSent
<1>11. BooksOK' /\ ConsecutiveOK'
  BY <1>2, <1>3, <1>4, BooksFrame
<1> QED
  BY <1>6, <1>9, <1>10, <1>11 DEF BInv

LEMMA LoseSnapshotBooks ==
  ASSUME IInv, BInv, IInv', MaxSnapshotLost <= 1, LoseSnapshot
  PROVE  BInv'
<1>1. /\ publishing # <<>> /\ publishing' = Tail(publishing)
      /\ n_snapshot_lost < MaxSnapshotLost /\ n_snapshot_lost' = n_snapshot_lost + 1
      /\ UNCHANGED <<sent_updates, pictures, n_seq_last, client_book, position, n_seq_next, tx_buffer,
                     incremental, mdc, snapshots>>
  BY DEF LoseSnapshot, publisherVars, clientVars
<1>2. SentKept
  BY <1>1 DEF SentKept
<1>3. NumbersOK' /\ n_seq_next <= n_seq_next'
  BY <1>1, Numbers DEF IInv
<1>4. n_snapshot_lost = 0 /\ n_snapshot_lost' = 1
  <2>1. n_snapshot_lost \in Nat /\ MaxSnapshotLost \in Nat
    BY MarketDataAssumption DEF BInv, SendingOK
  <2> QED
    BY <1>1, <2>1
<1>5. SendingOK'
  BY <1>1, <1>4, RestOfSnapshot
<1>6. HeardOK'
  <2>1. PICK queue, snaps, publ, rest, current, all :
          /\ queue = mdc.queued_snapshot_updates /\ snaps = snapshots /\ publ = publishing
          /\ rest = publishing' /\ current = Snap(n_seq_last) /\ all = Snaps
    OBVIOUS
  <2>2. publ # <<>> /\ CanBeHeard(all, queue, snaps, publ, current, 0)
    BY <1>1, <1>4, <2>1 DEF BInv, HeardOK
  <2>3. CanBeHeard(all, queue, snaps, rest, current, 1)
    BY <2>2, HeardWhenLost
  <2>4. Snaps' = Snaps /\ Snap(n_seq_last)' = Snap(n_seq_last)
    BY <1>1, <1>2, SnapsSame
  <2> QED
    BY <1>1, <1>4, <2>1, <2>3, <2>4 DEF HeardOK
<1>7. BooksOK' /\ ConsecutiveOK' /\ QueuedOK'
  BY <1>1, <1>2, <1>3, BooksFrame
<1> QED
  BY <1>5, <1>6, <1>7 DEF BInv

LEMMA OvertakeBooks ==
  ASSUME IInv, BInv, IInv', Overtake
  PROVE  BInv'
<1>1. /\ Len(incremental) > 1
      /\ incremental' =
           <<incremental[2], incremental[1]>> \o SubSeq(incremental, 3, Len(incremental))
      /\ UNCHANGED <<sent_updates, pictures, n_seq_last, client_book, position, n_seq_next, tx_buffer,
                     mdc, snapshots, publishing, n_snapshot_lost>>
  BY DEF Overtake, publisherVars, synthesizerVars, clientVars
<1>2. SentKept
  BY <1>1 DEF SentKept
<1>3. NumbersOK' /\ n_seq_next <= n_seq_next'
  BY <1>1, Numbers DEF IInv
<1>4. Of(incremental') \subseteq Of(incremental)
  BY <1>1, SwapIsSeq DEF IInv, IncrementalOK
<1>5. ConsecutiveOK'
  BY <1>1, <1>4 DEF BInv, ConsecutiveOK
<1> QED
  BY <1>1, <1>2, <1>3, <1>5, BooksFrame DEF BInv

-----------------------------------------------------------------------------
(* The client.                                                             *)
LEMMA WithoutPushedIs ==
  ASSUME NEW c, IsConsumer(c), NEW d, d = [c EXCEPT !.pushed = <<>>]
  PROVE  /\ d.pushed = <<>> /\ d.is_in_recovery = c.is_in_recovery
         /\ d.queued_snapshot_updates = c.queued_snapshot_updates
         /\ d.queued_incremental_updates = c.queued_incremental_updates
<1>1. PICK none : none = <<>>
  OBVIOUS
<1>2. d = [n_seq_inc_next |-> c.n_seq_inc_next, is_in_recovery |-> c.is_in_recovery,
           pushed |-> none, queued_snapshot_updates |-> c.queued_snapshot_updates,
           queued_incremental_updates |-> c.queued_incremental_updates]
  BY <1>1 DEF IsConsumer
<1> QED
  BY <1>1, <1>2

(* What a callback leaves, when nothing but the client has moved.          *)
LEMMA ReceivedBooks ==
  ASSUME IInv, BInv, IInv', NEW c, ConsumerOK(c, n_seq_next - 1, n_seq_last),
         mdc' = [c EXCEPT !.pushed = <<>>],
         UNCHANGED <<sent_updates, n_seq_next, n_seq_last, pictures, tx_buffer, publishing,
                     n_snapshot_lost>>,
         Of(incremental') \subseteq Of(incremental),
         position' = IF c.is_in_recovery THEN position ELSE c.n_seq_inc_next - 1,
         client_book' = Books(position'),
         HasQueuedSent(c), ~ c.is_in_recovery => snapshots' = <<>>,
         CanBeHeard(Snaps, c.queued_snapshot_updates, snapshots', publishing, Snap(n_seq_last),
                    n_snapshot_lost)
  PROVE  BInv'
<1>1. SentKept /\ NumbersOK'
  BY DEF SentKept, IInv
<1>2. /\ mdc'.pushed = <<>> /\ mdc'.is_in_recovery = c.is_in_recovery
      /\ mdc'.queued_snapshot_updates = c.queued_snapshot_updates
      /\ mdc'.queued_incremental_updates = c.queued_incremental_updates
  BY WithoutPushedIs DEF ConsumerOK
<1>3. position' < n_seq_next
  <2>1. c.n_seq_inc_next \in 1 .. (n_seq_next - 1) + 1
    BY DEF ConsumerOK
  <2>2. position < n_seq_next
    BY DEF BInv, BooksOK
  <2> QED
    BY <2>1, <2>2, Numbers
<1>4. BooksOK'
  <2>1. Books(n_seq_last)' = Books(n_seq_last)
    BY <1>1, SnapsSame
  <2>2. PICK p : p = position'
    OBVIOUS
  <2>3. Books(position)' = Books(p)
    BY <2>2 DEF Books
  <2> QED
    BY <1>3, <2>1, <2>2, <2>3 DEF BInv, BooksOK
<1>5. ConsecutiveOK'
  BY DEF BInv, ConsecutiveOK
<1>6. QueuedOK'
  BY <1>2 DEF QueuedOK, HasQueuedSent
<1>7. SendingOK'
  BY <1>1, BooksFrame
<1>8. HeardOK'
  <2>1. Snaps' = Snaps /\ Snap(n_seq_last)' = Snap(n_seq_last)
    BY <1>1, SnapsSame
  <2> QED
    BY <1>2, <2>1 DEF HeardOK
<1> QED
  BY <1>4, <1>5, <1>6, <1>7, <1>8 DEF BInv

LEMMA ReceiveIncrementalBooks ==
  ASSUME IInv, BInv, IInv', ReceiveIncremental
  PROVE  BInv'
<1>1. PICK datagram : datagram = Head(incremental)
  OBVIOUS
<1>2. PICK c : c = rx_callback(FALSE, mdc, datagram)
  OBVIOUS
<1>3. /\ incremental # <<>> /\ incremental' = Tail(incremental)
      /\ mdc' = [c EXCEPT !.pushed = <<>>]
      /\ client_book' = AppliedFirst(Len(c.pushed), c.pushed, client_book)
      /\ position' = IF c.is_in_recovery THEN position ELSE c.n_seq_inc_next - 1
      /\ snapshots' = IF mdc'.is_in_recovery = mdc.is_in_recovery THEN snapshots ELSE <<>>
      /\ UNCHANGED <<sent_updates, n_seq_next, n_seq_last, pictures, tx_buffer, publishing,
                     n_snapshot_lost>>
  BY <1>1, <1>2 DEF ReceiveIncremental, Receive, publisherVars, synthesizerVars, lossVars
<1>4. PICK last \in Nat : last = n_seq_next - 1
  BY Numbers
<1>5. n_seq_last \in 0 .. last /\ ConsumerOK(mdc, last, n_seq_last) /\ mdc.pushed = <<>>
      /\ HasQueuedSent(mdc)
  BY <1>4, Numbers DEF IInv, ClientOK, BInv, QueuedOK
<1>6. /\ Len(datagram) \in Nat /\ Consecutive(datagram)
      /\ \A i \in 1 .. Len(datagram) : /\ datagram[i].n_seq \in 1 .. last
                                       /\ datagram[i].ome_update = sent_updates[datagram[i].n_seq]
  <2>1. datagram \in Of(incremental)
    BY <1>1, <1>3, TailIsSeq DEF IInv, IncrementalOK
  <2>2. IsSeq(datagram) /\ Of(datagram) \subseteq Published /\ Consecutive(datagram)
    BY <2>1 DEF IInv, IncrementalOK, BInv, ConsecutiveOK
  <2>3. Len(datagram) \in Nat /\ \A i \in 1 .. Len(datagram) : datagram[i] \in Published
    BY <2>2, SeqMembers
  <2>4. \A m \in Published : m.n_seq \in 1 .. last /\ m.ome_update = sent_updates[m.n_seq]
    BY <1>4 DEF Published
  <2> QED
    BY <2>2, <2>3, <2>4
<1>7. PICK covered : covered = n_seq_last /\ covered \in 0 .. last
  BY <1>5
<1>8. Recovers(mdc, c) \/ KeepsUp(mdc, c, Len(datagram))
  BY <1>2, <1>5, <1>6, <1>7, IncrementalDatagramOf
<1>9. ConsumerOK(c, n_seq_next - 1, n_seq_last)
  BY <1>2, <1>4, <1>5, <1>6, IncrementalDatagram
<1>10. mdc'.is_in_recovery = c.is_in_recovery
  BY <1>3, <1>9, WithoutPushed
<1>11. client_book = Books(position) /\ position \in Nat
       /\ (~ mdc.is_in_recovery => position = mdc.n_seq_inc_next - 1 /\ snapshots = <<>>)
  BY DEF BInv, BooksOK, QueuedOK, IInv, ClientOK
<1>12. snapshots' = snapshots
  BY <1>3, <1>8, <1>10, <1>11 DEF Recovers, KeepsUp, ConsumerOK
<1>13. client_book' = Books(position')
  <2>1. CASE Recovers(mdc, c)
    <3>1. position' = position /\ Len(c.pushed) = 0
      BY <1>3, <2>1, EmptyIsSeq DEF Recovers
    <3>2. client_book' = AppliedFirst(0, c.pushed, client_book)
      BY <1>3, <3>1
    <3> QED
      BY <1>11, <3>1, <3>2, AppliedStep
  <2>2. CASE KeepsUp(mdc, c, Len(datagram))
    <3>1. PICK k \in Nat : k = Len(datagram)
      BY <1>6
    <3>2. PICK p \in Nat : p = position
      BY <1>11
    <3>3. PICK v : v = c.pushed
      OBVIOUS
    <3>4. /\ mdc.is_in_recovery = FALSE /\ c.is_in_recovery = FALSE
          /\ c.n_seq_inc_next = mdc.n_seq_inc_next + k /\ Len(v) = k
          /\ \A i \in 1 .. k : v[i] = sent_updates[mdc.n_seq_inc_next + i - 1]
      BY <2>2, <3>1, <3>3 DEF KeepsUp
    <3>5. mdc.n_seq_inc_next = p + 1
      <4>1. mdc.n_seq_inc_next \in Nat
        BY <1>5 DEF ConsumerOK
      <4> QED
        BY <1>11, <3>2, <3>4, <4>1
    <3>6. SentAfter(p, k, v)
      BY <3>4, <3>5 DEF SentAfter
    <3>7. AppliedFirst(k, v, Books(p)) = Books(p + k)
      BY <3>6, BooksLater
    <3>8. position' = p + k
      BY <1>3, <3>4, <3>5
    <3> QED
      BY <1>3, <1>11, <3>2, <3>3, <3>4, <3>7, <3>8
  <2> QED
    BY <1>8, <2>1, <2>2
<1>14. HasQueuedSent(c)
  <2>1. CASE Recovers(mdc, c)
    BY <2>1 DEF Recovers
  <2>2. CASE KeepsUp(mdc, c, Len(datagram))
    BY <1>9, <2>2, NoneQueued DEF KeepsUp, ConsumerOK, HasQueuedSent
  <2> QED
    BY <1>8, <2>1, <2>2
<1>15. ~ c.is_in_recovery => snapshots' = <<>>
  BY <1>8, <1>11, <1>12 DEF Recovers, KeepsUp
<1>16. CanBeHeard(Snaps, c.queued_snapshot_updates, snapshots', publishing, Snap(n_seq_last),
                  n_snapshot_lost)
  <2>1. PICK queue, after, snaps, publ, current, loss, all :
          /\ queue = mdc.queued_snapshot_updates /\ after = c.queued_snapshot_updates
          /\ snaps = snapshots /\ publ = publishing
          /\ current = Snap(n_seq_last) /\ loss = n_snapshot_lost /\ all = Snaps
    OBVIOUS
  <2>2. CanBeHeard(all, queue, snaps, publ, current, loss) /\ Len(snaps) \in Nat
    BY <2>1, SeqMembers DEF BInv, HeardOK, IInv, SnapshotsOK
  <2>3. after \in {queue, NoUpdates}
    BY <1>8, <1>9, <2>1 DEF Recovers, KeepsUp, ConsumerOK
  <2>4. CanBeHeard(all, after, snaps, publ, current, loss)
    BY <2>2, <2>3, HeardWithoutQueue
  <2> QED
    BY <1>12, <2>1, <2>4
<1>17. Of(incremental') \subseteq Of(incremental)
  BY <1>3, TailIsSeq DEF IInv, IncrementalOK
<1> QED
  BY <1>3, <1>9, <1>13, <1>14, <1>15, <1>16, <1>17, ReceivedBooks

LEMMA ReceiveSnapshotBooks ==
  ASSUME IInv, BInv, IInv', ReceiveSnapshot
  PROVE  BInv'
<1>1. PICK datagram : datagram = Head(snapshots)
  OBVIOUS
<1>2. PICK c : c = rx_callback(TRUE, mdc, datagram)
  OBVIOUS
<1>3. /\ snapshots # <<>>
      /\ mdc' = [c EXCEPT !.pushed = <<>>]
      /\ client_book' = AppliedFirst(Len(c.pushed), c.pushed, client_book)
      /\ position' = IF c.is_in_recovery THEN position ELSE c.n_seq_inc_next - 1
      /\ snapshots' = IF mdc'.is_in_recovery THEN Tail(snapshots) ELSE <<>>
      /\ UNCHANGED <<sent_updates, n_seq_next, n_seq_last, pictures, tx_buffer, publishing,
                     n_snapshot_lost, incremental>>
  BY <1>1, <1>2 DEF ReceiveSnapshot, Receive, publisherVars, synthesizerVars, lossVars
<1>4. PICK last \in Nat : last = n_seq_next - 1
  BY Numbers
<1>5. PICK covered \in 0 .. last : covered = n_seq_last
  BY <1>4, Numbers
<1>6. ConsumerOK(mdc, last, covered) /\ mdc.pushed = <<>> /\ HasQueuedSent(mdc) /\ mdc.is_in_recovery
  BY <1>3, <1>4, <1>5 DEF IInv, ClientOK, BInv, QueuedOK
<1>7. SnapshotDatagramOK(datagram, covered) /\ IsSeq(snapshots) /\ datagram = snapshots[1]
      /\ Len(snapshots) \in Nat \ {0}
  BY <1>1, <1>3, <1>5, TailIsSeq DEF IInv, SnapshotsOK
<1>8. PICK queue, snaps, publ, current, loss, all :
        /\ queue = mdc.queued_snapshot_updates /\ snaps = snapshots /\ publ = publishing
        /\ current = Snap(n_seq_last) /\ loss = n_snapshot_lost /\ all = Snaps
  OBVIOUS
<1>9. PICK tag \in [0 .. Len(snaps) -> all] : HeardAs(tag, queue, snaps, publ, current, loss)
  BY <1>8 DEF BInv, HeardOK, CanBeHeard
<1>10. PICK m \in 0 .. covered : tag[1] = Snap(m)
  <2>1. tag[1] \in all
    BY <1>7, <1>8
  <2> QED
    BY <1>5, <1>8, <2>1 DEF Snaps
<1>11. PICK messages, b : messages = tag[1] /\ b = Books(m)
  OBVIOUS
<1>12. IsSnapshot(messages, b, m)
  BY <1>5, <1>10, <1>11, SnapsAre
<1>13. PartOf(datagram, messages) /\ Fits(queue, messages, datagram[1].n_seq)
  <2>1. 1 \in 1 .. Len(snaps) /\ 1 - 1 = 0
    BY <1>7, <1>8
  <2>2. /\ QueueOf(queue, tag[0]) /\ PartOf(datagram, messages)
        /\ OpenAfter(queue, snaps, 0) => messages = tag[0] \/ Starts(datagram)
    BY <1>7, <1>8, <1>9, <1>11, <2>1 DEF HeardAs
  <2>3. CASE DOMAIN queue = {}
    BY <2>2, <2>3 DEF Fits, QueueOf, Within
  <2>4. CASE DOMAIN queue # {}
    <3>1. 0 \in DOMAIN queue
      BY <2>2, <2>4 DEF QueueOf
    <3> QED
      BY <2>2, <2>4, <3>1 DEF OpenAfter, Fits, Starts
  <2> QED
    BY <2>2, <2>3, <2>4
<1>14. PICK queued : queued = mdc.queued_incremental_updates
  OBVIOUS
<1>15. Outcome(c, queued, messages, m, Ends(datagram))
  BY <1>2, <1>6, <1>7, <1>8, <1>12, <1>13, <1>14, SnapshotDatagramOf
<1>16. ConsumerOK(c, n_seq_next - 1, n_seq_last)
  <2>1. Settled(mdc, c, last, covered)
    BY <1>2, <1>6, <1>7, SnapshotDatagram
  <2> QED
    BY <1>4, <1>5, <2>1 DEF Settled
<1>17. mdc'.is_in_recovery = c.is_in_recovery
  BY <1>3, <1>16, WithoutPushed
<1>18. client_book = Books(position) /\ position \in Nat
  BY DEF BInv, BooksOK, IInv, ClientOK
<1>19. CASE /\ StillQueues(c, queued) /\ QueueOf(c.queued_snapshot_updates, messages)
            /\ Ends(datagram) => c.queued_snapshot_updates = NoUpdates
  <2>1. c.is_in_recovery = TRUE /\ c.pushed = <<>> /\ c.queued_incremental_updates = queued
    BY <1>19 DEF StillQueues
  <2>2. position' = position /\ Len(c.pushed) = 0 /\ snapshots' = Tail(snaps)
    BY <1>3, <1>8, <1>17, <2>1, EmptyIsSeq
  <2>3. client_book' = Books(position')
    <3>1. client_book' = AppliedFirst(0, c.pushed, client_book)
      BY <1>3, <2>2
    <3> QED
      BY <1>18, <2>2, <3>1, AppliedStep
  <2>4. HasQueuedSent(c)
    BY <1>6, <1>14, <2>1 DEF HasQueuedSent
  <2>5. CanBeHeard(all, c.queued_snapshot_updates, Tail(snaps), publ, current, loss)
    <3>1. PICK after : after = c.queued_snapshot_updates
      OBVIOUS
    <3>2. QueueOf(after, tag[1]) /\ (Ends(snaps[1]) => after = NoUpdates)
      BY <1>7, <1>8, <1>11, <1>19, <3>1
    <3>3. IsSeq(snaps) /\ snaps # <<>>
      BY <1>3, <1>7, <1>8
    <3>4. CanBeHeard(all, after, Tail(snaps), publ, current, loss)
      BY <1>9, <3>2, <3>3, HeardWhenReceived
    <3> QED
      BY <3>1, <3>4
  <2>6. CanBeHeard(Snaps, c.queued_snapshot_updates, snapshots', publishing, Snap(n_seq_last),
                   n_snapshot_lost)
    BY <1>8, <2>2, <2>5
  <2> QED
    BY <1>3, <1>16, <2>1, <2>3, <2>4, <2>6, ReceivedBooks
<1>20. CASE c.is_in_recovery = FALSE /\ CaughtUp(c, queued, messages, m)
  <2>1. position' = c.n_seq_inc_next - 1 /\ snapshots' = <<>>
    BY <1>3, <1>17, <1>20
  <2>2. c.queued_snapshot_updates = NoUpdates /\ c.queued_incremental_updates = NoUpdates
    BY <1>16, <1>20 DEF ConsumerOK
  <2>3. client_book' = Books(position')
    <3>1. OfTickers(client_book)
      <4>1. PICK p \in 0 .. Len(sent_updates) : p = position
        BY Numbers, <1>18 DEF BInv, BooksOK
      <4>2. AreBooks(Books(p))
        BY ExchangeBooks DEF IInv
      <4> QED
        BY <1>18, <4>1, <4>2 DEF AreBooks
    <3>2. \A n \in DOMAIN queued : queued[n] = sent_updates[n]
      BY <1>6, <1>14 DEF HasQueuedSent
    <3>3. m \in Nat /\ IsSnapshot(messages, Books(m), m)
      BY <1>5, <1>11, <1>12
    <3>4. PICK books : books = client_book /\ OfTickers(books)
      BY <3>1
    <3>5. AppliedFirst(Len(c.pushed), c.pushed, books) = Books(c.n_seq_inc_next - 1)
      BY <1>20, <3>2, <3>3, <3>4, CaughtUpBooks
    <3> QED
      BY <1>3, <2>1, <3>4, <3>5
  <2>4. HasQueuedSent(c)
    BY <2>2, NoneQueued DEF HasQueuedSent
  <2>5. CanBeHeard(Snaps, c.queued_snapshot_updates, snapshots', publishing, Snap(n_seq_last),
                   n_snapshot_lost)
    <3>1. messages \in Snaps
      BY <1>5, <1>10, <1>11, SnapsAre
    <3> QED
      BY <2>1, <2>2, <3>1, HeardNothing
  <2> QED
    BY <1>3, <1>16, <2>1, <2>3, <2>4, <2>5, ReceivedBooks
<1> QED
  BY <1>15, <1>19, <1>20 DEF Outcome

LEMMA BooksAtTheStart ==
  ASSUME Init
  PROVE  BInv
<1>1. /\ sent_updates = <<>> /\ n_seq_next = 1 /\ tx_buffer = <<>> /\ pictures = EmptyBooks
      /\ n_seq_last = 0 /\ publishing = <<>> /\ incremental = <<>> /\ snapshots = <<>>
      /\ mdc = NewConsumer /\ client_book = EmptyBooks /\ position = 0 /\ n_snapshot_lost = 0
  BY DEF Init
<1>2. IInv
  BY AtTheStart
<1>3. Books(0) = EmptyBooks
  BY AppliedStep DEF Books
<1>4. BooksOK
  BY <1>1, <1>3 DEF BooksOK
<1>5. ConsecutiveOK
  BY <1>1, EmptyIsSeq DEF ConsecutiveOK
<1>6. /\ mdc.pushed = <<>> /\ mdc.queued_snapshot_updates = NoUpdates
      /\ mdc.queued_incremental_updates = NoUpdates
  BY <1>1 DEF NewConsumer
<1>7. QueuedOK
  BY <1>1, <1>6, NoneQueued DEF QueuedOK, HasQueuedSent
<1>8. SendingOK
  BY <1>1, EmptyIsSeq DEF SendingOK
<1>9. HeardOK
  <2>1. 0 \in 0 .. n_seq_last
    BY <1>1
  <2>2. Snap(0) \in Snaps
    BY <1>2, <2>1, SnapsAre
  <2> QED
    BY <1>1, <1>6, <2>2, HeardNothing DEF HeardOK
<1> QED
  BY <1>4, <1>5, <1>7, <1>8, <1>9 DEF BInv

LEMMA BooksInvariance == MaxSnapshotLost <= 1 => (Spec => []BInv)
<1> SUFFICES ASSUME MaxSnapshotLost <= 1
             PROVE  Spec => []BInv
  OBVIOUS
<1>1. Init => BInv
  BY BooksAtTheStart
<1>2. IInv /\ IInv' /\ BInv /\ [Next]_vars => BInv'
  <2> SUFFICES ASSUME IInv, IInv', BInv, [Next]_vars
               PROVE  BInv'
    OBVIOUS
  <2>1. CASE \E t \in Tickers : \E u \in EngineUpdates(t) : EngineSends(u)
    BY <2>1, EngineSendsBooks
  <2>2. CASE Publisher
    <3>1. CASE PublishUpdate
      BY <3>1, PublishUpdateBooks
    <3>2. CASE SendIncremental
      BY <3>2, TransmitBooks DEF SendIncremental, Transmit
    <3>3. CASE LoseIncremental
      BY <3>3, TransmitBooks DEF LoseIncremental, Transmit
    <3> QED
      BY <2>2, <3>1, <3>2, <3>3 DEF Publisher
  <2>3. CASE Synthesizer
    BY <2>3, AddToSnapshotBooks, StartSnapshotBooks, SendSnapshotBooks, LoseSnapshotBooks
       DEF Synthesizer
  <2>4. CASE ReceiveIncremental
    BY <2>4, ReceiveIncrementalBooks
  <2>5. CASE ReceiveSnapshot
    BY <2>5, ReceiveSnapshotBooks
  <2>6. CASE Overtake
    BY <2>6, OvertakeBooks
  <2>7. CASE UNCHANGED vars
    <3>1. UNCHANGED <<sent_updates, n_seq_next, tx_buffer, pictures, n_seq_last, publishing,
                      incremental, snapshots, mdc, client_book, position, n_snapshot_lost>>
      BY <2>7 DEF vars, publisherVars, synthesizerVars, clientVars, lossVars
    <3>2. SentKept /\ NumbersOK' /\ n_seq_next <= n_seq_next'
      BY <3>1, Numbers DEF SentKept, IInv
    <3> QED
      BY <3>1, <3>2, BooksFrame DEF BInv
  <2> QED
    BY <2>1, <2>2, <2>3, <2>4, <2>5, <2>6, <2>7 DEF Next
<1> QED
  BY <1>1, <1>2, Invariance, PTL DEF Spec

(* Where at most one datagram of the snapshots is lost, the books that the *)
(* trading engine makes of what the consumer pushes are always books that  *)
(* the exchange had: whatever incremental datagrams are lost, and however  *)
(* they overtake each other, queued updates, a snapshot put together from  *)
(* its datagrams and the updates after it make no other.                   *)
THEOREM ClientAlwaysReal == MaxSnapshotLost <= 1 => (Spec => []ClientBookIsReal)
<1> SUFFICES ASSUME MaxSnapshotLost <= 1
             PROVE  Spec => []ClientBookIsReal
  OBVIOUS
<1>1. BInv => ClientBookIsReal
  BY DEF BInv, BooksOK, ClientBookIsReal
<1> QED
  BY <1>1, BooksInvariance, PTL
=============================================================================
