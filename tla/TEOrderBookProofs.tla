--------------------------- MODULE TEOrderBookProofs ---------------------------
(***************************************************************************)
(* TEOrderBook for any quotes, quantities and sizes of the pools, as long  *)
(* as prices from before a CLEAR do not come back after it.                *)
(*                                                                         *)
(* The invariant says that there are sequences of blocks, L[side] of a     *)
(* side's levels and Q[l] of a level's orders, that the links go round,    *)
(* and what these sequences have to do with the fed book.  The lemmas on   *)
(* rings say what linking and unlinking a block makes of such a sequence,  *)
(* and that who follows the links meets just its blocks.                   *)
(***************************************************************************)
EXTENDS TEOrderBook, SequenceTheorems, FiniteSetTheorems, WellFoundedInduction, TLAPS

-----------------------------------------------------------------------------
(* Rings.                                                                  *)

Following(s, i) == IF i = Len(s) THEN s[1] ELSE s[i + 1]

Preceding(s, i) == IF i = 1 THEN s[Len(s)] ELSE s[i - 1]

Distinct(s) == \A i, j \in 1 .. Len(s) : s[i] = s[j] => i = j

(* The links of memory lead from first along s and around.                 *)
Ring(memory, first, s) ==
  /\ s \in Seq(DOMAIN memory) /\ s # <<>> /\ s[1] = first
  /\ Distinct(s)
  /\ \A i \in 1 .. Len(s) :
       memory[s[i]].next = Following(s, i) /\ memory[s[i]].prev = Preceding(s, i)

Inserted(s, k, x) ==
  [i \in 1 .. Len(s) + 1 |-> IF i < k THEN s[i] ELSE IF i = k THEN x ELSE s[i - 1]]

Without(s, k) == [i \in 1 .. Len(s) - 1 |-> IF i < k THEN s[i] ELSE s[i + 1]]

Node(memory, b) == {"prev", "next"} \subseteq DOMAIN memory[b]

(* All but the links of memory is as before.                               *)
SameButLinks(memory, before) ==
  /\ DOMAIN memory = DOMAIN before
  /\ \A b \in DOMAIN before :
       /\ DOMAIN memory[b] = DOMAIN before[b]
       /\ \A field \in DOMAIN before[b] \ {"prev", "next"} : memory[b][field] = before[b][field]

LEMMA SeqFacts ==
  ASSUME NEW S, NEW s \in Seq(S)
  PROVE  /\ Len(s) \in Nat /\ DOMAIN s = 1 .. Len(s)
         /\ \A i \in 1 .. Len(s) : s[i] \in S
         /\ s # <<>> => Len(s) >= 1
  BY LenProperties, ElementOfSeq, EmptySeq

LEMMA FunctionIsSeq ==
  ASSUME NEW S, NEW n \in Nat, NEW f \in [1 .. n -> S]
  PROVE  f \in Seq(S) /\ Len(f) = n /\ DOMAIN f = 1 .. n
<1>1. f \in Seq(S)
  BY SeqDef
<1>2. DOMAIN f = 1 .. Len(f) /\ Len(f) \in Nat
  BY <1>1, LenProperties
<1> QED
  BY <1>1, <1>2

LEMMA InsertedIs ==
  ASSUME NEW S, NEW s \in Seq(S), NEW x \in S, NEW k \in 1 .. Len(s) + 1
  PROVE  /\ Inserted(s, k, x) \in Seq(S) /\ Inserted(s, k, x) # <<>>
         /\ Len(Inserted(s, k, x)) = Len(s) + 1
         /\ \A i \in 1 .. Len(s) + 1 :
              Inserted(s, k, x)[i] = IF i < k THEN s[i] ELSE IF i = k THEN x ELSE s[i - 1]
<1>1. Len(s) \in Nat /\ \A i \in 1 .. Len(s) : s[i] \in S
  BY SeqFacts
<1>2. \A i \in 1 .. Len(s) + 1 : (IF i < k THEN s[i] ELSE IF i = k THEN x ELSE s[i - 1]) \in S
  BY <1>1
<1>3. Inserted(s, k, x) \in [1 .. Len(s) + 1 -> S]
  BY <1>2 DEF Inserted
<1>4. Inserted(s, k, x) \in Seq(S) /\ Len(Inserted(s, k, x)) = Len(s) + 1
  BY <1>1, <1>3, FunctionIsSeq
<1> QED
  BY <1>1, <1>4, EmptySeq DEF Inserted

LEMMA WithoutIs ==
  ASSUME NEW S, NEW s \in Seq(S), NEW k \in 1 .. Len(s)
  PROVE  /\ Without(s, k) \in Seq(S)
         /\ Len(Without(s, k)) = Len(s) - 1
         /\ \A i \in 1 .. Len(s) - 1 : Without(s, k)[i] = IF i < k THEN s[i] ELSE s[i + 1]
<1>1. Len(s) \in Nat /\ \A i \in 1 .. Len(s) : s[i] \in S
  BY SeqFacts
<1>2. \A i \in 1 .. Len(s) - 1 : (IF i < k THEN s[i] ELSE s[i + 1]) \in S
  BY <1>1
<1>3. Without(s, k) \in [1 .. Len(s) - 1 -> S]
  BY <1>2 DEF Without
<1>4. Without(s, k) \in Seq(S) /\ Len(Without(s, k)) = Len(s) - 1
  BY <1>1, <1>3, FunctionIsSeq
<1> QED
  BY <1>1, <1>4 DEF Without

(* One link of one block.                                                  *)
SetsNext(after, memory, b, x) == after = [memory EXCEPT ![b].next = x]

SetsPrev(after, memory, b, x) == after = [memory EXCEPT ![b].prev = x]

LEMMA NextSet ==
  ASSUME NEW memory, NEW b \in DOMAIN memory, Node(memory, b), NEW x,
         NEW after, SetsNext(after, memory, b, x)
  PROVE  /\ SameButLinks(after, memory)
         /\ after[b].next = x /\ after[b].prev = memory[b].prev
         /\ \A c \in DOMAIN memory \ {b} : after[c] = memory[c]
  BY DEF SetsNext, Node, SameButLinks

LEMMA PrevSet ==
  ASSUME NEW memory, NEW b \in DOMAIN memory, Node(memory, b), NEW x,
         NEW after, SetsPrev(after, memory, b, x)
  PROVE  /\ SameButLinks(after, memory)
         /\ after[b].prev = x /\ after[b].next = memory[b].next
         /\ \A c \in DOMAIN memory \ {b} : after[c] = memory[c]
  BY DEF SetsPrev, Node, SameButLinks

LEMMA SameTwice ==
  ASSUME NEW m1, NEW m2, NEW m3, SameButLinks(m2, m1), SameButLinks(m3, m2)
  PROVE  SameButLinks(m3, m1)
  BY DEF SameButLinks

LEMMA LinkBeforeIs ==
  ASSUME NEW memory, NEW new \in DOMAIN memory, NEW target \in DOMAIN memory,
         memory[target].prev \in DOMAIN memory,
         new # target, new # memory[target].prev,
         Node(memory, new), Node(memory, target), Node(memory, memory[target].prev),
         NEW after, after = LinkBefore(memory, new, target)
  PROVE     /\ SameButLinks(after, memory)
            /\ \A b \in DOMAIN memory :
                 /\ after[b].next = IF b = new THEN target
                                    ELSE IF b = memory[target].prev THEN new
                                    ELSE memory[b].next
                 /\ after[b].prev = IF b = new THEN memory[target].prev
                                    ELSE IF b = target THEN new
                                    ELSE memory[b].prev
                 /\ b \notin {new, target, memory[target].prev} => after[b] = memory[b]
<1> DEFINE p  == memory[target].prev
           m1 == [memory EXCEPT ![p].next = new]
           m2 == [m1 EXCEPT ![new].prev = p]
           m3 == [m2 EXCEPT ![new].next = target]
           m4 == [m3 EXCEPT ![target].prev = new]
<1>1. after = m4
  BY DEF LinkBefore
<1>a. SetsNext(m1, memory, p, new) /\ SetsPrev(m2, m1, new, p)
      /\ SetsNext(m3, m2, new, target) /\ SetsPrev(m4, m3, target, new)
  BY DEF SetsNext, SetsPrev
<1> HIDE DEF m1, m2, m3, m4
<1>b. p \in DOMAIN memory /\ Node(memory, p) /\ new # p
  OBVIOUS
<1>c. p = memory[target].prev
  OBVIOUS
<1> HIDE DEF p
<1>2. /\ SameButLinks(m1, memory) /\ m1[p].next = new /\ m1[p].prev = memory[p].prev
      /\ \A c \in DOMAIN memory \ {p} : m1[c] = memory[c]
  BY <1>a, <1>b, NextSet
<1>3. DOMAIN m1 = DOMAIN memory /\ Node(m1, new)
  BY <1>2 DEF SameButLinks, Node
<1>4. /\ SameButLinks(m2, m1) /\ m2[new].prev = p /\ m2[new].next = m1[new].next
      /\ \A c \in DOMAIN memory \ {new} : m2[c] = m1[c]
  BY <1>3, <1>a, <1>b, PrevSet
<1>5. DOMAIN m2 = DOMAIN memory /\ Node(m2, new)
  BY <1>3, <1>4 DEF SameButLinks, Node
<1>6. /\ SameButLinks(m3, m2) /\ m3[new].next = target /\ m3[new].prev = m2[new].prev
      /\ \A c \in DOMAIN memory \ {new} : m3[c] = m2[c]
  BY <1>5, <1>a, NextSet
<1>7. SameButLinks(m3, memory)
  BY <1>2, <1>4, <1>6, SameTwice
<1>8. DOMAIN m3 = DOMAIN memory /\ Node(m3, target)
  BY <1>7 DEF SameButLinks, Node
<1>9. /\ SameButLinks(m4, m3) /\ m4[target].prev = new /\ m4[target].next = m3[target].next
      /\ \A c \in DOMAIN memory \ {target} : m4[c] = m3[c]
  BY <1>8, <1>a, PrevSet
<1>10. SameButLinks(m4, memory)
  BY <1>7, <1>9, SameTwice
<1>11. ASSUME NEW b \in DOMAIN memory
       PROVE  /\ m4[b].next = IF b = new THEN target ELSE IF b = p THEN new ELSE memory[b].next
              /\ m4[b].prev = IF b = new THEN p ELSE IF b = target THEN new ELSE memory[b].prev
              /\ b \notin {new, target, p} => m4[b] = memory[b]
  BY <1>2, <1>4, <1>6, <1>9, <1>b, <1>11
<1> QED
  BY <1>1, <1>10, <1>11, <1>c

LEMMA UnlinkIs ==
  ASSUME NEW memory, NEW b \in DOMAIN memory,
         memory[b].prev \in DOMAIN memory, memory[b].next \in DOMAIN memory,
         memory[b].prev # b, memory[b].next # b,
         Node(memory, b), Node(memory, memory[b].prev), Node(memory, memory[b].next),
         NEW after, after = Unlink(memory, b)
  PROVE     /\ SameButLinks(after, memory)
            /\ \A c \in DOMAIN memory \ {b} :
                 /\ after[c].next = IF c = memory[b].prev THEN memory[b].next ELSE memory[c].next
                 /\ after[c].prev = IF c = memory[b].next THEN memory[b].prev ELSE memory[c].prev
                 /\ c \notin {memory[b].next, memory[b].prev} => after[c] = memory[c]
<1> DEFINE p  == memory[b].prev
           n  == memory[b].next
           m1 == [memory EXCEPT ![p].next = n]
           m2 == [m1 EXCEPT ![n].prev = p]
           m3 == [m2 EXCEPT ![b].prev = Null]
           m4 == [m3 EXCEPT ![b].next = Null]
<1>1. after = m4
  BY DEF Unlink
<1>a. SetsNext(m1, memory, p, n) /\ SetsPrev(m2, m1, n, p)
      /\ SetsPrev(m3, m2, b, Null) /\ SetsNext(m4, m3, b, Null)
  BY DEF SetsNext, SetsPrev
<1> HIDE DEF m1, m2, m3, m4
<1>b. p \in DOMAIN memory /\ Node(memory, p) /\ p # b /\ n \in DOMAIN memory /\ Node(memory, n) /\ n # b
  OBVIOUS
<1>c. p = memory[b].prev /\ n = memory[b].next
  OBVIOUS
<1> HIDE DEF p, n
<1>2. /\ SameButLinks(m1, memory) /\ m1[p].next = n /\ m1[p].prev = memory[p].prev
      /\ \A c \in DOMAIN memory \ {p} : m1[c] = memory[c]
  BY <1>a, <1>b, NextSet
<1>3. DOMAIN m1 = DOMAIN memory /\ Node(m1, n)
  BY <1>2, <1>b DEF SameButLinks, Node
<1>4. /\ SameButLinks(m2, m1) /\ m2[n].prev = p /\ m2[n].next = m1[n].next
      /\ \A c \in DOMAIN memory \ {n} : m2[c] = m1[c]
  BY <1>3, <1>a, <1>b, PrevSet
<1>5. DOMAIN m2 = DOMAIN memory /\ Node(m2, b)
  BY <1>2, <1>3, <1>4 DEF SameButLinks, Node
<1>6. SameButLinks(m3, m2) /\ \A c \in DOMAIN memory \ {b} : m3[c] = m2[c]
  BY <1>5, <1>a, PrevSet
<1>7. SameButLinks(m3, memory)
  BY <1>2, <1>4, <1>6, SameTwice
<1>8. DOMAIN m3 = DOMAIN memory /\ Node(m3, b)
  BY <1>7 DEF SameButLinks, Node
<1>9. SameButLinks(m4, m3) /\ \A c \in DOMAIN memory \ {b} : m4[c] = m3[c]
  BY <1>8, <1>a, NextSet
<1>10. SameButLinks(m4, memory)
  BY <1>7, <1>9, SameTwice
<1>11. ASSUME NEW c \in DOMAIN memory \ {b}
       PROVE  /\ m4[c].next = IF c = p THEN n ELSE memory[c].next
              /\ m4[c].prev = IF c = n THEN p ELSE memory[c].prev
              /\ c \notin {n, p} => m4[c] = memory[c]
  BY <1>2, <1>4, <1>6, <1>9, <1>b, <1>11
<1> QED
  BY <1>1, <1>10, <1>11, <1>c

-----------------------------------------------------------------------------
(* What becomes of a ring when memory changes.                             *)

LEMMA RingInserted ==
  ASSUME NEW memory, NEW first, NEW s, Ring(memory, first, s), NEW k \in 1 .. Len(s) + 1,
         NEW new \in DOMAIN memory, Node(memory, new),
         \A i \in 1 .. Len(s) : s[i] # new /\ Node(memory, s[i]),
         NEW after, after = LinkBefore(memory, new, IF k <= Len(s) THEN s[k] ELSE s[1])
  PROVE  /\ Ring(after, Inserted(s, k, new)[1], Inserted(s, k, new))
         /\ SameButLinks(after, memory)
         /\ \A b \in DOMAIN memory : b # new /\ (\A i \in 1 .. Len(s) : b # s[i]) => after[b] = memory[b]
<1> DEFINE target == IF k <= Len(s) THEN s[k] ELSE s[1]
           q == IF k = 1 THEN Len(s) ELSE k - 1
           t == Inserted(s, k, new)
<1>1. /\ s \in Seq(DOMAIN memory) /\ Len(s) \in Nat /\ Len(s) >= 1
      /\ \A i \in 1 .. Len(s) : s[i] \in DOMAIN memory
  BY SeqFacts DEF Ring
<1>2. q \in 1 .. Len(s)
  BY <1>1
<1>3. target \in DOMAIN memory /\ target # new /\ Node(memory, target)
  BY <1>1
<1>4. memory[target].prev = s[q]
  BY <1>1 DEF Ring, Preceding
<1>5. s[q] \in DOMAIN memory /\ s[q] # new /\ Node(memory, s[q])
  BY <1>1, <1>2
<1>6. after = LinkBefore(memory, new, target)
  OBVIOUS
<1> HIDE DEF target, q
<1>7. /\ SameButLinks(after, memory)
      /\ \A b \in DOMAIN memory :
           /\ after[b].next = IF b = new THEN target ELSE IF b = s[q] THEN new ELSE memory[b].next
           /\ after[b].prev = IF b = new THEN s[q] ELSE IF b = target THEN new ELSE memory[b].prev
           /\ b \notin {new, target, s[q]} => after[b] = memory[b]
  BY <1>3, <1>4, <1>5, <1>6, LinkBeforeIs
<1>t. t = Inserted(s, k, new)
  OBVIOUS
<1> HIDE DEF t
<1>8. /\ t \in Seq(DOMAIN memory) /\ t # <<>> /\ Len(t) = Len(s) + 1
      /\ \A i \in 1 .. Len(s) + 1 : t[i] = IF i < k THEN s[i] ELSE IF i = k THEN new ELSE s[i - 1]
  <2>1. k \in 1 .. Len(s) + 1 /\ new \in DOMAIN memory
    OBVIOUS
  <2>2. /\ Inserted(s, k, new) \in Seq(DOMAIN memory) /\ Inserted(s, k, new) # <<>>
        /\ Len(Inserted(s, k, new)) = Len(s) + 1
        /\ \A i \in 1 .. Len(s) + 1 :
             Inserted(s, k, new)[i] = IF i < k THEN s[i] ELSE IF i = k THEN new ELSE s[i - 1]
    <3>1. s \in Seq(DOMAIN memory)
      BY <1>1
    <3> QED
      BY ONLY SMTT(30), <2>1, <3>1, InsertedIs
  <2> QED
    BY ONLY <1>t, <2>2
<1>9. Distinct(t)
  <2>1. Distinct(s)
    BY DEF Ring
  <2> SUFFICES ASSUME NEW i \in 1 .. Len(s) + 1, NEW j \in 1 .. Len(s) + 1, t[i] = t[j]
               PROVE  i = j
    BY <1>8 DEF Distinct
  <2>2. ASSUME NEW h \in 1 .. Len(s) + 1, h # k
        PROVE  \E m \in 1 .. Len(s) : t[h] = s[m] /\ m = IF h < k THEN h ELSE h - 1
    BY <1>1, <1>8, <2>2
  <2>3. CASE i = k \/ j = k
    <3>1. t[k] = new
      BY <1>1, <1>8
    <3> QED
      BY <2>2, <2>3, <3>1
  <2>4. CASE i # k /\ j # k
    <3>1. PICK m \in 1 .. Len(s) : t[i] = s[m] /\ m = IF i < k THEN i ELSE i - 1
      BY <2>2, <2>4
    <3>2. PICK o \in 1 .. Len(s) : t[j] = s[o] /\ o = IF j < k THEN j ELSE j - 1
      BY <2>2, <2>4
    <3>3. m = o
      BY <2>1, <3>1, <3>2 DEF Distinct
    <3> QED
      BY <1>1, <2>4, <3>1, <3>2, <3>3
  <2> QED
    BY <2>3, <2>4
<1>10. ASSUME NEW i \in 1 .. Len(s) + 1
       PROVE  after[t[i]].next = Following(t, i)
  <2>1. CASE i = k
    <3>1. t[i] = new /\ after[t[i]].next = target
      BY <1>7, <1>8, <2>1
    <3>2. Following(t, i) = target
      BY <1>1, <1>8, <2>1 DEF Following, target
    <3> QED
      BY <3>1, <3>2
  <2>2. CASE i # k
    <3> DEFINE j == IF i < k THEN i ELSE i - 1
    <3>1. j \in 1 .. Len(s) /\ t[i] = s[j]
      BY <1>1, <1>8, <2>2
    <3>2. after[s[j]].next = IF j = q THEN new ELSE Following(s, j)
      <4>1. s[j] \in DOMAIN memory /\ s[j] # new /\ memory[s[j]].next = Following(s, j)
        BY <1>1, <3>1 DEF Ring
      <4>2. s[j] = s[q] <=> j = q
        BY <1>2, <3>1 DEF Ring, Distinct
      <4> QED
        BY <1>7, <4>1, <4>2
    <3>3. Following(t, i) = IF j = q THEN new ELSE Following(s, j)
      BY <1>1, <1>8, <2>2 DEF Following, q
    <3> QED
      BY <3>1, <3>2, <3>3
  <2> QED
    BY <2>1, <2>2
<1>11. ASSUME NEW i \in 1 .. Len(s) + 1
       PROVE  after[t[i]].prev = Preceding(t, i)
  <2>1. CASE i = k
    <3>1. t[i] = new /\ after[t[i]].prev = s[q]
      BY <1>7, <1>8, <2>1
    <3>2. Preceding(t, i) = s[q]
      BY <1>1, <1>8, <2>1 DEF Preceding, q
    <3> QED
      BY <3>1, <3>2
  <2>2. CASE i # k
    <3> DEFINE j == IF i < k THEN i ELSE i - 1
               r == IF k <= Len(s) THEN k ELSE 1
    <3>1. j \in 1 .. Len(s) /\ t[i] = s[j] /\ r \in 1 .. Len(s) /\ target = s[r]
      BY <1>1, <1>8, <2>2 DEF target
    <3>2. after[s[j]].prev = IF j = r THEN new ELSE Preceding(s, j)
      <4>1. s[j] \in DOMAIN memory /\ s[j] # new /\ memory[s[j]].prev = Preceding(s, j)
        BY <1>1, <3>1 DEF Ring
      <4>2. s[j] = target <=> j = r
        BY <3>1 DEF Ring, Distinct
      <4> QED
        BY <1>7, <4>1, <4>2
    <3>3. Preceding(t, i) = IF j = r THEN new ELSE Preceding(s, j)
      <4> HIDE DEF j, r
      <4>1. j = (IF i < k THEN i ELSE i - 1) /\ r = IF k <= Len(s) THEN k ELSE 1
        BY DEF j, r
      <4>2. CASE i = 1
        BY <1>1, <1>8, <2>2, <4>1, <4>2 DEF Preceding
      <4>3. CASE i # 1
        BY <1>1, <1>8, <2>2, <4>1, <4>3 DEF Preceding
      <4> QED
        BY <4>2, <4>3
    <3> QED
      BY <3>1, <3>2, <3>3
  <2> QED
    BY <2>1, <2>2
<1>12. Ring(after, t[1], t)
  <2>1. DOMAIN after = DOMAIN memory
    BY <1>7 DEF SameButLinks
  <2> QED
    BY <1>8, <1>9, <1>10, <1>11, <2>1 DEF Ring
<1>13. ASSUME NEW b \in DOMAIN memory, b # new, \A i \in 1 .. Len(s) : b # s[i]
       PROVE  after[b] = memory[b]
  <2>1. b # target /\ b # s[q]
    BY <1>1, <1>2, <1>13 DEF target
  <2> QED
    BY <1>7, <1>13, <2>1
<1> QED
  BY <1>7, <1>12, <1>13 DEF t

LEMMA RingWithout ==
  ASSUME NEW memory, NEW first, NEW s, Ring(memory, first, s), NEW k \in 1 .. Len(s), Len(s) # 1,
         \A i \in 1 .. Len(s) : Node(memory, s[i]),
         NEW after, after = Unlink(memory, s[k])
  PROVE  /\ Ring(after, Without(s, k)[1], Without(s, k))
         /\ SameButLinks(after, memory)
         /\ \A b \in DOMAIN memory : (\A i \in 1 .. Len(s) : b # s[i]) => after[b] = memory[b]
<1> DEFINE b == s[k]
           q == IF k = 1 THEN Len(s) ELSE k - 1
           r == IF k = Len(s) THEN 1 ELSE k + 1
           t == Without(s, k)
<1>1. /\ s \in Seq(DOMAIN memory) /\ Len(s) \in Nat /\ Len(s) >= 1
      /\ \A i \in 1 .. Len(s) : s[i] \in DOMAIN memory
  BY SeqFacts DEF Ring
<1>2. q \in 1 .. Len(s) /\ r \in 1 .. Len(s) /\ q # k /\ r # k
  <2>1. ASSUME NEW n \in Nat, NEW m \in 1 .. n, n # 1
        PROVE  /\ (IF m = 1 THEN n ELSE m - 1) \in 1 .. n
               /\ (IF m = n THEN 1 ELSE m + 1) \in 1 .. n
               /\ (IF m = 1 THEN n ELSE m - 1) # m
               /\ (IF m = n THEN 1 ELSE m + 1) # m
    <3>1. m \in Int /\ 1 <= m /\ m <= n
      OBVIOUS
    <3>2. m - 1 # m /\ m + 1 # m /\ (m # 1 => m - 1 \in 1 .. n) /\ (m # n => m + 1 \in 1 .. n)
      BY <3>1
    <3>3. n \in 1 .. n /\ 1 \in 1 .. n
      BY <3>1
    <3> QED
      BY <2>1, <3>2, <3>3
  <2> QED
    BY <1>1, <2>1
<1>3. memory[b].prev = s[q] /\ memory[b].next = s[r]
  BY <1>1 DEF Ring, Preceding, Following
<1>4. /\ b \in DOMAIN memory /\ s[q] \in DOMAIN memory /\ s[r] \in DOMAIN memory
      /\ s[q] # b /\ s[r] # b
      /\ Node(memory, b) /\ Node(memory, s[q]) /\ Node(memory, s[r])
  BY <1>1, <1>2 DEF Ring, Distinct
<1>5. after = Unlink(memory, b)
  OBVIOUS
<1>6. b = s[k]
  OBVIOUS
<1> HIDE DEF b, q, r
<1>7. /\ SameButLinks(after, memory)
      /\ \A c \in DOMAIN memory \ {b} :
           /\ after[c].next = IF c = s[q] THEN s[r] ELSE memory[c].next
           /\ after[c].prev = IF c = s[r] THEN s[q] ELSE memory[c].prev
           /\ c \notin {s[r], s[q]} => after[c] = memory[c]
  BY <1>3, <1>4, <1>5, UnlinkIs
<1>8. /\ t \in Seq(DOMAIN memory) /\ Len(t) = Len(s) - 1
      /\ \A i \in 1 .. Len(s) - 1 : t[i] = IF i < k THEN s[i] ELSE s[i + 1]
  BY <1>1, WithoutIs
<1> HIDE DEF t
<1>9. Distinct(t) /\ t # <<>>
  <2>1. Distinct(s)
    BY DEF Ring
  <2>2. Distinct(t)
    <3> SUFFICES ASSUME NEW i \in 1 .. Len(s) - 1, NEW j \in 1 .. Len(s) - 1, t[i] = t[j]
                 PROVE  i = j
      BY <1>8 DEF Distinct
    <3> DEFINE at(h) == IF h < k THEN h ELSE h + 1
    <3>1. at(i) \in 1 .. Len(s) /\ at(j) \in 1 .. Len(s) /\ t[i] = s[at(i)] /\ t[j] = s[at(j)]
      BY <1>1, <1>8
    <3>2. at(i) = at(j)
      BY <2>1, <3>1 DEF Distinct
    <3> QED
      BY <1>1, <3>2
  <2>3. Len(t) # 0
    BY <1>1, <1>8
  <2> QED
    BY <2>2, <2>3, EmptySeq
<1>10. ASSUME NEW i \in 1 .. Len(s) - 1
       PROVE  after[t[i]].next = Following(t, i) /\ after[t[i]].prev = Preceding(t, i)
  <2> DEFINE j == IF i < k THEN i ELSE i + 1
  <2>1. j \in 1 .. Len(s) /\ t[i] = s[j] /\ j # k
    BY <1>1, <1>8
  <2>2. s[j] \in DOMAIN memory \ {b}
    BY <1>1, <1>6, <2>1 DEF Ring, Distinct
  <2>3. memory[s[j]].next = Following(s, j) /\ memory[s[j]].prev = Preceding(s, j)
    BY <1>1, <2>1 DEF Ring
  <2>4. (s[j] = s[q] <=> j = q) /\ (s[j] = s[r] <=> j = r)
    BY <1>2, <2>1 DEF Ring, Distinct
  <2>5. after[s[j]].next = IF j = q THEN s[r] ELSE Following(s, j)
    BY <1>7, <2>2, <2>3, <2>4
  <2>6. after[s[j]].prev = IF j = r THEN s[q] ELSE Preceding(s, j)
    BY <1>7, <2>2, <2>3, <2>4
  <2>7. Following(t, i) = IF j = q THEN s[r] ELSE Following(s, j)
    <3> HIDE DEF j
    <3>1. j = (IF i < k THEN i ELSE i + 1) /\ q = (IF k = 1 THEN Len(s) ELSE k - 1)
          /\ r = IF k = Len(s) THEN 1 ELSE k + 1
      BY DEF j, q, r
    <3>2. CASE i = Len(s) - 1
      BY <1>1, <1>8, <3>1, <3>2 DEF Following
    <3>3. CASE i # Len(s) - 1
      BY <1>1, <1>8, <3>1, <3>3 DEF Following
    <3> QED
      BY <3>2, <3>3
  <2>8. Preceding(t, i) = IF j = r THEN s[q] ELSE Preceding(s, j)
    BY <1>1, <1>8 DEF Preceding, q, r
  <2> QED
    BY <2>1, <2>5, <2>6, <2>7, <2>8
<1>11. Ring(after, t[1], t)
  <2>1. DOMAIN after = DOMAIN memory
    BY <1>7 DEF SameButLinks
  <2> QED
    BY <1>8, <1>9, <1>10, <2>1 DEF Ring
<1>12. ASSUME NEW c \in DOMAIN memory, \A i \in 1 .. Len(s) : c # s[i]
       PROVE  after[c] = memory[c]
  <2>1. c # b /\ c # s[q] /\ c # s[r]
    BY <1>2, <1>6, <1>12
  <2> QED
    BY <1>7, <1>12, <2>1
<1> QED
  BY <1>7, <1>11, <1>12 DEF t

LEMMA RingSame ==
  ASSUME NEW memory, NEW first, NEW s, Ring(memory, first, s),
         NEW after, DOMAIN after = DOMAIN memory,
         \A i \in 1 .. Len(s) : after[s[i]].next = memory[s[i]].next
                                /\ after[s[i]].prev = memory[s[i]].prev
  PROVE  Ring(after, first, s)
  BY DEF Ring

LEMMA RingOfOne ==
  ASSUME NEW memory, NEW new \in DOMAIN memory, Node(memory, new),
         NEW after, after = LinkSelf(memory, new)
  PROVE  /\ Ring(after, new, <<new>>)
         /\ SameButLinks(after, memory)
         /\ \A b \in DOMAIN memory \ {new} : after[b] = memory[b]
<1> DEFINE m1 == [memory EXCEPT ![new].prev = new]
           m2 == [m1 EXCEPT ![new].next = new]
<1>1. after = m2 /\ SetsPrev(m1, memory, new, new) /\ SetsNext(m2, m1, new, new)
  BY DEF LinkSelf, SetsPrev, SetsNext
<1> HIDE DEF m1, m2
<1>2. /\ SameButLinks(m1, memory) /\ m1[new].prev = new
      /\ \A c \in DOMAIN memory \ {new} : m1[c] = memory[c]
  BY <1>1, PrevSet
<1>3. new \in DOMAIN m1 /\ Node(m1, new) /\ DOMAIN m1 = DOMAIN memory
  BY <1>2 DEF SameButLinks, Node
<1>4. /\ SameButLinks(m2, m1) /\ m2[new].next = new /\ m2[new].prev = m1[new].prev
      /\ \A c \in DOMAIN memory \ {new} : m2[c] = m1[c]
  BY <1>1, <1>3, NextSet
<1>5. SameButLinks(m2, memory)
  BY <1>2, <1>4, SameTwice
<1>6. DOMAIN m2 = DOMAIN memory
  BY <1>5 DEF SameButLinks
<1>7. <<new>> \in Seq(DOMAIN memory) /\ Len(<<new>>) = 1 /\ <<new>>[1] = new /\ <<new>> # <<>>
  OBVIOUS
<1>8. Ring(m2, new, <<new>>)
  BY <1>2, <1>4, <1>6, <1>7 DEF Ring, Distinct, Following, Preceding
<1> QED
  BY <1>1, <1>2, <1>4, <1>5, <1>8

-----------------------------------------------------------------------------
(* Who follows the links of a ring meets its blocks, and ends.             *)

LEMMA LeastNumber ==
  ASSUME NEW T \in SUBSET Nat, T # {}
  PROVE  \E n \in T : \A m \in T : n <= m
<1>1. PICK n \in T : \A m \in T : ~ (<<m, n>> \in OpToRel(<, Nat))
  BY NatLessThanWellFounded, WFMin
<1>2. \A m \in T : ~ (m < n)
  BY <1>1 DEF OpToRel
<1> QED
  BY <1>2

LEMMA Induction ==
  ASSUME NEW P \in SUBSET Nat, 0 \in P, \A n \in P : n + 1 \in P
  PROVE  P = Nat
<1> DEFINE bad == Nat \ P
<1> SUFFICES ASSUME bad # {}
             PROVE  FALSE
  OBVIOUS
<1>1. PICK n \in bad : \A m \in bad : n <= m
  <2>1. bad \in SUBSET Nat
    OBVIOUS
  <2> HIDE DEF bad
  <2> QED
    BY <2>1, LeastNumber
<1>2. n # 0 /\ n - 1 \in Nat
  OBVIOUS
<1>3. n - 1 \in P
  BY <1>1, <1>2
<1> QED
  BY <1>2, <1>3

LEMMA EqualOrMore == \A m, n \in Nat : n >= m => n = m \/ n > m
<1> SUFFICES ASSUME NEW m \in Nat, NEW n \in Nat, n >= m, ~ (n > m)
             PROVE  n = m
  OBVIOUS
<1>1. n - m = 0
  OBVIOUS
<1>2. n = n - m + m
  OBVIOUS
<1> QED
  BY <1>1, <1>2

LEMMA MinIs ==
  ASSUME NEW T \in SUBSET Nat, NEW n \in T, \A m \in T : n <= m
  PROVE  Min(T) = n
<1>1. Min(T) \in T /\ \A m \in T : Min(T) <= m
  BY DEF Min
<1>2. n \in Nat /\ Min(T) \in Nat /\ Min(T) <= n /\ n <= Min(T)
  BY <1>1
<1> QED
  BY <1>2

LEMMA RingFits ==
  ASSUME NEW S, IsFiniteSet(S), NEW s \in Seq(S), Distinct(s)
  PROVE  Cardinality(S) \in Nat /\ Len(s) <= Cardinality(S)
<1>1. Len(s) \in Nat /\ s \in [1 .. Len(s) -> S]
  BY LenProperties
<1>2. s \in Injection(1 .. Len(s), S)
  BY <1>1 DEF Injection, IsInjective, Distinct
<1>3. Cardinality(1 .. Len(s)) <= Cardinality(S)
  BY <1>2, FS_Injection
<1>4. Cardinality(1 .. Len(s)) = Len(s)
  BY <1>1, FS_Interval
<1> QED
  BY <1>3, <1>4, FS_CardinalityType

LEMMA AlongIs ==
  ASSUME NEW memory, IsFiniteSet(DOMAIN memory), NEW link, NEW first,
         NEW s \in Seq(DOMAIN memory), s # <<>>, s[1] = first, Distinct(s),
         \A i \in 1 .. Len(s) : s[i] # Null /\ memory[s[i]][link] = Following(s, i)
  PROVE  Along(memory, first, link) = s
<1> DEFINE size == Cardinality(DOMAIN memory)
           Rec(g) == g = [k \in 0 .. size |->
                            IF k = 0 THEN first
                            ELSE IF k > 1 /\ g[k - 1] \in {first, Null} THEN g[k - 1]
                            ELSE memory[g[k - 1]][link]]
           at == CHOOSE g : Rec(g)
           ends == {k \in 1 .. size : at[k] \in {first, Null}} \cup {size}
           f == [k \in 0 .. size |-> IF k < Len(s) THEN s[k + 1] ELSE first]
           P == {k \in Nat : k <= size => at[k] = f[k]}
<1>1. Len(s) \in Nat /\ Len(s) >= 1 /\ s = [i \in 1 .. Len(s) |-> s[i]]
      /\ \A i \in 1 .. Len(s) : s[i] \in DOMAIN memory
  BY SeqFacts, LenProperties
<1>2. size \in Nat /\ Len(s) <= size
  BY RingFits
<1>3. first # Null /\ Along(memory, first, link) = [k \in 1 .. Min(ends) |-> at[k - 1]]
  <2>1. first # Null
    BY <1>1
  <2> QED
    BY <2>1 DEF Along
<1> HIDE DEF size
<1>4. f[0] = first /\ \A k \in 1 .. size :
        f[k] = IF k > 1 /\ f[k - 1] \in {first, Null} THEN f[k - 1] ELSE memory[f[k - 1]][link]
  <2>1. f[0] = first
    BY <1>1, <1>2
  <2>2. ASSUME NEW k \in 1 .. size
        PROVE  f[k] = IF k > 1 /\ f[k - 1] \in {first, Null} THEN f[k - 1] ELSE memory[f[k - 1]][link]
    <3>1. k \in 0 .. size /\ k - 1 \in 0 .. size
      BY <1>2
    <3>2. CASE k - 1 >= Len(s)
      <4>1. f[k] = first /\ f[k - 1] = first /\ k > 1
        BY <1>1, <3>1, <3>2
      <4> QED
        BY <4>1
    <3>3. CASE k - 1 < Len(s)
      <4>1. k \in 1 .. Len(s) /\ f[k - 1] = s[k]
        BY <1>1, <3>1, <3>3
      <4>2. f[k] = Following(s, k)
        BY <1>1, <3>1, <3>3, <4>1 DEF Following
      <4>3. k > 1 => s[k] \notin {first, Null}
        BY <1>1, <4>1 DEF Distinct
      <4> HIDE DEF f
      <4> QED
        BY <4>1, <4>2, <4>3
    <3> QED
      BY <1>1, <1>2, <3>2, <3>3
  <2> QED
    BY <2>1, <2>2
<1>5. Rec(f)
  <2>1. f = [k \in 0 .. size |-> f[k]] /\ \A k \in 0 .. size : k # 0 => k \in 1 .. size
    OBVIOUS
  <2> HIDE DEF f
  <2> QED
    BY <1>4, <2>1
<1>6. Rec(at)
  BY <1>5
<1> HIDE DEF at
<1>7. at[0] = first /\ \A k \in 1 .. size :
        at[k] = IF k > 1 /\ at[k - 1] \in {first, Null} THEN at[k - 1] ELSE memory[at[k - 1]][link]
  <2>1. \A k \in 1 .. size : k \in 0 .. size /\ k # 0
    OBVIOUS
  <2>2. 0 \in 0 .. size
    BY <1>2
  <2> QED
    BY <1>6, <2>1, <2>2
<1> HIDE DEF f
<1>8. P = Nat
  <2>1. 0 \in P
    BY <1>4, <1>7
  <2>2. ASSUME NEW k \in P
        PROVE  k + 1 \in P
    <3> SUFFICES ASSUME k + 1 <= size
                 PROVE  at[k + 1] = f[k + 1]
      OBVIOUS
    <3>1. k \in Nat /\ k + 1 \in 1 .. size /\ k + 1 - 1 = k /\ k <= size
      BY <1>2
    <3>2. at[k] = f[k]
      BY <3>1
    <3> QED
      BY <1>4, <1>7, <3>1, <3>2
  <2>3. P \in SUBSET Nat
    OBVIOUS
  <2> HIDE DEF P
  <2> QED
    BY <2>1, <2>2, <2>3, Induction
<1>9. \A k \in 0 .. size : at[k] = f[k]
  BY <1>2, <1>8
<1>10. \A k \in 0 .. size : f[k] = IF k < Len(s) THEN s[k + 1] ELSE first
  BY DEF f
<1>11. Min(ends) = Len(s)
  <2>1. ends \in SUBSET Nat
    BY <1>2
  <2>2. Len(s) \in ends
    <3>1. Len(s) \in 1 .. size /\ Len(s) \in 0 .. size
      BY <1>1, <1>2
    <3> QED
      BY <1>9, <1>10, <3>1
  <2>3. ASSUME NEW m \in ends
        PROVE  Len(s) <= m
    <3> SUFFICES ASSUME m < Len(s)
                 PROVE  FALSE
      BY <1>1, <2>1
    <3>1. m \in 1 .. size /\ m \in 0 .. size /\ at[m] \in {first, Null}
      BY <1>1, <1>2
    <3>2. at[m] = s[m + 1] /\ m + 1 \in 1 .. Len(s) /\ m + 1 # 1
      BY <1>1, <1>9, <1>10, <3>1
    <3> QED
      BY <1>1, <3>1, <3>2 DEF Distinct
  <2> HIDE DEF ends
  <2> QED
    BY <2>1, <2>2, <2>3, MinIs
<1>12. [k \in 1 .. Len(s) |-> at[k - 1]] = s
  <2>1. \A k \in 1 .. Len(s) : at[k - 1] = s[k]
    <3> TAKE k \in 1 .. Len(s)
    <3>1. k - 1 \in 0 .. size /\ k - 1 < Len(s) /\ k - 1 + 1 = k
      BY <1>1, <1>2
    <3> QED
      BY <1>9, <1>10, <3>1
  <2> QED
    BY <1>1, <2>1
<1> QED
  BY <1>3, <1>11, <1>12

LEMMA ForwardIs ==
  ASSUME NEW memory, IsFiniteSet(DOMAIN memory), Null \notin DOMAIN memory,
         NEW first, NEW s, Ring(memory, first, s)
  PROVE  Forward(memory, first) = s
<1>1. s \in Seq(DOMAIN memory) /\ s # <<>> /\ s[1] = first /\ Distinct(s)
  BY DEF Ring
<1>2. \A i \in 1 .. Len(s) : s[i] \in DOMAIN memory
  BY <1>1, SeqFacts
<1>3. \A i \in 1 .. Len(s) : s[i] # Null /\ memory[s[i]]["next"] = Following(s, i)
  BY <1>2 DEF Ring
<1> QED
  BY <1>1, <1>3, AlongIs DEF Forward

(* Backwards they meet the same blocks in the opposite order.              *)
LEMMA BackwardIs ==
  ASSUME NEW memory, IsFiniteSet(DOMAIN memory), Null \notin DOMAIN memory,
         NEW first, NEW s, Ring(memory, first, s)
  PROVE  Reverse(Along(memory, first, "prev")) = Tail(s) \o <<first>>
<1> DEFINE t == [i \in 1 .. Len(s) |-> IF i = 1 THEN s[1] ELSE s[Len(s) + 2 - i]]
<1>1. /\ s \in Seq(DOMAIN memory) /\ s # <<>> /\ s[1] = first /\ Distinct(s)
      /\ Len(s) \in Nat /\ Len(s) >= 1 /\ \A i \in 1 .. Len(s) : s[i] \in DOMAIN memory
  BY SeqFacts DEF Ring
<1>2. \A i \in 1 .. Len(s) : i = 1 \/ Len(s) + 2 - i \in 1 .. Len(s)
  BY <1>1
<1>3. t \in [1 .. Len(s) -> DOMAIN memory]
  BY <1>1, <1>2
<1>4. t \in Seq(DOMAIN memory) /\ Len(t) = Len(s)
  BY <1>1, <1>3, FunctionIsSeq
<1>5. \A i \in 1 .. Len(s) : t[i] = IF i = 1 THEN s[1] ELSE s[Len(s) + 2 - i]
  OBVIOUS
<1> HIDE DEF t
<1>6. t # <<>> /\ t[1] = first
  BY <1>1, <1>4, <1>5, EmptySeq
<1>7. Distinct(t)
  <2> SUFFICES ASSUME NEW i \in 1 .. Len(s), NEW j \in 1 .. Len(s), t[i] = t[j]
               PROVE  i = j
    BY <1>4 DEF Distinct
  <2> DEFINE at(h) == IF h = 1 THEN 1 ELSE Len(s) + 2 - h
  <2>1. at(i) \in 1 .. Len(s) /\ at(j) \in 1 .. Len(s) /\ t[i] = s[at(i)] /\ t[j] = s[at(j)]
    BY <1>1, <1>2, <1>5
  <2>2. at(i) = at(j)
    BY <1>1, <2>1 DEF Distinct
  <2> QED
    BY <1>1, <2>2
<1>8. ASSUME NEW i \in 1 .. Len(s)
      PROVE  t[i] # Null /\ memory[t[i]]["prev"] = Following(t, i)
  <2> DEFINE j == IF i = 1 THEN 1 ELSE Len(s) + 2 - i
  <2>1. j \in 1 .. Len(s) /\ t[i] = s[j]
    BY <1>1, <1>2, <1>5
  <2>2. memory[s[j]].prev = Preceding(s, j) /\ s[j] \in DOMAIN memory
    BY <1>1, <2>1 DEF Ring
  <2>3. Preceding(s, j) = Following(t, i)
    <3>1. CASE i = 1
      <4>1. CASE Len(s) = 1
        BY <1>1, <1>4, <1>5, <3>1, <4>1 DEF Preceding, Following
      <4>2. CASE Len(s) > 1
        <5>2. 2 \in 1 .. Len(s) /\ Len(s) + 2 - 2 = Len(s)
          BY <1>1, <4>2
        <5>3. j = 1 /\ Preceding(s, j) = s[Len(s)]
          BY <3>1 DEF Preceding
        <5>4. Following(t, i) = t[2]
          BY <1>4, <3>1, <4>2 DEF Following
        <5> QED
          BY <1>5, <5>2, <5>3, <5>4
      <4> QED
        BY <1>1, <4>1, <4>2, EqualOrMore
    <3>2. CASE i # 1 /\ i = Len(s)
      <4>1. j = 2 /\ Preceding(s, j) = s[1] /\ Following(t, i) = t[1]
        BY <1>1, <1>4, <3>2 DEF Preceding, Following
      <4> QED
        BY <1>1, <1>6, <4>1
    <3>3. CASE i # 1 /\ i # Len(s)
      <4>1. i + 1 \in 1 .. Len(s) /\ i + 1 # 1 /\ Len(s) + 2 - (i + 1) = j - 1 /\ j # 1
        BY <1>1, <3>3
      <4> QED
        BY <1>4, <1>5, <3>3, <4>1 DEF Preceding, Following
    <3> QED
      BY <3>1, <3>2, <3>3
  <2> QED
    BY <2>1, <2>2, <2>3
<1>9. Along(memory, first, "prev") = t
  BY <1>1, <1>4, <1>6, <1>7, <1>8, AlongIs
<1>10. Reverse(t) = [i \in 1 .. Len(s) |-> t[Len(s) - i + 1]]
  BY <1>4 DEF Reverse
<1>11. Tail(s) \o <<first>> = [i \in 1 .. Len(s) |-> IF i = Len(s) THEN first ELSE s[i + 1]]
  <2> DEFINE u == Tail(s)
  <2>1. u \in Seq(DOMAIN memory) /\ Len(u) = Len(s) - 1 /\ \A i \in 1 .. Len(u) : u[i] = s[i + 1]
    BY <1>1, HeadTailProperties
  <2>2. <<first>> \in Seq(DOMAIN memory) /\ Len(<<first>>) = 1 /\ <<first>>[1] = first
    BY <1>1
  <2> HIDE DEF u
  <2>3. u \o <<first>> = [i \in 1 .. Len(u) + Len(<<first>>) |->
                            IF i <= Len(u) THEN u[i] ELSE <<first>>[i - Len(u)]]
    BY <2>1, <2>2
  <2>4. \A i \in 1 .. Len(s) : (IF i <= Len(u) THEN u[i] ELSE <<first>>[i - Len(u)])
                               = IF i = Len(s) THEN first ELSE s[i + 1]
    BY <1>1, <2>1, <2>2
  <2>5. Len(u) + Len(<<first>>) = Len(s)
    BY <1>1, <2>1, <2>2
  <2> QED
    BY <2>3, <2>4, <2>5 DEF u
<1>12. \A i \in 1 .. Len(s) : t[Len(s) - i + 1] = IF i = Len(s) THEN first ELSE s[i + 1]
  <2> TAKE i \in 1 .. Len(s)
  <2>1. Len(s) - i + 1 \in 1 .. Len(s) /\ (Len(s) - i + 1 = 1 <=> i = Len(s))
        /\ Len(s) + 2 - (Len(s) - i + 1) = i + 1
    BY <1>1
  <2> QED
    BY <1>1, <1>5, <2>1
<1> QED
  BY <1>9, <1>10, <1>11, <1>12

-----------------------------------------------------------------------------
(* The invariant.                                                          *)

OrderBlocks == 0 .. MAX_ORDER_IDS - 1

LevelBlocks == 0 .. MAX_PRICE_LEVELS - 1

OrderFields == {"id", "side", "price", "qty", "prev", "next"}

LevelFields == {"side", "price", "order_0", "prev", "next"}

OnList(s) == {s[i] : i \in 1 .. Len(s)}

(* The pools know a free block each.                                       *)
PoolsOK ==
  /\ DOMAIN orders = OrderBlocks /\ DOMAIN levels = LevelBlocks
  /\ orders_free \in [OrderBlocks -> BOOLEAN] /\ levels_free \in [LevelBlocks -> BOOLEAN]
  /\ i_next_order \in OrderBlocks /\ orders_free[i_next_order]
  /\ i_next_level \in LevelBlocks /\ levels_free[i_next_level]
  /\ alive = TRUE

MapsOK ==
  /\ id_to_order \in [OrderIds -> OrderBlocks \cup {Null}]
  /\ map_price_to_price_level \in [Slots -> LevelBlocks \cup {Null}]
  /\ best \in [Sides -> LevelBlocks \cup {Null}]

FedOK ==
  /\ last_oid \in 0 .. MAX_ORDER_IDS - 1
  /\ IsFiniteSet(fed) /\ fed \subseteq [oid: 1 .. last_oid, side: Sides, price: Nat, qty: Nat]
  /\ \A o \in fed : <<o.side, o.price>> \in Quotes
  /\ \A o1, o2 \in fed : o1.oid = o2.oid => o1 = o2
  /\ CanRest(fed)

LevelOK(side, l) ==
  /\ ~ levels_free[l]
  /\ DOMAIN levels[l] = LevelFields
  /\ levels[l].side = side
  /\ levels[l].price \in Nat
  /\ get_level_for_price(levels[l].price) = l

(* s are the levels of a side, the best one first.                         *)
SideOK(side, s) ==
  /\ IF best[side] = Null THEN s = <<>> ELSE Ring(levels, best[side], s)
  /\ \A i \in 1 .. Len(s) : LevelOK(side, s[i])
  /\ \A i, j \in 1 .. Len(s) : i < j => MoreAggressive(side, levels[s[i]].price, levels[s[j]].price)

OrderOK(side, l, b) ==
  /\ Shown(b) \in fed
  /\ orders[b].side = side
  /\ orders[b].price = levels[l].price
  /\ id_to_order[orders[b].id] = b

(* q are the orders of a level, the oldest first.                          *)
QueueOK(side, l, q) ==
  /\ Ring(orders, levels[l].order_0, q)
  /\ \A j \in 1 .. Len(q) : OrderOK(side, l, q[j])
  /\ \A j, k \in 1 .. Len(q) : j < k => orders[q[j]].id < orders[q[k]].id

(* Every order of the fed book is found by its id and on its level.        *)
Found(o, L, Q) ==
  /\ id_to_order[o.oid] \in OrderBlocks
  /\ ~ orders_free[id_to_order[o.oid]]
  /\ DOMAIN orders[id_to_order[o.oid]] = OrderFields
  /\ Shown(id_to_order[o.oid]) = o
  /\ get_level_for_price(o.price) \in OnList(L[o.side])
  /\ id_to_order[o.oid] \in OnList(Q[get_level_for_price(o.price)])

UsedOK(L) ==
  /\ \A oid \in OrderIds : id_to_order[oid] # Null => \E o \in fed : o.oid = oid
  /\ \A b \in OrderBlocks : ~ orders_free[b] => \E o \in fed : id_to_order[o.oid] = b
  /\ \A l \in LevelBlocks : ~ levels_free[l] => \E side \in Sides : l \in OnList(L[side])

Book(L, Q) ==
  /\ L \in [Sides -> Seq(LevelBlocks)] /\ Q \in [LevelBlocks -> Seq(OrderBlocks)]
  /\ PoolsOK /\ MapsOK /\ FedOK
  /\ \A side \in Sides : SideOK(side, L[side])
  /\ \A side \in Sides : \A i \in 1 .. Len(L[side]) : QueueOK(side, L[side][i], Q[L[side][i]])
  /\ \A o \in fed : Found(o, L, Q)
  /\ UsedOK(L)

IInv == \E L, Q : Book(L, Q)

LEMMA BlocksFinite ==
  /\ IsFiniteSet(OrderBlocks) /\ Cardinality(OrderBlocks) = MAX_ORDER_IDS
  /\ IsFiniteSet(LevelBlocks) /\ Cardinality(LevelBlocks) = MAX_PRICE_LEVELS
  /\ Null \notin OrderBlocks /\ Null \notin LevelBlocks
<1>1. MAX_ORDER_IDS \in Nat /\ MAX_ORDER_IDS >= 1 /\ MAX_PRICE_LEVELS \in Nat /\ MAX_PRICE_LEVELS >= 1
  BY TEAssumption
<1>2. OrderBlocks \subseteq Nat /\ LevelBlocks \subseteq Nat
  BY <1>1 DEF OrderBlocks, LevelBlocks
<1>3. /\ IsFiniteSet(0 .. MAX_ORDER_IDS - 1)
      /\ Cardinality(0 .. MAX_ORDER_IDS - 1)
           = IF 0 > MAX_ORDER_IDS - 1 THEN 0 ELSE MAX_ORDER_IDS - 1 - 0 + 1
  BY <1>1, FS_Interval
<1>4. /\ IsFiniteSet(0 .. MAX_PRICE_LEVELS - 1)
      /\ Cardinality(0 .. MAX_PRICE_LEVELS - 1)
           = IF 0 > MAX_PRICE_LEVELS - 1 THEN 0 ELSE MAX_PRICE_LEVELS - 1 - 0 + 1
  BY <1>1, FS_Interval
<1> QED
  BY <1>1, <1>2, <1>3, <1>4, TEAssumption DEF OrderBlocks, LevelBlocks

LEMMA RingMembers ==
  ASSUME NEW memory, NEW first, NEW s, Ring(memory, first, s)
  PROVE  /\ Len(s) \in Nat /\ Len(s) >= 1 /\ DOMAIN s = 1 .. Len(s) /\ s[1] = first
         /\ first \in DOMAIN memory
         /\ \A i \in 1 .. Len(s) :
              /\ s[i] \in DOMAIN memory
              /\ memory[s[i]].next \in DOMAIN memory
              /\ memory[s[i]].prev \in DOMAIN memory
<1>1. /\ s \in Seq(DOMAIN memory) /\ Len(s) \in Nat /\ Len(s) >= 1 /\ s[1] = first
      /\ DOMAIN s = 1 .. Len(s)
      /\ \A i \in 1 .. Len(s) : s[i] \in DOMAIN memory
  BY SeqFacts DEF Ring
<1>2. \A i \in 1 .. Len(s) : Following(s, i) \in DOMAIN memory /\ Preceding(s, i) \in DOMAIN memory
  <2> TAKE i \in 1 .. Len(s)
  <2>0. i \in Nat /\ i >= 1 /\ i <= Len(s) /\ 1 \in 1 .. Len(s) /\ Len(s) \in 1 .. Len(s)
    BY <1>1
  <2>1. i = Len(s) \/ Len(s) > i
    BY <1>1, <2>0, EqualOrMore
  <2>2. i = 1 \/ i > 1
    BY <2>0, EqualOrMore
  <2>3. (i > 1 => i - 1 \in 1 .. Len(s)) /\ (Len(s) > i => i + 1 \in 1 .. Len(s))
    BY <1>1, <2>0
  <2> QED
    BY <1>1, <2>0, <2>1, <2>2, <2>3 DEF Following, Preceding
<1>3. first \in DOMAIN memory
  BY <1>1
<1> QED
  BY <1>1, <1>2, <1>3 DEF Ring

(* Where a level in use and an order in use are.                           *)
LEMMA LevelPlace ==
  ASSUME NEW L, NEW Q, Book(L, Q), NEW side \in Sides, NEW i \in 1 .. Len(L[side])
  PROVE  /\ LevelOK(side, L[side][i])
         /\ QueueOK(side, L[side][i], Q[L[side][i]])
         /\ L[side][i] \in LevelBlocks /\ L[side] # <<>>
         /\ best[side] # Null /\ Ring(levels, best[side], L[side])
<1>1. SideOK(side, L[side]) /\ QueueOK(side, L[side][i], Q[L[side][i]]) /\ L[side] \in Seq(LevelBlocks)
  BY DEF Book
<1>2. L[side][i] \in LevelBlocks
  BY <1>1, SeqFacts
<1>3. L[side] # <<>>
  <2>1. Len(L[side]) >= 1
    BY <1>1, SeqFacts
  <2> QED
    BY <2>1, EmptySeq
<1> QED
  BY <1>1, <1>2, <1>3 DEF SideOK

LEMMA OrderPlace ==
  ASSUME NEW L, NEW Q, Book(L, Q), NEW o \in fed
  PROVE  /\ o.side \in Sides /\ Found(o, L, Q)
         /\ \E i \in 1 .. Len(L[o.side]) :
              /\ get_level_for_price(o.price) = L[o.side][i]
              /\ \E j \in 1 .. Len(Q[L[o.side][i]]) : id_to_order[o.oid] = Q[L[o.side][i]][j]
<1>1. o.side \in Sides
  BY DEF Book, FedOK
<1>2. Found(o, L, Q)
  BY DEF Book
<1> QED
  BY <1>1, <1>2 DEF Found, OnList

LEMMA LevelsAre ==
  ASSUME NEW L, NEW Q, Book(L, Q), NEW side \in Sides
  PROVE  Levels(side) = L[side]
<1>1. DOMAIN levels = LevelBlocks
  BY DEF Book, PoolsOK
<1>2. CASE best[side] = Null
  BY <1>2 DEF Levels, Forward, Along, Book, SideOK
<1>3. CASE best[side] # Null
  <2>1. Ring(levels, best[side], L[side])
    BY <1>3 DEF Book, SideOK
  <2> QED
    BY <1>1, <2>1, BlocksFinite, ForwardIs DEF Levels
<1> QED
  BY <1>2, <1>3

LEMMA QueuesAre ==
  ASSUME NEW L, NEW Q, Book(L, Q), NEW side \in Sides, NEW i \in 1 .. Len(L[side])
  PROVE  Queue(L[side][i]) = Q[L[side][i]]
<1>1. DOMAIN orders = OrderBlocks
  BY DEF Book, PoolsOK
<1>2. Ring(orders, levels[L[side][i]].order_0, Q[L[side][i]])
  BY LevelPlace DEF QueueOK
<1> QED
  BY <1>1, <1>2, BlocksFinite, ForwardIs DEF Queue

-----------------------------------------------------------------------------
(* What the runs check follows from the invariant.                         *)

LEMMA BookTypeOK ==
  ASSUME NEW L, NEW Q, Book(L, Q)
  PROVE  TypeOK
<1>1. DOMAIN orders = OrderBlocks /\ DOMAIN levels = LevelBlocks /\ alive = TRUE
  BY DEF Book, PoolsOK
<1>2. ASSUME NEW b \in OrderBlocks, ~ orders_free[b]
      PROVE  {orders[b].prev, orders[b].next} \subseteq OrderBlocks
  <2>1. PICK o \in fed : id_to_order[o.oid] = b
    BY <1>2 DEF Book, UsedOK
  <2>2. PICK i \in 1 .. Len(L[o.side]) : \E j \in 1 .. Len(Q[L[o.side][i]]) : b = Q[L[o.side][i]][j]
    BY <2>1, OrderPlace
  <2>3. o.side \in Sides
    BY OrderPlace
  <2>4. Ring(orders, levels[L[o.side][i]].order_0, Q[L[o.side][i]])
    BY <2>3, LevelPlace DEF QueueOK
  <2> QED
    <3>1. PICK j \in 1 .. Len(Q[L[o.side][i]]) : b = Q[L[o.side][i]][j]
      BY <2>2
    <3>2. orders[b].next \in DOMAIN orders /\ orders[b].prev \in DOMAIN orders
      BY ONLY <2>4, <3>1, RingMembers
    <3> QED
      BY ONLY <1>1, <3>2
<1>3. ASSUME NEW l \in LevelBlocks, ~ levels_free[l]
      PROVE  {levels[l].prev, levels[l].next} \subseteq LevelBlocks /\ levels[l].order_0 \in OrderBlocks
  <2>1. PICK side \in Sides : \E i \in 1 .. Len(L[side]) : l = L[side][i]
    BY <1>3 DEF Book, UsedOK, OnList
  <2>2. PICK i \in 1 .. Len(L[side]) : l = L[side][i]
    BY <2>1
  <2>3. Ring(levels, best[side], L[side]) /\ Ring(orders, levels[l].order_0, Q[l])
    BY <2>2, LevelPlace DEF QueueOK
  <2>4. {levels[l].prev, levels[l].next} \subseteq DOMAIN levels
    BY <2>2, <2>3, RingMembers
  <2>5. levels[l].order_0 \in DOMAIN orders
    BY <2>3, RingMembers
  <2> QED
    BY <1>1, <2>4, <2>5
<1> QED
  BY <1>1, <1>2, <1>3 DEF TypeOK, Book, PoolsOK, MapsOK

LEMMA BookShown ==
  ASSUME NEW L, NEW Q, Book(L, Q)
  PROVE  ListsShowTheBook
<1> SUFFICES ASSUME NEW side \in Sides
             PROVE  LET walk == [i \in DOMAIN Levels(side) |-> Queue(Levels(side)[i])]
                        met == {p \in (DOMAIN walk) \X (1 .. MAX_ORDER_IDS) : p[2] \in DOMAIN walk[p[1]]}
                        at(p) == Shown(walk[p[1]][p[2]])
                    IN /\ {at(p) : p \in met} = {o \in fed : o.side = side}
                       /\ \A p, q \in met :
                            p[1] < q[1] \/ (p[1] = q[1] /\ p[2] < q[2]) => Ahead(at(p), at(q))
  BY DEF ListsShowTheBook
<1> DEFINE s == L[side]
           walk == [i \in 1 .. Len(s) |-> Q[s[i]]]
           met == {p \in (1 .. Len(s)) \X (1 .. MAX_ORDER_IDS) : p[2] \in DOMAIN walk[p[1]]}
           at(p) == Shown(walk[p[1]][p[2]])
<1>1. walk = [i \in DOMAIN Levels(side) |-> Queue(Levels(side)[i])] /\ DOMAIN walk = 1 .. Len(s)
  <2>1. Levels(side) = s
    BY LevelsAre
  <2>2. DOMAIN s = 1 .. Len(s)
    BY SeqFacts DEF Book
  <2>3. \A i \in 1 .. Len(s) : Queue(s[i]) = Q[s[i]]
    BY QueuesAre
  <2> HIDE DEF s
  <2> QED
    BY <2>1, <2>2, <2>3
<1>2. ASSUME NEW i \in 1 .. Len(s)
      PROVE  /\ walk[i] = Q[s[i]] /\ QueueOK(side, s[i], Q[s[i]])
             /\ DOMAIN Q[s[i]] = 1 .. Len(Q[s[i]]) /\ DOMAIN Q[s[i]] \subseteq 1 .. MAX_ORDER_IDS
  <2>1. QueueOK(side, s[i], Q[s[i]])
    BY LevelPlace
  <2>2. Ring(orders, levels[s[i]].order_0, Q[s[i]]) /\ DOMAIN orders = OrderBlocks
    BY <2>1 DEF QueueOK, Book, PoolsOK
  <2>3. /\ Q[s[i]] \in Seq(OrderBlocks) /\ Distinct(Q[s[i]])
        /\ Len(Q[s[i]]) \in Nat /\ DOMAIN Q[s[i]] = 1 .. Len(Q[s[i]])
    BY <2>2, RingMembers DEF Ring
  <2>4. Len(Q[s[i]]) <= MAX_ORDER_IDS
    BY <2>3, BlocksFinite, RingFits
  <2>5. MAX_ORDER_IDS \in Nat
    BY TEAssumption
  <2> QED
    BY <2>1, <2>3, <2>4, <2>5
<1> HIDE DEF walk
<1>3. ASSUME NEW p \in met
      PROVE  /\ p[1] \in 1 .. Len(s) /\ p[2] \in 1 .. Len(Q[s[p[1]]])
             /\ at(p) = Shown(Q[s[p[1]]][p[2]])
             /\ OrderOK(side, s[p[1]], Q[s[p[1]]][p[2]])
  BY <1>2 DEF QueueOK
<1>4. \A p \in met : at(p) \in {o \in fed : o.side = side}
  BY <1>3 DEF OrderOK, Shown
<1>5. ASSUME NEW o \in fed, o.side = side
      PROVE  \E p \in met : at(p) = o
  <2>0. PICK i \in 1 .. Len(s) : \E j \in 1 .. Len(Q[s[i]]) : id_to_order[o.oid] = Q[s[i]][j]
    BY <1>5, OrderPlace
  <2>1. PICK j \in 1 .. Len(Q[s[i]]) : id_to_order[o.oid] = Q[s[i]][j]
    BY <2>0
  <2>2. Shown(Q[s[i]][j]) = o
    BY <2>1, OrderPlace DEF Found
  <2>3. walk[i] = Q[s[i]] /\ j \in DOMAIN walk[i] /\ j \in 1 .. MAX_ORDER_IDS
    BY <1>2
  <2>4. <<i, j>> \in met /\ at(<<i, j>>) = o
    BY <2>2, <2>3
  <2> QED
    BY <2>4
<1>6. ASSUME NEW p \in met, NEW q \in met, p[1] < q[1] \/ (p[1] = q[1] /\ p[2] < q[2])
      PROVE  Ahead(at(p), at(q))
  <2> DEFINE b == Q[s[p[1]]][p[2]]
             c == Q[s[q[1]]][q[2]]
  <2>1. /\ at(p) = Shown(b) /\ at(q) = Shown(c)
        /\ p[1] \in 1 .. Len(s) /\ q[1] \in 1 .. Len(s)
        /\ p[2] \in 1 .. Len(Q[s[p[1]]]) /\ q[2] \in 1 .. Len(Q[s[q[1]]])
        /\ OrderOK(side, s[p[1]], b) /\ OrderOK(side, s[q[1]], c)
    BY <1>3
  <2>2. CASE p[1] < q[1]
    <3>1. MoreAggressive(side, levels[s[p[1]]].price, levels[s[q[1]]].price)
      BY <2>1, <2>2 DEF Book, SideOK
    <3> QED
      BY <2>1, <3>1 DEF Ahead, Shown, OrderOK
  <2>3. CASE p[1] = q[1] /\ p[2] < q[2]
    <3>1. orders[b].id < orders[c].id
      BY <1>2, <2>1, <2>3 DEF QueueOK
    <3> QED
      BY <2>1, <2>3, <3>1 DEF Ahead, Shown, OrderOK
  <2> QED
    BY <1>6, <2>2, <2>3
<1>7. {at(p) : p \in met} = {o \in fed : o.side = side}
  <2> HIDE DEF met, at
  <2> QED
    BY <1>4, <1>5
<1> HIDE DEF s
<1> QED
  BY <1>1, <1>6, <1>7

LEMMA BookBothWays ==
  ASSUME NEW L, NEW Q, Book(L, Q)
  PROVE  ListsGoBothWays
<1> SUFFICES ASSUME NEW side \in Sides
             PROVE  /\ best[side] # Null =>
                         Reverse(Along(levels, best[side], "prev"))
                           = Tail(Levels(side)) \o <<best[side]>>
                    /\ \A l \in ToSet(Levels(side)) :
                         Reverse(Along(orders, levels[l].order_0, "prev")) =
                           Tail(Queue(l)) \o <<levels[l].order_0>>
  BY DEF ListsGoBothWays
<1>1. Levels(side) = L[side] /\ DOMAIN levels = LevelBlocks /\ DOMAIN orders = OrderBlocks
  BY LevelsAre DEF Book, PoolsOK
<1>2. ASSUME best[side] # Null
      PROVE  Reverse(Along(levels, best[side], "prev")) = Tail(L[side]) \o <<best[side]>>
  <2>1. Ring(levels, best[side], L[side])
    BY <1>2 DEF Book, SideOK
  <2> QED
    BY <1>1, <2>1, BlocksFinite, BackwardIs
<1>3. ASSUME NEW l \in ToSet(L[side])
      PROVE  Reverse(Along(orders, levels[l].order_0, "prev")) = Tail(Queue(l)) \o <<levels[l].order_0>>
  <2>1. DOMAIN L[side] = 1 .. Len(L[side])
    BY SeqFacts DEF Book
  <2>2. PICK i \in 1 .. Len(L[side]) : l = L[side][i]
    BY <2>1 DEF ToSet
  <2>3. Queue(l) = Q[l] /\ Ring(orders, levels[l].order_0, Q[l])
    BY <2>2, QueuesAre, LevelPlace DEF QueueOK
  <2> QED
    BY <1>1, <2>3, BlocksFinite, BackwardIs
<1> QED
  BY <1>1, <1>2, <1>3

LEMMA BookAccountedFor ==
  ASSUME NEW L, NEW Q, Book(L, Q)
  PROVE  BlocksAccountedFor
<1>1. OrderPool!Used = {id_to_order[o.oid] : o \in fed}
  <2>1. OrderPool!Used = {b \in OrderBlocks : ~ orders_free[b]}
    BY DEF OrderPool!Used, OrderPool!Blocks, OrderBlocks
  <2>2. \A o \in fed : id_to_order[o.oid] \in OrderBlocks /\ ~ orders_free[id_to_order[o.oid]]
    BY DEF Book, Found
  <2>3. \A b \in OrderBlocks : ~ orders_free[b] => \E o \in fed : id_to_order[o.oid] = b
    BY DEF Book, UsedOK
  <2> QED
    BY <2>1, <2>2, <2>3
<1>2. LevelPool!Used = UNION {ToSet(Levels(side)) : side \in Sides}
  <2>1. LevelPool!Used = {l \in LevelBlocks : ~ levels_free[l]}
    BY DEF LevelPool!Used, LevelPool!Blocks, LevelBlocks
  <2>2. ASSUME NEW side \in Sides
        PROVE  ToSet(Levels(side)) = OnList(L[side])
    <3>1. DOMAIN L[side] = 1 .. Len(L[side]) /\ Levels(side) = L[side]
      BY LevelsAre, SeqFacts DEF Book
    <3> QED
      BY <3>1 DEF ToSet, OnList
  <2>3. \A side \in Sides : \A l \in OnList(L[side]) : l \in LevelBlocks /\ ~ levels_free[l]
    BY LevelPlace DEF OnList, LevelOK
  <2>4. \A l \in LevelBlocks : ~ levels_free[l] => \E side \in Sides : l \in OnList(L[side])
    BY DEF Book, UsedOK
  <2> QED
    BY <2>1, <2>2, <2>3, <2>4
<1> QED
  BY <1>1, <1>2 DEF BlocksAccountedFor, Book, UsedOK

-----------------------------------------------------------------------------
(* What a step leaves alone.                                               *)

(* All but the quantity of an order.                                       *)
SameOrder(b) ==
  /\ DOMAIN orders'[b] = DOMAIN orders[b]
  /\ orders'[b].id = orders[b].id /\ orders'[b].side = orders[b].side
  /\ orders'[b].price = orders[b].price
  /\ orders'[b].next = orders[b].next /\ orders'[b].prev = orders[b].prev

SameLevel(l) ==
  /\ DOMAIN levels'[l] = DOMAIN levels[l]
  /\ levels'[l].side = levels[l].side /\ levels'[l].price = levels[l].price
  /\ levels'[l].next = levels[l].next /\ levels'[l].prev = levels[l].prev

LEMMA QueueKept ==
  ASSUME NEW side, NEW l, NEW q, QueueOK(side, l, q),
         DOMAIN orders' = DOMAIN orders,
         levels'[l].order_0 = levels[l].order_0, levels'[l].price = levels[l].price,
         \A j \in 1 .. Len(q) :
           SameOrder(q[j]) /\ Shown(q[j])' \in fed' /\ id_to_order'[orders[q[j]].id] = q[j]
  PROVE  QueueOK(side, l, q)'
<1>1. Ring(orders', levels'[l].order_0, q)
  <2>1. Ring(orders, levels[l].order_0, q)
    BY DEF QueueOK
  <2> QED
    BY <2>1, RingSame DEF SameOrder
<1>2. \A j \in 1 .. Len(q) : OrderOK(side, l, q[j])'
  BY DEF QueueOK, OrderOK, SameOrder
<1>3. \A j, k \in 1 .. Len(q) : j < k => orders'[q[j]].id < orders'[q[k]].id
  BY DEF QueueOK, SameOrder
<1> QED
  BY <1>1, <1>2, <1>3 DEF QueueOK

LEMMA SideKept ==
  ASSUME NEW side, NEW s, SideOK(side, s),
         DOMAIN levels' = DOMAIN levels, best'[side] = best[side],
         \A i \in 1 .. Len(s) :
           /\ SameLevel(s[i]) /\ ~ levels_free'[s[i]]
           /\ map_price_to_price_level'[price_to_index(levels[s[i]].price)] = s[i]
  PROVE  SideOK(side, s)'
<1>1. IF best'[side] = Null THEN s = <<>> ELSE Ring(levels', best'[side], s)
  <2>1. IF best[side] = Null THEN s = <<>> ELSE Ring(levels, best[side], s)
    BY DEF SideOK
  <2>2. ASSUME Ring(levels, best[side], s)
        PROVE  Ring(levels', best[side], s)
    BY <2>2, RingSame DEF SameLevel
  <2> QED
    BY <2>1, <2>2
<1>2. \A i \in 1 .. Len(s) : LevelOK(side, s[i])'
  BY DEF SideOK, LevelOK, SameLevel, get_level_for_price
<1>3. \A i, j \in 1 .. Len(s) : i < j => MoreAggressive(side, levels'[s[i]].price, levels'[s[j]].price)
  BY DEF SideOK, SameLevel
<1> QED
  BY <1>1, <1>2, <1>3 DEF SideOK

(* The bookkeeping of an order is its own.                                 *)
LEMMA OneBlockPerOrder ==
  ASSUME NEW L, NEW Q, Book(L, Q), NEW o1 \in fed, NEW o2 \in fed,
         id_to_order[o1.oid] = id_to_order[o2.oid]
  PROVE  o1 = o2
  BY DEF Book, Found

LEMMA ListedLevel ==
  ASSUME NEW L, NEW Q, Book(L, Q), NEW side \in Sides, NEW l \in OnList(L[side])
  PROVE  /\ LevelOK(side, l) /\ QueueOK(side, l, Q[l]) /\ l \in LevelBlocks
         /\ best[side] # Null /\ Ring(levels, best[side], L[side])
<1>1. PICK i \in 1 .. Len(L[side]) : l = L[side][i]
  BY DEF OnList
<1> QED
  BY <1>1, LevelPlace

LEMMA QueuedBlock ==
  ASSUME NEW L, NEW Q, Book(L, Q), NEW side \in Sides, NEW l \in OnList(L[side]),
         NEW b \in OnList(Q[l])
  PROVE  /\ Shown(b) \in fed /\ b = id_to_order[orders[b].id]
         /\ b \in OrderBlocks /\ ~ orders_free[b] /\ DOMAIN orders[b] = OrderFields
         /\ orders[b].side = side /\ orders[b].price = levels[l].price
         /\ orders[b].id = Shown(b).oid /\ orders[b].id \in OrderIds
         /\ get_level_for_price(orders[b].price) = l
<1>1. OrderOK(side, l, b) /\ LevelOK(side, l)
  <2>1. PICK j \in 1 .. Len(Q[l]) : b = Q[l][j]
    BY DEF OnList
  <2> QED
    BY <2>1, ListedLevel DEF QueueOK
<1>2. Shown(b) \in fed /\ Shown(b).oid = orders[b].id /\ b = id_to_order[orders[b].id]
  BY <1>1 DEF OrderOK, Shown
<1>3. Found(Shown(b), L, Q)
  BY <1>2 DEF Book
<1>4. orders[b].id \in OrderIds
  <2>1. Shown(b).oid \in 1 .. last_oid /\ last_oid \in 0 .. MAX_ORDER_IDS - 1 /\ MAX_ORDER_IDS \in Nat
    BY <1>2, TEAssumption DEF Book, FedOK
  <2> QED
    BY <1>2, <2>1 DEF OrderIds
<1> QED
  BY <1>1, <1>2, <1>3, <1>4 DEF OrderOK, Found, LevelOK

-----------------------------------------------------------------------------
LEMMA InitIInv == Init => IInv
<1> SUFFICES ASSUME Init
             PROVE  IInv
  OBVIOUS
<1> DEFINE L == [side \in Sides |-> <<>>]
           Q == [l \in LevelBlocks |-> <<>>]
<1>1. OrderPool!Blocks = OrderBlocks /\ LevelPool!Blocks = LevelBlocks
  BY DEF OrderPool!Blocks, LevelPool!Blocks, OrderBlocks, LevelBlocks
<1>2. 0 \in OrderBlocks /\ 0 \in LevelBlocks /\ 0 \in 0 .. MAX_ORDER_IDS - 1
  BY TEAssumption DEF OrderBlocks, LevelBlocks
<1>3. PoolsOK /\ MapsOK
  BY <1>1, <1>2 DEF Init, PoolsOK, MapsOK
<1>4. FedOK
  <2>1. IsFiniteSet(fed) /\ Cardinality({o.price : o \in fed}) = 0
    <3>1. fed = {} /\ {o.price : o \in fed} = {}
      BY DEF Init
    <3> QED
      BY <3>1, FS_EmptySet
  <2>2. 0 < MAX_PRICE_LEVELS
    BY TEAssumption
  <2> QED
    BY <1>2, <2>1, <2>2 DEF Init, FedOK, CanRest
<1>5. L \in [Sides -> Seq(LevelBlocks)] /\ Q \in [LevelBlocks -> Seq(OrderBlocks)]
  BY EmptySeq
<1>6. \A side \in Sides : L[side] = <<>> /\ Len(L[side]) = 0
  BY EmptySeq
<1> HIDE DEF L, Q
<1>7. \A side \in Sides : SideOK(side, L[side])
  <2>1. \A side \in Sides : best[side] = Null
    BY DEF Init
  <2> QED
    BY <1>6, <2>1 DEF SideOK
<1>8. \A side \in Sides : \A i \in 1 .. Len(L[side]) : QueueOK(side, L[side][i], Q[L[side][i]])
  BY <1>6
<1>9. UsedOK(L) /\ fed = {}
  BY <1>1 DEF Init, UsedOK
<1>10. Book(L, Q)
  BY <1>3, <1>4, <1>5, <1>7, <1>8, <1>9 DEF Book
<1> QED
  BY <1>10 DEF IInv

LEMMA ModifyBook ==
  ASSUME NEW L, NEW Q, Book(L, Q), NEW order \in fed, NEW qty \in Quantities, Modify(order, qty)
  PROVE  Book(L, Q)'
<1> DEFINE new == [order EXCEPT !.qty = qty]
<1>0. PICK b : b = id_to_order[order.oid]
  OBVIOUS
<1>1. b \in OrderBlocks /\ DOMAIN orders[b] = OrderFields /\ Shown(b) = order /\ DOMAIN orders = OrderBlocks
  BY <1>0 DEF Book, Found, PoolsOK
<1>2. orders' = [orders EXCEPT ![b].qty = qty]
  BY <1>0 DEF Modify
<1>3. /\ DOMAIN orders' = DOMAIN orders
      /\ \A c \in OrderBlocks \ {b} : orders'[c] = orders[c]
      /\ SameOrder(b) /\ orders'[b].qty = qty
  BY <1>1, <1>2 DEF SameOrder, OrderFields
<1>4. \A c \in OrderBlocks : SameOrder(c)
  BY <1>3 DEF SameOrder
<1>5. /\ UNCHANGED <<levels, orders_free, i_next_order, levels_free, i_next_level, id_to_order,
                     map_price_to_price_level, best, alive, last_oid>>
      /\ fed' = (fed \ {order}) \cup {new}
  BY DEF Modify
<1>6. /\ order \in [oid: 1 .. last_oid, side: Sides, price: Nat, qty: Nat] /\ qty \in Nat
      /\ new \in [oid: 1 .. last_oid, side: Sides, price: Nat, qty: Nat]
      /\ new.oid = order.oid /\ new.side = order.side /\ new.price = order.price
      /\ new = [oid |-> order.oid, side |-> order.side, price |-> order.price, qty |-> qty]
  <2>1. order \in [oid: 1 .. last_oid, side: Sides, price: Nat, qty: Nat] /\ qty \in Nat
    BY TEAssumption DEF Book, FedOK
  <2> QED
    BY <2>1
<1>7. Shown(b)' = new
  <2>1. orders[b].id = order.oid /\ orders[b].side = order.side /\ orders[b].price = order.price
    BY <1>1 DEF Shown
  <2>2. orders'[b].id = order.oid /\ orders'[b].side = order.side /\ orders'[b].price = order.price
    BY <1>3, <2>1 DEF SameOrder
  <2>3. Shown(b)' = [oid |-> order.oid, side |-> order.side, price |-> order.price, qty |-> qty]
    BY <1>3, <2>2 DEF Shown
  <2> QED
    BY <1>6, <2>3
<1>8. \A c \in OrderBlocks \ {b} : Shown(c)' = Shown(c)
  BY <1>3 DEF Shown
<1> HIDE DEF new
<1>9. \A o \in fed \ {order} : id_to_order[o.oid] # b
  BY <1>0, OneBlockPerOrder
<1>10. PoolsOK' /\ MapsOK'
  BY <1>3, <1>5 DEF Book, PoolsOK, MapsOK
<1>11. FedOK'
  <2>1. \A o \in fed' : \E p \in fed : p.oid = o.oid /\ p.side = o.side /\ p.price = o.price
    BY <1>5, <1>6
  <2>2. \A p \in fed : \E o \in fed' : p.price = o.price
    BY <1>5, <1>6
  <2>3. {o.price : o \in fed'} = {o.price : o \in fed}
    BY <2>1, <2>2
  <2>4. IsFiniteSet(fed')
    BY <1>5, FS_RemoveElement, FS_AddElement DEF Book, FedOK
  <2>5. CanRest(fed')
    <3>1. CanRest(fed)
      BY DEF Book, FedOK
    <3>2. \A o1, o2 \in fed' : o1.side = "BUY" /\ o2.side = "SELL" => o1.price < o2.price
      <4> SUFFICES ASSUME NEW o1 \in fed', NEW o2 \in fed', o1.side = "BUY", o2.side = "SELL"
                   PROVE  o1.price < o2.price
        OBVIOUS
      <4>1. PICK p1 \in fed : p1.side = o1.side /\ p1.price = o1.price
        BY <2>1
      <4>2. PICK p2 \in fed : p2.side = o2.side /\ p2.price = o2.price
        BY <2>1
      <4>3. p1.price < p2.price
        BY <3>1, <4>1, <4>2 DEF CanRest
      <4> QED
        BY <4>1, <4>2, <4>3
    <3>3. Cardinality({o.price : o \in fed'}) < MAX_PRICE_LEVELS
      BY <2>3, <3>1 DEF CanRest
    <3> QED
      BY <3>2, <3>3 DEF CanRest
  <2>6. \A o1, o2 \in fed' : o1.oid = o2.oid => o1 = o2
    BY <1>5, <1>6 DEF Book, FedOK
  <2> QED
    BY <1>5, <1>6, <2>1, <2>4, <2>5, <2>6 DEF Book, FedOK
<1>12. \A side \in Sides : SideOK(side, L[side])'
  <2>1. \A l : SameLevel(l)
    BY <1>5 DEF SameLevel
  <2>2. ASSUME NEW side \in Sides
        PROVE  SideOK(side, L[side])'
    <3>1. SideOK(side, L[side])
      BY DEF Book
    <3>2. \A i \in 1 .. Len(L[side]) : ~ levels_free'[L[side][i]]
            /\ map_price_to_price_level'[price_to_index(levels[L[side][i]].price)] = L[side][i]
      BY <1>5, <3>1 DEF SideOK, LevelOK, get_level_for_price
    <3> QED
      BY <1>5, <2>1, <3>1, <3>2, SideKept
  <2> QED
    BY <2>2
<1>13. ASSUME NEW side \in Sides, NEW i \in 1 .. Len(L[side])
       PROVE  QueueOK(side, L[side][i], Q[L[side][i]])'
  <2> DEFINE l == L[side][i]
             q == Q[l]
  <2>1. QueueOK(side, l, q)
    BY LevelPlace
  <2>2. ASSUME NEW j \in 1 .. Len(q)
        PROVE  SameOrder(q[j]) /\ Shown(q[j])' \in fed' /\ id_to_order'[orders[q[j]].id] = q[j]
    <3>0. l \in OnList(L[side]) /\ q[j] \in OnList(Q[l])
      BY DEF OnList
    <3>1. Shown(q[j]) \in fed /\ q[j] = id_to_order[Shown(q[j]).oid] /\ q[j] \in OrderBlocks
          /\ Shown(q[j]).oid = orders[q[j]].id
      BY <3>0, QueuedBlock
    <3>2. CASE q[j] = b
      <4>1. Shown(q[j])' \in fed'
        BY <1>5, <1>7, <3>2
      <4> QED
        BY <1>4, <1>5, <3>1, <4>1
    <3>3. CASE q[j] # b
      <4>1. Shown(q[j]) # order
        BY <1>0, <3>1, <3>3
      <4> QED
        BY <1>4, <1>5, <1>8, <3>1, <3>3, <4>1
    <3> QED
      BY <3>2, <3>3
  <2> HIDE DEF l, q
  <2>3. QueueOK(side, l, q)'
    BY <1>3, <1>5, <2>1, <2>2, QueueKept
  <2> QED
    BY <2>3 DEF l, q
<1>14. \A o \in fed' : Found(o, L, Q)'
  <2>1. ASSUME NEW o \in fed \ {order}
        PROVE  Found(o, L, Q)'
    <3>0. PICK c : c = id_to_order[o.oid]
      OBVIOUS
    <3>1. Found(o, L, Q) /\ c \in OrderBlocks \ {b}
      BY <1>9, <3>0 DEF Book, Found
    <3>2. orders'[c] = orders[c] /\ Shown(c)' = Shown(c)
      BY <1>3, <1>8, <3>1
    <3>3. id_to_order'[o.oid] = c /\ get_level_for_price(o.price)' = get_level_for_price(o.price)
      BY <1>5, <3>0 DEF get_level_for_price
    <3> QED
      BY <1>5, <3>0, <3>1, <3>2, <3>3 DEF Found
  <2>2. Found(new, L, Q)'
    <3>1. Found(order, L, Q)
      BY DEF Book
    <3>2. id_to_order'[new.oid] = b /\ get_level_for_price(new.price)' = get_level_for_price(order.price)
      BY <1>0, <1>5, <1>6 DEF get_level_for_price
    <3>3. DOMAIN orders'[b] = OrderFields
      BY <1>1, <1>3 DEF SameOrder
    <3> QED
      BY <1>0, <1>1, <1>5, <1>6, <1>7, <3>1, <3>2, <3>3 DEF Found
  <2> QED
    BY <1>5, <2>1, <2>2
<1>15. UsedOK(L)'
  <2>1. \A o \in fed : \E p \in fed' : p.oid = o.oid
    BY <1>5, <1>6
  <2> QED
    BY <1>5, <2>1 DEF Book, UsedOK
<1> QED
  BY <1>10, <1>11, <1>12, <1>13, <1>14, <1>15 DEF Book

LEMMA ClearBook ==
  ASSUME NEW L, NEW Q, Book(L, Q), Clear
  PROVE  \E L2 : Book(L2, Q)'
<1> DEFINE L2 == [side \in Sides |-> <<>>]
<1>1. /\ UNCHANGED <<orders, levels, i_next_order, i_next_level, map_price_to_price_level, alive>>
      /\ best' = [side \in Sides |-> Null] /\ id_to_order' = [oid \in OrderIds |-> Null]
      /\ fed' = {} /\ last_oid' = 0
  BY DEF Clear, clear_entire_book
<1>2. orders_free' = [b \in OrderBlocks |-> TRUE]
  <2>1. orders_free' = [b \in OrderBlocks |-> orders_free[b] \/ \E oid \in OrderIds : id_to_order[oid] = b]
    BY DEF Clear, clear_entire_book, Book, PoolsOK
  <2>2. \A b \in OrderBlocks : orders_free[b] \/ \E oid \in OrderIds : id_to_order[oid] = b
    <3> TAKE b \in OrderBlocks
    <3> SUFFICES ASSUME ~ orders_free[b]
                 PROVE  \E oid \in OrderIds : id_to_order[oid] = b
      OBVIOUS
    <3>1. PICK o \in fed : id_to_order[o.oid] = b
      BY DEF Book, UsedOK
    <3>2. o.oid \in 1 .. last_oid /\ last_oid \in 0 .. MAX_ORDER_IDS - 1 /\ MAX_ORDER_IDS \in Nat
      BY TEAssumption DEF Book, FedOK
    <3>3. o.oid \in OrderIds
      BY <3>2 DEF OrderIds
    <3> QED
      BY <3>1, <3>3
  <2> QED
    BY <2>1, <2>2
<1>3. levels_free' = [l \in LevelBlocks |-> TRUE]
  <2>1. levels_free' = [l \in LevelBlocks |-> levels_free[l] \/ \E side \in Sides : l \in ToSet(Levels(side))]
    BY DEF Clear, clear_entire_book, Book, PoolsOK
  <2>2. \A l \in LevelBlocks : levels_free[l] \/ \E side \in Sides : l \in ToSet(Levels(side))
    <3> TAKE l \in LevelBlocks
    <3> SUFFICES ASSUME ~ levels_free[l]
                 PROVE  \E side \in Sides : l \in ToSet(Levels(side))
      OBVIOUS
    <3>1. PICK side \in Sides : l \in OnList(L[side])
      BY DEF Book, UsedOK
    <3>2. DOMAIN L[side] = 1 .. Len(L[side]) /\ Levels(side) = L[side]
      BY LevelsAre, SeqFacts DEF Book
    <3> QED
      BY <3>1, <3>2 DEF ToSet, OnList
  <2> QED
    BY <2>1, <2>2
<1>4. L2 \in [Sides -> Seq(LevelBlocks)] /\ \A side \in Sides : L2[side] = <<>> /\ Len(L2[side]) = 0
  BY EmptySeq
<1> HIDE DEF L2
<1>5. PoolsOK' /\ MapsOK'
  BY <1>1, <1>2, <1>3 DEF Book, PoolsOK, MapsOK
<1>6. FedOK'
  <2>1. IsFiniteSet(fed') /\ Cardinality({o.price : o \in fed'}) = 0
    <3>1. {o.price : o \in fed'} = {}
      BY <1>1
    <3> QED
      BY <1>1, <3>1, FS_EmptySet
  <2>2. 0 < MAX_PRICE_LEVELS /\ 0 \in 0 .. MAX_ORDER_IDS - 1
    BY TEAssumption
  <2> QED
    BY <1>1, <2>1, <2>2 DEF FedOK, CanRest
<1>7. \A side \in Sides : SideOK(side, L2[side])'
  <2>1. \A side \in Sides : best'[side] = Null
    BY <1>1
  <2> QED
    BY <1>4, <2>1 DEF SideOK
<1>8. \A side \in Sides : \A i \in 1 .. Len(L2[side]) : QueueOK(side, L2[side][i], Q[L2[side][i]])'
  BY <1>4
<1>9. UsedOK(L2)'
  BY <1>1, <1>2, <1>3 DEF UsedOK
<1>10. PICK L3 : L3 = L2
  OBVIOUS
<1>11. Book(L3, Q)'
  BY <1>1, <1>4, <1>5, <1>6, <1>7, <1>8, <1>9, <1>10 DEF Book
<1> QED
  BY <1>11

-----------------------------------------------------------------------------
(* What is where.                                                          *)

Prices(book) == {o.price : o \in book}

LEMMA PricesFinite ==
  ASSUME NEW book, IsFiniteSet(book)
  PROVE  IsFiniteSet(Prices(book)) /\ Cardinality(Prices(book)) \in Nat
<1> DEFINE f == [o \in book |-> o.price]
<1>1. f \in Surjection(book, Prices(book))
  BY DEF Surjection, Prices
<1> QED
  BY <1>1, FS_Surjection, FS_CardinalityType

LEMMA FewerCanRest ==
  ASSUME NEW book, NEW fewer \in SUBSET book, IsFiniteSet(book), CanRest(book)
  PROVE  CanRest(fewer)
<1>1. IsFiniteSet(fewer)
  BY FS_Subset
<1>2. Prices(fewer) \in SUBSET Prices(book)
  BY DEF Prices
<1>3. Cardinality(Prices(fewer)) <= Cardinality(Prices(book))
  BY <1>2, PricesFinite, FS_Subset
<1>4. /\ Cardinality(Prices(fewer)) \in Nat /\ Cardinality(Prices(book)) \in Nat
      /\ Cardinality(Prices(book)) < MAX_PRICE_LEVELS /\ MAX_PRICE_LEVELS \in Nat
  BY <1>1, PricesFinite, TEAssumption DEF CanRest, Prices
<1>5. Cardinality(Prices(fewer)) < MAX_PRICE_LEVELS
  BY <1>3, <1>4
<1> QED
  BY <1>5 DEF CanRest, Prices

Back(k, i) == IF i < k THEN i ELSE i + 1

LEMMA WithoutMembers ==
  ASSUME NEW S, NEW s \in Seq(S), Distinct(s), NEW k \in 1 .. Len(s)
  PROVE  /\ Without(s, k) \in Seq(S) /\ Len(Without(s, k)) = Len(s) - 1
         /\ \A i \in 1 .. Len(Without(s, k)) :
              /\ Back(k, i) \in 1 .. Len(s) /\ Without(s, k)[i] = s[Back(k, i)]
              /\ Without(s, k)[i] # s[k]
         /\ \A i, j \in 1 .. Len(Without(s, k)) : i < j => Back(k, i) < Back(k, j)
         /\ \A i \in 1 .. Len(s) : i # k => s[i] \in OnList(Without(s, k))
<1>1. /\ Without(s, k) \in Seq(S) /\ Len(Without(s, k)) = Len(s) - 1 /\ Len(s) \in Nat
      /\ \A i \in 1 .. Len(s) - 1 : Without(s, k)[i] = IF i < k THEN s[i] ELSE s[i + 1]
  BY WithoutIs, SeqFacts
<1>2. \A i \in 1 .. Len(s) - 1 : Back(k, i) \in 1 .. Len(s) /\ Back(k, i) # k
                                 /\ Without(s, k)[i] = s[Back(k, i)]
  BY <1>1 DEF Back
<1>3. \A i \in 1 .. Len(s) - 1 : Without(s, k)[i] # s[k]
  BY <1>2 DEF Distinct
<1>4. \A i, j \in 1 .. Len(s) - 1 : i < j => Back(k, i) < Back(k, j)
  BY <1>1 DEF Back
<1>5. ASSUME NEW i \in 1 .. Len(s), i # k
      PROVE  s[i] \in OnList(Without(s, k))
  <2> DEFINE j == IF i < k THEN i ELSE i - 1
  <2>1. j \in 1 .. Len(s) - 1 /\ Without(s, k)[j] = s[i]
    BY <1>1, <1>5
  <2> QED
    BY <1>1, <2>1 DEF OnList
<1> QED
  BY <1>1, <1>2, <1>3, <1>4, <1>5

(* What the cancellation of an order does besides relinking.               *)
Forgets(order, b) ==
  /\ fed' = fed \ {order} /\ last_oid' = last_oid
  /\ id_to_order' = [id_to_order EXCEPT ![order.oid] = Null]
  /\ orders_free' = [orders_free EXCEPT ![b] = TRUE]

Forgotten(b) ==
  /\ FedOK'
  /\ orders_free' \in [OrderBlocks -> BOOLEAN]
  /\ \A c \in OrderBlocks : orders_free[c] => orders_free'[c]
  /\ id_to_order' \in [OrderIds -> OrderBlocks \cup {Null}]
  /\ \A o \in fed' : /\ id_to_order'[o.oid] = id_to_order[o.oid]
                     /\ id_to_order[o.oid] # b
                     /\ orders_free'[id_to_order[o.oid]] = orders_free[id_to_order[o.oid]]
  /\ \A oid \in OrderIds : id_to_order'[oid] # Null => \E o \in fed' : o.oid = oid
  /\ \A c \in OrderBlocks : ~ orders_free'[c] => \E o \in fed' : id_to_order'[o.oid] = c
  /\ \A c : Shown(c) \in fed /\ c = id_to_order[orders[c].id] /\ c # b
            => Shown(c) \in fed' /\ id_to_order'[orders[c].id] = c

LEMMA CancelShared ==
  ASSUME NEW L, NEW Q, Book(L, Q), NEW order \in fed, NEW b, b = id_to_order[order.oid],
         Forgets(order, b)
  PROVE  Forgotten(b)
<1> USE DEF Forgets
<1>1. /\ PoolsOK /\ MapsOK /\ FedOK /\ UsedOK(L)
      /\ \A o \in fed : id_to_order[o.oid] \in OrderBlocks /\ ~ orders_free[id_to_order[o.oid]]
  BY DEF Book, Found
<1>2. \A o \in fed : o.oid \in OrderIds
  <2>1. last_oid \in 0 .. MAX_ORDER_IDS - 1 /\ MAX_ORDER_IDS \in Nat
        /\ \A o \in fed : o.oid \in 1 .. last_oid
    BY <1>1, TEAssumption DEF FedOK
  <2> QED
    BY <2>1 DEF OrderIds
<1>3. b \in OrderBlocks /\ order.oid \in OrderIds
  BY <1>1, <1>2
<1>4. FedOK'
  <2>1. IsFiniteSet(fed') /\ CanRest(fed')
    BY <1>1, FS_Subset, FewerCanRest DEF FedOK
  <2> QED
    BY <1>1, <2>1 DEF FedOK
<1>5. orders_free' \in [OrderBlocks -> BOOLEAN] /\ \A c \in OrderBlocks : orders_free[c] => orders_free'[c]
  BY <1>1, <1>3 DEF PoolsOK
<1>6. id_to_order' \in [OrderIds -> OrderBlocks \cup {Null}]
  BY <1>1, <1>3 DEF MapsOK
<1>7. ASSUME NEW o \in fed'
      PROVE  /\ id_to_order'[o.oid] = id_to_order[o.oid]
             /\ id_to_order[o.oid] # b
             /\ orders_free'[id_to_order[o.oid]] = orders_free[id_to_order[o.oid]]
  <2>1. o \in fed /\ o # order /\ o.oid # order.oid
    BY <1>1 DEF FedOK
  <2>2. id_to_order[o.oid] # b
    BY <2>1, OneBlockPerOrder
  <2>3. id_to_order'[o.oid] = id_to_order[o.oid]
    BY <1>1, <1>2, <2>1 DEF MapsOK
  <2>4. orders_free'[id_to_order[o.oid]] = orders_free[id_to_order[o.oid]]
    BY <1>1, <2>1, <2>2 DEF PoolsOK
  <2> QED
    BY <2>2, <2>3, <2>4
<1>8. ASSUME NEW oid \in OrderIds, id_to_order'[oid] # Null
      PROVE  \E o \in fed' : o.oid = oid
  <2>1. oid # order.oid /\ id_to_order[oid] # Null
    BY <1>1, <1>3, <1>8 DEF MapsOK
  <2>2. PICK o \in fed : o.oid = oid
    BY <1>1, <2>1 DEF UsedOK
  <2> QED
    BY <2>1, <2>2
<1>9. ASSUME NEW c \in OrderBlocks, ~ orders_free'[c]
      PROVE  \E o \in fed' : id_to_order'[o.oid] = c
  <2>1. c # b /\ ~ orders_free[c]
    BY <1>1, <1>3, <1>9 DEF PoolsOK
  <2>2. PICK o \in fed : id_to_order[o.oid] = c
    BY <1>1, <2>1 DEF UsedOK
  <2>3. o \in fed'
    BY <2>1, <2>2
  <2> QED
    BY <1>7, <2>2, <2>3
<1>10. ASSUME NEW c, Shown(c) \in fed, c = id_to_order[orders[c].id], c # b
       PROVE  Shown(c) \in fed' /\ id_to_order'[orders[c].id] = c
  <2>1. Shown(c).oid = orders[c].id
    BY DEF Shown
  <2>2. Shown(c) # order
    BY <1>10, <2>1
  <2>3. Shown(c) \in fed'
    BY <1>10, <2>2
  <2> QED
    BY <1>7, <1>10, <2>1, <2>3
<1> QED
  BY <1>4, <1>5, <1>6, <1>7, <1>8, <1>9, <1>10 DEF Forgotten

(* Where an order of the fed book is.                                      *)
LEMMA PlaceOf ==
  ASSUME NEW L, NEW Q, Book(L, Q), NEW order \in fed,
         NEW b, b = id_to_order[order.oid], NEW l, l = get_level_for_price(order.price)
  PROVE  /\ order.side \in Sides /\ l \in OnList(L[order.side]) /\ b \in OnList(Q[l])
         /\ Shown(b) = order /\ b \in OrderBlocks /\ DOMAIN orders[b] = OrderFields
         /\ orders[b].id = order.oid /\ orders[b].side = order.side /\ orders[b].price = order.price
         /\ ~ orders_free[b]
<1>1. Found(order, L, Q) /\ order.side \in Sides
  BY DEF Book, FedOK
<1>2. Shown(b) = order
  BY <1>1 DEF Found
<1>3. orders[b].id = order.oid /\ orders[b].side = order.side /\ orders[b].price = order.price
  BY <1>2 DEF Shown
<1> QED
  BY <1>1, <1>2, <1>3 DEF Found

LEMMA QueueRing ==
  ASSUME NEW L, NEW Q, Book(L, Q), NEW side \in Sides, NEW l \in OnList(L[side])
  PROVE  /\ Ring(orders, levels[l].order_0, Q[l]) /\ Q[l] \in Seq(OrderBlocks) /\ Distinct(Q[l])
         /\ Len(Q[l]) \in Nat /\ Len(Q[l]) >= 1 /\ Q[l][1] = levels[l].order_0
         /\ \A j \in 1 .. Len(Q[l]) : Node(orders, Q[l][j])
<1>1. Ring(orders, levels[l].order_0, Q[l]) /\ DOMAIN orders = OrderBlocks
  BY ListedLevel DEF QueueOK, Book, PoolsOK
<1>2. Q[l] \in Seq(OrderBlocks) /\ Distinct(Q[l]) /\ Len(Q[l]) \in Nat /\ Len(Q[l]) >= 1
      /\ Q[l][1] = levels[l].order_0
  BY <1>1, RingMembers DEF Ring
<1>3. \A j \in 1 .. Len(Q[l]) : Node(orders, Q[l][j])
  <2> TAKE j \in 1 .. Len(Q[l])
  <2>1. Q[l][j] \in OnList(Q[l])
    BY DEF OnList
  <2>2. DOMAIN orders[Q[l][j]] = OrderFields
    BY <2>1, QueuedBlock
  <2> QED
    BY <2>2 DEF Node, OrderFields
<1> QED
  BY <1>1, <1>2, <1>3

(* An order that is not the only one at its level is taken from the list.  *)
TakesOut(l, b) ==
  /\ orders' = Unlink(orders, b)
  /\ levels' = IF levels[l].order_0 = b THEN [levels EXCEPT ![l].order_0 = orders[b].next] ELSE levels

TakenOut(l, q, t) ==
  /\ Ring(orders', levels'[l].order_0, t)
  /\ SameButLinks(orders', orders)
  /\ \A c \in OrderBlocks : c \notin OnList(q) => orders'[c] = orders[c]
  /\ \A m \in LevelBlocks : SameLevel(m) /\ (m # l => levels'[m] = levels[m])
  /\ DOMAIN levels' = DOMAIN levels

LEMMA QueueShorter ==
  ASSUME NEW L, NEW Q, Book(L, Q), NEW side \in Sides, NEW l \in OnList(L[side]),
         NEW j \in 1 .. Len(Q[l]), orders[Q[l][j]].prev # Q[l][j],
         TakesOut(l, Q[l][j])
  PROVE  TakenOut(l, Q[l], Without(Q[l], j))
<1> USE DEF TakesOut
<1>0. PICK q : q = Q[l]
  OBVIOUS
<1>1. /\ Ring(orders, levels[l].order_0, q) /\ q \in Seq(OrderBlocks) /\ Distinct(q)
      /\ Len(q) \in Nat /\ Len(q) >= 1 /\ q[1] = levels[l].order_0
      /\ \A i \in 1 .. Len(q) : Node(orders, q[i])
      /\ j \in 1 .. Len(q)
  BY <1>0, QueueRing
<1>2. orders[q[j]].prev = Preceding(q, j) /\ orders[q[j]].next = Following(q, j)
  BY <1>1 DEF Ring
<1>3. Len(q) # 1
  <2> SUFFICES ASSUME Len(q) = 1
               PROVE  FALSE
    OBVIOUS
  <2>1. j = 1
    BY <1>1
  <2> QED
    BY <1>0, <1>2, <2>1 DEF Preceding
<1>4. /\ Ring(orders', Without(q, j)[1], Without(q, j))
      /\ SameButLinks(orders', orders)
      /\ \A c \in DOMAIN orders : (\A i \in 1 .. Len(q) : c # q[i]) => orders'[c] = orders[c]
  BY <1>0, <1>1, <1>3, RingWithout
<1>5. /\ DOMAIN levels = LevelBlocks /\ DOMAIN orders = OrderBlocks
      /\ l \in LevelBlocks /\ DOMAIN levels[l] = LevelFields
  <2>1. LevelOK(side, l) /\ l \in LevelBlocks
    BY ListedLevel
  <2>2. PoolsOK
    BY DEF Book
  <2> QED
    BY ONLY <2>1, <2>2 DEF LevelOK, PoolsOK
<1>6. \A m \in LevelBlocks : SameLevel(m) /\ (m # l => levels'[m] = levels[m])
  BY <1>5 DEF SameLevel, LevelFields
<1>7. levels'[l].order_0 = IF q[1] = q[j] THEN Following(q, j) ELSE q[1]
  BY <1>0, <1>1, <1>2, <1>5 DEF LevelFields
<1>8. Without(q, j)[1] = IF q[1] = q[j] THEN Following(q, j) ELSE q[1]
  <2>1. Len(q) > 1
    BY <1>1, <1>3, EqualOrMore
  <2>2. Without(q, j)[1] = IF 1 < j THEN q[1] ELSE q[2]
    <3>1. \A i \in 1 .. Len(q) - 1 : Without(q, j)[i] = IF i < j THEN q[i] ELSE q[i + 1]
      BY <1>1, WithoutIs
    <3>2. 1 \in 1 .. Len(q) - 1 /\ 1 + 1 = 2
      BY <1>1, <2>1
    <3> QED
      BY <3>1, <3>2
  <2>3. 1 \in 1 .. Len(q) /\ (q[1] = q[j] <=> j = 1)
    BY <1>1 DEF Distinct
  <2>4. j = 1 \/ 1 < j
    BY <1>1, EqualOrMore
  <2>5. j = 1 => Following(q, j) = q[2]
    BY <1>3 DEF Following
  <2> QED
    BY <2>2, <2>3, <2>4, <2>5
<1>9. DOMAIN levels' = DOMAIN levels
  OBVIOUS
<1>10. \A c \in OrderBlocks : c \notin OnList(Q[l]) => orders'[c] = orders[c]
  BY <1>0, <1>4, <1>5 DEF OnList
<1> QED
  BY <1>0, <1>4, <1>6, <1>7, <1>8, <1>9, <1>10 DEF TakenOut

LEMMA SameShown ==
  ASSUME NEW b \in OrderBlocks, DOMAIN orders = OrderBlocks, DOMAIN orders[b] = OrderFields,
         SameButLinks(orders', orders)
  PROVE  /\ orders'[b].id = orders[b].id /\ orders'[b].side = orders[b].side
         /\ orders'[b].price = orders[b].price /\ orders'[b].qty = orders[b].qty
         /\ DOMAIN orders'[b] = OrderFields /\ Shown(b)' = Shown(b)
<1>1. \A field \in {"id", "side", "price", "qty"} : field \in DOMAIN orders[b] \ {"prev", "next"}
  BY DEF OrderFields
<1>2. \A field \in {"id", "side", "price", "qty"} : orders'[b][field] = orders[b][field]
  BY <1>1 DEF SameButLinks
<1>3. /\ orders'[b].id = orders[b].id /\ orders'[b].side = orders[b].side
      /\ orders'[b].price = orders[b].price /\ orders'[b].qty = orders[b].qty
  BY <1>2
<1> QED
  BY <1>3 DEF Shown, SameButLinks

LEMMA CancelOneOfMany ==
  ASSUME NEW L, NEW Q, Book(L, Q), NEW order \in fed, Cancel(order),
         NEW b, b = id_to_order[order.oid], orders[b].prev # b
  PROVE  \E Q2 : Book(L, Q2)'
<1>0. PICK l : l = get_level_for_price(order.price)
  OBVIOUS
<1>1. /\ order.side \in Sides /\ l \in OnList(L[order.side]) /\ b \in OnList(Q[l])
      /\ Shown(b) = order /\ b \in OrderBlocks /\ DOMAIN orders[b] = OrderFields
      /\ orders[b].id = order.oid /\ orders[b].side = order.side /\ orders[b].price = order.price
  BY <1>0, PlaceOf
<1>2. PICK j \in 1 .. Len(Q[l]) : b = Q[l][j]
  BY <1>1 DEF OnList
<1>a. /\ TakesOut(l, b) /\ Forgets(order, b)
      /\ UNCHANGED <<levels_free, i_next_level, map_price_to_price_level, best, alive, i_next_order>>
  <2>1. remove_order(b)
    BY DEF Cancel
  <2> QED
    BY <1>0, <1>1, <2>1 DEF remove_order, Freed, Cancel, TakesOut, Forgets
<1>3. /\ UNCHANGED <<levels_free, i_next_level, map_price_to_price_level, best, alive, i_next_order>>
      /\ fed' = fed \ {order}
  BY <1>a DEF Forgets
<1> DEFINE t == Without(Q[l], j)
<1>b. TakenOut(l, Q[l], t)
  BY <1>1, <1>2, <1>a, QueueShorter
<1>4. /\ Ring(orders', levels'[l].order_0, t)
      /\ SameButLinks(orders', orders)
      /\ \A c \in OrderBlocks : c \notin OnList(Q[l]) => orders'[c] = orders[c]
      /\ \A m \in LevelBlocks : SameLevel(m) /\ (m # l => levels'[m] = levels[m])
      /\ DOMAIN levels' = DOMAIN levels
  BY <1>b DEF TakenOut
<1>5. Q[l] \in Seq(OrderBlocks) /\ Distinct(Q[l]) /\ Len(Q[l]) \in Nat
  BY <1>1, QueueRing
<1>6. /\ t \in Seq(OrderBlocks) /\ Len(t) = Len(Q[l]) - 1
      /\ \A i \in 1 .. Len(t) : Back(j, i) \in 1 .. Len(Q[l]) /\ t[i] = Q[l][Back(j, i)] /\ t[i] # b
      /\ \A i, k \in 1 .. Len(t) : i < k => Back(j, i) < Back(j, k)
      /\ \A i \in 1 .. Len(Q[l]) : i # j => Q[l][i] \in OnList(t)
  <2>1. /\ Without(Q[l], j) \in Seq(OrderBlocks) /\ Len(Without(Q[l], j)) = Len(Q[l]) - 1
        /\ \A i \in 1 .. Len(Without(Q[l], j)) :
             /\ Back(j, i) \in 1 .. Len(Q[l]) /\ Without(Q[l], j)[i] = Q[l][Back(j, i)]
             /\ Without(Q[l], j)[i] # Q[l][j]
        /\ \A i, k \in 1 .. Len(Without(Q[l], j)) : i < k => Back(j, i) < Back(j, k)
        /\ \A i \in 1 .. Len(Q[l]) : i # j => Q[l][i] \in OnList(Without(Q[l], j))
    <3>1. j \in 1 .. Len(Q[l])
      BY <1>2
    <3> QED
      BY ONLY ZenonT(30), <1>5, <3>1, WithoutMembers
  <2> QED
    BY <1>2, <2>1
<1> HIDE DEF t
<1>c. Forgotten(b)
  BY <1>a, CancelShared
<1>7. /\ FedOK' /\ orders_free' \in [OrderBlocks -> BOOLEAN]
      /\ \A c \in OrderBlocks : orders_free[c] => orders_free'[c]
      /\ id_to_order' \in [OrderIds -> OrderBlocks \cup {Null}]
      /\ \A o \in fed' : /\ id_to_order'[o.oid] = id_to_order[o.oid]
                         /\ id_to_order[o.oid] # b
                         /\ orders_free'[id_to_order[o.oid]] = orders_free[id_to_order[o.oid]]
      /\ \A oid \in OrderIds : id_to_order'[oid] # Null => \E o \in fed' : o.oid = oid
      /\ \A c \in OrderBlocks : ~ orders_free'[c] => \E o \in fed' : id_to_order'[o.oid] = c
      /\ \A c : Shown(c) \in fed /\ c = id_to_order[orders[c].id] /\ c # b
                => Shown(c) \in fed' /\ id_to_order'[orders[c].id] = c
  BY <1>c DEF Forgotten
<1>8. DOMAIN orders = OrderBlocks /\ DOMAIN levels = LevelBlocks /\ DOMAIN orders' = OrderBlocks
  BY <1>4 DEF Book, PoolsOK, SameButLinks
<1>9. PoolsOK' /\ MapsOK'
  BY <1>3, <1>4, <1>7, <1>8 DEF Book, PoolsOK, MapsOK
<1>10. ASSUME NEW side \in Sides
       PROVE  SideOK(side, L[side])'
  <2>1. SideOK(side, L[side])
    BY DEF Book
  <2>2. ASSUME NEW i \in 1 .. Len(L[side])
        PROVE  /\ SameLevel(L[side][i]) /\ ~ levels_free'[L[side][i]]
               /\ map_price_to_price_level'[price_to_index(levels[L[side][i]].price)] = L[side][i]
    <3>1. LevelOK(side, L[side][i]) /\ L[side][i] \in LevelBlocks
      BY LevelPlace
    <3> QED
      BY <1>3, <1>4, <3>1 DEF LevelOK, get_level_for_price
  <2> QED
    BY <1>3, <1>4, <2>1, <2>2, SideKept
<1>11. ASSUME NEW side \in Sides, NEW m \in OnList(L[side]), NEW c \in OnList(Q[m])
       PROVE  /\ c \in OrderBlocks /\ Shown(c)' = Shown(c)
              /\ orders'[c].id = orders[c].id /\ orders'[c].side = side
              /\ orders'[c].price = levels'[m].price
              /\ c # b => Shown(c) \in fed' /\ id_to_order'[orders[c].id] = c
  <2>1. /\ c \in OrderBlocks /\ DOMAIN orders[c] = OrderFields /\ Shown(c) \in fed
        /\ c = id_to_order[orders[c].id]
        /\ orders[c].side = side /\ orders[c].price = levels[m].price
    BY QueuedBlock
  <2>2. m \in LevelBlocks
    BY ListedLevel
  <2>3. /\ orders'[c].id = orders[c].id /\ orders'[c].side = orders[c].side
        /\ orders'[c].price = orders[c].price /\ Shown(c)' = Shown(c)
    BY <1>4, <1>8, <2>1, SameShown
  <2> QED
    BY <1>4, <1>7, <2>1, <2>2, <2>3 DEF SameLevel
<1>12. ASSUME NEW side \in Sides, NEW m \in OnList(L[side]), m # l
       PROVE  QueueOK(side, m, Q[m])'
  <2>1. QueueOK(side, m, Q[m]) /\ m \in LevelBlocks
    BY ListedLevel
  <2>2. ASSUME NEW i \in 1 .. Len(Q[m])
        PROVE  SameOrder(Q[m][i]) /\ Shown(Q[m][i])' \in fed' /\ id_to_order'[orders[Q[m][i]].id] = Q[m][i]
    <3>0. PICK c : c = Q[m][i]
      OBVIOUS
    <3>1. c \in OnList(Q[m])
      BY <3>0 DEF OnList
    <3>2. c \notin OnList(Q[l])
      <4> SUFFICES ASSUME c \in OnList(Q[l])
                   PROVE  FALSE
        OBVIOUS
      <4>1. get_level_for_price(orders[c].price) = l
        BY <1>1, QueuedBlock
      <4>2. get_level_for_price(orders[c].price) = m
        BY <3>1, QueuedBlock
      <4> QED
        BY <1>12, <4>1, <4>2
    <3>3. c \in OrderBlocks /\ Shown(c)' = Shown(c) /\ Shown(c) \in fed' /\ id_to_order'[orders[c].id] = c
      BY <1>1, <1>11, <3>1, <3>2
    <3>4. SameOrder(c)
      BY <1>4, <3>2, <3>3 DEF SameOrder
    <3> QED
      BY <3>0, <3>3, <3>4
  <2>3. levels'[m].order_0 = levels[m].order_0 /\ levels'[m].price = levels[m].price
    BY <1>4, <1>12, <2>1
  <2> QED
    BY <1>8, <2>1, <2>2, <2>3, QueueKept
<1>13. QueueOK(order.side, l, t)'
  <2>1. \A i \in 1 .. Len(t) : t[i] \in OnList(Q[l]) /\ t[i] # b
    BY <1>6 DEF OnList
  <2>2. \A i \in 1 .. Len(t) : OrderOK(order.side, l, t[i])'
    <3> TAKE i \in 1 .. Len(t)
    <3>0. PICK c : c = t[i]
      OBVIOUS
    <3>1. c \in OnList(Q[l]) /\ c # b
      BY <2>1, <3>0
    <3>2. /\ Shown(c)' \in fed' /\ orders'[c].id = orders[c].id /\ orders'[c].side = order.side
          /\ orders'[c].price = levels'[l].price /\ id_to_order'[orders[c].id] = c
      BY <1>1, <1>11, <3>1
    <3> QED
      BY <3>0, <3>2 DEF OrderOK
  <2>3. \A i, k \in 1 .. Len(t) : i < k => orders'[t[i]].id < orders'[t[k]].id
    <3> SUFFICES ASSUME NEW i \in 1 .. Len(t), NEW k \in 1 .. Len(t), i < k
                 PROVE  orders'[t[i]].id < orders'[t[k]].id
      OBVIOUS
    <3>1. orders[Q[l][Back(j, i)]].id < orders[Q[l][Back(j, k)]].id
      <4>1. QueueOK(order.side, l, Q[l])
        BY <1>1, ListedLevel
      <4> QED
        BY <1>6, <4>1 DEF QueueOK
    <3>2. orders[t[i]].id < orders[t[k]].id
      BY <1>6, <3>1
    <3>3. orders'[t[i]].id = orders[t[i]].id /\ orders'[t[k]].id = orders[t[k]].id
      BY <1>1, <1>11, <2>1
    <3> QED
      BY <3>2, <3>3
  <2> QED
    BY <1>4, <2>2, <2>3 DEF QueueOK
<1> DEFINE Q2 == [Q EXCEPT ![l] = t]
<1>14. l \in LevelBlocks /\ Q \in [LevelBlocks -> Seq(OrderBlocks)]
  BY <1>1, ListedLevel DEF Book
<1>15. /\ Q2 \in [LevelBlocks -> Seq(OrderBlocks)] /\ Q2[l] = t
       /\ \A m \in LevelBlocks : m # l => Q2[m] = Q[m]
  BY <1>6, <1>14
<1> HIDE DEF Q2
<1>16. ASSUME NEW side \in Sides, NEW i \in 1 .. Len(L[side])
       PROVE  QueueOK(side, L[side][i], Q2[L[side][i]])'
  <2>0. PICK m : m = L[side][i]
    OBVIOUS
  <2>1. m \in OnList(L[side]) /\ m \in LevelBlocks
    BY <2>0, LevelPlace DEF OnList
  <2>2. CASE m = l
    <3>1. LevelOK(side, l) /\ LevelOK(order.side, l)
      BY <1>1, <2>1, <2>2, ListedLevel
    <3>2. side = order.side
      BY <3>1 DEF LevelOK
    <3> QED
      BY <1>13, <1>15, <2>0, <2>2, <3>2
  <2>3. CASE m # l
    BY <1>12, <1>15, <2>0, <2>1, <2>3
  <2> QED
    BY <2>2, <2>3
<1>17. ASSUME NEW o \in fed'
       PROVE  Found(o, L, Q2)'
  <2>0. PICK c : c = id_to_order[o.oid]
    OBVIOUS
  <2>a. PICK m : m = get_level_for_price(o.price)
    OBVIOUS
  <2>1. o \in fed /\ c # b
    BY <1>3, <1>7, <2>0
  <2>2. /\ o.side \in Sides /\ m \in OnList(L[o.side]) /\ c \in OnList(Q[m]) /\ Shown(c) = o
        /\ c \in OrderBlocks /\ DOMAIN orders[c] = OrderFields /\ ~ orders_free[c]
    BY <2>0, <2>a, <2>1, PlaceOf
  <2>3. id_to_order'[o.oid] = c /\ ~ orders_free'[c] /\ get_level_for_price(o.price)' = m
    BY <1>3, <1>7, <2>0, <2>a, <2>2 DEF get_level_for_price
  <2>4. Shown(c)' = o /\ DOMAIN orders'[c] = OrderFields
    BY <1>4, <1>8, <2>2, SameShown
  <2>5. c \in OnList(Q2[m])
    <3>1. m \in LevelBlocks
      BY <2>2, ListedLevel
    <3>2. CASE m = l
      <4>1. PICK i \in 1 .. Len(Q[l]) : c = Q[l][i]
        BY <2>2, <3>2 DEF OnList
      <4> QED
        BY <1>2, <1>6, <1>15, <2>1, <3>2, <4>1
    <3>3. CASE m # l
      BY <1>15, <2>2, <3>1, <3>3
    <3> QED
      BY <3>2, <3>3
  <2> QED
    BY <2>2, <2>3, <2>4, <2>5 DEF Found
<1>18. UsedOK(L)'
  BY <1>3, <1>7 DEF Book, UsedOK
<1>19. PICK Q3 : Q3 = Q2
  OBVIOUS
<1>20. L \in [Sides -> Seq(LevelBlocks)]
  BY DEF Book
<1>21. Book(L, Q3)'
  BY <1>7, <1>9, <1>10, <1>15, <1>16, <1>17, <1>18, <1>19, <1>20 DEF Book
<1> QED
  BY <1>21

LEMMA LevelRing ==
  ASSUME NEW L, NEW Q, Book(L, Q), NEW side \in Sides, NEW l \in OnList(L[side])
  PROVE  /\ Ring(levels, best[side], L[side]) /\ L[side] \in Seq(LevelBlocks) /\ Distinct(L[side])
         /\ Len(L[side]) \in Nat /\ Len(L[side]) >= 1 /\ L[side][1] = best[side]
         /\ \A i \in 1 .. Len(L[side]) : Node(levels, L[side][i])
<1>1. Ring(levels, best[side], L[side]) /\ DOMAIN levels = LevelBlocks
  BY ListedLevel DEF Book, PoolsOK
<1>2. L[side] \in Seq(LevelBlocks) /\ Distinct(L[side]) /\ Len(L[side]) \in Nat /\ Len(L[side]) >= 1
      /\ L[side][1] = best[side]
  BY <1>1, RingMembers DEF Ring
<1>3. \A i \in 1 .. Len(L[side]) : Node(levels, L[side][i])
  <2> TAKE i \in 1 .. Len(L[side])
  <2>1. LevelOK(side, L[side][i])
    BY LevelPlace
  <2>2. DOMAIN levels[L[side][i]] = LevelFields
    BY ONLY <2>1 DEF LevelOK
  <2> QED
    BY ONLY <2>2 DEF Node, LevelFields
<1> QED
  BY <1>1, <1>2, <1>3

LEMMA SameLevelShown ==
  ASSUME NEW l, l \in DOMAIN levels, DOMAIN levels[l] = LevelFields, SameButLinks(levels', levels)
  PROVE  /\ levels'[l].side = levels[l].side /\ levels'[l].price = levels[l].price
         /\ levels'[l].order_0 = levels[l].order_0 /\ DOMAIN levels'[l] = LevelFields
<1>1. \A field \in {"side", "price", "order_0"} : field \in DOMAIN levels[l] \ {"prev", "next"}
  BY DEF LevelFields
<1>2. \A field \in {"side", "price", "order_0"} : levels'[l][field] = levels[l][field]
  BY <1>1 DEF SameButLinks
<1> QED
  BY <1>2 DEF SameButLinks

(* A level is taken from its side.                                         *)
DropsLevel(side, l) ==
  /\ levels' = IF levels[l].next = l THEN levels ELSE Unlink(levels, l)
  /\ best' = BestWithout(side, l)
  /\ map_price_to_price_level' =
       [map_price_to_price_level EXCEPT ![price_to_index(levels[l].price)] = Null]
  /\ levels_free' = [levels_free EXCEPT ![l] = TRUE]

LevelDropped(side, l, s, t) ==
  /\ SameButLinks(levels', levels)
  /\ \A m \in LevelBlocks : m \notin OnList(s) => levels'[m] = levels[m]
  /\ best' \in [Sides -> LevelBlocks \cup {Null}]
  /\ \A other \in Sides : other # side => best'[other] = best[other]
  /\ IF best'[side] = Null THEN t = <<>> ELSE Ring(levels', best'[side], t)

LEMMA SideShorter ==
  ASSUME NEW L, NEW Q, Book(L, Q), NEW side \in Sides, NEW i \in 1 .. Len(L[side]),
         NEW l, l = L[side][i], DropsLevel(side, l)
  PROVE  LevelDropped(side, l, L[side], Without(L[side], i))
<1> USE DEF DropsLevel
<1>0. PICK s : s = L[side]
  OBVIOUS
<1>1. /\ Ring(levels, best[side], s) /\ s \in Seq(LevelBlocks) /\ Distinct(s)
      /\ Len(s) \in Nat /\ Len(s) >= 1 /\ s[1] = best[side]
      /\ \A k \in 1 .. Len(s) : Node(levels, s[k])
      /\ i \in 1 .. Len(s) /\ l = s[i]
  <2>1. l \in OnList(L[side])
    BY DEF OnList
  <2> QED
    BY <1>0, <2>1, LevelRing
<1>2. levels[l].next = Following(s, i)
  BY <1>1 DEF Ring
<1>3. /\ DOMAIN levels = LevelBlocks /\ best \in [Sides -> LevelBlocks \cup {Null}]
      /\ \A k \in 1 .. Len(s) : s[k] \in LevelBlocks /\ s[k] # Null
  BY <1>1, SeqFacts, BlocksFinite DEF Book, PoolsOK, MapsOK
<1>4. CASE Len(s) = 1
  <2>1. i = 1 /\ Following(s, i) = l
    BY <1>1, <1>4 DEF Following
  <2>2. levels' = levels /\ best' = [best EXCEPT ![side] = Null]
    BY <1>2, <2>1 DEF BestWithout
  <2>3. Without(s, i) = <<>>
    <3>1. Without(s, i) \in Seq(LevelBlocks) /\ Len(Without(s, i)) = Len(s) - 1
      BY <1>1, WithoutIs
    <3>2. Len(Without(s, i)) = 0
      BY <1>4, <3>1
    <3> QED
      BY <3>1, <3>2, EmptySeq
  <2>4. SameButLinks(levels', levels)
    BY <2>2 DEF SameButLinks
  <2> QED
    BY <1>0, <1>3, <2>2, <2>3, <2>4 DEF LevelDropped
<1>5. CASE Len(s) # 1
  <2>1. Len(s) > 1
    BY <1>1, <1>5, EqualOrMore
  <2>2. Following(s, i) # l /\ Following(s, i) \in LevelBlocks
    <3>1. i = Len(s) \/ i + 1 \in 1 .. Len(s)
      BY <1>1, EqualOrMore
    <3>2. 1 \in 1 .. Len(s) /\ 1 # Len(s) /\ i + 1 # i
      BY <1>1, <2>1
    <3> QED
      BY <1>1, <1>3, <3>1, <3>2 DEF Following, Distinct
  <2>3. levels' = Unlink(levels, s[i])
    BY <1>1, <1>2, <2>2
  <2>4. /\ Ring(levels', Without(s, i)[1], Without(s, i))
        /\ SameButLinks(levels', levels)
        /\ \A m \in DOMAIN levels : (\A k \in 1 .. Len(s) : m # s[k]) => levels'[m] = levels[m]
    BY <1>1, <1>5, <2>3, RingWithout
  <2>5. best' = IF s[1] = l THEN [best EXCEPT ![side] = Following(s, i)] ELSE best
    BY <1>1, <1>2, <2>2 DEF BestWithout
  <2>6. Without(s, i)[1] = IF s[1] = l THEN Following(s, i) ELSE s[1]
    <3>1. \A k \in 1 .. Len(s) - 1 : Without(s, i)[k] = IF k < i THEN s[k] ELSE s[k + 1]
      BY <1>1, WithoutIs
    <3>2. 1 \in 1 .. Len(s) - 1 /\ 1 + 1 = 2 /\ 1 \in 1 .. Len(s)
      BY <1>1, <2>1
    <3>3. Without(s, i)[1] = IF 1 < i THEN s[1] ELSE s[2]
      BY <3>1, <3>2
    <3>4. s[1] = l <=> i = 1
      BY <1>1, <3>2 DEF Distinct
    <3>5. i = 1 \/ 1 < i
      BY <1>1, EqualOrMore
    <3>6. i = 1 => Following(s, i) = s[2]
      BY <1>5 DEF Following
    <3> QED
      BY <3>3, <3>4, <3>5, <3>6
  <2>7. best' \in [Sides -> LevelBlocks \cup {Null}] /\ best'[side] = Without(s, i)[1]
        /\ \A other \in Sides : other # side => best'[other] = best[other]
    BY <1>1, <1>3, <2>2, <2>5, <2>6
  <2>8. best'[side] # Null
    <3>1. 1 \in 1 .. Len(s)
      BY <1>1
    <3> QED
      BY <1>3, <2>2, <2>6, <2>7, <3>1, BlocksFinite
  <2>9. \A m \in LevelBlocks : m \notin OnList(s) => levels'[m] = levels[m]
    BY <1>3, <2>4 DEF OnList
  <2> QED
    BY <1>0, <2>4, <2>7, <2>8, <2>9 DEF LevelDropped
<1> QED
  BY <1>4, <1>5

(* No two levels in use have the same slot.                                *)
LEMMA OtherSlot ==
  ASSUME NEW L, NEW Q, Book(L, Q), NEW side \in Sides, NEW l \in OnList(L[side]),
         NEW other \in Sides, NEW m \in OnList(L[other]), m # l
  PROVE  price_to_index(levels[m].price) # price_to_index(levels[l].price)
<1>1. LevelOK(side, l)
  BY ListedLevel
<1>2. LevelOK(other, m)
  BY ListedLevel
<1> QED
  BY <1>1, <1>2 DEF LevelOK, get_level_for_price

LEMMA CancelLast ==
  ASSUME NEW L, NEW Q, Book(L, Q), NEW order \in fed, Cancel(order),
         NEW b, b = id_to_order[order.oid], orders[b].prev = b
  PROVE  \E L2 : Book(L2, Q)'
<1>0. PICK l, side : l = get_level_for_price(order.price) /\ side = order.side
  OBVIOUS
<1>1. /\ side \in Sides /\ l \in OnList(L[side]) /\ b \in OnList(Q[l])
      /\ Shown(b) = order /\ b \in OrderBlocks /\ DOMAIN orders[b] = OrderFields
      /\ orders[b].id = order.oid /\ orders[b].side = side /\ orders[b].price = order.price
  BY <1>0, PlaceOf
<1>2. PICK i \in 1 .. Len(L[side]) : l = L[side][i]
  BY <1>1 DEF OnList
<1>3. l \in LevelBlocks /\ LevelOK(side, l)
  BY <1>1, ListedLevel
<1>4. levels[l].price = order.price
  BY <1>1, QueuedBlock
<1>5. /\ DropsLevel(side, l) /\ Forgets(order, b) /\ alive' = ~ levels_free[l]
      /\ UNCHANGED <<orders, i_next_level, i_next_order>>
  <2>1. remove_order(b)
    BY DEF Cancel
  <2>2. remove_price_level(side, order.price)
    BY <1>1, <2>1 DEF remove_order
  <2> QED
    BY <1>0, <1>1, <1>4, <2>1, <2>2
       DEF remove_order, remove_price_level, Freed, Cancel, DropsLevel, Forgets
<1>6. PICK t : t = Without(L[side], i)
  OBVIOUS
<1>a. LevelDropped(side, l, L[side], t)
  BY <1>1, <1>2, <1>5, <1>6, SideShorter
<1>7. /\ SameButLinks(levels', levels)
      /\ \A m \in LevelBlocks : m \notin OnList(L[side]) => levels'[m] = levels[m]
      /\ best' \in [Sides -> LevelBlocks \cup {Null}]
      /\ \A other \in Sides : other # side => best'[other] = best[other]
      /\ IF best'[side] = Null THEN t = <<>> ELSE Ring(levels', best'[side], t)
  BY <1>a DEF LevelDropped
<1>8. /\ t \in Seq(LevelBlocks) /\ Len(t) = Len(L[side]) - 1
      /\ \A k \in 1 .. Len(t) : Back(i, k) \in 1 .. Len(L[side]) /\ t[k] = L[side][Back(i, k)] /\ t[k] # l
      /\ \A j, k \in 1 .. Len(t) : j < k => Back(i, j) < Back(i, k)
      /\ \A k \in 1 .. Len(L[side]) : k # i => L[side][k] \in OnList(t)
  <2>1. L[side] \in Seq(LevelBlocks) /\ Distinct(L[side])
    BY <1>1, LevelRing
  <2>2. PICK s : s = L[side]
    OBVIOUS
  <2>3. s \in Seq(LevelBlocks) /\ Distinct(s) /\ i \in 1 .. Len(s) /\ t = Without(s, i) /\ l = s[i]
    BY <1>2, <1>6, <2>1, <2>2
  <2>4. /\ t \in Seq(LevelBlocks) /\ Len(t) = Len(s) - 1
        /\ \A k \in 1 .. Len(t) : Back(i, k) \in 1 .. Len(s) /\ t[k] = s[Back(i, k)] /\ t[k] # l
        /\ \A j, k \in 1 .. Len(t) : j < k => Back(i, j) < Back(i, k)
        /\ \A k \in 1 .. Len(s) : k # i => s[k] \in OnList(t)
    <3>1. s \in Seq(LevelBlocks) /\ Distinct(s) /\ i \in 1 .. Len(s)
      BY ONLY <2>3
    <3>2. /\ Without(s, i) \in Seq(LevelBlocks) /\ Len(Without(s, i)) = Len(s) - 1
          /\ \A k \in 1 .. Len(Without(s, i)) :
               /\ Back(i, k) \in 1 .. Len(s) /\ Without(s, i)[k] = s[Back(i, k)]
               /\ Without(s, i)[k] # s[i]
          /\ \A j, k \in 1 .. Len(Without(s, i)) : j < k => Back(i, j) < Back(i, k)
          /\ \A k \in 1 .. Len(s) : k # i => s[k] \in OnList(Without(s, i))
      BY ONLY ZenonT(30), <3>1, WithoutMembers
    <3> QED
      BY ONLY <2>3, <3>2
  <2> QED
    BY ONLY <2>2, <2>4
<1>c. Forgotten(b)
  BY <1>5, CancelShared
<1>9. /\ FedOK' /\ orders_free' \in [OrderBlocks -> BOOLEAN]
      /\ \A c \in OrderBlocks : orders_free[c] => orders_free'[c]
      /\ id_to_order' \in [OrderIds -> OrderBlocks \cup {Null}]
      /\ \A o \in fed' : /\ id_to_order'[o.oid] = id_to_order[o.oid]
                         /\ id_to_order[o.oid] # b
                         /\ orders_free'[id_to_order[o.oid]] = orders_free[id_to_order[o.oid]]
      /\ \A oid \in OrderIds : id_to_order'[oid] # Null => \E o \in fed' : o.oid = oid
      /\ \A c \in OrderBlocks : ~ orders_free'[c] => \E o \in fed' : id_to_order'[o.oid] = c
      /\ \A c : Shown(c) \in fed /\ c = id_to_order[orders[c].id] /\ c # b
                => Shown(c) \in fed' /\ id_to_order'[orders[c].id] = c
  BY <1>c DEF Forgotten
<1>10. /\ fed' = fed \ {order}
       /\ map_price_to_price_level' =
            [map_price_to_price_level EXCEPT ![price_to_index(levels[l].price)] = Null]
       /\ levels_free' = [levels_free EXCEPT ![l] = TRUE]
  BY <1>5 DEF DropsLevel, Forgets
<1>11. /\ DOMAIN orders = OrderBlocks /\ DOMAIN levels = LevelBlocks
       /\ levels_free \in [LevelBlocks -> BOOLEAN] /\ levels_free[i_next_level]
       /\ i_next_level \in LevelBlocks
       /\ map_price_to_price_level \in [Slots -> LevelBlocks \cup {Null}]
       /\ DOMAIN levels' = DOMAIN levels
  BY <1>7 DEF Book, PoolsOK, MapsOK, SameButLinks
<1>12. PoolsOK' /\ MapsOK'
  <2>1. alive' = TRUE
    BY <1>3, <1>5 DEF LevelOK
  <2>2. levels_free' \in [LevelBlocks -> BOOLEAN] /\ levels_free'[i_next_level]
    BY <1>3, <1>10, <1>11
  <2>3. map_price_to_price_level' \in [Slots -> LevelBlocks \cup {Null}]
    BY <1>10, <1>11
  <2>4. i_next_order \in OrderBlocks /\ orders_free'[i_next_order]
    BY <1>9 DEF Book, PoolsOK
  <2> QED
    BY <1>5, <1>7, <1>9, <1>11, <2>1, <2>2, <2>3, <2>4 DEF PoolsOK, MapsOK
<1>13. \A price \in Nat : price_to_index(price) \in Slots
  BY TEAssumption DEF price_to_index, Slots
<1>14. ASSUME NEW other \in Sides, NEW m \in OnList(L[other]), m # l
       PROVE  /\ m \in LevelBlocks /\ LevelOK(other, m)' /\ levels'[m].price = levels[m].price
              /\ levels'[m].order_0 = levels[m].order_0
              /\ map_price_to_price_level'[price_to_index(levels[m].price)] = m
  <2>1. LevelOK(other, m) /\ m \in LevelBlocks
    BY ListedLevel
  <2>2. price_to_index(levels[m].price) # price_to_index(levels[l].price)
    BY <1>1, <1>14, OtherSlot
  <2>3. map_price_to_price_level'[price_to_index(levels[m].price)] = m
    BY <1>10, <1>11, <1>13, <2>1, <2>2 DEF LevelOK, get_level_for_price
  <2>4. /\ levels'[m].side = levels[m].side /\ levels'[m].price = levels[m].price
        /\ levels'[m].order_0 = levels[m].order_0 /\ DOMAIN levels'[m] = LevelFields
    BY <1>7, <1>11, <2>1, SameLevelShown DEF LevelOK
  <2>5. ~ levels_free'[m]
    BY <1>10, <1>11, <1>14, <2>1 DEF LevelOK
  <2> QED
    BY <2>1, <2>3, <2>4, <2>5 DEF LevelOK, get_level_for_price
<1>15. SideOK(side, t)'
  <2>1. ASSUME NEW k \in 1 .. Len(t)
        PROVE  /\ t[k] \in OnList(L[side]) /\ LevelOK(side, t[k])'
               /\ levels'[t[k]].price = levels[L[side][Back(i, k)]].price
    <3>0. PICK m : m = t[k]
      OBVIOUS
    <3>1. m \in OnList(L[side]) /\ m # l /\ m = L[side][Back(i, k)]
      BY <1>8, <3>0 DEF OnList
    <3>2. LevelOK(side, m)' /\ levels'[m].price = levels[m].price
      BY <1>1, <1>14, <3>1
    <3> QED
      BY <3>0, <3>1, <3>2
  <2>2. \A j, k \in 1 .. Len(t) : j < k => MoreAggressive(side, levels'[t[j]].price, levels'[t[k]].price)
    <3> SUFFICES ASSUME NEW j \in 1 .. Len(t), NEW k \in 1 .. Len(t), j < k
                 PROVE  MoreAggressive(side, levels'[t[j]].price, levels'[t[k]].price)
      OBVIOUS
    <3>1. SideOK(side, L[side])
      BY <1>1 DEF Book
    <3>2. MoreAggressive(side, levels[L[side][Back(i, j)]].price, levels[L[side][Back(i, k)]].price)
      BY <1>8, <3>1 DEF SideOK
    <3> QED
      BY <2>1, <3>2
  <2> QED
    BY <1>7, <2>1, <2>2 DEF SideOK
<1>16. ASSUME NEW other \in Sides, other # side
       PROVE  SideOK(other, L[other])' /\ l \notin OnList(L[other])
  <2>1. SideOK(other, L[other])
    BY DEF Book
  <2>2. ASSUME NEW m \in OnList(L[other])
        PROVE  m # l /\ m \notin OnList(L[side]) /\ m \in LevelBlocks
    <3>1. LevelOK(other, m) /\ m \in LevelBlocks
      BY ListedLevel
    <3>2. \A n \in OnList(L[side]) : LevelOK(side, n)
      BY <1>1, ListedLevel
    <3> QED
      BY <1>1, <1>16, <3>1, <3>2 DEF LevelOK
  <2>3. ASSUME NEW k \in 1 .. Len(L[other])
        PROVE  /\ SameLevel(L[other][k]) /\ ~ levels_free'[L[other][k]]
               /\ map_price_to_price_level'[price_to_index(levels[L[other][k]].price)] = L[other][k]
    <3>0. PICK m : m = L[other][k]
      OBVIOUS
    <3>1. m \in OnList(L[other])
      BY <3>0 DEF OnList
    <3>2. levels'[m] = levels[m] /\ m # l
      BY <1>7, <2>2, <3>1
    <3>3. LevelOK(other, m)' /\ map_price_to_price_level'[price_to_index(levels[m].price)] = m
      BY <1>14, <3>1, <3>2
    <3> QED
      BY <3>0, <3>2, <3>3 DEF SameLevel, LevelOK, get_level_for_price
  <2>4. SideOK(other, L[other])'
    BY <1>7, <1>11, <1>16, <2>1, <2>3, SideKept
  <2> QED
    BY <2>2, <2>4
<1>17. PICK L2 : L2 = [L EXCEPT ![side] = t]
  OBVIOUS
<1>18. /\ L2 \in [Sides -> Seq(LevelBlocks)] /\ L2[side] = t
       /\ \A other \in Sides : other # side => L2[other] = L[other]
  BY <1>1, <1>8, <1>17 DEF Book
<1>19. ASSUME NEW other \in Sides, NEW m \in LevelBlocks
       PROVE  m \in OnList(L2[other]) <=> m \in OnList(L[other]) /\ m # l
  <2>1. CASE other = side
    <3>1. \A k \in 1 .. Len(t) : t[k] \in OnList(L[side]) /\ t[k] # l
      BY <1>8 DEF OnList
    <3>2. \A k \in 1 .. Len(L[side]) : L[side][k] # l => L[side][k] \in OnList(t)
      BY <1>2, <1>8
    <3>3. m \in OnList(t) => m \in OnList(L[side]) /\ m # l
      BY <3>1 DEF OnList
    <3>4. m \in OnList(L[side]) /\ m # l => m \in OnList(t)
      <4> SUFFICES ASSUME m \in OnList(L[side]), m # l
                   PROVE  m \in OnList(t)
        OBVIOUS
      <4>1. PICK k \in 1 .. Len(L[side]) : m = L[side][k]
        BY DEF OnList
      <4> QED
        BY <3>2, <4>1
    <3> QED
      BY <1>18, <2>1, <3>3, <3>4
  <2>2. CASE other # side
    BY <1>16, <1>18, <2>2
  <2> QED
    BY <2>1, <2>2
<1>20. \A other \in Sides : SideOK(other, L2[other])'
  BY <1>15, <1>16, <1>18
<1>21. ASSUME NEW other \in Sides, NEW m \in OnList(L[other]), m # l
       PROVE  QueueOK(other, m, Q[m])'
  <2>1. QueueOK(other, m, Q[m])
    BY ListedLevel
  <2>2. ASSUME NEW k \in 1 .. Len(Q[m])
        PROVE  SameOrder(Q[m][k]) /\ Shown(Q[m][k])' \in fed' /\ id_to_order'[orders[Q[m][k]].id] = Q[m][k]
    <3>0. PICK c : c = Q[m][k]
      OBVIOUS
    <3>1. c \in OnList(Q[m])
      BY <3>0 DEF OnList
    <3>2. c # b
      <4> SUFFICES ASSUME c = b
                   PROVE  FALSE
        OBVIOUS
      <4>1. get_level_for_price(orders[b].price) = l
        BY <1>1, QueuedBlock
      <4>2. get_level_for_price(orders[c].price) = m
        BY <3>1, QueuedBlock
      <4> QED
        BY <1>21, <4>1, <4>2
    <3>3. Shown(c) \in fed /\ c = id_to_order[orders[c].id]
      BY <3>1, QueuedBlock
    <3>4. Shown(c)' = Shown(c) /\ SameOrder(c)
      BY <1>5 DEF Shown, SameOrder
    <3>5. Shown(c) \in fed' /\ id_to_order'[orders[c].id] = c
      BY <1>9, <3>2, <3>3
    <3> QED
      BY <3>0, <3>4, <3>5
  <2>3. levels'[m].order_0 = levels[m].order_0 /\ levels'[m].price = levels[m].price
    BY <1>14, <1>21
  <2> QED
    BY <1>5, <2>1, <2>2, <2>3, QueueKept
<1>22. ASSUME NEW other \in Sides, NEW k \in 1 .. Len(L2[other])
       PROVE  QueueOK(other, L2[other][k], Q[L2[other][k]])'
  <2>0. PICK m : m = L2[other][k]
    OBVIOUS
  <2>1. m \in OnList(L2[other]) /\ m \in LevelBlocks
    <3>1. L2[other] \in Seq(LevelBlocks)
      BY <1>18
    <3> QED
      BY <2>0, <3>1, SeqFacts DEF OnList
  <2>2. m \in OnList(L[other]) /\ m # l
    BY <1>19, <2>1
  <2> QED
    BY <1>21, <2>0, <2>2
<1>23. Len(Q[l]) = 1
  <2>0. PICK q : q = Q[l]
    OBVIOUS
  <2>1. Ring(orders, levels[l].order_0, q) /\ Distinct(q) /\ Len(q) \in Nat /\ Len(q) >= 1
    BY <1>1, <2>0, QueueRing
  <2>2. PICK j \in 1 .. Len(q) : b = q[j]
    BY <1>1, <2>0 DEF OnList
  <2>3. orders[b].prev = Preceding(q, j)
    BY <2>1, <2>2 DEF Ring
  <2>4. CASE Len(q) > 1
    <3>1. j = 1 \/ j - 1 \in 1 .. Len(q)
      BY <2>1, <2>2, EqualOrMore
    <3>2. Len(q) \in 1 .. Len(q) /\ Len(q) # 1
      <4>1. \A n \in Nat : n > 1 => n \in 1 .. n /\ n # 1
        OBVIOUS
      <4> QED
        BY <2>1, <2>4, <4>1
    <3>3. j - 1 # j
      BY <2>1
    <3> QED
      BY <2>1, <2>2, <2>3, <3>1, <3>2, <3>3 DEF Preceding, Distinct
  <2> QED
    BY <2>0, <2>1, <2>4, EqualOrMore
<1>24. ASSUME NEW o \in fed'
       PROVE  Found(o, L2, Q)'
  <2>0. PICK c : c = id_to_order[o.oid]
    OBVIOUS
  <2>a. PICK m : m = get_level_for_price(o.price)
    OBVIOUS
  <2>1. o \in fed /\ c # b
    BY <1>9, <1>10, <2>0
  <2>2. /\ o.side \in Sides /\ m \in OnList(L[o.side]) /\ c \in OnList(Q[m]) /\ Shown(c) = o
        /\ c \in OrderBlocks /\ DOMAIN orders[c] = OrderFields /\ ~ orders_free[c]
        /\ orders[c].price = o.price
    BY <2>0, <2>a, <2>1, PlaceOf
  <2>3. m # l
    <3> SUFFICES ASSUME m = l
                 PROVE  FALSE
      OBVIOUS
    <3>1. \A x \in OnList(Q[l]) : x = Q[l][1]
      BY <1>23 DEF OnList
    <3> QED
      BY <1>1, <2>1, <2>2, <3>1
  <2>4. m \in LevelBlocks /\ map_price_to_price_level'[price_to_index(levels[m].price)] = m
    BY <1>14, <2>2, <2>3
  <2>5. levels[m].price = o.price
    BY <2>2, QueuedBlock
  <2>6. map_price_to_price_level'[price_to_index(o.price)] = m
    BY <2>4, <2>5
  <2>7. id_to_order'[o.oid] = c /\ ~ orders_free'[c] /\ Shown(c)' = o /\ DOMAIN orders'[c] = OrderFields
    BY <1>5, <1>9, <2>0, <2>2 DEF Shown
  <2>8. m \in OnList(L2[o.side])
    BY <1>19, <2>2, <2>3, <2>4
  <2> QED
    BY <2>2, <2>6, <2>7, <2>8 DEF Found, get_level_for_price
<1>25. UsedOK(L2)'
  <2>1. ASSUME NEW m \in LevelBlocks, ~ levels_free'[m]
        PROVE  \E other \in Sides : m \in OnList(L2[other])
    <3>1. m # l /\ ~ levels_free[m]
      BY <1>3, <1>10, <1>11, <2>1
    <3>2. PICK other \in Sides : m \in OnList(L[other])
      BY <3>1 DEF Book, UsedOK
    <3> QED
      BY <1>19, <3>1, <3>2
  <2> QED
    BY <1>9, <2>1 DEF UsedOK
<1>26. Q \in [LevelBlocks -> Seq(OrderBlocks)]
  BY DEF Book
<1>27. Book(L2, Q)'
  BY <1>9, <1>12, <1>18, <1>20, <1>22, <1>24, <1>25, <1>26 DEF Book
<1> QED
  BY <1>27

-----------------------------------------------------------------------------
(* The pools have room.                                                    *)

(* Where the scan of a pool of n blocks stops.                             *)
Onward(n, i, k) == IF i + k < n THEN i + k ELSE i + k - n

ScanStop(n, free, i) ==
  Onward(n, i, CHOOSE k \in 1 .. n - 1 :
                 free[Onward(n, i, k)] /\ \A j \in 1 .. k - 1 : ~ free[Onward(n, i, j)])

LEMMA ScanStopIsFree ==
  ASSUME NEW n \in Nat \ {0}, NEW free \in [0 .. n - 1 -> BOOLEAN], NEW i \in 0 .. n - 1,
         ~ free[i], NEW j \in 0 .. n - 1, free[j]
  PROVE  ScanStop(n, free, i) \in 0 .. n - 1 /\ free[ScanStop(n, free, i)]
<1> DEFINE hits == {k \in 1 .. n - 1 : free[Onward(n, i, k)]}
           k0 == CHOOSE k \in 1 .. n - 1 :
                   free[Onward(n, i, k)] /\ \A h \in 1 .. k - 1 : ~ free[Onward(n, i, h)]
<1>1. (IF j > i THEN j - i ELSE j - i + n) \in hits
  BY DEF Onward
<1>2. PICK m \in hits : \A k \in hits : m <= k
  <2>1. hits \in SUBSET Nat /\ hits # {}
    BY <1>1
  <2> HIDE DEF hits
  <2> QED
    BY <2>1, LeastNumber
<1>3. \A h \in 1 .. m - 1 : ~ free[Onward(n, i, h)]
  BY <1>2
<1>4. k0 \in 1 .. n - 1 /\ free[Onward(n, i, k0)]
  BY <1>2, <1>3
<1>5. Onward(n, i, k0) \in 0 .. n - 1
  BY <1>4 DEF Onward
<1> QED
  BY <1>4, <1>5 DEF ScanStop

LEMMA ScansAre ==
  /\ \A free, i : OrderPool!FirstFreeAfter(free, i) = ScanStop(MAX_ORDER_IDS, free, i)
  /\ \A free, i : LevelPool!FirstFreeAfter(free, i) = ScanStop(MAX_PRICE_LEVELS, free, i)
  BY DEF OrderPool!FirstFreeAfter, OrderPool!After, LevelPool!FirstFreeAfter, LevelPool!After,
         ScanStop, Onward

(* There are fewer order ids than blocks for orders.                       *)
LEMMA OrderPoolRoom ==
  ASSUME NEW L, NEW Q, Book(L, Q), last_oid + 1 \in OrderIds,
         NEW taken, taken = [orders_free EXCEPT ![i_next_order] = FALSE]
  PROVE  /\ ~ OrderPool!Overrun(taken, i_next_order)
         /\ OrderPool!FirstFreeAfter(taken, i_next_order) \in OrderBlocks
         /\ taken[OrderPool!FirstFreeAfter(taken, i_next_order)]
<1>1. /\ i_next_order \in OrderBlocks /\ orders_free \in [OrderBlocks -> BOOLEAN]
      /\ orders_free[i_next_order] /\ MAX_ORDER_IDS \in Nat \ {0}
  BY TEAssumption DEF Book, PoolsOK
<1>2. taken \in [OrderBlocks -> BOOLEAN] /\ ~ taken[i_next_order]
      /\ \A c \in OrderBlocks : c # i_next_order => taken[c] = orders_free[c]
  BY <1>1
<1>3. \E c \in OrderBlocks : taken[c]
  <2> SUFFICES ASSUME \A c \in OrderBlocks : ~ taken[c]
               PROVE  FALSE
    OBVIOUS
  <2> DEFINE ids == [c \in OrderBlocks |-> IF c = i_next_order THEN last_oid + 1 ELSE orders[c].id]
  <2>1. last_oid \in Nat
    BY TEAssumption DEF Book, FedOK
  <2>2. ASSUME NEW c \in OrderBlocks, c # i_next_order
        PROVE  /\ ids[c] = orders[c].id /\ ids[c] \in OrderIds /\ id_to_order[ids[c]] = c
               /\ ids[c] # last_oid + 1
    <3>1. PICK o \in fed : id_to_order[o.oid] = c
      BY <1>2, <2>2 DEF Book, UsedOK
    <3>2. orders[c].id = o.oid
      BY <3>1, PlaceOf
    <3>3. o.oid \in 1 .. last_oid
      BY DEF Book, FedOK
    <3>4. o.oid \in OrderIds
      BY <2>1, <3>3, TEAssumption DEF OrderIds
    <3>5. o.oid # last_oid + 1
      BY <2>1, <3>3
    <3> QED
      BY <2>2, <3>1, <3>2, <3>4, <3>5
  <2>3. ids[i_next_order] = last_oid + 1
    BY <1>1
  <2>4. ids \in [OrderBlocks -> OrderIds]
    BY <2>2
  <2> HIDE DEF ids
  <2>5. \A c1, c2 \in OrderBlocks : ids[c1] = ids[c2] => c1 = c2
    BY <2>2, <2>3
  <2>6. ids \in Injection(OrderBlocks, OrderIds)
    BY <2>4, <2>5 DEF Injection, IsInjective
  <2>7. /\ IsFiniteSet(1 .. MAX_ORDER_IDS - 1)
        /\ Cardinality(1 .. MAX_ORDER_IDS - 1)
             = IF 1 > MAX_ORDER_IDS - 1 THEN 0 ELSE MAX_ORDER_IDS - 1 - 1 + 1
    BY <1>1, FS_Interval
  <2>8. Cardinality(OrderBlocks) <= Cardinality(OrderIds)
    BY <2>6, <2>7, FS_Injection DEF OrderIds
  <2> QED
    BY <1>1, <2>7, <2>8, BlocksFinite DEF OrderIds
<1>4. PICK c \in OrderBlocks : taken[c]
  BY <1>3
<1>5. ScanStop(MAX_ORDER_IDS, taken, i_next_order) \in OrderBlocks
      /\ taken[ScanStop(MAX_ORDER_IDS, taken, i_next_order)]
  BY <1>1, <1>2, <1>4, ScanStopIsFree DEF OrderBlocks
<1>6. ~ OrderPool!Overrun(taken, i_next_order)
  BY <1>4 DEF OrderPool!Overrun, OrderPool!Blocks, OrderBlocks
<1> QED
  BY <1>5, <1>6, ScansAre

(* A book that the exchange has room for has fewer prices than there are   *)
(* blocks for levels.                                                      *)
LEMMA LevelPoolRoom ==
  ASSUME NEW L, NEW Q, Book(L, Q), NEW order, CanRest(fed \cup {order}),
         get_level_for_price(order.price) = Null,
         NEW taken, taken = [levels_free EXCEPT ![i_next_level] = FALSE]
  PROVE  /\ ~ LevelPool!Overrun(taken, i_next_level)
         /\ LevelPool!FirstFreeAfter(taken, i_next_level) \in LevelBlocks
         /\ taken[LevelPool!FirstFreeAfter(taken, i_next_level)]
<1>1. /\ i_next_level \in LevelBlocks /\ levels_free \in [LevelBlocks -> BOOLEAN]
      /\ levels_free[i_next_level] /\ MAX_PRICE_LEVELS \in Nat \ {0}
  BY TEAssumption DEF Book, PoolsOK
<1>2. taken \in [LevelBlocks -> BOOLEAN] /\ ~ taken[i_next_level]
      /\ \A m \in LevelBlocks : m # i_next_level => taken[m] = levels_free[m]
  BY <1>1
<1>3. \E m \in LevelBlocks : taken[m]
  <2> SUFFICES ASSUME \A m \in LevelBlocks : ~ taken[m]
               PROVE  FALSE
    OBVIOUS
  <2> DEFINE all == fed \cup {order}
             price == [m \in LevelBlocks |-> IF m = i_next_level THEN order.price ELSE levels[m].price]
  <2>1. ASSUME NEW m \in LevelBlocks, m # i_next_level
        PROVE  /\ price[m] = levels[m].price /\ get_level_for_price(price[m]) = m
               /\ price[m] \in Prices(all) /\ price[m] # order.price
    <3>1. PICK side \in Sides : m \in OnList(L[side])
      BY <1>2, <2>1 DEF Book, UsedOK
    <3>2. LevelOK(side, m)
      BY <3>1, ListedLevel
    <3>3. Len(Q[m]) \in Nat /\ Len(Q[m]) >= 1
      BY <3>1, QueueRing
    <3>4. PICK c : c \in OnList(Q[m])
      <4>1. 1 \in 1 .. Len(Q[m])
        BY <3>3
      <4> QED
        BY <4>1 DEF OnList
    <3>5. Shown(c) \in fed /\ orders[c].price = levels[m].price
      BY <3>1, <3>4, QueuedBlock
    <3>6. levels[m].price \in Prices(all)
      BY <3>5 DEF Prices, Shown
    <3>7. m # Null
      BY BlocksFinite
    <3> QED
      BY <2>1, <3>2, <3>6, <3>7 DEF LevelOK
  <2>2. price[i_next_level] = order.price /\ order.price \in Prices(all)
    BY <1>1 DEF Prices
  <2>3. price \in [LevelBlocks -> Prices(all)]
    BY <2>1, <2>2
  <2>4. IsFiniteSet(all)
    BY FS_AddElement DEF Book, FedOK
  <2>5. CanRest(all)
    OBVIOUS
  <2> HIDE DEF price, all
  <2>6. \A m1, m2 \in LevelBlocks : price[m1] = price[m2] => m1 = m2
    BY <2>1, <2>2
  <2>7. price \in Injection(LevelBlocks, Prices(all))
    BY <2>3, <2>6 DEF Injection, IsInjective
  <2>8. Cardinality(LevelBlocks) <= Cardinality(Prices(all)) /\ Cardinality(Prices(all)) \in Nat
    BY <2>4, <2>7, PricesFinite, FS_Injection
  <2>9. Cardinality(Prices(all)) < MAX_PRICE_LEVELS
    BY <2>5 DEF CanRest, Prices
  <2> QED
    BY <1>1, <2>8, <2>9, BlocksFinite
<1>4. PICK m \in LevelBlocks : taken[m]
  BY <1>3
<1>5. ScanStop(MAX_PRICE_LEVELS, taken, i_next_level) \in LevelBlocks
      /\ taken[ScanStop(MAX_PRICE_LEVELS, taken, i_next_level)]
  BY <1>1, <1>2, <1>4, ScanStopIsFree DEF LevelBlocks
<1>6. ~ LevelPool!Overrun(taken, i_next_level)
  BY <1>4 DEF LevelPool!Overrun, LevelPool!Blocks, LevelBlocks
<1> QED
  BY <1>5, <1>6, ScansAre

-----------------------------------------------------------------------------
(* What an addition does besides linking.                                  *)

IsOrder(order) ==
  /\ order \in [oid: OrderIds, side: Sides, price: Nat, qty: Nat]
  /\ <<order.side, order.price>> \in Quotes

Takes(order, b) ==
  /\ IsOrder(order) /\ order.oid = last_oid + 1 /\ CanRest(fed \cup {order})
  /\ b = i_next_order
  /\ fed' = fed \cup {order} /\ last_oid' = order.oid
  /\ id_to_order' = [id_to_order EXCEPT ![order.oid] = b]
  /\ orders_free' = [orders_free EXCEPT ![b] = FALSE]

Taken(order, b) ==
  /\ b \in OrderBlocks /\ b # Null /\ orders_free[b]
  /\ FedOK'
  /\ orders_free' \in [OrderBlocks -> BOOLEAN] /\ ~ orders_free'[b]
  /\ id_to_order' \in [OrderIds -> OrderBlocks \cup {Null}] /\ id_to_order'[order.oid] = b
  /\ \A o \in fed : /\ id_to_order'[o.oid] = id_to_order[o.oid]
                    /\ orders_free'[id_to_order[o.oid]] = orders_free[id_to_order[o.oid]]
                    /\ o.oid < order.oid
  /\ \A oid \in OrderIds : id_to_order'[oid] # Null => \E o \in fed' : o.oid = oid
  /\ \A c \in OrderBlocks : ~ orders_free'[c] => \E o \in fed' : id_to_order'[o.oid] = c
  /\ \A c : Shown(c) \in fed /\ c = id_to_order[orders[c].id] => id_to_order'[orders[c].id] = c

LEMMA AddShared ==
  ASSUME NEW L, NEW Q, Book(L, Q), NEW order, NEW b, Takes(order, b)
  PROVE  Taken(order, b)
<1> USE DEF Takes
<1>1. /\ PoolsOK /\ MapsOK /\ FedOK /\ UsedOK(L)
      /\ \A o \in fed : id_to_order[o.oid] \in OrderBlocks /\ ~ orders_free[id_to_order[o.oid]]
  BY DEF Book, Found
<1>2. last_oid \in 0 .. MAX_ORDER_IDS - 1 /\ MAX_ORDER_IDS \in Nat /\ order.oid \in OrderIds
      /\ order.oid \in 0 .. MAX_ORDER_IDS - 1 /\ order.oid \in Nat
  BY <1>1, TEAssumption DEF FedOK, IsOrder, OrderIds
<1>3. \A o \in fed : o.oid \in OrderIds /\ o.oid < order.oid /\ o.oid \in 1 .. last_oid
  <2>1. \A o \in fed : o.oid \in 1 .. last_oid
    BY <1>1 DEF FedOK
  <2> QED
    BY <1>2, <2>1 DEF OrderIds
<1>4. b \in OrderBlocks /\ b # Null /\ orders_free[b]
  BY <1>1, BlocksFinite DEF PoolsOK
<1>5. FedOK'
  <2>1. IsFiniteSet(fed')
    BY <1>1, FS_AddElement DEF FedOK
  <2>2. fed' \subseteq [oid: 1 .. order.oid, side: Sides, price: Nat, qty: Nat]
    <3>1. order \in [oid: 1 .. order.oid, side: Sides, price: Nat, qty: Nat]
      <4>1. order.oid \in 1 .. order.oid
        BY <1>2 DEF OrderIds
      <4>2. order \in [oid: OrderIds, side: Sides, price: Nat, qty: Nat]
        BY DEF IsOrder
      <4> QED
        BY <4>1, <4>2
    <3>2. \A n \in 1 .. last_oid : n \in 1 .. order.oid
      BY <1>2
    <3>3. fed \subseteq [oid: 1 .. last_oid, side: Sides, price: Nat, qty: Nat]
      BY <1>1 DEF FedOK
    <3>4. fed \subseteq [oid: 1 .. order.oid, side: Sides, price: Nat, qty: Nat]
      BY <3>2, <3>3
    <3> QED
      BY <3>1, <3>4
  <2>3. \A o1, o2 \in fed' : o1.oid = o2.oid => o1 = o2
    BY <1>1, <1>2, <1>3 DEF FedOK
  <2>4. \A o \in fed' : <<o.side, o.price>> \in Quotes
    BY <1>1 DEF FedOK, IsOrder
  <2> QED
    BY <1>2, <2>1, <2>2, <2>3, <2>4 DEF FedOK
<1>6. orders_free' \in [OrderBlocks -> BOOLEAN] /\ ~ orders_free'[b]
  BY <1>1, <1>4 DEF PoolsOK
<1>7. id_to_order' \in [OrderIds -> OrderBlocks \cup {Null}] /\ id_to_order'[order.oid] = b
  BY <1>1, <1>2, <1>4 DEF MapsOK
<1>8. ASSUME NEW o \in fed
      PROVE  /\ id_to_order'[o.oid] = id_to_order[o.oid]
             /\ orders_free'[id_to_order[o.oid]] = orders_free[id_to_order[o.oid]]
  <2>1. o.oid # order.oid
    BY <1>2, <1>3
  <2>2. id_to_order'[o.oid] = id_to_order[o.oid]
    BY <1>1, <1>3, <2>1 DEF MapsOK
  <2>3. id_to_order[o.oid] # b
    BY <1>1, <1>4
  <2> QED
    BY <1>1, <2>2, <2>3 DEF PoolsOK
<1>9. ASSUME NEW oid \in OrderIds, id_to_order'[oid] # Null
      PROVE  \E o \in fed' : o.oid = oid
  <2>1. CASE oid = order.oid
    BY <2>1
  <2>2. CASE oid # order.oid
    <3>1. id_to_order[oid] # Null
      BY <1>1, <1>9, <2>2 DEF MapsOK
    <3> QED
      BY <1>1, <3>1 DEF UsedOK
  <2> QED
    BY <2>1, <2>2
<1>10. ASSUME NEW c \in OrderBlocks, ~ orders_free'[c]
       PROVE  \E o \in fed' : id_to_order'[o.oid] = c
  <2>1. CASE c = b
    BY <1>7, <2>1
  <2>2. CASE c # b
    <3>1. ~ orders_free[c]
      BY <1>1, <1>10, <2>2 DEF PoolsOK
    <3>2. PICK o \in fed : id_to_order[o.oid] = c
      BY <1>1, <3>1 DEF UsedOK
    <3> QED
      BY <1>8, <3>2
  <2> QED
    BY <2>1, <2>2
<1>11. \A c : Shown(c) \in fed /\ c = id_to_order[orders[c].id] => id_to_order'[orders[c].id] = c
  BY <1>8 DEF Shown
<1> QED
  BY <1>3, <1>4, <1>5, <1>6, <1>7, <1>8, <1>9, <1>10, <1>11 DEF Taken

(* The block of a new order before it is linked.                           *)
Written(memory, order, b) ==
  memory = [orders EXCEPT ![b] = [id |-> order.oid, side |-> order.side,
              price |-> order.price, qty |-> order.qty, prev |-> Null, next |-> Null]]

LEMMA WrittenIs ==
  ASSUME NEW order, NEW b \in OrderBlocks, DOMAIN orders = OrderBlocks,
         NEW memory, Written(memory, order, b)
  PROVE  /\ DOMAIN memory = OrderBlocks /\ DOMAIN memory[b] = OrderFields
         /\ memory[b].id = order.oid /\ memory[b].side = order.side
         /\ memory[b].price = order.price /\ memory[b].qty = order.qty
         /\ memory[b].prev = Null
         /\ \A c \in OrderBlocks : c # b => memory[c] = orders[c]
<1>1. memory[b] = [id |-> order.oid, side |-> order.side,
        price |-> order.price, qty |-> order.qty, prev |-> Null, next |-> Null]
  BY DEF Written
<1>2. DOMAIN memory = OrderBlocks /\ \A c \in OrderBlocks : c # b => memory[c] = orders[c]
  BY DEF Written
<1> QED
  BY <1>1, <1>2 DEF OrderFields

LEMMA ShownIn ==
  ASSUME NEW order, NEW b \in OrderBlocks, IsOrder(order), DOMAIN orders = OrderBlocks,
         NEW memory, Written(memory, order, b), SameButLinks(orders', memory)
  PROVE  /\ Shown(b)' = order /\ DOMAIN orders'[b] = OrderFields
         /\ orders'[b].id = order.oid /\ orders'[b].side = order.side
         /\ orders'[b].price = order.price /\ DOMAIN orders' = OrderBlocks
<1>1. /\ DOMAIN memory = OrderBlocks /\ DOMAIN memory[b] = OrderFields
      /\ memory[b].id = order.oid /\ memory[b].side = order.side
      /\ memory[b].price = order.price /\ memory[b].qty = order.qty
  BY WrittenIs
<1>2. \A field \in {"id", "side", "price", "qty"} : field \in DOMAIN memory[b] \ {"prev", "next"}
  BY <1>1 DEF OrderFields
<1>3. \A field \in {"id", "side", "price", "qty"} : orders'[b][field] = memory[b][field]
  BY <1>1, <1>2 DEF SameButLinks
<1>4. /\ orders'[b].id = order.oid /\ orders'[b].side = order.side
      /\ orders'[b].price = order.price /\ orders'[b].qty = order.qty
  BY <1>1, <1>3
<1>5. order = [oid |-> order.oid, side |-> order.side, price |-> order.price, qty |-> order.qty]
  BY DEF IsOrder
<1>6. Shown(b)' = order
  BY <1>4, <1>5 DEF Shown
<1> QED
  BY <1>1, <1>4, <1>6 DEF SameButLinks

(* The level found for the price of a new order is one of its side.        *)
LEMMA OpenLevel ==
  ASSUME NEW L, NEW Q, Book(L, Q), NEW order, IsOrder(order), CanRest(fed \cup {order}),
         ~ Stale(price_to_index(order.price)),
         NEW l, l = get_level_for_price(order.price), l # Null
  PROVE  l \in OnList(L[order.side]) /\ levels[l].price = order.price
<1>1. PICK o \in fed : price_to_index(o.price) = price_to_index(order.price)
  BY DEF Stale, get_level_for_price
<1>2. o.price = order.price
  <2>1. <<o.side, o.price>> \in Quotes /\ <<order.side, order.price>> \in Quotes
    BY DEF Book, FedOK, IsOrder
  <2>2. PICK x, y : x = <<o.side, o.price>> /\ y = <<order.side, order.price>>
    OBVIOUS
  <2>3. x[2] = o.price /\ y[2] = order.price
    BY <2>2
  <2>4. x[2] % MAX_PRICE_LEVELS = y[2] % MAX_PRICE_LEVELS
    BY <1>1, <2>3 DEF price_to_index
  <2>5. x[2] = y[2]
    BY <2>1, <2>2, <2>4, SlotAssumption
  <2> QED
    BY <2>3, <2>5
<1>3. o.side \in Sides /\ order.side \in Sides /\ o.price \in Nat
  BY DEF Book, FedOK, IsOrder
<1>4. o.side = order.side
  <2> SUFFICES ASSUME o.side # order.side
               PROVE  FALSE
    OBVIOUS
  <2>1. (o.side = "BUY" /\ order.side = "SELL") \/ (o.side = "SELL" /\ order.side = "BUY")
    BY <1>3 DEF Sides
  <2>2. o.price < order.price \/ order.price < o.price
    BY <2>1 DEF CanRest
  <2> QED
    BY <1>2, <1>3, <2>2
<1>5. PICK b : b = id_to_order[o.oid]
  OBVIOUS
<1>6. l \in OnList(L[o.side]) /\ b \in OnList(Q[l]) /\ orders[b].price = o.price
  BY <1>2, <1>5, PlaceOf
<1>7. orders[b].price = levels[l].price
  BY <1>3, <1>6, QueuedBlock
<1> QED
  BY <1>2, <1>4, <1>6, <1>7

LEMMA AddToLevelBook ==
  ASSUME NEW L, NEW Q, Book(L, Q), NEW order, NEW b, Takes(order, b),
         ~ Stale(price_to_index(order.price)),
         NEW l, l = get_level_for_price(order.price), l # Null,
         NEW memory, Written(memory, order, b), AddToLevel(memory, b, l),
         i_next_order' \in OrderBlocks, orders_free'[i_next_order']
  PROVE  \E Q2 : Book(L, Q2)'
<1>1. IsOrder(order) /\ order.side \in Sides /\ fed' = fed \cup {order} /\ CanRest(fed \cup {order})
      /\ order.oid \in OrderIds /\ order.price \in Nat
  BY DEF Takes, IsOrder
<1>2. l \in OnList(L[order.side]) /\ levels[l].price = order.price
  BY <1>1, OpenLevel
<1>a. Taken(order, b)
  BY AddShared
<1>3. /\ b \in OrderBlocks /\ b # Null /\ orders_free[b]
      /\ FedOK'
      /\ orders_free' \in [OrderBlocks -> BOOLEAN] /\ ~ orders_free'[b]
      /\ id_to_order' \in [OrderIds -> OrderBlocks \cup {Null}] /\ id_to_order'[order.oid] = b
      /\ \A o \in fed : /\ id_to_order'[o.oid] = id_to_order[o.oid]
                        /\ orders_free'[id_to_order[o.oid]] = orders_free[id_to_order[o.oid]]
                        /\ o.oid < order.oid
      /\ \A oid \in OrderIds : id_to_order'[oid] # Null => \E o \in fed' : o.oid = oid
      /\ \A c \in OrderBlocks : ~ orders_free'[c] => \E o \in fed' : id_to_order'[o.oid] = c
      /\ \A c : Shown(c) \in fed /\ c = id_to_order[orders[c].id] => id_to_order'[orders[c].id] = c
  BY <1>a DEF Taken
<1>4. DOMAIN orders = OrderBlocks /\ DOMAIN levels = LevelBlocks /\ alive = TRUE
  BY DEF Book, PoolsOK
<1>5. /\ DOMAIN memory = OrderBlocks /\ DOMAIN memory[b] = OrderFields
      /\ \A c \in OrderBlocks : c # b => memory[c] = orders[c]
  BY <1>3, <1>4, WrittenIs
<1>6. PICK q : q = Q[l]
  OBVIOUS
<1>7. /\ Ring(orders, levels[l].order_0, q) /\ q \in Seq(OrderBlocks)
      /\ Len(q) \in Nat /\ Len(q) >= 1 /\ q[1] = levels[l].order_0
      /\ \A j \in 1 .. Len(q) : Node(orders, q[j])
  BY <1>1, <1>2, <1>6, QueueRing
<1>8. ASSUME NEW side \in Sides, NEW m \in OnList(L[side]), NEW c \in OnList(Q[m])
      PROVE  c # b /\ c \in OrderBlocks
  BY <1>3, QueuedBlock
<1>9. \A j \in 1 .. Len(q) : q[j] # b /\ q[j] \in OrderBlocks /\ memory[q[j]] = orders[q[j]]
  <2>1. \A j \in 1 .. Len(q) : q[j] # b /\ q[j] \in OrderBlocks
    BY <1>1, <1>2, <1>6, <1>8 DEF OnList
  <2> QED
    BY <1>5, <2>1
<1>10. Ring(memory, q[1], q)
  <2>1. Ring(orders, q[1], q)
    BY <1>7
  <2> QED
    BY <1>4, <1>5, <1>9, <2>1, RingSame
<1>11. /\ orders' = LinkBefore(memory, b, q[1])
       /\ UNCHANGED <<alive, levels, levels_free, i_next_level, map_price_to_price_level, best>>
  <2>1. 1 \in 1 .. Len(q)
    BY <1>7
  <2>2. orders[q[1]].prev \in OrderBlocks
    BY <1>4, <1>7, <2>1, RingMembers
  <2>3. memory[q[1]].prev # Null
    BY <1>9, <2>1, <2>2, BlocksFinite
  <2> QED
    BY <1>7, <2>3 DEF AddToLevel
<1>12. PICK t : t = Inserted(q, Len(q) + 1, b)
  OBVIOUS
<1>13. /\ t \in Seq(OrderBlocks) /\ Len(t) = Len(q) + 1 /\ t[Len(q) + 1] = b
       /\ \A j \in 1 .. Len(q) : t[j] = q[j]
  <2>1. Len(q) + 1 \in 1 .. Len(q) + 1
    BY <1>7
  <2>2. /\ t \in Seq(OrderBlocks) /\ Len(t) = Len(q) + 1
        /\ \A i \in 1 .. Len(q) + 1 :
             t[i] = IF i < Len(q) + 1 THEN q[i] ELSE IF i = Len(q) + 1 THEN b ELSE q[i - 1]
    BY SMTT(30), <1>3, <1>7, <1>12, <2>1, InsertedIs
  <2>3. \A j \in 1 .. Len(q) : j \in 1 .. Len(q) + 1 /\ j < Len(q) + 1
    BY <1>7
  <2>4. ~ (Len(q) + 1 < Len(q) + 1)
    BY <1>7
  <2> QED
    BY <2>1, <2>2, <2>3, <2>4
<1>14. /\ Ring(orders', t[1], t)
       /\ SameButLinks(orders', memory)
       /\ \A c \in OrderBlocks : c # b /\ c \notin OnList(q) => orders'[c] = memory[c]
  <2>0. PICK k : k = Len(q) + 1
    OBVIOUS
  <2>1. k \in 1 .. Len(q) + 1 /\ ~ (k <= Len(q))
    BY <1>7, <2>0
  <2>2. Node(memory, b) /\ \A j \in 1 .. Len(q) : q[j] # b /\ Node(memory, q[j])
    BY <1>5, <1>7, <1>9 DEF Node, OrderFields
  <2>3. orders' = LinkBefore(memory, b, IF k <= Len(q) THEN q[k] ELSE q[1])
    BY <1>11, <2>1
  <2>4. b \in DOMAIN memory
    BY <1>3, <1>5
  <2>5. /\ Ring(orders', Inserted(q, k, b)[1], Inserted(q, k, b))
        /\ SameButLinks(orders', memory)
        /\ \A c \in DOMAIN memory : c # b /\ (\A j \in 1 .. Len(q) : c # q[j]) => orders'[c] = memory[c]
    BY <1>10, <2>1, <2>2, <2>3, <2>4, RingInserted
  <2>6. t = Inserted(q, k, b)
    BY <1>12, <2>0
  <2> QED
    BY <1>5, <2>5, <2>6 DEF OnList
<1>15. /\ Shown(b)' = order /\ DOMAIN orders'[b] = OrderFields
       /\ orders'[b].id = order.oid /\ orders'[b].side = order.side
       /\ orders'[b].price = order.price /\ DOMAIN orders' = OrderBlocks
  <2>1. b \in OrderBlocks /\ IsOrder(order) /\ DOMAIN orders = OrderBlocks
        /\ Written(memory, order, b) /\ SameButLinks(orders', memory)
    BY <1>1, <1>3, <1>4, <1>14
  <2> QED
    BY ONLY <2>1, ShownIn
<1>16. ASSUME NEW c \in OrderBlocks, c # b, DOMAIN orders[c] = OrderFields
       PROVE  /\ orders'[c].id = orders[c].id /\ orders'[c].side = orders[c].side
              /\ orders'[c].price = orders[c].price
              /\ DOMAIN orders'[c] = OrderFields /\ Shown(c)' = Shown(c)
  <2>1. memory[c] = orders[c] /\ DOMAIN memory[c] = OrderFields
    BY <1>5, <1>16
  <2>2. \A field \in {"id", "side", "price", "qty"} : field \in DOMAIN memory[c] \ {"prev", "next"}
    BY <2>1 DEF OrderFields
  <2>3. \A field \in {"id", "side", "price", "qty"} : orders'[c][field] = orders[c][field]
    BY <1>5, <1>14, <2>1, <2>2 DEF SameButLinks
  <2>4. /\ orders'[c].id = orders[c].id /\ orders'[c].side = orders[c].side
        /\ orders'[c].price = orders[c].price /\ orders'[c].qty = orders[c].qty
    BY <2>3
  <2> QED
    BY <1>5, <1>14, <2>1, <2>4 DEF SameButLinks, Shown
<1>17. PoolsOK' /\ MapsOK'
  BY <1>3, <1>11, <1>15 DEF Book, PoolsOK, MapsOK
<1>18. ASSUME NEW side \in Sides
       PROVE  SideOK(side, L[side])'
  <2>1. SideOK(side, L[side])
    BY DEF Book
  <2>2. \A k \in 1 .. Len(L[side]) :
          /\ SameLevel(L[side][k]) /\ ~ levels_free'[L[side][k]]
          /\ map_price_to_price_level'[price_to_index(levels[L[side][k]].price)] = L[side][k]
    BY <1>11, LevelPlace DEF SameLevel, LevelOK, get_level_for_price
  <2> QED
    BY <1>11, <2>1, <2>2, SideKept
<1>19. ASSUME NEW side \in Sides, NEW m \in OnList(L[side]), m # l
       PROVE  QueueOK(side, m, Q[m])'
  <2>1. QueueOK(side, m, Q[m])
    BY ListedLevel
  <2>2. ASSUME NEW i \in 1 .. Len(Q[m])
        PROVE  SameOrder(Q[m][i]) /\ Shown(Q[m][i])' \in fed' /\ id_to_order'[orders[Q[m][i]].id] = Q[m][i]
    <3>0. PICK c : c = Q[m][i]
      OBVIOUS
    <3>1. c \in OnList(Q[m])
      BY <3>0 DEF OnList
    <3>2. c \notin OnList(q)
      <4> SUFFICES ASSUME c \in OnList(q)
                   PROVE  FALSE
        OBVIOUS
      <4>1. get_level_for_price(orders[c].price) = l
        BY <1>1, <1>2, <1>6, QueuedBlock
      <4>2. get_level_for_price(orders[c].price) = m
        BY <3>1, QueuedBlock
      <4> QED
        BY <1>19, <4>1, <4>2
    <3>3. /\ c \in OrderBlocks /\ c # b /\ DOMAIN orders[c] = OrderFields
          /\ Shown(c) \in fed /\ c = id_to_order[orders[c].id]
      BY <1>3, <3>1, QueuedBlock
    <3>4. orders'[c] = orders[c]
      BY <1>5, <1>14, <3>2, <3>3
    <3>5. SameOrder(c) /\ Shown(c)' = Shown(c)
      BY <3>4 DEF SameOrder, Shown
    <3>6. id_to_order'[orders[c].id] = c
      BY <1>3, <3>3
    <3> QED
      BY <1>1, <3>0, <3>3, <3>5, <3>6
  <2>3. levels'[m].order_0 = levels[m].order_0 /\ levels'[m].price = levels[m].price
    BY <1>11
  <2> QED
    BY <1>4, <1>15, <2>1, <2>2, <2>3, QueueKept
<1>20. ASSUME NEW c \in OnList(q)
       PROVE  /\ c \in OrderBlocks /\ c # b /\ Shown(c)' \in fed' /\ orders'[c].side = order.side
              /\ orders'[c].id = orders[c].id /\ orders[c].id < order.oid
              /\ orders'[c].price = levels[l].price /\ id_to_order'[orders[c].id] = c
  <2>1. /\ c \in OrderBlocks /\ c # b /\ DOMAIN orders[c] = OrderFields
        /\ Shown(c) \in fed /\ c = id_to_order[orders[c].id] /\ orders[c].id = Shown(c).oid
        /\ orders[c].side = order.side /\ orders[c].price = levels[l].price
    BY <1>1, <1>2, <1>3, <1>6, QueuedBlock
  <2> QED
    BY <1>1, <1>3, <1>16, <2>1
<1>21. QueueOK(order.side, l, t)'
  <2>1. Ring(orders', levels'[l].order_0, t)
    <3>1. t[1] = levels'[l].order_0
      <4>1. 1 \in 1 .. Len(q)
        BY <1>7
      <4> QED
        BY <1>7, <1>11, <1>13, <4>1
    <3> QED
      BY <1>14, <3>1
  <2>2. ASSUME NEW i \in 1 .. Len(t)
        PROVE  OrderOK(order.side, l, t[i])'
    <3>1. CASE i \in 1 .. Len(q)
      <4>0. PICK c : c = t[i]
        OBVIOUS
      <4>1. c \in OnList(q)
        BY <1>13, <3>1, <4>0 DEF OnList
      <4>2. /\ Shown(c)' \in fed' /\ orders'[c].side = order.side
            /\ orders'[c].id = orders[c].id
            /\ orders'[c].price = levels[l].price /\ id_to_order'[orders[c].id] = c
        BY <1>20, <4>1
      <4> QED
        BY <1>11, <4>0, <4>2 DEF OrderOK
    <3>2. CASE t[i] = b
      <4>1. OrderOK(order.side, l, b)'
        BY <1>1, <1>2, <1>3, <1>11, <1>15 DEF OrderOK
      <4> QED
        BY <3>2, <4>1
    <3>3. i \in 1 .. Len(q) \/ i = Len(q) + 1
      BY <1>7, <1>13
    <3> QED
      BY <1>13, <3>1, <3>2, <3>3
  <2>3. \A i, k \in 1 .. Len(t) : i < k => orders'[t[i]].id < orders'[t[k]].id
    <3> SUFFICES ASSUME NEW i \in 1 .. Len(t), NEW k \in 1 .. Len(t), i < k
                 PROVE  orders'[t[i]].id < orders'[t[k]].id
      OBVIOUS
    <3>1. i \in 1 .. Len(q) /\ (k \in 1 .. Len(q) \/ k = Len(q) + 1)
      BY <1>7, <1>13
    <3>2. t[i] = q[i] /\ q[i] \in OnList(q)
      BY <1>13, <3>1 DEF OnList
    <3>3. orders'[q[i]].id = orders[q[i]].id /\ orders[q[i]].id < order.oid
      BY <1>20, <3>2
    <3>4. CASE k \in 1 .. Len(q)
      <4>1. orders[q[i]].id < orders[q[k]].id
        <5>1. QueueOK(order.side, l, q)
          BY <1>1, <1>2, <1>6, ListedLevel
        <5> QED
          BY <3>1, <3>4, <5>1 DEF QueueOK
      <4>2. t[k] = q[k] /\ q[k] \in OnList(q)
        BY <1>13, <3>4 DEF OnList
      <4>3. orders'[q[k]].id = orders[q[k]].id
        BY <1>20, <4>2
      <4> QED
        BY <3>2, <3>3, <4>1, <4>2, <4>3
    <3>5. CASE k = Len(q) + 1
      BY <1>13, <1>15, <3>2, <3>3, <3>5
    <3> QED
      BY <3>1, <3>4, <3>5
  <2> QED
    BY <2>1, <2>2, <2>3 DEF QueueOK
<1>22. l \in LevelBlocks /\ Q \in [LevelBlocks -> Seq(OrderBlocks)] /\ L \in [Sides -> Seq(LevelBlocks)]
  BY <1>1, <1>2, ListedLevel DEF Book
<1>23. PICK Q2 : Q2 = [Q EXCEPT ![l] = t]
  OBVIOUS
<1>24. /\ Q2 \in [LevelBlocks -> Seq(OrderBlocks)] /\ Q2[l] = t
       /\ \A m \in LevelBlocks : m # l => Q2[m] = Q[m]
  BY <1>13, <1>22, <1>23
<1>25. ASSUME NEW side \in Sides, NEW i \in 1 .. Len(L[side])
       PROVE  QueueOK(side, L[side][i], Q2[L[side][i]])'
  <2>0. PICK m : m = L[side][i]
    OBVIOUS
  <2>1. m \in OnList(L[side]) /\ m \in LevelBlocks
    BY <2>0, LevelPlace DEF OnList
  <2>2. CASE m = l
    <3>1. LevelOK(side, l) /\ LevelOK(order.side, l)
      BY <1>1, <1>2, <2>1, <2>2, ListedLevel
    <3>2. side = order.side
      BY <3>1 DEF LevelOK
    <3> QED
      BY <1>21, <1>24, <2>0, <2>2, <3>2
  <2>3. CASE m # l
    BY <1>19, <1>24, <2>0, <2>1, <2>3
  <2> QED
    BY <2>2, <2>3
<1>26. \A c \in OnList(q) : c \in OnList(t)
  <2> TAKE c \in OnList(q)
  <2>1. PICK j \in 1 .. Len(q) : c = q[j]
    BY DEF OnList
  <2>2. t[j] = c /\ j \in 1 .. Len(t)
    BY <1>7, <1>13, <2>1
  <2> QED
    BY <2>2 DEF OnList
<1>27. ASSUME NEW o \in fed
       PROVE  Found(o, L, Q2)'
  <2>0. PICK c : c = id_to_order[o.oid]
    OBVIOUS
  <2>a. PICK m : m = get_level_for_price(o.price)
    OBVIOUS
  <2>1. /\ o.side \in Sides /\ m \in OnList(L[o.side]) /\ c \in OnList(Q[m]) /\ Shown(c) = o
        /\ c \in OrderBlocks /\ DOMAIN orders[c] = OrderFields /\ ~ orders_free[c]
    BY <2>0, <2>a, PlaceOf
  <2>2. id_to_order'[o.oid] = c /\ ~ orders_free'[c] /\ get_level_for_price(o.price)' = m
    BY <1>3, <1>11, <2>0, <2>a, <2>1 DEF get_level_for_price
  <2>3. Shown(c)' = o /\ DOMAIN orders'[c] = OrderFields
    BY <1>3, <1>16, <2>1
  <2>4. c \in OnList(Q2[m])
    <3>1. m \in LevelBlocks
      BY <2>1, ListedLevel
    <3> QED
      BY <1>6, <1>24, <1>26, <2>1, <3>1
  <2> QED
    BY <2>1, <2>2, <2>3, <2>4 DEF Found
<1>28. Found(order, L, Q2)'
  <2>1. get_level_for_price(order.price)' = l
    BY <1>11 DEF get_level_for_price
  <2>2. b \in OnList(Q2[l])
    <3>1. Len(q) + 1 \in 1 .. Len(t)
      BY <1>7, <1>13
    <3> QED
      BY <1>13, <1>24, <3>1 DEF OnList
  <2> QED
    BY <1>2, <1>3, <1>15, <2>1, <2>2 DEF Found
<1>29. UsedOK(L)'
  BY <1>3, <1>11 DEF Book, UsedOK
<1>30. Book(L, Q2)'
  <2>1. \A o \in fed' : Found(o, L, Q2)'
    BY <1>1, <1>27, <1>28
  <2> QED
    BY <1>3, <1>17, <1>18, <1>22, <1>24, <1>25, <1>29, <2>1 DEF Book
<1> QED
  BY <1>30

-----------------------------------------------------------------------------
(* A new level among those of its side.                                    *)

Opened(memory, l, side, price, b) ==
  memory = [levels EXCEPT ![l] = [side |-> side, price |-> price,
                                  order_0 |-> b, prev |-> Null, next |-> Null]]

LEMMA OpenedIs ==
  ASSUME NEW l \in LevelBlocks, NEW side, NEW price, NEW b, DOMAIN levels = LevelBlocks,
         NEW memory, Opened(memory, l, side, price, b)
  PROVE  /\ DOMAIN memory = LevelBlocks /\ DOMAIN memory[l] = LevelFields /\ Node(memory, l)
         /\ memory[l].side = side /\ memory[l].price = price /\ memory[l].order_0 = b
         /\ \A m \in LevelBlocks : m # l => memory[m] = levels[m]
<1>1. memory[l] = [side |-> side, price |-> price, order_0 |-> b, prev |-> Null, next |-> Null]
  BY DEF Opened
<1>2. DOMAIN memory = LevelBlocks /\ \A m \in LevelBlocks : m # l => memory[m] = levels[m]
  BY DEF Opened
<1> QED
  BY <1>1, <1>2 DEF LevelFields, Node

(* Where in s the level l with this price has come to be.                  *)
LevelAdded(memory, s, k, l, side, price) ==
  /\ k \in 1 .. Len(s) + 1
  /\ Ring(levels', best'[side], Inserted(s, k, l))
  /\ SameButLinks(levels', memory)
  /\ \A m \in LevelBlocks : m # l /\ m \notin OnList(s) => levels'[m] = levels[m]
  /\ best' \in [Sides -> LevelBlocks \cup {Null}] /\ best'[side] # Null
  /\ \A other \in Sides : other # side => best'[other] = best[other]
  /\ \A i \in 1 .. Len(s) :
       IF i < k THEN MoreAggressive(side, levels[s[i]].price, price)
       ELSE MoreAggressive(side, price, levels[s[i]].price)

LEMMA FirstLevelAdded ==
  ASSUME NEW L, NEW Q, Book(L, Q), NEW side \in Sides, best[side] = Null,
         NEW l \in LevelBlocks, NEW price, NEW b,
         NEW memory, Opened(memory, l, side, price, b), add_price_level(memory, l)
  PROVE  LevelAdded(memory, L[side], 1, l, side, price)
<1>1. L[side] = <<>> /\ Len(L[side]) = 0
  <2>1. SideOK(side, L[side])
    BY DEF Book
  <2> QED
    BY <2>1, EmptySeq DEF SideOK
<1>2. DOMAIN levels = LevelBlocks /\ best \in [Sides -> LevelBlocks \cup {Null}] /\ l # Null
  BY BlocksFinite DEF Book, PoolsOK, MapsOK
<1>3. /\ DOMAIN memory = LevelBlocks /\ Node(memory, l) /\ memory[l].side = side
      /\ \A m \in LevelBlocks : m # l => memory[m] = levels[m]
  BY <1>2, OpenedIs
<1>4. levels' = LinkSelf(memory, l) /\ best' = [best EXCEPT ![side] = l]
  BY <1>3 DEF add_price_level
<1>5. l \in DOMAIN memory
  BY <1>3
<1>6. /\ Ring(levels', l, <<l>>) /\ SameButLinks(levels', memory)
      /\ \A m \in DOMAIN memory \ {l} : levels'[m] = memory[m]
  BY <1>3, <1>4, <1>5, RingOfOne
<1>7. Inserted(L[side], 1, l) = <<l>>
  <2>1. Inserted(L[side], 1, l) = [i \in 1 .. 1 |-> IF i < 1 THEN L[side][i] ELSE IF i = 1 THEN l ELSE L[side][i - 1]]
    BY <1>1 DEF Inserted
  <2>2. \A i \in 1 .. 1 : (IF i < 1 THEN L[side][i] ELSE IF i = 1 THEN l ELSE L[side][i - 1]) = l
    OBVIOUS
  <2>3. Inserted(L[side], 1, l) = [i \in 1 .. 1 |-> l]
    BY <2>1, <2>2
  <2>4. [i \in 1 .. 1 |-> l] = <<l>>
    OBVIOUS
  <2> QED
    BY <2>3, <2>4
<1>8. best' \in [Sides -> LevelBlocks \cup {Null}] /\ best'[side] = l
      /\ \A other \in Sides : other # side => best'[other] = best[other]
  BY <1>2, <1>4
<1> QED
  BY <1>1, <1>2, <1>3, <1>6, <1>7, <1>8 DEF LevelAdded

LEMMA MoreTransitive ==
  ASSUME NEW side \in Sides, NEW p \in Nat, NEW q \in Nat, NEW r \in Nat
  PROVE  /\ MoreAggressive(side, p, q) /\ MoreAggressive(side, q, r) => MoreAggressive(side, p, r)
         /\ ~ MoreAggressive(side, p, q) /\ p # q => MoreAggressive(side, q, p)
         /\ MoreAggressive(side, p, q) => ~ MoreAggressive(side, q, p) /\ p # q
  BY DEF MoreAggressive

LEMMA LaterLevelAdded ==
  ASSUME NEW L, NEW Q, Book(L, Q), NEW side \in Sides, best[side] # Null,
         NEW l \in LevelBlocks, levels_free[l], NEW price \in Nat, NEW b,
         get_level_for_price(price) = Null,
         NEW memory, Opened(memory, l, side, price, b), add_price_level(memory, l)
  PROVE  \E k : LevelAdded(memory, L[side], k, l, side, price)
<1>1. PICK s : s = L[side]
  OBVIOUS
<1>2. DOMAIN levels = LevelBlocks /\ best \in [Sides -> LevelBlocks \cup {Null}] /\ l # Null
  BY BlocksFinite DEF Book, PoolsOK, MapsOK
<1>3. /\ DOMAIN memory = LevelBlocks /\ Node(memory, l)
      /\ memory[l].side = side /\ memory[l].price = price
      /\ \A m \in LevelBlocks : m # l => memory[m] = levels[m]
  BY <1>2, OpenedIs
<1>4. SideOK(side, s) /\ Ring(levels, best[side], s)
  BY <1>1 DEF Book, SideOK
<1>5. /\ Len(s) \in Nat /\ Len(s) >= 1 /\ DOMAIN s = 1 .. Len(s) /\ s[1] = best[side]
      /\ s \in Seq(LevelBlocks)
      /\ \A i \in 1 .. Len(s) : s[i] \in LevelBlocks
  BY <1>2, <1>4, RingMembers DEF Ring
<1>6. \A i \in 1 .. Len(s) :
        /\ s[i] # l /\ memory[s[i]] = levels[s[i]] /\ Node(memory, s[i])
        /\ levels[s[i]].price \in Nat /\ levels[s[i]].price # price
  <2> TAKE i \in 1 .. Len(s)
  <2>1. LevelOK(side, s[i]) /\ s[i] \in LevelBlocks /\ s[i] # Null
    BY <1>4, <1>5, BlocksFinite DEF SideOK
  <2>2. s[i] # l /\ levels[s[i]].price \in Nat /\ levels[s[i]].price # price
    BY <2>1 DEF LevelOK
  <2>3. memory[s[i]] = levels[s[i]] /\ DOMAIN levels[s[i]] = LevelFields
    BY <1>3, <2>1, <2>2 DEF LevelOK
  <2> QED
    BY <2>2, <2>3 DEF Node, LevelFields
<1>7. Ring(memory, s[1], s)
  <2>1. Ring(levels, s[1], s)
    BY <1>4, <1>5
  <2> QED
    BY <1>2, <1>3, <1>6, <2>1, RingSame
<1>8. Forward(memory, best[side]) = s
  <2>1. IsFiniteSet(DOMAIN memory) /\ Null \notin DOMAIN memory
    BY <1>3, BlocksFinite
  <2>2. Ring(memory, best[side], s)
    BY <1>5, <1>7
  <2> QED
    BY <2>1, <2>2, ForwardIs
<1> DEFINE stops == {k \in 1 .. Len(s) : ~ MoreAggressive(side, levels[s[k]].price, price)}
<1>9. WalkStop(memory, side, price) = IF stops = {} THEN s[1] ELSE s[Min(stops)]
  <2>1. stops = {k \in DOMAIN s : ~ MoreAggressive(side, memory[s[k]].price, price)}
    BY <1>5, <1>6
  <2> HIDE DEF stops
  <2> QED
    BY <1>5, <1>8, <2>1 DEF WalkStop
<1>10. \E k \in 1 .. Len(s) + 1 :
         /\ WalkStop(memory, side, price) = IF k <= Len(s) THEN s[k] ELSE s[1]
         /\ \A i \in 1 .. Len(s) : i < k => MoreAggressive(side, levels[s[i]].price, price)
         /\ k <= Len(s) => ~ MoreAggressive(side, levels[s[k]].price, price)
  <2>1. CASE stops = {}
    <3>1. \A i \in 1 .. Len(s) : MoreAggressive(side, levels[s[i]].price, price)
      BY <2>1
    <3>2. Len(s) + 1 \in 1 .. Len(s) + 1 /\ ~ (Len(s) + 1 <= Len(s))
      BY <1>5
    <3> HIDE DEF stops
    <3> QED
      BY <1>9, <2>1, <3>1, <3>2
  <2>2. CASE stops # {}
    <3>1. stops \in SUBSET Nat
      BY <1>5
    <3>2. PICK k \in stops : \A j \in stops : k <= j
      <4> HIDE DEF stops
      <4> QED
        BY <2>2, <3>1, LeastNumber
    <3>3. Min(stops) = k
      <4> HIDE DEF stops
      <4> QED
        BY <3>1, <3>2, MinIs
    <3>4. k \in 1 .. Len(s) /\ ~ MoreAggressive(side, levels[s[k]].price, price)
      BY <3>2
    <3>5. \A i \in 1 .. Len(s) : i < k => MoreAggressive(side, levels[s[i]].price, price)
      <4> SUFFICES ASSUME NEW i \in 1 .. Len(s), i < k, i \in stops
                   PROVE  FALSE
        OBVIOUS
      <4>1. k <= i
        BY <3>2
      <4> QED
        BY <1>5, <3>4, <4>1
    <3>6. k \in 1 .. Len(s) + 1 /\ k <= Len(s)
      BY <1>5, <3>4
    <3> HIDE DEF stops
    <3> QED
      BY <1>9, <2>2, <3>3, <3>4, <3>5, <3>6
  <2> QED
    BY <2>1, <2>2
<1> HIDE DEF stops
<1>11. PICK k \in 1 .. Len(s) + 1 :
         /\ WalkStop(memory, side, price) = IF k <= Len(s) THEN s[k] ELSE s[1]
         /\ \A i \in 1 .. Len(s) : i < k => MoreAggressive(side, levels[s[i]].price, price)
         /\ k <= Len(s) => ~ MoreAggressive(side, levels[s[k]].price, price)
  BY <1>10
<1>12. \A i \in 1 .. Len(s) : ~ (i < k) => MoreAggressive(side, price, levels[s[i]].price)
  <2> SUFFICES ASSUME NEW i \in 1 .. Len(s), ~ (i < k)
               PROVE  MoreAggressive(side, price, levels[s[i]].price)
    OBVIOUS
  <2>1. k \in 1 .. Len(s) /\ k <= Len(s)
    BY <1>5
  <2>2. MoreAggressive(side, price, levels[s[k]].price)
    BY <1>6, <1>11, <2>1, MoreTransitive
  <2>3. CASE i = k
    BY <2>2, <2>3
  <2>4. CASE k < i
    <3>1. MoreAggressive(side, levels[s[k]].price, levels[s[i]].price)
      BY <1>4, <2>1, <2>4 DEF SideOK
    <3> QED
      BY <1>6, <2>1, <2>2, <3>1, MoreTransitive
  <2> QED
    BY <1>5, <2>1, <2>3, <2>4
<1>13. /\ levels' = LinkBefore(memory, l, WalkStop(memory, side, price))
       /\ best' = IF MoreAggressive(side, price, levels[s[1]].price)
                  THEN [best EXCEPT ![side] = l] ELSE best
  <2>1. 1 \in 1 .. Len(s)
    BY <1>5
  <2>2. memory[best[side]] = levels[s[1]]
    BY <1>5, <1>6, <2>1
  <2> QED
    BY <1>3, <2>2 DEF add_price_level
<1>14. /\ Ring(levels', Inserted(s, k, l)[1], Inserted(s, k, l))
       /\ SameButLinks(levels', memory)
       /\ \A m \in DOMAIN memory : m # l /\ (\A i \in 1 .. Len(s) : m # s[i]) => levels'[m] = memory[m]
  <2>1. levels' = LinkBefore(memory, l, IF k <= Len(s) THEN s[k] ELSE s[1])
    BY <1>11, <1>13
  <2>2. l \in DOMAIN memory /\ Node(memory, l) /\ \A i \in 1 .. Len(s) : s[i] # l /\ Node(memory, s[i])
    BY <1>3, <1>6
  <2>3. Ring(memory, s[1], s) /\ k \in 1 .. Len(s) + 1
    BY <1>7
  <2> QED
    BY ONLY <2>1, <2>2, <2>3, RingInserted
<1>15. Inserted(s, k, l)[1] = IF k = 1 THEN l ELSE s[1]
  <2>1. \A i \in 1 .. Len(s) + 1 :
          Inserted(s, k, l)[i] = IF i < k THEN s[i] ELSE IF i = k THEN l ELSE s[i - 1]
    BY SMTT(30), <1>5, InsertedIs
  <2>2. 1 \in 1 .. Len(s) + 1 /\ (k = 1 \/ 1 < k)
    BY <1>5
  <2> QED
    BY <2>1, <2>2
<1>16. MoreAggressive(side, price, levels[s[1]].price) <=> k = 1
  <2>1. 1 \in 1 .. Len(s) /\ (k = 1 \/ 1 < k)
    BY <1>5
  <2>2. CASE k = 1
    BY <1>12, <2>1, <2>2
  <2>3. CASE 1 < k
    <3>1. MoreAggressive(side, levels[s[1]].price, price) /\ k # 1
      BY <1>11, <2>1, <2>3
    <3> QED
      BY <1>6, <2>1, <3>1, MoreTransitive
  <2> QED
    BY <2>1, <2>2, <2>3
<1>17. /\ best' \in [Sides -> LevelBlocks \cup {Null}] /\ best'[side] # Null
       /\ best'[side] = Inserted(s, k, l)[1]
       /\ \A other \in Sides : other # side => best'[other] = best[other]
  BY <1>2, <1>5, <1>13, <1>15, <1>16
<1>18. \A m \in LevelBlocks : m # l /\ m \notin OnList(s) => levels'[m] = levels[m]
  BY <1>3, <1>14 DEF OnList
<1>19. LevelAdded(memory, s, k, l, side, price)
  BY <1>11, <1>12, <1>14, <1>17, <1>18 DEF LevelAdded
<1> QED
  BY <1>1, <1>19

LEMMA InsertedMembers ==
  ASSUME NEW S, NEW s \in Seq(S), NEW x \in S, NEW k \in 1 .. Len(s) + 1,
         NEW t, t = Inserted(s, k, x)
  PROVE  /\ t \in Seq(S) /\ t # <<>> /\ Len(t) = Len(s) + 1 /\ Len(s) \in Nat /\ t[k] = x
         /\ \A i \in 1 .. Len(t) :
              i # k => LET j == IF i < k THEN i ELSE i - 1 IN j \in 1 .. Len(s) /\ t[i] = s[j]
         /\ OnList(t) = OnList(s) \cup {x}
<1>1. /\ t \in Seq(S) /\ t # <<>> /\ Len(t) = Len(s) + 1 /\ Len(s) \in Nat
      /\ \A i \in 1 .. Len(s) + 1 : t[i] = IF i < k THEN s[i] ELSE IF i = k THEN x ELSE s[i - 1]
  <2>1. /\ Inserted(s, k, x) \in Seq(S) /\ Inserted(s, k, x) # <<>>
        /\ Len(Inserted(s, k, x)) = Len(s) + 1
        /\ \A i \in 1 .. Len(s) + 1 :
             Inserted(s, k, x)[i] = IF i < k THEN s[i] ELSE IF i = k THEN x ELSE s[i - 1]
    BY SMTT(30), InsertedIs
  <2>2. Len(s) \in Nat
    BY SeqFacts
  <2> QED
    BY <2>1, <2>2
<1>2. t[k] = x
  BY <1>1
<1>3. ASSUME NEW i \in 1 .. Len(t), i # k
      PROVE  LET j == IF i < k THEN i ELSE i - 1 IN j \in 1 .. Len(s) /\ t[i] = s[j]
  BY <1>1, <1>3
<1>4. \A i \in 1 .. Len(s) : s[i] \in OnList(t)
  <2> TAKE i \in 1 .. Len(s)
  <2> DEFINE j == IF i < k THEN i ELSE i + 1
  <2>1. j \in 1 .. Len(t) /\ t[j] = s[i]
    BY <1>1
  <2> HIDE DEF j
  <2> QED
    BY <2>1 DEF OnList
<1>5. x \in OnList(t)
  BY <1>1, <1>2 DEF OnList
<1>6. \A i \in 1 .. Len(t) : t[i] \in OnList(s) \cup {x}
  BY <1>2, <1>3 DEF OnList
<1>7. OnList(t) = OnList(s) \cup {x}
  <2>1. \A y \in OnList(t) : y \in OnList(s) \cup {x}
    <3> TAKE y \in OnList(t)
    <3>1. PICK i \in 1 .. Len(t) : y = t[i]
      BY DEF OnList
    <3> QED
      BY <1>6, <3>1
  <2>2. \A y \in OnList(s) : y \in OnList(t)
    <3> TAKE y \in OnList(s)
    <3>1. PICK i \in 1 .. Len(s) : y = s[i]
      BY DEF OnList
    <3> QED
      BY <1>4, <3>1
  <2> QED
    BY <1>5, <2>1, <2>2
<1> QED
  BY <1>1, <1>2, <1>3, <1>7

LEMMA AddToNewLevelBook ==
  ASSUME NEW L, NEW Q, Book(L, Q), NEW order, NEW b, Takes(order, b),
         get_level_for_price(order.price) = Null,
         NEW memory, Written(memory, order, b), AddToNewLevel(memory, b),
         i_next_order' \in OrderBlocks, orders_free'[i_next_order']
  PROVE  \E L2, Q2 : Book(L2, Q2)'
<1>0. PICK l, side : l = i_next_level /\ side = order.side
  OBVIOUS
<1>1. IsOrder(order) /\ side \in Sides /\ fed' = fed \cup {order} /\ CanRest(fed \cup {order})
      /\ order.oid \in OrderIds /\ order.price \in Nat
  BY <1>0 DEF Takes, IsOrder
<1>a. Taken(order, b)
  BY AddShared
<1>3. /\ b \in OrderBlocks /\ b # Null /\ orders_free[b]
      /\ FedOK'
      /\ orders_free' \in [OrderBlocks -> BOOLEAN] /\ ~ orders_free'[b]
      /\ id_to_order' \in [OrderIds -> OrderBlocks \cup {Null}] /\ id_to_order'[order.oid] = b
      /\ \A o \in fed : /\ id_to_order'[o.oid] = id_to_order[o.oid]
                        /\ orders_free'[id_to_order[o.oid]] = orders_free[id_to_order[o.oid]]
                        /\ o.oid < order.oid
      /\ \A oid \in OrderIds : id_to_order'[oid] # Null => \E o \in fed' : o.oid = oid
      /\ \A c \in OrderBlocks : ~ orders_free'[c] => \E o \in fed' : id_to_order'[o.oid] = c
      /\ \A c : Shown(c) \in fed /\ c = id_to_order[orders[c].id] => id_to_order'[orders[c].id] = c
  BY <1>a DEF Taken
<1>4. /\ DOMAIN orders = OrderBlocks /\ DOMAIN levels = LevelBlocks /\ alive = TRUE
      /\ l \in LevelBlocks /\ l # Null /\ levels_free[l] /\ levels_free \in [LevelBlocks -> BOOLEAN]
      /\ map_price_to_price_level \in [Slots -> LevelBlocks \cup {Null}]
  BY <1>0, BlocksFinite DEF Book, PoolsOK, MapsOK
<1>5. /\ DOMAIN memory = OrderBlocks /\ DOMAIN memory[b] = OrderFields
      /\ memory[b].side = side /\ memory[b].price = order.price
      /\ \A c \in OrderBlocks : c # b => memory[c] = orders[c]
  BY <1>0, <1>3, <1>4, WrittenIs
<1>6. PICK taken : taken = [levels_free EXCEPT ![l] = FALSE]
  OBVIOUS
<1>7. /\ ~ LevelPool!Overrun(taken, l)
      /\ LevelPool!FirstFreeAfter(taken, l) \in LevelBlocks
      /\ taken[LevelPool!FirstFreeAfter(taken, l)]
  BY <1>0, <1>1, <1>6, LevelPoolRoom
<1>8. PICK lmemory : lmemory = [levels EXCEPT ![l] = [side |-> side, price |-> order.price,
                                  order_0 |-> b, prev |-> Null, next |-> Null]]
  OBVIOUS
<1>9. /\ orders' = LinkSelf(memory, b) /\ levels_free' = taken /\ alive' = alive
      /\ i_next_level' = LevelPool!FirstFreeAfter(taken, l)
      /\ add_price_level(lmemory, l)
  BY <1>0, <1>5, <1>6, <1>7, <1>8 DEF AddToNewLevel
<1>10. Opened(lmemory, l, side, order.price, b)
  BY <1>8 DEF Opened
<1>11. PICK k : LevelAdded(lmemory, L[side], k, l, side, order.price)
  <2>1. CASE best[side] = Null
    BY <1>1, <1>4, <1>9, <1>10, <2>1, FirstLevelAdded
  <2>2. CASE best[side] # Null
    BY <1>1, <1>4, <1>9, <1>10, <2>2, LaterLevelAdded
  <2> QED
    BY <2>1, <2>2
<1>12. PICK s, t : s = L[side] /\ t = Inserted(L[side], k, l)
  OBVIOUS
<1>13. /\ k \in 1 .. Len(s) + 1
       /\ Ring(levels', best'[side], t)
       /\ SameButLinks(levels', lmemory)
       /\ \A m \in LevelBlocks : m # l /\ m \notin OnList(s) => levels'[m] = levels[m]
       /\ best' \in [Sides -> LevelBlocks \cup {Null}] /\ best'[side] # Null
       /\ \A other \in Sides : other # side => best'[other] = best[other]
       /\ \A i \in 1 .. Len(s) :
            IF i < k THEN MoreAggressive(side, levels[s[i]].price, order.price)
            ELSE MoreAggressive(side, order.price, levels[s[i]].price)
  BY <1>11, <1>12 DEF LevelAdded
<1>14. s \in Seq(LevelBlocks) /\ L \in [Sides -> Seq(LevelBlocks)] /\ Q \in [LevelBlocks -> Seq(OrderBlocks)]
  BY <1>1, <1>12 DEF Book
<1>15. /\ t \in Seq(LevelBlocks) /\ Len(t) = Len(s) + 1 /\ Len(s) \in Nat /\ t[k] = l
       /\ \A i \in 1 .. Len(t) :
            i # k => LET j == IF i < k THEN i ELSE i - 1 IN j \in 1 .. Len(s) /\ t[i] = s[j]
       /\ OnList(t) = OnList(s) \cup {l}
  <2>1. s \in Seq(LevelBlocks) /\ l \in LevelBlocks /\ k \in 1 .. Len(s) + 1 /\ t = Inserted(s, k, l)
    BY <1>4, <1>12, <1>13, <1>14
  <2> QED
    BY ONLY <2>1, InsertedMembers
<1>16. \A price \in Nat : price_to_index(price) \in Slots
  BY TEAssumption DEF price_to_index, Slots
<1>17. map_price_to_price_level' = [map_price_to_price_level EXCEPT ![price_to_index(order.price)] = l]
  <2>1. lmemory[l].price = order.price
    BY <1>4, <1>10, OpenedIs
  <2> QED
    BY <1>9, <2>1 DEF add_price_level
<1>18. ASSUME NEW other \in Sides, NEW m \in OnList(L[other])
       PROVE  /\ m \in LevelBlocks /\ m # l /\ LevelOK(other, m)
              /\ lmemory[m] = levels[m]
              /\ price_to_index(levels[m].price) # price_to_index(order.price)
              /\ ~ levels_free'[m]
              /\ map_price_to_price_level'[price_to_index(levels[m].price)] = m
  <2>1. LevelOK(other, m) /\ m \in LevelBlocks
    BY ListedLevel
  <2>2. m # l /\ m # Null
    BY <1>4, <2>1, BlocksFinite DEF LevelOK
  <2>3. price_to_index(levels[m].price) # price_to_index(order.price)
    BY <2>1, <2>2 DEF LevelOK, get_level_for_price
  <2>4. lmemory[m] = levels[m]
    BY <1>4, <1>10, <2>1, <2>2, OpenedIs
  <2>5. ~ levels_free'[m]
    BY <1>4, <1>6, <1>9, <2>1, <2>2 DEF LevelOK
  <2>6. map_price_to_price_level'[price_to_index(levels[m].price)] = m
    BY <1>1, <1>4, <1>16, <1>17, <2>1, <2>3 DEF LevelOK, get_level_for_price
  <2> QED
    BY <2>1, <2>2, <2>3, <2>4, <2>5, <2>6
<1>19. DOMAIN levels' = LevelBlocks /\ \A m \in LevelBlocks :
         DOMAIN lmemory[m] = LevelFields =>
           /\ levels'[m].side = lmemory[m].side /\ levels'[m].price = lmemory[m].price
           /\ levels'[m].order_0 = lmemory[m].order_0 /\ DOMAIN levels'[m] = LevelFields
  <2>1. DOMAIN lmemory = LevelBlocks
    BY <1>4, <1>10, OpenedIs
  <2>2. ASSUME NEW m \in LevelBlocks, DOMAIN lmemory[m] = LevelFields
        PROVE  /\ levels'[m].side = lmemory[m].side /\ levels'[m].price = lmemory[m].price
               /\ levels'[m].order_0 = lmemory[m].order_0 /\ DOMAIN levels'[m] = LevelFields
    <3>1. \A field \in {"side", "price", "order_0"} : field \in DOMAIN lmemory[m] \ {"prev", "next"}
      BY <2>2 DEF LevelFields
    <3>2. \A field \in {"side", "price", "order_0"} : levels'[m][field] = lmemory[m][field]
      BY <1>13, <2>1, <3>1 DEF SameButLinks
    <3> QED
      BY <1>13, <2>1, <2>2, <3>2 DEF SameButLinks
  <2> QED
    BY <1>13, <2>1, <2>2 DEF SameButLinks
<1>20. /\ levels'[l].side = side /\ levels'[l].price = order.price
       /\ levels'[l].order_0 = b /\ DOMAIN levels'[l] = LevelFields
  <2>1. /\ DOMAIN lmemory[l] = LevelFields /\ lmemory[l].side = side
        /\ lmemory[l].price = order.price /\ lmemory[l].order_0 = b
    BY <1>4, <1>10, OpenedIs
  <2> QED
    BY <1>4, <1>19, <2>1
<1>21. LevelOK(side, l)'
  <2>1. ~ levels_free'[l]
    BY <1>4, <1>6, <1>9
  <2>2. map_price_to_price_level'[price_to_index(order.price)] = l
    BY <1>1, <1>4, <1>16, <1>17
  <2> QED
    BY <1>1, <1>20, <2>1, <2>2 DEF LevelOK, get_level_for_price
<1>22. ASSUME NEW other \in Sides, NEW m \in OnList(L[other])
       PROVE  /\ LevelOK(other, m)' /\ levels'[m].price = levels[m].price
              /\ levels'[m].order_0 = levels[m].order_0
  <2>1. /\ levels'[m].side = levels[m].side /\ levels'[m].price = levels[m].price
        /\ levels'[m].order_0 = levels[m].order_0 /\ DOMAIN levels'[m] = LevelFields
    BY <1>18, <1>19 DEF LevelOK
  <2> QED
    BY <1>18, <2>1 DEF LevelOK, get_level_for_price
<1>23. SideOK(side, t)'
  <2>1. \A i \in 1 .. Len(t) : LevelOK(side, t[i])'
    <3> TAKE i \in 1 .. Len(t)
    <3>1. PICK m : m = t[i]
      OBVIOUS
    <3>2. m = l \/ m \in OnList(L[side])
      <4>1. m \in OnList(t)
        BY <3>1 DEF OnList
      <4> QED
        BY <1>12, <1>15, <4>1
    <3>3. LevelOK(side, m)'
      BY <1>1, <1>21, <1>22, <3>2
    <3> QED
      BY <3>1, <3>3
  <2>2. \A i \in 1 .. Len(s) : s[i] \in OnList(L[side]) /\ levels'[s[i]].price = levels[s[i]].price
    BY <1>1, <1>12, <1>22 DEF OnList
  <2>3. \A i, j \in 1 .. Len(t) : i < j => MoreAggressive(side, levels'[t[i]].price, levels'[t[j]].price)
    <3> SUFFICES ASSUME NEW i \in 1 .. Len(t), NEW j \in 1 .. Len(t), i < j
                 PROVE  MoreAggressive(side, levels'[t[i]].price, levels'[t[j]].price)
      OBVIOUS
    <3>1. CASE i = k
      <4>1. j - 1 \in 1 .. Len(s) /\ t[j] = s[j - 1] /\ ~ (j - 1 < k)
        <5>1. j # k /\ ~ (j < k) /\ ~ (j - 1 < k)
          BY <1>13, <1>15, <3>1
        <5> QED
          BY <1>15, <5>1
      <4> QED
        BY <1>13, <1>15, <1>20, <2>2, <3>1, <4>1
    <3>2. CASE j = k
      <4>1. i \in 1 .. Len(s) /\ t[i] = s[i] /\ i < k
        <5>1. i # k /\ i < k
          BY <1>13, <1>15, <3>2
        <5> QED
          BY <1>15, <5>1
      <4> QED
        BY <1>13, <1>15, <1>20, <2>2, <3>2, <4>1
    <3>3. CASE i # k /\ j # k
      <4>1. PICK x \in 1 .. Len(s) : t[i] = s[x] /\ x = IF i < k THEN i ELSE i - 1
        BY <1>15, <3>3
      <4>2. PICK y \in 1 .. Len(s) : t[j] = s[y] /\ y = IF j < k THEN j ELSE j - 1
        BY <1>15, <3>3
      <4>3. x < y
        BY <1>13, <1>15, <3>3, <4>1, <4>2
      <4>4. SideOK(side, s)
        BY <1>1, <1>12 DEF Book
      <4>5. MoreAggressive(side, levels[s[x]].price, levels[s[y]].price)
        BY <4>3, <4>4 DEF SideOK
      <4> QED
        BY <2>2, <4>1, <4>2, <4>5
    <3> QED
      BY <3>1, <3>2, <3>3
  <2> QED
    BY <1>13, <2>1, <2>3 DEF SideOK
<1>24. ASSUME NEW other \in Sides, other # side
       PROVE  SideOK(other, L[other])'
  <2>1. SideOK(other, L[other])
    BY DEF Book
  <2>2. ASSUME NEW i \in 1 .. Len(L[other])
        PROVE  /\ SameLevel(L[other][i]) /\ ~ levels_free'[L[other][i]]
               /\ map_price_to_price_level'[price_to_index(levels[L[other][i]].price)] = L[other][i]
    <3>0. PICK m : m = L[other][i]
      OBVIOUS
    <3>1. m \in OnList(L[other])
      BY <3>0 DEF OnList
    <3>2. m \notin OnList(s)
      <4> SUFFICES ASSUME m \in OnList(s)
                   PROVE  FALSE
        OBVIOUS
      <4>1. LevelOK(side, m)
        BY <1>1, <1>12, <1>18
      <4>2. LevelOK(other, m)
        BY <1>18, <3>1
      <4> QED
        BY <1>24, <4>1, <4>2 DEF LevelOK
    <3>3. levels'[m] = levels[m]
      BY <1>13, <1>18, <3>1, <3>2
    <3> QED
      BY <1>18, <3>0, <3>1, <3>3 DEF SameLevel
  <2> QED
    BY <1>4, <1>13, <1>19, <1>24, <2>1, <2>2, SideKept
<1>25. /\ Ring(orders', b, <<b>>)
       /\ SameButLinks(orders', memory)
       /\ \A c \in OrderBlocks : c # b => orders'[c] = orders[c]
  <2>1. b \in DOMAIN memory /\ Node(memory, b)
    BY <1>3, <1>5 DEF Node, OrderFields
  <2>2. /\ Ring(orders', b, <<b>>)
        /\ SameButLinks(orders', memory)
        /\ \A c \in DOMAIN memory \ {b} : orders'[c] = memory[c]
    BY <1>9, <2>1, RingOfOne
  <2> QED
    BY <1>5, <2>2
<1>26. /\ Shown(b)' = order /\ DOMAIN orders'[b] = OrderFields
       /\ orders'[b].id = order.oid /\ orders'[b].side = order.side
       /\ orders'[b].price = order.price /\ DOMAIN orders' = OrderBlocks
  <2>1. b \in OrderBlocks /\ IsOrder(order) /\ DOMAIN orders = OrderBlocks
        /\ Written(memory, order, b) /\ SameButLinks(orders', memory)
    BY <1>1, <1>3, <1>4, <1>25
  <2> QED
    BY ONLY <2>1, ShownIn
<1>27. PoolsOK' /\ MapsOK'
  <2>1. map_price_to_price_level' \in [Slots -> LevelBlocks \cup {Null}]
    BY <1>1, <1>4, <1>16, <1>17
  <2>2. taken \in [LevelBlocks -> BOOLEAN]
    BY <1>4, <1>6
  <2> QED
    BY <1>3, <1>4, <1>7, <1>9, <1>13, <1>19, <1>26, <2>1, <2>2 DEF PoolsOK, MapsOK
<1>28. ASSUME NEW other \in Sides, NEW m \in OnList(L[other])
       PROVE  QueueOK(other, m, Q[m])'
  <2>1. QueueOK(other, m, Q[m])
    BY ListedLevel
  <2>2. ASSUME NEW i \in 1 .. Len(Q[m])
        PROVE  SameOrder(Q[m][i]) /\ Shown(Q[m][i])' \in fed' /\ id_to_order'[orders[Q[m][i]].id] = Q[m][i]
    <3>0. PICK c : c = Q[m][i]
      OBVIOUS
    <3>1. c \in OnList(Q[m])
      BY <3>0 DEF OnList
    <3>2. c \in OrderBlocks /\ c # b /\ Shown(c) \in fed /\ c = id_to_order[orders[c].id]
      BY <1>3, <3>1, QueuedBlock
    <3>3. orders'[c] = orders[c]
      BY <1>25, <3>2
    <3>4. SameOrder(c) /\ Shown(c)' = Shown(c)
      BY <3>3 DEF SameOrder, Shown
    <3>5. id_to_order'[orders[c].id] = c
      BY <1>3, <3>2
    <3> QED
      BY <1>1, <3>0, <3>2, <3>4, <3>5
  <2>3. levels'[m].order_0 = levels[m].order_0 /\ levels'[m].price = levels[m].price
    BY <1>22
  <2> QED
    BY <1>4, <1>26, <2>1, <2>2, <2>3, QueueKept
<1>29. QueueOK(side, l, <<b>>)'
  <2>1. Len(<<b>>) = 1 /\ <<b>>[1] = b
    OBVIOUS
  <2>2. OrderOK(side, l, b)'
    BY <1>0, <1>1, <1>3, <1>20, <1>26 DEF OrderOK
  <2>3. Ring(orders', levels'[l].order_0, <<b>>)
    BY <1>20, <1>25
  <2> QED
    BY <2>1, <2>2, <2>3 DEF QueueOK
<1>30. PICK L2, Q2 : L2 = [L EXCEPT ![side] = t] /\ Q2 = [Q EXCEPT ![l] = <<b>>]
  OBVIOUS
<1>31. /\ L2 \in [Sides -> Seq(LevelBlocks)] /\ L2[side] = t
       /\ \A other \in Sides : other # side => L2[other] = L[other]
  BY <1>1, <1>14, <1>15, <1>30
<1>32. /\ Q2 \in [LevelBlocks -> Seq(OrderBlocks)] /\ Q2[l] = <<b>>
       /\ \A m \in LevelBlocks : m # l => Q2[m] = Q[m]
  <2>1. <<b>> \in Seq(OrderBlocks)
    BY <1>3
  <2> QED
    BY <1>4, <1>14, <1>30, <2>1
<1>33. \A other \in Sides : SideOK(other, L2[other])'
  BY <1>23, <1>24, <1>31
<1>34. ASSUME NEW other \in Sides, NEW m \in OnList(L[other])
       PROVE  m \in OnList(L2[other]) /\ Q2[m] = Q[m]
  <2>1. m \in LevelBlocks /\ m # l
    BY <1>18
  <2>2. CASE other = side
    BY <1>12, <1>15, <1>31, <1>32, <2>1, <2>2
  <2>3. CASE other # side
    BY <1>31, <1>32, <2>1, <2>3
  <2> QED
    BY <2>2, <2>3
<1>35. l \in OnList(L2[side])
  BY <1>15, <1>31
<1>36. ASSUME NEW other \in Sides, NEW i \in 1 .. Len(L2[other])
       PROVE  QueueOK(other, L2[other][i], Q2[L2[other][i]])'
  <2>0. PICK m : m = L2[other][i]
    OBVIOUS
  <2>1. m \in OnList(L2[other])
    BY <2>0 DEF OnList
  <2>2. (m = l /\ other = side) \/ m \in OnList(L[other])
    BY <1>12, <1>15, <1>31, <2>1
  <2>3. CASE m = l /\ other = side
    BY <1>29, <1>32, <2>0, <2>3
  <2>4. CASE m \in OnList(L[other])
    BY <1>28, <1>34, <2>0, <2>4
  <2> QED
    BY <2>2, <2>3, <2>4
<1>37. ASSUME NEW o \in fed
       PROVE  Found(o, L2, Q2)'
  <2>0. PICK c : c = id_to_order[o.oid]
    OBVIOUS
  <2>a. PICK m : m = get_level_for_price(o.price)
    OBVIOUS
  <2>1. /\ o.side \in Sides /\ m \in OnList(L[o.side]) /\ c \in OnList(Q[m]) /\ Shown(c) = o
        /\ c \in OrderBlocks /\ DOMAIN orders[c] = OrderFields /\ ~ orders_free[c]
        /\ orders[c].price = o.price
    BY <2>0, <2>a, PlaceOf
  <2>2. levels[m].price = o.price /\ c # b
    BY <1>3, <2>1, QueuedBlock
  <2>3. map_price_to_price_level'[price_to_index(o.price)] = m
    BY <1>18, <2>1, <2>2
  <2>4. id_to_order'[o.oid] = c /\ ~ orders_free'[c] /\ Shown(c)' = o /\ DOMAIN orders'[c] = OrderFields
    BY <1>3, <1>25, <2>0, <2>1, <2>2 DEF Shown
  <2>5. m \in OnList(L2[o.side]) /\ c \in OnList(Q2[m])
    BY <1>34, <2>1
  <2> QED
    BY <2>1, <2>3, <2>4, <2>5 DEF Found, get_level_for_price
<1>38. Found(order, L2, Q2)'
  <2>1. map_price_to_price_level'[price_to_index(order.price)] = l
    BY <1>1, <1>4, <1>16, <1>17
  <2>2. b \in OnList(Q2[l])
    <3>1. Len(<<b>>) = 1 /\ <<b>>[1] = b
      OBVIOUS
    <3> QED
      BY <1>32, <3>1 DEF OnList
  <2> QED
    BY <1>0, <1>3, <1>26, <1>35, <2>1, <2>2 DEF Found, get_level_for_price
<1>39. UsedOK(L2)'
  <2>1. ASSUME NEW m \in LevelBlocks, ~ levels_free'[m]
        PROVE  \E other \in Sides : m \in OnList(L2[other])
    <3>1. CASE m = l
      BY <1>1, <1>35, <3>1
    <3>2. CASE m # l
      <4>1. ~ levels_free[m]
        BY <1>4, <1>6, <1>9, <2>1, <3>2
      <4>2. PICK other \in Sides : m \in OnList(L[other])
        BY <4>1 DEF Book, UsedOK
      <4> QED
        BY <1>34, <4>2
    <3> QED
      BY <3>1, <3>2
  <2> QED
    BY <1>3, <2>1 DEF UsedOK
<1>40. Book(L2, Q2)'
  <2>1. \A o \in fed' : Found(o, L2, Q2)'
    BY <1>1, <1>37, <1>38
  <2> QED
    BY <1>3, <1>27, <1>31, <1>32, <1>33, <1>36, <1>39, <2>1 DEF Book
<1> QED
  BY <1>40

-----------------------------------------------------------------------------
(* Prices from before a CLEAR stay away from then on.                      *)

LEMMA AddBook ==
  ASSUME NEW L, NEW Q, Book(L, Q), ~ ReusedPrices, NEW order, IsOrder(order), Add(order)
  PROVE  IInv'
<1>0. PICK b, memory :
        /\ b = i_next_order
        /\ memory = [orders EXCEPT ![b] = [id |-> order.oid, side |-> order.side,
             price |-> order.price, qty |-> order.qty, prev |-> Null, next |-> Null]]
  OBVIOUS
<1>1. /\ order.oid = last_oid + 1 /\ CanRest(fed \cup {order})
      /\ ~ Stale(price_to_index(order.price))
      /\ add_order(order) /\ fed' = fed \cup {order} /\ last_oid' = order.oid
      /\ orders_free' = [orders_free EXCEPT ![b] = FALSE]
  BY <1>0 DEF Add, add_order
<1>2. last_oid + 1 \in OrderIds
  BY <1>1 DEF IsOrder
<1>3. PICK taken : taken = orders_free'
  OBVIOUS
<1>4. /\ ~ OrderPool!Overrun(taken, b)
      /\ OrderPool!FirstFreeAfter(taken, b) \in OrderBlocks
      /\ taken[OrderPool!FirstFreeAfter(taken, b)]
  BY <1>0, <1>1, <1>2, <1>3, OrderPoolRoom
<1>5. PICK l : l = get_level_for_price(order.price)
  OBVIOUS
<1>6. /\ i_next_order' = OrderPool!FirstFreeAfter(taken, b)
      /\ IF l = Null THEN AddToNewLevel(memory, b) ELSE AddToLevel(memory, b, l)
      /\ id_to_order' = [id_to_order EXCEPT ![order.oid] = b]
  BY <1>0, <1>1, <1>3, <1>4, <1>5 DEF add_order
<1>7. Takes(order, b)
  BY <1>0, <1>1, <1>6 DEF Takes
<1>8. Written(memory, order, b)
  BY <1>0 DEF Written
<1>9. i_next_order' \in OrderBlocks /\ orders_free'[i_next_order']
  BY <1>3, <1>4, <1>6
<1>10. CASE l = Null
  <2>1. \E L2, Q2 : Book(L2, Q2)'
    BY <1>5, <1>6, <1>7, <1>8, <1>9, <1>10, AddToNewLevelBook
  <2> QED
    BY <2>1 DEF IInv
<1>11. CASE l # Null
  <2>1. \E Q2 : Book(L, Q2)'
    BY <1>1, <1>5, <1>6, <1>7, <1>8, <1>9, <1>11, AddToLevelBook
  <2> QED
    BY <2>1 DEF IInv
<1> QED
  BY <1>10, <1>11

LEMMA NextIInv == IInv /\ ~ ReusedPrices /\ [Next]_vars => IInv'
<1> SUFFICES ASSUME NEW L, NEW Q, Book(L, Q), ~ ReusedPrices, [Next]_vars
             PROVE  IInv'
  BY DEF IInv
<1>1. ASSUME NEW oid \in OrderIds, NEW quote \in Quotes, NEW qty \in Quantities,
             Add([oid |-> oid, side |-> quote[1], price |-> quote[2], qty |-> qty])
      PROVE  IInv'
  <2>1. PICK order : order = [oid |-> oid, side |-> quote[1], price |-> quote[2], qty |-> qty]
    OBVIOUS
  <2>2. IsOrder(order)
    <3>1. /\ quote \in {"BUY", "SELL"} \X Nat /\ qty \in Nat
      BY TEAssumption
    <3>2. quote[1] \in Sides /\ quote[2] \in Nat /\ <<quote[1], quote[2]>> = quote
      BY <3>1 DEF Sides
    <3> QED
      BY <2>1, <3>1, <3>2 DEF IsOrder
  <2> QED
    BY <1>1, <2>1, <2>2, AddBook
<1>2. ASSUME NEW order \in fed, NEW qty \in Quantities, Modify(order, qty)
      PROVE  IInv'
  <2>1. Book(L, Q)'
    BY <1>2, ModifyBook
  <2> QED
    BY <2>1 DEF IInv
<1>3. ASSUME NEW order \in fed, Cancel(order)
      PROVE  IInv'
  <2>1. PICK b : b = id_to_order[order.oid]
    OBVIOUS
  <2>2. CASE orders[b].prev = b
    <3>1. \E L2 : Book(L2, Q)'
      BY <1>3, <2>1, <2>2, CancelLast
    <3> QED
      BY <3>1 DEF IInv
  <2>3. CASE orders[b].prev # b
    <3>1. \E Q2 : Book(L, Q2)'
      BY <1>3, <2>1, <2>3, CancelOneOfMany
    <3> QED
      BY <3>1 DEF IInv
  <2> QED
    BY <2>2, <2>3
<1>4. CASE Clear
  <2>1. \E L2 : Book(L2, Q)'
    BY <1>4, ClearBook
  <2> QED
    BY <2>1 DEF IInv
<1>5. CASE UNCHANGED vars
  <2>1. UNCHANGED <<orders, levels, orders_free, i_next_order, levels_free, i_next_level,
                    id_to_order, map_price_to_price_level, best, alive, fed, last_oid>>
    BY <1>5 DEF vars, members, feed
  <2>2. PoolsOK' /\ MapsOK' /\ UsedOK(L)'
    BY <2>1 DEF Book, PoolsOK, MapsOK, UsedOK
  <2>3. FedOK'
    BY <2>1 DEF Book, FedOK, CanRest
  <2>4. ASSUME NEW side \in Sides
        PROVE  SideOK(side, L[side])'
    BY <2>1 DEF Book, SideOK, LevelOK, get_level_for_price
  <2>5. ASSUME NEW side \in Sides, NEW i \in 1 .. Len(L[side])
        PROVE  QueueOK(side, L[side][i], Q[L[side][i]])'
    <3>1. PICK l, q : l = L[side][i] /\ q = Q[L[side][i]]
      OBVIOUS
    <3>2. QueueOK(side, l, q)
      BY <3>1, LevelPlace
    <3>3. QueueOK(side, l, q)'
      BY <2>1, <3>2 DEF QueueOK, OrderOK, Shown
    <3> QED
      BY <3>1, <3>3
  <2>6. ASSUME NEW o \in fed
        PROVE  Found(o, L, Q)'
    BY <2>1 DEF Book, Found, Shown, get_level_for_price
  <2>7. Book(L, Q)'
    BY <2>1, <2>2, <2>3, <2>4, <2>5, <2>6 DEF Book
  <2> QED
    BY <2>7 DEF IInv
<1> QED
  BY <1>1, <1>2, <1>3, <1>4, <1>5 DEF Next

LEMMA Invariance == ~ ReusedPrices => (Spec => []IInv)
<1> SUFFICES ASSUME ~ ReusedPrices
             PROVE  Spec => []IInv
  OBVIOUS
<1>1. Init => IInv
  BY InitIInv
<1>2. IInv /\ [Next]_vars => IInv'
  BY NextIInv
<1> QED
  BY <1>1, <1>2, PTL DEF Spec

-----------------------------------------------------------------------------
(* The client's book.                                                      *)

LEMMA IInvShows == IInv => /\ TypeOK /\ ListsShowTheBook /\ ListsGoBothWays
                           /\ BlocksAccountedFor /\ HoldsWhatTheExchangeHolds
<1> SUFFICES ASSUME NEW L, NEW Q, Book(L, Q)
             PROVE  /\ TypeOK /\ ListsShowTheBook /\ ListsGoBothWays
                    /\ BlocksAccountedFor /\ HoldsWhatTheExchangeHolds
  BY DEF IInv
<1>1. HoldsWhatTheExchangeHolds
  BY DEF Book, PoolsOK, HoldsWhatTheExchangeHolds
<1> QED
  BY <1>1, BookTypeOK, BookShown, BookBothWays, BookAccountedFor

(* Pointers of blocks in use lead into the pools: the code never follows a *)
(* null pointer or one into a block that was given back.                   *)
THEOREM TypeCorrect == ~ ReusedPrices => (Spec => []TypeOK)
<1> SUFFICES ASSUME ~ ReusedPrices
             PROVE  Spec => []TypeOK
  OBVIOUS
<1>1. Spec => []IInv
  BY Invariance
<1> QED
  BY <1>1, IInvShows, PTL

(* The lists that the strategies' book is made of show the orders that the *)
(* exchange's updates describe, each once and in price-time priority.      *)
THEOREM AlwaysShowsTheBook == ~ ReusedPrices => (Spec => []ListsShowTheBook)
<1> SUFFICES ASSUME ~ ReusedPrices
             PROVE  Spec => []ListsShowTheBook
  OBVIOUS
<1>1. Spec => []IInv
  BY Invariance
<1> QED
  BY <1>1, IInvShows, PTL

(* Every list is the same followed through prev and through next.          *)
THEOREM AlwaysGoBothWays == ~ ReusedPrices => (Spec => []ListsGoBothWays)
<1> SUFFICES ASSUME ~ ReusedPrices
             PROVE  Spec => []ListsGoBothWays
  OBVIOUS
<1>1. Spec => []IInv
  BY Invariance
<1> QED
  BY <1>1, IInvShows, PTL

(* No block of the pools leaks, and none is given back while in use.       *)
THEOREM AlwaysAccountedFor == ~ ReusedPrices => (Spec => []BlocksAccountedFor)
<1> SUFFICES ASSUME ~ ReusedPrices
             PROVE  Spec => []BlocksAccountedFor
  OBVIOUS
<1>1. Spec => []IInv
  BY Invariance
<1> QED
  BY <1>1, IInvShows, PTL

(* The pools never overrun on what fits the exchange's own pools, and no   *)
(* ASSERT of the book fails.                                               *)
THEOREM AlwaysHoldsWhatTheExchangeHolds ==
  ~ ReusedPrices => (Spec => []HoldsWhatTheExchangeHolds)
<1> SUFFICES ASSUME ~ ReusedPrices
             PROVE  Spec => []HoldsWhatTheExchangeHolds
  OBVIOUS
<1>1. Spec => []IInv
  BY Invariance
<1> QED
  BY <1>1, IInvShows, PTL

-----------------------------------------------------------------------------
(* Totals: amounts in rising places, with nothing in between, add up to    *)
(* what they add up to without the places.                                 *)

LEMMA TotalIs ==
  ASSUME NEW s \in Seq(Int), NEW f \in [0 .. Len(s) -> Int], f[0] = 0,
         \A n \in 1 .. Len(s) : f[n] = f[n - 1] + s[n]
  PROVE  Total(s) = f[Len(s)]
<1> DEFINE upTo[n \in 0 .. Len(s)] == IF n = 0 THEN 0 ELSE upTo[n - 1] + s[n]
           bad == {n \in 0 .. Len(s) : upTo[n] # f[n]}
<1>1. f = [n \in 0 .. Len(s) |-> IF n = 0 THEN 0 ELSE f[n - 1] + s[n]]
  <2>1. \A n \in 0 .. Len(s) : n # 0 => n \in 1 .. Len(s)
    OBVIOUS
  <2> QED
    BY <2>1
<1>2. upTo = [n \in 0 .. Len(s) |-> IF n = 0 THEN 0 ELSE upTo[n - 1] + s[n]]
  BY <1>1 DEF upTo
<1>3. Total(s) = upTo[Len(s)]
  BY DEF Total
<1> HIDE DEF upTo
<1>4. upTo[0] = 0 /\ \A n \in 1 .. Len(s) : upTo[n] = upTo[n - 1] + s[n]
  <2>1. upTo[0] = 0
    BY <1>2
  <2>2. \A n \in 1 .. Len(s) : n \in 0 .. Len(s) /\ n # 0
    OBVIOUS
  <2> QED
    BY <1>2, <2>1, <2>2
<1>5. bad = {}
  <2> SUFFICES ASSUME bad # {}
               PROVE  FALSE
    OBVIOUS
  <2>1. PICK n \in bad : \A m \in bad : n <= m
    <3>1. bad \in SUBSET Nat
      OBVIOUS
    <3> HIDE DEF bad
    <3> QED
      BY <3>1, LeastNumber
  <2>2. n \in 1 .. Len(s)
    BY <1>4
  <2>3. n - 1 \notin bad /\ n - 1 \in 0 .. Len(s)
    BY <2>1, <2>2
  <2> QED
    BY <1>4, <2>2, <2>3
<1> QED
  BY <1>3, <1>5

LEMMA RunningSum ==
  ASSUME NEW s \in Seq(Int)
  PROVE  \E f \in [0 .. Len(s) -> Int] :
           f[0] = 0 /\ \A n \in 1 .. Len(s) : f[n] = f[n - 1] + s[n]
<1> DEFINE Runs(f, k) == f[0] = 0 /\ \A n \in 1 .. k : f[n] = f[n - 1] + s[n]
           bad == {k \in 0 .. Len(s) : ~ \E f \in [0 .. k -> Int] : Runs(f, k)}
<1>1. bad = {}
  <2> SUFFICES ASSUME bad # {}
               PROVE  FALSE
    OBVIOUS
  <2>1. PICK k \in bad : \A m \in bad : k <= m
    <3>1. bad \in SUBSET Nat
      OBVIOUS
    <3> HIDE DEF bad
    <3> QED
      BY <3>1, LeastNumber
  <2>2. k # 0
    <3>1. [n \in 0 .. 0 |-> 0] \in [0 .. 0 -> Int] /\ Runs([n \in 0 .. 0 |-> 0], 0)
      OBVIOUS
    <3> QED
      BY <3>1
  <2>3. k \in 1 .. Len(s) /\ k - 1 \in 0 .. Len(s) /\ k - 1 \notin bad
    <3>1. k \in 1 .. Len(s)
      BY <2>2
    <3> HIDE DEF bad
    <3> QED
      BY <2>1, <3>1
  <2>4. PICK f \in [0 .. k - 1 -> Int] : Runs(f, k - 1)
    BY <2>3
  <2> DEFINE g == [n \in 0 .. k |-> IF n = k THEN f[k - 1] + s[k] ELSE f[n]]
  <2>5. s[k] \in Int /\ f[k - 1] \in Int
    BY <2>2, <2>3
  <2>6. g \in [0 .. k -> Int] /\ Runs(g, k)
    BY <2>2, <2>4, <2>5
  <2> QED
    BY <2>6
<1>2. Len(s) \notin bad
  BY <1>1
<1> QED
  BY <1>2

(* i amounts have a place up to k.                                         *)
UpTo(e, size, i, k) ==
  /\ i > 0 => e[i] <= k
  /\ i < size => e[i + 1] > k

LEMMA UpToUnique ==
  ASSUME NEW size \in Nat, NEW e \in [1 .. size -> Nat],
         \A i, j \in 1 .. size : i < j => e[i] < e[j],
         NEW i \in 0 .. size, NEW j \in 0 .. size, NEW k \in Nat,
         UpTo(e, size, i, k), UpTo(e, size, j, k)
  PROVE  i = j
<1>1. ASSUME NEW m \in 0 .. size, NEW n \in 0 .. size, m < n, m < size => e[m + 1] > k,
             n > 0 => e[n] <= k
      PROVE  FALSE
  <2>1. m + 1 \in 1 .. size /\ n \in 1 .. size /\ e[m + 1] > k /\ e[n] <= k
    BY <1>1
  <2>2. m + 1 < n \/ m + 1 = n
    BY <1>1
  <2>3. e[m + 1] <= e[n] /\ e[m + 1] \in Nat /\ e[n] \in Nat
    BY <2>1, <2>2
  <2> QED
    BY <2>1, <2>3
<1>2. ~ (i < j) /\ ~ (j < i)
  BY <1>1 DEF UpTo
<1> QED
  BY <1>2

LEMMA UpToSome ==
  ASSUME NEW size \in Nat, NEW e \in [1 .. size -> Nat], NEW k \in Nat
  PROVE  \E i \in 0 .. size : UpTo(e, size, i, k)
<1> DEFINE T == {i \in 0 .. size : i < size => e[i + 1] > k}
<1>1. T \in SUBSET Nat /\ size \in T
  OBVIOUS
<1>2. PICK i \in T : \A m \in T : i <= m
  <2> HIDE DEF T
  <2> QED
    BY <1>1, LeastNumber
<1>3. ASSUME i > 0
      PROVE  e[i] <= k
  <2>1. i - 1 \in 0 .. size /\ i - 1 + 1 = i /\ i \in 1 .. size /\ e[i] \in Nat
    BY <1>3
  <2>2. i - 1 \notin T
    <3>1. ~ (i <= i - 1)
      BY <2>1
    <3> HIDE DEF T
    <3> QED
      BY <1>2, <3>1
  <2> QED
    BY <2>1, <2>2
<1> QED
  BY <1>3 DEF UpTo

LEMMA SparseTotal ==
  ASSUME NEW s \in Seq(Int), NEW t \in Seq(Int), NEW e \in [1 .. Len(s) -> 1 .. Len(t)],
         \A i, j \in 1 .. Len(s) : i < j => e[i] < e[j],
         \A i \in 1 .. Len(s) : t[e[i]] = s[i],
         \A k \in 1 .. Len(t) : (\A i \in 1 .. Len(s) : e[i] # k) => t[k] = 0
  PROVE  Total(t) = Total(s)
<1>0. Len(s) \in Nat /\ Len(t) \in Nat /\ e \in [1 .. Len(s) -> Nat]
  <2>1. Len(s) \in Nat /\ Len(t) \in Nat
    OBVIOUS
  <2>2. 1 .. Len(t) \subseteq Nat
    BY <2>1
  <2> QED
    BY <2>1, <2>2
<1>10. ASSUME NEW i \in 1 .. Len(s), NEW j \in 1 .. Len(s), i <= j
       PROVE  e[i] <= e[j]
  <2>1. e[i] \in Nat /\ e[j] \in Nat
    BY <1>0
  <2>2. i = j \/ i < j
    BY <1>0, <1>10
  <2>3. i < j => e[i] < e[j]
    OBVIOUS
  <2> QED
    BY <2>1, <2>2, <2>3
<1>1. PICK f \in [0 .. Len(s) -> Int] :
        f[0] = 0 /\ \A n \in 1 .. Len(s) : f[n] = f[n - 1] + s[n]
  BY RunningSum
<1> DEFINE at(k) == CHOOSE i \in 0 .. Len(s) : UpTo(e, Len(s), i, k)
           g == [k \in 0 .. Len(t) |-> f[at(k)]]
<1>2. ASSUME NEW k \in 0 .. Len(t)
      PROVE  at(k) \in 0 .. Len(s) /\ UpTo(e, Len(s), at(k), k)
  <2>1. k \in Nat
    BY <1>0
  <2>2. \E i \in 0 .. Len(s) : UpTo(e, Len(s), i, k)
    BY <1>0, <2>1, UpToSome
  <2> QED
    BY <2>2
<1>3. ASSUME NEW k \in 0 .. Len(t), NEW i \in 0 .. Len(s), UpTo(e, Len(s), i, k)
      PROVE  at(k) = i
  <2>1. PICK j : j = at(k)
    OBVIOUS
  <2>2. j \in 0 .. Len(s) /\ UpTo(e, Len(s), j, k)
    BY <1>2, <2>1
  <2>3. k \in Nat
    BY <1>0
  <2>4. j = i
    BY <1>0, <1>3, <2>2, <2>3, UpToUnique
  <2> QED
    BY <2>1, <2>4
<1> HIDE DEF at
<1>4. g \in [0 .. Len(t) -> Int]
  BY <1>2
<1>5. g[0] = 0
  <2>1. UpTo(e, Len(s), 0, 0) /\ 0 \in 0 .. Len(s) /\ 0 \in 0 .. Len(t)
    BY SMTT(30), <1>0 DEF UpTo
  <2> QED
    BY <1>1, <1>3, <2>1
<1>6. g[Len(t)] = f[Len(s)]
  <2>1. /\ UpTo(e, Len(s), Len(s), Len(t))
        /\ Len(s) \in 0 .. Len(s) /\ Len(t) \in 0 .. Len(t)
    BY <1>0 DEF UpTo
  <2> QED
    BY <1>3, <2>1
<1>7. ASSUME NEW k \in 1 .. Len(t)
      PROVE  g[k] = g[k - 1] + t[k]
  <2>1. k \in 0 .. Len(t) /\ k - 1 \in 0 .. Len(t) /\ k \in Nat /\ k - 1 \in Nat /\ k - 1 < k
    BY <1>0
  <2>2. PICK i \in 0 .. Len(s) : i = at(k - 1) /\ UpTo(e, Len(s), i, k - 1)
    BY <1>2, <2>1
  <2>3. CASE i < Len(s) /\ e[i + 1] = k
    <3>1. /\ i + 1 \in 0 .. Len(s) /\ i + 1 \in 1 .. Len(s) /\ i + 1 - 1 = i
          /\ i + 1 < Len(s) => i + 1 + 1 \in 1 .. Len(s)
      BY <1>0, <2>3
    <3>2. i + 1 < Len(s) => e[i + 1 + 1] > k
      BY <1>0, <2>3, <3>1
    <3>3. UpTo(e, Len(s), i + 1, k)
      BY <1>0, <2>3, <3>1, <3>2 DEF UpTo
    <3>4. at(k) = i + 1
      BY <1>3, <2>1, <3>1, <3>3
    <3>5. f[i + 1] = f[i] + s[i + 1] /\ t[k] = s[i + 1]
      BY <1>1, <2>3, <3>1
    <3> QED
      BY <2>1, <2>2, <3>4, <3>5
  <2>4. CASE ~ (i < Len(s) /\ e[i + 1] = k)
    <3>1. i > 0 => i \in 1 .. Len(s) /\ e[i] \in Nat /\ e[i] <= k - 1
      BY <1>0, <2>2 DEF UpTo
    <3>2. i < Len(s) => i + 1 \in 1 .. Len(s) /\ e[i + 1] \in Nat /\ e[i + 1] > k
      BY <1>0, <2>1, <2>2, <2>4 DEF UpTo
    <3>3. UpTo(e, Len(s), i, k)
      BY <2>1, <3>1, <3>2 DEF UpTo
    <3>4. at(k) = i
      BY <1>3, <2>1, <3>3
    <3>5. ASSUME NEW n \in 1 .. Len(s), e[n] = k
          PROVE  FALSE
      <4>1. n <= i \/ n >= i + 1
        BY <1>0
      <4>2. CASE n <= i
        <5>1. i > 0 /\ i \in 1 .. Len(s)
          BY <1>0, <4>2
        <5>2. e[n] <= e[i] /\ e[i] <= k - 1
          BY <1>10, <3>1, <4>2, <5>1
        <5>3. k \in Nat /\ e[i] \in Nat /\ k <= e[i] /\ e[i] <= k - 1
          BY <2>1, <3>1, <3>5, <5>1, <5>2
        <5> QED
          BY ONLY <5>3
      <4>3. CASE n >= i + 1
        <5>1. i < Len(s) /\ i + 1 \in 1 .. Len(s)
          BY <1>0, <4>3
        <5>2. e[n] >= e[i + 1] /\ e[i + 1] > k
          BY <1>10, <3>2, <4>3, <5>1
        <5>3. k \in Nat /\ e[i + 1] \in Nat /\ k >= e[i + 1] /\ e[i + 1] > k
          BY <2>1, <3>2, <3>5, <5>1, <5>2
        <5> QED
          BY ONLY <5>3
      <4> QED
        BY <4>1, <4>2, <4>3
    <3>6. t[k] = 0
      BY <3>5
    <3>7. f[i] \in Int
      BY <1>1
    <3> QED
      BY <2>1, <2>2, <3>4, <3>6, <3>7
  <2> QED
    BY <2>3, <2>4
<1> HIDE DEF g
<1>8. Total(t) = g[Len(t)]
  BY <1>4, <1>5, <1>7, TotalIs
<1>9. Total(s) = f[Len(s)]
  BY <1>1, TotalIs
<1> QED
  BY <1>6, <1>8, <1>9

-----------------------------------------------------------------------------
(* Best offers.                                                            *)

(* Nothing on the side of o beats it.                                      *)
OnTop(book, side, o) ==
  /\ o \in book /\ o.side = side
  /\ \A other \in book : other.side = side => ~ MoreAggressive(side, other.price, o.price)

Top(book, side) == {o \in book : OnTop(book, side, o)}

AmountAt(top, oid) ==
  IF \E o \in top : o.oid = oid THEN (CHOOSE o \in top : o.oid = oid).qty ELSE 0

OfferOf(top) ==
  IF top = {} THEN NoOffer
  ELSE [price |-> (CHOOSE o \in top : TRUE).price,
        qty |-> Total([oid \in OrderIds |-> AmountAt(top, oid)])]

(* The best offer as the first level shows it.                             *)
TopNow(side) ==
  IF best[side] = Null THEN NoOffer
  ELSE [price |-> levels[best[side]].price,
        qty |-> Total([i \in DOMAIN Queue(best[side]) |-> orders[Queue(best[side])[i]].qty])]

(* Where there is a best level, its orders are those on top.               *)
ShowsTop(side) ==
  IF best[side] = Null THEN \A o \in fed : o.side # side
  ELSE /\ levels[best[side]].price \in Nat
       /\ Top(fed, side) = {o \in fed : o.side = side /\ o.price = levels[best[side]].price}
       /\ Top(fed, side) # {}

ShowsBest ==
  /\ \A side \in Sides : BestOffer(side) = OfferOf(Top(fed, side)) /\ OfferOf(Top(fed, side)) = TopNow(side)
  /\ \A side \in Sides : ShowsTop(side)
  /\ \A o \in fed : o.price \in Nat
  /\ alive = TRUE

LEMMA BookTop ==
  ASSUME NEW L, NEW Q, Book(L, Q), NEW side \in Sides
  PROVE  ShowsTop(side)
<1>0. FedOK
  BY DEF Book
<1>1. CASE best[side] = Null
  <2>1. L[side] = <<>> /\ Len(L[side]) = 0
    BY <1>1, EmptySeq DEF Book, SideOK
  <2>2. ASSUME NEW o \in fed, o.side = side
        PROVE  FALSE
    <3>1. \E i \in 1 .. Len(L[side]) : TRUE
      BY <2>2, OrderPlace
    <3> QED
      BY <2>1, <3>1
  <2> QED
    BY <1>1, <2>2 DEF ShowsTop
<1>2. CASE best[side] # Null
  <2>1. Ring(levels, best[side], L[side])
    BY <1>2 DEF Book, SideOK
  <2>2. PICK s, l : s = L[side] /\ l = best[side]
    OBVIOUS
  <2>3. Len(s) \in Nat /\ 1 \in 1 .. Len(s) /\ s[1] = l
    BY <2>1, <2>2, RingMembers
  <2>4. LevelOK(side, l) /\ QueueOK(side, l, Q[l])
    BY <2>2, <2>3, LevelPlace
  <2>5. PICK q, p : q = Q[l] /\ p = levels[l].price
    OBVIOUS
  <2>6. Len(q) \in Nat /\ 1 \in 1 .. Len(q)
    BY <2>4, <2>5, RingMembers DEF QueueOK
  <2>7. p \in Nat
    BY <2>4, <2>5 DEF LevelOK
  <2>8. ASSUME NEW o \in fed, o.side = side
        PROVE  o.price \in Nat /\ (o.price = p \/ MoreAggressive(side, p, o.price))
    <3>1. PICK i \in 1 .. Len(s) : get_level_for_price(o.price) = s[i]
                                   /\ \E j \in 1 .. Len(Q[s[i]]) : id_to_order[o.oid] = Q[s[i]][j]
      <4>1. \E i \in 1 .. Len(L[o.side]) :
              /\ get_level_for_price(o.price) = L[o.side][i]
              /\ \E j \in 1 .. Len(Q[L[o.side][i]]) : id_to_order[o.oid] = Q[L[o.side][i]][j]
        BY OrderPlace
      <4>2. L[o.side] = s
        BY <2>2, <2>8
      <4> QED
        BY ONLY <4>1, <4>2
    <3>2. PICK b : b = id_to_order[o.oid]
      OBVIOUS
    <3>3. OrderOK(side, s[i], b)
      BY <2>2, <3>1, <3>2, LevelPlace DEF QueueOK
    <3>4. Shown(b) = o
      BY <3>2, OrderPlace DEF Found
    <3>5. o.price = levels[s[i]].price
      BY <3>3, <3>4 DEF OrderOK, Shown
    <3>6. o.price \in Nat
      BY <1>0 DEF FedOK
    <3>7. CASE i = 1
      BY <2>2, <2>3, <2>5, <3>5, <3>6, <3>7
    <3>8. CASE i # 1
      <4>1. 1 < i
        BY <2>3, <3>8
      <4>2. MoreAggressive(side, levels[s[1]].price, levels[s[i]].price)
        BY <2>2, <2>3, <4>1 DEF Book, SideOK
      <4> QED
        BY <2>3, <2>5, <3>5, <3>6, <4>2
    <3> QED
      BY <3>7, <3>8
  <2>9. PICK first : first = Shown(q[1])
    OBVIOUS
  <2>10. first \in fed /\ first.side = side /\ first.price = p
    BY <2>4, <2>5, <2>6, <2>9 DEF QueueOK, OrderOK, Shown
  <2>11. ASSUME NEW o \in fed, o.side = side, o.price = p
         PROVE  OnTop(fed, side, o)
    BY <2>7, <2>8, <2>11 DEF OnTop, MoreAggressive
  <2>12. ASSUME NEW o \in fed, OnTop(fed, side, o)
         PROVE  o.side = side /\ o.price = p
    BY <2>8, <2>10, <2>12 DEF OnTop
  <2>13. Top(fed, side) = {o \in fed : o.side = side /\ o.price = p}
    BY <2>11, <2>12 DEF Top
  <2> QED
    BY <1>2, <2>2, <2>5, <2>7, <2>10, <2>13 DEF ShowsTop
<1> QED
  BY <1>1, <1>2

LEMMA OfferIs ==
  ASSUME NEW L, NEW Q, Book(L, Q), NEW side \in Sides
  PROVE  BestOffer(side) = OfferOf(Top(fed, side))
<1> DEFINE on_side == {o \in fed : o.side = side}
           top == {o \in on_side : \A other \in on_side : ~ MoreAggressive(side, other.price, o.price)}
<1>1. top = Top(fed, side)
  BY DEF Top, OnTop
<1>2. on_side = {} <=> top = {}
  <2>1. ShowsTop(side)
    BY BookTop
  <2>2. on_side # {} => top # {}
    BY <1>1, <2>1 DEF ShowsTop
  <2> QED
    BY <2>2
<1>3. BestOffer(side) =
        IF on_side = {} THEN NoOffer
        ELSE [price |-> (CHOOSE o \in top : TRUE).price,
              qty |-> Total([oid \in OrderIds |-> AmountAt(top, oid)])]
  BY DEF BestOffer, AmountAt
<1> HIDE DEF on_side, top
<1> QED
  BY <1>1, <1>2, <1>3 DEF OfferOf

LEMMA QueueTotal ==
  ASSUME NEW L, NEW Q, Book(L, Q), NEW side \in Sides, best[side] # Null
  PROVE  OfferOf(Top(fed, side)) = TopNow(side)
<1>1. PICK s, l, top : s = L[side] /\ l = best[side] /\ top = Top(fed, side)
  OBVIOUS
<1>2. s[1] = l /\ 1 \in 1 .. Len(s) /\ s # <<>>
  <2>1. Ring(levels, best[side], L[side])
    BY DEF Book, SideOK
  <2> QED
    BY <1>1, <2>1, RingMembers DEF Ring
<1>3. PICK q, p : q = Q[l] /\ p = levels[l].price
  OBVIOUS
<1>4. LevelOK(side, l) /\ QueueOK(side, l, q) /\ Queue(l) = q
  BY <1>1, <1>2, <1>3, LevelPlace, QueuesAre
<1>5. Len(q) \in Nat /\ DOMAIN q = 1 .. Len(q)
  BY <1>4, RingMembers DEF QueueOK
<1>6. /\ top = {o \in fed : o.side = side /\ o.price = p} /\ top # {}
  BY <1>1, <1>3, BookTop DEF ShowsTop
<1>7. FedOK
  BY DEF Book
<1>8. ASSUME NEW i \in 1 .. Len(q)
      PROVE  /\ Shown(q[i]) \in top
             /\ Shown(q[i]).oid = orders[q[i]].id /\ Shown(q[i]).qty = orders[q[i]].qty
             /\ orders[q[i]].id \in OrderIds /\ orders[q[i]].qty \in Nat
  <2>1. OrderOK(side, l, q[i])
    BY <1>4 DEF QueueOK
  <2>2. Shown(q[i]) \in [oid: 1 .. last_oid, side: Sides, price: Nat, qty: Nat]
    BY <1>7, <2>1 DEF FedOK, OrderOK
  <2>3. Shown(q[i]) \in top
    BY <1>3, <1>6, <2>1 DEF OrderOK, Shown
  <2>4. last_oid \in 0 .. MAX_ORDER_IDS - 1 /\ MAX_ORDER_IDS \in Nat
    BY <1>7, TEAssumption DEF FedOK
  <2>5. 1 .. last_oid \subseteq OrderIds
    BY <2>4 DEF OrderIds
  <2> QED
    BY <2>2, <2>3, <2>5 DEF Shown
<1>9. ASSUME NEW o \in top
      PROVE  \E i \in 1 .. Len(q) : orders[q[i]].id = o.oid
  <2>1. o \in fed /\ o.side = side /\ o.price = p
    BY <1>6
  <2>2. Found(o, L, Q) /\ get_level_for_price(p) = l
    BY <1>3, <1>4, <2>1, OrderPlace DEF LevelOK
  <2>3. id_to_order[o.oid] \in OnList(q) /\ Shown(id_to_order[o.oid]) = o
    BY <1>3, <2>1, <2>2 DEF Found
  <2> QED
    BY <2>3 DEF OnList, Shown
<1>10. ASSUME NEW o \in top
       PROVE  AmountAt(top, o.oid) = o.qty
  <2>1. \A other \in top : other.oid = o.oid => other = o
    BY <1>6, <1>7 DEF FedOK
  <2> QED
    BY <2>1 DEF AmountAt
<1>11. (CHOOSE o \in top : TRUE).price = p
  BY <1>6
<1> DEFINE amounts == [i \in 1 .. Len(q) |-> orders[q[i]].qty]
           ids == [i \in 1 .. Len(q) |-> orders[q[i]].id]
           all == [oid \in OrderIds |-> AmountAt(top, oid)]
<1>12. /\ amounts \in Seq(Int) /\ Len(amounts) = Len(q)
       /\ \A i \in 1 .. Len(q) : amounts[i] = orders[q[i]].qty
  <2>1. amounts \in [1 .. Len(q) -> Int]
    BY <1>8
  <2>2. \A i \in 1 .. Len(q) : amounts[i] = orders[q[i]].qty
    OBVIOUS
  <2> HIDE DEF amounts
  <2> QED
    BY <1>5, <2>1, <2>2, FunctionIsSeq
<1>13. /\ all \in Seq(Int) /\ 1 .. Len(all) = OrderIds
       /\ \A oid \in OrderIds : all[oid] = AmountAt(top, oid)
  <2>1. ASSUME NEW oid \in OrderIds
        PROVE  AmountAt(top, oid) \in Int
    <3>1. CASE \E o \in top : o.oid = oid
      <4>1. PICK o \in top : o.oid = oid
        BY <3>1
      <4>2. o.qty \in Nat
        BY <1>6, <1>7 DEF FedOK
      <4> QED
        BY <1>10, <4>1, <4>2
    <3>2. CASE ~ \E o \in top : o.oid = oid
      BY <3>2 DEF AmountAt
    <3> QED
      BY <3>1, <3>2
  <2>2. PICK n : n = MAX_ORDER_IDS - 1
    OBVIOUS
  <2>3. n \in Nat /\ OrderIds = 1 .. n
    BY <2>2, TEAssumption DEF OrderIds
  <2>4. all \in [1 .. n -> Int]
    BY <2>1, <2>3
  <2>5. \A oid \in OrderIds : all[oid] = AmountAt(top, oid)
    OBVIOUS
  <2> HIDE DEF all
  <2> QED
    BY <2>3, <2>4, <2>5, FunctionIsSeq
<1>14. /\ ids \in [1 .. Len(q) -> OrderIds]
       /\ \A i \in 1 .. Len(q) : ids[i] = orders[q[i]].id
  BY <1>8
<1> HIDE DEF amounts, all, ids
<1>15. \A i, j \in 1 .. Len(q) : i < j => ids[i] < ids[j]
  BY <1>4, <1>14 DEF QueueOK
<1>16. ASSUME NEW i \in 1 .. Len(q)
       PROVE  all[ids[i]] = amounts[i]
  <2>1. AmountAt(top, Shown(q[i]).oid) = Shown(q[i]).qty
    BY <1>8, <1>10
  <2> QED
    BY <1>8, <1>12, <1>13, <1>14, <2>1
<1>17. ASSUME NEW k \in OrderIds, \A i \in 1 .. Len(q) : ids[i] # k
       PROVE  all[k] = 0
  <2>1. ~ \E o \in top : o.oid = k
    BY <1>9, <1>14, <1>17
  <2> QED
    BY <1>13, <2>1 DEF AmountAt
<1>18. Total(all) = Total(amounts)
  <2>1. /\ amounts \in Seq(Int) /\ all \in Seq(Int) /\ ids \in [1 .. Len(amounts) -> 1 .. Len(all)]
        /\ \A i, j \in 1 .. Len(amounts) : i < j => ids[i] < ids[j]
        /\ \A i \in 1 .. Len(amounts) : all[ids[i]] = amounts[i]
    BY <1>12, <1>13, <1>14, <1>15, <1>16
  <2>2. \A k \in 1 .. Len(all) : (\A i \in 1 .. Len(amounts) : ids[i] # k) => all[k] = 0
    BY <1>12, <1>13, <1>17
  <2> QED
    BY ONLY <2>1, <2>2, SparseTotal
<1>19. OfferOf(top) = [price |-> p, qty |-> Total(all)]
  BY <1>6, <1>11 DEF OfferOf, all
<1>20. TopNow(side) = [price |-> p, qty |-> Total(amounts)]
  BY <1>1, <1>3, <1>4, <1>5 DEF TopNow, amounts
<1> QED
  BY <1>1, <1>18, <1>19, <1>20

LEMMA IInvShowsBest == IInv => ShowsBest
<1> SUFFICES ASSUME NEW L, NEW Q, Book(L, Q)
             PROVE  ShowsBest
  BY DEF IInv
<1>1. ASSUME NEW side \in Sides
      PROVE  OfferOf(Top(fed, side)) = TopNow(side)
  <2>1. CASE best[side] = Null
    <3>1. Top(fed, side) = {}
      BY <2>1, BookTop DEF ShowsTop, Top, OnTop
    <3> QED
      BY <2>1, <3>1 DEF OfferOf, TopNow
  <2>2. CASE best[side] # Null
    BY <2>2, QueueTotal
  <2> QED
    BY <2>1, <2>2
<1>2. (\A o \in fed : o.price \in Nat) /\ alive = TRUE
  BY DEF Book, FedOK, PoolsOK
<1> QED
  BY <1>1, <1>2, OfferIs, BookTop DEF ShowsBest

(* Two books of which one has orders that the other lacks only below the   *)
(* best price, or on the other side, have the same orders on top.          *)
LEMMA SameTop ==
  ASSUME NEW before, NEW after, NEW side, NEW p \in Nat, NEW first \in before \cap after,
         \A o \in before \cup after : o.price \in Nat,
         first.side = side, first.price = p,
         Top(before, side) = {o \in before : o.side = side /\ o.price = p},
         \A o \in before \cup after :
           (o \in before /\ o \in after) \/ o.side # side \/ MoreAggressive(side, p, o.price)
  PROVE  Top(after, side) = Top(before, side)
<1>1. OnTop(before, side, first)
  BY DEF Top
<1>2. ASSUME NEW o \in after, o.side = side
      PROVE  ~ MoreAggressive(side, o.price, p)
  <2>1. CASE o \in before
    BY <1>1, <1>2, <2>1 DEF OnTop
  <2>2. CASE o \notin before
    BY <1>2, <2>2 DEF MoreAggressive
  <2> QED
    BY <2>1, <2>2
<1>3. ASSUME NEW o \in after
      PROVE  OnTop(after, side, o) <=> o.side = side /\ o.price = p
  <2>1. OnTop(after, side, o) => o.side = side /\ ~ MoreAggressive(side, p, o.price)
    BY DEF OnTop
  <2>2. ASSUME o.side = side, ~ MoreAggressive(side, p, o.price)
        PROVE  o.price = p
    BY <1>2, <2>2 DEF MoreAggressive
  <2>3. o.side = side /\ o.price = p => OnTop(after, side, o)
    BY <1>2 DEF OnTop
  <2> QED
    BY <2>1, <2>2, <2>3
<1>4. \A o \in before \cup after : o.side = side /\ o.price = p => o \in before /\ o \in after
  BY DEF MoreAggressive
<1> QED
  BY <1>3, <1>4 DEF Top

(* What an update that has an order of the book or a new one does to it.   *)
Replaces(update) ==
  /\ update.side \in Sides /\ update.price \in Nat
  /\ \A o \in fed \cup fed' :
       (o \in fed /\ o \in fed') \/ (o.side = update.side /\ o.price = update.price)

(* An update of the other side or at a worse price is not noticed, and     *)
(* need not be.                                                            *)
LEMMA NotNoticed ==
  ASSUME ShowsBest, ShowsBest', NEW update, Replaces(update), NEW side \in Sides,
         best[side] # Null, ~ IsUpdated(side, update)
  PROVE  BestOffer(side)' = BestOffer(side)
<1>1. PICK p : p = levels[best[side]].price
  OBVIOUS
<1>2. /\ p \in Nat /\ Top(fed, side) = {o \in fed : o.side = side /\ o.price = p}
      /\ Top(fed, side) # {}
  BY <1>1 DEF ShowsBest, ShowsTop
<1>3. update.side # side \/ MoreAggressive(side, p, update.price)
  BY <1>1 DEF IsUpdated
<1>4. PICK first \in fed : first.side = side /\ first.price = p
  BY <1>2
<1>5. ASSUME NEW o \in fed \cup fed'
      PROVE  /\ o.price \in Nat
             /\ (o \in fed /\ o \in fed') \/ o.side # side \/ MoreAggressive(side, p, o.price)
  BY <1>3 DEF Replaces, ShowsBest
<1>6. first \in fed'
  BY <1>2, <1>4, <1>5 DEF MoreAggressive
<1>7. Top(fed', side) = Top(fed, side)
  BY <1>2, <1>4, <1>5, <1>6, SameTop
<1>8. BestOffer(side) = OfferOf(Top(fed, side)) /\ BestOffer(side)' = OfferOf(Top(fed', side))
  BY DEF ShowsBest
<1> QED
  BY <1>7, <1>8

LEMMA Noticed ==
  ASSUME ShowsBest', NEW update, update_bbo(update), NEW side \in Sides, IsUpdated(side, update)
  PROVE  bbo'[side] = BestOffer(side)'
<1>1. alive' = TRUE /\ BestOffer(side)' = TopNow(side)'
  BY DEF ShowsBest
<1>2. TopNow(side)' = TopOfBook(side)
  BY DEF TopNow, TopOfBook, Queue, NoOffer
<1>3. bbo'[side] = TopOfBook(side)
  BY <1>1 DEF update_bbo
<1> QED
  BY <1>1, <1>2, <1>3

(* What BBOStaysRight says of a step.                                      *)
KeepsUp ==
  \A side \in Sides :
    LET before == BestOffer(side)
    IN alive' /\ n_clears' = n_clears /\ before # NoOffer
         /\ (bbo[side] = before \/ BestOffer(side)' # before)
       => bbo'[side] = BestOffer(side)'

LEMMA UpdateKeepsUp ==
  ASSUME ShowsBest, ShowsBest', NEW update, Replaces(update), update_bbo(update)
  PROVE  KeepsUp
<1> SUFFICES ASSUME NEW side \in Sides, BestOffer(side) # NoOffer,
                    bbo[side] = BestOffer(side) \/ BestOffer(side)' # BestOffer(side)
             PROVE  bbo'[side] = BestOffer(side)'
  BY DEF KeepsUp
<1>1. best[side] # Null
  BY DEF ShowsBest, TopNow
<1>2. CASE IsUpdated(side, update)
  BY <1>2, Noticed
<1>3. CASE ~ IsUpdated(side, update)
  <2>1. BestOffer(side)' = BestOffer(side)
    BY <1>1, <1>3, NotNoticed
  <2>2. bbo'[side] = bbo[side]
    BY <1>3 DEF update_bbo
  <2> QED
    BY <2>1, <2>2
<1> QED
  BY <1>2, <1>3

LEMMA NextKeepsUp ==
  ASSUME ShowsBest, ShowsBest', IInv, n_clears \in Nat, Next
  PROVE  KeepsUp
<1>1. PICK L, Q : Book(L, Q)
  BY DEF IInv
<1>2. \A o \in fed : o.side \in Sides /\ o.price \in Nat
  BY <1>1 DEF Book, FedOK
<1>3. ASSUME NEW oid \in OrderIds, NEW quote \in Quotes, NEW qty \in Quantities,
             Add([oid |-> oid, side |-> quote[1], price |-> quote[2], qty |-> qty])
      PROVE  KeepsUp
  <2>1. PICK order : order = [oid |-> oid, side |-> quote[1], price |-> quote[2], qty |-> qty]
    OBVIOUS
  <2>2. update_bbo(order) /\ fed' = fed \cup {order}
    BY <1>3, <2>1 DEF Add
  <2>3. quote \in {"BUY", "SELL"} \X Nat
    BY TEAssumption
  <2>4. order.side \in Sides /\ order.price \in Nat
    BY <2>1, <2>3 DEF Sides
  <2>5. Replaces(order)
    BY <2>2, <2>4 DEF Replaces
  <2> QED
    BY <2>2, <2>5, UpdateKeepsUp
<1>4. ASSUME NEW order \in fed, NEW qty \in Quantities, Modify(order, qty)
      PROVE  KeepsUp
  <2>1. PICK modified : modified = [order EXCEPT !.qty = qty]
    OBVIOUS
  <2>2. update_bbo(order) /\ fed' = (fed \ {order}) \cup {modified}
    BY <1>4, <2>1 DEF Modify
  <2>3. order \in [oid: 1 .. last_oid, side: Sides, price: Nat, qty: Nat]
    BY <1>1 DEF Book, FedOK
  <2>4. modified.side = order.side /\ modified.price = order.price
    BY <2>1, <2>3
  <2>5. Replaces(order)
    BY <1>2, <2>2, <2>4 DEF Replaces
  <2> QED
    BY <2>2, <2>5, UpdateKeepsUp
<1>5. ASSUME NEW order \in fed, Cancel(order)
      PROVE  KeepsUp
  <2>1. update_bbo(order) /\ fed' = fed \ {order}
    BY <1>5 DEF Cancel
  <2>2. Replaces(order)
    BY <1>2, <2>1 DEF Replaces
  <2> QED
    BY <2>1, <2>2, UpdateKeepsUp
<1>6. CASE Clear
  BY <1>6 DEF Clear, KeepsUp
<1> QED
  BY <1>3, <1>4, <1>5, <1>6 DEF Next

LEMMA ClearsCounted == Spec => [](n_clears \in Nat)
<1>1. Init => n_clears \in Nat
  BY DEF Init
<1>2. n_clears \in Nat /\ [Next]_vars => (n_clears \in Nat)'
  <2> SUFFICES ASSUME n_clears \in Nat, [Next]_vars
               PROVE  n_clears' \in Nat
    OBVIOUS
  <2>1. \A order : Add(order) => n_clears' = n_clears
    BY DEF Add
  <2>2. \A order, qty : Modify(order, qty) => n_clears' = n_clears
    BY DEF Modify
  <2>3. \A order : Cancel(order) => n_clears' = n_clears
    BY DEF Cancel
  <2>4. Clear => n_clears' = n_clears + 1
    BY DEF Clear
  <2>5. UNCHANGED vars => n_clears' = n_clears
    BY DEF vars, feed
  <2>6. n_clears' = n_clears \/ n_clears' = n_clears + 1
    BY <2>1, <2>2, <2>3, <2>4, <2>5 DEF Next
  <2> QED
    BY <2>6
<1> QED
  BY <1>1, <1>2, PTL DEF Spec

(* An update of a side with orders never spoils a best offer that is       *)
(* right, and never misses one that changes.                               *)
THEOREM BestOffersKeepUp == ~ ReusedPrices => (Spec => BBOStaysRight)
<1> SUFFICES ASSUME ~ ReusedPrices
             PROVE  Spec => BBOStaysRight
  OBVIOUS
<1>1. IInv /\ IInv' /\ n_clears \in Nat /\ [Next]_vars => [KeepsUp]_vars
  <2> SUFFICES ASSUME IInv, IInv', n_clears \in Nat, Next
               PROVE  KeepsUp
    OBVIOUS
  <2>1. ShowsBest
    BY IInvShowsBest
  <2>2. ShowsBest'
    BY IInvShowsBest, PTL
  <2> QED
    BY <2>1, <2>2, NextKeepsUp
<1>2. [KeepsUp]_vars <=>
        [\A side \in Sides :
           LET before == BestOffer(side)
           IN alive' /\ n_clears' = n_clears /\ before # NoOffer
                /\ (bbo[side] = before \/ BestOffer(side)' # before)
              => bbo'[side] = BestOffer(side)']_vars
  BY DEF KeepsUp
<1>3. Spec => []IInv /\ [](n_clears \in Nat)
  BY Invariance, ClearsCounted, PTL
<1> QED
  BY <1>1, <1>2, <1>3, PTL DEF Spec, BBOStaysRight
=============================================================================
