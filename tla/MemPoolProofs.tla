---------------------------- MODULE MemPoolProofs ----------------------------
(***************************************************************************)
(* MemPool for every number of blocks.                                     *)
(***************************************************************************)
EXTENDS MemPool, FiniteSetTheorems, WellFoundedInduction, TLAPS

(* A nonempty set of natural numbers has a least element.                  *)
LEMMA LeastElement ==
  ASSUME NEW K \in SUBSET Nat, K # {}
  PROVE  \E m \in K : \A k \in K : m <= k
<1>1. PICK m \in K : \A k \in K : ~ (<<k, m>> \in OpToRel(<, Nat))
  BY NatLessThanWellFounded, WFMin
<1>2. \A k \in K : ~ (k < m)
  BY <1>1 DEF OpToRel
<1> QED
  BY <1>2

(* The scan of update_next_free_index ends at a free block whenever there  *)
(* is one.                                                                 *)
LEMMA ScanFindsFreeBlock ==
  ASSUME NEW free \in [Blocks -> BOOLEAN], NEW i \in Blocks,
         ~ free[i], \E j \in Blocks : free[j]
  PROVE  FirstFreeAfter(free, i) \in Blocks /\ free[FirstFreeAfter(free, i)]
<1> DEFINE Hits == {k \in 1 .. N - 1 : free[After(i, k)]}
           k0 == CHOOSE k \in 1 .. N - 1 :
                   free[After(i, k)] /\ \A j \in 1 .. k - 1 : ~ free[After(i, j)]
<1>1. PICK j \in Blocks : free[j]
  OBVIOUS
<1>2. (IF j > i THEN j - i ELSE j - i + N) \in Hits
  BY <1>1, NAssumption DEF Blocks, After
<1>3. PICK m \in Hits : \A k \in Hits : m <= k
  <2>1. Hits \in SUBSET Nat /\ Hits # {}
    BY <1>2, NAssumption
  <2> HIDE DEF Hits
  <2> QED
    BY <2>1, LeastElement
<1>4. \A l \in 1 .. m - 1 : ~ free[After(i, l)]
  BY <1>3, NAssumption
<1>5. k0 \in 1 .. N - 1 /\ free[After(i, k0)]
  BY <1>3, <1>4
<1>6. After(i, k0) \in Blocks
  BY <1>5, NAssumption DEF After, Blocks
<1> QED
  BY <1>5, <1>6 DEF FirstFreeAfter

IInv == TypeOK /\ NextFreeIsFree

LEMMA InitIInv == Init => IInv
  BY NAssumption DEF Init, IInv, TypeOK, NextFreeIsFree, Blocks

LEMMA NextIInv == IInv /\ [Next]_vars => IInv'
<1> SUFFICES ASSUME IInv, [Next]_vars
             PROVE  IInv'
  OBVIOUS
<1> USE DEF IInv, TypeOK, NextFreeIsFree
<1>1. CASE allocate
  <2>1. is_free' \in [Blocks -> BOOLEAN] /\ ~ is_free'[i_next_free]
    BY <1>1 DEF allocate
  <2>2. CASE ~ is_free[i_next_free] \/ Overrun(is_free', i_next_free)
    BY <1>1, <2>1, <2>2 DEF allocate
  <2>3. CASE is_free[i_next_free] /\ ~ Overrun(is_free', i_next_free)
    <3>1. i_next_free' = FirstFreeAfter(is_free', i_next_free) /\ alive' = alive
      BY <1>1, <2>3 DEF allocate
    <3>2. \E j \in Blocks : is_free'[j]
      BY <2>3 DEF Overrun
    <3>3. i_next_free' \in Blocks /\ is_free'[i_next_free']
      BY <2>1, <3>1, <3>2, ScanFindsFreeBlock
    <3> QED
      BY <2>1, <3>1, <3>3
  <2> QED
    BY <2>2, <2>3
<1>2. ASSUME NEW i \in Blocks, deallocate(i)
      PROVE  IInv'
  BY <1>2 DEF deallocate
<1>3. CASE UNCHANGED vars
  BY <1>3 DEF vars
<1> QED
  BY <1>1, <1>2, <1>3 DEF Next

LEMMA Invariance == Spec => []IInv
  BY InitIInv, NextIInv, PTL DEF Spec

(* The pool's index always names a free block (or the process has ended).  *)
THEOREM AlwaysNextFreeIsFree == Spec => []NextFreeIsFree
  BY Invariance, PTL DEF IInv

(* Types of the pool's bookkeeping.                                        *)
THEOREM TypeCorrect == Spec => []TypeOK
  BY Invariance, PTL DEF IInv

-----------------------------------------------------------------------------
LEMMA BlocksFinite == IsFiniteSet(Blocks) /\ Cardinality(Blocks) = N
  BY FS_Interval, NAssumption DEF Blocks

LEMMA UsedFinite == IsFiniteSet(Used) /\ Cardinality(Used) \in Nat
  BY BlocksFinite, FS_Subset, FS_CardinalityType DEF Used

(* A pool of N blocks never holds more than N - 1 objects.                 *)
THEOREM AlwaysHoldsOneLess == Spec => []HoldsOneLess
<1>1. IInv => HoldsOneLess
  <2> SUFFICES ASSUME IInv, alive
               PROVE  Cardinality(Used) < N
    BY DEF HoldsOneLess
  <2>1. i_next_free \in Blocks /\ i_next_free \notin Used
    BY DEF IInv, TypeOK, NextFreeIsFree, Used
  <2>2. Used \in SUBSET Blocks /\ Used # Blocks
    BY <2>1 DEF Used
  <2>3. Cardinality(Used) <= N /\ Cardinality(Used) # N
    BY <2>2, BlocksFinite, FS_Subset
  <2> QED
    BY <2>3, UsedFinite, NAssumption
<1> QED
  BY <1>1, Invariance, PTL

(* allocate() ends the process only when N - 1 blocks are in use: the      *)
(* overrun check never fires early.                                        *)
THEOREM AllocateFailsOnlyWhenFull == Spec => FailsOnlyWhenFull
<1>1. IInv /\ allocate /\ ~ alive' => Cardinality(Used) = N - 1
  <2> SUFFICES ASSUME IInv, allocate, ~ alive'
               PROVE  Cardinality(Used) = N - 1
    OBVIOUS
  <2>1. is_free[i_next_free] /\ i_next_free \in Blocks
    BY DEF IInv, TypeOK, NextFreeIsFree, allocate
  <2>2. \A j \in Blocks : ~ is_free'[j]
    BY <2>1 DEF allocate, Overrun, IInv, TypeOK
  <2>3. \A j \in Blocks : j # i_next_free => ~ is_free[j]
    BY <2>1, <2>2 DEF allocate, IInv, TypeOK
  <2>4. Used = Blocks \ {i_next_free}
    BY <2>1, <2>3 DEF Used
  <2> QED
    BY <2>1, <2>4, BlocksFinite, FS_RemoveElement
<1>2. IInv /\ [Next]_vars => [allocate /\ ~ alive' => Cardinality(Used) = N - 1]_vars
  BY <1>1
<1> QED
  BY <1>2, Invariance, PTL DEF Spec, FailsOnlyWhenFull
=============================================================================
