------------------------------- MODULE MemPool -------------------------------
(***************************************************************************)
(* LL::MemPool<T>, the fixed pool the order books and the snapshot          *)
(* synthesizer take their objects from.  The pool is used by one thread.   *)
(* A failed ASSERT ends the process (macros.h).                            *)
(***************************************************************************)
EXTENDS Integers, FiniteSets

CONSTANT N   \* how many blocks the pool is built with

ASSUME NAssumption == N \in Nat \ {0}

VARIABLES
  is_free,      \* block -> may be handed out
  i_next_free,  \* the block the next allocate() hands out
  alive         \* no ASSERT has failed

vars == <<is_free, i_next_free, alive>>

Blocks == 0 .. N - 1

Used == {i \in Blocks : ~ is_free[i]}

(* The k-th block after i, going round.                                    *)
After(i, k) == IF i + k < N THEN i + k ELSE i + k - N

(* Slip: takes the next block without looking whether it is free.        *)
NextBlockWithoutScan(free, i) == After(i, 1)

(* Where the scan of update_next_free_index stops when it starts at i: at  *)
(* the first free block of those that follow, provided one is free.        *)
FirstFreeAfter(free, i) ==
  After(i, CHOOSE k \in 1 .. N - 1 :
             free[After(i, k)] /\ \A j \in 1 .. k - 1 : ~ free[After(i, j)])

(* Slip: gives up one block too early.                                   *)
OverrunOnSecondLast(free, i) == \A j \in Blocks : free[j] => j = After(i, 1)

(* The scan that comes back to where it began has found no free block.     *)
Overrun(free, i) == \A j \in Blocks : ~ free[j]

Init ==
  /\ is_free = [i \in Blocks |-> TRUE]
  /\ i_next_free = 0
  /\ alive = TRUE

(* Slip: scans before it takes a block.                                  *)
allocate_scanning_first ==
  /\ alive
  /\ IF Used = Blocks
     THEN alive' = FALSE /\ UNCHANGED <<is_free, i_next_free>>
     ELSE LET i == IF is_free[i_next_free] THEN i_next_free
                   ELSE FirstFreeAfter(is_free, i_next_free)
          IN is_free' = [is_free EXCEPT ![i] = FALSE] /\ i_next_free' = i /\ UNCHANGED alive

(* The block is taken before the pool looks for the next one, so the       *)
(* process ends while the last free block is being handed out.             *)
allocate ==
  /\ alive
  /\ is_free' = [is_free EXCEPT ![i_next_free] = FALSE]
  /\ IF ~ is_free[i_next_free] \/ Overrun(is_free', i_next_free)
     THEN alive' = FALSE /\ UNCHANGED i_next_free
     ELSE i_next_free' = FirstFreeAfter(is_free', i_next_free) /\ UNCHANGED alive

(* Slip: the index moves to just behind the freed block.                 *)
deallocate_moving_index(i) ==
  /\ alive
  /\ ~ is_free[i]
  /\ is_free' = [is_free EXCEPT ![i] = TRUE]
  /\ i_next_free' = i + 1
  /\ UNCHANGED alive

(* Giving back a block that is not in use fails an ASSERT.  The index of   *)
(* the next free block stays where it is.                                  *)
deallocate(i) ==
  /\ alive
  /\ IF is_free[i]
     THEN alive' = FALSE /\ UNCHANGED is_free
     ELSE is_free' = [is_free EXCEPT ![i] = TRUE] /\ UNCHANGED alive
  /\ UNCHANGED i_next_free

Next == allocate \/ \E i \in Blocks : deallocate(i)

Spec == Init /\ [][Next]_vars

-----------------------------------------------------------------------------
TypeOK ==
  /\ is_free \in [Blocks -> BOOLEAN]
  /\ i_next_free \in Blocks
  /\ alive \in BOOLEAN

(* The pool always knows a free block, whatever was given back and in      *)
(* which order: allocate()'s own ASSERT never fails and no object is       *)
(* placed over a live one.                                                 *)
NextFreeIsFree == alive => is_free[i_next_free]

(* One block is never handed out: a pool built with N blocks holds at most *)
(* N - 1 objects, and holds that many.                                     *)
HoldsOneLess == alive => Cardinality(Used) < N

(* allocate() ends the process only when all blocks but one are in use.    *)
FailsOnlyWhenFull ==
  [][allocate /\ ~ alive' => Cardinality(Used) = N - 1]_vars
=============================================================================
