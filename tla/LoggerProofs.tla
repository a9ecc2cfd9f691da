---------------------------- MODULE LoggerProofs ----------------------------
(***************************************************************************)
(* LFQueue and Logger for every size of the queue and every number of      *)
(* items.                                                                  *)
(*                                                                         *)
(* The count of the queue lags behind the two indices, which is why the    *)
(* properties of LFQueue are not inductive: the invariant below says how   *)
(* far it lags at each place of the two threads (Counts), and where the    *)
(* items lie that were written and not read yet (Layout).                  *)
(*                                                                         *)
(* Of a logger this says that a count of zero means that all is written.   *)
(* What has to be added is that it stays zero from the moment the          *)
(* destructor has seen it, and that the thread leaves its inner loop only  *)
(* between two elements (Phases).                                          *)
(***************************************************************************)
EXTENDS Logger, TLAPS

(* Items whose block is complete, that the write index has passed, and     *)
(* that the count has been raised for.                                     *)
Complete == IF writer = "filling" THEN n_written - 1 ELSE n_written

Passed == IF writer \in {"filling", "filled"} THEN n_written - 1 ELSE n_written

Counted == IF writer = "idle" THEN n_written ELSE n_written - 1

(* The block that lies d blocks after the read index, for d up to Size.    *)
Ahead(d) == IF i_read + d < Size THEN i_read + d ELSE i_read + d - Size

Counts ==
  /\ writer # "idle" => n_written > 0
  /\ n_read <= Counted
  /\ reader = "holding" => n_read < Counted
  /\ reader # "failed"
  /\ n_blocks = Counted - n_read + (IF reader = "counting" THEN 1 ELSE 0)

Layout ==
  /\ n_written - n_read <= Size
  /\ i_write = Ahead(Passed - n_read)
  /\ \A k \in Nat : n_read < k /\ k <= Complete => blocks[Ahead(k - n_read - 1)] = k

IInv == TypeOK /\ Counts /\ (~ overrun => Layout)

(* An index that is advanced modulo the size steps to the next block, from *)
(* the last one to the first.                                              *)
LEMMA NextBlock ==
  ASSUME NEW i \in Blocks
  PROVE  (i + 1) % Size = IF i + 1 < Size THEN i + 1 ELSE 0
<1>1. CASE i + 1 < Size
  BY <1>1, QueueAssumption DEF Blocks
<1>2. CASE i + 1 = Size
  BY <1>2, QueueAssumption DEF Blocks
<1> QED
  BY <1>1, <1>2, QueueAssumption DEF Blocks

LEMMA InitIInv == Init => IInv
<1> SUFFICES ASSUME Init
             PROVE  IInv
  OBVIOUS
<1>1. TypeOK
  <2>1. blocks \in [Blocks -> Nat]
    BY DEF Init, Unfinished
  <2>2. 0 \in Blocks
    BY QueueAssumption DEF Blocks
  <2>3. overrun \in BOOLEAN
    BY Zenon DEF Init
  <2> QED
    BY <2>1, <2>2, <2>3 DEF Init, TypeOK
<1>2. Counts
  BY DEF Init, Counts, Counted
<1>3. Layout
  BY QueueAssumption DEF Init, Layout, Complete, Passed, Ahead
<1> QED
  BY <1>1, <1>2, <1>3 DEF IInv

-----------------------------------------------------------------------------
LEMMA WriteIInv == IInv /\ Write => IInv'
<1> SUFFICES ASSUME IInv, Write
             PROVE  IInv'
  OBVIOUS
<1> USE QueueAssumption DEF IInv, TypeOK, Counts, Layout, Blocks, Unfinished,
        Complete, Passed, Counted, Ahead
<1>1. CASE get_next_to_write
  <2>1. TypeOK' /\ Counts'
    BY <1>1 DEF get_next_to_write
  <2>2. ASSUME ~ overrun'
        PROVE  Layout'
    <3>1. ~ overrun /\ n_blocks < Size
      <4>1. ~ (overrun \/ n_blocks >= Size)
        BY <1>1, <2>2, Zenon DEF get_next_to_write
      <4> QED
        BY <4>1
    <3>2. n_written' - n_read' <= Size
      BY <1>1, <3>1 DEF get_next_to_write
    <3>3. i_write' = Ahead(Passed - n_read)'
      BY <1>1, <3>1 DEF get_next_to_write
    <3>4. ASSUME NEW k \in Nat, n_read' < k, k <= Complete'
          PROVE  blocks'[Ahead(k - n_read - 1)'] = k
      <4>1. n_read < k /\ k <= Complete /\ blocks[Ahead(k - n_read - 1)] = k
        BY <1>1, <3>1, <3>4 DEF get_next_to_write
      <4>2. Ahead(k - n_read - 1) # i_write
        BY <1>1, <3>1, <4>1 DEF get_next_to_write
      <4> QED
        BY <1>1, <4>1, <4>2 DEF get_next_to_write
    <3> QED
      BY <3>2, <3>3, <3>4
  <2> QED
    BY <2>1, <2>2
<1>2. CASE fill_block
  <2>1. TypeOK' /\ Counts'
    BY <1>2 DEF fill_block
  <2>2. ASSUME ~ overrun'
        PROVE  Layout'
    <3>1. ~ overrun
      BY <1>2, <2>2 DEF fill_block
    <3>2. ASSUME NEW k \in Nat, n_read' < k, k <= Complete'
          PROVE  blocks'[Ahead(k - n_read - 1)'] = k
      <4>1. CASE k = n_written
        BY <1>2, <3>1, <3>2, <4>1 DEF fill_block
      <4>2. CASE k # n_written
        <5>1. n_read < k /\ k <= Complete /\ blocks[Ahead(k - n_read - 1)] = k
          BY <1>2, <3>1, <3>2, <4>2 DEF fill_block
        <5>2. Ahead(k - n_read - 1) # i_write
          BY <1>2, <3>1, <5>1 DEF fill_block
        <5> QED
          BY <1>2, <5>1, <5>2 DEF fill_block
      <4> QED
        BY <4>1, <4>2
    <3> QED
      BY <1>2, <3>1, <3>2 DEF fill_block
  <2> QED
    BY <2>1, <2>2
<1>3. CASE advance_write
  <2>1. /\ writer = "filled" /\ writer' = "counting"
        /\ i_write' = IF i_write + 1 < Size THEN i_write + 1 ELSE 0
        /\ UNCHANGED <<blocks, n_blocks, i_read, reader, n_written, n_read, overrun>>
    BY <1>3, NextBlock DEF advance_write
  <2>2. TypeOK' /\ Counts'
    BY <2>1
  <2>3. ASSUME ~ overrun'
        PROVE  Layout'
    <3>1. ~ overrun
      BY <2>1, <2>3
    <3>2. i_write' = Ahead(Passed - n_read)'
      BY <2>1, <3>1
    <3>3. \A k \in Nat : n_read' < k /\ k <= Complete' => blocks'[Ahead(k - n_read - 1)'] = k
      BY <2>1, <3>1
    <3> QED
      BY <2>1, <3>1, <3>2, <3>3
  <2> QED
    BY <2>2, <2>3
<1>4. CASE count_write
  BY <1>4 DEF count_write
<1> QED
  BY <1>1, <1>2, <1>3, <1>4 DEF Write

LEMMA ReadIInv == IInv /\ Read => IInv'
<1> SUFFICES ASSUME IInv, Read
             PROVE  IInv'
  OBVIOUS
<1> USE QueueAssumption DEF IInv, TypeOK, Counts, Layout, Blocks,
        Complete, Passed, Counted, Ahead
<1>1. CASE get_next_to_read
  BY <1>1 DEF get_next_to_read
<1>2. CASE advance_read
  <2>1. /\ reader = "holding" /\ reader' = "counting"
        /\ i_read' = IF i_read + 1 < Size THEN i_read + 1 ELSE 0
        /\ n_read' = n_read + 1
        /\ UNCHANGED <<blocks, n_blocks, i_write, writer, n_written, overrun>>
    BY <1>2, NextBlock DEF advance_read
  <2>2. TypeOK' /\ Counts'
    BY <2>1
  <2>3. ASSUME ~ overrun'
        PROVE  Layout'
    <3>1. ~ overrun
      BY <2>1, <2>3
    <3>2. i_write' = Ahead(Passed - n_read)'
      BY <2>1, <3>1
    <3>3. ASSUME NEW k \in Nat, n_read' < k, k <= Complete'
          PROVE  blocks'[Ahead(k - n_read - 1)'] = k
      <4>1. blocks[Ahead(k - n_read - 1)] = k
        BY <2>1, <3>1, <3>3
      <4>2. Ahead(k - n_read - 1)' = Ahead(k - n_read - 1)
        BY <2>1, <3>1, <3>3
      <4> QED
        BY <2>1, <4>1, <4>2
    <3> QED
      BY <2>1, <3>1, <3>2, <3>3
  <2> QED
    BY <2>2, <2>3
<1>3. CASE count_read
  BY <1>3 DEF count_read
<1> QED
  BY <1>1, <1>2, <1>3 DEF Read

LEMMA Invariance == Spec => []IInv
<1>1. IInv /\ [Next]_vars => IInv'
  <2>1. IInv /\ UNCHANGED vars => IInv'
    BY DEF vars, IInv, TypeOK, Counts, Layout, Blocks, Complete, Passed, Counted, Ahead
  <2> QED
    BY <2>1, WriteIInv, ReadIInv DEF Next
<1> QED
  BY <1>1, InitIInv, PTL DEF Spec

-----------------------------------------------------------------------------
(* As long as the writer keeps within the queue, the block the reader      *)
(* holds is the next item, complete and unchanged, for queues of any size. *)
THEOREM AlwaysReaderHoldsNextItem == Spec => []ReaderHoldsNextItem
<1>1. IInv => ReaderHoldsNextItem
  <2> SUFFICES ASSUME IInv, ~ overrun, reader = "holding"
               PROVE  blocks[i_read] = n_read + 1
    BY DEF ReaderHoldsNextItem
  <2>1. n_read + 1 \in Nat /\ n_read < n_read + 1 /\ n_read + 1 <= Complete
    BY DEF IInv, TypeOK, Counts, Counted, Complete
  <2>2. blocks[Ahead((n_read + 1) - n_read - 1)] = n_read + 1
    BY <2>1 DEF IInv, Layout
  <2>3. Ahead((n_read + 1) - n_read - 1) = i_read
    BY QueueAssumption DEF IInv, TypeOK, Blocks, Ahead
  <2> QED
    BY <2>2, <2>3
<1> QED
  BY <1>1, Invariance, PTL

(* The ASSERT of increment_read_index never fails, overrun or not.         *)
THEOREM AlwaysCountNeverZeroAtRead == Spec => []CountNeverZeroAtRead
<1>1. IInv => CountNeverZeroAtRead
  BY DEF IInv, Counts, CountNeverZeroAtRead
<1> QED
  BY <1>1, Invariance, PTL

(* A count of zero means that every item written has been handled.         *)
THEOREM AlwaysEmptyMeansHandled == Spec => []EmptyMeansHandled
<1>1. IInv => EmptyMeansHandled
  BY DEF IInv, TypeOK, Counts, Counted, EmptyMeansHandled
<1> QED
  BY <1>1, Invariance, PTL

(* Types of the indices and counts.                                        *)
THEOREM TypeCorrect == Spec => []TypeOK
<1>1. IInv => TypeOK
  BY DEF IInv
<1> QED
  BY <1>1, Invariance, PTL

-----------------------------------------------------------------------------
(* The logger.                                                             *)

Phases ==
  /\ owner \in {"logging", "waiting", "stopping", "joining", "closed"}
  /\ owner # "logging" => writer = "idle"
  /\ thread # "inner" => reader = "idle"
  /\ owner \in {"stopping", "joining", "closed"} => n_blocks = 0
  /\ owner = "closed" => thread = "ended"

LInv == IInv /\ Phases

(* What the logger's threads do to the queue are steps of a queue.         *)
LEMMA StepsOfQueue == [LoggerNext]_loggerVars => [Next]_vars
<1> SUFFICES ASSUME [LoggerNext]_loggerVars
             PROVE  [Next]_vars
  OBVIOUS
<1>1. CASE BeginElement \/ push_element
  BY <1>1 DEF BeginElement, push_element, Next, Write
<1>2. CASE WriteElement
  BY <1>2 DEF WriteElement, Next
<1>3. CASE StartProcess \/ TestRunning \/ Flush
  BY <1>3 DEF StartProcess, TestRunning, Flush
<1>4. CASE BeginDestruction \/ QueueIsEmpty \/ StopRunning \/ Join
  BY <1>4 DEF BeginDestruction, QueueIsEmpty, StopRunning, Join
<1>5. CASE UNCHANGED loggerVars
  BY <1>5 DEF loggerVars
<1> QED
  BY <1>1, <1>2, <1>3, <1>4, <1>5 DEF LoggerNext, process_queue

(* The queue's invariant at any step of the logger.                        *)
LEMMA StepIInv == IInv /\ [LoggerNext]_loggerVars => IInv'
<1>1. IInv /\ UNCHANGED vars => IInv'
  BY DEF vars, IInv, TypeOK, Counts, Layout, Blocks, Complete, Passed, Counted, Ahead
<1> QED
  BY <1>1, StepsOfQueue, WriteIInv, ReadIInv DEF Next

(* A queue that counts zero is not being read.                             *)
LEMMA EmptyIsIdle == IInv /\ n_blocks = 0 => reader = "idle"
  BY DEF IInv, TypeOK, Counts, Counted

LEMMA StepPhases == LInv /\ [LoggerNext]_loggerVars => Phases'
<1> SUFFICES ASSUME LInv, [LoggerNext]_loggerVars
             PROVE  Phases'
  OBVIOUS
<1> USE DEF LInv, Phases
<1>1. CASE BeginElement
  BY <1>1 DEF BeginElement, get_next_to_write
<1>2. CASE push_element
  BY <1>2 DEF push_element, fill_block, advance_write, count_write
<1>3. CASE StartProcess \/ TestRunning \/ Flush
  BY <1>3 DEF StartProcess, TestRunning, Flush, vars
<1>4. CASE WriteElement
  <2>1. owner \in {"stopping", "joining", "closed"} => n_blocks = 0 /\ reader = "idle"
    BY EmptyIsIdle
  <2> QED
    BY <1>4, <2>1
       DEF WriteElement, Read, get_next_to_read, advance_read, count_read
<1>5. CASE BeginDestruction \/ QueueIsEmpty \/ StopRunning \/ Join
  BY <1>5 DEF BeginDestruction, QueueIsEmpty, StopRunning, Join, vars
<1>6. CASE UNCHANGED loggerVars
  BY <1>6 DEF loggerVars, vars
<1> QED
  BY <1>1, <1>2, <1>3, <1>4, <1>5, <1>6 DEF LoggerNext, process_queue

LEMMA LoggerInvariance == LoggerSpec => []LInv
<1>1. LoggerInit => LInv
  <2>1. LoggerInit => IInv
    BY InitIInv DEF LoggerInit
  <2> QED
    BY <2>1 DEF LoggerInit, Init, LInv, Phases
<1>2. LInv /\ [LoggerNext]_loggerVars => LInv'
  BY StepIInv, StepPhases DEF LInv
<1> QED
  BY <1>1, <1>2, PTL DEF LoggerSpec

-----------------------------------------------------------------------------
(* A logger uses its queue as the queue wants it: one thread writes, one   *)
(* reads, so what holds of every LFQueue holds of the logger's.            *)
THEOREM UsesQueueProperly == LoggerSpec => Init /\ [][Next]_vars
<1>1. LoggerInit => Init
  BY DEF LoggerInit
<1> QED
  BY <1>1, StepsOfQueue, PTL DEF LoggerSpec

(* No log is lost: whatever was logged before the destructor is in the     *)
(* file when it closes it, for queues of any size.                         *)
THEOREM AlwaysAllLoggedWhenClosed == LoggerSpec => []AllLoggedWhenClosed
<1>1. LInv => AllLoggedWhenClosed
  <2> SUFFICES ASSUME LInv, owner = "closed"
               PROVE  n_read = n_written /\ reader = "idle" /\ thread = "ended"
    BY DEF AllLoggedWhenClosed
  <2>1. n_blocks = 0 /\ writer = "idle" /\ reader = "idle" /\ thread = "ended"
    BY DEF LInv, Phases
  <2> QED
    BY <2>1 DEF LInv, IInv, TypeOK, Counts, Counted
<1> QED
  BY <1>1, LoggerInvariance, PTL
=============================================================================
