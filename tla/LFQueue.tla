------------------------------- MODULE LFQueue -------------------------------
(***************************************************************************)
(* LL::LFQueue<T>, the queue between two threads of the exchange or of the *)
(* client: one thread writes, one reads.  The three indices are atomics;   *)
(* each step below reads or writes at most one that the other thread       *)
(* writes.  Filling a block is not atomic: it is unfinished in between.    *)
(*                                                                         *)
(* The queue never checks whether it is full, and neither do its callers.  *)
(* The writer here may therefore run over blocks that were not read yet;   *)
(* `overrun' records that it did.  The item with number k is the k-th      *)
(* written.                                                                *)
(***************************************************************************)
EXTENDS Integers

CONSTANTS
  Size,      \* blocks of the queue
  MaxItems   \* bound: how many items are written

ASSUME QueueAssumption == Size \in Nat \ {0} /\ MaxItems \in Nat

VARIABLES
  blocks,    \* block -> number of the item in it, Unfinished while it is filled
  n_blocks,  \* the number of items the queue says it has
  i_write, i_read,
  writer,    \* where the writing thread is
  reader,    \* where the reading thread is
  n_written, \* items written, the one at work included
  n_read,    \* items the reader is done with
  overrun    \* the writer was given a block while the count said that all were to be read

vars == <<blocks, n_blocks, i_write, i_read, writer, reader, n_written, n_read, overrun>>

Blocks == 0 .. Size - 1

Unfinished == 0

Init ==
  /\ blocks = [b \in Blocks |-> Unfinished]
  /\ n_blocks = 0
  /\ i_write = 0
  /\ i_read = 0
  /\ writer = "idle"
  /\ reader = "idle"
  /\ n_written = 0
  /\ n_read = 0
  /\ overrun = FALSE

-----------------------------------------------------------------------------
(* The writing thread.                                                     *)

(* Slip: the item is counted before it is written.                       *)
get_next_to_write_counted ==
  /\ writer = "idle"
  /\ n_written < MaxItems
  /\ n_written' = n_written + 1
  /\ n_blocks' = n_blocks + 1
  /\ writer' = "filling"
  /\ UNCHANGED <<blocks, i_write, i_read, reader, n_read, overrun>>

(* The caller has the block of get_next_to_write() and starts to fill it.  *)
get_next_to_write ==
  /\ writer = "idle"
  /\ n_written < MaxItems
  /\ n_written' = n_written + 1
  /\ blocks' = [blocks EXCEPT ![i_write] = Unfinished]
  /\ overrun' = (overrun \/ n_blocks >= Size)
  /\ writer' = "filling"
  /\ UNCHANGED <<n_blocks, i_write, i_read, reader, n_read>>

fill_block ==
  /\ writer = "filling"
  /\ blocks' = [blocks EXCEPT ![i_write] = n_written]
  /\ writer' = "filled"
  /\ UNCHANGED <<n_blocks, i_write, i_read, reader, n_written, n_read, overrun>>

(* Slip: the index runs over the end.                                    *)
advance_write_without_wrap ==
  /\ writer = "filled"
  /\ i_write' = i_write + 1
  /\ writer' = "counting"
  /\ UNCHANGED <<blocks, n_blocks, i_read, reader, n_written, n_read, overrun>>

(* increment_write_index(), first the index ...                            *)
advance_write ==
  /\ writer = "filled"
  /\ i_write' = (i_write + 1) % Size
  /\ writer' = "counting"
  /\ UNCHANGED <<blocks, n_blocks, i_read, reader, n_written, n_read, overrun>>

(* Slip: an increment of the count may be lost.                          *)
count_write_not_atomic ==
  /\ writer = "counting"
  /\ n_blocks' \in {n_blocks, n_blocks + 1}
  /\ writer' = "idle"
  /\ UNCHANGED <<blocks, i_write, i_read, reader, n_written, n_read, overrun>>

(* ... then the count, which makes the item visible to the reader.         *)
count_write ==
  /\ writer = "counting"
  /\ n_blocks' = n_blocks + 1
  /\ writer' = "idle"
  /\ UNCHANGED <<blocks, i_write, i_read, reader, n_written, n_read, overrun>>

-----------------------------------------------------------------------------
(* The reading thread.                                                     *)

(* Slip: reads without looking at the count.                             *)
get_next_to_read_unchecked ==
  /\ reader = "idle"
  /\ reader' = "holding"
  /\ UNCHANGED <<blocks, n_blocks, i_write, i_read, writer, n_written, n_read, overrun>>

(* Slip: never reads the last item.                                      *)
get_next_to_read_but_last ==
  /\ reader = "idle"
  /\ n_blocks > 1
  /\ reader' = "holding"
  /\ UNCHANGED <<blocks, n_blocks, i_write, i_read, writer, n_written, n_read, overrun>>

(* get_next_to_read() returns the block at the read index unless the count *)
(* is zero; the reader uses it until it advances.                          *)
get_next_to_read ==
  /\ reader = "idle"
  /\ n_blocks # 0
  /\ reader' = "holding"
  /\ UNCHANGED <<blocks, n_blocks, i_write, i_read, writer, n_written, n_read, overrun>>

(* increment_read_index(), first the index ...                             *)
advance_read ==
  /\ reader = "holding"
  /\ i_read' = (i_read + 1) % Size
  /\ n_read' = n_read + 1
  /\ reader' = "counting"
  /\ UNCHANGED <<blocks, n_blocks, i_write, writer, n_written, overrun>>

(* ... then the count, which ends the process if it is already zero.       *)
count_read ==
  /\ reader = "counting"
  /\ IF n_blocks = 0
     THEN reader' = "failed" /\ UNCHANGED n_blocks
     ELSE reader' = "idle" /\ n_blocks' = n_blocks - 1
  /\ UNCHANGED <<blocks, i_write, i_read, writer, n_written, n_read, overrun>>

-----------------------------------------------------------------------------
Write == get_next_to_write \/ fill_block \/ advance_write \/ count_write

Read == get_next_to_read \/ advance_read \/ count_read

Next == Write \/ Read

(* Reading threads spin on their queue, and a writing thread finishes the  *)
(* write it began; nothing obliges it to begin another.                    *)
Fairness == WF_vars(Read) /\ WF_vars(fill_block \/ advance_write \/ count_write)

Spec == Init /\ [][Next]_vars /\ Fairness

-----------------------------------------------------------------------------
TypeOK ==
  /\ blocks \in [Blocks -> Nat]
  /\ n_blocks \in Nat
  /\ i_write \in Blocks
  /\ i_read \in Blocks
  /\ writer \in {"idle", "filling", "filled", "counting"}
  /\ reader \in {"idle", "holding", "counting", "failed"}
  /\ n_written \in Nat
  /\ n_read \in Nat
  /\ overrun \in BOOLEAN

(* As long as the writer keeps within the queue, the block the reader      *)
(* holds is the next item in the order of writing, complete, and stays so  *)
(* until the reader advances: nothing is lost, torn, repeated or swapped.  *)
ReaderHoldsNextItem ==
  ~ overrun /\ reader = "holding" => blocks[i_read] = n_read + 1

(* The ASSERT of increment_read_index never fails, even after an overrun:  *)
(* the count is raised after an item is written and lowered once for each. *)
CountNeverZeroAtRead == reader # "failed"

(* When the count a third thread or the writer sees is zero, every item    *)
(* written so far has been handled (TradingEngine::stop waits for this).   *)
EmptyMeansHandled ==
  n_blocks = 0 /\ writer \in {"idle", "filling", "filled"} =>
    n_read = n_written - (IF writer = "idle" THEN 0 ELSE 1)

(* Every item that is written is handled.                                  *)
EveryItemHandled ==
  \A k \in 1 .. MaxItems : n_written >= k ~> n_read >= k
=============================================================================
