-------------------------- MODULE MarketDataConsumer --------------------------
(***************************************************************************)
(* Client::MarketDataConsumer: what its thread does with the messages of   *)
(* one datagram.  A consumer is a record of the class's members; `pushed'  *)
(* are the updates that one callback writes to the trading engine's queue. *)
(* The std::maps of queued updates are functions from sequence numbers.    *)
(***************************************************************************)
EXTENDS Integers, SequencesExt, Ascending

NoUpdates == [n \in {} |-> 0]

NewConsumer ==
  [n_seq_inc_next |-> 1, is_in_recovery |-> FALSE, pushed |-> <<>>,
   queued_snapshot_updates |-> NoUpdates, queued_incremental_updates |-> NoUpdates]

Put(queue, message) ==
  [n \in DOMAIN queue \cup {message.n_seq} |->
     IF n = message.n_seq THEN message.ome_update ELSE queue[n]]

(* The queued updates with the numbers of a set, in their order.           *)
InOrder(queue, numbers) ==
  LET ns == Ascending(numbers) IN [i \in DOMAIN ns |-> queue[ns[i]]]

IsMarker(update) == update.type \in {"SNAPSHOT_START", "SNAPSHOT_END"}

-----------------------------------------------------------------------------
(* The socket of the snapshot stream is opened too; see MarketData.        *)
snapshot_sync_start(c) ==
  [c EXCEPT !.queued_snapshot_updates = NoUpdates, !.queued_incremental_updates = NoUpdates]

(* The queued snapshot is of no use.                                       *)
Discard(c) == [c EXCEPT !.queued_snapshot_updates = NoUpdates]

(* Slip: a snapshot is expected to be numbered from one.                 *)
SnapshotHasGapFromOne(queue) == DOMAIN queue # 1 .. Cardinality(DOMAIN queue)

(* A number is missing among the snapshot messages that came.             *)
SnapshotHasGap(queue) == DOMAIN queue # 0 .. Cardinality(DOMAIN queue) - 1

(* Slip: the snapshot's last number is taken for the next.               *)
AfterSnapshotOffByOne(queue) == queue[Max(DOMAIN queue)].oid

(* Slip: one number is skipped after a snapshot.                         *)
AfterSnapshotTooFar(queue) == queue[Max(DOMAIN queue)].oid + 2

(* The number of the first incremental update a snapshot does not cover.   *)
AfterSnapshot(queue) == queue[Max(DOMAIN queue)].oid + 1

(* Slip: queued updates are applied across a gap.                        *)
IncrementalGapIgnored(later, first) == FALSE

(* Of the incremental updates after the snapshot one is missing.           *)
IncrementalGap(later, first) == later # first .. first + Cardinality(later) - 1

(* What the trading engine gets: the snapshot without its markers, and the *)
(* later updates.                                                          *)
updates_to_process(snapshot, queued, later) ==
  InOrder(snapshot, {n \in DOMAIN snapshot : ~ IsMarker(snapshot[n])})
  \o InOrder(queued, later)

(* A snapshot that is complete up to its end marker is joined with the     *)
(* incremental updates that came meanwhile.  The next number expected is   *)
(* moved on even if that fails.                                            *)
CompleteSync(c) ==
  LET snapshot == c.queued_snapshot_updates
      queued   == c.queued_incremental_updates
      first    == AfterSnapshot(snapshot)
      later    == {n \in DOMAIN queued : n >= first}
      next     == Min((first .. first + Cardinality(later)) \ later)
  IN IF IncrementalGap(later, first)
     THEN [Discard(c) EXCEPT !.n_seq_inc_next = next]
     ELSE [NewConsumer EXCEPT
             !.n_seq_inc_next = next,
             !.pushed = c.pushed \o updates_to_process(snapshot, queued, later)]

snapshot_sync_check(c) ==
  LET snapshot == c.queued_snapshot_updates
      numbers  == DOMAIN snapshot
  IN IF numbers = {} THEN c
     ELSE IF snapshot[Min(numbers)].type # "SNAPSHOT_START" \/ SnapshotHasGap(snapshot)
     THEN Discard(c)
     ELSE IF snapshot[Max(numbers)].type # "SNAPSHOT_END" THEN c
     ELSE CompleteSync(c)

(* A number that comes again belongs to a newer snapshot.                  *)
QueueSnapshot(c, message) ==
  [c EXCEPT !.queued_snapshot_updates =
     Put(IF message.n_seq \in DOMAIN @ THEN NoUpdates ELSE @, message)]

queue_update(is_snapshot, c, message) ==
  snapshot_sync_check(
    IF is_snapshot THEN QueueSnapshot(c, message)
    ELSE [c EXCEPT !.queued_incremental_updates = Put(@, message)])

(* One pass of the loop of rx_callback.                                    *)
rx_message(is_snapshot, c, message) ==
  IF c.is_in_recovery THEN queue_update(is_snapshot, c, message)
  ELSE IF message.n_seq # c.n_seq_inc_next
  THEN queue_update(is_snapshot, snapshot_sync_start([c EXCEPT !.is_in_recovery = TRUE]),
                    message)
  ELSE IF ~ is_snapshot
  THEN [c EXCEPT !.n_seq_inc_next = @ + 1, !.pushed = Append(@, message.ome_update)]
  ELSE c

(* The messages of a datagram, one after the other.                        *)
HandleMessages(is_snapshot, c, datagram) ==
  LET after[i \in 0 .. Len(datagram)] ==
        IF i = 0 THEN c ELSE rx_message(is_snapshot, after[i - 1], datagram[i])
  IN after[Len(datagram)]

(* Snapshot data outside of a recovery is dropped.                         *)
rx_callback(is_snapshot, c, datagram) ==
  IF is_snapshot /\ ~ c.is_in_recovery THEN c
  ELSE HandleMessages(is_snapshot, c, datagram)
=============================================================================
