------------------------------- MODULE Batcher -------------------------------
(***************************************************************************)
(* batcher::run: a task that select!s over the channel, the interval timer *)
(* and the semaphore, cuts the lines it receives into batches and spawns a *)
(* push task per batch.  With gzip a burst is sealed into compressed       *)
(* blocks; with drop-oldest the front of the queue makes room.             *)
(*                                                                         *)
(* deque, sealed, sealed_entries, open and interval_due are locals of the  *)
(* task, so each branch of the select! is one step up to its last access   *)
(* to a shared cell.  dispatch() has two accesses that the reader can see  *)
(* apart (queue_len, then notify), and is two steps.                       *)
(***************************************************************************)
EXTENDS ShipperState

BatcherInit ==
  /\ batcherPc = "loop"
  /\ deque = <<>> /\ sealed = <<>> /\ sealed_entries = 0
  /\ open = TRUE /\ interval_due = FALSE

-----------------------------------------------------------------------------
(* Receiving.                                                              *)

\* A gzip burst: two full batches are waiting.
Seals(d) == Compression = "gzip" /\ Len(d) >= 2 * BatchSize

\* deque, sealed and sealed_entries once the burst d has been sealed, if it is one.
DequeAfterSeal(d) ==
  IF Seals(d) THEN SubSeq(d, BatchSize + 1, Len(d)) ELSE d
\* Mutant: push_front.
SealedAtFront(d) ==
  IF Seals(d) THEN <<SubSeq(d, 1, BatchSize)>> \o sealed ELSE sealed
SealedAfterSeal(d) ==
  IF Seals(d) THEN Append(sealed, SubSeq(d, 1, BatchSize)) ELSE sealed
\* Mutant: sealed lines are not counted.
EntriesUncounted(d) == sealed_entries
EntriesAfterSeal(d) ==
  IF Seals(d) THEN sealed_entries + BatchSize ELSE sealed_entries

\* Mutant: no fetch_sub on eviction.
CountEvictedOnly(n) ==
  /\ AddStats([entries_dropped_queue |-> n])
  /\ UNCHANGED queue_len
CountEvicted(n) ==
  /\ queue_len' = queue_len - n
  /\ AddStats([entries_dropped_queue |-> n])

\* Drop-oldest over capacity: the oldest sealed block goes, whole, or the oldest
\* line when nothing is sealed.
\* Mutant: the deque is tried before the sealed blocks.
EvictFromDeque(d, blocks, entries) ==
  /\ deque' = Tail(d)
  /\ sealed' = blocks /\ sealed_entries' = entries
  /\ CountEvicted(1)
EvictOldest(d, blocks, entries) ==
  \/ /\ blocks # <<>>
     /\ sealed' = Tail(blocks)
     /\ sealed_entries' = entries - Len(Head(blocks))
     /\ deque' = d
     /\ CountEvicted(Len(Head(blocks)))
  \/ /\ blocks = <<>> /\ d # <<>>
     /\ deque' = Tail(d)
     /\ sealed' = blocks /\ sealed_entries' = entries
     /\ CountEvicted(1)

\* The queue is past its cap, which only drop-oldest acts on here.
\* Mutants: sealed lines do not count against the cap; off by one.
DequeOverfull(d, entries) == DropPolicy = "oldest" /\ Len(d) > QueueCap
OverfullAtCap(d, entries) == DropPolicy = "oldest" /\ Len(d) + entries >= QueueCap
Overfull(d, entries) == DropPolicy = "oldest" /\ Len(d) + entries > QueueCap

\* rx.recv() returned a log.
ReceiveLog ==
  /\ ~Exited
  /\ batcherPc = "loop" /\ open
  /\ channel # <<>>
  /\ channel' = Tail(channel)
  /\ LET pushed  == Append(deque, Head(channel))
         d       == DequeAfterSeal(pushed)
         blocks  == SealedAfterSeal(pushed)
         entries == EntriesAfterSeal(pushed)
     IN \/ /\ Overfull(d, entries)
           /\ EvictOldest(d, blocks, entries)
           /\ NotifyWaiters
        \/ /\ ~Overfull(d, entries)
           /\ deque' = d /\ sealed' = blocks /\ sealed_entries' = entries
           /\ UNCHANGED <<queueVars, stats>>
  /\ UNCHANGED <<stdinVars, watcherVars, forceVars, drain_deadline, txOpen,
                 readerVars, batcherPc, open, interval_due, pushVars>>

\* rx.recv() returned None: the sender is gone and the channel is empty.
ChannelClosed ==
  /\ ~Exited
  /\ batcherPc = "loop" /\ open
  /\ channel = <<>> /\ ~txOpen
  /\ open' = FALSE
  /\ interval_due' = TRUE
  /\ UNCHANGED <<stdinVars, watcherVars, forceVars, queueVars, drain_deadline,
                 channelVars, stats, readerVars, batcherPc, deque, sealed,
                 sealed_entries, pushVars>>

\* tick.tick(): the ticks that change nothing are left out.
Tick ==
  /\ ~Exited
  /\ batcherPc = "loop"
  /\ deque # <<>> \/ sealed # <<>>
  /\ ~interval_due
  /\ interval_due' = TRUE
  /\ UNCHANGED <<stdinVars, watcherVars, forceVars, queueVars, drain_deadline,
                 channelVars, stats, readerVars, batcherPc, deque, sealed,
                 sealed_entries, open, pushVars>>

-----------------------------------------------------------------------------
(* Dispatching.                                                            *)

\* The precondition of the select!'s permit branch.
\* Mutant: the timer is ignored.
FullBatchReady == sealed # <<>> \/ Len(deque) >= BatchSize
BatchReady ==
  \/ sealed # <<>>
  \/ deque # <<>> /\ (interval_due \/ Len(deque) >= BatchSize)

\* let take = deque.len().min(batch_size)
\* Mutant: everything goes.
TakeAll == Len(deque)
Take == IF Len(deque) < BatchSize THEN Len(deque) ELSE BatchSize

\* The batch that goes next, and what it leaves behind.
NextBatch == IF sealed # <<>> THEN Head(sealed) ELSE SubSeq(deque, 1, Take)
DequeAfterBatch ==
  IF sealed # <<>> THEN deque ELSE SubSeq(deque, Take + 1, Len(deque))
SealedAfterBatch == IF sealed # <<>> THEN Tail(sealed) ELSE sealed

\* acquire_owned() returned permit p: the branch up to dispatch()'s fetch_sub.
AcquirePermit(p) ==
  /\ ~Exited
  /\ batcherPc = "loop"
  /\ Free(p)
  /\ BatchReady
  /\ push' = [push EXCEPT ![p] = [pc |-> "handed", batch |-> NextBatch,
                                  attempt |-> 0, status |-> 0]]
  /\ deque' = DequeAfterBatch
  /\ sealed' = SealedAfterBatch
  /\ sealed_entries' = IF sealed # <<>> THEN sealed_entries - Len(NextBatch)
                                        ELSE sealed_entries
  /\ interval_due' = (interval_due /\ ~(deque' = <<>> /\ sealed' = <<>>))
  /\ queue_len' = queue_len - Len(NextBatch)
  /\ batcherPc' = "dispatch"
  /\ UNCHANGED <<stdinVars, watcherVars, forceVars, waiter, drain_deadline,
                 channelVars, stats, readerVars, open, ingested>>

\* The rest of dispatch(): notify_waiters, then spawn the push task.
\* Mutant: no notify_waiters.
DispatchSilently(p) ==
  /\ ~Exited
  /\ batcherPc = "dispatch"
  /\ push[p].pc = "handed"
  /\ push' = [push EXCEPT ![p].pc = "start"]
  /\ batcherPc' = "loop"
  /\ UNCHANGED <<stdinVars, watcherVars, forceVars, queueVars, drain_deadline,
                 channelVars, stats, readerVars, deque, sealed, sealed_entries,
                 open, interval_due, ingested>>
Dispatch(p) ==
  /\ ~Exited
  /\ batcherPc = "dispatch"
  /\ push[p].pc = "handed"
  /\ NotifyWaiters
  /\ push' = [push EXCEPT ![p].pc = "start"]
  /\ batcherPc' = "loop"
  /\ UNCHANGED <<stdinVars, watcherVars, forceVars, queue_len, drain_deadline,
                 channelVars, stats, readerVars, deque, sealed, sealed_entries,
                 open, interval_due, ingested>>

-----------------------------------------------------------------------------
(* Draining.                                                               *)

\* The negated while condition.
\* Mutant: the deque is forgotten.
SealedDone == ~open /\ sealed = <<>>
LoopDone == ~open /\ deque = <<>> /\ sealed = <<>>

LeaveLoop ==
  /\ ~Exited
  /\ batcherPc = "loop"
  /\ LoopDone
  /\ batcherPc' = "drain"
  /\ UNCHANGED <<stdinVars, watcherVars, forceVars, queueVars, drain_deadline,
                 channelVars, stats, readerVars, deque, sealed, sealed_entries,
                 open, interval_due, pushVars>>

\* acquire_many(max_inflight): every push task has finished.
DrainComplete ==
  /\ ~Exited
  /\ batcherPc = "drain"
  /\ \A p \in Permits : Free(p)
  /\ batcherPc' = "done"
  /\ UNCHANGED <<stdinVars, watcherVars, forceVars, queueVars, drain_deadline,
                 channelVars, stats, readerVars, deque, sealed, sealed_entries,
                 open, interval_due, pushVars>>

\* timeout(drain_max_ms): started after main armed the drain deadline with the
\* same drain_max_ms, so it cannot fire before that deadline is over.
DrainTimeout ==
  /\ ~Exited
  /\ batcherPc = "drain"
  /\ drain_deadline = "over"
  /\ batcherPc' = "done"
  /\ UNCHANGED <<stdinVars, watcherVars, forceVars, queueVars, drain_deadline,
                 channelVars, stats, readerVars, deque, sealed, sealed_entries,
                 open, interval_due, pushVars>>

BatcherNext ==
  \/ ReceiveLog \/ ChannelClosed \/ Tick
  \/ \E p \in Permits : AcquirePermit(p) \/ Dispatch(p)
  \/ LeaveLoop \/ DrainComplete \/ DrainTimeout

=============================================================================
