------------------------------- MODULE Shipper -------------------------------
(***************************************************************************)
(* The shipper process: reader, signal watcher, batcher and push tasks     *)
(* running concurrently on tokio's multi-threaded runtime, with the writer *)
(* of stdin, the sender of signals and Loki as their environment.          *)
(***************************************************************************)
EXTENDS SignalWatcher, Reader, Batcher, Pusher, SequencesExt

Init == WatcherInit /\ ReaderInit /\ BatcherInit /\ PusherInit

\* The process is gone.
Finished == Exited /\ UNCHANGED vars

Next ==
  \/ StdinNext
  \/ WatcherNext
  \/ ReaderNext
  \/ BatcherNext
  \/ PusherNext
  \/ Finished

Spec == Init /\ [][Next]_vars

\* The runtime keeps running every task that can run, and select! picks among
\* ready branches at random, so each branch that stays ready is taken.  A push
\* always resolves: the client has a timeout.  Time passes.  Nothing is promised
\* of the environment: segments, end of input, read errors and signals need
\* never come.
Fairness ==
  /\ WF_vars(ReaderProgress)
  /\ WF_vars(NotifyForceQuit)
  /\ WF_vars(ReceiveLog) /\ WF_vars(ChannelClosed) /\ WF_vars(Tick)
  /\ WF_vars(\E p \in Permits : AcquirePermit(p))
  /\ WF_vars(\E p \in Permits : Dispatch(p))
  /\ WF_vars(LeaveLoop) /\ WF_vars(DrainComplete) /\ WF_vars(DrainTimeout)
  /\ \A p \in Permits : WF_vars(PushStep(p))
  /\ WF_vars(DeadlinePasses)

FairSpec == Spec /\ Fairness

-----------------------------------------------------------------------------
(* Types.                                                                  *)

ReaderPcs == {"top", "select", "policy", "register", "recheck", "wait", "add",
              "send", "stop", "close", "join", "exited"}

PushTask ==
  [pc      : {"idle", "handed", "start", "sending", "reading", "backoff"},
   batch   : Seq(Line),
   attempt : 0 .. MaxRetries,
   status  : Statuses \cup {0}]

StdinTypeOK ==
  written \in 0 .. MaxSegments /\ taken \in 0 .. written /\ stdinOpen \in BOOLEAN

SignalTypeOK ==
  /\ received \in Nat /\ watcherPc \in {"recv", "notify"} /\ takenAtForce \in Nat
  /\ force_flag \in BOOLEAN /\ force_quit \in BOOLEAN

QueueTypeOK ==
  /\ queue_len \in Nat /\ waiter \in {"none", "waiting", "woken"}
  /\ drain_deadline \in {"off", "armed", "over"}
  /\ channel \in Seq(Line) /\ txOpen \in BOOLEAN

ReaderTypeOK ==
  /\ readerPc \in ReaderPcs /\ held \in Line \cup {0}
  /\ ended \in {"no", "eof", "error", "force"}

BatcherTypeOK ==
  /\ batcherPc \in {"loop", "dispatch", "drain", "done"}
  /\ deque \in Seq(Line) /\ sealed \in Seq(Seq(Line)) /\ sealed_entries \in Nat
  /\ open \in BOOLEAN /\ interval_due \in BOOLEAN

PushTypeOK == push \in [Permits -> PushTask] /\ ingested \in [Line -> Nat]

\* Every variable has its type.  That queue_len and sealed_entries, both usize,
\* are natural numbers says that no fetch_sub or -= of the code underflows.
TypeOK ==
  /\ StdinTypeOK /\ SignalTypeOK /\ QueueTypeOK /\ ReaderTypeOK
  /\ BatcherTypeOK /\ PushTypeOK
  /\ stats \in [StatNames -> Nat]

-----------------------------------------------------------------------------
(* The queue.                                                              *)

\* The lines of one reader step: counted in queue_len, not yet in the channel.
BetweenAddAndSend == IF readerPc = "send" THEN 1 ELSE 0

\* queue_len, which four places of two tasks update without a lock, is at every
\* moment the number of lines in the channel, the deque and the sealed blocks,
\* counting one the reader is about to send.
QueueLenExact ==
  queue_len = BetweenAddAndSend + Len(channel) + Len(deque) + sealed_entries

\* "Bounded in-memory queue": under newest and block the whole queue, channel
\* included, stays within queue_cap; under oldest what the batcher holds does.
QueueBounded ==
  /\ DropPolicy \in {"newest", "block"} => queue_len <= QueueCap
  /\ DropPolicy = "oldest" => Len(deque) + sealed_entries <= QueueCap

\* The block policy has no lost wakeup: a reader that sleeps un-notified while the
\* queue has room has a notify_waiters coming, between the two halves of dispatch.
NoLostWakeup ==
  readerPc = "wait" /\ waiter = "waiting" => ~Room \/ batcherPc = "dispatch"

\* The lines each container holds.
BlockLines    == UNION {ToSet(sealed[i]) : i \in DOMAIN sealed}
BacklogLines  == BlockLines \cup ToSet(deque)
QueuedLines   == BacklogLines \cup ToSet(channel)
HeldLine      == IF held = 0 THEN {} ELSE {held}
InFlightLines == UNION {ToSet(push[p].batch) : p \in Permits}

StrictlyIncreasing(s) == \A i, j \in DOMAIN s : i < j => s[i] < s[j]
Older(S, T) == \A a \in S, b \in T : a < b

\* The sealed blocks, the deque, the channel and the reader's line, in this order,
\* are in stdin order.
QueueSorted ==
  /\ \A i \in DOMAIN sealed : StrictlyIncreasing(sealed[i])
  /\ \A i, j \in DOMAIN sealed : i < j => Older(ToSet(sealed[i]), ToSet(sealed[j]))
  /\ StrictlyIncreasing(deque) /\ Older(BlockLines, ToSet(deque))
  /\ StrictlyIncreasing(channel) /\ Older(BacklogLines, ToSet(channel))
  /\ Older(QueuedLines, HeldLine)

\* Lines leave in the order they came: the queue is in stdin order, and every batch
\* that was dispatched is older than all of it and shares no line with another.
QueueInOrder ==
  /\ QueueSorted
  /\ \A p \in Permits :
       /\ StrictlyIncreasing(push[p].batch)
       /\ Older(ToSet(push[p].batch), QueuedLines \cup HeldLine)
       /\ \A q \in Permits \ {p} :
            ToSet(push[p].batch) \cap ToSet(push[q].batch) = {}

\* "Batches capped by size": what a push task carries is never empty and never
\* more than batch_size, whether it was cut, flushed by the timer or sealed.
BatchesCapped ==
  \A p \in Permits : ~Free(p) => Len(push[p].batch) \in 1 .. BatchSize

\* Drop-oldest drops the oldest: what an eviction takes out of the backlog, the line
\* just received included, is older than all it leaves, and is counted line by line.
EvictsOldest ==
  [][DropPolicy = "oldest" /\ stats'.entries_dropped_queue # stats.entries_dropped_queue
     => LET before  == BacklogLines \cup {Head(channel)}
            evicted == before \ BacklogLines'
        IN /\ BacklogLines' \subseteq before
           /\ Older(evicted, BacklogLines')
           /\ stats'.entries_dropped_queue - stats.entries_dropped_queue
                = Cardinality(evicted)]_vars

-----------------------------------------------------------------------------
(* Accounting.                                                             *)

Accounted ==
  stats.parse_errors + stats.entries_dropped_queue
    + stats.entries_delivered + stats.entries_dropped_delivery

\* "Every drop moves a counter": each line read is parsed badly, dropped, delivered,
\* in the reader's hand, queued or in flight, once.
EveryLineAccounted ==
  stats.read_lines = Accounted + Cardinality(HeldLine)
                       + Cardinality(QueuedLines) + Cardinality(InFlightLines)

\* A process that exits before its drain deadline has a final_stats that adds up
\* and has left nothing in its queue.
GracefulExitAddsUp ==
  Exited => /\ QueuedLines = {} /\ held = 0 /\ queue_len = 0
            /\ drain_deadline # "over" => stats.read_lines = Accounted

\* The counters agree with Loki: no more lines are counted as delivered than are
\* stored, and no more are stored than are counted as delivered or dropped in delivery
\* or are still in flight.
StatsAgreeWithLoki ==
  LET stored == Cardinality({l \in Line : ingested[l] > 0})
  IN /\ stats.entries_delivered <= stored
     /\ stored <= stats.entries_delivered + stats.entries_dropped_delivery
                    + Cardinality(InFlightLines)

\* A batch is sent at most 1 + max_retries times, so no line is stored more often.
RetriesBoundDuplicates == \A l \in Line : ingested[l] <= MaxRetries + 1

-----------------------------------------------------------------------------
(* The abstract specification.                                             *)

Pipe == INSTANCE LogPipe WITH
  seen      <- IF held = 0 THEN taken ELSE taken - 1,
  read      <- IF held = 0 THEN stats.read_lines ELSE stats.read_lines - 1,
  bad       <- stats.parse_errors,
  queue     <- QueuedLines,
  batch     <- [p \in Permits |-> ToSet(push[p].batch)],
  forced    <- force_flag,
  dropped   <- stats.entries_dropped_queue,
  delivered <- stats.entries_delivered,
  lost      <- stats.entries_dropped_delivery,
  closed    <- Exited

\* The four tasks, their channel and their lock-free counters together are one
\* first-in first-out pipe: lines are refused or evicted only when the policy and
\* a full queue say so, leave in order and in batches, end in one counter each,
\* and the process exits only with its queue empty.
ImplementsLogPipe == Pipe!Spec

-----------------------------------------------------------------------------
(* Signals.                                                                *)

\* "Signals are advisory": after at most one signal the reader still takes all of
\* stdin up to its end, unless reading fails.
AdvisorySignal ==
  received < 2 /\ ended \notin {"no", "error"} => ~stdinOpen /\ taken = written

\* "A repeated signal forces the bounded drain": once force_flag is set, the reader
\* takes at most the one segment it was already past the test for.
ForceStopsIntake == force_flag => taken <= takenAtForce + 1

-----------------------------------------------------------------------------
(* Liveness.                                                               *)

\* Shutdown finishes: once stdin is closed the process exits, whatever Loki does.
EofLeadsToExit == ~stdinOpen ~> Exited

\* So does a forced one, with stdin still open and the reader possibly blocked.
ForceLeadsToExit == force_flag ~> Exited

\* A line a full queue blocks is let in, or given up by a forced drain.
BlockedLineMovesOn == \A l \in Line : held = l ~> held # l

\* "Batches capped by interval": a line never stays in the batcher for want of
\* more lines.
BacklogIsFlushed ==
  \A l \in Line : l \in BacklogLines ~> l \notin BacklogLines

-----------------------------------------------------------------------------
(* Documented claims the code does not keep.                               *)

\* README "every drop moves a counter, never silent": final_stats adds up.
FinalStatsAddUp == Exited => stats.read_lines = Accounted

\* README "At-most-once delivery": Loki stores no line twice.
AtMostOnceDelivery == \A l \in Line : ingested[l] <= 1

\* README "Bounded in-memory queue ... no matter how far Loki falls behind": the
\* whole queue stays near its cap, one batch of slack allowed.
WholeQueueBounded == queue_len <= QueueCap + BatchSize

=============================================================================
