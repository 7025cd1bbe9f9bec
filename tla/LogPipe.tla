------------------------------- MODULE LogPipe -------------------------------
(***************************************************************************)
(* What the shipper promises of the lines it reads, without its tasks, its *)
(* channel, its counters of the queue or its signals: a first-in first-out *)
(* queue between stdin and a set of deliveries, in which every line has    *)
(* one fate.                                                               *)
(*                                                                         *)
(* A line is its position on stdin, so the order of the queue is the order *)
(* of the numbers and the queue is a set.                                  *)
(***************************************************************************)
EXTENDS Naturals, FiniteSets

CONSTANTS Permits, QueueCap, BatchSize, DropPolicy

VARIABLES
  seen,       \* segments whose first fate is settled: skipped, queued or refused
  read,       \* how many of them were not empty
  bad,        \* how many were no log
  queue,      \* the lines waiting
  batch,      \* the lines each delivery carries
  forced,     \* has a repeated signal forced the drain?
  dropped,    \* how many lines the queue has lost
  delivered,  \* how many lines were delivered
  lost,       \* how many lines a delivery has lost
  closed      \* has the pipe been shut down?

outcomes == <<delivered, lost>>
intake   == <<seen, read, bad>>
pipeVars == <<intake, queue, batch, forced, dropped, outcomes, closed>>

Init ==
  /\ seen = 0 /\ read = 0 /\ bad = 0 /\ queue = {} /\ batch = [p \in Permits |-> {}]
  /\ dropped = 0 /\ delivered = 0 /\ lost = 0
  /\ forced = FALSE /\ closed = FALSE

\* S is the front of the queue.
Oldest(S) == S \subseteq queue /\ \A a \in S, b \in queue \ S : a < b

\* A segment that is empty, or no log.
Skip ==
  /\ seen' = seen + 1
  /\ \/ UNCHANGED <<read, bad>>
     \/ read' = read + 1 /\ bad' = bad + 1
  /\ UNCHANGED <<queue, batch, forced, dropped, outcomes, closed>>

\* A line goes in.  Only drop-oldest takes it into a full queue.
Accept ==
  /\ DropPolicy = "oldest" \/ Cardinality(queue) < QueueCap
  /\ seen' = seen + 1 /\ read' = read + 1
  /\ queue' = queue \cup {seen'}
  /\ UNCHANGED <<bad, batch, forced, dropped, outcomes, closed>>

\* A line is given up before it is queued: drop-newest with a full queue, or a
\* blocked line when the drain is forced.
Refuse ==
  /\ \/ DropPolicy = "newest" /\ Cardinality(queue) >= QueueCap
     \/ DropPolicy = "block" /\ forced
  /\ seen' = seen + 1 /\ read' = read + 1
  /\ dropped' = dropped + 1
  /\ UNCHANGED <<bad, queue, batch, forced, outcomes, closed>>

\* Drop-oldest: only an overfull queue loses lines, the oldest ones, and at most
\* a batch of them at once.
Evict ==
  /\ DropPolicy = "oldest" /\ Cardinality(queue) > QueueCap
  /\ \E S \in SUBSET queue :
       /\ Oldest(S) /\ Cardinality(S) \in 1 .. BatchSize
       /\ queue' = queue \ S
       /\ dropped' = dropped + Cardinality(S)
  /\ UNCHANGED <<intake, batch, forced, outcomes, closed>>

\* The oldest lines leave together, at most a batch of them.
Dispatch(p) ==
  /\ batch[p] = {}
  /\ \E S \in SUBSET queue :
       /\ Oldest(S) /\ Cardinality(S) \in 1 .. BatchSize
       /\ queue' = queue \ S
       /\ batch' = [batch EXCEPT ![p] = S]
  /\ UNCHANGED <<intake, forced, dropped, outcomes, closed>>

\* A delivery ends, well or not, for all of its lines at once.
Deliver(p) ==
  /\ batch[p] # {}
  /\ delivered' = delivered + Cardinality(batch[p])
  /\ batch' = [batch EXCEPT ![p] = {}]
  /\ UNCHANGED <<intake, queue, forced, dropped, lost, closed>>

Lose(p) ==
  /\ batch[p] # {}
  /\ lost' = lost + Cardinality(batch[p])
  /\ batch' = [batch EXCEPT ![p] = {}]
  /\ UNCHANGED <<intake, queue, forced, dropped, delivered, closed>>

ForceDrain ==
  /\ forced' = TRUE
  /\ UNCHANGED <<intake, queue, batch, dropped, outcomes, closed>>

\* The pipe closes empty; a delivery may still be under way.
Close ==
  /\ queue = {}
  /\ closed' = TRUE
  /\ UNCHANGED <<intake, queue, batch, forced, dropped, outcomes>>

Next ==
  /\ ~closed
  /\ \/ Skip \/ Accept \/ Refuse \/ Evict \/ ForceDrain \/ Close
     \/ \E p \in Permits : Dispatch(p) \/ Deliver(p) \/ Lose(p)

Spec == Init /\ [][Next]_pipeVars

=============================================================================
