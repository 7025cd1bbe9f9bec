---------------------------- MODULE ShipperState ----------------------------
(***************************************************************************)
(* State of the pino-loki-rs shipper process: what main, the signal        *)
(* watcher, the batcher task and the push tasks own, and the Arc'ed cells  *)
(* they share.  The modules SignalWatcher, Reader, Batcher and Pusher each *)
(* define the actions of one task over these variables; Shipper composes   *)
(* them.                                                                   *)
(*                                                                         *)
(* A log line is its position on stdin.  Labels, timestamps and JSON are   *)
(* abstracted away: no decision of these tasks depends on them.            *)
(***************************************************************************)
EXTENDS Naturals, Sequences, FiniteSets

CONSTANTS
  Permits,       \* the semaphore's permits: max_inflight = Cardinality(Permits)
  QueueCap,      \* queue_cap
  MaxBatch,      \* max_batch
  MaxRetries,    \* max_retries
  DropPolicy,    \* "oldest", "newest" or "block"
  Compression,   \* "none" or "gzip"
  Statuses,      \* the HTTP statuses Loki may answer with
  SegmentKinds,  \* kinds of stdin segment: "log", "bad", "empty"
  MaxSegments,   \* bound: segments ever written to stdin
  MaxSignals     \* bound: signals ever received

ASSUME ConfigAssumption ==
  /\ IsFiniteSet(Permits)
  /\ QueueCap \in Nat
  /\ MaxBatch \in Nat
  /\ MaxRetries \in Nat
  /\ DropPolicy \in {"oldest", "newest", "block"}
  /\ Compression \in {"none", "gzip"}

ASSUME EnvironmentAssumption ==
  /\ Statuses \subseteq 100 .. 599
  /\ SegmentKinds \subseteq {"log", "bad", "empty"}
  /\ MaxSegments \in Nat
  /\ MaxSignals \in Nat

VARIABLES
  \* stdin, a pipe
  written,         \* segments written so far
  taken,           \* segments the reader has taken
  stdinOpen,       \* does any process still hold the write end?
  \* the signal watcher task
  received,        \* signals seen
  watcherPc,       \* "recv" or "notify"
  takenAtForce,    \* history: `taken` when force_flag was first set
  \* shared cells
  force_flag,      \* AtomicBool
  force_quit,      \* Notify used with notify_one: is a permit stored?
  queue_len,       \* AtomicUsize
  waiter,          \* the Notified future of `notify`: "none", "waiting", "woken"
  drain_deadline,  \* "off" (0), "armed" (in the future) or "over" (in the past)
  channel,         \* the unbounded mpsc channel
  txOpen,          \* is the sender alive?
  stats,           \* Stats
  \* main
  readerPc,
  held,            \* the line being handled between reading and sending, or 0
  ended,           \* why the read loop ended
  \* the batcher task
  batcherPc, deque, sealed, sealed_entries, open, interval_due,
  \* push tasks, by the permit they own, and Loki
  push,
  ingested         \* how many times Loki has stored each line

stdinVars   == <<written, taken, stdinOpen>>
watcherVars == <<received, watcherPc, takenAtForce>>
forceVars   == <<force_flag, force_quit>>
queueVars   == <<queue_len, waiter>>
channelVars == <<channel, txOpen>>
readerVars  == <<readerPc, held, ended>>
batcherVars == <<batcherPc, deque, sealed, sealed_entries, open, interval_due>>
pushVars    == <<push, ingested>>

vars == <<stdinVars, watcherVars, forceVars, queueVars, drain_deadline,
          channelVars, stats, readerVars, batcherVars, pushVars>>

-----------------------------------------------------------------------------
Line == 1 .. MaxSegments

\* batch_size: a max_batch of 0 is taken as 1.
BatchSize == IF MaxBatch = 0 THEN 1 ELSE MaxBatch

StatNames == {"read_lines", "parse_errors", "entries_dropped_queue",
              "batches_sent", "entries_delivered", "retries",
              "batches_dropped_delivery", "entries_dropped_delivery"}

\* The fetch_adds of one step: inc gives what is added to which counter.
AddStats(inc) ==
  stats' = [s \in StatNames |-> IF s \in DOMAIN inc THEN stats[s] + inc[s] ELSE stats[s]]

\* main ends with process::exit(0), which stops every other task.
Exited == readerPc = "exited"

\* Notify::notify_waiters: wakes a Notified future that already exists and,
\* unlike notify_one, leaves nothing behind for a later one.
NotifyWaiters == waiter' = IF waiter = "none" THEN "none" ELSE "woken"

\* A push task that does not exist: its permit is free.
Idle == [pc |-> "idle", batch |-> <<>>, attempt |-> 0, status |-> 0]
Free(p) == push[p].pc = "idle"

=============================================================================
