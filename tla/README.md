# pino-loki-rs in TLA+

A model of the pino-loki-rs shipper, the process that reads newline-delimited
JSON logs on stdin and pushes them to Loki, of the Node transport that feeds
and respawns it, of the command that wraps it, and of the test server it is
measured with; with the TLC runs that check them on small instances and theorems
that hold for every configuration.

Paths below are relative to the repository; `main.rs`, `batcher.rs` and so on
are under `crates/pino-loki-rs/src/`.

## The system

| Component | State it keeps | Operations | Modules |
|---|---|---|---|
| Read loop and shutdown (`main.rs`) | the line in hand; writes `queue_len`, `drain_deadline`, the counters | read a segment, apply the drop policy, send to the batcher; arm the deadline, drop the sender, join, print `final_stats`, exit | `Reader` |
| Signal watcher (`main.rs:89-115`) | `received`; writes `force_flag`, `force_quit` | receive a signal, notify | `SignalWatcher` |
| Batcher (`batcher.rs`) | `deque`, `sealed`, `sealed_entries`, `open`, `interval_due`, the semaphore | receive, seal, evict, tick, cut and dispatch a batch, drain | `Batcher` |
| Push tasks (`pusher.rs`) | batch, attempt, permit | send, read the answer, back off, retry, give up | `Pusher`, `Backoff` |
| Counters (`stats.rs`) | eight atomics | `fetch_add`, printed by the reporter and at exit | `ShipperState` |
| Configuration (`config.rs`) | constants | clap parsing | `ShipperState`, `Backoff`, `Builder`, partly |
| Entry builder, payload (`builder.rs`) | none, pure | labels, timestamps, grouping by label set | `Builder`, partly |
| Node transport (`js/transport.mjs`) | the child, `live`, `ending`, `closed`, respawn timer, pending callbacks | write, final, destroy, respawn; the child's drain, error and exit | `Transport` |
| CLI wrapper (`js/cli.mjs`) | the child | forward SIGINT and SIGTERM, exit with the child | `Cli` |
| Binary resolution (`js/resolve-bin.mjs`) | none | platform table, file lookup | its outcomes, in `Cli` |
| mock-loki (`crates/mock-loki`) | counters | answer pushes, report, reset | `MockLoki`, partly |
| Benchmarks, examples, scripts | - | - | no: not the running system |

How they interact:

    app --stdin pipe--> Reader ==unbounded mpsc==> Batcher --spawn--> push tasks --HTTP--> Loki
                          ^  ^                      |  ^                |
                          |  +--- notify, queue_len-+  +---- permits ---+
                 force_flag, force_quit             drain_deadline: Reader -> push tasks
                          |
                     SignalWatcher <-- signals

    user --signals--> Cli --spawn, SIGINT, SIGTERM--> shipper       push tasks --HTTP--> MockLoki

    app --write, end, destroy--> Transport --spawn, stdin, SIGTERM--> shipper
                                     ^---- drain, error, exit -----------+

Reader, watcher, batcher and each push task are tokio tasks on a
multi-threaded runtime: they run in parallel and share relaxed atomics, two
`Notify`s, a channel and a semaphore. No lock spans two of these.

### What is hard here, and what makes each component correct

- **Reader and batcher, block policy.** The reader looks at `queue_len`,
  registers with `notify`, looks again, sleeps. `notify_waiters` leaves nothing
  behind for a later waiter, so a wrong order of these and of `dispatch`'s
  `fetch_sub` and `notify_waiters` puts it to sleep for good. Correct: no lost
  wakeup; the cap is never passed.
- **`queue_len`.** Raised by the reader before the line is in the channel,
  lowered by the batcher in three places. Correct: it always is the number of
  lines queued and never wraps.
- **Sealed blocks.** With gzip the backlog lives in two containers, one counted
  in lines, one in blocks with `sealed_entries` beside it, and both dispatch and
  eviction must take the older. Correct: lines leave in the order they came, only
  the oldest are evicted, and one eviction per received line keeps the cap.
- **Delivery.** Retries, a response body that never ends, and the drain deadline
  polled every 100 ms. Correct: every line read is in exactly one place or
  counter, and the counters agree with what Loki stored.
- **Shutdown.** main waits for the batcher, which waits for the channel to close,
  then for every permit, with a timeout that races the push tasks' own deadline.
  Correct: the process exits once stdin is closed or a drain is forced.
- **Signals.** Advisory the first time, forcing the second, at any moment.
  Correct: one signal never ends intake; two end it within a segment.
- **Transport.** Exit, error, drain, timer, `end()` and `destroy()` in any
  order, and `live`, `child`, `respawnTimer`, `ending` and two saved callbacks
  that every handler must keep in step. Correct: at most one shipper, none
  started after `end()`, none left behind, every callback is released, and the
  stream finishes only after the shipper's exit.
- **Command.** A signal may reach the wrapper, the shipper or both, before either
  has its handlers, and two of a kind that wait merge into one. A SIGHUP, or any
  signal before the wrapper's handlers, ends the wrapper alone: the shipper goes on
  to the end of stdin. A signal before the shipper's handlers ends the shipper.
  Correct: no signal becomes two on its way through the wrapper; one sent to the
  command stops no shipper that reads, a repeated one does; the end of stdin ends
  both processes; and exit code 0 means that nothing was left behind.
- **Streams.** A batch is regrouped by label set through a map and a list of keys.
  Correct: each line is in one stream, the one of its labels, in order; the same
  instant in two units gets one timestamp.
- **Backoff.** Shift, product, clamp and sum in u64, any of which may overflow.
  Correct: the delay is what was asked for within its bounds, and the bounds of
  `clamp`, which panics on crossed ones, never cross.
- **mock-loki.** `reset()` is six stores beside handlers that add. Correct: the
  counters are exact unless a push was under way during a reset.

`PROJECT.json` lists each of these hazards with the line where it bites and the
properties that cover it.

## The modules

- `ShipperState` declares the constants with their assumptions, the variables
  and what several tasks use (`AddStats`, `NotifyWaiters`, `Exited`).
- `SignalWatcher`, `Reader`, `Batcher`, `Pusher` each hold the actions of one
  task (or of all push tasks) over these variables.
- `Shipper` composes them: `Next` is any step of any task or of the environment.
  It states every property. `Spec` has no fairness, `FairSpec` has.
- `LogPipe` is the abstract specification of the shipper: a first-in first-out
  queue of lines between stdin and a set of deliveries, without tasks, channel,
  atomics or signals. `Shipper` maps itself to it (`Pipe`, `ImplementsLogPipe`).
- `MCShipper` adds the symmetry set; the `MCShipper_*.cfg` are the instances.
- `Cli` EXTENDS `Shipper` with the wrapper process, the delivery of signals to both
  processes, and their deaths. `MCCli` and its `.cfg` files instantiate it.
- `Builder` (pure) is `builder.rs`, `Backoff` (pure) is `backoff_delay`. `MockLoki`
  composes them with the test server and the push tasks that talk to it;
  `MCMockLoki` has the logs and batches.
- `Transport` is `js/transport.mjs` by itself, with its properties; `MCTransport`
  and its `.cfg` files instantiate it.
- `ShipperProofs`, `ControlProofs`, `OrderProofs`, `RefinementProofs` and
  `CliProofs` hold the theorems about the shipper and its command, each on top of
  the one before; `LogPipeProofs`, `TransportProofs` and `MockLokiProofs` the others.

How state and steps of the shipper correspond to the code:

- **One step per shared access.** Whatever a task does between two accesses to a
  cell that another task writes is one action. `dispatch()` is two
  (`AcquirePermit` up to the `fetch_sub`, `Dispatch` with `notify_waiters` and the
  spawn), the block policy is four, `force_flag.store` and `notify_one` are two.
  The eviction's `fetch_sub` and `notify_waiters` are one: with drop-oldest no
  reader looks at either. The atomics are Relaxed; the only pair that could be
  seen in another order is `force_flag` and `force_quit`, and the reader acts on
  each of them by itself.
- **A line is its position on stdin.** No decision of these tasks looks into a
  line beyond whether it is empty, a JSON object, or neither (`SegmentKinds`).
  A batch is the sequence of its lines; gzip is the sealing it causes, not the
  codec. That a line carries its identity is what lets the properties speak of
  order, loss and duplication.
- **`drain_deadline`** is `"off"` (0), `"armed"` (in the future) or `"over"`.
  `DeadlinePasses` moves it; it never goes back, as the clock does not. While it
  is armed, the end of a backoff may or may not lie past it. `DrainTimeout`, whose
  timer of the same `drain_max_ms` starts after the deadline was armed, is enabled
  as soon as the deadline is over: this allows it to be early by the time between
  the two, and never late.
- **`force_quit`** is the one stored permit of `notify_one`; `waiter` is the
  `Notified` future that the block policy pins. A `Notified` of `force_quit` that
  loses its `select!` gives its permit back when dropped, hence one Boolean.
- **Push tasks** are indexed by the permit they own, so `max_inflight` is the
  cardinality of `Permits`, and a free permit is an `Idle` record.
- **Loki** is external: a batch it answers 2xx is stored once more, one refused
  with a status below 500 is not, and one that got a 5xx or no answer may or may
  not have been. `ingested` counts it and nothing reads it.
- **stdin** is a pipe somebody else writes and closes; a read may fail at any
  moment. `taken` and `takenAtForce` (a history variable) exist for the
  properties; a reader takes segments one after the other.

Left out of these modules: log lines on stderr and the periodic
`stats_snapshot`, which only read; ticks that change nothing; panics (a failing
`serde_json::to_string`, a closed semaphore, a huge `max_inflight`); the failure
of `tx.send`, which needs a batcher that ended while the channel is open;
and the counters' being printed one after the other by `final_stats`, which
matters only when push tasks are still running (the `drain_race` finding).

How `LogPipe` corresponds to `Shipper`. A line is its number, so a set of lines is a
queue. What `Shipper` keeps in the channel, the deque and the sealed blocks is the
one `queue`; the line in the reader's hand is not in yet, so `seen` and `read` stop
before it. Sealing, ticks, permits, every step of a retry and the two looks of the
block policy are stutters. That each step maps to one of `LogPipe`'s says: a line
is refused only by drop-newest with a full queue or by a forced drain, evicted
only from an overfull queue and from its front, leaves from the front, in a batch
of 1 to `batch_size` lines, to one delivery, and ends in one counter with its whole
batch; and the process exits only with an empty queue. `RoomStays`, below, is what
makes the guard of `Accept` true at the moment the line enters, rather than at the
reader's look at `queue_len`.

How `Cli` corresponds to `cli.mjs`. Module level is two steps, `Spawn` and
`InstallHandlers`, because a signal between them finds no handler and kills the
wrapper. A signal that waits at a process is a member of `atWrapper` or
`atShipper`, so a second one of its kind merges with it. The shipper is
`"starting"` until it has installed its handlers, and a signal then leaves it
`"terminated"`. It may stop by itself before it reads (`Quit`: clap's 0 for help and
version and 2 for options it refuses, a panic's 101), and is done with its own
shutdown when `Exited`. The wrapper passes on its code, or 1 for a signal; `-1` is none.
`Kill` (the wrapper alone), `SignalGroup` (a terminal or a service manager) and
`KillShipper` (SIGKILL) are the environment's, and `sent` counts them all, `groups`
those of the second kind. Every other variable is `Shipper`'s, and stdin is inherited:
there is one pipe, and it stays open for a shipper whose wrapper is gone.

How `Builder`, `Backoff` and `MockLoki` correspond to the code:

- A log is a function from property names to JSON values, and values are strings
  that stand for them, the falsy ones included. `time` is one of them, and the
  number it is read as, the whole part of a positive one, is beside it. The line is what is left of the log. A label set is a
  function, its JSON key the function itself.
- A stream's values are `Entry` records, in place of arrays of two or three.
- The width of u64, the number of digits of a nanosecond timestamp and of
  milliseconds in a second are constants, so that the run can reach their limits:
  u64 of 4 bits, timestamps of 5 digits. The theorems hold for all widths.
- A request's handler is a small state machine, one step per access to a counter,
  and `/reset` one per store. The handler of a request whose client has gone is
  dropped while it sleeps. An injected failure has a status that is retried, as
  the default 429 has. The drain deadline is left out here: `Pusher` has it.

How `Transport` corresponds to `transport.mjs`:

- **One action per callback.** Node runs a callback to completion, so what it
  calls synchronously is part of the action, inside the Writable too: a released
  write makes the Writable pass on what it had buffered and then, after `end()`,
  call `final`, all before `releaseWrite` returns. `ReleaseWrite` and
  `FinalInRelease` are this nested part. A tick that follows at once, such as the
  error of a respawned process that could not be executed, is part of the same
  action.
- **The variables of the closure** have their names; the callbacks and the timer
  are Booleans that say whether they are set. `child` is the number of the
  process, `respawns + 1` at the time it was spawned, 0 for `null`.
- **A chunk is a unit.** `pipe` counts the chunks on their way to the shipper.
  The operating system's pipe takes `PipeCap` of them, Node keeps the rest and
  then `stdin.write` returns false, which makes the transport wait for `drain`.
  The high-water mark of Node's buffer is taken to be one chunk.
- **A shipper** is `up`, `gone` (ended, its exit not yet seen by Node) or
  `reaped`; `failing` is a process that could not be executed. It takes SIGTERM as
  advice, as the shipper does, and may end at any moment. Its stdin's error may
  come before or after its exit, whenever it is gone.
- **`spawn`** returns a process, throws, returns a process that reports an error
  later, or, out of descriptors, one without stdin (`SpawnOutcomes`). `"threw"` is
  the end of the worker thread.
- **External**: `node:stream`, `node:child_process` and the shipper process.
  `buildArgs`, the length of the delays and the diagnostics are left out.

## The runs

| Run | Question | Instance |
|---|---|---|
| `oldest` | Does `queue_len` stay exact and the other counters natural numbers, is the cap kept, are batches never empty or too long, are order and "oldest first" kept with sealed blocks? Is `LogPipe` implemented? | drop-oldest and gzip, cap 6, batch 2, 7 lines |
| `delivery` | Is every line accounted for, do the counters agree with Loki, is redelivery bounded? Is `LogPipe` implemented? | drop-newest, cap 2, batch 2, two push tasks, one retry, answers 204, 400, 429, 503, all three kinds of segment, 3 segments |
| `block` | Is no wakeup lost, is one signal advisory and do two stop intake? Do end of input, a forced drain and room in the queue lead on, does a partial batch leave? Is `LogPipe` implemented, the cap with it? | block, cap 1, batch 2, two push tasks, 3 lines, 2 signals, fair |
| `cli` | Is an exit code of 0 honest, are signals never multiplied, does one signal to the command stop no shipper that reads; does a repeated one end it, with the queue full or not, does the end of stdin end both processes? | block, cap 1, two lines, up to two signals from outside, each to the wrapper, the group or (SIGKILL) the shipper, so up to four arrive at the shipper, three of which it may take; every outcome of the binary's lookup, fair |
| `transport` | Is there one shipper at a time, none after the end, no orphan, no lost callback; does the stream finish only after the shipper; is a waiting write always called back, does `end()` always close the stream? | 2 respawns, a pipe of one chunk, every outcome of `spawn`, 5 writes, fair |
| `mock_loki` | Do the counters measure exactly, do the streams keep the batch, do timestamps agree, are delays within bounds? | one task, batches of three of four logs, two retries, Retry-After none, small and overflowing, one reset |
| `drain_race`, `redelivery`, `unbounded`, `ctrl_c`, `transport_gap`, `transport_no_stdin` | documented claims the code does not keep, see below | the smallest that show it |

Bounds. `MaxSegments` is the number of segments ever written and `MaxSignals`
that of signals ever received; nothing else is bounded. Why they are enough:
sealing needs two full batches (4 lines with batch 2), evicting a block while
others wait needs a cap of more than two blocks and more lines than the cap,
hence cap 6 and 7 lines; a blocked reader needs one line over the cap, and one
more to block again after it was woken; one retry shows both sides of `attempt
>= max_retries`; a third signal would only store the same flag and the same
permit again. Two permits let push tasks finish in either order and a permit be
free while another is held; they are declared symmetric where only safety is
checked, in `delivery`. What one policy's instance leaves small, another's or
the theorems cover: the theorems hold for all values, `max_batch`, `queue_cap`
and `max_inflight` of 0 included.

For the transport, two respawns show the first, a middle and the last shipper; a
pipe of one chunk makes the second write wait, and three more are buffered
behind it. `MaxWrites` bounds the application; nothing else is bounded but by
the code's own `maxRespawns`.

For the command, two lines with a cap of 1: the second finds the queue full, so that
a signal may find the reader before, in and after its wait for room. The second
signal is the repeated one, and a third would set the same flag again. For mock-loki, one task whose request
may be abandoned and sent again already has several handlers under way at once, as
the abandoned one runs on; batches are a line, another of the same or a different
label set, and the first again, which is the least that can come out of order or be
torn apart.

Deadlock is checked in every run: a state that stops must be the exited process,
which stutters explicitly (`Finished`), or both processes gone (`AllGone`), or all
push tasks done (`Quiet`), or, for the transport, a closed stream whose shippers
are reaped, or a worker that has thrown (`Settled`).

`max_inflight` 0 is in no run. The configuration accepts it, the semaphore then
has no permit, and the batcher's loop, which must empty its deque before the drain
window starts, never ends: `EofLeadsToExit` fails for `Permits = {}`, as a reader
can see from `AcquirePermit`.

### Fairness

`FairSpec` assumes weak fairness of each step the runtime owes:

- main, watcher and batcher steps, each branch of the batcher's `select!` on its
  own: tokio runs every task that is ready, and `select!` polls its branches in a
  random order, so a branch that stays ready is taken in the end;
- every push task moves on: the client has a timeout, so `send()` and `text()`
  resolve; a backoff ends;
- time passes (`DeadlinePasses`), and so does the interval timer (`Tick`).

Nothing is promised of the environment: `WriteSegment`, `CloseStdin`, `ReadError`
and `ReceiveSignal` need never happen. `WF_vars(ReaderProgress)` leaves out
`ReadError` for this reason. Which of the branches of the reader's `select!` is
taken is not promised either: liveness does not depend on it.

`Transport`'s `FairSpec` assumes that Node's event loop delivers every event that
is due: `drain`, `exit`, the error of a failed spawn, and `autoDestroy`
after finishing. The respawn timer is left out: it is unref'd and does not keep
the loop alive, and no liveness property needs a respawn to happen.
The shipper reads on or ends, and ends after end of input, which `EofLeadsToExit`
shows of it. The application promises nothing.

`CliFairSpec` assumes the same of the shipper while it runs, and of Node that it
goes on with its module and delivers signals and the child's events. `TakeSignal`
is fair here, as a signal that waits at a running process with a handler is
delivered. Steps that exclude each other, such as those of the wrapper's module and
of the child's `exit` and `error`, share one condition; so do those that end the
same wait of the batcher, of which one taken is enough. `Kill`, `SignalGroup`,
`KillShipper` and `ShipperQuits` need never happen.

### Findings

1. `drain_race`: "every drop moves a counter, never silent" (README). The
   batcher's drain timeout may fire before a push task has polled the deadline;
   `final_stats` is then printed without the lines in flight.
   `GracefulExitAddsUp` states what does hold: an exit before the deadline adds up.
2. `redelivery`: "At-most-once delivery" (README). A batch whose answer was lost
   is sent again. `RetriesBoundDuplicates` states what does hold: at most
   `1 + max_retries` times.
3. `unbounded`: "Bounded in-memory queue" (README). Under drop-oldest the
   channel in front of the batcher is not bounded. `QueueBounded` states what does
   hold: the batcher's part is; and under newest and block, all of it.
4. `ctrl_c`: "Signals are advisory ... a repeated signal forces the bounded drain"
   and "a group SIGINT no longer kills the shipper mid-queue. Send it twice"
   (README). Started through the command, the shipper gets one Ctrl-C twice, from
   the terminal and from the wrapper, and ends intake with stdin open, unless the
   two merge. `OneKillIsAdvisory` states what does hold: a signal sent to the
   command alone does not stop a shipper that reads. It says no more than that, as
   the shipper has no handlers until `main.rs:132`: one signal forwarded before
   terminates it, with stdin open and nothing read.
5. `transport_gap`: "reports on stderr how many lines the gap cost" (README).
   `droppedWhileDown` counts what is written while the shipper is known to be dead,
   not what was in its pipe or written before its exit was seen.
   `PipesEveryChunk` states what does hold: without a crash nothing is uncounted.
6. `transport_no_stdin`: "never throws into your app" (README). Out of
   descriptors, Node returns a child without stdin, and `start()` throws a
   `TypeError` outside its `try`, in a respawn from the timer's callback.

## The proofs

Assumed: `ConfigAssumption` and `EnvironmentAssumption` of `ShipperState`, that
the configuration has the types clap gives it and that Loki answers with HTTP
statuses. No bound is assumed small; both `MaxSegments` and `MaxSignals` are any
natural number.

`ShipperProofs` proves `IInv` invariant. None of the properties is inductive
alone: that `queue_len` never goes below zero (part of `TypeOK`) follows from
`QueueLenExact`, which in turn needs to know how many lines a step removes; so
`IInv` is the conjunction of

- `TypeOK`;
- `QueueLenExact`: the counter is the number of lines in channel, deque, sealed
  blocks and between `fetch_add` and `send`;
- `SealedFull`: each sealed block holds exactly `batch_size` lines, and
  `sealed_entries` is their sum, so that popping one lowers both by the same;
- `HoldsLine`: the reader holds a line exactly where the code has one;
- `RoomStays`: between a successful look at `queue_len` and the `fetch_add`
  only the batcher moves, so there still is room. This is what makes a
  check-then-act on an atomic safe, and what `QueueBounded` rests on;
- `QueueBounded`: for drop-oldest, one receive adds one line and one eviction
  removes at least one, and it finds something to remove;
- `BatchesCapped`.

Each is proved preserved by one lemma per task, with one step per action.
`Invariance` combines them, and the four theorems about `TypeOK`,
`QueueLenExact`, `QueueBounded` and `BatchesCapped` are its corollaries.

`ControlProofs` proves what concerns the control alone: `NoLostWakeup` is
inductive by itself given the types; `AdvisorySignal` and `ForceStopsIntake` need
`SInv`, which says that `force_flag` and `force_quit` are set only after a second
signal, and that a reader past its test of the flag can take one more segment at
most. `CInv` is not a property of a run but a lemma of the refinement: which
policy the reader may be executing, and that the shutdown goes one way
(deadline armed, sender dropped, channel seen empty and closed, queue emptied, batcher
done with every permit back or the deadline over, exit).

`OrderProofs` proves `QueueInOrder` and, from it, the action property
`EvictsOldest`. Both speak of sequences of unbounded length that are concatenated,
split and flattened, where an induction over the data would be expected. They are
therefore stated through sets: each container is a strictly increasing sequence, and
the lines of an older container are all less than those of a younger one. How each
operation on a sequence (append, head, tail, a prefix, a sealed block) changes the
set of its elements and keeps it increasing is a lemma apart, proved without
induction; each action then is a few of these lemmas. `OInv` adds that the line
in hand is the last one taken, and that `sealed_entries` is the number of lines in
the sealed blocks, as a cardinality of a set of positions, which the accounting
needs.

`RefinementProofs` proves `ShipperImplementsLogPipe`, from `RInv`, the conjunction
of the three invariants. One lemma per visible action names the step of the pipe it
is (`SendIsPiped`, `AcquireIsPiped`, `DropIsPiped` and so on); `UnseenIsHidden`
lists all that the pipe does not see; `StepIsPiped` puts them together. The side
conditions are what is interesting: that the pipe's `Accept` finds room is
`RoomStays`, that `Dispatch` takes the front is `OInv`, that `Close` finds the queue
empty is `ShutdownInv`.

The accounting then is not proved of the shipper at all. `LogPipeProofs` proves
`PipeConserves` of the abstract pipe, where it is easy, as lines are numbers and
batches are disjoint sets; `Pipes` instantiates that module with the refinement
mapping, and `EveryLineIsAccounted` is the image of `PipeConserves` under it.
`GracefulExitIsExact` adds `ShutdownInv`.

What Loki has stored is nothing the pipe sees. `DuplicatesAreBounded` and
`CountersAgreeWithLoki` come from `LokiInv` (a line in flight is stored at most once
per attempt made, one that is queued, in hand or not read yet not at all) and
`SettledInv` (the stored lines no longer in flight are at least those counted as
delivered, and at most those and the ones counted as dropped in delivery). A line
ends its flight in one step with its batch, and disjoint batches make the
cardinalities add up.

`TransportProofs` proves `TInv` invariant, from `TransportAssumption` (the
constants are natural numbers, `spawn` has no outcome but the four). That there is
one shipper does not follow from itself: a respawn is safe because the timer is
set only when the previous process is reaped. `TInv` therefore joins to the
properties

- `Links`: `live` means the child runs or its exit is to be seen; a process that
  runs makes `live` true; a timer that is set means no shipper and no end;
- `Numbering`: no process has the number the next one gets;
- `EndOrder`: `finished` and `finalCb` come after `ending`, which comes after
  `end()`, and no write is pending by then.

`TInvKept` has one lemma per callback. The invariants of the `transport` run
but `PipesEveryChunk` are its corollaries; `NoRespawn`, an action property,
follows because only `start()` makes a process and it is called with neither
`ending` nor `closed` set.

`EveryChunkIsPiped` needs to know where every chunk is: `Chunks` says that, as long
as no shipper crashed and the stream is not closed, what was written is what was
shipped, dropped, buffered by Node or in the pipe, and that a pipe with something in
it has a shipper to read it; `Endings` says that a shipper goes, without a
crash, only after the transport ended its stdin. By the time the stream finishes
the last two places are empty.

`CliProofs` proves that every step of the command is a step of the shipper or leaves
it alone (`ShipperUnderWrapper`), so that all of the above holds under the wrapper.
`SignalsNeverMultiply` is inductive given the types: each step that moves a signal takes
it from one set and adds it to the next, where it may merge, and only a signal to
the group arrives twice. `OneKill` then follows: one signal, not to the group, is
counted at most once, which is `SignalIsAdvisory`; and a child that is neither running
nor killed has taken nothing (`Unread`: a shipper is started once, and only one
that runs reads). `ExitZeroIsDrained` needs that 0 comes only from a shipper that
exited or was asked for its help (`ZeroMeansExited`), and then is `ShutdownInv`
and `Unread`.

`MockLokiProofs` proves `DelayWithinBounds` from `BackoffAssumption` and
`MockAssumption`. `DelayInv` adds where a delay came from: an attempt counted from
1, and the server's header or none. The arithmetic is in two lemmas,
`ExponentialBounds` and `RetryAfterBounds`; the powers of two are enumerated, as
the code's `min(16)` makes them few.

Of what a request holds it proves two properties for batches of any length, from
`BatchAssumption` (a batch is a sequence, and a time fits the u128 that holds it) and
`BuilderAssumption` (a timestamp has 1 to 39 digits). The theorems of the library about
induction and about folds take an operator, which the provers cannot instantiate, so
the induction is over a set (`Induction`: a set of natural numbers with 0 and with the
successor of each of its members is all of them), and the existence of the function
that `FoldLeft` recurs on is a lemma (`FoldExists`).

- `StreamsAreTheBatch`: `GroupsOneByOne` unfolds payload's loop one log at a time, and
  `Grouped` is its invariant: what is in the streams after k logs. It is stronger than
  the property in that it counts the places of all streams, which are k. The rank
  of a log among those with its labels is its position in their stream.
- `OneInstantOneTimestamp`: the number of digits of a number is unique, a factor of
  10^k adds k of them, and powers of ten multiply, up to 10^39. `Pow10` is a table, as a
  number has at most 39 digits.

`CountersAreExact` is for any finite set of tasks (`MockAssumption`) and any number of
resets. `ServerInv` adds to `CountersExact` that an attempt still to be made has no
handler, so that each `Post` is a new one (`FreshRequests`), and that a reset that
raced with nobody finds none under way and leaves the counters it has passed at
zero (`ResetsAlone`). That `entries` counts log lines follows from `Grouped`: the
server finds as many values in a body as the batch has logs (`EveryLogIsOneEntry`).

`LogPipeProofs` proves of the abstract pipe that it is first-in first-out (batches in
flight share no line and are older than the queue), conserves lines and closes
empty. With `ShipperImplementsLogPipe` all three hold of `Shipper`.

TLC checked each of these invariants (`IInv`, `SInv`, `CInv`, `OInv`, `LokiInv`,
`SettledInv`, `TInv`, `ChunkInv`, `ServerInv`, `Unread`) before it was proved.

Only model-checked: liveness, which rests on fairness and `ENABLED`
(`EofLeadsToExit`, `EndCloses` and the other leads-to properties). Every safety
property of a passing run is proved.

## Not modelled

- **`convert_arrays` and JSON text** (`builder.rs`): a rewriting of values and
  their serialization, with no state and no decision of the program behind it. The
  tests compare the text.
- **What Loki accepts** as a timestamp or a label: it is Loki's, and `Pusher` takes
  its answer as free. A refused line costs its batch (`drop_batch`).
- **`queue_cap` 0 with the block policy** blocks the first line until a forced
  drain, as configured; no run has it.
- **A step of the system clock** during the drain: the push tasks poll wall-clock
  time, the model's clock only goes forward.
- **The HTTP client**: headers, tenant, credentials, HTTP/2, set up once. That it may
  not be built, which ends the shipper, is `ShipperQuits`.
- **A partial installation of signal handlers** (`signal(...).ok()`, `main.rs:89-97`):
  a signal whose stream could not be made would keep its default action.
- **`stats_snapshot`** and mock-loki's `GET /stats`, which only read.
- **Benchmarks, examples, packaging**: they drive or ship the program.

## What is left

`EndToEnd`: application, transport, pipe and shipper in one module; which lines
survive the death of which process.
