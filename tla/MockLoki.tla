------------------------------ MODULE MockLoki ------------------------------
(***************************************************************************)
(* mock-loki, the server the benchmarks and the end-to-end test measure    *)
(* the shipper with, and push tasks that send it what Builder makes of     *)
(* their batches and sleep for Backoff's delays between attempts.          *)
(*                                                                         *)
(* Handlers of several requests and of /reset run concurrently over six    *)
(* atomic counters.  requests_http2 is a second `requests` and bytes_raw a *)
(* second `bytes`, and both are left out; `bytes` counts bodies.  What the *)
(* shipper sends is valid gzip, so the 400 for a bad one is left out too,  *)
(* and so is the drain deadline of the push tasks, which Pusher has.       *)
(***************************************************************************)
EXTENDS Builder, Backoff

CONSTANTS
  Tasks,       \* push tasks
  Batches,     \* the batches each task may carry
  RetryAfters, \* the values of --retry-after-secs, 0 for no header
  MaxRetries,  \* max_retries
  MaxResets    \* bound: POSTs to /reset

ASSUME MockAssumption ==
  /\ MaxRetries \in Nat /\ MaxResets \in Nat /\ RetryAfters \subseteq Nat
  /\ IsFiniteSet(Tasks)

\* Batches are sequences of logs, and times fit the u128 that holds them.
ASSUME BatchAssumption ==
  \A t \in Tasks : \A b \in Batches[t] :
    /\ Len(b) \in Nat /\ DOMAIN b = 1 .. Len(b)
    /\ \A i \in DOMAIN b : b[i].time = NoTime \/ IsTime(b[i].time)

VARIABLES
  retry_after_secs,  \* opts.retry_after_secs
  batch,             \* the logs of each task
  task,              \* pc, attempt, delay, and the Retry-After it was given
  handler,           \* the handler of each attempt: its state, and resets at its start
  counters,          \* the server's atomics
  resetting,         \* the counter reset() stores to next, or 0
  resets,            \* resets that have ended
  raced              \* history: was a handler under way during the last reset?

vars == <<retry_after_secs, batch, task, handler, counters, resetting, resets, raced>>

Request == Tasks \X (0 .. MaxRetries)
Current(t) == <<t, task[t].attempt>>

\* The counters, in the order in which reset() clears them.
Counters == <<"requests", "entries", "injected_failures", "bytes">>

Init ==
  /\ retry_after_secs \in RetryAfters
  /\ batch \in {f \in [Tasks -> UNION {Batches[t] : t \in Tasks}] :
                  \A t \in Tasks : f[t] \in Batches[t]}
  /\ task = [t \in Tasks |-> [pc |-> "ready", attempt |-> 0, delay |-> 0, asked |-> {}]]
  /\ handler = [r \in Request |-> [state |-> "none", resets |-> 0]]
  /\ counters = [c \in ToSet(Counters) |-> 0]
  /\ resetting = 0 /\ resets = 0 /\ raced = FALSE

-----------------------------------------------------------------------------
(* The server.                                                             *)

Built(t) == [i \in DOMAIN batch[t] |-> build(batch[t][i])]
Body(t)  == payload(Built(t))

\* count_entries: the values of all streams.
\* Mutant: one for each stream.
count_streams(streams) == Len(streams)
count_entries(streams) ==
  Cardinality(UNION {{k} \X DOMAIN streams[k].values : k \in DOMAIN streams})

\* The handler of r goes on to a state, raising a counter by n.
Step(r, from, to, counter, n) ==
  /\ handler[r].state = from
  /\ handler' = [handler EXCEPT ![r].state = to]
  /\ counters' = [counters EXCEPT ![counter] = @ + n]
  /\ UNCHANGED <<retry_after_secs, batch, task, resetting, resets, raced>>

\* The failure that --fail-rate injects once --latency-ms is over.
InjectFailure(r) == Step(r, "latency", "failed", "injected_failures", 1)

ReadBody(r) == Step(r, "latency", "counting", "bytes", 1)

CountEntries(r) == Step(r, "counting", "stored", "entries", count_entries(Body(r[1])))

\* The client is gone: hyper drops the handler while it sleeps.
Disconnected(r) ==
  /\ handler[r].state = "latency"
  /\ r # Current(r[1]) \/ task[r[1]].pc # "waiting"
  /\ handler' = [handler EXCEPT ![r].state = "dropped"]
  /\ UNCHANGED <<retry_after_secs, batch, task, counters, resetting, resets, raced>>

UnderWay(r) == handler[r].state \in {"latency", "counting"}

\* reset(): one store after another.
StartReset ==
  /\ resetting = 0 /\ resets < MaxResets
  /\ resetting' = 1
  /\ raced' = \E r \in Request : UnderWay(r)
  /\ UNCHANGED <<retry_after_secs, batch, task, handler, counters, resets>>

ResetNext ==
  /\ resetting # 0
  /\ counters' = [counters EXCEPT ![Counters[resetting]] = 0]
  /\ IF resetting < Len(Counters)
     THEN resetting' = resetting + 1 /\ UNCHANGED resets
     ELSE resetting' = 0 /\ resets' = resets + 1
  /\ UNCHANGED <<retry_after_secs, batch, task, handler, raced>>

-----------------------------------------------------------------------------
(* The push tasks.                                                         *)

SetPc(t, pc) == task' = [task EXCEPT ![t].pc = pc]
ServerUnchanged ==
  UNCHANGED <<retry_after_secs, batch, handler, counters, resetting, resets, raced>>

\* The request reaches the server, whose handler counts it at once.
Post(t) ==
  /\ task[t].pc = "ready"
  /\ SetPc(t, "waiting")
  /\ handler' = [handler EXCEPT ![Current(t)] = [state |-> "latency", resets |-> resets]]
  /\ counters' = [counters EXCEPT !["requests"] = @ + 1]
  /\ raced' = (raced \/ resetting # 0)
  /\ UNCHANGED <<retry_after_secs, batch, resetting, resets>>

Delivered(t) ==
  /\ task[t].pc = "waiting"
  /\ handler[Current(t)].state = "stored"
  /\ SetPc(t, "done")
  /\ ServerUnchanged

\* attempt += 1, then the sleep; or the batch is dropped.
Retry(t, retry_after) ==
  IF task[t].attempt >= MaxRetries
  THEN SetPc(t, "done")
  ELSE \E delay \in BackoffDelays(task[t].attempt + 1, retry_after) :
         task' = [task EXCEPT ![t] = [pc |-> "backoff", delay |-> delay,
                                      attempt |-> task[t].attempt + 1,
                                      asked |-> retry_after]]

\* The header of an injected failure.
RetryAfterHeader == IF retry_after_secs > 0 THEN {retry_after_secs} ELSE {}

\* The answer was an injected 429.
Refused(t) ==
  /\ task[t].pc = "waiting"
  /\ handler[Current(t)].state = "failed"
  /\ Retry(t, RetryAfterHeader)
  /\ ServerUnchanged

\* No connection, or no answer in time: there is no header to honor.
TransportFails(t) ==
  /\ task[t].pc \in {"ready", "waiting"}
  /\ Retry(t, {})
  /\ ServerUnchanged

Woken(t) ==
  /\ task[t].pc = "backoff"
  /\ task' = [task EXCEPT ![t] = [@ EXCEPT !.pc = "ready", !.delay = 0, !.asked = {}]]
  /\ ServerUnchanged

-----------------------------------------------------------------------------
Quiet ==
  /\ \A t \in Tasks : task[t].pc = "done"
  /\ UNCHANGED vars

Next ==
  \/ \E r \in Request :
       InjectFailure(r) \/ ReadBody(r) \/ CountEntries(r) \/ Disconnected(r)
  \/ \E t \in Tasks :
       Post(t) \/ Delivered(t) \/ Refused(t) \/ TransportFails(t) \/ Woken(t)
  \/ StartReset \/ ResetNext
  \/ Quiet

Spec == Init /\ [][Next]_vars

-----------------------------------------------------------------------------
(* Properties.                                                             *)

Since(r, states) == handler[r].resets = resets /\ handler[r].state \in states
Counted(states) == {r \in Request : Since(r, states)}

RequestsExact ==
  /\ counters["requests"] = Cardinality(
       Counted({"latency", "counting", "stored", "failed", "dropped"}))
  /\ counters["injected_failures"] = Cardinality(Counted({"failed"}))
  /\ counters["bytes"] = Cardinality(Counted({"counting", "stored"}))

\* The log lines that were stored, each as often as its batch was.
StoredLines == UNION {{r} \X DOMAIN batch[r[1]] : r \in Counted({"stored"})}

EntriesExact == counters["entries"] = Cardinality(StoredLines)

\* What a measurement relies on: after a reset during which no push was under way,
\* the counters say exactly what became of the requests that came after it, and
\* `entries` is the number of log lines in the batches that were stored.
CountersExact == resetting = 0 /\ ~raced => RequestsExact /\ EntriesExact

\* payload: no two streams have the same labels, and each stream holds exactly the
\* logs of the batch with its labels, in the order of the batch: the n-th of them is
\* the n-th value of its stream.
StreamsKeepBatch ==
  \A t \in Tasks :
    LET built == Built(t)
        body  == Body(t)
        With(labels, n) == {i \in 1 .. n : built[i].labels = labels}
    IN /\ \A k, m \in DOMAIN body : k # m => body[k].stream # body[m].stream
       /\ \A k \in DOMAIN body :
            /\ Len(body[k].values) = Cardinality(With(body[k].stream, Len(built)))
            /\ body[k].values # <<>>
       /\ \A i \in DOMAIN built : \E k \in DOMAIN body :
            /\ body[k].stream = built[i].labels
            /\ body[k].values[Cardinality(With(built[i].labels, i))] = Entry(built[i])

\* Applications that stamp one instant in seconds, milliseconds, microseconds or
\* nanoseconds get one timestamp, so their lines meet in the right order.
SameInstantSameTimestamp ==
  ~ReplaceTimestamp =>
    \A t, u \in Tasks : \A i \in DOMAIN batch[t], j \in DOMAIN batch[u] :
      LET fine == batch[t][i].time
          coarse == batch[u][j].time
      IN \A k \in 0 .. TsDigits :
           coarse > 0 /\ fine = coarse * Pow10[k] /\ Digits(fine) <= TsDigits
             => timestamp_ns(fine) = timestamp_ns(coarse)

\* Between attempts a task sleeps, however extreme its settings and the server's
\* header: never shorter than it was asked to, or than twice retry_base_ms, but for
\* retry_max_ms, and never longer than that (or retry_base_ms) and a jitter.
DelayWithinBounds ==
  \A t \in Tasks : task[t].pc = "backoff" =>
    LET delay == task[t].delay
        asked == {secs * MsPerSec : secs \in task[t].asked}
    IN /\ delay <= Greatest(MaxMs, BaseMs) + JitterMax
       /\ \A ms \in asked : delay >= Greatest(Least(ms, MaxMs), BaseMs)
       /\ asked = {} => delay >= Least(2 * BaseMs, MaxMs)

=============================================================================
