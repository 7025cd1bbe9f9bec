-------------------------------- MODULE Pusher --------------------------------
(***************************************************************************)
(* pusher::push: one task per batch, holding the permit it was dispatched  *)
(* with.  It sends the batch, and retries transport errors, 429 and 5xx up *)
(* to max_retries times with a backoff, unless the drain deadline is over  *)
(* or would be before the backoff is.                                      *)
(*                                                                         *)
(* Time is the three values of drain_deadline: "armed" becomes "over" at   *)
(* some moment (now >= deadline), after which every test of the deadline   *)
(* says so.  While it is armed the end of a backoff may or may not lie     *)
(* past it.                                                                *)
(*                                                                         *)
(* Loki is external: it stores a batch it answers 2xx; it has not stored   *)
(* one it refuses with another status below 500; and a request that got a  *)
(* 5xx, a transport error or no answer in time may have been stored or not.*)
(***************************************************************************)
EXTENDS ShipperState

PusherInit ==
  /\ push = [p \in Permits |-> Idle]
  /\ ingested = [l \in Line |-> 0]

\* classify
classify(status) == IF status = 429 \/ status >= 500 THEN "Retry" ELSE "Drop"

\* resp.status().is_success()
\* Mutant: anything that will not be retried counts as delivered.
NotRetryable(status) == classify(status) = "Drop"
IsSuccess(status) == status \in 200 .. 299

\* past_drain_deadline(0), and the outcomes past_drain_deadline(delay) can have.
PastDrainDeadline == drain_deadline = "over"
PastAfterDelay ==
  CASE drain_deadline = "off"   -> {FALSE}
    [] drain_deadline = "armed" -> BOOLEAN
    [] drain_deadline = "over"  -> {TRUE}

\* What Loki may have done with a request it answers with a status, or not at all.
LokiStores(status) ==
  CASE status \in 200 .. 299 -> {TRUE}
    [] status >= 500         -> BOOLEAN
    [] OTHER                 -> {FALSE}
NoAnswer == BOOLEAN

\* Loki stores the batch of p, or does not, as the choices allow.
Ingest(p) ==
  ingested' = [l \in Line |-> IF \E i \in DOMAIN push[p].batch : push[p].batch[i] = l
                              THEN ingested[l] + 1 ELSE ingested[l]]
LokiActs(p, choices) ==
  \/ TRUE \in choices /\ Ingest(p)
  \/ FALSE \in choices /\ UNCHANGED ingested

\* The task returns, which drops its permit.
Finish(p) == push' = [push EXCEPT ![p] = Idle]

\* Mutant: a dropped batch counts as one entry.
drop_one(p) ==
  /\ AddStats([batches_dropped_delivery |-> 1, entries_dropped_delivery |-> 1])
  /\ Finish(p)
drop_batch(p) ==
  /\ AddStats([batches_dropped_delivery |-> 1,
               entries_dropped_delivery |-> Len(push[p].batch)])
  /\ Finish(p)

\* Mutant: off by one.
OneRetryMoreLeft(p) == push[p].attempt <= MaxRetries
RetriesLeft(p) == push[p].attempt < MaxRetries

\* After a retryable failure: give up, or sleep for the backoff delay.
RetryOrDrop(p) ==
  \/ /\ ~RetriesLeft(p) \/ TRUE \in PastAfterDelay
     /\ drop_batch(p)
  \/ /\ RetriesLeft(p)
     /\ FALSE \in PastAfterDelay
     /\ AddStats([retries |-> 1])
     /\ push' = [push EXCEPT ![p] = [pc |-> "backoff", batch |-> push[p].batch,
                                       attempt |-> push[p].attempt + 1, status |-> 0]]

PushUnchanged ==
  UNCHANGED <<stdinVars, watcherVars, forceVars, queueVars, drain_deadline,
              channelVars, readerVars, batcherVars>>

-----------------------------------------------------------------------------
\* The top of the loop, up to the first poll of req.send().
StartAttempt(p) ==
  /\ ~Exited
  /\ push[p].pc = "start"
  /\ IF PastDrainDeadline
     THEN drop_batch(p)
     ELSE push' = [push EXCEPT ![p].pc = "sending"] /\ UNCHANGED stats
  /\ UNCHANGED ingested
  /\ PushUnchanged

\* Ok(resp) with a 2xx status.
Delivered(p) ==
  /\ ~Exited
  /\ push[p].pc = "sending"
  /\ \E status \in Statuses : IsSuccess(status) /\ LokiActs(p, LokiStores(status))
  /\ AddStats([batches_sent |-> 1, entries_delivered |-> Len(push[p].batch)])
  /\ Finish(p)
  /\ PushUnchanged

\* Ok(resp) with another status: the body of the answer is read next.
StatusReceived(p) ==
  /\ ~Exited
  /\ push[p].pc = "sending"
  /\ \E status \in Statuses :
       /\ ~IsSuccess(status)
       /\ push' = [push EXCEPT ![p] = [@ EXCEPT !.pc = "reading", !.status = status]]
       /\ LokiActs(p, LokiStores(status))
  /\ UNCHANGED stats
  /\ PushUnchanged

\* resp.text() completed: classify the status.
BodyRead(p) ==
  /\ ~Exited
  /\ push[p].pc = "reading"
  /\ \/ classify(push[p].status) = "Drop" /\ drop_batch(p)
     \/ classify(push[p].status) = "Retry" /\ RetryOrDrop(p)
  /\ UNCHANGED ingested
  /\ PushUnchanged

\* Err(e): connect error, reset, or the client's own timeout.
TransportError(p) ==
  /\ ~Exited
  /\ push[p].pc = "sending"
  /\ LokiActs(p, NoAnswer)
  /\ RetryOrDrop(p)
  /\ PushUnchanged

SleepElapsed(p) ==
  /\ ~Exited
  /\ push[p].pc = "backoff"
  /\ push' = [push EXCEPT ![p].pc = "start"]
  /\ UNCHANGED <<stats, ingested>>
  /\ PushUnchanged

\* drain_deadline_expired wins one of the three select!s.
DeadlineCancels(p) ==
  /\ ~Exited
  /\ push[p].pc \in {"sending", "reading", "backoff"}
  /\ PastDrainDeadline
  /\ IF push[p].pc = "sending" THEN LokiActs(p, NoAnswer) ELSE UNCHANGED ingested
  /\ drop_batch(p)
  /\ PushUnchanged

\* The wall clock reaches the deadline.
DeadlinePasses ==
  /\ ~Exited
  /\ drain_deadline = "armed"
  /\ drain_deadline' = "over"
  /\ UNCHANGED <<stdinVars, watcherVars, forceVars, queueVars, channelVars,
                 stats, readerVars, batcherVars, pushVars>>

PushStep(p) ==
  \/ StartAttempt(p) \/ Delivered(p) \/ StatusReceived(p) \/ BodyRead(p)
  \/ TransportError(p) \/ SleepElapsed(p) \/ DeadlineCancels(p)

PusherNext == DeadlinePasses \/ \E p \in Permits : PushStep(p)

=============================================================================
