------------------------------- MODULE Reader -------------------------------
(***************************************************************************)
(* main: the loop that reads stdin and applies the drop policy, then the   *)
(* shutdown sequence (arm the drain deadline, drop the sender, wait for    *)
(* the batcher, print final_stats, exit).  Each access to a cell another   *)
(* task writes is a step of its own.                                       *)
(*                                                                         *)
(* The writer of stdin is the environment: it appends segments and closes  *)
(* the pipe when it likes.  tx.send fails only if the batcher task is gone *)
(* while the channel is open, which a batcher that never panics never is.  *)
(***************************************************************************)
EXTENDS ShipperState

ReaderInit ==
  /\ written = 0 /\ taken = 0 /\ stdinOpen = TRUE
  /\ readerPc = "top" /\ held = 0 /\ ended = "no"
  /\ queue_len = 0 /\ waiter = "none"
  /\ drain_deadline = "off"
  /\ channel = <<>> /\ txOpen = TRUE
  /\ stats = [s \in StatNames |-> 0]

-----------------------------------------------------------------------------
(* The environment's end of stdin.                                         *)

WriteSegment ==
  /\ ~Exited
  /\ stdinOpen
  /\ written < MaxSegments
  /\ written' = written + 1
  /\ UNCHANGED <<taken, stdinOpen, watcherVars, forceVars, queueVars,
                 drain_deadline, channelVars, stats, readerVars, batcherVars,
                 pushVars>>

CloseStdin ==
  /\ ~Exited
  /\ stdinOpen
  /\ stdinOpen' = FALSE
  /\ UNCHANGED <<written, taken, watcherVars, forceVars, queueVars,
                 drain_deadline, channelVars, stats, readerVars, batcherVars,
                 pushVars>>

-----------------------------------------------------------------------------
(* The read loop.                                                          *)

Break(why) ==
  /\ readerPc' = "stop"
  /\ ended' = why

\* Mutant: the flag is not tested, only force_quit can end the loop.
SkipForceFlag ==
  /\ readerPc = "top"
  /\ readerPc' = "select"
  /\ UNCHANGED <<stdinVars, watcherVars, forceVars, queueVars, drain_deadline,
                 channelVars, stats, held, ended, batcherVars, pushVars>>

\* The test of force_flag at the top of the loop.
CheckForceFlag ==
  /\ readerPc = "top"
  /\ IF force_flag
     THEN Break("force")
     ELSE readerPc' = "select" /\ UNCHANGED ended
  /\ UNCHANGED <<stdinVars, watcherVars, forceVars, queueVars, drain_deadline,
                 channelVars, stats, held, batcherVars, pushVars>>

\* segments.next_segment() wins the select!: an empty segment is skipped, one
\* that is not a JSON object is counted, a log goes on to the drop policy.
ReadSegment ==
  /\ readerPc = "select"
  /\ taken < written
  /\ taken' = taken + 1
  /\ \E kind \in SegmentKinds :
       /\ AddStats([read_lines   |-> IF kind = "empty" THEN 0 ELSE 1,
                    parse_errors |-> IF kind = "bad" THEN 1 ELSE 0])
       /\ IF kind = "log"
          THEN /\ held' = taken + 1
               /\ readerPc' = IF DropPolicy = "oldest" THEN "add" ELSE "policy"
          ELSE /\ readerPc' = "top"
               /\ UNCHANGED held
  /\ UNCHANGED <<written, stdinOpen, watcherVars, forceVars, queueVars,
                 drain_deadline, channelVars, ended, batcherVars, pushVars>>

\* Ok(None) after the last segment of a closed pipe.
ReadEof ==
  /\ readerPc = "select"
  /\ ~stdinOpen /\ taken = written
  /\ Break("eof")
  /\ UNCHANGED <<stdinVars, watcherVars, forceVars, queueVars, drain_deadline,
                 channelVars, stats, held, batcherVars, pushVars>>

\* Err(e): stdin_read_error.
ReadError ==
  /\ readerPc = "select"
  /\ Break("error")
  /\ UNCHANGED <<stdinVars, watcherVars, forceVars, queueVars, drain_deadline,
                 channelVars, stats, held, batcherVars, pushVars>>

\* force_quit.notified() wins the select! and takes the stored permit.
ForcedWhileReading ==
  /\ readerPc = "select"
  /\ force_quit
  /\ force_quit' = FALSE
  /\ Break("force")
  /\ UNCHANGED <<stdinVars, watcherVars, force_flag, queueVars, drain_deadline,
                 channelVars, stats, held, batcherVars, pushVars>>

-----------------------------------------------------------------------------
(* The drop policies.                                                      *)

\* Mutant: off by one.
RoomAtCap == queue_len <= QueueCap
Room == queue_len < QueueCap

\* Newest: a full queue loses the line just read.
NewestCheck ==
  /\ readerPc = "policy"
  /\ DropPolicy = "newest"
  /\ IF Room
     THEN readerPc' = "add" /\ UNCHANGED <<held, stats>>
     ELSE /\ AddStats([entries_dropped_queue |-> 1])
          /\ held' = 0
          /\ readerPc' = "top"
  /\ UNCHANGED <<stdinVars, watcherVars, forceVars, queueVars, drain_deadline,
                 channelVars, ended, batcherVars, pushVars>>

\* Block: the first look at queue_len.
BlockCheck ==
  /\ readerPc = "policy"
  /\ DropPolicy = "block"
  /\ readerPc' = IF Room THEN "add" ELSE "register"
  /\ UNCHANGED <<stdinVars, watcherVars, forceVars, queueVars, drain_deadline,
                 channelVars, stats, held, ended, batcherVars, pushVars>>

\* notify.notified() and enable(): from here on a notify_waiters is not missed.
BlockRegister ==
  /\ readerPc = "register"
  /\ waiter' = "waiting"
  /\ readerPc' = "recheck"
  /\ UNCHANGED <<stdinVars, watcherVars, forceVars, queue_len, drain_deadline,
                 channelVars, stats, held, ended, batcherVars, pushVars>>

\* Mutant: no second look.
WaitWithoutRecheck ==
  /\ readerPc = "recheck"
  /\ readerPc' = "wait"
  /\ UNCHANGED <<stdinVars, watcherVars, forceVars, queueVars, drain_deadline,
                 channelVars, stats, held, ended, batcherVars, pushVars>>

\* The second look at queue_len; leaving the loop drops the waiter.
BlockRecheck ==
  /\ readerPc = "recheck"
  /\ IF Room
     THEN readerPc' = "add" /\ waiter' = "none"
     ELSE readerPc' = "wait" /\ UNCHANGED waiter
  /\ UNCHANGED <<stdinVars, watcherVars, forceVars, queue_len, drain_deadline,
                 channelVars, stats, held, ended, batcherVars, pushVars>>

BlockWoken ==
  /\ readerPc = "wait"
  /\ waiter = "woken"
  /\ waiter' = "none"
  /\ readerPc' = "policy"
  /\ UNCHANGED <<stdinVars, watcherVars, forceVars, queue_len, drain_deadline,
                 channelVars, stats, held, ended, batcherVars, pushVars>>

\* A forced drain gives up the line in hand, and counts it.
\* Mutant: no counter moves.
GiveUpSilently ==
  /\ readerPc = "wait"
  /\ force_quit
  /\ force_quit' = FALSE
  /\ waiter' = "none"
  /\ held' = 0
  /\ Break("force")
  /\ UNCHANGED <<stdinVars, watcherVars, force_flag, queue_len, drain_deadline,
                 channelVars, stats, batcherVars, pushVars>>
BlockForced ==
  /\ readerPc = "wait"
  /\ force_quit
  /\ force_quit' = FALSE
  /\ waiter' = "none"
  /\ AddStats([entries_dropped_queue |-> 1])
  /\ held' = 0
  /\ Break("force")
  /\ UNCHANGED <<stdinVars, watcherVars, force_flag, queue_len, drain_deadline,
                 channelVars, batcherVars, pushVars>>

-----------------------------------------------------------------------------
(* Enqueueing: queue_len is raised before the line can be seen by the      *)
(* batcher, which lowers it again.                                         *)

CountQueued ==
  /\ readerPc = "add"
  /\ queue_len' = queue_len + 1
  /\ readerPc' = "send"
  /\ UNCHANGED <<stdinVars, watcherVars, forceVars, waiter, drain_deadline,
                 channelVars, stats, held, ended, batcherVars, pushVars>>

SendToBatcher ==
  /\ readerPc = "send"
  /\ channel' = Append(channel, held)
  /\ held' = 0
  /\ readerPc' = "top"
  /\ UNCHANGED <<stdinVars, watcherVars, forceVars, queueVars, drain_deadline,
                 txOpen, stats, ended, batcherVars, pushVars>>

-----------------------------------------------------------------------------
(* Shutdown.                                                               *)

ArmDrainDeadline ==
  /\ readerPc = "stop"
  /\ drain_deadline' = "armed"
  /\ readerPc' = "close"
  /\ UNCHANGED <<stdinVars, watcherVars, forceVars, queueVars, channelVars,
                 stats, held, ended, batcherVars, pushVars>>

\* Mutant: main awaits the batcher while it still owns the sender.
KeepSender ==
  /\ readerPc = "close"
  /\ readerPc' = "join"
  /\ UNCHANGED <<stdinVars, watcherVars, forceVars, queueVars, drain_deadline,
                 channelVars, stats, held, ended, batcherVars, pushVars>>
DropSender ==
  /\ readerPc = "close"
  /\ txOpen' = FALSE
  /\ readerPc' = "join"
  /\ UNCHANGED <<stdinVars, watcherVars, forceVars, queueVars, drain_deadline,
                 channel, stats, held, ended, batcherVars, pushVars>>

\* The batcher task has returned: final_stats is printed from the counters as
\* they stand, and process::exit(0) stops whatever is still running.
PrintFinalStats ==
  /\ readerPc = "join"
  /\ batcherPc = "done"
  /\ readerPc' = "exited"
  /\ UNCHANGED <<stdinVars, watcherVars, forceVars, queueVars, drain_deadline,
                 channelVars, stats, held, ended, batcherVars, pushVars>>

StdinNext == WriteSegment \/ CloseStdin

\* The steps of main that it takes as soon as it can.
ReaderProgress ==
  \/ CheckForceFlag \/ ReadSegment \/ ReadEof \/ ForcedWhileReading
  \/ NewestCheck \/ BlockCheck \/ BlockRegister \/ BlockRecheck
  \/ BlockWoken \/ BlockForced
  \/ CountQueued \/ SendToBatcher
  \/ ArmDrainDeadline \/ DropSender \/ PrintFinalStats

ReaderNext == ReaderProgress \/ ReadError

=============================================================================
