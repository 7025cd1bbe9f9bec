---------------------------- MODULE SignalWatcher ----------------------------
(***************************************************************************)
(* The task of spawn_signal_watcher: the first SIGTERM, SIGINT or SIGHUP   *)
(* is only logged, each further one sets force_flag and then leaves a      *)
(* notification in force_quit.  The two stores are two steps, because the  *)
(* reader may run between them.                                            *)
(***************************************************************************)
EXTENDS ShipperState

WatcherInit ==
  /\ received = 0
  /\ watcherPc = "recv"
  /\ takenAtForce = 0
  /\ force_flag = FALSE
  /\ force_quit = FALSE

\* received == 1 after the increment: this signal is only logged.
\* Mutant: no signal is advisory.
NoSignalIsFirst == FALSE
FirstSignal == received = 0

\* select! over the three signal streams returned.
ReceiveSignal ==
  /\ ~Exited
  /\ watcherPc = "recv"
  /\ received < MaxSignals
  /\ received' = received + 1
  /\ IF FirstSignal
     THEN UNCHANGED <<watcherPc, force_flag, takenAtForce>>
     ELSE /\ force_flag' = TRUE
          /\ takenAtForce' = IF force_flag THEN takenAtForce ELSE taken
          /\ watcherPc' = "notify"
  /\ UNCHANGED <<stdinVars, force_quit, queueVars, drain_deadline, channelVars,
                 stats, readerVars, batcherVars, pushVars>>

\* Mutant: the notification is lost on a reader that is not waiting for it yet.
NotifyNobody ==
  /\ watcherPc = "notify"
  /\ watcherPc' = "recv"
  /\ UNCHANGED <<stdinVars, received, takenAtForce, forceVars, queueVars,
                 drain_deadline, channelVars, stats, readerVars, batcherVars,
                 pushVars>>

\* force_quit.notify_one(): stored until the reader asks for it.
NotifyForceQuit ==
  /\ ~Exited
  /\ watcherPc = "notify"
  /\ force_quit' = TRUE
  /\ watcherPc' = "recv"
  /\ UNCHANGED <<stdinVars, received, takenAtForce, force_flag, queueVars,
                 drain_deadline, channelVars, stats, readerVars, batcherVars,
                 pushVars>>

WatcherNext == ReceiveSignal \/ NotifyForceQuit

=============================================================================
