--------------------------------- MODULE Cli ---------------------------------
(***************************************************************************)
(* The pino-loki-rs command: a Node process that spawns the shipper on its *)
(* own stdin, forwards SIGINT and SIGTERM to it and exits when it does.    *)
(* Composed with Shipper: here a signal is sent by somebody, waits at a    *)
(* process until that process looks, and merges with one of its kind that  *)
(* waits there already.                                                    *)
(*                                                                         *)
(* Signals come from the environment: `kill` sends one to the wrapper, a   *)
(* terminal or a service manager sends one to the whole process group.     *)
(***************************************************************************)
EXTENDS Shipper

CONSTANT MaxSent   \* bound: signals sent from outside

ASSUME SentAssumption == MaxSent \in Nat

VARIABLES
  wrapper,    \* "start", "spawned", "running", "exited" or "killed"
  exitCode,   \* the wrapper's exit code, or -1
  child,      \* "none", "failed", "starting", "running", or how it stopped without
              \* its shutdown: "terminated", "killed" or the name of a Quit
  atWrapper,  \* signals waiting for the wrapper's event loop
  atShipper,  \* signals waiting for the shipper's watcher
  sent,       \* signals sent from outside
  groups,     \* history: how many of them went to the whole group
  repeated    \* history: was the wrapper signalled after the shipper took a signal?

cliVars == <<wrapper, exitCode, child, atWrapper, atShipper, sent, groups, repeated>>
allVars == <<vars, cliVars>>

WrapperInit ==
  /\ wrapper = "start" /\ exitCode = -1 /\ child = "none"
  /\ atWrapper = {} /\ atShipper = {}
  /\ sent = 0 /\ groups = 0 /\ repeated = FALSE

Forwarded == {"SIGINT", "SIGTERM"}

\* How the shipper may stop by itself before it reads, and its exit code: --help and
\* --version, options that clap refuses, an HTTP client that cannot be built.
Quit == [help |-> 0, usage |-> 2, panic |-> 101]

-----------------------------------------------------------------------------
(* The wrapper.                                                            *)

Exit(code) == wrapper' = "exited" /\ exitCode' = code

\* resolveBinPath() throws when the platform has no package; it may also return a
\* path that cannot be executed, which spawn() reports later.
Resolved == {"throws", "unusable", "binary"}

\* Module level up to spawn(): an exception ends Node with code 1.
Spawn ==
  /\ wrapper = "start"
  /\ \E path \in Resolved :
       IF path = "throws"
       THEN Exit(1) /\ UNCHANGED child
       ELSE /\ wrapper' = "spawned"
            /\ child' = IF path = "binary" THEN "starting" ELSE "failed"
            /\ UNCHANGED exitCode
  /\ UNCHANGED <<vars, atWrapper, atShipper, sent, groups, repeated>>

\* The process.on calls, and the end of the module.
InstallHandlers ==
  /\ wrapper = "spawned"
  /\ wrapper' = "running"
  /\ UNCHANGED <<vars, exitCode, child, atWrapper, atShipper, sent, groups, repeated>>

\* A signal arrives at the shipper: before main has installed its handlers it
\* terminates it, and a process that is gone does not mind.
SignalShipper(signal) ==
  /\ child' = IF child = "starting" THEN "terminated" ELSE child
  /\ atShipper' = IF child = "running" /\ ~Exited THEN atShipper \cup {signal}
                                                  ELSE atShipper

\* The handler of a forwarded signal: child.kill(signal).
\* Mutants: only SIGTERM is forwarded; SIGTERM is sent after every signal.
SwallowSigint ==
  /\ wrapper = "running"
  /\ \E signal \in atWrapper :
       /\ atWrapper' = atWrapper \ {signal}
       /\ IF signal = "SIGTERM" THEN SignalShipper(signal) ELSE UNCHANGED <<child, atShipper>>
  /\ UNCHANGED <<vars, wrapper, exitCode, sent, groups, repeated>>
ForwardTwo ==
  /\ wrapper = "running"
  /\ \E signal \in atWrapper :
       /\ atWrapper' = atWrapper \ {signal}
       /\ IF child = "running" /\ ~Exited
          THEN atShipper' = atShipper \cup {signal, "SIGTERM"} /\ UNCHANGED child
          ELSE SignalShipper(signal)
  /\ UNCHANGED <<vars, wrapper, exitCode, sent, groups, repeated>>
Forward ==
  /\ wrapper = "running"
  /\ \E signal \in atWrapper :
       /\ atWrapper' = atWrapper \ {signal}
       /\ SignalShipper(signal)
  /\ UNCHANGED <<vars, wrapper, exitCode, sent, groups, repeated>>

BySignal == {"terminated", "killed"}

\* signal ? 1 : code ?? 1
\* Mutant: a missing code is taken for success.
CodeOrZero == IF child \in DOMAIN Quit THEN Quit[child] ELSE 0
ExitStatus ==
  IF child \in BySignal THEN 1 ELSE IF child \in DOMAIN Quit THEN Quit[child] ELSE 0

\* The child's 'exit' event.
\* Mutant: only an exit with a code ends the wrapper.
GoneWithCode == child \in DOMAIN Quit \/ Exited
ChildGone == child \in BySignal \cup DOMAIN Quit \/ Exited
ChildExit ==
  /\ wrapper = "running"
  /\ ChildGone
  /\ Exit(ExitStatus)
  /\ UNCHANGED <<vars, child, atWrapper, atShipper, sent, groups, repeated>>

\* The child's 'error' event: spawn_error.
SpawnError ==
  /\ wrapper = "running"
  /\ child = "failed"
  /\ Exit(1)
  /\ UNCHANGED <<vars, child, atWrapper, atShipper, sent, groups, repeated>>

-----------------------------------------------------------------------------
(* The shipper as a process of its own.                                    *)

\* main up to spawn_signal_watcher.
ShipperStarts ==
  /\ child = "starting"
  /\ child' = "running"
  /\ UNCHANGED <<vars, wrapper, exitCode, atWrapper, atShipper, sent, groups, repeated>>

\* Config::parse ends the process; the client is built after the watcher was spawned,
\* and .expect panics.
ShipperQuits ==
  /\ \/ child = "starting" /\ child' \in {"help", "usage"}
     \/ child = "running" /\ readerPc = "top" /\ taken = 0 /\ child' = "panic"
  /\ UNCHANGED <<vars, wrapper, exitCode, atWrapper, atShipper, sent, groups, repeated>>

Running(step) == child = "running" /\ step /\ UNCHANGED cliVars

\* A signal stream of the watcher yields.
TakeSignal ==
  /\ child = "running"
  /\ ReceiveSignal
  /\ \E signal \in atShipper : atShipper' = atShipper \ {signal}
  /\ UNCHANGED <<wrapper, exitCode, child, atWrapper, sent, groups, repeated>>

-----------------------------------------------------------------------------
(* The environment.                                                        *)

WrapperGone == wrapper \in {"exited", "killed"}

\* A signal arrives at the wrapper.  Without a handler (SIGHUP never has one) it kills.
SignalWrapper(signal) ==
  IF wrapper = "running" /\ signal \in Forwarded
  THEN atWrapper' = atWrapper \cup {signal} /\ UNCHANGED wrapper
  ELSE /\ wrapper' = IF WrapperGone THEN wrapper ELSE "killed"
       /\ UNCHANGED atWrapper

ShipperUp == child \in {"starting", "running"} /\ ~Exited

\* No process is left to be signalled or to read from the pipe.
BothGone == WrapperGone /\ ~ShipperUp

\* kill <pid of the command>
Kill(signal) ==
  /\ sent < MaxSent /\ ~WrapperGone
  /\ sent' = sent + 1
  /\ SignalWrapper(signal)
  /\ repeated' = \/ repeated
                 \/ wrapper = "running" /\ signal \in Forwarded /\ received > 0
  /\ UNCHANGED <<vars, exitCode, child, atShipper, groups>>

\* Ctrl-C, a closed terminal, or a service manager stopping all of its processes.
SignalGroup(signal) ==
  /\ sent < MaxSent /\ ~BothGone
  /\ sent' = sent + 1
  /\ groups' = groups + 1
  /\ SignalWrapper(signal)
  /\ SignalShipper(signal)
  /\ UNCHANGED <<vars, exitCode, repeated>>

\* SIGKILL to the shipper, from somebody or from a kernel out of memory.
KillShipper ==
  /\ sent < MaxSent /\ ShipperUp
  /\ sent' = sent + 1
  /\ child' = "killed"
  /\ UNCHANGED <<vars, wrapper, exitCode, atWrapper, atShipper, groups, repeated>>

-----------------------------------------------------------------------------
AllGone == BothGone /\ UNCHANGED allVars

CliInit == Init /\ WrapperInit

CliNext ==
  \/ Spawn \/ InstallHandlers \/ Forward \/ ChildExit \/ SpawnError
  \/ ShipperStarts \/ ShipperQuits \/ TakeSignal \/ KillShipper
  \/ \E signal \in Forwarded \cup {"SIGHUP"} : Kill(signal) \/ SignalGroup(signal)
  \/ ~BothGone /\ StdinNext /\ UNCHANGED cliVars
  \/ Running(ReaderNext) \/ Running(NotifyForceQuit)
  \/ Running(BatcherNext) \/ Running(PusherNext)
  \/ AllGone

CliSpec == CliInit /\ [][CliNext]_allVars

\* Node's event loop and the shipper's runtime both keep running what can run: the
\* module and the child's events, the signals, and each task of the shipper.  Steps
\* that exclude each other, or that end the same wait, share one condition.
CliFairness ==
  /\ WF_allVars(Spawn \/ InstallHandlers \/ ChildExit \/ SpawnError)
  /\ WF_allVars(Forward)
  /\ WF_allVars(ShipperStarts) /\ WF_allVars(TakeSignal)
  /\ WF_allVars(Running(ReaderProgress)) /\ WF_allVars(Running(NotifyForceQuit))
  /\ WF_allVars(Running(\/ ReceiveLog \/ ChannelClosed \/ LeaveLoop
                        \/ \E p \in Permits : Dispatch(p)
                        \/ DrainComplete \/ DrainTimeout))
  /\ WF_allVars(Running(Tick))
  /\ \A p \in Permits : WF_allVars(Running(AcquirePermit(p)))
                        /\ WF_allVars(Running(PushStep(p)))
  /\ WF_allVars(Running(DeadlinePasses))

CliFairSpec == CliSpec /\ CliFairness

-----------------------------------------------------------------------------
(* Properties.                                                             *)

\* An exit code of 0 from the command means that the shipper went through its whole
\* shutdown and left nothing queued, however the two processes were signalled; or
\* that it was asked for its help, and took nothing from stdin.
ExitZeroMeansDrained ==
  exitCode = 0 => \/ Exited /\ QueuedLines = {} /\ held = 0
                  \/ child = "help" /\ taken = 0

\* Two processes, one signal: what the shipper has counted and what still waits at
\* either process is never more than was sent, a signal to the group counted for both.
\* One more, and a single signal would be taken for a repeated one.
SignalsAddUp ==
  received + Cardinality(atWrapper) + Cardinality(atShipper) <= sent + groups

\* Intake ends only at the end of stdin or with a read error.
IntakeKept == ended \notin {"no", "error"} => ~stdinOpen /\ taken = written

\* "Signals are advisory" through the wrapper: one signal sent to the command alone
\* does not stop a shipper that reads, neither by ending intake nor by terminating the
\* process.  A shipper that is not reading yet may be terminated: before its handlers
\* are installed a forwarded signal has its default action.
OneKillIsAdvisory ==
  sent <= 1 /\ groups = 0 => /\ IntakeKept
                             /\ child = "terminated" => taken = 0

\* "A repeated signal forces the bounded drain" through the wrapper: one more signal
\* to the command, once the shipper has taken one, ends the shipper, with stdin open
\* and the queue full or not.
RepeatedKillEnds == repeated ~> ~ShipperUp \/ wrapper = "killed"

\* The end of stdin ends the command and its shipper, whatever happened to either; a
\* shipper whose wrapper was killed included.
EofEndsBoth == ~stdinOpen ~> BothGone

-----------------------------------------------------------------------------
(* A documented claim the code does not keep.                              *)

\* README "Signals are advisory ... a repeated signal forces the bounded drain": one
\* signal, sent to the whole group like the one of a Ctrl-C, does not stop intake.
OneSignalIsAdvisory == sent <= 1 => IntakeKept

=============================================================================
