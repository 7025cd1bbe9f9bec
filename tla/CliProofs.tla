------------------------------ MODULE CliProofs ------------------------------
(***************************************************************************)
(* Proofs about Cli: the shipper under the wrapper is a shipper, so that   *)
(* what is proved of it holds here too; signals are never multiplied on    *)
(* their way; one signal sent to the wrapper alone stops no shipper that   *)
(* reads; and exit code 0 means a drained pipe.                            *)
(***************************************************************************)
EXTENDS Cli, RefinementProofs

-----------------------------------------------------------------------------
(* The shipper under the wrapper.                                          *)

LEMMA StepIsShipperStep == CliNext => [Next]_vars
<1> SUFFICES ASSUME CliNext PROVE [Next]_vars
  OBVIOUS
<1>1. CASE \/ Spawn \/ InstallHandlers \/ Forward \/ ChildExit \/ SpawnError
           \/ ShipperStarts \/ ShipperQuits \/ KillShipper \/ AllGone
  BY <1>1 DEF Spawn, InstallHandlers, Forward, ChildExit, SpawnError, ShipperStarts,
              ShipperQuits, KillShipper, AllGone, allVars
<1>2. CASE \E signal \in Forwarded \cup {"SIGHUP"} : Kill(signal) \/ SignalGroup(signal)
  BY <1>2 DEF Kill, SignalGroup
<1>3. CASE TakeSignal
  BY <1>3 DEF TakeSignal, Next, WatcherNext
<1>4. CASE \/ StdinNext \/ Running(ReaderNext) \/ Running(NotifyForceQuit)
           \/ Running(BatcherNext) \/ Running(PusherNext)
  BY <1>4 DEF Running, Next, WatcherNext
<1> QED
  BY <1>1, <1>2, <1>3, <1>4 DEF CliNext

\* Whatever is proved of every behaviour of the shipper holds under the wrapper.
THEOREM ShipperUnderWrapper == CliSpec => Spec
<1>1. CliInit => Init
  BY DEF CliInit
<1>2. [CliNext]_allVars => [Next]_vars
  BY StepIsShipperStep DEF allVars
<1> QED
  BY <1>1, <1>2, PTL DEF CliSpec, Spec

-----------------------------------------------------------------------------
(* Signals add up.                                                         *)

Signals == Forwarded \cup {"SIGHUP"}

LEMMA CountSignals ==
  /\ IsFiniteSet(Signals)
  /\ Cardinality({}) = 0
  /\ \A S \in SUBSET Signals :
       /\ Cardinality(S) \in Nat
       /\ \A x \in Signals : Cardinality(S \cup {x}) <= Cardinality(S) + 1
       /\ \A x \in S : Cardinality(S \ {x}) = Cardinality(S) - 1
<1>1. IsFiniteSet(Signals)
  <2>1. Signals = {"SIGINT"} \cup ({"SIGTERM"} \cup {"SIGHUP"})
    BY DEF Signals, Forwarded
  <2> QED
    BY <2>1, FS_Singleton, FS_Union
<1>2. Cardinality({}) = 0
  BY FS_EmptySet
<1>3. ASSUME NEW S \in SUBSET Signals
      PROVE  /\ Cardinality(S) \in Nat
             /\ \A x \in Signals : Cardinality(S \cup {x}) <= Cardinality(S) + 1
             /\ \A x \in S : Cardinality(S \ {x}) = Cardinality(S) - 1
  <2>1. IsFiniteSet(S)
    BY <1>1, FS_Subset
  <2>2. Cardinality(S) \in Nat
    BY <2>1, FS_CardinalityType
  <2>3. ASSUME NEW x \in Signals PROVE Cardinality(S \cup {x}) <= Cardinality(S) + 1
    <3>1. Cardinality(S \cup {x}) = IF x \in S THEN Cardinality(S) ELSE Cardinality(S) + 1
      BY <2>1, FS_AddElement
    <3> QED
      BY <2>2, <3>1
  <2>4. ASSUME NEW x \in S PROVE Cardinality(S \ {x}) = Cardinality(S) - 1
    <3>1. Cardinality(S \ {x}) = IF x \in S THEN Cardinality(S) - 1 ELSE Cardinality(S)
      BY <2>1, FS_RemoveElement
    <3> QED
      BY <3>1
  <2> QED
    BY <2>2, <2>3, <2>4
<1> QED
  BY <1>1, <1>2, <1>3

\* What makes SignalsAddUp inductive: what is counted is a number.
SignalsInv ==
  /\ sent \in Nat /\ groups \in Nat
  /\ atWrapper \in SUBSET Signals /\ atShipper \in SUBSET Signals
  /\ SignalsAddUp

LEMMA ReceivedKept ==
  ASSUME StdinNext \/ NotifyForceQuit \/ ReaderNext \/ BatcherNext \/ PusherNext
  PROVE  received' = received
<1> USE DEF watcherVars
<1>1. CASE StdinNext \/ NotifyForceQuit
  BY <1>1 DEF StdinNext, WriteSegment, CloseStdin, NotifyForceQuit
<1>2. CASE ReaderNext
  BY <1>2
  DEF ReaderNext, ReaderProgress, CheckForceFlag, ReadSegment, ReadEof, ReadError,
      ForcedWhileReading, NewestCheck, BlockCheck, BlockRegister, BlockRecheck, BlockWoken,
      BlockForced, CountQueued, SendToBatcher, ArmDrainDeadline, DropSender,
      PrintFinalStats
<1>3. CASE BatcherNext
  BY <1>3 DEF BatcherNext, ReceiveLog, ChannelClosed, Tick, AcquirePermit, Dispatch,
              LeaveLoop, DrainComplete, DrainTimeout
<1>4. CASE PusherNext
  BY <1>4 DEF PusherNext, DeadlinePasses, PushStep, StartAttempt, Delivered,
              StatusReceived, BodyRead, TransportError, SleepElapsed, DeadlineCancels,
              PushUnchanged
<1> QED
  BY <1>1, <1>2, <1>3, <1>4

\* A signal that arrives at the shipper raises what waits there by at most one.
LEMMA Arrival ==
  ASSUME atShipper \in SUBSET Signals, NEW signal \in Signals, SignalShipper(signal)
  PROVE  /\ atShipper' \in SUBSET Signals
         /\ Cardinality(atShipper') \in Nat
         /\ Cardinality(atShipper') <= Cardinality(atShipper) + 1
<1>1. atShipper' = atShipper \/ atShipper' = atShipper \cup {signal}
  BY DEF SignalShipper
<1>2. Cardinality(atShipper) \in Nat
  BY CountSignals
<1>3. CASE atShipper' = atShipper
  BY <1>2, <1>3
<1>4. CASE atShipper' = atShipper \cup {signal}
  <2>1. atShipper' \in SUBSET Signals
    BY <1>4
  <2>2. Cardinality(atShipper \cup {signal}) <= Cardinality(atShipper) + 1
    BY CountSignals
  <2> QED
    BY <1>4, <2>1, <2>2, CountSignals
<1> QED
  BY <1>1, <1>3, <1>4

\* The same of the wrapper.
LEMMA WrapperArrival ==
  ASSUME atWrapper \in SUBSET Signals, NEW signal \in Signals, SignalWrapper(signal)
  PROVE  /\ atWrapper' \in SUBSET Signals
         /\ Cardinality(atWrapper') \in Nat
         /\ Cardinality(atWrapper') <= Cardinality(atWrapper) + 1
<1>1. atWrapper' = atWrapper \/ atWrapper' = atWrapper \cup {signal}
  BY DEF SignalWrapper
<1>2. Cardinality(atWrapper) \in Nat
  BY CountSignals
<1>3. CASE atWrapper' = atWrapper
  BY <1>2, <1>3
<1>4. CASE atWrapper' = atWrapper \cup {signal}
  <2>1. atWrapper' \in SUBSET Signals
    BY <1>4
  <2>2. Cardinality(atWrapper \cup {signal}) <= Cardinality(atWrapper) + 1
    BY CountSignals
  <2> QED
    BY <1>4, <2>1, <2>2, CountSignals
<1> QED
  BY <1>1, <1>3, <1>4

LEMMA SignalsInvKept == IInv /\ SignalsInv /\ [CliNext]_allVars => SignalsInv'
<1> SUFFICES ASSUME IInv, SignalsInv, [CliNext]_allVars PROVE SignalsInv'
  OBVIOUS
<1>0. /\ received \in Nat /\ sent \in Nat /\ groups \in Nat
      /\ Cardinality(atWrapper) \in Nat /\ Cardinality(atShipper) \in Nat
      /\ received + Cardinality(atWrapper) + Cardinality(atShipper) <= sent + groups
  BY CountSignals DEF IInv, TypeOK, SignalTypeOK, SignalsInv, SignalsAddUp
<1>1. CASE \/ Spawn \/ InstallHandlers \/ ChildExit \/ SpawnError \/ ShipperStarts
           \/ ShipperQuits
  <2>1. UNCHANGED <<received, atWrapper, atShipper, sent, groups>>
    BY <1>1 DEF Spawn, InstallHandlers, ChildExit, SpawnError, ShipperStarts, ShipperQuits,
                vars, watcherVars
  <2> QED
    BY <2>1 DEF SignalsInv, SignalsAddUp
<1>2. CASE Forward
  <2>1. UNCHANGED <<received, sent, groups>>
    BY <1>2 DEF Forward, vars, watcherVars
  <2>2. PICK signal \in atWrapper : atWrapper' = atWrapper \ {signal} /\ SignalShipper(signal)
    BY <1>2 DEF Forward
  <2>3. atWrapper' \in SUBSET Signals /\ Cardinality(atWrapper') = Cardinality(atWrapper) - 1
    BY <2>2, CountSignals DEF SignalsInv
  <2>4. /\ atShipper' \in SUBSET Signals /\ Cardinality(atShipper') \in Nat
        /\ Cardinality(atShipper') <= Cardinality(atShipper) + 1
    BY <2>2, Arrival DEF SignalsInv
  <2> QED
    BY <1>0, <2>1, <2>3, <2>4 DEF SignalsInv, SignalsAddUp
<1>3. CASE TakeSignal
  <2>1. received' = received + 1 /\ UNCHANGED <<atWrapper, sent, groups>>
    BY <1>3 DEF TakeSignal, ReceiveSignal
  <2>2. PICK signal \in atShipper : atShipper' = atShipper \ {signal}
    BY <1>3 DEF TakeSignal
  <2>3. atShipper' \in SUBSET Signals /\ Cardinality(atShipper') = Cardinality(atShipper) - 1
    BY <2>2, CountSignals DEF SignalsInv
  <2> QED
    BY <1>0, <2>1, <2>3 DEF SignalsInv, SignalsAddUp
<1>4. CASE KillShipper
  <2>1. sent' = sent + 1 /\ UNCHANGED <<received, atWrapper, atShipper, groups>>
    BY <1>4 DEF KillShipper, vars, watcherVars
  <2> QED
    BY <1>0, <2>1 DEF SignalsInv, SignalsAddUp
<1>5. ASSUME NEW signal \in Signals, Kill(signal) PROVE SignalsInv'
  <2>1. sent' = sent + 1 /\ UNCHANGED <<received, atShipper, groups>> /\ SignalWrapper(signal)
    BY <1>5 DEF Kill, vars, watcherVars
  <2>2. /\ atWrapper' \in SUBSET Signals /\ Cardinality(atWrapper') \in Nat
        /\ Cardinality(atWrapper') <= Cardinality(atWrapper) + 1
    BY <2>1, WrapperArrival DEF SignalsInv
  <2> QED
    BY <1>0, <2>1, <2>2 DEF SignalsInv, SignalsAddUp
<1>6. ASSUME NEW signal \in Signals, SignalGroup(signal) PROVE SignalsInv'
  <2>1. /\ sent' = sent + 1 /\ groups' = groups + 1 /\ received' = received
        /\ SignalWrapper(signal) /\ SignalShipper(signal)
    BY <1>6 DEF SignalGroup, vars, watcherVars
  <2>2. /\ atWrapper' \in SUBSET Signals /\ Cardinality(atWrapper') \in Nat
        /\ Cardinality(atWrapper') <= Cardinality(atWrapper) + 1
    BY <2>1, WrapperArrival DEF SignalsInv
  <2>3. /\ atShipper' \in SUBSET Signals /\ Cardinality(atShipper') \in Nat
        /\ Cardinality(atShipper') <= Cardinality(atShipper) + 1
    BY <2>1, Arrival DEF SignalsInv
  <2> QED
    BY <1>0, <2>1, <2>2, <2>3 DEF SignalsInv, SignalsAddUp
<1>7. CASE UNCHANGED <<received, atWrapper, atShipper, sent, groups>>
  BY <1>7 DEF SignalsInv, SignalsAddUp
<1>8. CASE \/ ~BothGone /\ StdinNext /\ UNCHANGED cliVars
           \/ Running(ReaderNext) \/ Running(NotifyForceQuit)
           \/ Running(BatcherNext) \/ Running(PusherNext)
  <2>1. UNCHANGED cliVars /\ received' = received
    BY <1>8, ReceivedKept DEF Running
  <2> QED
    BY <1>7, <2>1 DEF cliVars
<1> QED
  BY <1>1, <1>2, <1>3, <1>4, <1>5, <1>6, <1>7, <1>8
  DEF CliNext, AllGone, allVars, vars, cliVars, watcherVars, Signals

\* On its way through the wrapper no signal becomes two, and the shipper counts none
\* that was not sent.
THEOREM SignalsNeverMultiply == CliSpec => []SignalsAddUp
<1>1. CliInit => SignalsInv
  BY CountSignals DEF CliInit, WrapperInit, Init, WatcherInit, SignalsInv, SignalsAddUp
<1>2. SignalsInv => SignalsAddUp
  BY DEF SignalsInv
<1> QED
  BY <1>1, <1>2, SignalsInvKept, ShipperUnderWrapper, Invariance, PTL DEF CliSpec

-----------------------------------------------------------------------------
(* A shipper that has not read.                                            *)

\* Only a shipper that runs reads: one that stopped before it could, by itself or by a
\* signal, has taken nothing.  A shipper is started once.
Unread ==
  /\ wrapper = "start" => child = "none"
  /\ child \notin {"running", "killed"} => taken = 0

LEMMA UnreadKept == Unread /\ [CliNext]_allVars => Unread'
<1> SUFFICES ASSUME Unread, [CliNext]_allVars PROVE Unread'
  OBVIOUS
<1> USE DEF Unread
<1>1. CASE Spawn \/ InstallHandlers \/ ChildExit \/ SpawnError
  BY <1>1 DEF Spawn, InstallHandlers, ChildExit, SpawnError, Exit, vars, stdinVars
<1>2. CASE Forward
  BY <1>2 DEF Forward, SignalShipper, vars, stdinVars
<1>3. CASE ShipperStarts \/ ShipperQuits \/ KillShipper
  BY <1>3 DEF ShipperStarts, ShipperQuits, KillShipper, ShipperUp, vars, stdinVars
<1>4. CASE TakeSignal
  BY <1>4 DEF TakeSignal
<1>5. ASSUME NEW signal \in Signals, Kill(signal) \/ SignalGroup(signal) PROVE Unread'
  BY <1>5 DEF Kill, SignalGroup, SignalWrapper, SignalShipper, WrapperGone, vars, stdinVars
<1>6. CASE StdinNext /\ UNCHANGED cliVars
  BY <1>6 DEF StdinNext, WriteSegment, CloseStdin, cliVars, stdinVars
<1>7. CASE \/ Running(ReaderNext) \/ Running(NotifyForceQuit)
           \/ Running(BatcherNext) \/ Running(PusherNext)
  BY <1>7 DEF Running, cliVars
<1>8. CASE UNCHANGED allVars
  BY <1>8 DEF allVars, vars, stdinVars, cliVars
<1> QED
  BY <1>1, <1>2, <1>3, <1>4, <1>5, <1>6, <1>7, <1>8 DEF CliNext, AllGone, Signals

LEMMA UnreadHolds == CliSpec => []Unread
<1>1. CliInit => Unread
  BY DEF CliInit, WrapperInit, Init, ReaderInit, Unread
<1> QED
  BY <1>1, UnreadKept, PTL DEF CliSpec

\* One signal, sent to the command alone, stops no shipper that reads: it is counted
\* at most once, which forces no drain, and it terminates only a shipper that has not
\* read yet.
THEOREM OneKill == CliSpec => []OneKillIsAdvisory
<1>1. IInv /\ SignalsAddUp /\ SignalsInv /\ sent <= 1 /\ groups = 0 => received < 2
  BY CountSignals DEF IInv, TypeOK, SignalTypeOK, SignalsAddUp, SignalsInv
<1>2. IInv /\ SignalsInv /\ Unread /\ AdvisorySignal => OneKillIsAdvisory
  BY <1>1 DEF SignalsInv, Unread, AdvisorySignal, OneKillIsAdvisory, IntakeKept
<1>3. CliInit => SignalsInv
  BY CountSignals DEF CliInit, WrapperInit, Init, WatcherInit, SignalsInv, SignalsAddUp
<1>4. CliSpec => []SignalsInv
  BY <1>3, SignalsInvKept, ShipperUnderWrapper, Invariance, PTL DEF CliSpec
<1> QED
  BY <1>2, <1>4, UnreadHolds, ShipperUnderWrapper, Invariance, SignalIsAdvisory, PTL

-----------------------------------------------------------------------------
(* The exit code.                                                          *)

LEMMA ExitedStays == Exited /\ [Next]_vars => Exited'
<1> SUFFICES ASSUME Exited, [Next]_vars PROVE readerPc' = readerPc
  BY DEF Exited
<1> USE DEF Exited, readerVars
<1>1. CASE StdinNext \/ WatcherNext
  BY <1>1 DEF StdinNext, WriteSegment, CloseStdin, WatcherNext, ReceiveSignal,
              NotifyForceQuit
<1>2. CASE ReaderNext
  BY <1>2
  DEF ReaderNext, ReaderProgress, CheckForceFlag, ReadSegment, ReadEof, ReadError,
      ForcedWhileReading, NewestCheck, BlockCheck, BlockRegister, BlockRecheck, BlockWoken,
      BlockForced, CountQueued, SendToBatcher, ArmDrainDeadline, DropSender,
      PrintFinalStats
<1>3. CASE BatcherNext
  BY <1>3 DEF BatcherNext, ReceiveLog, ChannelClosed, Tick, AcquirePermit, Dispatch,
              LeaveLoop, DrainComplete, DrainTimeout
<1>4. CASE PusherNext
  BY <1>4 DEF PusherNext, DeadlinePasses, PushStep, StartAttempt, Delivered,
              StatusReceived, BodyRead, TransportError, SleepElapsed, DeadlineCancels
<1>5. CASE Finished \/ UNCHANGED vars
  BY <1>5 DEF Finished, vars
<1> QED
  BY <1>1, <1>2, <1>3, <1>4, <1>5 DEF Next

\* What makes ExitZeroMeansDrained inductive: 0 is the code of a child that exited by
\* itself.  That such a child has left nothing queued is a fact about the shipper.
ZeroMeansExited == exitCode = 0 => Exited \/ child = "help"

LEMMA ZeroMeansExitedKept ==
  Unread /\ ZeroMeansExited /\ [CliNext]_allVars => ZeroMeansExited'
<1> SUFFICES ASSUME Unread, ZeroMeansExited, [CliNext]_allVars PROVE ZeroMeansExited'
  OBVIOUS
<1>0. Exited => Exited'
  BY ExitedStays, StepIsShipperStep DEF allVars
<1> USE DEF ZeroMeansExited
<1>1. CASE Spawn \/ SpawnError
  BY <1>0, <1>1 DEF Spawn, SpawnError, Exit, Unread
<1>2. CASE ChildExit
  BY <1>0, <1>2 DEF ChildExit, ChildGone, ExitStatus, Exit, Quit, BySignal
<1>3. CASE Forward
  BY <1>0, <1>3 DEF Forward, SignalShipper
<1>4. CASE \/ InstallHandlers \/ ShipperStarts \/ ShipperQuits \/ KillShipper \/ TakeSignal
  BY <1>0, <1>4 DEF InstallHandlers, ShipperStarts, ShipperQuits, KillShipper, ShipperUp,
                    TakeSignal
<1>5. CASE \E signal \in Forwarded \cup {"SIGHUP"} : Kill(signal) \/ SignalGroup(signal)
  BY <1>0, <1>5 DEF Kill, SignalGroup, SignalShipper
<1>6. CASE UNCHANGED cliVars
  BY <1>0, <1>6 DEF cliVars
<1> QED
  BY <1>1, <1>2, <1>3, <1>4, <1>5, <1>6 DEF CliNext, Running, AllGone, allVars

\* A command that returns 0 has seen its shipper through the whole shutdown, unless the
\* shipper was only asked for its help.
THEOREM ExitZeroIsDrained == CliSpec => []ExitZeroMeansDrained
<1>1. CliInit => ZeroMeansExited
  BY DEF CliInit, WrapperInit, ZeroMeansExited
<1>2. CliSpec => []ZeroMeansExited
  BY <1>1, ZeroMeansExitedKept, UnreadHolds, PTL DEF CliSpec
<1>3. ZeroMeansExited /\ Unread /\ GracefulExitAddsUp => ExitZeroMeansDrained
  BY DEF ZeroMeansExited, Unread, GracefulExitAddsUp, ExitZeroMeansDrained
<1> QED
  BY <1>2, <1>3, UnreadHolds, ShipperUnderWrapper, GracefulExitIsExact, PTL

=============================================================================
