---------------------------- MODULE ControlProofs ----------------------------
(***************************************************************************)
(* Proofs about the control flow of Shipper: the wakeup of a blocked       *)
(* reader, what signals may and may not do to the read loop, and the order *)
(* of the shutdown.                                                        *)
(***************************************************************************)
EXTENDS ShipperProofs

-----------------------------------------------------------------------------
(* The block policy's wakeup.  The only step that makes room and leaves a  *)
(* waiter un-notified is the first half of dispatch, which the second half *)
(* follows.                                                                *)

LEMMA WakeupKept == NoLostWakeup /\ [Next]_vars => NoLostWakeup'
<1> SUFFICES ASSUME NoLostWakeup, [Next]_vars PROVE NoLostWakeup'
  OBVIOUS
<1> USE DEF NoLostWakeup, Room, stdinVars, watcherVars, forceVars, queueVars, channelVars,
            readerVars, batcherVars, pushVars
<1>1. CASE StdinNext \/ WatcherNext
  BY <1>1 DEF StdinNext, WriteSegment, CloseStdin, WatcherNext, ReceiveSignal,
              NotifyForceQuit
<1>2. CASE ReaderNext
  <2>1. CASE BlockRecheck
    BY <2>1 DEF BlockRecheck
  <2>2. CASE ~BlockRecheck
    BY <1>2, <2>2
    DEF ReaderNext, ReaderProgress, CheckForceFlag, ReadSegment, ReadEof, ReadError,
        ForcedWhileReading, NewestCheck, BlockCheck, BlockRegister, BlockWoken, BlockForced,
        CountQueued, SendToBatcher, ArmDrainDeadline, DropSender, PrintFinalStats, Break
  <2> QED
    BY <2>1, <2>2
<1>3. CASE ReceiveLog
  BY <1>3 DEF ReceiveLog, NotifyWaiters
<1>4. CASE \E p \in Permits : AcquirePermit(p)
  BY <1>4 DEF AcquirePermit
<1>5. CASE \E p \in Permits : Dispatch(p)
  BY <1>5 DEF Dispatch, NotifyWaiters
<1>6. CASE BatcherBeside
  BY <1>6 DEF BatcherBeside, ChannelClosed, Tick, LeaveLoop, DrainComplete, DrainTimeout
<1>7. CASE PusherNext
  BY <1>7 DEF PusherNext, DeadlinePasses, PushStep, StartAttempt, Delivered, StatusReceived,
              BodyRead, TransportError, SleepElapsed, DeadlineCancels, PushUnchanged
<1>8. CASE Finished \/ UNCHANGED vars
  BY <1>8 DEF Finished, vars
<1> QED
  BY <1>1, <1>2, <1>3, <1>4, <1>5, <1>6, <1>7, <1>8 DEF Next, BatcherNext, BatcherBeside

\* A reader that sleeps while the queue has room has a notification coming.
THEOREM WakeupIsNotLost == Spec => []NoLostWakeup
<1>1. Init => NoLostWakeup
  BY DEF Init, ReaderInit, NoLostWakeup
<1> QED
  BY <1>1, WakeupKept, PTL DEF Spec

-----------------------------------------------------------------------------
(* Signals.                                                                *)

\* What makes AdvisorySignal inductive: everything that can force the loop to end
\* comes from a second signal, and the loop ends once.
SignalInv ==
  /\ force_flag \/ force_quit \/ watcherPc = "notify" => received >= 2
  /\ ended = "force" => received >= 2
  /\ ended = "eof" => ~stdinOpen /\ taken = written
  /\ ended # "no" => readerPc \in {"stop", "close", "join", "exited"}

\* What makes ForceStopsIntake inductive: after force_flag is set the reader does not
\* come back to the select! it may be in now.
ForceInv ==
  /\ ForceStopsIntake
  /\ force_flag /\ readerPc = "select" => taken <= takenAtForce

SInv == SignalInv /\ ForceInv

LEMMA SInvKept == IInv /\ SInv /\ [Next]_vars => SInv'
<1> SUFFICES ASSUME IInv, SInv, [Next]_vars PROVE SInv'
  OBVIOUS
<1>0. /\ received \in Nat /\ taken \in Nat /\ takenAtForce \in Nat /\ written \in Nat
      /\ force_flag \in BOOLEAN
  BY DEF IInv, TypeOK, StdinTypeOK, SignalTypeOK
<1> USE DEF SInv, SignalInv, ForceInv, ForceStopsIntake, stdinVars, watcherVars, forceVars,
            queueVars, channelVars, readerVars, batcherVars, pushVars
<1>1. CASE StdinNext
  BY <1>1, <1>0 DEF StdinNext, WriteSegment, CloseStdin
<1>2. CASE ReceiveSignal
  <2>1. CASE FirstSignal
    BY <1>2, <2>1, <1>0 DEF ReceiveSignal, FirstSignal
  <2>2. CASE ~FirstSignal
    BY <1>2, <2>2, <1>0 DEF ReceiveSignal, FirstSignal
  <2> QED
    BY <2>1, <2>2
<1>3. CASE NotifyForceQuit
  BY <1>3, <1>0 DEF NotifyForceQuit
<1>4. CASE ReaderNext
  <2>1. CASE ReadSegment
    BY <2>1, <1>0 DEF ReadSegment
  <2>2. CASE CheckForceFlag
    BY <2>2, <1>0 DEF CheckForceFlag, Break
  <2>3. CASE ReadEof \/ ReadError \/ ForcedWhileReading \/ BlockForced
    BY <2>3, <1>0 DEF ReadEof, ReadError, ForcedWhileReading, BlockForced, Break
  <2>4. CASE \/ NewestCheck \/ BlockCheck \/ BlockRegister \/ BlockRecheck \/ BlockWoken
             \/ CountQueued \/ SendToBatcher
    BY <2>4, <1>0
    DEF NewestCheck, BlockCheck, BlockRegister, BlockRecheck, BlockWoken, CountQueued,
        SendToBatcher
  <2>5. CASE ArmDrainDeadline \/ DropSender \/ PrintFinalStats
    BY <2>5, <1>0 DEF ArmDrainDeadline, DropSender, PrintFinalStats
  <2> QED
    BY <1>4, <2>1, <2>2, <2>3, <2>4, <2>5 DEF ReaderNext, ReaderProgress
<1>5. CASE BatcherNext \/ PusherNext \/ Finished \/ UNCHANGED vars
  <2>1. UNCHANGED <<stdinVars, watcherVars, forceVars, readerVars>>
    BY <1>5
    DEF BatcherNext, ReceiveLog, ChannelClosed, Tick, AcquirePermit, Dispatch, LeaveLoop,
        DrainComplete, DrainTimeout, PusherNext, DeadlinePasses, PushStep, StartAttempt,
        Delivered, StatusReceived, BodyRead, TransportError, SleepElapsed, DeadlineCancels,
        PushUnchanged, Finished, vars
  <2> QED
    BY <2>1
<1> QED
  BY <1>1, <1>2, <1>3, <1>4, <1>5 DEF Next, WatcherNext

LEMMA SInvHolds == Spec => []SInv
<1>1. Init => SInv
  BY DEF Init, WatcherInit, ReaderInit, SInv, SignalInv, ForceInv, ForceStopsIntake
<1> QED
  BY <1>1, SInvKept, Invariance, PTL DEF Spec

\* After at most one signal only the end of stdin, or a read error, ends the loop.
THEOREM SignalIsAdvisory == Spec => []AdvisorySignal
<1>1. IInv /\ SInv => AdvisorySignal
  BY DEF IInv, TypeOK, SignalTypeOK, ReaderTypeOK, SInv, SignalInv, AdvisorySignal
<1> QED
  BY <1>1, Invariance, SInvHolds, PTL

\* Once force_flag is set the reader takes at most one more segment.
THEOREM ForceStops == Spec => []ForceStopsIntake
<1>1. SInv => ForceStopsIntake
  BY DEF SInv, ForceInv
<1> QED
  BY <1>1, SInvHolds, PTL

-----------------------------------------------------------------------------
(* The two policies that wait, and the shutdown.                           *)

\* Only drop-newest and block look at queue_len before they enqueue, and only block
\* waits; a stored notification has force_flag set before it.
PolicyInv ==
  /\ readerPc = "policy" => DropPolicy \in {"newest", "block"}
  /\ readerPc \in {"register", "recheck", "wait"} => DropPolicy = "block"
  /\ force_quit \/ watcherPc = "notify" => force_flag

\* The shutdown goes one way: the deadline is armed, the sender is dropped, the batcher
\* sees the channel empty and closed, empties its queue, and only then returns; and it
\* returns with pushes under way only once the deadline is over.
ShutdownInv ==
  /\ drain_deadline # "off" => readerPc \in {"close", "join", "exited"}
  /\ ~txOpen => readerPc \in {"join", "exited"}
  /\ ~open => ~txOpen /\ channel = <<>>
  /\ batcherPc \in {"drain", "done"} => ~open /\ deque = <<>> /\ sealed = <<>>
  /\ batcherPc = "done" => drain_deadline = "over" \/ \A p \in Permits : Free(p)
  /\ Exited => batcherPc = "done"

CInv == PolicyInv /\ ShutdownInv

LEMMA PolicyKept == IInv /\ PolicyInv /\ [Next]_vars => PolicyInv'
<1> SUFFICES ASSUME IInv, PolicyInv, [Next]_vars PROVE PolicyInv'
  OBVIOUS
<1> USE DEF PolicyInv, stdinVars, watcherVars, forceVars, queueVars, channelVars,
            readerVars, batcherVars, pushVars
<1>1. CASE ReaderNext
  <2>1. CASE ReadSegment
    BY <2>1, ConfigAssumption DEF ReadSegment
  <2>2. CASE ~ReadSegment
    BY <1>1, <2>2
    DEF ReaderNext, ReaderProgress, CheckForceFlag, ReadEof, ReadError, ForcedWhileReading,
        NewestCheck, BlockCheck, BlockRegister, BlockRecheck, BlockWoken, BlockForced,
        CountQueued, SendToBatcher, ArmDrainDeadline, DropSender, PrintFinalStats, Break
  <2> QED
    BY <2>1, <2>2
<1>2. CASE WatcherNext
  BY <1>2 DEF WatcherNext, ReceiveSignal, NotifyForceQuit
<1>3. CASE StdinNext \/ BatcherNext \/ PusherNext \/ Finished \/ UNCHANGED vars
  <2>1. UNCHANGED <<watcherVars, forceVars, readerVars>>
    BY <1>3
    DEF StdinNext, WriteSegment, CloseStdin, BatcherNext, ReceiveLog, ChannelClosed, Tick,
        AcquirePermit, Dispatch, LeaveLoop, DrainComplete, DrainTimeout, PusherNext,
        DeadlinePasses, PushStep, StartAttempt, Delivered, StatusReceived, BodyRead,
        TransportError, SleepElapsed, DeadlineCancels, PushUnchanged, Finished, vars
  <2> QED
    BY <2>1
<1> QED
  BY <1>1, <1>2, <1>3 DEF Next

\* A push task that does not exist stays so while the batcher does not dispatch.
LEMMA PushKeepsFree ==
  ASSUME IInv, NEW p \in Permits, PushStep(p), NEW q \in Permits, Free(q)
  PROVE  Free(q)'
<1>1. push \in [Permits -> PushTask]
  BY DEF IInv, TypeOK, PushTypeOK
<1>2. p # q
  BY DEF Free, PushStep, StartAttempt, Delivered, StatusReceived, BodyRead, TransportError,
         SleepElapsed, DeadlineCancels
<1>3. \E t : push' = [push EXCEPT ![p] = t]
  <2>1. RetryOrDrop(p) => \E t : push' = [push EXCEPT ![p] = t]
    BY DEF RetryOrDrop, drop_batch, Finish
  <2>2. drop_batch(p) => \E t : push' = [push EXCEPT ![p] = t]
    BY DEF drop_batch, Finish
  <2>3. CASE Delivered(p) \/ DeadlineCancels(p) \/ BodyRead(p) \/ TransportError(p)
    BY <2>1, <2>2, <2>3 DEF Delivered, DeadlineCancels, BodyRead, TransportError, Finish
  <2>4. CASE StartAttempt(p) \/ SleepElapsed(p) \/ StatusReceived(p)
    BY <2>2, <2>4 DEF StartAttempt, SleepElapsed, StatusReceived
  <2> QED
    BY <2>3, <2>4 DEF PushStep
<1> QED
  BY <1>1, <1>2, <1>3 DEF Free

LEMMA ShutdownKept == IInv /\ ShutdownInv /\ [Next]_vars => ShutdownInv'
<1> SUFFICES ASSUME IInv, ShutdownInv, [Next]_vars PROVE ShutdownInv'
  OBVIOUS
<1> USE DEF ShutdownInv, Exited, stdinVars, watcherVars, forceVars, queueVars, channelVars,
            readerVars, batcherVars, pushVars
<1>1. CASE StdinNext \/ WatcherNext
  <2>1. UNCHANGED <<drain_deadline, channelVars, readerVars, batcherVars, pushVars>>
    BY <1>1 DEF StdinNext, WriteSegment, CloseStdin, WatcherNext, ReceiveSignal,
                NotifyForceQuit
  <2> QED
    BY <2>1 DEF Free
<1>2. CASE ReaderNext
  <2>1. UNCHANGED <<batcherVars, pushVars>>
    BY <1>2
    DEF ReaderNext, ReaderProgress, CheckForceFlag, ReadSegment, ReadEof, ReadError,
        ForcedWhileReading, NewestCheck, BlockCheck, BlockRegister, BlockRecheck, BlockWoken,
        BlockForced, CountQueued, SendToBatcher, ArmDrainDeadline, DropSender,
        PrintFinalStats
  <2>2. \A p \in Permits : Free(p)' <=> Free(p)
    BY <2>1 DEF Free
  <2>3. CASE ArmDrainDeadline \/ DropSender \/ PrintFinalStats
    BY <2>2, <2>3 DEF ArmDrainDeadline, DropSender, PrintFinalStats
  <2>4. CASE SendToBatcher
    BY <2>2, <2>4 DEF SendToBatcher
  <2>5. CASE ~ArmDrainDeadline /\ ~DropSender /\ ~PrintFinalStats /\ ~SendToBatcher
    <3>1. /\ UNCHANGED <<drain_deadline, channelVars, batcherVars>>
          /\ readerPc \notin {"close", "join", "exited"} /\ readerPc' # "exited"
      BY <1>2, <2>5
      DEF ReaderNext, ReaderProgress, CheckForceFlag, ReadSegment, ReadEof, ReadError,
          ForcedWhileReading, NewestCheck, BlockCheck, BlockRegister, BlockRecheck,
          BlockWoken, BlockForced, CountQueued, Break
    <3> QED
      BY <2>2, <3>1
  <2> QED
    BY <2>3, <2>4, <2>5
<1>3. CASE ReceiveLog
  <2>1. /\ batcherPc = "loop" /\ channel # <<>>
        /\ UNCHANGED <<drain_deadline, txOpen, readerVars, batcherPc, open>>
    BY <1>3 DEF ReceiveLog
  <2> QED
    BY <2>1
<1>4. CASE BatcherBeside
  <2>1. \A p \in Permits : Free(p)' <=> Free(p)
    BY <1>4 DEF BatcherBeside, ChannelClosed, Tick, LeaveLoop, DrainComplete, DrainTimeout,
                Free
  <2> QED
    BY <1>4, <2>1
    DEF BatcherBeside, ChannelClosed, Tick, LeaveLoop, DrainComplete, DrainTimeout, LoopDone
<1>5. CASE \E p \in Permits : AcquirePermit(p) \/ Dispatch(p)
  <2>1. /\ batcherPc \in {"loop", "dispatch"} /\ batcherPc' \in {"loop", "dispatch"}
        /\ UNCHANGED <<drain_deadline, channelVars, readerVars, open>>
    BY <1>5 DEF AcquirePermit, Dispatch
  <2> QED
    BY <2>1
<1>6. CASE \E p \in Permits : PushStep(p)
  <2>1. PICK p \in Permits : PushStep(p)
    BY <1>6
  <2>2. UNCHANGED <<drain_deadline, channelVars, readerVars, batcherVars>>
    BY <2>1 DEF PushStep, StartAttempt, Delivered, StatusReceived, BodyRead, TransportError,
                SleepElapsed, DeadlineCancels, PushUnchanged
  <2>3. \A q \in Permits : Free(q) => Free(q)'
    BY <2>1, PushKeepsFree
  <2> QED
    BY <2>2, <2>3
<1>7. CASE DeadlinePasses \/ Finished \/ UNCHANGED vars
  BY <1>7 DEF DeadlinePasses, Finished, vars, Free
<1> QED
  BY <1>1, <1>2, <1>3, <1>4, <1>5, <1>6, <1>7 DEF Next, BatcherNext, BatcherBeside, PusherNext

LEMMA CInvHolds == Spec => []CInv
<1>1. Init => CInv
  BY DEF Init, WatcherInit, ReaderInit, BatcherInit, PusherInit, CInv, PolicyInv, ShutdownInv,
         Exited
<1>2. IInv /\ CInv /\ [Next]_vars => CInv'
  BY PolicyKept, ShutdownKept DEF CInv
<1> QED
  BY <1>1, <1>2, Invariance, PTL DEF Spec

=============================================================================
