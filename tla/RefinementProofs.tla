--------------------------- MODULE RefinementProofs ---------------------------
(***************************************************************************)
(* The four tasks of Shipper together implement LogPipe: every step is a   *)
(* step of the pipe, or changes nothing the pipe can see.  And what the    *)
(* refinement rests on: every line read has one fate, and a counter says   *)
(* which.  Then Loki, which the pipe does not see: what it stores agrees   *)
(* with the counters, and it stores no line more often than it was sent.   *)
(***************************************************************************)
EXTENDS OrderProofs

RInv == IInv /\ OInv /\ CInv

LEMMA RInvHolds == Spec => []RInv
BY Invariance, OrderHolds, CInvHolds, PTL DEF RInv

-----------------------------------------------------------------------------
(* What the pipe sees of the shipper.                                      *)

SeenLines  == IF held = 0 THEN taken ELSE taken - 1
SeenReads  == IF held = 0 THEN stats.read_lines ELSE stats.read_lines - 1
Deliveries == [p \in Permits |-> ToSet(push[p].batch)]
Outcomes   == <<stats.parse_errors, stats.entries_dropped_queue,
                stats.entries_delivered, stats.entries_dropped_delivery>>

\* The pipe has a Cardinality of its own, with the same definition.
LEMMA SameCardinality == \A S : Pipe!Cardinality(S) = Cardinality(S)
BY DEF Cardinality, Pipe!Cardinality

\* A step that shows the pipe nothing.
LEMMA HiddenStep ==
  ASSUME UNCHANGED <<SeenLines, SeenReads, Deliveries, Outcomes, QueuedLines, force_flag>>,
         Exited' = Exited
  PROVE  UNCHANGED Pipe!pipeVars
BY DEF SeenLines, SeenReads, Deliveries, Outcomes, Pipe!pipeVars, Pipe!intake, Pipe!outcomes

LEMMA CounterTypes ==
  ASSUME IInv
  PROVE  /\ stats.read_lines \in Nat /\ stats.parse_errors \in Nat
         /\ stats.entries_dropped_queue \in Nat /\ stats.entries_delivered \in Nat
         /\ stats.entries_dropped_delivery \in Nat
         /\ taken \in Nat /\ held \in Nat
BY LinesAreNaturals DEF IInv, TypeOK, StatNames, StdinTypeOK, ReaderTypeOK

\* The counters the pipe sees are counters.
LEMMA CounterNames ==
  {"read_lines", "parse_errors", "entries_dropped_queue", "entries_delivered",
   "entries_dropped_delivery"} \subseteq StatNames
BY DEF StatNames

\* A segment that is no log is skipped; a log shows only when it goes in or is refused.
LEMMA ReadSegmentIsPiped ==
  ASSUME RInv, ReadSegment
  PROVE  [Pipe!Next]_(Pipe!pipeVars)
<1> USE DEF readerVars, stdinVars, channelVars, batcherVars, pushVars, forceVars
<1>1. PICK kind \in SegmentKinds :
        /\ AddStats([read_lines   |-> IF kind = "empty" THEN 0 ELSE 1,
                     parse_errors |-> IF kind = "bad" THEN 1 ELSE 0])
        /\ IF kind = "log"
           THEN /\ held' = taken + 1
                /\ readerPc' = IF DropPolicy = "oldest" THEN "add" ELSE "policy"
           ELSE /\ readerPc' = "top"
                /\ UNCHANGED held
  BY DEF ReadSegment
<1>2. /\ stats'.read_lines = stats.read_lines + (IF kind = "empty" THEN 0 ELSE 1)
      /\ stats'.parse_errors = stats.parse_errors + (IF kind = "bad" THEN 1 ELSE 0)
      /\ stats'.entries_dropped_queue = stats.entries_dropped_queue
      /\ stats'.entries_delivered = stats.entries_delivered
      /\ stats'.entries_dropped_delivery = stats.entries_dropped_delivery
  BY <1>1, CounterNames, AddStatsHere, AddStatsElsewhere
<1>3. /\ readerPc = "select" /\ taken' = taken + 1 /\ readerPc' # "exited"
      /\ UNCHANGED <<sealed, deque, channel, push, force_flag>>
  BY <1>1 DEF ReadSegment
<1>4. /\ UNCHANGED <<QueuedLines, Deliveries>> /\ ~Exited /\ Exited' = Exited
  BY <1>3 DEF QueuedLines, BacklogLines, BlockLines, Deliveries, Exited
<1>5. held = 0 /\ taken \in Nat
  BY <1>3, CounterTypes DEF RInv, OInv, TakenLines
<1>6. stats.read_lines \in Nat /\ stats.parse_errors \in Nat
  BY CounterTypes DEF RInv
<1>7. CASE kind = "log"
  <2>1. SeenLines' = SeenLines /\ SeenReads' = SeenReads
    BY <1>1, <1>2, <1>3, <1>5, <1>6, <1>7 DEF SeenLines, SeenReads
  <2>2. Outcomes' = Outcomes
    BY <1>2, <1>6, <1>7 DEF Outcomes
  <2> QED
    BY <1>3, <1>4, <2>1, <2>2, HiddenStep
<1>8. CASE kind # "log"
  <2>1. /\ SeenLines' = SeenLines + 1
        /\ \/ SeenReads' = SeenReads /\ stats'.parse_errors = stats.parse_errors
           \/ SeenReads' = SeenReads + 1 /\ stats'.parse_errors = stats.parse_errors + 1
    <3>1. kind = "empty" \/ kind = "bad"
      BY <1>8, EnvironmentAssumption
    <3> QED
      BY <3>1, <1>1, <1>2, <1>3, <1>5, <1>6, <1>8 DEF SeenLines, SeenReads
  <2>2. Pipe!Skip
    BY <1>2, <1>3, <1>4, <2>1
    DEF Pipe!Skip, Pipe!outcomes, SeenLines, SeenReads, Deliveries
  <2> QED
    BY <1>4, <2>2 DEF Pipe!Next
<1> QED
  BY <1>7, <1>8

\* The line the reader sends goes into a queue that has room for it.
LEMMA SendIsPiped ==
  ASSUME RInv, SendToBatcher
  PROVE  Pipe!Next
<1> USE DEF readerVars, stdinVars, channelVars, batcherVars, pushVars, forceVars
<1>1. /\ readerPc = "send" /\ channel' = Append(channel, held) /\ held' = 0
      /\ readerPc' = "top"
      /\ UNCHANGED <<taken, stats, sealed, deque, push, force_flag>>
  BY DEF SendToBatcher
<1>2. held \in Line /\ held # 0 /\ held = taken /\ taken \in Nat /\ held \in Nat
  BY <1>1, CounterTypes, LinesAreNaturals DEF RInv, IInv, HoldsLine, OInv, TakenLines
<1>3. QueuedLines' = QueuedLines \cup {taken}
  <2>1. channel \in Seq(Line)
    BY QueueTypes DEF RInv
  <2>2. ToSet(channel') = ToSet(channel) \cup {held}
    <3>1. StrictlyIncreasing(channel) /\ Older(ToSet(channel), {held})
      <4>1. QueueSorted /\ HeldLine = {held}
        BY <1>2 DEF RInv, OInv, QueueInOrder, HeldLine
      <4> QED
        BY <4>1 DEF QueueSorted, QueuedLines, Older
    <3> QED
      BY <1>1, <1>2, <2>1, <3>1, AppendSorted
  <2> QED
    BY <1>1, <1>2, <2>2 DEF QueuedLines, BacklogLines, BlockLines
<1>4. DropPolicy = "oldest" \/ Cardinality(QueuedLines) < QueueCap
  <2>1. queue_len = 1 + Cardinality(QueuedLines) /\ Cardinality(QueuedLines) \in Nat
    BY <1>1, QueuedCardinality DEF RInv, BetweenAddAndSend
  <2>2. DropPolicy = "oldest" \/ queue_len <= QueueCap
    BY ConfigAssumption DEF RInv, IInv, QueueBounded
  <2> QED
    BY <2>1, <2>2, ConfigAssumption
<1>5. SeenLines' = SeenLines + 1 /\ SeenLines' = taken /\ SeenReads' = SeenReads + 1
  <2>1. stats.read_lines \in Nat
    BY CounterTypes DEF RInv
  <2> QED
    BY <1>1, <1>2, <2>1 DEF SeenLines, SeenReads
<1>6. Deliveries' = Deliveries /\ ~Exited /\ Exited' = Exited
  BY <1>1 DEF Deliveries, Exited
<1>7. Pipe!Accept
  BY <1>1, <1>3, <1>4, <1>5, <1>6, SameCardinality
  DEF Pipe!Accept, Pipe!outcomes, SeenLines, SeenReads, Deliveries
<1> QED
  BY <1>6, <1>7 DEF Pipe!Next

\* A line is refused by drop-newest in a full queue, or by a forced drain.
LEMMA RefusalIsPiped ==
  ASSUME RInv, \/ NewestCheck /\ ~Room
               \/ BlockForced
  PROVE  Pipe!Next
<1> USE DEF readerVars, stdinVars, channelVars, batcherVars, pushVars, forceVars
<1>1. /\ readerPc \in {"policy", "wait"} /\ held' = 0 /\ readerPc' \in {"top", "stop"}
      /\ UNCHANGED <<taken, sealed, deque, channel, push, force_flag>>
      /\ AddStats([entries_dropped_queue |-> 1])
  BY DEF NewestCheck, BlockForced, Break
<1>2. held \in Line /\ held # 0 /\ held = taken /\ taken \in Nat /\ held \in Nat
  BY <1>1, CounterTypes, LinesAreNaturals DEF RInv, IInv, HoldsLine, OInv, TakenLines
<1>3. \/ DropPolicy = "newest" /\ Cardinality(QueuedLines) >= QueueCap
      \/ DropPolicy = "block" /\ force_flag
  <2>1. CASE NewestCheck /\ ~Room
    <3>1. readerPc # "send" /\ DropPolicy = "newest"
      BY <2>1 DEF NewestCheck
    <3>2. queue_len = Cardinality(QueuedLines) /\ Cardinality(QueuedLines) \in Nat
      BY <3>1, QueuedCardinality DEF RInv, BetweenAddAndSend
    <3> QED
      BY <2>1, <3>1, <3>2, ConfigAssumption DEF Room
  <2>2. CASE BlockForced
    BY <2>2 DEF BlockForced, RInv, CInv, PolicyInv
  <2> QED
    BY <2>1, <2>2
<1>4. /\ stats'.entries_dropped_queue = stats.entries_dropped_queue + 1
      /\ stats'.read_lines = stats.read_lines
      /\ stats'.parse_errors = stats.parse_errors
      /\ stats'.entries_delivered = stats.entries_delivered
      /\ stats'.entries_dropped_delivery = stats.entries_dropped_delivery
  BY <1>1, CounterNames, AddStatsHere, AddStatsElsewhere
<1>5. SeenLines' = SeenLines + 1 /\ SeenReads' = SeenReads + 1
  <2>1. stats.read_lines \in Nat
    BY CounterTypes DEF RInv
  <2> QED
    BY <1>1, <1>2, <1>4, <2>1 DEF SeenLines, SeenReads
<1>6. UNCHANGED <<QueuedLines, Deliveries>> /\ ~Exited /\ Exited' = Exited
  BY <1>1 DEF QueuedLines, BacklogLines, BlockLines, Deliveries, Exited
<1>7. Pipe!Refuse
  BY <1>1, <1>3, <1>4, <1>5, <1>6, SameCardinality
  DEF Pipe!Refuse, Pipe!outcomes, SeenLines, SeenReads, Deliveries
<1> QED
  BY <1>6, <1>7 DEF Pipe!Next

\* A line received goes from one part of the queue to another, unless drop-oldest
\* evicts.
LEMMA ReceiveIsPiped ==
  ASSUME RInv, ReceiveLog
  PROVE  [Pipe!Next]_(Pipe!pipeVars)
<1> USE DEF readerVars, stdinVars, pushVars, forceVars
<1>1. UNCHANGED <<taken, held, readerPc, push, force_flag>> /\ ~Exited
  BY DEF ReceiveLog
<1>2. Deliveries' = Deliveries /\ Exited' = Exited
  BY <1>1 DEF Deliveries, Exited
<1>3. CASE QueuedLines' = QueuedLines /\ stats' = stats
  <2>1. UNCHANGED <<SeenLines, SeenReads, Outcomes>>
    BY <1>1, <1>3 DEF SeenLines, SeenReads, Outcomes
  <2> QED
    BY <1>1, <1>2, <1>3, <2>1, HiddenStep
<1>4. CASE \E S \in SUBSET Line : Evicts(S)
  <2>1. PICK S \in SUBSET Line : Evicts(S)
    BY <1>4
  <2>2. /\ stats'.entries_dropped_queue = stats.entries_dropped_queue + Cardinality(S)
        /\ stats'.read_lines = stats.read_lines
        /\ stats'.parse_errors = stats.parse_errors
        /\ stats'.entries_delivered = stats.entries_delivered
        /\ stats'.entries_dropped_delivery = stats.entries_dropped_delivery
    BY <2>1, CounterNames, AddStatsHere, AddStatsElsewhere DEF Evicts
  <2>3. SeenLines' = SeenLines /\ SeenReads' = SeenReads
    BY <1>1, <2>2 DEF SeenLines, SeenReads
  <2>4. Pipe!Oldest(S)
    BY <2>1 DEF Evicts, Older, Pipe!Oldest
  <2>5. /\ DropPolicy = "oldest" /\ Cardinality(QueuedLines) > QueueCap
        /\ S \in SUBSET QueuedLines /\ Cardinality(S) \in 1 .. BatchSize
        /\ QueuedLines' = QueuedLines \ S
    BY <2>1 DEF Evicts
  <2>6. Pipe!Evict
    BY <1>1, <1>2, <2>2, <2>3, <2>4, <2>5, SameCardinality
    DEF Pipe!Evict, Pipe!intake, Pipe!outcomes, SeenLines, SeenReads, Deliveries
  <2> QED
    BY <1>1, <2>6 DEF Pipe!Next
<1> QED
  BY <1>3, <1>4, ReceiveEffect DEF RInv

\* A batch takes the front of the queue.
LEMMA AcquireIsPiped ==
  ASSUME RInv, NEW p \in Permits, AcquirePermit(p)
  PROVE  Pipe!Next
<1> USE DEF readerVars, stdinVars, forceVars
<1> DEFINE S == ToSet(NextBatch)
<1>1. /\ UNCHANGED <<taken, held, readerPc, stats, force_flag>> /\ ~Exited
      /\ push' = [push EXCEPT ![p] = [pc |-> "handed", batch |-> NextBatch,
                                      attempt |-> 0, status |-> 0]]
      /\ Free(p)
  BY DEF AcquirePermit
<1>2. /\ S \in SUBSET QueuedLines /\ Cardinality(S) \in 1 .. BatchSize
      /\ QueuedLines' = QueuedLines \ S
      /\ Older(S, QueuedLines')
  BY AcquireEffect DEF RInv
<1>3. Deliveries[p] = {} /\ Deliveries' = [Deliveries EXCEPT ![p] = S]
  <2>1. push[p].batch = <<>>
    BY <1>1 DEF RInv, OInv
  <2>2. ToSet(<<>>) = {}
    BY DEF ToSet
  <2>3. push \in [Permits -> PushTask]
    BY DEF RInv, IInv, TypeOK, PushTypeOK
  <2> QED
    BY <1>1, <2>1, <2>2, <2>3 DEF Deliveries
<1> HIDE DEF S
<1>4. Pipe!Oldest(S)
  BY <1>2 DEF Older, Pipe!Oldest
<1>5. SeenLines' = SeenLines /\ SeenReads' = SeenReads /\ Exited' = Exited
  BY <1>1 DEF SeenLines, SeenReads, Exited
<1>6. Pipe!Dispatch(p)
  BY <1>1, <1>2, <1>3, <1>4, <1>5, SameCardinality
  DEF Pipe!Dispatch, Pipe!intake, Pipe!outcomes, SeenLines, SeenReads, Deliveries
<1> QED
  BY <1>1, <1>6 DEF Pipe!Next

\* A task under way carries at least a line, and what it counts is its lines.
LEMMA BatchOfTask ==
  ASSUME RInv, NEW p \in Permits, ~Free(p)
  PROVE  /\ Deliveries[p] # {}
         /\ Cardinality(Deliveries[p]) = Len(push[p].batch)
         /\ Len(push[p].batch) \in Nat
<1>1. push[p].batch \in Seq(Line)
  BY DEF RInv, IInv, TypeOK, PushTypeOK, PushTask
<1>2. Len(push[p].batch) \in 1 .. BatchSize
  BY DEF RInv, IInv, BatchesCapped
<1>3. push[p].batch # <<>>
  BY <1>2
<1>4. StrictlyIncreasing(push[p].batch)
  BY DEF RInv, OInv, QueueInOrder
<1> QED
  BY <1>1, <1>3, <1>4, SetOfSeq, IncreasingCardinality DEF Deliveries

\* The end of a task empties its delivery.
LEMMA FinishEmpties ==
  ASSUME RInv, NEW p \in Permits, Finish(p)
  PROVE  Deliveries' = [Deliveries EXCEPT ![p] = {}]
<1>1. push \in [Permits -> PushTask]
  BY DEF RInv, IInv, TypeOK, PushTypeOK
<1>2. ToSet(Idle.batch) = {}
  BY DEF Idle, ToSet
<1> QED
  BY <1>1, <1>2 DEF Finish, Deliveries

\* What a push task leaves alone.
LEMMA PushHides ==
  ASSUME PushUnchanged, ~Exited
  PROVE  /\ UNCHANGED <<taken, held, QueuedLines, force_flag>>
         /\ Exited' = Exited
BY DEF PushUnchanged, stdinVars, forceVars, channelVars, readerVars, batcherVars, QueuedLines,
       BacklogLines, BlockLines, Exited

LEMMA DropIsPiped ==
  ASSUME RInv, NEW p \in Permits, drop_batch(p), PushUnchanged, ~Exited, ~Free(p)
  PROVE  Pipe!Next
<1>1. /\ stats'.entries_dropped_delivery
           = stats.entries_dropped_delivery + Len(push[p].batch)
      /\ stats'.read_lines = stats.read_lines
      /\ stats'.parse_errors = stats.parse_errors
      /\ stats'.entries_delivered = stats.entries_delivered
      /\ stats'.entries_dropped_queue = stats.entries_dropped_queue
  BY CounterNames, AddStatsHere, AddStatsElsewhere DEF drop_batch
<1>2. Deliveries' = [Deliveries EXCEPT ![p] = {}]
  BY FinishEmpties DEF drop_batch
<1>3. /\ UNCHANGED <<taken, held, QueuedLines, force_flag>>
      /\ Exited' = Exited
  BY PushHides
<1>4. SeenLines' = SeenLines /\ SeenReads' = SeenReads
  BY <1>1, <1>3 DEF SeenLines, SeenReads
<1>5. Pipe!Lose(p)
  BY <1>1, <1>2, <1>3, <1>4, BatchOfTask, SameCardinality
  DEF Pipe!Lose, Pipe!intake, Pipe!outcomes, SeenLines, SeenReads, Deliveries
<1> QED
  BY <1>5 DEF Pipe!Next

LEMMA DeliveryIsPiped ==
  ASSUME RInv, NEW p \in Permits, Delivered(p)
  PROVE  Pipe!Next
<1>0. PushUnchanged /\ ~Exited /\ ~Free(p) /\ Finish(p)
      /\ AddStats([batches_sent |-> 1, entries_delivered |-> Len(push[p].batch)])
  BY DEF Delivered, Free
<1>1. /\ stats'.entries_delivered = stats.entries_delivered + Len(push[p].batch)
      /\ stats'.read_lines = stats.read_lines
      /\ stats'.parse_errors = stats.parse_errors
      /\ stats'.entries_dropped_delivery = stats.entries_dropped_delivery
      /\ stats'.entries_dropped_queue = stats.entries_dropped_queue
  BY <1>0, CounterNames, AddStatsHere, AddStatsElsewhere
<1>2. Deliveries' = [Deliveries EXCEPT ![p] = {}]
  BY <1>0, FinishEmpties
<1>3. /\ UNCHANGED <<taken, held, QueuedLines, force_flag>>
      /\ Exited' = Exited
  BY <1>0, PushHides
<1>4. SeenLines' = SeenLines /\ SeenReads' = SeenReads
  BY <1>1, <1>3 DEF SeenLines, SeenReads
<1>5. Pipe!Deliver(p)
  BY <1>0, <1>1, <1>2, <1>3, <1>4, BatchOfTask, SameCardinality
  DEF Pipe!Deliver, Pipe!intake, Pipe!outcomes, SeenLines, SeenReads, Deliveries
<1> QED
  BY <1>0, <1>5 DEF Pipe!Next

\* A task that moves on keeps its batch.
LEMMA MoveIsHidden ==
  ASSUME RInv, NEW p \in Permits, NEW t, push' = [push EXCEPT ![p] = t],
         t.batch = push[p].batch,
         stats' = stats \/ AddStats([retries |-> 1]), PushUnchanged, ~Exited
  PROVE  UNCHANGED Pipe!pipeVars
<1>1. push \in [Permits -> PushTask]
  BY DEF RInv, IInv, TypeOK, PushTypeOK
<1>2. Deliveries' = Deliveries
  BY <1>1 DEF Deliveries
<1>3. /\ stats'.entries_delivered = stats.entries_delivered
      /\ stats'.read_lines = stats.read_lines
      /\ stats'.parse_errors = stats.parse_errors
      /\ stats'.entries_dropped_delivery = stats.entries_dropped_delivery
      /\ stats'.entries_dropped_queue = stats.entries_dropped_queue
  BY CounterNames, AddStatsElsewhere
<1>4. /\ UNCHANGED <<taken, held, QueuedLines, force_flag>>
      /\ Exited' = Exited
  BY PushHides
<1>5. UNCHANGED <<SeenLines, SeenReads, Outcomes>>
  BY <1>3, <1>4 DEF SeenLines, SeenReads, Outcomes
<1> QED
  BY <1>2, <1>4, <1>5, HiddenStep

\* A step of a push task delivers its batch, drops it, or moves on with it.
LEMMA PushStepCases ==
  ASSUME RInv, NEW p \in Permits, PushStep(p)
  PROVE  /\ PushUnchanged /\ ~Exited /\ ~Free(p)
         /\ \/ Delivered(p)
            \/ drop_batch(p)
            \/ \E t : /\ push' = [push EXCEPT ![p] = t] /\ t.batch = push[p].batch
                      /\ stats' = stats \/ AddStats([retries |-> 1])
<1> DEFINE Moves == \E t : /\ push' = [push EXCEPT ![p] = t] /\ t.batch = push[p].batch
                           /\ stats' = stats \/ AddStats([retries |-> 1])
<1>0. push \in [Permits -> PushTask]
  BY DEF RInv, IInv, TypeOK, PushTypeOK
<1>1. PushUnchanged /\ ~Exited /\ ~Free(p)
  BY DEF PushStep, StartAttempt, Delivered, StatusReceived, BodyRead, TransportError,
         SleepElapsed, DeadlineCancels, Free
<1>2. ASSUME RetryOrDrop(p) PROVE drop_batch(p) \/ Moves
  <2> DEFINE later == [pc |-> "backoff", batch |-> push[p].batch,
                       attempt |-> push[p].attempt + 1, status |-> 0]
  <2>1. later.batch = push[p].batch
    OBVIOUS
  <2>2. drop_batch(p) \/ (AddStats([retries |-> 1]) /\ push' = [push EXCEPT ![p] = later])
    BY <1>2 DEF RetryOrDrop
  <2> HIDE DEF later
  <2> QED
    BY <2>1, <2>2
<1>3. CASE StartAttempt(p) \/ SleepElapsed(p)
  <2>1. \A pc : [push[p] EXCEPT !.pc = pc].batch = push[p].batch
    BY <1>0 DEF PushTask
  <2>2. \/ drop_batch(p)
        \/ stats' = stats /\ \E pc : push' = [push EXCEPT ![p] = [push[p] EXCEPT !.pc = pc]]
    BY <1>3, <1>0 DEF StartAttempt, SleepElapsed
  <2> QED
    BY <1>1, <2>1, <2>2
<1>4. CASE StatusReceived(p)
  <2>1. PICK status \in Statuses :
          push' = [push EXCEPT ![p] = [push[p] EXCEPT !.pc = "reading", !.status = status]]
    BY <1>4 DEF StatusReceived
  <2>2. [push[p] EXCEPT !.pc = "reading", !.status = status].batch = push[p].batch
    BY <1>0 DEF PushTask
  <2>3. stats' = stats
    BY <1>4 DEF StatusReceived
  <2> QED
    BY <1>1, <2>1, <2>2, <2>3
<1>5. CASE Delivered(p) \/ DeadlineCancels(p)
  BY <1>1, <1>5 DEF DeadlineCancels
<1>6. CASE BodyRead(p) \/ TransportError(p)
  BY <1>1, <1>2, <1>6 DEF BodyRead, TransportError
<1> QED
  BY <1>3, <1>4, <1>5, <1>6 DEF PushStep

LEMMA PushIsPiped ==
  ASSUME RInv, NEW p \in Permits, PushStep(p)
  PROVE  [Pipe!Next]_(Pipe!pipeVars)
<1>1. CASE Delivered(p)
  BY <1>1, DeliveryIsPiped
<1>2. CASE drop_batch(p)
  BY <1>2, PushStepCases, DropIsPiped
<1>3. CASE \E t : /\ push' = [push EXCEPT ![p] = t] /\ t.batch = push[p].batch
                  /\ stats' = stats \/ AddStats([retries |-> 1])
  BY <1>3, PushStepCases, MoveIsHidden
<1> QED
  BY <1>1, <1>2, <1>3, PushStepCases

\* Notifying the reader and spawning the task show the pipe nothing: the batch has left.
LEMMA SpawnIsHidden ==
  ASSUME RInv, NEW p \in Permits, Dispatch(p)
  PROVE  UNCHANGED Pipe!pipeVars
<1>1. /\ push' = [push EXCEPT ![p].pc = "start"] /\ push \in [Permits -> PushTask]
      /\ UNCHANGED <<taken, held, readerPc, stats, sealed, deque, channel, force_flag>>
  BY DEF Dispatch, stdinVars, readerVars, channelVars, forceVars, RInv, IInv, TypeOK, PushTypeOK
<1>2. Deliveries' = Deliveries
  BY <1>1 DEF Deliveries, PushTask
<1>3. UNCHANGED <<SeenLines, SeenReads, Outcomes, QueuedLines, force_flag>>
      /\ Exited' = Exited
  BY <1>1 DEF SeenLines, SeenReads, Outcomes, QueuedLines, BacklogLines, BlockLines, Exited
<1> QED
  BY <1>2, <1>3, HiddenStep

\* A repeated signal forces the drain.
LEMMA SignalIsPiped ==
  ASSUME RInv, ReceiveSignal
  PROVE  [Pipe!Next]_(Pipe!pipeVars)
<1>1. /\ UNCHANGED <<taken, held, readerPc, stats, sealed, deque, channel, push>>
      /\ force_flag' = force_flag \/ force_flag' = TRUE
      /\ ~Exited
  BY DEF ReceiveSignal, stdinVars, readerVars, channelVars, batcherVars, pushVars
<1>2. /\ UNCHANGED <<SeenLines, SeenReads, Deliveries, Outcomes, QueuedLines>>
      /\ Exited' = Exited
  BY <1>1 DEF SeenLines, SeenReads, Deliveries, Outcomes, QueuedLines, BacklogLines,
              BlockLines, Exited
<1>3. CASE force_flag' = force_flag
  BY <1>2, <1>3, HiddenStep
<1>4. CASE force_flag' = TRUE
  <2>1. Pipe!ForceDrain
    BY <1>2, <1>4 DEF Pipe!ForceDrain, Pipe!intake, Pipe!outcomes, SeenLines, SeenReads,
                      Deliveries, Outcomes
  <2> QED
    BY <1>1, <2>1 DEF Pipe!Next
<1> QED
  BY <1>1, <1>3, <1>4

\* The batcher has returned, so its queue is empty and nothing can reach it any more.
LEMMA ExitIsPiped ==
  ASSUME RInv, PrintFinalStats
  PROVE  Pipe!Next
<1>1. /\ readerPc = "join" /\ readerPc' = "exited" /\ batcherPc = "done"
      /\ UNCHANGED <<taken, held, stats, sealed, deque, channel, push, force_flag>>
  BY DEF PrintFinalStats, stdinVars, channelVars, batcherVars, pushVars, forceVars
<1>2. channel = <<>> /\ deque = <<>> /\ sealed = <<>>
  BY <1>1 DEF RInv, CInv, ShutdownInv
<1>3. QueuedLines = {}
  BY <1>2 DEF QueuedLines, BacklogLines, BlockLines, ToSet
<1>4. UNCHANGED <<SeenLines, SeenReads, Deliveries, Outcomes, QueuedLines>>
  BY <1>1 DEF SeenLines, SeenReads, Deliveries, Outcomes, QueuedLines, BacklogLines, BlockLines
<1>5. ~Exited /\ Exited' = TRUE
  BY <1>1 DEF Exited
<1>6. Pipe!Close
  BY <1>1, <1>3, <1>4, <1>5 DEF Pipe!Close, Pipe!intake, Pipe!outcomes, SeenLines, SeenReads,
                                Deliveries, Outcomes
<1> QED
  BY <1>5, <1>6 DEF Pipe!Next

\* The remaining steps change nothing the pipe sees.
Unseen ==
  \/ StdinNext \/ NotifyForceQuit
  \/ CheckForceFlag \/ ReadEof \/ ReadError \/ ForcedWhileReading
  \/ NewestCheck /\ Room
  \/ BlockCheck \/ BlockRegister \/ BlockRecheck \/ BlockWoken
  \/ CountQueued \/ ArmDrainDeadline \/ DropSender
  \/ BatcherBeside \/ DeadlinePasses \/ Finished \/ UNCHANGED vars

LEMMA UnseenIsHidden == Unseen => UNCHANGED Pipe!pipeVars
<1> SUFFICES ASSUME Unseen PROVE UNCHANGED Pipe!pipeVars
  OBVIOUS
<1> USE DEF stdinVars, watcherVars, forceVars, queueVars, channelVars, readerVars,
            batcherVars, pushVars
<1>1. UNCHANGED <<taken, held, stats, sealed, deque, channel, push, force_flag>>
  BY DEF Unseen, StdinNext, WriteSegment, CloseStdin, NotifyForceQuit, CheckForceFlag,
         ReadEof, ReadError, ForcedWhileReading, NewestCheck, BlockCheck, BlockRegister,
         BlockRecheck, BlockWoken, CountQueued, ArmDrainDeadline, DropSender, BatcherBeside,
         ChannelClosed, Tick, LeaveLoop, DrainComplete, DrainTimeout, DeadlinePasses,
         Finished, vars
<1>2. Exited' = Exited
  BY DEF Unseen, StdinNext, WriteSegment, CloseStdin, NotifyForceQuit, CheckForceFlag,
         ReadEof, ReadError, ForcedWhileReading, NewestCheck, BlockCheck, BlockRegister,
         BlockRecheck, BlockWoken, CountQueued, ArmDrainDeadline, DropSender, BatcherBeside,
         ChannelClosed, Tick, LeaveLoop, DrainComplete, DrainTimeout, DeadlinePasses,
         Finished, vars, Break, Exited
<1>3. UNCHANGED <<SeenLines, SeenReads, Deliveries, Outcomes, QueuedLines, force_flag>>
  BY <1>1 DEF SeenLines, SeenReads, Deliveries, Outcomes, QueuedLines, BacklogLines, BlockLines
<1> QED
  BY <1>2, <1>3, HiddenStep

LEMMA StepIsPiped == RInv /\ [Next]_vars => [Pipe!Next]_(Pipe!pipeVars)
<1> SUFFICES ASSUME RInv, [Next]_vars PROVE [Pipe!Next]_(Pipe!pipeVars)
  OBVIOUS
<1>1. CASE ReadSegment \/ ReceiveLog \/ ReceiveSignal
  BY <1>1, ReadSegmentIsPiped, ReceiveIsPiped, SignalIsPiped
<1>2. CASE SendToBatcher \/ PrintFinalStats
  BY <1>2, SendIsPiped, ExitIsPiped
<1>3. CASE (NewestCheck /\ ~Room) \/ BlockForced
  BY <1>3, RefusalIsPiped
<1>4. CASE \E p \in Permits : AcquirePermit(p) \/ Dispatch(p) \/ PushStep(p)
  BY <1>4, AcquireIsPiped, SpawnIsHidden, PushIsPiped
<1>5. CASE Unseen
  BY <1>5, UnseenIsHidden
<1> QED
  BY <1>1, <1>2, <1>3, <1>4, <1>5
  DEF Next, WatcherNext, ReaderNext, ReaderProgress, BatcherNext, PusherNext, BatcherBeside,
      Unseen

LEMMA InitIsPiped == Init => Pipe!Init
<1> SUFFICES ASSUME Init PROVE Pipe!Init
  OBVIOUS
<1>1. /\ held = 0 /\ taken = 0 /\ force_flag = FALSE /\ ~Exited
      /\ sealed = <<>> /\ deque = <<>> /\ channel = <<>>
      /\ stats = [s \in StatNames |-> 0] /\ push = [p \in Permits |-> Idle]
  BY DEF Init, WatcherInit, ReaderInit, BatcherInit, PusherInit, Exited
<1>2. QueuedLines = {}
  BY <1>1 DEF QueuedLines, BacklogLines, BlockLines, ToSet
<1>3. Deliveries = [p \in Permits |-> {}]
  BY <1>1 DEF Deliveries, Idle, ToSet
<1>4. /\ stats.read_lines = 0 /\ stats.parse_errors = 0 /\ stats.entries_dropped_queue = 0
      /\ stats.entries_delivered = 0 /\ stats.entries_dropped_delivery = 0
  BY <1>1, CounterNames
<1> QED
  BY <1>1, <1>2, <1>3, <1>4 DEF Pipe!Init, Deliveries, Exited

\* The four tasks together are a first-in first-out pipe, for every size of the queue,
\* of a batch and of the semaphore, every policy, and every behaviour of Loki.
THEOREM ShipperImplementsLogPipe == Spec => ImplementsLogPipe
BY InitIsPiped, StepIsPiped, RInvHolds, PTL DEF Spec, ImplementsLogPipe, Pipe!Spec

-----------------------------------------------------------------------------
(* What is proved of the pipe holds of the shipper.                        *)

Pipes == INSTANCE LogPipeProofs WITH
  seen      <- SeenLines,
  read      <- SeenReads,
  bad       <- stats.parse_errors,
  queue     <- QueuedLines,
  batch     <- Deliveries,
  forced    <- force_flag,
  dropped   <- stats.entries_dropped_queue,
  delivered <- stats.entries_delivered,
  lost      <- stats.entries_dropped_delivery,
  closed    <- Exited

\* The two instances are one specification.
LEMMA SameInit == Pipe!Init => Pipes!Init
BY DEF SeenLines, SeenReads, Deliveries, Pipe!Init, Pipes!Init

LEMMA SameStep == [Pipe!Next]_(Pipe!pipeVars) => [Pipes!Next]_(Pipes!pipeVars)
BY DEF SeenLines, SeenReads, Deliveries, Pipe!Next, Pipes!Next, Pipe!pipeVars,
       Pipes!pipeVars, Pipe!Skip, Pipe!Accept, Pipe!Refuse, Pipe!Evict, Pipe!ForceDrain,
       Pipe!Close, Pipe!Dispatch, Pipe!Deliver, Pipe!Lose, Pipes!Skip, Pipes!Accept,
       Pipes!Refuse, Pipes!Evict, Pipes!ForceDrain, Pipes!Close, Pipes!Dispatch,
       Pipes!Deliver, Pipes!Lose, Pipe!intake, Pipes!intake, Pipe!outcomes, Pipes!outcomes,
       Pipe!Cardinality, Pipes!Cardinality, Pipe!Oldest, Pipes!Oldest

LEMMA ShipperIsPipe == Spec => Pipes!Spec
BY InitIsPiped, SameInit, StepIsPiped, SameStep, RInvHolds, PTL DEF Spec, Pipes!Spec

LEMMA ShipperConserves == Spec => []Pipes!Conserved
BY ShipperIsPipe, Pipes!PipeConserves, PTL

\* Each line read is in one counter, in the reader's hand, queued or in flight, once.
THEOREM EveryLineIsAccounted == Spec => []EveryLineAccounted
<1>1. RInv /\ Pipes!Conserved => EveryLineAccounted
  <2> SUFFICES ASSUME RInv, Pipes!Conserved PROVE EveryLineAccounted
    OBVIOUS
  <2> DEFINE q == Cardinality(QueuedLines)
             f == Cardinality(InFlightLines)
  <2>1. SeenReads = stats.parse_errors + stats.entries_dropped_queue + stats.entries_delivered
                      + stats.entries_dropped_delivery + q + f
    <3>1. Pipes!InFlight = InFlightLines
      BY DEF Pipes!InFlight, InFlightLines, Deliveries
    <3>2. \A S : Pipes!Cardinality(S) = Cardinality(S)
      BY DEF Cardinality, Pipes!Cardinality
    <3> QED
      BY <3>1, <3>2 DEF Pipes!Conserved
  <2>2. /\ stats.read_lines \in Nat /\ stats.parse_errors \in Nat
        /\ stats.entries_dropped_queue \in Nat /\ stats.entries_delivered \in Nat
        /\ stats.entries_dropped_delivery \in Nat
    BY CounterTypes DEF RInv
  <2>3. q \in Nat /\ f \in Nat
    <3>1. \A p \in Permits : push[p].batch \in Seq(Line)
      BY DEF RInv, IInv, TypeOK, PushTypeOK, PushTask
    <3>2. \A p \in Permits : ToSet(push[p].batch) \subseteq Line
      BY <3>1, SetOfSeq
    <3>3. InFlightLines \subseteq Line
      BY <3>2 DEF InFlightLines
    <3> QED
      BY <3>3, QueueTypes, LinesAreFinite DEF RInv
  <2> HIDE DEF q, f
  <2>4. CASE held = 0
    <3>1. Cardinality(HeldLine) = 0 /\ SeenReads = stats.read_lines
      BY <2>4, FS_EmptySet DEF HeldLine, SeenReads
    <3> QED
      BY <2>1, <2>2, <2>3, <3>1 DEF EveryLineAccounted, Accounted, q, f
  <2>5. CASE held # 0
    <3>1. Cardinality(HeldLine) = 1 /\ SeenReads = stats.read_lines - 1
      BY <2>5, FS_Singleton DEF HeldLine, SeenReads
    <3>2. Accounted \in Nat /\ stats.read_lines - 1 = Accounted + q + f
      BY <2>1, <2>2, <3>1 DEF Accounted
    <3>3. stats.read_lines = Accounted + 1 + q + f
      BY <2>2, <2>3, <3>2
    <3> QED
      BY <3>1, <3>3 DEF EveryLineAccounted, q, f
  <2> QED
    BY <2>4, <2>5
<1> QED
  BY <1>1, RInvHolds, ShipperConserves, PTL

\* An exit before the drain deadline leaves nothing behind and a final_stats that adds up.
THEOREM GracefulExitIsExact == Spec => []GracefulExitAddsUp
<1>1. RInv /\ EveryLineAccounted => GracefulExitAddsUp
  <2> SUFFICES ASSUME RInv, EveryLineAccounted, Exited
               PROVE  /\ QueuedLines = {} /\ held = 0 /\ queue_len = 0
                      /\ drain_deadline # "over" => stats.read_lines = Accounted
    BY DEF GracefulExitAddsUp
  <2>1. /\ batcherPc = "done" /\ channel = <<>> /\ deque = <<>> /\ sealed = <<>>
        /\ drain_deadline = "over" \/ \A p \in Permits : Free(p)
    BY DEF RInv, CInv, ShutdownInv
  <2>2. QueuedLines = {}
    BY <2>1 DEF QueuedLines, BacklogLines, BlockLines, ToSet
  <2>3. held = 0
    BY DEF Exited, RInv, OInv, TakenLines
  <2>4. Cardinality({}) = 0
    BY FS_EmptySet
  <2>5. queue_len = 0
    <3>1. queue_len = BetweenAddAndSend + Cardinality(QueuedLines)
      BY QueuedCardinality DEF RInv
    <3> QED
      BY <2>2, <2>4, <3>1 DEF BetweenAddAndSend, Exited
  <2>6. ASSUME drain_deadline # "over" PROVE stats.read_lines = Accounted
    <3>1. \A p \in Permits : push[p].batch = <<>>
      BY <2>1, <2>6 DEF RInv, OInv
    <3>2. InFlightLines = {}
      BY <3>1 DEF InFlightLines, ToSet
    <3>3. stats.read_lines = Accounted + 0 + 0 + 0
      BY <2>2, <2>3, <2>4, <3>2 DEF EveryLineAccounted, HeldLine
    <3>4. Accounted \in Nat
      BY CounterTypes DEF RInv, Accounted
    <3> QED
      BY <3>3, <3>4
  <2> QED
    BY <2>2, <2>3, <2>5, <2>6
<1> QED
  BY <1>1, RInvHolds, EveryLineIsAccounted, PTL

-----------------------------------------------------------------------------
(* What Loki stores.                                                       *)

\* The lines Loki has, and those of them that are no longer under way.
Stored  == {l \in Line : ingested[l] > 0}
Settled == Stored \ InFlightLines

\* How often Loki may have stored the batch of task t so far: once per attempt made,
\* the current one included once it has been answered.
Sends(t) == IF t.pc = "reading" THEN t.attempt + 1 ELSE t.attempt

\* Only what is or was in flight is stored, and at most once per attempt.
LokiInv ==
  /\ RetriesBoundDuplicates
  /\ \A p \in Permits : \A l \in ToSet(push[p].batch) : ingested[l] <= Sends(push[p])
  /\ \A l \in QueuedLines \cup HeldLine : ingested[l] = 0
  /\ \A l \in Line : l > taken => ingested[l] = 0

\* A batch that was delivered is stored; one that was dropped may be.
SettledInv ==
  /\ stats.entries_delivered <= Cardinality(Settled)
  /\ Cardinality(Settled) <= stats.entries_delivered + stats.entries_dropped_delivery

\* The types the proofs below need.
LEMMA LokiTypes ==
  ASSUME RInv
  PROVE  /\ push \in [Permits -> PushTask] /\ ingested \in [Line -> Nat]
         /\ taken \in Nat /\ MaxRetries \in Nat
         /\ \A p \in Permits : /\ push[p].batch \in Seq(Line)
                               /\ ToSet(push[p].batch) \subseteq Line
                               /\ push[p].attempt \in 0 .. MaxRetries
         /\ InFlightLines \subseteq Line
         /\ QueuedLines \cup HeldLine \subseteq Line
<1>1. /\ push \in [Permits -> PushTask] /\ ingested \in [Line -> Nat]
      /\ taken \in Nat /\ MaxRetries \in Nat
  BY ConfigAssumption, CounterTypes DEF RInv, IInv, TypeOK, PushTypeOK
<1>2. \A p \in Permits : /\ push[p].batch \in Seq(Line)
                         /\ push[p].attempt \in 0 .. MaxRetries
  BY <1>1 DEF PushTask
<1>3. \A p \in Permits : ToSet(push[p].batch) \subseteq Line
  BY <1>2, SetOfSeq
<1>4. HeldLine \subseteq Line
  BY DEF RInv, IInv, TypeOK, ReaderTypeOK, HeldLine
<1> QED
  BY <1>1, <1>2, <1>3, <1>4, QueueTypes DEF RInv, InFlightLines

\* A step that changes neither Loki nor what is in flight, and queues or reads lines that
\* are not in flight.
LEMMA QuietStep ==
  ASSUME RInv, LokiInv, SettledInv,
         ingested' = ingested, taken \in Nat, taken' \in Nat, taken <= taken',
         \A l \in QueuedLines' \cup HeldLine' : l \in QueuedLines \cup HeldLine \/ l > taken,
         QueuedLines' \cup HeldLine' \subseteq Line,
         \A p \in Permits : /\ push'[p].batch = push[p].batch
                            /\ Sends(push'[p]) = Sends(push[p]),
         stats'.entries_delivered = stats.entries_delivered,
         stats'.entries_dropped_delivery = stats.entries_dropped_delivery
  PROVE  LokiInv' /\ SettledInv'
<1>1. LokiInv'
  <2>1. RetriesBoundDuplicates'
    BY DEF LokiInv, RetriesBoundDuplicates
  <2>2. ASSUME NEW p \in Permits, NEW l \in ToSet(push'[p].batch)
        PROVE  ingested'[l] <= Sends(push'[p])
    BY DEF LokiInv
  <2>3. \A l \in QueuedLines' \cup HeldLine' : ingested'[l] = 0
    BY DEF LokiInv
  <2>4. ASSUME NEW l \in Line, l > taken' PROVE ingested'[l] = 0
    <3>1. l > taken
      BY <2>4, LinesAreNaturals
    <3> QED
      BY <3>1 DEF LokiInv
  <2> QED
    BY <2>1, <2>2, <2>3, <2>4 DEF LokiInv
<1>2. InFlightLines' = InFlightLines
  BY DEF InFlightLines
<1> QED
  BY <1>1, <1>2 DEF SettledInv, Settled, Stored

LEMMA ReadKeepsLoki ==
  ASSUME RInv, LokiInv, SettledInv, RInv', ReadSegment
  PROVE  LokiInv' /\ SettledInv'
<1>1. /\ taken' = taken + 1
      /\ UNCHANGED <<sealed, deque, channel, push, ingested>>
      /\ held' \in {held, taken'}
  BY DEF ReadSegment, channelVars, batcherVars, pushVars
<1>2. QueuedLines' = QueuedLines
  BY <1>1 DEF QueuedLines, BacklogLines, BlockLines
<1>3. PICK inc :
        /\ AddStats(inc)
        /\ DOMAIN inc = {"read_lines", "parse_errors"}
  BY DEF ReadSegment
<1>4. /\ stats'.entries_delivered = stats.entries_delivered
      /\ stats'.entries_dropped_delivery = stats.entries_dropped_delivery
  BY <1>3, CounterNames, AddStatsElsewhere
<1>5. taken \in Nat /\ taken' \in Nat /\ taken <= taken' /\ taken' > taken
  BY <1>1, LokiTypes
<1>6. HeldLine' \subseteq HeldLine \cup {taken'}
  BY <1>1 DEF HeldLine
<1>7. QueuedLines' \cup HeldLine' \subseteq Line
  <2>1. held' \in Line \cup {0} /\ QueuedLines \subseteq Line
    BY LokiTypes DEF RInv, IInv, TypeOK, ReaderTypeOK
  <2> QED
    BY <1>2, <2>1 DEF HeldLine
<1> QED
  BY <1>1, <1>2, <1>4, <1>5, <1>6, <1>7, QuietStep

LEMMA SendKeepsLoki ==
  ASSUME RInv, LokiInv, SettledInv, SendToBatcher
  PROVE  LokiInv' /\ SettledInv'
<1>1. /\ channel' = Append(channel, held) /\ held' = 0 /\ readerPc = "send"
      /\ UNCHANGED <<taken, stats, sealed, deque, push, ingested>>
  BY DEF SendToBatcher, stdinVars, channelVars, batcherVars, pushVars
<1>2. held \in Line /\ channel \in Seq(Line)
  BY <1>1, QueueTypes DEF RInv, IInv, HoldsLine
<1>3. ToSet(channel') \subseteq ToSet(channel) \cup {held}
  <2>1. /\ Len(channel') = Len(channel) + 1 /\ Len(channel) \in Nat
        /\ \A i \in 1 .. Len(channel) : channel'[i] = channel[i]
        /\ channel'[Len(channel) + 1] = held /\ channel' \in Seq(Line)
    BY <1>1, <1>2, AppendProperties, LenProperties
  <2>2. /\ DOMAIN channel' = 1 .. Len(channel) + 1 /\ DOMAIN channel = 1 .. Len(channel)
    BY <1>2, <2>1, LenProperties
  <2>3. \A i \in 1 .. Len(channel) + 1 : i \in 1 .. Len(channel) \/ i = Len(channel) + 1
    BY <2>1
  <2> QED
    BY <2>1, <2>2, <2>3 DEF ToSet
<1>4. QueuedLines' \cup HeldLine' \subseteq QueuedLines \cup HeldLine
  BY <1>1, <1>2, <1>3, LinesAreNaturals DEF QueuedLines, BacklogLines, BlockLines, HeldLine
<1>5. taken \in Nat /\ taken <= taken
  BY LokiTypes
<1> QED
  BY <1>1, <1>4, <1>5, LokiTypes, QuietStep

LEMMA ReceiveKeepsLoki ==
  ASSUME RInv, LokiInv, SettledInv, ReceiveLog
  PROVE  LokiInv' /\ SettledInv'
<1>1. UNCHANGED <<taken, held, push, ingested>>
  BY DEF ReceiveLog, stdinVars, readerVars, pushVars
<1>2. /\ QueuedLines' \subseteq QueuedLines
      /\ stats' = stats \/ \E n : AddStats([entries_dropped_queue |-> n])
  BY ReceiveEffect DEF RInv, Evicts
<1>3. /\ stats'.entries_delivered = stats.entries_delivered
      /\ stats'.entries_dropped_delivery = stats.entries_dropped_delivery
  <2>1. ASSUME NEW n, AddStats([entries_dropped_queue |-> n])
        PROVE  /\ stats'.entries_delivered = stats.entries_delivered
               /\ stats'.entries_dropped_delivery = stats.entries_dropped_delivery
    BY <2>1, CounterNames, AddStatsElsewhere
  <2> QED
    BY <1>2, <2>1
<1>4. QueuedLines' \cup HeldLine' \subseteq QueuedLines \cup HeldLine
  BY <1>1, <1>2 DEF HeldLine
<1>5. taken \in Nat /\ taken <= taken
  BY LokiTypes
<1> QED
  BY <1>1, <1>3, <1>4, <1>5, LokiTypes, QuietStep

LEMMA SpawnKeepsLoki ==
  ASSUME RInv, LokiInv, SettledInv, NEW p \in Permits, Dispatch(p)
  PROVE  LokiInv' /\ SettledInv'
<1>1. /\ push' = [push EXCEPT ![p].pc = "start"] /\ push[p].pc = "handed"
      /\ UNCHANGED <<taken, held, stats, sealed, deque, channel, ingested>>
  BY DEF Dispatch, stdinVars, readerVars, channelVars
<1>2. push \in [Permits -> PushTask]
  BY LokiTypes
<1>3. \A q \in Permits : /\ push'[q].batch = push[q].batch
                         /\ Sends(push'[q]) = Sends(push[q])
  BY <1>1, <1>2 DEF PushTask, Sends
<1>4. QueuedLines' = QueuedLines /\ HeldLine' = HeldLine
  BY <1>1 DEF QueuedLines, BacklogLines, BlockLines, HeldLine
<1>5. taken \in Nat /\ taken <= taken
  BY LokiTypes
<1> QED
  BY <1>1, <1>3, <1>4, <1>5, LokiTypes, QuietStep

LEMMA AcquireKeepsLoki ==
  ASSUME RInv, LokiInv, SettledInv, NEW p \in Permits, AcquirePermit(p)
  PROVE  LokiInv' /\ SettledInv'
<1>1. /\ UNCHANGED <<taken, held, stats, ingested>>
      /\ push' = [push EXCEPT ![p] = [pc |-> "handed", batch |-> NextBatch,
                                      attempt |-> 0, status |-> 0]]
      /\ Free(p) /\ push \in [Permits -> PushTask]
  BY LokiTypes DEF AcquirePermit, stdinVars, readerVars
<1>2. /\ push'[p].batch = NextBatch /\ Sends(push'[p]) = 0
      /\ \A q \in Permits \ {p} : push'[q] = push[q]
  BY <1>1 DEF Sends
<1>3. ToSet(NextBatch) \subseteq QueuedLines /\ QueuedLines' \subseteq QueuedLines
  BY AcquireEffect DEF RInv
<1>4. LokiInv'
  <2>1. HeldLine' = HeldLine
    BY <1>1 DEF HeldLine
  <2>2. ASSUME NEW q \in Permits, NEW l \in ToSet(push'[q].batch)
        PROVE  ingested'[l] <= Sends(push'[q])
    <3>1. CASE q = p
      BY <1>1, <1>2, <1>3, <3>1 DEF LokiInv
    <3>2. CASE q # p
      BY <1>1, <1>2, <3>2 DEF LokiInv
    <3> QED
      BY <3>1, <3>2
  <2> QED
    BY <1>1, <1>3, <2>1, <2>2 DEF LokiInv, RetriesBoundDuplicates
<1>5. InFlightLines' = InFlightLines \cup ToSet(NextBatch)
  <2>1. push[p].batch = <<>>
    BY <1>1 DEF RInv, OInv
  <2>2. ToSet(<<>>) = {}
    BY DEF ToSet
  <2> QED
    BY <1>2, <2>1, <2>2 DEF InFlightLines
<1>6. Settled' = Settled
  <2>1. \A l \in ToSet(NextBatch) : ingested[l] = 0
    BY <1>3 DEF LokiInv
  <2>2. Stored' = Stored /\ Stored \cap ToSet(NextBatch) = {}
    BY <1>1, <2>1 DEF Stored
  <2> QED
    BY <1>5, <2>2 DEF Settled
<1> QED
  BY <1>1, <1>4, <1>6 DEF SettledInv

\* Loki stores the batch of p, once more.
LEMMA IngestEffect ==
  ASSUME RInv, NEW p \in Permits, Ingest(p)
  PROVE  \A l \in Line : ingested'[l] = IF l \in ToSet(push[p].batch)
                                        THEN ingested[l] + 1 ELSE ingested[l]
BY DEF Ingest, ToSet

\* What a step of a push task can have done to Loki, and how far the task has come.
LEMMA PushStepLoki ==
  ASSUME RInv, NEW p \in Permits, PushStep(p)
  PROVE  /\ Ingest(p) \/ ingested' = ingested
         /\ Ingest(p) => push[p].pc = "sending"
         /\ \/ Delivered(p) /\ Ingest(p)
            \/ drop_batch(p)
            \/ \E t : /\ push' = [push EXCEPT ![p] = t] /\ t.batch = push[p].batch
                      /\ stats' = stats \/ AddStats([retries |-> 1])
                      /\ Sends(t) >= Sends(push[p])
                      /\ Ingest(p) => Sends(t) >= Sends(push[p]) + 1
<1> DEFINE Moves == \E t : /\ push' = [push EXCEPT ![p] = t] /\ t.batch = push[p].batch
                           /\ stats' = stats \/ AddStats([retries |-> 1])
                           /\ Sends(t) >= Sends(push[p])
                           /\ Ingest(p) => Sends(t) >= Sends(push[p]) + 1
<1>0. /\ push \in [Permits -> PushTask] /\ push[p] \in PushTask
      /\ push[p].attempt \in Nat
  BY LokiTypes DEF PushTask
<1>1. \A choices : LokiActs(p, choices) => Ingest(p) \/ ingested' = ingested
  BY DEF LokiActs
<1>2. /\ Ingest(p) \/ ingested' = ingested
      /\ push[p].pc # "sending" => ingested' = ingested
  BY <1>1 DEF PushStep, StartAttempt, Delivered, StatusReceived, BodyRead, TransportError,
              SleepElapsed, DeadlineCancels
<1>3. push[p].pc # "sending" /\ Ingest(p) => FALSE
  <2> SUFFICES ASSUME push[p].pc # "sending", Ingest(p) PROVE FALSE
    OBVIOUS
  <2>1. ingested' = ingested /\ ~Free(p)
    BY <1>2, PushStepCases
  <2>2. push[p].batch \in Seq(Line) /\ push[p].batch # <<>>
    BY <2>1, LokiTypes DEF RInv, IInv, BatchesCapped
  <2>3. PICK l \in ToSet(push[p].batch) : l \in Line
    BY <2>2, SetOfSeq
  <2>4. ingested'[l] = ingested[l] + 1 /\ ingested[l] \in Nat
    BY <2>3, IngestEffect, LokiTypes
  <2> QED
    BY <2>1, <2>4
<1>4. CASE Delivered(p)
  <2>1. PICK status \in Statuses : IsSuccess(status) /\ LokiActs(p, LokiStores(status))
    BY <1>4 DEF Delivered
  <2>2. LokiStores(status) = {TRUE}
    <3>1. status \in 200 .. 299
      BY <2>1 DEF IsSuccess
    <3>2. ~(status >= 500)
      BY <3>1
    <3> QED
      BY <3>1, <3>2, Zenon DEF LokiStores
  <2>3. Ingest(p)
    BY <2>1, <2>2 DEF LokiActs
  <2> QED
    BY <1>2, <1>3, <1>4, <2>3
<1>5. ASSUME RetryOrDrop(p), push[p].pc \in {"sending", "reading"}
      PROVE  drop_batch(p) \/ Moves
  <2> DEFINE later == [pc |-> "backoff", batch |-> push[p].batch,
                       attempt |-> push[p].attempt + 1, status |-> 0]
  <2>1. /\ later.batch = push[p].batch
        /\ Sends(later) = push[p].attempt + 1
    BY DEF Sends
  <2>2. drop_batch(p) \/ (AddStats([retries |-> 1]) /\ push' = [push EXCEPT ![p] = later])
    BY <1>5 DEF RetryOrDrop
  <2>3. /\ Sends(later) >= Sends(push[p])
        /\ Ingest(p) => Sends(later) >= Sends(push[p]) + 1
    BY <1>0, <1>3, <1>5, <2>1 DEF Sends
  <2> HIDE DEF later
  <2> QED
    BY <2>1, <2>2, <2>3
<1>6. CASE StartAttempt(p) \/ SleepElapsed(p)
  <2>1. /\ push[p].pc \in {"start", "backoff"}
        /\ \/ drop_batch(p)
           \/ /\ stats' = stats
              /\ \E pc \in {"sending", "start"} :
                   push' = [push EXCEPT ![p] = [push[p] EXCEPT !.pc = pc]]
    BY <1>6, <1>0 DEF StartAttempt, SleepElapsed
  <2>2. ASSUME NEW pc \in {"sending", "start"}
        PROVE  /\ [push[p] EXCEPT !.pc = pc].batch = push[p].batch
               /\ Sends([push[p] EXCEPT !.pc = pc]) = push[p].attempt
    BY <1>0 DEF PushTask, Sends
  <2>3. Sends(push[p]) = push[p].attempt /\ ~Ingest(p)
    BY <1>3, <2>1 DEF Sends
  <2>4. CASE drop_batch(p)
    BY <1>2, <1>3, <2>4
  <2>5. CASE ~drop_batch(p)
    <3>1. PICK pc \in {"sending", "start"} :
            push' = [push EXCEPT ![p] = [push[p] EXCEPT !.pc = pc]]
      BY <2>1, <2>5
    <3> DEFINE t == [push[p] EXCEPT !.pc = pc]
    <3>2. /\ push' = [push EXCEPT ![p] = t] /\ t.batch = push[p].batch
          /\ Sends(t) = Sends(push[p]) /\ Sends(t) \in Nat
      BY <1>0, <2>2, <2>3, <3>1
    <3> HIDE DEF t
    <3>3. Sends(t) >= Sends(push[p])
      BY <3>2
    <3>4. Moves
      BY <2>1, <2>3, <2>5, <3>2, <3>3
    <3> QED
      BY <1>2, <1>3, <3>4
  <2> QED
    BY <2>4, <2>5
<1>7. CASE StatusReceived(p)
  <2>1. PICK status \in Statuses :
          push' = [push EXCEPT ![p] = [push[p] EXCEPT !.pc = "reading", !.status = status]]
    BY <1>7 DEF StatusReceived
  <2> DEFINE t == [push[p] EXCEPT !.pc = "reading", !.status = status]
  <2>2. t.batch = push[p].batch /\ Sends(t) = push[p].attempt + 1
    BY <1>0 DEF PushTask, Sends
  <2>3. stats' = stats /\ Sends(push[p]) = push[p].attempt
    BY <1>7 DEF StatusReceived, Sends
  <2> HIDE DEF t
  <2>4. push' = [push EXCEPT ![p] = t]
    BY <2>1 DEF t
  <2>5. Sends(t) >= Sends(push[p]) /\ Sends(t) >= Sends(push[p]) + 1
    BY <1>0, <2>2, <2>3
  <2>6. Moves
    BY <2>2, <2>3, <2>4, <2>5
  <2> QED
    BY <1>2, <1>3, <2>6
<1>8. CASE BodyRead(p) \/ TransportError(p)
  <2>1. drop_batch(p) \/ Moves
    BY <1>5, <1>8 DEF BodyRead, TransportError
  <2> QED
    BY <1>2, <1>3, <2>1
<1>9. CASE DeadlineCancels(p)
  BY <1>2, <1>3, <1>9 DEF DeadlineCancels
<1> QED
  BY <1>4, <1>6, <1>7, <1>8, <1>9 DEF PushStep

\* The lines of a task are its own: nobody else carries, holds or will read one.
LEMMA OwnLines ==
  ASSUME RInv, NEW p \in Permits, NEW l \in ToSet(push[p].batch)
  PROVE  /\ l \in Line /\ l <= taken /\ l \notin QueuedLines \cup HeldLine
         /\ \A q \in Permits \ {p} : l \notin ToSet(push[q].batch)
<1>1. ToSet(push[p].batch) \subseteq Line /\ QueuedLines \cup HeldLine \subseteq Line
  BY LokiTypes
<1>2. /\ Older(ToSet(push[p].batch), QueuedLines \cup HeldLine)
      /\ \A q \in Permits \ {p} : ToSet(push[p].batch) \cap ToSet(push[q].batch) = {}
  BY DEF RInv, OInv, QueueInOrder
<1>3. l \notin QueuedLines \cup HeldLine
  BY <1>1, <1>2, OlderIsDisjoint
<1>4. l <= taken
  BY DEF RInv, OInv, TakenLines, InFlightLines
<1> QED
  BY <1>1, <1>2, <1>3, <1>4

\* A push task that moves on, or ends, keeps LokiInv.
LEMMA PushKeepsLokiInv ==
  ASSUME RInv, RInv', LokiInv, NEW p \in Permits, PushStep(p)
  PROVE  LokiInv'
<1> DEFINE b == ToSet(push[p].batch)
<1>0. /\ push \in [Permits -> PushTask] /\ ingested \in [Line -> Nat]
      /\ push[p].attempt \in 0 .. MaxRetries /\ MaxRetries \in Nat /\ b \subseteq Line
  BY LokiTypes
<1>1. /\ UNCHANGED <<taken, held, QueuedLines>> /\ HeldLine' = HeldLine
  BY PushStepCases, PushHides DEF HeldLine
<1>2. \A l \in Line : ingested'[l] = ingested[l] \/ (l \in b /\ Ingest(p)
                                                     /\ ingested'[l] = ingested[l] + 1)
  BY PushStepLoki, IngestEffect
<1>3. Ingest(p) => Sends(push[p]) = push[p].attempt
  BY PushStepLoki DEF Sends
<1>4. \A l \in b : ingested[l] <= Sends(push[p])
  BY DEF LokiInv
<1>5. ASSUME NEW l \in Line PROVE ingested'[l] <= MaxRetries + 1
  <2>1. ingested[l] <= MaxRetries + 1
    BY DEF LokiInv, RetriesBoundDuplicates
  <2>2. CASE ingested'[l] = ingested[l]
    BY <2>1, <2>2
  <2>3. CASE l \in b /\ Ingest(p) /\ ingested'[l] = ingested[l] + 1
    <3>1. ingested[l] <= push[p].attempt
      BY <1>3, <1>4, <2>3
    <3> QED
      BY <1>0, <2>3, <3>1
  <2> QED
    BY <1>2, <2>2, <2>3
<1>6. /\ \A l \in QueuedLines' \cup HeldLine' : ingested'[l] = 0
      /\ \A l \in Line : l > taken' => ingested'[l] = 0
  <2>1. \A l \in b : l \notin QueuedLines \cup HeldLine /\ l <= taken /\ l \in Nat
    BY OwnLines, LinesAreNaturals
  <2>2. taken \in Nat /\ QueuedLines \cup HeldLine \subseteq Line
    BY LokiTypes
  <2>3. \A l \in Line : l > taken => l \notin b
    BY <2>1, <2>2
  <2> QED
    BY <1>1, <1>2, <2>1, <2>2, <2>3 DEF LokiInv
<1>7. ASSUME NEW q \in Permits \ {p}, NEW l \in ToSet(push'[q].batch)
      PROVE  ingested'[l] <= Sends(push'[q])
  <2>1. push'[q] = push[q]
    BY <1>0, PushStepCases DEF Delivered, drop_batch, Finish
  <2>2. l \notin b /\ l \in Line
    BY <2>1, OwnLines
  <2> QED
    BY <1>2, <2>1, <2>2 DEF LokiInv
<1>8. ASSUME NEW l \in ToSet(push'[p].batch) PROVE ingested'[l] <= Sends(push'[p])
  <2>1. CASE Delivered(p) \/ drop_batch(p)
    <3>1. push'[p].batch = <<>>
      BY <1>0, <2>1 DEF Delivered, drop_batch, Finish, Idle
    <3> QED
      BY <1>8, <3>1 DEF ToSet
  <2>2. CASE ~Delivered(p) /\ ~drop_batch(p)
    <3>1. PICK t : /\ push' = [push EXCEPT ![p] = t] /\ t.batch = push[p].batch
                   /\ Sends(t) >= Sends(push[p])
                   /\ Ingest(p) => Sends(t) >= Sends(push[p]) + 1
      BY <2>2, PushStepLoki
    <3>2. push'[p] = t /\ l \in b
      BY <1>0, <1>8, <3>1
    <3>3. Sends(push[p]) \in Nat /\ Sends(t) \in Nat
      <4>1. push'[p].attempt \in Nat
        <5>1. push' \in [Permits -> PushTask]
          BY DEF RInv, IInv, TypeOK, PushTypeOK
        <5> QED
          BY <1>0, <5>1 DEF PushTask
      <4> QED
        BY <1>0, <3>2, <4>1 DEF Sends
    <3>4. ingested[l] <= Sends(push[p]) /\ ingested[l] \in Nat
      BY <1>0, <1>4, <3>2
    <3>5. CASE ingested'[l] = ingested[l]
      BY <3>1, <3>2, <3>3, <3>4, <3>5
    <3>6. CASE Ingest(p) /\ ingested'[l] = ingested[l] + 1
      BY <3>1, <3>2, <3>3, <3>4, <3>6
    <3> QED
      BY <1>0, <1>2, <3>2, <3>5, <3>6
  <2> QED
    BY <2>1, <2>2
<1>9. \A q \in Permits : \A l \in ToSet(push'[q].batch) : ingested'[l] <= Sends(push'[q])
  BY <1>7, <1>8
<1> QED
  BY <1>5, <1>6, <1>9 DEF LokiInv, RetriesBoundDuplicates

\* The end of a task settles those of its lines that Loki has.
LEMMA EndSettles ==
  ASSUME RInv, LokiInv, NEW p \in Permits, Finish(p), ~Free(p),
         Ingest(p) \/ ingested' = ingested
  PROVE  \E m \in 0 .. Len(push[p].batch) :
           /\ Cardinality(Settled') = Cardinality(Settled) + m
           /\ Ingest(p) => m = Len(push[p].batch)
<1> DEFINE b == ToSet(push[p].batch)
           new == b \cap Stored'
<1>0. /\ push \in [Permits -> PushTask] /\ ingested \in [Line -> Nat]
      /\ b \subseteq Line /\ InFlightLines \subseteq Line
  BY LokiTypes
<1>1. Cardinality(b) = Len(push[p].batch) /\ Len(push[p].batch) \in Nat
  BY BatchOfTask DEF Deliveries
<1>2. InFlightLines' = InFlightLines \ b
  <2>1. \A q \in Permits : push'[q] = IF q = p THEN Idle ELSE push[q]
    BY <1>0 DEF Finish
  <2>2. ToSet(Idle.batch) = {}
    BY DEF Idle, ToSet
  <2>3. \A q \in Permits : q # p => ToSet(push[q].batch) \cap b = {}
    BY OwnLines
  <2> QED
    BY <2>1, <2>2, <2>3 DEF InFlightLines
<1>3. Stored \subseteq Stored' /\ Stored' \subseteq Stored \cup b /\ (Ingest(p) => b \subseteq Stored')
  <2>1. CASE ingested' = ingested /\ ~Ingest(p)
    BY <2>1 DEF Stored
  <2>2. CASE Ingest(p)
    <3>1. \A l \in Line : /\ ingested[l] \in Nat
                          /\ ingested'[l] = IF l \in b THEN ingested[l] + 1 ELSE ingested[l]
      BY <1>0, <2>2, IngestEffect
    <3>2. \A l \in Line : /\ ingested[l] > 0 => ingested'[l] > 0
                          /\ ingested'[l] > 0 => ingested[l] > 0 \/ l \in b
                          /\ l \in b => ingested'[l] > 0
      BY <3>1
    <3> QED
      BY <1>0, <3>2 DEF Stored
  <2> QED
    BY <2>1, <2>2
<1>4. b \subseteq InFlightLines
  BY DEF InFlightLines
<1>5. Settled' = Settled \cup new /\ Settled \cap new = {}
  BY <1>2, <1>3, <1>4 DEF Settled
<1>6. Settled \in SUBSET Line /\ new \in SUBSET Line
  BY <1>0 DEF Settled, Stored
<1>7. Cardinality(Settled') = Cardinality(Settled) + Cardinality(new)
  BY <1>5, <1>6, DisjointUnion
<1>8. Cardinality(new) \in Nat /\ Cardinality(new) <= Cardinality(b)
  BY <1>0, <1>6, LinesAreFinite, FS_Subset
<1>9. Ingest(p) => new = b
  BY <1>3
<1> HIDE DEF b, new
<1>10. Cardinality(new) \in 0 .. Len(push[p].batch)
  BY <1>1, <1>8
<1> QED
  BY <1>1, <1>7, <1>9, <1>10

LEMMA PushKeepsSettled ==
  ASSUME RInv, LokiInv, SettledInv, NEW p \in Permits, PushStep(p)
  PROVE  SettledInv'
<1> DEFINE d == stats.entries_delivered
           x == stats.entries_dropped_delivery
           c == Cardinality(Settled)
           n == Len(push[p].batch)
<1>0. /\ d \in Nat /\ x \in Nat /\ c \in Nat /\ d <= c /\ c <= d + x
      /\ ~Free(p) /\ n \in Nat
  <2>1. Settled \subseteq Line
    BY DEF Settled, Stored
  <2> QED
    BY <2>1, LinesAreFinite, CounterTypes, PushStepCases, BatchOfTask DEF RInv, SettledInv
<1>1. ASSUME Delivered(p), Ingest(p) PROVE SettledInv'
  <2>1. Finish(p) /\ AddStats([batches_sent |-> 1, entries_delivered |-> n])
    BY <1>1 DEF Delivered
  <2>2. d' = d + n /\ x' = x
    BY <2>1, CounterNames, AddStatsHere, AddStatsElsewhere
  <2>3. c' = c + n
    BY <1>0, <1>1, <2>1, EndSettles
  <2> HIDE DEF c, d, x, n
  <2>4. d' <= c' /\ c' <= d' + x'
    BY <1>0, <2>2, <2>3
  <2> QED
    BY <2>4 DEF SettledInv, c, d, x
<1>2. ASSUME drop_batch(p) PROVE SettledInv'
  <2>1. /\ Finish(p)
        /\ AddStats([batches_dropped_delivery |-> 1, entries_dropped_delivery |-> n])
    BY <1>2 DEF drop_batch
  <2>2. d' = d /\ x' = x + n
    BY <2>1, CounterNames, AddStatsHere, AddStatsElsewhere
  <2>3. PICK m \in 0 .. n : c' = c + m
    BY <1>0, <2>1, EndSettles, PushStepLoki
  <2> HIDE DEF c, d, x, n
  <2>4. d' <= c' /\ c' <= d' + x'
    BY <1>0, <2>2, <2>3
  <2> QED
    BY <2>4 DEF SettledInv, c, d, x
<1>3. ASSUME NEW t, push' = [push EXCEPT ![p] = t], t.batch = push[p].batch,
             stats' = stats \/ AddStats([retries |-> 1])
      PROVE  SettledInv'
  <2>1. d' = d /\ x' = x
    BY <1>3, CounterNames, AddStatsElsewhere
  <2>2. InFlightLines' = InFlightLines
    BY <1>3, LokiTypes DEF InFlightLines
  <2>3. \A l \in Line \ ToSet(push[p].batch) : ingested'[l] = ingested[l]
    BY PushStepLoki, IngestEffect
  <2>4. ToSet(push[p].batch) \subseteq InFlightLines
    BY DEF InFlightLines
  <2>5. Settled' = Settled
    BY <2>2, <2>3, <2>4 DEF Settled, Stored
  <2> QED
    BY <2>1, <2>5 DEF SettledInv
<1> QED
  BY <1>1, <1>2, <1>3, PushStepLoki

\* The steps beside the lines, and those that refuse one.
LEMMA BesideKeepsLoki ==
  ASSUME RInv, LokiInv, SettledInv,
         Unseen \/ ReceiveSignal \/ PrintFinalStats \/ NewestCheck \/ BlockForced
  PROVE  LokiInv' /\ SettledInv'
<1>1. /\ UNCHANGED <<taken, sealed, deque, channel, push, ingested>>
      /\ held' \in {held, 0}
      /\ stats' = stats \/ AddStats([entries_dropped_queue |-> 1])
  <2> USE DEF stdinVars, watcherVars, forceVars, queueVars, channelVars, readerVars,
              batcherVars, pushVars
  <2>1. CASE StdinNext \/ NotifyForceQuit \/ ReceiveSignal \/ DeadlinePasses \/ Finished
             \/ UNCHANGED vars
    BY <2>1 DEF StdinNext, WriteSegment, CloseStdin, NotifyForceQuit, ReceiveSignal,
                DeadlinePasses, Finished, vars
  <2>2. CASE CheckForceFlag \/ ReadEof \/ ReadError \/ ForcedWhileReading \/ BlockCheck
             \/ BlockRegister \/ BlockRecheck \/ BlockWoken \/ CountQueued
             \/ ArmDrainDeadline \/ DropSender \/ PrintFinalStats
    BY <2>2 DEF CheckForceFlag, ReadEof, ReadError, ForcedWhileReading, BlockCheck,
                BlockRegister, BlockRecheck, BlockWoken, CountQueued, ArmDrainDeadline,
                DropSender, PrintFinalStats
  <2>3. CASE NewestCheck \/ BlockForced
    BY <2>3 DEF NewestCheck, BlockForced
  <2>4. CASE BatcherBeside
    BY <2>4 DEF BatcherBeside, ChannelClosed, Tick, LeaveLoop, DrainComplete, DrainTimeout
  <2> QED
    BY <2>1, <2>2, <2>3, <2>4 DEF Unseen
<1>2. QueuedLines' = QueuedLines /\ HeldLine' \subseteq HeldLine
  BY <1>1 DEF QueuedLines, BacklogLines, BlockLines, HeldLine
<1>3. /\ stats'.entries_delivered = stats.entries_delivered
      /\ stats'.entries_dropped_delivery = stats.entries_dropped_delivery
  BY <1>1, CounterNames, AddStatsElsewhere
<1>4. \A p \in Permits : /\ push'[p].batch = push[p].batch
                         /\ Sends(push'[p]) = Sends(push[p])
  BY <1>1
<1>5. /\ taken \in Nat /\ taken' = taken /\ taken <= taken
      /\ QueuedLines' \cup HeldLine' \subseteq Line
      /\ QueuedLines' \cup HeldLine' \subseteq QueuedLines \cup HeldLine
  BY <1>1, <1>2, LokiTypes
<1> QED
  BY <1>1, <1>3, <1>4, <1>5, QuietStep

LEMMA LokiInvKept ==
  RInv /\ RInv' /\ LokiInv /\ SettledInv /\ [Next]_vars => LokiInv' /\ SettledInv'
<1> SUFFICES ASSUME RInv, RInv', LokiInv, SettledInv, [Next]_vars
             PROVE  LokiInv' /\ SettledInv'
  OBVIOUS
<1>1. CASE ReadSegment \/ SendToBatcher \/ ReceiveLog
  BY <1>1, ReadKeepsLoki, SendKeepsLoki, ReceiveKeepsLoki
<1>2. CASE \E p \in Permits : AcquirePermit(p) \/ Dispatch(p)
  BY <1>2, AcquireKeepsLoki, SpawnKeepsLoki
<1>3. CASE \E p \in Permits : PushStep(p)
  BY <1>3, PushKeepsLokiInv, PushKeepsSettled
<1>4. CASE Unseen \/ ReceiveSignal \/ PrintFinalStats \/ NewestCheck \/ BlockForced
  BY <1>4, BesideKeepsLoki
<1> QED
  BY <1>1, <1>2, <1>3, <1>4
  DEF Next, WatcherNext, ReaderNext, ReaderProgress, BatcherNext, PusherNext, BatcherBeside,
      Unseen

LEMMA InitLokiInv == Init => LokiInv /\ SettledInv
<1> SUFFICES ASSUME Init PROVE LokiInv /\ SettledInv
  OBVIOUS
<1>1. /\ ingested = [l \in Line |-> 0] /\ push = [p \in Permits |-> Idle] /\ held = 0
      /\ sealed = <<>> /\ deque = <<>> /\ channel = <<>> /\ stats = [s \in StatNames |-> 0]
  BY DEF Init, ReaderInit, BatcherInit, PusherInit
<1>2. QueuedLines = {} /\ HeldLine = {}
  BY <1>1 DEF QueuedLines, BacklogLines, BlockLines, HeldLine, ToSet
<1>3. \A p \in Permits : ToSet(push[p].batch) = {}
  BY <1>1 DEF Idle, ToSet
<1>4. \A l \in Line : ingested[l] <= MaxRetries + 1
  BY <1>1, ConfigAssumption
<1>5. Settled = {} /\ Cardinality({}) = 0
  BY <1>1, FS_EmptySet DEF Settled, Stored
<1>6. stats.entries_delivered = 0 /\ stats.entries_dropped_delivery = 0
  BY <1>1, CounterNames
<1> QED
  BY <1>1, <1>2, <1>3, <1>4, <1>5, <1>6 DEF LokiInv, SettledInv, RetriesBoundDuplicates

LEMMA LokiHolds == Spec => [](LokiInv /\ SettledInv)
<1> DEFINE J == RInv
           K == LokiInv /\ SettledInv
<1>1. Init => K
  BY InitLokiInv
<1>2. J /\ J' /\ K /\ [Next]_vars => K'
  BY LokiInvKept
<1>3. Spec => []J
  BY RInvHolds
<1> HIDE DEF J, K
<1>4. Spec => []K
  BY <1>1, <1>2, <1>3, PTL DEF Spec
<1> QED
  BY <1>4 DEF K

\* No line is stored more often than its batch may be sent, whatever Loki does with a
\* request whose answer is lost.
THEOREM DuplicatesAreBounded == Spec => []RetriesBoundDuplicates
<1>1. LokiInv => RetriesBoundDuplicates
  BY DEF LokiInv
<1> QED
  BY <1>1, LokiHolds, PTL

\* At any moment the counters agree with Loki, up to the lines that are under way and
\* those whose delivery failed.
THEOREM CountersAgreeWithLoki == Spec => []StatsAgreeWithLoki
<1>1. RInv /\ LokiInv /\ SettledInv => StatsAgreeWithLoki
  <2> SUFFICES ASSUME RInv, SettledInv PROVE StatsAgreeWithLoki
    OBVIOUS
  <2> DEFINE d == stats.entries_delivered
             x == stats.entries_dropped_delivery
             flying == Stored \cap InFlightLines
  <2>1. /\ Stored = Settled \cup flying /\ Settled \cap flying = {}
        /\ Stored \in SUBSET Line /\ Settled \in SUBSET Line /\ flying \in SUBSET Line
        /\ InFlightLines \in SUBSET Line /\ flying \subseteq InFlightLines
    BY LokiTypes DEF Settled, Stored
  <2>2. Cardinality(Stored) = Cardinality(Settled) + Cardinality(flying)
    BY <2>1, DisjointUnion
  <2>3. /\ Cardinality(flying) <= Cardinality(InFlightLines)
        /\ Cardinality(flying) \in Nat /\ Cardinality(InFlightLines) \in Nat
        /\ Cardinality(Settled) \in Nat
    BY <2>1, LinesAreFinite, FS_Subset
  <2>4. d <= Cardinality(Settled) /\ Cardinality(Settled) <= d + x /\ d \in Nat /\ x \in Nat
    BY CounterTypes DEF RInv, SettledInv
  <2> HIDE DEF d, x, flying
  <2>5. /\ d <= Cardinality(Stored)
        /\ Cardinality(Stored) <= d + x + Cardinality(InFlightLines)
    BY <2>2, <2>3, <2>4
  <2> QED
    BY <2>5 DEF StatsAgreeWithLoki, Stored, d, x
<1> QED
  BY <1>1, RInvHolds, LokiHolds, PTL

===============================================================================
