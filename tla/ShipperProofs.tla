---------------------------- MODULE ShipperProofs ----------------------------
(***************************************************************************)
(* Proofs about Shipper, for every value of the constants: the types, the  *)
(* exactness and the bound of the queue counter, and the size of a batch.  *)
(*                                                                         *)
(* None of them is inductive alone.  The invariant IInv adds what the code *)
(* relies on silently: a sealed block holds exactly batch_size lines and   *)
(* sealed_entries counts them, the reader holds a line wherever it can     *)
(* still enqueue or drop it, and a reader past the test of the cap still   *)
(* has room.                                                               *)
(***************************************************************************)
EXTENDS Shipper, SequenceTheorems, TLAPS

\* n is the number of lines in the blocks of s, which are full batches.
FullBlocks(s, n) ==
  /\ \A i \in 1 .. Len(s) : Len(s[i]) = BatchSize
  /\ n = BatchSize * Len(s)

SealedFull == FullBlocks(sealed, sealed_entries)

\* The reader has a line in hand wherever it can still enqueue or drop it.
HoldsLine ==
  readerPc \in {"policy", "register", "recheck", "wait", "add", "send"}
    => held \in Line

\* Only the reader adds to the queue, so the room it saw is still there.
RoomStays ==
  readerPc = "add" /\ DropPolicy \in {"newest", "block"} => queue_len < QueueCap

IInv ==
  /\ TypeOK
  /\ QueueLenExact
  /\ SealedFull
  /\ HoldsLine
  /\ RoomStays
  /\ QueueBounded
  /\ BatchesCapped

-----------------------------------------------------------------------------
(* Lemmas about the operators of the model.                                *)

\* A max_batch of 0 is taken as 1.
LEMMA BatchSizePositive == BatchSize \in Nat /\ BatchSize >= 1
BY ConfigAssumption DEF BatchSize

LEMMA Blocks ==
  ASSUME NEW b \in Nat, NEW n \in Nat
  PROVE  b * n \in Nat /\ b * (n + 1) = b * n + b
OBVIOUS

\* Adding natural numbers to counters leaves every counter a natural number.
LEMMA AddStatsType ==
  ASSUME NEW inc, AddStats(inc), stats \in [StatNames -> Nat],
         \A s \in DOMAIN inc : inc[s] \in Nat
  PROVE  stats' \in [StatNames -> Nat]
BY DEF AddStats

\* Sealing a burst moves lines from the deque into one more full block.
LEMMA SealMovesLines ==
  ASSUME NEW b \in Seq(Line), sealed \in Seq(Seq(Line)), sealed_entries \in Nat,
         SealedFull
  PROVE  /\ DequeAfterSeal(b) \in Seq(Line)
         /\ SealedAfterSeal(b) \in Seq(Seq(Line))
         /\ EntriesAfterSeal(b) \in Nat
         /\ FullBlocks(SealedAfterSeal(b), EntriesAfterSeal(b))
         /\ Len(DequeAfterSeal(b)) + EntriesAfterSeal(b) = Len(b) + sealed_entries
<1>1. CASE ~Seals(b)
  BY <1>1 DEF DequeAfterSeal, SealedAfterSeal, EntriesAfterSeal, SealedFull
<1>2. CASE Seals(b)
  <2> DEFINE block == SubSeq(b, 1, BatchSize)
             rest  == SubSeq(b, BatchSize + 1, Len(b))
  <2>1. Len(b) \in Nat /\ Len(b) >= 2 * BatchSize /\ \A i \in 1 .. Len(b) : b[i] \in Line
    BY <1>2, LenProperties, ElementOfSeq DEF Seals
  <2>2. block \in Seq(Line) /\ Len(block) = BatchSize
    BY <2>1, BatchSizePositive, SubSeqProperties
  <2>3. rest \in Seq(Line) /\ Len(rest) = Len(b) - BatchSize
    BY <2>1, BatchSizePositive, SubSeqProperties
  <2>4. /\ Append(sealed, block) \in Seq(Seq(Line))
        /\ Len(Append(sealed, block)) = Len(sealed) + 1
        /\ \A i \in 1 .. Len(sealed) + 1 : Len(Append(sealed, block)[i]) = BatchSize
    <3> HIDE DEF block
    <3>1. Len(sealed) \in Nat /\ \A i \in 1 .. Len(sealed) : Len(sealed[i]) = BatchSize
      BY LenProperties DEF SealedFull, FullBlocks
    <3>2. /\ Append(sealed, block) \in Seq(Seq(Line))
          /\ Len(Append(sealed, block)) = Len(sealed) + 1
          /\ \A i \in 1 .. Len(sealed) : Append(sealed, block)[i] = sealed[i]
          /\ Append(sealed, block)[Len(sealed) + 1] = block
      BY <2>2, AppendProperties
    <3> QED
      BY <2>2, <3>1, <3>2
  <2>5. BatchSize * (Len(sealed) + 1) = BatchSize * Len(sealed) + BatchSize
    BY Blocks, BatchSizePositive, LenProperties
  <2>6. /\ DequeAfterSeal(b) = rest
        /\ SealedAfterSeal(b) = Append(sealed, block)
        /\ EntriesAfterSeal(b) = sealed_entries + BatchSize
    BY <1>2 DEF DequeAfterSeal, SealedAfterSeal, EntriesAfterSeal
  <2> HIDE DEF block, rest
  <2>7. sealed_entries = BatchSize * Len(sealed)
    BY DEF SealedFull, FullBlocks
  <2>8. FullBlocks(Append(sealed, block), sealed_entries + BatchSize)
    BY <2>4, <2>5, <2>7 DEF FullBlocks
  <2>9. /\ sealed_entries + BatchSize \in Nat
        /\ Len(rest) + (sealed_entries + BatchSize) = Len(b) + sealed_entries
    BY <2>1, <2>3, BatchSizePositive
  <2> QED
    BY <2>3, <2>4, <2>6, <2>8, <2>9
<1> QED
  BY <1>1, <1>2

\* Taking the oldest block off leaves full blocks, and a count that did not underflow.
LEMMA PopBlock ==
  ASSUME NEW s \in Seq(Seq(Line)), s # <<>>, NEW n \in Nat, FullBlocks(s, n)
  PROVE  /\ Head(s) \in Seq(Line) /\ Len(Head(s)) = BatchSize
         /\ Tail(s) \in Seq(Seq(Line))
         /\ n - BatchSize \in Nat
         /\ FullBlocks(Tail(s), n - BatchSize)
<1>1. /\ Head(s) \in Seq(Line) /\ Tail(s) \in Seq(Seq(Line))
      /\ Len(Tail(s)) = Len(s) - 1
      /\ \A i \in 1 .. Len(Tail(s)) : Tail(s)[i] = s[i + 1]
  BY HeadTailProperties
<1>2. Len(s) \in Nat /\ Len(s) >= 1
  BY EmptySeq
<1>3. Head(s) = s[1]
  BY <1>2
<1>4. Len(s) - 1 \in Nat /\ Len(s) = (Len(s) - 1) + 1
  BY <1>2
<1>5. /\ BatchSize * (Len(s) - 1) \in Nat
      /\ BatchSize * Len(s) = BatchSize * (Len(s) - 1) + BatchSize
  BY <1>4, Blocks, BatchSizePositive
<1>6. n - BatchSize = BatchSize * Len(Tail(s)) /\ n - BatchSize \in Nat
  BY <1>1, <1>5, BatchSizePositive DEF FullBlocks
<1>7. \A i \in 1 .. Len(s) : Len(s[i]) = BatchSize
  BY DEF FullBlocks
<1>8. Len(Head(s)) = BatchSize
  BY <1>2, <1>3, <1>7
<1>9. \A i \in 1 .. Len(Tail(s)) : Len(Tail(s)[i]) = BatchSize
  <2> SUFFICES ASSUME NEW i \in 1 .. Len(Tail(s)) PROVE Len(Tail(s)[i]) = BatchSize
    OBVIOUS
  <2>1. i + 1 \in 1 .. Len(s) /\ Tail(s)[i] = s[i + 1]
    BY <1>1, <1>2
  <2> QED
    BY <1>7, <2>1
<1> QED
  BY <1>1, <1>6, <1>8, <1>9 DEF FullBlocks

-----------------------------------------------------------------------------
(* Initially.                                                              *)

LEMMA InitIInv == Init => IInv
<1> SUFFICES ASSUME Init PROVE IInv
  OBVIOUS
<1> USE DEF Init, WatcherInit, ReaderInit, BatcherInit, PusherInit
<1>1. Idle \in PushTask
  BY ConfigAssumption, EmptySeq DEF Idle, PushTask
<1>2. <<>> \in Seq(Line) /\ <<>> \in Seq(Seq(Line))
  BY EmptySeq
<1>3. StdinTypeOK /\ SignalTypeOK
  <2>1. written \in 0 .. MaxSegments /\ taken \in 0 .. written
    BY EnvironmentAssumption
  <2>2. received \in Nat /\ takenAtForce \in Nat /\ watcherPc \in {"recv", "notify"}
    OBVIOUS
  <2>3. stdinOpen \in BOOLEAN /\ force_flag \in BOOLEAN /\ force_quit \in BOOLEAN
    OBVIOUS
  <2> QED
    BY <2>1, <2>2, <2>3 DEF StdinTypeOK, SignalTypeOK
<1>4. QueueTypeOK /\ ReaderTypeOK /\ BatcherTypeOK
  BY <1>2 DEF QueueTypeOK, ReaderTypeOK, BatcherTypeOK, ReaderPcs
<1> TypeOK
  BY <1>1, <1>3, <1>4 DEF TypeOK, PushTypeOK
<1>5. QueueLenExact /\ SealedFull /\ HoldsLine /\ RoomStays /\ QueueBounded
  BY BatchSizePositive, ConfigAssumption, EmptySeq
  DEF QueueLenExact, SealedFull, FullBlocks, HoldsLine, RoomStays, QueueBounded,
      BetweenAddAndSend
<1>6. BatchesCapped
  BY DEF BatchesCapped, Free, Idle
<1> QED
  BY <1>4, <1>5, <1>6 DEF IInv

-----------------------------------------------------------------------------
(* Steps that leave the queue and the push tasks alone.                    *)

\* Such a step keeps IInv if it keeps the types of what it changes and the two
\* parts of IInv that speak of the reader.
LEMMA QueueFrame ==
  ASSUME IInv,
         UNCHANGED <<queue_len, channel, batcherVars, pushVars>>,
         BetweenAddAndSend' = BetweenAddAndSend,
         StdinTypeOK', SignalTypeOK', QueueTypeOK', ReaderTypeOK',
         stats' \in [StatNames -> Nat],
         HoldsLine', RoomStays'
  PROVE  IInv'
<1>1. TypeOK'
  BY DEF IInv, TypeOK, BatcherTypeOK, PushTypeOK, batcherVars, pushVars
<1>2. (QueueLenExact /\ SealedFull /\ QueueBounded)'
  BY DEF IInv, QueueLenExact, SealedFull, FullBlocks, QueueBounded, batcherVars
<1>3. BatchesCapped'
  BY DEF IInv, BatchesCapped, Free, pushVars
<1> QED
  BY <1>1, <1>2, <1>3 DEF IInv

LEMMA StdinKeeps == IInv /\ StdinNext => IInv'
<1> SUFFICES ASSUME IInv, StdinNext PROVE IInv'
  OBVIOUS
<1> USE DEF stdinVars, watcherVars, forceVars, queueVars, channelVars, readerVars,
            batcherVars, pushVars
<1>1. StdinTypeOK'
  <2>1. CASE WriteSegment
    BY <2>1, EnvironmentAssumption DEF IInv, TypeOK, StdinTypeOK, WriteSegment
  <2>2. CASE CloseStdin
    BY <2>2 DEF IInv, TypeOK, StdinTypeOK, CloseStdin
  <2> QED
    BY <2>1, <2>2 DEF StdinNext
<1>2. UNCHANGED <<watcherVars, forceVars, queueVars, drain_deadline, channelVars,
                 stats, readerVars, batcherVars, pushVars>>
  BY DEF StdinNext, WriteSegment, CloseStdin
<1>3. (SignalTypeOK /\ QueueTypeOK /\ ReaderTypeOK /\ HoldsLine /\ RoomStays)'
  BY <1>2 DEF IInv, TypeOK, SignalTypeOK, QueueTypeOK, ReaderTypeOK, HoldsLine, RoomStays
<1> QED
  BY <1>1, <1>2, <1>3, QueueFrame DEF IInv, TypeOK, BetweenAddAndSend

LEMMA WatcherKeeps == IInv /\ WatcherNext => IInv'
<1> SUFFICES ASSUME IInv, WatcherNext PROVE IInv'
  OBVIOUS
<1> USE DEF stdinVars, watcherVars, forceVars, queueVars, channelVars, readerVars,
            batcherVars, pushVars
<1>1. SignalTypeOK'
  <2>1. CASE ReceiveSignal
    <3>1. received \in Nat /\ taken \in Nat /\ takenAtForce \in Nat /\ force_quit \in BOOLEAN
      BY DEF IInv, TypeOK, StdinTypeOK, SignalTypeOK
    <3>2. CASE FirstSignal
      BY <2>1, <3>1, <3>2 DEF IInv, TypeOK, SignalTypeOK, ReceiveSignal
    <3>3. CASE ~FirstSignal
      BY <2>1, <3>1, <3>3 DEF SignalTypeOK, ReceiveSignal
    <3> QED
      BY <3>2, <3>3
  <2>2. CASE NotifyForceQuit
    BY <2>2 DEF IInv, TypeOK, SignalTypeOK, NotifyForceQuit
  <2> QED
    BY <2>1, <2>2 DEF WatcherNext
<1>2. UNCHANGED <<stdinVars, queueVars, drain_deadline, channelVars, stats,
                 readerVars, batcherVars, pushVars>>
  BY DEF WatcherNext, ReceiveSignal, NotifyForceQuit
<1>3. (StdinTypeOK /\ QueueTypeOK /\ ReaderTypeOK /\ HoldsLine /\ RoomStays)'
  BY <1>2 DEF IInv, TypeOK, StdinTypeOK, QueueTypeOK, ReaderTypeOK, HoldsLine, RoomStays
<1> QED
  BY <1>1, <1>2, <1>3, QueueFrame DEF IInv, TypeOK, BetweenAddAndSend

\* The steps of main other than enqueueing.
ReaderBeside == ReaderNext /\ ~CountQueued /\ ~SendToBatcher

LEMMA ReaderBesideKeeps == IInv /\ ReaderBeside => IInv'
<1> SUFFICES ASSUME IInv, ReaderBeside PROVE IInv'
  OBVIOUS
<1> USE DEF stdinVars, watcherVars, forceVars, queueVars, channelVars, readerVars,
            batcherVars, pushVars, Break
<1> DEFINE Touched == /\ StdinTypeOK /\ SignalTypeOK /\ QueueTypeOK /\ ReaderTypeOK
                      /\ HoldsLine /\ RoomStays
           Kept == /\ UNCHANGED <<queue_len, channel, batcherVars, pushVars>>
                   /\ BetweenAddAndSend' = BetweenAddAndSend
<1> USE DEF IInv, TypeOK, StdinTypeOK, SignalTypeOK, QueueTypeOK, ReaderTypeOK,
            ReaderPcs, HoldsLine, RoomStays, BetweenAddAndSend
<1>1. CASE CheckForceFlag
  <2>1. Kept /\ stats' \in [StatNames -> Nat]
    BY <1>1 DEF CheckForceFlag
  <2>2. Touched'
    BY <1>1 DEF CheckForceFlag
  <2> QED
    BY <2>1, <2>2, QueueFrame
<1>2. CASE ReadSegment
  <2>1. PICK kind \in SegmentKinds :
          AddStats([read_lines   |-> IF kind = "empty" THEN 0 ELSE 1,
                    parse_errors |-> IF kind = "bad" THEN 1 ELSE 0])
    BY <1>2 DEF ReadSegment
  <2>2. stats' \in [StatNames -> Nat]
    BY <2>1, AddStatsType
  <2>3. Kept /\ Touched'
    BY <1>2, EnvironmentAssumption DEF ReadSegment, Line
  <2> QED
    BY <2>2, <2>3, QueueFrame
<1>3. CASE ReadEof \/ ReadError
  <2>1. Kept /\ stats' \in [StatNames -> Nat]
    BY <1>3 DEF ReadEof, ReadError
  <2>2. Touched'
    BY <1>3 DEF ReadEof, ReadError
  <2> QED
    BY <2>1, <2>2, QueueFrame
<1>4. CASE ForcedWhileReading
  <2>1. Kept /\ stats' \in [StatNames -> Nat]
    BY <1>4 DEF ForcedWhileReading
  <2>2. Touched'
    BY <1>4 DEF ForcedWhileReading
  <2> QED
    BY <2>1, <2>2, QueueFrame
<1>5. CASE NewestCheck
  <2>1. stats' \in [StatNames -> Nat]
    BY <1>5, AddStatsType DEF NewestCheck
  <2>2. Kept /\ Touched'
    BY <1>5 DEF NewestCheck, Room
  <2> QED
    BY <2>1, <2>2, QueueFrame
<1>6. CASE BlockCheck
  <2>1. Kept /\ stats' \in [StatNames -> Nat]
    BY <1>6 DEF BlockCheck, Room
  <2>2. Touched'
    BY <1>6 DEF BlockCheck, Room
  <2> QED
    BY <2>1, <2>2, QueueFrame
<1>7. CASE BlockRegister
  <2>1. Kept /\ stats' \in [StatNames -> Nat]
    BY <1>7 DEF BlockRegister
  <2>2. Touched'
    BY <1>7 DEF BlockRegister
  <2> QED
    BY <2>1, <2>2, QueueFrame
<1>8. CASE BlockRecheck
  <2>1. Kept /\ stats' \in [StatNames -> Nat]
    BY <1>8 DEF BlockRecheck, Room
  <2>2. Touched'
    BY <1>8 DEF BlockRecheck, Room
  <2> QED
    BY <2>1, <2>2, QueueFrame
<1>9. CASE BlockWoken
  <2>1. Kept /\ stats' \in [StatNames -> Nat]
    BY <1>9 DEF BlockWoken
  <2>2. Touched'
    BY <1>9 DEF BlockWoken
  <2> QED
    BY <2>1, <2>2, QueueFrame
<1>10. CASE BlockForced
  <2>1. stats' \in [StatNames -> Nat]
    BY <1>10, AddStatsType DEF BlockForced
  <2>2. Kept /\ Touched'
    BY <1>10 DEF BlockForced
  <2> QED
    BY <2>1, <2>2, QueueFrame
<1>11. CASE ArmDrainDeadline
  <2>1. Kept /\ stats' \in [StatNames -> Nat]
    BY <1>11 DEF ArmDrainDeadline
  <2>2. Touched'
    BY <1>11 DEF ArmDrainDeadline
  <2> QED
    BY <2>1, <2>2, QueueFrame
<1>12. CASE DropSender
  <2>1. Kept /\ stats' \in [StatNames -> Nat]
    BY <1>12 DEF DropSender
  <2>2. Touched'
    BY <1>12 DEF DropSender
  <2> QED
    BY <2>1, <2>2, QueueFrame
<1>13. CASE PrintFinalStats
  <2>1. Kept /\ stats' \in [StatNames -> Nat]
    BY <1>13 DEF PrintFinalStats
  <2>2. Touched'
    BY <1>13 DEF PrintFinalStats
  <2> QED
    BY <2>1, <2>2, QueueFrame
<1> QED
  BY <1>1, <1>2, <1>3, <1>4, <1>5, <1>6, <1>7, <1>8, <1>9, <1>10, <1>11, <1>12,
     <1>13
  DEF ReaderBeside, ReaderNext, ReaderProgress

-----------------------------------------------------------------------------
(* Enqueueing.                                                             *)

LEMMA CountQueuedKeeps == IInv /\ CountQueued => IInv'
<1> SUFFICES ASSUME IInv, CountQueued PROVE IInv'
  OBVIOUS
<1> USE DEF stdinVars, watcherVars, forceVars, queueVars, channelVars, readerVars,
            batcherVars, pushVars, CountQueued
<1>1. TypeOK'
  BY DEF IInv, TypeOK, StdinTypeOK, SignalTypeOK, QueueTypeOK, ReaderTypeOK, ReaderPcs,
         BatcherTypeOK, PushTypeOK
<1>2. queue_len \in Nat /\ QueueCap \in Nat /\ Len(channel) \in Nat /\ Len(deque) \in Nat
      /\ sealed_entries \in Nat
  BY ConfigAssumption, LenProperties DEF IInv, TypeOK, QueueTypeOK, BatcherTypeOK
<1>3. QueueLenExact'
  BY <1>2 DEF IInv, QueueLenExact, BetweenAddAndSend
<1>4. (SealedFull /\ HoldsLine /\ RoomStays)'
  BY DEF IInv, SealedFull, FullBlocks, HoldsLine, RoomStays
<1>5. QueueBounded'
  BY <1>2 DEF IInv, QueueBounded, RoomStays
<1>6. BatchesCapped'
  BY DEF IInv, BatchesCapped, Free
<1> QED
  BY <1>1, <1>3, <1>4, <1>5, <1>6 DEF IInv

LEMMA SendToBatcherKeeps == IInv /\ SendToBatcher => IInv'
<1> SUFFICES ASSUME IInv, SendToBatcher PROVE IInv'
  OBVIOUS
<1> USE DEF stdinVars, watcherVars, forceVars, queueVars, channelVars, readerVars,
            batcherVars, pushVars, SendToBatcher
<1>1. held \in Line /\ channel \in Seq(Line)
  BY DEF IInv, HoldsLine, TypeOK, QueueTypeOK
<1>2. channel' \in Seq(Line) /\ Len(channel') = Len(channel) + 1
  BY <1>1, AppendProperties
<1>3. TypeOK'
  BY <1>2 DEF IInv, TypeOK, StdinTypeOK, SignalTypeOK, QueueTypeOK, ReaderTypeOK,
              ReaderPcs, BatcherTypeOK, PushTypeOK
<1>4. Len(channel) \in Nat /\ Len(deque) \in Nat /\ sealed_entries \in Nat
  BY LenProperties DEF IInv, TypeOK, QueueTypeOK, BatcherTypeOK
<1>5. QueueLenExact'
  BY <1>2, <1>4 DEF IInv, QueueLenExact, BetweenAddAndSend
<1>6. (SealedFull /\ HoldsLine /\ RoomStays /\ QueueBounded)'
  BY DEF IInv, SealedFull, FullBlocks, HoldsLine, RoomStays, QueueBounded
<1>7. BatchesCapped'
  BY DEF IInv, BatchesCapped, Free
<1> QED
  BY <1>3, <1>5, <1>6, <1>7 DEF IInv

-----------------------------------------------------------------------------
(* The batcher.                                                            *)

LEMMA ReceiveLogKeeps == IInv /\ ReceiveLog => IInv'
<1> SUFFICES ASSUME IInv, ReceiveLog PROVE IInv'
  OBVIOUS
<1> DEFINE b       == Append(deque, Head(channel))
           d       == DequeAfterSeal(b)
           blocks  == SealedAfterSeal(b)
           entries == EntriesAfterSeal(b)
           Evicted == Overfull(d, entries) /\ EvictOldest(d, blocks, entries)
           Quiet   == /\ ~Overfull(d, entries)
                      /\ deque' = d /\ sealed' = blocks /\ sealed_entries' = entries
                      /\ UNCHANGED <<queueVars, stats>>
<1>1. /\ channel # <<>> /\ channel' = Tail(channel)
      /\ UNCHANGED <<stdinVars, watcherVars, forceVars, drain_deadline, txOpen,
                     readerVars, batcherPc, open, interval_due, pushVars>>
  BY DEF ReceiveLog
<1>2. (Evicted /\ NotifyWaiters) \/ Quiet
  BY DEF ReceiveLog
<1>3. /\ queue_len \in Nat /\ channel \in Seq(Line) /\ deque \in Seq(Line)
      /\ sealed \in Seq(Seq(Line)) /\ sealed_entries \in Nat
      /\ stats \in [StatNames -> Nat]
      /\ Len(channel) \in Nat /\ Len(deque) \in Nat
  BY LenProperties DEF IInv, TypeOK, QueueTypeOK, BatcherTypeOK
<1>4. /\ channel' \in Seq(Line) /\ Len(channel') \in Nat
      /\ Len(channel) = Len(channel') + 1
      /\ Head(channel) \in Line
  BY <1>1, <1>3, HeadTailProperties, LenProperties
<1>5. b \in Seq(Line) /\ Len(b) = Len(deque) + 1
  BY <1>3, <1>4, AppendProperties
<1>6. /\ d \in Seq(Line) /\ blocks \in Seq(Seq(Line)) /\ entries \in Nat
      /\ Len(d) \in Nat
      /\ FullBlocks(blocks, entries)
      /\ Len(d) + entries = Len(deque) + 1 + sealed_entries
  BY <1>3, <1>5, SealMovesLines, LenProperties DEF IInv
<1> HIDE DEF b, d, blocks, entries

\* What the step does to the lengths, whichever branch it takes.
<1>7. /\ deque' \in Seq(Line) /\ sealed' \in Seq(Seq(Line)) /\ sealed_entries' \in Nat
      /\ SealedFull'
      /\ Len(deque') \in Nat
      /\ stats' \in [StatNames -> Nat]
      /\ \E n \in Nat :
            /\ queue_len' = queue_len - n
            /\ Len(deque') + sealed_entries' + n = Len(deque) + 1 + sealed_entries
            /\ Evicted => n >= 1
  <2>1. CASE Quiet
    <3>1. Len(deque') + sealed_entries' + 0 = Len(deque) + 1 + sealed_entries
      BY <2>1, <1>6
    <3>2. queue_len' = queue_len - 0 /\ UNCHANGED stats
      BY <2>1, <1>3 DEF queueVars
    <3>3. SealedFull'
      BY <2>1, <1>6 DEF SealedFull, FullBlocks
    <3>4. ~Evicted
      BY <2>1
    <3> HIDE DEF Evicted, Quiet
    <3> QED
      BY <2>1, <3>1, <3>2, <3>3, <3>4, <1>3, <1>6 DEF Quiet
  <2>2. CASE Evicted
    <3>1. CASE blocks # <<>>
      <4>1. /\ Head(blocks) \in Seq(Line) /\ Len(Head(blocks)) = BatchSize
            /\ Tail(blocks) \in Seq(Seq(Line))
            /\ entries - BatchSize \in Nat
            /\ FullBlocks(Tail(blocks), entries - BatchSize)
        BY <3>1, <1>6, PopBlock
      <4>2. /\ sealed' = Tail(blocks) /\ sealed_entries' = entries - BatchSize
            /\ deque' = d
            /\ queue_len' = queue_len - BatchSize
            /\ AddStats([entries_dropped_queue |-> BatchSize])
        BY <2>2, <3>1, <4>1 DEF EvictOldest, CountEvicted
      <4>3. stats' \in [StatNames -> Nat]
        BY <4>2, <1>3, AddStatsType, BatchSizePositive
      <4>4. SealedFull'
        BY <4>1, <4>2 DEF SealedFull, FullBlocks
      <4>5. Len(deque') + sealed_entries' + BatchSize = Len(deque) + 1 + sealed_entries
        BY <4>2, <1>6, BatchSizePositive
      <4> QED
        BY <4>1, <4>2, <4>3, <4>4, <4>5, <1>6, BatchSizePositive
    <3>2. CASE blocks = <<>>
      <4>0. AddStats([entries_dropped_queue |-> 1])
        BY <2>2, <3>2 DEF EvictOldest, CountEvicted
      <4>1. /\ d # <<>> /\ deque' = Tail(d) /\ sealed' = blocks /\ sealed_entries' = entries
            /\ queue_len' = queue_len - 1
        BY <2>2, <3>2 DEF EvictOldest, CountEvicted
      <4>2. deque' \in Seq(Line) /\ Len(deque') = Len(d) - 1 /\ Len(deque') \in Nat
        BY <4>1, <1>6, HeadTailProperties, LenProperties
      <4>3. stats' \in [StatNames -> Nat]
        BY <4>0, <1>3, AddStatsType
      <4>4. SealedFull'
        BY <4>1, <1>6 DEF SealedFull, FullBlocks
      <4>5. Len(deque') + sealed_entries' + 1 = Len(deque) + 1 + sealed_entries
        BY <4>1, <4>2, <1>6
      <4>6. 1 \in Nat /\ 1 >= 1 /\ queue_len' = queue_len - 1
        BY <4>1
      <4>7. sealed' \in Seq(Seq(Line)) /\ sealed_entries' \in Nat
        BY <4>1, <1>6
      <4> QED
        BY <4>2, <4>3, <4>4, <4>5, <4>6, <4>7
    <3> QED
      BY <3>1, <3>2
  <2> QED
    BY <1>2, <2>1, <2>2
<1>8. PICK n \in Nat :
        /\ queue_len' = queue_len - n
        /\ Len(deque') + sealed_entries' + n = Len(deque) + 1 + sealed_entries
        /\ Evicted => n >= 1
  BY <1>7
<1>9. BetweenAddAndSend \in Nat /\ BetweenAddAndSend' = BetweenAddAndSend
  BY <1>1 DEF BetweenAddAndSend, readerVars
<1>10. QueueLenExact' /\ queue_len' \in Nat
  <2>1. queue_len = BetweenAddAndSend + Len(channel) + Len(deque) + sealed_entries
    BY DEF IInv, QueueLenExact
  <2>2. Len(deque') \in Nat /\ sealed_entries' \in Nat
    BY <1>7
  <2>3. /\ queue_len' = queue_len - n
        /\ Len(deque') + sealed_entries' + n = Len(deque) + 1 + sealed_entries
    BY <1>8
  <2>4. queue_len' = BetweenAddAndSend' + Len(channel') + Len(deque') + sealed_entries'
    <3>1. PICK k \in Nat, c \in Nat, c2 \in Nat :
            k = BetweenAddAndSend /\ c = Len(channel) /\ c2 = Len(channel')
      BY <1>3, <1>4, <1>9
    <3>2. PICK l \in Nat, l2 \in Nat, e \in Nat, e2 \in Nat :
            /\ l = Len(deque) /\ l2 = Len(deque')
            /\ e = sealed_entries /\ e2 = sealed_entries'
      BY <1>3, <2>2
    <3>3. queue_len = k + c + l + e /\ l2 + e2 + n = l + 1 + e
      BY <2>1, <2>3, <3>1, <3>2
    <3>4. c = c2 + 1
      BY <1>4, <3>1
    <3>5. queue_len - n = k + c2 + l2 + e2
      BY <3>3, <3>4
    <3> QED
      BY <2>3, <1>9, <3>1, <3>2, <3>5
  <2> QED
    BY <2>2, <2>4, <1>4, <1>9 DEF QueueLenExact
<1>11. waiter' \in {"none", "waiting", "woken"}
  BY <1>2 DEF IInv, TypeOK, QueueTypeOK, NotifyWaiters, queueVars
<1>12. TypeOK'
  BY <1>1, <1>4, <1>7, <1>10, <1>11
  DEF IInv, TypeOK, StdinTypeOK, SignalTypeOK, QueueTypeOK, ReaderTypeOK, BatcherTypeOK,
      PushTypeOK, stdinVars, watcherVars, forceVars, readerVars, pushVars
<1>13. HoldsLine' /\ BatchesCapped'
  BY <1>1 DEF IInv, HoldsLine, BatchesCapped, Free, readerVars, pushVars
<1>14. RoomStays'
  BY <1>1, <1>3, <1>8, ConfigAssumption DEF IInv, RoomStays, readerVars
<1>15. QueueBounded'
  <2>1. QueueCap \in Nat
    BY ConfigAssumption
  <2>2. CASE DropPolicy # "oldest"
    BY <2>1, <2>2, <1>3, <1>8 DEF IInv, QueueBounded
  <2>3. CASE DropPolicy = "oldest"
    <3>1. Len(deque) + sealed_entries <= QueueCap
      BY <2>3 DEF IInv, QueueBounded
    <3>2. CASE Evicted
      BY <2>1, <2>3, <3>1, <3>2, <1>3, <1>7, <1>8 DEF QueueBounded
    <3>3. CASE Quiet
      BY <2>1, <2>3, <3>3, <1>6 DEF QueueBounded, Overfull
    <3> QED
      BY <1>2, <3>2, <3>3
  <2> QED
    BY <2>2, <2>3
<1> QED
  BY <1>7, <1>10, <1>12, <1>13, <1>14, <1>15 DEF IInv

\* The batcher's steps that move no line.
BatcherBeside == ChannelClosed \/ Tick \/ LeaveLoop \/ DrainComplete \/ DrainTimeout

LEMMA BatcherBesideKeeps == IInv /\ BatcherBeside => IInv'
<1> SUFFICES ASSUME IInv, BatcherBeside PROVE IInv'
  OBVIOUS
<1>1. UNCHANGED <<stdinVars, watcherVars, forceVars, queueVars, drain_deadline,
                 channelVars, stats, readerVars, deque, sealed, sealed_entries, pushVars>>
  BY DEF BatcherBeside, ChannelClosed, Tick, LeaveLoop, DrainComplete, DrainTimeout
<1>2. BatcherTypeOK'
  <2> USE DEF IInv, TypeOK, BatcherTypeOK
  <2>1. CASE ChannelClosed
    BY <2>1 DEF ChannelClosed
  <2>2. CASE Tick
    BY <2>2 DEF Tick
  <2>3. CASE LeaveLoop
    BY <2>3 DEF LeaveLoop
  <2>4. CASE DrainComplete \/ DrainTimeout
    BY <2>4 DEF DrainComplete, DrainTimeout
  <2> QED
    BY <2>1, <2>2, <2>3, <2>4 DEF BatcherBeside
<1> USE DEF stdinVars, watcherVars, forceVars, queueVars, channelVars, readerVars, pushVars
<1>3. TypeOK'
  BY <1>1, <1>2 DEF IInv, TypeOK, StdinTypeOK, SignalTypeOK, QueueTypeOK, ReaderTypeOK,
                    PushTypeOK
<1>4. (QueueLenExact /\ SealedFull /\ HoldsLine /\ RoomStays /\ QueueBounded)'
  BY <1>1 DEF IInv, QueueLenExact, BetweenAddAndSend, SealedFull, FullBlocks, HoldsLine,
              RoomStays, QueueBounded
<1>5. BatchesCapped'
  BY <1>1 DEF IInv, BatchesCapped, Free
<1> QED
  BY <1>3, <1>4, <1>5 DEF IInv

LEMMA AcquirePermitKeeps ==
  ASSUME IInv, NEW p \in Permits, AcquirePermit(p)
  PROVE  IInv'
<1>1. /\ queue_len \in Nat /\ channel \in Seq(Line) /\ deque \in Seq(Line)
      /\ sealed \in Seq(Seq(Line)) /\ sealed_entries \in Nat
      /\ Len(channel) \in Nat /\ Len(deque) \in Nat
      /\ push \in [Permits -> PushTask]
  BY LenProperties DEF IInv, TypeOK, QueueTypeOK, BatcherTypeOK, PushTypeOK
<1>2. /\ UNCHANGED <<stdinVars, watcherVars, forceVars, waiter, drain_deadline,
                     channelVars, stats, readerVars, open, ingested>>
      /\ batcherPc' = "dispatch"
      /\ push' = [push EXCEPT ![p] = [pc |-> "handed", batch |-> NextBatch,
                                      attempt |-> 0, status |-> 0]]
      /\ queue_len' = queue_len - Len(NextBatch)
  BY DEF AcquirePermit
<1>3. interval_due' \in BOOLEAN
  BY DEF AcquirePermit

\* The batch that leaves is not empty, not too long, and counted off what stays.
<1>4. /\ deque' \in Seq(Line) /\ sealed' \in Seq(Seq(Line)) /\ sealed_entries' \in Nat
      /\ Len(deque') \in Nat
      /\ SealedFull'
      /\ NextBatch \in Seq(Line) /\ Len(NextBatch) \in 1 .. BatchSize
      /\ Len(deque') + sealed_entries' + Len(NextBatch) = Len(deque) + sealed_entries
  <2>1. CASE sealed # <<>>
    <3>1. /\ NextBatch = Head(sealed) /\ deque' = deque /\ sealed' = Tail(sealed)
          /\ sealed_entries' = sealed_entries - Len(Head(sealed))
      BY <2>1 DEF AcquirePermit, NextBatch, DequeAfterBatch, SealedAfterBatch
    <3>2. /\ Head(sealed) \in Seq(Line) /\ Len(Head(sealed)) = BatchSize
          /\ Tail(sealed) \in Seq(Seq(Line))
          /\ sealed_entries - BatchSize \in Nat
          /\ FullBlocks(Tail(sealed), sealed_entries - BatchSize)
      BY <2>1, <1>1, PopBlock DEF IInv, SealedFull
    <3>3. SealedFull'
      BY <3>1, <3>2 DEF SealedFull, FullBlocks
    <3> QED
      BY <3>1, <3>2, <3>3, <1>1, BatchSizePositive
  <2>2. CASE sealed = <<>>
    <3>1. /\ NextBatch = SubSeq(deque, 1, Take)
          /\ deque' = SubSeq(deque, Take + 1, Len(deque))
          /\ sealed' = sealed /\ sealed_entries' = sealed_entries
      BY <2>2 DEF AcquirePermit, NextBatch, DequeAfterBatch, SealedAfterBatch
    <3>2. deque # <<>>
      BY <2>2 DEF AcquirePermit, BatchReady
    <3>3. Len(deque) >= 1
      BY <3>2, <1>1, EmptySeq
    <3>4. Take \in 1 .. BatchSize /\ Take <= Len(deque)
      BY <3>3, <1>1, BatchSizePositive DEF Take
    <3>5. \A i \in 1 .. Len(deque) : deque[i] \in Line
      BY <1>1, ElementOfSeq
    <3>6. NextBatch \in Seq(Line) /\ Len(NextBatch) = Take
      BY <3>1, <3>4, <3>5, <1>1, BatchSizePositive, SubSeqProperties
    <3>7. deque' \in Seq(Line) /\ Len(deque') = Len(deque) - Take
      BY <3>1, <3>4, <3>5, <1>1, BatchSizePositive, SubSeqProperties
    <3>8. SealedFull'
      BY <3>1 DEF IInv, SealedFull, FullBlocks
    <3>9. Len(deque') \in Nat
      BY <3>7, LenProperties
    <3>10. Len(deque') + sealed_entries' + Len(NextBatch) = Len(deque) + sealed_entries
      <4>1. PICK t \in Nat, l \in Nat, e \in Nat :
              t = Take /\ l = Len(deque) /\ e = sealed_entries
        BY <3>4, <1>1, BatchSizePositive
      <4>2. Len(deque') = l - t /\ Len(NextBatch) = t /\ sealed_entries' = e
        BY <4>1, <3>1, <3>6, <3>7
      <4>3. (l - t) + e + t = l + e
        OBVIOUS
      <4> QED
        BY <4>1, <4>2, <4>3
    <3> QED
      BY <3>1, <3>4, <3>6, <3>7, <3>8, <3>9, <3>10, <1>1
  <2> QED
    BY <2>1, <2>2
<1>5. PICK n \in Nat : n = Len(NextBatch) /\ n >= 1
  BY <1>4, BatchSizePositive
<1>6. queue_len' \in Nat /\ QueueLenExact'
  <2>1. PICK k \in Nat, c \in Nat, l \in Nat, l2 \in Nat, e \in Nat, e2 \in Nat :
          /\ k = BetweenAddAndSend /\ c = Len(channel)
          /\ l = Len(deque) /\ l2 = Len(deque')
          /\ e = sealed_entries /\ e2 = sealed_entries'
    BY <1>1, <1>4 DEF BetweenAddAndSend
  <2>2. queue_len = k + c + l + e /\ l2 + e2 + n = l + e
    BY <2>1, <1>4, <1>5 DEF IInv, QueueLenExact
  <2>3. queue_len - n = k + c + l2 + e2
    BY <2>2
  <2>4. queue_len' = k + c + l2 + e2
    BY <2>3, <1>2, <1>5
  <2>5. k = BetweenAddAndSend' /\ c = Len(channel')
    BY <2>1, <1>2 DEF BetweenAddAndSend, readerVars, channelVars
  <2> QED
    BY <2>1, <2>4, <2>5 DEF QueueLenExact
<1>7. push' \in [Permits -> PushTask]
  <2>1. [pc |-> "handed", batch |-> NextBatch, attempt |-> 0, status |-> 0] \in PushTask
    BY <1>4, ConfigAssumption DEF PushTask
  <2> QED
    BY <2>1, <1>1, <1>2
<1>8. BatchesCapped'
  <2> SUFFICES ASSUME NEW q \in Permits, push'[q].pc # "idle"
               PROVE  Len(push'[q].batch) \in 1 .. BatchSize
    BY DEF BatchesCapped, Free
  <2>1. CASE q = p
    BY <2>1, <1>1, <1>2, <1>4
  <2>2. CASE q # p
    BY <2>2, <1>1, <1>2 DEF IInv, BatchesCapped, Free
  <2> QED
    BY <2>1, <2>2
<1>9. TypeOK'
  BY <1>2, <1>3, <1>4, <1>6, <1>7
  DEF IInv, TypeOK, StdinTypeOK, SignalTypeOK, QueueTypeOK, ReaderTypeOK, BatcherTypeOK,
      PushTypeOK, stdinVars, watcherVars, forceVars, channelVars, readerVars
<1>10. HoldsLine'
  BY <1>2 DEF IInv, HoldsLine, readerVars
<1>11. QueueCap \in Nat
  BY ConfigAssumption
<1>12. RoomStays' /\ (DropPolicy \in {"newest", "block"} => queue_len' <= QueueCap)
  BY <1>1, <1>2, <1>5, <1>11 DEF IInv, RoomStays, QueueBounded, readerVars
<1>13. DropPolicy = "oldest" => Len(deque') + sealed_entries' <= QueueCap
  BY <1>1, <1>4, <1>5, <1>11 DEF IInv, QueueBounded
<1> QED
  BY <1>4, <1>6, <1>8, <1>9, <1>10, <1>12, <1>13 DEF IInv, QueueBounded

LEMMA DispatchKeeps ==
  ASSUME IInv, NEW p \in Permits, Dispatch(p)
  PROVE  IInv'
<1> USE DEF stdinVars, watcherVars, forceVars, channelVars, readerVars
<1>1. push \in [Permits -> PushTask]
  BY DEF IInv, TypeOK, PushTypeOK
<1>2. push' \in [Permits -> PushTask] /\ BatchesCapped'
  BY <1>1 DEF IInv, Dispatch, BatchesCapped, Free, PushTask
<1>3. TypeOK'
  BY <1>2 DEF IInv, TypeOK, StdinTypeOK, SignalTypeOK, QueueTypeOK, ReaderTypeOK,
              BatcherTypeOK, PushTypeOK, Dispatch, NotifyWaiters
<1>4. (QueueLenExact /\ SealedFull /\ HoldsLine /\ RoomStays /\ QueueBounded)'
  BY DEF IInv, Dispatch, QueueLenExact, BetweenAddAndSend, SealedFull, FullBlocks,
         HoldsLine, RoomStays, QueueBounded
<1> QED
  BY <1>2, <1>3, <1>4 DEF IInv

-----------------------------------------------------------------------------
(* The push tasks.                                                         *)

LEMMA IngestedType ==
  ASSUME NEW p \in Permits, ingested \in [Line -> Nat], NEW choices, LokiActs(p, choices)
  PROVE  ingested' \in [Line -> Nat]
<1>1. CASE Ingest(p)
  <2>1. ingested' = [l \in Line |-> IF \E i \in DOMAIN push[p].batch : push[p].batch[i] = l
                                    THEN ingested[l] + 1 ELSE ingested[l]]
    BY <1>1 DEF Ingest
  <2> SUFFICES ASSUME NEW l \in Line PROVE ingested'[l] \in Nat
    BY <2>1
  <2>2. ingested'[l] \in {ingested[l] + 1, ingested[l]}
    BY <2>1
  <2> QED
    BY <2>2
<1>2. CASE UNCHANGED ingested
  BY <1>2
<1> QED
  BY <1>1, <1>2 DEF LokiActs

\* A finished push, whether its batch was delivered or dropped.
LEMMA FinishKeeps ==
  ASSUME IInv, NEW p \in Permits, Finish(p)
  PROVE  push' \in [Permits -> PushTask] /\ BatchesCapped'
<1>1. Idle \in PushTask
  BY ConfigAssumption, EmptySeq DEF Idle, PushTask
<1> QED
  BY <1>1 DEF IInv, TypeOK, PushTypeOK, Finish, BatchesCapped, Free, Idle

LEMMA DropBatchKeeps ==
  ASSUME IInv, NEW p \in Permits, drop_batch(p)
  PROVE  /\ push' \in [Permits -> PushTask] /\ BatchesCapped'
         /\ stats' \in [StatNames -> Nat]
<1>1. Len(push[p].batch) \in Nat /\ stats \in [StatNames -> Nat]
  BY LenProperties DEF IInv, TypeOK, PushTypeOK, PushTask
<1>2. stats' \in [StatNames -> Nat]
  BY <1>1, AddStatsType DEF drop_batch
<1> QED
  BY <1>2, FinishKeeps DEF drop_batch

\* A task that moves on keeps its batch.
LEMMA MoveKeeps ==
  ASSUME IInv, NEW p \in Permits, ~Free(p), NEW t \in PushTask, t.batch = push[p].batch,
         push' = [push EXCEPT ![p] = t]
  PROVE  push' \in [Permits -> PushTask] /\ BatchesCapped'
BY DEF IInv, TypeOK, PushTypeOK, BatchesCapped, Free

LEMMA RetryOrDropKeeps ==
  ASSUME IInv, NEW p \in Permits, ~Free(p), RetryOrDrop(p)
  PROVE  /\ push' \in [Permits -> PushTask] /\ BatchesCapped'
         /\ stats' \in [StatNames -> Nat]
<1>1. CASE drop_batch(p)
  BY <1>1, DropBatchKeeps
<1>2. CASE ~drop_batch(p)
  <2> DEFINE t == [pc |-> "backoff", batch |-> push[p].batch,
                   attempt |-> push[p].attempt + 1, status |-> 0]
  <2>1. /\ RetriesLeft(p)
        /\ AddStats([retries |-> 1])
        /\ push' = [push EXCEPT ![p] = t]
    BY <1>2 DEF RetryOrDrop
  <2>2. push[p] \in PushTask /\ stats \in [StatNames -> Nat]
    BY DEF IInv, TypeOK, PushTypeOK
  <2>3. push[p].attempt + 1 \in 0 .. MaxRetries
    BY <2>1, <2>2, ConfigAssumption DEF RetriesLeft, PushTask
  <2>4. t \in PushTask /\ t.batch = push[p].batch
    BY <2>2, <2>3 DEF PushTask
  <2> HIDE DEF t
  <2>5. push' \in [Permits -> PushTask] /\ BatchesCapped'
    BY <2>1, <2>4, MoveKeeps
  <2>6. stats' \in [StatNames -> Nat]
    BY <2>1, <2>2, AddStatsType
  <2> QED
    BY <2>5, <2>6
<1> QED
  BY <1>1, <1>2

LEMMA PushStepKeeps ==
  ASSUME IInv, NEW p \in Permits, PushStep(p)
  PROVE  IInv'
<1>1. /\ push \in [Permits -> PushTask] /\ push[p] \in PushTask
      /\ ingested \in [Line -> Nat] /\ stats \in [StatNames -> Nat]
      /\ Len(push[p].batch) \in Nat
  BY LenProperties DEF IInv, TypeOK, PushTypeOK, PushTask
<1>2. PushUnchanged
  BY DEF PushStep, StartAttempt, Delivered, StatusReceived, BodyRead, TransportError,
         SleepElapsed, DeadlineCancels
<1>3. /\ push' \in [Permits -> PushTask] /\ BatchesCapped'
      /\ stats' \in [StatNames -> Nat] /\ ingested' \in [Line -> Nat]
  <2>1. CASE StartAttempt(p)
    <3>1. CASE PastDrainDeadline
      BY <2>1, <3>1, <1>1, DropBatchKeeps DEF StartAttempt
    <3>2. CASE ~PastDrainDeadline
      <4>1. /\ push' = [push EXCEPT ![p] = [push[p] EXCEPT !.pc = "sending"]]
            /\ UNCHANGED <<stats, ingested>> /\ ~Free(p)
        BY <2>1, <3>2 DEF StartAttempt, Free
      <4>2. /\ [push[p] EXCEPT !.pc = "sending"] \in PushTask
            /\ [push[p] EXCEPT !.pc = "sending"].batch = push[p].batch
        BY <1>1 DEF PushTask
      <4> QED
        BY <4>1, <4>2, <1>1, MoveKeeps
    <3> QED
      BY <3>1, <3>2
  <2>2. CASE Delivered(p)
    <3>1. AddStats([batches_sent |-> 1, entries_delivered |-> Len(push[p].batch)])
      BY <2>2 DEF Delivered
    <3>2. stats' \in [StatNames -> Nat]
      BY <3>1, <1>1, AddStatsType
    <3>3. ingested' \in [Line -> Nat]
      BY <2>2, <1>1, IngestedType DEF Delivered
    <3> QED
      BY <2>2, <3>2, <3>3, FinishKeeps DEF Delivered
  <2>3. CASE StatusReceived(p)
    <3>1. PICK status \in Statuses :
            /\ push' = [push EXCEPT ![p] = [@ EXCEPT !.pc = "reading", !.status = status]]
            /\ LokiActs(p, LokiStores(status))
      BY <2>3 DEF StatusReceived
    <3> DEFINE t == [push[p] EXCEPT !.pc = "reading", !.status = status]
    <3>2. push' = [push EXCEPT ![p] = t] /\ ~Free(p)
      BY <2>3, <3>1 DEF StatusReceived, Free
    <3>3. t \in PushTask /\ t.batch = push[p].batch
      BY <1>1 DEF PushTask
    <3>4. ingested' \in [Line -> Nat]
      BY <3>1, <1>1, IngestedType
    <3> HIDE DEF t
    <3>5. push' \in [Permits -> PushTask] /\ BatchesCapped'
      BY <3>2, <3>3, MoveKeeps
    <3> QED
      BY <2>3, <3>4, <3>5, <1>1 DEF StatusReceived
  <2>4. CASE BodyRead(p)
    <3>1. UNCHANGED ingested /\ ~Free(p) /\ (drop_batch(p) \/ RetryOrDrop(p))
      BY <2>4 DEF BodyRead, Free
    <3> QED
      BY <3>1, <1>1, DropBatchKeeps, RetryOrDropKeeps
  <2>5. CASE TransportError(p)
    <3>1. ~Free(p) /\ RetryOrDrop(p) /\ LokiActs(p, NoAnswer)
      BY <2>5 DEF TransportError, Free
    <3> QED
      BY <3>1, <1>1, RetryOrDropKeeps, IngestedType
  <2>6. CASE SleepElapsed(p)
    <3>1. /\ push' = [push EXCEPT ![p] = [push[p] EXCEPT !.pc = "start"]]
          /\ UNCHANGED <<stats, ingested>> /\ ~Free(p)
      BY <2>6 DEF SleepElapsed, Free
    <3>2. /\ [push[p] EXCEPT !.pc = "start"] \in PushTask
          /\ [push[p] EXCEPT !.pc = "start"].batch = push[p].batch
      BY <1>1 DEF PushTask
    <3> QED
      BY <3>1, <3>2, <1>1, MoveKeeps
  <2>7. CASE DeadlineCancels(p)
    <3>1. drop_batch(p) /\ (LokiActs(p, NoAnswer) \/ UNCHANGED ingested)
      BY <2>7 DEF DeadlineCancels
    <3> QED
      BY <3>1, <1>1, DropBatchKeeps, IngestedType
  <2> QED
    BY <2>1, <2>2, <2>3, <2>4, <2>5, <2>6, <2>7 DEF PushStep
<1> USE DEF stdinVars, watcherVars, forceVars, queueVars, channelVars, readerVars,
            batcherVars
<1>4. TypeOK'
  BY <1>2, <1>3 DEF IInv, TypeOK, StdinTypeOK, SignalTypeOK, QueueTypeOK, ReaderTypeOK,
                    BatcherTypeOK, PushTypeOK, PushUnchanged
<1>5. (QueueLenExact /\ SealedFull /\ HoldsLine /\ RoomStays /\ QueueBounded)'
  BY <1>2 DEF IInv, PushUnchanged, QueueLenExact, BetweenAddAndSend, SealedFull,
              FullBlocks, HoldsLine, RoomStays, QueueBounded
<1> QED
  BY <1>3, <1>4, <1>5 DEF IInv

LEMMA DeadlinePassesKeeps == IInv /\ DeadlinePasses => IInv'
<1> SUFFICES ASSUME IInv, DeadlinePasses PROVE IInv'
  OBVIOUS
<1>1. (StdinTypeOK /\ SignalTypeOK /\ QueueTypeOK /\ ReaderTypeOK /\ HoldsLine /\ RoomStays)'
  BY DEF IInv, DeadlinePasses, TypeOK, StdinTypeOK, SignalTypeOK, QueueTypeOK,
         ReaderTypeOK, HoldsLine, RoomStays, stdinVars, watcherVars, forceVars, queueVars,
         channelVars, readerVars
<1>2. /\ UNCHANGED <<queue_len, channel, batcherVars, pushVars, stats>>
      /\ BetweenAddAndSend' = BetweenAddAndSend
  BY DEF DeadlinePasses, BetweenAddAndSend, queueVars, channelVars, readerVars
<1> QED
  BY <1>1, <1>2, QueueFrame DEF IInv, TypeOK

-----------------------------------------------------------------------------
(* Theorems.                                                               *)

LEMMA StutterKeeps == IInv /\ UNCHANGED vars => IInv'
<1> SUFFICES ASSUME IInv, UNCHANGED vars PROVE IInv'
  OBVIOUS
<1> USE DEF vars, stdinVars, watcherVars, forceVars, queueVars, channelVars, readerVars
<1>1. (StdinTypeOK /\ SignalTypeOK /\ QueueTypeOK /\ ReaderTypeOK /\ HoldsLine /\ RoomStays)'
  BY DEF IInv, TypeOK, StdinTypeOK, SignalTypeOK, QueueTypeOK, ReaderTypeOK, HoldsLine,
         RoomStays
<1> QED
  BY <1>1, QueueFrame DEF IInv, TypeOK, BetweenAddAndSend

LEMMA NextKeeps == IInv /\ [Next]_vars => IInv'
<1> SUFFICES ASSUME IInv, [Next]_vars PROVE IInv'
  OBVIOUS
<1>1. CASE StdinNext
  BY <1>1, StdinKeeps
<1>2. CASE WatcherNext
  BY <1>2, WatcherKeeps
<1>3. CASE ReaderNext
  BY <1>3, ReaderBesideKeeps, CountQueuedKeeps, SendToBatcherKeeps DEF ReaderBeside
<1>4. CASE BatcherNext
  BY <1>4, ReceiveLogKeeps, BatcherBesideKeeps, AcquirePermitKeeps, DispatchKeeps
  DEF BatcherNext, BatcherBeside
<1>5. CASE PusherNext
  BY <1>5, PushStepKeeps, DeadlinePassesKeeps DEF PusherNext
<1>6. CASE Finished \/ UNCHANGED vars
  BY <1>6, StutterKeeps DEF Finished
<1> QED
  BY <1>1, <1>2, <1>3, <1>4, <1>5, <1>6 DEF Next

THEOREM Invariance == Spec => []IInv
BY InitIInv, NextKeeps, PTL DEF Spec

\* Types: in particular queue_len and sealed_entries, both usize, never underflow.
THEOREM TypeCorrect == Spec => []TypeOK
<1>1. IInv => TypeOK
  BY DEF IInv
<1> QED
  BY <1>1, Invariance, PTL

\* queue_len is exactly the number of lines between the reader and the push tasks.
THEOREM QueueLenIsExact == Spec => []QueueLenExact
<1>1. IInv => QueueLenExact
  BY DEF IInv
<1> QED
  BY <1>1, Invariance, PTL

\* The queue is bounded by queue_cap, as far as each drop policy promises it.
THEOREM QueueIsBounded == Spec => []QueueBounded
<1>1. IInv => QueueBounded
  BY DEF IInv
<1> QED
  BY <1>1, Invariance, PTL

\* No push task ever carries an empty batch, or more than batch_size lines.
THEOREM BatchesAreCapped == Spec => []BatchesCapped
<1>1. IInv => BatchesCapped
  BY DEF IInv
<1> QED
  BY <1>1, Invariance, PTL

=============================================================================
