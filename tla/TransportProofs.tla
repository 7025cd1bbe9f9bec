--------------------------- MODULE TransportProofs ---------------------------
(***************************************************************************)
(* Proofs about Transport, for every maxRespawns and however long the      *)
(* application writes: one shipper at a time, none after the end, no       *)
(* orphan, no callback lost; and no chunk lost in silence, unless a        *)
(* shipper crashed.                                                        *)
(*                                                                         *)
(* The properties hold because of what live, respawnTimer and child say    *)
(* about the shipper, which Links states: they are redundant pieces of     *)
(* state that seven callbacks keep in step.                                *)
(***************************************************************************)
EXTENDS Transport, TLAPS

Running == {"failing", "up", "gone"}

\* What live and respawnTimer say about the shipper.
Links ==
  /\ live /\ phase # "threw" => child # 0 /\ proc[child] \in Running
  /\ \A g \in Gen : proc[g] \in {"failing", "up"} => live
  /\ respawnTimer => /\ ~live /\ ~ending /\ ~closed
                     /\ \A g \in Gen : proc[g] \notin Running
  /\ \A g \in Gen : proc[g] = "failing" => respawns = 0
  /\ spawnFailed => closed

\* Only processes that were started exist.
Numbering ==
  /\ phase = "factory" => /\ child = 0 /\ respawns = 0 /\ ~respawnTimer
                          /\ ~ending /\ ~closed
                          /\ \A g \in Gen : proc[g] = "none"
  /\ child = 0 => \A g \in Gen : proc[g] = "none"
  /\ \A g \in Gen : proc[g] # "none" => g <= respawns + 1
  /\ respawnTimer => \A g \in Gen : proc[g] # "none" => g <= respawns

\* How far end() has come.
EndOrder ==
  /\ finished => ending
  /\ finalCb => ending /\ ~finished
  /\ ending => endCalled
  /\ pendingWriteCb => ~ending /\ ~closed

TInv ==
  /\ TypeOK
  /\ Links
  /\ Numbering
  /\ EndOrder
  /\ OneShipper
  /\ NoOrphan
  /\ CallbacksKept
  /\ CallbackHasWaker
  /\ FinishedAfterExit
  /\ RespawnIsComing

-----------------------------------------------------------------------------
(* The initial state, and what the helpers do.                             *)

\* At most m is at most what m has grown to.
LEMMA AtMost ==
  ASSUME NEW h \in Nat, NEW m \in Nat, NEW n \in Nat, n >= m, h <= m \/ h <= m + 1
  PROVE  h <= n + 1
OBVIOUS

\* The constants are natural numbers.
LEMMA Limits == MaxRespawns \in Nat /\ PipeCap \in Nat
BY TransportAssumption

USE Limits
USE DEF Gen, Running, childVars, endVars, respawnVars, writeVars, osVars

LEMMA InitTInv == Init => TInv
<1> SUFFICES ASSUME Init PROVE TInv
  OBVIOUS
<1> USE DEF Init
<1>1. ClosureTypeOK
  <2>1. child \in Gen \cup {0} /\ respawns \in 0 .. MaxRespawns
    OBVIOUS
  <2> QED
    BY <2>1 DEF ClosureTypeOK
<1>2. WriteTypeOK
  BY DEF WriteTypeOK
<1>3. StreamTypeOK
  BY DEF StreamTypeOK
<1>4. Links /\ Numbering /\ EndOrder
  BY DEF Links, Numbering, EndOrder
<1>5. OneShipper /\ NoOrphan /\ FinishedAfterExit
  BY DEF OneShipper, NoOrphan, FinishedAfterExit
<1>6. CallbacksKept /\ CallbackHasWaker /\ RespawnIsComing
  BY DEF CallbacksKept, CallbackHasWaker, RespawnIsComing
<1> QED
  BY <1>1, <1>2, <1>3, <1>4, <1>5, <1>6 DEF TInv, TypeOK

\* A stdin that has been closed stays closed, and so does every other.
LEMMA StdinCloses ==
  ASSUME StreamTypeOK, NEW g \in Gen, NEW how \in {"ended", "destroyed"}, StdinOf(g, how)
  PROVE  /\ stdin' \in [Gen -> {"open", "ended", "destroyed"}]
         /\ stdin'[g] # "open"
         /\ \A h \in Gen : stdin[h] # "open" => stdin'[h] # "open"
BY DEF StdinOf, StreamTypeOK

\* Releasing a write leaves none pending and the counts natural numbers.
LEMMA WriteReleased ==
  ASSUME WriteTypeOK, ReleaseWrite
  PROVE  /\ pendingWriteCb' = FALSE /\ writing' \in BOOLEAN
         /\ droppedWhileDown' \in Nat /\ buffered' \in Nat
         /\ pendingWriteCb = writing => ~writing'
<1>1. droppedWhileDown' \in Nat /\ buffered' \in Nat
  BY DEF ReleaseWrite, WriteTypeOK
<1> QED
  BY <1>1 DEF ReleaseWrite, WriteTypeOK

\* respawns stays within maxRespawns, and rises exactly when a timer is set.
LEMMA RespawnScheduled ==
  ASSUME ClosureTypeOK, NEW end \in BOOLEAN, NEW timer \in BOOLEAN,
         ScheduleRespawn(end, timer)
  PROVE  /\ respawns' \in 0 .. MaxRespawns /\ respawnTimer' \in BOOLEAN
         /\ \/ respawnTimer' = timer /\ respawns' = respawns
            \/ ~timer /\ ~end /\ ~closed /\ respawnTimer' = TRUE /\ respawns' = respawns + 1
         /\ respawnTimer' \/ end \/ closed \/ respawns' = MaxRespawns
<1>1. respawns \in 0 .. MaxRespawns
  BY DEF ClosureTypeOK
<1>2. CASE end \/ closed \/ timer \/ Exhausted
  <2>1. respawnTimer' = timer /\ respawns' = respawns
    BY <1>2 DEF ScheduleRespawn, Stopping
  <2>2. Exhausted => respawns = MaxRespawns
    BY <1>1 DEF Exhausted
  <2> QED
    BY <1>1, <1>2, <2>1, <2>2
<1>3. CASE ~(end \/ closed \/ timer \/ Exhausted)
  <2>1. respawnTimer' = TRUE /\ respawns' = respawns + 1
    BY <1>3 DEF ScheduleRespawn, Stopping
  <2>2. respawns + 1 \in 0 .. MaxRespawns
    BY <1>1, <1>3 DEF Exhausted
  <2> QED
    BY <1>3, <2>1, <2>2
<1> QED
  BY <1>2, <1>3

-----------------------------------------------------------------------------
(* Every step keeps the invariant.                                         *)

\* start(), called where it is called: without a shipper, and not stopping.
LEMMA StartKeeps ==
  ASSUME TInv, NEW g \in Gen, g = respawns + 1, Start(g),
         ~live, ~ending, ~closed,
         (phase = "factory" /\ ~respawnTimer) \/ respawnTimer,
         \A h \in Gen : proc[h] \in {"none", "reaped"},
         \A h \in Gen : proc[h] # "none" => h <= respawns
  PROVE  TInv'
<1>0. /\ ClosureTypeOK /\ WriteTypeOK /\ StreamTypeOK /\ Links /\ Numbering /\ EndOrder
      /\ OneShipper /\ NoOrphan /\ CallbacksKept /\ CallbackHasWaker /\ FinishedAfterExit
      /\ RespawnIsComing
  BY DEF TInv, TypeOK
<1>1. WriteTypeOK'
  BY <1>0 DEF Start, WriteTypeOK
<1>2. EndOrder'
  BY <1>0 DEF Start, EndOrder
<1>3. NoOrphan'
  BY DEF Start, NoOrphan
<1>4. CallbacksKept'
  BY <1>0 DEF Start, CallbacksKept
<1>5. CallbackHasWaker'
  BY <1>0 DEF Start, ClosureTypeOK, CallbackHasWaker
<1>6. FinishedAfterExit'
  BY <1>0 DEF Start, EndOrder, FinishedAfterExit
<1>7. CASE SpawnOk(g, "up")
  <2>1. ClosureTypeOK'
    BY <1>0, <1>7 DEF Start, SpawnOk, ClosureTypeOK
  <2>2. StreamTypeOK'
    BY <1>0, <1>7 DEF Start, SpawnOk, StreamTypeOK
  <2>3. Links'
    BY <1>0, <1>7 DEF Start, SpawnOk, StreamTypeOK, Links
  <2>4. Numbering'
    BY <1>0, <1>7 DEF SpawnOk, Numbering
  <2>5. OneShipper'
    BY <1>7 DEF SpawnOk, OneShipper
  <2>6. RespawnIsComing'
    BY <1>7 DEF SpawnOk, RespawnIsComing
  <2> QED
    BY <1>1, <1>2, <1>3, <1>4, <1>5, <1>6, <2>1, <2>2, <2>3, <2>4, <2>5, <2>6 DEF
       TInv, TypeOK
<1>8. CASE SpawnThrows
  <2>a. respawns \in Nat /\ respawns' \in Nat /\ respawns' >= respawns
    <3>1. /\ respawns' \in 0 .. MaxRespawns
          /\ respawns' = respawns \/ respawns' = respawns + 1
      BY <1>0, <1>8, RespawnScheduled DEF SpawnThrows, ClosureTypeOK
    <3> QED
      BY <1>0, <3>1 DEF ClosureTypeOK
  <2>b. respawnTimer' => respawns' = respawns + 1
    BY <1>0, <1>8, RespawnScheduled DEF SpawnThrows, ClosureTypeOK
  <2>1. ClosureTypeOK'
    BY <1>0, <1>8, RespawnScheduled DEF Start, SpawnThrows, ClosureTypeOK
  <2>2. StreamTypeOK'
    BY <1>0, <1>8 DEF Start, SpawnThrows, StreamTypeOK
  <2>3. Links'
    BY <1>0, <1>8 DEF Start, SpawnThrows, Links
  <2>4. Numbering'
    <3>1. /\ phase' # "factory"
          /\ child' = 0 => \A h \in Gen : proc'[h] = "none"
      BY <1>0, <1>8 DEF SpawnThrows, Numbering
    <3>2. \A h \in Gen : proc'[h] # "none" => h <= respawns
      BY <1>8 DEF SpawnThrows
    <3>3. ASSUME NEW h \in Gen, proc'[h] # "none" PROVE h <= respawns' + 1
      <4>1. h \in Nat /\ h <= respawns
        BY <3>2, <3>3
      <4> QED
        BY <2>a, <4>1, AtMost
    <3>4. ASSUME respawnTimer', NEW h \in Gen, proc'[h] # "none" PROVE h <= respawns'
      <4>1. h \in Nat /\ h <= respawns
        BY <3>2, <3>4
      <4>2. respawns' = respawns + 1
        BY <2>b, <3>4
      <4> QED
        BY <2>a, <4>1, <4>2
    <3> QED
      BY <3>1, <3>3, <3>4 DEF Numbering
  <2>5. OneShipper'
    BY <1>8 DEF SpawnThrows, OneShipper
  <2>6. RespawnIsComing'
    BY <1>0, <1>8, RespawnScheduled DEF SpawnThrows, ClosureTypeOK, RespawnIsComing
  <2> QED
    BY <1>1, <1>2, <1>3, <1>4, <1>5, <1>6, <2>1, <2>2, <2>3, <2>4, <2>5, <2>6 DEF
       TInv, TypeOK
<1>9. CASE respawns = 0 /\ SpawnOk(g, "failing")
  <2>1. ClosureTypeOK'
    BY <1>0, <1>9 DEF Start, SpawnOk, ClosureTypeOK
  <2>2. StreamTypeOK'
    BY <1>0, <1>9 DEF Start, SpawnOk, StreamTypeOK
  <2>3. Links'
    BY <1>0, <1>9 DEF Start, SpawnOk, StreamTypeOK, Links
  <2>4. Numbering'
    BY <1>9 DEF SpawnOk, Numbering
  <2>5. OneShipper'
    BY <1>9 DEF SpawnOk, OneShipper
  <2>6. RespawnIsComing'
    BY <1>9 DEF SpawnOk, RespawnIsComing
  <2> QED
    BY <1>1, <1>2, <1>3, <1>4, <1>5, <1>6, <2>1, <2>2, <2>3, <2>4, <2>5, <2>6 DEF
       TInv, TypeOK
<1>10. CASE respawns > 0 /\ RespawnFails(g)
  <2>a. respawns \in Nat /\ respawns' \in Nat /\ respawns' >= respawns
    <3>1. /\ respawns' \in 0 .. MaxRespawns
          /\ respawns' = respawns \/ respawns' = respawns + 1
      BY <1>0, <1>10, RespawnScheduled DEF RespawnFails, ClosureTypeOK
    <3> QED
      BY <1>0, <3>1 DEF ClosureTypeOK
  <2>b. respawnTimer' => respawns' = respawns + 1
    BY <1>0, <1>10, RespawnScheduled DEF RespawnFails, ClosureTypeOK
  <2>1. ClosureTypeOK'
    BY <1>0, <1>10, RespawnScheduled DEF Start, RespawnFails, ClosureTypeOK
  <2>2. StreamTypeOK'
    BY <1>0, <1>10, StdinCloses DEF Start, RespawnFails, StreamTypeOK
  <2>3. Links'
    BY <1>0, <1>10 DEF Start, RespawnFails, Links
  <2>4. Numbering'
    <3>1. /\ phase' # "factory"
          /\ child' = 0 => \A h \in Gen : proc'[h] = "none"
      BY <1>0, <1>10 DEF RespawnFails, Numbering
    <3>2. \A h \in Gen : proc'[h] # "none" => h <= respawns + 1
      BY <1>0, <1>10 DEF RespawnFails, ClosureTypeOK
    <3>3. ASSUME NEW h \in Gen, proc'[h] # "none" PROVE h <= respawns' + 1
      <4>1. h \in Nat /\ h <= respawns + 1
        BY <3>2, <3>3
      <4> QED
        BY <2>a, <4>1, AtMost
    <3>4. ASSUME respawnTimer', NEW h \in Gen, proc'[h] # "none" PROVE h <= respawns'
      <4>1. h \in Nat /\ h <= respawns + 1
        BY <3>2, <3>4
      <4>2. respawns' = respawns + 1
        BY <2>b, <3>4
      <4> QED
        BY <2>a, <4>1, <4>2
    <3> QED
      BY <3>1, <3>3, <3>4 DEF Numbering
  <2>5. OneShipper'
    BY <1>10 DEF RespawnFails, OneShipper
  <2>6. RespawnIsComing'
    BY <1>0, <1>10, RespawnScheduled DEF RespawnFails, ClosureTypeOK,
       RespawnIsComing
  <2> QED
    BY <1>1, <1>2, <1>3, <1>4, <1>5, <1>6, <2>1, <2>2, <2>3, <2>4, <2>5, <2>6 DEF
       TInv, TypeOK
<1>11. CASE SpawnWithoutStdin(g)
  <2>1. ClosureTypeOK'
    BY <1>0, <1>11 DEF Start, SpawnWithoutStdin, ClosureTypeOK
  <2>2. StreamTypeOK'
    BY <1>0, <1>11 DEF Start, SpawnWithoutStdin, StreamTypeOK
  <2>3. Links'
    BY <1>0, <1>11 DEF Start, SpawnWithoutStdin, Links
  <2>4. Numbering'
    BY <1>0, <1>11 DEF SpawnWithoutStdin, Numbering
  <2>5. OneShipper'
    BY <1>11 DEF SpawnWithoutStdin, OneShipper
  <2>6. RespawnIsComing'
    BY <1>11 DEF SpawnWithoutStdin, RespawnIsComing
  <2> QED
    BY <1>1, <1>2, <1>3, <1>4, <1>5, <1>6, <2>1, <2>2, <2>3, <2>4, <2>5, <2>6 DEF
       TInv, TypeOK
<1> QED
  BY <1>7, <1>8, <1>9, <1>10, <1>11 DEF Start

LEMMA FactoryKeeps ==
  ASSUME TInv, Factory
  PROVE  TInv'
<1>1. /\ respawns = 0 /\ ~respawnTimer /\ ~ending /\ ~closed /\ child = 0
      /\ \A h \in Gen : proc[h] = "none"
      /\ phase = "factory" /\ Start(1)
  BY DEF Factory, TInv, Numbering
<1>2. ~live
  BY <1>1 DEF TInv, Links
<1>3. 1 \in Gen /\ 1 = respawns + 1
  BY <1>1
<1> QED
  BY <1>1, <1>2, StartKeeps

LEMMA RespawnTimerKeeps ==
  ASSUME TInv, RespawnTimer
  PROVE  TInv'
<1>1. /\ respawnTimer /\ ~live /\ ~ending /\ ~closed
      /\ \A h \in Gen : proc[h] \notin Running
  BY DEF RespawnTimer, TInv, Links
<1>2. Start(respawns + 1)
  BY <1>1 DEF RespawnTimer, Stopping
<1>3. /\ respawns + 1 \in Gen
      /\ \A h \in Gen : proc[h] # "none" => h <= respawns
  BY <1>1 DEF TInv, TypeOK, ClosureTypeOK, Numbering
<1>4. \A h \in Gen : proc[h] \in {"none", "reaped"}
  BY <1>1 DEF TInv, TypeOK, StreamTypeOK
<1> QED
  BY <1>1, <1>2, <1>3, <1>4, StartKeeps

LEMMA WriteChunkKeeps ==
  ASSUME TInv, WriteChunk
  PROVE  TInv'
<1> USE DEF WriteChunk, Down
<1>0. /\ ClosureTypeOK /\ WriteTypeOK /\ StreamTypeOK /\ Links /\ Numbering /\ EndOrder
      /\ OneShipper /\ NoOrphan /\ CallbacksKept /\ CallbackHasWaker /\ FinishedAfterExit
      /\ RespawnIsComing
  BY DEF TInv, TypeOK
<1>1. /\ ClosureTypeOK' /\ StreamTypeOK' /\ Links' /\ Numbering' /\ EndOrder'
      /\ OneShipper' /\ NoOrphan' /\ CallbacksKept' /\ FinishedAfterExit'
      /\ RespawnIsComing'
  BY <1>0 DEF ClosureTypeOK, StreamTypeOK, Links, Numbering, EndOrder, OneShipper,
     NoOrphan, CallbacksKept, FinishedAfterExit, RespawnIsComing
<1>2. WriteTypeOK'
  BY <1>0 DEF ClosureTypeOK, WriteTypeOK
<1>3. CallbackHasWaker'
  BY <1>0 DEF Links, CallbackHasWaker
<1> QED
  BY <1>1, <1>2, <1>3 DEF TInv, TypeOK

LEMMA EndKeeps ==
  ASSUME TInv, End
  PROVE  TInv'
<1> USE DEF End, Final, NobodyToWaitFor
<1>0. /\ ClosureTypeOK /\ WriteTypeOK /\ StreamTypeOK /\ Links /\ Numbering /\ EndOrder
      /\ OneShipper /\ NoOrphan /\ CallbacksKept /\ CallbackHasWaker /\ FinishedAfterExit
      /\ RespawnIsComing
  BY DEF TInv, TypeOK
<1>1. /\ ClosureTypeOK' /\ WriteTypeOK' /\ Links' /\ Numbering' /\ OneShipper'
      /\ NoOrphan' /\ RespawnIsComing'
  BY <1>0 DEF ClosureTypeOK, WriteTypeOK, Links, Numbering, OneShipper, NoOrphan,
     RespawnIsComing
<1>2. StreamTypeOK'
  BY <1>0, StdinCloses DEF ClosureTypeOK, StreamTypeOK
<1>3. EndOrder'
  BY <1>0 DEF EndOrder, CallbacksKept
<1>4. CallbacksKept'
  BY <1>0 DEF EndOrder, CallbacksKept
<1>5. CallbackHasWaker'
  BY <1>0 DEF Links, CallbackHasWaker
<1>6. FinishedAfterExit'
  BY <1>0 DEF Links, FinishedAfterExit
<1> QED
  BY <1>1, <1>2, <1>3, <1>4, <1>5, <1>6 DEF TInv, TypeOK

LEMMA DestroyStreamKeeps ==
  ASSUME TInv, DestroyStream
  PROVE  TInv'
<1> USE DEF DestroyStream, CloseChild
<1>0. /\ ClosureTypeOK /\ WriteTypeOK /\ StreamTypeOK /\ Links /\ Numbering /\ EndOrder
      /\ OneShipper /\ NoOrphan /\ CallbacksKept /\ CallbackHasWaker /\ FinishedAfterExit
      /\ RespawnIsComing
  BY DEF TInv, TypeOK
<1>1. /\ ClosureTypeOK' /\ WriteTypeOK' /\ Links' /\ Numbering' /\ EndOrder'
      /\ OneShipper' /\ CallbacksKept' /\ CallbackHasWaker' /\ FinishedAfterExit'
      /\ RespawnIsComing'
  BY <1>0 DEF ClosureTypeOK, WriteTypeOK, Links, Numbering, EndOrder, OneShipper,
     CallbacksKept, CallbackHasWaker, FinishedAfterExit, RespawnIsComing
<1>2. StreamTypeOK'
  BY <1>0, StdinCloses DEF ClosureTypeOK, StreamTypeOK
<1>3. NoOrphan'
  BY <1>0, StdinCloses DEF Links, OneShipper, NoOrphan
<1> QED
  BY <1>1, <1>2, <1>3 DEF TInv, TypeOK

LEMMA DrainKeeps ==
  ASSUME TInv, Drain
  PROVE  TInv'
<1> USE DEF Drain, Final, NobodyToWaitFor
<1>0. /\ ClosureTypeOK /\ WriteTypeOK /\ StreamTypeOK /\ Links /\ Numbering /\ EndOrder
      /\ OneShipper /\ NoOrphan /\ CallbacksKept /\ CallbackHasWaker /\ FinishedAfterExit
      /\ RespawnIsComing
  BY DEF TInv, TypeOK
<1>1. /\ ClosureTypeOK' /\ Numbering' /\ OneShipper' /\ RespawnIsComing'
  BY <1>0 DEF ClosureTypeOK, Numbering, OneShipper, RespawnIsComing
<1>2. WriteTypeOK'
  BY <1>0 DEF WriteTypeOK
<1>3. Links' /\ CallbackHasWaker'
  BY <1>0 DEF Links, CallbackHasWaker
<1>4. EndOrder'
  BY <1>0 DEF EndOrder
<1>5. StreamTypeOK'
  BY <1>0, StdinCloses DEF ClosureTypeOK, StreamTypeOK
<1>6. NoOrphan'
  BY <1>0, StdinCloses DEF OneShipper, NoOrphan
<1>7. CallbacksKept'
  BY <1>0 DEF EndOrder, CallbacksKept
<1>8. FinishedAfterExit'
  BY <1>0 DEF Links, EndOrder, FinishedAfterExit
<1> QED
  BY <1>1, <1>2, <1>3, <1>4, <1>5, <1>6, <1>7, <1>8 DEF TInv, TypeOK

LEMMA StdinErrorKeeps ==
  ASSUME TInv, StdinError
  PROVE  TInv'
<1> USE DEF StdinError, FinalInRelease, LeaveRespawnToExit
<1>0. /\ ClosureTypeOK /\ WriteTypeOK /\ StreamTypeOK /\ Links /\ Numbering /\ EndOrder
      /\ OneShipper /\ NoOrphan /\ CallbacksKept /\ CallbackHasWaker /\ FinishedAfterExit
      /\ RespawnIsComing
  BY DEF TInv, TypeOK
<1>1. /\ ClosureTypeOK' /\ Numbering' /\ OneShipper' /\ CallbackHasWaker'
      /\ RespawnIsComing'
  BY <1>0 DEF ClosureTypeOK, Numbering, OneShipper, CallbackHasWaker,
     RespawnIsComing
<1>2. WriteTypeOK'
  BY <1>0, WriteReleased DEF WriteTypeOK
<1>3. StreamTypeOK'
  BY <1>0, StdinCloses DEF ClosureTypeOK, StreamTypeOK
<1>4. Links'
  BY <1>0 DEF ClosureTypeOK, Links, OneShipper
<1>5. EndOrder'
  BY <1>0, WriteReleased DEF EndOrder
<1>6. NoOrphan'
  BY <1>0 DEF OneShipper, NoOrphan
<1>7. CallbacksKept'
  BY <1>0, WriteReleased DEF EndOrder, CallbacksKept
<1>8. FinishedAfterExit'
  BY <1>0 DEF OneShipper, FinishedAfterExit
<1> QED
  BY <1>1, <1>2, <1>3, <1>4, <1>5, <1>6, <1>7, <1>8 DEF TInv, TypeOK

LEMMA SpawnErrorKeeps ==
  ASSUME TInv, SpawnError
  PROVE  TInv'
<1> USE DEF SpawnError, FinalInRelease
<1>0. /\ ClosureTypeOK /\ WriteTypeOK /\ StreamTypeOK /\ Links /\ Numbering /\ EndOrder
      /\ OneShipper /\ NoOrphan /\ CallbacksKept /\ CallbackHasWaker /\ FinishedAfterExit
      /\ RespawnIsComing
  BY DEF TInv, TypeOK
<1>1. Numbering' /\ OneShipper' /\ CallbacksKept' /\ RespawnIsComing'
  BY <1>0 DEF Numbering, OneShipper, CallbacksKept, RespawnIsComing
<1>2. ClosureTypeOK'
  BY <1>0 DEF ClosureTypeOK
<1>3. WriteTypeOK'
  BY <1>0, WriteReleased DEF WriteTypeOK
<1>4. StreamTypeOK'
  BY <1>0, StdinCloses DEF ClosureTypeOK, StreamTypeOK
<1>5. Links'
  BY <1>0 DEF StreamTypeOK, Links, OneShipper
<1>6. EndOrder'
  BY <1>0, WriteReleased DEF EndOrder
<1>7. NoOrphan'
  BY <1>0 DEF OneShipper, NoOrphan
<1>8. CallbackHasWaker'
  BY <1>0, WriteReleased DEF CallbackHasWaker
<1>9. FinishedAfterExit'
  BY <1>0 DEF OneShipper, FinishedAfterExit
<1> QED
  BY <1>1, <1>2, <1>3, <1>4, <1>5, <1>6, <1>7, <1>8, <1>9 DEF TInv, TypeOK

LEMMA ExitKeeps ==
  ASSUME TInv, NEW g \in Gen, Exit(g)
  PROVE  TInv'
<1> USE DEF Exit, FinalInRelease
<1>0. /\ ClosureTypeOK /\ WriteTypeOK /\ StreamTypeOK /\ Links /\ Numbering /\ EndOrder
      /\ OneShipper /\ NoOrphan /\ CallbacksKept /\ CallbackHasWaker /\ FinishedAfterExit
      /\ RespawnIsComing
  BY DEF TInv, TypeOK
<1>a. g = child /\ g # 0
  BY <1>0 DEF OneShipper
<1>b. ~respawnTimer
  BY <1>0 DEF Links
<1>c. /\ respawns \in Nat /\ respawns' \in Nat /\ respawns' >= respawns
      /\ respawnTimer' => respawns' = respawns + 1
  <2>1. ending' \in BOOLEAN /\ ScheduleRespawn(ending', FALSE)
    BY <1>0, <1>a, <1>b DEF ClosureTypeOK
  <2>2. PICK e \in BOOLEAN : ScheduleRespawn(e, FALSE)
    BY <2>1
  <2>3. /\ respawns' \in 0 .. MaxRespawns
        /\ \/ respawnTimer' = FALSE /\ respawns' = respawns
           \/ respawns' = respawns + 1
    BY <1>0, <2>2, RespawnScheduled
  <2> QED
    BY <1>0, <2>3 DEF ClosureTypeOK
<1>1. ClosureTypeOK'
  BY <1>0, RespawnScheduled DEF ClosureTypeOK
<1>2. WriteTypeOK'
  BY <1>0, <1>a, WriteReleased DEF WriteTypeOK
<1>3. StreamTypeOK'
  BY <1>0, StdinCloses DEF StreamTypeOK
<1>4. Links'
  BY <1>0, RespawnScheduled DEF ClosureTypeOK, StreamTypeOK, Links, OneShipper
<1>5. Numbering'
  <2>1. /\ phase' # "factory"
        /\ child' = 0 => \A h \in Gen : proc'[h] = "none"
    BY <1>0, <1>a DEF Numbering
  <2>2. \A h \in Gen : proc'[h] # "none" => h <= respawns + 1
    BY <1>0 DEF Numbering, StreamTypeOK
  <2>3. ASSUME NEW h \in Gen, proc'[h] # "none" PROVE h <= respawns' + 1
    <3>1. h \in Nat /\ h <= respawns + 1
      BY <2>2, <2>3
    <3>2. respawns \in Nat /\ respawns' \in Nat /\ respawns' >= respawns
      BY <1>c
    <3> QED
      BY <3>1, <3>2, AtMost
  <2>4. respawnTimer' => \A h \in Gen : proc'[h] # "none" => h <= respawns'
    BY <1>c, <2>2
  <2> QED
    BY <2>1, <2>3, <2>4 DEF Numbering
<1>6. EndOrder'
  BY <1>0, WriteReleased DEF EndOrder
<1>7. OneShipper'
  BY <1>0 DEF OneShipper
<1>8. NoOrphan'
  BY <1>0, StdinCloses DEF NoOrphan
<1>9. CallbacksKept'
  BY <1>0, <1>a, WriteReleased DEF CallbacksKept
<1>10. CallbackHasWaker'
  BY <1>0, <1>a, WriteReleased DEF CallbackHasWaker
<1>11. FinishedAfterExit'
  BY <1>0 DEF OneShipper, FinishedAfterExit
<1>12. RespawnIsComing'
  BY <1>0, <1>a, RespawnScheduled DEF ClosureTypeOK, RespawnIsComing
<1> QED
  BY <1>1, <1>2, <1>3, <1>4, <1>5, <1>6, <1>7, <1>8, <1>9, <1>10, <1>11, <1>12
     DEF TInv, TypeOK

LEMMA DieKeeps ==
  ASSUME TInv, NEW g \in Gen, Die(g)
  PROVE  TInv'
<1> USE DEF Die
<1>0. /\ ClosureTypeOK /\ WriteTypeOK /\ StreamTypeOK /\ Links /\ Numbering /\ EndOrder
      /\ OneShipper /\ NoOrphan /\ CallbacksKept /\ CallbackHasWaker /\ FinishedAfterExit
      /\ RespawnIsComing
  BY DEF TInv, TypeOK
<1>1. /\ ClosureTypeOK' /\ WriteTypeOK' /\ StreamTypeOK' /\ Links' /\ Numbering'
      /\ EndOrder' /\ OneShipper' /\ NoOrphan' /\ CallbacksKept' /\ CallbackHasWaker'
      /\ FinishedAfterExit' /\ RespawnIsComing'
  BY <1>0 DEF ClosureTypeOK, WriteTypeOK, StreamTypeOK, Links, Numbering, EndOrder,
     OneShipper, NoOrphan, CallbacksKept, CallbackHasWaker, FinishedAfterExit,
     RespawnIsComing
<1> QED
  BY <1>1 DEF TInv, TypeOK

LEMMA ReadKeeps ==
  ASSUME TInv, Read
  PROVE  TInv'
<1> USE DEF Read
<1>0. /\ ClosureTypeOK /\ WriteTypeOK /\ StreamTypeOK /\ Links /\ Numbering /\ EndOrder
      /\ OneShipper /\ NoOrphan /\ CallbacksKept /\ CallbackHasWaker /\ FinishedAfterExit
      /\ RespawnIsComing
  BY DEF TInv, TypeOK
<1>1. /\ ClosureTypeOK' /\ WriteTypeOK' /\ StreamTypeOK' /\ Links' /\ Numbering'
      /\ EndOrder' /\ OneShipper' /\ NoOrphan' /\ CallbacksKept' /\ CallbackHasWaker'
      /\ FinishedAfterExit' /\ RespawnIsComing'
  BY <1>0 DEF ClosureTypeOK, WriteTypeOK, StreamTypeOK, Links, Numbering, EndOrder,
     OneShipper, NoOrphan, CallbacksKept, CallbackHasWaker, FinishedAfterExit,
     RespawnIsComing
<1> QED
  BY <1>1 DEF TInv, TypeOK

LEMMA TInvKept == TInv /\ [Next]_vars => TInv'
<1> SUFFICES ASSUME TInv, [Next]_vars PROVE TInv'
  OBVIOUS
<1>1. CASE Factory
  BY <1>1, FactoryKeeps
<1>2. CASE RespawnTimer
  BY <1>2, RespawnTimerKeeps
<1>3. CASE WriteChunk
  BY <1>3, WriteChunkKeeps
<1>4. CASE End
  BY <1>4, EndKeeps
<1>5. CASE DestroyStream
  BY <1>5, DestroyStreamKeeps
<1>6. CASE Drain
  BY <1>6, DrainKeeps
<1>7. CASE StdinError
  BY <1>7, StdinErrorKeeps
<1>8. CASE SpawnError
  BY <1>8, SpawnErrorKeeps
<1>9. CASE \E g \in Gen : Exit(g) \/ Die(g)
  BY <1>9, ExitKeeps, DieKeeps
<1>10. CASE Read
  BY <1>10, ReadKeeps
<1>11. CASE UNCHANGED vars
  BY <1>11 DEF vars, TInv, TypeOK, ClosureTypeOK, WriteTypeOK, StreamTypeOK, Links,
               Numbering, EndOrder, OneShipper, NoOrphan, CallbacksKept,
               CallbackHasWaker, FinishedAfterExit, RespawnIsComing
<1> QED
  BY <1>1, <1>2, <1>3, <1>4, <1>5, <1>6, <1>7, <1>8, <1>9, <1>10, <1>11
     DEF Next, Settled

-----------------------------------------------------------------------------
(* The theorems.                                                           *)

\* The invariant holds throughout: with TypeOK, maxRespawns bounds the respawns
\* scheduleRespawn ever counts.
THEOREM TransportInvariance == Spec => []TInv
<1> QED
  BY InitTInv, TInvKept, PTL DEF Spec

\* The types, and with them respawns <= maxRespawns.
THEOREM TransportTypeOK == Spec => []TypeOK
<1>1. TInv => TypeOK
  BY DEF TInv
<1> QED
  BY <1>1, TransportInvariance, PTL

\* A respawn never leaves a second shipper beside the first: start() runs only when
\* the process it replaces has been reaped.
THEOREM OneShipperAtATime == Spec => []OneShipper
<1>1. TInv => OneShipper
  BY DEF TInv
<1> QED
  BY <1>1, TransportInvariance, PTL

\* destroy() and end() leave no shipper waiting for input that will never come.
THEOREM NoOrphanIsLeft == Spec => []NoOrphan
<1>1. TInv => NoOrphan
  BY DEF TInv
<1> QED
  BY <1>1, TransportInvariance, PTL

\* pendingWriteCb and finalCb are held exactly while the Writable waits for them: no
\* callback of write() or final() is forgotten, and none is called twice.
THEOREM CallbacksAreKept == Spec => []CallbacksKept
<1>1. TInv => CallbacksKept
  BY DEF TInv
<1> QED
  BY <1>1, TransportInvariance, PTL

\* A callback is held only while an event of the child that releases it is to come.
THEOREM NoCallbackIsLost == Spec => []CallbackHasWaker
<1>1. TInv => CallbackHasWaker
  BY DEF TInv
<1> QED
  BY <1>1, TransportInvariance, PTL

\* The callback of final() waits for the exit of the shipper.
THEOREM FinishesAfterExit == Spec => []FinishedAfterExit
<1>1. TInv => FinishedAfterExit
  BY DEF TInv
<1> QED
  BY <1>1, TransportInvariance, PTL

\* Without a live shipper a respawn is on its way or used up: a stream is never left
\* dropping while it has respawns left.
THEOREM DeathIsSurvivable == Spec => []RespawnIsComing
<1>1. TInv => RespawnIsComing
  BY DEF TInv
<1> QED
  BY <1>1, TransportInvariance, PTL

\* Once final() or destroy() has run, start() is not called again: they cancel the
\* timer, and nothing sets it any more.
THEOREM NoRespawn == Spec => NoRespawnAfterEnd
<1>1. ASSUME TInv, [Next]_vars, ending \/ closed, NEW g \in Gen, proc[g] = "none"
      PROVE  proc'[g] = "none"
  <2>1. ~Factory
    BY <1>1 DEF TInv, Numbering, Factory
  <2>2. CASE RespawnTimer
    BY <1>1, <2>2 DEF TInv, Links, RespawnTimer
  <2>3. CASE \E h \in Gen : Exit(h) \/ Die(h)
    BY <1>1, <2>3 DEF Exit, Die, TInv, TypeOK, StreamTypeOK
  <2>4. CASE SpawnError
    BY <1>1, <2>4 DEF SpawnError
  <2>5. CASE WriteChunk \/ End \/ DestroyStream \/ Drain \/ StdinError \/ Read
    BY <1>1, <2>5 DEF WriteChunk, End, DestroyStream, Drain, StdinError, Read
  <2>6. CASE UNCHANGED vars
    BY <1>1, <2>6 DEF vars
  <2> QED
    BY <1>1, <2>1, <2>2, <2>3, <2>4, <2>5, <2>6 DEF Next, Settled
<1>2. TInv /\ [Next]_vars
        => [ending \/ closed => \A g \in Gen : proc[g] = "none" => proc'[g] = "none"]_vars
  BY <1>1
<1> QED
  BY <1>2, TransportInvariance, PTL DEF Spec, NoRespawnAfterEnd

-----------------------------------------------------------------------------
(* Where the chunks are.                                                   *)

\* Before the end only the stdin of a shipper that is gone is closed; so a shipper
\* that goes without a crash goes after the end.
Endings ==
  /\ ~ending /\ ~closed
       => \A g \in Gen : proc[g] \in {"none", "failing", "up"} => stdin[g] = "open"
  /\ ~closed /\ ~crashed => \A g \in Gen : proc[g] = "gone" => ending
  /\ finalCb => ~closed

\* Unless a shipper crashed, every chunk written was read, dropped and counted, or is
\* in a buffer of Node or in the pipe of a shipper that is there to read it.
Chunks ==
  /\ buffered > 0 => pendingWriteCb
  /\ ~closed /\ ~crashed
       => /\ written = shipped + droppedWhileDown + buffered + pipe
          /\ pipe > 0 => child # 0 /\ proc[child] \in {"failing", "up"}

ChunkInv == Endings /\ Chunks /\ PipesEveryChunk

LEMMA InitChunkInv == Init => ChunkInv
BY DEF Init, ChunkInv, Endings, Chunks, PipesEveryChunk

\* What TInv says of the pieces of state the chunks depend on.
LEMMA Stations ==
  ASSUME TInv
  PROVE  /\ buffered \in Nat /\ pipe \in Nat /\ written \in Nat /\ shipped \in Nat
         /\ droppedWhileDown \in Nat /\ child \in Gen \cup {0}
         /\ proc \in [Gen -> {"none", "failing", "up", "gone", "reaped"}]
         /\ stdin \in [Gen -> {"open", "ended", "destroyed"}]
         /\ ~closed => pendingWriteCb = writing
         /\ pendingWriteCb \in BOOLEAN
         /\ finished => ending /\ endCalled
         /\ ending => endCalled
         /\ finalCb => ending
         /\ pendingWriteCb => ~ending /\ ~closed
BY DEF TInv, TypeOK, ClosureTypeOK, WriteTypeOK, StreamTypeOK, EndOrder, CallbacksKept

LEMMA StartKeepsChunks ==
  ASSUME TInv, ChunkInv, Factory \/ RespawnTimer
  PROVE  ChunkInv'
<1>1. PICK g \in Gen : Start(g) /\ proc[g] = "none"
  <2>1. CASE Factory
    <3>1. 1 \in Gen /\ Start(1) /\ proc[1] = "none"
      BY <2>1 DEF Factory, TInv, Numbering
    <3> QED
      BY <3>1
  <2>2. CASE RespawnTimer
    <3>1. /\ respawns + 1 \in Gen /\ Start(respawns + 1) /\ respawns \in Nat
          /\ \A h \in Gen : proc[h] # "none" => h <= respawns
      BY <2>2 DEF RespawnTimer, TInv, TypeOK, ClosureTypeOK, Links, Numbering, Stopping
    <3>2. ~(respawns + 1 <= respawns)
      BY <3>1
    <3> QED
      BY <3>1, <3>2
  <2> QED
    BY <2>1, <2>2
<1>2. /\ ~ending /\ ~closed /\ ~finished /\ ~finalCb
      /\ \A h \in Gen : proc[h] \notin Running
  BY DEF Factory, RespawnTimer, TInv, Links, Numbering, EndOrder
<1>3. /\ UNCHANGED <<endVars, writeVars, closed, pipe, written, shipped, crashed>>
      /\ \A h \in Gen : proc'[h] \in {"none", "failing", "up"} => stdin'[h] = stdin[h]
      /\ \A h \in Gen : proc'[h] \in {"none", "failing", "up"}
                          => proc[h] \in {"none", "failing", "up"} \/ h = g
      /\ \A h \in Gen : proc'[h] = "gone" => proc[h] = "gone"
  BY <1>1, Stations DEF Start, SpawnOk, SpawnThrows, RespawnFails, SpawnWithoutStdin, StdinOf
<1>4. \A h \in Gen : proc[h] \in {"none", "failing", "up"} => stdin[h] = "open"
  BY <1>2 DEF ChunkInv, Endings
<1>5. Endings'
  BY <1>1, <1>2, <1>3, <1>4 DEF ChunkInv, Endings
<1>6. ~crashed => pipe = 0
  BY <1>2, Stations DEF ChunkInv, Chunks
<1>7. Chunks' /\ PipesEveryChunk'
  BY <1>2, <1>3, <1>6 DEF ChunkInv, Chunks, PipesEveryChunk
<1> QED
  BY <1>5, <1>7 DEF ChunkInv

LEMMA WriteKeepsChunks ==
  ASSUME TInv, ChunkInv, WriteChunk
  PROVE  ChunkInv'
<1>1. /\ ~closed /\ ~endCalled /\ written' = written + 1
      /\ UNCHANGED <<child, proc, stdin, ending, finished, finalCb, closed, crashed, shipped>>
  BY DEF WriteChunk
<1>2. Endings' /\ PipesEveryChunk'
  BY <1>1, Stations DEF ChunkInv, Endings, PipesEveryChunk
<1>3. CASE writing
  <2>1. buffered' = buffered + 1 /\ UNCHANGED <<pendingWriteCb, droppedWhileDown, pipe>>
    BY <1>3 DEF WriteChunk
  <2>2. pendingWriteCb
    BY <1>1, <1>3, Stations
  <2> QED
    BY <1>1, <1>2, <2>1, <2>2, Stations DEF ChunkInv, Chunks
<1>4. CASE ~writing /\ Down
  <2>1. /\ droppedWhileDown' = droppedWhileDown + 1
        /\ UNCHANGED <<pendingWriteCb, buffered, pipe>>
    BY <1>4 DEF WriteChunk
  <2> QED
    BY <1>1, <1>2, <2>1, Stations DEF ChunkInv, Chunks
<1>5. CASE ~writing /\ ~Down
  <2>1. child # 0 /\ child \in Gen /\ proc[child] \in Running
    BY <1>1, <1>5, Stations DEF Down, WriteChunk, TInv, Links
  <2>2. ~crashed => proc[child] \in {"failing", "up"}
    BY <1>1, <2>1, Stations DEF ChunkInv, Endings
  <2>3. buffered = 0
    BY <1>1, <1>5, Stations DEF ChunkInv, Chunks
  <2>4. pipe' = pipe + 1 /\ UNCHANGED <<buffered, droppedWhileDown>>
    BY <1>5 DEF WriteChunk
  <2> QED
    BY <1>1, <1>2, <2>1, <2>2, <2>3, <2>4, Stations DEF ChunkInv, Chunks
<1> QED
  BY <1>3, <1>4, <1>5

LEMMA EndKeepsChunks ==
  ASSUME TInv, ChunkInv, End
  PROVE  ChunkInv'
<1> USE DEF End, Final
<1>1. /\ UNCHANGED <<child, proc, pipe, closed, crashed, written, shipped, droppedWhileDown,
                     buffered, pendingWriteCb>>
      /\ ~closed /\ ~endCalled
  OBVIOUS
<1>2. Chunks'
  BY <1>1 DEF ChunkInv, Chunks
<1>3. Endings'
  BY <1>1, Stations DEF ChunkInv, Endings
<1>4. PipesEveryChunk'
  <2>1. CASE finished' = finished
    BY <1>1, <2>1 DEF ChunkInv, PipesEveryChunk
  <2>2. CASE finished' # finished /\ ~crashed
    <3>1. ~writing /\ NobodyToWaitFor /\ ~spawnFailed
      BY <1>1, <2>2 DEF TInv, Links
    <3>2. buffered = 0
      BY <1>1, <3>1, Stations DEF ChunkInv, Chunks
    <3>3. pipe = 0
      BY <1>1, <2>2, <3>1, Stations DEF ChunkInv, Chunks, NobodyToWaitFor, TInv, Links
    <3> QED
      BY <1>1, <2>2, <3>2, <3>3, Stations DEF ChunkInv, Chunks, PipesEveryChunk
  <2>3. CASE crashed
    BY <1>1, <2>3 DEF PipesEveryChunk
  <2> QED
    BY <1>1, <2>1, <2>2, <2>3
<1> QED
  BY <1>2, <1>3, <1>4 DEF ChunkInv

LEMMA DestroyKeepsChunks ==
  ASSUME TInv, ChunkInv, DestroyStream
  PROVE  ChunkInv'
BY DEF DestroyStream, ChunkInv, Endings, Chunks, PipesEveryChunk

LEMMA DrainKeepsChunks ==
  ASSUME TInv, ChunkInv, Drain
  PROVE  ChunkInv'
<1> USE DEF Drain, Final
<1>1. /\ ~ending /\ ~closed /\ pendingWriteCb /\ ~finished /\ ~finalCb
      /\ UNCHANGED <<child, proc, closed, crashed, written, shipped, droppedWhileDown>>
  BY Stations
<1>2. /\ pipe' + buffered' = pipe + buffered /\ pipe' \in Nat /\ buffered' \in Nat
      /\ buffered' > 0 => pendingWriteCb'
  <2> DEFINE room  == PipeCap + 1 - pipe
             moved == IF buffered < room THEN buffered ELSE room
  <2>0. pipe \in Nat /\ buffered \in Nat
    BY Stations
  <2>1. /\ room \in Nat /\ moved \in Nat /\ moved <= buffered /\ moved <= room
        /\ moved < buffered => moved = room
    BY Stations
  <2>2. /\ pipe' = pipe + moved /\ buffered' = buffered - moved
        /\ pendingWriteCb' = (pipe' > PipeCap)
    OBVIOUS
  <2> HIDE DEF moved
  <2>3. pipe' + buffered' = pipe + buffered /\ pipe' \in Nat /\ buffered' \in Nat
    BY <2>0, <2>1, <2>2
  <2>4. ASSUME buffered' > 0 PROVE pipe' > PipeCap
    BY <2>0, <2>1, <2>2, <2>4
  <2> QED
    BY <2>2, <2>3, <2>4
<1>3. Chunks'
  <2>1. child # 0 /\ (~crashed => proc[child] = "up")
    BY <1>1, Stations DEF ChunkInv, Endings, TInv, CallbackHasWaker
  <2> SUFFICES ASSUME ~crashed
               PROVE  written' = shipped' + droppedWhileDown' + buffered' + pipe'
    BY <1>1, <1>2, <2>1 DEF Chunks
  <2>2. written = shipped + droppedWhileDown + buffered + pipe
    BY <1>1 DEF ChunkInv, Chunks
  <2>3. /\ pipe \in Nat /\ buffered \in Nat /\ shipped \in Nat /\ droppedWhileDown \in Nat
        /\ written' = written /\ shipped' = shipped /\ droppedWhileDown' = droppedWhileDown
    BY <1>1, Stations
  <2> QED
    BY <1>2, <2>2, <2>3
<1>4. Endings'
  BY <1>1, Stations DEF ChunkInv, Endings
<1>5. PipesEveryChunk'
  <2>1. child # 0 /\ (~crashed => proc[child] = "up")
    BY <1>1, Stations DEF ChunkInv, Endings, TInv, CallbackHasWaker
  <2>2. ~crashed => ~NobodyToWaitFor
    BY <1>1, <2>1, Stations DEF NobodyToWaitFor, TInv, Links
  <2>3. ~crashed => ~finished'
    BY <1>1, <2>2
  <2> QED
    BY <1>1, <2>3 DEF PipesEveryChunk
<1> QED
  BY <1>3, <1>4, <1>5 DEF ChunkInv

\* A shipper that goes without a crash leaves nothing behind.
LEMMA GoneIsDone ==
  ASSUME TInv, ChunkInv, NEW g \in Gen, proc[g] = "gone", ~closed, ~crashed
  PROVE  /\ g = child /\ ending /\ ~pendingWriteCb /\ ~writing /\ buffered = 0 /\ pipe = 0
         /\ written = shipped + droppedWhileDown
<1>1. g = child /\ ending
  BY DEF ChunkInv, Endings, TInv, OneShipper
<1>2. ~pendingWriteCb /\ ~writing /\ buffered = 0
  BY <1>1, Stations DEF ChunkInv, Chunks
<1>3. pipe = 0
  BY <1>1, Stations DEF ChunkInv, Chunks
<1>4. written = shipped + droppedWhileDown + 0 + 0
  BY <1>2, <1>3 DEF ChunkInv, Chunks
<1> QED
  BY <1>1, <1>2, <1>3, <1>4, Stations

\* Without a write pending, releaseWrite does nothing.
LEMMA NothingReleased ==
  ASSUME TInv, ReleaseWrite, ~pendingWriteCb
  PROVE  UNCHANGED <<pendingWriteCb, buffered, droppedWhileDown>> /\ ~FinalInRelease
<1>1. droppedWhileDown' = droppedWhileDown + 0 /\ buffered' = buffered
  BY DEF ReleaseWrite
<1>2. droppedWhileDown' = droppedWhileDown
  BY <1>1, Stations
<1>3. pendingWriteCb' = FALSE /\ pendingWriteCb \in BOOLEAN
  BY Stations DEF ReleaseWrite
<1>4. pendingWriteCb' = pendingWriteCb
  BY <1>3, Zenon
<1> QED
  BY <1>1, <1>2, <1>4 DEF FinalInRelease

LEMMA StdinErrorKeepsChunks ==
  ASSUME TInv, ChunkInv, StdinError
  PROVE  ChunkInv'
<1>1. /\ child \in Gen /\ proc[child] = "gone" /\ ReleaseWrite
      /\ ending' = (ending \/ FinalInRelease) /\ finished' = (finished \/ FinalInRelease)
      /\ \A g \in Gen : g # child => stdin'[g] = stdin[g]
      /\ UNCHANGED <<child, finalCb, proc, closed, pipe, written, shipped, crashed>>
  BY Stations DEF StdinError, StdinOf
<1>2. Endings'
  BY <1>1, Stations DEF ChunkInv, Endings
<1>3. buffered' > 0 => pendingWriteCb'
  BY <1>1, Stations DEF ReleaseWrite, ChunkInv, Chunks
<1>4. CASE closed
  <2>1. ~pendingWriteCb
    BY <1>4, Stations
  <2> QED
    BY <1>1, <1>2, <1>3, <1>4, <2>1, NothingReleased
    DEF ChunkInv, Chunks, PipesEveryChunk
<1>5. CASE crashed
  BY <1>1, <1>2, <1>3, <1>5 DEF ChunkInv, Chunks, PipesEveryChunk
<1>6. CASE ~closed /\ ~crashed
  BY <1>1, <1>2, <1>3, <1>6, GoneIsDone, NothingReleased
  DEF ChunkInv, Chunks, PipesEveryChunk
<1> QED
  BY <1>4, <1>5, <1>6

LEMMA ExitKeepsChunks ==
  ASSUME TInv, ChunkInv, NEW g \in Gen, Exit(g)
  PROVE  ChunkInv'
<1>1. /\ g = child /\ proc[g] = "gone" /\ ReleaseWrite /\ ~finalCb' /\ pipe' = 0
      /\ ending' = (ending \/ FinalInRelease)
      /\ finished' = (finished \/ FinalInRelease \/ finalCb)
      /\ \A h \in Gen : h # g => stdin'[h] = stdin[h]
      /\ proc' = [proc EXCEPT ![g] = "reaped"]
      /\ UNCHANGED <<child, closed, written, shipped, crashed>>
  BY Stations DEF Exit, StdinOf, TInv, OneShipper
<1>2. Endings'
  BY <1>1, Stations DEF ChunkInv, Endings
<1>3. buffered' > 0 => pendingWriteCb'
  BY <1>1, Stations DEF ReleaseWrite, ChunkInv, Chunks
<1>4. CASE closed
  <2>1. ~pendingWriteCb /\ ~finalCb
    BY <1>4, Stations DEF ChunkInv, Endings
  <2> QED
    BY <1>1, <1>2, <1>3, <1>4, <2>1, NothingReleased
    DEF ChunkInv, Chunks, PipesEveryChunk
<1>5. CASE crashed
  BY <1>1, <1>2, <1>3, <1>5 DEF ChunkInv, Chunks, PipesEveryChunk
<1>6. CASE ~closed /\ ~crashed
  BY <1>1, <1>2, <1>3, <1>6, GoneIsDone, NothingReleased, Stations
  DEF ChunkInv, Chunks, PipesEveryChunk
<1> QED
  BY <1>4, <1>5, <1>6

LEMMA SpawnErrorKeepsChunks ==
  ASSUME TInv, ChunkInv, SpawnError
  PROVE  ChunkInv'
<1>1. closed' /\ crashed' /\ ~finalCb' /\ ReleaseWrite
  BY DEF SpawnError
<1>2. buffered' > 0 => pendingWriteCb'
  BY <1>1, Stations DEF ReleaseWrite, ChunkInv, Chunks
<1> QED
  BY <1>1, <1>2 DEF ChunkInv, Endings, Chunks, PipesEveryChunk

LEMMA DieKeepsChunks ==
  ASSUME TInv, ChunkInv, NEW g \in Gen, Die(g)
  PROVE  ChunkInv'
<1>1. /\ proc[g] = "up" /\ g = child /\ proc' = [proc EXCEPT ![g] = "gone"]
      /\ crashed' = (crashed \/ stdin[g] = "open" \/ pipe > 0)
      /\ UNCHANGED <<child, stdin, ending, finished, finalCb, closed, pendingWriteCb,
                     buffered, droppedWhileDown, pipe, written, shipped>>
  BY DEF Die, TInv, OneShipper
<1>2. Endings'
  BY <1>1, Stations DEF ChunkInv, Endings
<1>3. Chunks' /\ PipesEveryChunk'
  BY <1>1, Stations DEF ChunkInv, Chunks, PipesEveryChunk
<1> QED
  BY <1>2, <1>3 DEF ChunkInv

LEMMA ReadKeepsChunks ==
  ASSUME TInv, ChunkInv, Read
  PROVE  ChunkInv'
<1>1. /\ pipe > 0 /\ pipe' = pipe - 1 /\ shipped' = shipped + 1 /\ child # 0
      /\ proc[child] = "up"
      /\ UNCHANGED <<child, proc, stdin, ending, finished, finalCb, closed, crashed,
                     pendingWriteCb, buffered, droppedWhileDown, written>>
  BY DEF Read
<1>2. ~finished
  BY <1>1, Stations DEF TInv, FinishedAfterExit
<1>3. Endings' /\ PipesEveryChunk'
  BY <1>1, <1>2 DEF ChunkInv, Endings, PipesEveryChunk
<1>4. Chunks'
  BY <1>1, Stations DEF ChunkInv, Chunks
<1> QED
  BY <1>3, <1>4 DEF ChunkInv

LEMMA ChunkInvKept == TInv /\ ChunkInv /\ [Next]_vars => ChunkInv'
<1> SUFFICES ASSUME TInv, ChunkInv, [Next]_vars PROVE ChunkInv'
  OBVIOUS
<1>1. CASE Factory \/ RespawnTimer
  BY <1>1, StartKeepsChunks
<1>2. CASE WriteChunk \/ End \/ DestroyStream
  BY <1>2, WriteKeepsChunks, EndKeepsChunks, DestroyKeepsChunks
<1>3. CASE Drain \/ StdinError \/ SpawnError
  BY <1>3, DrainKeepsChunks, StdinErrorKeepsChunks, SpawnErrorKeepsChunks
<1>4. CASE \E g \in Gen : Exit(g) \/ Die(g)
  BY <1>4, ExitKeepsChunks, DieKeepsChunks
<1>5. CASE Read
  BY <1>5, ReadKeepsChunks
<1>6. CASE UNCHANGED vars
  BY <1>6 DEF vars, ChunkInv, Endings, Chunks, PipesEveryChunk
<1> QED
  BY <1>1, <1>2, <1>3, <1>4, <1>5, <1>6 DEF Next, Settled

\* A stream that finished has lost no chunk in silence, unless a shipper crashed: what
\* it did not count as dropped, a shipper has read.
THEOREM EveryChunkIsPiped == Spec => []PipesEveryChunk
<1>1. ChunkInv => PipesEveryChunk
  BY DEF ChunkInv
<1> QED
  BY <1>1, InitChunkInv, ChunkInvKept, TransportInvariance, PTL DEF Spec
=============================================================================
