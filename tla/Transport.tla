------------------------------ MODULE Transport ------------------------------
(***************************************************************************)
(* js/transport.mjs: a Writable that pipes pino's output into a shipper    *)
(* process and respawns it when it dies.  Node runs one callback at a time *)
(* to completion, so an action is one callback with everything it calls    *)
(* synchronously: releasing a write lets the Writable write what it has    *)
(* buffered and, after end(), call final, all inside releaseWrite.         *)
(*                                                                         *)
(* A chunk is a unit: only how many chunks are where is kept.  What a pipe *)
(* cannot take beyond PipeCap stays in Node's buffer of child.stdin, which *)
(* makes write() return false until it is flushed.  A shipper of this      *)
(* stream is known by the value respawns had when it was spawned, plus 1.  *)
(*                                                                         *)
(* External: node:stream, node:child_process and the shipper process.      *)
(***************************************************************************)
EXTENDS Naturals, FiniteSets

CONSTANTS
  MaxRespawns,     \* opts.maxRespawns
  PipeCap,         \* chunks the pipe to a shipper takes
  SpawnOutcomes,   \* what spawn() may do, see Start
  MaxWrites        \* bound: chunks ever written by the application

ASSUME TransportAssumption ==
  /\ MaxRespawns \in Nat /\ PipeCap \in Nat /\ MaxWrites \in Nat
  /\ SpawnOutcomes \subseteq {"ok", "throws", "fails", "no_stdin"}

VARIABLES
  \* the closure of pinoLokiRsTransport
  child, live, spawnFailed,
  ending, closed, finalCb,
  respawns, respawnTimer,
  pendingWriteCb, droppedWhileDown,
  \* the Writable
  phase,      \* "factory" until it is returned; "threw" ends the worker
  writing,    \* a call of write() is waiting for its callback
  buffered,   \* chunks accepted meanwhile
  endCalled,  \* the application has called end()
  finished,   \* final() has been called back
  \* the shippers
  proc,       \* "none", "failing", "up", "gone" (exit not seen yet), "reaped"
  stdin,      \* "open", "ended", "destroyed"
  pipe,       \* chunks on their way to the current shipper
  \* history
  written,    \* chunks written by the application
  shipped,    \* chunks read by a shipper
  crashed     \* a shipper ended with input to come, or never ran

childVars   == <<child, live, spawnFailed>>
endVars     == <<ending, finalCb, finished>>
respawnVars == <<respawns, respawnTimer>>
writeVars   == <<pendingWriteCb, droppedWhileDown, writing, buffered>>
osVars      == <<proc, stdin>>

vars == <<childVars, endVars, respawnVars, writeVars, osVars, closed, phase,
          endCalled, pipe, written, shipped, crashed>>

Gen == 1 .. MaxRespawns + 1

Init ==
  /\ child = 0 /\ live = FALSE /\ spawnFailed = FALSE
  /\ ending = FALSE /\ closed = FALSE /\ finalCb = FALSE /\ finished = FALSE
  /\ respawns = 0 /\ respawnTimer = FALSE
  /\ pendingWriteCb = FALSE /\ droppedWhileDown = 0
  /\ phase = "factory" /\ writing = FALSE /\ buffered = 0 /\ endCalled = FALSE
  /\ proc = [g \in Gen |-> "none"] /\ stdin = [g \in Gen |-> "open"]
  /\ pipe = 0 /\ written = 0 /\ shipped = 0 /\ crashed = FALSE

-----------------------------------------------------------------------------
(* Helpers.                                                                *)

\* `closed || ending`, once ending is end.
\* Mutant: ending is forgotten.
OnlyClosed(end) == closed
Stopping(end) == closed \/ end

\* Mutants: off by one, either way.
ExhaustedEarly == respawns + 1 >= MaxRespawns
ExhaustedLate == respawns > MaxRespawns
Exhausted == respawns >= MaxRespawns

\* scheduleRespawn, with ending = end and timer telling if respawnTimer is set.
ScheduleRespawn(end, timer) ==
  IF Stopping(end) \/ timer \/ Exhausted
  THEN respawnTimer' = timer /\ UNCHANGED respawns
  ELSE respawnTimer' = TRUE /\ respawns' = respawns + 1

\* releaseWrite once live is false: the Writable then passes every chunk it has
\* buffered to write(), which drops it.
\* Mutants: the write keeps waiting; its callback is forgotten.
KeepWrite == UNCHANGED writeVars
ForgetWrite == pendingWriteCb' = FALSE /\ UNCHANGED <<droppedWhileDown, writing, buffered>>
ReleaseWrite ==
  /\ pendingWriteCb' = FALSE
  /\ writing' = (writing /\ ~pendingWriteCb)
  /\ droppedWhileDown' = droppedWhileDown + (IF pendingWriteCb THEN buffered ELSE 0)
  /\ buffered' = IF pendingWriteCb THEN 0 ELSE buffered

\* final() is called from inside releaseWrite, once the last write is done.
FinalInRelease == pendingWriteCb /\ endCalled

\* final() has nobody to wait for.
\* Mutants: a dead child is waited for; no child is.
WaitForTheDead == spawnFailed \/ child = 0
WaitForNobody == TRUE
NobodyToWaitFor == spawnFailed \/ child = 0 \/ ~live

\* The child's stdin once it is closed in the given way.
StdinOf(g, how) ==
  stdin' = [stdin EXCEPT ![g] = IF @ = "destroyed" THEN @ ELSE how]

\* final(): cancel the respawn, end the child's stdin, wait for its exit.
Final ==
  /\ ending' = TRUE
  /\ respawnTimer' = FALSE
  /\ IF spawnFailed \/ child = 0 THEN UNCHANGED stdin ELSE StdinOf(child, "ended")
  /\ IF NobodyToWaitFor
     THEN finished' = TRUE /\ UNCHANGED finalCb
     ELSE finalCb' = TRUE /\ UNCHANGED finished

\* What destroy() does to a live child: its stdin is destroyed, which drops what Node
\* still had to write; SIGTERM it takes as advice.
\* Mutant: SIGTERM alone.
SignalChild == UNCHANGED <<pipe, stdin>>
CloseChild ==
  IF child # 0 /\ live
  THEN /\ StdinOf(child, "destroyed")
       /\ pipe' = IF pipe > PipeCap THEN PipeCap ELSE pipe
  ELSE UNCHANGED <<pipe, stdin>>

-----------------------------------------------------------------------------
(* start().                                                                *)

\* spawn() returned a process.
SpawnOk(g, outcome) ==
  /\ child' = g /\ live' = TRUE
  /\ proc' = [proc EXCEPT ![g] = outcome]
  /\ UNCHANGED <<stdin, respawns>>
  /\ respawnTimer' = FALSE
  /\ phase' = "running"

\* spawn() threw: child stays what it was.
SpawnThrows ==
  /\ live' = FALSE
  /\ ScheduleRespawn(ending, FALSE)
  /\ phase' = "running"
  /\ UNCHANGED <<child, proc, stdin>>

\* A respawned process that could not be executed: its error event comes in the
\* same turn of the event loop, before any other callback.
RespawnFails(g) ==
  /\ child' = g /\ live' = FALSE
  /\ proc' = [proc EXCEPT ![g] = "reaped"]
  /\ StdinOf(g, "destroyed")
  /\ ScheduleRespawn(ending, FALSE)
  /\ UNCHANGED phase

\* spawn() had no descriptors left: it returned a process without stdin, on which
\* start() throws a TypeError.
SpawnWithoutStdin(g) ==
  /\ child' = g /\ live' = TRUE
  /\ phase' = "threw"
  /\ respawnTimer' = FALSE
  /\ UNCHANGED <<proc, stdin, respawns>>

Start(g) ==
  /\ \/ "ok" \in SpawnOutcomes /\ SpawnOk(g, "up")
     \/ "throws" \in SpawnOutcomes /\ SpawnThrows
     \/ "fails" \in SpawnOutcomes /\ respawns = 0 /\ SpawnOk(g, "failing")
     \/ "fails" \in SpawnOutcomes /\ respawns > 0 /\ RespawnFails(g)
     \/ "no_stdin" \in SpawnOutcomes /\ SpawnWithoutStdin(g)
  /\ UNCHANGED <<endVars, writeVars, closed, spawnFailed, endCalled, pipe,
                 written, shipped, crashed>>

Factory == phase = "factory" /\ Start(1)

\* The callback of setTimeout.
RespawnTimer ==
  /\ phase = "running"
  /\ respawnTimer
  /\ IF Stopping(ending)
     THEN /\ respawnTimer' = FALSE
          /\ UNCHANGED <<childVars, endVars, respawns, writeVars, osVars, closed,
                         phase, endCalled, pipe, written, shipped, crashed>>
     ELSE Start(respawns + 1)

-----------------------------------------------------------------------------
(* The application.                                                        *)

\* write() finds no child to write to.
Down == closed \/ ~live \/ child = 0 \/ stdin[child] = "destroyed"

\* stream.write(chunk): the Writable calls write() unless a write is pending.
WriteChunk ==
  /\ phase = "running"
  /\ ~endCalled /\ ~closed
  /\ written < MaxWrites
  /\ written' = written + 1
  /\ IF writing
     THEN buffered' = buffered + 1 /\ UNCHANGED <<pendingWriteCb, writing, droppedWhileDown, pipe>>
     ELSE IF Down
     THEN /\ droppedWhileDown' = droppedWhileDown + 1
          /\ UNCHANGED <<pendingWriteCb, writing, buffered, pipe>>
     ELSE /\ pipe' = pipe + 1
          /\ pendingWriteCb' = (pipe' > PipeCap)
          /\ writing' = (pipe' > PipeCap)
          /\ UNCHANGED <<buffered, droppedWhileDown>>
  /\ UNCHANGED <<childVars, endVars, respawnVars, osVars, closed, phase,
                 endCalled, shipped, crashed>>

\* stream.end(): final() follows at once unless a write is pending.
End ==
  /\ phase = "running"
  /\ ~endCalled /\ ~closed
  /\ endCalled' = TRUE
  /\ IF writing
     THEN UNCHANGED <<ending, finalCb, finished, respawnTimer, stdin>>
     ELSE Final
  /\ UNCHANGED <<childVars, respawns, writeVars, proc, closed, phase, pipe,
                 written, shipped, crashed>>

\* stream.destroy(), by the application, or by autoDestroy once finished.
DestroyStream ==
  /\ phase = "running"
  /\ ~closed
  /\ closed' = TRUE
  /\ respawnTimer' = FALSE /\ pendingWriteCb' = FALSE /\ finalCb' = FALSE
  /\ CloseChild
  /\ buffered' = 0
  /\ UNCHANGED <<childVars, ending, finished, respawns, droppedWhileDown,
                 writing, proc, phase, endCalled, written, shipped, crashed>>

AutoDestroy == finished /\ DestroyStream

-----------------------------------------------------------------------------
(* Events of the child.                                                    *)

\* 'drain': the pipe took all that Node had buffered.  The Writable writes on
\* until the pipe is full again, and calls final() if that was all.
Drain ==
  /\ phase = "running"
  /\ pendingWriteCb
  /\ proc[child] \in {"up", "gone"}
  /\ pipe <= PipeCap
  /\ LET room  == PipeCap + 1 - pipe
         moved == IF buffered < room THEN buffered ELSE room
     IN /\ pipe' = pipe + moved
        /\ buffered' = buffered - moved
  /\ pendingWriteCb' = (pipe' > PipeCap)
  /\ writing' = (pipe' > PipeCap)
  /\ IF endCalled /\ ~pendingWriteCb'
     THEN Final
     ELSE UNCHANGED <<endVars, respawnTimer, stdin>>
  /\ UNCHANGED <<childVars, respawns, droppedWhileDown, proc, closed, phase,
                 endCalled, written, shipped, crashed>>

\* The error of stdin leaves the respawn to the exit, which is still to come.
\* Mutant: it does not.
RespawnAtOnce == ScheduleRespawn(ending, respawnTimer)
LeaveRespawnToExit == UNCHANGED respawnVars

\* 'error' of stdin: a write met a pipe without reader.
StdinError ==
  /\ phase = "running"
  /\ child # 0
  /\ proc[child] = "gone" /\ stdin[child] # "destroyed"
  /\ live' = FALSE
  /\ StdinOf(child, "destroyed")
  /\ ReleaseWrite
  /\ ending' = (ending \/ FinalInRelease)
  /\ finished' = (finished \/ FinalInRelease)
  /\ LeaveRespawnToExit
  /\ UNCHANGED <<child, spawnFailed, finalCb, proc, closed, phase, endCalled,
                 pipe, written, shipped, crashed>>

\* 'exit' of process g, whose stdin Node destroys first.
Exit(g) ==
  /\ phase = "running"
  /\ proc[g] = "gone"
  /\ proc' = [proc EXCEPT ![g] = "reaped"]
  /\ StdinOf(g, "destroyed")
  /\ IF g # child
     THEN UNCHANGED <<live, endVars, respawnVars, writeVars, pipe>>
     ELSE /\ live' = FALSE
          /\ pipe' = 0
          /\ ReleaseWrite
          /\ ending' = (ending \/ FinalInRelease)
          /\ finished' = (finished \/ FinalInRelease \/ finalCb)
          /\ finalCb' = FALSE
          /\ ScheduleRespawn(ending', respawnTimer)
  /\ UNCHANGED <<child, spawnFailed, closed, phase, endCalled, written, shipped,
                 crashed>>

\* 'error' of the first process, which could not be executed: the stream is
\* destroyed with the error.
SpawnError ==
  /\ phase = "running"
  /\ child # 0 /\ proc[child] = "failing"
  /\ proc' = [proc EXCEPT ![child] = "reaped"]
  /\ StdinOf(child, "destroyed")
  /\ live' = FALSE /\ spawnFailed' = TRUE
  /\ ReleaseWrite
  /\ finalCb' = FALSE
  /\ ending' = (ending \/ FinalInRelease)
  /\ finished' = (finished \/ FinalInRelease \/ finalCb)
  /\ closed' = TRUE /\ respawnTimer' = FALSE
  /\ pipe' = 0 /\ crashed' = TRUE
  /\ UNCHANGED <<child, respawns, phase, endCalled, written, shipped>>

-----------------------------------------------------------------------------
(* The shipper process.                                                    *)

Read ==
  /\ child # 0
  /\ proc[child] = "up" /\ pipe > 0
  /\ pipe' = pipe - 1
  /\ shipped' = shipped + 1
  /\ UNCHANGED <<childVars, endVars, respawnVars, writeVars, osVars, closed,
                 phase, endCalled, written, crashed>>

\* It exits or dies, whenever it likes.
Die(g) ==
  /\ proc[g] = "up"
  /\ proc' = [proc EXCEPT ![g] = "gone"]
  /\ crashed' = (crashed \/ stdin[g] = "open" \/ pipe > 0)
  /\ UNCHANGED <<childVars, endVars, respawnVars, writeVars, stdin, closed,
                 phase, endCalled, pipe, written, shipped>>

\* It exits after end of input.
ExitAtEof(g) == stdin[g] # "open" /\ pipe = 0 /\ Die(g)

-----------------------------------------------------------------------------
\* Nothing is left to happen: the stream is closed and its child reaped, or the
\* worker has thrown.
Settled ==
  /\ \/ closed /\ \A g \in Gen : proc[g] \in {"none", "reaped"}
     \/ phase = "threw"
  /\ UNCHANGED vars

Next ==
  \/ Factory \/ RespawnTimer
  \/ WriteChunk \/ End \/ DestroyStream
  \/ Drain \/ StdinError \/ SpawnError
  \/ \E g \in Gen : Exit(g) \/ Die(g)
  \/ Read
  \/ Settled

Spec == Init /\ [][Next]_vars

\* The event loop delivers every event but the unref'd timer's.  A shipper reads on
\* or exits, and exits after end of input.  Nothing is promised of the application.
Fairness ==
  /\ WF_vars(Drain) /\ WF_vars(SpawnError) /\ WF_vars(AutoDestroy)
  /\ \A g \in Gen : WF_vars(Exit(g)) /\ WF_vars(ExitAtEof(g))
  /\ WF_vars(Read \/ \E g \in Gen : Die(g))

FairSpec == Spec /\ Fairness

-----------------------------------------------------------------------------
ClosureTypeOK ==
  /\ child \in Gen \cup {0} /\ live \in BOOLEAN /\ spawnFailed \in BOOLEAN
  /\ ending \in BOOLEAN /\ closed \in BOOLEAN /\ finalCb \in BOOLEAN
  /\ respawns \in 0 .. MaxRespawns /\ respawnTimer \in BOOLEAN

WriteTypeOK ==
  /\ pendingWriteCb \in BOOLEAN /\ writing \in BOOLEAN
  /\ droppedWhileDown \in Nat /\ buffered \in Nat
  /\ pipe \in Nat /\ written \in Nat /\ shipped \in Nat

StreamTypeOK ==
  /\ phase \in {"factory", "running", "threw"}
  /\ endCalled \in BOOLEAN /\ finished \in BOOLEAN /\ crashed \in BOOLEAN
  /\ proc \in [Gen -> {"none", "failing", "up", "gone", "reaped"}]
  /\ stdin \in [Gen -> {"open", "ended", "destroyed"}]

\* Every variable has its type; no more than maxRespawns + 1 shippers are numbered.
TypeOK == ClosureTypeOK /\ WriteTypeOK /\ StreamTypeOK

\* The process a stream has running, or has not seen the end of, is its child: a
\* respawn never leaves a second shipper beside the first.
OneShipper == \A g \in Gen : proc[g] \in {"failing", "up", "gone"} => g = child

\* After end() has reached final(), or after destroy(), no shipper is started.
NoRespawnAfterEnd ==
  [][ending \/ closed => \A g \in Gen : proc[g] = "none" => proc'[g] = "none"]_vars

\* A closed stream leaves no orphan waiting for input: every shipper still up has
\* its end of input to come.
NoOrphan == closed => \A g \in Gen : proc[g] = "up" => stdin[g] # "open"

\* The transport holds a callback exactly when the Writable waits for one.
CallbacksKept ==
  ~closed => /\ pendingWriteCb = writing
             /\ finalCb = (ending /\ ~finished)

\* A callback is held only while an event that releases it is still to come.
CallbackHasWaker ==
  pendingWriteCb \/ finalCb => child # 0 /\ proc[child] \in {"failing", "up", "gone"}

\* Test "closes only after child exit": after end() the stream finishes only when no
\* shipper is running any more.
FinishedAfterExit == finished => \A g \in Gen : proc[g] # "up"

\* "Shipper death is survivable": without a live child there is a respawn on its
\* way, an exit still to be seen, or none of maxRespawns left.
RespawnIsComing ==
  phase = "running" /\ ~live /\ ~ending /\ ~closed
    => \/ respawnTimer
       \/ respawns = MaxRespawns
       \/ child # 0 /\ proc[child] = "gone"

\* Test "pipes every line to the child": unless a shipper crashed, a finished stream
\* has every chunk read by a shipper or counted as dropped.
PipesEveryChunk ==
  finished /\ ~crashed => written = shipped + droppedWhileDown

\* A write the pipe had no room for is called back, whatever becomes of the shipper.
WriteIsReleased == pendingWriteCb ~> ~pendingWriteCb

\* end() closes the stream, whatever becomes of the shipper.
EndCloses == endCalled ~> closed

-----------------------------------------------------------------------------
(* Documented claims the code does not keep.                               *)

\* README "reports on stderr how many lines the gap cost": once the stream has
\* finished, every chunk no shipper read is in droppedWhileDown.
GapIsReported == finished => written - shipped <= droppedWhileDown

\* README "the transport respawns it ... and never throws into your app": a respawn
\* throws nothing.
RespawnNeverThrows == phase = "threw" => respawns = 0

=============================================================================
