----------------------------- MODULE RunManager -----------------------------
(***************************************************************************)
(* packages/dashboard/src/run-manager.ts and the parts of serve.ts around  *)
(* it: the dashboard process that owns demo runs.  It keeps them in        *)
(* memory, journals them on disk, reads the worker's lines, ends a run     *)
(* once and for all, and tells the browsers.  Processes die at any time;   *)
(* another one restores the journal.                                       *)
(***************************************************************************)
EXTENDS DemoWorker

CONSTANTS
  NoRun,
  Closed,       \* no browser stream
  MaxFailures,  \* a bound on the disk writes that fail
  ByHand        \* the runs that may also be started on a terminal

VARIABLES
  server,       \* [Server -> memory of that process]
  disk,         \* run.json of each run, and state.json
  stream,       \* [Server -> the last snapshot its browser stream was sent]
  failures      \* disk writes that failed so far

managerVars == <<server, disk, stream, failures, alive>>
vars == <<workerVars, managerVars>>

\* What is kept of a run.
RunRecord ==
  [status : {"running", "completed", "failed", "interrupted"}, phase : Nat,
   deployed : BOOLEAN, transactions : SUBSET TxHash,
   result : (SUBSET TxHash) \cup {NoRun}]

\* NoServer and NoRun stand for null: they are no server, run or record.
ASSUME RunsAssumption ==
  /\ NoServer \notin Server
  /\ NoRun \notin Run /\ NoRun \notin RunRecord
  /\ ByHand \subseteq Run
  /\ LinePhase \subseteq Nat

\* preflight is 1, deploying 2, complete 8, as in PHASES.
Fresh == [status |-> "running", phase |-> 1, deployed |-> FALSE,
          transactions |-> {}, result |-> NoRun]

Blank == [mode |-> "unborn", runs |-> [r \in Run |-> NoRun],
          active |-> NoRun, selected |-> NoRun, child |-> NoRun,
          streamFailure |-> FALSE, deadline |-> FALSE]
Gone == [Blank EXCEPT !.mode = "gone"]

Init ==
  /\ WorkerInit
  /\ server = [s \in Server |-> Blank]
  /\ disk = [runs |-> [r \in Run |-> NoRun],
             manifest |-> [ids |-> {}, selected |-> NoRun]]
  /\ stream = [s \in Server |-> Closed]
  /\ failures = 0
  /\ alive = {}

Open(s) == server[s].mode = "up"
Owns(s) == server[s].mode \in {"up", "closing"}
Known(mem) == {r \in Run : mem.runs[r] # NoRun}

\* state(): what a page shows; the selected run in full.
View(mem) ==
  [activeRunId |-> mem.active,
   selectedRunId |-> IF mem.active # NoRun THEN mem.active ELSE mem.selected,
   runs |-> mem.runs]

\* Writes to disk, each one a rename over the old file.
ManifestOf(mem) == [ids |-> Known(mem), selected |-> mem.selected]
Persist(d, mem, r) == [d EXCEPT !.runs[r] = mem.runs[r]]
SaveManifest(d, mem) == [d EXCEPT !.manifest = ManifestOf(mem)]
Save(d, mem, r) == SaveManifest(Persist(d, mem, r), mem)

\* The disk between the two writes of Save.
HalfSavedListFirst(d, mem, r) == SaveManifest(d, mem)
HalfSaved(d, mem, r) == Persist(d, mem, r)

Notify(s, mem) ==
  stream' = [stream EXCEPT ![s] = IF @ = Closed THEN @ ELSE View(mem)]

Remember(s, mem) == server' = [server EXCEPT ![s] = mem]

WriteFails == failures < MaxFailures /\ failures' = failures + 1

\* What a child wrote is lost with the process that would have read it.
Forget(s) ==
  pipe' = [r \in Run |-> IF server[s].child = r THEN <<>> ELSE pipe[r]]

\* The process disappears with its memory, its streams and its lock.
Die(s) ==
  /\ Remember(s, Gone) /\ Forget(s)
  /\ stream' = [stream EXCEPT ![s] = Closed]
  /\ alive' = alive \ {s}

\* advance: a phase is never taken back; 0 is a line without a phase.
Advance(rec, p) == [rec EXCEPT !.phase = IF p >= @ THEN p ELSE @]

\* fail: the first end of a run is the only one.  A manager with a child is
\* still busy with it.
FailAndFree(mem, r, status) ==
  IF mem.runs[r].status # "running" THEN mem
  ELSE [mem EXCEPT !.runs[r].status = status, !.active = NoRun]

FailAgain(mem, r, status) ==
  [mem EXCEPT !.runs[r].status = status,
     !.active = IF @ = r /\ mem.child = NoRun THEN NoRun ELSE @]

Fail(mem, r, status) ==
  IF mem.runs[r].status # "running" THEN mem
  ELSE [mem EXCEPT !.runs[r].status = status,
          !.active = IF @ = r /\ mem.child = NoRun THEN NoRun ELSE @]

SaveFailed(d, mem, failed, r) == IF failed = mem THEN d ELSE Save(d, failed, r)
NotifyFailed(s, mem, failed) ==
  IF failed = mem THEN UNCHANGED stream ELSE Notify(s, failed)

-----------------------------------------------------------------------------
(***************************************************************************)
(* A process starts: it takes the manager lock or stops, then restores.    *)
(* A run the journal shows running has lost its manager.                   *)
(***************************************************************************)
Restorable == \A r \in disk.manifest.ids : disk.runs[r] # NoRun

Restored ==
  [r \in Run |->
    IF r \notin disk.manifest.ids THEN NoRun
    ELSE IF disk.runs[r].status = "running"
         THEN [disk.runs[r] EXCEPT !.status = "interrupted"]
         ELSE disk.runs[r]]

ManagerLockFree == \A s \in Server : ~Owns(s)

Boot(s) ==
  /\ server[s].mode = "unborn" /\ ManagerLockFree
  /\ LET sel == disk.manifest.selected
         mem == [Blank EXCEPT !.mode = "up", !.runs = Restored,
                   !.selected = IF sel \in disk.manifest.ids THEN sel ELSE NoRun]
     IN IF Restorable
        THEN /\ Remember(s, mem)
             /\ alive' = alive \cup {s}
             /\ disk' = [runs |-> [r \in Run |-> IF Restored[r] = NoRun
                                     THEN disk.runs[r] ELSE Restored[r]],
                         manifest |-> ManifestOf(mem)]
        ELSE Remember(s, Gone) /\ UNCHANGED <<alive, disk>>
  /\ UNCHANGED <<workerVars, stream, failures>>

Crash(s) ==
  /\ Owns(s) /\ Die(s)
  /\ UNCHANGED <<worker, disk, failures>>

-----------------------------------------------------------------------------
(***************************************************************************)
(* POST /api/demo/run.  Memory first, then run.json, then state.json, then *)
(* the streams, then the child; a write that throws leaves what came       *)
(* before it, and the process may die between two writes.                  *)
(***************************************************************************)
Busy(mem) == mem.active # NoRun \/ mem.child # NoRun

StartOf(mem, r) ==
  [mem EXCEPT !.runs[r] = Fresh, !.active = r, !.selected = r]

Spawn(s, mem, r) ==
  /\ Remember(s, [mem EXCEPT !.child = r, !.streamFailure = FALSE,
                             !.deadline = FALSE])
  /\ worker' = [worker EXCEPT ![r] = Spawned(s)]

Start(s, r) ==
  /\ Open(s) /\ ~Busy(server[s])
  /\ worker[r].pc = "unborn" /\ disk.runs[r] = NoRun
  /\ LET mem == StartOf(server[s], r)
     IN \/ /\ disk' = Save(disk, mem, r)
           /\ Spawn(s, mem, r)
           /\ Notify(s, mem)
           /\ UNCHANGED <<failures, alive, pipe>>
        \/ /\ disk' = HalfSaved(disk, mem, r)
           /\ Die(s)
           /\ UNCHANGED <<worker, failures>>
        \/ /\ WriteFails
           /\ disk' \in {disk, HalfSaved(disk, mem, r)}
           /\ Remember(s, mem)
           /\ UNCHANGED <<workerVars, stream, alive>>

Reset(s) ==
  /\ Owns(s) /\ ~Busy(server[s])
  /\ LET mem == [server[s] EXCEPT !.selected = NoRun]
     IN /\ Remember(s, mem)
        /\ disk' = SaveManifest(disk, mem)
        /\ Notify(s, mem)
  /\ UNCHANGED <<workerVars, failures, alive>>

-----------------------------------------------------------------------------
(***************************************************************************)
(* The child's output.  A line is read while the run is running and before *)
(* a line has thrown; a line that throws stops the worker.                 *)
(***************************************************************************)
\* assertResult: the run's own deployment, and exactly its transactions.
AssertResult(rec, hashes) == rec.deployed /\ hashes = rec.transactions

Accepts(rec, line) ==
  CASE line.kind = "deployment" -> ~rec.deployed
    [] line.kind = "result" ->
         rec.result = NoRun /\ AssertResult(rec, line.hashes)
    [] line.kind = "torn" -> FALSE
    [] OTHER -> TRUE

Recorded(rec, line) ==
  CASE line.kind = "event" -> Advance(rec, line.phase)
    [] line.kind = "tx" ->
         Advance([rec EXCEPT !.transactions = @ \cup {line.hash}], line.phase)
    [] line.kind = "deployment" -> Advance([rec EXCEPT !.deployed = TRUE], 2)
    [] line.kind = "result" -> [rec EXCEPT !.result = line.hashes]

\* streamFailure, and SIGTERM for the worker.
Refuse(s, mem, r) ==
  /\ Remember(s, [mem EXCEPT !.streamFailure = TRUE])
  /\ worker' = Terminate(r)

ReadLine(s) ==
  LET r == server[s].child
      rec == server[s].runs[r]
      mem == [server[s] EXCEPT !.runs[r] = Recorded(rec, Head(pipe[r]))]
  IN /\ r # NoRun /\ ~server[s].streamFailure /\ pipe[r] # <<>>
     /\ pipe' = [pipe EXCEPT ![r] = Tail(@)]
     /\ \/ /\ rec.status # "running"
           /\ UNCHANGED <<worker, server, disk, stream, failures>>
        \/ /\ rec.status = "running" /\ Accepts(rec, Head(pipe[r]))
           /\ Remember(s, mem)
           /\ disk' = Persist(disk, mem, r)
           /\ Notify(s, mem)
           /\ UNCHANGED <<worker, failures>>
        \/ /\ rec.status = "running" /\ Accepts(rec, Head(pipe[r]))
           /\ WriteFails
           /\ Refuse(s, mem, r)
           /\ UNCHANGED <<disk, stream>>
        \/ /\ rec.status = "running" /\ ~Accepts(rec, Head(pipe[r]))
           /\ Refuse(s, server[s], r)
           /\ UNCHANGED <<disk, stream, failures>>
     /\ UNCHANGED alive

\* The run's time is over: it has failed, and its worker is told to stop.
DeadlineWithoutKill(s) ==
  LET r == server[s].child
      mem == Fail(server[s], r, "failed")
  IN /\ r # NoRun /\ ~server[s].deadline
     /\ Remember(s, [mem EXCEPT !.deadline = TRUE])
     /\ disk' = SaveFailed(disk, server[s], mem, r)
     /\ NotifyFailed(s, server[s], mem)
     /\ UNCHANGED <<workerVars, failures, alive>>

Deadline(s) ==
  LET r == server[s].child
      mem == Fail(server[s], r, "failed")
  IN /\ r # NoRun /\ ~server[s].deadline
     /\ Remember(s, [mem EXCEPT !.deadline = TRUE])
     /\ disk' = SaveFailed(disk, server[s], mem, r)
     /\ NotifyFailed(s, server[s], mem)
     /\ worker' = Terminate(r)
     /\ UNCHANGED <<pipe, failures, alive>>

(***************************************************************************)
(* execute resumes: the process has exited and its streams are drained.    *)
(***************************************************************************)
Settled(s) ==
  LET r == server[s].child
  IN /\ r # NoRun /\ worker[r].pc = "exited"
     /\ server[s].streamFailure \/ pipe[r] = <<>>

VerifiedByResult(mem, r) ==
  /\ mem.runs[r].status = "running"
  /\ mem.runs[r].result # NoRun
  /\ AssertResult(mem.runs[r], mem.runs[r].result)

Verified(mem, r) ==
  /\ mem.runs[r].status = "running"
  /\ ~mem.streamFailure
  /\ worker[r].code = 0
  /\ mem.runs[r].result # NoRun
  /\ AssertResult(mem.runs[r], mem.runs[r].result)

CompletedBy(mem, r) ==
  [mem EXCEPT !.runs[r].status = "completed", !.runs[r].phase = 8,
              !.active = NoRun, !.child = NoRun]

\* A failed write leaves run.json, or only state.json, behind the memory;
\* active is null already, so the finally block tells nobody.
Complete(s) ==
  LET r == server[s].child
      mem == CompletedBy(server[s], r)
  IN /\ Settled(s) /\ Verified(server[s], r)
     /\ Remember(s, mem)
     /\ \/ /\ disk' = Save(disk, mem, r)
           /\ Notify(s, mem)
           /\ UNCHANGED failures
        \/ /\ WriteFails
           /\ disk' \in {disk, HalfSaved(disk, mem, r)}
           /\ UNCHANGED stream
     /\ Forget(s)
     /\ UNCHANGED <<worker, alive>>

\* The run had ended before its worker did: only the manager becomes free.
ReleaseUntold(s) ==
  LET r == server[s].child
  IN /\ Settled(s) /\ server[s].runs[r].status # "running"
     /\ Remember(s, [server[s] EXCEPT !.child = NoRun,
                       !.active = IF @ = r THEN NoRun ELSE @])
     /\ Forget(s)
     /\ UNCHANGED <<worker, disk, stream, failures, alive>>

Release(s) ==
  LET r == server[s].child
      mem == [server[s] EXCEPT !.child = NoRun,
                !.active = IF @ = r THEN NoRun ELSE @]
  IN /\ Settled(s) /\ server[s].runs[r].status # "running"
     /\ Remember(s, mem)
     /\ Notify(s, mem)
     /\ Forget(s)
     /\ UNCHANGED <<worker, disk, failures, alive>>

\* An exit code, a stream failure, no result: the child is forgotten first,
\* so that fail frees the manager.
Reject(s) ==
  LET r == server[s].child
      mem == Fail([server[s] EXCEPT !.child = NoRun], r, "failed")
  IN /\ Settled(s) /\ server[s].runs[r].status = "running"
     /\ ~Verified(server[s], r)
     /\ Remember(s, mem)
     /\ disk' = Save(disk, mem, r)
     /\ Notify(s, mem)
     /\ Forget(s)
     /\ UNCHANGED <<worker, failures, alive>>

-----------------------------------------------------------------------------
(***************************************************************************)
(* SIGTERM or SIGINT for the dashboard: close() interrupts the active run, *)
(* stops the child and waits for it, then gives the lock back and exits.   *)
(***************************************************************************)
CloseBegins(s) ==
  LET r == server[s].active
      c == server[s].child
      mem == IF r = NoRun THEN server[s] ELSE Fail(server[s], r, "interrupted")
  IN /\ Open(s)
     /\ disk' = IF r = NoRun THEN disk ELSE SaveFailed(disk, server[s], mem, r)
     /\ IF c = NoRun
        THEN Die(s) /\ UNCHANGED worker
        ELSE /\ Remember(s, [mem EXCEPT !.mode = "closing"])
             /\ NotifyFailed(s, server[s], mem)
             /\ worker' = Terminate(c)
             /\ UNCHANGED <<alive, pipe>>
     /\ UNCHANGED failures

CloseEnds(s) ==
  /\ server[s].mode = "closing"
  /\ server[s].child # NoRun => worker[server[s].child].pc = "exited"
  /\ Die(s)
  /\ UNCHANGED <<worker, disk, failures>>

-----------------------------------------------------------------------------
\* GET /api/demo/stream: subscribe, then send the first snapshot.
OpenStream(s) ==
  /\ Owns(s) /\ stream[s] = Closed
  /\ stream' = [stream EXCEPT ![s] = View(server[s])]
  /\ UNCHANGED <<workerVars, server, disk, failures, alive>>

\* The browser leaves, or is too slow and is dropped.
DisposeStream(s) ==
  /\ stream[s] # Closed
  /\ stream' = [stream EXCEPT ![s] = Closed]
  /\ UNCHANGED <<workerVars, server, disk, failures, alive>>

-----------------------------------------------------------------------------
Finishing(s) == Complete(s) \/ Release(s) \/ Reject(s)

ManagerStep(s) ==
  \/ Boot(s) \/ Crash(s)
  \/ \E r \in Run : Start(s, r)
  \/ Reset(s)
  \/ ReadLine(s) \/ Deadline(s) \/ Finishing(s)
  \/ CloseBegins(s) \/ CloseEnds(s)
  \/ OpenStream(s) \/ DisposeStream(s)

Next ==
  \/ \E s \in Server : ManagerStep(s)
  \/ \E r \in Run : WorkerStep(r) /\ UNCHANGED managerVars
  \/ \E r \in ByHand : StartByHand(r) /\ UNCHANGED managerVars

(***************************************************************************)
(* The event loop of a living process runs: timers fire, lines are read,   *)
(* exits are noticed.                                                      *)
(***************************************************************************)
Fairness ==
  /\ \A s \in Server : /\ WF_vars(ReadLine(s)) /\ WF_vars(Deadline(s))
                       /\ WF_vars(Finishing(s)) /\ WF_vars(CloseEnds(s))
  /\ \A r \in Run : WorkerFairness(r)

Spec == Init /\ [][Next]_vars /\ Fairness

-----------------------------------------------------------------------------
Snapshots == {stream[s] : s \in Server} \ {Closed}
Ended == {"completed", "failed", "interrupted"}

\* Whatever was being written when a process died, the next one can restore:
\* every run state.json lists has its run.json.
RestartAlwaysPossible == Restorable

\* A run is called completed, in memory or on disk, only when its worker
\* exited by itself after a result that names every transaction published.
Completed(rec) == rec # NoRun /\ rec.status = "completed"
CompletedWasVerified ==
  \A r \in Run :
    (Completed(disk.runs[r]) \/ \E s \in Server : Completed(server[s].runs[r]))
    => /\ worker[r].pc = "exited" /\ worker[r].code = 0
       /\ \E rec \in {disk.runs[r]} \cup {server[s].runs[r] : s \in Server} :
            Completed(rec) /\ rec.transactions = worker[r].published

\* Two workers never sign at once, whether they belong to this dashboard, to
\* one that died, or to nobody: they would use the same keys and nonces.
AtMostOneSigner ==
  \A r1, r2 \in Run :
    worker[r1].pc = "signing" /\ worker[r2].pc = "signing" => r1 = r2

\* A dashboard that shows no active run has no worker that could still sign:
\* a run that has failed keeps the manager busy until its process is gone.
IdleMeansQuiet ==
  \A s \in Server : Owns(s) /\ server[s].active = NoRun =>
    \A r \in Run : worker[r].parent = s => ~Running(r)

\* As long as the disk takes the writes, a page on an open stream shows the
\* state the manager is in: no change is made without telling it.
StreamIsCurrent ==
  failures = 0 =>
    \A s \in Server : stream[s] # Closed => stream[s] = View(server[s])

\* The journal of a run that has ended is never written differently: late
\* lines, a deadline, a shutdown and a restart may all come after the end.
EndedRunsNeverChange ==
  [][\A r \in Run : disk.runs[r] # NoRun /\ disk.runs[r].status \in Ended
       => disk'.runs[r] = disk.runs[r]]_vars

\* A dashboard with a child becomes free again, or is gone: a worker that
\* waits for the chain for ever does not block the next run for ever.
BusyEnds ==
  \A s \in Server : server[s].child # NoRun ~> server[s].child = NoRun

\* A worker whose dashboard died stops, even when it waits for the chain.
OrphansStop ==
  \A r \in Run :
    Managed(r) /\ Running(r) /\ ~ParentThere(r) ~> ~Running(r)

=============================================================================
