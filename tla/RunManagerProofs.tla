-------------------------- MODULE RunManagerProofs --------------------------
(***************************************************************************)
(* Theorems about the dashboard's runs and their workers, for any number   *)
(* of runs, dashboard processes, lines and failing disk writes.            *)
(***************************************************************************)
EXTENDS RunManager, TLAPS

\* The lines a worker may write.
Line ==
       [kind : {"event"}, phase : Nat]
  \cup [kind : {"tx"}, hash : TxHash, phase : Nat]
  \cup [kind : {"deployment"}]
  \cup [kind : {"result"}, hashes : SUBSET TxHash]
  \cup [kind : {"torn"}]

WorkerState ==
  [pc : {"unborn", "starting", "locked", "signing", "exited"},
   parent : Server \cup {NoServer}, code : {0, 1}, term : BOOLEAN,
   deployed : BOOLEAN, published : SUBSET TxHash, resulted : BOOLEAN,
   lines : Nat]

Records == [Run -> RunRecord \cup {NoRun}]

Memory ==
  [mode : {"unborn", "up", "closing", "gone"}, runs : Records,
   active : Run \cup {NoRun}, selected : Run \cup {NoRun},
   child : Run \cup {NoRun}, streamFailure : BOOLEAN, deadline : BOOLEAN]

Snapshot ==
  [activeRunId : Run \cup {NoRun}, selectedRunId : Run \cup {NoRun},
   runs : Records]

Disk ==
  [runs : Records, manifest : [ids : SUBSET Run, selected : Run \cup {NoRun}]]

TypeOK ==
  /\ worker \in [Run -> WorkerState]
  /\ pipe \in [Run -> Seq(Line)]
  /\ server \in [Server -> Memory]
  /\ disk \in Disk
  /\ stream \in [Server -> Snapshot \cup {Closed}]
  /\ failures \in Nat

-----------------------------------------------------------------------------
(***************************************************************************)
(* The workers.                                                            *)
(***************************************************************************)
\* The lock of worker-lock.ts.
OneLockHolder ==
  \A r1, r2 \in Run : HoldsLock(r1) /\ HoldsLock(r2) => r1 = r2

\* Whoever wrote a result publishes nothing more, and keeps what it has
\* published unless it dies of something else.
Final(r, hashes) ==
  \/ worker[r].pc = "exited" /\ worker[r].code = 1
  \/ /\ worker[r].pc = "exited" \/ worker[r].resulted
     /\ hashes = worker[r].published

ResultLinesAreFinal ==
  \A r \in Run : \A i \in DOMAIN pipe[r] :
    pipe[r][i].kind = "result" => Final(r, pipe[r][i].hashes)

\* A process not spawned yet has published no result, and only a dashboard
\* that has started has workers.
BirthIsRecorded ==
  \A r \in Run :
    /\ worker[r].pc = "unborn" => ~worker[r].resulted
    /\ \A s \in Server : worker[r].parent = s => server[s].mode # "unborn"

WorkerInv == OneLockHolder /\ ResultLinesAreFinal /\ BirthIsRecorded

(***************************************************************************)
(* The dashboards.                                                         *)
(***************************************************************************)
\* The manager's own lock.
OneOwner == \A s1, s2 \in Server : Owns(s1) /\ Owns(s2) => s1 = s2

\* A process not started yet, or dead, has no memory and no stream.
Quiet(s) == server[s] \in {Blank, Gone} /\ stream[s] = Closed

\* The child is the active run's, a live worker is the child, and an active
\* run is known.
Employed(s) ==
  LET mem == server[s]
  IN /\ mem.child # NoRun => mem.active = mem.child
     /\ mem.active # NoRun => mem.runs[mem.active] # NoRun
     /\ \A r \in Run : worker[r].parent = s /\ Running(r) => mem.child = r

\* The manifest may list every run in memory, except one whose start failed.
Journaled(s) ==
  \A r \in Known(server[s]) :
    \/ disk.runs[r] # NoRun
    \/ server[s].active = r /\ server[s].child = NoRun

\* A run still running in memory has not ended on disk.
RunningRecord(rec) == rec # NoRun /\ rec.status = "running"
EndedRecord(rec) == rec # NoRun /\ rec.status \in Ended
NotEndedOnDisk(s) ==
  \A r \in Run : RunningRecord(server[s].runs[r]) => ~EndedRecord(disk.runs[r])

\* A result in memory is the final one of its worker.
ResultIsFinal(s) ==
  \A r \in Run :
    LET rec == server[s].runs[r]
    IN RunningRecord(rec) /\ rec.result # NoRun => Final(r, rec.result)

VerifiedRecord(r, rec) ==
  Completed(rec) => /\ worker[r].pc = "exited" /\ worker[r].code = 0
                    /\ rec.transactions = worker[r].published
VerifiedInMemory(s) == \A r \in Run : VerifiedRecord(r, server[s].runs[r])
VerifiedOnDisk == \A r \in Run : VerifiedRecord(r, disk.runs[r])

Current(s) ==
  failures = 0 /\ stream[s] # Closed => stream[s] = View(server[s])

ServerInv(s) ==
  \/ Quiet(s)
  \/ /\ Owns(s)
     /\ Employed(s) /\ Journaled(s) /\ NotEndedOnDisk(s)
     /\ ResultIsFinal(s) /\ VerifiedInMemory(s) /\ Current(s)

RunsInv ==
  /\ TypeOK /\ WorkerInv
  /\ OneOwner /\ \A s \in Server : ServerInv(s)
  /\ Restorable /\ VerifiedOnDisk

-----------------------------------------------------------------------------
(***************************************************************************)
(* What any step of one worker does to its process and its pipe.           *)
(***************************************************************************)
Kept(r) ==
  \/ worker'[r].pc = "exited" /\ worker'[r].code = 1
  \/ /\ worker'[r].pc = "exited" \/ worker'[r].resulted
     /\ worker'[r].published = worker[r].published

WorkerMoves(r) ==
  /\ worker' \in [Run -> WorkerState]
  /\ \A q \in Run \ {r} : worker'[q] = worker[q]
  /\ worker[r].pc # "exited"
  /\ worker'[r].pc # "unborn"
  /\ worker'[r].parent \in {worker[r].parent, NoServer}
  /\ Running(r)' => worker'[r].parent = NoServer \/ Running(r)
  /\ HoldsLock(r)' => HoldsLock(r) \/ LockFree
  /\ worker[r].resulted => Kept(r)

PipeGrows(r) ==
  /\ pipe' \in [Run -> Seq(Line)]
  /\ \A q \in Run \ {r} : pipe'[q] = pipe[q]
  /\ \A i \in DOMAIN pipe'[r] :
       \/ i \in DOMAIN pipe[r] /\ pipe'[r][i] = pipe[r][i]
       \/ pipe'[r][i].kind = "result" => Final(r, pipe[r][i].hashes)'

LEMMA UnbornTyped == Unborn \in WorkerState
BY DEF Unborn, WorkerState

LEMMA WritesOneLine ==
  ASSUME TypeOK, NEW r \in Run, NEW line \in Line, Write(r, line)
  PROVE  /\ pipe' \in [Run -> Seq(Line)]
         /\ \A q \in Run \ {r} : pipe'[q] = pipe[q]
         /\ \A i \in DOMAIN pipe'[r] :
              (i \in DOMAIN pipe[r] /\ pipe'[r][i] = pipe[r][i]) \/ pipe'[r][i] = line
<1>1. pipe \in [Run -> Seq(Line)] /\ pipe[r] \in Seq(Line)
  BY DEF TypeOK
<1>2. CASE pipe' = pipe
  BY <1>1, <1>2
<1>3. CASE pipe' = [pipe EXCEPT ![r] = Append(@, line)]
  <2>1. pipe'[r] = Append(pipe[r], line)
    BY <1>1, <1>3
  <2>2. \A i \in DOMAIN Append(pipe[r], line) :
          \/ i \in DOMAIN pipe[r] /\ Append(pipe[r], line)[i] = pipe[r][i]
          \/ Append(pipe[r], line)[i] = line
    BY <1>1
  <2>3. Append(pipe[r], line) \in Seq(Line)
    BY <1>1
  <2>4. QED
    BY <1>1, <1>3, <2>1, <2>2, <2>3
<1>4. QED
  BY <1>2, <1>3 DEF Write

LEMMA SamePipes ==
  ASSUME TypeOK, NEW r \in Run, UNCHANGED pipe
  PROVE  PipeGrows(r)
BY DEF TypeOK, PipeGrows

LEMMA HarmlessLine ==
  ASSUME TypeOK, NEW r \in Run, NEW line \in Line, line.kind # "result",
         Write(r, line)
  PROVE  PipeGrows(r)
BY WritesOneLine DEF PipeGrows

\* Exit after anything but a result is a failure.
LEMMA ExitMoves ==
  ASSUME TypeOK, NEW r \in Run, NEW code \in {0, 1}, Exit(r, code),
         worker[r].pc # "exited"
  PROVE  WorkerMoves(r)
<1>1. worker \in [Run -> WorkerState] /\ worker[r] \in WorkerState
  BY DEF TypeOK
<1> DEFINE w == [Unborn EXCEPT !.pc = "exited", !.code = code,
                   !.published = IF code = 0 THEN worker[r].published ELSE {}]
<1>2. /\ w \in WorkerState /\ w.pc = "exited" /\ w.code = code
      /\ w.parent = NoServer
      /\ code = 0 => w.published = worker[r].published
  BY <1>1, UnbornTyped DEF Unborn, WorkerState
<1>3. worker' = [worker EXCEPT ![r] = w]
  BY DEF Exit
<1> HIDE DEF w
<1>4. QED
  BY <1>1, <1>2, <1>3 DEF WorkerMoves, Kept, Running, HoldsLock

LEMMA MoveMoves ==
  ASSUME TypeOK, NEW r \in Run, NEW pc \in {"locked", "signing"}, Move(r, pc),
         Running(r), HoldsLock(r) \/ LockFree
  PROVE  WorkerMoves(r)
<1>1. worker \in [Run -> WorkerState] /\ worker[r] \in WorkerState
  BY DEF TypeOK
<1> DEFINE w == [worker[r] EXCEPT !.pc = pc]
<1>2. /\ w \in WorkerState /\ w.pc = pc
      /\ w.parent = worker[r].parent
      /\ w.resulted = worker[r].resulted
      /\ w.published = worker[r].published
  BY <1>1 DEF WorkerState
<1>3. worker' = [worker EXCEPT ![r] = w]
  BY <1>1 DEF Move
<1> HIDE DEF w
<1>4. QED
  BY <1>1, <1>2, <1>3 DEF WorkerMoves, Kept, Running, HoldsLock

\* A line written: the process stays where it is.
LEMMA SpeakingMoves ==
  ASSUME TypeOK, NEW r \in Run, Working(r), NEW w \in WorkerState,
         worker' = [worker EXCEPT ![r] = w],
         w.pc = worker[r].pc, w.parent = worker[r].parent
  PROVE  WorkerMoves(r)
<1>1. worker \in [Run -> WorkerState] /\ worker[r] \in WorkerState
  BY DEF TypeOK
<1>2. QED
  BY <1>1 DEF WorkerMoves, Kept, Running, HoldsLock, Working

LEMMA StartByHandMoves ==
  ASSUME TypeOK, BirthIsRecorded, NEW r \in Run, StartByHand(r)
  PROVE  WorkerMoves(r) /\ PipeGrows(r)
<1>1. worker \in [Run -> WorkerState] /\ worker[r] \in WorkerState
  BY DEF TypeOK
<1> DEFINE w == Spawned(NoServer)
<1>2. w \in WorkerState /\ w.pc = "starting" /\ w.parent = NoServer
  BY DEF Spawned, Unborn, WorkerState
<1>3. worker' = [worker EXCEPT ![r] = w] /\ worker[r].pc = "unborn" /\ UNCHANGED pipe
  BY DEF StartByHand
<1>4. ~worker[r].resulted
  BY <1>3 DEF BirthIsRecorded
<1> HIDE DEF w
<1>5. WorkerMoves(r)
  BY <1>1, <1>2, <1>3, <1>4 DEF WorkerMoves, Kept, Running, HoldsLock
<1>6. QED
  BY <1>3, <1>5, SamePipes

LEMMA PublishMoves ==
  ASSUME TypeOK, NEW r \in Run, Publish(r)
  PROVE  WorkerMoves(r) /\ PipeGrows(r)
<1>1. worker \in [Run -> WorkerState] /\ worker[r] \in WorkerState
  BY DEF TypeOK
<1> DEFINE w == [worker[r] EXCEPT !.lines = @ + 1]
<1>2. w \in WorkerState /\ w.pc = worker[r].pc /\ w.parent = worker[r].parent
  BY <1>1 DEF WorkerState
<1>3. worker' = [worker EXCEPT ![r] = w] /\ Working(r)
  BY <1>1 DEF Publish, Speaking
<1> HIDE DEF w
<1>4. WorkerMoves(r)
  BY <1>2, <1>3, SpeakingMoves
<1>5. PICK p \in LinePhase : Write(r, [kind |-> "event", phase |-> p])
  BY DEF Publish
<1>6. [kind |-> "event", phase |-> p] \in Line
  BY RunsAssumption DEF Line
<1>7. QED
  BY <1>4, <1>5, <1>6, HarmlessLine

LEMMA PublishTransactionMoves ==
  ASSUME TypeOK, NEW r \in Run, PublishTransaction(r)
  PROVE  WorkerMoves(r) /\ PipeGrows(r)
<1>1. worker \in [Run -> WorkerState] /\ worker[r] \in WorkerState
  BY DEF TypeOK
<1>2. PICK h \in TxHash \ worker[r].published : \E p \in LinePhase :
        /\ Write(r, [kind |-> "tx", hash |-> h, phase |-> p])
        /\ worker' = [worker EXCEPT ![r].published = @ \cup {h},
                                    ![r].lines = @ + 1]
  BY DEF PublishTransaction
<1>3. PICK p \in LinePhase :
        /\ Write(r, [kind |-> "tx", hash |-> h, phase |-> p])
        /\ worker' = [worker EXCEPT ![r].published = @ \cup {h},
                                    ![r].lines = @ + 1]
  BY <1>2
<1> DEFINE w == [worker[r] EXCEPT !.published = worker[r].published \cup {h},
                                 !.lines = worker[r].lines + 1]
<1>4. w \in WorkerState /\ w.pc = worker[r].pc /\ w.parent = worker[r].parent
  <2>1. /\ worker[r].published \cup {h} \in SUBSET TxHash
        /\ worker[r].lines + 1 \in Nat
    BY <1>1 DEF WorkerState
  <2>2. QED
    BY <1>1, <2>1 DEF WorkerState
<1>5. worker' = [worker EXCEPT ![r] = w] /\ Working(r)
  BY <1>1, <1>3 DEF PublishTransaction, Speaking
<1> HIDE DEF w
<1>6. WorkerMoves(r)
  BY <1>4, <1>5, SpeakingMoves
<1>7. [kind |-> "tx", hash |-> h, phase |-> p] \in Line
  BY RunsAssumption DEF Line
<1>8. QED
  BY <1>3, <1>6, <1>7, HarmlessLine

LEMMA PublishDeploymentMoves ==
  ASSUME TypeOK, NEW r \in Run, PublishDeployment(r)
  PROVE  WorkerMoves(r) /\ PipeGrows(r)
<1>1. worker \in [Run -> WorkerState] /\ worker[r] \in WorkerState
  BY DEF TypeOK
<1> DEFINE w == [worker[r] EXCEPT !.deployed = TRUE, !.lines = worker[r].lines + 1]
<1>2. w \in WorkerState /\ w.pc = worker[r].pc /\ w.parent = worker[r].parent
  <2>1. worker[r].lines + 1 \in Nat
    BY <1>1 DEF WorkerState
  <2>2. QED
    BY <1>1, <2>1 DEF WorkerState
<1>3. worker' = [worker EXCEPT ![r] = w] /\ Working(r)
  BY <1>1 DEF PublishDeployment, Speaking
<1> HIDE DEF w
<1>4. WorkerMoves(r)
  BY <1>2, <1>3, SpeakingMoves
<1>5. [kind |-> "deployment"] \in Line
  BY DEF Line
<1>6. QED
  BY <1>4, <1>5, HarmlessLine DEF PublishDeployment

LEMMA PublishResultMoves ==
  ASSUME TypeOK, NEW r \in Run, PublishResult(r)
  PROVE  WorkerMoves(r) /\ PipeGrows(r)
<1>1. worker \in [Run -> WorkerState] /\ worker[r] \in WorkerState
  BY DEF TypeOK
<1> DEFINE w == [worker[r] EXCEPT !.resulted = TRUE]
           line == [kind |-> "result", hashes |-> worker[r].published]
<1>2. /\ w \in WorkerState /\ w.pc = worker[r].pc /\ w.parent = worker[r].parent
      /\ w.resulted /\ w.published = worker[r].published
  BY <1>1 DEF WorkerState
<1>3. worker' = [worker EXCEPT ![r] = w] /\ Working(r) /\ Write(r, line)
  BY <1>1 DEF PublishResult
<1> HIDE DEF w
<1>4. WorkerMoves(r)
  BY <1>2, <1>3, SpeakingMoves
<1>5. worker'[r] = w
  BY <1>1, <1>3
<1>6. line \in Line /\ line.hashes = worker[r].published
  BY <1>1 DEF Line, WorkerState
<1> HIDE DEF line
<1>7. /\ pipe' \in [Run -> Seq(Line)]
      /\ \A q \in Run \ {r} : pipe'[q] = pipe[q]
      /\ \A i \in DOMAIN pipe'[r] :
           (i \in DOMAIN pipe[r] /\ pipe'[r][i] = pipe[r][i]) \/ pipe'[r][i] = line
  BY <1>3, <1>6, WritesOneLine
<1>8. ASSUME NEW i \in DOMAIN pipe'[r], pipe'[r][i] = line
      PROVE  Final(r, pipe[r][i].hashes)'
  BY <1>2, <1>5, <1>6, <1>8 DEF Final
<1>9. QED
  BY <1>4, <1>7, <1>8 DEF PipeGrows

LEMMA ScriptFailsMoves ==
  ASSUME TypeOK, NEW r \in Run, ScriptFails(r)
  PROVE  WorkerMoves(r) /\ PipeGrows(r)
<1>1. [kind |-> "event", phase |-> 0] \in Line
  BY DEF Line
<1>2. PipeGrows(r)
  BY <1>1, HarmlessLine DEF ScriptFails
<1>3. QED
  BY <1>2, ExitMoves DEF ScriptFails, Working

LEMMA SignalledMoves ==
  ASSUME TypeOK, NEW r \in Run, Signalled(r)
  PROVE  WorkerMoves(r) /\ PipeGrows(r)
<1>1. [kind |-> "torn"] \in Line
  BY DEF Line
<1>2. PipeGrows(r)
  BY <1>1, HarmlessLine, SamePipes DEF Signalled
<1>3. QED
  BY <1>2, ExitMoves DEF Signalled, Running

LEMMA SilentMoves ==
  ASSUME TypeOK, NEW r \in Run,
         AcquireLock(r) \/ RequireParent(r) \/ Finish(r) \/ ParentLost(r)
  PROVE  WorkerMoves(r) /\ PipeGrows(r)
<1>1. CASE AcquireLock(r)
  BY <1>1, MoveMoves, ExitMoves, SamePipes DEF AcquireLock, Running
<1>2. CASE RequireParent(r)
  BY <1>2, MoveMoves, ExitMoves, SamePipes DEF RequireParent, Running, HoldsLock
<1>3. CASE Finish(r)
  BY <1>3, ExitMoves, SamePipes DEF Finish
<1>4. CASE ParentLost(r)
  BY <1>4, ExitMoves, SamePipes DEF ParentLost
<1>5. QED
  BY <1>1, <1>2, <1>3, <1>4

LEMMA StepMoves ==
  ASSUME TypeOK, BirthIsRecorded, NEW r \in Run, WorkerStep(r) \/ StartByHand(r)
  PROVE  WorkerMoves(r) /\ PipeGrows(r)
BY StartByHandMoves, PublishMoves, PublishTransactionMoves,
   PublishDeploymentMoves, PublishResultMoves, ScriptFailsMoves,
   SignalledMoves, SilentMoves DEF WorkerStep

-----------------------------------------------------------------------------
(***************************************************************************)
(* A step of a worker keeps the invariant.                                 *)
(***************************************************************************)
\* What was final of a run stays so.
LEMMA FinalStays ==
  ASSUME TypeOK, NEW r \in Run, WorkerMoves(r), NEW q \in Run, NEW hashes,
         Final(q, hashes)
  PROVE  \/ worker'[q].pc = "exited" /\ worker'[q].code = 1
         \/ /\ worker'[q].pc = "exited" \/ worker'[q].resulted
            /\ hashes = worker'[q].published
BY DEF WorkerMoves, Kept, Final

LEMMA WorkerStepKeepsWorkers ==
  ASSUME RunsInv, NEW r \in Run, WorkerMoves(r), PipeGrows(r),
         UNCHANGED managerVars
  PROVE  WorkerInv'
<1> USE DEF RunsInv, WorkerInv
<1>1. OneLockHolder'
  BY DEF OneLockHolder, LockFree, WorkerMoves, HoldsLock
<1>2. ResultLinesAreFinal'
  <2> SUFFICES ASSUME NEW q \in Run, NEW i \in DOMAIN pipe'[q],
                      pipe'[q][i].kind = "result"
               PROVE  Final(q, pipe[q][i].hashes)'
    BY DEF ResultLinesAreFinal
  <2>1. CASE i \in DOMAIN pipe[q] /\ pipe'[q][i] = pipe[q][i]
    <3>1. Final(q, pipe[q][i].hashes)
      BY <2>1 DEF ResultLinesAreFinal
    <3>2. QED
      BY <2>1, <3>1, FinalStays DEF Final
  <2>2. CASE ~ (i \in DOMAIN pipe[q] /\ pipe'[q][i] = pipe[q][i])
    BY <2>2 DEF PipeGrows
  <2>3. QED
    BY <2>1, <2>2
<1>3. BirthIsRecorded'
  BY RunsAssumption DEF BirthIsRecorded, WorkerMoves, managerVars
<1>4. QED
  BY <1>1, <1>2, <1>3

LEMMA WorkerStepKeepsServers ==
  ASSUME RunsInv, NEW r \in Run, WorkerMoves(r), UNCHANGED managerVars,
         NEW s \in Server
  PROVE  ServerInv(s)'
<1> USE DEF RunsInv, managerVars
<1>1. CASE Quiet(s)
  BY <1>1 DEF ServerInv, Quiet
<1>2. CASE ~Quiet(s)
  <2>1. /\ Owns(s) /\ Employed(s) /\ Journaled(s) /\ NotEndedOnDisk(s)
        /\ ResultIsFinal(s) /\ VerifiedInMemory(s) /\ Current(s)
    BY <1>2 DEF ServerInv
  <2>2. Employed(s)'
    BY <2>1, RunsAssumption DEF Employed, WorkerMoves, Running
  <2>3. ResultIsFinal(s)'
    <3> SUFFICES ASSUME NEW q \in Run, RunningRecord(server[s].runs[q]),
                        server[s].runs[q].result # NoRun
                 PROVE  Final(q, server[s].runs[q].result)'
      BY DEF ResultIsFinal, RunningRecord
    <3>1. Final(q, server[s].runs[q].result)
      BY <2>1 DEF ResultIsFinal
    <3>2. QED
      BY <3>1, FinalStays DEF Final
  <2>4. VerifiedInMemory(s)'
    BY <2>1 DEF VerifiedInMemory, VerifiedRecord, Completed, WorkerMoves
  <2>5. (Owns(s) /\ Journaled(s) /\ NotEndedOnDisk(s) /\ Current(s))'
    BY <2>1 DEF Owns, Journaled, Known, NotEndedOnDisk, RunningRecord,
                EndedRecord, Current, View
  <2>6. QED
    BY <2>2, <2>3, <2>4, <2>5 DEF ServerInv
<1>3. QED
  BY <1>1, <1>2

LEMMA WorkerStepKeepsInv ==
  ASSUME RunsInv, NEW r \in Run, WorkerStep(r) \/ StartByHand(r),
         UNCHANGED managerVars
  PROVE  RunsInv'
<1>1. WorkerMoves(r) /\ PipeGrows(r)
  BY StepMoves DEF RunsInv, WorkerInv
<1>2. TypeOK'
  BY <1>1 DEF RunsInv, TypeOK, WorkerMoves, PipeGrows, managerVars
<1>3. WorkerInv'
  BY <1>1, WorkerStepKeepsWorkers
<1>4. \A s \in Server : ServerInv(s)'
  BY <1>1, WorkerStepKeepsServers
<1>5. OneOwner' /\ Restorable'
  BY DEF RunsInv, OneOwner, Owns, Restorable, managerVars
<1>6. VerifiedOnDisk'
  BY <1>1 DEF RunsInv, VerifiedOnDisk, VerifiedRecord, Completed, WorkerMoves, managerVars
<1>7. QED
  BY <1>2, <1>3, <1>4, <1>5, <1>6 DEF RunsInv

-----------------------------------------------------------------------------
(***************************************************************************)
(* What the operators of the manager do to memory and disk.                *)
(***************************************************************************)
LEMMA MemoryTyped ==
  ASSUME TypeOK, NEW s \in Server
  PROVE  /\ server \in [Server -> Memory] /\ server[s] \in Memory
         /\ server[s].runs \in Records
         /\ server[s].child \in Run \cup {NoRun}
         /\ server[s].active \in Run \cup {NoRun}
BY DEF TypeOK, Memory

LEMMA WritesManifest ==
  ASSUME NEW d \in Disk, NEW mem \in Memory
  PROVE  /\ SaveManifest(d, mem) \in Disk
         /\ SaveManifest(d, mem).runs = d.runs
         /\ SaveManifest(d, mem).manifest.ids = Known(mem)
<1>1. /\ ManifestOf(mem) \in [ids : SUBSET Run, selected : Run \cup {NoRun}]
      /\ ManifestOf(mem).ids = Known(mem)
  BY DEF ManifestOf, Memory, Known
<1>2. QED
  BY <1>1 DEF SaveManifest, Disk

\* Writes of one run change no other run's file.
Wrote(d, e, mem, r) ==
  /\ e \in Disk
  /\ e.runs[r] = mem.runs[r]
  /\ \A q \in Run \ {r} : e.runs[q] = d.runs[q]

LEMMA WritesToDisk ==
  ASSUME NEW d \in Disk, NEW mem \in Memory, NEW r \in Run
  PROVE  /\ Wrote(d, Persist(d, mem, r), mem, r)
         /\ Persist(d, mem, r).manifest.ids = d.manifest.ids
         /\ Wrote(d, Save(d, mem, r), mem, r)
         /\ Save(d, mem, r).manifest.ids = Known(mem)
<1> DEFINE runs == [d.runs EXCEPT ![r] = mem.runs[r]]
<1>1. /\ runs \in Records /\ runs[r] = mem.runs[r]
      /\ \A q \in Run \ {r} : runs[q] = d.runs[q]
  BY DEF Disk, Memory, Records
<1>2. Persist(d, mem, r) = [d EXCEPT !.runs = runs]
  BY DEF Persist, Disk
<1> HIDE DEF runs
<1>3. /\ Persist(d, mem, r) \in Disk /\ Persist(d, mem, r).runs = runs
      /\ Persist(d, mem, r).manifest = d.manifest
  BY <1>1, <1>2 DEF Disk
<1>4. /\ Save(d, mem, r) \in Disk /\ Save(d, mem, r).runs = runs
      /\ Save(d, mem, r).manifest.ids = Known(mem)
  BY <1>3, WritesManifest DEF Save
<1>5. QED
  BY <1>1, <1>3, <1>4 DEF Wrote

\* What fail makes of a record.
Fails(mem, m, r, status) ==
  /\ m \in Memory
  /\ m.mode = mem.mode /\ m.child = mem.child /\ m.selected = mem.selected
  /\ \A q \in Run \ {r} : m.runs[q] = mem.runs[q]
  /\ mem.runs[r].status # "running" => m = mem
  /\ mem.runs[r].status = "running" =>
       /\ m.runs[r] = [mem.runs[r] EXCEPT !.status = status]
       /\ m.active =
            IF mem.active = r /\ mem.child = NoRun THEN NoRun ELSE mem.active

LEMMA FailsTheRun ==
  ASSUME NEW mem \in Memory, NEW r \in Run, mem.runs[r] # NoRun,
         NEW status \in {"failed", "interrupted"}
  PROVE  Fails(mem, Fail(mem, r, status), r, status)
<1>1. CASE mem.runs[r].status # "running"
  BY <1>1 DEF Fail, Fails
<1>2. CASE mem.runs[r].status = "running"
  <2> DEFINE rec == [mem.runs[r] EXCEPT !.status = status]
             runs == [mem.runs EXCEPT ![r] = rec]
             active == IF mem.active = r /\ mem.child = NoRun THEN NoRun ELSE mem.active
  <2>1. mem.runs \in Records /\ mem.runs[r] \in RunRecord
    BY DEF Memory, Records
  <2>2. rec \in RunRecord
    BY <2>1 DEF RunRecord
  <2>3. Fail(mem, r, status) = [mem EXCEPT !.runs = runs, !.active = active]
    BY <1>2, <2>1 DEF Fail, Memory, Records
  <2> HIDE DEF rec
  <2>4. runs \in Records /\ runs[r] = rec /\ \A q \in Run \ {r} : runs[q] = mem.runs[q]
    BY <2>1, <2>2 DEF Records
  <2>5. active \in Run \cup {NoRun}
    BY DEF Memory
  <2> HIDE DEF runs, active
  <2>6. [mem EXCEPT !.runs = runs, !.active = active] \in Memory
    BY <2>4, <2>5 DEF Memory
  <2>7. QED
    BY <1>2, <2>3, <2>4, <2>6 DEF Fails, Memory, rec, active
<1>3. QED
  BY <1>1, <1>2

LEMMA BlankTyped == Blank \in Memory /\ Gone \in Memory
BY DEF Blank, Gone, Memory, Records

LEMMA ViewTyped == ASSUME NEW mem \in Memory PROVE View(mem) \in Snapshot
BY DEF View, Snapshot, Memory

\* A failed run is neither running nor completed, and is a record.
LEMMA FailedRecord ==
  ASSUME NEW rec \in RunRecord, NEW status \in {"failed", "interrupted"},
         NEW failed, failed = [rec EXCEPT !.status = status]
  PROVE  /\ failed \in RunRecord /\ failed # NoRun
         /\ failed.status = status
         /\ ~RunningRecord(failed) /\ ~Completed(failed)
BY RunsAssumption DEF RunRecord, RunningRecord, Completed

-----------------------------------------------------------------------------
(***************************************************************************)
(* What the steps of a manager leave alone.                                *)
(***************************************************************************)
PipesShrink ==
  /\ pipe' \in [Run -> Seq(Line)]
  /\ \A q \in Run : \A i \in DOMAIN pipe'[q] :
       \E j \in DOMAIN pipe[q] : pipe'[q][i] = pipe[q][j]

WorkersStay ==
  /\ worker' \in [Run -> WorkerState]
  /\ \A q \in Run :
       /\ worker'[q].pc = worker[q].pc
       /\ worker'[q].parent = worker[q].parent
       /\ worker'[q].code = worker[q].code
       /\ worker'[q].published = worker[q].published
       /\ worker'[q].resulted = worker[q].resulted

LEMMA SamePipesShrink == ASSUME TypeOK, UNCHANGED pipe PROVE PipesShrink
BY DEF TypeOK, PipesShrink

LEMMA ForgetShrinks ==
  ASSUME TypeOK, NEW s \in Server, Forget(s) PROVE PipesShrink
<1>1. pipe \in [Run -> Seq(Line)]
  BY DEF TypeOK
<1>2. \A q \in Run : pipe'[q] = IF server[s].child = q THEN <<>> ELSE pipe[q]
  BY DEF Forget
<1>3. DOMAIN pipe' = Run /\ pipe' = [q \in Run |-> pipe'[q]]
  BY DEF Forget
<1>4. DOMAIN <<>> = {} /\ <<>> \in Seq(Line)
  OBVIOUS
<1>5. QED
  BY <1>1, <1>2, <1>3, <1>4 DEF PipesShrink

LEMMA ReadingShrinks ==
  ASSUME TypeOK, NEW r \in Run, pipe[r] # <<>>, pipe' = [pipe EXCEPT ![r] = Tail(@)]
  PROVE  PipesShrink
<1>1. pipe \in [Run -> Seq(Line)] /\ pipe[r] \in Seq(Line)
  BY DEF TypeOK
<1>2. pipe' = [pipe EXCEPT ![r] = Tail(pipe[r])]
  OBVIOUS
<1>3. /\ Tail(pipe[r]) \in Seq(Line)
      /\ \A i \in DOMAIN Tail(pipe[r]) :
           i + 1 \in DOMAIN pipe[r] /\ Tail(pipe[r])[i] = pipe[r][i + 1]
  BY <1>1
<1>4. QED
  BY <1>1, <1>2, <1>3 DEF PipesShrink

LEMMA SameWorkersStay == ASSUME TypeOK, UNCHANGED worker PROVE WorkersStay
BY DEF TypeOK, WorkersStay

LEMMA TerminateStays ==
  ASSUME TypeOK, NEW r \in Run, worker' = Terminate(r)
  PROVE  WorkersStay
<1>1. worker \in [Run -> WorkerState] /\ worker[r] \in WorkerState
  BY DEF TypeOK
<1> DEFINE w == [worker[r] EXCEPT !.term = worker[r].term \/ Running(r)]
<1>2. worker' = [worker EXCEPT ![r] = w]
  BY <1>1 DEF Terminate
<1>3. worker[r].term \/ Running(r) \in BOOLEAN
  BY <1>1 DEF WorkerState, Running
<1>4. w \in WorkerState
  BY <1>1, <1>3 DEF WorkerState
<1>5. /\ w.pc = worker[r].pc /\ w.parent = worker[r].parent
      /\ w.code = worker[r].code /\ w.published = worker[r].published
      /\ w.resulted = worker[r].resulted
  BY <1>1 DEF WorkerState
<1> HIDE DEF w
<1>6. QED
  BY <1>1, <1>2, <1>4, <1>5 DEF WorkersStay

LEMMA FinalStaysToo ==
  ASSUME WorkersStay, NEW q \in Run, NEW hashes, Final(q, hashes)
  PROVE  \/ worker'[q].pc = "exited" /\ worker'[q].code = 1
         \/ /\ worker'[q].pc = "exited" \/ worker'[q].resulted
            /\ hashes = worker'[q].published
BY DEF WorkersStay, Final

LEMMA ManagersKeepWorkers ==
  ASSUME WorkerInv, WorkersStay, PipesShrink,
         \A t \in Server : server[t].mode # "unborn" => server'[t].mode # "unborn"
  PROVE  WorkerInv'
<1>1. OneLockHolder'
  BY DEF WorkerInv, OneLockHolder, HoldsLock, WorkersStay
<1>2. ResultLinesAreFinal'
  <2> SUFFICES ASSUME NEW q \in Run, NEW i \in DOMAIN pipe'[q],
                      pipe'[q][i].kind = "result"
               PROVE  Final(q, pipe[q][i].hashes)'
    BY DEF ResultLinesAreFinal
  <2>1. PICK j \in DOMAIN pipe[q] : pipe'[q][i] = pipe[q][j]
    BY DEF PipesShrink
  <2>2. Final(q, pipe[q][j].hashes)
    BY <2>1 DEF WorkerInv, ResultLinesAreFinal
  <2>3. QED
    BY <2>1, <2>2, FinalStaysToo DEF Final
<1>3. BirthIsRecorded'
  BY DEF WorkerInv, BirthIsRecorded, WorkersStay
<1>4. QED
  BY <1>1, <1>2, <1>3 DEF WorkerInv

-----------------------------------------------------------------------------
(***************************************************************************)
(* What a step of dashboard s must show to keep the invariant.  The others *)
(* are quiet, because s is the owner or becomes it.                        *)
(***************************************************************************)
JournalGrows ==
  \A q \in Run :
    \/ disk'.runs[q] = disk.runs[q]
    \/ ~EndedRecord(disk.runs[q]) /\ VerifiedRecord(q, disk.runs[q])'

ManagerMoves(s) ==
  /\ server' \in [Server -> Memory]
  /\ stream' \in [Server -> Snapshot \cup {Closed}]
  /\ disk' \in Disk /\ failures' \in Nat
  /\ \A t \in Server \ {s} : server'[t] = server[t] /\ stream'[t] = stream[t]
  /\ Owns(s) \/ ManagerLockFree
  /\ server'[s].mode # "unborn"
  /\ ServerInv(s)'
  /\ Restorable' /\ JournalGrows

LEMMA QuietNotOwner ==
  ASSUME NEW s \in Server, Quiet(s)
  PROVE  ~Owns(s)
BY DEF Quiet, Owns, Blank, Gone

LEMMA LiveServer ==
  ASSUME RunsInv, NEW s \in Server, Owns(s) \/ server[s].child # NoRun \/ stream[s] # Closed
  PROVE  /\ Owns(s) /\ ~Quiet(s)
         /\ Employed(s) /\ Journaled(s) /\ NotEndedOnDisk(s)
         /\ ResultIsFinal(s) /\ VerifiedInMemory(s) /\ Current(s)
<1>1. Quiet(s) => server[s].child = NoRun /\ stream[s] = Closed
  BY DEF Quiet, Blank, Gone
<1>2. QED
  BY <1>1, QuietNotOwner DEF RunsInv, ServerInv

LEMMA ManagerMovesKeepInv ==
  ASSUME RunsInv, NEW s \in Server, ManagerMoves(s), WorkerInv',
         worker' \in [Run -> WorkerState], pipe' \in [Run -> Seq(Line)],
         \A q \in Run : worker[q].pc = "exited" =>
           /\ worker'[q].pc = "exited" /\ worker'[q].code = worker[q].code
           /\ worker'[q].published = worker[q].published
  PROVE  RunsInv'
<1>1. TypeOK'
  BY DEF ManagerMoves, TypeOK
<1>2. \A t \in Server \ {s} : Quiet(t)
  BY LiveServer, QuietNotOwner DEF RunsInv, OneOwner, ManagerMoves, ManagerLockFree, ServerInv
<1>3. \A t \in Server \ {s} : Quiet(t)'
  BY <1>2 DEF ManagerMoves, Quiet
<1>4. \A t \in Server : ServerInv(t)'
  BY <1>3 DEF ManagerMoves, ServerInv
<1>5. OneOwner'
  BY <1>3 DEF OneOwner, Owns, Quiet, Blank, Gone
<1>6. VerifiedOnDisk'
  BY DEF VerifiedOnDisk, VerifiedRecord, Completed, RunsInv, ManagerMoves, JournalGrows
<1>7. QED
  BY <1>1, <1>4, <1>5, <1>6 DEF RunsInv, ManagerMoves

(***************************************************************************)
(* The steps of a living dashboard that change records and keep them: old  *)
(* is what it remembered of a run, new what it remembers now.              *)
(***************************************************************************)
RecordKept(s, q) ==
  LET old == server[s].runs[q]
      new == server'[s].runs[q]
  IN /\ \/ new = old
        \/ /\ RunningRecord(old) /\ new # NoRun
           /\ RunningRecord(new) /\ new.result # NoRun => Final(q, server[s].runs[q].result)'
           /\ VerifiedRecord(q, server[s].runs[q])'
     /\ \/ disk'.runs[q] = disk.runs[q]
        \/ RunningRecord(old) /\ disk'.runs[q] = new

RecordStep(s) ==
  /\ server' \in [Server -> Memory]
  /\ stream' \in [Server -> Snapshot \cup {Closed}]
  /\ disk' \in Disk /\ failures' \in Nat
  /\ \A t \in Server \ {s} : server'[t] = server[t] /\ stream'[t] = stream[t]
  /\ Owns(s) /\ Owns(s)'
  /\ \A q \in Run : RecordKept(s, q)
  /\ disk'.manifest.ids \in {disk.manifest.ids, Known(server'[s])}
  /\ \/ Busy(server[s]) => server[s].child # NoRun
     \/ server'[s] = server[s] /\ disk' = disk
  /\ Employed(s)' /\ Current(s)'

LEMMA RecordStepMoves ==
  ASSUME RunsInv, NEW s \in Server, RecordStep(s), WorkersStay
  PROVE  ManagerMoves(s)
<1>1. /\ Employed(s) /\ Journaled(s) /\ NotEndedOnDisk(s)
      /\ ResultIsFinal(s) /\ VerifiedInMemory(s)
  BY LiveServer DEF RecordStep
<1>2. NotEndedOnDisk(s)'
  BY <1>1 DEF NotEndedOnDisk, RecordStep, RecordKept, RunningRecord, EndedRecord, Ended
<1>3. ResultIsFinal(s)'
  <2> SUFFICES ASSUME NEW q \in Run, RunningRecord(server[s].runs[q])',
                      server'[s].runs[q].result # NoRun
               PROVE  Final(q, server[s].runs[q].result)'
    BY DEF ResultIsFinal
  <2>1. CASE server'[s].runs[q] = server[s].runs[q]
    <3>1. Final(q, server[s].runs[q].result)
      BY <1>1, <2>1 DEF ResultIsFinal, RunningRecord
    <3>2. QED
      BY <2>1, <3>1, FinalStaysToo DEF Final
  <2>2. CASE server'[s].runs[q] # server[s].runs[q]
    BY <2>2 DEF RecordStep, RecordKept, RunningRecord
  <2>3. QED
    BY <2>1, <2>2
<1>4. VerifiedInMemory(s)'
  BY <1>1 DEF VerifiedInMemory, RecordStep, RecordKept, VerifiedRecord, Completed, WorkersStay
<1>5. \A q \in Run : disk.runs[q] # NoRun => disk'.runs[q] # NoRun
  BY DEF RecordStep, RecordKept, RunningRecord
<1>6. Journaled(s)' /\ Restorable'
  <2>1. CASE Busy(server[s]) => server[s].child # NoRun
    <3>1. \A q \in Run : server[s].runs[q] # NoRun => disk.runs[q] # NoRun
      BY <1>1, <2>1, RunsAssumption DEF Journaled, Known, Busy
    <3>2. \A q \in Run : server'[s].runs[q] # NoRun => server[s].runs[q] # NoRun
      BY DEF RecordStep, RecordKept, RunningRecord
    <3>3. \A q \in Known(server'[s]) : disk'.runs[q] # NoRun
      BY <1>5, <3>1, <3>2 DEF Known
    <3>4. disk.manifest.ids \subseteq Run
      BY DEF RunsInv, TypeOK, Disk
    <3>5. QED
      BY <1>5, <3>3, <3>4 DEF Journaled, Known, Restorable, RunsInv, RecordStep
  <2>2. CASE server'[s] = server[s] /\ disk' = disk
    BY <1>1, <2>2 DEF Journaled, Known, Restorable, RunsInv
  <2>3. QED
    BY <2>1, <2>2 DEF RecordStep
<1>7. JournalGrows
  BY <1>1 DEF JournalGrows, RecordStep, RecordKept, NotEndedOnDisk, RunningRecord,
              Completed, VerifiedRecord
<1>8. ServerInv(s)'
  BY <1>2, <1>3, <1>4, <1>6 DEF ServerInv, RecordStep
<1>9. QED
  BY <1>6, <1>7, <1>8 DEF ManagerMoves, RecordStep, Owns

(***************************************************************************)
(* A process that ends takes its memory and its stream with it.            *)
(***************************************************************************)
LEMMA DyingMoves ==
  ASSUME RunsInv, NEW s \in Server, Owns(s), Die(s),
         disk' \in Disk, failures' \in Nat, Restorable', JournalGrows
  PROVE  ManagerMoves(s) /\ PipesShrink
<1>1. server \in [Server -> Memory] /\ stream \in [Server -> Snapshot \cup {Closed}]
  BY DEF RunsInv, TypeOK
<1>2. server' = [server EXCEPT ![s] = Gone] /\ stream' = [stream EXCEPT ![s] = Closed]
  BY DEF Die, Remember
<1>3. Quiet(s)'
  BY <1>1, <1>2 DEF Quiet
<1>4. Gone.mode = "gone"
  BY DEF Gone, Blank
<1>5. ManagerMoves(s)
  BY <1>1, <1>2, <1>3, <1>4, BlankTyped DEF ManagerMoves, ServerInv
<1>6. QED
  BY <1>5, ForgetShrinks DEF Die, RunsInv

\* Nothing is written.
LEMMA SameDisk ==
  ASSUME RunsInv, UNCHANGED disk
  PROVE  disk' \in Disk /\ Restorable' /\ JournalGrows
BY DEF RunsInv, TypeOK, Restorable, JournalGrows

-----------------------------------------------------------------------------
(***************************************************************************)
(* One lemma per step of the manager.                                      *)
(***************************************************************************)
LEMMA Remembered ==
  ASSUME TypeOK, NEW s \in Server, NEW mem \in Memory, Remember(s, mem)
  PROVE  /\ server' \in [Server -> Memory] /\ server'[s] = mem
         /\ \A t \in Server \ {s} : server'[t] = server[t]
BY DEF TypeOK, Remember

\* A snapshot of mem, or of a memory that looks the same.
LEMMA Notified ==
  ASSUME TypeOK, NEW s \in Server, NEW mem \in Memory, Notify(s, mem)
  PROVE  /\ stream' \in [Server -> Snapshot \cup {Closed}]
         /\ \A t \in Server \ {s} : stream'[t] = stream[t]
         /\ stream'[s] # Closed => stream'[s] = View(mem)
BY ViewTyped DEF TypeOK, Notify

\* The view does not show the child, the deadline or the mode.
LEMMA SameView ==
  ASSUME NEW m1, NEW m2, m1.active = m2.active, m1.selected = m2.selected,
         m1.runs = m2.runs
  PROVE  View(m1) = View(m2)
BY DEF View

\* Memories that differ at most in mode, deadline and stream failure.
SameMemory(m1, m2) ==
  /\ m1.runs = m2.runs /\ m1.active = m2.active
  /\ m1.selected = m2.selected /\ m1.child = m2.child

\* The child and the active run stay, and the workers with them.
LEMMA StillEmployed ==
  ASSUME TypeOK, NEW s \in Server, Employed(s), WorkersStay,
         server'[s].child = server[s].child, server'[s].active = server[s].active,
         \A q \in Run : server[s].runs[q] # NoRun => server'[s].runs[q] # NoRun
  PROVE  Employed(s)'
<1>1. server[s].active \in Run \cup {NoRun}
  BY MemoryTyped
<1>2. QED
  BY <1>1 DEF Employed, WorkersStay, Running

LEMMA StreamStepMoves ==
  ASSUME RunsInv, NEW s \in Server, OpenStream(s) \/ DisposeStream(s)
  PROVE  ManagerMoves(s) /\ WorkersStay /\ PipesShrink
<1>1. TypeOK
  BY DEF RunsInv
<1>2. UNCHANGED <<worker, pipe, server, disk, failures>>
  BY DEF OpenStream, DisposeStream, workerVars
<1>3. WorkersStay /\ PipesShrink
  BY <1>1, <1>2, SameWorkersStay, SamePipesShrink
<1>4. Owns(s) /\ Employed(s) /\ Current(s)
  BY LiveServer DEF OpenStream, DisposeStream
<1>5. /\ stream' \in [Server -> Snapshot \cup {Closed}]
      /\ \A t \in Server \ {s} : stream'[t] = stream[t]
      /\ stream'[s] # Closed => stream'[s] = View(server[s])
  BY <1>1, MemoryTyped, ViewTyped DEF TypeOK, OpenStream, DisposeStream
<1>6. Employed(s)'
  BY <1>1, <1>2, <1>3, <1>4, StillEmployed
<1>7. RecordStep(s)
  BY <1>1, <1>2, <1>4, <1>5, <1>6 DEF RecordStep, RecordKept, TypeOK, Owns, Current
<1>8. QED
  BY <1>3, <1>7, RecordStepMoves

LEMMA ResetMoves ==
  ASSUME RunsInv, NEW s \in Server, Reset(s)
  PROVE  ManagerMoves(s) /\ WorkersStay /\ PipesShrink
<1>1. TypeOK
  BY DEF RunsInv
<1> DEFINE mem == [server[s] EXCEPT !.selected = NoRun]
<1>2. /\ Remember(s, mem) /\ disk' = SaveManifest(disk, mem) /\ Notify(s, mem)
      /\ UNCHANGED <<worker, pipe, failures>> /\ Owns(s) /\ ~Busy(server[s])
  BY DEF Reset, workerVars
<1>3. /\ mem \in Memory /\ mem.runs = server[s].runs /\ mem.mode = server[s].mode
      /\ mem.child = server[s].child /\ mem.active = server[s].active
  BY <1>1, MemoryTyped DEF Memory
<1> HIDE DEF mem
<1>4. WorkersStay /\ PipesShrink
  BY <1>1, <1>2, SameWorkersStay, SamePipesShrink
<1>5. /\ server' \in [Server -> Memory] /\ server'[s] = mem
      /\ \A t \in Server \ {s} : server'[t] = server[t]
  BY <1>1, <1>2, <1>3, Remembered
<1>6. /\ stream' \in [Server -> Snapshot \cup {Closed}]
      /\ \A t \in Server \ {s} : stream'[t] = stream[t]
      /\ stream'[s] # Closed => stream'[s] = View(mem)
  BY <1>1, <1>2, <1>3, Notified
<1>7. Employed(s)'
  BY <1>1, <1>2, <1>3, <1>4, <1>5, LiveServer, StillEmployed
<1>8. disk' \in Disk /\ disk'.runs = disk.runs /\ disk'.manifest.ids = Known(mem)
  BY <1>1, <1>2, <1>3, WritesManifest DEF TypeOK
<1>9. RecordStep(s)
  BY <1>1, <1>2, <1>3, <1>5, <1>6, <1>7, <1>8
     DEF RecordStep, RecordKept, TypeOK, Owns, Current
<1>10. QED
  BY <1>4, <1>9, RecordStepMoves

\* A line adds to the record; only a result line brings a result.
LEMMA RecordedLine ==
  ASSUME NEW rec \in RunRecord, NEW line \in Line, Accepts(rec, line)
  PROVE  /\ Recorded(rec, line) \in RunRecord
         /\ Recorded(rec, line).status = rec.status
         /\ Recorded(rec, line).result # rec.result =>
              line.kind = "result" /\ Recorded(rec, line).result = line.hashes
<1>1. ASSUME NEW x \in RunRecord, NEW p \in Nat
      PROVE  /\ Advance(x, p) \in RunRecord
             /\ Advance(x, p).status = x.status /\ Advance(x, p).result = x.result
  BY DEF Advance, RunRecord
<1>2. CASE line.kind = "event"
  <2>1. line.phase \in Nat
    BY <1>2 DEF Line
  <2>2. Recorded(rec, line) = Advance(rec, line.phase)
    BY <1>2 DEF Recorded
  <2>3. QED
    BY <1>1, <2>1, <2>2
<1>3. CASE line.kind = "tx"
  <2> DEFINE x == [rec EXCEPT !.transactions = rec.transactions \cup {line.hash}]
  <2>1. line.phase \in Nat /\ line.hash \in TxHash
    BY <1>3 DEF Line
  <2>2. rec.transactions \cup {line.hash} \in SUBSET TxHash
    BY <2>1 DEF RunRecord
  <2>3. x \in RunRecord /\ x.status = rec.status /\ x.result = rec.result
    BY <2>2 DEF RunRecord
  <2>4. Recorded(rec, line) = Advance(x, line.phase)
    BY <1>3 DEF Recorded
  <2> HIDE DEF x
  <2>5. QED
    BY <1>1, <2>1, <2>3, <2>4
<1>4. CASE line.kind = "deployment"
  <2> DEFINE x == [rec EXCEPT !.deployed = TRUE]
  <2>1. x \in RunRecord /\ x.status = rec.status /\ x.result = rec.result
    BY DEF RunRecord
  <2>2. Recorded(rec, line) = Advance(x, 2)
    BY <1>4 DEF Recorded
  <2> HIDE DEF x
  <2>3. QED
    BY <1>1, <2>1, <2>2
<1>5. CASE line.kind = "result"
  <2>1. line.hashes \in SUBSET TxHash
    BY <1>5 DEF Line
  <2>2. Recorded(rec, line) = [rec EXCEPT !.result = line.hashes]
    BY <1>5 DEF Recorded
  <2>3. QED
    BY <1>5, <2>1, <2>2 DEF RunRecord
<1>6. line.kind # "torn"
  BY DEF Accepts
<1>7. line.kind \in {"event", "tx", "deployment", "result", "torn"}
  BY DEF Line
<1>8. QED
  BY <1>2, <1>3, <1>4, <1>5, <1>6, <1>7

\* What the child of a dashboard is.
LEMMA ChildIsRunning ==
  ASSUME RunsInv, NEW s \in Server, server[s].child # NoRun
  PROVE  /\ server[s].child \in Run /\ server[s].active = server[s].child
         /\ server[s].runs[server[s].child] \in RunRecord
         /\ server[s].runs[server[s].child] # NoRun
         /\ Busy(server[s])
<1>1. Employed(s)
  BY LiveServer
<1>2. QED
  BY <1>1, MemoryTyped DEF Employed, RunsInv, Records, Busy

\* A step that changes neither a record nor the disk.
LEMMA UnchangedRecords ==
  ASSUME RunsInv, NEW s \in Server, Owns(s),
         server' \in [Server -> Memory], failures' \in Nat,
         \A t \in Server \ {s} : server'[t] = server[t],
         server'[s].runs = server[s].runs, server'[s].mode = server[s].mode,
         server'[s].active = server[s].active, server'[s].child = server[s].child,
         server'[s].selected = server[s].selected,
         server[s].child # NoRun, failures' = 0 => failures = 0,
         WorkersStay, UNCHANGED <<disk, stream>>
  PROVE  ManagerMoves(s)
<1>1. TypeOK /\ Employed(s) /\ Current(s)
  BY LiveServer DEF RunsInv
<1>2. Employed(s)'
  BY <1>1, StillEmployed
<1>3. View(server[s])' = View(server[s])
  BY SameView DEF View
<1>4. Current(s)'
  BY <1>1, <1>3 DEF Current
<1>5. RecordStep(s)
  BY <1>1, <1>2, <1>4 DEF RecordStep, RecordKept, TypeOK, Owns
<1>6. QED
  BY <1>5, RecordStepMoves

LEMMA ReadLineMoves ==
  ASSUME RunsInv, NEW s \in Server, ReadLine(s)
  PROVE  ManagerMoves(s) /\ WorkersStay /\ PipesShrink
<1> DEFINE r == server[s].child
           line == Head(pipe[r])
           rec == Recorded(server[s].runs[r], line)
           mem == [server[s] EXCEPT !.runs[r] = rec]
<1>1. TypeOK /\ r # NoRun
  BY DEF RunsInv, ReadLine
<1>2. /\ r \in Run /\ server[s].active = r /\ server[s].runs[r] \in RunRecord
      /\ server[s].runs[r] # NoRun
  BY <1>1, ChildIsRunning
<1>3. /\ Owns(s) /\ Employed(s) /\ NotEndedOnDisk(s)
  BY <1>1, LiveServer
<1>4. pipe[r] # <<>> /\ pipe' = [pipe EXCEPT ![r] = Tail(@)]
  BY DEF ReadLine
<1>5. PipesShrink
  BY <1>1, <1>2, <1>4, ReadingShrinks
<1>6. line \in Line /\ 1 \in DOMAIN pipe[r] /\ line = pipe[r][1]
  BY <1>1, <1>2, <1>4 DEF TypeOK
<1>7. CASE UNCHANGED <<worker, server, disk, stream, failures>>
  <2>1. WorkersStay
    BY <1>1, <1>7, SameWorkersStay
  <2>2. QED
    BY <1>1, <1>3, <1>5, <1>7, <2>1, UnchangedRecords DEF TypeOK
<1>8. ASSUME server[s].runs[r].status = "running", Accepts(server[s].runs[r], line)
      PROVE  /\ rec \in RunRecord /\ rec # NoRun /\ RunningRecord(rec)
             /\ RunningRecord(server[s].runs[r])
             /\ rec.result # server[s].runs[r].result => Final(r, rec.result)
  <2>1. /\ rec \in RunRecord /\ rec.status = "running"
        /\ rec.result # server[s].runs[r].result =>
             line.kind = "result" /\ rec.result = line.hashes
    BY <1>2, <1>6, <1>8, RecordedLine
  <2>2. line.kind = "result" => Final(r, line.hashes)
    BY <1>2, <1>6 DEF RunsInv, WorkerInv, ResultLinesAreFinal
  <2>3. QED
    BY <1>2, <1>8, <2>1, <2>2, RunsAssumption DEF RunningRecord
<1> HIDE DEF rec
<1>9. rec \in RunRecord =>
        /\ mem \in Memory /\ mem.mode = server[s].mode /\ mem.child = r
        /\ mem.active = r /\ mem.selected = server[s].selected
        /\ mem.runs[r] = rec /\ \A q \in Run \ {r} : mem.runs[q] = server[s].runs[q]
  <2> DEFINE runs == [server[s].runs EXCEPT ![r] = rec]
  <2>1. rec \in RunRecord =>
          /\ runs \in Records /\ runs[r] = rec
          /\ \A q \in Run \ {r} : runs[q] = server[s].runs[q]
    BY <1>1, <1>2, MemoryTyped DEF Records
  <2>2. mem = [server[s] EXCEPT !.runs = runs]
    BY <1>1, MemoryTyped DEF Memory
  <2> HIDE DEF runs
  <2>3. QED
    BY <1>1, <1>2, <2>1, <2>2, MemoryTyped DEF Memory
<1> HIDE DEF mem
<1>10. ASSUME server[s].runs[r].status = "running", Accepts(server[s].runs[r], line),
              NEW m \in Memory, Remember(s, m), m.runs = mem.runs, m.mode = mem.mode,
              m.child = mem.child, m.active = mem.active, m.selected = mem.selected,
              disk' \in {disk, Persist(disk, mem, r)}, WorkersStay,
              stream' \in [Server -> Snapshot \cup {Closed}], failures' \in Nat,
              \A t \in Server \ {s} : stream'[t] = stream[t],
              failures' = 0 /\ stream'[s] # Closed => stream'[s] = View(m)
       PROVE  ManagerMoves(s)
  <2>1. /\ server' \in [Server -> Memory] /\ server'[s] = m
        /\ \A t \in Server \ {s} : server'[t] = server[t]
    BY <1>1, <1>10, Remembered
  <2>2. /\ rec \in RunRecord /\ rec # NoRun /\ RunningRecord(rec)
        /\ RunningRecord(server[s].runs[r])
        /\ rec.result # server[s].runs[r].result => Final(r, rec.result)
    BY <1>8, <1>10
  <2>3. /\ m.mode = server[s].mode /\ m.child = r /\ m.active = r
        /\ m.runs[r] = rec /\ \A q \in Run \ {r} : m.runs[q] = server[s].runs[q]
    BY <1>9, <1>10, <2>2
  <2>4. Employed(s)'
    BY <1>1, <1>2, <1>3, <1>10, <2>1, <2>2, <2>3, StillEmployed
  <2>5. rec.result # NoRun => Final(r, rec.result)
    BY <1>1, <1>2, <2>2, LiveServer DEF ResultIsFinal
  <2>6. rec.result # NoRun => Final(r, server[s].runs[r].result)'
    BY <1>2, <1>10, <2>1, <2>3, <2>5, FinalStaysToo DEF Final
  <2>7. /\ disk' \in Disk /\ disk'.manifest.ids = disk.manifest.ids
        /\ \A q \in Run \ {r} : disk'.runs[q] = disk.runs[q]
        /\ disk'.runs[r] \in {disk.runs[r], rec}
    <3>1. mem \in Memory /\ mem.runs[r] = rec /\ disk \in Disk
      BY <1>1, <1>9, <2>2 DEF TypeOK
    <3>2. /\ Wrote(disk, Persist(disk, mem, r), mem, r)
          /\ Persist(disk, mem, r).manifest.ids = disk.manifest.ids
      BY <1>2, <3>1, WritesToDisk
    <3>3. QED
      BY <1>10, <3>1, <3>2 DEF Wrote
  <2>8. \A q \in Run : RecordKept(s, q)
    <3>1. RecordKept(s, r)
      BY <2>1, <2>2, <2>3, <2>6, <2>7
         DEF RecordKept, VerifiedRecord, Completed, RunningRecord
    <3>2. \A q \in Run \ {r} : RecordKept(s, q)
      BY <2>1, <2>3, <2>7 DEF RecordKept
    <3>3. QED
      BY <3>1, <3>2
  <2>9. RecordStep(s)
    BY <1>1, <1>3, <1>10, <2>1, <2>3, <2>4, <2>7, <2>8 DEF RecordStep, Owns, Current
  <2>10. QED
    BY <1>10, <2>9, RecordStepMoves
<1>11. ASSUME server[s].runs[r].status = "running", Accepts(server[s].runs[r], line),
              Remember(s, mem), disk' = Persist(disk, mem, r), Notify(s, mem),
              UNCHANGED <<worker, failures>>
       PROVE  ManagerMoves(s) /\ WorkersStay
  <2>1. mem \in Memory
    BY <1>8, <1>9, <1>11
  <2>2. WorkersStay
    BY <1>1, <1>11, SameWorkersStay
  <2>3. /\ stream' \in [Server -> Snapshot \cup {Closed}]
        /\ \A t \in Server \ {s} : stream'[t] = stream[t]
        /\ stream'[s] # Closed => stream'[s] = View(mem)
    BY <1>1, <1>11, <2>1, Notified
  <2>4. QED
    BY <1>1, <1>10, <1>11, <2>1, <2>2, <2>3 DEF TypeOK
<1>12. ASSUME server[s].runs[r].status = "running", Accepts(server[s].runs[r], line),
              WriteFails, Refuse(s, mem, r), UNCHANGED <<disk, stream>>
       PROVE  ManagerMoves(s) /\ WorkersStay
  <2> DEFINE m == [mem EXCEPT !.streamFailure = TRUE]
  <2>1. mem \in Memory
    BY <1>8, <1>9, <1>12
  <2>2. /\ m \in Memory /\ m.runs = mem.runs /\ m.mode = mem.mode
        /\ m.child = mem.child /\ m.active = mem.active /\ m.selected = mem.selected
    BY <2>1 DEF Memory
  <2>3. WorkersStay /\ Remember(s, m)
    BY <1>1, <1>2, <1>12, TerminateStays DEF Refuse
  <2> HIDE DEF m
  <2>4. failures' \in Nat /\ failures' # 0
    BY <1>1, <1>12 DEF WriteFails, TypeOK
  <2>5. QED
    BY <1>1, <1>10, <1>12, <2>2, <2>3, <2>4 DEF TypeOK
<1>13. ASSUME Refuse(s, server[s], r), UNCHANGED <<disk, stream, failures>>
       PROVE  ManagerMoves(s) /\ WorkersStay
  <2> DEFINE m == [server[s] EXCEPT !.streamFailure = TRUE]
  <2>1. /\ m \in Memory /\ m.runs = server[s].runs /\ m.mode = server[s].mode
        /\ m.child = server[s].child /\ m.active = server[s].active
        /\ m.selected = server[s].selected
    BY <1>1, MemoryTyped DEF Memory
  <2>2. WorkersStay /\ Remember(s, m)
    BY <1>1, <1>2, <1>13, TerminateStays DEF Refuse
  <2> HIDE DEF m
  <2>3. /\ server' \in [Server -> Memory] /\ server'[s] = m
        /\ \A t \in Server \ {s} : server'[t] = server[t]
    BY <1>1, <2>1, <2>2, Remembered
  <2>4. QED
    BY <1>1, <1>3, <1>13, <2>1, <2>2, <2>3, UnchangedRecords DEF TypeOK
<1>14. \/ UNCHANGED <<worker, server, disk, stream, failures>>
       \/ /\ server[s].runs[r].status = "running" /\ Accepts(server[s].runs[r], line)
          /\ Remember(s, mem) /\ disk' = Persist(disk, mem, r) /\ Notify(s, mem)
          /\ UNCHANGED <<worker, failures>>
       \/ /\ server[s].runs[r].status = "running" /\ Accepts(server[s].runs[r], line)
          /\ WriteFails /\ Refuse(s, mem, r) /\ UNCHANGED <<disk, stream>>
       \/ Refuse(s, server[s], r) /\ UNCHANGED <<disk, stream, failures>>
  BY DEF ReadLine, mem, rec
<1>15. QED
  BY <1>5, <1>7, <1>11, <1>12, <1>13, <1>14

\* A deadline or a shutdown, with a child: the run fails and is still the
\* active one.
LEMMA FailingMoves ==
  ASSUME RunsInv, NEW s \in Server, server[s].child # NoRun,
         NEW status \in {"failed", "interrupted"},
         NEW m \in Memory, Remember(s, m), m.mode \in {"up", "closing"},
         SameMemory(m, Fail(server[s], server[s].child, status)),
         disk' = SaveFailed(disk, server[s],
                   Fail(server[s], server[s].child, status), server[s].child),
         NotifyFailed(s, server[s], Fail(server[s], server[s].child, status)),
         WorkersStay, UNCHANGED failures
  PROVE  ManagerMoves(s)
<1> DEFINE r == server[s].child
           failed == Fail(server[s], r, status)
<1>1. TypeOK /\ Owns(s) /\ Employed(s) /\ NotEndedOnDisk(s) /\ Current(s)
  BY LiveServer DEF RunsInv
<1>2. /\ r \in Run /\ r # NoRun /\ server[s].active = r /\ Busy(server[s])
      /\ server[s].runs[r] \in RunRecord /\ server[s].runs[r] # NoRun
  BY ChildIsRunning
<1>3. /\ failed \in Memory /\ failed.mode = server[s].mode /\ failed.child = r
      /\ failed.selected = server[s].selected /\ failed.active = r
      /\ \A q \in Run \ {r} : failed.runs[q] = server[s].runs[q]
      /\ server[s].runs[r].status # "running" => failed = server[s]
      /\ server[s].runs[r].status = "running" =>
           failed.runs[r] = [server[s].runs[r] EXCEPT !.status = status]
  <2>1. server[s] \in Memory
    BY <1>1, MemoryTyped
  <2>2. Fails(server[s], failed, r, status)
    BY <1>2, <2>1, FailsTheRun
  <2> HIDE DEF failed
  <2>3. failed.active = r
    BY <1>2, <2>2 DEF Fails
  <2>4. QED
    BY <1>2, <2>2, <2>3 DEF Fails
<1>4. /\ server' \in [Server -> Memory] /\ server'[s] = m
      /\ \A t \in Server \ {s} : server'[t] = server[t]
  BY <1>1, Remembered
<1> HIDE DEF failed
<1>5. /\ m.runs = failed.runs /\ m.active = r /\ m.child = r
      /\ m.selected = failed.selected
  BY <1>3 DEF SameMemory, failed
<1>6. /\ stream' \in [Server -> Snapshot \cup {Closed}]
      /\ \A t \in Server \ {s} : stream'[t] = stream[t]
      /\ failures' = 0 /\ stream'[s] # Closed => stream'[s] = View(m)
  <2>1. View(m) = View(failed)
    BY <1>3, <1>5, SameView
  <2>2. CASE failed = server[s]
    BY <1>1, <2>1, <2>2 DEF NotifyFailed, failed, Current, TypeOK
  <2>3. CASE failed # server[s]
    BY <1>1, <1>3, <2>1, <2>3, Notified DEF NotifyFailed, failed
  <2>4. QED
    BY <2>2, <2>3
<1>7. CASE server[s].runs[r].status # "running"
  <2>1. failed = server[s] /\ disk' = disk
    BY <1>3, <1>7 DEF SaveFailed, failed
  <2>2. Employed(s)'
    BY <1>1, <1>2, <1>4, <1>5, <2>1, StillEmployed
  <2>3. RecordStep(s)
    BY <1>1, <1>2, <1>4, <1>5, <1>6, <2>1, <2>2
       DEF RecordStep, RecordKept, TypeOK, Owns, Current
  <2>4. QED
    BY <2>3, RecordStepMoves
<1>8. CASE server[s].runs[r].status = "running"
  <2>1. /\ failed.runs[r] # NoRun /\ ~RunningRecord(failed.runs[r])
        /\ ~Completed(failed.runs[r]) /\ RunningRecord(server[s].runs[r])
    <3>1. failed.runs[r] = [server[s].runs[r] EXCEPT !.status = status]
      BY <1>3, <1>8
    <3>2. RunningRecord(server[s].runs[r])
      BY <1>2, <1>8 DEF RunningRecord
    <3>3. QED
      BY <1>2, <3>1, <3>2, FailedRecord
  <2>2. failed # server[s]
    BY <2>1
  <2>3. /\ disk' \in Disk /\ disk'.manifest.ids = Known(m)
        /\ disk'.runs[r] = failed.runs[r]
        /\ \A q \in Run \ {r} : disk'.runs[q] = disk.runs[q]
    <3>1. disk \in Disk
      BY <1>1 DEF TypeOK
    <3>2. /\ Wrote(disk, Save(disk, failed, r), failed, r)
          /\ Save(disk, failed, r).manifest.ids = Known(failed)
      BY <1>2, <1>3, <3>1, WritesToDisk
    <3>3. disk' = Save(disk, failed, r)
      BY <2>2 DEF SaveFailed, failed
    <3>4. QED
      BY <1>5, <3>2, <3>3 DEF Wrote, Known
  <2>4. Employed(s)'
    BY <1>1, <1>2, <1>3, <1>4, <1>5, <2>1, StillEmployed
  <2>5. \A q \in Run : RecordKept(s, q)
    <3>1. RecordKept(s, r)
      BY <1>4, <1>5, <2>1, <2>3 DEF RecordKept, VerifiedRecord
    <3>2. \A q \in Run \ {r} : RecordKept(s, q)
      BY <1>3, <1>4, <1>5, <2>3 DEF RecordKept
    <3>3. QED
      BY <3>1, <3>2
  <2>6. RecordStep(s)
    BY <1>1, <1>2, <1>4, <1>5, <1>6, <2>3, <2>4, <2>5
       DEF RecordStep, TypeOK, Owns, Current
  <2>7. QED
    BY <2>6, RecordStepMoves
<1>9. QED
  BY <1>7, <1>8

LEMMA DeadlineMoves ==
  ASSUME RunsInv, NEW s \in Server, Deadline(s)
  PROVE  ManagerMoves(s) /\ WorkersStay /\ PipesShrink
<1> DEFINE r == server[s].child
           failed == Fail(server[s], r, "failed")
           m == [failed EXCEPT !.deadline = TRUE]
<1>1. TypeOK /\ r # NoRun /\ Owns(s)
  BY LiveServer DEF RunsInv, Deadline
<1>2. r \in Run /\ server[s].runs[r] # NoRun
  BY <1>1, ChildIsRunning
<1>3. failed \in Memory /\ failed.mode = server[s].mode
  BY <1>1, <1>2, MemoryTyped, FailsTheRun DEF Fails
<1>4. /\ Remember(s, m) /\ worker' = Terminate(r)
      /\ disk' = SaveFailed(disk, server[s], failed, r)
      /\ NotifyFailed(s, server[s], failed)
      /\ UNCHANGED <<pipe, failures>>
  BY DEF Deadline
<1> HIDE DEF failed
<1>5. m \in Memory /\ m.mode = server[s].mode /\ SameMemory(m, failed)
  BY <1>3 DEF Memory, SameMemory
<1> HIDE DEF m
<1>6. WorkersStay /\ PipesShrink
  BY <1>1, <1>2, <1>4, TerminateStays, SamePipesShrink
<1>7. QED
  BY <1>1, <1>4, <1>5, <1>6, FailingMoves DEF failed, Owns

LEMMA EndingMoves ==
  ASSUME RunsInv, NEW s \in Server, Crash(s) \/ CloseEnds(s)
  PROVE  ManagerMoves(s) /\ WorkersStay /\ PipesShrink
<1>1. /\ TypeOK /\ Owns(s) /\ Die(s) /\ UNCHANGED <<worker, disk, failures>>
  BY DEF RunsInv, Crash, CloseEnds, Owns
<1>2. failures' \in Nat
  BY <1>1 DEF TypeOK
<1>3. QED
  BY <1>1, <1>2, SameDisk, DyingMoves, SameWorkersStay

LEMMA CloseBeginsMoves ==
  ASSUME RunsInv, NEW s \in Server, CloseBegins(s)
  PROVE  ManagerMoves(s) /\ WorkersStay /\ PipesShrink
<1> DEFINE r == server[s].active
           c == server[s].child
           failed == Fail(server[s], r, "interrupted")
<1>1. TypeOK /\ Owns(s) /\ UNCHANGED failures /\ failures' \in Nat
  BY DEF RunsInv, CloseBegins, Open, Owns, TypeOK
<1>2. Employed(s) /\ NotEndedOnDisk(s) /\ Journaled(s)
  BY <1>1, LiveServer
<1>3. CASE c # NoRun
  <2>1. r = c /\ r \in Run /\ r # NoRun /\ server[s].runs[r] # NoRun
    BY <1>3, ChildIsRunning
  <2> DEFINE m == [failed EXCEPT !.mode = "closing"]
  <2>2. failed \in Memory
    BY <1>1, <2>1, MemoryTyped, FailsTheRun DEF Fails
  <2>3. /\ Remember(s, m) /\ worker' = Terminate(c)
        /\ disk' = SaveFailed(disk, server[s], failed, r)
        /\ NotifyFailed(s, server[s], failed)
        /\ UNCHANGED pipe
    BY <1>3, <2>1 DEF CloseBegins
  <2> HIDE DEF failed
  <2>4. m \in Memory /\ m.mode = "closing" /\ SameMemory(m, failed)
    BY <2>2 DEF Memory, SameMemory
  <2> HIDE DEF m
  <2>5. WorkersStay /\ PipesShrink
    BY <1>1, <2>1, <2>3, TerminateStays, SamePipesShrink
  <2>6. QED
    BY <1>1, <1>3, <2>1, <2>3, <2>4, <2>5, FailingMoves DEF failed
<1>4. CASE c = NoRun
  <2>1. Die(s) /\ UNCHANGED worker
    BY <1>4 DEF CloseBegins
  <2>2. CASE disk' = disk
    BY <1>1, <2>1, <2>2, SameDisk, DyingMoves, SameWorkersStay
  <2>3. CASE disk' # disk
    <3>1. r # NoRun /\ disk' = SaveFailed(disk, server[s], failed, r)
      BY <2>3 DEF CloseBegins
    <3>2. r \in Run /\ server[s].runs[r] # NoRun /\ server[s].runs[r] \in RunRecord
      BY <1>1, <1>2, <3>1, MemoryTyped DEF Employed, Records
    <3>3. Fails(server[s], failed, r, "interrupted")
      BY <1>1, <3>2, MemoryTyped, FailsTheRun
    <3> HIDE DEF failed
    <3>4. failed # server[s] /\ disk' = Save(disk, failed, r)
      BY <2>3, <3>1 DEF SaveFailed, failed
    <3>5. /\ failed.runs[r] # NoRun /\ ~Completed(failed.runs[r])
          /\ RunningRecord(server[s].runs[r]) /\ failed \in Memory
      BY <3>2, <3>3, <3>4, FailedRecord DEF RunningRecord, Fails
    <3>6. disk \in Disk
      BY <1>1 DEF TypeOK
    <3>7. /\ Wrote(disk, Save(disk, failed, r), failed, r)
          /\ Save(disk, failed, r).manifest.ids = Known(failed)
      BY <3>2, <3>5, <3>6, WritesToDisk
    <3>8. \A q \in Known(failed) : q = r \/ disk.runs[q] # NoRun
      BY <1>2, <1>4, <3>3 DEF Known, Journaled, Fails
    <3>9. Restorable'
      BY <3>4, <3>5, <3>7, <3>8 DEF Restorable, Wrote, Known
    <3>10. JournalGrows
      BY <1>2, <3>2, <3>4, <3>5, <3>7
         DEF JournalGrows, Wrote, NotEndedOnDisk, VerifiedRecord
    <3>11. disk' \in Disk
      BY <3>4, <3>7 DEF Wrote
    <3>12. QED
      BY <1>1, <2>1, <3>9, <3>10, <3>11, DyingMoves, SameWorkersStay
  <2>4. QED
    BY <2>2, <2>3
<1>5. QED
  BY <1>3, <1>4

\* A dashboard whose child has exited and is forgotten has no live worker.
LEMMA Unemployed ==
  ASSUME RunsInv, NEW s \in Server, Settled(s), WorkersStay,
         server'[s].child = NoRun, server'[s].active = NoRun
  PROVE  Employed(s)'
<1>1. Employed(s) /\ worker[server[s].child].pc = "exited"
  BY LiveServer DEF Settled
<1>2. \A q \in Run : worker[q].parent = s => ~Running(q)
  BY <1>1 DEF Employed, Running
<1>3. QED
  BY <1>2 DEF Employed, WorkersStay, Running

\* The worker of a verified run has said all it signed.
LEMMA VerifiedResult ==
  ASSUME RunsInv, NEW s \in Server, Settled(s),
         Verified(server[s], server[s].child)
  PROVE  LET r == server[s].child
         IN /\ worker[r].pc = "exited" /\ worker[r].code = 0
            /\ server[s].runs[r].transactions = worker[r].published
<1> DEFINE r == server[s].child
<1>1. r \in Run /\ server[s].runs[r] # NoRun /\ ResultIsFinal(s)
  BY ChildIsRunning, LiveServer DEF Settled
<1>2. /\ server[s].runs[r].status = "running" /\ server[s].runs[r].result # NoRun
      /\ worker[r].code = 0 /\ server[s].runs[r].result = server[s].runs[r].transactions
      /\ worker[r].pc = "exited"
  BY DEF Settled, Verified, AssertResult
<1>3. Final(r, server[s].runs[r].result)
  BY <1>1, <1>2 DEF ResultIsFinal, RunningRecord
<1>4. QED
  BY <1>2, <1>3 DEF Final

LEMMA CompleteMoves ==
  ASSUME RunsInv, NEW s \in Server, Complete(s)
  PROVE  ManagerMoves(s) /\ WorkersStay /\ PipesShrink
<1> DEFINE r == server[s].child
           mem == CompletedBy(server[s], r)
           rec == [server[s].runs[r] EXCEPT !.status = "completed", !.phase = 8]
<1>1. TypeOK /\ Settled(s) /\ r # NoRun /\ Owns(s) /\ Verified(server[s], r)
  BY LiveServer DEF RunsInv, Complete, Settled
<1>2. /\ r \in Run /\ server[s].runs[r] \in RunRecord /\ server[s].runs[r] # NoRun
      /\ server[s] \in Memory /\ server[s].runs \in Records
  BY <1>1, ChildIsRunning, MemoryTyped
<1>3. /\ worker[r].pc = "exited" /\ worker[r].code = 0
      /\ server[s].runs[r].transactions = worker[r].published
  BY <1>1, VerifiedResult
<1>4. WorkersStay /\ PipesShrink
  BY <1>1, SameWorkersStay, ForgetShrinks DEF Complete
<1>5. /\ rec \in RunRecord /\ rec # NoRun /\ rec.status = "completed"
      /\ rec.transactions = worker[r].published
  <2>1. rec \in RunRecord
    BY <1>2 DEF RunRecord
  <2>2. rec.status = "completed" /\ rec.transactions = server[s].runs[r].transactions
    BY <1>2 DEF RunRecord
  <2>3. QED
    BY <1>3, <2>1, <2>2, RunsAssumption
<1>6. /\ mem \in Memory /\ mem.mode = server[s].mode /\ mem.child = NoRun
      /\ mem.active = NoRun /\ mem.runs[r] = rec
      /\ \A q \in Run \ {r} : mem.runs[q] = server[s].runs[q]
  <2> DEFINE runs == [server[s].runs EXCEPT ![r] = rec]
  <2>1. mem = [server[s] EXCEPT !.runs = runs, !.active = NoRun, !.child = NoRun]
    BY <1>2 DEF CompletedBy, Memory, Records, RunRecord
  <2> HIDE DEF rec
  <2>2. /\ runs \in Records /\ runs[r] = rec
        /\ \A q \in Run \ {r} : runs[q] = server[s].runs[q]
    BY <1>2, <1>5 DEF Records
  <2> HIDE DEF runs, mem
  <2>3. QED
    BY <1>2, <2>1, <2>2 DEF Memory
<1> HIDE DEF rec
<1>7. /\ Remember(s, mem)
      /\ \/ disk' = Save(disk, mem, r) /\ Notify(s, mem) /\ UNCHANGED failures
         \/ /\ WriteFails /\ disk' \in {disk, Persist(disk, mem, r)}
            /\ UNCHANGED stream
  BY DEF Complete, HalfSaved
<1> HIDE DEF mem
<1>8. /\ server' \in [Server -> Memory] /\ server'[s] = mem
      /\ \A t \in Server \ {s} : server'[t] = server[t]
  BY <1>1, <1>6, <1>7, Remembered
<1>9. Employed(s)'
  BY <1>1, <1>4, <1>6, <1>8, Unemployed
<1>10. /\ disk' \in Disk /\ disk'.manifest.ids \in {disk.manifest.ids, Known(mem)}
       /\ disk'.runs[r] \in {disk.runs[r], rec}
       /\ \A q \in Run \ {r} : disk'.runs[q] = disk.runs[q]
  <2>1. disk \in Disk
    BY <1>1 DEF TypeOK
  <2>2. /\ Wrote(disk, Persist(disk, mem, r), mem, r)
        /\ Persist(disk, mem, r).manifest.ids = disk.manifest.ids
        /\ Wrote(disk, Save(disk, mem, r), mem, r)
        /\ Save(disk, mem, r).manifest.ids = Known(mem)
    BY <1>2, <1>6, <2>1, WritesToDisk
  <2>3. QED
    BY <1>6, <1>7, <2>1, <2>2 DEF Wrote
<1>11. /\ stream' \in [Server -> Snapshot \cup {Closed}] /\ failures' \in Nat
       /\ \A t \in Server \ {s} : stream'[t] = stream[t]
       /\ failures' = 0 /\ stream'[s] # Closed => stream'[s] = View(mem)
  BY <1>1, <1>6, <1>7, Notified DEF TypeOK, WriteFails
<1>12. \A q \in Run : RecordKept(s, q)
  <2>1. ASSUME NEW q \in Run, q = r PROVE RecordKept(s, q)
    <3>1. RunningRecord(server[s].runs[r])
      BY <1>1, <1>2 DEF Verified, RunningRecord
    <3>2. ~RunningRecord(rec)
      BY <1>5 DEF RunningRecord
    <3>3. VerifiedRecord(q, server[s].runs[q])'
      <4>1. /\ worker'[r].pc = "exited" /\ worker'[r].code = 0
            /\ worker'[r].published = worker[r].published
        BY <1>2, <1>3, <1>4 DEF WorkersStay
      <4>2. server'[s].runs[r].transactions = worker[r].published
        BY <1>5, <1>6, <1>8
      <4>3. QED
        BY <2>1, <4>1, <4>2 DEF VerifiedRecord
    <3>4. QED
      BY <1>5, <1>6, <1>8, <1>10, <2>1, <3>1, <3>2, <3>3 DEF RecordKept
  <2>2. \A q \in Run \ {r} : RecordKept(s, q)
    BY <1>6, <1>8, <1>10 DEF RecordKept
  <2>3. QED
    BY <2>1, <2>2
<1>13. RecordStep(s)
  BY <1>1, <1>6, <1>8, <1>9, <1>10, <1>11, <1>12 DEF RecordStep, Owns, Current
<1>14. QED
  BY <1>4, <1>13, RecordStepMoves

LEMMA ReleaseMoves ==
  ASSUME RunsInv, NEW s \in Server, Release(s)
  PROVE  ManagerMoves(s) /\ WorkersStay /\ PipesShrink
<1> DEFINE r == server[s].child
           mem == [server[s] EXCEPT !.child = NoRun,
                     !.active = IF server[s].active = r THEN NoRun ELSE server[s].active]
<1>1. TypeOK /\ Settled(s) /\ r # NoRun /\ Owns(s)
  BY LiveServer DEF RunsInv, Release, Settled
<1>2. r \in Run /\ server[s].active = r /\ server[s] \in Memory
  BY <1>1, ChildIsRunning, MemoryTyped
<1>3. /\ mem \in Memory /\ mem.mode = server[s].mode /\ mem.child = NoRun
      /\ mem.active = NoRun /\ mem.runs = server[s].runs
  BY <1>2 DEF Memory
<1>4. /\ Remember(s, mem) /\ Notify(s, mem) /\ Forget(s)
      /\ UNCHANGED <<worker, disk, failures>>
  BY DEF Release
<1> HIDE DEF mem
<1>5. WorkersStay /\ PipesShrink
  BY <1>1, <1>4, SameWorkersStay, ForgetShrinks
<1>6. /\ server' \in [Server -> Memory] /\ server'[s] = mem
      /\ \A t \in Server \ {s} : server'[t] = server[t]
  BY <1>1, <1>3, <1>4, Remembered
<1>7. /\ stream' \in [Server -> Snapshot \cup {Closed}]
      /\ \A t \in Server \ {s} : stream'[t] = stream[t]
      /\ stream'[s] # Closed => stream'[s] = View(mem)
  BY <1>1, <1>3, <1>4, Notified
<1>8. Employed(s)'
  BY <1>1, <1>3, <1>5, <1>6, Unemployed
<1>9. RecordStep(s)
  BY <1>1, <1>3, <1>4, <1>6, <1>7, <1>8
     DEF RecordStep, RecordKept, TypeOK, Owns, Current
<1>10. QED
  BY <1>5, <1>9, RecordStepMoves

LEMMA RejectMoves ==
  ASSUME RunsInv, NEW s \in Server, Reject(s)
  PROVE  ManagerMoves(s) /\ WorkersStay /\ PipesShrink
<1> DEFINE r == server[s].child
           childless == [server[s] EXCEPT !.child = NoRun]
           mem == Fail(childless, r, "failed")
<1>1. TypeOK /\ Settled(s) /\ r # NoRun /\ Owns(s) /\ server[s].runs[r].status = "running"
  BY LiveServer DEF RunsInv, Reject, Settled
<1>2. /\ r \in Run /\ server[s].active = r /\ server[s].runs[r] \in RunRecord
      /\ server[s].runs[r] # NoRun /\ server[s] \in Memory
  BY <1>1, ChildIsRunning, MemoryTyped
<1>3. /\ childless \in Memory /\ childless.mode = server[s].mode
      /\ childless.child = NoRun /\ childless.active = r
      /\ childless.runs = server[s].runs
  BY <1>2 DEF Memory
<1>4. /\ Remember(s, mem) /\ disk' = Save(disk, mem, r) /\ Notify(s, mem)
      /\ Forget(s) /\ UNCHANGED <<worker, failures>>
  BY DEF Reject
<1> HIDE DEF childless
<1>5. Fails(childless, mem, r, "failed")
  BY <1>2, <1>3, FailsTheRun
<1> HIDE DEF mem
<1>6. /\ mem \in Memory /\ mem.mode = server[s].mode /\ mem.child = NoRun
      /\ mem.active = NoRun
      /\ mem.runs[r] = [server[s].runs[r] EXCEPT !.status = "failed"]
      /\ \A q \in Run \ {r} : mem.runs[q] = server[s].runs[q]
  BY <1>1, <1>3, <1>5 DEF Fails
<1>7. /\ mem.runs[r] # NoRun /\ ~RunningRecord(mem.runs[r])
      /\ ~Completed(mem.runs[r])
  BY <1>2, <1>6, FailedRecord
<1>8. WorkersStay /\ PipesShrink
  BY <1>1, <1>4, SameWorkersStay, ForgetShrinks
<1>9. /\ server' \in [Server -> Memory] /\ server'[s] = mem
      /\ \A t \in Server \ {s} : server'[t] = server[t]
  BY <1>1, <1>4, <1>6, Remembered
<1>10. /\ stream' \in [Server -> Snapshot \cup {Closed}]
       /\ \A t \in Server \ {s} : stream'[t] = stream[t]
       /\ stream'[s] # Closed => stream'[s] = View(mem)
  BY <1>1, <1>4, <1>6, Notified
<1>11. Employed(s)'
  BY <1>1, <1>6, <1>8, <1>9, Unemployed
<1>12. /\ disk' \in Disk /\ disk'.manifest.ids = Known(mem)
       /\ disk'.runs[r] = mem.runs[r]
       /\ \A q \in Run \ {r} : disk'.runs[q] = disk.runs[q]
  <2>1. disk \in Disk
    BY <1>1 DEF TypeOK
  <2>2. /\ Wrote(disk, Save(disk, mem, r), mem, r)
        /\ Save(disk, mem, r).manifest.ids = Known(mem)
    BY <1>2, <1>6, <2>1, WritesToDisk
  <2>3. QED
    BY <1>4, <2>2 DEF Wrote
<1>13. \A q \in Run : RecordKept(s, q)
  <2>1. ASSUME NEW q \in Run, q = r PROVE RecordKept(s, q)
    <3>1. RunningRecord(server[s].runs[r])
      BY <1>1, <1>2 DEF RunningRecord
    <3>2. VerifiedRecord(q, server[s].runs[q])'
      BY <1>7, <1>9, <2>1 DEF VerifiedRecord, Completed
    <3>3. QED
      BY <1>7, <1>9, <1>12, <2>1, <3>1, <3>2 DEF RecordKept
  <2>2. \A q \in Run \ {r} : RecordKept(s, q)
    BY <1>6, <1>9, <1>12 DEF RecordKept
  <2>3. QED
    BY <2>1, <2>2
<1>14. RecordStep(s)
  BY <1>1, <1>4, <1>6, <1>9, <1>10, <1>11, <1>12, <1>13
     DEF RecordStep, TypeOK, Owns, Current
<1>15. QED
  BY <1>8, <1>14, RecordStepMoves

\* A new run in memory; its worker is spawned when everything is on disk.
SpawnedOrNot(s, r, m) ==
  /\ worker' \in [Run -> WorkerState]
  /\ \A q \in Run \ {r} : worker'[q] = worker[q]
  /\ \/ worker'[r] = worker[r] /\ m.child = NoRun
     \/ worker'[r] = Spawned(s) /\ m.child = r /\ disk'.runs[r] = Fresh

LEMMA FreshRecord ==
  /\ Fresh \in RunRecord /\ Fresh # NoRun /\ Fresh.status = "running"
  /\ Fresh.result = NoRun
<1>1. Fresh \in RunRecord
  BY DEF Fresh, RunRecord
<1>2. Fresh.status = "running" /\ Fresh.result = NoRun
  BY DEF Fresh
<1>3. QED
  BY <1>1, <1>2, RunsAssumption

LEMMA StartedMoves ==
  ASSUME RunsInv, NEW s \in Server, NEW r \in Run, Open(s), ~Busy(server[s]),
         worker[r].pc = "unborn", disk.runs[r] = NoRun,
         NEW m \in Memory, Remember(s, m), m.mode = "up", m.active = r,
         m.runs[r] = Fresh, \A q \in Run \ {r} : m.runs[q] = server[s].runs[q],
         disk' \in Disk, disk'.runs[r] \in {NoRun, Fresh},
         \A q \in Run \ {r} : disk'.runs[q] = disk.runs[q],
         \/ disk'.manifest.ids = disk.manifest.ids
         \/ disk'.manifest.ids = Known(m) /\ disk'.runs[r] = Fresh,
         SpawnedOrNot(s, r, m), failures' \in Nat,
         stream' \in [Server -> Snapshot \cup {Closed}],
         \A t \in Server \ {s} : stream'[t] = stream[t],
         failures' = 0 /\ stream'[s] # Closed => stream'[s] = View(m)
  PROVE  ManagerMoves(s)
<1>1. TypeOK /\ Owns(s)
  BY DEF RunsInv, Open, Owns
<1>2. /\ Employed(s) /\ Journaled(s) /\ NotEndedOnDisk(s)
      /\ ResultIsFinal(s) /\ VerifiedInMemory(s)
  BY <1>1, LiveServer
<1>3. /\ server' \in [Server -> Memory] /\ server'[s] = m
      /\ \A t \in Server \ {s} : server'[t] = server[t]
  BY <1>1, Remembered
<1>4. server[s].child = NoRun /\ server[s].active = NoRun /\ NoRun \notin Run
  BY RunsAssumption DEF Busy
<1>5. \A q \in Run \ {r} : m.runs[q] # NoRun => disk.runs[q] # NoRun
  BY <1>2, <1>4 DEF Journaled, Known
<1>6. Employed(s)'
  <2>1. \A q \in Run : worker[q].parent = s => ~Running(q)
    BY <1>2, <1>4 DEF Employed
  <2>2. ASSUME NEW q \in Run, worker'[q].parent = s, Running(q)'
        PROVE  m.child = q
    <3>1. worker'[q] # worker[q]
      BY <2>1, <2>2 DEF Running
    <3>2. QED
      BY <3>1 DEF SpawnedOrNot
  <2>3. m.child # NoRun => m.active = m.child
    BY DEF SpawnedOrNot
  <2>4. QED
    BY <1>3, <2>2, <2>3, FreshRecord DEF Employed
<1>7. Journaled(s)'
  BY <1>3, <1>5, FreshRecord DEF Journaled, Known, SpawnedOrNot
<1>8. NotEndedOnDisk(s)'
  BY <1>2, <1>3, FreshRecord DEF NotEndedOnDisk, RunningRecord, EndedRecord, Ended
<1>9. ResultIsFinal(s)'
  <2> SUFFICES ASSUME NEW q \in Run, RunningRecord(m.runs[q]), m.runs[q].result # NoRun
               PROVE  Final(q, server[s].runs[q].result)'
    BY <1>3 DEF ResultIsFinal, RunningRecord
  <2>1. q # r
    BY FreshRecord
  <2>2. Final(q, m.runs[q].result)
    BY <1>2, <2>1 DEF ResultIsFinal
  <2>3. QED
    BY <1>3, <2>1, <2>2 DEF Final, SpawnedOrNot
<1>10. VerifiedInMemory(s)'
  BY <1>2, <1>3, FreshRecord DEF VerifiedInMemory, VerifiedRecord, Completed, SpawnedOrNot
<1>11. Current(s)' /\ Owns(s)'
  BY <1>3 DEF Current, Owns
<1>12. Restorable'
  <2>1. disk.manifest.ids \subseteq Run /\ \A q \in disk.manifest.ids : disk.runs[q] # NoRun
    BY <1>1 DEF Restorable, RunsInv, TypeOK, Disk
  <2>2. CASE disk'.manifest.ids = disk.manifest.ids
    BY <2>1, <2>2 DEF Restorable
  <2>3. CASE disk'.manifest.ids = Known(m) /\ disk'.runs[r] = Fresh
    BY <1>5, <2>3, FreshRecord DEF Restorable, Known
  <2>4. QED
    BY <2>2, <2>3
<1>13. JournalGrows
  BY FreshRecord DEF JournalGrows, EndedRecord, VerifiedRecord, Completed
<1>14. QED
  BY <1>1, <1>3, <1>6, <1>7, <1>8, <1>9, <1>10, <1>11, <1>12, <1>13
     DEF ManagerMoves, ServerInv, Owns

LEMMA SpawnKeepsWorkers ==
  ASSUME RunsInv, NEW s \in Server, NEW r \in Run, worker[r].pc = "unborn",
         worker' = [worker EXCEPT ![r] = Spawned(s)], UNCHANGED pipe,
         server'[s].mode # "unborn",
         \A t \in Server \ {s} : server'[t] = server[t]
  PROVE  WorkerInv'
<1>1. /\ worker' \in [Run -> WorkerState] /\ worker'[r] = Spawned(s)
      /\ \A q \in Run \ {r} : worker'[q] = worker[q]
  BY DEF RunsInv, TypeOK, Spawned, Unborn, WorkerState
<1>2. Spawned(s).pc = "starting" /\ Spawned(s).parent = s
  BY DEF Spawned, Unborn
<1>3. ~worker[r].resulted
  BY DEF RunsInv, WorkerInv, BirthIsRecorded
<1>4. OneLockHolder'
  BY <1>1, <1>2 DEF RunsInv, WorkerInv, OneLockHolder, HoldsLock
<1>5. ResultLinesAreFinal'
  BY <1>1, <1>3 DEF RunsInv, WorkerInv, ResultLinesAreFinal, Final
<1>6. BirthIsRecorded'
  BY <1>1, <1>2 DEF RunsInv, WorkerInv, BirthIsRecorded
<1>7. QED
  BY <1>4, <1>5, <1>6 DEF WorkerInv

LEMMA StartMoves ==
  ASSUME RunsInv, NEW s \in Server, NEW r \in Run, Start(s, r)
  PROVE  /\ ManagerMoves(s) /\ WorkerInv'
         /\ worker' \in [Run -> WorkerState] /\ pipe' \in [Run -> Seq(Line)]
         /\ \A q \in Run : worker[q].pc = "exited" => worker'[q] = worker[q]
<1> DEFINE mem == StartOf(server[s], r)
<1>1. /\ TypeOK /\ Open(s) /\ Owns(s) /\ ~Busy(server[s])
      /\ worker[r].pc = "unborn" /\ disk.runs[r] = NoRun /\ WorkerInv
  BY DEF RunsInv, Start, Open, Owns
<1>2. /\ mem \in Memory /\ mem.mode = "up" /\ mem.active = r /\ mem.runs[r] = Fresh
      /\ mem.child = NoRun
      /\ \A q \in Run \ {r} : mem.runs[q] = server[s].runs[q]
  <2> DEFINE runs == [server[s].runs EXCEPT ![r] = Fresh]
  <2>1. server[s] \in Memory /\ server[s].runs \in Records
    BY <1>1, MemoryTyped
  <2>2. /\ runs \in Records /\ runs[r] = Fresh
        /\ \A q \in Run \ {r} : runs[q] = server[s].runs[q]
    BY <2>1, FreshRecord DEF Records
  <2>3. mem = [server[s] EXCEPT !.runs = runs, !.active = r, !.selected = r]
    BY <2>1 DEF StartOf
  <2> HIDE DEF runs, mem
  <2>4. mem \in Memory /\ mem.runs = runs /\ mem.active = r /\ mem.child = server[s].child
    BY <2>1, <2>2, <2>3 DEF Memory
  <2>5. mem.mode = server[s].mode
    BY <2>1, <2>3 DEF Memory
  <2>6. QED
    BY <1>1, <2>2, <2>4, <2>5 DEF Busy, Open
<1>3. \/ /\ disk' = Save(disk, mem, r) /\ Spawn(s, mem, r) /\ Notify(s, mem)
         /\ UNCHANGED <<failures, pipe>>
      \/ /\ disk' = Persist(disk, mem, r) /\ Die(s) /\ UNCHANGED <<worker, failures>>
      \/ /\ WriteFails /\ disk' \in {disk, Persist(disk, mem, r)} /\ Remember(s, mem)
         /\ UNCHANGED <<worker, pipe, stream>>
  BY DEF Start, HalfSaved, workerVars
<1> HIDE DEF mem
<1>4. disk \in Disk /\ disk' \in Disk
  <2>1. disk \in Disk
    BY <1>1 DEF TypeOK
  <2>2. QED
    BY <1>2, <1>3, <2>1, WritesToDisk DEF Wrote
<1>5. /\ Wrote(disk, Persist(disk, mem, r), mem, r)
      /\ Persist(disk, mem, r).manifest.ids = disk.manifest.ids
      /\ Wrote(disk, Save(disk, mem, r), mem, r)
      /\ Save(disk, mem, r).manifest.ids = Known(mem)
  BY <1>2, <1>4, WritesToDisk
<1>6. CASE /\ disk' = Save(disk, mem, r) /\ Spawn(s, mem, r) /\ Notify(s, mem)
           /\ UNCHANGED <<failures, pipe>>
  <2> DEFINE m == [mem EXCEPT !.child = r, !.streamFailure = FALSE, !.deadline = FALSE]
  <2>1. Remember(s, m) /\ worker' = [worker EXCEPT ![r] = Spawned(s)]
    BY <1>6 DEF Spawn
  <2>2. /\ m \in Memory /\ m.mode = mem.mode /\ m.active = r /\ m.runs = mem.runs
        /\ m.child = r /\ m.selected = mem.selected
    BY <1>2 DEF Memory
  <2> HIDE DEF m
  <2>3. /\ stream' \in [Server -> Snapshot \cup {Closed}]
        /\ \A t \in Server \ {s} : stream'[t] = stream[t]
        /\ stream'[s] # Closed => stream'[s] = View(m)
    BY <1>1, <1>2, <1>6, <2>2, Notified, SameView
  <2>4. disk'.runs[r] = Fresh /\ disk'.manifest.ids = Known(m)
    BY <1>2, <1>5, <1>6, <2>2 DEF Wrote, Known
  <2>5. SpawnedOrNot(s, r, m)
    BY <1>1, <2>1, <2>2, <2>4 DEF SpawnedOrNot, TypeOK, Spawned, Unborn, WorkerState
  <2>6. ManagerMoves(s)
    <3>1. \A q \in Run \ {r} : disk'.runs[q] = disk.runs[q]
      BY <1>5, <1>6 DEF Wrote
    <3>2. failures' \in Nat
      BY <1>1, <1>6 DEF TypeOK
    <3>3. QED
      BY <1>1, <1>2, <1>4, <2>1, <2>2, <2>3, <2>4, <2>5, <3>1, <3>2, StartedMoves
  <2>7. WorkerInv'
    BY <1>1, <1>6, <2>1, <2>6, SpawnKeepsWorkers DEF ManagerMoves
  <2>8. QED
    BY <1>1, <1>6, <2>5, <2>6, <2>7 DEF SpawnedOrNot, TypeOK
<1>7. CASE disk' = Persist(disk, mem, r) /\ Die(s) /\ UNCHANGED <<worker, failures>>
  <2>1. Restorable'
    <3>1. disk.manifest.ids \subseteq Run /\ \A q \in disk.manifest.ids : disk.runs[q] # NoRun
      BY <1>1 DEF Restorable, RunsInv, TypeOK, Disk
    <3>2. QED
      BY <1>1, <1>5, <1>7, <3>1 DEF Restorable, Wrote
  <2>2. JournalGrows
    BY <1>1, <1>2, <1>5, <1>7, FreshRecord
       DEF JournalGrows, EndedRecord, VerifiedRecord, Completed, Wrote
  <2>3. ManagerMoves(s) /\ PipesShrink /\ WorkersStay
    BY <1>1, <1>4, <1>7, <2>1, <2>2, DyingMoves, SameWorkersStay DEF TypeOK
  <2>4. WorkerInv'
    BY <1>1, <2>3, ManagersKeepWorkers DEF ManagerMoves
  <2>5. QED
    BY <1>7, <2>3, <2>4 DEF PipesShrink, WorkersStay
<1>8. CASE /\ WriteFails /\ disk' \in {disk, Persist(disk, mem, r)} /\ Remember(s, mem)
           /\ UNCHANGED <<worker, pipe, stream>>
  <2>1. WorkersStay /\ PipesShrink
    BY <1>1, <1>8, SameWorkersStay, SamePipesShrink
  <2>2. /\ disk'.runs[r] \in {NoRun, Fresh} /\ disk'.manifest.ids = disk.manifest.ids
        /\ \A q \in Run \ {r} : disk'.runs[q] = disk.runs[q]
    BY <1>1, <1>2, <1>5, <1>8 DEF Wrote
  <2>3. SpawnedOrNot(s, r, mem)
    BY <1>1, <1>2, <1>8 DEF SpawnedOrNot, TypeOK
  <2>4. /\ failures' \in Nat /\ failures' # 0
        /\ stream' \in [Server -> Snapshot \cup {Closed}]
    BY <1>1, <1>8 DEF WriteFails, TypeOK
  <2>5. ManagerMoves(s)
    BY <1>1, <1>2, <1>4, <1>8, <2>2, <2>3, <2>4, StartedMoves
  <2>6. WorkerInv'
    BY <1>1, <2>1, <2>5, ManagersKeepWorkers DEF ManagerMoves
  <2>7. QED
    BY <1>8, <2>1, <2>5, <2>6 DEF PipesShrink, WorkersStay
<1>9. QED
  BY <1>3, <1>6, <1>7, <1>8

\* Nothing restored is running, and what has ended comes back as it was.
LEMMA RestoredRecords ==
  ASSUME RunsInv
  PROVE  /\ Restored \in Records
         /\ \A q \in Run :
              /\ ~RunningRecord(Restored[q])
              /\ Restored[q] # NoRun => disk.runs[q] # NoRun
              /\ Restored[q] # NoRun /\ EndedRecord(disk.runs[q])
                   => Restored[q] = disk.runs[q]
              /\ Completed(Restored[q]) => Restored[q] = disk.runs[q]
<1>1. disk.runs \in Records /\ \A q \in disk.manifest.ids : disk.runs[q] # NoRun
  BY DEF RunsInv, TypeOK, Disk, Restorable
<1>2. ASSUME NEW q \in Run
      PROVE  /\ Restored[q] \in RunRecord \cup {NoRun}
             /\ ~RunningRecord(Restored[q])
             /\ Restored[q] # NoRun => disk.runs[q] # NoRun
             /\ Restored[q] # NoRun /\ EndedRecord(disk.runs[q])
                  => Restored[q] = disk.runs[q]
             /\ Completed(Restored[q]) => Restored[q] = disk.runs[q]
  <2> DEFINE interrupted == [disk.runs[q] EXCEPT !.status = "interrupted"]
  <2>1. CASE q \notin disk.manifest.ids
    BY <2>1 DEF Restored, RunningRecord, Completed
  <2>2. CASE q \in disk.manifest.ids /\ disk.runs[q].status = "running"
    <3>1. Restored[q] = interrupted /\ disk.runs[q] \in RunRecord /\ disk.runs[q] # NoRun
      BY <1>1, <2>2 DEF Restored, Records
    <3>2. /\ interrupted \in RunRecord /\ interrupted # NoRun
          /\ ~RunningRecord(interrupted) /\ ~Completed(interrupted)
      BY <3>1, FailedRecord
    <3> HIDE DEF interrupted
    <3>3. QED
      BY <2>2, <3>1, <3>2 DEF EndedRecord, Ended
  <2>3. CASE q \in disk.manifest.ids /\ disk.runs[q].status # "running"
    BY <1>1, <2>3 DEF Restored, Records, RunningRecord
  <2>4. QED
    BY <2>1, <2>2, <2>3
<1>3. Restored \in Records
  BY <1>2 DEF Records, Restored
<1>4. QED
  BY <1>2, <1>3

LEMMA BootMoves ==
  ASSUME RunsInv, NEW s \in Server, Boot(s)
  PROVE  ManagerMoves(s) /\ WorkersStay /\ PipesShrink
<1> DEFINE sel == IF disk.manifest.selected \in disk.manifest.ids
                  THEN disk.manifest.selected ELSE NoRun
           mem == [Blank EXCEPT !.mode = "up", !.runs = Restored, !.selected = sel]
           runs == [r \in Run |-> IF Restored[r] = NoRun THEN disk.runs[r] ELSE Restored[r]]
<1>1. /\ TypeOK /\ server[s].mode = "unborn" /\ ManagerLockFree /\ Restorable
      /\ disk \in Disk /\ disk.runs \in Records
  BY DEF RunsInv, Boot, TypeOK, Disk
<1>2. /\ Remember(s, mem) /\ disk' = [runs |-> runs, manifest |-> ManifestOf(mem)]
      /\ UNCHANGED <<worker, pipe, stream, failures>>
  BY <1>1 DEF Boot, workerVars
<1>3. stream[s] = Closed
  BY <1>1 DEF RunsInv, ServerInv, Owns, Quiet
<1>4. WorkersStay /\ PipesShrink
  BY <1>1, <1>2, SameWorkersStay, SamePipesShrink
<1>5. Restored \in Records /\ runs \in Records
  BY <1>1, RestoredRecords DEF Records
<1>6. sel \in Run \cup {NoRun}
  BY <1>1 DEF Disk
<1> HIDE DEF sel
<1>7. /\ mem \in Memory /\ mem.mode = "up" /\ mem.runs = Restored
      /\ mem.child = NoRun /\ mem.active = NoRun
  BY <1>5, <1>6 DEF Blank, Memory
<1>8. /\ ManifestOf(mem) \in [ids : SUBSET Run, selected : Run \cup {NoRun}]
      /\ ManifestOf(mem).ids = Known(mem)
  BY <1>7 DEF ManifestOf, Memory, Known
<1> HIDE DEF mem
<1>9. /\ server' \in [Server -> Memory] /\ server'[s] = mem
      /\ \A t \in Server \ {s} : server'[t] = server[t]
  BY <1>1, <1>2, <1>7, Remembered
<1>10. /\ disk' \in Disk /\ disk'.manifest.ids = Known(mem) /\ disk'.runs = runs
  BY <1>2, <1>5, <1>8 DEF Disk
<1>11. \A q \in Run :
         /\ disk'.runs[q] = disk.runs[q] \/ ~EndedRecord(disk.runs[q])
         /\ Completed(disk'.runs[q]) => disk'.runs[q] = disk.runs[q]
         /\ Restored[q] # NoRun => disk'.runs[q] # NoRun
  BY <1>10, RestoredRecords
<1>12. Employed(s)'
  <2>1. \A q \in Run : worker[q].parent # s
    BY <1>1 DEF RunsInv, WorkerInv, BirthIsRecorded
  <2>2. QED
    BY <1>2, <1>7, <1>9, <2>1 DEF Employed
<1>13. Journaled(s)' /\ Restorable'
  BY <1>7, <1>9, <1>10, <1>11 DEF Journaled, Restorable, Known
<1>14. NotEndedOnDisk(s)' /\ ResultIsFinal(s)'
  BY <1>7, <1>9, RestoredRecords DEF NotEndedOnDisk, ResultIsFinal, RunningRecord
<1>15. VerifiedInMemory(s)' /\ JournalGrows
  <2>1. \A q \in Run : VerifiedRecord(q, disk.runs[q])
    BY DEF RunsInv, VerifiedOnDisk
  <2>2. VerifiedInMemory(s)'
    BY <1>2, <1>7, <1>9, <2>1, RestoredRecords
       DEF VerifiedInMemory, VerifiedRecord, Completed
  <2>3. JournalGrows
    BY <1>2, <1>11, <2>1 DEF JournalGrows, VerifiedRecord
  <2>4. QED
    BY <2>2, <2>3
<1>16. Owns(s)' /\ Current(s)'
  BY <1>2, <1>3, <1>7, <1>9 DEF Owns, Current
<1>17. ManagerMoves(s)
  BY <1>1, <1>2, <1>7, <1>9, <1>10, <1>12, <1>13, <1>14, <1>15, <1>16
     DEF ManagerMoves, ServerInv, TypeOK
<1>18. QED
  BY <1>4, <1>17

-----------------------------------------------------------------------------
(***************************************************************************)
(* The inductive invariant.                                                *)
(***************************************************************************)
LEMMA ManagerStepMoves ==
  ASSUME RunsInv, NEW s \in Server, ManagerStep(s)
  PROVE  RunsInv' /\ JournalGrows
<1>1. ASSUME ManagerMoves(s), WorkersStay, PipesShrink
      PROVE  RunsInv' /\ JournalGrows
  <2>1. \A t \in Server : server[t].mode # "unborn" => server'[t].mode # "unborn"
    BY <1>1 DEF ManagerMoves
  <2>2. WorkerInv'
    BY <1>1, <2>1, ManagersKeepWorkers DEF RunsInv
  <2>3. QED
    BY <1>1, <2>2, ManagerMovesKeepInv DEF WorkersStay, PipesShrink, ManagerMoves
<1>2. ASSUME NEW r \in Run, Start(s, r)
      PROVE  RunsInv' /\ JournalGrows
  BY <1>2, StartMoves, ManagerMovesKeepInv DEF ManagerMoves
<1>3. CASE \E r \in Run : Start(s, r)
  BY <1>2, <1>3
<1>4. CASE ~ \E r \in Run : Start(s, r)
  BY <1>1, <1>4, BootMoves, EndingMoves, ResetMoves, ReadLineMoves, DeadlineMoves,
     CompleteMoves, ReleaseMoves, RejectMoves, CloseBeginsMoves, StreamStepMoves
     DEF ManagerStep, Finishing
<1>5. QED
  BY <1>3, <1>4

LEMMA InitInv == Init => RunsInv
<1> SUFFICES ASSUME Init PROVE RunsInv
  OBVIOUS
<1>1. TypeOK
  BY UnbornTyped, BlankTyped DEF Init, WorkerInit, TypeOK, Disk, Records
<1>2. WorkerInv
  BY RunsAssumption DEF Init, WorkerInit, WorkerInv, OneLockHolder, ResultLinesAreFinal,
     BirthIsRecorded, HoldsLock, Unborn, Blank
<1>3. \A s \in Server : ServerInv(s) /\ ~Owns(s)
  BY DEF Init, ServerInv, Quiet, Owns, Blank
<1>4. OneOwner /\ Restorable /\ VerifiedOnDisk
  BY <1>3 DEF Init, OneOwner, Restorable, VerifiedOnDisk, VerifiedRecord, Completed
<1>5. QED
  BY <1>1, <1>2, <1>3, <1>4 DEF RunsInv

LEMMA NextKeepsInv ==
  ASSUME RunsInv, [Next]_vars
  PROVE  RunsInv' /\ JournalGrows
<1>1. ASSUME NEW s \in Server, ManagerStep(s)
      PROVE  RunsInv' /\ JournalGrows
  BY <1>1, ManagerStepMoves
<1>2. ASSUME NEW r \in Run, WorkerStep(r) \/ StartByHand(r), UNCHANGED managerVars
      PROVE  RunsInv' /\ JournalGrows
  BY <1>2, WorkerStepKeepsInv DEF JournalGrows, managerVars
<1>3. CASE UNCHANGED vars
  <2>1. UNCHANGED <<worker, pipe, server, disk, stream, failures>>
    BY <1>3 DEF vars, workerVars, managerVars
  <2>2. RunsInv'
    BY <2>1 DEF RunsInv, TypeOK, WorkerInv, OneLockHolder, HoldsLock,
       ResultLinesAreFinal, Final, BirthIsRecorded, OneOwner, Owns, ServerInv,
       Quiet, Employed, Running, Journaled, Known, NotEndedOnDisk, ResultIsFinal,
       VerifiedInMemory, VerifiedRecord, Current, View, Restorable, VerifiedOnDisk
  <2>3. QED
    BY <2>1, <2>2 DEF JournalGrows
<1>4. QED
  BY <1>1, <1>2, <1>3, RunsAssumption DEF Next

\* Every reachable state keeps what the dashboards, their workers and the disk
\* owe each other (run-manager.ts, demo.ts).
THEOREM RunsInvariant == Spec => []RunsInv
BY InitInv, NextKeepsInv, PTL DEF Spec

(***************************************************************************)
(* Two workers never sign at once, whoever started them: the lock of       *)
(* worker-lock.ts is taken before the first signature and held to the end. *)
(***************************************************************************)
THEOREM OneWorkerSigns == Spec => []AtMostOneSigner
<1>1. RunsInv => AtMostOneSigner
  BY DEF RunsInv, WorkerInv, OneLockHolder, HoldsLock, AtMostOneSigner
<1>2. QED
  BY <1>1, RunsInvariant, PTL

(***************************************************************************)
(* A dashboard that reports no active run has no worker that could sign:   *)
(* fail, in run-manager.ts, leaves the run active until the child is gone. *)
(***************************************************************************)
THEOREM IdleDashboardsAreQuiet == Spec => []IdleMeansQuiet
<1>1. RunsInv => IdleMeansQuiet
  <2> SUFFICES ASSUME RunsInv, NEW s \in Server, Owns(s), server[s].active = NoRun,
                      NEW r \in Run, worker[r].parent = s
               PROVE  ~Running(r)
    BY DEF IdleMeansQuiet
  <2>1. Employed(s)
    BY LiveServer
  <2>2. QED
    BY <2>1, RunsAssumption DEF Employed
<1>2. QED
  BY <1>1, RunsInvariant, PTL

(***************************************************************************)
(* Wherever a write fails or a process dies, restore finds the run.json of *)
(* every run that state.json lists.                                        *)
(***************************************************************************)
THEOREM JournalCanBeRestored == Spec => []RestartAlwaysPossible
<1>1. RunsInv => RestartAlwaysPossible
  BY DEF RunsInv, RestartAlwaysPossible
<1>2. QED
  BY <1>1, RunsInvariant, PTL

(***************************************************************************)
(* A run called completed, in any memory or on disk, has a worker that     *)
(* exited by itself and a record of exactly the transactions it published. *)
(***************************************************************************)
THEOREM CompletedRunsWereVerified == Spec => []CompletedWasVerified
<1>1. RunsInv => CompletedWasVerified
  <2> SUFFICES ASSUME RunsInv, NEW r \in Run,
                      NEW rec \in {disk.runs[r]} \cup {server[s].runs[r] : s \in Server},
                      Completed(rec)
               PROVE  /\ worker[r].pc = "exited" /\ worker[r].code = 0
                      /\ rec.transactions = worker[r].published
    BY DEF CompletedWasVerified
  <2>1. ASSUME NEW s \in Server PROVE VerifiedRecord(r, server[s].runs[r])
    <3>1. CASE Quiet(s)
      BY <3>1 DEF Quiet, Blank, Gone, VerifiedRecord, Completed
    <3>2. CASE ~Quiet(s)
      BY <3>2 DEF RunsInv, ServerInv, VerifiedInMemory
    <3>3. QED
      BY <3>1, <3>2
  <2>2. VerifiedRecord(r, rec)
    BY <2>1 DEF RunsInv, VerifiedOnDisk
  <2>3. QED
    BY <2>2 DEF VerifiedRecord
<1>2. QED
  BY <1>1, RunsInvariant, PTL

(***************************************************************************)
(* While no disk write has failed, an open stream shows the manager as it  *)
(* is: every change that state() shows is followed by notify().            *)
(***************************************************************************)
THEOREM StreamsAreCurrent == Spec => []StreamIsCurrent
<1>1. RunsInv => StreamIsCurrent
  <2> SUFFICES ASSUME RunsInv, failures = 0, NEW s \in Server, stream[s] # Closed
               PROVE  stream[s] = View(server[s])
    BY DEF StreamIsCurrent
  <2>1. Current(s)
    BY LiveServer
  <2>2. QED
    BY <2>1 DEF Current
<1>2. QED
  BY <1>1, RunsInvariant, PTL

(***************************************************************************)
(* The journal of an ended run is never written differently: fail and the  *)
(* reading of lines look at the status first, and so does restore.         *)
(***************************************************************************)
THEOREM EndsAreFinal == Spec => EndedRunsNeverChange
<1>1. ASSUME RunsInv, [Next]_vars
      PROVE  [\A r \in Run : disk.runs[r] # NoRun /\ disk.runs[r].status \in Ended
                => disk'.runs[r] = disk.runs[r]]_vars
  BY <1>1, NextKeepsInv DEF JournalGrows, EndedRecord
<1>2. QED
  BY <1>1, RunsInvariant, PTL DEF Spec, EndedRunsNeverChange

=============================================================================
