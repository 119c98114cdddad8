----------------------------- MODULE DemoWorker -----------------------------
(***************************************************************************)
(* The signing process of a demo run, as packages/demo/src/demo.ts starts  *)
(* it: one operating-system process per run, a lock only one of them can   *)
(* hold, a parent it refuses to outlive, signals, and a pipe of lines as   *)
(* its only output.  What main() signs on chain is DemoScenario; here a    *)
(* line stands for one marker the bus writes.                              *)
(***************************************************************************)
EXTENDS Naturals, Sequences

CONSTANTS
  Run,        \* run ids, one worker process for each
  Server,     \* dashboard processes; a restart is another process
  NoServer,   \* the parent of a worker started by hand
  TxHash,
  LinePhase,  \* the phases lines may carry, indices into PHASES
  MaxLines,   \* [Run -> Nat], a bound on the lines before the result
  MaxUnread   \* a bound on the lines the parent has not read yet

VARIABLES
  worker,     \* [Run -> its process]
  pipe,       \* [Run -> lines written and not yet read by the parent]
  alive       \* the servers whose process lives: the IPC channel's other end

workerVars == <<worker, pipe>>

\* A process not spawned yet.  code is its exit code: 1 for all but 0, since
\* nobody tells 1 from the 143 of a signal.
Unborn == [pc |-> "unborn", parent |-> NoServer, code |-> 0, term |-> FALSE,
           deployed |-> FALSE, published |-> {}, resulted |-> FALSE, lines |-> 0]

WorkerInit ==
  /\ worker = [r \in Run |-> Unborn]
  /\ pipe = [r \in Run |-> <<>>]

Running(r) == worker[r].pc \in {"starting", "locked", "signing"}

\* The lock lives in an open database transaction: death releases it.
HoldsLock(r) == worker[r].pc \in {"locked", "signing"}
LockFreeAlways == TRUE
LockFree == \A r \in Run : ~HoldsLock(r)

Managed(r) == worker[r].parent # NoServer

\* The configured parent lives and the channel to it is connected.
ParentThere(r) == worker[r].parent \in alive

Spawned(parent) == [Unborn EXCEPT !.pc = "starting", !.parent = parent]

Move(r, pc) == worker' = [worker EXCEPT ![r].pc = pc]

\* Only a dashboard reads: a worker started by hand writes to a terminal.
Write(r, line) ==
  pipe' = IF ParentThere(r) THEN [pipe EXCEPT ![r] = Append(@, line)] ELSE pipe

\* Of a process that is gone its exit code remains and, for the properties,
\* what it had published when it succeeded.
Exit(r, code) ==
  worker' = [worker EXCEPT ![r] =
    [Unborn EXCEPT !.pc = "exited", !.code = code,
                   !.published = IF code = 0 THEN worker[r].published ELSE {}]]

\* kill("SIGTERM"), and SIGKILL after 1.5 s: nothing for a dead process.
Terminate(r) ==
  [worker EXCEPT ![r].term = @ \/ Running(r)]

-----------------------------------------------------------------------------
\* bun demo.ts on a terminal, beside the dashboard.
StartByHand(r) ==
  /\ worker[r].pc = "unborn"
  /\ worker' = [worker EXCEPT ![r] = Spawned(NoServer)]
  /\ UNCHANGED pipe

\* The lock comes before the parent check and before any signature.
AcquireLock(r) ==
  /\ worker[r].pc = "starting"
  /\ IF LockFree THEN Move(r, "locked") ELSE Exit(r, 1)
  /\ UNCHANGED pipe

RequireParent(r) ==
  /\ worker[r].pc = "locked"
  /\ IF Managed(r) => ParentThere(r) THEN Move(r, "signing") ELSE Exit(r, 1)
  /\ UNCHANGED pipe

\* Between lines the script signs and waits for receipts, for any time.
Working(r) == worker[r].pc = "signing" /\ ~worker[r].resulted
Speaking(r) ==
  Working(r) /\ worker[r].lines < MaxLines[r] /\ Len(pipe[r]) < MaxUnread

Publish(r) ==
  /\ Speaking(r)
  /\ \E p \in LinePhase : Write(r, [kind |-> "event", phase |-> p])
  /\ worker' = [worker EXCEPT ![r].lines = @ + 1]

\* A hash already published is not published again.
PublishTransaction(r) ==
  /\ Speaking(r)
  /\ \E h \in TxHash \ worker[r].published, p \in LinePhase :
       /\ Write(r, [kind |-> "tx", hash |-> h, phase |-> p])
       /\ worker' = [worker EXCEPT ![r].published = @ \cup {h},
                                   ![r].lines = @ + 1]

PublishDeployment(r) ==
  /\ Speaking(r) /\ ~worker[r].deployed
  /\ Write(r, [kind |-> "deployment"])
  /\ worker' = [worker EXCEPT ![r].deployed = TRUE, ![r].lines = @ + 1]

\* The six checks have passed; the result names every transaction published.
PublishResult(r) ==
  /\ Working(r) /\ worker[r].deployed
  /\ Write(r, [kind |-> "result", hashes |-> worker[r].published])
  /\ worker' = [worker EXCEPT ![r].resulted = TRUE]

Finish(r) ==
  /\ worker[r].pc = "signing" /\ worker[r].resulted
  /\ Exit(r, 0)
  /\ UNCHANGED pipe

\* A check, an RPC call or a receipt fails: one event, then exit code 1.
ScriptFails(r) ==
  /\ Working(r)
  /\ Write(r, [kind |-> "event", phase |-> 0])
  /\ Exit(r, 1)

\* The IPC channel closes because the dashboard died.
ParentLostIgnored(r) ==
  /\ worker[r].pc = "signing" /\ Managed(r) /\ ~ParentThere(r)
  /\ UNCHANGED workerVars

ParentLost(r) ==
  /\ worker[r].pc = "signing" /\ Managed(r) /\ ~ParentThere(r)
  /\ Exit(r, 1)
  /\ UNCHANGED pipe

\* SIGTERM, or SIGKILL 1.5 s later, ends the process, in the middle of a
\* line if it was writing one.
Signalled(r) ==
  /\ Running(r) /\ worker[r].term
  /\ \/ UNCHANGED pipe
     \/ Working(r) /\ Write(r, [kind |-> "torn"])
  /\ Exit(r, 1)

WorkerStep(r) ==
  \/ AcquireLock(r) \/ RequireParent(r)
  \/ Publish(r) \/ PublishTransaction(r) \/ PublishDeployment(r)
  \/ PublishResult(r) \/ Finish(r) \/ ScriptFails(r)
  \/ ParentLost(r) \/ Signalled(r)

(***************************************************************************)
(* The kernel delivers signals, a process gets through the two checks it   *)
(* starts with, and hears that its parent is gone.  Nothing else is fair:  *)
(* main() may wait for the chain for ever.                                 *)
(***************************************************************************)
WorkerFairness(r) ==
  /\ WF_workerVars(AcquireLock(r)) /\ WF_workerVars(RequireParent(r))
  /\ WF_workerVars(ParentLost(r)) /\ WF_workerVars(Signalled(r))

=============================================================================
