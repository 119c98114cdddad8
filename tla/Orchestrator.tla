---------------------------- MODULE Orchestrator ----------------------------
(***************************************************************************)
(* packages/api: the mirror of accepted verdicts into the registries.      *)
(* erc8004-orchestrator.ts plans three posts for a verdict and one for a   *)
(* hold that was found clean, signed with three keys and sent one after    *)
(* the other without waiting for any to be mined; arc-orchestrator.ts runs *)
(* it on the live events, step4-arc.ts collects a run of the demo with it  *)
(* and step4-recover.ts looks at what a collector that was killed left.    *)
(*                                                                         *)
(* A log is [event, agent, digest, byte] or [event, agent, holdId, clean]; *)
(* its place in the sequence of logs stands for the transaction that       *)
(* emitted it.                                                             *)
(***************************************************************************)
EXTENDS Erc8004

CONSTANTS
  VerdictLogs,       \* what the verdict contract may emit, each once
  MaxVerdictLogs, MaxSweeps, MaxRestarts   \* bounds

VARIABLES
  mode,         \* "live" or "collector"
  vlog,         \* the logs emitted
  polled,       \* how many the subscription has delivered
  queue,        \* items to process: [at, source]
  task,         \* the trigger being handled
  posted,       \* the orchestrator's digests
  life,         \* restarts of the live process
  txs,          \* calls sent: [name, ..., status]
  seen, postedDigests, flags, pending, covered, \* of the collector
  phase,        \* of the collector
  sweeps,
  exitZero,     \* the demo's exit code is zero
  verdict       \* the exit of the collector or of the recovery

processVars == <<queue, task, posted, txs>>
collectorVars == <<seen, postedDigests, flags, pending, covered>>
orchestratorVars == <<rlog, indexed, entities, mode, vlog, polled, queue, task,
                      posted, life, txs, seen, postedDigests, flags, pending,
                      covered, phase, sweeps, exitZero, verdict>>

Idle == [at |-> 0, left |-> <<>>, sent |-> {}]
Busy == task # Idle
Known == "known"     \* the request's status is wanted first

-----------------------------------------------------------------------------
(***************************************************************************)
(* erc8004-orchestrator.ts.                                                *)
(***************************************************************************)
\* parseTriggers: a clean hold counts as attempted, a suspicious one not at
\* all.  The digest of a hold is made of its number alone.
DigestOf(log) ==
  IF log.event = "HoldVerdictRouted" THEN [of |-> "hold", id |-> log.holdId]
  ELSE log.digest

OutcomeOf(log) ==
  IF log.event = "HoldVerdictRouted"
  THEN IF log.clean THEN OutcomeFromByte(3) ELSE {}
  ELSE OutcomeFromByte(log.byte)

\* Mutant of PlanFor: a digest is planned however often it comes.
PlanForAgain(log, withTx) ==
  IF OutcomeOf(log) = {} THEN <<>>
  ELSE IF withTx THEN <<"ValidationRequest", "ValidationResponse", "NewFeedback">>
  ELSE <<"NewFeedback">>

\* The posts for a log; without its transaction only the feedback.
PlanFor(log, withTx) ==
  IF OutcomeOf(log) = {} \/ DigestOf(log) \in posted THEN <<>>
  ELSE IF withTx THEN <<"ValidationRequest", "ValidationResponse", "NewFeedback">>
  ELSE <<"NewFeedback">>

\* The collector passes the transaction of a verdict's log, the live process
\* none.
WithTx(log) == mode = "collector" /\ log.event = "VerdictAccepted"

HashAt(i) == RequestHash(vlog[i].agent, i, DigestOf(vlog[i]))

Call(name, i) ==
  LET log == vlog[i]
      outcome == CHOOSE o \in OutcomeOf(log) : TRUE
      digest == DigestOf(log)
  IN CASE name = "ValidationRequest" ->
            [name |-> name, requestHash |-> HashAt(i), digest |-> digest]
       [] name = "ValidationResponse" ->
            [name |-> name, requestHash |-> HashAt(i), digest |-> digest,
             response |-> SCORE_BY_OUTCOME[outcome]]
       [] name = "NewFeedback" ->
            [name |-> name, value |-> VALUE_BY_OUTCOME[outcome], digest |-> digest,
             life |-> life]

Accepts(call) ==
  CASE call.name = "ValidationRequest" -> ~Requested(call.requestHash)
    [] call.name = "ValidationResponse" -> Requested(call.requestHash)
    [] call.name = "NewFeedback" -> TRUE

\* handle, up to its first await.
Begin(i) == task' = [at |-> i, left |-> <<Known>> \o PlanFor(vlog[i], WithTx(vlog[i])),
                     sent |-> {}]

\* A request that is there already ends it, which takes another process that
\* files the same one; a failed read counts as none.
ReadStatus ==
  /\ Busy /\ Head(task.left) = Known
  /\ \E reads \in BOOLEAN :
       IF reads /\ Requested(HashAt(task.at))
       THEN /\ posted' = posted \cup {DigestOf(vlog[task.at])}
            /\ covered' = IF WithTx(vlog[task.at]) THEN task.at ELSE covered
            /\ task' = Idle
       ELSE task' = [task EXCEPT !.left = Tail(@)] /\ UNCHANGED <<posted, covered>>
  /\ UNCHANGED <<registryVars, mode, vlog, polled, queue, life, txs, seen,
                 postedDigests, flags, pending, phase, sweeps, exitZero, verdict>>

\* Each post is sent without waiting for the last; the digest is remembered,
\* and the collector told what was sent, after all of them.
Post ==
  /\ Busy /\ Head(task.left) # Known
  /\ LET sent == task.sent \cup {Len(txs) + 1}
         log == vlog[task.at]
     IN /\ txs' = Append(txs, [call |-> Call(Head(task.left), task.at), status |-> "pending"])
        /\ IF Len(task.left) > 1
           THEN /\ task' = [task EXCEPT !.left = Tail(@), !.sent = sent]
                /\ UNCHANGED <<posted, pending, covered>>
           ELSE /\ task' = Idle
                /\ posted' = posted \cup {DigestOf(log)}
                /\ pending' = IF mode = "collector" THEN pending \cup sent ELSE pending
                /\ covered' = IF WithTx(log) THEN task.at ELSE covered
  /\ UNCHANGED <<registryVars, mode, vlog, polled, queue, life, seen, postedDigests,
                 flags, phase, sweeps, exitZero, verdict>>

\* The endpoint fails, or estimates a call that would revert in the state
\* mined so far: what was sent before stays sent.
PostFails ==
  /\ Busy /\ Head(task.left) # Known
  /\ task' = Idle
  /\ UNCHANGED <<registryVars, mode, vlog, polled, queue, posted, life, txs,
                 collectorVars, phase, sweeps, exitZero, verdict>>

\* The keys' transactions are mined in the order of each key's nonces.
Mine(i) ==
  /\ txs[i].status = "pending"
  /\ \A j \in 1 .. i - 1 :
       txs[j].call.name = txs[i].call.name => txs[j].status # "pending"
  /\ LET ok == Accepts(txs[i].call) IN
       /\ txs' = [txs EXCEPT ![i].status = IF ok THEN "success" ELSE "reverted"]
       /\ IF ok THEN Emitted(<<txs[i].call>>) ELSE UNCHANGED registryVars
  /\ UNCHANGED <<mode, vlog, polled, queue, task, posted, life, collectorVars,
                 phase, sweeps, exitZero, verdict>>

-----------------------------------------------------------------------------
(***************************************************************************)
(* arc-orchestrator.ts.                                                    *)
(***************************************************************************)
\* The contract emits, in the collector's case because of the demo.
Emit ==
  /\ Len(vlog) < MaxVerdictLogs
  /\ phase \in {"live", "demo"}
  /\ \E log \in VerdictLogs \ ToSet(vlog) : vlog' = Append(vlog, log)
  /\ UNCHANGED <<registryVars, mode, polled, processVars, life, collectorVars,
                 phase, sweeps, exitZero, verdict>>

Delivered == [n \in 1 .. Len(vlog) - polled |-> [at |-> polled + n, source |-> "live"]]

\* A batch that comes while another is handled is dropped (live), or queued.
Poll ==
  /\ polled < Len(vlog)
  /\ phase \in {"live", "demo", "settle", "drain"}
  /\ polled' = Len(vlog)
  /\ queue' = IF mode = "live" /\ (Busy \/ queue # <<>>) THEN queue
              ELSE queue \o Delivered
  /\ UNCHANGED <<registryVars, mode, vlog, task, posted, life, txs, collectorVars,
                 phase, sweeps, exitZero, verdict>>

\* The next trigger of the batch.
Take ==
  /\ mode = "live" /\ ~Busy /\ queue # <<>>
  /\ queue' = Tail(queue)
  /\ IF PlanFor(vlog[Head(queue).at], FALSE) = <<>> THEN UNCHANGED task
     ELSE Begin(Head(queue).at)
  /\ UNCHANGED <<registryVars, mode, vlog, polled, posted, life, txs, collectorVars,
                 phase, sweeps, exitZero, verdict>>

\* It is stopped and started: it watches from the present block on.
Restart ==
  /\ mode = "live" /\ life < MaxRestarts
  /\ life' = life + 1
  /\ polled' = Len(vlog) /\ queue' = <<>> /\ task' = Idle /\ posted' = {}
  /\ UNCHANGED <<registryVars, mode, vlog, txs, collectorVars, phase, sweeps, exitZero, verdict>>

-----------------------------------------------------------------------------
(***************************************************************************)
(* step4-arc.ts.                                                           *)
(***************************************************************************)
EndsWith(p, v) == phase' = p /\ verdict' = v

\* The guard must be untouched and midnight far; a dry run ends here.
Gate ==
  /\ phase = "gate"
  /\ \E go \in {"refuse", "dry", "go"} :
       EndsWith(CASE go = "go" -> "register" [] OTHER -> "exited",
                CASE go = "refuse" -> "FAIL" [] go = "dry" -> "DRY" [] OTHER -> verdict)
  /\ UNCHANGED <<registryVars, mode, vlog, polled, processVars, life, collectorVars,
                 sweeps, exitZero>>

\* A failed registration throws; a failed binding of the wallet does not.
Register ==
  /\ phase = "register"
  /\ \E ok \in BOOLEAN :
       /\ EndsWith(IF ok THEN "bind" ELSE "exited", IF ok THEN verdict ELSE "FAIL")
       /\ IF ok THEN Emitted(Registration) ELSE UNCHANGED registryVars
  /\ UNCHANGED <<mode, vlog, polled, processVars, life, collectorVars, sweeps, exitZero>>

Bind ==
  /\ phase = "bind"
  /\ \E ok \in BOOLEAN :
       IF ok THEN Emitted(<<[name |-> "MetadataSet", wallet |-> Amara]>>)
       ELSE UNCHANGED registryVars
  /\ phase' = "demo"
  /\ UNCHANGED <<mode, vlog, polled, processVars, life, collectorVars, sweeps, exitZero, verdict>>

\* processEvent and mirror: a log counts once, its flag only when the sweep
\* sees it first, its digest before it is mirrored, and a verdict that is not
\* posted becomes the covered one all the same.
Process ==
  /\ mode = "collector" /\ ~Busy /\ queue # <<>>
  /\ LET item == Head(queue)
         log == vlog[item.at]
         new == item.at \notin seen
         planned == PlanFor(log, WithTx(log)) # <<>>
         mirrored == /\ new /\ (log.event = "VerdictAccepted" \/ log.clean)
                     /\ DigestOf(log) \notin postedDigests
     IN /\ seen' = seen \cup {item.at}
        /\ flags' = IF new /\ item.source = "verdicts" THEN flags \cup {log.event} ELSE flags
        /\ postedDigests' = IF mirrored THEN postedDigests \cup {DigestOf(log)}
                            ELSE postedDigests
        /\ IF mirrored /\ planned THEN Begin(item.at) ELSE UNCHANGED task
        /\ covered' = IF mirrored /\ ~planned /\ WithTx(log) THEN item.at ELSE covered
  /\ queue' = Tail(queue)
  /\ UNCHANGED <<registryVars, mode, vlog, polled, posted, life, txs, pending,
                 phase, sweeps, exitZero, verdict>>

DemoExits ==
  /\ phase = "demo"
  /\ phase' = "settle"
  /\ exitZero' \in BOOLEAN
  /\ UNCHANGED <<registryVars, mode, vlog, polled, processVars, life, collectorVars,
                 sweeps, verdict>>

\* One round of the settle loop: all logs since the demo began, then the
\* queue to its end.
Sweep ==
  /\ phase = "settle" /\ sweeps < MaxSweeps
  /\ sweeps' = sweeps + 1
  /\ queue' = queue \o [n \in 1 .. Len(vlog) |-> [at |-> n, source |-> "verdicts"]]
  /\ phase' = "drain"
  /\ UNCHANGED <<registryVars, mode, vlog, polled, task, posted, life, txs,
                 collectorVars, exitZero, verdict>>

\* Both events, a failed demo or the deadline end the loop.
Drained ==
  /\ phase = "drain" /\ queue = <<>> /\ ~Busy
  /\ \/ phase' = "receipts"
     \/ /\ exitZero /\ Cardinality(flags) < 2
        /\ phase' = "settle"
  /\ UNCHANGED <<registryVars, mode, vlog, polled, processVars, life, collectorVars,
                 sweeps, exitZero, verdict>>

\* A process that is gone remembers nothing.
Gone ==
  /\ queue' = <<>> /\ task' = Idle /\ posted' = {}
  /\ seen' = {} /\ postedDigests' = {} /\ flags' = {} /\ pending' = {} /\ covered' = 0

ReadsCovered(i) ==
  /\ Requested(HashAt(i)) /\ Status(HashAt(i)) = SCORE_BY_OUTCOME["COVERED"]
  /\ \E f \in Places("NewFeedback") :
       FeedbackIndex(f) = 1 /\ rlog[f].value = VALUE_BY_OUTCOME["COVERED"]

\* The receipts of the posts are waited for, each up to three minutes; then
\* the registries are read and everything is checked; the balances the demo
\* leaves are as planned or not, the look-alike paid among them.
Readback ==
  /\ phase = "receipts"
  /\ LET posts == {i \in pending : txs[i].status = "success"}
         checked == /\ exitZero
                    /\ covered # 0 /\ ReadsCovered(covered)
                    /\ Cardinality(pending) = 3 /\ posts = pending
     IN \E asPlanned \in BOOLEAN :
          EndsWith("exited", IF checked /\ asPlanned THEN "PASS" ELSE "FAIL")
  /\ Gone
  /\ UNCHANGED <<registryVars, mode, vlog, polled, life, txs, sweeps, exitZero>>

\* The collector is killed, or throws.
Killed ==
  /\ mode = "collector" /\ phase \in {"settle", "drain", "receipts"}
  /\ phase' = "killed"
  /\ Gone
  /\ UNCHANGED <<registryVars, mode, vlog, polled, life, txs, sweeps, exitZero, verdict>>

-----------------------------------------------------------------------------
(***************************************************************************)
(* step4-recover.ts: nothing is sent.  It knows the registration, takes    *)
(* the demo for successful and wants the look-alike unpaid.                *)
(***************************************************************************)
LastAccepted == SelectLastInSeq(vlog, LAMBDA log : log.event = "VerdictAccepted")

PostsFound(i) ==
  {e.name : e \in {e \in ToSet(rlog) :
                     \/ e.name \in {"ValidationRequest", "ValidationResponse"}
                        /\ e.requestHash = HashAt(i)
                     \/ e.name = "NewFeedback"}}

Recover ==
  /\ phase = "killed"
  /\ LET i == LastAccepted
         readable == i # 0 /\ Requested(HashAt(i)) /\ Places("NewFeedback") # {}
         checked == ReadsCovered(i) /\ Cardinality(PostsFound(i)) = 3
     IN \E asWanted \in BOOLEAN :
          EndsWith("recovered", IF readable /\ checked /\ asWanted THEN "PASS" ELSE "FAIL")
  /\ UNCHANGED <<registryVars, mode, vlog, polled, processVars, life, collectorVars,
                 sweeps, exitZero>>

-----------------------------------------------------------------------------
OrchestratorInit ==
  /\ mode \in {"live", "collector"}
  /\ RegistriesInit(IF mode = "live" THEN Registration ELSE <<>>)
  /\ phase = IF mode = "live" THEN "live" ELSE "gate"
  /\ vlog = <<>> /\ polled = 0 /\ queue = <<>> /\ task = Idle /\ posted = {}
  /\ life = 0 /\ txs = <<>> /\ seen = {} /\ postedDigests = {} /\ flags = {}
  /\ pending = {} /\ covered = 0 /\ sweeps = 0 /\ verdict = "none"
  /\ exitZero = FALSE

IndexNext ==
  /\ Index
  /\ UNCHANGED <<mode, vlog, polled, processVars, life, collectorVars, phase,
                 sweeps, exitZero, verdict>>

OrchestratorNext ==
  \/ Emit \/ Poll \/ Take \/ Restart \/ ReadStatus \/ Post \/ PostFails
  \/ \E i \in DOMAIN txs : Mine(i)
  \/ IndexNext
  \/ Gate \/ Register \/ Bind \/ Process \/ DemoExits \/ Sweep \/ Drained
  \/ Readback \/ Killed \/ Recover

-----------------------------------------------------------------------------
\* BulwarkTypes.Outcome from 1 on.
ContractOutcome == <<"COVERED", "DENIED_OWNER_ORIGIN", "ATTEMPTED">>

Said(digest, worth, number) ==
  \E log \in ToSet(vlog) :
    /\ DigestOf(log) = digest
    /\ IF log.event = "HoldVerdictRouted"
       THEN log.clean /\ number = worth["ATTEMPTED"]
       ELSE /\ log.byte \in DOMAIN ContractOutcome
            /\ number = worth[ContractOutcome[log.byte]]

\* The driving record says of the agent only what the verdict contract said:
\* every answer and every feedback has a log behind it, of an outcome with
\* that score or value; suspicious holds and dismissed breaches leave nothing;
\* no digest is counted twice by one process, whatever was dropped, delivered
\* twice or sent in part; the index repeats it; and a receipt that passes all
\* its checks has its covered verdict in the registries (handle, step4).
MirrorIsFaithful ==
  /\ \A i \in Places("ValidationResponse") :
       Said(rlog[i].digest, SCORE_BY_OUTCOME, rlog[i].response)
  /\ \A i \in Places("NewFeedback") :
       Said(rlog[i].digest, VALUE_BY_OUTCOME, rlog[i].value)
  /\ \A i, j \in Places("NewFeedback") :
       i # j => rlog[i].digest # rlog[j].digest \/ rlog[i].life # rlog[j].life
  /\ IndexMatches
  /\ verdict = "PASS" =>
       \E i \in DOMAIN vlog :
         /\ vlog[i].event = "VerdictAccepted" /\ vlog[i].byte = 1
         /\ Status(HashAt(i)) = SCORE_BY_OUTCOME["COVERED"]

=============================================================================
