---------------------------- MODULE DemoScenario ----------------------------
(***************************************************************************)
(* packages/demo/src/demo.ts, demo-setup.ts and protocol.ts: the scripted  *)
(* run.  It deploys and seeds a stack, or attaches to the one recorded     *)
(* last, drives the contracts through its scenario one transaction at a    *)
(* time, and after each compares the receipt and the state of its block    *)
(* with what the scenario says must have happened.  Any difference ends    *)
(* the run; the result is published only at the very end.                  *)
(*                                                                         *)
(* Meanwhile the chain is public: others send transactions, time passes,   *)
(* an aborted run leaves a transaction behind.  Amounts are whole dollars. *)
(***************************************************************************)
EXTENDS Transactions, FiniteSetsExt, TLC

CONSTANTS
  ALICE, BOB, FRESH_WALLET, ATTACKER, LOOKALIKE,
  Agent, Watcher, OtherWatcher,   \* accounts of the agent and watcher keys
  OtherGuard,    \* another account the verdict contract serves
  GasNeeded,     \* what each signing role needs, in native units
  Reserve,       \* what the owner keeps: Reserve[fresh]
  NoDigest, NoInstruction, Never, NoReceipt, NoResult,
  Delays,        \* the delays between two blocks
  MaxRuns,       \* bound: runs started
  MaxOutside     \* bound: transactions of others, but for follow-ups

VARIABLES
  mode,     \* "idle", "running", "failed", "done"
  runs,     \* runs started
  plan,     \* the steps that remain
  script,   \* what the run remembers
  receipt,  \* the receipt of its transaction, unread
  latest,   \* contracts/deployments/<chain>.json names the stack
  result,   \* the published result
  outside   \* what others did: [count, elsewhere]: their transactions, and the
            \* numbers of holds the watcher froze in the other account

scriptVars == <<mode, runs, plan, script, receipt, latest, result, outside>>
vars == <<txVars, scriptVars>>

E == INSTANCE Engine WITH DaySec <- DAY_SEC, HourSec <- 60 * MINUTE_SEC,
                          MinuteSec <- MINUTE_SEC
SDK == INSTANCE InstructionChain

\* The stakes are those protocol.ts seeds and the script expects; the
\* lookalike is a wallet of its own.
ASSUME StakesAssumption == JUNIOR_DEPOSIT = 20000 /\ SENIOR_DEPOSIT = 25000
ASSUME LookalikeAssumption ==
  LOOKALIKE \in Address \ {Guard, Pool, JuniorLP, SeniorLP}

-----------------------------------------------------------------------------
(***************************************************************************)
(* What is read of a block.                                                *)
(***************************************************************************)
Wallets == {Guard, OWNER, FRESH_WALLET, ATTACKER, LOOKALIKE, ALICE, BOB}

\* spendableUsdc is a checked subtraction: without it there is no snapshot.
Readable == totalLocked <= usdc[Guard]

Snapshot ==
  [raw |-> [w \in Wallets |-> usdc[w]],
   junior |-> totalAssets["junior"], senior |-> totalAssets["senior"],
   daily |-> <<Account!Today, Account!SpentToday, Account!CountToday>>,
   spendable |-> usdc[Guard] - totalLocked, poolBalance |-> usdc[Pool]]

Unchanged(before, after) ==
  [before EXCEPT !.spendable = 0] = [after EXCEPT !.spendable = 0]

TransferDelta(before, after, to, amount) ==
  /\ after.raw[to] = before.raw[to] + amount
  /\ after.raw[Guard] = before.raw[Guard] - amount
  /\ after.daily = <<before.daily[1], before.daily[2] + amount, before.daily[3] + 1>>

HoldState(i, status) == holds[i].status = status
NothingLocked(s) == s.spendable = s.raw[Guard]

LogsOf(r, name) == {i \in DOMAIN r.logs : r.logs[i].ev = name}
ReceiptEvent(r, name) == r.logs[CHOOSE i \in DOMAIN r.logs : i \in LogsOf(r, name)]
HasEvent(r, name) == r.success /\ \E i \in DOMAIN r.logs : LogsOf(r, name) = {i}

RequireTransfer(r, from, to, amount) ==
  /\ r.success
  /\ \E i \in DOMAIN r.logs :
       {k \in DOMAIN r.logs : r.logs[k] = Transfer(from, to, amount)} = {i}

-----------------------------------------------------------------------------
(***************************************************************************)
(* demo-setup.ts: the owner tops up the signing roles, if the owner can    *)
(* pay for all of them and keep the reserve.                               *)
(***************************************************************************)
Roles(fresh) == {Agent, Watcher} \cup (IF fresh THEN {JuniorLP, SeniorLP} ELSE {})

Missing(role) ==
  IF native[role] < GasNeeded[role] THEN GasNeeded[role] - native[role] ELSE 0

Budget(fresh) ==
  Reserve[fresh] + MapThenSumSet(Missing, Roles(fresh))

Distinct(fresh) == Cardinality({OWNER} \cup Roles(fresh)) = 1 + Cardinality(Roles(fresh))

Preflight(fresh) == Distinct(fresh) /\ native[OWNER] >= Budget(fresh)

TopUp(role, fresh) ==
  IF role \in Roles(fresh) /\ Missing(role) > 0
  THEN <<[name |-> "fund", role |-> role]>> ELSE <<>>

TopUps(fresh) ==
  TopUp(Agent, fresh) \o TopUp(Watcher, fresh)
  \o TopUp(JuniorLP, fresh) \o TopUp(SeniorLP, fresh)

-----------------------------------------------------------------------------
(***************************************************************************)
(* What the run computes by itself: the engine's judgements, on supplied   *)
(* facts and hours, and the local instruction chains.                      *)
(***************************************************************************)
Clock(hour) == (now \div DAY_SEC) * DAY_SEC + hour * 60 * MINUTE_SEC

Payroll == <<[to |-> ALICE, amount |-> 180], [to |-> BOB, amount |-> 310],
             [to |-> ALICE, amount |-> 90], [to |-> BOB, amount |-> 220]>>

History == [i \in DOMAIN Payroll |-> Payroll[i].amount]
Facts(firstSeen) ==
  [firstSeen |-> firstSeen, strikes |-> 0, drainer |-> FALSE, hours |-> 9 .. 17,
   amounts |-> History]

\* A local chain of the run's own instructions, all from the web.
LocalChain ==
  SDK!Committed(SDK!Committed(<<>>, "fresh", "web", 1), "lookalike", "web", 2)
LookEntry == LocalChain[2]
LookAlibi == SDK!AlibiForDigest(LocalChain, LookEntry.digest)

OwnerChain == SDK!Committed(<<>>, "owner directs payment", "owner-console", 1)
OwnerAlibi == SDK!AlibiForDigest(OwnerChain, OwnerChain[1].digest)

Order(to, amount, at, instruction) ==
  [to |-> to, amount |-> amount, at |-> at, instruction |-> instruction]

SuspicionFound ==
  E!JudgeHold(script.policy, Order(FRESH_WALLET, 150, Clock(4), NoInstruction),
              Facts(Never)) = "FREEZE"

ControlledFalseNegative ==
  E!JudgeHold(script.policy, Order(LOOKALIKE, 150, Clock(12), NoInstruction),
              Facts(Clock(12) - 30 * DAY_SEC)) = "RELEASE"

Breach == E!JudgeBreach(script.policy, Order(LOOKALIKE, 150, now, LookAlibi), Facts(Never))

-----------------------------------------------------------------------------
(***************************************************************************)
(* The steps.  A step sends one transaction and judges its receipt, or     *)
(* reads and judges without one (attach, verify, persist, conclude).       *)
(***************************************************************************)
Step(name) == [name |-> name]

Deployment ==
  <<Step("create"), Step("setWatcher"), Step("setPool"), Step("poolVerdicts"),
    Step("setReporter"), Step("guardVerdicts"), Step("mintGuard"),
    Step("mintJunior"), Step("mintSenior"), Step("depositJunior"),
    Step("depositSenior"), Step("attach")>>

PayrollSteps ==
  [i \in DOMAIN Payroll |->
     [name |-> "payroll", to |-> Payroll[i].to, amount |-> Payroll[i].amount,
      last |-> i = Len(Payroll)]]

\* Mutant of Scenario: the claim is made on the held proposal.
ScenarioClaimsHeld ==
  PayrollSteps \o
  <<Step("hold"), Step("freeze"), Step("cancel"), Step("block"),
    Step("lookalike"), Step("claim"), Step("conclude")>>

Scenario ==
  PayrollSteps \o
  <<Step("hold"), Step("freeze"), Step("cancel"), Step("block"),
    Step("lookalike"), Step("release"), Step("claim"), Step("conclude")>>

\* Mutant of Setup: the stack is recorded as soon as its addresses are known.
SetupRecordsFirst(fresh) ==
  IF fresh
  THEN <<Step("create"), Step("persist")>> \o Tail(Deployment)
         \o <<Step("handles"), Step("verify")>>
  ELSE <<Step("handles"), Step("verify")>>

Setup(fresh) ==
  IF fresh
  THEN Deployment \o <<Step("handles"), Step("verify"), Step("persist")>>
  ELSE <<Step("handles"), Step("verify")>>

Plan(fresh) == TopUps(fresh) \o Setup(fresh) \o Scenario

\* deployProtocol and the scenario's calls.  The verdict is pinned to the
\* version the run read at the start and carries the time of the last block.
CoveredVerdict ==
  [agent |-> Guard, claimant |-> script.policy.owner,
   txHash |-> [call |-> "release", hold |-> script.lookHold],
   destination |-> LOOKALIKE, lossAmount |-> 150,
   payoutAmount |-> Breach.payoutAmount, alibi |-> "EXTERNAL", outcome |-> "COVERED",
   strike |-> FALSE,
   policyHash |-> policyHashAt[Guard][script.policy.version], timestamp |-> now]

By(from, call) == [from |-> from, call |-> call, run |-> runs]
Pay(from, call, to, amount) ==
  [from |-> from, call |-> call, run |-> runs, to |-> to, amount |-> amount]
Into(from, call, tranche, amount) ==
  [from |-> from, call |-> call, run |-> runs, tranche |-> tranche, amount |-> amount]
WatcherKey(key) == [from |-> OWNER, call |-> "setWatcher", run |-> runs, key |-> key]
OnHold(i, tier) ==
  [from |-> Watcher, call |-> "holdVerdict", run |-> runs, hold |-> i, tier |-> tier]
Decision(i, decision) ==
  [from |-> OWNER, call |-> "decide", run |-> runs, hold |-> i, decision |-> decision]
Judged(v) == [from |-> Watcher, call |-> "verdict", run |-> runs, verdict |-> v]

TxOf(step) ==
  CASE step.name = "fund" -> Pay(OWNER, "fund", step.role, Missing(step.role))
    [] step.name = "setWatcher" -> WatcherKey(Watcher)
    [] step.name = "mintGuard" -> Pay(OWNER, "mint", Guard, 4000)
    [] step.name = "mintJunior" -> Pay(OWNER, "mint", JuniorLP, JUNIOR_DEPOSIT)
    [] step.name = "mintSenior" -> Pay(OWNER, "mint", SeniorLP, SENIOR_DEPOSIT)
    [] step.name = "depositJunior" -> Into(JuniorLP, "deposit", "junior", JUNIOR_DEPOSIT)
    [] step.name = "depositSenior" -> Into(SeniorLP, "deposit", "senior", SENIOR_DEPOSIT)
    [] step.name = "payroll" -> Pay(Agent, "propose", step.to, step.amount)
    [] step.name = "hold" -> Pay(Agent, "propose", FRESH_WALLET, 150)
    [] step.name = "freeze" -> OnHold(script.freshHold, 1)
    [] step.name = "cancel" -> Decision(script.freshHold, 1)
    [] step.name = "block" -> Pay(Agent, "propose", ATTACKER, 900)
    [] step.name = "lookalike" -> Pay(Agent, "propose", LOOKALIKE, 150)
    [] step.name = "release" -> OnHold(script.lookHold, 0)
    [] step.name = "claim" -> Judged(CoveredVerdict)
    [] OTHER -> By(OWNER, step.name)

\* The transaction that must revert has its gas given; its simulation must
\* fail for the per-transfer limit, which the classifier tests first.
OverPerTx ==
  /\ Account!MayPropose(Agent, ATTACKER)
  /\ 900 > Account!EffectiveLimit(Registry!GetPolicy(Guard), ATTACKER)

\* Gas estimation runs the call: one that would revert now is not sent.
MaySend(step) == IF step.name = "block" THEN OverPerTx ELSE ENABLED Call(TxOf(step))

-----------------------------------------------------------------------------
(***************************************************************************)
(* The evidence for each step, in the state of the receipt's block.        *)
(***************************************************************************)
ClaimJudged ==
  [outcome |-> "COVERED", alibi |-> "EXTERNAL", lossAmount |-> 150,
   payoutAmount |-> 135] = Breach

\* Nuno's case is local: a signed order of the owner's, of another amount.
OwnerOriginDenied ==
  /\ OwnerAlibi.found /\ OwnerAlibi.ownerSigned /\ SDK!VerifyChain(OwnerChain)
  /\ E!JudgeBreach(script.policy, Order(ATTACKER, 1800, now, OwnerAlibi), Facts(Never))
       = [outcome |-> "DENIED_OWNER_ORIGIN", alibi |-> "OWNER_SIGNED",
          lossAmount |-> 1800, payoutAmount |-> 0]

FundedEnough(step) == native[step.role] >= GasNeeded[step.role]

PayrollPaid(step, r) ==
  /\ HasEvent(r, "ExecutedRoutine")
  /\ RequireTransfer(r, Guard, step.to, step.amount)
  /\ TransferDelta(script.current, Snapshot, step.to, step.amount)
  /\ step.last => /\ Snapshot.daily[2] = 800 /\ Snapshot.daily[3] = 4
                  /\ usdc[ALICE] = 270 /\ usdc[BOB] = 530

\* heldId, and what a hold must leave behind.
Parked(r, to) ==
  /\ HasEvent(r, "Held")
  /\ LET held == ReceiptEvent(r, "Held") IN
       /\ held.to = to /\ held.amount = 150
       /\ HoldState(held.id, "PENDING")
  /\ Unchanged(script.current, Snapshot)
  /\ Snapshot.spendable = usdc[Guard] - 150

Frozen ==
  /\ HoldState(script.freshHold, "FROZEN")
  /\ Unchanged(script.current, Snapshot)
  /\ NothingLocked(Snapshot)

Contained ==
  /\ HoldState(script.freshHold, "CANCELLED")
  /\ Unchanged(script.current, Snapshot)
  /\ usdc[FRESH_WALLET] = 0
  /\ NothingLocked(Snapshot)
  /\ LookAlibi.found /\ ~LookAlibi.ownerSigned
  /\ ~LookEntry.teeCosigned /\ SDK!VerifyChain(LocalChain)

Blocked(r) ==
  /\ Unchanged(script.current, Snapshot)
  /\ r.logs = <<>>
  /\ Snapshot.spendable = script.current.spendable

LossSettled(r) ==
  /\ HasEvent(r, "Released")
  /\ LET log == ReceiptEvent(r, "Released") IN
       log.id = script.lookHold /\ log.to = LOOKALIKE /\ log.amount = 150
  /\ RequireTransfer(r, Guard, LOOKALIKE, 150)
  /\ HoldState(script.lookHold, "RELEASED")
  /\ TransferDelta(script.current, Snapshot, LOOKALIKE, 150)
  /\ usdc[LOOKALIKE] = 150 /\ usdc[Guard] = 3050
  /\ NothingLocked(Snapshot)

ClaimPaid(r) ==
  LET before == script.current  after == Snapshot IN
  /\ HasEvent(r, "VerdictAccepted") /\ HasEvent(r, "Payout")
  /\ LET v == ReceiptEvent(r, "VerdictAccepted") IN
       /\ v.outcome = "COVERED" /\ v.alibi = "EXTERNAL"
       /\ v.payout = 135 /\ v.agent = Guard
  /\ LET p == ReceiptEvent(r, "Payout") IN
       p.claimant = script.policy.owner /\ p.amount = 135
  /\ RequireTransfer(r, Pool, script.policy.owner, 135)
  /\ after.raw[OWNER] = before.raw[OWNER] + 135
  /\ after.junior = before.junior - 135
  /\ after.senior = before.senior
  /\ after.raw[Guard] = before.raw[Guard]
  /\ after.raw[LOOKALIKE] = before.raw[LOOKALIKE]

Evidence(step, r) ==
  /\ r.success = (step.name # "block")
  /\ Readable
  /\ CASE step.name = "fund" -> FundedEnough(step)
       [] step.name = "payroll" -> PayrollPaid(step, r)
       [] step.name = "hold" -> Parked(r, FRESH_WALLET) /\ SuspicionFound
       [] step.name = "freeze" -> Frozen
       [] step.name = "cancel" -> Contained
       [] step.name = "block" -> Blocked(r)
       [] step.name = "lookalike" -> Parked(r, LOOKALIKE) /\ ControlledFalseNegative
       [] step.name = "release" -> LossSettled(r) /\ ClaimJudged
       [] step.name = "claim" -> ClaimPaid(r) /\ OwnerOriginDenied
       [] OTHER -> TRUE

\* What the run remembers of a step for the later ones.  The snapshot compared
\* with is that of the last step that completed a check.
Noted(step, r) ==
  CASE step.name = "hold" -> [script EXCEPT !.freshHold = ReceiptEvent(r, "Held").id]
    [] step.name = "lookalike" -> [script EXCEPT !.lookHold = ReceiptEvent(r, "Held").id]
    [] step.name \in {"payroll", "cancel", "block", "release"} ->
         [script EXCEPT !.current = Snapshot]
    [] OTHER -> script

-----------------------------------------------------------------------------
\* The roles, the wiring, the stated terms and an untouched, funded stack.
VerifySetup(s) ==
  /\ Readable
  /\ agentKey = Agent /\ watcher = Watcher
  /\ verdictContract = Verdicts /\ poolVerdictContract = Verdicts
  /\ pool = Pool /\ ~authorityRevoked
  /\ script.policy = FirstPolicy
  /\ s.raw[Guard] = 4000 /\ s.junior = 20000 /\ s.senior = 25000
  /\ s.poolBalance = 45000
  /\ \A w \in Wallets \ {Guard} : s.raw[w] = 0
  /\ NothingLocked(s) /\ s.daily[2] = 0 /\ s.daily[3] = 0
  /\ nextHoldId = 1

\* Mutant of FinalEvidence: every step was checked already.
FinalUnread == TRUE

FinalEvidence ==
  /\ Readable
  /\ usdc[Guard] = 3050 /\ usdc[OWNER] = 135 /\ usdc[FRESH_WALLET] = 0
  /\ usdc[ATTACKER] = 0 /\ usdc[LOOKALIKE] = 150
  /\ usdc[ALICE] = 270 /\ usdc[BOB] = 530
  /\ Snapshot.junior = 19865 /\ Snapshot.senior = 25000 /\ usdc[Pool] = 44865
  /\ Snapshot.daily[2] = 950 /\ Snapshot.daily[3] = 5 /\ NothingLocked(Snapshot)
  /\ HoldState(script.freshHold, "CANCELLED") /\ HoldState(script.lookHold, "RELEASED")

-----------------------------------------------------------------------------
NothingKnown ==
  [current |-> NoReceipt, policy |-> NoPolicy, freshHold |-> 0, lookHold |-> 0]

\* A run is fresh, or attaches to the recorded stack.  One stack is enough: a
\* second fresh run would not touch it.
Begin ==
  /\ mode \in {"idle", "failed"} /\ runs < MaxRuns
  /\ LET firstRun == ~created IN
       /\ firstRun \/ latest
       /\ mode' = IF Preflight(firstRun) THEN "running" ELSE "failed"
       /\ plan' = IF Preflight(firstRun) THEN Plan(firstRun) ELSE <<>>
  /\ runs' = runs + 1
  /\ script' = NothingKnown
  /\ UNCHANGED <<txVars, receipt, latest, result, outside>>

Working == mode = "running" /\ receipt = NoReceipt
Waiting == \E i \in DOMAIN mempool : mempool[i].run = runs

OffChain == {"handles", "verify", "persist", "conclude"}

Fail ==
  /\ mode' = "failed" /\ plan' = <<>> /\ receipt' = NoReceipt
  /\ UNCHANGED <<txVars, runs, script, latest, result, outside>>

Send ==
  /\ Working /\ ~Waiting
  /\ plan[1].name \notin OffChain
  /\ MaySend(plan[1])
  /\ mempool' = Append(mempool, TxOf(plan[1]))
  /\ UNCHANGED <<chainVars, entities, scriptVars>>

\* A block with one transaction of the mempool.  A receipt is for the run that
\* waits for it; nobody waits for the transaction of an ended run.
Mine(i) ==
  /\ receipt = NoReceipt
  /\ IsNext(i)
  /\ LET tx == mempool[i] IN
       /\ \/ Executed(tx) /\ receipt' = [success |-> TRUE, logs |-> Logs(tx)]
          \/ Reverted(tx) /\ receipt' = [success |-> FALSE, logs |-> <<>>]
       /\ mempool' = Without(mempool, i)
       /\ mode = "running" /\ tx.run = runs
  /\ UNCHANGED <<mode, runs, plan, script, latest, result, outside>>

\* The transaction of a run that has ended.
MineLeftover(i) ==
  /\ IsNext(i)
  /\ LET tx == mempool[i] IN
       /\ Executed(tx) \/ Reverted(tx)
       /\ mempool' = Without(mempool, i)
       /\ mode # "running" \/ tx.run # runs
  /\ UNCHANGED scriptVars

\* Reads are of the receipt's block, whatever came before or after in it.
Observe ==
  /\ mode = "running" /\ receipt # NoReceipt
  /\ Evidence(plan[1], receipt)
  /\ script' = Noted(plan[1], receipt)
  /\ plan' = Tail(plan)
  /\ receipt' = NoReceipt
  /\ UNCHANGED <<txVars, mode, runs, latest, result, outside>>

EvidenceFails ==
  /\ mode = "running" /\ receipt # NoReceipt
  /\ ~Evidence(plan[1], receipt)
  /\ Fail

At(name) == Working /\ ~Waiting /\ plan[1].name = name

\* attachProtocol reads the policy the run will work with.
Handles ==
  /\ At("handles")
  /\ Registry!GetPolicy(Guard) # NoPolicy
  /\ script' = [script EXCEPT !.policy = Registry!GetPolicy(Guard)]
  /\ plan' = Tail(plan)
  /\ UNCHANGED <<txVars, mode, runs, receipt, latest, result, outside>>

Verify ==
  /\ At("verify")
  /\ VerifySetup(Snapshot)
  /\ script' = [script EXCEPT !.current = Snapshot]
  /\ plan' = Tail(plan)
  /\ UNCHANGED <<txVars, mode, runs, receipt, latest, result, outside>>

\* persistDeployment: written beside, then renamed, so it is there or not.
Persist ==
  /\ At("persist")
  /\ latest' = TRUE
  /\ plan' = Tail(plan)
  /\ UNCHANGED <<txVars, mode, runs, script, receipt, result, outside>>

Conclude ==
  /\ At("conclude")
  /\ FinalEvidence
  /\ result' = [run |-> runs, final |-> Snapshot]
  /\ mode' = "done" /\ plan' = <<>>
  /\ UNCHANGED <<txVars, runs, script, receipt, latest, outside>>

\* Between any two of its steps the process may die, an RPC request may fail
\* for good, a receipt may not come in time; the same when a call would revert
\* or what is read is not what the scenario says.
Abort == mode = "running" /\ Fail

-----------------------------------------------------------------------------
\* The watcher works beside the script, which uses its key: it may signal the
\* blocked attempt, with or without a strike, or deny a claim on a hold.
OtherVerdict(outcome, alibi, breached, strike) ==
  [agent |-> Guard, claimant |-> OWNER, txHash |-> breached,
   destination |-> ATTACKER, lossAmount |-> 150, payoutAmount |-> 0,
   alibi |-> alibi, outcome |-> outcome, strike |-> strike,
   policyHash |-> Registry!LiveHash(Guard), timestamp |-> now]

OtherVerdicts ==
  {OtherVerdict("ATTEMPTED_BREACH", "EXTERNAL", [call |-> "block", hold |-> 0], strike) :
     strike \in BOOLEAN}
  \cup {OtherVerdict("DENIED_OWNER_ORIGIN", "OWNER_SIGNED",
                     [call |-> "release", hold |-> i], FALSE) :
          i \in 1 .. nextHoldId - 1}

\* What others may send: the owner from the console, depositors, the public, the
\* watcher about this account and about another one.
OutsideTx ==
  {WatcherKey(OtherWatcher), By(OWNER, "killSwitch"), By(OWNER, "revoke"),
   Pay(OWNER, "withdraw", BOB, 150),
   Pay(OWNER, "report", LOOKALIKE, 0), Pay(OWNER, "clear", LOOKALIKE, 0),
   Pay(OWNER, "mint", JuniorLP, 100), By(ATTACKER, "reportAttempt"),
   Pay(JuniorLP, "premium", Pool, 100),
   Into(JuniorLP, "redeem", "junior", 19900),
   Into(SeniorLP, "redeem", "senior", 25000)}
  \cup {Pay(ATTACKER, "mint", w, 150) : w \in {LOOKALIKE, ATTACKER}}
  \cup {Decision(i, d) : i \in 1 .. nextHoldId - 1, d \in 0 .. 2}
  \cup {[from |-> ATTACKER, call |-> "lapse", run |-> runs, hold |-> i] :
          i \in 1 .. nextHoldId - 1}
  \cup {[from |-> ATTACKER, call |-> "dispute", run |-> runs, verdict |-> v] :
          v \in Accepted}
  \cup {Judged(v) : v \in OtherVerdicts}
  \cup {[from |-> Watcher, call |-> "otherHoldVerdict", run |-> runs,
          agent |-> OtherGuard, hold |-> i, tier |-> tier] :
          i \in 1 .. nextHoldId - 1, tier \in {0, 1}}

\* These end what another transaction began, and so are few by themselves.
FollowUp(tx) == tx.call \in {"lapse", "clear", "dispute"}

FrozenElsewhere(tx) ==
  IF tx.call = "otherHoldVerdict" /\ tx.tier = 1 THEN {tx.hold} ELSE {}

Outsider ==
  /\ created
  /\ \E tx \in OutsideTx :
       /\ Executed(tx)
       /\ outside' = [count |-> IF FollowUp(tx) THEN outside.count ELSE outside.count + 1,
                      elsewhere |-> outside.elsewhere \cup FrozenElsewhere(tx)]
  /\ outside'.count <= MaxOutside
  /\ UNCHANGED <<mempool, mode, runs, plan, script, receipt, latest, result>>

\* The next block is later, by any of the delays.
Later ==
  /\ receipt = NoReceipt
  /\ \E d \in Delays : now + d <= MaxTime /\ now' = now + d
  /\ UNCHANGED <<verdictVars, accountVars, ownPoolVars, registryVars,
                 blocklistVars, usdc, created, native, entities, mempool,
                 scriptVars>>

ScenarioInit ==
  /\ Undeployed
  /\ mode = "idle" /\ runs = 0 /\ plan = <<>> /\ script = NothingKnown
  /\ receipt = NoReceipt /\ latest = FALSE /\ result = NoResult
  /\ outside = [count |-> 0, elsewhere |-> {}]

ScenarioNext ==
  \/ Begin \/ Send \/ Observe \/ EvidenceFails \/ Handles \/ Verify \/ Persist
  \/ Conclude \/ Abort \/ Outsider \/ Later
  \/ \E i \in DOMAIN mempool : Mine(i) \/ MineLeftover(i)

ScenarioSpec == ScenarioInit /\ [][ScenarioNext]_vars

-----------------------------------------------------------------------------
(***************************************************************************)
(* Properties.                                                             *)
(***************************************************************************)

HoldsAs(status) == {i \in 1 .. nextHoldId - 1 : holds[i].status = status}

\* demo.ts publishes verified: true.  Whatever others did and whatever an
\* earlier run left behind, the money then adds up: the account lost exactly
\* payroll and one released hold, one claim was accepted for that hold, the
\* owner got the claim and the pool paid it out of the junior tranche.
ResultIsTrue ==
  [][result' # result =>
       \E i \in HoldsAs("RELEASED") :
         /\ HoldsAs("RELEASED") = {i}
         /\ Cardinality(AcceptedAs("COVERED")) = 1
         /\ \A v \in AcceptedAs("COVERED") :
              /\ v.destination = holds[i].to /\ v.lossAmount = holds[i].amount
              /\ usdc[OWNER] = v.payoutAmount
              /\ Seed["junior"] - totalAssets["junior"] = v.payoutAmount
         /\ usdc[holds[i].to] = holds[i].amount
         /\ 4000 - usdc[Guard] = usdc[ALICE] + usdc[BOB] + holds[i].amount
         /\ usdc[ATTACKER] = 0 /\ totalAssets["senior"] = Seed["senior"]]_vars

\* A claim the script gets paid is for money that left the account: a hold to
\* the same destination was released in the amount claimed.
PaidLossWasReal ==
  \A v \in AcceptedAs("COVERED") :
    \E i \in HoldsAs("RELEASED") :
      holds[i].to = v.destination /\ holds[i].amount = v.lossAmount

\* The recorded deployment is complete whenever a later run may attach to it:
\* verdicts reach the account, the pool and the blocklist, capital is seeded
\* and a policy was attached, however the run that deployed it ended.
RecordedStackIsWired ==
  latest => /\ verdictContract = Verdicts /\ poolVerdictContract = Verdicts
            /\ pool = Pool /\ isReporter[Verdicts]
            /\ policyHashAt[Guard][1] # Registry!NoHash

StatusInIndex(status) ==
  CASE status = "PENDING" -> {"PENDING"}
    [] status = "RELEASED" -> {"RELEASED"}
    [] status = "FROZEN" -> {"WATCHER_FROZEN", "AUTO_FROZEN"}
    [] status = "EXECUTED_OWNER" -> {"OWNER_APPROVED"}
    [] status = "CANCELLED" -> {"OWNER_FROZEN", "OWNER_FROZEN_ROTATED"}

\* Signals accepted, by the transaction they name.
Signalled == {v.txHash : v \in AcceptedAs("ATTEMPTED_BREACH")}

\* Who reads the subgraph sees the contracts: each hold with its status and
\* its deadline, executed exactly when it was paid, the capital of each
\* tranche, the verdicts and their disputes, the strikes, whether a policy is
\* live.  But for two things the mapping does: an accepted signal is there
\* twice, under its digest and under the transaction it names; and a hold may
\* be shown frozen, whatever the account says of it, once the watcher froze a
\* hold of the same number in another account.
IndexAgrees ==
  /\ DOMAIN entities.holds = 1 .. nextHoldId - 1
  /\ \A i \in DOMAIN entities.holds :
       LET h == entities.holds[i] IN
       /\ h.to = holds[i].to /\ h.amount = holds[i].amount
       /\ h.extendedTo = holds[i].extendedTo
       /\ \/ h.status \in StatusInIndex(holds[i].status)
          \/ h.status = "FROZEN" /\ i \in outside.elsewhere
       /\ h.executed <=> holds[i].status \in {"RELEASED", "EXECUTED_OWNER"}
  /\ \A t \in {"junior", "senior"} : entities.pool[t] = totalAssets[t]
  /\ entities.pool.premium = premiumPool
  /\ DOMAIN entities.verdicts = Accepted \cup Signalled
  /\ \A v \in Accepted :
       (entities.verdicts[v].reopened > 0) <=> v \in DOMAIN disputes
  /\ \A d \in Address : entities.blocklist[d].strikes = strikes[d]
  /\ (latestVersion[Guard] # 0) <=>
       (entities.policy.live # NoPolicy /\ ~entities.policy.revoked)
=============================================================================
