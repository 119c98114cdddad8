-------------------------- MODULE VerdictContract --------------------------
(***************************************************************************)
(* contracts/src/VerdictContract.sol: takes the watcher's signed verdicts  *)
(* and acts on them in the same transaction.  A covered breach is paid by  *)
(* the pool, an attempted breach may be a strike on the blocklist, and a   *)
(* hold verdict releases or freezes a hold of the guard account.           *)
(*                                                                         *)
(* The contracts it calls are instances: a call is the callee's own action *)
(* with this contract as msg.sender, and when the callee reverts the whole *)
(* transaction does.                                                       *)
(***************************************************************************)
EXTENDS Integers, FiniteSets

CONSTANTS
  Address, ZeroAddress, Guard, OWNER, Pool,
  Verdicts,             \* this contract
  Deployer,             \* deploys everything: admin of each contract
  Callers,              \* the accounts that send transactions
  WatcherKeys,          \* the keys setWatcher may install
  Disputants,           \* the accounts that open disputes
  VerdictInputs,        \* what a verdict says, but its pin and its timestamp
  VERDICT_FRESHNESS_SEC,
  MaxVerdicts,          \* bound: verdicts accepted
  \* the guard account's
  FirstAgentKey, Amount, Payees, AgentKeys, Watchers, Funders, StrikeCounts,
  DAY_SEC, MINUTE_SEC, HOLD_EXTEND_SEC, Opening, StartTime, MaxTime, MaxHolds,
  MaxAttempts,
  \* the pool's
  VerdictContracts, Claimants, Claims, Deposits, Hooks, MaxShares,
  \* the registry's and the blocklist's
  Policies, NoPolicy, MaxVersion, Destinations, Reporters, Admins, MAX_STRIKES

VARIABLES
  watcher, pool,                        \* pool: address wired by setPool
  verdicts, claimNullifiers, disputes,
  now, usdc,                            \* block.timestamp, USDC balances
  agentKey, verdictContract, authorityRevoked, day, dailySpent, dailyCount,
  holds, nextHoldId, totalLocked, attemptedBreaches,
  poolVerdictContract, reinsuranceHook, totalAssets, totalShares, sharesOf,
  premiumPool,
  policies, policyHashAt, latestVersion,
  strikes, isReporter, blocklistAdmin

Registry == INSTANCE PolicyRegistry WITH Agents <- {Guard}, OwnerOf <- [a \in {Guard} |-> OWNER]
BLOCKLIST == INSTANCE Blocklist
Account == INSTANCE GuardAccount WITH policy <- Registry!GetPolicy(Guard)
MutualPool == INSTANCE MutualPool WITH
  PoolAdmin <- Deployer, PoolCallers <- Callers, PoolOpening <- Opening

accountVars == <<agentKey, verdictContract, authorityRevoked, day, dailySpent,
                 dailyCount, holds, nextHoldId, totalLocked, attemptedBreaches>>
ownPoolVars == <<poolVerdictContract, reinsuranceHook, totalAssets, totalShares,
                 sharesOf, premiumPool>>
registryVars == <<policies, policyHashAt, latestVersion>>
blocklistVars == <<strikes, isReporter, blocklistAdmin>>
verdictVars == <<watcher, pool, verdicts, claimNullifiers, disputes>>
allVars == <<accountVars, ownPoolVars, registryVars, blocklistVars, verdictVars,
             usdc, now>>

Outcome == {"NONE", "COVERED", "DENIED_OWNER_ORIGIN", "ATTEMPTED_BREACH", "DISMISSED"}
Alibi == {"UNKNOWN", "EXTERNAL", "OWNER_SIGNED"}
DisputeState == {"UNDER_REVIEW", "RERUN_PENDING"}

\* verdicts maps an accepted digest to its acceptedAt.  The EIP-712 digest
\* binds every field of the verdict, so the verdict itself stands for it; the
\* fields of the stored record are then the verdict's own.
Accepted == DOMAIN verdicts
AcceptedAs(outcome) == {v \in Accepted : v.outcome = outcome}

\* A dispute of an accepted verdict; one that was never opened (NONE) is absent.
VerdictTypeOK ==
  /\ watcher \in Address \ {ZeroAddress}
  /\ pool \in {ZeroAddress, Pool}
  /\ \A v \in Accepted : /\ verdicts[v] \in 1 .. now
                         /\ v.outcome \in Outcome /\ v.alibi \in Alibi
  /\ DOMAIN disputes \subseteq Accepted
  /\ \A d \in DOMAIN disputes :
       disputes[d] \in [state : DisputeState, opener : Address,
                        openedAt : verdicts[d] .. now]
  /\ claimNullifiers \subseteq {v.txHash : v \in Accepted}

\* A mapping with a value under one more key.
With(f, key, value) ==
  [k \in DOMAIN f \cup {key} |-> IF k = key THEN value ELSE f[k]]

-----------------------------------------------------------------------------
(***************************************************************************)
(* Verdict submission.                                                     *)
(***************************************************************************)
Fresh(v) == v.timestamp <= now /\ now - v.timestamp <= VERDICT_FRESHNESS_SEC

\* The deductible is charged on the payout and must fit into the loss with it.
WithinLoss(v, p) ==
  v.payoutAmount + Registry!Share(v.payoutAmount, p.deductibleBps) <= v.lossAmount

\* Mutant of ConsistentOutcome: the nullifier is recorded and not looked at.
ConsistentButRepeated(v, p) ==
  IF v.outcome = "COVERED"
  THEN v.alibi = "EXTERNAL" /\ WithinLoss(v, p)
  ELSE /\ v.payoutAmount = 0
       /\ v.outcome = "DENIED_OWNER_ORIGIN" => v.alibi = "OWNER_SIGNED"

\* Only a covered verdict looks at the nullifier.
ConsistentOutcome(v, p) ==
  IF v.outcome = "COVERED"
  THEN v.alibi = "EXTERNAL" /\ v.txHash \notin claimNullifiers /\ WithinLoss(v, p)
  ELSE /\ v.payoutAmount = 0
       /\ v.outcome = "DENIED_OWNER_ORIGIN" => v.alibi = "OWNER_SIGNED"

Admissible(v) ==
  LET p == Registry!GetPolicy(v.agent) IN
  /\ v.policyHash = Registry!LiveHash(v.agent)
  /\ p # NoPolicy
  /\ p.owner = v.claimant
  /\ v.payoutAmount <= p.coverageCap
  /\ ConsistentOutcome(v, p)

\* Mutant of Consumes: only a paid claim uses up its breach.
ConsumesWhenPaid(v) == v.outcome = "COVERED"

Consumes(v) == v.outcome \in {"COVERED", "DENIED_OWNER_ORIGIN"}
FilesStrike(v) == v.outcome = "ATTEMPTED_BREACH" /\ v.strike

\* Mutant of Route: a covered verdict without a pool is recorded and not paid.
RouteIfWired(v) ==
  /\ claimNullifiers' = IF Consumes(v) THEN claimNullifiers \cup {v.txHash}
                        ELSE claimNullifiers
  /\ IF v.outcome = "COVERED" /\ pool = Pool
     THEN MutualPool!Payout(Verdicts, v.claimant, v.payoutAmount)
     ELSE UNCHANGED <<ownPoolVars, usdc>>
  /\ IF FilesStrike(v) THEN BLOCKLIST!Report(Verdicts, v.destination)
     ELSE UNCHANGED blocklistVars

\* _route: the nullifier first, then the calls.
Route(v) ==
  /\ claimNullifiers' = IF Consumes(v) THEN claimNullifiers \cup {v.txHash}
                        ELSE claimNullifiers
  /\ IF v.outcome = "COVERED"
     THEN pool = Pool /\ MutualPool!Payout(Verdicts, v.claimant, v.payoutAmount)
     ELSE UNCHANGED <<ownPoolVars, usdc>>
  /\ IF FilesStrike(v) THEN BLOCKLIST!Report(Verdicts, v.destination)
     ELSE UNCHANGED blocklistVars

SubmitVerdict(caller, signer, v) ==
  /\ caller = watcher
  /\ v \notin Accepted
  /\ signer = watcher
  /\ Fresh(v)
  /\ Admissible(v)
  /\ Cardinality(Accepted) < MaxVerdicts
  /\ verdicts' = With(verdicts, v, now)
  /\ Route(v)
  /\ UNCHANGED <<watcher, pool, disputes, accountVars, registryVars, now>>

\* Tier 0 releases the hold, tier 1 freezes it.  The policy hash is signed
\* but compared with nothing.
SubmitHoldVerdict(caller, signer, i, tier) ==
  /\ caller = watcher
  /\ signer = watcher
  /\ \/ tier = 0 /\ Account!ReleaseHold(Verdicts, i)
     \/ tier = 1 /\ Account!FreezeHold(Verdicts, i)
  /\ UNCHANGED <<verdictVars, ownPoolVars, registryVars, blocklistVars, now>>

-----------------------------------------------------------------------------
(***************************************************************************)
(* Disputes: anyone, at any time, once per verdict.  No function takes a   *)
(* dispute further than RERUN_PENDING: escalation reverts in v1.           *)
(***************************************************************************)
Dispute(caller, d) ==
  /\ d \in Accepted \ DOMAIN disputes
  /\ disputes' = With(disputes, d,
       [state |-> "UNDER_REVIEW", opener |-> caller, openedAt |-> now])
  /\ UNCHANGED <<watcher, pool, verdicts, claimNullifiers, accountVars,
                 ownPoolVars, registryVars, blocklistVars, usdc, now>>

RequestRerun(d) ==
  /\ d \in DOMAIN disputes
  /\ disputes[d].state = "UNDER_REVIEW"
  /\ disputes' = [disputes EXCEPT ![d].state = "RERUN_PENDING"]
  /\ UNCHANGED <<watcher, pool, verdicts, claimNullifiers, accountVars,
                 ownPoolVars, registryVars, blocklistVars, usdc, now>>

-----------------------------------------------------------------------------
(***************************************************************************)
(* Wiring by the admin, who has no setter.                                 *)
(***************************************************************************)
SetWatcher(caller, key) ==
  /\ caller = Deployer
  /\ key # ZeroAddress
  /\ watcher' = key
  /\ UNCHANGED <<pool, verdicts, claimNullifiers, disputes, accountVars,
                 ownPoolVars, registryVars, blocklistVars, usdc, now>>

SetPool(caller) ==
  /\ caller = Deployer
  /\ pool' = Pool
  /\ UNCHANGED <<watcher, verdicts, claimNullifiers, disputes, accountVars,
                 ownPoolVars, registryVars, blocklistVars, usdc, now>>

\* Every pin and timestamp the clock allows, a moment in the future included.
PossibleVerdicts ==
  {[claim |-> c, hash |-> Registry!HashPolicy(p), time |-> t] :
     c \in VerdictInputs, p \in Policies, t \in 1 .. now + 1}

Signed(x) ==
  [agent |-> x.claim.agent, claimant |-> x.claim.claimant,
   txHash |-> x.claim.txHash, destination |-> x.claim.destination,
   lossAmount |-> x.claim.lossAmount, payoutAmount |-> x.claim.payoutAmount,
   alibi |-> x.claim.alibi, outcome |-> x.claim.outcome, strike |-> x.claim.strike,
   policyHash |-> x.hash, timestamp |-> x.time]

\* A transaction to this contract.
VerdictCall ==
  \/ \E caller \in Callers, signer \in WatcherKeys, x \in PossibleVerdicts :
       SubmitVerdict(caller, signer, Signed(x))
  \/ \E caller \in Callers, signer \in WatcherKeys, i \in Account!HoldId, tier \in 0 .. 2 :
       SubmitHoldVerdict(caller, signer, i, tier)
  \/ \E caller \in Disputants, d \in Accepted : Dispute(caller, d)
  \/ \E d \in Accepted : RequestRerun(d)
  \/ \E caller \in Callers, key \in WatcherKeys : SetWatcher(caller, key)
  \/ \E caller \in Callers : SetPool(caller)
=============================================================================
