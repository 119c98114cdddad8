# REPAYD: formal model

REPAYD insures the spending of software agents.  An agent spends USDC out of a
guard account that classifies every transfer; a watcher judges what happened
and signs verdicts; a verdict contract checks them and has a mutual pool pay
covered losses.  Around the contracts run services: an engine that judges, a
chain of instructions that proves who ordered a payment, an API that sells
coverage, a mirror into the ERC-8004 registries, a name record, a subgraph, a
scripted demo and a dashboard that runs it.  This directory holds TLA+ modules of
that system, the TLC configurations that check them on small instances, and
machine-checked proofs about the contracts, alone and composed, the run manager,
the scripted demo with its subgraph, and five of the six services.  File names below
are relative to the repository.

## 1. Inventory

### Contracts (`contracts/src`)

| component | state | operations | what makes it correct |
| --- | --- | --- | --- |
| GuardAccount | agent key, wired verdict contract, revocation flag; counters of the UTC day; holds and their running lock total | propose (routine, elevated, violation), releaseHold, freezeHold, decide, lapseHold, reportAttempt, killSwitch, rotateAgentKey, withdraw, setVerdictContract | a hold is paid at most once, in full, to its payee; the lock total and the counters are exact; the routine lane keeps the daily budget; revocation is final; no hold stays pending for ever |
| VerdictContract | watcher, pool, accepted verdicts, claim nullifiers, disputes | submitVerdict, submitHoldVerdict, dispute, requestRerun, setWatcher, setPool | a breach is paid once and as recorded; a denial is final; a verdict acts fully or not at all |
| MutualPool | assets and shares per tranche, premium pool, wiring | deposit, redeem, payout, recordPremium, wiring | the books are covered by the balance; junior loses before senior; traders never gain by rounding |
| PolicyRegistry | live policy, version, hash history | attach, revoke | a verdict is pinned to the live policy; no policy, no spending |
| Blocklist | strikes, reporters, admin | report, clear, setReporter, setAdmin | a strike closes the routine lane |
| BulwarkTypes | none | hashPolicy | the hash binds every field |

They interact by direct calls inside one transaction.  The account reads the
registry and the blocklist at each proposal and the registry again at each
release.  The verdict contract calls the pool, the blocklist or the account
from the transaction that submits a verdict, and a revert below reverts it all.
Transactions of the owner, the agent, the watcher, depositors and the public
arrive in any order; nothing else runs, except that block time passes.

### Packages (`packages`)

| component | state | operations | what makes it correct |
| --- | --- | --- | --- |
| engine | none | judgeHold, judgeBreach, computePayout, quote | the contract refuses none of its judgements but the claims without provenance; an owner's own order is never paid |
| sdk | instruction chain in memory, one JSON file | commit (awaits a co-signature between head and append), alibiFor, verifyChain | an owner's instruction stays the owner's at claim time |
| api: coverage | policies and platform books in memory | POST (validate, store, attach on chain), DELETE, platform view | the books are those of the active fleet |
| api: ERC-8004 orchestrator | digests posted; the collector's sets and queue | plan, request, response, feedback; live watcher; collector of a demo run; recovery | the record repeats the verdict contract and counts nothing twice |
| pricing | none | computePremium | an infraction never makes an agent cheaper |
| record: ENSv2 | none of its own: name, resolver proxy, commitment, allowance on another chain | preflight, deploy, approve, commit, register, repair | a run that says REGISTERED leaves a name that is ours and bound, and that resolves to the resume if the run deployed its resolver |
| subgraph | entities | one handler per event | the entities agree with the contracts, but for two things the handlers do (section 5) |
| demo | snapshots and evidence in memory, one deployment file | deploy or attach, payroll, hold, claim, breach, final evidence | a published result is true of the chain |
| demo worker and locks | lock files, its parent's life | acquire, publish, finish, stop when orphaned | no two workers sign at once |
| dashboard: run manager | runs, active run, child, files, streams | start, read markers, deadline, exit, reset, close, restore | runs end once, were verified when completed, and free the manager |
| Circle wallet, hedera | state of third-party services | | not modelled |
| dashboard projection, web | none | | display only |

The services run in processes of their own and meet only on chain.  Inside one
process everything is single-threaded, and what interleaves are the
continuations of its awaits, the chain, other processes and crashes: that is the
grain of the actions.

`PROJECT.json` lists each component with its status, and every hazard at its line.

## 2. Modules

| module | models | state and actions |
| --- | --- | --- |
| `USDCMock` | the token: balances, `Covers` (a transfer does not revert) and `Moved` | operators |
| `HoldCustody` | abstract specification: what an account promises about held funds | `stage`, `promise`, `usdc`; Lock, Freeze, Pay, Return |
| `Sums` | the sum of a function over `1 .. n`, as a recursive function | operator |
| `GuardAccount` | `GuardAccount.sol` | one action per function and lane; storage variables by their names without the underscore |
| `GuardOutflow` | `GuardAccount` with a history variable: what really left the account on this UTC day | CountedSpending, CountedTick, Uncounted |
| `GuardAccountProofs`, `GuardOutflowProofs`, `SumsProofs` | theorems about the account, about its counters, and the lemmas about sums | |
| `MutualPool` | `MutualPool.sol` | Deposit, Redeem, Payout, RecordPremium, wiring, plain transfers |
| `MutualPoolProofs` | theorems about the pool | |
| `PolicyRegistry` | `PolicyRegistry.sol` | Attach, Revoke; GetPolicy and LiveHash read it |
| `Blocklist` | `Blocklist.sol` | Report, Clear, SetReporter, SetAdmin |
| `VerdictContract` | `VerdictContract.sol`, calling instances of the other contracts | SubmitVerdict with Route, SubmitHoldVerdict, Dispute, RequestRerun, SetWatcher, SetPool |
| `Repayd` | all contracts over one ledger and one clock, from the state `contracts/script/Deploy.s.sol` leaves | one disjunct per contract called |
| `RepaydProofs` | theorems about the composition, from those about its parts | |
| `DemoWorker` | the worker process: `demo.ts` around its script, `process-lock.ts`, `worker-lock.ts`, `bus.ts` | one action per lock, marker and way to stop |
| `RunManager` | `run-manager.ts` and the stream of `serve.ts`, over `DemoWorker` | start, markers, deadline, exit, failures, close, crash, restore |
| `RunManagerProofs` | theorems about the run manager and its workers | |
| `Transactions` | transactions on the contracts of `Repayd`: what each call does and the events it logs | operators |
| `DemoScenario` | `demo.ts`, `protocol.ts`, `demo-setup.ts`, `evidence.ts`: the script as a plan of steps, each sent, mined and observed | one action per kind of step, outsiders (the watcher among them, and another account's holds), time |
| `DemoScenarioProofs` | theorems about the scripted run and about the subgraph | |
| `Engine`, `EngineClaims` | `packages/engine`: judgements; claims made of them | operators; JudgeClaim |
| `InstructionChain`, `AlibiStore` | `packages/sdk`: the chain; commits in flight, the file, stops | operators; Begin, Finish, Stop, StopInWrite, Start |
| `Subgraph` | `packages/subgraph/src/mapping.ts` | one operator per handler |
| `EnginePricing`, `Pricing` | the two premium calculations | operators; Index |
| `CoverageAPI` | `store.ts`, `schemas.ts`, `coverage-bridge.ts`, `server.ts`, over `PolicyRegistry` | Post, then one action per await, Delete, Restart |
| `EnsRecord` | `ensv2.ts`, `resume.ts`, `register.ts` | one action per check, transaction and receipt; Crash; runs for other labels; the ENS contracts |
| `Erc8004`, `Orchestrator` | registries, scores, their subgraph; `erc8004-orchestrator.ts`, `arc-orchestrator.ts`, `step4-arc.ts`, `step4-recover.ts` | Poll, Take, ReadStatus, Post, the collector's phases, Killed, Recover |
| `Services` | the services side by side | one service per behaviour |
| `ServicesProofs` | theorems about names, books, owners' texts and claims | |
| `MCGuardAccount`, `MCMutualPool`, `MCRepayd`, `MCRunManager`, `MCScenario`, `MCServices` | instances for TLC | constants, the properties that are violated, liveness |

A transaction that reverts changes nothing and is no step, so every `require`
and `if (...) revert` is a conjunct of the action's guard, and a call to another
contract is that contract's own action with `msg.sender` as its first argument,
conjoined: when the callee's guard is false the whole step is impossible.
`GuardAccount` stands alone with an environment that changes policy, strikes,
time and balances as other contracts may; in `Repayd` the same actions are
instantiated with `policy <- Registry!GetPolicy(Guard)` and the blocklist's own
`strikes`.

Definitions that start with the comment "Mutant of" are not part of a
specification: each is a plausible slip in the definition that follows it, and
each property has one that TLC refutes it with.

Abstractions.  Amounts are small numbers; a verdict is its own digest, since the
EIP-712 digest binds every field, and its signature is who signed it; a policy's
hash is the policy; the reasons of a verdict are reduced to whether one of them
files a strike; allowances are unlimited, as the scripts set them.  A hold id no
hold was created under reads as the zero struct, which is PENDING: `ZeroHold`
keeps this, and calls on such ids are steps of the model as of the code.  uint
arithmetic is checked in Solidity 0.8, so a subtraction below zero is a guard.
The clock reaches `MaxTime`, ids `MaxHolds`, versions `MaxVersion`, shares
`MaxShares`, attempts `MaxAttempts` and accepted verdicts `MaxVerdicts`: each
bound is a constant used in one guard.

The demo's chain executes one transaction at a time in nonce order per account;
its amounts, limits and periods are the script's own, in whole dollars and
seconds.  What goes on beside the script is a menu: what the owner may do from the
console, depositors and the public, the watcher's signals (with a strike or
without) and denials, and hold verdicts about another account, of which only the
event is followed, because the subgraph stores both accounts' holds by number.
The subgraph is up to date with the chain, its lag being only that of
the reader.  A worker's output is a bounded pipe of markers; a file is its last
complete write, since `atomic` writes beside it and renames, except the alibi
store, which is rewritten in place and may be cut short.  Premium factors are
ratios of integers where the code multiplies floating-point numbers.  The ENS
contracts, the ERC-8004 registries and mining are external: they are what the
code that calls them expects, and may refuse a call as that code provides for.
One owner has one ENS resolver proxy, since its salt is the owner's; it carries the
records of the run that deployed it, for that run's label and resume, and every
later run of the owner finds it.  The runs followed are those for one label; a run
for another is one action, and a name may be bound to a foreign resolver.

`Services` runs one of six services in each behaviour.  They share neither memory
nor files nor an account on a chain, so every interleaving of two of them is two
such behaviours side by side.

## 3. Runs

| run | asks | bounds | result |
| --- | --- | --- | --- |
| `GuardSafety` | type invariant; lock total exact; extensions whole; counters equal to the real outflow; routine lane in budget; revocation final; implements `HoldCustody` | 2 holds, amounts 1 and 2, 2 units in the account, 5 instants with a midnight between | holds |
| `GuardLapse` | a pending hold is settled in the end | 1 hold, two policies (one with a curfew over midnight), strikes 0, 1 and 3, funding, 6 instants | holds |
| `PoolSafety` | type invariant; solvency; shares held; junior first; rounding against the trader | 6 shares per tranche, 6 units, amounts 1 to 3 | holds |
| `Settlement` | type invariant of the whole; one claim per breach; denial final; paid as recorded | 2 accepted verdicts out of six claims on two breaches, two watcher keys, policy versions 1, 2 and a refused one, pool wired or not | holds |
| `HoldVerdicts` | lock total, custody, revocation and strikes in the composition | 1 hold, 1 verdict with a strike, two policy versions, reporter rights granted and withdrawn | holds |
| `ManagedRuns` | every listed run restorable; completed means verified; one signer; idle means quiet; stream current; ended runs never change; a busy manager gets free; orphans stop | 2 runs, 2 dashboard processes, two markers before the result in one run and none in the other, 1 failing disk write, one run may be started by hand | holds |
| `Scenario` | the published result is true; claims are for losses that happened; a recorded stack is complete; the subgraph agrees but for the two things it says | 2 runs, deploying or attaching, two openings of gas money (one unit short for a fresh run, just enough), 1 transaction of somebody else (a signal, a denial, another account's hold verdict and ten more kinds) and any lapses, cleared strikes and disputes that follow, jumps of 4000 s (two in all) that may pass midnight | holds |
| `Services` | reported names are bound, and resolve if the run deployed; owner texts stay owners'; books match; only claims without provenance are refused; mirror faithful; infractions never pay less | 3 registrations over what runs of two labels with two resumes left, the name free, unbound, bound to the proxy or to a foreign resolver; 3 commits, 2 in flight, 2 stops; 2 orders out of five bodies; losses 0 to 21 with four deductibles and two caps; 3 priced events out of nine kinds at five days; 2 verdict logs out of five, 2 sweeps, 1 restart | holds |
| `GuardBacking` | locks never exceed the balance | as GuardSafety | violated |
| `GuardDailyCap` | the day's outflow stays within dailyLimit | as GuardSafety, 3 units | violated |
| `GuardExtension` | within an extension the watcher can release | as GuardSafety | violated |
| `PolicyHistory` | the hash history is append-only | two different policies of version 1 | violated |

Why the bounds are enough.  Two holds let one hold's lock be taken for the
other's, which is what the lock total can get wrong; two units let both be
backed, one be spent and the other fail.  A day of four seconds puts a midnight
between proposal and release.  In the pool, six units and six shares reach
every kind of ratio at or below one (above one no tranche ever gets, which
`SharesAreHeld` says: on chain a depositor can lose and never gain), a wiped
tranche, and the deposit that starts it again and shares with the wiped shares.
Two accepted verdicts are what a double payment or a payment after a denial
needs.  One hold is enough in `HoldVerdicts`, because two are checked in
`GuardSafety` and the composition adds only who calls and when policy and
strikes change.

Two runs and two dashboards are what it takes for a worker to outlive its
dashboard and meet the next one's.  One failing write can fall on each of the
writes of a run.  Two demo runs are one that deploys, may stop anywhere and leaves
a file and a transaction behind, and one that finds them; one foreign
transaction reaches every balance, hold and dispute the script later reads.  In
`Services` a third registration finds what two that stopped left behind, and two labels
and two resumes tell a proxy of the run's own from any other; losses
from 0 to 21 with deductibles of 0, 10, 33.33 and 50 per cent meet every case of
the two roundings (the theorem covers the rest); the priced days are the edges of
both windows; two logs may be the same hold number of two accounts.

What the violated properties show:

* `GuardBacking`: the comment on `_spendableUsdc` ("Never underflows once holds
  are balance-checked at creation") and the test of unbacked holds hold for hold
  creation only.  A routine payment does not look at the locks, nor does the
  approval of a frozen hold, so pending holds can be left unbacked; `withdraw`
  then reverts on the subtraction until a hold is resolved.
* `GuardDailyCap`: `dailyLimit`, the "hard cap per UTC day", is compared at
  proposal only.  Held amounts do not count until they are paid, and payment
  does not compare.  What does hold is `RoutineStaysInBudget`.
* `GuardExtension`: `lapseHold` extends to the time of the call plus an hour, the
  watcher's deadline stays at `releaseAt` plus an hour.  The test that says "Watcher
  can still release within the extension" releases at once and passes.  What
  does hold is `ExtensionIsWhole`.
* `PolicyHistory`: `revoke` restarts the version count and the next `attach`
  overwrites the commitment of version 1.

The contract runs check for deadlock: each has a call that stays possible at its
bounds, since the owner's kill switch and rewiring leave the state as it is and
are steps.  `ManagedRuns`, `Scenario` and `Services` do not: their programs end,
and so do their bounded requests.

Fairness.  `GuardLapse` and `ManagedRuns` state some.  In `ManagedRuns` it is what
the operating system and the event loop give: a process that runs reads the
output of its child, its timers fire, its exit handlers and the close it has begun
go on, and a worker takes its lock, notices that its parent is gone (a timer) and
obeys a signal.  A worker's own work has no fairness: it may wait for the chain for
ever, and `BusyEnds` and `OrphansStop` hold all the same.  In `GuardLapse` it is
that time passes (weak fairness of the
clock) and that somebody calls `lapseHold` on a hold that can lapse.  Nothing in
the contract schedules that call; it is open to everybody and needs no key, so
the assumption is that one interested party is live.  The owner, the watcher and
the agent are assumed to do nothing.  As the clock is bounded, the specification
keeps behaviours in which the two lapses still fit before `MaxTime`
(`WithinHorizon`); a caller slower than that only needs a larger bound.

## 4. Proofs

Every theorem is of a whole specification and for all values of its constants,
from the named assumptions of the module that declares them.  The assumptions say
what the code makes true of its parameters: addresses are distinct where it
compares them, policies are as `_validate` leaves them, amounts are natural
numbers.  TLC evaluates each of them on the runs.

| module | theorem | states | of |
| --- | --- | --- | --- |
| `GuardAccountProofs` | `TypeCorrect`, `LockedTotalIsExact`, `ExtensionsAreWhole` | `TypeOK`, `LockedIsPendingSum`, `ExtensionIsWhole` | `GuardAccount` |
| | `ImplementsCustody` | the refinement of `HoldCustody` | |
| `GuardOutflowProofs` | `CountersCoverOutflow` | the counters never fall short of the outflow | `GuardOutflow` |
| | `CountersAreExact` | `CountersTrackOutflow`, if `Guard \notin Payees` | |
| | `RoutineLaneStaysInBudget`, `RevocationsAreFinal` | `RoutineStaysInBudget`, `RevocationIsFinal` | |
| `MutualPoolProofs` | `PoolTypeCorrect`, `PoolStaysSolvent`, `SharesStayHeld` | `TypeOK`, `Solvent`, `SharesAreHeld` | `MutualPool` |
| | `WaterfallOrder`, `RoundingFavoursThePool` | `JuniorFirst`, `TradersPayTheRounding` | |
| `RepaydProofs` | `ProtocolTypeCorrect`, `BreachesAreClaimedOnce`, `AccountTotalIsExact` | `TypeOK`, `OneClaimPerBreach`, `AccountLockedIsPendingSum` | `Repayd` |
| | `DenialsAreFinal`, `ClaimsArePaidAsRecorded`, `RevocationStopsSpending`, `StrikesCloseTheRoutineLane` | `DenialIsFinal`, `PaidAsRecorded`, `RevokedPolicyStopsSpending`, `StruckGetNoRoutinePayment` | |
| | `ProtocolKeepsCustody` | the composition implements `HoldCustody` | |
| `RunManagerProofs` | `OneWorkerSigns`, `IdleDashboardsAreQuiet`, `JournalCanBeRestored`, `CompletedRunsWereVerified`, `StreamsAreCurrent` | `AtMostOneSigner`, `IdleMeansQuiet`, `RestartAlwaysPossible`, `CompletedWasVerified`, `StreamIsCurrent` | `RunManager` |
| | `EndsAreFinal` | `EndedRunsNeverChange` | |
| `DemoScenarioProofs` | `ScenarioInvariant` | `IInv`, the inductive invariant of the run | `DemoScenario` |
| | `PublishedResultIsTrue`, `PaidLossesWereReal`, `RecordedStackStaysWired` | `ResultIsTrue`, `PaidLossWasReal`, `RecordedStackIsWired` | |
| | `SubgraphAgrees` | `IndexAgrees` | |
| `ServicesProofs` | `OnlyUnprovenAreRefused` | `OnlyUnprovenClaimsAreRefused` | `EngineClaims` |
| | `OnlyUnprovenJudgedAreRefused`, `NamesAreBound`, `BooksAreTheFleet`, `OwnersTextsStay`, `DrivingRecordIsFaithful` | `OnlyUnprovenClaimsAreRefused`, `RegisteredNameIsBound`, `BooksMatchStore`, `OwnerTextStaysOwners`, `MirrorIsFaithful` | `Services` |

### The arguments

**Guard account** (`AddressAssumption`, `PolicyAssumption`, `NumberAssumption`).  None of
the invariants is inductive alone.  `IInv` adds `EmptySlotsHoldNothing`: an id at
or above `nextHoldId` has amount 0 and no payee, whatever a call on it wrote to its
status or extension.  Without it a freeze of an empty slot could give back a lock
nobody took, and the extension written there could survive into the hold.  Each
step lemma says what one kind of call does to one hold (`HoldStep`), and the
refinement follows from these and `IInv`: the abstract step is Lock, Freeze, Pay,
Return or OtherTransfers.

**Outflow** (the same assumptions).  `OInv` says that the counters are at least the
outflow and that the stored day is not in the future; without the second part a
midnight could make old counters count again.  The proof showed that the counters
are not exact for every payee: a payment of the account to itself is counted and
moves nothing.  `CountersAreExact` therefore has the hypothesis that the account is
none of its own payees, and `CountersCoverOutflow`, which the budget rests on, has
none.

**Pool** (`PoolAssumption`, `AddressesAreFinite`).  `PoolInv` adds two facts to
solvency: the total of a tranche's shares is the sum of what its depositors have
(`SharesAddUp`), and its assets are at most its shares (`AssetsWithinShares`), so a
share is never worth more than a unit.  `JuniorFirst` and `TradersPayTheRounding`
are step lemmas; the second is the arithmetic of two rounded divisions.

**Composition** (`PartsAssumption`, `WiringAssumption`, `VerdictAssumption`: the parts'
own assumptions, the account is not the pool, and a claim is signed in favour of an
account other than the pool).  `ProtocolInv` is the two parts'
invariants and `LedgerInv`: types, and that every accepted covered or denied verdict
has its nullifier set (`BreachesAreConsumed`), without which `OneClaimPerBreach` is
not inductive.  A call of one contract is, for the other's books, a plain transfer
on the token; that is one lemma per contract, and the account's refinement carries
over with the pool's and the depositors' movements as OtherTransfers.

**Run manager** (`RunsAssumption`).  `RunsInv` has the workers' lock (`OneLockHolder`: no
two hold it, signing or not), the pipe (a result line, once written, is the final
one), the dashboards (one owner of the manager's lock; a live child is that of the
active run; what memory still runs has not ended on disk; a run in memory has its
`run.json` or is the one whose start failed) and the disk (a listed run has its
`run.json`, a completed one was verified).  The facts about a dashboard are stated as "gone, or
owner and orderly", because a crash takes its memory and leaves its worker.  The
proof has one lemma per action and per part of the state, and the theorems
follow for any number of dashboards, runs and workers started by hand.

**Demo** (`StakesAssumption`: the deposits are those `protocol.ts` seeds;
`LookalikeAssumption`: the lookalike's wallet is neither the account, the pool nor a
depositor; and the parts' assumptions).  The theorems hold for any number of runs,
of delays, of transactions others send (those of `OutsideTx`, in any order) and of
transactions an ended run leaves behind.  None of the properties is inductive: what a
published result says was read in the last block, but that the only claim accepted is
for the only hold released depends on everything anybody sent before.  `IInv` has
three parts.

* The books.  A released hold is a lookalike's, and with one released hold the
  lookalike's wallet has at least 150, with two at least 300 (`PaidHolds`), which is how
  the final balance of 150 shows that there was one.  An accepted verdict is a signal, a
  denial or the claim for such a hold (`IsSubmitted`); the claims have their breaches in
  the nullifiers, and no two are for one breach (`AcceptedClaims`).  `Terms` says that an account has no policy or the first version,
  whose hash then is in the history.
* The transactions in flight (`SaneMempool`).  Each was sent by a step of some run and
  is one the books survive whenever it is mined: a clean hold verdict names a
  lookalike's hold, a verdict that is a claim is for a paid one.  This is what makes a
  transaction of a run that has ended harmless, though it is mined in the next run.
* The plan (`RunState`).  What remains is in order (`Follows`), and what a step relies on
  holds when the run comes to it (`Reached`): the claim comes after the release, the
  record after the check of the wiring.  `Receipted` says what a receipt that is not
  yet read stands for.

`Onward` says what every step does to the chain: the books and the sane transactions
stay so, and what a step may rely on (the wiring, the hash, a hold, its
release) is not lost again.  It is proved call by call; the
run's own steps then need only the order of the plan.

The agreement of the subgraph needs both sides of every entity.  `IndexInv` says, part by
part, what each entity is: `HoldsAgree`, `PoolAgrees`, `VerdictsAgree`, `StrikesAgree`,
`PolicyAgrees`.  It is stronger than `IndexAgrees` in that the entities have all their
fields, a count of disputes is a natural number, a dispute is of an accepted verdict and
the functions of the contracts have their domains; without these a handler's write could
not be followed.  The proof is that of a commuting diagram: `LogsWrittenOut` gives the
events of each call as a tuple of at most four, `Dispatched` the handler of each event,
the handler lemmas what it writes and leaves alone, and one lemma per call
(`ClaimIndexed`, `DecisionIndexed`, ...) that contract and entity then say the same
again.  It uses the books: a release or a decision is of a hold that exists, so
the handlers' early returns for unknown ids are never taken.  Two parts say what the
mapping does beyond agreeing.  The entity under a signal's transaction (`Signalled`) is
never that of a verdict, because the transaction named is no verdict (`NamedIsNoVerdict`),
so writing it disturbs no count of disputes; and a hold whose number was frozen in the
other account (`outside.elsewhere`) may read FROZEN, while everything else said of it, and
what later events write, stays right.

**Engine** (`PoliciesAssumption`, `TransfersAssumption`: a cap is a natural number, a
deductible at most 5000).  The invariant is inductive; what carries it is
`DeductibleFits`: with `p * 10000 <= loss * (10000 - d)` the contract's
`p + p * d / 10000` stays within the loss, because `(10000 - d) * (10000 + d)` is at
most `10000 ^ 2` and both sides round down.  `PayoutFits` applies it to
`computePayout` and to the quarter that is judged without provenance, so that of a
covered judgement only the alibi is left to be refused: UNKNOWN is, EXTERNAL is not.

**Services** (also `NamesAssumption`, `OrdersAssumption`).  Each service's steps are its
own specification's, and the other services stutter.  `EnsInv` says that
whoever names the proxy names one that is there (`ProxyIsThere`), that a run which sent a
deployment and has a proxy has the one with its own records (`OwnProxy`: the salt admits
one deployment, so the receipt's success is that of the run's own), and that a reported
name is ours and bound to what the run reports (`Registered`); a killed run's transaction
may be mined in the middle of the next one, and `RunHasResolver` is why that names the
proxy too.
`BooksFit` says of each platform that count and volume are those of its active
policies; a step changes one entry of one policy, and `SetSumAdd` and `SetSumRestrict`
give the difference.  `AlibiInv` says that memory is the file while the process runs
and that an owner's link carries a signature over its own digest, so that
`alibiFor` finds it again.

`MirrorInv` has four parts, each needing those before it.  `SenderInv`: every call sent is
made of an emitted log that has an outcome, and says what that outcome is worth; the
digest in work is not among those posted, and the digests of this life's feedback
are, which works because the feedback is the last post of a plan.  Both end with the
process: once the collector has exited its memory is gone, and the invariant says so.
`RegistryInv`: a request is in the registries once and before its answers, and each
feedback comes of a call of its own, so mining twice is impossible.  `IndexInv`: the
entities are those of the events read so far, the wallet of the last `MetadataSet`, the
last answer of each request, the feedback by number.  `PassInv`: the covered verdict is
an accepted one, and a passing receipt had answers for it; every answer with that hash is
made of that log, so the status it read stays what it is worth.

**Sums**.  `SumsProofs` proves that the sums of the model (`SumTo`, and the community
modules' `MapThenSumSet` over a finite set) are integers, change by the difference
when a term changes, and do not depend on the order.  Both are recursive by definition;
the induction is on the least length, or least size, at which a claim fails, which
is a first-order argument.

### Only model-checked

* Liveness: `PendingIsSettled`, `BusyEnds`, `OrphansStop`.  Fairness and ENABLED are
  out of the prover's reach.
* `InfractionNeverPaysLess`: `EnginePricing` and `Pricing` fold over bags and windows
  of events and compare two such folds, an induction over the data.

What remains bounded in the theorems is what the modules bound: ids by `MaxHolds`, time by
`MaxTime` and so on, each an arbitrary number.  The menu of other people's transactions in
`DemoScenario` is fixed; the theorems of `RepaydProofs` are about any caller.

## 5. Where code and texts disagree

Besides the four violated runs, reading the code for the models showed these.
The stated properties say what the code does keep, and name the first, the subgraph's
and the ENS record's as exceptions.

* Engine and contract.  `judgeBreach` calls a violating transfer without provenance
  COVERED with alibi UNKNOWN and a quarter of the payout
  (`packages/engine/src/engine.ts:226-255`; `packages/engine/test/engine.test.ts:227`,
  "no SDK (watch-only): provenance unverifiable → capped tier (25%)"), and
  `submitVerdict` refuses every covered verdict that is not EXTERNAL
  (`contracts/src/VerdictContract.sol:294`), so the capped tier cannot be paid.
  `OnlyUnprovenClaimsAreRefused` says that this is all the contract refuses.
  `effectiveLimit` takes an allowlist entry's cap even when it is 0, where the
  contract falls back to `perTxLimit`.
* The two premium calculations differ: 182 days against 180, five times for two
  claims in the agent's life against two in the window, and only
  `packages/pricing` knows a mitigation.
* `sdk`: commits in flight get the same `prev`, after which `verifyChain` is false for
  good.  The comment on `alibiFor` says that ambiguity gives `ownerSigned: false`;
  the code returns true as soon as one entry of the text is the owner's.
* Coverage API: a request answered 422 or 400 after the store was changed leaves
  its policy active and billed; the policy hash is read before the attach is mined;
  cancelling does not revoke on chain; wallets are compared with their letter case,
  so one account can be covered twice; a velocity of 0 passes the validation and
  the chain refuses it.
* Orchestrator: the comment before the status check says a retry is skipped because
  all is posted; after a partial failure the request is there and response and
  feedback are skipped for ever.  A hold's digest is its number, which two accounts
  share.  Digests are remembered by the process only.  The live process drops a
  batch that arrives while another is handled.  The collector binds a request to
  the transaction that submitted the verdict, not the one that was breached, and a
  clean hold makes a fourth post, with which its own count of three fails.  The recovery
  expects the look-alike address unpaid, the collector expects it paid.
* Subgraph: recipient caps are never removed, a reported attempt is counted by two
  handlers and an elevated proposal makes two transactions.  Two departures touch the
  entities `IndexAgrees` compares, and are written into it: an accepted signal saves a
  second verdict under the hash of the transaction it names
  (`packages/subgraph/src/mapping.ts:410-424`), and `handleHoldVerdictRouted` looks a
  hold up by its number without the account (`:426-436`), so a watcher's freeze in one
  account is shown on the hold of that number in another.  `subgraph.yaml` follows the
  guard events of one account only; the verdict contract's events are of all of them.
  Verdicts accepted for other accounts, which the mapping stores beside this one's, are
  not modelled.
* Guard account: after the kill switch the verdict contract can still release
  earlier holds, though the comment leaves only owner paths.  A dispute in
  RERUN_PENDING has no end.
* ENS: the salt of the resolver proxy is the owner's alone
  (`packages/record/src/ensv2.ts:183-192`) and the records go in at its creation
  (`:220-237`), so a run for another label, or with a newer resume, that finds the
  proxy reports REGISTERED for a name that does not resolve to its resume; so does one
  that finds its name bound to any resolver (`:548-552`).
* Circle: what is called one-time provisioning, and one spend, happens on every
  request.  Hedera: a call is counted before its payment settles.

## 6. Not modelled

The Circle wallet client passes requests to a custody service, and the Hedera
endpoints wrap the engine in a third party's payment middleware: what could go
wrong there is state the repository does not hold.  `flow.ts` and the web console
only display.  `query-graph.ts` and the smoke scripts read and print.  The wording of
reasons, resumes and receipts, ABI encodings and HTTP framing are left out
everywhere.  Tokens other than USDC and ether pass through `withdraw` without
touching the account's state.

## 7. Plan

1. Done: contracts, run manager, demo, engine, alibi, coverage, pricing, names,
   orchestrator, subgraph; proofs of the account, its counters, the pool, the
   composition, the run manager, the demo, the subgraph's entities, the engine's claims,
   names, books, owners' texts and the mirror.  Every safety invariant and all but one
   of the action properties of the runs are theorems.
2. Next: an abstract specification of the run manager (a run goes from waiting to
   running to one end) as a refinement, for which `RunsInv` is the invariant.
3. Then the indexer's lag in `Scenario`, and the entities of claims and agents, whose
   double counts section 5 lists.
