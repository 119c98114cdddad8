---------------------------- MODULE GuardAccount ----------------------------
(***************************************************************************)
(* contracts/src/GuardAccount.sol: the wallet an agent spends from.  The   *)
(* agent proposes transfers; each is classified into the routine lane      *)
(* (executed at once), the elevated lane (parked in a hold) or a violation *)
(* (reverted).  A hold is resolved by the watcher's verdict, by the owner, *)
(* or by the lapse of its window.                                          *)
(*                                                                         *)
(* One action per external function.  A call that reverts changes nothing  *)
(* and is no step; its require and if-revert conditions are the guards.    *)
(* The policy, the blocklist strikes, the clock and the balances of other  *)
(* accounts belong to other contracts: the actions read them, and only     *)
(* Environment changes them here.                                          *)
(***************************************************************************)
EXTENDS USDCMock, Sums

CONSTANTS
  ZeroAddress,     \* address(0)
  Guard,           \* this contract
  OWNER,           \* the immutable owner
  FirstAgentKey,   \* agentKey_ given to the constructor, may be ZeroAddress
  Callers,         \* the accounts that send transactions to this one
  Amount,          \* the amounts a caller may pass
  Payees,          \* the addresses a transfer may name
  AgentKeys,       \* the keys rotateAgentKey may install
  Watchers,        \* the contracts setVerdictContract may wire
  Funders,         \* the accounts that send USDC to this one
  Policies,        \* the policies the registry may hold for this account
  NoPolicy,        \* the registry has none: getPolicy reverts
  StrikeCounts,    \* the strike counts the blocklist may show
  DAY_SEC,         \* seconds per UTC day (86400 in the code)
  MINUTE_SEC,      \* seconds per minute (60 in the code)
  HOLD_EXTEND_SEC, \* the extension after the window (3600 in the code)
  Opening,         \* the USDC balances at deployment
  StartTime,       \* block.timestamp at deployment
  MaxTime,         \* bound: the clock stops here
  MaxHolds,        \* bound: holds created
  MaxAttempts      \* bound: reportAttempt calls

VARIABLES
  agentKey, verdictContract, authorityRevoked,
  day, dailySpent, dailyCount,          \* _day, _dailySpent, _dailyCount
  holds, nextHoldId, totalLocked,       \* holds, nextHoldId, _totalLocked
  attemptedBreaches,                    \* _attemptedBreaches
  usdc,                                 \* USDC balances
  policy,                               \* REGISTRY.getPolicy(Guard)
  strikes,                              \* BLOCKLIST.strikes
  now                                   \* block.timestamp

dayVars  == <<day, dailySpent, dailyCount>>
holdVars == <<holds, nextHoldId, totalLocked>>
keyVars  == <<agentKey, verdictContract, authorityRevoked>>
guardVars == <<keyVars, dayVars, holdVars, attemptedBreaches>>
envVars  == <<policy, strikes, now>>
vars     == <<guardVars, usdc, envVars>>

HoldId == 1 .. MaxHolds
HoldStatus == {"PENDING", "RELEASED", "FROZEN", "EXECUTED_OWNER", "CANCELLED"}
Hold == [to : Address, amount : Amount \cup {0}, releaseAt : Nat,
         createdAt : Nat, extendedTo : Nat, status : HoldStatus]

\* What a Solidity mapping returns for an id no hold was created under: all
\* zero, and HOLD_PENDING is zero.
ZeroHold == [to |-> ZeroAddress, amount |-> 0, releaseAt |-> 0,
             createdAt |-> 0, extendedTo |-> 0, status |-> "PENDING"]

ASSUME AddressAssumption ==
  /\ {ZeroAddress, Guard, OWNER, FirstAgentKey} \subseteq Address
  /\ ZeroAddress \notin {Guard, OWNER}
  /\ Callers \subseteq Address \ {ZeroAddress, Guard}
  /\ Payees \subseteq Address \ {ZeroAddress}
  /\ AgentKeys \subseteq Address \ {ZeroAddress}
  /\ Watchers \subseteq Address \ {ZeroAddress}
  /\ Funders \subseteq Address \ {ZeroAddress, Guard}
  /\ Guard \notin AgentKeys \cup Watchers \cup {OWNER, FirstAgentKey}

\* Only what attach validates and the guard reads: a window, three limits, an
\* allowlist of per-recipient caps, and an unvalidated curfew.
ASSUME PolicyAssumption ==
  /\ NoPolicy \notin Policies
  /\ \A p \in Policies :
       /\ p.perTxLimit \in Nat \ {0}
       /\ p.dailyLimit \in Nat \ {0}
       /\ p.velocityLimit \in Nat \ {0}
       /\ p.holdWindowSec \in Nat \ {0}
       /\ p.curfewStart \in Nat /\ p.curfewEnd \in Nat
       /\ DOMAIN p.allowlist \subseteq Address
       /\ \A r \in DOMAIN p.allowlist : p.allowlist[r] \in Nat

\* Block time is far beyond the extension: an id without a hold (releaseAt 0)
\* is long past its window.
ASSUME NumberAssumption ==
  /\ Amount \subseteq Nat \ {0}
  /\ StrikeCounts \subseteq Nat
  /\ DAY_SEC \in Nat \ {0} /\ MINUTE_SEC \in Nat \ {0}
  /\ HOLD_EXTEND_SEC \in Nat /\ StartTime \in Nat /\ MaxTime \in Nat
  /\ MaxHolds \in Nat /\ MaxAttempts \in Nat
  /\ HOLD_EXTEND_SEC < StartTime
  /\ Opening \in Balances

TypeOK ==
  /\ agentKey \in Address \ {ZeroAddress}
  /\ verdictContract \in Address
  /\ authorityRevoked \in BOOLEAN
  /\ day \in Nat /\ dailySpent \in Nat /\ dailyCount \in Nat
  /\ holds \in [HoldId -> Hold]
  /\ nextHoldId \in 1 .. MaxHolds + 1
  /\ totalLocked \in Nat /\ attemptedBreaches \in Nat /\ now \in Nat
  /\ usdc \in Balances
  /\ policy \in Policies \cup {NoPolicy}
  /\ strikes \in [Address -> Nat]

-----------------------------------------------------------------------------
(***************************************************************************)
(* The daily counters: keyed by UTC day, reset lazily on first use.        *)
(***************************************************************************)
Today == now \div DAY_SEC
SpentToday == IF day = Today THEN dailySpent ELSE 0
CountToday == IF day = Today THEN dailyCount ELSE 0

ResetDaily ==
  /\ day' = Today
  /\ dailySpent' = SpentToday
  /\ dailyCount' = CountToday

\* Mutant of SpendDaily: the counters of an earlier day are not reset first.
SpendWithoutReset(amount) ==
  /\ day' = Today
  /\ dailySpent' = dailySpent + amount
  /\ dailyCount' = dailyCount + 1

\* No limit is consulted here: the classifier did so, or nobody does.
SpendDaily(amount) ==
  /\ day' = Today
  /\ dailySpent' = SpentToday + amount
  /\ dailyCount' = CountToday + 1

(***************************************************************************)
(* The classifier.                                                         *)
(***************************************************************************)
RecipientCap(p, to) == IF to \in DOMAIN p.allowlist THEN p.allowlist[to] ELSE 0
EffectiveLimit(p, to) ==
  IF RecipientCap(p, to) > 0 THEN RecipientCap(p, to) ELSE p.perTxLimit

NO_CURFEW == DAY_SEC \div MINUTE_SEC
MinuteOfDay == (now % DAY_SEC) \div MINUTE_SEC
CurfewActive(p) ==
  /\ NO_CURFEW \notin {p.curfewStart, p.curfewEnd}
  /\ \/ p.curfewStart = p.curfewEnd
     \/ p.curfewStart <= MinuteOfDay /\ MinuteOfDay < p.curfewEnd
     \/ /\ p.curfewStart > p.curfewEnd
        /\ MinuteOfDay >= p.curfewStart \/ MinuteOfDay < p.curfewEnd

HasAnyStrike(to) == strikes[to] > 0
IsFlagged(to) == strikes[to] >= 3

\* Mutant of Violation: the transaction about to be made is not counted.
ViolationCountedLate(p, to, amount) ==
  \/ amount > EffectiveLimit(p, to)
  \/ SpentToday + amount > p.dailyLimit
  \/ CountToday > p.velocityLimit
  \/ IsFlagged(to)

\* The wall: any one of these makes the proposal a violation, which reverts.
Violation(p, to, amount) ==
  \/ amount > EffectiveLimit(p, to)
  \/ SpentToday + amount > p.dailyLimit
  \/ CountToday + 1 > p.velocityLimit
  \/ IsFlagged(to)

\* Mutant of Elevated: only flagged destinations, which the wall stops anyway.
ElevatedWhenFlagged(p, to) ==
  \/ to \notin DOMAIN p.allowlist
  \/ CurfewActive(p)
  \/ IsFlagged(to)

\* The yellow lane.
Elevated(p, to) ==
  \/ to \notin DOMAIN p.allowlist
  \/ CurfewActive(p)
  \/ HasAnyStrike(to)

-----------------------------------------------------------------------------
(***************************************************************************)
(* The agent's entry point.                                                *)
(***************************************************************************)
MayPropose(caller, to) ==
  /\ ~authorityRevoked
  /\ caller = agentKey
  /\ to # ZeroAddress
  /\ policy # NoPolicy

\* Routine lane: counted and paid at once.  The only balance check is the
\* token's own; the funds locked by pending holds are not looked at.
ProposeRoutine(caller, to, amount) ==
  /\ MayPropose(caller, to)
  /\ ~Violation(policy, to, amount)
  /\ ~Elevated(policy, to)
  /\ Covers(usdc, Guard, amount)
  /\ SpendDaily(amount)
  /\ usdc' = Moved(usdc, Guard, to, amount)
  /\ UNCHANGED <<keyVars, holdVars, attemptedBreaches>>

\* Mutant of NewHold: the fields are set one by one and extendedTo forgotten.
NewHoldKeepsExtension(to, amount) ==
  [to |-> to, amount |-> amount, releaseAt |-> now + policy.holdWindowSec,
   createdAt |-> now, extendedTo |-> holds[nextHoldId].extendedTo,
   status |-> "PENDING"]

NewHold(to, amount) ==
  [to |-> to, amount |-> amount, releaseAt |-> now + policy.holdWindowSec,
   createdAt |-> now, extendedTo |-> 0, status |-> "PENDING"]

\* Elevated lane: must be backed by balance minus locks (an underflow of that
\* difference reverts as well).  The struct overwrites whatever the id held.
ProposeElevated(caller, to, amount) ==
  /\ MayPropose(caller, to)
  /\ ~Violation(policy, to, amount)
  /\ Elevated(policy, to)
  /\ amount + totalLocked <= usdc[Guard]
  /\ nextHoldId <= MaxHolds
  /\ ResetDaily
  /\ holds' = [holds EXCEPT ![nextHoldId] = NewHold(to, amount)]
  /\ nextHoldId' = nextHoldId + 1
  /\ totalLocked' = totalLocked + amount
  /\ UNCHANGED <<keyVars, attemptedBreaches, usdc>>

\* Anyone may relay the fact of a violation; it only counts.
ReportAttempt ==
  /\ attemptedBreaches < MaxAttempts
  /\ attemptedBreaches' = attemptedBreaches + 1
  /\ UNCHANGED <<keyVars, dayVars, holdVars, usdc>>

-----------------------------------------------------------------------------
(***************************************************************************)
(* The life of a hold.  An id without a hold reads as ZeroHold, so these   *)
(* functions accept it wherever their conditions do.                       *)
(***************************************************************************)
SetStatus(i, s) ==
  /\ holds' = [holds EXCEPT ![i].status = s]
  /\ UNCHANGED nextHoldId

\* _totalLocked -= h.amount, checked: an underflow reverts.
Unlock(i) ==
  /\ holds[i].amount <= totalLocked
  /\ totalLocked' = totalLocked - holds[i].amount

\* Mutant of Execute: a hold is paid whatever the registry says now.
ExecuteWithoutPolicy(i) ==
  /\ Covers(usdc, Guard, holds[i].amount)
  /\ SpendDaily(holds[i].amount)
  /\ usdc' = Moved(usdc, Guard, holds[i].to, holds[i].amount)

\* Count the amount, then pay it: shared by a release and an approval.
Execute(i) ==
  /\ policy # NoPolicy
  /\ Covers(usdc, Guard, holds[i].amount)
  /\ SpendDaily(holds[i].amount)
  /\ usdc' = Moved(usdc, Guard, holds[i].to, holds[i].amount)

\* The watcher found the transfer clean.
ReleaseHold(caller, i) ==
  /\ caller = verdictContract
  /\ holds[i].status = "PENDING"
  /\ now <= holds[i].releaseAt + HOLD_EXTEND_SEC
  /\ Execute(i)
  /\ SetStatus(i, "RELEASED")
  /\ Unlock(i)
  /\ UNCHANGED <<keyVars, attemptedBreaches>>

\* Mutants of FreezeHold: the lock is kept; a settled hold is reopened.
FreezeKeepsLock(caller, i) ==
  /\ caller = verdictContract
  /\ holds[i].status = "PENDING"
  /\ SetStatus(i, "FROZEN")
  /\ UNCHANGED <<keyVars, dayVars, totalLocked, attemptedBreaches, usdc>>

FreezeAgain(caller, i) ==
  /\ caller = verdictContract
  /\ holds[i].status # "FROZEN"
  /\ SetStatus(i, "FROZEN")
  /\ IF holds[i].status = "PENDING" THEN Unlock(i) ELSE UNCHANGED totalLocked
  /\ UNCHANGED <<keyVars, dayVars, attemptedBreaches, usdc>>

\* The watcher found it suspicious: the owner decides.
FreezeHold(caller, i) ==
  /\ caller = verdictContract
  /\ holds[i].status = "PENDING"
  /\ SetStatus(i, "FROZEN")
  /\ Unlock(i)
  /\ UNCHANGED <<keyVars, dayVars, attemptedBreaches, usdc>>

\* Mutant of UnlockIfPending: a frozen hold gives its lock back twice.
UnlockAlways(i) == Unlock(i)

\* A pending hold gives back its lock; a frozen one already did.
UnlockIfPending(i) ==
  IF holds[i].status = "PENDING" THEN Unlock(i) ELSE UNCHANGED totalLocked

\* Mutant of Approve: only the owner's own execution closes a hold.
ApproveSettled(caller, i) ==
  /\ caller = OWNER
  /\ holds[i].status # "EXECUTED_OWNER"
  /\ Execute(i)
  /\ SetStatus(i, "EXECUTED_OWNER")
  /\ UnlockIfPending(i)
  /\ UNCHANGED <<keyVars, attemptedBreaches>>

\* decide(holdId, APPROVE).
Approve(caller, i) ==
  /\ caller = OWNER
  /\ holds[i].status \in {"PENDING", "FROZEN"}
  /\ Execute(i)
  /\ SetStatus(i, "EXECUTED_OWNER")
  /\ UnlockIfPending(i)
  /\ UNCHANGED <<keyVars, attemptedBreaches>>

\* decide(holdId, FREEZE) and decide(holdId, FREEZE_ROTATE).
Reject(caller, i, rotate) ==
  /\ caller = OWNER
  /\ holds[i].status \in {"PENDING", "FROZEN"}
  /\ SetStatus(i, "CANCELLED")
  /\ UnlockIfPending(i)
  /\ authorityRevoked' = (authorityRevoked \/ rotate)
  /\ UNCHANGED <<agentKey, verdictContract, dayVars, attemptedBreaches, usdc>>

\* First lapse: the hold gets an extension counted from now.
LapseExtend(i) ==
  /\ holds[i].status = "PENDING"
  /\ now > holds[i].releaseAt
  /\ holds[i].extendedTo = 0
  /\ holds' = [holds EXCEPT ![i].extendedTo = now + HOLD_EXTEND_SEC]
  /\ UNCHANGED <<keyVars, dayVars, nextHoldId, totalLocked, attemptedBreaches, usdc>>

\* Mutant of LapseFreeze: lapses stop when the agent is revoked.
LapseWhileTrusted(i) ==
  /\ ~authorityRevoked
  /\ holds[i].status = "PENDING"
  /\ now > holds[i].releaseAt
  /\ holds[i].extendedTo # 0
  /\ now > holds[i].extendedTo
  /\ SetStatus(i, "FROZEN")
  /\ Unlock(i)
  /\ UNCHANGED <<keyVars, dayVars, attemptedBreaches, usdc>>

\* Second lapse: the hold is frozen.
LapseFreeze(i) ==
  /\ holds[i].status = "PENDING"
  /\ now > holds[i].releaseAt
  /\ holds[i].extendedTo # 0
  /\ now > holds[i].extendedTo
  /\ SetStatus(i, "FROZEN")
  /\ Unlock(i)
  /\ UNCHANGED <<keyVars, dayVars, attemptedBreaches, usdc>>

LapseHold(i) == LapseExtend(i) \/ LapseFreeze(i)

-----------------------------------------------------------------------------
(***************************************************************************)
(* Owner-only controls.                                                    *)
(***************************************************************************)
SetVerdictContract(caller, vc) ==
  /\ caller = OWNER
  /\ vc # ZeroAddress
  /\ verdictContract' = vc
  /\ UNCHANGED <<agentKey, authorityRevoked, dayVars, holdVars,
                 attemptedBreaches, usdc>>

\* Mutant of RotateAgentKey: a new key gets its authority back.
RotateAndRestore(caller, key) ==
  /\ caller = OWNER
  /\ key # ZeroAddress
  /\ agentKey' = key
  /\ authorityRevoked' = FALSE
  /\ UNCHANGED <<verdictContract, dayVars, holdVars, attemptedBreaches, usdc>>

RotateAgentKey(caller, key) ==
  /\ caller = OWNER
  /\ key # ZeroAddress
  /\ agentKey' = key
  /\ UNCHANGED <<verdictContract, authorityRevoked, dayVars, holdVars,
                 attemptedBreaches, usdc>>

KillSwitch(caller) ==
  /\ caller = OWNER
  /\ authorityRevoked' = TRUE
  /\ UNCHANGED <<agentKey, verdictContract, dayVars, holdVars,
                 attemptedBreaches, usdc>>

\* Mutant of Withdraw: the locks are added to the balance.
WithdrawLocked(caller, to, amount) ==
  /\ caller = OWNER
  /\ to # ZeroAddress
  /\ amount <= usdc[Guard] + totalLocked
  /\ usdc' = Moved(usdc, Guard, to, amount)
  /\ UNCHANGED guardVars

\* withdraw(USDC, to, amount): the balance minus the locks must cover it, and
\* that difference reverts when it underflows.  Other tokens are left out.
Withdraw(caller, to, amount) ==
  /\ caller = OWNER
  /\ to # ZeroAddress
  /\ amount + totalLocked <= usdc[Guard]
  /\ usdc' = Moved(usdc, Guard, to, amount)
  /\ UNCHANGED guardVars

-----------------------------------------------------------------------------
Init ==
  /\ agentKey = IF FirstAgentKey = ZeroAddress THEN OWNER ELSE FirstAgentKey
  /\ verdictContract = ZeroAddress
  /\ authorityRevoked = FALSE
  /\ now = StartTime
  /\ day = Today
  /\ dailySpent = 0
  /\ dailyCount = 0
  /\ holds = [i \in HoldId |-> ZeroHold]
  /\ nextHoldId = 1
  /\ totalLocked = 0
  /\ attemptedBreaches = 0
  /\ usdc = Opening
  /\ policy = NoPolicy
  /\ strikes = [a \in Address |-> 0]

\* Calls by the agent, the watcher and the public that may pay out.
Spending ==
  \E caller \in Callers :
    \/ \E to \in Payees, amount \in Amount : ProposeRoutine(caller, to, amount)
    \/ \E i \in HoldId : ReleaseHold(caller, i)
    \/ \E i \in HoldId : Approve(caller, i)

\* Calls that never move money.
Bookkeeping ==
  \/ \E caller \in Callers :
       \/ \E to \in Payees, amount \in Amount : ProposeElevated(caller, to, amount)
       \/ \E i \in HoldId : FreezeHold(caller, i)
       \/ \E i \in HoldId, rotate \in BOOLEAN : Reject(caller, i, rotate)
       \/ \E vc \in Watchers : SetVerdictContract(caller, vc)
       \/ \E key \in AgentKeys : RotateAgentKey(caller, key)
       \/ KillSwitch(caller)
  \/ \E i \in HoldId : LapseHold(i)
  \/ ReportAttempt

Withdrawal ==
  \E caller \in Callers, to \in Payees, amount \in Amount :
    Withdraw(caller, to, amount)

\* A transaction to this contract.
Call == (Spending \/ Bookkeeping \/ Withdrawal) /\ UNCHANGED envVars

Tick ==
  /\ now < MaxTime
  /\ now' = now + 1
  /\ UNCHANGED <<guardVars, usdc, policy, strikes>>

\* What the other contracts and accounts do meanwhile: the owner attaches,
\* changes or revokes the policy, strikes are reported and cleared, and
\* anyone sends USDC to the account.
PolicyChanges ==
  /\ policy' \in (Policies \cup {NoPolicy}) \ {policy}
  /\ UNCHANGED <<guardVars, usdc, strikes, now>>

StrikesChange ==
  /\ \E to \in Payees, n \in StrikeCounts :
       strikes' = [strikes EXCEPT ![to] = n]
  /\ UNCHANGED <<guardVars, usdc, policy, now>>

Fund ==
  /\ \E from \in Funders, amount \in Amount :
       /\ Covers(usdc, from, amount)
       /\ usdc' = Moved(usdc, from, Guard, amount)
  /\ UNCHANGED <<guardVars, envVars>>

Environment == Tick \/ PolicyChanges \/ StrikesChange \/ Fund

Next == Call \/ Environment

Spec == Init /\ [][Next]_vars

-----------------------------------------------------------------------------
(***************************************************************************)
(* Properties.                                                             *)
(***************************************************************************)
Created(i) == i < nextHoldId
Pending == {i \in HoldId : holds[i].status = "PENDING"}

\* The running total _totalLocked, maintained at every transition, is the sum
\* of the amounts of the pending holds: no transition forgets its share and
\* none gives it back twice, whatever order watcher, owner and lapse act in.
LockedBy(i) == IF holds[i].status = "PENDING" THEN holds[i].amount ELSE 0
LockedIsPendingSum ==
  totalLocked = SumTo([i \in HoldId |-> LockedBy(i)], MaxHolds)

\* An extension is granted only after the hold's own window, so it ends later
\* than the watcher's deadline releaseAt + HOLD_EXTEND_SEC: no lapse, not even
\* one called on the id before the hold existed, shortens the time the
\* watcher and the owner have before the automatic freeze.
ExtensionIsWhole ==
  \A i \in HoldId :
    Created(i) /\ holds[i].extendedTo # 0 =>
      holds[i].extendedTo > holds[i].releaseAt + HOLD_EXTEND_SEC

\* The account implements HoldCustody: an id below nextHoldId is a hold, at
\* the stage its status names; an id above it is unborn, whatever a call on
\* the empty slot wrote there.
StageOf(status) ==
  CASE status = "PENDING" -> "locked"
    [] status = "FROZEN" -> "frozen"
    [] status = "CANCELLED" -> "returned"
    [] status \in {"RELEASED", "EXECUTED_OWNER"} -> "paid"

CustodyStage ==
  [i \in HoldId |-> IF Created(i) THEN StageOf(holds[i].status) ELSE "unborn"]

CustodyPromise ==
  [i \in HoldId |-> IF Created(i) THEN [to |-> holds[i].to, amount |-> holds[i].amount]
                    ELSE [to |-> ZeroAddress, amount |-> 0]]

Custody == INSTANCE HoldCustody WITH
  stage <- CustodyStage, promise <- CustodyPromise

\* Every hold is paid at most once, in full, to the payee it was created
\* with, in the step that closes it, and no other step of a hold moves money.
HoldsAreKeptInCustody == Custody!Spec
=============================================================================
