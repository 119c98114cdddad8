---------------------------- MODULE Transactions ----------------------------
(***************************************************************************)
(* The contracts as the programs beside them meet them: a signed           *)
(* transaction waits to be mined, succeeds or reverts as a whole, and      *)
(* leaves events.  An indexer (packages/subgraph) follows the events; its  *)
(* entities are those after the last mined block.                          *)
(*                                                                         *)
(* A transaction is [from, call, ...] with the arguments of the call.      *)
(***************************************************************************)
EXTENDS Repayd, Sequences

CONSTANTS
  NativeOpenings \* the native balances there may be at the start

VARIABLES
  created,   \* the six contracts exist
  native,    \* native balances: gas
  entities,  \* the subgraph
  mempool    \* transactions sent and not mined, in the order sent

chainVars == <<allVars, created, native>>
txVars == <<chainVars, entities, mempool>>

Graph == INSTANCE Subgraph

-----------------------------------------------------------------------------
(***************************************************************************)
(* Frames: one contract acts, the others do not.                           *)
(***************************************************************************)
OnAccount(action) ==
  action /\ UNCHANGED <<verdictVars, ownPoolVars, registryVars, blocklistVars,
                        now, created, native>>
OnPool(action) ==
  action /\ UNCHANGED <<verdictVars, accountVars, registryVars, blocklistVars,
                        now, created, native>>
OnVerdicts(action) == action /\ UNCHANGED <<created, native>>
OnRegistry(action) ==
  action /\ UNCHANGED <<verdictVars, accountVars, ownPoolVars, blocklistVars,
                        usdc, now, created, native>>
OnBlocklist(action) ==
  action /\ UNCHANGED <<verdictVars, accountVars, ownPoolVars, registryVars,
                        usdc, now, created, native>>
OnToken(action) ==
  action /\ UNCHANGED <<verdictVars, accountVars, ownPoolVars, registryVars,
                        blocklistVars, now, created, native>>

\* The six constructors; the account's stores the day.
Create ==
  /\ ~created
  /\ created' = TRUE
  /\ day' = Account!Today
  /\ UNCHANGED <<verdictVars, ownPoolVars, registryVars, blocklistVars, usdc, now,
                 agentKey, verdictContract, authorityRevoked, dailySpent,
                 dailyCount, holds, nextHoldId, totalLocked, attemptedBreaches,
                 native>>

\* A plain transfer of the native coin.
Fund(tx) ==
  /\ Account!Covers(native, tx.from, tx.amount)
  /\ native' = Account!Moved(native, tx.from, tx.to, tx.amount)
  /\ UNCHANGED <<allVars, created>>

\* USDCMock mints for whoever asks.
Mint(tx) == usdc' = [usdc EXCEPT ![tx.to] = @ + tx.amount]

Decide(tx) ==
  IF tx.decision = 0 THEN Account!Approve(tx.from, tx.hold)
  ELSE Account!Reject(tx.from, tx.hold, tx.decision = 2)

\* The verdict contract serves every account; a hold verdict for another one
\* changes that account and none of the contracts modelled.
OtherHoldVerdict(tx) ==
  /\ tx.from = watcher /\ tx.tier \in {0, 1}
  /\ UNCHANGED chainVars

\* What the transaction does when it succeeds.
Call(tx) ==
  \/ tx.call = "fund" /\ Fund(tx)
  \/ tx.call = "create" /\ Create
  \/ /\ created
     /\ \/ tx.call = "setWatcher" /\ OnVerdicts(SetWatcher(tx.from, tx.key))
        \/ tx.call = "setPool" /\ OnVerdicts(SetPool(tx.from))
        \/ tx.call = "poolVerdicts"
             /\ OnPool(MutualPool!SetPoolVerdictContract(tx.from, Verdicts))
        \/ tx.call = "setReporter"
             /\ OnBlocklist(BLOCKLIST!SetReporter(tx.from, Verdicts, TRUE))
        \/ tx.call = "guardVerdicts"
             /\ OnAccount(Account!SetVerdictContract(tx.from, Verdicts))
        \/ tx.call = "mint" /\ OnToken(Mint(tx))
        \/ tx.call = "deposit"
             /\ OnPool(MutualPool!Deposit(tx.from, tx.tranche, tx.amount))
        \/ tx.call = "redeem"
             /\ OnPool(MutualPool!Redeem(tx.from, tx.tranche, tx.amount))
        \/ tx.call = "premium" /\ OnPool(MutualPool!RecordPremium(tx.from, tx.amount))
        \/ tx.call = "attach" /\ OnRegistry(Registry!Attach(tx.from, Guard, FirstPolicy))
        \/ tx.call = "revoke" /\ OnRegistry(Registry!Revoke(tx.from, Guard))
        \/ tx.call = "propose"
             /\ OnAccount(\/ Account!ProposeRoutine(tx.from, tx.to, tx.amount)
                          \/ Account!ProposeElevated(tx.from, tx.to, tx.amount))
        \/ tx.call = "reportAttempt" /\ OnAccount(Account!ReportAttempt)
        \/ tx.call = "decide" /\ OnAccount(Decide(tx))
        \/ tx.call = "lapse" /\ OnAccount(Account!LapseHold(tx.hold))
        \/ tx.call = "killSwitch" /\ OnAccount(Account!KillSwitch(tx.from))
        \/ tx.call = "withdraw"
             /\ OnAccount(Account!Withdraw(tx.from, tx.to, tx.amount))
        \/ tx.call = "holdVerdict"
             /\ OnVerdicts(SubmitHoldVerdict(tx.from, tx.from, tx.hold, tx.tier))
        \/ tx.call = "otherHoldVerdict" /\ OtherHoldVerdict(tx)
        \/ tx.call = "verdict" /\ OnVerdicts(SubmitVerdict(tx.from, tx.from, tx.verdict))
        \/ tx.call = "dispute" /\ OnVerdicts(Dispute(tx.from, tx.verdict))
        \/ tx.call = "report" /\ OnBlocklist(BLOCKLIST!Report(tx.from, tx.to))
        \/ tx.call = "clear" /\ OnBlocklist(BLOCKLIST!Clear(tx.from, tx.to))

-----------------------------------------------------------------------------
(***************************************************************************)
(* The events of a successful transaction, in the order they are emitted,  *)
(* from the state before it.  Only those that a handler or the demo reads. *)
(***************************************************************************)
Transfer(from, to, amount) ==
  [ev |-> "Transfer", from |-> from, to |-> to, amount |-> amount]

ReleasedLog(i) ==
  [ev |-> "Released", id |-> i, to |-> holds[i].to, amount |-> holds[i].amount]

\* The token's event comes last: the account emits, then transfers.
PaidHold(i) == Transfer(Guard, holds[i].to, holds[i].amount)

Decided(i, decision) == [ev |-> "OwnerDecision", id |-> i, decision |-> decision]

ProposeLogs(tx) ==
  IF Account!Elevated(Registry!GetPolicy(Guard), tx.to)
  THEN <<[ev |-> "Classified", tier |-> 1],
         [ev |-> "Held", id |-> nextHoldId, to |-> tx.to, amount |-> tx.amount]>>
  ELSE <<[ev |-> "Classified", tier |-> 0], [ev |-> "ExecutedRoutine"],
         Transfer(Guard, tx.to, tx.amount)>>

Routed(agent, tx) ==
  [ev |-> "HoldVerdictRouted", agent |-> agent, id |-> tx.hold, clean |-> tx.tier = 0]

HoldVerdictLogs(tx) ==
  IF tx.tier = 0
  THEN <<Routed(Guard, tx), ReleasedLog(tx.hold), PaidHold(tx.hold)>>
  ELSE <<Routed(Guard, tx), Decided(tx.hold, 255)>>

DecideLogs(tx) ==
  CASE tx.decision = 0 ->
         <<ReleasedLog(tx.hold), Decided(tx.hold, 0), PaidHold(tx.hold)>>
    [] tx.decision = 1 -> <<Decided(tx.hold, 1)>>
    [] OTHER -> <<[ev |-> "AuthorityRevoked"], Decided(tx.hold, 2)>>

LapseLogs(tx) ==
  IF holds[tx.hold].extendedTo = 0
  THEN <<[ev |-> "HoldLapsed", id |-> tx.hold, extendedTo |-> now + HOLD_EXTEND_SEC]>>
  ELSE <<Decided(tx.hold, 254)>>

ReportedLog(d) == [ev |-> "Reported", destination |-> d, strikes |-> strikes[d] + 1]

AcceptedLog(v) ==
  [ev |-> "VerdictAccepted", digest |-> v, outcome |-> v.outcome,
   alibi |-> v.alibi, agent |-> v.agent, payout |-> v.payoutAmount]

SignalLog(v) == [ev |-> "AttemptedBreachSignal", txHash |-> v.txHash]

PayoutLogs(v) ==
  <<AcceptedLog(v),
    [ev |-> "LossApplied", junior |-> MutualPool!FromJunior(v.payoutAmount),
     senior |-> MutualPool!FromSenior(v.payoutAmount)],
    [ev |-> "Payout", digest |-> v, claimant |-> v.claimant, amount |-> v.payoutAmount],
    Transfer(Pool, v.claimant, v.payoutAmount)>>

VerdictLogs(v) ==
  CASE v.outcome = "COVERED" -> PayoutLogs(v)
    [] v.outcome = "ATTEMPTED_BREACH" /\ FilesStrike(v) ->
         <<AcceptedLog(v), SignalLog(v), ReportedLog(v.destination)>>
    [] v.outcome = "ATTEMPTED_BREACH" /\ ~FilesStrike(v) ->
         <<AcceptedLog(v), SignalLog(v)>>
    [] OTHER -> <<AcceptedLog(v)>>

Logs(tx) ==
  CASE tx.call = "propose" -> ProposeLogs(tx)
    [] tx.call = "holdVerdict" -> HoldVerdictLogs(tx)
    [] tx.call = "otherHoldVerdict" -> <<Routed(tx.agent, tx)>>
    [] tx.call = "decide" -> DecideLogs(tx)
    [] tx.call = "lapse" -> LapseLogs(tx)
    [] tx.call = "verdict" -> VerdictLogs(tx.verdict)
    [] tx.call = "dispute" -> <<[ev |-> "Reopened", digest |-> tx.verdict]>>
    [] tx.call = "report" -> <<ReportedLog(tx.to)>>
    [] tx.call = "clear" -> <<[ev |-> "Cleared", destination |-> tx.to]>>
    [] tx.call = "deposit" ->
         <<[ev |-> "Deposited", tranche |-> tx.tranche, assets |-> tx.amount]>>
    [] tx.call = "redeem" ->
         <<[ev |-> "Redeemed", tranche |-> tx.tranche,
            assets |-> MutualPool!ToAsset(tx.tranche, tx.amount)]>>
    [] tx.call = "premium" -> <<[ev |-> "PremiumRecorded", amount |-> tx.amount]>>
    [] tx.call = "attach" -> <<[ev |-> "PolicyUpdated", policy |-> FirstPolicy]>>
    [] tx.call = "revoke" -> <<[ev |-> "PolicyRevoked"]>>
    [] tx.call = "reportAttempt" ->
         <<[ev |-> "AttemptedBreach"], [ev |-> "Classified", tier |-> 2]>>
    [] tx.call = "killSwitch" -> <<[ev |-> "AuthorityRevoked"]>>
    [] OTHER -> <<>>

\* Mined, successfully.
Executed(tx) == Call(tx) /\ entities' = Graph!Index(entities, Logs(tx))

\* Mined, and reverted: no effect and no event.
Refused(tx) == ~ENABLED Call(tx)
Reverted(tx) == Refused(tx) /\ UNCHANGED <<chainVars, entities>>

\* One account's transactions are mined in the order of their nonces.
IsNext(i) == \A j \in 1 .. i - 1 : mempool[j].from # mempool[i].from

Without(s, i) == SubSeq(s, 1, i - 1) \o SubSeq(s, i + 1, Len(s))

-----------------------------------------------------------------------------
\* Before anything is deployed: what the constructors will set.
Undeployed ==
  /\ created = FALSE
  /\ native \in NativeOpenings
  /\ mempool = <<>>
  /\ entities = Graph!NoEntities(Address)
  /\ watcher = OWNER /\ pool = ZeroAddress
  /\ verdicts = <<>> /\ claimNullifiers = {} /\ disputes = <<>>
  /\ Registry!RegistryInit
  /\ Account!Init
  /\ MutualPool!Init
  /\ BLOCKLIST!BlocklistInit
=============================================================================
