------------------------------- MODULE Repayd -------------------------------
(***************************************************************************)
(* The whole protocol on chain: one guard account, the policy registry,    *)
(* the blocklist, the pool and the verdict contract, all settling in one   *)
(* USDC ledger, called by the owner, the agent, the watcher, depositors    *)
(* and the public in any order.                                            *)
(***************************************************************************)
EXTENDS VerdictContract

CONSTANTS
  FirstPolicy,   \* version 1, attached by the deployment
  PoolWiring,    \* where pool may stand: setPool may come later
  FirstWatcher,  \* the watcher key the deployment installs
  JuniorLP, SeniorLP,
  JUNIOR_DEPOSIT, SENIOR_DEPOSIT

(***************************************************************************)
(* The parts' own assumptions, and those about the wiring.  A verdict may  *)
(* name any outcome, alibi and amount; whom it pays is the owner, who is   *)
(* an account and not the pool.                                            *)
(***************************************************************************)
ASSUME PartsAssumption ==
  /\ Account!AddressAssumption /\ Account!PolicyAssumption /\ Account!NumberAssumption
  /\ MutualPool!PoolAssumption /\ MutualPool!AddressesAreFinite

ASSUME WiringAssumption ==
  /\ Guard # Pool
  /\ {Verdicts, Deployer, JuniorLP, SeniorLP} \subseteq Address
  /\ Deployer # ZeroAddress
  /\ FirstWatcher \in Address \ {ZeroAddress}
  /\ PoolWiring \subseteq {ZeroAddress, Pool}
  /\ WatcherKeys \cup Disputants \cup Admins \subseteq Address
  /\ {JUNIOR_DEPOSIT, SENIOR_DEPOSIT, MAX_STRIKES} \subseteq Nat
  /\ MaxVersion \in Nat \ {0}
  /\ FirstPolicy \in Policies

ASSUME VerdictAssumption ==
  \A c \in VerdictInputs :
    /\ c.outcome \in Outcome /\ c.alibi \in Alibi
    /\ c.claimant \in Claimants
    /\ c.payoutAmount \in Nat

(***************************************************************************)
(* The state contracts/script/Deploy.s.sol leaves: contracts wired to each *)
(* other, both tranches seeded by their depositor, policy version 1        *)
(* attached by the owner.  The pool may still have to be wired.            *)
(***************************************************************************)
Seed == [t \in MutualPool!Tranche |->
           IF t = "junior" THEN JUNIOR_DEPOSIT ELSE SENIOR_DEPOSIT]
Seeder == [t \in MutualPool!Tranche |-> IF t = "junior" THEN JuniorLP ELSE SeniorLP]

Deployed ==
  /\ watcher = FirstWatcher
  /\ pool \in PoolWiring
  /\ verdicts = <<>> /\ claimNullifiers = {} /\ disputes = <<>>
  /\ now = StartTime
  /\ usdc = [a \in Address |-> IF a = Pool THEN JUNIOR_DEPOSIT + SENIOR_DEPOSIT
                               ELSE Opening[a]]
  /\ agentKey = IF FirstAgentKey = ZeroAddress THEN OWNER ELSE FirstAgentKey
  /\ verdictContract = Verdicts
  /\ authorityRevoked = FALSE
  /\ day = Account!Today /\ dailySpent = 0 /\ dailyCount = 0
  /\ holds = [i \in Account!HoldId |-> Account!ZeroHold]
  /\ nextHoldId = 1 /\ totalLocked = 0 /\ attemptedBreaches = 0
  /\ poolVerdictContract = Verdicts
  /\ reinsuranceHook = ZeroAddress
  /\ totalAssets = Seed /\ totalShares = Seed
  /\ sharesOf = [t \in MutualPool!Tranche |->
                   [a \in Address |-> IF a = Seeder[t] THEN Seed[t] ELSE 0]]
  /\ premiumPool = 0
  /\ policies = [a \in {Guard} |-> FirstPolicy]
  /\ policyHashAt = [a \in {Guard} |-> [v \in 0 .. MaxVersion |->
       IF v = 1 THEN Registry!HashPolicy(FirstPolicy) ELSE Registry!NoHash]]
  /\ latestVersion = [a \in {Guard} |-> 1]
  /\ strikes = [a \in Address |-> 0]
  /\ isReporter = [a \in Address |-> a \in {Deployer, Verdicts}]
  /\ blocklistAdmin = Deployer

-----------------------------------------------------------------------------
(***************************************************************************)
(* One transaction, sent by an account, to one of the contracts.           *)
(***************************************************************************)
AccountCall ==
  /\ Account!Spending \/ Account!Bookkeeping \/ Account!Withdrawal
  /\ UNCHANGED <<verdictVars, ownPoolVars, registryVars, blocklistVars, now>>

\* payout is not among these: its only caller is the verdict contract, which
\* sends no transactions of its own.
PoolCall ==
  /\ MutualPool!Trade \/ MutualPool!Premium \/ MutualPool!Wiring \/ MutualPool!OtherTransfer
  /\ UNCHANGED <<verdictVars, accountVars, registryVars, blocklistVars, now>>

RegistryCall ==
  /\ Registry!RegistryCall(Callers)
  /\ UNCHANGED <<verdictVars, accountVars, ownPoolVars, blocklistVars, usdc, now>>

BlocklistCall ==
  /\ BLOCKLIST!BlocklistCall(Callers)
  /\ UNCHANGED <<verdictVars, accountVars, ownPoolVars, registryVars, usdc, now>>

Tick ==
  /\ now < MaxTime
  /\ now' = now + 1
  /\ UNCHANGED <<verdictVars, accountVars, ownPoolVars, registryVars,
                 blocklistVars, usdc>>

Next ==
  \/ AccountCall \/ PoolCall \/ RegistryCall \/ BlocklistCall
  \/ VerdictCall \/ Tick

Spec == Deployed /\ [][Next]_allVars

-----------------------------------------------------------------------------
(***************************************************************************)
(* Properties.                                                             *)
(***************************************************************************)
TypeOK ==
  /\ VerdictTypeOK
  /\ Account!TypeOK
  /\ MutualPool!TypeOK
  /\ Registry!RegistryTypeOK
  /\ BLOCKLIST!BlocklistTypeOK

Capital == totalAssets["junior"] + totalAssets["senior"]

\* At most one covered verdict per breached transaction, however often the
\* watcher signs it again under another timestamp, key or policy version.
OneClaimPerBreach ==
  \A v, w \in AcceptedAs("COVERED") : v.txHash = w.txHash => v = w

\* A breach that was denied is never paid afterwards.
DenialIsFinal ==
  [][\A v \in AcceptedAs("DENIED_OWNER_ORIGIN") :
       \A w \in AcceptedAs("COVERED")' \ Accepted : w.txHash # v.txHash]_allVars

\* Capital that depositors do not take out goes to the claimant of a verdict
\* recorded in the same transaction, in the recorded amount, and every covered
\* verdict recorded is paid: no claim is booked without money or paid unbooked.
PaidAsRecorded ==
  [][LET new == AcceptedAs("COVERED")' \ Accepted IN
     /\ totalShares' = totalShares /\ Capital' # Capital => new # {}
     /\ \A v \in new : /\ v.payoutAmount > 0
                       /\ Capital' = Capital - v.payoutAmount
                       /\ usdc'[v.claimant] = usdc[v.claimant] + v.payoutAmount]_allVars

\* The same promises about holds when the watcher reaches the account through
\* the verdict contract and the other contracts move USDC meanwhile.
AccountLockedIsPendingSum == Account!LockedIsPendingSum
AccountKeepsCustody == Account!HoldsAreKeptInCustody

\* Without a live policy nothing but the owner's withdrawal takes money out of
\* the account: a revocation also stops holds created before it.
RevokedPolicyStopsSpending ==
  [][latestVersion[Guard] = 0 /\ usdc'[Guard] < usdc[Guard]
       => accountVars' = accountVars]_allVars

\* A destination with a strike is paid only from a hold or by the owner: a
\* verdict's strike closes the routine lane in the transaction that files it.
StruckGetNoRoutinePayment ==
  [][\A d \in Payees :
       strikes[d] > 0 /\ usdc'[d] > usdc[d] /\ accountVars' # accountVars
         => holds' # holds]_allVars

-----------------------------------------------------------------------------
(***************************************************************************)
(* What the repository says and the contracts do not do.                   *)
(***************************************************************************)

\* PolicyRegistry.sol: the version history of hashes is append-only.
HistoryIsAppendOnly ==
  [][\A v \in 1 .. MaxVersion :
       policyHashAt[Guard][v] # Registry!NoHash =>
         policyHashAt'[Guard][v] = policyHashAt[Guard][v]]_allVars
=============================================================================
