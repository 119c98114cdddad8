---------------------------- MODULE RepaydProofs ----------------------------
(***************************************************************************)
(* Theorems about the composed protocol, for every set of accounts,        *)
(* policies and verdicts.  The account and the pool bring their own        *)
(* invariants: what is added here is that the other contracts, which share *)
(* the USDC ledger, the policy, the strikes and the clock with them, keep  *)
(* those invariants, and what holds of the verdicts.                       *)
(***************************************************************************)
EXTENDS Repayd, TLAPS

GP == INSTANCE GuardAccountProofs WITH policy <- Registry!GetPolicy(Guard)
PP == INSTANCE MutualPoolProofs WITH
  PoolAdmin <- Deployer, PoolCallers <- Callers, PoolOpening <- Opening

\* Every verdict that settles a breach, paid or denied, has used it up.
BreachesAreConsumed ==
  \A v \in Accepted : Consumes(v) => v.txHash \in claimNullifiers

LedgerInv ==
  /\ VerdictTypeOK /\ Registry!RegistryTypeOK /\ BLOCKLIST!BlocklistTypeOK
  /\ now \in Nat \ {0}
  /\ BreachesAreConsumed
  /\ OneClaimPerBreach

ProtocolInv == LedgerInv /\ GP!IInv /\ PP!PoolInv

-----------------------------------------------------------------------------
(***************************************************************************)
(* The assumptions of the two parts' proofs.                               *)
(***************************************************************************)
LEMMA GuardAssumptions ==
  GP!AddressAssumption /\ GP!PolicyAssumption /\ GP!NumberAssumption
BY PartsAssumption
DEF Account!AddressAssumption, Account!PolicyAssumption, Account!NumberAssumption,
    Account!Balances, GP!AddressAssumption, GP!PolicyAssumption, GP!NumberAssumption,
    GP!Balances

LEMMA PoolAssumptions == PP!PoolAssumption /\ PP!AddressesAreFinite
<1>1. PP!PoolAssumption
  BY PartsAssumption
  DEF MutualPool!PoolAssumption, MutualPool!Balances, PP!PoolAssumption, PP!Balances
<1>2. PP!AddressesAreFinite
  BY PartsAssumption
  DEF MutualPool!AddressesAreFinite, MutualPool!IsFiniteSet, PP!AddressesAreFinite,
      PP!IsFiniteSet
<1>3. QED
  BY <1>1, <1>2

LEMMA SameAddresses ==
  /\ GP!Balances = [Address -> Nat] /\ PP!Balances = [Address -> Nat]
BY DEF GP!Balances, PP!Balances

-----------------------------------------------------------------------------
(***************************************************************************)
(* The state the deployment leaves.                                        *)
(***************************************************************************)
LEMMA DeployedLedger == Deployed => LedgerInv
<1> SUFFICES ASSUME Deployed PROVE LedgerInv
  OBVIOUS
<1>1. now \in Nat \ {0}
  BY PartsAssumption DEF Account!NumberAssumption, Deployed
<1>2. Accepted = {} /\ DOMAIN disputes = {} /\ claimNullifiers = {}
  BY DEF Accepted, Deployed
<1>3. VerdictTypeOK
  BY <1>2, WiringAssumption DEF VerdictTypeOK, Deployed
<1>4. Registry!RegistryTypeOK
  BY WiringAssumption
  DEF Registry!RegistryTypeOK, Registry!HashPolicy, Registry!NoHash, Deployed
<1>5. BLOCKLIST!BlocklistTypeOK
  BY WiringAssumption DEF BLOCKLIST!BlocklistTypeOK, Deployed
<1>6. BreachesAreConsumed /\ OneClaimPerBreach
  BY <1>2 DEF BreachesAreConsumed, OneClaimPerBreach, AcceptedAs
<1>7. QED
  BY <1>1, <1>3, <1>4, <1>5, <1>6 DEF LedgerInv

LEMMA DeployedUsdc ==
  Deployed => usdc \in [Address -> Nat] /\ usdc[Pool] = JUNIOR_DEPOSIT + SENIOR_DEPOSIT
BY PartsAssumption, WiringAssumption
DEF Deployed, MutualPool!PoolAssumption, MutualPool!Balances

LEMMA DeployedAccount == Deployed => GP!IInv
<1> SUFFICES ASSUME Deployed PROVE GP!IInv
  OBVIOUS
<1> USE GuardAssumptions DEF GP!AddressAssumption, GP!NumberAssumption
<1>1. \A i \in GP!HoldId : holds[i] = GP!ZeroHold
  BY DEF Deployed, GP!HoldId, GP!ZeroHold, Account!HoldId, Account!ZeroHold
<1>2. GP!TypeOK
  <2>1. GP!ZeroHold \in GP!Hold
    BY DEF GP!ZeroHold, GP!Hold, GP!HoldStatus
  <2>2. holds \in [GP!HoldId -> GP!Hold]
    BY <1>1, <2>1 DEF Deployed, GP!HoldId, Account!HoldId
  <2>3. Account!Today \in Nat
    BY GP!TodayIsNatural DEF Deployed, Account!Today, GP!Today
  <2>4. Registry!GetPolicy(Guard) \in Policies \cup {NoPolicy}
    BY WiringAssumption DEF Deployed, Registry!GetPolicy
  <2>5. agentKey \in Address \ {ZeroAddress} /\ verdictContract \in Address
    BY WiringAssumption DEF Deployed
  <2>6. usdc \in GP!Balances /\ strikes \in [Address -> Nat]
    BY DeployedUsdc, SameAddresses DEF Deployed
  <2>7. nextHoldId \in 1 .. MaxHolds + 1 /\ now \in Nat
    BY DEF Deployed
  <2>8. QED
    BY <2>2, <2>3, <2>4, <2>5, <2>6, <2>7 DEF GP!TypeOK, Deployed
<1>3. GP!EmptySlotsHoldNothing /\ GP!ExtensionIsWhole
  BY <1>1 DEF GP!EmptySlotsHoldNothing, GP!ExtensionIsWhole, GP!ZeroHold
<1>4. GP!LockedIsPendingSum
  <2>1. [i \in GP!HoldId |-> GP!LockedBy(i)] = [i \in 1 .. MaxHolds |-> 0]
    BY <1>1 DEF GP!LockedBy, GP!ZeroHold, GP!HoldId
  <2>2. QED
    BY <2>1, GP!SumToZero DEF GP!LockedIsPendingSum, Deployed
<1>5. QED
  BY <1>2, <1>3, <1>4 DEF GP!IInv

LEMMA DeployedPool == Deployed => PP!PoolInv
<1> SUFFICES ASSUME Deployed PROVE PP!PoolInv
  OBVIOUS
<1>1. totalAssets = Seed /\ totalShares = Seed /\ Seed \in [PP!Tranche -> Nat]
  BY WiringAssumption DEF Deployed, Seed, PP!Tranche, MutualPool!Tranche
<1>2. \A t \in PP!Tranche :
        sharesOf[t] = [a \in Address |-> IF a = Seeder[t] THEN Seed[t] ELSE 0]
  BY DEF Deployed, PP!Tranche, MutualPool!Tranche
<1>3. \A t \in PP!Tranche : Seeder[t] \in Address
  BY WiringAssumption DEF Seeder, PP!Tranche, MutualPool!Tranche
<1>4. PP!TypeOK
  <2>1. sharesOf \in [PP!Tranche -> [Address -> Nat]]
    BY <1>1, <1>2 DEF Deployed, PP!Tranche, MutualPool!Tranche
  <2>2. QED
    BY <1>1, <2>1, DeployedUsdc, SameAddresses, PoolAssumptions, WiringAssumption
    DEF PP!TypeOK, Deployed, PP!PoolAssumption
<1>5. PP!Solvent
  BY <1>1, DeployedUsdc, WiringAssumption
  DEF PP!Solvent, Seed, Deployed, MutualPool!Tranche
<1>6. PP!SharesAddUp
  <2>1. SUFFICES ASSUME NEW t \in PP!Tranche
                 PROVE  totalShares[t] = PP!SetSum(sharesOf[t], Address)
    BY DEF PP!SharesAddUp
  <2>2. PICK n \in Int, lp \in Address : n = Seed[t] /\ lp = Seeder[t]
    BY <1>1, <1>3
  <2>3. PP!SetSum([a \in Address |-> IF a = lp THEN n ELSE 0], Address) = n
    BY PP!SetSumSingle, PoolAssumptions DEF PP!AddressesAreFinite
  <2>4. sharesOf[t] = [a \in Address |-> IF a = lp THEN n ELSE 0]
    BY <1>2, <2>2
  <2>5. QED
    BY <1>1, <2>2, <2>3, <2>4
<1>7. PP!AssetsWithinShares
  BY <1>1 DEF PP!AssetsWithinShares
<1>8. QED
  BY <1>4, <1>5, <1>6, <1>7 DEF PP!PoolInv

LEMMA DeployedInv == Deployed => ProtocolInv
BY DeployedLedger, DeployedAccount, DeployedPool DEF ProtocolInv

-----------------------------------------------------------------------------
(***************************************************************************)
(* The calls as the parts' proofs know them.                               *)
(***************************************************************************)
LEMMA SpendingAgrees ==
  /\ Account!Spending => \E caller : GP!SpendingBy(caller)
  /\ \A i \in Account!HoldId : Account!ReleaseHold(Verdicts, i) => GP!SpendingBy(Verdicts)
  /\ Account!Withdrawal => GP!Withdrawal
<1> USE DEF
  Account!Spending, Account!ProposeRoutine, Account!ReleaseHold, Account!Approve,
  Account!MayPropose, Account!Violation, Account!Elevated, Account!Covers,
  Account!SpendDaily, Account!Moved, Account!Execute, Account!SetStatus,
  Account!Unlock, Account!UnlockIfPending, Account!keyVars, Account!holdVars,
  Account!HoldId, Account!EffectiveLimit, Account!RecipientCap, Account!SpentToday,
  Account!CountToday, Account!IsFlagged, Account!HasAnyStrike, Account!CurfewActive,
  Account!MinuteOfDay, Account!NO_CURFEW, Account!Today,
  Account!Withdrawal, Account!Withdraw, Account!guardVars, Account!dayVars,
  GP!SpendingBy, GP!ProposeRoutine, GP!ReleaseHold, GP!Approve,
  GP!MayPropose, GP!Violation, GP!Elevated, GP!Covers,
  GP!SpendDaily, GP!Moved, GP!Execute, GP!SetStatus,
  GP!Unlock, GP!UnlockIfPending, GP!keyVars, GP!holdVars,
  GP!HoldId, GP!EffectiveLimit, GP!RecipientCap, GP!SpentToday,
  GP!CountToday, GP!IsFlagged, GP!HasAnyStrike, GP!CurfewActive,
  GP!MinuteOfDay, GP!NO_CURFEW, GP!Today,
  GP!Withdrawal, GP!Withdraw, GP!guardVars, GP!dayVars
<1>1. Account!Spending => \E caller : GP!SpendingBy(caller)
  BY Zenon
<1>2. \A i \in Account!HoldId : Account!ReleaseHold(Verdicts, i) => GP!SpendingBy(Verdicts)
  BY Zenon
<1>3. Account!Withdrawal => GP!Withdrawal
  BY Zenon
<1>4. QED
  BY <1>1, <1>2, <1>3
LEMMA BookkeepingAgrees ==
  /\ Account!Bookkeeping => \E caller : GP!BookkeepingBy(caller)
  /\ \A i \in Account!HoldId : Account!FreezeHold(Verdicts, i) => GP!BookkeepingBy(Verdicts)
<1> USE DEF
  Account!Bookkeeping, Account!ProposeElevated, Account!FreezeHold, Account!Reject,
  Account!SetVerdictContract, Account!RotateAgentKey, Account!KillSwitch,
  Account!LapseHold, Account!LapseExtend, Account!LapseFreeze, Account!ReportAttempt,
  Account!MayPropose, Account!Violation, Account!Elevated, Account!ResetDaily,
  Account!NewHold, Account!SetStatus, Account!Unlock, Account!UnlockIfPending,
  Account!keyVars, Account!holdVars, Account!dayVars,
  Account!HoldId, Account!EffectiveLimit, Account!RecipientCap, Account!SpentToday,
  Account!CountToday, Account!IsFlagged, Account!HasAnyStrike, Account!CurfewActive,
  Account!MinuteOfDay, Account!NO_CURFEW, Account!Today,
  GP!BookkeepingBy, GP!ProposeElevated, GP!FreezeHold, GP!Reject,
  GP!SetVerdictContract, GP!RotateAgentKey, GP!KillSwitch,
  GP!LapseHold, GP!LapseExtend, GP!LapseFreeze, GP!ReportAttempt,
  GP!MayPropose, GP!Violation, GP!Elevated, GP!ResetDaily,
  GP!NewHold, GP!SetStatus, GP!Unlock, GP!UnlockIfPending,
  GP!keyVars, GP!holdVars, GP!dayVars,
  GP!HoldId, GP!EffectiveLimit, GP!RecipientCap, GP!SpentToday,
  GP!CountToday, GP!IsFlagged, GP!HasAnyStrike, GP!CurfewActive,
  GP!MinuteOfDay, GP!NO_CURFEW, GP!Today
<1>1. Account!Bookkeeping => \E caller : GP!BookkeepingBy(caller)
  BY Zenon
<1>2. \A i \in Account!HoldId : Account!FreezeHold(Verdicts, i) => GP!BookkeepingBy(Verdicts)
  BY Zenon
<1>3. QED
  BY <1>1, <1>2

LEMMA PoolCallsAgree ==
  /\ MutualPool!Trade => PP!Trade
  /\ MutualPool!Premium => PP!Premium
  /\ MutualPool!Wiring => PP!Wiring
  /\ MutualPool!OtherTransfer => PP!OtherTransfer
  /\ \A claimant, n : MutualPool!Payout(Verdicts, claimant, n)
                        => PP!Payout(Verdicts, claimant, n)
<1> USE DEF MutualPool!Covers, MutualPool!Moved, MutualPool!trancheVars,
            PP!Covers, PP!Moved, PP!trancheVars
<1>1. MutualPool!Trade => PP!Trade
  BY Zenon
  DEF MutualPool!Trade, MutualPool!Deposit, MutualPool!Redeem, MutualPool!Tranche,
      MutualPool!ToShare, MutualPool!ToAsset,
      PP!Trade, PP!Deposit, PP!Redeem, PP!Tranche, PP!ToShare, PP!ToAsset
<1>2. MutualPool!Premium => PP!Premium
  BY Zenon DEF MutualPool!Premium, MutualPool!RecordPremium, PP!Premium, PP!RecordPremium
<1>3. MutualPool!Wiring => PP!Wiring
  BY Zenon
  DEF MutualPool!Wiring, MutualPool!SetPoolVerdictContract, MutualPool!SetReinsurance,
      PP!Wiring, PP!SetPoolVerdictContract, PP!SetReinsurance
<1>4. MutualPool!OtherTransfer => PP!OtherTransfer
  BY Zenon DEF MutualPool!OtherTransfer, PP!OtherTransfer
<1>5. \A claimant, n : MutualPool!Payout(Verdicts, claimant, n)
                        => PP!Payout(Verdicts, claimant, n)
  BY Zenon
  DEF MutualPool!Payout, MutualPool!FromJunior, MutualPool!FromSenior, MutualPool!Min,
      PP!Payout, PP!FromJunior, PP!FromSenior, PP!Min
<1>6. QED
  BY <1>1, <1>2, <1>3, <1>4, <1>5

-----------------------------------------------------------------------------
(***************************************************************************)
(* What a call to one contract leaves of the others' invariants.           *)
(***************************************************************************)
LEMMA AccountIdle ==
  ASSUME GP!IInv, Registry!RegistryTypeOK', BLOCKLIST!BlocklistTypeOK', now' \in Nat,
         usdc' \in [Address -> Nat], UNCHANGED accountVars
  PROVE  GP!IInv'
<1>1. Registry!GetPolicy(Guard)' \in Policies \cup {NoPolicy}
  BY DEF Registry!RegistryTypeOK, Registry!GetPolicy
<1>2. strikes' \in [Address -> Nat]
  BY WiringAssumption DEF BLOCKLIST!BlocklistTypeOK
<1>3. GP!TypeOK'
  BY <1>1, <1>2, SameAddresses DEF GP!IInv, GP!TypeOK, accountVars
<1>4. QED
  BY <1>3, GP!IdleKeepsIInv, GuardAssumptions DEF accountVars, GP!holdVars

LEMMA PoolIdle ==
  ASSUME PP!PoolInv, usdc' \in [Address -> Nat], usdc'[Pool] >= usdc[Pool],
         UNCHANGED ownPoolVars
  PROVE  PP!PoolInv'
BY PP!OtherUsdcKeepsPoolInv, PoolAssumptions, SameAddresses
DEF ownPoolVars, PP!trancheVars

LEMMA InvUsdc ==
  ProtocolInv => usdc \in [Address -> Nat] /\ usdc[Pool] \in Nat
BY SameAddresses, PoolAssumptions
DEF ProtocolInv, PP!PoolInv, PP!TypeOK, PP!PoolAssumption

\* Calls to other contracts leave the verdicts and the clock alone.
LEMMA LedgerIdle ==
  ASSUME LedgerInv, Registry!RegistryTypeOK', BLOCKLIST!BlocklistTypeOK',
         UNCHANGED <<verdictVars, now>>
  PROVE  LedgerInv'
BY DEF LedgerInv, verdictVars, VerdictTypeOK, Accepted, BreachesAreConsumed,
       OneClaimPerBreach, AcceptedAs, Consumes
-----------------------------------------------------------------------------
(***************************************************************************)
(* One lemma for each kind of transaction.                                 *)
(***************************************************************************)
\* A call of the account, by an account or by the verdict contract.
LEMMA AccountStep ==
  ASSUME ProtocolInv, NEW caller,
         GP!SpendingBy(caller) \/ GP!BookkeepingBy(caller),
         UNCHANGED <<verdictVars, ownPoolVars, registryVars, blocklistVars, now>>
  PROVE  ProtocolInv'
<1>1. UNCHANGED GP!envVars
  BY DEF GP!envVars, registryVars, blocklistVars, Registry!GetPolicy
<1>2. GP!IInv /\ GP!TypeOK
  BY DEF ProtocolInv, GP!IInv
<1>3. GP!TypeOK'
  BY <1>1, <1>2, GP!SpendingTypeOK, GP!BookkeepingTypeOK, GuardAssumptions
<1>4. GP!IInv'
  BY <1>2, <1>3, GP!CallKeepsIInv, GuardAssumptions
<1>5. usdc' \in [Address -> Nat] /\ usdc'[Pool] >= usdc[Pool]
  <2>1. \A a \in Address \ {Guard} : usdc'[a] >= usdc[a]
    BY <1>2, GP!OthersNeverPay, GuardAssumptions
  <2>2. Pool \in Address \ {Guard}
    BY WiringAssumption, PoolAssumptions DEF PP!PoolAssumption
  <2>3. QED
    BY <1>3, <2>1, <2>2, SameAddresses DEF GP!TypeOK
<1>6. PP!PoolInv'
  BY <1>5, PoolIdle DEF ProtocolInv
<1>7. LedgerInv'
  BY LedgerIdle
  DEF ProtocolInv, LedgerInv, registryVars, blocklistVars, Registry!RegistryTypeOK,
      BLOCKLIST!BlocklistTypeOK
<1>8. QED
  BY <1>4, <1>6, <1>7 DEF ProtocolInv

LEMMA WithdrawalStep ==
  ASSUME ProtocolInv, GP!Withdrawal,
         UNCHANGED <<verdictVars, ownPoolVars, registryVars, blocklistVars, now>>
  PROVE  ProtocolInv'
<1>1. UNCHANGED GP!envVars
  BY DEF GP!envVars, registryVars, blocklistVars, Registry!GetPolicy
<1>2. GP!IInv /\ GP!TypeOK
  BY DEF ProtocolInv, GP!IInv
<1>3. GP!TypeOK'
  BY <1>1, <1>2, GP!WithdrawalTypeOK, GuardAssumptions
<1>4. GP!IInv'
  BY <1>2, <1>3, GP!IdleKeepsIInv, GuardAssumptions
  DEF GP!Withdrawal, GP!Withdraw, GP!guardVars
<1>5. usdc' \in [Address -> Nat] /\ usdc'[Pool] >= usdc[Pool]
  <2>1. \A a \in Address \ {Guard} : usdc'[a] >= usdc[a]
    BY <1>2, GP!OthersNeverPay, GuardAssumptions
  <2>2. Pool \in Address \ {Guard}
    BY WiringAssumption, PoolAssumptions DEF PP!PoolAssumption
  <2>3. QED
    BY <1>3, <2>1, <2>2, SameAddresses DEF GP!TypeOK
<1>6. PP!PoolInv'
  BY <1>5, PoolIdle DEF ProtocolInv
<1>7. LedgerInv'
  BY LedgerIdle
  DEF ProtocolInv, LedgerInv, registryVars, blocklistVars, Registry!RegistryTypeOK,
      BLOCKLIST!BlocklistTypeOK
<1>8. QED
  BY <1>4, <1>6, <1>7 DEF ProtocolInv

LEMMA AccountCallStep == ProtocolInv /\ AccountCall => ProtocolInv'
BY SpendingAgrees, BookkeepingAgrees, AccountStep, WithdrawalStep DEF AccountCall

LEMMA PoolCallStep == ProtocolInv /\ PoolCall => ProtocolInv'
<1> SUFFICES ASSUME ProtocolInv, PoolCall PROVE ProtocolInv'
  OBVIOUS
<1>1. PP!PoolInv'
  BY PoolCallsAgree, PoolAssumptions, PP!TradeKeepsPoolInv, PP!PremiumKeepsPoolInv,
     PP!WiringKeepsPoolInv, PP!OtherTransferKeepsPoolInv DEF ProtocolInv, PoolCall
<1>2. usdc' \in [Address -> Nat]
  BY <1>1, SameAddresses DEF PP!PoolInv, PP!TypeOK
<1>3. /\ UNCHANGED <<verdictVars, accountVars, registryVars, blocklistVars, now>>
      /\ Registry!RegistryTypeOK' /\ BLOCKLIST!BlocklistTypeOK' /\ now' \in Nat
  BY DEF PoolCall, ProtocolInv, LedgerInv, registryVars, blocklistVars,
         Registry!RegistryTypeOK, BLOCKLIST!BlocklistTypeOK
<1>4. GP!IInv' /\ LedgerInv'
  BY <1>2, <1>3, AccountIdle, LedgerIdle DEF ProtocolInv
<1>5. QED
  BY <1>1, <1>4 DEF ProtocolInv

LEMMA RegistryCallTyped ==
  ASSUME Registry!RegistryTypeOK, Registry!RegistryCall(Callers)
  PROVE  Registry!RegistryTypeOK'
<1>1. PICK caller \in Callers, agent \in {Guard} :
        \/ \E p \in Policies : Registry!Attach(caller, agent, p)
        \/ Registry!Revoke(caller, agent)
  BY DEF Registry!RegistryCall
<1>2. ASSUME NEW p \in Policies, Registry!Attach(caller, agent, p)
      PROVE  Registry!RegistryTypeOK'
  <2>1. p.version \in 0 .. MaxVersion
    BY <1>2, WiringAssumption DEF Registry!Attach, Registry!RegistryTypeOK
  <2>2. Registry!HashPolicy(p) \in [commits : Policies \cup {NoPolicy}]
    BY DEF Registry!HashPolicy
  <2>3. QED
    BY <1>2, <2>1, <2>2 DEF Registry!Attach, Registry!RegistryTypeOK
<1>3. CASE Registry!Revoke(caller, agent)
  BY <1>3, WiringAssumption DEF Registry!Revoke, Registry!RegistryTypeOK
<1>4. QED
  BY <1>1, <1>2, <1>3

LEMMA BlocklistCallTyped ==
  ASSUME BLOCKLIST!BlocklistTypeOK, BLOCKLIST!BlocklistCall(Callers)
  PROVE  BLOCKLIST!BlocklistTypeOK'
BY WiringAssumption
DEF BLOCKLIST!BlocklistCall, BLOCKLIST!Report, BLOCKLIST!Clear, BLOCKLIST!SetReporter,
    BLOCKLIST!SetAdmin, BLOCKLIST!BlocklistTypeOK

LEMMA RegistryCallStep == ProtocolInv /\ RegistryCall => ProtocolInv'
<1> SUFFICES ASSUME ProtocolInv, RegistryCall PROVE ProtocolInv'
  OBVIOUS
<1>1. /\ UNCHANGED <<verdictVars, accountVars, ownPoolVars, usdc, now>>
      /\ Registry!RegistryTypeOK' /\ BLOCKLIST!BlocklistTypeOK' /\ now' \in Nat
  BY RegistryCallTyped
  DEF RegistryCall, ProtocolInv, LedgerInv, blocklistVars, BLOCKLIST!BlocklistTypeOK
<1>2. GP!IInv' /\ PP!PoolInv' /\ LedgerInv'
  BY <1>1, InvUsdc, AccountIdle, PoolIdle, LedgerIdle DEF ProtocolInv
<1>3. QED
  BY <1>2 DEF ProtocolInv

LEMMA BlocklistCallStep == ProtocolInv /\ BlocklistCall => ProtocolInv'
<1> SUFFICES ASSUME ProtocolInv, BlocklistCall PROVE ProtocolInv'
  OBVIOUS
<1>1. /\ UNCHANGED <<verdictVars, accountVars, ownPoolVars, usdc, now>>
      /\ Registry!RegistryTypeOK' /\ BLOCKLIST!BlocklistTypeOK' /\ now' \in Nat
  BY BlocklistCallTyped
  DEF BlocklistCall, ProtocolInv, LedgerInv, registryVars, Registry!RegistryTypeOK
<1>2. GP!IInv' /\ PP!PoolInv' /\ LedgerInv'
  BY <1>1, InvUsdc, AccountIdle, PoolIdle, LedgerIdle DEF ProtocolInv
<1>3. QED
  BY <1>2 DEF ProtocolInv
LEMMA TickStep == ProtocolInv /\ Tick => ProtocolInv'
<1> SUFFICES ASSUME ProtocolInv, Tick PROVE ProtocolInv'
  OBVIOUS
<1>1. /\ UNCHANGED <<accountVars, ownPoolVars, usdc>>
      /\ Registry!RegistryTypeOK' /\ BLOCKLIST!BlocklistTypeOK'
      /\ now \in Nat \ {0} /\ now' = now + 1
      /\ UNCHANGED <<watcher, pool, verdicts, claimNullifiers, disputes>>
  BY DEF Tick, ProtocolInv, LedgerInv, registryVars, blocklistVars, verdictVars,
         Registry!RegistryTypeOK, BLOCKLIST!BlocklistTypeOK
<1>2. GP!IInv' /\ PP!PoolInv'
  BY <1>1, InvUsdc, AccountIdle, PoolIdle DEF ProtocolInv
<1>3. VerdictTypeOK'
  <2>1. VerdictTypeOK
    BY DEF ProtocolInv, LedgerInv
  <2>2. \A v \in Accepted : verdicts[v] \in 1 .. now + 1
    BY <1>1, <2>1 DEF VerdictTypeOK
  <2>3. ASSUME NEW d \in DOMAIN disputes
        PROVE  disputes[d] \in [state : DisputeState, opener : Address,
                                openedAt : verdicts[d] .. now + 1]
    <3>1. verdicts[d] \in Int
      BY <2>1 DEF VerdictTypeOK
    <3>2. verdicts[d] .. now \subseteq verdicts[d] .. now + 1
      BY <1>1, <3>1
    <3>3. QED
      BY <2>1, <3>2 DEF VerdictTypeOK
  <2>4. QED
    BY <1>1, <2>1, <2>2, <2>3 DEF VerdictTypeOK, Accepted
<1>4. BreachesAreConsumed' /\ OneClaimPerBreach'
  BY <1>1 DEF ProtocolInv, LedgerInv, BreachesAreConsumed, OneClaimPerBreach, AcceptedAs,
              Accepted, Consumes
<1>5. QED
  BY <1>1, <1>2, <1>3, <1>4 DEF ProtocolInv, LedgerInv

-----------------------------------------------------------------------------
(***************************************************************************)
(* Verdicts.                                                               *)
(***************************************************************************)
LEMMA SignedFields ==
  ASSUME NEW x \in PossibleVerdicts, NEW v, v = Signed(x)
  PROVE  /\ v.outcome \in Outcome /\ v.alibi \in Alibi
         /\ v.claimant \in Address \ {ZeroAddress, Pool}
         /\ v.payoutAmount \in Nat
<1>1. x.claim \in VerdictInputs
  BY DEF PossibleVerdicts
<1>2. x.claim.claimant \in Claimants /\ Claimants \subseteq Address \ {ZeroAddress, Pool}
  BY <1>1, VerdictAssumption, PoolAssumptions DEF PP!PoolAssumption
<1>3. QED
  BY <1>1, <1>2, VerdictAssumption DEF Signed

\* What a submission adds to the accepted verdicts.
LEMMA SubmissionAccepts ==
  ASSUME NEW caller, NEW signer, NEW v, SubmitVerdict(caller, signer, v)
  PROVE  /\ v \notin Accepted /\ Accepted' = Accepted \cup {v}
         /\ verdicts'[v] = now
         /\ \A w \in Accepted : verdicts'[w] = verdicts[w]
         /\ claimNullifiers' = IF Consumes(v) THEN claimNullifiers \cup {v.txHash}
                               ELSE claimNullifiers
         /\ v.outcome = "COVERED" => v.txHash \notin claimNullifiers
BY DEF SubmitVerdict, With, Accepted, Route, Admissible, ConsistentOutcome

LEMMA SubmissionKeepsVerdicts ==
  ASSUME LedgerInv, NEW caller, NEW signer, NEW v, SubmitVerdict(caller, signer, v),
         v.outcome \in Outcome, v.alibi \in Alibi
  PROVE  VerdictTypeOK' /\ BreachesAreConsumed' /\ OneClaimPerBreach'
<1>1. /\ v \notin Accepted /\ Accepted' = Accepted \cup {v}
      /\ verdicts'[v] = now
      /\ \A w \in Accepted : verdicts'[w] = verdicts[w]
      /\ claimNullifiers' = IF Consumes(v) THEN claimNullifiers \cup {v.txHash}
                            ELSE claimNullifiers
      /\ v.outcome = "COVERED" => v.txHash \notin claimNullifiers
  BY SubmissionAccepts
<1>2. /\ watcher' = watcher /\ pool' = pool /\ disputes' = disputes /\ now' = now
      /\ now \in Nat \ {0}
  BY DEF SubmitVerdict, LedgerInv
<1>3. VerdictTypeOK'
  <2>1. VerdictTypeOK
    BY DEF LedgerInv
  <2>2. \A w \in Accepted' : /\ verdicts'[w] \in 1 .. now
                             /\ w.outcome \in Outcome /\ w.alibi \in Alibi
    BY <1>1, <1>2, <2>1 DEF VerdictTypeOK
  <2>3. DOMAIN disputes \subseteq Accepted'
    BY <1>1, <2>1 DEF VerdictTypeOK
  <2>4. \A d \in DOMAIN disputes :
          disputes[d] \in [state : DisputeState, opener : Address,
                           openedAt : verdicts'[d] .. now]
    BY <1>1, <2>1 DEF VerdictTypeOK
  <2>5. claimNullifiers' \subseteq {w.txHash : w \in Accepted'}
    BY <1>1, <2>1 DEF VerdictTypeOK
  <2>6. QED
    BY <1>2, <2>1, <2>2, <2>3, <2>4, <2>5 DEF VerdictTypeOK
<1>4. BreachesAreConsumed'
  BY <1>1 DEF LedgerInv, BreachesAreConsumed, Consumes
<1>5. OneClaimPerBreach'
  <2>1. ASSUME NEW w \in Accepted, w.outcome = "COVERED", v.outcome = "COVERED"
        PROVE  w.txHash # v.txHash
    BY <1>1, <2>1 DEF LedgerInv, BreachesAreConsumed, Consumes
  <2>2. ASSUME NEW w \in Accepted, w.outcome = "COVERED",
               NEW u \in Accepted, u.outcome = "COVERED", w.txHash = u.txHash
        PROVE  w = u
    BY <2>2 DEF LedgerInv, OneClaimPerBreach, AcceptedAs
  <2>3. QED
    BY <1>1, <2>1, <2>2 DEF OneClaimPerBreach, AcceptedAs
<1>6. QED
  BY <1>3, <1>4, <1>5
\* A submission that pays does so by the pool's payout, to the named claimant.
LEMMA SubmissionPays ==
  ASSUME NEW caller, NEW signer, NEW v, SubmitVerdict(caller, signer, v)
  PROVE  IF v.outcome = "COVERED" THEN PP!Payout(Verdicts, v.claimant, v.payoutAmount)
         ELSE UNCHANGED <<ownPoolVars, usdc>>
BY PoolCallsAgree DEF SubmitVerdict, Route

LEMMA SubmissionStep ==
  ASSUME ProtocolInv, NEW caller, NEW signer, NEW x \in PossibleVerdicts,
         SubmitVerdict(caller, signer, Signed(x))
  PROVE  ProtocolInv'
<1> DEFINE v == Signed(x)
<1>1. /\ v.outcome \in Outcome /\ v.alibi \in Alibi
      /\ v.claimant \in Address \ {Pool} /\ v.payoutAmount \in Nat
  BY SignedFields
<1>2. SubmitVerdict(caller, signer, v)
  OBVIOUS
<1> HIDE DEF v
<1>3. PP!PoolInv'
  <2>1. CASE v.outcome = "COVERED"
    <3>1. PP!Payout(Verdicts, v.claimant, v.payoutAmount)
      BY <1>2, <2>1, SubmissionPays
    <3>2. QED
      BY <1>1, <3>1, PP!PayoutKeepsPoolInv, PoolAssumptions DEF ProtocolInv
  <2>2. CASE v.outcome # "COVERED"
    BY <1>2, <2>2, SubmissionPays, InvUsdc, PoolIdle DEF ProtocolInv
  <2>3. QED
    BY <2>1, <2>2
<1>4. /\ UNCHANGED <<accountVars, registryVars, now>>
      /\ Registry!RegistryTypeOK' /\ now' \in Nat /\ now' = now
  BY <1>2 DEF SubmitVerdict, ProtocolInv, LedgerInv, registryVars, Registry!RegistryTypeOK
<1>5. BLOCKLIST!BlocklistTypeOK'
  BY <1>2, WiringAssumption
  DEF SubmitVerdict, Route, BLOCKLIST!Report, blocklistVars, BLOCKLIST!BlocklistTypeOK,
      ProtocolInv, LedgerInv
<1>6. GP!IInv'
  <2>1. usdc' \in [Address -> Nat]
    BY <1>3, SameAddresses DEF PP!PoolInv, PP!TypeOK
  <2>2. QED
    BY <1>4, <1>5, <2>1, AccountIdle DEF ProtocolInv
<1>7. VerdictTypeOK' /\ BreachesAreConsumed' /\ OneClaimPerBreach'
  BY <1>1, <1>2, SubmissionKeepsVerdicts DEF ProtocolInv
<1>8. QED
  BY <1>3, <1>4, <1>5, <1>6, <1>7 DEF ProtocolInv, LedgerInv

LEMMA HoldVerdictIsACall ==
  ASSUME NEW caller, NEW signer, NEW i \in Account!HoldId, NEW tier,
         SubmitHoldVerdict(caller, signer, i, tier)
  PROVE  /\ GP!SpendingBy(Verdicts) \/ GP!BookkeepingBy(Verdicts)
         /\ UNCHANGED <<verdictVars, ownPoolVars, registryVars, blocklistVars, now>>
BY SpendingAgrees, BookkeepingAgrees DEF SubmitHoldVerdict

\* Disputes and wiring touch the verdict contract alone.
LEMMA QuietVerdictStep ==
  ASSUME ProtocolInv, UNCHANGED <<verdicts, claimNullifiers, accountVars, ownPoolVars,
                                  registryVars, blocklistVars, usdc, now>>,
         VerdictTypeOK'
  PROVE  ProtocolInv'
<1>1. Registry!RegistryTypeOK' /\ BLOCKLIST!BlocklistTypeOK' /\ now' \in Nat \ {0}
  BY DEF ProtocolInv, LedgerInv, registryVars, blocklistVars, Registry!RegistryTypeOK,
         BLOCKLIST!BlocklistTypeOK
<1>2. GP!IInv' /\ PP!PoolInv'
  BY <1>1, InvUsdc, AccountIdle, PoolIdle DEF ProtocolInv
<1>3. BreachesAreConsumed' /\ OneClaimPerBreach'
  BY DEF ProtocolInv, LedgerInv, BreachesAreConsumed, OneClaimPerBreach, AcceptedAs,
         Accepted, Consumes
<1>4. QED
  BY <1>1, <1>2, <1>3 DEF ProtocolInv, LedgerInv

LEMMA DisputeTyped ==
  ASSUME VerdictTypeOK, now \in Nat, NEW caller \in Disputants, NEW d \in Accepted,
         Dispute(caller, d)
  PROVE  VerdictTypeOK'
<1>1. [state |-> "UNDER_REVIEW", opener |-> caller, openedAt |-> now]
        \in [state : DisputeState, opener : Address, openedAt : verdicts[d] .. now]
  BY WiringAssumption DEF VerdictTypeOK, DisputeState
<1>2. /\ DOMAIN disputes' = DOMAIN disputes \cup {d}
      /\ disputes'[d] = [state |-> "UNDER_REVIEW", opener |-> caller, openedAt |-> now]
      /\ \A e \in DOMAIN disputes : disputes'[e] = disputes[e]
  BY DEF Dispute, With
<1>3. QED
  BY <1>1, <1>2 DEF Dispute, VerdictTypeOK, Accepted

LEMMA RerunTyped ==
  ASSUME VerdictTypeOK, NEW d \in Accepted, RequestRerun(d)
  PROVE  VerdictTypeOK'
<1>1. d \in DOMAIN disputes
  BY DEF RequestRerun
<1>2. disputes[d] \in [state : DisputeState, opener : Address,
                       openedAt : verdicts[d] .. now]
  BY <1>1 DEF VerdictTypeOK
<1>3. /\ DOMAIN disputes' = DOMAIN disputes
      /\ disputes'[d] = [disputes[d] EXCEPT !.state = "RERUN_PENDING"]
      /\ \A e \in DOMAIN disputes : e # d => disputes'[e] = disputes[e]
  BY <1>1 DEF RequestRerun
<1>4. disputes'[d] \in [state : DisputeState, opener : Address,
                        openedAt : verdicts[d] .. now]
  BY <1>2, <1>3 DEF DisputeState
<1>5. QED
  BY <1>1, <1>3, <1>4 DEF RequestRerun, VerdictTypeOK, Accepted

LEMMA VerdictCallStep == ProtocolInv /\ VerdictCall => ProtocolInv'
<1> SUFFICES ASSUME ProtocolInv, VerdictCall PROVE ProtocolInv'
  OBVIOUS
<1>1. VerdictTypeOK /\ now \in Nat
  BY DEF ProtocolInv, LedgerInv
<1>2. ASSUME NEW caller, NEW signer, NEW x \in PossibleVerdicts,
             SubmitVerdict(caller, signer, Signed(x))
      PROVE  ProtocolInv'
  BY <1>2, SubmissionStep
<1>3. ASSUME NEW caller, NEW signer, NEW i \in Account!HoldId, NEW tier,
             SubmitHoldVerdict(caller, signer, i, tier)
      PROVE  ProtocolInv'
  BY <1>3, HoldVerdictIsACall, AccountStep
<1>4. ASSUME NEW caller \in Disputants, NEW d \in Accepted, Dispute(caller, d)
      PROVE  ProtocolInv'
  BY <1>1, <1>4, DisputeTyped, QuietVerdictStep DEF Dispute
<1>5. ASSUME NEW d \in Accepted, RequestRerun(d)
      PROVE  ProtocolInv'
  BY <1>1, <1>5, RerunTyped, QuietVerdictStep DEF RequestRerun
<1>6. ASSUME NEW caller, NEW key \in WatcherKeys, SetWatcher(caller, key)
      PROVE  ProtocolInv'
  <2>1. VerdictTypeOK'
    BY <1>1, <1>6, WiringAssumption DEF SetWatcher, VerdictTypeOK, Accepted
  <2>2. QED
    BY <1>6, <2>1, QuietVerdictStep DEF SetWatcher
<1>7. ASSUME NEW caller, SetPool(caller)
      PROVE  ProtocolInv'
  <2>1. VerdictTypeOK'
    BY <1>1, <1>7 DEF SetPool, VerdictTypeOK, Accepted
  <2>2. QED
    BY <1>7, <2>1, QuietVerdictStep DEF SetPool
<1>8. QED
  BY <1>2, <1>3, <1>4, <1>5, <1>6, <1>7 DEF VerdictCall

-----------------------------------------------------------------------------
LEMMA StutterStep == ProtocolInv /\ UNCHANGED allVars => ProtocolInv'
<1> SUFFICES ASSUME ProtocolInv, UNCHANGED allVars PROVE ProtocolInv'
  OBVIOUS
<1>1. VerdictTypeOK'
  BY DEF ProtocolInv, LedgerInv, VerdictTypeOK, Accepted, allVars, verdictVars
<1>2. QED
  BY <1>1, QuietVerdictStep DEF allVars, verdictVars

LEMMA NextInv == ProtocolInv /\ [Next]_allVars => ProtocolInv'
BY AccountCallStep, PoolCallStep, RegistryCallStep, BlocklistCallStep, VerdictCallStep,
   TickStep, StutterStep DEF Next

LEMMA ProtocolInvHolds == Spec => []ProtocolInv
BY DeployedInv, NextInv, PTL DEF Spec

\* Every reachable state of the whole protocol is well typed: no balance, book,
\* lock or counter of any contract goes below zero, whoever calls in any order.
THEOREM ProtocolTypeCorrect == Spec => []TypeOK
<1>1. ProtocolInv => TypeOK
  <2>1. GP!TypeOK => Account!TypeOK
    BY DEF GP!TypeOK, Account!TypeOK, GP!HoldId, Account!HoldId, GP!Hold, Account!Hold,
           GP!HoldStatus, Account!HoldStatus, GP!Balances, Account!Balances
  <2>2. PP!TypeOK => MutualPool!TypeOK
    BY DEF PP!TypeOK, MutualPool!TypeOK, PP!Tranche, MutualPool!Tranche, PP!Balances,
           MutualPool!Balances
  <2>3. QED
    BY <2>1, <2>2 DEF ProtocolInv, LedgerInv, GP!IInv, PP!PoolInv, TypeOK
<1>2. QED
  BY <1>1, ProtocolInvHolds, PTL
\* No breached transaction has two covered verdicts, for any watchers, keys,
\* timestamps and policy versions they are signed under.
THEOREM BreachesAreClaimedOnce == Spec => []OneClaimPerBreach
<1>1. ProtocolInv => OneClaimPerBreach
  BY DEF ProtocolInv, LedgerInv
<1>2. QED
  BY <1>1, ProtocolInvHolds, PTL

\* The account's running total is the sum of its pending holds when verdicts
\* arrive through the verdict contract.
THEOREM AccountTotalIsExact == Spec => []AccountLockedIsPendingSum
<1>1. ProtocolInv => AccountLockedIsPendingSum
  BY DEF ProtocolInv, GP!IInv, GP!LockedIsPendingSum, GP!LockedBy, GP!SumTo, GP!HoldId,
         AccountLockedIsPendingSum, Account!LockedIsPendingSum, Account!LockedBy,
         Account!SumTo, Account!HoldId
<1>2. QED
  BY <1>1, ProtocolInvHolds, PTL

-----------------------------------------------------------------------------
(***************************************************************************)
(* Action properties.                                                      *)
(***************************************************************************)
\* Only a submission accepts a verdict.
LEMMA NewVerdictsAreSubmitted ==
  ASSUME [Next]_allVars, Accepted' # Accepted
  PROVE  \E caller \in Callers, signer \in WatcherKeys, x \in PossibleVerdicts :
           SubmitVerdict(caller, signer, Signed(x))
<1>1. verdicts' # verdicts
  BY DEF Accepted
<1>2. QED
  BY <1>1
  DEF Next, AccountCall, PoolCall, RegistryCall, BlocklistCall, Tick, VerdictCall,
      SubmitHoldVerdict, Dispute, RequestRerun, SetWatcher, SetPool, verdictVars, allVars

\* Once a breach is denied no covered verdict for it is ever accepted.
THEOREM DenialsAreFinal == Spec => DenialIsFinal
<1>1. ASSUME ProtocolInv, [Next]_allVars,
             NEW v \in AcceptedAs("DENIED_OWNER_ORIGIN"),
             NEW w \in AcceptedAs("COVERED")' \ Accepted
      PROVE  w.txHash # v.txHash
  <2>1. w \in Accepted' /\ w \notin Accepted /\ w.outcome = "COVERED"
    BY <1>1 DEF AcceptedAs
  <2>2. PICK caller \in Callers, signer \in WatcherKeys,
            x \in PossibleVerdicts : SubmitVerdict(caller, signer, Signed(x))
    BY <1>1, <2>1, NewVerdictsAreSubmitted
  <2>3. w = Signed(x) /\ w.txHash \notin claimNullifiers
    BY <2>1, <2>2, SubmissionAccepts
  <2>4. v.txHash \in claimNullifiers
    BY <1>1 DEF ProtocolInv, LedgerInv, BreachesAreConsumed, Consumes, AcceptedAs
  <2>5. QED
    BY <2>3, <2>4
<1>2. ProtocolInv /\ [Next]_allVars =>
        [\A v \in AcceptedAs("DENIED_OWNER_ORIGIN") :
           \A w \in AcceptedAs("COVERED")' \ Accepted : w.txHash # v.txHash]_allVars
  BY <1>1
<1>3. QED
  BY <1>2, ProtocolInvHolds, PTL DEF Spec, DenialIsFinal

\* A payout takes its amount off the two tranches and gives it to the claimant.
LEMMA PayoutMovesCapital ==
  ASSUME PP!PoolInv, NEW claimant \in Address \ {Pool}, NEW n \in Nat,
         PP!Payout(Verdicts, claimant, n)
  PROVE  /\ n > 0 /\ Capital' = Capital - n
         /\ usdc'[claimant] = usdc[claimant] + n
<1>1. /\ usdc \in PP!Balances
      /\ totalAssets \in [PP!Tranche -> Nat]
      /\ totalAssets["senior"] \in Nat /\ totalAssets["junior"] \in Nat
  BY DEF PP!PoolInv, PP!TypeOK, PP!Tranche
<1>2. /\ PP!FromJunior(n) \in Nat /\ PP!FromSenior(n) \in Nat
      /\ PP!FromJunior(n) + PP!FromSenior(n) = n
  BY PP!WaterfallSplits, PoolAssumptions DEF PP!PoolInv
<1>3. /\ totalAssets'["junior"] = totalAssets["junior"] - PP!FromJunior(n)
      /\ totalAssets'["senior"] = totalAssets["senior"] - PP!FromSenior(n)
  BY <1>1 DEF PP!Payout, PP!Tranche
<1>4. usdc'[claimant] = usdc[claimant] + n
  BY <1>1, PoolAssumptions
  DEF PP!Payout, PP!Moved, PP!Balances, PP!PoolAssumption
<1>5. QED
  BY <1>1, <1>2, <1>3, <1>4 DEF PP!Payout, Capital

\* Capital only leaves with a new covered verdict, and every covered verdict is
\* paid: to its claimant, in its amount, in the step that accepts it.
THEOREM ClaimsArePaidAsRecorded == Spec => PaidAsRecorded
<1> DEFINE new == AcceptedAs("COVERED")' \ Accepted
<1>1. ASSUME ProtocolInv, [Next]_allVars, NEW v \in new
      PROVE  /\ v.payoutAmount > 0
             /\ Capital' = Capital - v.payoutAmount
             /\ usdc'[v.claimant] = usdc[v.claimant] + v.payoutAmount
  <2>1. v \in Accepted' /\ v \notin Accepted /\ v.outcome = "COVERED"
    BY <1>1 DEF AcceptedAs
  <2>2. PICK caller \in Callers, signer \in WatcherKeys,
            x \in PossibleVerdicts : SubmitVerdict(caller, signer, Signed(x))
    BY <1>1, <2>1, NewVerdictsAreSubmitted
  <2>3. v = Signed(x)
    BY <2>1, <2>2, SubmissionAccepts
  <2>4. PP!Payout(Verdicts, v.claimant, v.payoutAmount)
    BY <2>1, <2>2, <2>3, SubmissionPays
  <2>5. v.claimant \in Address \ {Pool} /\ v.payoutAmount \in Nat
    BY <2>3, SignedFields
  <2>6. QED
    BY <1>1, <2>4, <2>5, PayoutMovesCapital DEF ProtocolInv
<1>2. ASSUME ProtocolInv, [Next]_allVars, totalShares' = totalShares, Capital' # Capital
      PROVE  new # {}
  <2>1. totalAssets' # totalAssets
    BY <1>2 DEF Capital
  <2>2. ~PoolCall
    <3>1. ~PP!Trade
      BY <1>2, PP!TradeChangesShares, PoolAssumptions DEF ProtocolInv
    <3>2. QED
      BY <2>1, <3>1, PoolCallsAgree
      DEF PoolCall, PP!Premium, PP!RecordPremium, PP!Wiring, PP!SetPoolVerdictContract,
          PP!SetReinsurance, PP!OtherTransfer, PP!trancheVars
  <2>3. PICK caller \in Callers, signer \in WatcherKeys,
            x \in PossibleVerdicts : SubmitVerdict(caller, signer, Signed(x))
    BY <1>2, <2>1, <2>2
    DEF Next, AccountCall, RegistryCall, BlocklistCall, Tick, VerdictCall,
        SubmitHoldVerdict, Dispute, RequestRerun, SetWatcher, SetPool, ownPoolVars, allVars
  <2>4. Signed(x).outcome = "COVERED"
    BY <2>1, <2>3, SubmissionPays DEF ownPoolVars
  <2>5. Signed(x) \in new
    BY <2>3, <2>4, SubmissionAccepts DEF AcceptedAs
  <2>6. QED
    BY <2>5
<1>3. ProtocolInv /\ [Next]_allVars =>
        [/\ totalShares' = totalShares /\ Capital' # Capital => new # {}
         /\ \A v \in new : /\ v.payoutAmount > 0
                           /\ Capital' = Capital - v.payoutAmount
                           /\ usdc'[v.claimant] = usdc[v.claimant] + v.payoutAmount]_allVars
  BY <1>1, <1>2
<1>4. QED
  BY <1>3, ProtocolInvHolds, PTL DEF Spec, PaidAsRecorded
\* The account's own state changes only in its calls.
LEMMA AccountChangesInCalls ==
  ASSUME [Next]_allVars, accountVars' # accountVars
  PROVE  \E caller : GP!SpendingBy(caller) \/ GP!BookkeepingBy(caller)
<1>1. CASE AccountCall
  <2>1. ~GP!Withdrawal
    BY DEF GP!Withdrawal, GP!Withdraw, GP!guardVars, GP!keyVars, GP!dayVars, GP!holdVars,
           accountVars
  <2>2. QED
    BY <1>1, <2>1, SpendingAgrees, BookkeepingAgrees DEF AccountCall
<1>2. CASE VerdictCall
  BY <1>2, HoldVerdictIsACall
  DEF VerdictCall, SubmitVerdict, Dispute, RequestRerun, SetWatcher, SetPool
<1>3. CASE PoolCall \/ RegistryCall \/ BlocklistCall \/ Tick \/ UNCHANGED allVars
  BY <1>3 DEF PoolCall, RegistryCall, BlocklistCall, Tick, allVars
<1>4. QED
  BY <1>1, <1>2, <1>3 DEF Next

\* Without a live policy money leaves the account by the owner's withdrawal or
\* not at all, also to settle a hold created while there was one.
THEOREM RevocationStopsSpending == Spec => RevokedPolicyStopsSpending
<1>1. ASSUME [Next]_allVars, latestVersion[Guard] = 0, usdc'[Guard] < usdc[Guard],
             accountVars' # accountVars, ProtocolInv
      PROVE  FALSE
  <2>1. PICK caller : GP!SpendingBy(caller) \/ GP!BookkeepingBy(caller)
    BY <1>1, AccountChangesInCalls
  <2>2. Registry!GetPolicy(Guard) = NoPolicy
    BY <1>1 DEF Registry!GetPolicy
  <2>3. GP!BookkeepingBy(caller)
    BY <2>1, <2>2, GP!SpendingNeedsPolicy, GuardAssumptions
  <2>4. usdc' = usdc /\ usdc[Guard] \in Nat
    BY <1>1, <2>3, GP!BookkeepingMovesNothing, GuardAssumptions, InvUsdc
    DEF GP!AddressAssumption
  <2>5. QED
    BY <1>1, <2>4
<1>2. ProtocolInv /\ [Next]_allVars =>
        [latestVersion[Guard] = 0 /\ usdc'[Guard] < usdc[Guard]
           => accountVars' = accountVars]_allVars
  BY <1>1
<1>3. QED
  BY <1>2, ProtocolInvHolds, PTL DEF Spec, RevokedPolicyStopsSpending

\* A destination with a strike is paid from a hold or by the owner only, from the
\* transaction that files the strike on.
THEOREM StrikesCloseTheRoutineLane == Spec => StruckGetNoRoutinePayment
<1>1. ASSUME ProtocolInv, [Next]_allVars, NEW d \in Payees,
             strikes[d] > 0, usdc'[d] > usdc[d], accountVars' # accountVars
      PROVE  holds' # holds
  <2>1. PICK caller : GP!SpendingBy(caller) \/ GP!BookkeepingBy(caller)
    BY <1>1, AccountChangesInCalls
  <2>2. d \in Address /\ usdc[d] \in Nat /\ GP!TypeOK
    BY <1>1, GuardAssumptions, InvUsdc DEF GP!AddressAssumption, ProtocolInv, GP!IInv
  <2>3. CASE GP!BookkeepingBy(caller)
    BY <1>1, <2>2, <2>3, GP!BookkeepingMovesNothing, GuardAssumptions
  <2>4. CASE GP!SpendingBy(caller)
    BY <1>1, <2>2, <2>4, GP!RoutineAvoidsStruck, GuardAssumptions
  <2>5. QED
    BY <2>1, <2>3, <2>4
<1>2. ProtocolInv /\ [Next]_allVars =>
        [\A d \in Payees :
           strikes[d] > 0 /\ usdc'[d] > usdc[d] /\ accountVars' # accountVars
             => holds' # holds]_allVars
  BY <1>1
<1>3. QED
  BY <1>2, ProtocolInvHolds, PTL DEF Spec, StruckGetNoRoutinePayment

-----------------------------------------------------------------------------
(***************************************************************************)
(* The refinement: the account inside the protocol implements HoldCustody. *)
(***************************************************************************)
LEMMA StepIsCustody ==
  ASSUME ProtocolInv, ProtocolInv', [Next]_allVars
  PROVE  [GP!Custody!Next]_GP!Custody!custodyVars
<1>1. GP!TypeOK /\ GP!TypeOK' /\ GP!EmptySlotsHoldNothing
  BY DEF ProtocolInv, GP!IInv
<1>2. CASE accountVars' = accountVars
  BY <1>1, <1>2, GP!IdleIsCustody, GuardAssumptions DEF accountVars, GP!holdVars
<1>3. CASE accountVars' # accountVars
  BY <1>1, <1>3, AccountChangesInCalls, GP!SpendingIsCustody, GP!BookkeepingIsCustody,
     GuardAssumptions
<1>4. QED
  BY <1>2, <1>3
LEMMA DeployedIsCustody ==
  ASSUME Deployed
  PROVE  GP!Custody!Init
<1>1. \A i \in GP!HoldId : ~GP!Created(i)
  BY DEF Deployed, GP!Created, GP!HoldId
<1>2. /\ GP!CustodyStage = [i \in GP!HoldId |-> "unborn"]
      /\ GP!CustodyPromise = [i \in GP!HoldId |-> [to |-> ZeroAddress, amount |-> 0]]
  BY <1>1 DEF GP!CustodyStage, GP!CustodyPromise
<1>3. QED
  BY <1>2, DeployedUsdc DEF GP!Custody!Init, GP!Custody!NoPromise, GP!Custody!Balances

LEMMA SameCustody ==
  /\ GP!Custody!Init <=> Account!Custody!Init
  /\ [GP!Custody!Next]_GP!Custody!custodyVars
       <=> [Account!Custody!Next]_Account!Custody!custodyVars
<1> USE DEF GP!CustodyStage, GP!CustodyPromise, GP!StageOf, GP!Created, GP!HoldId,
            Account!CustodyStage, Account!CustodyPromise, Account!StageOf,
            Account!Created, Account!HoldId,
            GP!Custody!Balances, Account!Custody!Balances
<1>1. GP!Custody!Init <=> Account!Custody!Init
  BY Zenon DEF GP!Custody!Init, GP!Custody!NoPromise, Account!Custody!Init,
               Account!Custody!NoPromise
<1>2. [GP!Custody!Next]_GP!Custody!custodyVars
        <=> [Account!Custody!Next]_Account!Custody!custodyVars
  BY Zenon
  DEF GP!Custody!Next, GP!Custody!Lock, GP!Custody!Freeze, GP!Custody!Pay,
      GP!Custody!Return, GP!Custody!OtherTransfers, GP!Custody!Promise,
      GP!Custody!Covers, GP!Custody!Moved, GP!Custody!custodyVars,
      Account!Custody!Next, Account!Custody!Lock, Account!Custody!Freeze,
      Account!Custody!Pay, Account!Custody!Return, Account!Custody!OtherTransfers,
      Account!Custody!Promise, Account!Custody!Covers, Account!Custody!Moved,
      Account!Custody!custodyVars
<1>3. QED
  BY <1>1, <1>2

\* The account inside the protocol keeps every hold as HoldCustody promises: paid
\* at most once, in full, to its payee, with verdicts arriving through the verdict
\* contract and the other contracts moving USDC meanwhile.
THEOREM ProtocolKeepsCustody == Spec => AccountKeepsCustody
<1>1. Deployed => Account!Custody!Init
  BY DeployedIsCustody, SameCustody
<1>2. ProtocolInv /\ ProtocolInv' /\ [Next]_allVars
        => [Account!Custody!Next]_Account!Custody!custodyVars
  BY StepIsCustody, SameCustody
<1>3. QED
  BY <1>1, <1>2, ProtocolInvHolds, PTL
  DEF Spec, AccountKeepsCustody, Account!HoldsAreKeptInCustody, Account!Custody!Spec
=============================================================================
