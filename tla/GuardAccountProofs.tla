------------------------- MODULE GuardAccountProofs -------------------------
(***************************************************************************)
(* Theorems about GuardAccount for every policy, every set of accounts and *)
(* amounts, and every number of holds.                                     *)
(***************************************************************************)
EXTENDS GuardAccount, SumsProofs

(***************************************************************************)
(* A slot no hold was created in can be given a status by a stray call,    *)
(* but never an amount: this is what keeps creation from disturbing the    *)
(* running total, and so it belongs to the inductive invariant.            *)
(***************************************************************************)
EmptySlotsHoldNothing ==
  \A i \in HoldId : ~Created(i) => holds[i].amount = 0

IInv ==
  /\ TypeOK
  /\ EmptySlotsHoldNothing
  /\ LockedIsPendingSum
  /\ ExtensionIsWhole

-----------------------------------------------------------------------------
LEMMA MovedKeepsBalances ==
  ASSUME NEW bal \in Balances, NEW from \in Address, NEW to \in Address,
         NEW amount \in Nat, Covers(bal, from, amount)
  PROVE  Moved(bal, from, to, amount) \in Balances
BY DEF Balances, Covers, Moved

LEMMA TodayIsNatural ==
  ASSUME now \in Nat
  PROVE  Today \in Nat
BY NumberAssumption DEF Today

LEMMA DailyCountersTyped ==
  ASSUME TypeOK, NEW amount \in Nat, ResetDaily \/ SpendDaily(amount)
  PROVE  day' \in Nat /\ dailySpent' \in Nat /\ dailyCount' \in Nat
<1>1. Today \in Nat /\ SpentToday \in Nat /\ CountToday \in Nat
  BY TodayIsNatural DEF TypeOK, SpentToday, CountToday
<1>2. QED
  BY <1>1 DEF ResetDaily, SpendDaily

LEMMA HoldTyped ==
  ASSUME TypeOK, NEW i \in HoldId
  PROVE  /\ holds[i].to \in Address
         /\ holds[i].amount \in Amount \cup {0}
         /\ holds[i].amount \in Nat
         /\ holds[i].releaseAt \in Nat
         /\ holds[i].extendedTo \in Nat
         /\ holds[i].status \in HoldStatus
<1>1. holds[i] \in Hold
  BY DEF TypeOK
<1>2. /\ holds[i].to \in Address
      /\ holds[i].amount \in Amount \cup {0}
      /\ holds[i].releaseAt \in Nat
      /\ holds[i].extendedTo \in Nat
      /\ holds[i].status \in HoldStatus
  BY <1>1 DEF Hold
<1>3. holds[i].amount \in Nat
  <2>1. CASE holds[i].amount \in Amount
    BY <2>1, NumberAssumption
  <2>2. CASE holds[i].amount = 0
    BY <2>2
  <2>3. QED
    BY <1>2, <2>1, <2>2
<1>4. QED
  BY <1>2, <1>3

(***************************************************************************)
(* Type correctness, one action of Next at a time.                         *)
(***************************************************************************)
LEMMA InitTypeOK == Init => TypeOK
<1> SUFFICES ASSUME Init PROVE TypeOK
  OBVIOUS
<1>1. now \in Nat /\ day \in Nat
  BY NumberAssumption, TodayIsNatural DEF Init
<1>2. ZeroHold \in Hold
  BY AddressAssumption DEF ZeroHold, Hold, HoldStatus
<1>3. holds \in [HoldId -> Hold]
  BY <1>2 DEF Init
<1>4. nextHoldId \in 1 .. MaxHolds + 1
  BY NumberAssumption DEF Init
<1>5. agentKey \in Address \ {ZeroAddress} /\ verdictContract \in Address
  BY AddressAssumption DEF Init
<1>6. usdc \in Balances /\ policy \in Policies \cup {NoPolicy}
  BY NumberAssumption DEF Init
<1>7. strikes \in [Address -> Nat]
  BY DEF Init
<1>8. QED
  BY <1>1, <1>3, <1>4, <1>5, <1>6, <1>7 DEF Init, TypeOK

LEMMA ExecuteTyped ==
  ASSUME TypeOK, NEW i \in HoldId, Execute(i)
  PROVE  /\ day' \in Nat /\ dailySpent' \in Nat /\ dailyCount' \in Nat
         /\ usdc' \in Balances
<1>1. holds[i].amount \in Nat /\ holds[i].to \in Address
  BY HoldTyped
<1>2. day' \in Nat /\ dailySpent' \in Nat /\ dailyCount' \in Nat
  BY <1>1, DailyCountersTyped DEF Execute
<1>3. usdc' \in Balances
  BY <1>1, MovedKeepsBalances, AddressAssumption DEF Execute, TypeOK
<1>4. QED
  BY <1>2, <1>3

LEMMA SetStatusTyped ==
  ASSUME TypeOK, NEW i \in HoldId, NEW s \in HoldStatus, SetStatus(i, s)
  PROVE  holds' \in [HoldId -> Hold] /\ nextHoldId' \in 1 .. MaxHolds + 1
BY DEF TypeOK, SetStatus, Hold

LEMMA UnlockTyped ==
  ASSUME TypeOK, NEW i \in HoldId, Unlock(i) \/ UNCHANGED totalLocked
  PROVE  totalLocked' \in Nat
<1>1. holds[i].amount \in Nat
  BY HoldTyped
<1>2. QED
  BY <1>1 DEF TypeOK, Unlock

LEMMA CreateTyped ==
  ASSUME TypeOK, NEW caller, NEW to \in Payees, NEW amount \in Amount,
         ProposeElevated(caller, to, amount)
  PROVE  /\ holds' \in [HoldId -> Hold]
         /\ nextHoldId \in HoldId /\ nextHoldId' \in 1 .. MaxHolds + 1
         /\ totalLocked' \in Nat
<1>1. policy \in Policies /\ policy.holdWindowSec \in Nat
  BY PolicyAssumption DEF ProposeElevated, MayPropose, TypeOK
<1>2. amount \in Nat /\ to \in Address
  BY NumberAssumption, AddressAssumption
<1>3. NewHold(to, amount) \in Hold
  BY <1>1, <1>2 DEF NewHold, Hold, HoldStatus, TypeOK
<1>4. nextHoldId \in HoldId /\ nextHoldId + 1 \in 1 .. MaxHolds + 1
  BY NumberAssumption DEF TypeOK, HoldId, ProposeElevated
<1>5. holds' \in [HoldId -> Hold]
  BY <1>3, <1>4 DEF ProposeElevated, TypeOK
<1>6. QED
  BY <1>2, <1>4, <1>5 DEF ProposeElevated, TypeOK

LEMMA LapseTyped ==
  ASSUME TypeOK, NEW i \in HoldId, LapseExtend(i)
  PROVE  holds' \in [HoldId -> Hold]
<1>1. now + HOLD_EXTEND_SEC \in Nat
  BY NumberAssumption DEF TypeOK
<1>2. QED
  BY <1>1 DEF LapseExtend, TypeOK, Hold

(***************************************************************************)
(* The calls of Spending and Bookkeeping by any caller, a contract that    *)
(* sends no transactions of its own included.                              *)
(***************************************************************************)
SpendingBy(caller) ==
  \/ \E to \in Payees, amount \in Amount : ProposeRoutine(caller, to, amount)
  \/ \E i \in HoldId : ReleaseHold(caller, i)
  \/ \E i \in HoldId : Approve(caller, i)

BookkeepingBy(caller) ==
  \/ \E to \in Payees, amount \in Amount : ProposeElevated(caller, to, amount)
  \/ \E i \in HoldId : FreezeHold(caller, i)
  \/ \E i \in HoldId, rotate \in BOOLEAN : Reject(caller, i, rotate)
  \/ \E vc \in Watchers : SetVerdictContract(caller, vc)
  \/ \E key \in AgentKeys : RotateAgentKey(caller, key)
  \/ KillSwitch(caller)
  \/ \E i \in HoldId : LapseHold(i)
  \/ ReportAttempt

LEMMA CallsHaveCallers ==
  /\ Spending => \E caller : SpendingBy(caller)
  /\ Bookkeeping => \E caller : BookkeepingBy(caller)
BY DEF Spending, SpendingBy, Bookkeeping, BookkeepingBy

\* Calls that may pay out.
LEMMA SpendingTypeOK ==
  ASSUME TypeOK, NEW caller, SpendingBy(caller), UNCHANGED envVars
  PROVE  TypeOK'
<1> USE DEF envVars, keyVars, holdVars
<1>1. \/ \E to \in Payees, amount \in Amount : ProposeRoutine(caller, to, amount)
      \/ \E i \in HoldId : ReleaseHold(caller, i)
      \/ \E i \in HoldId : Approve(caller, i)
  BY DEF SpendingBy
<1>2. ASSUME NEW to \in Payees, NEW amount \in Amount,
             ProposeRoutine(caller, to, amount)
      PROVE  TypeOK'
  <2>1. amount \in Nat /\ to \in Address
    BY NumberAssumption, AddressAssumption
  <2>2. day' \in Nat /\ dailySpent' \in Nat /\ dailyCount' \in Nat
    BY <1>2, <2>1, DailyCountersTyped DEF ProposeRoutine
  <2>3. usdc' \in Balances
    BY <1>2, <2>1, MovedKeepsBalances, AddressAssumption DEF ProposeRoutine, TypeOK
  <2>4. QED
    BY <1>2, <2>2, <2>3 DEF ProposeRoutine, TypeOK
<1>3. ASSUME NEW i \in HoldId, ReleaseHold(caller, i)
      PROVE  TypeOK'
  <2>1. /\ day' \in Nat /\ dailySpent' \in Nat /\ dailyCount' \in Nat
        /\ usdc' \in Balances
    BY <1>3, ExecuteTyped DEF ReleaseHold
  <2>2. holds' \in [HoldId -> Hold] /\ nextHoldId' \in 1 .. MaxHolds + 1
    BY <1>3, SetStatusTyped DEF ReleaseHold, HoldStatus
  <2>3. totalLocked' \in Nat
    BY <1>3, UnlockTyped DEF ReleaseHold
  <2>4. QED
    BY <1>3, <2>1, <2>2, <2>3 DEF ReleaseHold, TypeOK
<1>4. ASSUME NEW i \in HoldId, Approve(caller, i)
      PROVE  TypeOK'
  <2>1. /\ day' \in Nat /\ dailySpent' \in Nat /\ dailyCount' \in Nat
        /\ usdc' \in Balances
    BY <1>4, ExecuteTyped DEF Approve
  <2>2. holds' \in [HoldId -> Hold] /\ nextHoldId' \in 1 .. MaxHolds + 1
    BY <1>4, SetStatusTyped DEF Approve, HoldStatus
  <2>3. totalLocked' \in Nat
    BY <1>4, UnlockTyped DEF Approve, UnlockIfPending
  <2>4. QED
    BY <1>4, <2>1, <2>2, <2>3 DEF Approve, TypeOK
<1>5. QED
  BY <1>1, <1>2, <1>3, <1>4

\* Calls that never pay out.
LEMMA BookkeepingTypeOK ==
  ASSUME TypeOK, NEW caller, BookkeepingBy(caller), UNCHANGED envVars
  PROVE  TypeOK'
<1> USE DEF envVars, keyVars, holdVars, dayVars
<1>1. ASSUME NEW to \in Payees, NEW amount \in Amount,
             ProposeElevated(caller, to, amount)
      PROVE  TypeOK'
  <2>1. day' \in Nat /\ dailySpent' \in Nat /\ dailyCount' \in Nat
    BY <1>1, DailyCountersTyped DEF ProposeElevated
  <2>2. QED
    BY <1>1, <2>1, CreateTyped DEF ProposeElevated, TypeOK
<1>2. ASSUME NEW i \in HoldId, FreezeHold(caller, i)
      PROVE  TypeOK'
  BY <1>2, SetStatusTyped, UnlockTyped DEF FreezeHold, HoldStatus, TypeOK
<1>3. ASSUME NEW i \in HoldId, NEW rotate \in BOOLEAN,
             Reject(caller, i, rotate)
      PROVE  TypeOK'
  <2>1. holds' \in [HoldId -> Hold] /\ nextHoldId' \in 1 .. MaxHolds + 1
    BY <1>3, SetStatusTyped DEF Reject, HoldStatus
  <2>2. totalLocked' \in Nat
    BY <1>3, UnlockTyped DEF Reject, UnlockIfPending
  <2>3. QED
    BY <1>3, <2>1, <2>2 DEF Reject, TypeOK
<1>4. ASSUME NEW vc \in Watchers, SetVerdictContract(caller, vc)
      PROVE  TypeOK'
  BY <1>4, AddressAssumption DEF SetVerdictContract, TypeOK
<1>5. ASSUME NEW key \in AgentKeys, RotateAgentKey(caller, key)
      PROVE  TypeOK'
  BY <1>5, AddressAssumption DEF RotateAgentKey, TypeOK
<1>6. ASSUME KillSwitch(caller)
      PROVE  TypeOK'
  BY <1>6 DEF KillSwitch, TypeOK
<1>7. ASSUME NEW i \in HoldId, LapseHold(i)
      PROVE  TypeOK'
  <2>1. CASE LapseExtend(i)
    BY <2>1, LapseTyped DEF LapseExtend, TypeOK
  <2>2. CASE LapseFreeze(i)
    BY <2>2, SetStatusTyped, UnlockTyped DEF LapseFreeze, HoldStatus, TypeOK
  <2>3. QED
    BY <1>7, <2>1, <2>2 DEF LapseHold
<1>8. CASE ReportAttempt
  BY <1>8 DEF ReportAttempt, TypeOK
<1>9. QED
  BY <1>1, <1>2, <1>3, <1>4, <1>5, <1>6, <1>7, <1>8 DEF BookkeepingBy

LEMMA WithdrawalTypeOK ==
  ASSUME TypeOK, Withdrawal, UNCHANGED envVars
  PROVE  TypeOK'
<1>1. PICK caller \in Callers, to \in Payees, amount \in Amount :
        Withdraw(caller, to, amount)
  BY DEF Withdrawal
<1>2. amount \in Nat /\ to \in Address /\ Covers(usdc, Guard, amount)
  BY <1>1, NumberAssumption, AddressAssumption
  DEF Withdraw, Covers, TypeOK, Balances
<1>3. usdc' \in Balances
  BY <1>1, <1>2, MovedKeepsBalances, AddressAssumption DEF Withdraw, TypeOK
<1>4. QED
  BY <1>1, <1>3 DEF Withdraw, TypeOK, envVars, guardVars, keyVars, dayVars, holdVars

\* The account only ever pays out of its own balance.
LEMMA MovedOnlyFromGuard ==
  ASSUME usdc \in Balances, NEW to, NEW amount \in Nat,
         usdc' = Moved(usdc, Guard, to, amount)
  PROVE  \A a \in Address \ {Guard} : usdc'[a] >= usdc[a]
BY DEF Balances, Moved

LEMMA OthersNeverPay ==
  ASSUME TypeOK, NEW caller,
         SpendingBy(caller) \/ BookkeepingBy(caller) \/ Withdrawal
  PROVE  \A a \in Address \ {Guard} : usdc'[a] >= usdc[a]
<1>1. usdc \in Balances
  BY DEF TypeOK
<1>2. CASE UNCHANGED usdc
  BY <1>1, <1>2 DEF Balances
<1>3. ASSUME NEW i \in HoldId, Execute(i)
      PROVE  \A a \in Address \ {Guard} : usdc'[a] >= usdc[a]
  BY <1>1, <1>3, HoldTyped, MovedOnlyFromGuard DEF Execute
<1>4. ASSUME NEW to, NEW amount \in Amount, usdc' = Moved(usdc, Guard, to, amount)
      PROVE  \A a \in Address \ {Guard} : usdc'[a] >= usdc[a]
  BY <1>1, <1>4, NumberAssumption, MovedOnlyFromGuard
<1>5. CASE SpendingBy(caller)
  BY <1>3, <1>4, <1>5 DEF SpendingBy, ProposeRoutine, ReleaseHold, Approve
<1>6. CASE BookkeepingBy(caller)
  BY <1>2, <1>6
  DEF BookkeepingBy, ProposeElevated, FreezeHold, Reject, SetVerdictContract,
      RotateAgentKey, KillSwitch, LapseHold, LapseExtend, LapseFreeze, ReportAttempt
<1>7. CASE Withdrawal
  BY <1>4, <1>7 DEF Withdrawal, Withdraw
<1>8. QED
  BY <1>5, <1>6, <1>7

LEMMA SpendingNeedsPolicy ==
  ASSUME NEW caller, SpendingBy(caller)
  PROVE  policy # NoPolicy
BY DEF SpendingBy, ProposeRoutine, MayPropose, ReleaseHold, Approve, Execute

LEMMA BookkeepingMovesNothing ==
  ASSUME NEW caller, BookkeepingBy(caller)
  PROVE  usdc' = usdc
BY DEF BookkeepingBy, ProposeElevated, FreezeHold, Reject, SetVerdictContract,
       RotateAgentKey, KillSwitch, LapseHold, LapseExtend, LapseFreeze, ReportAttempt

\* A payment that settles no hold is the routine lane's.
LEMMA SettlingChangesHolds ==
  ASSUME TypeOK, NEW caller, SpendingBy(caller), holds' = holds
  PROVE  \E to \in Payees, amount \in Amount : ProposeRoutine(caller, to, amount)
<1>1. ASSUME NEW i \in HoldId, NEW s, SetStatus(i, s)
      PROVE  holds[i].status = s
  <2>1. holds[i] \in Hold /\ holds[i] = [holds[i] EXCEPT !.status = s]
    BY <1>1 DEF TypeOK, SetStatus
  <2>2. QED
    BY <2>1 DEF Hold
<1>2. QED
  BY <1>1 DEF SpendingBy, ReleaseHold, Approve

LEMMA RoutineAvoidsStruck ==
  ASSUME TypeOK, NEW caller, SpendingBy(caller), holds' = holds,
         NEW d \in Address, usdc'[d] > usdc[d]
  PROVE  ~(strikes[d] > 0)
<1>1. PICK to \in Payees, amount \in Amount : ProposeRoutine(caller, to, amount)
  BY SettlingChangesHolds
<1>2. usdc' = Moved(usdc, Guard, to, amount) /\ ~(strikes[to] > 0)
  BY <1>1 DEF ProposeRoutine, Elevated, HasAnyStrike
<1>3. usdc \in [Address -> Nat] /\ amount \in Nat
  BY NumberAssumption DEF TypeOK, Balances
<1>4. d = to
  BY <1>2, <1>3 DEF Moved
<1>5. QED
  BY <1>2, <1>4

LEMMA EnvironmentTypeOK ==
  ASSUME TypeOK, Environment
  PROVE  TypeOK'
<1> USE DEF envVars, guardVars, keyVars, dayVars, holdVars
<1>1. CASE Tick
  BY <1>1 DEF Tick, TypeOK
<1>2. CASE PolicyChanges
  BY <1>2 DEF PolicyChanges, TypeOK
<1>3. CASE StrikesChange
  BY <1>3, NumberAssumption, AddressAssumption DEF StrikesChange, TypeOK
<1>4. CASE Fund
  <2>1. usdc' \in Balances
    BY <1>4, NumberAssumption, AddressAssumption, MovedKeepsBalances
    DEF Fund, TypeOK
  <2>2. QED
    BY <1>4, <2>1 DEF Fund, TypeOK
<1>5. QED
  BY <1>1, <1>2, <1>3, <1>4 DEF Environment

LEMMA NextTypeOK == TypeOK /\ [Next]_vars => TypeOK'
<1>1. CASE UNCHANGED vars
  BY <1>1 DEF TypeOK, vars, envVars, guardVars, keyVars, dayVars, holdVars
<1>2. QED
  BY <1>1, CallsHaveCallers, SpendingTypeOK, BookkeepingTypeOK, WithdrawalTypeOK,
     EnvironmentTypeOK DEF Next, Call

\* Every reachable state of the account is well typed: in particular every
\* counter and running total stays a natural number, so no checked subtraction
\* of the contract ever panics on a path that is taken.
THEOREM TypeCorrect == Spec => []TypeOK
<1>1. QED
  BY InitTypeOK, NextTypeOK, PTL DEF Spec

-----------------------------------------------------------------------------
(***************************************************************************)
(* The running total and the extensions.  Every step of Next leaves the    *)
(* holds alone or is a HoldStep: it rewrites one slot, moves the running   *)
(* total by that slot's share, and either keeps the hold's terms or fills  *)
(* the next free slot.                                                     *)
(***************************************************************************)
KeepsTerms(i) ==
  /\ nextHoldId' = nextHoldId
  /\ holds'[i].amount = holds[i].amount
  /\ holds'[i].releaseAt = holds[i].releaseAt
  /\ \/ holds'[i].extendedTo = holds[i].extendedTo
     \/ holds'[i].extendedTo > holds'[i].releaseAt + HOLD_EXTEND_SEC

FillsSlot(i) ==
  /\ i = nextHoldId
  /\ nextHoldId' = nextHoldId + 1
  /\ holds'[i].extendedTo = 0

HoldStep(i) ==
  /\ \A j \in HoldId : j # i => holds'[j] = holds[j]
  /\ totalLocked' = totalLocked - LockedBy(i) + LockedBy(i)'
  /\ KeepsTerms(i) \/ FillsSlot(i)

LEMMA LockedByTyped == TypeOK => \A i \in HoldId : LockedBy(i) \in Int
BY HoldTyped DEF LockedBy

\* A status change is a HoldStep when the total follows the share.
LEMMA SetStatusIsHoldStep ==
  ASSUME TypeOK, TypeOK', NEW i \in HoldId, NEW s \in HoldStatus,
         s # "PENDING", SetStatus(i, s), UnlockIfPending(i)
  PROVE  HoldStep(i)
<1>1. holds[i] \in Hold /\ holds' = [holds EXCEPT ![i].status = s]
  BY DEF TypeOK, SetStatus
<1>2. \A j \in HoldId : j # i => holds'[j] = holds[j]
  BY <1>1 DEF TypeOK
<1>3. /\ holds'[i].status = s
      /\ holds'[i].amount = holds[i].amount
      /\ holds'[i].releaseAt = holds[i].releaseAt
      /\ holds'[i].extendedTo = holds[i].extendedTo
  BY <1>1 DEF TypeOK, Hold
<1>4. totalLocked' = totalLocked - LockedBy(i) + LockedBy(i)'
  <2>1. LockedBy(i)' = 0
    BY <1>3 DEF LockedBy
  <2>2. totalLocked' = totalLocked - LockedBy(i)
    BY HoldTyped DEF UnlockIfPending, Unlock, LockedBy, TypeOK
  <2>3. QED
    BY <2>1, <2>2, LockedByTyped DEF TypeOK
<1>5. KeepsTerms(i)
  BY <1>3 DEF KeepsTerms, SetStatus
<1>6. QED
  BY <1>2, <1>4, <1>5 DEF HoldStep

\* A first lapse changes only the extension, and grants it past releaseAt.
LEMMA LapseExtendIsHoldStep ==
  ASSUME TypeOK, TypeOK', NEW i \in HoldId, LapseExtend(i)
  PROVE  HoldStep(i)
<1>1. holds[i] \in Hold
  BY DEF TypeOK
<1>2. \A j \in HoldId : j # i => holds'[j] = holds[j]
  BY DEF LapseExtend, TypeOK
<1>3. /\ holds'[i].status = holds[i].status
      /\ holds'[i].amount = holds[i].amount
      /\ holds'[i].releaseAt = holds[i].releaseAt
      /\ holds'[i].extendedTo = now + HOLD_EXTEND_SEC
  BY <1>1 DEF LapseExtend, TypeOK, Hold
<1>4. totalLocked' = totalLocked - LockedBy(i) + LockedBy(i)'
  <2>1. LockedBy(i)' = LockedBy(i) /\ totalLocked' = totalLocked
    BY <1>3 DEF LockedBy, LapseExtend
  <2>2. QED
    BY <2>1, LockedByTyped DEF TypeOK
<1>5. KeepsTerms(i)
  BY <1>3, HoldTyped, NumberAssumption DEF KeepsTerms, LapseExtend, TypeOK
<1>6. QED
  BY <1>2, <1>4, <1>5 DEF HoldStep

\* Creation fills an empty slot, which held nothing.
LEMMA CreateIsHoldStep ==
  ASSUME TypeOK, TypeOK', EmptySlotsHoldNothing,
         NEW caller, NEW to \in Payees, NEW amount \in Amount,
         ProposeElevated(caller, to, amount)
  PROVE  \E i \in HoldId : HoldStep(i)
<1>1. PICK n \in HoldId : n = nextHoldId
  BY CreateTyped
<1>2. amount \in Nat
  BY NumberAssumption
<1>3. \A j \in HoldId : j # n => holds'[j] = holds[j]
  BY <1>1 DEF ProposeElevated, TypeOK
<1>4. holds'[n] = NewHold(to, amount)
  BY <1>1 DEF ProposeElevated, TypeOK
<1>5. totalLocked' = totalLocked - LockedBy(n) + LockedBy(n)'
  <2>1. LockedBy(n) = 0
    BY <1>1 DEF LockedBy, EmptySlotsHoldNothing, Created, TypeOK
  <2>2. LockedBy(n)' = amount
    BY <1>4 DEF LockedBy, NewHold
  <2>3. totalLocked' = totalLocked + amount
    BY DEF ProposeElevated
  <2>4. QED
    BY <1>2, <2>1, <2>2, <2>3 DEF TypeOK
<1>6. FillsSlot(n)
  BY <1>1, <1>4 DEF FillsSlot, NewHold, ProposeElevated
<1>7. QED
  BY <1>3, <1>5, <1>6 DEF HoldStep

LEMMA EveryCallIsAHoldStep ==
  ASSUME TypeOK, TypeOK', EmptySlotsHoldNothing, NEW caller,
         SpendingBy(caller) \/ BookkeepingBy(caller)
  PROVE  UNCHANGED holdVars \/ \E i \in HoldId : HoldStep(i)
<1> SUFFICES ASSUME ~UNCHANGED holdVars
             PROVE  \E i \in HoldId : HoldStep(i)
  OBVIOUS
<1>1. CASE SpendingBy(caller)
  <2>1. PICK i \in HoldId : ReleaseHold(caller, i) \/ Approve(caller, i)
    BY <1>1 DEF SpendingBy, ProposeRoutine
  <2>2. CASE ReleaseHold(caller, i)
    BY <2>2, SetStatusIsHoldStep DEF ReleaseHold, HoldStatus, UnlockIfPending
  <2>3. CASE Approve(caller, i)
    BY <2>3, SetStatusIsHoldStep DEF Approve, HoldStatus
  <2>4. QED
    BY <2>1, <2>2, <2>3
<1>2. CASE BookkeepingBy(caller)
  <2>1. ASSUME NEW to \in Payees, NEW amount \in Amount,
               ProposeElevated(caller, to, amount)
        PROVE  \E i \in HoldId : HoldStep(i)
    BY <2>1, CreateIsHoldStep
  <2>2. ASSUME NEW i \in HoldId, FreezeHold(caller, i)
        PROVE  HoldStep(i)
    BY <2>2, SetStatusIsHoldStep DEF FreezeHold, HoldStatus, UnlockIfPending
  <2>3. ASSUME NEW i \in HoldId, NEW rotate, Reject(caller, i, rotate)
        PROVE  HoldStep(i)
    BY <2>3, SetStatusIsHoldStep DEF Reject, HoldStatus
  <2>4. ASSUME NEW i \in HoldId, LapseHold(i)
        PROVE  HoldStep(i)
    <3>1. CASE LapseExtend(i)
      BY <3>1, LapseExtendIsHoldStep
    <3>2. CASE LapseFreeze(i)
      BY <3>2, SetStatusIsHoldStep DEF LapseFreeze, HoldStatus, UnlockIfPending
    <3>3. QED
      BY <2>4, <3>1, <3>2 DEF LapseHold
  <2>5. QED
    BY <1>2, <2>1, <2>2, <2>3, <2>4
    DEF BookkeepingBy, SetVerdictContract, RotateAgentKey, KillSwitch, ReportAttempt
<1>3. QED
  BY <1>1, <1>2

\* The holds change only in a call of Spending or Bookkeeping.
LEMMA HoldsChangeInCalls ==
  [Next]_vars => UNCHANGED holdVars \/ \E caller : SpendingBy(caller) \/ BookkeepingBy(caller)
BY CallsHaveCallers
DEF Next, Call, Environment, Tick, PolicyChanges, StrikesChange, Fund,
    Withdrawal, Withdraw, vars, guardVars

LEMMA HoldStepKeepsSum ==
  ASSUME TypeOK, TypeOK', LockedIsPendingSum, NEW i \in HoldId, HoldStep(i)
  PROVE  LockedIsPendingSum'
<1> DEFINE f == [j \in HoldId |-> LockedBy(j)]
           e == [j \in HoldId |-> LockedBy(j)']
<1>1. f \in [1 .. MaxHolds -> Int]
  BY LockedByTyped DEF HoldId
<1>2. e \in [1 .. MaxHolds -> Int]
  <2>1. ASSUME NEW j \in HoldId PROVE LockedBy(j)' \in Int
    <3>1. holds'[j] \in Hold
      BY DEF TypeOK
    <3>2. holds'[j].amount \in Amount \cup {0}
      BY <3>1 DEF Hold
    <3>3. Amount \cup {0} \subseteq Int
      BY NumberAssumption
    <3>4. holds'[j].amount \in Int
      BY <3>2, <3>3
    <3>5. QED
      BY <3>4 DEF LockedBy
  <2>2. QED
    BY <2>1 DEF HoldId
<1>3. \A j \in 1 .. MaxHolds : j # i => e[j] = f[j]
  BY DEF HoldStep, LockedBy, HoldId
<1>4. SumTo(e, MaxHolds) = SumTo(f, MaxHolds) - f[i] + e[i]
  <2> HIDE DEF f, e
  <2>1. MaxHolds \in Nat /\ i \in 1 .. MaxHolds
    BY NumberAssumption DEF HoldId
  <2>2. QED
    BY <1>1, <1>2, <1>3, <2>1, SumToUpdate
<1>5. totalLocked' = SumTo(e, MaxHolds)
  BY <1>4 DEF HoldStep, LockedIsPendingSum
<1>6. QED
  BY <1>5 DEF LockedIsPendingSum

LEMMA HoldStepKeepsRest ==
  ASSUME TypeOK, TypeOK', EmptySlotsHoldNothing, ExtensionIsWhole,
         NEW i \in HoldId, HoldStep(i)
  PROVE  EmptySlotsHoldNothing' /\ ExtensionIsWhole'
<1>1. nextHoldId' \in Int /\ nextHoldId \in Int /\ HoldId \subseteq Int
  BY DEF TypeOK, HoldId
<1>2. nextHoldId' = nextHoldId \/ nextHoldId' = nextHoldId + 1
  BY DEF HoldStep, KeepsTerms, FillsSlot
<1>3. ASSUME NEW j \in HoldId, j # i, ~Created(j)' PROVE holds'[j].amount = 0
  BY <1>1, <1>2, <1>3 DEF HoldStep, EmptySlotsHoldNothing, Created
<1>4. ASSUME ~Created(i)' PROVE holds'[i].amount = 0
  BY <1>1, <1>4 DEF HoldStep, KeepsTerms, FillsSlot, EmptySlotsHoldNothing, Created
<1>5. ASSUME NEW j \in HoldId, j # i, Created(j)', holds'[j].extendedTo # 0
      PROVE  holds'[j].extendedTo > holds'[j].releaseAt + HOLD_EXTEND_SEC
  <2>1. j # nextHoldId \/ KeepsTerms(i)
    BY <1>5 DEF HoldStep, FillsSlot
  <2>2. Created(j)
    BY <1>1, <1>5, <2>1 DEF Created, HoldStep, KeepsTerms, FillsSlot
  <2>3. QED
    BY <1>5, <2>2 DEF HoldStep, ExtensionIsWhole
<1>6. ASSUME Created(i)', holds'[i].extendedTo # 0
      PROVE  holds'[i].extendedTo > holds'[i].releaseAt + HOLD_EXTEND_SEC
  BY <1>6 DEF HoldStep, KeepsTerms, FillsSlot, ExtensionIsWhole, Created
<1>7. EmptySlotsHoldNothing'
  BY <1>3, <1>4 DEF EmptySlotsHoldNothing
<1>8. ExtensionIsWhole'
  BY <1>5, <1>6 DEF ExtensionIsWhole
<1>9. QED
  BY <1>7, <1>8

LEMMA InitIInv == Init => IInv
<1> SUFFICES ASSUME Init PROVE IInv
  OBVIOUS
<1>1. TypeOK
  BY InitTypeOK
<1>2. \A i \in HoldId : holds[i] = ZeroHold
  BY DEF Init
<1>3. EmptySlotsHoldNothing
  BY <1>2 DEF EmptySlotsHoldNothing, ZeroHold
<1>4. ExtensionIsWhole
  BY <1>2 DEF ExtensionIsWhole, ZeroHold
<1>5. LockedIsPendingSum
  <2>1. \A i \in HoldId : LockedBy(i) = 0
    BY <1>2 DEF LockedBy, ZeroHold
  <2>2. [i \in HoldId |-> LockedBy(i)] = [i \in 1 .. MaxHolds |-> 0]
    BY <2>1 DEF HoldId
  <2>3. SumTo([i \in 1 .. MaxHolds |-> 0], MaxHolds) = 0
    BY SumToZero, NumberAssumption
  <2>4. QED
    BY <2>2, <2>3 DEF LockedIsPendingSum, Init
<1>6. QED
  BY <1>1, <1>3, <1>4, <1>5 DEF IInv

LEMMA CallKeepsIInv ==
  ASSUME IInv, TypeOK', NEW caller, SpendingBy(caller) \/ BookkeepingBy(caller)
  PROVE  IInv'
<1>1. CASE UNCHANGED holdVars
  BY <1>1 DEF IInv, holdVars, EmptySlotsHoldNothing, LockedIsPendingSum,
              ExtensionIsWhole, Created, LockedBy
<1>2. ASSUME NEW i \in HoldId, HoldStep(i)
      PROVE  IInv'
  BY <1>2, HoldStepKeepsSum, HoldStepKeepsRest DEF IInv
<1>3. QED
  BY <1>1, <1>2, EveryCallIsAHoldStep DEF IInv

LEMMA IdleKeepsIInv ==
  ASSUME IInv, TypeOK', UNCHANGED holdVars
  PROVE  IInv'
BY DEF IInv, holdVars, EmptySlotsHoldNothing, LockedIsPendingSum, ExtensionIsWhole,
       Created, LockedBy

LEMMA NextIInv == IInv /\ [Next]_vars => IInv'
<1> SUFFICES ASSUME IInv, [Next]_vars PROVE IInv'
  OBVIOUS
<1>1. TypeOK'
  BY NextTypeOK DEF IInv
<1>2. QED
  BY <1>1, HoldsChangeInCalls, CallKeepsIInv, IdleKeepsIInv

\* The running total _totalLocked equals the sum of the pending holds in every
\* reachable state, for any number of holds and any interleaving of watcher,
\* owner, agent and lapse callers.
THEOREM LockedTotalIsExact == Spec => []LockedIsPendingSum
<1>1. IInv => LockedIsPendingSum
  BY DEF IInv
<1>2. QED
  BY <1>1, InitIInv, NextIInv, PTL DEF Spec

\* No hold's extension ends before the watcher's deadline, whatever was called
\* on the hold's id before it was created.
THEOREM ExtensionsAreWhole == Spec => []ExtensionIsWhole
<1>1. IInv => ExtensionIsWhole
  BY DEF IInv
<1>2. QED
  BY <1>1, InitIInv, NextIInv, PTL DEF Spec

-----------------------------------------------------------------------------
(***************************************************************************)
(* GuardAccount implements HoldCustody: each step maps to a step of the    *)
(* abstract specification or leaves its variables alone.                   *)
(***************************************************************************)
LEMMA StatusOfHold ==
  ASSUME TypeOK, NEW i \in HoldId, NEW s \in HoldStatus, Created(i), SetStatus(i, s)
  PROVE  /\ CustodyStage' = [CustodyStage EXCEPT ![i] = StageOf(s)]
         /\ CustodyPromise' = CustodyPromise
<1>1. /\ holds' = [holds EXCEPT ![i].status = s]
      /\ nextHoldId' = nextHoldId
      /\ holds[i] \in Hold
  BY DEF SetStatus, TypeOK
<1>2. /\ \A j \in HoldId : j # i => holds'[j] = holds[j]
      /\ holds'[i].status = s
      /\ holds'[i].to = holds[i].to
      /\ holds'[i].amount = holds[i].amount
  BY <1>1 DEF TypeOK, Hold
<1>3. \A j \in HoldId : Created(j)' = Created(j)
  BY <1>1 DEF Created
<1>4. CustodyStage' = [CustodyStage EXCEPT ![i] = StageOf(s)]
  BY <1>2, <1>3 DEF CustodyStage
<1>5. CustodyPromise' = CustodyPromise
  BY <1>2, <1>3 DEF CustodyPromise
<1>6. QED
  BY <1>4, <1>5

\* A status written into a slot no hold occupies is not seen.
LEMMA StatusOfEmptySlot ==
  ASSUME TypeOK, NEW i \in HoldId, NEW s \in HoldStatus, ~Created(i), SetStatus(i, s)
  PROVE  CustodyStage' = CustodyStage /\ CustodyPromise' = CustodyPromise
<1>1. /\ \A j \in HoldId : j # i => holds'[j] = holds[j]
      /\ nextHoldId' = nextHoldId
  BY DEF SetStatus, TypeOK
<1>2. \A j \in HoldId : Created(j)' = Created(j)
  BY <1>1 DEF Created
<1>3. QED
  BY <1>1, <1>2 DEF CustodyStage, CustodyPromise

LEMMA ExecuteIsPay ==
  ASSUME TypeOK, EmptySlotsHoldNothing, NEW i \in HoldId,
         NEW s \in {"RELEASED", "EXECUTED_OWNER"},
         holds[i].status \in {"PENDING", "FROZEN"}, Execute(i), SetStatus(i, s)
  PROVE  [Custody!Next]_Custody!custodyVars
<1>1. StageOf(s) = "paid" /\ s \in HoldStatus
  BY DEF StageOf, HoldStatus
<1>2. CASE Created(i)
  <2>1. /\ CustodyStage' = [CustodyStage EXCEPT ![i] = "paid"]
        /\ CustodyPromise' = CustodyPromise
    BY <1>1, <1>2, StatusOfHold
  <2>2. /\ CustodyStage[i] \in {"locked", "frozen"}
        /\ CustodyPromise[i] = [to |-> holds[i].to, amount |-> holds[i].amount]
    BY <1>2 DEF CustodyStage, CustodyPromise, StageOf
  <2>3. Custody!Pay(i)
    BY <2>1, <2>2 DEF Custody!Pay, Custody!Covers, Custody!Moved, Execute, Covers, Moved
  <2>4. QED
    BY <2>3 DEF Custody!Next
<1>3. CASE ~Created(i)
  <2>1. CustodyStage' = CustodyStage /\ CustodyPromise' = CustodyPromise
    BY <1>1, <1>3, StatusOfEmptySlot
  <2>2. usdc' \in Balances
    BY ExecuteTyped
  <2>3. Custody!OtherTransfers
    BY <2>1, <2>2 DEF Custody!OtherTransfers, Custody!Balances, Balances
  <2>4. QED
    BY <2>3 DEF Custody!Next
<1>4. QED
  BY <1>2, <1>3

\* A status change that moves no money freezes the hold or returns it.
LEMMA CloseIsFreezeOrReturn ==
  ASSUME TypeOK, NEW i \in HoldId, NEW s, SetStatus(i, s), UNCHANGED usdc,
         \/ s = "FROZEN" /\ holds[i].status = "PENDING"
         \/ s = "CANCELLED" /\ holds[i].status \in {"PENDING", "FROZEN"}
  PROVE  [Custody!Next]_Custody!custodyVars
<1>1. s \in HoldStatus
  BY DEF HoldStatus
<1>2. CASE Created(i)
  <2>1. /\ CustodyStage' = [CustodyStage EXCEPT ![i] = StageOf(s)]
        /\ CustodyPromise' = CustodyPromise
    BY <1>1, <1>2, StatusOfHold
  <2>2. CustodyStage[i] = StageOf(holds[i].status)
    BY <1>2 DEF CustodyStage
  <2>3. Custody!Freeze(i) \/ Custody!Return(i)
    BY <2>1, <2>2 DEF Custody!Freeze, Custody!Return, StageOf
  <2>4. QED
    BY <2>3 DEF Custody!Next
<1>3. CASE ~Created(i)
  <2>1. CustodyStage' = CustodyStage /\ CustodyPromise' = CustodyPromise
    BY <1>1, <1>3, StatusOfEmptySlot
  <2>2. QED
    BY <2>1 DEF Custody!custodyVars
<1>4. QED
  BY <1>2, <1>3

LEMMA CreateIsLock ==
  ASSUME TypeOK, NEW caller, NEW to \in Payees, NEW amount \in Amount,
         ProposeElevated(caller, to, amount)
  PROVE  Custody!Next
<1>1. PICK n \in HoldId : n = nextHoldId
  BY CreateTyped
<1>2. /\ \A j \in HoldId : j # n => holds'[j] = holds[j]
      /\ holds'[n].to = to /\ holds'[n].amount = amount
      /\ holds'[n].status = "PENDING"
      /\ nextHoldId' = nextHoldId + 1
  BY <1>1 DEF ProposeElevated, NewHold, TypeOK
<1>3. /\ ~Created(n) /\ Created(n)'
      /\ \A j \in HoldId : j # n => Created(j)' = Created(j)
  BY <1>1, <1>2 DEF Created, HoldId, TypeOK
<1>4. CustodyStage[n] = "unborn" /\ CustodyStage' = [CustodyStage EXCEPT ![n] = "locked"]
  <2>1. StageOf(holds'[n].status) = "locked"
    BY <1>2 DEF StageOf
  <2>2. QED
    BY <1>2, <1>3, <2>1 DEF CustodyStage
<1>5. CustodyPromise' = [CustodyPromise EXCEPT ![n] = [to |-> to, amount |-> amount]]
  BY <1>2, <1>3 DEF CustodyPromise
<1>6. [to |-> to, amount |-> amount] \in Custody!Promise
  BY AddressAssumption DEF Custody!Promise
<1>7. Custody!Lock(n)
  BY <1>4, <1>5, <1>6 DEF Custody!Lock, ProposeElevated
<1>8. QED
  BY <1>7 DEF Custody!Next

\* A step that leaves the holds alone is a transfer of somebody's.
LEMMA IdleIsCustody ==
  ASSUME TypeOK', UNCHANGED holdVars
  PROVE  [Custody!Next]_Custody!custodyVars
<1>1. CustodyStage' = CustodyStage /\ CustodyPromise' = CustodyPromise
  BY DEF holdVars, CustodyStage, CustodyPromise, Created
<1>2. Custody!OtherTransfers
  BY <1>1 DEF Custody!OtherTransfers, Custody!Balances, Balances, TypeOK
<1>3. QED
  BY <1>2 DEF Custody!Next

LEMMA SpendingIsCustody ==
  ASSUME TypeOK, TypeOK', EmptySlotsHoldNothing, NEW caller, SpendingBy(caller)
  PROVE  [Custody!Next]_Custody!custodyVars
<1>1. CASE UNCHANGED holdVars
  BY <1>1, IdleIsCustody
<1>2. ASSUME NEW i \in HoldId, ReleaseHold(caller, i)
      PROVE  [Custody!Next]_Custody!custodyVars
  BY <1>2, ExecuteIsPay DEF ReleaseHold
<1>3. ASSUME NEW i \in HoldId, Approve(caller, i)
      PROVE  [Custody!Next]_Custody!custodyVars
  BY <1>3, ExecuteIsPay DEF Approve
<1>4. QED
  BY <1>1, <1>2, <1>3 DEF SpendingBy, ProposeRoutine

LEMMA BookkeepingIsCustody ==
  ASSUME TypeOK, TypeOK', NEW caller, BookkeepingBy(caller)
  PROVE  [Custody!Next]_Custody!custodyVars
<1>1. ASSUME NEW to \in Payees, NEW amount \in Amount,
             ProposeElevated(caller, to, amount)
      PROVE  [Custody!Next]_Custody!custodyVars
  BY <1>1, CreateIsLock
<1>2. ASSUME NEW i \in HoldId, FreezeHold(caller, i)
      PROVE  [Custody!Next]_Custody!custodyVars
  BY <1>2, CloseIsFreezeOrReturn DEF FreezeHold
<1>3. ASSUME NEW i \in HoldId, NEW rotate, Reject(caller, i, rotate)
      PROVE  [Custody!Next]_Custody!custodyVars
  BY <1>3, CloseIsFreezeOrReturn DEF Reject
<1>4. ASSUME NEW i \in HoldId, LapseExtend(i)
      PROVE  [Custody!Next]_Custody!custodyVars
  <2>1. CustodyStage' = CustodyStage /\ CustodyPromise' = CustodyPromise
    <3>1. \A j \in HoldId : /\ holds'[j].status = holds[j].status
                            /\ holds'[j].to = holds[j].to
                            /\ holds'[j].amount = holds[j].amount
      BY <1>4 DEF LapseExtend, TypeOK, Hold
    <3>2. nextHoldId' = nextHoldId
      BY <1>4 DEF LapseExtend
    <3>3. QED
      BY <3>1, <3>2 DEF CustodyStage, CustodyPromise, Created
  <2>2. QED
    BY <1>4, <2>1 DEF Custody!custodyVars, LapseExtend
<1>5. ASSUME NEW i \in HoldId, LapseFreeze(i)
      PROVE  [Custody!Next]_Custody!custodyVars
  BY <1>5, CloseIsFreezeOrReturn DEF LapseFreeze
<1>6. CASE UNCHANGED holdVars
  BY <1>6, IdleIsCustody
<1>7. QED
  BY <1>1, <1>2, <1>3, <1>4, <1>5, <1>6
  DEF BookkeepingBy, LapseHold, SetVerdictContract, RotateAgentKey, KillSwitch,
      ReportAttempt, holdVars

LEMMA EveryStepIsCustody ==
  ASSUME TypeOK, TypeOK', EmptySlotsHoldNothing, [Next]_vars
  PROVE  [Custody!Next]_Custody!custodyVars
BY HoldsChangeInCalls, IdleIsCustody, SpendingIsCustody, BookkeepingIsCustody

LEMMA InitIsCustody == Init => Custody!Init
<1> SUFFICES ASSUME Init PROVE Custody!Init
  OBVIOUS
<1>1. \A i \in HoldId : ~Created(i)
  BY DEF Init, Created, HoldId
<1>2. CustodyStage = [i \in HoldId |-> "unborn"]
  BY <1>1 DEF CustodyStage
<1>3. CustodyPromise = [i \in HoldId |-> [to |-> ZeroAddress, amount |-> 0]]
  BY <1>1 DEF CustodyPromise
<1>4. usdc \in Balances
  BY NumberAssumption DEF Init
<1>5. QED
  BY <1>2, <1>3, <1>4 DEF Custody!Init, Custody!Balances, Custody!NoPromise, Balances

\* The account keeps every hold in custody as HoldCustody promises: paid at
\* most once, in full, to the payee it was created with, or not at all.
THEOREM ImplementsCustody == Spec => HoldsAreKeptInCustody
<1>1. IInv /\ IInv' /\ [Next]_vars => [Custody!Next]_Custody!custodyVars
  BY EveryStepIsCustody DEF IInv
<1>2. QED
  BY <1>1, InitIsCustody, InitIInv, NextIInv, PTL
  DEF Spec, HoldsAreKeptInCustody, Custody!Spec
=============================================================================
