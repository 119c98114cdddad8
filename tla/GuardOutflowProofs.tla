------------------------- MODULE GuardOutflowProofs -------------------------
(***************************************************************************)
(* Theorems about the daily counters of GuardAccount and the outflow they  *)
(* stand for, for every policy, every clock and every number of holds.     *)
(***************************************************************************)
EXTENDS GuardOutflow, GuardAccountProofs

(***************************************************************************)
(* The counters never understate the outflow.  The stored day must not lie *)
(* in the future, or a midnight could bring old counters back.             *)
(***************************************************************************)
OutflowIsCounted ==
  /\ outflow \in [amount : Nat, count : Nat]
  /\ outflow.amount <= SpentToday
  /\ outflow.count = CountToday
  /\ day <= Today

\* A payment of the account to itself is counted and leaves nothing out: the
\* counters are exact where it has no such payee.
OutflowIsExact ==
  /\ outflow.amount = SpentToday
  /\ \A i \in HoldId : holds[i].to # Guard

OInv ==
  /\ TypeOK
  /\ OutflowIsCounted
  /\ Guard \notin Payees => OutflowIsExact

-----------------------------------------------------------------------------
LEMMA MidnightArithmetic ==
  ASSUME NEW a \in Nat, NEW d \in Nat \ {0}
  PROVE  a \div d \in Nat /\ (a + 1) \div d \in Nat /\ a \div d <= (a + 1) \div d
BY SMT

\* What every payment of Spending does.
LEMMA PaymentIsCounted ==
  ASSUME TypeOK, NEW caller, SpendingBy(caller)
  PROVE  \E to \in Address, amount \in Nat :
           /\ Covers(usdc, Guard, amount)
           /\ SpendDaily(amount)
           /\ usdc' = Moved(usdc, Guard, to, amount)
           /\ to \in Payees \/ \E i \in HoldId : to = holds[i].to
<1>1. ASSUME NEW to \in Payees, NEW amount \in Amount,
             ProposeRoutine(caller, to, amount)
      PROVE  /\ to \in Address /\ amount \in Nat /\ Covers(usdc, Guard, amount)
             /\ SpendDaily(amount) /\ usdc' = Moved(usdc, Guard, to, amount)
  BY <1>1, AddressAssumption, NumberAssumption DEF ProposeRoutine
<1>2. ASSUME NEW i \in HoldId, Execute(i)
      PROVE  /\ holds[i].to \in Address /\ holds[i].amount \in Nat
             /\ Covers(usdc, Guard, holds[i].amount) /\ SpendDaily(holds[i].amount)
             /\ usdc' = Moved(usdc, Guard, holds[i].to, holds[i].amount)
  BY <1>2, HoldTyped DEF Execute
<1>3. CASE \E to \in Payees, amount \in Amount : ProposeRoutine(caller, to, amount)
  BY <1>1, <1>3
<1>4. CASE \E i \in HoldId : Execute(i)
  BY <1>2, <1>4
<1>5. QED
  BY <1>3, <1>4 DEF SpendingBy, ReleaseHold, Approve

\* A hold's payee is named once, from Payees.
LEMMA PayeesAreKept ==
  ASSUME TypeOK, TypeOK', NEW caller, SpendingBy(caller) \/ BookkeepingBy(caller),
         NEW j \in HoldId
  PROVE  holds'[j].to = holds[j].to \/ holds'[j].to \in Payees
<1>1. ASSUME NEW i \in HoldId, NEW s, SetStatus(i, s)
      PROVE  holds'[j].to = holds[j].to
  BY <1>1 DEF SetStatus, TypeOK, Hold
<1>2. ASSUME NEW i \in HoldId, LapseExtend(i)
      PROVE  holds'[j].to = holds[j].to
  BY <1>2 DEF LapseExtend, TypeOK, Hold
<1>3. ASSUME NEW to \in Payees, NEW amount \in Amount,
             ProposeElevated(caller, to, amount)
      PROVE  holds'[j].to = holds[j].to \/ holds'[j].to \in Payees
  BY <1>3 DEF ProposeElevated, NewHold, TypeOK
<1>4. CASE SpendingBy(caller)
  BY <1>1, <1>4 DEF SpendingBy, ProposeRoutine, ReleaseHold, Approve, holdVars
<1>5. CASE BookkeepingBy(caller)
  BY <1>1, <1>2, <1>3, <1>5
  DEF BookkeepingBy, FreezeHold, Reject, SetVerdictContract, RotateAgentKey,
      KillSwitch, LapseHold, LapseFreeze, ReportAttempt, holdVars
<1>6. QED
  BY <1>4, <1>5

LEMMA InitOInv == OutflowInit => OInv
<1> SUFFICES ASSUME OutflowInit PROVE OInv
  OBVIOUS
<1>1. TypeOK /\ Today \in Nat
  BY InitTypeOK, TodayIsNatural DEF OutflowInit, TypeOK
<1>2. OutflowIsCounted
  BY <1>1 DEF OutflowInit, Init, OutflowIsCounted, NoOutflow, SpentToday, CountToday
<1>3. OutflowIsExact
  BY <1>1, AddressAssumption
  DEF OutflowInit, Init, OutflowIsExact, NoOutflow, SpentToday, ZeroHold
<1>4. QED
  BY <1>1, <1>2, <1>3 DEF OInv

\* A payment: the counters and the observation move by the same amount.
LEMMA SpendingOInv ==
  ASSUME OInv, CountedSpending
  PROVE  OInv'
<1>1. PICK caller : SpendingBy(caller)
  BY CallsHaveCallers DEF CountedSpending
<1>2. PICK to \in Address, amount \in Nat :
        /\ Covers(usdc, Guard, amount)
        /\ SpendDaily(amount)
        /\ usdc' = Moved(usdc, Guard, to, amount)
        /\ to \in Payees \/ \E i \in HoldId : to = holds[i].to
  BY <1>1, PaymentIsCounted DEF OInv
<1>3. TypeOK'
  BY <1>1, SpendingTypeOK DEF OInv, CountedSpending
<1>4. /\ Today \in Nat /\ Today' = Today /\ SpentToday \in Nat /\ CountToday \in Nat
      /\ outflow.amount \in Nat /\ outflow.count \in Nat
      /\ outflow.amount <= SpentToday /\ outflow.count = CountToday
  BY TodayIsNatural
  DEF OInv, TypeOK, Today, SpentToday, CountToday, CountedSpending, envVars,
      OutflowIsCounted
<1>5. SpentToday' = SpentToday + amount /\ CountToday' = CountToday + 1 /\ day' = Today
  <2>1. /\ day' = Today
        /\ dailySpent' = SpentToday + amount
        /\ dailyCount' = CountToday + 1
    BY <1>2 DEF SpendDaily
  <2>2. QED
    BY <1>4, <2>1 DEF SpentToday, CountToday
<1>6. /\ outflow'.count = outflow.count + 1
      /\ outflow'.amount = outflow.amount + usdc[Guard] - usdc'[Guard]
      /\ outflow' = [amount |-> outflow'.amount, count |-> outflow'.count]
  BY DEF CountedSpending
<1>7. /\ usdc[Guard] \in Nat
      /\ IF to = Guard THEN usdc'[Guard] = usdc[Guard]
         ELSE usdc'[Guard] = usdc[Guard] - amount
  BY <1>2, AddressAssumption DEF OInv, TypeOK, Balances, Moved
<1>8. OutflowIsCounted'
  <2>1. /\ outflow'.amount \in Nat /\ outflow'.count \in Nat
        /\ outflow'.amount <= SpentToday' /\ outflow'.count = CountToday'
    BY <1>4, <1>5, <1>6, <1>7
  <2>2. outflow' \in [amount : Nat, count : Nat]
    BY <1>6, <2>1
  <2>3. QED
    BY <1>4, <1>5, <2>1, <2>2 DEF OutflowIsCounted
<1>9. ASSUME Guard \notin Payees PROVE OutflowIsExact'
  <2>1. OutflowIsExact
    BY <1>9 DEF OInv
  <2>2. to # Guard
    BY <1>2, <1>9, <2>1 DEF OutflowIsExact
  <2>3. outflow'.amount = SpentToday'
    BY <1>4, <1>5, <1>6, <1>7, <2>1, <2>2 DEF OutflowIsExact
  <2>4. \A i \in HoldId : holds'[i].to # Guard
    BY <1>1, <1>3, <1>9, <2>1, PayeesAreKept DEF OInv, OutflowIsExact
  <2>5. QED
    BY <2>3, <2>4 DEF OutflowIsExact
<1>10. QED
  BY <1>3, <1>8, <1>9 DEF OInv

\* Midnight: counters of an earlier day read as zero, as the observation does.
LEMMA TickOInv ==
  ASSUME OInv, CountedTick
  PROVE  OInv'
<1>1. TypeOK'
  BY EnvironmentTypeOK DEF OInv, CountedTick, Environment
<1>2. /\ Today \in Nat /\ Today' \in Nat /\ Today <= Today'
      /\ day \in Nat /\ day <= Today
  BY MidnightArithmetic, NumberAssumption
  DEF OInv, TypeOK, CountedTick, Tick, Today, OutflowIsCounted
<1>3. UNCHANGED <<day, dailySpent, dailyCount, holds>>
  BY DEF CountedTick, Tick, guardVars, dayVars, holdVars
<1>4. CASE Today' = Today
  <2>1. outflow' = outflow /\ SpentToday' = SpentToday /\ CountToday' = CountToday
    BY <1>3, <1>4 DEF CountedTick, Today, SpentToday, CountToday
  <2>2. QED
    BY <1>1, <1>3, <1>4, <2>1 DEF OInv, OutflowIsCounted, OutflowIsExact
<1>5. CASE Today' # Today
  <2>1. outflow' = NoOutflow
    BY <1>5 DEF CountedTick, Today
  <2>2. SpentToday' = 0 /\ CountToday' = 0
    BY <1>2, <1>3, <1>5 DEF SpentToday, CountToday
  <2>3. QED
    BY <1>1, <1>2, <1>3, <2>1, <2>2
    DEF OInv, OutflowIsCounted, OutflowIsExact, NoOutflow
<1>6. QED
  BY <1>4, <1>5
\* Where nothing is paid, the counters are at most brought up to date.
LEMMA IdleOInv ==
  ASSUME OInv, TypeOK', UNCHANGED <<outflow, now>>, ResetDaily \/ UNCHANGED dayVars,
         \A j \in HoldId : holds'[j].to = holds[j].to \/ holds'[j].to \in Payees
  PROVE  OInv'
<1>1. Today' = Today /\ Today \in Nat
  BY TodayIsNatural DEF OInv, TypeOK, Today
<1>2. SpentToday' = SpentToday /\ CountToday' = CountToday
  BY <1>1 DEF ResetDaily, dayVars, SpentToday, CountToday
<1>3. day' <= Today'
  BY <1>1 DEF ResetDaily, dayVars, OInv, OutflowIsCounted
<1>4. OutflowIsCounted'
  BY <1>2, <1>3 DEF OInv, OutflowIsCounted
<1>5. ASSUME Guard \notin Payees PROVE OutflowIsExact'
  BY <1>2, <1>5 DEF OInv, OutflowIsExact
<1>6. QED
  BY <1>4, <1>5 DEF OInv

LEMMA UncountedOInv ==
  ASSUME OInv, Uncounted
  PROVE  OInv'
<1>1. CASE Bookkeeping /\ UNCHANGED envVars
  <2>1. PICK caller : BookkeepingBy(caller)
    BY <1>1, CallsHaveCallers
  <2>2. TypeOK'
    BY <1>1, <2>1, BookkeepingTypeOK DEF OInv
  <2>3. ResetDaily \/ UNCHANGED dayVars
    BY <2>1
    DEF BookkeepingBy, ProposeElevated, FreezeHold, Reject, SetVerdictContract,
        RotateAgentKey, KillSwitch, LapseHold, LapseExtend, LapseFreeze, ReportAttempt
  <2>4. QED
    BY <1>1, <2>1, <2>2, <2>3, PayeesAreKept, IdleOInv DEF OInv, Uncounted, envVars
<1>2. CASE Withdrawal /\ UNCHANGED envVars
  <2>1. TypeOK'
    BY <1>2, WithdrawalTypeOK DEF OInv
  <2>2. UNCHANGED <<dayVars, holds, now>>
    BY <1>2 DEF Withdrawal, Withdraw, guardVars, holdVars, envVars
  <2>3. QED
    BY <2>1, <2>2, IdleOInv DEF Uncounted
<1>3. CASE PolicyChanges \/ StrikesChange \/ Fund
  <2>1. TypeOK'
    BY <1>3, EnvironmentTypeOK DEF OInv, Environment
  <2>2. UNCHANGED <<dayVars, holds, now>>
    BY <1>3 DEF PolicyChanges, StrikesChange, Fund, guardVars, holdVars, envVars
  <2>3. QED
    BY <2>1, <2>2, IdleOInv DEF Uncounted
<1>4. QED
  BY <1>1, <1>2, <1>3 DEF Uncounted

LEMMA NextOInv == OInv /\ [OutflowNext]_outflowVars => OInv'
<1>1. ASSUME OInv, UNCHANGED outflowVars PROVE OInv'
  <2>1. TypeOK'
    BY <1>1, NextTypeOK DEF OInv, outflowVars
  <2>2. UNCHANGED <<outflow, now, dayVars, holds>>
    BY <1>1 DEF outflowVars, vars, guardVars, holdVars, envVars
  <2>3. QED
    BY <1>1, <2>1, <2>2, IdleOInv
<1>2. QED
  BY <1>1, SpendingOInv, TickOInv, UncountedOInv DEF OutflowNext

LEMMA OInvHolds == OutflowSpec => []OInv
BY InitOInv, NextOInv, PTL DEF OutflowSpec

-----------------------------------------------------------------------------
\* What the account has paid on this day is never more than its counters say,
\* whichever path paid it and whenever the counters were last reset.
THEOREM CountersCoverOutflow == OutflowSpec => []OutflowIsCounted
<1>1. OInv => OutflowIsCounted
  BY DEF OInv
<1>2. QED
  BY <1>1, OInvHolds, PTL

\* The counters are exact for an account that is none of its own payees.
THEOREM CountersAreExact ==
  ASSUME Guard \notin Payees
  PROVE  OutflowSpec => []CountersTrackOutflow
<1>1. OInv => CountersTrackOutflow
  BY DEF OInv, OutflowIsCounted, OutflowIsExact, CountersTrackOutflow
<1>2. QED
  BY <1>1, OInvHolds, PTL

\* The routine lane stays within the policy's daily and velocity limits, counting
\* everything that was paid on that day, released and approved holds included.
THEOREM RoutineLaneStaysInBudget == OutflowSpec => RoutineStaysInBudget
<1>1. ASSUME OInv, [OutflowNext]_outflowVars, outflow' # outflow, now' = now,
             holds' = holds
      PROVE  outflow'.amount <= policy.dailyLimit /\ outflow'.count <= policy.velocityLimit
  <2>1. CountedSpending
    <3>1. now \in Nat
      BY <1>1 DEF OInv, TypeOK
    <3>2. ~CountedTick
      BY <1>1, <3>1 DEF CountedTick, Tick
    <3>3. QED
      BY <1>1, <3>2 DEF OutflowNext, Uncounted, outflowVars
  <2>2. PICK caller : SpendingBy(caller)
    BY <2>1, CallsHaveCallers DEF CountedSpending
  <2>3. PICK to \in Payees, amount \in Amount : ProposeRoutine(caller, to, amount)
    BY <1>1, <2>2, SettlingChangesHolds DEF OInv
  <2>4. policy \in Policies /\ policy.dailyLimit \in Nat /\ policy.velocityLimit \in Nat
    BY <1>1, <2>3, PolicyAssumption DEF OInv, TypeOK, ProposeRoutine, MayPropose
  <2>5. /\ outflow.amount \in Nat /\ outflow.count \in Nat
        /\ outflow.amount <= SpentToday /\ outflow.count = CountToday
        /\ SpentToday \in Nat /\ CountToday \in Nat /\ amount \in Nat
    BY <1>1, NumberAssumption
    DEF OInv, OutflowIsCounted, TypeOK, SpentToday, CountToday
  <2>6. SpentToday + amount <= policy.dailyLimit /\ CountToday + 1 <= policy.velocityLimit
    BY <2>3, <2>4, <2>5 DEF ProposeRoutine, Violation
  <2>7. /\ outflow'.amount = outflow.amount + usdc[Guard] - usdc'[Guard]
        /\ outflow'.count = outflow.count + 1
    BY <2>1 DEF CountedSpending
  <2>8. usdc[Guard] \in Nat /\ usdc'[Guard] \in {usdc[Guard], usdc[Guard] - amount}
    BY <1>1, <2>3, AddressAssumption DEF OInv, TypeOK, Balances, ProposeRoutine, Moved
  <2>9. QED
    BY <2>4, <2>5, <2>6, <2>7, <2>8
<1>2. OInv /\ [OutflowNext]_outflowVars =>
        [outflow' # outflow /\ now' = now /\ holds' = holds =>
           /\ outflow'.amount <= policy.dailyLimit
           /\ outflow'.count <= policy.velocityLimit]_outflowVars
  BY <1>1
<1>3. QED
  BY <1>2, OInvHolds, PTL DEF OutflowSpec, RoutineStaysInBudget

\* After the kill switch or a rejecting owner no call brings the authority back,
\* none creates a hold, and none pays but for a hold made before.
THEOREM RevocationsAreFinal == OutflowSpec => RevocationIsFinal
<1>1. ASSUME OInv, [OutflowNext]_outflowVars, authorityRevoked,
             outflowVars' # outflowVars
      PROVE  /\ authorityRevoked'
             /\ nextHoldId' = nextHoldId
             /\ now' = now /\ usdc'[Guard] < usdc[Guard] /\ outflow' # outflow
                  => holds' # holds
  <2>1. CASE CountedSpending
    <3>1. PICK caller : SpendingBy(caller)
      BY <2>1, CallsHaveCallers DEF CountedSpending
    <3>2. holds' # holds
      BY <1>1, <3>1, SettlingChangesHolds DEF OInv, ProposeRoutine, MayPropose
    <3>3. authorityRevoked' /\ nextHoldId' = nextHoldId
      BY <1>1, <3>1
      DEF SpendingBy, ProposeRoutine, ReleaseHold, Approve, SetStatus, keyVars, holdVars
    <3>4. QED
      BY <3>2, <3>3
  <2>2. CASE CountedTick
    BY <1>1, <2>2 DEF CountedTick, Tick, guardVars, keyVars, holdVars, OInv, TypeOK
  <2>3. CASE Uncounted
    <3>1. outflow' = outflow
      BY <2>3 DEF Uncounted
    <3>2. authorityRevoked' /\ nextHoldId' = nextHoldId
      <4>1. CASE Bookkeeping
        BY <1>1, <4>1
        DEF Bookkeeping, ProposeElevated, MayPropose, FreezeHold, Reject,
            SetVerdictContract, RotateAgentKey, KillSwitch, LapseHold, LapseExtend,
            LapseFreeze, ReportAttempt, SetStatus, keyVars, holdVars
      <4>2. CASE ~Bookkeeping
        BY <1>1, <2>3, <4>2
        DEF Uncounted, Withdrawal, Withdraw, PolicyChanges, StrikesChange, Fund,
            guardVars, keyVars, holdVars
      <4>3. QED
        BY <4>1, <4>2
    <3>3. QED
      BY <3>1, <3>2
  <2>4. QED
    BY <1>1, <2>1, <2>2, <2>3 DEF OutflowNext
<1>2. OInv /\ [OutflowNext]_outflowVars =>
        [authorityRevoked =>
           /\ authorityRevoked'
           /\ nextHoldId' = nextHoldId
           /\ now' = now /\ usdc'[Guard] < usdc[Guard] /\ outflow' # outflow
                => holds' # holds]_outflowVars
  BY <1>1
<1>3. QED
  BY <1>2, OInvHolds, PTL DEF OutflowSpec, RevocationIsFinal
=============================================================================
