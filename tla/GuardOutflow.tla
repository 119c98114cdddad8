---------------------------- MODULE GuardOutflow ----------------------------
(***************************************************************************)
(* GuardAccount with one history variable: what really left the account on *)
(* this UTC day outside the owner's withdrawals.  The contract does not    *)
(* have it; its lazily reset counters and the policy's limits are compared *)
(* with it here.                                                           *)
(***************************************************************************)
EXTENDS GuardAccount

VARIABLE outflow   \* [amount, count] paid by Spending steps on this UTC day

NoOutflow == [amount |-> 0, count |-> 0]

OutflowInit == Init /\ outflow = NoOutflow

CountedSpending ==
  /\ Spending
  /\ UNCHANGED envVars
  /\ outflow' = [amount |-> outflow.amount + usdc[Guard] - usdc'[Guard],
                 count |-> outflow.count + 1]

\* Midnight starts the observation over.
CountedTick ==
  /\ Tick
  /\ outflow' = IF now' \div DAY_SEC = Today THEN outflow ELSE NoOutflow

Uncounted ==
  /\ \/ (Bookkeeping \/ Withdrawal) /\ UNCHANGED envVars
     \/ PolicyChanges
     \/ StrikesChange
     \/ Fund
  /\ UNCHANGED outflow

OutflowNext == CountedSpending \/ CountedTick \/ Uncounted

outflowVars == <<vars, outflow>>

OutflowSpec == OutflowInit /\ [][OutflowNext]_outflowVars

-----------------------------------------------------------------------------
\* The daily counters, reset lazily and kept by three different paths, agree
\* with what left the account since midnight: _spendDaily is called exactly
\* once per payment, also when the payment is a release or an approval.
CountersTrackOutflow ==
  /\ SpentToday = outflow.amount
  /\ CountToday = outflow.count

\* The routine lane never takes the day's real outflow, held payments
\* included, over the live policy's daily limit or its velocity limit.
RoutineStaysInBudget ==
  [][outflow' # outflow /\ now' = now /\ holds' = holds =>
       /\ outflow'.amount <= policy.dailyLimit
       /\ outflow'.count <= policy.velocityLimit]_outflowVars

\* A revoked authority stays revoked: no rotation of the key brings it back,
\* no new hold is made, and apart from the owner's withdrawals money leaves
\* only by settling a hold made before.
RevocationIsFinal ==
  [][authorityRevoked =>
       /\ authorityRevoked'
       /\ nextHoldId' = nextHoldId
       /\ now' = now /\ usdc'[Guard] < usdc[Guard] /\ outflow' # outflow
            => holds' # holds]_outflowVars
=============================================================================
