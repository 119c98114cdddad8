--------------------------- MODULE MCGuardAccount ---------------------------
(***************************************************************************)
(* Model-checking instance of GuardAccount and its observed outflow.       *)
(***************************************************************************)
EXTENDS GuardOutflow, TLC

CONSTANTS zero, guard, owner, agent, vc, known, fresh

MCAddress == {zero, guard, owner, agent, vc, known, fresh}
MCCallers == {owner, agent, vc, known, fresh}
MCPayees == {known, fresh}
KnownPayee == {known}
MCOwnerKeys == {agent}
MCWatchers == {vc}
MCOpening == [a \in MCAddress |-> IF a = guard THEN 2 ELSE 0]
RichOpening == [a \in MCAddress |-> IF a = guard THEN 3 ELSE 0]

\* The deployed shape in miniature: one allowlisted payee with a cap above
\* the per-transaction limit, no curfew.
BasePolicy ==
  [perTxLimit |-> 1, dailyLimit |-> 2, velocityLimit |-> 2,
   allowlist |-> (known :> 2), curfewStart |-> NO_CURFEW,
   curfewEnd |-> NO_CURFEW, holdWindowSec |-> 1]

\* A tighter one: listed without a cap of its own, a curfew over midnight.
NightPolicy ==
  [perTxLimit |-> 2, dailyLimit |-> 2, velocityLimit |-> 1,
   allowlist |-> (known :> 0), curfewStart |-> NO_CURFEW - 1,
   curfewEnd |-> 0, holdWindowSec |-> 2]

OnePolicy == {BasePolicy}
TwoPolicies == {BasePolicy, NightPolicy}

-----------------------------------------------------------------------------
(***************************************************************************)
(* What the repository says and the contract does not do.                  *)
(***************************************************************************)

\* UnbackedHold.t.sol and the comment on _spendableUsdc: what the pending
\* holds lock is never more than the account has.
LocksAreBacked == totalLocked <= usdc[Guard]

\* BulwarkTypes.Policy: dailyLimit is a hard cap per UTC day.  Stated for a
\* registry that only ever holds one policy, so that no later tightening of
\* the limit explains an excess.
DailyLimitIsHard == \A p \in Policies : outflow.amount <= p.dailyLimit

\* GuardAccount.t.sol: the watcher can still release within the extension.
ExtensionIsUsable ==
  \A i \in Pending :
    Created(i) /\ now <= holds[i].extendedTo =>
      now <= holds[i].releaseAt + HOLD_EXTEND_SEC

-----------------------------------------------------------------------------
(***************************************************************************)
(* Liveness.  lapseHold is open to everybody; the fairness assumed is that *)
(* time passes and that somebody calls it on a hold that can lapse.  The   *)
(* clock is bounded, so a behaviour whose callers dawdle past the bound is *)
(* cut: WithinHorizon asks that a pending hold gets its two lapses before  *)
(* MaxTime, which some large enough MaxTime grants every fair behaviour.   *)
(***************************************************************************)
LastLapse == MaxTime - HOLD_EXTEND_SEC - 1

WithinHorizon ==
  \A i \in Pending :
    Created(i) =>
      IF holds[i].extendedTo = 0
      THEN holds[i].releaseAt < LastLapse /\ now <= LastLapse
      ELSE holds[i].extendedTo < MaxTime

LiveLapse(i) ==
  LapseHold(i) /\ UNCHANGED <<envVars, outflow>> /\ WithinHorizon'

LiveSpec ==
  /\ OutflowInit
  /\ [][OutflowNext /\ WithinHorizon']_outflowVars
  /\ WF_outflowVars(CountedTick /\ WithinHorizon')
  /\ \A i \in HoldId : WF_outflowVars(LiveLapse(i))

\* No hold stays pending for ever: without a verdict and without the owner, the
\* lapse of its window and of its extension ends it.  Revoking the policy, the
\* agent or the watcher does not stand in the way.
PendingIsSettled ==
  \A i \in HoldId :
    (Created(i) /\ holds[i].status = "PENDING") ~> (holds[i].status # "PENDING")
=============================================================================
