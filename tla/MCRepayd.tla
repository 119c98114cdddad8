------------------------------ MODULE MCRepayd ------------------------------
(***************************************************************************)
(* Model-checking instances of Repayd.  Settlement leaves the account idle *)
(* and feeds the verdict contract claims; HoldVerdicts leaves the pool     *)
(* idle and lets verdicts, strikes and revocations meet the holds.         *)
(***************************************************************************)
EXTENDS Repayd, TLC

CONSTANTS zero, guard, pool_, vc, amara, atlas, watcherA, watcherB, ravi, dest

MCAddress == {zero, guard, pool_, vc, amara, atlas, watcherA, watcherB, ravi, dest}
OneWatcher == {watcherA}
TwoWatchers == {watcherA, watcherB}
OwnerOnly == {amara}
Nobody == {}
VerdictOnly == {vc}
Recipient == {dest}
OwnerAndWatchers == {amara, watcherA, watcherB}
OwnerAgentWatcher == {amara, atlas, watcherA}

Wired == {pool_}
PerhapsWired == {zero, pool_}

MCOpening == [a \in MCAddress |-> IF a = guard THEN 2 ELSE 0]
EmptyOpening == [a \in MCAddress |-> 0]

\* Half of each claim is the owner's own.
PolicyVersion(v) ==
  [version |-> v, agent |-> guard, owner |-> amara,
   coverageCap |-> 2, deductibleBps |-> 5000,
   perTxLimit |-> 1, dailyLimit |-> 2, velocityLimit |-> 2,
   allowlist |-> (dest :> 1), curfewStart |-> 2, curfewEnd |-> 2,
   holdWindowSec |-> 1]

MCFirstPolicy == PolicyVersion(1)

\* Version 2 insures less; a deductible above one half is refused.
TwoVersions == {PolicyVersion(1), [PolicyVersion(2) EXCEPT !.coverageCap = 1]}
MCPolicies == TwoVersions \cup {[PolicyVersion(2) EXCEPT !.deductibleBps = 6000]}

\* Another version 1, for the account that starts over after a revocation.
TwoFirstVersions == {PolicyVersion(1), [PolicyVersion(1) EXCEPT !.deductibleBps = 0]}

Says(outcome, alibi, tx, loss, payout, strike) ==
  [agent |-> guard, claimant |-> amara, txHash |-> tx, destination |-> dest,
   lossAmount |-> loss, payoutAmount |-> payout, alibi |-> alibi,
   outcome |-> outcome, strike |-> strike]

\* Claims the contract takes: two payouts for one breach, a denial of it, one
\* payout for another.  Claims it refuses: a payout that leaves no room for
\* the deductible, and a covered breach without an external origin.
ClaimInputs ==
  {Says("COVERED", "EXTERNAL", "t1", 3, 2, FALSE),
   Says("COVERED", "EXTERNAL", "t1", 3, 1, FALSE),
   Says("COVERED", "EXTERNAL", "t2", 2, 2, FALSE),
   Says("COVERED", "EXTERNAL", "t2", 1, 1, FALSE),
   Says("COVERED", "UNKNOWN", "t2", 3, 1, FALSE),
   Says("DENIED_OWNER_ORIGIN", "OWNER_SIGNED", "t1", 3, 0, FALSE)}

BreachInputs == {Says("ATTEMPTED_BREACH", "EXTERNAL", "t1", 1, 0, TRUE)}
=============================================================================
