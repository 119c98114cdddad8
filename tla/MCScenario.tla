----------------------------- MODULE MCScenario -----------------------------
(***************************************************************************)
(* The demo with its real amounts, limits and periods, in whole dollars    *)
(* and seconds.  The stack is created a few thousand seconds before        *)
(* midnight; a delay may pass the freshness of a verdict (600), the window *)
(* of a hold and its extension (120 and 3600), and midnight.               *)
(***************************************************************************)
EXTENDS DemoScenario

CONSTANTS zero, guard, pool_, vc, amara, atlas, watcherA, watcherB, ravi, senior,
          alice, bob, fresh, attacker, alike

MCAddress == {zero, guard, pool_, vc, amara, atlas, watcherA, watcherB, ravi,
              senior, alice, bob, fresh, attacker, alike}
MCCallers == MCAddress \ {zero, guard, pool_, vc}
Broke == [a \in MCAddress |-> 0]

DemoPolicy ==
  [version |-> 1, agent |-> guard, owner |-> amara,
   coverageCap |-> 2500, deductibleBps |-> 1000,
   perTxLimit |-> 200, dailyLimit |-> 1000, velocityLimit |-> 5,
   allowlist |-> (alice :> 200) @@ (bob :> 400),
   curfewStart |-> 1440, curfewEnd |-> 1440, holdWindowSec |-> 120]
OnePolicy == {DemoPolicy}

\* In 500000 units of gas: 2.5, 3 and 0.5 million for the roles; the owner
\* keeps 12 million for a deployment, 1 million otherwise.
MCGasNeeded == (atlas :> 5) @@ (watcherA :> 6) @@ (ravi :> 1) @@ (senior :> 1)
MCReserve == (TRUE :> 24) @@ (FALSE :> 2)

\* The watcher is funded, the others are not: one unit short for a fresh run;
\* just enough.
Short == [Broke EXCEPT ![amara] = 30, ![watcherA] = 9]
Enough == [Short EXCEPT ![amara] = 31]
MCNative == {Short, Enough}

=============================================================================
