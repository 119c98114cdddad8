---------------------------- MODULE MCMutualPool ----------------------------
(***************************************************************************)
(* Model-checking instance of MutualPool: one depositor per tranche role,  *)
(* both free to trade in both tranches, and one claimant.                  *)
(***************************************************************************)
EXTENDS MutualPool

CONSTANTS zero, pool, admin, vc, ravi, senior

MCAddress == {zero, pool, admin, vc, ravi, senior}
MCPoolCallers == MCAddress \ {zero, pool}
MCVerdictContracts == {vc}
MCClaimants == {senior}
MCHooks == {vc}
MCPoolOpening == [a \in MCAddress |-> CASE a = ravi -> 4
                                        [] a = senior -> 2
                                        [] OTHER -> 0]
=============================================================================
