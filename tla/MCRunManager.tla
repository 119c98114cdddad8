---------------------------- MODULE MCRunManager ----------------------------
(***************************************************************************)
(* Two runs, two dashboard processes one after the other: every crash      *)
(* point, a restart over a worker that is still alive, and a worker        *)
(* somebody started by hand.                                               *)
(***************************************************************************)
EXTENDS RunManager, TLC

CONSTANTS r1, r2

MCRun == {r1, r2}
HandStarted == {r2}

\* The second run says less: it is there to meet what the first one left.
Lines == (r1 :> 2) @@ (r2 :> 0)

=============================================================================
