---------------------------- MODULE EngineClaims ----------------------------
(***************************************************************************)
(* packages/engine at work on claims: a transfer, the policy of its agent  *)
(* and the facts of the moment make a judgement (judgeBreach).  The claim  *)
(* it describes is paid only if the verdict contract finds it consistent   *)
(* with the policy, by arithmetic of its own.                              *)
(***************************************************************************)
EXTENDS Engine, FiniteSets

CONSTANTS
  EnginePolicies,   \* policies as attached
  Transfers,        \* transfers a claim may be about
  KnownFacts,       \* what the watcher may know
  MaxClaims         \* bound

ASSUME PoliciesAssumption ==
  \A p \in EnginePolicies : p.coverageCap \in Nat /\ p.deductibleBps \in 0 .. 5000
ASSUME TransfersAssumption == \A t \in Transfers : t.amount \in Nat

VARIABLE claims   \* the claims judged: [policy, judgement]

JudgeClaim(p, t, f) ==
  /\ Cardinality(claims) < MaxClaims
  /\ claims' = claims \cup {[policy |-> p, judgement |-> JudgeBreach(p, t, f)]}

ClaimsInit == claims = {}

ClaimsNext ==
  \E p \in EnginePolicies, t \in Transfers, f \in KnownFacts : JudgeClaim(p, t, f)

ClaimsSpec == ClaimsInit /\ [][ClaimsNext]_claims

-----------------------------------------------------------------------------
\* The cross-field validation of VerdictContract.submitVerdict: the deductible
\* of the payout fits into the loss with it, and a covered claim is one whose
\* instruction is known not to be the owner's.
DeductibleOf(payout, p) == (payout * p.deductibleBps) \div BPS

Admissible(p, j) ==
  /\ j.payoutAmount <= p.coverageCap
  /\ IF j.outcome = "COVERED"
     THEN /\ j.alibi = "EXTERNAL"
          /\ j.payoutAmount + DeductibleOf(j.payoutAmount, p) <= j.lossAmount
     ELSE /\ j.payoutAmount = 0
          /\ j.outcome = "DENIED_OWNER_ORIGIN" => j.alibi = "OWNER_SIGNED"

\* The engine rounds the deductible down on the loss, the contract on the
\* payout, and only the engine has a capped tier for claims without provenance
\* (judgeBreach, computePayout).  What the contract turns down of the engine's
\* judgements is exactly that tier, and not for its amounts: with an external
\* instruction every one would pass.  The owner's own order costs nothing.
OnlyUnprovenClaimsAreRefused ==
  \A c \in claims :
    /\ Admissible(c.policy, c.judgement)
         <=> ~(c.judgement.outcome = "COVERED" /\ c.judgement.alibi = "UNKNOWN")
    /\ c.judgement.outcome = "COVERED" =>
         Admissible(c.policy, [c.judgement EXCEPT !.alibi = "EXTERNAL"])
    /\ c.judgement.alibi = "OWNER_SIGNED" => c.judgement.payoutAmount = 0

=============================================================================
