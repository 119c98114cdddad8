----------------------------- MODULE MCServices -----------------------------
(***************************************************************************)
(* The services on small instances.  The amounts of the engine's claims go *)
(* through every remainder of the deductible's rounding; the days of the   *)
(* pricing events lie on the edges of its windows.                         *)
(***************************************************************************)
EXTENDS Services

CONSTANTS us, rival, noone, noresolver, foreign, ga, gb, ravi, kay, lagos, nairobi, alice, bob

\* Resume: the text of each field, before and after a claim.
MCResume(claimed) ==
  [k \in {"INSURED", "DRIVING", "CLAIMS", "ALIBI", "BACKING", "STATUS"} |->
     IF k = "CLAIMS" THEN claimed ELSE k]
MCResumes == {MCResume("none"), MCResume("one")}
MCFirstNames ==
  {[owner |-> noone, resolver |-> noresolver]}
    \cup [owner : {us}, resolver : {noresolver, Proxy, foreign}]

\* Pricing: thirty and a hundred and eighty days before the last.
MCEvents ==
  [kind : {"clean_day", "attempted_breach", "covered_claim", "denied_claim",
           "mitigation", "watch_only", "kya_verified", "sdk_installed", "recovered"},
   at : {0, 1, 150, 151, 180}]

\* Coverage: two spellings of one account, an account of somebody else, a
\* body that does not validate and one only the chain refuses.
Order(account, spelling, platform, perTx, velocity) ==
  [wallet |-> [account |-> account, spelling |-> spelling], platform |-> platform,
   watchOnly |-> spelling = "upper", cap |-> 100, perTx |-> perTx, daily |-> 200,
   velocity |-> velocity, allowlist |-> {alice}, deductibleBps |-> 1000,
   holdWindowSec |-> 60]
MCOrders ==
  {Order(ga, "lower", lagos, 50, 5), Order(ga, "upper", nairobi, 50, 5),
   Order(gb, "lower", lagos, 50, 5), Order(ga, "lower", lagos, 150, 5),
   Order(ga, "mixed", lagos, 50, 0)}
MCOwnerOf == [a \in {ga, gb} |-> IF a = ga THEN kay ELSE ravi]

\* Engine.
MCEnginePolicies ==
  [coverageCap : {6, 100}, deductibleBps : {0, 1000, 3333, 5000}, perTxLimit : {4},
   allowlist : {[a \in {alice} |-> 8]}, curfewStart : {1440}, curfewEnd : {1440}]
MCTransfers ==
  [to : {alice, bob}, amount : 0 .. 21, at : {0},
   instruction : {NoInstruction, [ownerSigned |-> TRUE], [ownerSigned |-> FALSE]}]
MCKnownFacts ==
  [firstSeen : {Never}, hours : {{}}, strikes : {0, 3}, drainer : BOOLEAN, amounts : {<<>>}]

\* Verdicts: two accounts may have holds of the same number.
Accepted(n, byte) ==
  [event |-> "VerdictAccepted", agent |-> ga,
   digest |-> [of |-> "verdict", id |-> n], byte |-> byte]
Routed(n, clean, account) ==
  [event |-> "HoldVerdictRouted", agent |-> account, holdId |-> n, clean |-> clean]
MCVerdictLogs ==
  {Accepted(1, 1), Accepted(2, 4), Routed(1, FALSE, ga), Routed(2, TRUE, ga),
   Routed(2, TRUE, gb)}

=============================================================================
