------------------------------ MODULE Services ------------------------------
(***************************************************************************)
(* The off-chain services of the repository, side by side.  They run in    *)
(* processes of their own, share no state and meet only on chains that are *)
(* modelled with each of them: a behaviour here is one of a single         *)
(* service, and nothing of their interleaving is lost by that.             *)
(***************************************************************************)
EXTENDS EngineClaims

CONSTANTS
  Us, Rival, NoOne, Proxy, NoResolver, Foreign, Label, Labels, Price, Funds, Resumes,
  FirstNames, MaxRuns,
  PricingEvents, MaxEvents,
  NoDigest, Texts, Origins, CommitTimes, TeeAttached, MaxCommits, MaxInFlight, MaxStops,
  ZeroAddress, Agents, OwnerOf, Policies, NoPolicy, MaxVersion,
  Orders, Signer, BridgeOn, Platforms, NoAccount, StartOfDay, Day, MaxOrders,
  Ops, Amara, NoWallet, VerdictLogs, MaxVerdictLogs, MaxSweeps, MaxRestarts

\* The accounts differ, and so do our proxy's address, the zero address and
\* any other resolver's; before the first run a name is bound to any of them.
ASSUME NamesAssumption ==
  /\ Us # Rival /\ Us # NoOne /\ Rival # NoOne
  /\ Proxy # NoResolver /\ Foreign \notin {Proxy, NoResolver}
  /\ FirstNames \subseteq
       [owner : {Us, Rival, NoOne}, resolver : {NoResolver, Proxy, Foreign}]

\* The schema of an order, and a platform without books differs from any with.
ASSUME OrdersAssumption ==
  /\ \A o \in Orders : o.platform \in Platforms /\ o.cap \in Nat
  /\ NoAccount \notin [agentCount : Int, premiumVolume : Int]

VARIABLES
  service,
  name, proxy, commitment, allowance, balance, mempool,
  step, stage, resolver, facts, sent, receipt, runs, result,
  log,
  up, chain, file, inFlight, begun, stops, kept,
  store, accounts, requests, pool, policies, policyHashAt, latestVersion,
  rlog, indexed, entities, mode, vlog, polled, queue, task, posted, life, txs,
  seen, postedDigests, flags, pending, covered, phase, sweeps, exitZero, verdict

Ens == INSTANCE EnsRecord
Premium == INSTANCE Pricing
Alibi == INSTANCE AlibiStore
Api == INSTANCE CoverageAPI
Mirror == INSTANCE Orchestrator

ensVars == <<name, proxy, commitment, allowance, balance, mempool,
             step, stage, resolver, facts, sent, receipt, runs, result>>
alibiVars == <<up, chain, file, inFlight, begun, stops, kept>>
apiVars == <<store, accounts, requests, pool, policies, policyHashAt, latestVersion>>
mirrorVars == <<rlog, indexed, entities, mode, vlog, polled, queue, task, posted,
                life, txs, seen, postedDigests, flags, pending, covered, phase,
                sweeps, exitZero, verdict>>

OthersIdle(s) ==
  /\ s # "ens" => UNCHANGED ensVars
  /\ s # "pricing" => UNCHANGED log
  /\ s # "alibi" => UNCHANGED alibiVars
  /\ s # "api" => UNCHANGED apiVars
  /\ s # "engine" => UNCHANGED claims
  /\ s # "mirror" => UNCHANGED mirrorVars

Names == {"ens", "pricing", "alibi", "api", "engine", "mirror"}

\* A service that does not run is in one of its initial states.
ServicesInit ==
  /\ service \in Names
  /\ Ens!EnsInit /\ Premium!PricingInit /\ Alibi!AlibiInit /\ Api!ApiInit
  /\ ClaimsInit /\ Mirror!OrchestratorInit
  /\ service # "ens" => /\ name = CHOOSE n \in FirstNames : n.resolver # Proxy
                        /\ proxy = Ens!NoRecords
                        /\ balance = CHOOSE b \in Funds : TRUE
  /\ service # "mirror" => mode = "live"

Serves(s) == service = s /\ UNCHANGED service /\ OthersIdle(s)

ServicesNext ==
  \/ Serves("ens") /\ Ens!EnsNext
  \/ Serves("pricing") /\ Premium!PricingNext
  \/ Serves("alibi") /\ Alibi!AlibiNext
  \/ Serves("api") /\ Api!ApiNext
  \/ Serves("engine") /\ ClaimsNext
  \/ Serves("mirror") /\ Mirror!OrchestratorNext

servicesVars == <<service, ensVars, log, alibiVars, apiVars, claims, mirrorVars>>

ServicesSpec == ServicesInit /\ [][ServicesNext]_servicesVars

-----------------------------------------------------------------------------
\* The name a registration reports is ours and bound to the resolver it
\* reports, and a run that deployed that resolver finds its resume there
\* (EnsRecord).
RegisteredNameIsBound == Ens!RegisteredNameIsBound

\* A claim, a denial or an attempt that is indexed without moving the instant
\* the premium is evaluated at never makes the agent cheaper to insure: the
\* streak, the windows, the mitigation and the loads of computePremium work
\* against each other, and their product only grows (Pricing).
InfractionNeverPaysLess == [][Premium!PaysNoLess]_log

\* An instruction of the owner stays the owner's (AlibiStore).
OwnerTextStaysOwners == Alibi!OwnerTextStaysOwners

\* A platform is billed on the fleet it has (CoverageAPI).
BooksMatchStore == Api!BooksMatchStore

\* The driving record repeats the verdict contract (Orchestrator).
MirrorIsFaithful == Mirror!MirrorIsFaithful

=============================================================================
