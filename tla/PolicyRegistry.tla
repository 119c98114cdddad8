--------------------------- MODULE PolicyRegistry ---------------------------
(***************************************************************************)
(* contracts/src/PolicyRegistry.sol: the live policy of every account, and *)
(* the commitment of each version ever attached.  A version history starts *)
(* again at 1 after a revocation.                                          *)
(***************************************************************************)
EXTENDS Naturals

CONSTANTS
  ZeroAddress,   \* address(0)
  Agents,        \* the guard accounts
  OwnerOf,       \* OwnerOf[a]: the immutable OWNER of guard account a
  Policies,      \* the policies a caller may pass, version included
  NoPolicy,      \* a deleted or never written policy slot
  MaxVersion     \* bound: versions attached in a row

VARIABLES
  policies,      \* _policies
  policyHashAt,  \* policyHashAt[agent][version], version 0 is never written
  latestVersion  \* 0 when there is no policy

registryVars == <<policies, policyHashAt, latestVersion>>

\* hashPolicy is keccak256 of the whole struct: two policies have the same
\* commitment only when they agree in every field.  NoHash is the zero word.
HashPolicy(p) == [commits |-> p]
NoHash == [commits |-> NoPolicy]

RegistryTypeOK ==
  /\ policies \in [Agents -> Policies \cup {NoPolicy}]
  /\ latestVersion \in [Agents -> 0 .. MaxVersion]
  /\ policyHashAt \in
       [Agents -> [0 .. MaxVersion -> [commits : Policies \cup {NoPolicy}]]]

-----------------------------------------------------------------------------
Share(amount, bps) == (amount * bps) \div 10000

\* _validate.
Valid(agent, p) ==
  /\ agent # ZeroAddress
  /\ p.agent = agent
  /\ p.owner # ZeroAddress
  /\ p.version # 0
  /\ p.perTxLimit # 0
  /\ p.dailyLimit # 0 /\ p.perTxLimit <= p.dailyLimit
  /\ p.velocityLimit # 0
  /\ p.holdWindowSec # 0
  /\ p.coverageCap # 0
  /\ p.deductibleBps <= 5000
  /\ p.perTxLimit <= p.coverageCap + Share(p.coverageCap, p.deductibleBps)

\* An update is for the owner the stored policy names; the first version is
\* for the account's own owner, whom it must name.
MayAttach(caller, agent, p) ==
  IF p.version > 1
  THEN caller = policies[agent].owner
  ELSE caller \in {OwnerOf[agent], agent} /\ p.owner = OwnerOf[agent]

Attach(caller, agent, p) ==
  /\ Valid(agent, p)
  /\ p.version = latestVersion[agent] + 1
  /\ p.version <= MaxVersion
  /\ MayAttach(caller, agent, p)
  /\ policies' = [policies EXCEPT ![agent] = p]
  /\ policyHashAt' = [policyHashAt EXCEPT ![agent][p.version] = HashPolicy(p)]
  /\ latestVersion' = [latestVersion EXCEPT ![agent] = p.version]

\* The slot and the version are cleared, the commitments are not.
Revoke(caller, agent) ==
  /\ latestVersion[agent] # 0
  /\ caller \in {policies[agent].owner, agent}
  /\ policies' = [policies EXCEPT ![agent] = NoPolicy]
  /\ latestVersion' = [latestVersion EXCEPT ![agent] = 0]
  /\ UNCHANGED policyHashAt

\* getPolicy reverts when this is NoPolicy.
GetPolicy(agent) == IF latestVersion[agent] = 0 THEN NoPolicy ELSE policies[agent]

\* What a verdict is pinned to: policyHashAt(agent, latestVersion(agent)).
LiveHash(agent) == policyHashAt[agent][latestVersion[agent]]

RegistryInit ==
  /\ policies = [a \in Agents |-> NoPolicy]
  /\ policyHashAt = [a \in Agents |-> [v \in 0 .. MaxVersion |-> NoHash]]
  /\ latestVersion = [a \in Agents |-> 0]

\* A transaction to the registry.
RegistryCall(callers) ==
  \E caller \in callers, agent \in Agents :
    \/ \E p \in Policies : Attach(caller, agent, p)
    \/ Revoke(caller, agent)
=============================================================================
