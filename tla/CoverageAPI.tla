----------------------------- MODULE CoverageAPI -----------------------------
(***************************************************************************)
(* packages/api: the coverage API.  A platform asks for a policy for its   *)
(* agent; the request is validated (schemas.ts), priced and stored in      *)
(* memory (store.ts), and with the bridge configured attached to the       *)
(* policy registry on chain (coverage-bridge.ts).  The store is changed    *)
(* before the first await of a request, the chain is read and written      *)
(* after several.                                                          *)
(*                                                                         *)
(* A wallet is [account, spelling]: the same address in another case of    *)
(* its letters is another string to the store and the same account to the  *)
(* chain.                                                                  *)
(***************************************************************************)
EXTENDS PolicyRegistry, Sequences, FiniteSetsExt

CONSTANTS
  Orders,          \* the bodies a platform may post
  Signer,          \* the account of COVERAGE_PLATFORM_KEY
  BridgeOn,        \* both settings of the bridge are present
  Platforms, NoAccount,
  StartOfDay, Day,
  MaxOrders        \* bound: requests accepted or refused

VARIABLES
  store,      \* the policies in order of their ids: [order, premium, status]
  accounts,   \* per platform: NoAccount or [agentCount, premiumVolume]
  requests,   \* the requests: [id, order, stage, version, answer]
  pool        \* attach transactions sent, in order of their nonces

chainVars == <<policies, policyHashAt, latestVersion>>
apiVars == <<store, accounts, requests, pool, policies, policyHashAt, latestVersion>>

Quotes == INSTANCE EnginePricing

REV_SHARE_BPS == 2000
NO_CURFEW == 1440

\* parseCoverageRequest: the rules between fields; the rest is typing.  A
\* velocity of zero passes.
Parsed(o) ==
  /\ o.perTx # 0 /\ o.cap # 0 /\ o.daily # 0
  /\ o.daily >= o.perTx
  /\ o.perTx <= o.cap
  /\ o.deductibleBps \in 0 .. 5000
  /\ o.holdWindowSec \in 30 .. 3600

-----------------------------------------------------------------------------
(***************************************************************************)
(* store.ts                                                                *)
(***************************************************************************)
Covered(wallet) ==
  \E i \in DOMAIN store : store[i].order.wallet = wallet /\ store[i].status = "ACTIVE"

\* A new agent starts with a clean record.
Premium(o) ==
  Quotes!MonthlyPremium(
    [streak |-> 0, anomaly |-> 0, attempts |-> {}, claims |-> {}, lifetime |-> 0,
     human |-> TRUE, sdk |-> ~o.watchOnly, watchOnly |-> o.watchOnly,
     now |-> StartOfDay], o.cap)

Account(platform) ==
  IF accounts[platform] = NoAccount THEN [agentCount |-> 0, premiumVolume |-> 0]
  ELSE accounts[platform]

Booked(platform, agents, volume) ==
  [accounts EXCEPT ![platform] =
     [agentCount |-> Account(platform).agentCount + agents,
      premiumVolume |-> Account(platform).premiumVolume + volume]]

Create(o) ==
  /\ ~Covered(o.wallet)
  /\ store' = Append(store, [order |-> o, premium |-> Premium(o), status |-> "ACTIVE"])
  /\ accounts' = Booked(o.platform, 1, Premium(o))

\* Mutant of Cancel: a policy is cancelled whatever its status.
CancelTwice(i) ==
  /\ i \in DOMAIN store
  /\ store' = [store EXCEPT ![i].status = "CANCELLED"]
  /\ accounts' = Booked(store[i].order.platform, -1, -store[i].premium)

Cancel(i) ==
  /\ i \in DOMAIN store
  /\ store[i].status = "ACTIVE"
  /\ store' = [store EXCEPT ![i].status = "CANCELLED"]
  /\ accounts' = Booked(store[i].order.platform, -1, -store[i].premium)

\* GET /v1/platforms: the fleet is counted, the volume is read from the books.
Fleet(platform) ==
  {i \in DOMAIN store : store[i].order.platform = platform /\ store[i].status = "ACTIVE"}

PlatformView(platform) ==
  [agents |-> Cardinality(Fleet(platform)),
   premiumVolume |-> Account(platform).premiumVolume,
   revShareMonthly |-> (Account(platform).premiumVolume * REV_SHARE_BPS) \div 10000]

-----------------------------------------------------------------------------
(***************************************************************************)
(* coverage-bridge.ts                                                      *)
(***************************************************************************)
\* The account is a contract and its OWNER() is the signer.
OwnershipHolds(o) == o.wallet.account \in Agents /\ OwnerOf[o.wallet.account] = Signer

\* The caps of the allowlist are zero and there is no curfew.
ToOnChainPolicy(o, version) ==
  [version |-> version, agent |-> o.wallet.account, owner |-> Signer,
   coverageCap |-> o.cap, deductibleBps |-> o.deductibleBps,
   perTxLimit |-> o.perTx, dailyLimit |-> o.daily, velocityLimit |-> o.velocity,
   allowlist |-> [a \in o.allowlist |-> 0],
   curfewStart |-> NO_CURFEW, curfewEnd |-> NO_CURFEW,
   holdWindowSec |-> o.holdWindowSec]

Request(order, stage, answer) ==
  [order |-> order, stage |-> stage, version |-> 0, answer |-> answer]

Answered(i, answer) ==
  requests' = [requests EXCEPT ![i].stage = "done", ![i].answer = answer]

\* POST /v1/coverage up to its first await.
Post(o) ==
  /\ Len(requests) < MaxOrders
  /\ \/ /\ ~Parsed(o) \/ Covered(o.wallet)
        /\ requests' = Append(requests, Request(o, "done", "400"))
        /\ UNCHANGED <<store, accounts>>
     \/ /\ Parsed(o)
        /\ Create(o)
        /\ requests' = Append(requests,
                         IF BridgeOn THEN Request(o, "precheck", "none")
                         ELSE Request(o, "done", "201"))
  /\ UNCHANGED <<pool, chainVars>>

\* The precheck fails: the policy stays stored and counted.
Precheck(i) ==
  /\ requests[i].stage = "precheck"
  /\ IF OwnershipHolds(requests[i].order)
     THEN requests' = [requests EXCEPT ![i].stage = "version"]
     ELSE Answered(i, "422")
  /\ UNCHANGED <<store, accounts, pool, chainVars>>

ReadVersion(i) ==
  /\ requests[i].stage = "version"
  /\ requests' = [requests EXCEPT ![i].stage = "send",
                    ![i].version = latestVersion[requests[i].order.wallet.account] + 1]
  /\ UNCHANGED <<store, accounts, pool, chainVars>>

Attaching(i) == ToOnChainPolicy(requests[i].order, requests[i].version)

\* Whether the call would revert in the state it is estimated in.
WouldAttach(p) ==
  /\ Valid(p.agent, p)
  /\ p.version = latestVersion[p.agent] + 1
  /\ MayAttach(Signer, p.agent, p)

\* The gas estimate fails on a call that would revert now.
Send(i) ==
  /\ requests[i].stage = "send"
  /\ IF WouldAttach(Attaching(i))
     THEN /\ pool' = Append(pool, Attaching(i))
          /\ requests' = [requests EXCEPT ![i].stage = "hash"]
     ELSE Answered(i, "400") /\ UNCHANGED pool
  /\ UNCHANGED <<store, accounts, chainVars>>

\* The hash is read back without waiting for the transaction.
ReadHash(i) ==
  /\ requests[i].stage = "hash"
  /\ LET p == Attaching(i) IN
       Answered(i, <<"201", policyHashAt[p.agent][p.version]>>)
  /\ UNCHANGED <<store, accounts, pool, chainVars>>

\* The endpoint is unreachable at one of the awaits.
RpcFails(i) ==
  /\ requests[i].stage # "done"
  /\ Answered(i, "400")
  /\ UNCHANGED <<store, accounts, pool, chainVars>>

\* The oldest transaction is mined: it attaches, or reverts.
Mine ==
  /\ pool # <<>>
  /\ LET p == Head(pool) IN
       IF WouldAttach(p) THEN Attach(Signer, p.agent, p) ELSE UNCHANGED chainVars
  /\ pool' = Tail(pool)
  /\ UNCHANGED <<store, accounts, requests>>

\* DELETE /v1/coverage: the chain is not told.
Delete(i) == Cancel(i) /\ UNCHANGED <<requests, pool, chainVars>>

\* The server is started again: the store was only in memory.
Restart ==
  /\ store # <<>>
  /\ store' = <<>>
  /\ accounts' = [p \in Platforms |-> NoAccount]
  /\ requests' = [i \in DOMAIN requests |->
       IF requests[i].stage = "done" THEN requests[i]
       ELSE [requests[i] EXCEPT !.stage = "done", !.answer = "lost"]]
  /\ UNCHANGED <<pool, chainVars>>

ApiInit ==
  /\ store = <<>> /\ requests = <<>> /\ pool = <<>>
  /\ accounts = [p \in Platforms |-> NoAccount]
  /\ RegistryInit

ApiNext ==
  \/ \E o \in Orders : Post(o)
  \/ \E i \in DOMAIN requests :
       Precheck(i) \/ ReadVersion(i) \/ Send(i) \/ ReadHash(i) \/ RpcFails(i)
  \/ \E i \in DOMAIN store : Delete(i)
  \/ Mine
  \/ Restart

-----------------------------------------------------------------------------
Premiums == [i \in DOMAIN store |-> store[i].premium]

\* What a platform is billed on is its fleet: the number of agents in the
\* books is the number of its active policies and the volume their premiums,
\* whatever became of the requests that made them (store.ts, server.ts).
BooksMatchStore ==
  \A p \in Platforms :
    /\ Account(p).agentCount = PlatformView(p).agents
    /\ PlatformView(p).premiumVolume = MapThenSumSet(LAMBDA i : Premiums[i], Fleet(p))

=============================================================================
