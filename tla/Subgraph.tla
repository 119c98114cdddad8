------------------------------ MODULE Subgraph ------------------------------
(***************************************************************************)
(* packages/subgraph/src/mapping.ts: the projection of the contracts'      *)
(* events into entities that other parts read instead of the chain.  One   *)
(* operator per handler, from the entities before to the entities after.   *)
(*                                                                         *)
(* Entities that are written once and never read by a handler (a flow, a   *)
(* report, a transfer, a routine transaction) are left out; so are times.  *)
(* The handlers that do nothing have no operator.                          *)
(***************************************************************************)
EXTENDS Integers, Sequences

CONSTANT NoPolicy

NoEntry == [strikes |-> 0, flagged |-> FALSE, cleared |-> FALSE]

\* One agent, one pool; the others by their id.  caps are the recipient caps.
NoEntities(destinations) ==
  [agent |-> [streak |-> 0, routine |-> 0, attempts |-> 0],
   policy |-> [live |-> NoPolicy, revoked |-> FALSE], caps |-> <<>>,
   holds |-> <<>>, verdicts |-> <<>>, claims |-> <<>>,
   blocklist |-> [d \in destinations |-> NoEntry],
   pool |-> [junior |-> 0, senior |-> 0, premium |-> 0, payouts |-> 0, claims |-> 0]]

\* later entities of a map replace earlier ones.
Saved(map, id, entity) ==
  [i \in DOMAIN map \cup {id} |-> IF i = id THEN entity ELSE map[i]]

NoteIncident(e) ==
  [e EXCEPT !.agent.streak = 0, !.agent.attempts = @ + 1]

-----------------------------------------------------------------------------
\* The view read back is that of the block's end: the policy just attached.
\* The caps of earlier versions stay.
PolicyUpdated(e, v) ==
  [e EXCEPT !.policy = [live |-> v.policy, revoked |-> FALSE],
            !.caps = [r \in DOMAIN @ \cup DOMAIN v.policy.allowlist |->
                        IF r \in DOMAIN v.policy.allowlist
                        THEN v.policy.allowlist[r] ELSE @[r]]]

PolicyRevoked(e) ==
  IF e.policy.live = NoPolicy THEN e ELSE [e EXCEPT !.policy.revoked = TRUE]

-----------------------------------------------------------------------------
ExecutedRoutine(e) ==
  [e EXCEPT !.agent.streak = @ + 1, !.agent.routine = @ + 1]

\* Tier 0 is recorded by ExecutedRoutine, tier 1 by Held.
Classified(e, v) == IF v.tier = 2 THEN NoteIncident(e) ELSE e

Held(e, v) ==
  [e EXCEPT !.holds = Saved(@, v.id,
     [to |-> v.to, amount |-> v.amount, status |-> "PENDING",
      extendedTo |-> 0, executed |-> FALSE])]

Released(e, v) ==
  IF v.id \notin DOMAIN e.holds THEN e
  ELSE [e EXCEPT !.holds[v.id].status = "RELEASED", !.holds[v.id].executed = TRUE]

StatusOf(decision) ==
  CASE decision = 0 -> "OWNER_APPROVED"
    [] decision = 1 -> "OWNER_FROZEN"
    [] decision = 2 -> "OWNER_FROZEN_ROTATED"
    [] decision = 255 -> "WATCHER_FROZEN"
    [] decision = 254 -> "AUTO_FROZEN"
    [] OTHER -> "FROZEN"

OwnerDecision(e, v) ==
  IF v.id \notin DOMAIN e.holds THEN e
  ELSE [e EXCEPT !.holds[v.id].status = StatusOf(v.decision)]

HoldLapsed(e, v) ==
  IF v.id \notin DOMAIN e.holds THEN e
  ELSE [e EXCEPT !.holds[v.id].extendedTo = v.extendedTo]

-----------------------------------------------------------------------------
\* A paid or denied claim is recorded with the verdict, for the account;
\* the payout that follows names the claimant.
VerdictAccepted(e, v) ==
  LET covered == v.outcome = "COVERED"
      claimed == v.outcome \in {"COVERED", "DENIED_OWNER_ORIGIN"}
      claim == [covered |-> covered, claimant |-> v.agent,
                payout |-> IF covered THEN v.payout ELSE 0]
      recorded == [e EXCEPT
        !.verdicts = Saved(@, v.digest, [outcome |-> v.outcome, payout |-> v.payout,
                                         reopened |-> 0]),
        !.claims = IF claimed THEN Saved(@, v.digest, claim) ELSE @]
  IN IF v.outcome \in {"ATTEMPTED_BREACH", "COVERED"}
     THEN NoteIncident(recorded) ELSE recorded

\* A second entity beside that of the verdict's digest, under the breached
\* transaction.
AttemptedBreachSignal(e, v) ==
  NoteIncident([e EXCEPT !.verdicts =
    Saved(@, v.txHash, [outcome |-> "ATTEMPTED_BREACH", payout |-> 0,
                        reopened |-> 0])])

Reopened(e, v) ==
  IF v.digest \notin DOMAIN e.verdicts THEN e
  ELSE [e EXCEPT !.verdicts[v.digest].reopened = @ + 1]

\* The hold is looked up by its number alone, whichever account v.agent is.
HoldVerdictRouted(e, v) ==
  IF v.clean \/ v.id \notin DOMAIN e.holds THEN e
  ELSE [e EXCEPT !.holds[v.id].status = "FROZEN"]

Reported(e, v) ==
  [e EXCEPT !.blocklist[v.destination].strikes = v.strikes,
            !.blocklist[v.destination].flagged = v.strikes >= 3]

Cleared(e, v) ==
  [e EXCEPT !.blocklist[v.destination] =
     [strikes |-> 0, flagged |-> FALSE, cleared |-> TRUE]]

-----------------------------------------------------------------------------
Deposited(e, v) == [e EXCEPT !.pool[v.tranche] = @ + v.assets]
Redeemed(e, v) == [e EXCEPT !.pool[v.tranche] = @ - v.assets]

Payout(e, v) ==
  LET paid == [e EXCEPT !.pool.payouts = @ + v.amount, !.pool.claims = @ + 1]
  IN IF v.digest \notin DOMAIN e.claims THEN paid
     ELSE [paid EXCEPT !.claims[v.digest].claimant = v.claimant,
                       !.claims[v.digest].payout = v.amount]

\* Mutant of LossApplied: the whole loss is booked to the junior tranche.
LossByJunior(e, v) ==
  [e EXCEPT !.pool.junior = @ - v.junior - v.senior]

LossApplied(e, v) ==
  [e EXCEPT !.pool.junior = @ - v.junior, !.pool.senior = @ - v.senior]

PremiumRecorded(e, v) == [e EXCEPT !.pool.premium = @ + v.amount]

-----------------------------------------------------------------------------
(***************************************************************************)
(* The dispatch by event, and a transaction's logs one after the other.    *)
(***************************************************************************)
Handled(e, v) ==
  CASE v.ev = "PolicyUpdated" -> PolicyUpdated(e, v)
    [] v.ev = "PolicyRevoked" -> PolicyRevoked(e)
    [] v.ev = "ExecutedRoutine" -> ExecutedRoutine(e)
    [] v.ev = "Classified" -> Classified(e, v)
    [] v.ev = "Held" -> Held(e, v)
    [] v.ev = "Released" -> Released(e, v)
    [] v.ev = "OwnerDecision" -> OwnerDecision(e, v)
    [] v.ev = "HoldLapsed" -> HoldLapsed(e, v)
    [] v.ev \in {"AttemptedBreach", "AuthorityRevoked"} -> NoteIncident(e)
    [] v.ev = "VerdictAccepted" -> VerdictAccepted(e, v)
    [] v.ev = "AttemptedBreachSignal" -> AttemptedBreachSignal(e, v)
    [] v.ev = "Reopened" -> Reopened(e, v)
    [] v.ev = "HoldVerdictRouted" -> HoldVerdictRouted(e, v)
    [] v.ev = "Reported" -> Reported(e, v)
    [] v.ev = "Cleared" -> Cleared(e, v)
    [] v.ev = "Deposited" -> Deposited(e, v)
    [] v.ev = "Redeemed" -> Redeemed(e, v)
    [] v.ev = "Payout" -> Payout(e, v)
    [] v.ev = "LossApplied" -> LossApplied(e, v)
    [] v.ev = "PremiumRecorded" -> PremiumRecorded(e, v)
    [] OTHER -> e

Index(e, logs) ==
  LET after[n \in 0 .. Len(logs)] ==
        IF n = 0 THEN e ELSE Handled(after[n - 1], logs[n])
  IN  after[Len(logs)]
=============================================================================
