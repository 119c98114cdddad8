------------------------------- MODULE Engine -------------------------------
(***************************************************************************)
(* packages/engine/src: the watcher's judgement, off chain.  judgeHold     *)
(* scores a held transfer, judgeBreach decides a claim, and both repeat    *)
(* rules of the contracts (the limits, the curfew, the deductible) on the  *)
(* engine's own form of the policy, which here is the contract's: the      *)
(* conversion only renames fields.                                         *)
(*                                                                         *)
(* A transfer is [to, amount, at, instruction]; the facts are what the     *)
(* watcher was told of the recipient and of the agent's history.           *)
(***************************************************************************)
EXTENDS Integers, Sequences, Functions

CONSTANTS
  NoInstruction,   \* no entry of the instruction chain for a transfer
  Never,           \* the recipient was never seen before
  DaySec, HourSec, MinuteSec  \* 86400, 3600 and 60 in the code

SUSPICION_THRESHOLD == 3
NoCurfew == DaySec \div MinuteSec
BPS == 10000

(***************************************************************************)
(* types.ts: the rules shared with the contracts.                          *)
(***************************************************************************)
IsAllowlisted(p, to) == to \in DOMAIN p.allowlist

LimitFor(p, to) == IF IsAllowlisted(p, to) THEN p.allowlist[to] ELSE p.perTxLimit

\* A curfew from s to e; equal ends close the whole day, and the end before
\* the start wraps around midnight.
InCurfew(p, at) ==
  LET minute == (at % DaySec) \div MinuteSec
      s == p.curfewStart
      e == p.curfewEnd
  IN /\ NoCurfew \notin {s, e}
     /\ \/ s = e
        \/ s < e /\ s <= minute /\ minute < e
        \/ s > e /\ (minute >= s \/ minute < e)

\* Mutant of ComputePayout: the deductible is taken of what is paid, rounded
\* in favour of the claimant, and the cap is left to the contract.
ComputePayoutUncapped(loss, p) ==
  (loss * BPS + 9999) \div (BPS + p.deductibleBps)

\* The loss less the deductible, rounded down, and never above the cap.
ComputePayout(loss, p) ==
  LET after == (loss * (BPS - p.deductibleBps)) \div BPS
  IN IF after > p.coverageCap THEN p.coverageCap ELSE after

-----------------------------------------------------------------------------
(***************************************************************************)
(* engine.ts: deviation of an amount from the history, in thousandths of   *)
(* the standard deviation, and the integer square root it rests on.        *)
(***************************************************************************)
SqrtApprox(n) ==
  LET newton[x \in Nat] ==
        LET y == (x + n \div x) \div 2 IN IF y < x THEN newton[y] ELSE x
  IN IF n < 2 THEN n ELSE newton[n]

Total(history) == FoldFunction(LAMBDA a, b : a + b, 0, history)
Distance(a, b) == IF a > b THEN a - b ELSE b - a

\* Fewer than four amounts, or amounts without spread, say nothing.
FarFromHistory(amount, history) ==
  LET n == Len(history)
      mean == Total(history) \div n
      variance == Total([i \in 1 .. n |-> Distance(history[i], mean) ^ 2]) \div n
      std == SqrtApprox(variance)
  IN n >= 4 /\ std # 0 /\ (Distance(amount, mean) * 1000) \div std > 3000

-----------------------------------------------------------------------------
Points(signal, weight) == IF signal THEN weight ELSE 0

Young(t, f) == f.firstSeen = Never \/ t.at - f.firstSeen < 7 * DaySec

UnusualHour(t, f) ==
  f.hours # {} /\ (t.at % DaySec) \div HourSec \notin f.hours

OwnerSigned(t) == t.instruction # NoInstruction /\ t.instruction.ownerSigned

\* The score of a held transfer: policy, behaviour, alibi.
Score(p, t, f) ==
  Points(t.amount > LimitFor(p, t.to), 2)
  + Points(~IsAllowlisted(p, t.to), 1)
  + Points(InCurfew(p, t.at), 1)
  + Points(Young(t, f), 1)
  + Points(f.strikes > 0, IF f.strikes >= 3 THEN 3 ELSE 1)
  + Points(f.drainer, 3)
  + Points(FarFromHistory(t.amount, f.amounts), 1)
  + Points(UnusualHour(t, f), 1)
  + Points(OwnerSigned(t) /\ ~IsAllowlisted(p, t.to), 1)

JudgeHold(p, t, f) ==
  IF Score(p, t, f) >= SUSPICION_THRESHOLD THEN "FREEZE" ELSE "RELEASE"

-----------------------------------------------------------------------------
\* Who ordered the transfer.
AlibiOf(t) ==
  IF t.instruction = NoInstruction THEN "UNKNOWN"
  ELSE IF t.instruction.ownerSigned THEN "OWNER_SIGNED" ELSE "EXTERNAL"

\* A covered event is a transfer that breaks a rule of the policy.
Violated(p, t, f) ==
  \/ t.amount > LimitFor(p, t.to)
  \/ ~IsAllowlisted(p, t.to)
  \/ InCurfew(p, t.at)
  \/ f.drainer
  \/ f.strikes >= 3

Judged(t, outcome, payout) ==
  [outcome |-> outcome, alibi |-> AlibiOf(t), lossAmount |-> t.amount,
   payoutAmount |-> payout]

\* The owner's own order is denied whatever it broke; without provenance a
\* quarter is paid.
JudgeBreach(p, t, f) ==
  CASE AlibiOf(t) = "OWNER_SIGNED" -> Judged(t, "DENIED_OWNER_ORIGIN", 0)
    [] AlibiOf(t) # "OWNER_SIGNED" /\ ~Violated(p, t, f) ->
         Judged(t, "DISMISSED", 0)
    [] AlibiOf(t) = "EXTERNAL" /\ Violated(p, t, f) ->
         Judged(t, "COVERED", ComputePayout(t.amount, p))
    [] AlibiOf(t) = "UNKNOWN" /\ Violated(p, t, f) ->
         Judged(t, "COVERED", ComputePayout(t.amount, p) \div 4)

=============================================================================
