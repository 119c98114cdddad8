------------------------------- MODULE Pricing -------------------------------
(***************************************************************************)
(* packages/pricing/src/index.ts: the premium from a log of the agent's    *)
(* events.  The log is a bag of [kind, at] with times in days, in the      *)
(* order they were indexed or any other: the evaluation instant is the     *)
(* latest time in it, and no clock is read.                                *)
(*                                                                         *)
(* The code's factors are floating-point numbers; here they are the ratios *)
(* they stand for.                                                         *)
(***************************************************************************)
EXTENDS Integers, Bags, Functions, FiniteSetsExt

CONSTANTS
  PricingEvents,  \* the events that may be indexed
  MaxEvents       \* bound: events in the log

VARIABLE log

STREAK_DAYS_MAX == 180
ATTEMPT_WINDOW == 30
CLAIM_WINDOW == 180

Kinds == {"clean_day", "attempted_breach", "covered_claim", "denied_claim",
          "recovered", "mitigation", "watch_only", "kya_verified", "sdk_installed"}
NearMiss == {"attempted_breach", "denied_claim"}

Indexed(events) == BagToSet(events)
OfKind(events, kinds) == {e \in Indexed(events) : e.kind \in kinds}
Times(events, kinds) == {e.at : e \in OfKind(events, kinds)}
Count(events, test(_)) ==
  MapThenSumSet(LAMBDA e : events[e], {e \in Indexed(events) : test(e)})

EvaluationInstant(events) == Max({e.at : e \in Indexed(events)})

\* Near misses of the last 30 days, six of them saturating the load.
AnomalyLoad(events, now) ==
  LET n == Count(events, LAMBDA e : e.kind \in NearMiss /\ e.at > now - ATTEMPT_WINDOW)
  IN <<15 + Min({n, 6}), 15>>

\* Mutant of ClaimLoad: the loads of a first and of a repeated claim are
\* exchanged.
ClaimLoadSwapped(events, now) ==
  LET inWindow(e) == e.kind = "covered_claim" /\ e.at > now - CLAIM_WINDOW
      last == Max({e.at : e \in {e \in Indexed(events) : inWindow(e)}})
  IN IF Count(events, inWindow) = 0 THEN <<1, 1>>
     ELSE IF \E t \in Times(events, {"mitigation"}) : t >= last THEN <<3, 2>>
     ELSE IF Count(events, inWindow) >= 2 THEN <<3, 1>> ELSE <<5, 1>>

\* Six months after a claim: times 3, or 5 for more than one, and 3/2 when a
\* mitigation came with or after the last.
ClaimLoad(events, now) ==
  LET inWindow(e) == e.kind = "covered_claim" /\ e.at > now - CLAIM_WINDOW
      last == Max({e.at : e \in {e \in Indexed(events) : inWindow(e)}})
  IN IF Count(events, inWindow) = 0 THEN <<1, 1>>
     ELSE IF \E t \in Times(events, {"mitigation"}) : t >= last THEN <<3, 2>>
     ELSE IF Count(events, inWindow) >= 2 THEN <<5, 1>> ELSE <<3, 1>>

\* Whole days since the first clean day at or after the last near miss; a
\* covered claim does not break the streak.
CleanStreakDays(events, now) ==
  LET sinceMiss == {t \in Times(events, {"clean_day"}) :
                      \A miss \in Times(events, NearMiss) : t >= miss}
  IN IF sinceMiss = {} THEN 0 ELSE now - Min(sinceMiss)

StreakFactor(events, now) ==
  <<300 - Min({CleanStreakDays(events, now), STREAK_DAYS_MAX}), 300>>

AttemptLoad(events, now) ==
  IF \E t \in Times(events, {"attempted_breach"}) : now - t < ATTEMPT_WINDOW
  THEN <<23, 20>> ELSE <<1, 1>>

IfAny(events, kind, factor) ==
  IF OfKind(events, {kind}) # {} THEN factor ELSE <<1, 1>>

Multipliers(events) ==
  LET now == EvaluationInstant(events) IN
  [streak_discount |-> StreakFactor(events, now),
   attempt_load |-> AttemptLoad(events, now),
   claim_load |-> ClaimLoad(events, now),
   anomaly_load |-> AnomalyLoad(events, now),
   kya_discount |-> IfAny(events, "kya_verified", <<4, 5>>),
   sdk_discount |-> IfAny(events, "sdk_installed", <<9, 10>>),
   watch_only_load |-> IfAny(events, "watch_only", <<2, 1>>)]

\* The product over a common denominator: 300 * 20 * 2 * 15 * 5 * 10.
Scaled(factor, unit) == factor[1] * (unit \div factor[2])

ScaledProduct(events) ==
  LET m == Multipliers(events) IN
  Scaled(m.streak_discount, 300) * Scaled(m.attempt_load, 20)
  * Scaled(m.claim_load, 2) * Scaled(m.anomaly_load, 15)
  * Scaled(m.kya_discount, 5) * Scaled(m.sdk_discount, 10)
  * m.watch_only_load[1]

\* computePremium, in millionths of a dollar for a cap of 225 dollars at the
\* base rate of two per cent: the rounded half of the scaled product.
MonthlyPremiumUsd(events) == (ScaledProduct(events) + 1) \div 2

\* It throws for a log without an event.
Priceable(events) == Indexed(events) # {}

-----------------------------------------------------------------------------
Index(e) ==
  /\ BagCardinality(log) < MaxEvents
  /\ log' = log (+) SetToBag({e})

PricingInit == log = EmptyBag

PricingNext == \E e \in PricingEvents : Index(e)

-----------------------------------------------------------------------------
\* A claim, a denial or an attempt that is indexed late or on time, without
\* moving the evaluation instant, never makes the agent cheaper to insure: the
\* streak, the windows, the mitigation and the loads work against each other
\* in computePremium, and their product only grows.
LateInfraction(e) ==
  /\ e.kind \in NearMiss \cup {"covered_claim"}
  /\ Priceable(log) /\ e.at <= EvaluationInstant(log)
  /\ log' = log (+) SetToBag({e})

PaysNoLess ==
  (\E e \in PricingEvents : LateInfraction(e)) =>
    MonthlyPremiumUsd(log') >= MonthlyPremiumUsd(log)

=============================================================================
