---------------------------- MODULE EnginePricing ----------------------------
(***************************************************************************)
(* packages/engine/src/pricing.ts: the quote of the engine, which the      *)
(* coverage API charges.  The code multiplies floating-point numbers; each *)
(* of its factors is a ratio of small integers, kept here as <<n, d>>.     *)
(*                                                                         *)
(* A driving record is [streak, anomaly, attempts, claims, lifetime,       *)
(* human, sdk, watchOnly, now], with the anomaly in hundredths and         *)
(* attempts and claims the times of the events.                            *)
(***************************************************************************)
EXTENDS Integers

CONSTANT Day   \* 86400 seconds

STREAK_DAYS_MAX == 180
THIRTY_DAYS == 30 * Day
SIX_MONTHS == 182 * Day

Least(a, b) == IF a < b THEN a ELSE b
Recent(times, now, window) == \E t \in times : now - t < window

\* Up to 60% off, in 180 days; up to 40% for the anomaly.
StreakFactor(r) == <<300 - Least(r.streak, STREAK_DAYS_MAX), 300>>
AnomalyFactor(r) == <<250 + Least(r.anomaly, 100), 250>>

\* The load lasts six months after a claim, and is higher for a second one
\* in the agent's life.
ClaimFactor(r) ==
  IF ~Recent(r.claims, r.now, SIX_MONTHS) THEN <<1, 1>>
  ELSE IF r.lifetime >= 2 THEN <<5, 1>> ELSE <<3, 1>>

When(condition, factor) == IF condition THEN factor ELSE <<1, 1>>

Factors(r) ==
  [streak |-> When(r.streak > 0, StreakFactor(r)),
   anomaly |-> When(r.anomaly > 0, AnomalyFactor(r)),
   attempt |-> When(Recent(r.attempts, r.now, THIRTY_DAYS), <<23, 20>>),
   claim |-> ClaimFactor(r),
   human |-> When(r.human, <<4, 5>>),
   sdk |-> When(r.sdk, <<9, 10>>),
   watchOnly |-> When(r.watchOnly, <<2, 1>>)]

\* The product of numerators (k = 1) or of denominators (k = 2).
Product(f, k) ==
  f.streak[k] * f.anomaly[k] * f.attempt[k] * f.claim[k]
  * f.human[k] * f.sdk[k] * f.watchOnly[k]

Multiplier(r) == <<Product(Factors(r), 1), Product(Factors(r), 2)>>

\* Math.round of two per cent of the cap times the multiplier.
MonthlyPremium(r, cap) ==
  LET m == Multiplier(r)
      d == 50 * m[2]
  IN (2 * cap * m[1] + d) \div (2 * d)

=============================================================================
