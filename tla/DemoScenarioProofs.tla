------------------------- MODULE DemoScenarioProofs -------------------------
(***************************************************************************)
(* Theorems about the scripted run, for any number of runs, of other       *)
(* people's transactions, of delays and of transactions left behind.       *)
(***************************************************************************)
EXTENDS DemoScenario, FiniteSetTheorems, SequenceTheorems, TLAPS

-----------------------------------------------------------------------------
(***************************************************************************)
(* The events of each call, and the handler of each event.                 *)
(***************************************************************************)
LEMMA LogsAre ==
  ASSUME NEW tx
  PROVE  /\ tx.call = "propose" => Logs(tx) = ProposeLogs(tx)
         /\ tx.call = "holdVerdict" => Logs(tx) = HoldVerdictLogs(tx)
         /\ tx.call = "otherHoldVerdict" => Logs(tx) = <<Routed(tx.agent, tx)>>
         /\ tx.call = "decide" => Logs(tx) = DecideLogs(tx)
         /\ tx.call = "lapse" => Logs(tx) = LapseLogs(tx)
         /\ tx.call = "verdict" => Logs(tx) = VerdictLogs(tx.verdict)
         /\ tx.call = "dispute" => Logs(tx) = <<[ev |-> "Reopened", digest |-> tx.verdict]>>
         /\ tx.call = "report" => Logs(tx) = <<ReportedLog(tx.to)>>
         /\ tx.call = "clear" => Logs(tx) = <<[ev |-> "Cleared", destination |-> tx.to]>>
         /\ tx.call = "deposit" =>
              Logs(tx) = <<[ev |-> "Deposited", tranche |-> tx.tranche, assets |-> tx.amount]>>
         /\ tx.call = "redeem" =>
              Logs(tx) = <<[ev |-> "Redeemed", tranche |-> tx.tranche,
                            assets |-> MutualPool!ToAsset(tx.tranche, tx.amount)]>>
         /\ tx.call = "premium" =>
              Logs(tx) = <<[ev |-> "PremiumRecorded", amount |-> tx.amount]>>
         /\ tx.call = "attach" =>
              Logs(tx) = <<[ev |-> "PolicyUpdated", policy |-> FirstPolicy]>>
         /\ tx.call = "revoke" => Logs(tx) = <<[ev |-> "PolicyRevoked"]>>
         /\ tx.call = "reportAttempt" =>
              Logs(tx) = <<[ev |-> "AttemptedBreach"], [ev |-> "Classified", tier |-> 2]>>
         /\ tx.call = "killSwitch" => Logs(tx) = <<[ev |-> "AuthorityRevoked"]>>
         /\ tx.call \in {"fund", "create", "setWatcher", "setPool", "poolVerdicts",
                         "setReporter", "guardVerdicts", "mint", "withdraw"} =>
              Logs(tx) = <<>>
<1>1. tx.call = "propose" => Logs(tx) = ProposeLogs(tx)
  BY DEF Logs
<1>2. tx.call = "holdVerdict" => Logs(tx) = HoldVerdictLogs(tx)
  BY DEF Logs
<1>3. tx.call = "decide" => Logs(tx) = DecideLogs(tx)
  BY DEF Logs
<1>4. tx.call = "lapse" => Logs(tx) = LapseLogs(tx)
  BY DEF Logs
<1>5. tx.call = "verdict" => Logs(tx) = VerdictLogs(tx.verdict)
  BY DEF Logs
<1>6. tx.call = "dispute" => Logs(tx) = <<[ev |-> "Reopened", digest |-> tx.verdict]>>
  BY DEF Logs
<1>7. tx.call = "report" => Logs(tx) = <<ReportedLog(tx.to)>>
  BY DEF Logs
<1>8. tx.call = "clear" => Logs(tx) = <<[ev |-> "Cleared", destination |-> tx.to]>>
  BY DEF Logs
<1>9. tx.call = "deposit" =>
        Logs(tx) = <<[ev |-> "Deposited", tranche |-> tx.tranche, assets |-> tx.amount]>>
  BY DEF Logs
<1>10. tx.call = "redeem" =>
         Logs(tx) = <<[ev |-> "Redeemed", tranche |-> tx.tranche,
                       assets |-> MutualPool!ToAsset(tx.tranche, tx.amount)]>>
  BY DEF Logs
<1>11. tx.call = "premium" => Logs(tx) = <<[ev |-> "PremiumRecorded", amount |-> tx.amount]>>
  BY DEF Logs
<1>12. tx.call = "attach" => Logs(tx) = <<[ev |-> "PolicyUpdated", policy |-> FirstPolicy]>>
  BY DEF Logs
<1>13. tx.call = "revoke" => Logs(tx) = <<[ev |-> "PolicyRevoked"]>>
  BY DEF Logs
<1>14. tx.call = "reportAttempt" =>
         Logs(tx) = <<[ev |-> "AttemptedBreach"], [ev |-> "Classified", tier |-> 2]>>
  BY DEF Logs
<1>15. tx.call = "killSwitch" => Logs(tx) = <<[ev |-> "AuthorityRevoked"]>>
  BY DEF Logs
<1>16. tx.call \in {"fund", "create", "setWatcher", "setPool", "poolVerdicts",
                    "setReporter", "guardVerdicts", "mint", "withdraw"} =>
         Logs(tx) = <<>>
  BY DEF Logs
<1>17. tx.call = "otherHoldVerdict" => Logs(tx) = <<Routed(tx.agent, tx)>>
  BY DEF Logs
<1>. QED
  BY <1>1, <1>2, <1>3, <1>4, <1>5, <1>6, <1>7, <1>8, <1>9, <1>10, <1>11, <1>12,
     <1>13, <1>14, <1>15, <1>16, <1>17

LEMMA VerdictLogsAre ==
  ASSUME NEW v
  PROVE  /\ v.outcome = "COVERED" => VerdictLogs(v) = PayoutLogs(v)
         /\ v.outcome = "ATTEMPTED_BREACH" /\ FilesStrike(v) =>
              VerdictLogs(v) = <<AcceptedLog(v), SignalLog(v), ReportedLog(v.destination)>>
         /\ v.outcome = "ATTEMPTED_BREACH" /\ ~FilesStrike(v) =>
              VerdictLogs(v) = <<AcceptedLog(v), SignalLog(v)>>
         /\ v.outcome \notin {"COVERED", "ATTEMPTED_BREACH"} =>
              VerdictLogs(v) = <<AcceptedLog(v)>>
<1>1. "COVERED" # "ATTEMPTED_BREACH"
  OBVIOUS
<1>2. v.outcome = "COVERED" => VerdictLogs(v) = PayoutLogs(v)
  BY <1>1 DEF VerdictLogs
<1>3. v.outcome = "ATTEMPTED_BREACH" /\ FilesStrike(v) =>
        VerdictLogs(v) = <<AcceptedLog(v), SignalLog(v), ReportedLog(v.destination)>>
  BY <1>1 DEF VerdictLogs
<1>4. v.outcome = "ATTEMPTED_BREACH" /\ ~FilesStrike(v) =>
        VerdictLogs(v) = <<AcceptedLog(v), SignalLog(v)>>
  BY <1>1 DEF VerdictLogs
<1>5. v.outcome \notin {"COVERED", "ATTEMPTED_BREACH"} =>
        VerdictLogs(v) = <<AcceptedLog(v)>>
  BY <1>1 DEF VerdictLogs
<1>. QED
  BY <1>2, <1>3, <1>4, <1>5

\* The handler of each event; the others change nothing.
LEMMA Dispatched ==
  ASSUME NEW e, NEW v
  PROVE  /\ v.ev = "Transfer" => Graph!Handled(e, v) = e
         /\ v.ev = "Classified" /\ v.tier # 2 => Graph!Handled(e, v) = e
         /\ v.ev = "Classified" /\ v.tier = 2 => Graph!Handled(e, v) = Graph!NoteIncident(e)
         /\ v.ev = "AttemptedBreach" => Graph!Handled(e, v) = Graph!NoteIncident(e)
         /\ v.ev = "AuthorityRevoked" => Graph!Handled(e, v) = Graph!NoteIncident(e)
         /\ v.ev = "ExecutedRoutine" => Graph!Handled(e, v) = Graph!ExecutedRoutine(e)
         /\ v.ev = "Held" => Graph!Handled(e, v) = Graph!Held(e, v)
         /\ v.ev = "Released" => Graph!Handled(e, v) = Graph!Released(e, v)
         /\ v.ev = "OwnerDecision" => Graph!Handled(e, v) = Graph!OwnerDecision(e, v)
         /\ v.ev = "HoldLapsed" => Graph!Handled(e, v) = Graph!HoldLapsed(e, v)
         /\ v.ev = "HoldVerdictRouted" => Graph!Handled(e, v) = Graph!HoldVerdictRouted(e, v)
         /\ v.ev = "VerdictAccepted" => Graph!Handled(e, v) = Graph!VerdictAccepted(e, v)
         /\ v.ev = "AttemptedBreachSignal" =>
              Graph!Handled(e, v) = Graph!AttemptedBreachSignal(e, v)
         /\ v.ev = "Reopened" => Graph!Handled(e, v) = Graph!Reopened(e, v)
         /\ v.ev = "Reported" => Graph!Handled(e, v) = Graph!Reported(e, v)
         /\ v.ev = "Cleared" => Graph!Handled(e, v) = Graph!Cleared(e, v)
         /\ v.ev = "Deposited" => Graph!Handled(e, v) = Graph!Deposited(e, v)
         /\ v.ev = "Redeemed" => Graph!Handled(e, v) = Graph!Redeemed(e, v)
         /\ v.ev = "LossApplied" => Graph!Handled(e, v) = Graph!LossApplied(e, v)
         /\ v.ev = "Payout" => Graph!Handled(e, v) = Graph!Payout(e, v)
         /\ v.ev = "PremiumRecorded" => Graph!Handled(e, v) = Graph!PremiumRecorded(e, v)
         /\ v.ev = "PolicyUpdated" => Graph!Handled(e, v) = Graph!PolicyUpdated(e, v)
         /\ v.ev = "PolicyRevoked" => Graph!Handled(e, v) = Graph!PolicyRevoked(e)
<1>1. v.ev = "Transfer" => Graph!Handled(e, v) = e
  BY DEF Graph!Handled
<1>2. v.ev = "Classified" /\ v.tier # 2 => Graph!Handled(e, v) = e
  BY DEF Graph!Handled, Graph!Classified
<1>3. v.ev = "Classified" /\ v.tier = 2 => Graph!Handled(e, v) = Graph!NoteIncident(e)
  BY DEF Graph!Handled, Graph!Classified
<1>4. v.ev = "AttemptedBreach" => Graph!Handled(e, v) = Graph!NoteIncident(e)
  BY DEF Graph!Handled
<1>5. v.ev = "AuthorityRevoked" => Graph!Handled(e, v) = Graph!NoteIncident(e)
  BY DEF Graph!Handled
<1>6. v.ev = "ExecutedRoutine" => Graph!Handled(e, v) = Graph!ExecutedRoutine(e)
  BY DEF Graph!Handled
<1>7. v.ev = "Held" => Graph!Handled(e, v) = Graph!Held(e, v)
  BY DEF Graph!Handled
<1>8. v.ev = "Released" => Graph!Handled(e, v) = Graph!Released(e, v)
  BY DEF Graph!Handled
<1>9. v.ev = "OwnerDecision" => Graph!Handled(e, v) = Graph!OwnerDecision(e, v)
  BY DEF Graph!Handled
<1>10. v.ev = "HoldLapsed" => Graph!Handled(e, v) = Graph!HoldLapsed(e, v)
  BY DEF Graph!Handled
<1>11. v.ev = "HoldVerdictRouted" => Graph!Handled(e, v) = Graph!HoldVerdictRouted(e, v)
  BY DEF Graph!Handled
<1>12. v.ev = "VerdictAccepted" => Graph!Handled(e, v) = Graph!VerdictAccepted(e, v)
  BY DEF Graph!Handled
<1>13. v.ev = "Reopened" => Graph!Handled(e, v) = Graph!Reopened(e, v)
  BY DEF Graph!Handled
<1>14. v.ev = "Reported" => Graph!Handled(e, v) = Graph!Reported(e, v)
  BY DEF Graph!Handled
<1>15. v.ev = "Cleared" => Graph!Handled(e, v) = Graph!Cleared(e, v)
  BY DEF Graph!Handled
<1>16. v.ev = "Deposited" => Graph!Handled(e, v) = Graph!Deposited(e, v)
  BY DEF Graph!Handled
<1>17. v.ev = "Redeemed" => Graph!Handled(e, v) = Graph!Redeemed(e, v)
  BY DEF Graph!Handled
<1>18. v.ev = "LossApplied" => Graph!Handled(e, v) = Graph!LossApplied(e, v)
  BY DEF Graph!Handled
<1>19. v.ev = "Payout" => Graph!Handled(e, v) = Graph!Payout(e, v)
  BY DEF Graph!Handled
<1>20. v.ev = "PremiumRecorded" => Graph!Handled(e, v) = Graph!PremiumRecorded(e, v)
  BY DEF Graph!Handled
<1>21. v.ev = "PolicyUpdated" => Graph!Handled(e, v) = Graph!PolicyUpdated(e, v)
  BY DEF Graph!Handled
<1>22. v.ev = "PolicyRevoked" => Graph!Handled(e, v) = Graph!PolicyRevoked(e)
  BY DEF Graph!Handled
<1>23. v.ev = "AttemptedBreachSignal" =>
         Graph!Handled(e, v) = Graph!AttemptedBreachSignal(e, v)
  BY DEF Graph!Handled
<1>. QED
  BY <1>1, <1>2, <1>3, <1>4, <1>5, <1>6, <1>7, <1>8, <1>9, <1>10, <1>11, <1>12, <1>13,
     <1>14, <1>15, <1>16, <1>17, <1>18, <1>19, <1>20, <1>21, <1>22, <1>23

\* A transaction leaves at most four events.
LEMMA IndexedOneByOne ==
  ASSUME NEW e, NEW logs, Len(logs) \in 0 .. 4
  PROVE  LET a == Graph!Handled(e, logs[1])
             b == Graph!Handled(a, logs[2])
             c == Graph!Handled(b, logs[3])
             d == Graph!Handled(c, logs[4])
         IN /\ Len(logs) = 0 => Graph!Index(e, logs) = e
            /\ Len(logs) = 1 => Graph!Index(e, logs) = a
            /\ Len(logs) = 2 => Graph!Index(e, logs) = b
            /\ Len(logs) = 3 => Graph!Index(e, logs) = c
            /\ Len(logs) = 4 => Graph!Index(e, logs) = d
<1> DEFINE a == Graph!Handled(e, logs[1])
           b == Graph!Handled(a, logs[2])
           c == Graph!Handled(b, logs[3])
           d == Graph!Handled(c, logs[4])
           Steps(f) == f = [n \in 0 .. Len(logs) |->
                              IF n = 0 THEN e ELSE Graph!Handled(f[n - 1], logs[n])]
           all == [n \in 0 .. Len(logs) |->
                     IF n = 0 THEN e ELSE IF n = 1 THEN a ELSE IF n = 2 THEN b
                     ELSE IF n = 3 THEN c ELSE d]
           one == CHOOSE f : Steps(f)
<1>1. Steps(all)
  <2>1. ASSUME NEW n \in 0 .. Len(logs)
        PROVE  all[n] = IF n = 0 THEN e ELSE Graph!Handled(all[n - 1], logs[n])
    <3>1. \A l \in 0 .. 4 : \A k \in 0 .. l :
            k \in {0, 1, 2, 3, 4} /\ (k # 0 => k - 1 \in 0 .. l)
      OBVIOUS
    <3>2. n \in {0, 1, 2, 3, 4} /\ (n # 0 => n - 1 \in 0 .. Len(logs))
      BY <3>1
    <3>. QED
      BY <3>2
  <2>. QED
    BY <2>1
<1>2. Steps(one)
  <2> HIDE DEF Steps, all
  <2>. QED
    BY <1>1
<1>3. Graph!Index(e, logs) = one[Len(logs)]
  BY DEF Graph!Index
<1> HIDE DEF one, all
<1>4. \A n \in 0 .. Len(logs) :
        one[n] = IF n = 0 THEN e ELSE Graph!Handled(one[n - 1], logs[n])
  BY <1>2
<1>5. /\ one[0] = e
      /\ Len(logs) \in 1 .. 4 => one[1] = a
      /\ Len(logs) \in 2 .. 4 => one[2] = b
      /\ Len(logs) \in 3 .. 4 => one[3] = c
      /\ Len(logs) = 4 => one[4] = d
  <2>1. one[0] = e
    BY <1>4
  <2>2. Len(logs) \in 1 .. 4 => one[1] = a
    BY <1>4, <2>1
  <2> HIDE DEF a
  <2>3. Len(logs) \in 2 .. 4 => one[2] = b
    BY <1>4, <2>2
  <2> HIDE DEF b
  <2>4. Len(logs) \in 3 .. 4 => one[3] = c
    BY <1>4, <2>3
  <2> HIDE DEF c
  <2>5. Len(logs) = 4 => one[4] = d
    BY <1>4, <2>4
  <2>. QED
    BY <2>1, <2>2, <2>3, <2>4, <2>5
<1> HIDE DEF a, b, c, d
<1>6. /\ Len(logs) = 0 => one[Len(logs)] = e
      /\ Len(logs) = 1 => one[Len(logs)] = a
      /\ Len(logs) = 2 => one[Len(logs)] = b
      /\ Len(logs) = 3 => one[Len(logs)] = c
      /\ Len(logs) = 4 => one[Len(logs)] = d
  <2>1. /\ Len(logs) = 1 => Len(logs) \in 1 .. 4
        /\ Len(logs) = 2 => Len(logs) \in 2 .. 4
        /\ Len(logs) = 3 => Len(logs) \in 3 .. 4
    OBVIOUS
  <2>2. Len(logs) = 0 => one[Len(logs)] = e
    BY <1>5, Zenon
  <2>3. Len(logs) = 1 => one[Len(logs)] = a
    BY <1>5, <2>1, Zenon
  <2>4. Len(logs) = 2 => one[Len(logs)] = b
    BY <1>5, <2>1, Zenon
  <2>5. Len(logs) = 3 => one[Len(logs)] = c
    BY <1>5, <2>1, Zenon
  <2>6. Len(logs) = 4 => one[Len(logs)] = d
    BY <1>5, Zenon
  <2>. QED
    BY <2>2, <2>3, <2>4, <2>5, <2>6
<1>7. /\ Len(logs) = 0 => Graph!Index(e, logs) = e
      /\ Len(logs) = 1 => Graph!Index(e, logs) = a
      /\ Len(logs) = 2 => Graph!Index(e, logs) = b
      /\ Len(logs) = 3 => Graph!Index(e, logs) = c
      /\ Len(logs) = 4 => Graph!Index(e, logs) = d
  BY <1>3, <1>6
<1>. QED
  BY <1>7 DEF a, b, c, d

-----------------------------------------------------------------------------
(***************************************************************************)
(* The inductive invariant.                                                *)
(***************************************************************************)
IsSequence(s) == Len(s) \in Nat /\ s = [k \in 1 .. Len(s) |-> s[k]]

\* A hold made for the scenario's second proposal; one that was released.
IsLookalike(i) ==
  i \in 1 .. nextHoldId - 1 /\ holds[i].to = LOOKALIKE /\ holds[i].amount = 150

WasPaid(i) == IsLookalike(i) /\ holds[i].status = "RELEASED"

IsHold(h) ==
  /\ h = [to |-> h.to, amount |-> h.amount, releaseAt |-> h.releaseAt,
          createdAt |-> h.createdAt, extendedTo |-> h.extendedTo,
          status |-> h.status]
  /\ h.amount \in Nat

HoldsTyped ==
  /\ nextHoldId \in 1 .. MaxHolds + 1
  /\ holds = [i \in Account!HoldId |-> holds[i]]
  /\ \A i \in Account!HoldId : IsHold(holds[i])

\* Released holds are lookalikes, and as many have paid the lookalike.
PaidHolds ==
  /\ DOMAIN usdc = Address /\ usdc[LOOKALIKE] \in Nat
  /\ \A i \in HoldsAs("RELEASED") : WasPaid(i) /\ usdc[LOOKALIKE] >= 150
  /\ \A i, j \in HoldsAs("RELEASED") : i # j => usdc[LOOKALIKE] >= 300

\* What the watcher claims is a loss: the claim names the released hold.
IsLossClaim(v) ==
  /\ v.outcome = "COVERED" /\ v.destination = LOOKALIKE
  /\ v.lossAmount = 150 /\ v.payoutAmount \in {0, 135}
  /\ v.txHash = [call |-> "release", hold |-> v.txHash.hold]
  /\ WasPaid(v.txHash.hold)

\* Every verdict is a claim of a loss, a signal or a denial; it and the
\* transaction it names are told apart by their fields.
IsSubmitted(v) ==
  /\ v.outcome \in {"COVERED", "ATTEMPTED_BREACH", "DENIED_OWNER_ORIGIN"}
  /\ v.outcome = "COVERED" => IsLossClaim(v)
  /\ "outcome" \in DOMAIN v /\ DOMAIN v.txHash = {"call", "hold"}

Covered == AcceptedAs("COVERED")

AcceptedClaims ==
  /\ \A v \in Accepted : IsSubmitted(v)
  /\ \A v \in Covered : v.payoutAmount # 0 /\ v.txHash \in claimNullifiers
  /\ \A v, w \in Covered : v.txHash = w.txHash => v = w

\* The wiring, as far as it can be lost again.
Reporting == isReporter = [a \in Address |-> isReporter[a]]

Terms ==
  /\ latestVersion = [a \in {Guard} |-> latestVersion[a]]
  /\ policyHashAt = [a \in {Guard} |-> policyHashAt[a]]
  /\ policyHashAt[Guard] = [v \in 0 .. MaxVersion |-> policyHashAt[Guard][v]]
  /\ \/ latestVersion[Guard] = 0
     \/ /\ latestVersion[Guard] = 1 /\ FirstPolicy.version = 1
        /\ policyHashAt[Guard][1] # Registry!NoHash

Wired ==
  /\ verdictContract = Verdicts /\ poolVerdictContract = Verdicts
  /\ pool = Pool /\ isReporter[Verdicts]
  /\ policyHashAt[Guard][1] # Registry!NoHash

\* A transaction somebody may send.
Sane(tx) ==
  /\ tx.call \in {"mint", "propose", "withdraw"} => tx.amount \in Nat
  /\ tx.call \in {"deposit", "redeem", "premium"} => tx.from # LOOKALIKE
  /\ tx.call \in {"deposit", "redeem"} => tx.tranche \in {"junior", "senior"}
  /\ tx.call = "decide" => tx.decision \in 0 .. 2
  /\ tx.call \in {"decide", "lapse", "holdVerdict"} => tx.hold \in 1 .. nextHoldId - 1
  /\ tx.call = "holdVerdict" /\ tx.tier = 0 => IsLookalike(tx.hold)
  /\ tx.call = "verdict" => IsSubmitted(tx.verdict)

\* The script concerns itself with its own account only.
SaneMempool ==
  /\ IsSequence(mempool) /\ runs \in Nat
  /\ \A i \in 1 .. Len(mempool) :
       /\ Sane(mempool[i]) /\ mempool[i].run \in 0 .. runs
       /\ mempool[i].call # "otherHoldVerdict"

-----------------------------------------------------------------------------
\* The order of the steps, as far as a later one relies on an earlier one.
AfterReporter ==
  {"guardVerdicts", "mintGuard", "mintJunior", "mintSenior", "depositJunior",
   "depositSenior", "attach", "handles", "verify", "persist"}

Follows(a, b) ==
  /\ b \in AfterReporter =>
       a \in AfterReporter \cup {"setReporter"} \/ (b = "handles" /\ latest)
  /\ b = "verify" => a = "handles"
  /\ b = "persist" => a = "verify"
  /\ b = "freeze" => a = "hold"
  /\ b = "cancel" => a = "freeze"
  /\ b = "release" => a = "lookalike"
  /\ b = "claim" => a = "release"
  /\ b = "conclude" => a = "claim"
  /\ a # "conclude"

StepNames ==
  {"fund", "create", "setWatcher", "setPool", "poolVerdicts", "setReporter",
   "guardVerdicts", "mintGuard", "mintJunior", "mintSenior", "depositJunior",
   "depositSenior", "attach", "handles", "verify", "persist", "payroll", "hold",
   "freeze", "cancel", "block", "lookalike", "release", "claim", "conclude"}

IsStep(step) ==
  step.name \in StepNames /\ (step.name = "payroll" => step.amount \in Nat)

InOrder(steps) ==
  /\ \A k \in 1 .. Len(steps) - 1 : Follows(steps[k].name, steps[k + 1].name)
  /\ \A k \in 1 .. Len(steps) : IsStep(steps[k])

PlanInOrder ==
  /\ IsSequence(plan) /\ Len(plan) >= 1
  /\ plan[Len(plan)].name = "conclude"
  /\ InOrder(plan)

ClaimTerms ==
  /\ E!AlibiOf(Order(LOOKALIKE, 150, now, LookAlibi)) = "EXTERNAL"
  /\ E!ComputePayout(150, script.policy) = 135

\* What holds when the run has come to a step.
Reached(name) ==
  /\ name \in AfterReporter => isReporter[Verdicts]
  /\ name \in {"verify", "persist"} => policyHashAt[Guard][1] # Registry!NoHash
  /\ name = "persist" => Wired
  /\ name \in {"freeze", "cancel"} => script.freshHold \in 1 .. nextHoldId - 1
  /\ name \in {"release", "claim", "conclude"} => IsLookalike(script.lookHold)
  /\ name \in {"claim", "conclude"} => WasPaid(script.lookHold)
  /\ name = "claim" => ClaimTerms
  /\ name = "conclude" => Covered # {}

\* What the receipt of the step's transaction stands for.
HeldLogs(logs) ==
  \A k \in DOMAIN logs : logs[k].ev = "Held" =>
    /\ logs[k].id \in 1 .. nextHoldId - 1
    /\ logs[k].to = holds[logs[k].id].to /\ logs[k].amount = holds[logs[k].id].amount

Receipted(name) ==
  /\ HeldLogs(receipt.logs)
  /\ name = "setReporter" /\ receipt.success => isReporter[Verdicts]
  /\ name = "claim" /\ receipt.success => Covered # {}

\* The transaction the run waits for is that of its step.
OwnTransaction(name) ==
  /\ name \notin OffChain
  /\ \A i, j \in 1 .. Len(mempool) :
       mempool[i].run = runs /\ mempool[j].run = runs => i = j
  /\ \A i \in 1 .. Len(mempool) : mempool[i].run = runs =>
       /\ name = "setReporter" => mempool[i].call = "setReporter"
       /\ name = "claim" => mempool[i].call = "verdict"
                            /\ mempool[i].verdict.outcome = "COVERED"

ScriptShape ==
  script = [current |-> script.current, policy |-> script.policy,
            freshHold |-> script.freshHold, lookHold |-> script.lookHold]

InRun ==
  /\ PlanInOrder
  /\ Reached(plan[1].name)
  /\ Waiting => OwnTransaction(plan[1].name)
  /\ receipt # NoReceipt =>
       ~Waiting /\ plan[1].name \notin OffChain /\ Receipted(plan[1].name)

RunState ==
  /\ ScriptShape
  /\ receipt # NoReceipt => mode = "running"
  /\ mode = "running" => InRun

IInv ==
  /\ HoldsTyped /\ PaidHolds /\ AcceptedClaims
  /\ Reporting /\ Terms /\ RecordedStackIsWired
  /\ SaneMempool /\ RunState

-----------------------------------------------------------------------------
(***************************************************************************)
(* Sequences of records of any kind.                                       *)
(***************************************************************************)
LEMMA SequenceOfItsElements ==
  ASSUME NEW s, IsSequence(s)
  PROVE  /\ Len(s) \in Nat /\ DOMAIN s = 1 .. Len(s)
         /\ s \in Seq({s[k] : k \in 1 .. Len(s)})
<1> DEFINE S == {s[k] : k \in 1 .. Len(s)}
<1>1. s \in [1 .. Len(s) -> S]
  BY DEF IsSequence
<1>2. s \in Seq(S)
  BY <1>1 DEF IsSequence
<1>. QED
  BY <1>1, <1>2 DEF IsSequence

LEMMA IsASequence ==
  ASSUME NEW S, NEW s \in Seq(S)
  PROVE  IsSequence(s)
BY DEF IsSequence

LEMMA Appended ==
  ASSUME NEW s, IsSequence(s), NEW e
  PROVE  /\ IsSequence(Append(s, e)) /\ Len(Append(s, e)) = Len(s) + 1
         /\ \A k \in 1 .. Len(s) : Append(s, e)[k] = s[k]
         /\ Append(s, e)[Len(s) + 1] = e
<1>1. PICK S : s \in Seq(S) /\ e \in S
  <2> DEFINE T == {s[k] : k \in 1 .. Len(s)} \cup {e}
  <2>1. s \in [1 .. Len(s) -> T] /\ Len(s) \in Nat
    BY DEF IsSequence
  <2>2. s \in Seq(T) /\ e \in T
    BY <2>1
  <2>. QED
    BY <2>2
<1>2. /\ Append(s, e) \in Seq(S) /\ Len(Append(s, e)) = Len(s) + 1
      /\ \A k \in 1 .. Len(s) : Append(s, e)[k] = s[k]
      /\ Append(s, e)[Len(s) + 1] = e
  BY <1>1, AppendProperties
<1>. QED
  BY <1>2, IsASequence

LEMMA TailOf ==
  ASSUME NEW s, IsSequence(s), Len(s) >= 1
  PROVE  /\ IsSequence(Tail(s)) /\ Len(Tail(s)) = Len(s) - 1
         /\ \A k \in 1 .. Len(s) - 1 : Tail(s)[k] = s[k + 1]
<1>1. PICK S : s \in Seq(S)
  BY SequenceOfItsElements
<1>2. s # <<>>
  BY EmptySeq
<1>3. /\ Tail(s) \in Seq(S) /\ Len(Tail(s)) = Len(s) - 1
      /\ \A k \in 1 .. Len(Tail(s)) : Tail(s)[k] = s[k + 1]
  BY <1>1, <1>2, HeadTailProperties
<1>. QED
  BY <1>3, IsASequence

LEMMA Joined ==
  ASSUME NEW s, IsSequence(s), NEW t, IsSequence(t)
  PROVE  /\ IsSequence(s \o t) /\ Len(s \o t) = Len(s) + Len(t)
         /\ \A k \in 1 .. Len(s) : (s \o t)[k] = s[k]
         /\ \A k \in 1 .. Len(t) : (s \o t)[Len(s) + k] = t[k]
<1>1. PICK S : s \in Seq(S) /\ t \in Seq(S)
  <2> DEFINE T == {s[k] : k \in 1 .. Len(s)} \cup {t[k] : k \in 1 .. Len(t)}
  <2>1. s \in [1 .. Len(s) -> T] /\ Len(s) \in Nat /\ t \in [1 .. Len(t) -> T] /\ Len(t) \in Nat
    BY DEF IsSequence
  <2>2. s \in Seq(T) /\ t \in Seq(T)
    BY <2>1
  <2>. QED
    BY <2>2
<1>2. /\ s \o t \in Seq(S) /\ Len(s \o t) = Len(s) + Len(t)
      /\ \A k \in 1 .. Len(s) + Len(t) :
           (s \o t)[k] = IF k <= Len(s) THEN s[k] ELSE t[k - Len(s)]
  BY <1>1, ConcatProperties
<1>3. Len(s) \in Nat /\ Len(t) \in Nat
  BY DEF IsSequence
<1>4. ASSUME NEW k \in 1 .. Len(t)
      PROVE  (s \o t)[Len(s) + k] = t[k]
  <2>1. Len(s) + k \in 1 .. Len(s) + Len(t) /\ ~(Len(s) + k <= Len(s))
        /\ Len(s) + k - Len(s) = k
    BY <1>3
  <2>. QED
    BY <2>1, <1>2
<1>5. \A k \in 1 .. Len(s) : k \in 1 .. Len(s) + Len(t) /\ k <= Len(s)
  BY <1>3
<1>. QED
  BY <1>2, <1>4, <1>5, IsASequence

\* The elements that remain when one is taken out are elements at other places.
LEMMA TakenOut ==
  ASSUME NEW s, IsSequence(s), NEW i \in 1 .. Len(s)
  PROVE  /\ IsSequence(Without(s, i))
         /\ \A k \in 1 .. Len(Without(s, i)) : \E j \in 1 .. Len(s) \ {i} :
              /\ Without(s, i)[k] = s[j]
              /\ j = IF k < i THEN k ELSE k + 1
<1> DEFINE a == SubSeq(s, 1, i - 1)
           b == SubSeq(s, i + 1, Len(s))
<1>1. PICK S : s \in Seq(S)
  BY SequenceOfItsElements
<1>2. Len(s) \in Nat
  BY DEF IsSequence
<1>0. \A k \in 1 .. Len(s) : s[k] \in S
  BY <1>1, ElementOfSeq
<1>3. /\ a \in Seq(S) /\ Len(a) = i - 1
      /\ \A k \in 1 .. i - 1 : a[k] = s[k]
  <2>1. 1 \in Int /\ i - 1 \in Int /\ (\A k \in 1 .. i - 1 : s[k] \in S)
    BY <1>0, <1>2
  <2>2. /\ a \in Seq(S) /\ Len(a) = IF 1 <= i - 1 THEN (i - 1) - 1 + 1 ELSE 0
        /\ \A k \in 1 .. (i - 1) - 1 + 1 : a[k] = s[1 + k - 1]
    BY <2>1, SubSeqProperties
  <2>. QED
    BY <2>2
<1>4. /\ b \in Seq(S) /\ Len(b) = Len(s) - i
      /\ \A k \in 1 .. Len(s) - i : b[k] = s[k + i]
  <2>1. i + 1 \in Int /\ Len(s) \in Int /\ (\A k \in i + 1 .. Len(s) : s[k] \in S)
    BY <1>0, <1>2
  <2>2. /\ b \in Seq(S) /\ Len(b) = IF i + 1 <= Len(s) THEN Len(s) - (i + 1) + 1 ELSE 0
        /\ \A k \in 1 .. Len(s) - (i + 1) + 1 : b[k] = s[i + 1 + k - 1]
    BY <2>1, SubSeqProperties
  <2>3. \A k \in 1 .. Len(s) - i : i + 1 + k - 1 = k + i
    BY <1>2
  <2>4. Len(s) - (i + 1) + 1 = Len(s) - i
    BY <1>2
  <2>5. Len(b) = Len(s) - i
    BY <2>2, <1>2
  <2>. QED
    BY <2>2, <2>3, <2>4, <2>5
<1> HIDE DEF a, b
<1>5. IsSequence(a) /\ IsSequence(b)
  BY <1>3, <1>4, IsASequence
<1>6. Without(s, i) = a \o b
  BY DEF Without, a, b
<1>7. /\ IsSequence(a \o b) /\ Len(a \o b) = Len(s) - 1
      /\ \A k \in 1 .. Len(a) : (a \o b)[k] = a[k]
      /\ \A k \in 1 .. Len(b) : (a \o b)[Len(a) + k] = b[k]
  <2>1. Len(a) + Len(b) = Len(s) - 1
    BY <1>2, <1>3, <1>4
  <2>2. /\ IsSequence(a \o b) /\ Len(a \o b) = Len(a) + Len(b)
        /\ \A k \in 1 .. Len(a) : (a \o b)[k] = a[k]
        /\ \A k \in 1 .. Len(b) : (a \o b)[Len(a) + k] = b[k]
    BY <1>5, Joined
  <2>. QED
    BY <2>1, <2>2
<1>8. ASSUME NEW k \in 1 .. Len(s) - 1
      PROVE  \E j \in 1 .. Len(s) \ {i} : /\ (a \o b)[k] = s[j]
                                          /\ j = IF k < i THEN k ELSE k + 1
  <2>1. CASE k < i
    <3>1. (a \o b)[k] = s[k]
      BY <2>1, <1>3, <1>2, <1>7
    <3>. QED
      BY <3>1, <2>1, <1>2
  <2>2. CASE ~(k < i)
    <3>1. k - Len(a) \in 1 .. Len(b) /\ k = Len(a) + (k - Len(a))
      BY <2>2, <1>2, <1>3, <1>4
    <3>2. (a \o b)[k] = b[k - Len(a)]
      BY <3>1, <1>7
    <3>3. b[k - Len(a)] = s[k + 1]
      <4>1. k - Len(a) \in 1 .. Len(s) - i /\ k - Len(a) + i = k + 1
        BY <3>1, <1>3, <1>4, <1>2
      <4>. QED
        BY <4>1, <1>4
    <3>. QED
      BY <3>2, <3>3, <2>2, <1>2
  <2>. QED
    BY <2>1, <2>2
<1>. QED
  BY <1>6, <1>7, <1>8

-----------------------------------------------------------------------------
(***************************************************************************)
(* The plan is in order: the parts are, and they are put together where    *)
(* one may follow the other.                                               *)
(***************************************************************************)
LEMMA JoinedInOrder ==
  ASSUME NEW s, IsSequence(s), InOrder(s), NEW t, IsSequence(t), InOrder(t),
         Len(s) >= 1, Len(t) >= 1, Follows(s[Len(s)].name, t[1].name)
  PROVE  IsSequence(s \o t) /\ InOrder(s \o t) /\ Len(s \o t) = Len(s) + Len(t)
         /\ (s \o t)[1] = s[1] /\ (s \o t)[Len(s) + Len(t)] = t[Len(t)]
<1>1. Len(s) \in Nat /\ Len(t) \in Nat
  BY DEF IsSequence
<1>2. /\ IsSequence(s \o t) /\ Len(s \o t) = Len(s) + Len(t)
      /\ \A k \in 1 .. Len(s) : (s \o t)[k] = s[k]
      /\ \A k \in 1 .. Len(t) : (s \o t)[Len(s) + k] = t[k]
  BY Joined
<1> DEFINE u == s \o t
<1> HIDE DEF u
<1>3. ASSUME NEW k \in 1 .. Len(s) + Len(t) - 1
      PROVE  Follows(u[k].name, u[k + 1].name)
  <2>1. CASE k < Len(s)
    <3>1. k \in 1 .. Len(s) - 1 /\ k \in 1 .. Len(s) /\ k + 1 \in 1 .. Len(s)
      BY <2>1, <1>1
    <3>. QED
      BY <3>1, <1>2 DEF u, InOrder
  <2>2. CASE k = Len(s)
    <3>1. k \in 1 .. Len(s) /\ 1 \in 1 .. Len(t)
      BY <2>2, <1>1
    <3>. QED
      BY <3>1, <2>2, <1>2 DEF u
  <2>3. CASE k > Len(s)
    <3>1. /\ k - Len(s) \in 1 .. Len(t) - 1 /\ k - Len(s) \in 1 .. Len(t)
          /\ k - Len(s) + 1 \in 1 .. Len(t)
          /\ Len(s) + (k - Len(s)) = k /\ Len(s) + (k - Len(s) + 1) = k + 1
      BY <2>3, <1>1
    <3>2. u[k] = t[k - Len(s)] /\ u[k + 1] = t[k - Len(s) + 1]
      BY <3>1, <1>2 DEF u
    <3>. QED
      BY <3>1, <3>2 DEF InOrder
  <2>. QED
    BY <2>1, <2>2, <2>3, <1>1
<1>4. ASSUME NEW k \in 1 .. Len(s) + Len(t)
      PROVE  IsStep(u[k])
  <2>1. CASE k <= Len(s)
    <3>1. k \in 1 .. Len(s)
      BY <2>1, <1>1
    <3>. QED
      BY <3>1, <1>2, <1>4 DEF u, InOrder
  <2>2. CASE k > Len(s)
    <3>1. k - Len(s) \in 1 .. Len(t) /\ Len(s) + (k - Len(s)) = k
      BY <2>2, <1>1
    <3>2. u[k] = t[k - Len(s)]
      BY <3>1, <1>2 DEF u
    <3>. QED
      BY <3>1, <3>2, <1>4 DEF InOrder
  <2>. QED
    BY <2>1, <2>2, <1>1
<1>5. 1 \in 1 .. Len(s) /\ Len(t) \in 1 .. Len(t)
  BY <1>1
<1>. QED
  BY <1>2, <1>3, <1>4, <1>5 DEF InOrder, u

OnlyFunding(s) == IsSequence(s) /\ \A k \in 1 .. Len(s) : s[k].name = "fund"

LEMMA FundingJoined ==
  ASSUME NEW s, OnlyFunding(s), NEW t, OnlyFunding(t)
  PROVE  OnlyFunding(s \o t)
<1>1. Len(s) \in Nat /\ Len(t) \in Nat
  BY DEF OnlyFunding, IsSequence
<1>2. /\ IsSequence(s \o t) /\ Len(s \o t) = Len(s) + Len(t)
      /\ \A k \in 1 .. Len(s) : (s \o t)[k] = s[k]
      /\ \A k \in 1 .. Len(t) : (s \o t)[Len(s) + k] = t[k]
  BY Joined DEF OnlyFunding
<1>3. ASSUME NEW k \in 1 .. Len(s) + Len(t)
      PROVE  (s \o t)[k].name = "fund"
  <2>1. CASE k \in 1 .. Len(s)
    BY <2>1, <1>2 DEF OnlyFunding
  <2>2. CASE k \notin 1 .. Len(s)
    <3>1. k - Len(s) \in 1 .. Len(t) /\ Len(s) + (k - Len(s)) = k
      BY <2>2, <1>1
    <3>. QED
      BY <3>1, <1>2 DEF OnlyFunding
  <2>. QED
    BY <2>1, <2>2
<1>. QED
  BY <1>2, <1>3 DEF OnlyFunding

LEMMA TopUpsFund == ASSUME NEW fresh PROVE OnlyFunding(TopUps(fresh))
<1>1. ASSUME NEW role PROVE OnlyFunding(TopUp(role, fresh))
  <2>1. OnlyFunding(<<>>)
    BY DEF OnlyFunding, IsSequence
  <2>2. OnlyFunding(<<[name |-> "fund", role |-> role]>>)
    BY DEF OnlyFunding, IsSequence
  <2>. QED
    BY <2>1, <2>2 DEF TopUp
<1>. QED
  BY <1>1, FundingJoined DEF TopUps

LEMMA ScenarioInOrder ==
  /\ IsSequence(Scenario) /\ Len(Scenario) = 12 /\ InOrder(Scenario)
  /\ Scenario[1].name = "payroll" /\ Scenario[12].name = "conclude"
<1> DEFINE rest == <<Step("hold"), Step("freeze"), Step("cancel"), Step("block"),
                     Step("lookalike"), Step("release"), Step("claim"),
                     Step("conclude")>>
<1>1. /\ IsSequence(PayrollSteps) /\ Len(PayrollSteps) = 4
      /\ \A k \in 1 .. 4 : PayrollSteps[k].name = "payroll" /\ PayrollSteps[k].amount \in Nat
  <2>1. DOMAIN Payroll = 1 .. 4 /\ \A k \in 1 .. 4 : Payroll[k].amount \in Nat
    BY DEF Payroll
  <2>2. PayrollSteps = [k \in 1 .. 4 |->
          [name |-> "payroll", to |-> Payroll[k].to, amount |-> Payroll[k].amount,
           last |-> k = Len(Payroll)]]
    BY <2>1 DEF PayrollSteps
  <2>3. \A k \in 1 .. 4 : PayrollSteps[k].name = "payroll" /\ PayrollSteps[k].amount = Payroll[k].amount
    BY <2>2
  <2>4. PayrollSteps \in Seq({PayrollSteps[k] : k \in 1 .. 4}) /\ Len(PayrollSteps) = 4
    BY <2>2
  <2>. QED
    BY <2>1, <2>3, <2>4, IsASequence
<1>2. InOrder(PayrollSteps)
  BY <1>1 DEF InOrder, IsStep, StepNames, Follows, AfterReporter
<1>3. IsSequence(rest) /\ Len(rest) = 8
  BY DEF IsSequence
<1>4. rest[1].name = "hold" /\ rest[8].name = "conclude"
  BY DEF Step
<1>5. InOrder(rest)
  <2>1. \A k \in 1 .. 8 : IsStep(rest[k])
    BY DEF Step, IsStep, StepNames
  <2>2. \A k \in 1 .. 7 : Follows(rest[k].name, rest[k + 1].name)
    BY DEF Step, Follows, AfterReporter
  <2>. QED
    BY <2>1, <2>2, <1>3 DEF InOrder
<1>6. Scenario = PayrollSteps \o rest
  BY DEF Scenario
<1>7. Follows(PayrollSteps[Len(PayrollSteps)].name, rest[1].name)
  BY <1>1, <1>4 DEF Follows, AfterReporter
<1> HIDE DEF rest
<1>8. Len(PayrollSteps) >= 1 /\ Len(rest) >= 1
  BY <1>1, <1>3
<1>9. LET u == PayrollSteps \o rest IN
      /\ IsSequence(u) /\ InOrder(u) /\ Len(u) = Len(PayrollSteps) + Len(rest)
      /\ u[1] = PayrollSteps[1] /\ u[Len(PayrollSteps) + Len(rest)] = rest[Len(rest)]
  BY <1>1, <1>2, <1>3, <1>5, <1>7, <1>8, JoinedInOrder
<1>. QED
  BY <1>1, <1>3, <1>4, <1>6, <1>9

LEMMA SetupInOrder ==
  ASSUME NEW fresh \in BOOLEAN, fresh \/ latest
  PROVE  /\ IsSequence(Setup(fresh)) /\ Len(Setup(fresh)) >= 1 /\ InOrder(Setup(fresh))
         /\ Setup(fresh)[1].name = IF fresh THEN "create" ELSE "handles"
         /\ Setup(fresh)[Len(Setup(fresh))].name \in {"verify", "persist"}
<1> DEFINE ends == <<Step("handles"), Step("verify"), Step("persist")>>
           again == <<Step("handles"), Step("verify")>>
<1>1. CASE fresh
  <2>1. IsSequence(Deployment) /\ Len(Deployment) = 12
    BY DEF Deployment, IsSequence
  <2>2. Deployment[1].name = "create" /\ Deployment[12].name = "attach"
    BY DEF Deployment, Step
  <2>3. InOrder(Deployment)
    <3>1. \A k \in 1 .. 12 : IsStep(Deployment[k])
      BY DEF Step, Deployment, IsStep, StepNames
    <3>2. \A k \in 1 .. 11 : Follows(Deployment[k].name, Deployment[k + 1].name)
      BY DEF Step, Deployment, Follows, AfterReporter
    <3>. QED
      BY <3>1, <3>2, <2>1 DEF InOrder
  <2>4. IsSequence(ends) /\ Len(ends) = 3
    BY DEF IsSequence
  <2>5. ends[1].name = "handles" /\ ends[3].name = "persist"
    BY DEF Step
  <2>6. InOrder(ends)
    BY DEF InOrder, IsStep, StepNames, Step, Follows, AfterReporter
  <2>7. Setup(fresh) = Deployment \o ends
    BY <1>1 DEF Setup
  <2>8. Follows(Deployment[Len(Deployment)].name, ends[1].name)
    BY <2>1, <2>2, <2>5 DEF Follows, AfterReporter
  <2> HIDE DEF ends
  <2>9. Len(Deployment) >= 1 /\ Len(ends) >= 1
    BY <2>1, <2>4
  <2>10. LET w == Deployment \o ends IN
         /\ IsSequence(w) /\ InOrder(w) /\ Len(w) = Len(Deployment) + Len(ends)
         /\ w[1] = Deployment[1] /\ w[Len(Deployment) + Len(ends)] = ends[Len(ends)]
    BY <2>1, <2>3, <2>4, <2>6, <2>8, <2>9, JoinedInOrder
  <2>11. Len(Deployment) + Len(ends) = 15
    BY <2>1, <2>4
  <2>12. /\ IsSequence(Setup(fresh)) /\ InOrder(Setup(fresh)) /\ Len(Setup(fresh)) = 15
         /\ Setup(fresh)[1] = Deployment[1] /\ Setup(fresh)[15] = ends[3]
    BY <2>4, <2>7, <2>10, <2>11
  <2>13. Setup(fresh)[1].name = "create" /\ Setup(fresh)[15].name = "persist"
    BY <2>2, <2>5, <2>12
  <2> HIDE DEF again
  <2>14. Len(Setup(fresh)) >= 1 /\ Setup(fresh)[Len(Setup(fresh))] = Setup(fresh)[15]
    BY <2>12
  <2>15. (IF fresh THEN "create" ELSE "handles") = "create"
    BY <1>1
  <2>. QED
    BY <2>12, <2>13, <2>14, <2>15
<1>2. CASE ~fresh
  <2>1. Setup(fresh) = again
    BY <1>2 DEF Setup
  <2>2. IsSequence(again) /\ Len(again) = 2
    BY DEF IsSequence
  <2>3. again[1].name = "handles" /\ again[2].name = "verify"
    BY DEF Step
  <2>4. InOrder(again)
    BY <1>2 DEF InOrder, IsStep, StepNames, Step, Follows, AfterReporter
  <2>. QED
    BY <1>2, <2>1, <2>2, <2>3, <2>4
<1>. QED
  BY <1>1, <1>2

\* The first step may be one that is entered without a step before it.
Entry(name) == name \in {"fund", "create"} \/ (name = "handles" /\ latest)

LEMMA PlanIsInOrder ==
  ASSUME NEW fresh \in BOOLEAN, fresh \/ latest
  PROVE  /\ IsSequence(Plan(fresh)) /\ Len(Plan(fresh)) >= 1
         /\ Plan(fresh)[Len(Plan(fresh))].name = "conclude"
         /\ InOrder(Plan(fresh)) /\ Entry(Plan(fresh)[1].name)
<1> DEFINE f == TopUps(fresh)
           u == Setup(fresh)
           p == u \o Scenario
<1>1. /\ IsSequence(u) /\ Len(u) \in Nat /\ Len(u) >= 1 /\ InOrder(u)
      /\ u[1].name = IF fresh THEN "create" ELSE "handles"
      /\ u[Len(u)].name \in {"verify", "persist"}
  BY SetupInOrder DEF IsSequence
<1>2. Follows(u[Len(u)].name, Scenario[1].name)
  BY <1>1, ScenarioInOrder DEF Follows, AfterReporter
<1> HIDE DEF u
<1>3. /\ IsSequence(p) /\ InOrder(p) /\ Len(p) = Len(u) + 12
      /\ p[1] = u[1] /\ p[Len(p)] = Scenario[12]
  <2>1. Len(Scenario) >= 1
    BY ScenarioInOrder
  <2>2. /\ IsSequence(p) /\ InOrder(p) /\ Len(p) = Len(u) + Len(Scenario)
        /\ p[1] = u[1] /\ p[Len(u) + Len(Scenario)] = Scenario[Len(Scenario)]
    BY <1>1, <1>2, <2>1, ScenarioInOrder, JoinedInOrder
  <2>. QED
    BY <2>2, ScenarioInOrder
<1>4. OnlyFunding(f) /\ IsSequence(f) /\ Len(f) \in Nat
  BY TopUpsFund DEF OnlyFunding, IsSequence
<1> HIDE DEF f, p
<1>5. InOrder(f)
  BY <1>4 DEF InOrder, IsStep, StepNames, OnlyFunding, Follows, AfterReporter
<1>6. Plan(fresh) = (f \o u) \o Scenario
  BY DEF Plan, f, u
<1>7. Plan(fresh) = f \o p
  <2>1. PICK S : f \in Seq(S) /\ u \in Seq(S) /\ Scenario \in Seq(S)
    <3> DEFINE T == {f[k] : k \in 1 .. Len(f)} \cup {u[k] : k \in 1 .. Len(u)}
                      \cup {Scenario[k] : k \in 1 .. Len(Scenario)}
    <3>1. f \in [1 .. Len(f) -> T] /\ u \in [1 .. Len(u) -> T]
      BY <1>1, <1>4 DEF IsSequence
    <3>2. Scenario \in [1 .. Len(Scenario) -> T] /\ Len(Scenario) \in Nat
      BY ScenarioInOrder DEF IsSequence
    <3> HIDE DEF T
    <3>3. f \in Seq(T) /\ u \in Seq(T)
      BY <3>1, <1>1, <1>4
    <3>4. Scenario \in Seq(T)
      BY <3>2
    <3>. QED
      BY <3>3, <3>4
  <2>. QED
    BY <2>1, <1>6, ConcatAssociative DEF p
<1>8. CASE Len(f) = 0
  <2>1. p \in Seq({p[k] : k \in 1 .. Len(p)}) /\ f \in Seq({p[k] : k \in 1 .. Len(p)})
    BY <1>3, <1>4, <1>8, SequenceOfItsElements, EmptySeq
  <2>2. f = <<>>
    BY <2>1, <1>8, EmptySeq
  <2>3. f \o p = p
    BY <2>1, <2>2, ConcatEmptySeq
  <2>. QED
    BY <2>3, <1>1, <1>3, <1>7, ScenarioInOrder DEF Entry
<1>9. CASE Len(f) # 0
  <2>1. Len(f) >= 1 /\ f[Len(f)].name = "fund" /\ f[1].name = "fund"
    BY <1>9, <1>4 DEF OnlyFunding
  <2>2. Follows("fund", p[1].name)
    BY <1>1, <1>3 DEF Follows, AfterReporter
  <2>3. Len(p) \in Nat /\ Len(p) >= 1
    BY <1>1, <1>3
  <2>4. /\ IsSequence(f \o p) /\ InOrder(f \o p) /\ Len(f \o p) = Len(f) + Len(p)
        /\ (f \o p)[1] = f[1] /\ (f \o p)[Len(f) + Len(p)] = p[Len(p)]
    BY <1>3, <1>4, <1>5, <2>1, <2>2, <2>3, JoinedInOrder
  <2>. QED
    BY <2>1, <2>3, <2>4, <1>3, <1>4, <1>7, ScenarioInOrder DEF Entry
<1>. QED
  BY <1>4, <1>8, <1>9

-----------------------------------------------------------------------------
(***************************************************************************)
(* What a transaction does, and what it leaves alone.                      *)
(***************************************************************************)
LEMMA CallIs ==
  ASSUME NEW tx, Call(tx)
  PROVE  /\ tx.call = "fund" => Fund(tx)
         /\ tx.call = "create" => Create
         /\ tx.call = "setWatcher" => OnVerdicts(SetWatcher(tx.from, tx.key))
         /\ tx.call = "setPool" => OnVerdicts(SetPool(tx.from))
         /\ tx.call = "poolVerdicts" =>
              OnPool(MutualPool!SetPoolVerdictContract(tx.from, Verdicts))
         /\ tx.call = "setReporter" =>
              OnBlocklist(BLOCKLIST!SetReporter(tx.from, Verdicts, TRUE))
         /\ tx.call = "guardVerdicts" =>
              OnAccount(Account!SetVerdictContract(tx.from, Verdicts))
         /\ tx.call = "mint" => OnToken(Mint(tx))
         /\ tx.call = "deposit" =>
              OnPool(MutualPool!Deposit(tx.from, tx.tranche, tx.amount))
         /\ tx.call = "redeem" =>
              OnPool(MutualPool!Redeem(tx.from, tx.tranche, tx.amount))
         /\ tx.call = "premium" => OnPool(MutualPool!RecordPremium(tx.from, tx.amount))
         /\ tx.call = "attach" => OnRegistry(Registry!Attach(tx.from, Guard, FirstPolicy))
         /\ tx.call = "revoke" => OnRegistry(Registry!Revoke(tx.from, Guard))
         /\ tx.call = "propose" =>
              OnAccount(\/ Account!ProposeRoutine(tx.from, tx.to, tx.amount)
                        \/ Account!ProposeElevated(tx.from, tx.to, tx.amount))
         /\ tx.call = "reportAttempt" => OnAccount(Account!ReportAttempt)
         /\ tx.call = "decide" => OnAccount(Decide(tx))
         /\ tx.call = "lapse" => OnAccount(Account!LapseHold(tx.hold))
         /\ tx.call = "killSwitch" => OnAccount(Account!KillSwitch(tx.from))
         /\ tx.call = "withdraw" =>
              OnAccount(Account!Withdraw(tx.from, tx.to, tx.amount))
         /\ tx.call = "holdVerdict" =>
              OnVerdicts(SubmitHoldVerdict(tx.from, tx.from, tx.hold, tx.tier))
         /\ tx.call = "otherHoldVerdict" => OtherHoldVerdict(tx)
         /\ tx.call = "verdict" => OnVerdicts(SubmitVerdict(tx.from, tx.from, tx.verdict))
         /\ tx.call = "dispute" => OnVerdicts(Dispute(tx.from, tx.verdict))
         /\ tx.call = "report" => OnBlocklist(BLOCKLIST!Report(tx.from, tx.to))
         /\ tx.call = "clear" => OnBlocklist(BLOCKLIST!Clear(tx.from, tx.to))
         /\ tx.call \in {"fund", "create", "setWatcher", "setPool", "poolVerdicts",
              "setReporter", "guardVerdicts", "mint", "deposit", "redeem", "premium",
              "attach", "revoke", "propose", "reportAttempt", "decide", "lapse",
              "killSwitch", "withdraw", "holdVerdict", "verdict", "dispute", "report",
              "clear", "otherHoldVerdict"}
BY DEF Call

-----------------------------------------------------------------------------
\* Each part of the state is written by a few calls only.
LEMMA HoldFrame ==
  ASSUME NEW tx, Call(tx), tx.call \notin {"propose", "decide", "lapse", "holdVerdict"}
  PROVE  holds' = holds /\ nextHoldId' = nextHoldId
<1>1. CASE tx.call \in {"fund", "create", "mint", "otherHoldVerdict"}
  BY <1>1, CallIs DEF Fund, Create, OnToken, OtherHoldVerdict, chainVars, allVars, accountVars
<1>2. CASE tx.call \in {"setWatcher", "setPool", "verdict", "dispute"}
  BY <1>2, CallIs DEF OnVerdicts, SetWatcher, SetPool, SubmitVerdict, Dispute, accountVars
<1>3. CASE tx.call \in {"poolVerdicts", "deposit", "redeem", "premium"}
  BY <1>3, CallIs DEF OnPool, accountVars
<1>4. CASE tx.call \in {"setReporter", "report", "clear", "attach", "revoke"}
  BY <1>4, CallIs DEF OnBlocklist, OnRegistry, accountVars
<1>5. CASE tx.call \in {"guardVerdicts", "reportAttempt", "killSwitch", "withdraw"}
  BY <1>5, CallIs DEF OnAccount, Account!SetVerdictContract, Account!ReportAttempt,
     Account!KillSwitch, Account!Withdraw, Account!holdVars, Account!guardVars
<1>. QED
  BY <1>1, <1>2, <1>3, <1>4, <1>5, CallIs

LEMMA VerdictFrame ==
  ASSUME NEW tx, Call(tx), tx.call # "verdict"
  PROVE  verdicts' = verdicts /\ claimNullifiers' = claimNullifiers
<1>1. CASE tx.call \in {"fund", "create", "mint", "otherHoldVerdict"}
  BY <1>1, CallIs DEF Fund, Create, OnToken, OtherHoldVerdict, chainVars, allVars, verdictVars
<1>2. CASE tx.call \in {"setWatcher", "setPool", "holdVerdict", "dispute"}
  BY <1>2, CallIs DEF OnVerdicts, SetWatcher, SetPool, SubmitHoldVerdict, Dispute,
     verdictVars
<1>3. CASE tx.call \in {"poolVerdicts", "deposit", "redeem", "premium"}
  BY <1>3, CallIs DEF OnPool, verdictVars
<1>4. CASE tx.call \in {"setReporter", "report", "clear", "attach", "revoke"}
  BY <1>4, CallIs DEF OnBlocklist, OnRegistry, verdictVars
<1>5. CASE tx.call \in {"guardVerdicts", "reportAttempt", "killSwitch", "withdraw",
                        "propose", "decide", "lapse"}
  BY <1>5, CallIs DEF OnAccount, verdictVars
<1>. QED
  BY <1>1, <1>2, <1>3, <1>4, <1>5, CallIs

\* The wiring: each address is written by one call, and only as deployed.
LEMMA WiringFrame ==
  ASSUME NEW tx, Call(tx)
  PROVE  /\ pool' = pool \/ pool' = Pool
         /\ poolVerdictContract' = poolVerdictContract \/ poolVerdictContract' = Verdicts
         /\ verdictContract' = verdictContract \/ verdictContract' = Verdicts
         /\ \/ isReporter' = isReporter
            \/ isReporter' = [isReporter EXCEPT ![Verdicts] = TRUE]
         /\ tx.call = "setReporter" => isReporter' = [isReporter EXCEPT ![Verdicts] = TRUE]
<1>1. CASE tx.call \in {"fund", "create", "mint", "otherHoldVerdict"}
  BY <1>1, CallIs DEF Fund, Create, OnToken, OtherHoldVerdict, chainVars, allVars, verdictVars, accountVars,
     ownPoolVars, blocklistVars
<1>2. CASE tx.call \in {"setWatcher", "setPool", "dispute"}
  BY <1>2, CallIs DEF OnVerdicts, SetWatcher, SetPool, Dispute, verdictVars, accountVars,
     ownPoolVars, blocklistVars
<1>3. CASE tx.call = "holdVerdict"
  BY <1>3, CallIs DEF OnVerdicts, SubmitHoldVerdict, Account!ReleaseHold,
     Account!FreezeHold, Account!keyVars, verdictVars, ownPoolVars, blocklistVars
<1>4. CASE tx.call = "verdict"
  <2>1. SubmitVerdict(tx.from, tx.from, tx.verdict)
    BY <1>4, CallIs DEF OnVerdicts
  <2>2. poolVerdictContract' = poolVerdictContract
    BY <2>1 DEF SubmitVerdict, Route, MutualPool!Payout, ownPoolVars
  <2>3. isReporter' = isReporter
    BY <2>1 DEF SubmitVerdict, Route, BLOCKLIST!Report, blocklistVars
  <2>4. pool' = pool /\ verdictContract' = verdictContract
    BY <2>1 DEF SubmitVerdict, accountVars
  <2>. QED
    BY <1>4, <2>2, <2>3, <2>4
<1>5. CASE tx.call = "poolVerdicts"
  BY <1>5, CallIs DEF OnPool, MutualPool!SetPoolVerdictContract, verdictVars, accountVars,
     blocklistVars
<1>6. CASE tx.call \in {"deposit", "redeem", "premium"}
  BY <1>6, CallIs DEF OnPool, MutualPool!Deposit, MutualPool!Redeem,
     MutualPool!RecordPremium, verdictVars, accountVars, blocklistVars
<1>7. CASE tx.call \in {"setReporter", "report", "clear"}
  BY <1>7, CallIs DEF OnBlocklist, BLOCKLIST!SetReporter, BLOCKLIST!Report,
     BLOCKLIST!Clear, verdictVars, accountVars, ownPoolVars
<1>8. CASE tx.call \in {"attach", "revoke"}
  BY <1>8, CallIs DEF OnRegistry, verdictVars, accountVars, ownPoolVars, blocklistVars
<1>9. CASE tx.call \in {"reportAttempt", "killSwitch", "withdraw"}
  BY <1>9, CallIs DEF OnAccount, Account!ReportAttempt, Account!KillSwitch,
     Account!Withdraw, Account!keyVars, Account!guardVars, verdictVars, ownPoolVars,
     blocklistVars
<1>10. CASE tx.call = "guardVerdicts"
  BY <1>10, CallIs DEF OnAccount, Account!SetVerdictContract, verdictVars, ownPoolVars,
     blocklistVars
<1>11. CASE tx.call \in {"propose", "lapse"}
  BY <1>11, CallIs DEF OnAccount, Account!ProposeRoutine, Account!ProposeElevated,
     Account!LapseHold, Account!LapseExtend, Account!LapseFreeze, Account!keyVars,
     verdictVars, ownPoolVars, blocklistVars
<1>12. CASE tx.call = "decide"
  BY <1>12, CallIs DEF OnAccount, Decide, Account!Approve, Account!Reject,
     Account!keyVars, verdictVars, ownPoolVars, blocklistVars
<1>. QED
  BY <1>1, <1>2, <1>3, <1>4, <1>5, <1>6, <1>7, <1>8, <1>9, <1>10, <1>11, <1>12, CallIs

LEMMA TermsFrame ==
  ASSUME NEW tx, Call(tx), tx.call \notin {"attach", "revoke"}
  PROVE  registryVars' = registryVars
<1>1. CASE tx.call \in {"fund", "create", "mint", "otherHoldVerdict"}
  BY <1>1, CallIs DEF Fund, Create, OnToken, OtherHoldVerdict, chainVars, allVars, registryVars
<1>2. CASE tx.call \in {"setWatcher", "setPool", "dispute", "holdVerdict", "verdict"}
  BY <1>2, CallIs DEF OnVerdicts, SetWatcher, SetPool, Dispute, SubmitHoldVerdict,
     SubmitVerdict, registryVars
<1>3. CASE tx.call \in {"poolVerdicts", "deposit", "redeem", "premium"}
  BY <1>3, CallIs DEF OnPool, registryVars
<1>4. CASE tx.call \in {"setReporter", "report", "clear"}
  BY <1>4, CallIs DEF OnBlocklist, registryVars
<1>5. CASE tx.call \in {"guardVerdicts", "reportAttempt", "killSwitch", "withdraw",
                        "propose", "decide", "lapse"}
  BY <1>5, CallIs DEF OnAccount, registryVars
<1>. QED
  BY <1>1, <1>2, <1>3, <1>4, <1>5, CallIs

-----------------------------------------------------------------------------
(***************************************************************************)
(* Holds: whom they are for and how much is never changed, a released hold *)
(* stays so, and only the watcher's release makes one.                     *)
(***************************************************************************)
Holding(f) == f = [i \in Account!HoldId |-> f[i]] /\ \A i \in Account!HoldId : IsHold(f[i])

WithStatus(f, j, s) == [f EXCEPT ![j].status = s]
Extended(f, j, t) == [f EXCEPT ![j].extendedTo = t]

LEMMA StatusSet ==
  ASSUME NEW f, Holding(f), NEW j, NEW s
  PROVE  LET g == WithStatus(f, j, s) IN
         /\ Holding(g)
         /\ \A i \in Account!HoldId :
              /\ g[i].to = f[i].to /\ g[i].amount = f[i].amount
              /\ i # j => g[i] = f[i]
              /\ i = j => g[i].status = s
<1> DEFINE g == WithStatus(f, j, s)
<1>1. g = [i \in Account!HoldId |-> IF i = j THEN [f[j] EXCEPT !.status = s] ELSE f[i]]
  BY DEF Holding, WithStatus
<1>2. ASSUME NEW h, IsHold(h)
      PROVE  LET k == [h EXCEPT !.status = s] IN
             /\ k = [to |-> h.to, amount |-> h.amount, releaseAt |-> h.releaseAt,
                     createdAt |-> h.createdAt, extendedTo |-> h.extendedTo,
                     status |-> s]
             /\ k.to = h.to /\ k.amount = h.amount /\ k.status = s /\ IsHold(k)
  <2> DEFINE k == [h EXCEPT !.status = s]
  <2>1. k = [to |-> h.to, amount |-> h.amount, releaseAt |-> h.releaseAt,
             createdAt |-> h.createdAt, extendedTo |-> h.extendedTo, status |-> s]
    BY <1>2 DEF IsHold
  <2>2. h.amount \in Nat
    BY <1>2 DEF IsHold
  <2> HIDE DEF k
  <2>3. k.to = h.to /\ k.amount = h.amount /\ k.status = s /\ IsHold(k)
    BY <2>1, <2>2 DEF IsHold
  <2>. QED
    BY <2>1, <2>3 DEF k
<1>3. \A i \in Account!HoldId : IsHold(f[i])
  BY DEF Holding
<1> HIDE DEF g
<1>4. \A i \in Account!HoldId :
        /\ IsHold(g[i]) /\ g[i].to = f[i].to /\ g[i].amount = f[i].amount
        /\ i # j => g[i] = f[i]
        /\ i = j => g[i].status = s
  BY <1>1, <1>2, <1>3
<1>5. g = [i \in Account!HoldId |-> g[i]]
  BY <1>1
<1>. QED
  BY <1>4, <1>5 DEF g, Holding

LEMMA ExtensionSet ==
  ASSUME NEW f, Holding(f), NEW j, NEW t
  PROVE  LET g == Extended(f, j, t) IN
         /\ Holding(g)
         /\ \A i \in Account!HoldId :
              /\ g[i].to = f[i].to /\ g[i].amount = f[i].amount
              /\ g[i].status = f[i].status
              /\ i # j => g[i] = f[i]
              /\ i = j => g[i].extendedTo = t
<1> DEFINE g == Extended(f, j, t)
<1>1. g = [i \in Account!HoldId |->
             IF i = j THEN [f[j] EXCEPT !.extendedTo = t] ELSE f[i]]
  BY DEF Holding, Extended
<1>2. ASSUME NEW h, IsHold(h)
      PROVE  LET k == [h EXCEPT !.extendedTo = t] IN
             /\ k.to = h.to /\ k.amount = h.amount /\ k.status = h.status
             /\ k.extendedTo = t /\ IsHold(k)
  <2> DEFINE k == [h EXCEPT !.extendedTo = t]
  <2>1. k = [to |-> h.to, amount |-> h.amount, releaseAt |-> h.releaseAt,
             createdAt |-> h.createdAt, extendedTo |-> t, status |-> h.status]
    BY <1>2 DEF IsHold
  <2>2. h.amount \in Nat
    BY <1>2 DEF IsHold
  <2> HIDE DEF k
  <2>3. /\ k.to = h.to /\ k.amount = h.amount /\ k.status = h.status
        /\ k.extendedTo = t /\ IsHold(k)
    BY <2>1, <2>2 DEF IsHold
  <2>. QED
    BY <2>3 DEF k
<1>3. \A i \in Account!HoldId : IsHold(f[i])
  BY DEF Holding
<1> HIDE DEF g
<1>4. \A i \in Account!HoldId :
        /\ IsHold(g[i]) /\ g[i].to = f[i].to /\ g[i].amount = f[i].amount
        /\ g[i].status = f[i].status
        /\ i # j => g[i] = f[i]
        /\ i = j => g[i].extendedTo = t
  BY <1>1, <1>2, <1>3
<1>5. g = [i \in Account!HoldId |-> g[i]]
  BY <1>1
<1>. QED
  BY <1>4, <1>5 DEF g, Holding

LEMMA HoldAdded ==
  ASSUME NEW f, Holding(f), NEW j, NEW h, IsHold(h)
  PROVE  LET g == [f EXCEPT ![j] = h] IN
         /\ Holding(g)
         /\ \A i \in Account!HoldId : i # j => g[i] = f[i]
         /\ j \in Account!HoldId => g[j] = h
<1> DEFINE g == [f EXCEPT ![j] = h]
<1>1. g = [i \in Account!HoldId |-> IF i = j THEN h ELSE f[i]]
  BY DEF Holding
<1> HIDE DEF g
<1>2. \A i \in Account!HoldId : IsHold(g[i]) /\ (i # j => g[i] = f[i])
  BY <1>1 DEF Holding
<1>3. g = [i \in Account!HoldId |-> g[i]]
  BY <1>1
<1>. QED
  BY <1>1, <1>2, <1>3 DEF g, Holding

\* The holds of a later state, compared with those of an earlier one.
Keeps(f, n, g, m) ==
  /\ Holding(g) /\ m \in n .. MaxHolds + 1
  /\ \A i \in 1 .. n - 1 :
       /\ g[i].to = f[i].to /\ g[i].amount = f[i].amount
       /\ f[i].status = "RELEASED" => g[i].status = "RELEASED"

Released(f, i) == f[i].status = "RELEASED"

LEMMA HoldsChange ==
  ASSUME HoldsTyped, NEW tx, Sane(tx), Call(tx)
  PROVE  /\ Keeps(holds, nextHoldId, holds', nextHoldId')
         /\ \A i \in 1 .. nextHoldId' - 1 :
              Released(holds', i) =>
                \/ i < nextHoldId /\ Released(holds, i)
                \/ /\ tx.call = "holdVerdict" /\ tx.tier = 0 /\ tx.hold = i
                   /\ i < nextHoldId /\ holds[i].status = "PENDING"
                   /\ IsLookalike(i)
                   /\ usdc' = Account!Moved(usdc, Guard, holds[i].to, holds[i].amount)
<1>1. Holding(holds) /\ nextHoldId \in 1 .. MaxHolds + 1
  BY DEF HoldsTyped, Holding
<1>2. MaxHolds \in Nat /\ Amount \subseteq Nat
  BY PartsAssumption DEF Account!NumberAssumption
<1>3. \A i \in 1 .. nextHoldId - 1 : i \in Account!HoldId /\ i < nextHoldId
  BY <1>1, <1>2 DEF Account!HoldId
<1>4. CASE holds' = holds /\ nextHoldId' = nextHoldId
  BY <1>1, <1>2, <1>3, <1>4 DEF Keeps, Released
<1>5. ASSUME NEW j, NEW s, s # "RELEASED", holds[j].status # "RELEASED",
             holds' = [holds EXCEPT ![j].status = s], nextHoldId' = nextHoldId
      PROVE  /\ Keeps(holds, nextHoldId, holds', nextHoldId')
             /\ \A i \in 1 .. nextHoldId' - 1 :
                  Released(holds', i) => i < nextHoldId /\ Released(holds, i)
  <2>1. /\ Holding(holds')
        /\ \A i \in Account!HoldId :
             /\ holds'[i].to = holds[i].to /\ holds'[i].amount = holds[i].amount
             /\ i # j => holds'[i] = holds[i]
             /\ i = j => holds'[i].status = s
    <3> DEFINE g == WithStatus(holds, j, s)
    <3>1. /\ Holding(g)
          /\ \A i \in Account!HoldId :
               /\ g[i].to = holds[i].to /\ g[i].amount = holds[i].amount
               /\ i # j => g[i] = holds[i]
               /\ i = j => g[i].status = s
      BY <1>1, StatusSet
    <3>2. holds' = g
      BY <1>5 DEF WithStatus
    <3> HIDE DEF g
    <3>. QED
      BY <3>1, <3>2
  <2>. QED
    BY <1>1, <1>3, <1>5, <2>1 DEF Keeps, Released
<1>6. CASE tx.call = "propose"
  <2>1. CASE Account!ProposeRoutine(tx.from, tx.to, tx.amount)
    BY <1>4, <2>1 DEF Account!ProposeRoutine, Account!holdVars
  <2>2. CASE Account!ProposeElevated(tx.from, tx.to, tx.amount)
    <3> DEFINE h == Account!NewHold(tx.to, tx.amount)
    <3>1. holds' = [holds EXCEPT ![nextHoldId] = h] /\ nextHoldId' = nextHoldId + 1
          /\ nextHoldId <= MaxHolds
      BY <2>2 DEF Account!ProposeElevated
    <3>2. IsHold(h) /\ h.status = "PENDING"
      BY <1>6 DEF IsHold, Account!NewHold, Sane
    <3> HIDE DEF h
    <3>3. nextHoldId \in Account!HoldId
      BY <1>1, <1>2, <3>1 DEF Account!HoldId
    <3>4. /\ Holding(holds') /\ holds'[nextHoldId] = h
          /\ \A i \in Account!HoldId : i # nextHoldId => holds'[i] = holds[i]
      <4> DEFINE g == [holds EXCEPT ![nextHoldId] = h]
      <4>1. /\ Holding(g) /\ (nextHoldId \in Account!HoldId => g[nextHoldId] = h)
            /\ \A i \in Account!HoldId : i # nextHoldId => g[i] = holds[i]
        BY <1>1, <3>2, HoldAdded
      <4>2. holds' = g
        BY <3>1
      <4> HIDE DEF g
      <4>. QED
        BY <3>3, <4>1, <4>2
    <3>5. \A i \in 1 .. nextHoldId - 1 : holds'[i] = holds[i]
      BY <1>1, <1>3, <3>4
    <3>. QED
      BY <1>1, <1>2, <3>1, <3>2, <3>4, <3>5 DEF Keeps, Released
  <2>. QED
    BY <1>6, <2>1, <2>2, CallIs DEF OnAccount
<1>7. CASE tx.call = "decide"
  <2>1. PICK s \in {"EXECUTED_OWNER", "CANCELLED"} :
          /\ holds[tx.hold].status \in {"PENDING", "FROZEN"}
          /\ holds' = [holds EXCEPT ![tx.hold].status = s] /\ nextHoldId' = nextHoldId
    BY <1>7, CallIs DEF OnAccount, Decide, Account!Approve, Account!Reject,
       Account!SetStatus
  <2>. QED
    BY <2>1, <1>5
<1>8. CASE tx.call = "lapse"
  <2>1. CASE Account!LapseExtend(tx.hold)
    <3>1. holds' = [holds EXCEPT ![tx.hold].extendedTo = now + HOLD_EXTEND_SEC]
          /\ nextHoldId' = nextHoldId
      BY <2>1 DEF Account!LapseExtend
    <3>2. /\ Holding(holds')
          /\ \A i \in Account!HoldId :
               /\ holds'[i].to = holds[i].to /\ holds'[i].amount = holds[i].amount
               /\ holds'[i].status = holds[i].status
      <4> DEFINE g == Extended(holds, tx.hold, now + HOLD_EXTEND_SEC)
      <4>1. /\ Holding(g)
            /\ \A i \in Account!HoldId :
                 /\ g[i].to = holds[i].to /\ g[i].amount = holds[i].amount
                 /\ g[i].status = holds[i].status
        BY <1>1, ExtensionSet
      <4>2. holds' = g
        BY <3>1 DEF Extended
      <4> HIDE DEF g
      <4>. QED
        BY <4>1, <4>2
    <3>. QED
      BY <1>1, <1>3, <3>1, <3>2 DEF Keeps, Released
  <2>2. CASE Account!LapseFreeze(tx.hold)
    <3>1. /\ holds[tx.hold].status = "PENDING"
          /\ holds' = [holds EXCEPT ![tx.hold].status = "FROZEN"]
          /\ nextHoldId' = nextHoldId
      BY <2>2 DEF Account!LapseFreeze, Account!SetStatus
    <3>. QED
      BY <3>1, <1>5
  <2>. QED
    BY <1>8, <2>1, <2>2, CallIs DEF OnAccount, Account!LapseHold
<1>9. CASE tx.call = "holdVerdict"
  <2>0. SubmitHoldVerdict(tx.from, tx.from, tx.hold, tx.tier)
    BY <1>9, CallIs DEF OnVerdicts
  <2>1. CASE tx.tier = 1 /\ Account!FreezeHold(Verdicts, tx.hold)
    <3>1. /\ holds[tx.hold].status = "PENDING"
          /\ holds' = [holds EXCEPT ![tx.hold].status = "FROZEN"]
          /\ nextHoldId' = nextHoldId
      BY <2>1 DEF Account!FreezeHold, Account!SetStatus
    <3>. QED
      BY <3>1, <1>5
  <2>2. CASE tx.tier = 0 /\ Account!ReleaseHold(Verdicts, tx.hold)
    <3>1. IsLookalike(tx.hold) /\ tx.hold \in 1 .. nextHoldId - 1
      BY <1>9, <2>2 DEF Sane, IsLookalike
    <3>2. /\ holds[tx.hold].status = "PENDING"
          /\ holds' = [holds EXCEPT ![tx.hold].status = "RELEASED"]
          /\ nextHoldId' = nextHoldId
          /\ usdc' = Account!Moved(usdc, Guard, holds[tx.hold].to, holds[tx.hold].amount)
      BY <2>2 DEF Account!ReleaseHold, Account!SetStatus, Account!Execute
    <3>3. /\ Holding(holds')
          /\ \A i \in Account!HoldId :
               /\ holds'[i].to = holds[i].to /\ holds'[i].amount = holds[i].amount
               /\ i # tx.hold => holds'[i] = holds[i]
               /\ i = tx.hold => holds'[i].status = "RELEASED"
      <4> DEFINE g == WithStatus(holds, tx.hold, "RELEASED")
      <4>1. /\ Holding(g)
            /\ \A i \in Account!HoldId :
                 /\ g[i].to = holds[i].to /\ g[i].amount = holds[i].amount
                 /\ i # tx.hold => g[i] = holds[i]
                 /\ i = tx.hold => g[i].status = "RELEASED"
        BY <1>1, StatusSet
      <4>2. holds' = g
        BY <3>2 DEF WithStatus
      <4> HIDE DEF g
      <4>. QED
        BY <4>1, <4>2
    <3>. QED
      BY <1>1, <1>3, <1>9, <2>2, <3>1, <3>2, <3>3 DEF Keeps, Released
  <2>. QED
    BY <2>0, <2>1, <2>2 DEF SubmitHoldVerdict
<1>. QED
  BY <1>4, <1>6, <1>7, <1>8, <1>9, HoldFrame

-----------------------------------------------------------------------------
(***************************************************************************)
(* Nobody takes money from the lookalike, and each release pays it.        *)
(***************************************************************************)
LEMMA MovedBeside ==
  ASSUME NEW u, DOMAIN u = Address, NEW a \in Address, NEW from, from # a, NEW to, NEW n
  PROVE  /\ DOMAIN Account!Moved(u, from, to, n) = Address
         /\ Account!Moved(u, from, to, n)[a] = IF to = a THEN u[a] + n ELSE u[a]
         /\ MutualPool!Moved(u, from, to, n) = Account!Moved(u, from, to, n)
BY DEF Account!Moved, MutualPool!Moved

LEMMA LookalikeMoney ==
  ASSUME HoldsTyped, DOMAIN usdc = Address, usdc[LOOKALIKE] \in Nat,
         NEW tx, Sane(tx), Call(tx)
  PROVE  /\ DOMAIN usdc' = Address /\ usdc'[LOOKALIKE] \in Nat
         /\ usdc'[LOOKALIKE] >= usdc[LOOKALIKE]
         /\ tx.call = "holdVerdict" /\ tx.tier = 0 =>
              usdc'[LOOKALIKE] = usdc[LOOKALIKE] + 150
<1>0. LOOKALIKE \in Address /\ Guard # LOOKALIKE /\ Pool # LOOKALIKE
  BY LookalikeAssumption
<1>1. ASSUME usdc' = usdc, tx.call # "holdVerdict" PROVE DOMAIN usdc' = Address
        /\ usdc'[LOOKALIKE] \in Nat /\ usdc'[LOOKALIKE] >= usdc[LOOKALIKE]
  BY <1>1
<1>2. ASSUME NEW from, NEW to, NEW n, from # LOOKALIKE, n \in Nat \/ to # LOOKALIKE,
             usdc' = Account!Moved(usdc, from, to, n)
      PROVE  /\ DOMAIN usdc' = Address /\ usdc'[LOOKALIKE] \in Nat
             /\ usdc'[LOOKALIKE] >= usdc[LOOKALIKE]
             /\ to = LOOKALIKE => usdc'[LOOKALIKE] = usdc[LOOKALIKE] + n
  <2>1. /\ DOMAIN Account!Moved(usdc, from, to, n) = Address
        /\ Account!Moved(usdc, from, to, n)[LOOKALIKE] =
             IF to = LOOKALIKE THEN usdc[LOOKALIKE] + n ELSE usdc[LOOKALIKE]
    BY <1>0, <1>2, MovedBeside
  <2>. QED
    BY <2>1, <1>2
<1>3. CASE tx.call \in {"fund", "create", "otherHoldVerdict"}
  BY <1>1, <1>3, CallIs DEF Fund, Create, OtherHoldVerdict, chainVars, allVars
<1>4. CASE tx.call \in {"setWatcher", "setPool", "dispute"}
  BY <1>1, <1>4, CallIs DEF OnVerdicts, SetWatcher, SetPool, Dispute
<1>5. CASE tx.call \in {"setReporter", "report", "clear", "attach", "revoke"}
  BY <1>1, <1>5, CallIs DEF OnBlocklist, OnRegistry
<1>6. CASE tx.call \in {"poolVerdicts", "guardVerdicts", "reportAttempt", "killSwitch",
                        "lapse"}
  BY <1>1, <1>6, CallIs DEF OnPool, OnAccount, MutualPool!SetPoolVerdictContract,
     Account!SetVerdictContract, Account!ReportAttempt, Account!KillSwitch,
     Account!LapseHold, Account!LapseExtend, Account!LapseFreeze
<1>7. CASE tx.call = "mint"
  <2>1. usdc' = [usdc EXCEPT ![tx.to] = @ + tx.amount] /\ tx.amount \in Nat
    BY <1>7, CallIs DEF OnToken, Mint, Sane
  <2>. QED
    BY <1>0, <1>7, <2>1
<1>8. CASE tx.call \in {"deposit", "premium"}
  <2>1. usdc' = MutualPool!Moved(usdc, tx.from, Pool, tx.amount) /\ tx.from # LOOKALIKE
    BY <1>8, CallIs DEF OnPool, MutualPool!Deposit, MutualPool!RecordPremium, Sane
  <2>2. usdc' = Account!Moved(usdc, tx.from, Pool, tx.amount)
    BY <2>1 DEF Account!Moved, MutualPool!Moved
  <2>. QED
    BY <1>0, <1>2, <1>8, <2>1, <2>2
<1>9. CASE tx.call = "redeem"
  <2>1. usdc' = MutualPool!Moved(usdc, Pool, tx.from,
                                 MutualPool!ToAsset(tx.tranche, tx.amount))
        /\ tx.from # LOOKALIKE
    BY <1>9, CallIs DEF OnPool, MutualPool!Redeem, Sane
  <2>2. usdc' = Account!Moved(usdc, Pool, tx.from,
                              MutualPool!ToAsset(tx.tranche, tx.amount))
    BY <2>1 DEF Account!Moved, MutualPool!Moved
  <2>. QED
    BY <1>0, <1>2, <1>9, <2>1, <2>2
<1>10. CASE tx.call = "withdraw"
  <2>1. usdc' = Account!Moved(usdc, Guard, tx.to, tx.amount) /\ tx.amount \in Nat
    BY <1>10, CallIs DEF OnAccount, Account!Withdraw, Sane
  <2>. QED
    BY <1>0, <1>2, <1>10, <2>1
<1>11. CASE tx.call = "propose"
  <2>1. usdc' = usdc \/ usdc' = Account!Moved(usdc, Guard, tx.to, tx.amount)
    BY <1>11, CallIs DEF OnAccount, Account!ProposeRoutine, Account!ProposeElevated
  <2>2. tx.amount \in Nat
    BY <1>11 DEF Sane
  <2>. QED
    BY <1>0, <1>1, <1>2, <1>11, <2>1, <2>2
<1>12. ASSUME tx.call \in {"decide", "holdVerdict"}
       PROVE  holds[tx.hold].amount \in Nat
  <2>1. tx.hold \in 1 .. nextHoldId - 1 /\ nextHoldId \in 1 .. MaxHolds + 1
    BY <1>12 DEF Sane, HoldsTyped
  <2>2. tx.hold \in Account!HoldId
    BY <2>1, PartsAssumption DEF Account!HoldId, Account!NumberAssumption
  <2>. QED
    BY <2>2 DEF HoldsTyped, IsHold
<1>13. CASE tx.call = "decide"
  <2>1. usdc' = usdc
        \/ usdc' = Account!Moved(usdc, Guard, holds[tx.hold].to, holds[tx.hold].amount)
    BY <1>13, CallIs DEF OnAccount, Decide, Account!Approve, Account!Reject,
       Account!Execute
  <2>. QED
    BY <1>0, <1>1, <1>2, <1>12, <1>13, <2>1
<1>14. CASE tx.call = "holdVerdict"
  <2>1. SubmitHoldVerdict(tx.from, tx.from, tx.hold, tx.tier)
    BY <1>14, CallIs DEF OnVerdicts
  <2>2. CASE tx.tier = 1 /\ Account!FreezeHold(Verdicts, tx.hold)
    <3>1. usdc' = usdc
      BY <2>2 DEF Account!FreezeHold
    <3>. QED
      BY <2>2, <3>1
  <2>3. CASE tx.tier = 0 /\ Account!ReleaseHold(Verdicts, tx.hold)
    <3>1. holds[tx.hold].to = LOOKALIKE /\ holds[tx.hold].amount = 150
      BY <1>14, <2>3 DEF Sane, IsLookalike
    <3>2. usdc' = Account!Moved(usdc, Guard, LOOKALIKE, 150)
      BY <2>3, <3>1 DEF Account!ReleaseHold, Account!Execute
    <3>. QED
      BY <1>0, <1>2, <3>2
  <2>. QED
    BY <2>1, <2>2, <2>3 DEF SubmitHoldVerdict
<1>15. CASE tx.call = "verdict"
  <2>1. SubmitVerdict(tx.from, tx.from, tx.verdict) /\ IsSubmitted(tx.verdict)
    BY <1>15, CallIs DEF OnVerdicts, Sane
  <2>4. CASE tx.verdict.outcome # "COVERED"
    <3>1. usdc' = usdc
      BY <2>1, <2>4 DEF SubmitVerdict, Route
    <3>. QED
      BY <1>1, <1>15, <3>1
  <2> SUFFICES ASSUME tx.verdict.outcome = "COVERED"
               PROVE  /\ DOMAIN usdc' = Address /\ usdc'[LOOKALIKE] \in Nat
                      /\ usdc'[LOOKALIKE] >= usdc[LOOKALIKE]
                      /\ tx.call = "holdVerdict" /\ tx.tier = 0 =>
                           usdc'[LOOKALIKE] = usdc[LOOKALIKE] + 150
    BY <2>4
  <2>2. usdc' = MutualPool!Moved(usdc, Pool, tx.verdict.claimant, tx.verdict.payoutAmount)
        /\ tx.verdict.payoutAmount \in Nat
    BY <2>1 DEF SubmitVerdict, Route, MutualPool!Payout, IsSubmitted, IsLossClaim
  <2>3. usdc' = Account!Moved(usdc, Pool, tx.verdict.claimant, tx.verdict.payoutAmount)
    BY <2>2 DEF Account!Moved, MutualPool!Moved
  <2>. QED
    BY <1>0, <1>2, <1>15, <2>2, <2>3
<1>. QED
  BY <1>1, <1>3, <1>4, <1>5, <1>6, <1>7, <1>8, <1>9, <1>10, <1>11, <1>13, <1>14, <1>15,
     CallIs

-----------------------------------------------------------------------------
(***************************************************************************)
(* One transaction keeps what the invariant says of the contracts.         *)
(***************************************************************************)
Books == HoldsTyped /\ PaidHolds /\ AcceptedClaims /\ Reporting /\ Terms

Sender(tx) == Books /\ Sane(tx) /\ Call(tx)

LEMMA HoldIdsAre == HoldsTyped => 1 .. nextHoldId - 1 \subseteq Account!HoldId
BY PartsAssumption DEF HoldsTyped, Account!HoldId, Account!NumberAssumption

LEMMA StillHolds ==
  ASSUME NEW tx, Sender(tx)
  PROVE  /\ HoldsTyped'
         /\ 1 .. nextHoldId - 1 \subseteq 1 .. nextHoldId' - 1
         /\ \A i : IsLookalike(i) => IsLookalike(i)'
         /\ \A i : WasPaid(i) => WasPaid(i)'
<1>1. Keeps(holds, nextHoldId, holds', nextHoldId')
  BY HoldsChange DEF Sender, Books
<1>2. nextHoldId \in 1 .. MaxHolds + 1 /\ MaxHolds \in Nat
  BY PartsAssumption DEF Sender, Books, HoldsTyped, Account!NumberAssumption
<1>3. nextHoldId' \in nextHoldId .. MaxHolds + 1
  BY <1>1 DEF Keeps
<1>4. HoldsTyped'
  BY <1>1, <1>2, <1>3 DEF Keeps, Holding, HoldsTyped, IsHold
<1>5. 1 .. nextHoldId - 1 \subseteq 1 .. nextHoldId' - 1
  <2>1. nextHoldId \in Nat /\ nextHoldId' \in Nat /\ nextHoldId <= nextHoldId'
    BY <1>2, <1>3
  <2>2. ASSUME NEW a \in Nat, NEW b \in Nat, a <= b
        PROVE  1 .. a - 1 \subseteq 1 .. b - 1
    BY <2>2
  <2>. QED
    BY <2>1, <2>2
<1>6. ASSUME NEW i, IsLookalike(i)
      PROVE  IsLookalike(i)' /\ (WasPaid(i) => WasPaid(i)')
  <2>1. /\ i \in 1 .. nextHoldId - 1 /\ i \in 1 .. nextHoldId' - 1
        /\ holds'[i].to = LOOKALIKE /\ holds'[i].amount = 150
        /\ holds[i].status = "RELEASED" => holds'[i].status = "RELEASED"
    BY <1>1, <1>5, <1>6 DEF Keeps, IsLookalike
  <2>. QED
    BY <2>1 DEF IsLookalike, WasPaid
<1>. QED
  BY <1>4, <1>5, <1>6 DEF WasPaid

LEMMA StillPaid ==
  ASSUME NEW tx, Sender(tx)
  PROVE  PaidHolds'
<1> DEFINE new == tx.call = "holdVerdict" /\ tx.tier = 0
           R == HoldsAs("RELEASED")
<1>1. /\ DOMAIN usdc' = Address /\ usdc'[LOOKALIKE] \in Nat
      /\ usdc[LOOKALIKE] \in Nat /\ usdc'[LOOKALIKE] >= usdc[LOOKALIKE]
      /\ new => usdc'[LOOKALIKE] = usdc[LOOKALIKE] + 150
  BY LookalikeMoney DEF Sender, Books, PaidHolds
<1>2. \A i \in HoldsAs("RELEASED")' : i \in R \/ (new /\ i = tx.hold /\ IsLookalike(i))
  BY HoldsChange DEF Sender, Books, HoldsAs, Released, IsLookalike, HoldsTyped
<1>3. /\ \A i \in R : WasPaid(i) /\ usdc[LOOKALIKE] >= 150
      /\ \A i, j \in R : i # j => usdc[LOOKALIKE] >= 300
  BY DEF Sender, Books, PaidHolds
<1>4. \A i \in R : WasPaid(i)'
  BY <1>3, StillHolds
<1>5. ASSUME NEW i \in HoldsAs("RELEASED")'
      PROVE  WasPaid(i)' /\ usdc'[LOOKALIKE] >= 150
  <2>1. CASE i \in R
    BY <1>1, <1>3, <1>4, <2>1
  <2>2. CASE new /\ i = tx.hold /\ IsLookalike(i)
    <3>1. IsLookalike(i)'
      BY <2>2, StillHolds
    <3>2. holds'[i].status = "RELEASED"
      BY <1>5 DEF HoldsAs
    <3>. QED
      BY <1>1, <2>2, <3>1, <3>2 DEF WasPaid
  <2>. QED
    BY <1>2, <1>5, <2>1, <2>2
<1>6. ASSUME NEW i \in HoldsAs("RELEASED")', NEW j \in HoldsAs("RELEASED")', i # j
      PROVE  usdc'[LOOKALIKE] >= 300
  <2>1. (i \in R /\ j \in R) \/ (new /\ (i \in R \/ j \in R))
    BY <1>2, <1>6
  <2>. QED
    BY <1>1, <1>3, <1>6, <2>1
<1>. QED
  BY <1>1, <1>5, <1>6 DEF PaidHolds

LEMMA VerdictAdds ==
  ASSUME NEW tx, Sender(tx), tx.call = "verdict"
  PROVE  /\ Accepted' = Accepted \cup {tx.verdict}
         /\ IsSubmitted(tx.verdict)
         /\ claimNullifiers \subseteq claimNullifiers'
         /\ tx.verdict.outcome = "COVERED" =>
              /\ tx.verdict.txHash \in claimNullifiers' \ claimNullifiers
              /\ tx.verdict.payoutAmount # 0
              /\ poolVerdictContract = Verdicts
<1>1. SubmitVerdict(tx.from, tx.from, tx.verdict) /\ IsSubmitted(tx.verdict)
  BY CallIs DEF Sender, OnVerdicts, Sane
<1>3. DOMAIN verdicts' = DOMAIN verdicts \cup {tx.verdict}
  BY <1>1 DEF SubmitVerdict, With
<1>4. Route(tx.verdict) /\ Admissible(tx.verdict)
  BY <1>1 DEF SubmitVerdict
<1>5. claimNullifiers \subseteq claimNullifiers'
  BY <1>4 DEF Route
<1>6. ASSUME tx.verdict.outcome = "COVERED"
      PROVE  /\ tx.verdict.txHash \in claimNullifiers' \ claimNullifiers
             /\ tx.verdict.payoutAmount # 0
             /\ poolVerdictContract = Verdicts
  <2>1. /\ claimNullifiers' = claimNullifiers \cup {tx.verdict.txHash}
        /\ tx.verdict.payoutAmount # 0 /\ poolVerdictContract = Verdicts
    BY <1>4, <1>6 DEF Route, Consumes, MutualPool!Payout
  <2>2. tx.verdict.txHash \notin claimNullifiers
    BY <1>4, <1>6 DEF Admissible, ConsistentOutcome
  <2>. QED
    BY <2>1, <2>2
<1>. QED
  BY <1>1, <1>3, <1>5, <1>6 DEF Accepted

LEMMA StillAccepted ==
  ASSUME NEW tx, Sender(tx)
  PROVE  AcceptedClaims' /\ Accepted \subseteq Accepted' /\ Covered \subseteq Covered'
<1>1. /\ \A v \in Accepted : IsSubmitted(v)
      /\ \A v \in Covered : v.payoutAmount # 0 /\ v.txHash \in claimNullifiers
      /\ \A v, w \in Covered : v.txHash = w.txHash => v = w
  BY DEF Sender, Books, AcceptedClaims
<1>2. ASSUME NEW v, IsSubmitted(v) PROVE IsSubmitted(v)'
  BY <1>2, StillHolds DEF IsSubmitted, IsLossClaim
<1>3. CASE tx.call # "verdict"
  <2>1. Accepted' = Accepted /\ claimNullifiers' = claimNullifiers
    BY <1>3, VerdictFrame DEF Sender, Accepted
  <2>2. Covered' = Covered
    BY <2>1 DEF Covered, AcceptedAs
  <2>. QED
    BY <1>1, <1>2, <2>1, <2>2 DEF AcceptedClaims
<1>4. CASE tx.call = "verdict"
  <2>1. /\ Accepted' = Accepted \cup {tx.verdict}
        /\ IsSubmitted(tx.verdict)
        /\ claimNullifiers \subseteq claimNullifiers'
        /\ tx.verdict.outcome = "COVERED" =>
             /\ tx.verdict.txHash \in claimNullifiers' \ claimNullifiers
             /\ tx.verdict.payoutAmount # 0
    BY <1>4, VerdictAdds
  <2>2. \A v \in Covered' : v \in Covered \/ (v = tx.verdict /\ v.outcome = "COVERED")
    BY <2>1 DEF Covered, AcceptedAs
  <2>3. Covered \subseteq Covered'
    BY <2>1 DEF Covered, AcceptedAs
  <2>4. \A v \in Accepted' : IsSubmitted(v)'
    BY <1>1, <1>2, <2>1
  <2>5. \A v \in Covered' : v.payoutAmount # 0 /\ v.txHash \in claimNullifiers'
    BY <1>1, <2>1, <2>2
  <2>6. \A v, w \in Covered' : v.txHash = w.txHash => v = w
    BY <1>1, <2>1, <2>2
  <2>. QED
    BY <2>1, <2>3, <2>4, <2>5, <2>6 DEF AcceptedClaims
<1>. QED
  BY <1>3, <1>4

LEMMA StillWired ==
  ASSUME NEW tx, Sender(tx), Verdicts \in Address, MaxVersion \in Nat \ {0}
  PROVE  /\ Reporting' /\ Terms'
         /\ isReporter[Verdicts] => isReporter'[Verdicts]
         /\ tx.call = "setReporter" => isReporter'[Verdicts]
         /\ policyHashAt[Guard][1] # Registry!NoHash => policyHashAt'[Guard][1] # Registry!NoHash
         /\ Wired => Wired'
<1>1. Reporting /\ Terms
  BY DEF Sender, Books
<1>2. /\ Reporting'
      /\ isReporter[Verdicts] => isReporter'[Verdicts]
      /\ tx.call = "setReporter" => isReporter'[Verdicts]
  BY <1>1, WiringFrame DEF Sender, Reporting
<1>3. /\ Terms'
      /\ policyHashAt[Guard][1] # Registry!NoHash =>
           policyHashAt'[Guard][1] # Registry!NoHash
  <2>1. CASE tx.call \notin {"attach", "revoke"}
    BY <1>1, <2>1, TermsFrame DEF Sender, Terms, registryVars
  <2>2. CASE tx.call = "attach"
    <3>1. Registry!Attach(tx.from, Guard, FirstPolicy)
      BY <2>2, CallIs DEF Sender, OnRegistry
    <3>2. latestVersion[Guard] # 1
      BY <1>1, <3>1 DEF Registry!Attach, Terms
    <3>3. latestVersion[Guard] = 0 /\ FirstPolicy.version = 1
      BY <1>1, <3>1, <3>2 DEF Registry!Attach, Terms
    <3>4. /\ latestVersion' = [latestVersion EXCEPT ![Guard] = 1]
          /\ policyHashAt' = [policyHashAt EXCEPT ![Guard][1] = Registry!HashPolicy(FirstPolicy)]
      BY <3>1, <3>3 DEF Registry!Attach
    <3>5. Registry!HashPolicy(FirstPolicy) # Registry!NoHash
      <4>1. FirstPolicy # NoPolicy
        BY PartsAssumption, WiringAssumption DEF Account!PolicyAssumption
      <4>. QED
        BY <4>1 DEF Registry!HashPolicy, Registry!NoHash
    <3>6. policyHashAt'[Guard] = [policyHashAt[Guard] EXCEPT ![1] = Registry!HashPolicy(FirstPolicy)]
          /\ policyHashAt' = [a \in {Guard} |-> policyHashAt'[a]]
      BY <1>1, <3>4 DEF Terms
    <3>7. policyHashAt'[Guard] = [v \in 0 .. MaxVersion |-> policyHashAt'[Guard][v]]
          /\ policyHashAt'[Guard][1] = Registry!HashPolicy(FirstPolicy)
      <4> DEFINE h == policyHashAt[Guard]
                 c == Registry!HashPolicy(FirstPolicy)
      <4>1. h = [v \in 0 .. MaxVersion |-> h[v]] /\ 1 \in 0 .. MaxVersion
        BY <1>1 DEF Terms
      <4>2. policyHashAt'[Guard] = [h EXCEPT ![1] = c]
        BY <3>6
      <4> HIDE DEF h, c
      <4>3. policyHashAt'[Guard] = [v \in 0 .. MaxVersion |-> IF v = 1 THEN c ELSE h[v]]
        BY <4>1, <4>2
      <4>4. policyHashAt'[Guard][1] = c
        BY <4>1, <4>3
      <4>5. policyHashAt'[Guard] = [v \in 0 .. MaxVersion |-> policyHashAt'[Guard][v]]
        BY <4>3
      <4>. QED
        BY <4>4, <4>5 DEF c
    <3>8. latestVersion' = [a \in {Guard} |-> latestVersion'[a]] /\ latestVersion'[Guard] = 1
      BY <1>1, <3>4 DEF Terms
    <3>. QED
      BY <3>3, <3>5, <3>6, <3>7, <3>8 DEF Terms
  <2>3. CASE tx.call = "revoke"
    <3>1. Registry!Revoke(tx.from, Guard)
      BY <2>3, CallIs DEF Sender, OnRegistry
    <3>2. latestVersion' = [latestVersion EXCEPT ![Guard] = 0] /\ policyHashAt' = policyHashAt
      BY <3>1 DEF Registry!Revoke
    <3>. QED
      BY <1>1, <3>2 DEF Terms
  <2>. QED
    BY <2>1, <2>2, <2>3
<1>4. Wired => Wired'
  BY <1>2, <1>3, WiringFrame DEF Sender, Wired
<1>. QED
  BY <1>2, <1>3, <1>4

-----------------------------------------------------------------------------
(***************************************************************************)
(* What a step on the chain may not take back.                             *)
(***************************************************************************)
Onward ==
  /\ Books'
  /\ 1 .. nextHoldId - 1 \subseteq 1 .. nextHoldId' - 1
  /\ \A i \in 1 .. nextHoldId - 1 :
       holds'[i].to = holds[i].to /\ holds'[i].amount = holds[i].amount
  /\ \A i : IsLookalike(i) => IsLookalike(i)'
  /\ \A i : WasPaid(i) => WasPaid(i)'
  /\ Accepted \subseteq Accepted' /\ Covered \subseteq Covered'
  /\ isReporter[Verdicts] => isReporter'[Verdicts]
  /\ policyHashAt[Guard][1] # Registry!NoHash => policyHashAt'[Guard][1] # Registry!NoHash
  /\ Wired => Wired'

bookVars == <<holds, nextHoldId, usdc, verdicts, claimNullifiers, isReporter,
              latestVersion, policyHashAt, verdictContract, poolVerdictContract, pool>>

LEMMA CallGoesOnward == ASSUME NEW tx, Sender(tx) PROVE Onward
<1>1. Verdicts \in Address /\ MaxVersion \in Nat \ {0}
  BY WiringAssumption
<1>2. Books'
  BY <1>1, StillHolds, StillPaid, StillAccepted, StillWired DEF Books
<1>3. \A i \in 1 .. nextHoldId - 1 :
        holds'[i].to = holds[i].to /\ holds'[i].amount = holds[i].amount
  BY HoldsChange DEF Sender, Books, Keeps
<1>. QED
  BY <1>1, <1>2, <1>3, StillHolds, StillAccepted, StillWired DEF Onward

LEMMA RestGoesOnward == ASSUME Books, UNCHANGED bookVars PROVE Onward
<1>1. HoldsTyped' /\ PaidHolds' /\ AcceptedClaims' /\ Reporting' /\ Terms'
  <2>1. HoldsTyped'
    BY DEF Books, bookVars, HoldsTyped, IsHold
  <2>2. PaidHolds'
    BY DEF Books, bookVars, PaidHolds, HoldsAs, WasPaid, IsLookalike
  <2>3. AcceptedClaims'
    BY DEF Books, bookVars, AcceptedClaims, Accepted, Covered, AcceptedAs, IsSubmitted,
       IsLossClaim, WasPaid, IsLookalike
  <2>4. Reporting' /\ Terms'
    BY DEF Books, bookVars, Reporting, Terms
  <2>. QED
    BY <2>1, <2>2, <2>3, <2>4
<1>2. \A i : IsLookalike(i)' = IsLookalike(i) /\ WasPaid(i)' = WasPaid(i)
  BY DEF bookVars, WasPaid, IsLookalike
<1>3. Accepted' = Accepted /\ Covered' = Covered /\ Wired' = Wired
  BY DEF bookVars, Accepted, Covered, AcceptedAs, Wired
<1>. QED
  BY <1>1, <1>2, <1>3 DEF Onward, Books, bookVars

LEMMA SaneStays ==
  ASSUME Onward, NEW tx, Sane(tx)
  PROVE  Sane(tx)'
<1>1. IsSubmitted(tx.verdict) => IsSubmitted(tx.verdict)'
  BY DEF Onward, IsSubmitted, IsLossClaim
<1>. QED
  BY <1>1 DEF Onward, Sane

LEMMA HeldStays ==
  ASSUME Onward, NEW logs, HeldLogs(logs)
  PROVE  HeldLogs(logs)'
BY DEF Onward, HeldLogs

LEMMA TermsOfClaimStay ==
  ASSUME script' = script, ClaimTerms
  PROVE  ClaimTerms'
BY DEF ClaimTerms, E!AlibiOf, Order

LEMMA ReachedStays ==
  ASSUME Onward, script' = script, NEW name, Reached(name)
  PROVE  Reached(name)'
<1>1. name = "claim" => ClaimTerms'
  BY TermsOfClaimStay DEF Reached
<1>2. Covered # {} => Covered' # {}
  BY DEF Onward
<1>. QED
  BY <1>1, <1>2 DEF Onward, Reached

-----------------------------------------------------------------------------
(***************************************************************************)
(* Whoever sends a transaction, it is one the invariant allows.            *)
(***************************************************************************)
LEMMA InvariantParts ==
  ASSUME IInv
  PROVE  /\ Books /\ RecordedStackIsWired /\ SaneMempool /\ RunState
         /\ nextHoldId \in Nat
BY PartsAssumption DEF IInv, Books, HoldsTyped, Account!NumberAssumption

LEMMA OutsideIsSane ==
  ASSUME IInv, NEW tx \in OutsideTx
  PROVE  Sane(tx)
<1>1. JuniorLP # LOOKALIKE /\ SeniorLP # LOOKALIKE
  BY LookalikeAssumption
<1>2. CASE tx \in {WatcherKey(OtherWatcher), By(OWNER, "killSwitch"), By(OWNER, "revoke"),
                   By(ATTACKER, "reportAttempt")}
  BY <1>2 DEF Sane, WatcherKey, By
<1>3. CASE tx \in {Pay(OWNER, "withdraw", BOB, 150), Pay(OWNER, "report", LOOKALIKE, 0),
                   Pay(OWNER, "clear", LOOKALIKE, 0), Pay(OWNER, "mint", JuniorLP, 100)}
  BY <1>3 DEF Sane, Pay
<1>4. CASE tx \in {Pay(JuniorLP, "premium", Pool, 100),
                   Into(JuniorLP, "redeem", "junior", 19900),
                   Into(SeniorLP, "redeem", "senior", 25000)}
  BY <1>1, <1>4 DEF Sane, Pay, Into
<1>5. CASE tx \in {Pay(ATTACKER, "mint", w, 150) : w \in {LOOKALIKE, ATTACKER}}
  BY <1>5 DEF Sane, Pay
<1>6. CASE tx \in {Decision(i, d) : i \in 1 .. nextHoldId - 1, d \in 0 .. 2}
  BY <1>6 DEF Sane, Decision
<1>7. CASE tx \in {[from |-> ATTACKER, call |-> "lapse", run |-> runs, hold |-> i] :
                     i \in 1 .. nextHoldId - 1}
  BY <1>7 DEF Sane
<1>8. CASE tx \in {[from |-> ATTACKER, call |-> "dispute", run |-> runs, verdict |-> v] :
                     v \in Accepted}
  BY <1>8 DEF Sane
<1>9. CASE tx \in {Judged(v) : v \in OtherVerdicts}
  <2>1. PICK v \in OtherVerdicts : tx = Judged(v)
    BY <1>9
  <2>2. IsSubmitted(v)
    <3>1. ASSUME NEW strike
          PROVE  IsSubmitted(OtherVerdict("ATTEMPTED_BREACH", "EXTERNAL",
                                          [call |-> "block", hold |-> 0], strike))
      BY DEF OtherVerdict, IsSubmitted
    <3>2. ASSUME NEW i, NEW strike
          PROVE  IsSubmitted(OtherVerdict("DENIED_OWNER_ORIGIN", "OWNER_SIGNED",
                                          [call |-> "release", hold |-> i], strike))
      BY DEF OtherVerdict, IsSubmitted
    <3>3. \/ \E strike \in BOOLEAN :
               v = OtherVerdict("ATTEMPTED_BREACH", "EXTERNAL",
                                [call |-> "block", hold |-> 0], strike)
          \/ \E i \in 1 .. nextHoldId - 1 :
               v = OtherVerdict("DENIED_OWNER_ORIGIN", "OWNER_SIGNED",
                                [call |-> "release", hold |-> i], FALSE)
      BY DEF OtherVerdicts
    <3>. QED
      BY <3>1, <3>2, <3>3, Zenon
  <2>. QED
    BY <2>1, <2>2 DEF Judged, Sane
<1>10. CASE tx \in {[from |-> Watcher, call |-> "otherHoldVerdict", run |-> runs,
                     agent |-> OtherGuard, hold |-> i, tier |-> tier] :
                     i \in 1 .. nextHoldId - 1, tier \in {0, 1}}
  BY <1>10 DEF Sane
<1>. QED
  BY <1>2, <1>3, <1>4, <1>5, <1>6, <1>7, <1>8, <1>9, <1>10 DEF OutsideTx

LEMMA FirstStep ==
  ASSUME PlanInOrder
  PROVE  /\ Len(plan) \in Nat /\ Len(plan) >= 1 /\ IsStep(plan[1])
         /\ plan[1].name # "conclude" => Len(plan) >= 2
BY DEF PlanInOrder, InOrder, IsSequence

\* What the watcher signs in the end: the facts make it external, so it is
\* dismissed without a payout or covered in full.
LEMMA SignedClaim ==
  ASSUME ClaimTerms
  PROVE  Breach.payoutAmount \in {0, 135}
<1> DEFINE t == Order(LOOKALIKE, 150, now, LookAlibi)
           f == Facts(Never)
           p == script.policy
<1>1. E!AlibiOf(t) = "EXTERNAL" /\ E!ComputePayout(150, p) = 135
  BY DEF ClaimTerms
<1>2. t.amount = 150
  BY DEF Order
<1> HIDE DEF t, f, p
<1>5. E!JudgeBreach(p, t, f).payoutAmount \in {0, 135}
  <2>1. CASE E!Violated(p, t, f)
    <3>1. E!JudgeBreach(p, t, f) = E!Judged(t, "COVERED", 135)
      BY <1>1, <1>2, <2>1 DEF E!JudgeBreach
    <3>. QED
      BY <3>1 DEF E!Judged
  <2>2. CASE ~E!Violated(p, t, f)
    <3>1. E!JudgeBreach(p, t, f) = E!Judged(t, "DISMISSED", 0)
      BY <1>1, <1>2, <2>2 DEF E!JudgeBreach
    <3>. QED
      BY <3>1 DEF E!Judged
  <2>. QED
    BY <2>1, <2>2
<1>. QED
  BY <1>5 DEF Breach, t, f, p

LEMMA OwnIsSane ==
  ASSUME IInv, mode = "running"
  PROVE  LET tx == TxOf(plan[1]) IN
         /\ Sane(tx) /\ tx.run = runs
         /\ plan[1].name = "setReporter" => tx.call = "setReporter"
         /\ tx.call # "otherHoldVerdict"
         /\ plan[1].name = "claim" => tx.call = "verdict" /\ tx.verdict.outcome = "COVERED"
<1> DEFINE step == plan[1]
<1> SUFFICES LET tx == TxOf(step) IN
             /\ Sane(tx) /\ tx.run = runs
             /\ step.name = "setReporter" => tx.call = "setReporter"
             /\ tx.call # "otherHoldVerdict"
             /\ step.name = "claim" => tx.call = "verdict" /\ tx.verdict.outcome = "COVERED"
  OBVIOUS
<1>1. IsStep(step) /\ Reached(step.name)
  BY InvariantParts, FirstStep DEF RunState, InRun
<1>2. JuniorLP # LOOKALIKE /\ SeniorLP # LOOKALIKE
  BY LookalikeAssumption
<1>3. JUNIOR_DEPOSIT \in Nat /\ SENIOR_DEPOSIT \in Nat
  BY StakesAssumption
<1> HIDE DEF step
<1>4. CASE step.name = "fund"
  BY <1>4 DEF TxOf, Pay, Sane
<1>5. CASE step.name \in {"mintGuard", "mintJunior", "mintSenior"}
  <2>1. TxOf(step) \in {Pay(OWNER, "mint", Guard, 4000),
                         Pay(OWNER, "mint", JuniorLP, JUNIOR_DEPOSIT),
                         Pay(OWNER, "mint", SeniorLP, SENIOR_DEPOSIT)}
    BY <1>5 DEF TxOf
  <2>2. ASSUME NEW to, NEW amount \in Nat
        PROVE  LET tx == Pay(OWNER, "mint", to, amount) IN
               Sane(tx) /\ tx.run = runs /\ tx.call # "otherHoldVerdict"
    BY DEF Pay, Sane
  <2>. QED
    BY <1>3, <1>5, <2>1, <2>2
<1>6. CASE step.name \in {"depositJunior", "depositSenior"}
  <2>1. TxOf(step) \in {Into(JuniorLP, "deposit", "junior", JUNIOR_DEPOSIT),
                         Into(SeniorLP, "deposit", "senior", SENIOR_DEPOSIT)}
    BY <1>6 DEF TxOf
  <2>2. /\ Sane(TxOf(step)) /\ TxOf(step).run = runs
        /\ TxOf(step).call # "otherHoldVerdict"
    BY <1>2, <2>1 DEF Into, Sane
  <2>. QED
    BY <1>6, <2>2
<1>7. CASE step.name \in {"payroll", "hold", "block", "lookalike"}
  <2>1. \/ step.amount \in Nat /\ TxOf(step) = Pay(Agent, "propose", step.to, step.amount)
        \/ TxOf(step) = Pay(Agent, "propose", FRESH_WALLET, 150)
        \/ TxOf(step) = Pay(Agent, "propose", ATTACKER, 900)
        \/ TxOf(step) = Pay(Agent, "propose", LOOKALIKE, 150)
    <3>1. /\ step.name = "payroll" => step.amount \in Nat
                /\ TxOf(step) = Pay(Agent, "propose", step.to, step.amount)
      BY <1>1 DEF TxOf, IsStep
    <3>2. step.name = "hold" => TxOf(step) = Pay(Agent, "propose", FRESH_WALLET, 150)
      BY DEF TxOf
    <3>3. step.name = "block" => TxOf(step) = Pay(Agent, "propose", ATTACKER, 900)
      BY DEF TxOf
    <3>4. step.name = "lookalike" => TxOf(step) = Pay(Agent, "propose", LOOKALIKE, 150)
      BY DEF TxOf
    <3>. QED
      BY <1>7, <3>1, <3>2, <3>3, <3>4
  <2>2. ASSUME NEW to, NEW amount \in Nat
        PROVE  LET tx == Pay(Agent, "propose", to, amount) IN
               Sane(tx) /\ tx.run = runs /\ tx.call # "otherHoldVerdict"
    BY DEF Pay, Sane
  <2>. QED
    BY <1>7, <2>1, <2>2
<1>8. CASE step.name = "freeze"
  BY <1>1, <1>8 DEF TxOf, OnHold, Sane, Reached
<1>9. CASE step.name = "cancel"
  BY <1>1, <1>9 DEF TxOf, Decision, Sane, Reached
<1>10. CASE step.name = "release"
  <2>1. IsLookalike(script.lookHold) /\ script.lookHold \in 1 .. nextHoldId - 1
    BY <1>1, <1>10 DEF Reached, IsLookalike
  <2>. QED
    BY <1>10, <2>1 DEF TxOf, OnHold, Sane
<1>11. CASE step.name = "claim"
  <2>1. WasPaid(script.lookHold) /\ Breach.payoutAmount \in {0, 135}
    BY <1>1, <1>11, SignedClaim DEF Reached
  <2>2. IsSubmitted(CoveredVerdict) /\ CoveredVerdict.outcome = "COVERED"
    BY <2>1 DEF IsSubmitted, IsLossClaim, CoveredVerdict
  <2>3. TxOf(step) = Judged(CoveredVerdict)
    BY <1>11 DEF TxOf
  <2> HIDE DEF CoveredVerdict
  <2>. QED
    BY <1>11, <2>2, <2>3 DEF Judged, Sane
<1>12. CASE step.name \in {"create", "setPool", "poolVerdicts", "setReporter",
                           "guardVerdicts", "attach", "handles", "verify", "persist",
                           "conclude"}
  <2>1. TxOf(step) = By(OWNER, step.name)
    BY <1>12 DEF TxOf
  <2>2. ASSUME NEW name \in {"create", "setPool", "poolVerdicts", "setReporter",
                             "guardVerdicts", "attach", "handles", "verify", "persist",
                             "conclude"}
        PROVE  Sane(By(OWNER, name)) /\ By(OWNER, name).run = runs
               /\ By(OWNER, name).call = name /\ name # "claim"
               /\ By(OWNER, name).call # "otherHoldVerdict"
    BY <2>2 DEF By, Sane
  <2>. QED
    BY <1>12, <2>1, <2>2
<1>13. CASE step.name = "setWatcher"
  BY <1>13 DEF TxOf, WatcherKey, Sane
<1>. QED
  BY <1>1, <1>4, <1>5, <1>6, <1>7, <1>8, <1>9, <1>10, <1>11, <1>12, <1>13
     DEF step, IsStep, StepNames

\* The contracts keep their promises in every step.
LEMMA StepGoesOnward ==
  ASSUME IInv, [ScenarioNext]_vars
  PROVE  Onward
<1>0. Books /\ SaneMempool /\ IsSequence(mempool)
  BY InvariantParts DEF SaneMempool
<1>1. ASSUME NEW tx, Executed(tx), Sane(tx) PROVE Onward
  BY <1>0, <1>1, CallGoesOnward DEF Executed, Sender
<1>2. ASSUME NEW tx, Reverted(tx) PROVE Onward
  BY <1>0, <1>2, RestGoesOnward DEF Reverted, chainVars, allVars, accountVars,
     ownPoolVars, registryVars, blocklistVars, verdictVars, bookVars
<1>3. ASSUME UNCHANGED txVars PROVE Onward
  BY <1>0, <1>3, RestGoesOnward DEF txVars, chainVars, allVars, accountVars,
     ownPoolVars, registryVars, blocklistVars, verdictVars, bookVars
<1>4. \A i \in DOMAIN mempool : Sane(mempool[i])
  BY <1>0, SequenceOfItsElements DEF SaneMempool
<1>5. CASE Begin \/ Observe \/ EvidenceFails \/ Handles \/ Verify \/ Persist
           \/ Conclude \/ Abort
  BY <1>3, <1>5 DEF Begin, Observe, EvidenceFails, Handles, Verify, Persist, Conclude,
     Abort, Fail
<1>6. CASE Send
  BY <1>0, <1>6, RestGoesOnward DEF Send, chainVars, allVars, accountVars,
     ownPoolVars, registryVars, blocklistVars, verdictVars, bookVars
<1>7. CASE Later
  BY <1>0, <1>7, RestGoesOnward DEF Later, accountVars, ownPoolVars, registryVars,
     blocklistVars, verdictVars, bookVars
<1>8. CASE Outsider
  BY <1>1, <1>8, OutsideIsSane DEF Outsider
<1>9. ASSUME NEW i \in DOMAIN mempool, Mine(i) \/ MineLeftover(i)
      PROVE  Onward
  <2>1. Executed(mempool[i]) \/ Reverted(mempool[i])
    BY <1>9 DEF Mine, MineLeftover
  <2>. QED
    BY <1>1, <1>2, <1>4, <2>1
<1>10. CASE UNCHANGED vars
  BY <1>3, <1>10 DEF vars
<1>. QED
  BY <1>5, <1>6, <1>7, <1>8, <1>9, <1>10 DEF ScenarioNext

-----------------------------------------------------------------------------
(***************************************************************************)
(* The event of a new hold names the hold.                                 *)
(***************************************************************************)
NoneHeld(s) == IsSequence(s) /\ \A k \in 1 .. Len(s) : s[k].ev # "Held"

LEMMA NothingHeld == NoneHeld(<<>>)
BY DEF NoneHeld, IsSequence

LEMMA OneEvent ==
  ASSUME NEW e, e.ev # "Held"
  PROVE  NoneHeld(<<e>>)
BY DEF NoneHeld, IsSequence

LEMMA OnlyProposalsHold ==
  ASSUME NEW tx, tx.call # "propose"
  PROVE  NoneHeld(Logs(tx))
<1>1. /\ \A a : a.ev # "Held" => NoneHeld(<<a>>)
      /\ \A a, b : a.ev # "Held" /\ b.ev # "Held" => NoneHeld(<<a, b>>)
      /\ \A a, b, c :
           a.ev # "Held" /\ b.ev # "Held" /\ c.ev # "Held" => NoneHeld(<<a, b, c>>)
  BY DEF NoneHeld, IsSequence
<1>2. \A i, d : Decided(i, d).ev # "Held" /\ ReleasedLog(i).ev # "Held"
                /\ PaidHold(i).ev # "Held"
  BY DEF Decided, ReleasedLog, PaidHold, Transfer
<1>0. \A a : Routed(a, tx).ev # "Held"
  BY DEF Routed
<1>3. CASE tx.call = "holdVerdict"
  <2>1. NoneHeld(HoldVerdictLogs(tx))
    BY <1>0, <1>1, <1>2 DEF HoldVerdictLogs
  <2>. QED
    BY <1>3, <2>1 DEF Logs
<1>4. CASE tx.call = "decide"
  <2>1. [ev |-> "AuthorityRevoked"].ev # "Held"
    OBVIOUS
  <2>2. NoneHeld(DecideLogs(tx))
    BY <1>1, <1>2, <2>1 DEF DecideLogs
  <2>. QED
    BY <1>4, <2>2 DEF Logs
<1>11. CASE tx.call = "otherHoldVerdict"
  BY <1>0, <1>1, <1>11 DEF Logs
<1>5. CASE tx.call = "lapse"
  <2>1. NoneHeld(LapseLogs(tx))
    BY <1>2, OneEvent DEF LapseLogs, Decided
  <2>. QED
    BY <1>5, <2>1 DEF Logs
<1>6. CASE tx.call = "verdict"
  <2> DEFINE v == tx.verdict
  <2>1. AcceptedLog(v).ev # "Held" /\ SignalLog(v).ev # "Held"
        /\ ReportedLog(v.destination).ev # "Held"
    BY DEF AcceptedLog, SignalLog, ReportedLog
  <2>2. NoneHeld(PayoutLogs(v))
    <3>1. ASSUME NEW a, NEW b, NEW c, NEW d,
                 a.ev # "Held", b.ev # "Held", c.ev # "Held", d.ev # "Held"
          PROVE  NoneHeld(<<a, b, c, d>>)
      BY <3>1 DEF NoneHeld, IsSequence
    <3>. QED
      BY <2>1, <3>1 DEF PayoutLogs, Transfer
  <2>3. Logs(tx) = VerdictLogs(v)
    BY <1>6, LogsAre
  <2> HIDE DEF v
  <2>. QED
    BY <1>1, <2>1, <2>2, <2>3, VerdictLogsAre
<1>7. CASE tx.call \in {"report", "dispute", "clear", "deposit", "redeem"}
  BY <1>7, OneEvent DEF Logs, ReportedLog
<1>8. CASE tx.call \in {"premium", "attach", "revoke", "killSwitch"}
  BY <1>8, OneEvent DEF Logs
<1>9. CASE tx.call = "reportAttempt"
  BY <1>9 DEF Logs, NoneHeld, IsSequence
<1>10. CASE tx.call \notin {"holdVerdict", "decide", "lapse", "verdict", "report",
                            "dispute", "clear", "deposit", "redeem", "premium", "attach",
                            "revoke", "killSwitch", "reportAttempt", "otherHoldVerdict"}
  <2>1. Logs(tx) = <<>>
    BY <1>10 DEF Logs
  <2>. QED
    BY <2>1, NothingHeld
<1>. QED
  BY <1>3, <1>4, <1>5, <1>6, <1>7, <1>8, <1>9, <1>10, <1>11

LEMMA LogsNameTheHold ==
  ASSUME NEW tx, Sender(tx), NEW logs, logs = Logs(tx)
  PROVE  HeldLogs(logs)'
<1>1. CASE NoneHeld(logs)
  <2>1. DOMAIN logs = 1 .. Len(logs)
    BY <1>1, SequenceOfItsElements DEF NoneHeld
  <2>. QED
    BY <1>1, <2>1 DEF NoneHeld, HeldLogs
<1>2. CASE tx.call = "propose"
  <2>0. logs = ProposeLogs(tx)
    BY <1>2 DEF Logs
  <2>1. CASE Account!ProposeRoutine(tx.from, tx.to, tx.amount)
    <3>1. logs = <<[ev |-> "Classified", tier |-> 0], [ev |-> "ExecutedRoutine"],
                   Transfer(Guard, tx.to, tx.amount)>>
      BY <2>0, <2>1 DEF ProposeLogs, Account!ProposeRoutine
    <3>2. NoneHeld(logs)
      BY <3>1 DEF NoneHeld, IsSequence, Transfer
    <3>. QED
      BY <3>2, <1>1
  <2>2. CASE Account!ProposeElevated(tx.from, tx.to, tx.amount)
    <3>1. logs = <<[ev |-> "Classified", tier |-> 1],
                   [ev |-> "Held", id |-> nextHoldId, to |-> tx.to, amount |-> tx.amount]>>
      BY <2>0, <2>2 DEF ProposeLogs, Account!ProposeElevated
    <3>2. \A k \in DOMAIN logs : logs[k].ev = "Held" =>
            logs[k].id = nextHoldId /\ logs[k].to = tx.to /\ logs[k].amount = tx.amount
      BY <3>1
    <3>3. nextHoldId \in 1 .. MaxHolds + 1 /\ MaxHolds \in Nat
          /\ holds = [i \in Account!HoldId |-> holds[i]]
      BY PartsAssumption DEF Sender, Books, HoldsTyped, Account!NumberAssumption
    <3>4. /\ nextHoldId' = nextHoldId + 1 /\ nextHoldId <= MaxHolds
          /\ holds' = [holds EXCEPT ![nextHoldId] = Account!NewHold(tx.to, tx.amount)]
      BY <2>2 DEF Account!ProposeElevated
    <3>5. holds'[nextHoldId] = Account!NewHold(tx.to, tx.amount)
      BY <3>3, <3>4 DEF Account!HoldId
    <3>6. holds'[nextHoldId].to = tx.to /\ holds'[nextHoldId].amount = tx.amount
          /\ nextHoldId \in 1 .. nextHoldId' - 1
      BY <3>3, <3>4, <3>5 DEF Account!NewHold
    <3>. QED
      BY <3>2, <3>6 DEF HeldLogs
  <2>. QED
    BY <1>2, <2>1, <2>2, CallIs DEF Sender, OnAccount
<1>. QED
  BY <1>1, <1>2, OnlyProposalsHold

-----------------------------------------------------------------------------
(***************************************************************************)
(* The invariant of the run, one step at a time.                           *)
(***************************************************************************)
Kept == RecordedStackIsWired' /\ SaneMempool' /\ RunState'

\* A mempool that stays, or loses one transaction, or gets one the invariant allows.
LEMMA MempoolStays ==
  ASSUME SaneMempool, Onward, runs' \in Nat, runs' >= runs,
         \/ mempool' = mempool
         \/ \E i \in 1 .. Len(mempool) : mempool' = Without(mempool, i)
  PROVE  SaneMempool'
<1>1. ASSUME NEW tx, Sane(tx) /\ tx.run \in 0 .. runs
      PROVE  Sane(tx)' /\ tx.run \in 0 .. runs'
  BY <1>1, SaneStays DEF SaneMempool
<1>2. CASE mempool' = mempool
  BY <1>1, <1>2 DEF SaneMempool, IsSequence
<1>3. ASSUME NEW i \in 1 .. Len(mempool), mempool' = Without(mempool, i)
      PROVE  SaneMempool'
  <2> DEFINE m == Without(mempool, i)
  <2>1. /\ IsSequence(m)
        /\ \A k \in 1 .. Len(m) : \E j \in 1 .. Len(mempool) \ {i} : m[k] = mempool[j]
    <3>1. /\ IsSequence(m)
          /\ \A k \in 1 .. Len(m) : \E j \in 1 .. Len(mempool) \ {i} :
               m[k] = mempool[j] /\ j = IF k < i THEN k ELSE k + 1
      BY <1>3, TakenOut DEF SaneMempool
    <3> HIDE DEF m
    <3>. QED
      BY <3>1
  <2>2. mempool' = m
    BY <1>3
  <2> HIDE DEF m
  <2>3. \A k \in 1 .. Len(mempool') : /\ Sane(mempool[k])' /\ mempool'[k].run \in 0 .. runs'
                                      /\ mempool'[k].call # "otherHoldVerdict"
    BY <1>1, <2>1, <2>2 DEF SaneMempool
  <2>. QED
    BY <2>1, <2>2, <2>3 DEF SaneMempool, IsSequence
<1>. QED
  BY <1>2, <1>3

LEMMA TailInOrder ==
  ASSUME PlanInOrder, plan[1].name # "conclude", plan' = Tail(plan), latest => latest'
  PROVE  /\ PlanInOrder' /\ plan'[1] = plan[2]
         /\ Follows(plan[1].name, plan[2].name)
<1>1. Len(plan) \in Nat /\ Len(plan) >= 2 /\ IsSequence(plan) /\ Len(plan) >= 1
  BY FirstStep DEF PlanInOrder
<1>2. /\ IsSequence(Tail(plan)) /\ Len(Tail(plan)) = Len(plan) - 1
      /\ \A k \in 1 .. Len(plan) - 1 : Tail(plan)[k] = plan[k + 1]
  BY <1>1, TailOf
<1> DEFINE t == Tail(plan)
<1>3. plan' = t
  OBVIOUS
<1>4. t[1] = plan[2] /\ t[Len(t)] = plan[Len(plan)]
  BY <1>1, <1>2
<1> HIDE DEF t
<1>5. IsSequence(t) /\ Len(t) >= 1 /\ t[Len(t)].name = "conclude"
  BY <1>1, <1>2, <1>4 DEF t, PlanInOrder
<1>6. InOrder(t)
  <2>1. ASSUME NEW k \in 1 .. Len(t) PROVE IsStep(t[k])
    <3>1. k + 1 \in 1 .. Len(plan) /\ t[k] = plan[k + 1]
      BY <1>1, <1>2 DEF t
    <3>. QED
      BY <3>1 DEF PlanInOrder, InOrder
  <2>2. ASSUME NEW k \in 1 .. Len(t) - 1 PROVE Follows(t[k].name, t[k + 1].name)
    <3>1. /\ k + 1 \in 1 .. Len(plan) - 1 /\ t[k] = plan[k + 1]
          /\ t[k + 1] = plan[k + 1 + 1]
      BY <1>1, <1>2 DEF t
    <3>. QED
      BY <3>1 DEF PlanInOrder, InOrder
  <2>. QED
    BY <2>1, <2>2 DEF InOrder
<1>7. Follows(plan[1].name, plan[2].name)
  BY <1>1 DEF PlanInOrder, InOrder
<1>. QED
  <2>1. \A a, b : Follows(a, b) => Follows(a, b)'
    BY DEF Follows
  <2>2. InOrder(plan)'
    BY <1>3, <1>6, <2>1 DEF InOrder
  <2>3. IsSequence(plan)' /\ Len(plan') >= 1 /\ plan'[Len(plan')].name = "conclude"
    BY <1>3, <1>5 DEF IsSequence
  <2>. QED
    BY <1>3, <1>4, <1>7, <2>2, <2>3 DEF PlanInOrder

LEMMA BeginPreserves == ASSUME IInv, Onward, Begin PROVE Kept
<1>1. /\ Books /\ RecordedStackIsWired /\ SaneMempool /\ RunState
      /\ mode # "running" /\ receipt = NoReceipt /\ runs \in Nat
  BY InvariantParts DEF Begin, RunState, SaneMempool
<1>2. RecordedStackIsWired'
  BY <1>1 DEF Begin, Onward, RecordedStackIsWired, Wired
<1>3. SaneMempool'
  BY <1>1, MempoolStays DEF Begin, txVars
<1>4. ScriptShape' /\ receipt' = NoReceipt
  BY <1>1 DEF Begin, ScriptShape, NothingKnown
<1>5. ASSUME mode' = "running" PROVE InRun'
  <2> DEFINE fresh == ~created
             p == Plan(fresh)
  <2>1. fresh \in BOOLEAN /\ (fresh \/ latest) /\ plan' = p
    BY <1>5 DEF Begin
  <2>2. /\ IsSequence(p) /\ Len(p) >= 1 /\ p[Len(p)].name = "conclude"
        /\ InOrder(p) /\ Entry(p[1].name)
    BY <2>1, PlanIsInOrder
  <2> HIDE DEF p, fresh
  <2>3. PlanInOrder'
    BY <2>1, <2>2 DEF PlanInOrder, InOrder, IsSequence, Follows, Begin
  <2>4. Entry(plan'[1].name)
    BY <2>1, <2>2
  <2>5. Reached(plan[1].name)'
    BY <1>1, <2>4 DEF Begin, Entry, Reached, AfterReporter, Onward, RecordedStackIsWired,
       Wired
  <2>6. ~Waiting'
    <3>1. DOMAIN mempool = 1 .. Len(mempool)
      BY <1>1, SequenceOfItsElements DEF SaneMempool
    <3>. QED
      BY <1>1, <3>1 DEF Begin, Waiting, SaneMempool, txVars
  <2>. QED
    BY <1>4, <2>3, <2>5, <2>6 DEF InRun
<1>. QED
  BY <1>2, <1>3, <1>4, <1>5 DEF RunState, Kept

LEMMA SendPreserves == ASSUME IInv, Onward, Send PROVE Kept
<1>1. /\ Books /\ RecordedStackIsWired /\ SaneMempool /\ RunState
      /\ mode = "running" /\ receipt = NoReceipt /\ runs \in Nat /\ InRun /\ ~Waiting
  BY InvariantParts DEF Send, RunState, SaneMempool, Working
<1> DEFINE tx == TxOf(plan[1])
           name == plan[1].name
<1>2. /\ Sane(tx) /\ tx.run = runs /\ tx.call # "otherHoldVerdict"
      /\ name = "setReporter" => tx.call = "setReporter"
      /\ name = "claim" => tx.call = "verdict" /\ tx.verdict.outcome = "COVERED"
  BY <1>1, OwnIsSane
<1>3. /\ UNCHANGED <<mode, runs, plan, script, receipt, latest>>
      /\ mempool' = Append(mempool, tx) /\ name \notin OffChain
  BY DEF Send, scriptVars
<1> HIDE DEF tx
<1>4. /\ IsSequence(mempool') /\ Len(mempool') = Len(mempool) + 1 /\ Len(mempool) \in Nat
      /\ \A k \in 1 .. Len(mempool) : mempool'[k] = mempool[k]
      /\ mempool'[Len(mempool) + 1] = tx
  <2>1. /\ IsSequence(Append(mempool, tx)) /\ Len(Append(mempool, tx)) = Len(mempool) + 1
        /\ \A k \in 1 .. Len(mempool) : Append(mempool, tx)[k] = mempool[k]
        /\ Append(mempool, tx)[Len(mempool) + 1] = tx
    BY <1>1, Appended DEF SaneMempool
  <2>2. Len(mempool) \in Nat
    BY <1>1 DEF SaneMempool, IsSequence
  <2>. QED
    BY <1>3, <2>1, <2>2
<1>5. RecordedStackIsWired'
  BY <1>1, <1>3 DEF Onward, RecordedStackIsWired, Wired
<1>6. \A k \in 1 .. Len(mempool) : mempool[k].run # runs
  <2>1. DOMAIN mempool = 1 .. Len(mempool)
    BY <1>1, SequenceOfItsElements DEF SaneMempool
  <2>. QED
    BY <1>1, <2>1 DEF Waiting
<1>7. \A k \in 1 .. Len(mempool') :
        \/ k \in 1 .. Len(mempool) /\ mempool'[k] = mempool[k]
        \/ k = Len(mempool) + 1 /\ mempool'[k] = tx
  BY <1>4
<1>8. SaneMempool'
  <2>1. \A t : Sane(t) => Sane(t)'
    BY SaneStays
  <2>2. \A k \in 1 .. Len(mempool') : /\ Sane(mempool'[k]) /\ mempool'[k].run \in 0 .. runs
                                      /\ mempool'[k].call # "otherHoldVerdict"
    BY <1>1, <1>2, <1>7 DEF SaneMempool
  <2>3. \A k \in 1 .. Len(mempool') : Sane(mempool[k])'
    BY <2>1, <2>2
  <2>. QED
    BY <1>1, <1>3, <1>4, <2>2, <2>3 DEF SaneMempool, IsSequence
<1>9. InRun'
  <2>1. PlanInOrder' /\ Reached(plan[1].name)'
    BY <1>1, <1>3, ReachedStays DEF InRun, PlanInOrder, InOrder, Follows, IsSequence
  <2>2. OwnTransaction(name)'
    BY <1>2, <1>3, <1>6, <1>7 DEF OwnTransaction
  <2>. QED
    BY <1>1, <1>3, <2>1, <2>2 DEF InRun
<1>. QED
  BY <1>1, <1>3, <1>5, <1>8, <1>9 DEF RunState, Kept, ScriptShape

\* The run waits, or does nothing, while something else happens: the mempool
\* keeps the run's own transaction.
LEMMA OthersPreserve ==
  ASSUME IInv, Onward, UNCHANGED <<mode, runs, plan, script, receipt, latest>>,
         \/ mempool' = mempool
         \/ \E i \in 1 .. Len(mempool) :
              /\ mempool' = Without(mempool, i)
              /\ mode # "running" \/ mempool[i].run # runs
  PROVE  Kept
<1>1. /\ RecordedStackIsWired /\ SaneMempool /\ RunState /\ runs \in Nat
      /\ IsSequence(mempool)
  BY InvariantParts DEF SaneMempool
<1>2. SaneMempool'
  BY <1>1, MempoolStays
<1>3. RecordedStackIsWired'
  BY <1>1 DEF Onward, RecordedStackIsWired, Wired
<1>4. ASSUME mode = "running"
      PROVE  InRun'
  <2> DEFINE name == plan[1].name
  <2>1. InRun
    BY <1>1, <1>4 DEF RunState
  <2>2. PlanInOrder' /\ Reached(plan[1].name)'
    BY <2>1, ReachedStays DEF InRun, PlanInOrder, InOrder, Follows, IsSequence
  <2>3. DOMAIN mempool = 1 .. Len(mempool) /\ DOMAIN mempool' = 1 .. Len(mempool')
    BY <1>1, <1>2, SequenceOfItsElements DEF SaneMempool, IsSequence
  <2>4. \A k \in 1 .. Len(mempool') : \E j \in 1 .. Len(mempool) : mempool'[k] = mempool[j]
    <3>1. CASE mempool' = mempool
      BY <3>1
    <3>2. ASSUME NEW i \in 1 .. Len(mempool), mempool' = Without(mempool, i)
          PROVE  \A k \in 1 .. Len(mempool') :
                   \E j \in 1 .. Len(mempool) : mempool'[k] = mempool[j]
      BY <1>1, <3>2, TakenOut
    <3>. QED
      BY <3>1, <3>2
  <2>5. \A k, l \in 1 .. Len(mempool') : k # l =>
          \E i, j \in 1 .. Len(mempool) :
            i # j /\ mempool'[k] = mempool[i] /\ mempool'[l] = mempool[j]
    <3>1. CASE mempool' = mempool
      BY <3>1
    <3>2. ASSUME NEW i \in 1 .. Len(mempool), mempool' = Without(mempool, i),
                 NEW k \in 1 .. Len(mempool'), NEW l \in 1 .. Len(mempool'), k # l
          PROVE  \E a, b \in 1 .. Len(mempool) :
                   a # b /\ mempool'[k] = mempool[a] /\ mempool'[l] = mempool[b]
      <4> DEFINE a == IF k < i THEN k ELSE k + 1
                 b == IF l < i THEN l ELSE l + 1
      <4>1. /\ a \in 1 .. Len(mempool) /\ mempool'[k] = mempool[a]
            /\ b \in 1 .. Len(mempool) /\ mempool'[l] = mempool[b]
        <5>1. \A x \in 1 .. Len(mempool') : \E y \in 1 .. Len(mempool) \ {i} :
                 mempool'[x] = mempool[y] /\ y = IF x < i THEN x ELSE x + 1
          <6>1. \A x \in 1 .. Len(Without(mempool, i)) : \E y \in 1 .. Len(mempool) \ {i} :
                   /\ Without(mempool, i)[x] = mempool[y]
                   /\ y = IF x < i THEN x ELSE x + 1
            BY <1>1, <3>2, TakenOut
          <6>. QED
            BY <3>2, <6>1
        <5>. QED
          BY <3>2, <5>1
      <4>2. a # b
        BY <1>1, <3>2 DEF IsSequence
      <4> HIDE DEF a, b
      <4>. QED
        BY <4>1, <4>2
    <3>. QED
      BY <3>1, <3>2
  <2>6. Waiting' => Waiting
    BY <2>3, <2>4 DEF Waiting
  <2>7. ASSUME Waiting' PROVE OwnTransaction(plan[1].name)'
    <3>1. OwnTransaction(name)
      BY <2>1, <2>6, <2>7 DEF InRun
    <3>2. plan' = plan /\ runs' = runs
      OBVIOUS
    <3>3. \A i, j \in 1 .. Len(mempool') :
            mempool'[i].run = runs /\ mempool'[j].run = runs => i = j
      <4>1. ASSUME NEW k \in 1 .. Len(mempool'), NEW l \in 1 .. Len(mempool'), k # l,
                   mempool'[k].run = runs, mempool'[l].run = runs
            PROVE  FALSE
        <5>1. PICK a, b \in 1 .. Len(mempool) :
                a # b /\ mempool'[k] = mempool[a] /\ mempool'[l] = mempool[b]
          BY <2>5, <4>1
        <5>. QED
          BY <3>1, <4>1, <5>1 DEF OwnTransaction
      <4>. QED
        BY <4>1
    <3>4. \A i \in 1 .. Len(mempool') : mempool'[i].run = runs =>
            /\ name = "setReporter" => mempool'[i].call = "setReporter"
            /\ name = "claim" => mempool'[i].call = "verdict"
                                 /\ mempool'[i].verdict.outcome = "COVERED"
      BY <2>4, <3>1 DEF OwnTransaction
    <3>. QED
      BY <3>1, <3>2, <3>3, <3>4 DEF OwnTransaction
  <2>8. ASSUME receipt # NoReceipt PROVE Receipted(plan[1].name)'
    <3>1. Receipted(name)
      BY <2>1, <2>8 DEF InRun
    <3>2. HeldLogs(receipt.logs)'
      BY <3>1 DEF Receipted, HeldLogs, Onward
    <3>3. Covered # {} => Covered' # {}
      BY DEF Onward
    <3>. QED
      BY <3>1, <3>2, <3>3 DEF Receipted, Onward
  <2>. QED
    BY <2>1, <2>2, <2>6, <2>7, <2>8 DEF InRun
<1>. QED
  BY <1>1, <1>2, <1>3, <1>4 DEF Kept, RunState, ScriptShape

LEMMA MinePreserves ==
  ASSUME IInv, Onward, NEW i \in DOMAIN mempool, Mine(i)
  PROVE  Kept
<1> DEFINE tx == mempool[i]
           name == plan[1].name
<1>1. /\ Books /\ RecordedStackIsWired /\ SaneMempool /\ RunState /\ runs \in Nat
      /\ IsSequence(mempool) /\ DOMAIN mempool = 1 .. Len(mempool)
      /\ mode = "running" /\ InRun /\ Sane(tx) /\ tx.run = runs
  BY InvariantParts, SequenceOfItsElements DEF SaneMempool, RunState, Mine
<1>2. /\ UNCHANGED <<mode, runs, plan, script, latest>>
      /\ mempool' = Without(mempool, i)
  BY DEF Mine
<1>3. SaneMempool'
  BY <1>1, <1>2, MempoolStays
<1>4. RecordedStackIsWired'
  BY <1>1, <1>2 DEF Onward, RecordedStackIsWired, Wired
<1>5. OwnTransaction(name)
  BY <1>1 DEF InRun, Waiting
<1>6. ~Waiting'
  <2>1. DOMAIN mempool' = 1 .. Len(mempool')
    BY <1>3, SequenceOfItsElements DEF SaneMempool, IsSequence
  <2>2. \A k \in 1 .. Len(mempool') : \E j \in 1 .. Len(mempool) \ {i} : mempool'[k] = mempool[j]
    BY <1>1, <1>2, TakenOut
  <2>. QED
    BY <1>1, <1>2, <1>5, <2>1, <2>2 DEF Waiting, OwnTransaction
<1>7. Receipted(name)'
  <2>1. CASE Executed(tx) /\ receipt' = [success |-> TRUE, logs |-> Logs(tx)]
    <3>1. Sender(tx)
      BY <1>1, <2>1 DEF Sender, Executed
    <3>2. HeldLogs(receipt.logs)'
      <4>1. PICK logs : logs = Logs(tx)
        OBVIOUS
      <4>2. HeldLogs(logs)'
        BY <3>1, <4>1, LogsNameTheHold
      <4>3. receipt'.logs = logs
        BY <2>1, <4>1
      <4>. QED
        BY <4>2, <4>3 DEF HeldLogs
    <3>3. name = "setReporter" => isReporter'[Verdicts]
      <4>1. name = "setReporter" => tx.call = "setReporter"
        BY <1>1, <1>5 DEF OwnTransaction
      <4>2. Verdicts \in Address /\ MaxVersion \in Nat \ {0}
        BY WiringAssumption
      <4>. QED
        BY <3>1, <4>1, <4>2, StillWired
    <3>4. name = "claim" => Covered' # {}
      <4>1. name = "claim" => tx.call = "verdict" /\ tx.verdict.outcome = "COVERED"
        BY <1>1, <1>5 DEF OwnTransaction
      <4>. QED
        BY <3>1, <4>1, VerdictAdds DEF Covered, AcceptedAs
    <3>. QED
      BY <1>2, <3>2, <3>3, <3>4 DEF Receipted
  <2>2. CASE receipt' = [success |-> FALSE, logs |-> <<>>]
    <3>1. HeldLogs(receipt.logs)'
      BY <2>2 DEF HeldLogs
    <3>. QED
      BY <2>2, <3>1 DEF Receipted
  <2>. QED
    BY <2>1, <2>2 DEF Mine
<1>8. InRun'
  <2>1. PlanInOrder' /\ Reached(plan[1].name)'
    BY <1>1, <1>2, ReachedStays DEF InRun, PlanInOrder, InOrder, Follows, IsSequence
  <2>2. plan'[1].name \notin OffChain
    BY <1>2, <1>5 DEF OwnTransaction
  <2>. QED
    BY <1>2, <1>6, <1>7, <2>1, <2>2 DEF InRun
<1>. QED
  BY <1>1, <1>2, <1>3, <1>4, <1>8 DEF Kept, RunState, ScriptShape

LEMMA FailPreserves == ASSUME IInv, Onward, Fail PROVE Kept
<1>1. RecordedStackIsWired /\ SaneMempool /\ RunState /\ runs \in Nat
  BY InvariantParts DEF SaneMempool
<1>2. SaneMempool'
  BY <1>1, MempoolStays DEF Fail, txVars
<1>3. RecordedStackIsWired'
  BY <1>1 DEF Fail, Onward, RecordedStackIsWired, Wired
<1>. QED
  BY <1>1, <1>2, <1>3 DEF Fail, Kept, RunState, ScriptShape

\* The run goes on to the next step.
LEMMA NextStepPreserves ==
  ASSUME IInv, Onward, mode = "running", plan[1].name # "conclude", ~Waiting,
         UNCHANGED <<mode, runs, mempool>>, plan' = Tail(plan), receipt' = NoReceipt,
         latest => latest', ScriptShape', latest' => Wired',
         NEW b, b = plan[2].name, Follows(plan[1].name, b) => Reached(b)'
  PROVE  Kept
<1>1. RecordedStackIsWired /\ SaneMempool /\ RunState /\ runs \in Nat /\ InRun
  BY InvariantParts DEF SaneMempool, RunState
<1>2. SaneMempool'
  BY <1>1, MempoolStays
<1>3. RecordedStackIsWired'
  BY DEF RecordedStackIsWired, Wired
<1>4. /\ PlanInOrder' /\ plan'[1] = plan[2]
      /\ Follows(plan[1].name, plan[2].name)
  BY <1>1, TailInOrder DEF InRun
<1>5. Reached(b)'
  BY <1>4
<1>6. plan'[1].name = b
  BY <1>4
<1>7. Reached(plan[1].name)'
  BY <1>5, <1>6 DEF Reached
<1>8. ~Waiting'
  BY DEF Waiting
<1>. QED
  BY <1>2, <1>3, <1>4, <1>7, <1>8 DEF Kept, RunState, InRun

LEMMA FoundEvent ==
  ASSUME NEW r, NEW name, HasEvent(r, name), HeldLogs(r.logs), name = "Held"
  PROVE  /\ ReceiptEvent(r, name).id \in 1 .. nextHoldId - 1
         /\ ReceiptEvent(r, name).to = holds[ReceiptEvent(r, name).id].to
         /\ ReceiptEvent(r, name).amount = holds[ReceiptEvent(r, name).id].amount
<1> DEFINE k == CHOOSE i \in DOMAIN r.logs : i \in LogsOf(r, name)
<1>1. k \in DOMAIN r.logs /\ k \in LogsOf(r, name)
  BY DEF HasEvent
<1>2. r.logs[k].ev = "Held"
  BY <1>1 DEF LogsOf
<1>3. ReceiptEvent(r, name) = r.logs[k]
  BY DEF ReceiptEvent
<1> HIDE DEF k
<1>. QED
  BY <1>1, <1>2, <1>3 DEF HeldLogs

\* What the run noted down, by the step.
LEMMA NotedIs ==
  ASSUME ScriptShape, script' = Noted(plan[1], receipt)
  PROVE  /\ ScriptShape' /\ script'.policy = script.policy
         /\ script'.freshHold = IF plan[1].name = "hold" THEN ReceiptEvent(receipt, "Held").id
                                ELSE script.freshHold
         /\ script'.lookHold = IF plan[1].name = "lookalike"
                               THEN ReceiptEvent(receipt, "Held").id ELSE script.lookHold
<1> DEFINE i == ReceiptEvent(receipt, "Held").id
<1>0. script = [current |-> script.current, policy |-> script.policy,
                freshHold |-> script.freshHold, lookHold |-> script.lookHold]
  BY DEF ScriptShape
<1> HIDE DEF i
<1>1. CASE plan[1].name = "hold"
  <2>1. script' = [script EXCEPT !.freshHold = i]
    BY <1>1 DEF Noted, i
  <2>2. script' = [current |-> script.current, policy |-> script.policy,
                   freshHold |-> i, lookHold |-> script.lookHold]
    BY <1>0, <2>1
  <2>. QED
    BY <1>1, <2>2 DEF ScriptShape, i
<1>2. CASE plan[1].name = "lookalike"
  <2>1. script' = [script EXCEPT !.lookHold = i]
    BY <1>2 DEF Noted, i
  <2>2. script' = [current |-> script.current, policy |-> script.policy,
                   freshHold |-> script.freshHold, lookHold |-> i]
    BY <1>0, <2>1
  <2>. QED
    BY <1>2, <2>2 DEF ScriptShape, i
<1>3. CASE plan[1].name \in {"payroll", "cancel", "block", "release"}
  <2>1. script' = [script EXCEPT !.current = Snapshot]
    BY <1>3 DEF Noted
  <2> DEFINE now_ == Snapshot
  <2>2. script' = [script EXCEPT !.current = now_]
    BY <2>1
  <2> HIDE DEF now_
  <2>3. script' = [current |-> now_, policy |-> script.policy,
                   freshHold |-> script.freshHold, lookHold |-> script.lookHold]
    BY <1>0, <2>2
  <2>. QED
    BY <1>3, <2>3 DEF ScriptShape
<1>4. CASE plan[1].name \notin {"hold", "lookalike", "payroll", "cancel", "block", "release"}
  <2>1. script' = script
    BY <1>4 DEF Noted
  <2>. QED
    BY <1>0, <1>4, <2>1 DEF ScriptShape
<1>. QED
  BY <1>1, <1>2, <1>3, <1>4

\* The judgement made at the release is that of the claim.
LEMMA JudgedExternal ==
  ASSUME ClaimJudged
  PROVE  ClaimTerms
<1> DEFINE t == Order(LOOKALIKE, 150, now, LookAlibi)
           f == Facts(Never)
           p == script.policy
<1>1. E!JudgeBreach(p, t, f) = [outcome |-> "COVERED", alibi |-> "EXTERNAL",
                                lossAmount |-> 150, payoutAmount |-> 135]
  BY DEF ClaimJudged, Breach
<1>2. t.amount = 150
  BY DEF Order
<1> HIDE DEF t, f, p
<1>3. E!AlibiOf(t) = "EXTERNAL"
  <2>1. E!AlibiOf(t) \in {"UNKNOWN", "OWNER_SIGNED", "EXTERNAL"}
    BY DEF E!AlibiOf
  <2>2. E!JudgeBreach(p, t, f).alibi = E!AlibiOf(t)
    <3>1. \E o, n : E!JudgeBreach(p, t, f) = E!Judged(t, o, n)
      BY <2>1 DEF E!JudgeBreach
    <3>. QED
      BY <3>1 DEF E!Judged
  <2>. QED
    BY <1>1, <2>2
<1>4. E!ComputePayout(150, p) = 135
  <2>1. E!Violated(p, t, f)
    <3>1. SUFFICES ASSUME ~E!Violated(p, t, f) PROVE FALSE
      OBVIOUS
    <3>2. E!JudgeBreach(p, t, f) = E!Judged(t, "DISMISSED", 0)
      BY <1>3, <3>1 DEF E!JudgeBreach
    <3>. QED
      BY <1>1, <3>2 DEF E!Judged
  <2>2. E!JudgeBreach(p, t, f) = E!Judged(t, "COVERED", E!ComputePayout(t.amount, p))
    BY <1>3, <2>1 DEF E!JudgeBreach
  <2>3. E!JudgeBreach(p, t, f).payoutAmount = E!ComputePayout(t.amount, p)
    BY <2>2 DEF E!Judged
  <2>. QED
    BY <1>1, <1>2, <2>3
<1>. QED
  BY <1>3, <1>4 DEF ClaimTerms, t, p

LEMMA ObservePreserves == ASSUME IInv, Onward, Observe PROVE Kept
<1>0. PICK a, b : a = plan[1].name /\ b = plan[2].name
  OBVIOUS
<1>1. /\ RecordedStackIsWired /\ SaneMempool /\ RunState /\ InRun /\ Reached(a)
      /\ mode = "running" /\ receipt # NoReceipt /\ ~Waiting /\ a \notin OffChain
      /\ Receipted(a) /\ ScriptShape
  BY <1>0, InvariantParts DEF Observe, RunState, InRun
<1>2. /\ UNCHANGED <<txVars, mode, runs, latest>> /\ plan' = Tail(plan)
      /\ receipt' = NoReceipt /\ script' = Noted(plan[1], receipt)
      /\ Evidence(plan[1], receipt)
  BY DEF Observe
<1>3. /\ ScriptShape' /\ script'.policy = script.policy
      /\ script'.freshHold = IF a = "hold" THEN ReceiptEvent(receipt, "Held").id
                             ELSE script.freshHold
      /\ script'.lookHold = IF a = "lookalike" THEN ReceiptEvent(receipt, "Held").id
                            ELSE script.lookHold
  BY <1>0, <1>1, <1>2, NotedIs
<1>4. /\ holds' = holds /\ nextHoldId' = nextHoldId /\ isReporter' = isReporter
      /\ verdicts' = verdicts /\ latest' = latest /\ now' = now
  BY <1>2 DEF txVars, chainVars, allVars, accountVars, blocklistVars, verdictVars
<1>5. HeldLogs(receipt.logs) /\ receipt.success = (a # "block")
  BY <1>0, <1>1, <1>2 DEF Receipted, Evidence
<1>6. ASSUME Follows(a, b) PROVE Reached(b)'
  <2>0. b \in AfterReporter \/ b \in {"freeze", "cancel", "release", "claim", "conclude"}
        \/ b \notin AfterReporter \cup {"freeze", "cancel", "release", "claim", "conclude"}
    OBVIOUS
  <2>1. CASE b \in AfterReporter
    <3>1. isReporter[Verdicts]
      <4>1. a \in AfterReporter \cup {"setReporter"} \/ latest
        BY <1>6, <2>1 DEF Follows
      <4>2. a = "setReporter" => receipt.success = TRUE
        BY <1>5
      <4>. QED
        BY <1>1, <4>1, <4>2 DEF Reached, Receipted, RecordedStackIsWired
    <3>2. b \notin {"verify", "persist"}
      BY <1>1, <1>6 DEF Follows, OffChain
    <3>. QED
      BY <1>4, <2>1, <3>1, <3>2 DEF Reached, AfterReporter
  <2>2. CASE b = "freeze"
    <3>1. a = "hold"
      BY <1>6, <2>2 DEF Follows
    <3>2. Parked(receipt, FRESH_WALLET)
      BY <1>0, <1>2, <3>1 DEF Evidence
    <3>3. ReceiptEvent(receipt, "Held").id \in 1 .. nextHoldId - 1
      BY <1>5, <3>2, FoundEvent DEF Parked
    <3>. QED
      BY <1>3, <1>4, <2>2, <3>1, <3>3 DEF Reached, AfterReporter
  <2>3. CASE b = "cancel"
    <3>1. a = "freeze"
      BY <1>6, <2>3 DEF Follows
    <3>. QED
      BY <1>1, <1>3, <1>4, <2>3, <3>1 DEF Reached, AfterReporter
  <2>4. CASE b = "release"
    <3>1. a = "lookalike"
      BY <1>6, <2>4 DEF Follows
    <3>2. Parked(receipt, LOOKALIKE)
      BY <1>0, <1>2, <3>1 DEF Evidence
    <3>3. LET held == ReceiptEvent(receipt, "Held") IN
          /\ held.id \in 1 .. nextHoldId - 1
          /\ holds[held.id].to = LOOKALIKE /\ holds[held.id].amount = 150
      BY <1>5, <3>2, FoundEvent DEF Parked
    <3>4. IsLookalike(script.lookHold)'
      BY <1>3, <1>4, <3>1, <3>3 DEF IsLookalike
    <3>. QED
      BY <2>4, <3>4 DEF Reached, AfterReporter
  <2>5. CASE b = "claim"
    <3>1. a = "release"
      BY <1>6, <2>5 DEF Follows
    <3>2. LossSettled(receipt) /\ ClaimJudged
      BY <1>0, <1>2, <3>1 DEF Evidence
    <3>3. IsLookalike(script.lookHold)
      BY <1>1, <3>1 DEF Reached
    <3>4. holds[script.lookHold].status = "RELEASED"
      BY <3>2 DEF LossSettled, HoldState
    <3>5. WasPaid(script.lookHold)' /\ IsLookalike(script.lookHold)'
      BY <1>3, <1>4, <3>1, <3>3, <3>4 DEF WasPaid, IsLookalike
    <3>6. ClaimTerms
      BY <3>2, JudgedExternal
    <3>7. ClaimTerms'
      BY <1>3, <1>4, <3>6 DEF ClaimTerms
    <3>. QED
      BY <2>5, <3>5, <3>7 DEF Reached, AfterReporter
  <2>6. CASE b = "conclude"
    <3>1. a = "claim"
      BY <1>6, <2>6 DEF Follows
    <3>2. receipt.success = TRUE
      BY <1>5, <3>1
    <3>3. Covered # {} /\ WasPaid(script.lookHold)
      BY <1>1, <3>1, <3>2 DEF Receipted, Reached
    <3>4. Covered' # {}
      BY <1>4, <3>3 DEF Covered, AcceptedAs, Accepted
    <3>5. WasPaid(script.lookHold)' /\ IsLookalike(script.lookHold)'
      BY <1>3, <1>4, <3>1, <3>3 DEF WasPaid, IsLookalike
    <3>. QED
      BY <2>6, <3>4, <3>5 DEF Reached, AfterReporter
  <2>7. CASE b \notin AfterReporter \cup {"freeze", "cancel", "release", "claim", "conclude"}
    BY <2>7 DEF Reached, AfterReporter
  <2>. QED
    BY <2>0, <2>1, <2>2, <2>3, <2>4, <2>5, <2>6, <2>7
<1>7. latest' => Wired'
  BY <1>1, <1>2 DEF Onward, RecordedStackIsWired, Wired
<1>8. a # "conclude" /\ mempool' = mempool
  BY <1>1, <1>2 DEF OffChain, txVars
<1>. QED
  BY <1>1, <1>2, <1>3, <1>6, <1>7, <1>8, NextStepPreserves, <1>0

\* The steps without a transaction, and the end of the run.
LEMMA HandlesPreserves == ASSUME IInv, Onward, Handles PROVE Kept
<1>0. PICK b : b = plan[2].name
  OBVIOUS
<1>1. /\ Books /\ RecordedStackIsWired /\ SaneMempool /\ RunState /\ InRun
      /\ mode = "running" /\ ~Waiting /\ plan[1].name = "handles" /\ ScriptShape
      /\ Reached("handles")
  BY InvariantParts DEF Handles, At, Working, RunState, InRun
<1>2. /\ Registry!GetPolicy(Guard) # NoPolicy /\ plan' = Tail(plan)
      /\ script' = [script EXCEPT !.policy = Registry!GetPolicy(Guard)]
      /\ UNCHANGED <<mode, runs, receipt, latest, mempool, isReporter, policyHashAt>>
      /\ receipt' = NoReceipt
  BY DEF Handles, At, Working, txVars, chainVars, allVars, registryVars, blocklistVars
<1>3. ScriptShape'
  <2>1. PICK p : p = Registry!GetPolicy(Guard)
    OBVIOUS
  <2>2. script' = [current |-> script.current, policy |-> p,
                   freshHold |-> script.freshHold, lookHold |-> script.lookHold]
    BY <1>1, <1>2, <2>1 DEF ScriptShape
  <2>. QED
    BY <2>2 DEF ScriptShape
<1>4. isReporter[Verdicts] /\ policyHashAt[Guard][1] # Registry!NoHash
  <2>1. latestVersion[Guard] # 0
    BY <1>2 DEF Registry!GetPolicy
  <2>. QED
    BY <1>1, <2>1 DEF Books, Terms, Reached, AfterReporter
<1>5. ASSUME Follows(plan[1].name, b) PROVE Reached(b)'
  BY <1>1, <1>2, <1>4, <1>5 DEF Follows, Reached
<1>6. latest' => Wired'
  BY <1>1, <1>2 DEF Onward, RecordedStackIsWired, Wired
<1>. QED
  BY <1>0, <1>1, <1>2, <1>3, <1>5, <1>6, NextStepPreserves

LEMMA VerifyPreserves == ASSUME IInv, Onward, Verify PROVE Kept
<1>0. PICK b : b = plan[2].name
  OBVIOUS
<1>1. /\ RecordedStackIsWired /\ SaneMempool /\ RunState /\ InRun
      /\ mode = "running" /\ ~Waiting /\ plan[1].name = "verify" /\ ScriptShape
      /\ Reached("verify")
  BY InvariantParts DEF Verify, At, Working, RunState, InRun
<1>2. /\ VerifySetup(Snapshot) /\ plan' = Tail(plan)
      /\ script' = [script EXCEPT !.current = Snapshot]
      /\ UNCHANGED <<mode, runs, receipt, latest, mempool>>
      /\ receipt' = NoReceipt
      /\ UNCHANGED <<verdictContract, poolVerdictContract, pool, isReporter, policyHashAt>>
  BY DEF Verify, At, Working, txVars, chainVars, allVars, registryVars, blocklistVars,
     accountVars, ownPoolVars, verdictVars
<1>3. ScriptShape'
  <2>1. PICK s : s = Snapshot
    OBVIOUS
  <2>2. script' = [current |-> s, policy |-> script.policy,
                   freshHold |-> script.freshHold, lookHold |-> script.lookHold]
    BY <1>1, <1>2, <2>1 DEF ScriptShape
  <2>. QED
    BY <2>2 DEF ScriptShape
<1>4. Wired /\ isReporter[Verdicts]
  BY <1>1, <1>2 DEF VerifySetup, Wired, Reached, AfterReporter
<1>5. ASSUME Follows(plan[1].name, b) PROVE Reached(b)'
  <2>1. Wired' /\ isReporter'[Verdicts] /\ policyHashAt'[Guard][1] # Registry!NoHash
    BY <1>2, <1>4 DEF Wired
  <2>. QED
    BY <1>1, <1>5, <2>1 DEF Follows, Reached
<1>6. latest' => Wired'
  BY <1>1, <1>2 DEF Onward, RecordedStackIsWired, Wired
<1>. QED
  BY <1>0, <1>1, <1>2, <1>3, <1>5, <1>6, NextStepPreserves

LEMMA PersistPreserves == ASSUME IInv, Onward, Persist PROVE Kept
<1>0. PICK b : b = plan[2].name
  OBVIOUS
<1>1. /\ SaneMempool /\ RunState /\ InRun
      /\ mode = "running" /\ ~Waiting /\ plan[1].name = "persist" /\ ScriptShape
      /\ Wired
  BY InvariantParts DEF Persist, At, Working, RunState, InRun, Reached
<1>2. /\ plan' = Tail(plan) /\ latest' = TRUE
      /\ UNCHANGED <<mode, runs, script, receipt, mempool>>
      /\ receipt' = NoReceipt /\ ScriptShape'
  BY <1>1 DEF Persist, At, Working, txVars, ScriptShape
<1>3. Wired'
  BY <1>1 DEF Onward
<1>4. ASSUME Follows(plan[1].name, b) PROVE Reached(b)'
  <2>1. Wired' /\ isReporter'[Verdicts] /\ policyHashAt'[Guard][1] # Registry!NoHash
    BY <1>3 DEF Wired
  <2>. QED
    BY <1>1, <1>4, <2>1 DEF Follows, Reached
<1>. QED
  BY <1>0, <1>1, <1>2, <1>3, <1>4, NextStepPreserves

LEMMA ConcludePreserves == ASSUME IInv, Onward, Conclude PROVE Kept
<1>1. RecordedStackIsWired /\ SaneMempool /\ RunState /\ runs \in Nat
  BY InvariantParts DEF SaneMempool
<1>2. /\ mempool' = mempool /\ mode' = "done" /\ receipt' = NoReceipt
      /\ UNCHANGED <<runs, script, latest>>
  BY DEF Conclude, At, Working, txVars
<1>3. SaneMempool'
  BY <1>1, <1>2, MempoolStays
<1>4. RecordedStackIsWired'
  BY <1>1, <1>2 DEF Onward, RecordedStackIsWired, Wired
<1>. QED
  BY <1>1, <1>2, <1>3, <1>4 DEF Kept, RunState, ScriptShape

-----------------------------------------------------------------------------
(***************************************************************************)
(* The invariant is inductive.                                             *)
(***************************************************************************)
LEMMA InitiallyIInv == ASSUME ScenarioInit PROVE IInv
<1>1. /\ nextHoldId = 1 /\ verdicts = <<>> /\ mempool = <<>> /\ mode = "idle"
      /\ runs = 0 /\ receipt = NoReceipt /\ latest = FALSE /\ script = NothingKnown
      /\ Registry!RegistryInit /\ Account!Init /\ MutualPool!Init
      /\ BLOCKLIST!BlocklistInit
  BY DEF ScenarioInit, Undeployed, Account!Init
<1>2. HoldsTyped
  <2>1. MaxHolds \in Nat
    BY PartsAssumption DEF Account!NumberAssumption
  <2>. QED
    BY <1>1, <2>1 DEF HoldsTyped, IsHold, Account!Init, Account!ZeroHold
<1>3. PaidHolds
  <2>1. usdc \in [Address -> Nat] /\ LOOKALIKE \in Address
    BY <1>1, LookalikeAssumption, PartsAssumption
       DEF Account!Init, Account!NumberAssumption, Account!Balances
  <2>. QED
    BY <1>1, <2>1 DEF PaidHolds, HoldsAs
<1>4. AcceptedClaims
  BY <1>1 DEF AcceptedClaims, Covered, AcceptedAs, Accepted
<1>5. Reporting
  BY <1>1 DEF Reporting, BLOCKLIST!BlocklistInit
<1>6. Terms
  BY <1>1 DEF Terms, Registry!RegistryInit
<1>7. SaneMempool
  BY <1>1 DEF SaneMempool, IsSequence
<1>8. RunState
  BY <1>1 DEF RunState, ScriptShape, NothingKnown
<1>. QED
  BY <1>1, <1>2, <1>3, <1>4, <1>5, <1>6, <1>7, <1>8 DEF IInv, RecordedStackIsWired

LEMMA IInvIsInductive == ASSUME IInv, [ScenarioNext]_vars PROVE IInv'
<1>1. Onward
  BY StepGoesOnward
<1>2. Kept
  <2>1. CASE Begin
    BY <1>1, <2>1, BeginPreserves
  <2>2. CASE Send
    BY <1>1, <2>2, SendPreserves
  <2>3. CASE Observe
    BY <1>1, <2>3, ObservePreserves
  <2>4. CASE EvidenceFails \/ Abort
    BY <1>1, <2>4, FailPreserves DEF EvidenceFails, Abort
  <2>5. CASE Handles
    BY <1>1, <2>5, HandlesPreserves
  <2>6. CASE Verify
    BY <1>1, <2>6, VerifyPreserves
  <2>7. CASE Persist
    BY <1>1, <2>7, PersistPreserves
  <2>8. CASE Conclude
    BY <1>1, <2>8, ConcludePreserves
  <2>9. CASE Outsider
    <3>1. mempool' = mempool /\ UNCHANGED <<mode, runs, plan, script, receipt, latest>>
      BY <2>9 DEF Outsider
    <3>. QED
      BY <1>1, <3>1, OthersPreserve
  <2>10. CASE Later
    <3>1. mempool' = mempool /\ UNCHANGED <<mode, runs, plan, script, receipt, latest>>
      BY <2>10 DEF Later, scriptVars
    <3>. QED
      BY <1>1, <3>1, OthersPreserve
  <2>11. ASSUME NEW i \in DOMAIN mempool, Mine(i) PROVE Kept
    BY <1>1, <2>11, MinePreserves
  <2>12. ASSUME NEW i \in DOMAIN mempool, MineLeftover(i) PROVE Kept
    <3>1. DOMAIN mempool = 1 .. Len(mempool)
      BY InvariantParts, SequenceOfItsElements DEF SaneMempool
    <3>2. /\ mempool' = Without(mempool, i) /\ (mode # "running" \/ mempool[i].run # runs)
          /\ UNCHANGED <<mode, runs, plan, script, receipt, latest>>
      BY <2>12 DEF MineLeftover, scriptVars
    <3>. QED
      BY <1>1, <3>1, <3>2, OthersPreserve
  <2>13. CASE UNCHANGED vars
    <3>1. mempool' = mempool /\ UNCHANGED <<mode, runs, plan, script, receipt, latest>>
      BY <2>13 DEF vars, txVars, scriptVars
    <3>. QED
      BY <1>1, <3>1, OthersPreserve
  <2>. QED
    BY <2>1, <2>2, <2>3, <2>4, <2>5, <2>6, <2>7, <2>8, <2>9, <2>10, <2>11, <2>12, <2>13
       DEF ScenarioNext
<1>. QED
  BY <1>1, <1>2 DEF Onward, Kept, Books, IInv

\* Whatever others send, however runs end and whatever they leave behind, the
\* invariant holds: what is released is the lookalike's, what is accepted is
\* the claim for it, and what is recorded is wired.
THEOREM ScenarioInvariant == ScenarioSpec => []IInv
BY InitiallyIInv, IInvIsInductive, PTL DEF ScenarioSpec

-----------------------------------------------------------------------------
(***************************************************************************)
(* What a reader of the run's files and of its result may rely on.         *)
(***************************************************************************)
\* A run that attaches to the recorded deployment finds it wired: persist comes
\* after the check of the wiring, and nothing anybody sends undoes it.
THEOREM RecordedStackStaysWired == ScenarioSpec => []RecordedStackIsWired
<1>1. IInv => RecordedStackIsWired
  BY DEF IInv
<1>. QED
  BY <1>1, ScenarioInvariant, PTL

LEMMA CoveredAreLosses ==
  ASSUME IInv, NEW v \in AcceptedAs("COVERED")
  PROVE  IsLossClaim(v) /\ v.payoutAmount = 135
<1>1. v \in Accepted /\ v.outcome = "COVERED" /\ v \in Covered
  BY DEF AcceptedAs, Covered
<1>2. IsSubmitted(v) /\ v.payoutAmount # 0
  BY <1>1 DEF IInv, AcceptedClaims
<1>. QED
  BY <1>1, <1>2 DEF IsSubmitted, IsLossClaim

\* Every claim that was paid names a hold of that amount to that destination
\* that was released before, in whatever order the transactions were mined.
THEOREM PaidLossesWereReal == ScenarioSpec => []PaidLossWasReal
<1>1. ASSUME IInv PROVE PaidLossWasReal
  <2>1. ASSUME NEW v \in AcceptedAs("COVERED")
        PROVE  \E i \in HoldsAs("RELEASED") :
                 holds[i].to = v.destination /\ holds[i].amount = v.lossAmount
    <3>1. IsLossClaim(v)
      BY <1>1, <2>1, CoveredAreLosses
    <3>2. v.txHash.hold \in HoldsAs("RELEASED")
      BY <3>1 DEF IsLossClaim, WasPaid, IsLookalike, HoldsAs
    <3>. QED
      BY <3>1, <3>2 DEF IsLossClaim, WasPaid, IsLookalike
  <2>. QED
    BY <2>1 DEF PaidLossWasReal
<1>. QED
  BY <1>1, ScenarioInvariant, PTL

LEMMA OneClaim ==
  ASSUME IInv, WasPaid(script.lookHold), Covered # {}, usdc[LOOKALIKE] = 150
  PROVE  /\ HoldsAs("RELEASED") = {script.lookHold}
         /\ \E v : AcceptedAs("COVERED") = {v}
<1>1. script.lookHold \in HoldsAs("RELEASED")
  BY DEF WasPaid, IsLookalike, HoldsAs
<1>2. HoldsAs("RELEASED") = {script.lookHold}
  BY <1>1 DEF IInv, PaidHolds
<1>3. ASSUME NEW v \in Covered
      PROVE  v.txHash = [call |-> "release", hold |-> script.lookHold]
  <2>1. /\ v.txHash = [call |-> "release", hold |-> v.txHash.hold]
        /\ WasPaid(v.txHash.hold)
    BY CoveredAreLosses DEF IsLossClaim, Covered
  <2>2. v.txHash.hold = script.lookHold
    BY <1>2, <2>1 DEF WasPaid, IsLookalike, HoldsAs
  <2>. QED
    BY <2>1, <2>2
<1>4. PICK v : v \in Covered
  OBVIOUS
<1>5. Covered = {v}
  BY <1>3, <1>4 DEF IInv, AcceptedClaims
<1>. QED
  BY <1>2, <1>5 DEF Covered

LEMMA ConcludedIsTrue ==
  ASSUME IInv, Conclude
  PROVE  \E i \in HoldsAs("RELEASED") :
         /\ HoldsAs("RELEASED") = {i}
         /\ Cardinality(AcceptedAs("COVERED")) = 1
         /\ \A v \in AcceptedAs("COVERED") :
              /\ v.destination = holds[i].to /\ v.lossAmount = holds[i].amount
              /\ usdc[OWNER] = v.payoutAmount
              /\ Seed["junior"] - totalAssets["junior"] = v.payoutAmount
         /\ usdc[holds[i].to] = holds[i].amount
         /\ 4000 - usdc[Guard] = usdc[ALICE] + usdc[BOB] + holds[i].amount
         /\ usdc[ATTACKER] = 0 /\ totalAssets["senior"] = Seed["senior"]
<1> DEFINE i == script.lookHold
<1>1. Reached("conclude")
  BY InvariantParts DEF Conclude, At, Working, RunState, InRun
<1>2. WasPaid(i) /\ Covered # {}
  BY <1>1 DEF Reached
<1>3. /\ usdc[Guard] = 3050 /\ usdc[OWNER] = 135 /\ usdc[ATTACKER] = 0
      /\ usdc[LOOKALIKE] = 150 /\ usdc[ALICE] = 270 /\ usdc[BOB] = 530
      /\ totalAssets["junior"] = 19865 /\ totalAssets["senior"] = 25000
  BY DEF Conclude, FinalEvidence, Snapshot
<1>4. HoldsAs("RELEASED") = {i}
  BY <1>2, <1>3, OneClaim
<1>5. Cardinality(AcceptedAs("COVERED")) = 1
  <2>1. PICK w : AcceptedAs("COVERED") = {w}
    BY <1>2, <1>3, OneClaim
  <2>. QED
    BY <2>1, FS_Singleton
<1>6. Seed["junior"] = 20000 /\ Seed["senior"] = 25000
  BY StakesAssumption DEF Seed, MutualPool!Tranche
<1>7. \A v \in AcceptedAs("COVERED") :
        v.destination = LOOKALIKE /\ v.lossAmount = 150 /\ v.payoutAmount = 135
  <2> TAKE v \in AcceptedAs("COVERED")
  <2>1. IsLossClaim(v) /\ v.payoutAmount # 0
    BY CoveredAreLosses DEF Covered
  <2>. QED
    BY <2>1 DEF IsLossClaim
<1>8. holds[i].to = LOOKALIKE /\ holds[i].amount = 150
  BY <1>2 DEF WasPaid, IsLookalike
<1> HIDE DEF i
<1>9. PICK S : S = AcceptedAs("COVERED")
  OBVIOUS
<1>10. \A v \in S : /\ v.destination = holds[i].to /\ v.lossAmount = holds[i].amount
                    /\ usdc[OWNER] = v.payoutAmount
                    /\ Seed["junior"] - totalAssets["junior"] = v.payoutAmount
  BY <1>3, <1>6, <1>7, <1>8, <1>9
<1>. QED
  BY <1>3, <1>4, <1>5, <1>6, <1>8, <1>9, <1>10

\* What the run publishes at its end is what happened on the chain, whatever
\* others did meanwhile and whatever an earlier run left behind: one released
\* hold, one claim accepted for it, and money that adds up.
THEOREM PublishedResultIsTrue == ScenarioSpec => ResultIsTrue
<1>1. ASSUME [ScenarioNext]_vars, result' # result
      PROVE  Conclude
  <2>1. ~(Begin \/ Send \/ Observe \/ EvidenceFails \/ Handles \/ Verify \/ Persist
          \/ Abort \/ Outsider \/ Later)
    BY <1>1 DEF Begin, Send, Observe, EvidenceFails, Handles, Verify, Persist, Abort,
       Outsider, Later, Fail, scriptVars
  <2>2. \A i \in DOMAIN mempool : ~Mine(i) /\ ~MineLeftover(i)
    BY <1>1 DEF Mine, MineLeftover, scriptVars
  <2>3. ~UNCHANGED vars
    BY <1>1 DEF vars, scriptVars
  <2>. QED
    BY <1>1, <2>1, <2>2, <2>3 DEF ScenarioNext
<1>2. IInv /\ [ScenarioNext]_vars =>
        [result' # result =>
           \E i \in HoldsAs("RELEASED") :
             /\ HoldsAs("RELEASED") = {i}
             /\ Cardinality(AcceptedAs("COVERED")) = 1
             /\ \A v \in AcceptedAs("COVERED") :
                  /\ v.destination = holds[i].to /\ v.lossAmount = holds[i].amount
                  /\ usdc[OWNER] = v.payoutAmount
                  /\ Seed["junior"] - totalAssets["junior"] = v.payoutAmount
             /\ usdc[holds[i].to] = holds[i].amount
             /\ 4000 - usdc[Guard] = usdc[ALICE] + usdc[BOB] + holds[i].amount
             /\ usdc[ATTACKER] = 0 /\ totalAssets["senior"] = Seed["senior"]]_vars
  BY <1>1, ConcludedIsTrue
<1>. QED
  BY <1>2, ScenarioInvariant, PTL DEF ScenarioSpec, ResultIsTrue

-----------------------------------------------------------------------------
(***************************************************************************)
(* What a handler of the subgraph writes, and what it leaves alone.        *)
(***************************************************************************)
EntitiesShape(e) ==
  e = [agent |-> e.agent, policy |-> e.policy, caps |-> e.caps, holds |-> e.holds,
       verdicts |-> e.verdicts, claims |-> e.claims, blocklist |-> e.blocklist,
       pool |-> e.pool]

\* But for the part of the entities that is named, f is as e.
ButHolds(e, f) ==
  /\ EntitiesShape(f)
  /\ f.policy = e.policy /\ f.verdicts = e.verdicts
  /\ f.blocklist = e.blocklist /\ f.pool = e.pool
ButVerdicts(e, f) ==
  /\ EntitiesShape(f)
  /\ f.policy = e.policy /\ f.holds = e.holds
  /\ f.blocklist = e.blocklist /\ f.pool = e.pool
ButPool(e, f) ==
  /\ EntitiesShape(f)
  /\ f.policy = e.policy /\ f.holds = e.holds
  /\ f.blocklist = e.blocklist /\ f.verdicts = e.verdicts
ButBlocklist(e, f) ==
  /\ EntitiesShape(f)
  /\ f.policy = e.policy /\ f.holds = e.holds
  /\ f.pool = e.pool /\ f.verdicts = e.verdicts
ButPolicy(e, f) ==
  /\ EntitiesShape(f)
  /\ f.blocklist = e.blocklist /\ f.holds = e.holds
  /\ f.pool = e.pool /\ f.verdicts = e.verdicts
Same(e, f) == ButHolds(e, f) /\ f.holds = e.holds

LEMMA IncidentNoted ==
  ASSUME NEW e, EntitiesShape(e)
  PROVE  Same(e, Graph!NoteIncident(e))
<1>1. PICK a : Graph!NoteIncident(e) = [e EXCEPT !.agent = a]
  BY DEF Graph!NoteIncident
<1>. QED
  BY <1>1 DEF EntitiesShape, Same, ButHolds

LEMMA RoutineCounted ==
  ASSUME NEW e, EntitiesShape(e)
  PROVE  Same(e, Graph!ExecutedRoutine(e))
<1>1. PICK a : Graph!ExecutedRoutine(e) = [e EXCEPT !.agent = a]
  BY DEF Graph!ExecutedRoutine
<1>. QED
  BY <1>1 DEF EntitiesShape, Same, ButHolds

LEMMA HoldOpened ==
  ASSUME NEW e, EntitiesShape(e), NEW v
  PROVE  /\ ButHolds(e, Graph!Held(e, v))
         /\ Graph!Held(e, v).holds =
              Graph!Saved(e.holds, v.id,
                [to |-> v.to, amount |-> v.amount, status |-> "PENDING",
                 extendedTo |-> 0, executed |-> FALSE])
<1>1. PICK g : g = Graph!Saved(e.holds, v.id,
                [to |-> v.to, amount |-> v.amount, status |-> "PENDING",
                 extendedTo |-> 0, executed |-> FALSE])
  OBVIOUS
<1>2. Graph!Held(e, v) = [e EXCEPT !.holds = g]
  BY <1>1 DEF Graph!Held, EntitiesShape
<1>3. ButHolds(e, [e EXCEPT !.holds = g]) /\ [e EXCEPT !.holds = g].holds = g
  BY DEF EntitiesShape, ButHolds
<1>. QED
  BY <1>1, <1>2, <1>3

WithHolds(e, g) == [e EXCEPT !.holds = g]

LEMMA HoldsReplaced ==
  ASSUME NEW e, EntitiesShape(e), NEW g
  PROVE  ButHolds(e, e) /\ ButHolds(e, WithHolds(e, g)) /\ WithHolds(e, g).holds = g
BY DEF EntitiesShape, ButHolds, WithHolds

LEMMA HoldReleased ==
  ASSUME NEW e, EntitiesShape(e), NEW v
  PROVE  /\ ButHolds(e, Graph!Released(e, v))
         /\ Graph!Released(e, v).holds =
              IF v.id \notin DOMAIN e.holds THEN e.holds
              ELSE [[e.holds EXCEPT ![v.id].status = "RELEASED"]
                      EXCEPT ![v.id].executed = TRUE]
<1>1. PICK g : g = [[e.holds EXCEPT ![v.id].status = "RELEASED"]
                      EXCEPT ![v.id].executed = TRUE]
  OBVIOUS
<1>2. v.id \in DOMAIN e.holds => Graph!Released(e, v) = WithHolds(e, g)
  BY <1>1 DEF WithHolds, Graph!Released, EntitiesShape
<1>3. v.id \notin DOMAIN e.holds => Graph!Released(e, v) = e
  BY DEF Graph!Released
<1>. QED
  BY <1>1, <1>2, <1>3, HoldsReplaced

LEMMA HoldDecided ==
  ASSUME NEW e, EntitiesShape(e), NEW v
  PROVE  /\ ButHolds(e, Graph!OwnerDecision(e, v))
         /\ Graph!OwnerDecision(e, v).holds =
              IF v.id \notin DOMAIN e.holds THEN e.holds
              ELSE [e.holds EXCEPT ![v.id].status = Graph!StatusOf(v.decision)]
<1>1. PICK g : g = [e.holds EXCEPT ![v.id].status = Graph!StatusOf(v.decision)]
  OBVIOUS
<1>2. v.id \in DOMAIN e.holds => Graph!OwnerDecision(e, v) = WithHolds(e, g)
  BY <1>1 DEF WithHolds, Graph!OwnerDecision, EntitiesShape
<1>3. v.id \notin DOMAIN e.holds => Graph!OwnerDecision(e, v) = e
  BY DEF Graph!OwnerDecision
<1>. QED
  BY <1>1, <1>2, <1>3, HoldsReplaced

LEMMA HoldExtended ==
  ASSUME NEW e, EntitiesShape(e), NEW v
  PROVE  /\ ButHolds(e, Graph!HoldLapsed(e, v))
         /\ Graph!HoldLapsed(e, v).holds =
              IF v.id \notin DOMAIN e.holds THEN e.holds
              ELSE [e.holds EXCEPT ![v.id].extendedTo = v.extendedTo]
<1>1. PICK g : g = [e.holds EXCEPT ![v.id].extendedTo = v.extendedTo]
  OBVIOUS
<1>2. v.id \in DOMAIN e.holds => Graph!HoldLapsed(e, v) = WithHolds(e, g)
  BY <1>1 DEF WithHolds, Graph!HoldLapsed, EntitiesShape
<1>3. v.id \notin DOMAIN e.holds => Graph!HoldLapsed(e, v) = e
  BY DEF Graph!HoldLapsed
<1>. QED
  BY <1>1, <1>2, <1>3, HoldsReplaced

LEMMA HoldRouted ==
  ASSUME NEW e, EntitiesShape(e), NEW v
  PROVE  /\ ButHolds(e, Graph!HoldVerdictRouted(e, v))
         /\ Graph!HoldVerdictRouted(e, v).holds =
              IF v.clean \/ v.id \notin DOMAIN e.holds THEN e.holds
              ELSE [e.holds EXCEPT ![v.id].status = "FROZEN"]
<1>1. PICK g : g = [e.holds EXCEPT ![v.id].status = "FROZEN"]
  OBVIOUS
<1>2. ~(v.clean \/ v.id \notin DOMAIN e.holds) =>
        Graph!HoldVerdictRouted(e, v) = WithHolds(e, g)
  BY <1>1 DEF WithHolds, Graph!HoldVerdictRouted, EntitiesShape
<1>3. v.clean \/ v.id \notin DOMAIN e.holds => Graph!HoldVerdictRouted(e, v) = e
  BY DEF Graph!HoldVerdictRouted
<1>. QED
  BY <1>1, <1>2, <1>3, HoldsReplaced

WithVerdicts(e, g, c) == [[e EXCEPT !.verdicts = g] EXCEPT !.claims = c]

LEMMA VerdictsReplaced ==
  ASSUME NEW e, EntitiesShape(e), NEW g, NEW c
  PROVE  /\ ButVerdicts(e, e) /\ ButVerdicts(e, WithVerdicts(e, g, c))
         /\ WithVerdicts(e, g, c).verdicts = g
<1>1. WithVerdicts(e, g, c) =
        [agent |-> e.agent, policy |-> e.policy, caps |-> e.caps, holds |-> e.holds,
         verdicts |-> g, claims |-> c, blocklist |-> e.blocklist, pool |-> e.pool]
  <2>1. PICK f : f = [e EXCEPT !.verdicts = g]
    OBVIOUS
  <2>2. f = [agent |-> e.agent, policy |-> e.policy, caps |-> e.caps, holds |-> e.holds,
           verdicts |-> g, claims |-> e.claims, blocklist |-> e.blocklist,
           pool |-> e.pool]
    BY <2>1 DEF EntitiesShape
  <2>3. f = [agent |-> f.agent, policy |-> f.policy, caps |-> f.caps, holds |-> f.holds,
             verdicts |-> f.verdicts, claims |-> f.claims, blocklist |-> f.blocklist,
             pool |-> f.pool]
        /\ f.verdicts = g
        /\ f.agent = e.agent /\ f.holds = e.holds /\ f.blocklist = e.blocklist
        /\ f.pool = e.pool /\ f.policy = e.policy /\ f.caps = e.caps
    BY <2>2
  <2>4. WithVerdicts(e, g, c) = [f EXCEPT !.claims = c]
    BY <2>1 DEF WithVerdicts
  <2>. QED
    BY <2>3, <2>4
<1>2. ButVerdicts(e, e)
  BY DEF ButVerdicts
<1>. QED
  BY <1>1, <1>2 DEF EntitiesShape, ButVerdicts

LEMMA VerdictRecorded ==
  ASSUME NEW e, EntitiesShape(e), NEW v
  PROVE  /\ ButVerdicts(e, Graph!VerdictAccepted(e, v))
         /\ Graph!VerdictAccepted(e, v).verdicts =
              Graph!Saved(e.verdicts, v.digest,
                [outcome |-> v.outcome, payout |-> v.payout, reopened |-> 0])
<1>1. PICK g : g = Graph!Saved(e.verdicts, v.digest,
                     [outcome |-> v.outcome, payout |-> v.payout, reopened |-> 0])
  OBVIOUS
<1>2. PICK k : k = [covered |-> v.outcome = "COVERED", claimant |-> v.agent,
                    payout |-> IF v.outcome = "COVERED" THEN v.payout ELSE 0]
  OBVIOUS
<1>3. PICK c : c = IF v.outcome \in {"COVERED", "DENIED_OWNER_ORIGIN"}
                   THEN Graph!Saved(e.claims, v.digest, k) ELSE e.claims
  OBVIOUS
<1>4. PICK f : f = WithVerdicts(e, g, c)
  OBVIOUS
<1>5. Graph!VerdictAccepted(e, v) = f
      \/ Graph!VerdictAccepted(e, v) = Graph!NoteIncident(f)
  BY <1>1, <1>2, <1>3, <1>4 DEF Graph!VerdictAccepted, WithVerdicts, EntitiesShape
<1>6. ButVerdicts(e, f) /\ f.verdicts = g
  BY <1>4, VerdictsReplaced
<1>7. Same(f, Graph!NoteIncident(f))
  BY <1>6, IncidentNoted DEF ButVerdicts
<1>. QED
  BY <1>1, <1>5, <1>6, <1>7 DEF ButVerdicts, Same, ButHolds

LEMMA SignalRecorded ==
  ASSUME NEW e, EntitiesShape(e), NEW v
  PROVE  /\ ButVerdicts(e, Graph!AttemptedBreachSignal(e, v))
         /\ Graph!AttemptedBreachSignal(e, v).verdicts =
              Graph!Saved(e.verdicts, v.txHash,
                [outcome |-> "ATTEMPTED_BREACH", payout |-> 0, reopened |-> 0])
<1>1. PICK g : g = Graph!Saved(e.verdicts, v.txHash,
                     [outcome |-> "ATTEMPTED_BREACH", payout |-> 0, reopened |-> 0])
  OBVIOUS
<1>2. PICK f : f = WithVerdicts(e, g, e.claims)
  OBVIOUS
<1>3. Graph!AttemptedBreachSignal(e, v) = Graph!NoteIncident(f)
  BY <1>1, <1>2 DEF Graph!AttemptedBreachSignal, WithVerdicts, EntitiesShape
<1>4. ButVerdicts(e, f) /\ f.verdicts = g
  BY <1>2, VerdictsReplaced
<1>5. Same(f, Graph!NoteIncident(f))
  BY <1>4, IncidentNoted DEF ButVerdicts
<1>. QED
  BY <1>1, <1>3, <1>4, <1>5 DEF ButVerdicts, Same, ButHolds

LEMMA VerdictReopened ==
  ASSUME NEW e, EntitiesShape(e), NEW v
  PROVE  /\ ButVerdicts(e, Graph!Reopened(e, v))
         /\ Graph!Reopened(e, v).verdicts =
              IF v.digest \notin DOMAIN e.verdicts THEN e.verdicts
              ELSE [e.verdicts EXCEPT ![v.digest].reopened = @ + 1]
<1>1. PICK g : g = [e.verdicts EXCEPT ![v.digest].reopened = @ + 1]
  OBVIOUS
<1>2. v.digest \in DOMAIN e.verdicts =>
        Graph!Reopened(e, v) = WithVerdicts(e, g, e.claims)
  BY <1>1 DEF WithVerdicts, Graph!Reopened, EntitiesShape
<1>3. v.digest \notin DOMAIN e.verdicts => Graph!Reopened(e, v) = e
  BY DEF Graph!Reopened
<1>. QED
  BY <1>1, <1>2, <1>3, VerdictsReplaced

WithPool(e, g) == [e EXCEPT !.pool = g]

LEMMA PoolReplaced ==
  ASSUME NEW e, EntitiesShape(e), NEW g
  PROVE  ButPool(e, WithPool(e, g)) /\ WithPool(e, g).pool = g
BY DEF EntitiesShape, ButPool, WithPool

LEMMA DepositIndexed ==
  ASSUME NEW e, EntitiesShape(e), NEW v
  PROVE  /\ ButPool(e, Graph!Deposited(e, v))
         /\ Graph!Deposited(e, v).pool = [e.pool EXCEPT ![v.tranche] = @ + v.assets]
<1>1. PICK g : g = [e.pool EXCEPT ![v.tranche] = @ + v.assets]
  OBVIOUS
<1>2. Graph!Deposited(e, v) = WithPool(e, g)
  BY <1>1 DEF WithPool, Graph!Deposited, EntitiesShape
<1>. QED
  BY <1>1, <1>2, PoolReplaced

LEMMA RedemptionIndexed ==
  ASSUME NEW e, EntitiesShape(e), NEW v
  PROVE  /\ ButPool(e, Graph!Redeemed(e, v))
         /\ Graph!Redeemed(e, v).pool = [e.pool EXCEPT ![v.tranche] = @ - v.assets]
<1>1. PICK g : g = [e.pool EXCEPT ![v.tranche] = @ - v.assets]
  OBVIOUS
<1>2. Graph!Redeemed(e, v) = WithPool(e, g)
  BY <1>1 DEF WithPool, Graph!Redeemed, EntitiesShape
<1>. QED
  BY <1>1, <1>2, PoolReplaced

LEMMA PremiumIndexed ==
  ASSUME NEW e, EntitiesShape(e), NEW v
  PROVE  /\ ButPool(e, Graph!PremiumRecorded(e, v))
         /\ Graph!PremiumRecorded(e, v).pool = [e.pool EXCEPT !.premium = @ + v.amount]
<1>1. PICK g : g = [e.pool EXCEPT !.premium = @ + v.amount]
  OBVIOUS
<1>2. Graph!PremiumRecorded(e, v) = WithPool(e, g)
  BY <1>1 DEF WithPool, Graph!PremiumRecorded, EntitiesShape
<1>. QED
  BY <1>1, <1>2, PoolReplaced

LEMMA LossIndexed ==
  ASSUME NEW e, EntitiesShape(e), NEW v
  PROVE  /\ ButPool(e, Graph!LossApplied(e, v))
         /\ Graph!LossApplied(e, v).pool =
              [[e.pool EXCEPT !.junior = @ - v.junior] EXCEPT !.senior = @ - v.senior]
<1>1. PICK g : g = [[e.pool EXCEPT !.junior = @ - v.junior] EXCEPT !.senior = @ - v.senior]
  OBVIOUS
<1>2. Graph!LossApplied(e, v) = WithPool(e, g)
  BY <1>1 DEF WithPool, Graph!LossApplied, EntitiesShape
<1>. QED
  BY <1>1, <1>2, PoolReplaced

LEMMA PayoutIndexed ==
  ASSUME NEW e, EntitiesShape(e), NEW v
  PROVE  /\ ButPool(e, Graph!Payout(e, v))
         /\ Graph!Payout(e, v).pool =
              [[e.pool EXCEPT !.payouts = @ + v.amount] EXCEPT !.claims = @ + 1]
<1>1. PICK g : g = [[e.pool EXCEPT !.payouts = @ + v.amount] EXCEPT !.claims = @ + 1]
  OBVIOUS
<1> DEFINE paid == WithPool(e, g)
<1>2. paid = [e EXCEPT !.pool.payouts = @ + v.amount, !.pool.claims = @ + 1]
  BY <1>1 DEF WithPool, EntitiesShape
<1>3. ButPool(e, paid) /\ paid.pool = g
  BY PoolReplaced
<1> HIDE DEF paid
<1>4. PICK c : Graph!Payout(e, v) = paid \/ Graph!Payout(e, v) = [paid EXCEPT !.claims = c]
  <2>1. CASE v.digest \notin DOMAIN e.claims
    BY <1>2, <2>1 DEF Graph!Payout
  <2>2. CASE v.digest \in DOMAIN e.claims
    <3>1. Graph!Payout(e, v) = [paid EXCEPT !.claims[v.digest].claimant = v.claimant,
                                            !.claims[v.digest].payout = v.amount]
      BY <1>2, <2>2 DEF Graph!Payout
    <3>2. \E c : [paid EXCEPT !.claims[v.digest].claimant = v.claimant,
                              !.claims[v.digest].payout = v.amount]
                   = [paid EXCEPT !.claims = c]
      OBVIOUS
    <3>. QED
      BY <3>1, <3>2
  <2>. QED
    BY <2>1, <2>2
<1>5. ButPool(e, [paid EXCEPT !.claims = c]) /\ [paid EXCEPT !.claims = c].pool = g
  BY <1>3 DEF ButPool, EntitiesShape
<1>. QED
  BY <1>1, <1>3, <1>4, <1>5

WithBlocklist(e, g) == [e EXCEPT !.blocklist = g]

LEMMA BlocklistReplaced ==
  ASSUME NEW e, EntitiesShape(e), NEW g
  PROVE  ButBlocklist(e, WithBlocklist(e, g)) /\ WithBlocklist(e, g).blocklist = g
BY DEF EntitiesShape, ButBlocklist, WithBlocklist

LEMMA ReportIndexed ==
  ASSUME NEW e, EntitiesShape(e), NEW v
  PROVE  /\ ButBlocklist(e, Graph!Reported(e, v))
         /\ Graph!Reported(e, v).blocklist =
              [[e.blocklist EXCEPT ![v.destination].strikes = v.strikes]
                 EXCEPT ![v.destination].flagged = v.strikes >= 3]
<1>1. PICK g : g = [[e.blocklist EXCEPT ![v.destination].strikes = v.strikes]
                      EXCEPT ![v.destination].flagged = v.strikes >= 3]
  OBVIOUS
<1>2. Graph!Reported(e, v) = WithBlocklist(e, g)
  BY <1>1 DEF WithBlocklist, Graph!Reported, EntitiesShape
<1>. QED
  BY <1>1, <1>2, BlocklistReplaced

LEMMA ClearIndexed ==
  ASSUME NEW e, EntitiesShape(e), NEW v
  PROVE  /\ ButBlocklist(e, Graph!Cleared(e, v))
         /\ Graph!Cleared(e, v).blocklist =
              [e.blocklist EXCEPT ![v.destination] =
                 [strikes |-> 0, flagged |-> FALSE, cleared |-> TRUE]]
<1>1. PICK g : g = [e.blocklist EXCEPT ![v.destination] =
                      [strikes |-> 0, flagged |-> FALSE, cleared |-> TRUE]]
  OBVIOUS
<1>2. Graph!Cleared(e, v) = WithBlocklist(e, g)
  BY <1>1 DEF WithBlocklist, Graph!Cleared, EntitiesShape
<1>. QED
  BY <1>1, <1>2, BlocklistReplaced

WithPolicy(e, g, c) == [[e EXCEPT !.policy = g] EXCEPT !.caps = c]

LEMMA PolicyReplaced ==
  ASSUME NEW e, EntitiesShape(e), NEW g, NEW c
  PROVE  /\ ButPolicy(e, e) /\ ButPolicy(e, WithPolicy(e, g, c))
         /\ WithPolicy(e, g, c).policy = g
<1>1. WithPolicy(e, g, c) =
        [agent |-> e.agent, policy |-> g, caps |-> c, holds |-> e.holds,
         verdicts |-> e.verdicts, claims |-> e.claims, blocklist |-> e.blocklist,
         pool |-> e.pool]
  <2>1. PICK f : f = [e EXCEPT !.policy = g]
    OBVIOUS
  <2>2. f = [agent |-> e.agent, policy |-> g, caps |-> e.caps, holds |-> e.holds,
           verdicts |-> e.verdicts, claims |-> e.claims, blocklist |-> e.blocklist,
           pool |-> e.pool]
    BY <2>1 DEF EntitiesShape
  <2>3. f = [agent |-> f.agent, policy |-> f.policy, caps |-> f.caps, holds |-> f.holds,
             verdicts |-> f.verdicts, claims |-> f.claims, blocklist |-> f.blocklist,
             pool |-> f.pool]
        /\ f.policy = g
        /\ f.agent = e.agent /\ f.holds = e.holds /\ f.blocklist = e.blocklist
        /\ f.pool = e.pool /\ f.verdicts = e.verdicts /\ f.claims = e.claims
    BY <2>2
  <2>4. WithPolicy(e, g, c) = [f EXCEPT !.caps = c]
    BY <2>1 DEF WithPolicy
  <2>. QED
    BY <2>3, <2>4
<1>2. ButPolicy(e, e)
  BY DEF ButPolicy
<1>. QED
  BY <1>1, <1>2 DEF EntitiesShape, ButPolicy

LEMMA PolicyIndexed ==
  ASSUME NEW e, EntitiesShape(e), NEW v
  PROVE  /\ ButPolicy(e, Graph!PolicyUpdated(e, v))
         /\ Graph!PolicyUpdated(e, v).policy = [live |-> v.policy, revoked |-> FALSE]
<1>1. PICK c : Graph!PolicyUpdated(e, v) =
                 WithPolicy(e, [live |-> v.policy, revoked |-> FALSE], c)
  BY DEF Graph!PolicyUpdated, WithPolicy
<1>. QED
  BY <1>1, PolicyReplaced

LEMMA RevocationIndexed ==
  ASSUME NEW e, EntitiesShape(e)
  PROVE  /\ ButPolicy(e, Graph!PolicyRevoked(e))
         /\ Graph!PolicyRevoked(e).policy =
              IF e.policy.live = NoPolicy THEN e.policy
              ELSE [e.policy EXCEPT !.revoked = TRUE]
<1>1. PICK g : g = [e.policy EXCEPT !.revoked = TRUE]
  OBVIOUS
<1>2. e.policy.live # NoPolicy => Graph!PolicyRevoked(e) = WithPolicy(e, g, e.caps)
  BY <1>1 DEF WithPolicy, Graph!PolicyRevoked, EntitiesShape
<1>3. e.policy.live = NoPolicy => Graph!PolicyRevoked(e) = e
  BY DEF Graph!PolicyRevoked
<1>. QED
  BY <1>1, <1>2, <1>3, PolicyReplaced

-----------------------------------------------------------------------------
(***************************************************************************)
(* The entities agree with the contracts, part by part.                    *)
(***************************************************************************)
Paid == {"RELEASED", "EXECUTED_OWNER"}

\* y is what the index may show of hold i in status s, W being the numbers of
\* the holds frozen elsewhere.
Shows(y, s, i, W) == y \in StatusInIndex(s) \/ (y = "FROZEN" /\ i \in W)

HoldEntity(x, h, i, W) ==
  /\ x = [to |-> h.to, amount |-> h.amount, status |-> x.status,
          extendedTo |-> h.extendedTo, executed |-> x.executed]
  /\ Shows(x.status, h.status, i, W)
  /\ x.executed = (h.status \in Paid)

HoldsIndexed(f, g, n, W) ==
  /\ DOMAIN g = 1 .. n - 1
  /\ \A i \in 1 .. n - 1 : HoldEntity(g[i], f[i], i, W)

\* A hold's entity is marked with a status, and as executed or not.
MarkedAs(x, y, b) ==
  [to |-> x.to, amount |-> x.amount, status |-> y, extendedTo |-> x.extendedTo,
   executed |-> b]

Marked(g, k, j, y, b) ==
  /\ DOMAIN k = DOMAIN g
  /\ \A i \in DOMAIN g : k[i] = IF i = j THEN MarkedAs(g[j], y, b) ELSE g[i]

LEMMA StatusMarked ==
  ASSUME NEW g, NEW j \in DOMAIN g, NEW y, g[j] = MarkedAs(g[j], g[j].status, g[j].executed)
  PROVE  Marked(g, [g EXCEPT ![j].status = y], j, y, g[j].executed)
<1>1. [g[j] EXCEPT !.status = y] = MarkedAs(g[j], y, g[j].executed)
  BY DEF MarkedAs
<1>. QED
  BY <1>1 DEF Marked

LEMMA Remarked ==
  ASSUME NEW x, NEW y, NEW b, NEW c
  PROVE  [MarkedAs(x, y, b) EXCEPT !.executed = c] = MarkedAs(x, y, c)
<1>1. \A t, a, u : [[to |-> t, amount |-> a, status |-> y, extendedTo |-> u, executed |-> b]
                     EXCEPT !.executed = c]
        = [to |-> t, amount |-> a, status |-> y, extendedTo |-> u, executed |-> c]
  OBVIOUS
<1>. QED
  BY <1>1 DEF MarkedAs

LEMMA PaymentMarked ==
  ASSUME NEW g, NEW j \in DOMAIN g, g[j] = MarkedAs(g[j], g[j].status, g[j].executed)
  PROVE  \A c : Marked(g, [[g EXCEPT ![j].status = "RELEASED"] EXCEPT ![j].executed = c],
                     j, "RELEASED", c)
<1> TAKE c
<1>1. PICK k : k = [g EXCEPT ![j].status = "RELEASED"]
  OBVIOUS
<1>2. Marked(g, k, j, "RELEASED", g[j].executed)
  BY <1>1, StatusMarked
<1>3. k[j] = MarkedAs(g[j], "RELEASED", g[j].executed)
  BY <1>2 DEF Marked
<1>4. [k[j] EXCEPT !.executed = c] = MarkedAs(g[j], "RELEASED", c)
  BY <1>3, Remarked
<1>5. Marked(g, [k EXCEPT ![j].executed = c], j, "RELEASED", c)
  BY <1>2, <1>3, <1>4 DEF Marked
<1>. QED
  BY <1>1, <1>5

LEMMA MarkedTwice ==
  ASSUME NEW g, NEW k, NEW l, NEW j \in DOMAIN g, NEW y, NEW b, NEW z, NEW c,
         Marked(g, k, j, y, b), Marked(k, l, j, z, c)
  PROVE  Marked(g, l, j, z, c)
BY DEF Marked, MarkedAs

LEMMA MarkingAgrees ==
  ASSUME NEW f, f = [i \in Account!HoldId |-> f[i]],
         \A i \in Account!HoldId : IsHold(f[i]),
         NEW n, 1 .. n - 1 \subseteq Account!HoldId, NEW g, NEW W,
         HoldsIndexed(f, g, n, W),
         NEW j \in 1 .. n - 1, NEW s, NEW k, NEW y, NEW b,
         Marked(g, k, j, y, b), Shows(y, s, j, W), b = (s \in Paid)
  PROVE  HoldsIndexed(WithStatus(f, j, s), k, n, W)
<1>1. ASSUME NEW i \in 1 .. n - 1
      PROVE  HoldEntity(k[i], WithStatus(f, j, s)[i], i, W)
  <2>1. CASE i = j
    <3>1. WithStatus(f, j, s)[j] = [f[j] EXCEPT !.status = s]
      BY DEF WithStatus
    <3>2. [f[j] EXCEPT !.status = s] =
             [to |-> f[j].to, amount |-> f[j].amount, releaseAt |-> f[j].releaseAt,
              createdAt |-> f[j].createdAt, extendedTo |-> f[j].extendedTo, status |-> s]
      BY DEF IsHold
    <3>3. k[j] = MarkedAs(g[j], y, b) /\ HoldEntity(g[j], f[j], j, W)
      BY DEF Marked, HoldsIndexed
    <3>. QED
      BY <2>1, <3>1, <3>2, <3>3 DEF HoldEntity, MarkedAs
  <2>2. CASE i # j
    <3>1. WithStatus(f, j, s)[i] = f[i] /\ k[i] = g[i]
      BY <2>2 DEF WithStatus, Marked, HoldsIndexed
    <3>. QED
      BY <3>1 DEF HoldsIndexed
  <2>. QED
    BY <2>1, <2>2
<1>. QED
  BY <1>1 DEF HoldsIndexed, Marked

-----------------------------------------------------------------------------
LEMMA NoneIndexed ==
  ASSUME NEW e, NEW logs, logs = <<>>
  PROVE  Graph!Index(e, logs) = e
<1>1. Len(logs) = 0
  OBVIOUS
<1>. QED
  BY <1>1, IndexedOneByOne

LEMMA OneIndexed ==
  ASSUME NEW e, NEW logs, NEW a, logs = <<a>>
  PROVE  Graph!Index(e, logs) = Graph!Handled(e, a)
<1>1. Len(logs) = 1 /\ logs[1] = a
  OBVIOUS
<1>. QED
  BY <1>1, IndexedOneByOne

LEMMA TwoIndexed ==
  ASSUME NEW e, NEW logs, NEW a, NEW b, logs = <<a, b>>
  PROVE  Graph!Index(e, logs) = Graph!Handled(Graph!Handled(e, a), b)
<1>1. Len(logs) = 2 /\ logs[1] = a /\ logs[2] = b
  OBVIOUS
<1>. QED
  BY <1>1, IndexedOneByOne

LEMMA ThreeIndexed ==
  ASSUME NEW e, NEW logs, NEW a, NEW b, NEW c, logs = <<a, b, c>>
  PROVE  Graph!Index(e, logs) =
           Graph!Handled(Graph!Handled(Graph!Handled(e, a), b), c)
<1>1. Len(logs) = 3 /\ logs[1] = a /\ logs[2] = b /\ logs[3] = c
  OBVIOUS
<1>. QED
  BY <1>1, IndexedOneByOne

LEMMA FourIndexed ==
  ASSUME NEW e, NEW logs, NEW a, NEW b, NEW c, NEW d, logs = <<a, b, c, d>>
  PROVE  Graph!Index(e, logs) =
           Graph!Handled(Graph!Handled(Graph!Handled(Graph!Handled(e, a), b), c), d)
<1>1. Len(logs) = 4 /\ logs[1] = a /\ logs[2] = b /\ logs[3] = c /\ logs[4] = d
  OBVIOUS
<1>. QED
  BY <1>1, IndexedOneByOne

\* The compound ones, written out.
LEMMA LogsWrittenOut ==
  ASSUME NEW tx
  PROVE  /\ tx.call = "holdVerdict" /\ tx.tier = 0 =>
              Logs(tx) = <<Routed(Guard, tx), ReleasedLog(tx.hold), PaidHold(tx.hold)>>
         /\ tx.call = "holdVerdict" /\ tx.tier # 0 =>
              Logs(tx) = <<Routed(Guard, tx), Decided(tx.hold, 255)>>
         /\ tx.call = "decide" /\ tx.decision = 0 =>
              Logs(tx) = <<ReleasedLog(tx.hold), Decided(tx.hold, 0), PaidHold(tx.hold)>>
         /\ tx.call = "decide" /\ tx.decision = 1 => Logs(tx) = <<Decided(tx.hold, 1)>>
         /\ tx.call = "decide" /\ tx.decision = 2 =>
              Logs(tx) = <<[ev |-> "AuthorityRevoked"], Decided(tx.hold, 2)>>
         /\ tx.call = "verdict" => Logs(tx) = VerdictLogs(tx.verdict)
<1>1. 0 # 2 /\ 1 # 0 /\ 1 # 2 /\ 2 # 0
  OBVIOUS
<1>2. /\ tx.call = "holdVerdict" => Logs(tx) = HoldVerdictLogs(tx)
      /\ tx.call = "decide" => Logs(tx) = DecideLogs(tx)
      /\ tx.call = "verdict" => Logs(tx) = VerdictLogs(tx.verdict)
  BY LogsAre
<1>3. /\ tx.decision = 0 =>
           DecideLogs(tx) = <<ReleasedLog(tx.hold), Decided(tx.hold, 0), PaidHold(tx.hold)>>
      /\ tx.decision = 1 => DecideLogs(tx) = <<Decided(tx.hold, 1)>>
      /\ tx.decision = 2 =>
           DecideLogs(tx) = <<[ev |-> "AuthorityRevoked"], Decided(tx.hold, 2)>>
  BY <1>1 DEF DecideLogs
<1>. QED
  BY <1>2, <1>3 DEF HoldVerdictLogs

-----------------------------------------------------------------------------
(***************************************************************************)
(* The entities and the contracts, part by part.                           *)
(***************************************************************************)
HoldsAgree ==
  HoldsIndexed(holds, entities.holds, nextHoldId, outside.elsewhere)

PoolAgrees ==
  /\ totalAssets = [t \in MutualPool!Tranche |-> totalAssets[t]]
  /\ entities.pool =
       [junior |-> totalAssets["junior"], senior |-> totalAssets["senior"],
        premium |-> premiumPool, payouts |-> entities.pool.payouts,
        claims |-> entities.pool.claims]

VerdictEntity(x, disputed) ==
  /\ x = [outcome |-> x.outcome, payout |-> x.payout, reopened |-> x.reopened]
  /\ x.reopened \in Nat
  /\ (x.reopened > 0) <=> disputed

VerdictsAgree ==
  /\ DOMAIN entities.verdicts = Accepted \cup Signalled
  /\ DOMAIN disputes \subseteq Accepted
  /\ \A v \in Accepted : VerdictEntity(entities.verdicts[v], v \in DOMAIN disputes)

StrikesAgree ==
  /\ strikes = [d \in Address |-> strikes[d]]
  /\ DOMAIN entities.blocklist = Address
  /\ \A d \in Address :
       entities.blocklist[d] =
         [strikes |-> strikes[d], flagged |-> entities.blocklist[d].flagged,
          cleared |-> entities.blocklist[d].cleared]

PolicyAgrees ==
  /\ entities.policy = [live |-> entities.policy.live,
                        revoked |-> entities.policy.revoked]
  /\ (latestVersion[Guard] # 0) <=>
       (entities.policy.live # NoPolicy /\ ~entities.policy.revoked)

IndexInv ==
  /\ EntitiesShape(entities)
  /\ HoldsAgree /\ PoolAgrees /\ VerdictsAgree /\ StrikesAgree /\ PolicyAgrees

-----------------------------------------------------------------------------
\* A part stays as it is when neither side changes.
LEMMA WiderShown ==
  ASSUME NEW f, NEW g, NEW n, NEW W, HoldsIndexed(f, g, n, W), NEW U, W \subseteq U
  PROVE  HoldsIndexed(f, g, n, U)
BY DEF HoldsIndexed, HoldEntity, Shows

LEMMA HoldsStay ==
  ASSUME HoldsAgree, entities'.holds = entities.holds, UNCHANGED <<holds, nextHoldId>>,
         outside.elsewhere \subseteq outside'.elsewhere
  PROVE  HoldsAgree'
<1>1. HoldsIndexed(holds, entities.holds, nextHoldId, outside'.elsewhere)
  BY WiderShown DEF HoldsAgree
<1>2. HoldsIndexed(holds', entities'.holds, nextHoldId', outside'.elsewhere)
  BY <1>1
<1>. QED
  BY <1>2 DEF HoldsAgree

LEMMA PoolStays ==
  ASSUME PoolAgrees, entities'.pool = entities.pool,
         UNCHANGED <<totalAssets, premiumPool>>
  PROVE  PoolAgrees'
BY DEF PoolAgrees

LEMMA VerdictsStay ==
  ASSUME VerdictsAgree, entities'.verdicts = entities.verdicts,
         UNCHANGED <<verdicts, disputes>>
  PROVE  VerdictsAgree'
BY DEF VerdictsAgree, Signalled, AcceptedAs, Accepted, VerdictEntity

LEMMA StrikesStay ==
  ASSUME StrikesAgree, entities'.blocklist = entities.blocklist, strikes' = strikes
  PROVE  StrikesAgree'
BY DEF StrikesAgree

LEMMA PolicyStays ==
  ASSUME PolicyAgrees, entities'.policy = entities.policy,
         latestVersion' = latestVersion
  PROVE  PolicyAgrees'
BY DEF PolicyAgrees

-----------------------------------------------------------------------------
LEMMA PoolFrame ==
  ASSUME NEW tx, Call(tx), tx.call \notin {"deposit", "redeem", "premium", "verdict"}
  PROVE  totalAssets' = totalAssets /\ premiumPool' = premiumPool
<1>1. CASE tx.call \in {"fund", "create", "mint", "otherHoldVerdict"}
  BY <1>1, CallIs DEF Fund, Create, OnToken, OtherHoldVerdict, chainVars,
     allVars, ownPoolVars
<1>2. CASE tx.call \in {"setWatcher", "setPool", "holdVerdict", "dispute"}
  BY <1>2, CallIs DEF OnVerdicts, SetWatcher, SetPool, SubmitHoldVerdict, Dispute,
     ownPoolVars
<1>3. CASE tx.call = "poolVerdicts"
  BY <1>3, CallIs DEF OnPool, MutualPool!SetPoolVerdictContract, MutualPool!trancheVars
<1>4. CASE tx.call \in {"setReporter", "report", "clear", "attach", "revoke"}
  BY <1>4, CallIs DEF OnBlocklist, OnRegistry, ownPoolVars
<1>5. CASE tx.call \in {"guardVerdicts", "reportAttempt", "killSwitch", "withdraw",
                        "propose", "decide", "lapse"}
  BY <1>5, CallIs DEF OnAccount, ownPoolVars
<1>. QED
  BY <1>1, <1>2, <1>3, <1>4, <1>5, CallIs

LEMMA DisputeFrame ==
  ASSUME NEW tx, Call(tx), tx.call # "dispute"
  PROVE  disputes' = disputes
<1>1. CASE tx.call \in {"fund", "create", "mint", "otherHoldVerdict"}
  BY <1>1, CallIs DEF Fund, Create, OnToken, OtherHoldVerdict, chainVars,
     allVars, verdictVars
<1>2. CASE tx.call \in {"setWatcher", "setPool", "holdVerdict", "verdict"}
  BY <1>2, CallIs DEF OnVerdicts, SetWatcher, SetPool, SubmitHoldVerdict, SubmitVerdict,
     verdictVars
<1>3. CASE tx.call \in {"poolVerdicts", "deposit", "redeem", "premium"}
  BY <1>3, CallIs DEF OnPool, verdictVars
<1>4. CASE tx.call \in {"setReporter", "report", "clear", "attach", "revoke"}
  BY <1>4, CallIs DEF OnBlocklist, OnRegistry, verdictVars
<1>5. CASE tx.call \in {"guardVerdicts", "reportAttempt", "killSwitch", "withdraw",
                        "propose", "decide", "lapse"}
  BY <1>5, CallIs DEF OnAccount, verdictVars
<1>. QED
  BY <1>1, <1>2, <1>3, <1>4, <1>5, CallIs

LEMMA StrikeFrame ==
  ASSUME NEW tx, Call(tx), tx.call \notin {"report", "clear"},
         tx.call = "verdict" => ~FilesStrike(tx.verdict)
  PROVE  strikes' = strikes
<1>1. CASE tx.call \in {"fund", "create", "mint", "otherHoldVerdict"}
  BY <1>1, CallIs DEF Fund, Create, OnToken, OtherHoldVerdict, chainVars,
     allVars, blocklistVars
<1>2. CASE tx.call \in {"setWatcher", "setPool", "holdVerdict", "dispute"}
  BY <1>2, CallIs DEF OnVerdicts, SetWatcher, SetPool, SubmitHoldVerdict, Dispute,
     blocklistVars
<1>3. CASE tx.call \in {"poolVerdicts", "deposit", "redeem", "premium"}
  BY <1>3, CallIs DEF OnPool, blocklistVars
<1>4. CASE tx.call \in {"attach", "revoke"}
  BY <1>4, CallIs DEF OnRegistry, blocklistVars
<1>5. CASE tx.call = "setReporter"
  BY <1>5, CallIs DEF OnBlocklist, BLOCKLIST!SetReporter
<1>6. CASE tx.call = "verdict"
  BY <1>6, CallIs DEF OnVerdicts, SubmitVerdict, Route, blocklistVars
<1>7. CASE tx.call \in {"guardVerdicts", "reportAttempt", "killSwitch", "withdraw",
                        "propose", "decide", "lapse"}
  BY <1>7, CallIs DEF OnAccount, blocklistVars
<1>. QED
  BY <1>1, <1>2, <1>3, <1>4, <1>5, <1>6, <1>7, CallIs

-----------------------------------------------------------------------------
(***************************************************************************)
(* A call that changes one part keeps the others.                          *)
(***************************************************************************)
Mined(tx) ==
  /\ IndexInv /\ Books /\ Sane(tx) /\ Executed(tx)
  /\ outside.elsewhere \cup FrozenElsewhere(tx) \subseteq outside'.elsewhere

LEMMA NothingChanges ==
  ASSUME IndexInv, Same(entities, entities'), UNCHANGED <<holds, nextHoldId>>,
         UNCHANGED <<totalAssets, premiumPool>>, UNCHANGED <<verdicts, disputes>>,
         strikes' = strikes, latestVersion' = latestVersion,
         outside.elsewhere \subseteq outside'.elsewhere
  PROVE  IndexInv'
<1>1. EntitiesShape(entities')
  BY DEF Same, ButHolds
<1>2. EntitiesShape(entities)'
  BY <1>1 DEF EntitiesShape
<1>. QED
  BY <1>2, HoldsStay, PoolStays, VerdictsStay, StrikesStay, PolicyStays
     DEF IndexInv, Same, ButHolds

LEMMA HoldsChanged ==
  ASSUME NEW tx, Mined(tx),
         tx.call \in {"propose", "decide", "lapse", "holdVerdict", "otherHoldVerdict"},
         ButHolds(entities, entities'), HoldsAgree'
  PROVE  IndexInv'
<1>1. EntitiesShape(entities)'
  BY DEF ButHolds, EntitiesShape
<1>2. /\ UNCHANGED <<totalAssets, premiumPool>> /\ UNCHANGED <<verdicts, disputes>>
      /\ strikes' = strikes /\ latestVersion' = latestVersion
  BY PoolFrame, VerdictFrame, DisputeFrame, StrikeFrame, TermsFrame
     DEF Mined, Executed, registryVars
<1>. QED
  BY <1>1, <1>2, PoolStays, VerdictsStay, StrikesStay, PolicyStays
     DEF Mined, IndexInv, ButHolds

LEMMA PoolChanged ==
  ASSUME NEW tx, Mined(tx), tx.call \in {"deposit", "redeem", "premium"},
         ButPool(entities, entities'), PoolAgrees'
  PROVE  IndexInv'
<1>1. EntitiesShape(entities)'
  BY DEF ButPool, EntitiesShape
<1>2. /\ UNCHANGED <<holds, nextHoldId>> /\ UNCHANGED <<verdicts, disputes>>
      /\ strikes' = strikes /\ latestVersion' = latestVersion
  BY HoldFrame, VerdictFrame, DisputeFrame, StrikeFrame, TermsFrame
     DEF Mined, Executed, registryVars
<1>. QED
  BY <1>1, <1>2, HoldsStay, VerdictsStay, StrikesStay, PolicyStays
     DEF Mined, IndexInv, ButPool

LEMMA VerdictsChanged ==
  ASSUME NEW tx, Mined(tx), tx.call = "dispute",
         ButVerdicts(entities, entities'), VerdictsAgree'
  PROVE  IndexInv'
<1>1. EntitiesShape(entities)'
  BY DEF ButVerdicts, EntitiesShape
<1>2. /\ UNCHANGED <<holds, nextHoldId>> /\ UNCHANGED <<totalAssets, premiumPool>>
      /\ strikes' = strikes /\ latestVersion' = latestVersion
  BY HoldFrame, PoolFrame, StrikeFrame, TermsFrame DEF Mined, Executed, registryVars
<1>. QED
  BY <1>1, <1>2, HoldsStay, PoolStays, StrikesStay, PolicyStays
     DEF Mined, IndexInv, ButVerdicts

LEMMA StrikesChanged ==
  ASSUME NEW tx, Mined(tx), tx.call \in {"report", "clear"},
         ButBlocklist(entities, entities'), StrikesAgree'
  PROVE  IndexInv'
<1>1. EntitiesShape(entities)'
  BY DEF ButBlocklist, EntitiesShape
<1>2. /\ UNCHANGED <<holds, nextHoldId>> /\ UNCHANGED <<totalAssets, premiumPool>>
      /\ UNCHANGED <<verdicts, disputes>> /\ latestVersion' = latestVersion
  BY HoldFrame, PoolFrame, VerdictFrame, DisputeFrame, TermsFrame
     DEF Mined, Executed, registryVars
<1>. QED
  BY <1>1, <1>2, HoldsStay, PoolStays, VerdictsStay, PolicyStays
     DEF Mined, IndexInv, ButBlocklist

LEMMA PolicyChanged ==
  ASSUME NEW tx, Mined(tx), tx.call \in {"attach", "revoke"},
         ButPolicy(entities, entities'), PolicyAgrees'
  PROVE  IndexInv'
<1>1. EntitiesShape(entities)'
  BY DEF ButPolicy, EntitiesShape
<1>2. /\ UNCHANGED <<holds, nextHoldId>> /\ UNCHANGED <<totalAssets, premiumPool>>
      /\ UNCHANGED <<verdicts, disputes>> /\ strikes' = strikes
  BY HoldFrame, PoolFrame, VerdictFrame, DisputeFrame, StrikeFrame DEF Mined, Executed
<1>. QED
  BY <1>1, <1>2, HoldsStay, PoolStays, VerdictsStay, StrikesStay
     DEF Mined, IndexInv, ButPolicy

-----------------------------------------------------------------------------
(***************************************************************************)
(* Calls that an entity does not show, or that only count incidents.       *)
(***************************************************************************)
LEMMA SilentIndexed ==
  ASSUME NEW tx, Mined(tx),
         tx.call \in {"fund", "create", "setWatcher", "setPool", "poolVerdicts",
                      "setReporter", "guardVerdicts", "mint", "withdraw",
                      "reportAttempt", "killSwitch"}
  PROVE  IndexInv'
<1>1. EntitiesShape(entities)
  BY DEF Mined, IndexInv
<1>2. entities' = Graph!Index(entities, Logs(tx))
  BY DEF Mined, Executed
<1>3. Same(entities, entities')
  <2>1. CASE tx.call = "reportAttempt"
    <3> DEFINE a == [ev |-> "AttemptedBreach"]
               b == [ev |-> "Classified", tier |-> 2]
    <3>1. Graph!Index(entities, Logs(tx)) = Graph!Handled(Graph!Handled(entities, a), b)
      BY <2>1, LogsAre, TwoIndexed
    <3>2. a.ev = "AttemptedBreach" /\ b.ev = "Classified" /\ b.tier = 2
      OBVIOUS
    <3> HIDE DEF a, b
    <3>3. PICK f : f = Graph!NoteIncident(entities)
      OBVIOUS
    <3>4. Graph!Handled(entities, a) = f /\ Graph!Handled(f, b) = Graph!NoteIncident(f)
      BY <3>2, <3>3, Dispatched
    <3>5. Same(entities, f) /\ EntitiesShape(f)
      BY <1>1, <3>3, IncidentNoted DEF Same, ButHolds
    <3>6. Same(f, Graph!NoteIncident(f))
      BY <3>5, IncidentNoted
    <3>. QED
      BY <1>2, <3>1, <3>4, <3>5, <3>6 DEF Same, ButHolds
  <2>2. CASE tx.call = "killSwitch"
    <3> DEFINE a == [ev |-> "AuthorityRevoked"]
    <3>0. Logs(tx) = <<a>>
      BY <2>2, LogsAre
    <3>1. Graph!Index(entities, Logs(tx)) = Graph!Handled(entities, a)
      BY <3>0, OneIndexed
    <3>2. a.ev = "AuthorityRevoked"
      OBVIOUS
    <3> HIDE DEF a
    <3>3. Graph!Handled(entities, a) = Graph!NoteIncident(entities)
      BY <3>2, Dispatched
    <3>. QED
      BY <1>1, <1>2, <3>1, <3>3, IncidentNoted
  <2>3. CASE tx.call \notin {"reportAttempt", "killSwitch"}
    <3>1. Logs(tx) = <<>>
      BY <2>3, LogsAre
    <3>. QED
      BY <1>1, <1>2, <3>1, NoneIndexed DEF Same, ButHolds
  <2>. QED
    BY <2>1, <2>2, <2>3
<1>4. /\ UNCHANGED <<holds, nextHoldId>> /\ UNCHANGED <<totalAssets, premiumPool>>
      /\ UNCHANGED <<verdicts, disputes>> /\ strikes' = strikes
      /\ latestVersion' = latestVersion
  BY HoldFrame, PoolFrame, VerdictFrame, DisputeFrame, StrikeFrame, TermsFrame
     DEF Mined, Executed, registryVars
<1>. QED
  BY <1>3, <1>4, NothingChanges DEF Mined

-----------------------------------------------------------------------------
(***************************************************************************)
(* The pool's books.                                                       *)
(***************************************************************************)
Booked(ta, premium, paid, claims) ==
  [junior |-> ta["junior"], senior |-> ta["senior"], premium |-> premium,
   payouts |-> paid, claims |-> claims]

LEMMA TrancheBooked ==
  ASSUME NEW ta, ta = [t \in MutualPool!Tranche |-> ta[t]], NEW t \in {"junior", "senior"},
         NEW n, NEW p, NEW q, NEW c
  PROVE  LET tb == [ta EXCEPT ![t] = n] IN
         /\ tb = [u \in MutualPool!Tranche |-> tb[u]]
         /\ [Booked(ta, p, q, c) EXCEPT ![t] = n] = Booked(tb, p, q, c)
<1>1. CASE t = "junior"
  BY <1>1 DEF Booked, MutualPool!Tranche
<1>2. CASE t = "senior"
  BY <1>2 DEF Booked, MutualPool!Tranche
<1>. QED
  BY <1>1, <1>2

LEMMA BookedIs ==
  ASSUME NEW ta, NEW t \in {"junior", "senior"}, NEW p, NEW q, NEW c
  PROVE  Booked(ta, p, q, c)[t] = ta[t]
<1>1. CASE t = "junior"
  BY <1>1 DEF Booked
<1>2. CASE t = "senior"
  BY <1>2 DEF Booked
<1>. QED
  BY <1>1, <1>2

LEMMA TradeIndexed ==
  ASSUME NEW tx, Mined(tx), tx.call \in {"deposit", "redeem"}
  PROVE  IndexInv'
<1>1. EntitiesShape(entities) /\ PoolAgrees /\ tx.tranche \in {"junior", "senior"}
  BY DEF Mined, IndexInv, Sane
<1>2. entities' = Graph!Index(entities, Logs(tx)) /\ Call(tx)
  BY DEF Mined, Executed
<1> DEFINE t == tx.tranche
           p == entities.pool.payouts
           c == entities.pool.claims
<1>3. entities.pool = Booked(totalAssets, premiumPool, p, c)
      /\ totalAssets = [u \in MutualPool!Tranche |-> totalAssets[u]]
  BY <1>1 DEF PoolAgrees, Booked
<1>4. PICK n : /\ ButPool(entities, entities')
               /\ entities'.pool = [entities.pool EXCEPT ![t] = n]
               /\ totalAssets' = [totalAssets EXCEPT ![t] = n]
               /\ premiumPool' = premiumPool
  <2>1. CASE tx.call = "deposit"
    <3> DEFINE a == [ev |-> "Deposited", tranche |-> tx.tranche, assets |-> tx.amount]
    <3>1. Logs(tx) = <<a>>
      BY <2>1, LogsAre
    <3>2. a.ev = "Deposited" /\ a.tranche = t /\ a.assets = tx.amount
      OBVIOUS
    <3>3. /\ totalAssets' = [totalAssets EXCEPT ![t] = @ + tx.amount]
          /\ premiumPool' = premiumPool
      BY <1>2, <2>1, CallIs DEF OnPool, MutualPool!Deposit
    <3> HIDE DEF a
    <3>4. entities' = Graph!Deposited(entities, a)
      <4>1. Graph!Index(entities, Logs(tx)) = Graph!Handled(entities, a)
        BY <3>1, OneIndexed
      <4>. QED
        BY <1>2, <3>2, <4>1, Dispatched
    <3>5. /\ ButPool(entities, entities')
          /\ entities'.pool = [entities.pool EXCEPT ![t] = @ + tx.amount]
      BY <1>1, <3>2, <3>4, DepositIndexed
    <3>6. entities.pool[t] = totalAssets[t]
      BY <1>1, <1>3, BookedIs
    <3>7. PICK n : n = totalAssets[t] + tx.amount
      OBVIOUS
    <3>8. /\ entities'.pool = [entities.pool EXCEPT ![t] = n]
          /\ totalAssets' = [totalAssets EXCEPT ![t] = n]
      BY <3>3, <3>5, <3>6, <3>7
    <3>. QED
      BY <3>3, <3>5, <3>8
  <2>2. CASE tx.call = "redeem"
    <3> DEFINE m == MutualPool!ToAsset(tx.tranche, tx.amount)
               a == [ev |-> "Redeemed", tranche |-> tx.tranche, assets |-> m]
    <3>1. Logs(tx) = <<a>>
      BY <2>2, LogsAre
    <3>2. a.ev = "Redeemed" /\ a.tranche = t /\ a.assets = m
      OBVIOUS
    <3>3. /\ totalAssets' = [totalAssets EXCEPT ![t] = @ - m]
          /\ premiumPool' = premiumPool
      BY <1>2, <2>2, CallIs DEF OnPool, MutualPool!Redeem
    <3> HIDE DEF a, m
    <3>4. entities' = Graph!Redeemed(entities, a)
      <4>1. Graph!Index(entities, Logs(tx)) = Graph!Handled(entities, a)
        BY <3>1, OneIndexed
      <4>. QED
        BY <1>2, <3>2, <4>1, Dispatched
    <3>5. /\ ButPool(entities, entities')
          /\ entities'.pool = [entities.pool EXCEPT ![t] = @ - m]
      BY <1>1, <3>2, <3>4, RedemptionIndexed
    <3>6. entities.pool[t] = totalAssets[t]
      BY <1>1, <1>3, BookedIs
    <3>7. PICK n : n = totalAssets[t] - m
      OBVIOUS
    <3>8. /\ entities'.pool = [entities.pool EXCEPT ![t] = n]
          /\ totalAssets' = [totalAssets EXCEPT ![t] = n]
      BY <3>3, <3>5, <3>6, <3>7
    <3>. QED
      BY <3>3, <3>5, <3>8
  <2>. QED
    BY <2>1, <2>2
<1>5. PICK tb : tb = [totalAssets EXCEPT ![t] = n]
  OBVIOUS
<1>6. /\ tb = [u \in MutualPool!Tranche |-> tb[u]]
      /\ [Booked(totalAssets, premiumPool, p, c) EXCEPT ![t] = n]
           = Booked(tb, premiumPool, p, c)
  BY <1>1, <1>3, <1>5, TrancheBooked
<1>7. /\ totalAssets' = tb /\ premiumPool' = premiumPool
      /\ entities'.pool = Booked(tb, premiumPool, p, c)
  BY <1>3, <1>4, <1>5, <1>6
<1>8. /\ totalAssets' = [u \in MutualPool!Tranche |-> totalAssets'[u]]
      /\ entities'.pool = Booked(totalAssets', premiumPool', entities'.pool.payouts,
                                 entities'.pool.claims)
  BY <1>6, <1>7 DEF Booked
<1>9. PoolAgrees'
  BY <1>8 DEF PoolAgrees, Booked
<1>. QED
  BY <1>4, <1>9, PoolChanged

-----------------------------------------------------------------------------
LEMMA AfterOne ==
  ASSUME NEW tx, Executed(tx), NEW a, Logs(tx) = <<a>>
  PROVE  entities' = Graph!Handled(entities, a)
<1>1. Graph!Index(entities, Logs(tx)) = Graph!Handled(entities, a)
  BY OneIndexed
<1>. QED
  BY <1>1 DEF Executed

LEMMA PremiumBooked ==
  ASSUME NEW tx, Mined(tx), tx.call = "premium"
  PROVE  IndexInv'
<1>1. EntitiesShape(entities) /\ PoolAgrees
  BY DEF Mined, IndexInv
<1> DEFINE a == [ev |-> "PremiumRecorded", amount |-> tx.amount]
           p == entities.pool.payouts
           c == entities.pool.claims
<1>2. Logs(tx) = <<a>>
  BY LogsAre
<1>3. a.ev = "PremiumRecorded" /\ a.amount = tx.amount
  OBVIOUS
<1> HIDE DEF a
<1>4. entities' = Graph!PremiumRecorded(entities, a)
  <2>1. entities' = Graph!Handled(entities, a)
    BY <1>2, AfterOne DEF Mined
  <2>. QED
    BY <1>3, <2>1, Dispatched
<1>5. /\ ButPool(entities, entities')
      /\ entities'.pool = [entities.pool EXCEPT !.premium = @ + tx.amount]
  BY <1>1, <1>3, <1>4, PremiumIndexed
<1>6. premiumPool' = premiumPool + tx.amount /\ totalAssets' = totalAssets
  BY CallIs DEF Mined, Executed, OnPool, MutualPool!RecordPremium, MutualPool!trancheVars
<1>7. entities.pool = Booked(totalAssets, premiumPool, p, c)
  BY <1>1 DEF PoolAgrees, Booked
<1>8. \A n : [Booked(totalAssets, premiumPool, p, c) EXCEPT !.premium = n]
               = Booked(totalAssets, n, p, c)
  BY DEF Booked
<1>9. entities.pool.premium = premiumPool
  BY <1>7 DEF Booked
<1>10. entities'.pool = Booked(totalAssets, premiumPool + tx.amount, p, c)
  BY <1>5, <1>7, <1>8, <1>9
<1>11. entities'.pool = Booked(totalAssets', premiumPool', entities'.pool.payouts,
                               entities'.pool.claims)
  BY <1>6, <1>10 DEF Booked
<1>12. PoolAgrees'
  BY <1>1, <1>6, <1>11 DEF PoolAgrees, Booked
<1>. QED
  BY <1>5, <1>12, PoolChanged

LEMMA DisputeIndexed ==
  ASSUME NEW tx, Mined(tx), tx.call = "dispute"
  PROVE  IndexInv'
<1>1. EntitiesShape(entities) /\ VerdictsAgree
  BY DEF Mined, IndexInv
<1> DEFINE a == [ev |-> "Reopened", digest |-> tx.verdict]
           w == tx.verdict
<1>2. Logs(tx) = <<a>>
  BY LogsAre
<1>3. a.ev = "Reopened" /\ a.digest = w
  OBVIOUS
<1> HIDE DEF a
<1>4. entities' = Graph!Reopened(entities, a)
  <2>1. entities' = Graph!Handled(entities, a)
    BY <1>2, AfterOne DEF Mined
  <2>. QED
    BY <1>3, <2>1, Dispatched
<1>5. /\ w \in Accepted /\ w \notin DOMAIN disputes
      /\ DOMAIN disputes' = DOMAIN disputes \cup {w} /\ verdicts' = verdicts
  BY CallIs DEF Mined, Executed, OnVerdicts, Dispute, With
<1>6. /\ ButVerdicts(entities, entities')
      /\ entities'.verdicts = [entities.verdicts EXCEPT ![w].reopened = @ + 1]
  BY <1>1, <1>3, <1>4, <1>5, VerdictReopened DEF VerdictsAgree
<1>7. DOMAIN entities.verdicts = Accepted \cup Signalled
      /\ \A v \in Accepted : VerdictEntity(entities.verdicts[v], v \in DOMAIN disputes)
  BY <1>1 DEF VerdictsAgree
<1>8. ASSUME NEW x, VerdictEntity(x, FALSE)
      PROVE  VerdictEntity([x EXCEPT !.reopened = @ + 1], TRUE)
  <2>1. [x EXCEPT !.reopened = @ + 1]
          = [outcome |-> x.outcome, payout |-> x.payout, reopened |-> x.reopened + 1]
    BY <1>8 DEF VerdictEntity
  <2>2. x.reopened \in Nat
    BY <1>8 DEF VerdictEntity
  <2>. QED
    BY <2>1, <2>2 DEF VerdictEntity
<1>9. ASSUME NEW v \in Accepted
      PROVE  VerdictEntity(entities'.verdicts[v], v \in DOMAIN disputes')
  <2>1. CASE v = w
    <3>1. VerdictEntity(entities.verdicts[w], FALSE)
      BY <1>5, <1>7 DEF VerdictEntity
    <3>2. entities'.verdicts[w] = [entities.verdicts[w] EXCEPT !.reopened = @ + 1]
      BY <1>5, <1>6, <1>7
    <3>3. VerdictEntity(entities'.verdicts[w], TRUE)
      BY <1>8, <3>1, <3>2
    <3>. QED
      BY <1>5, <2>1, <3>3 DEF VerdictEntity
  <2>2. CASE v # w
    <3>1. entities'.verdicts[v] = entities.verdicts[v]
      BY <1>6, <1>7, <2>2
    <3>2. (v \in DOMAIN disputes') <=> (v \in DOMAIN disputes)
      BY <1>5, <2>2
    <3>. QED
      BY <1>7, <3>1, <3>2 DEF VerdictEntity
  <2>. QED
    BY <2>1, <2>2
<1>10. /\ Accepted' = Accepted /\ Signalled' = Signalled
       /\ DOMAIN entities'.verdicts = Accepted \cup Signalled
  BY <1>5, <1>6, <1>7 DEF Accepted, Signalled, AcceptedAs
<1>11. DOMAIN disputes' \subseteq Accepted
  BY <1>1, <1>5 DEF VerdictsAgree
<1>12. VerdictsAgree'
  BY <1>9, <1>10, <1>11 DEF VerdictsAgree
<1>. QED
  BY <1>6, <1>12, VerdictsChanged

\* A destination's strikes are replaced, on either side.
EntryOf(x, n) == x = [strikes |-> n, flagged |-> x.flagged, cleared |-> x.cleared]

Entered(g, d, x) == [g EXCEPT ![d] = x]
Struck(g, d, n, f) == [[g EXCEPT ![d].strikes = n] EXCEPT ![d].flagged = f]

StruckEntry(y, n, f) == [[y EXCEPT !.strikes = n] EXCEPT !.flagged = f]

LEMMA EntryStruck ==
  ASSUME NEW g, NEW d, NEW n, NEW f
  PROVE  Struck(g, d, n, f) = Entered(g, d, StruckEntry(g[d], n, f))
<1>1. \A z : z = StruckEntry(g[d], n, f) => Struck(g, d, n, f) = Entered(g, d, z)
  BY DEF Struck, Entered, StruckEntry
<1>. QED
  BY <1>1, Zenon

LEMMA EntryReplaced ==
  ASSUME StrikesAgree, NEW d, NEW n, NEW x, strikes' = Entered(strikes, d, n),
         d \in Address => EntryOf(x, n),
         entities'.blocklist = Entered(entities.blocklist, d, x)
  PROVE  StrikesAgree'
<1>1. strikes' = [e \in Address |-> strikes'[e]]
  BY DEF StrikesAgree, Entered
<1>2. DOMAIN entities'.blocklist = Address
  BY DEF StrikesAgree, Entered
<1>3. ASSUME NEW e \in Address
      PROVE  EntryOf(entities'.blocklist[e], strikes'[e])
  <2>1. CASE e = d
    <3>1. entities'.blocklist[e] = x /\ strikes'[e] = n
      BY <2>1 DEF StrikesAgree, Entered
    <3>. QED
      BY <2>1, <3>1
  <2>2. CASE e # d
    <3>1. entities'.blocklist[e] = entities.blocklist[e] /\ strikes'[e] = strikes[e]
      BY <2>2 DEF StrikesAgree, Entered
    <3>2. EntryOf(entities.blocklist[e], strikes[e])
      BY DEF StrikesAgree, EntryOf
    <3>. QED
      BY <3>1, <3>2
  <2>. QED
    BY <2>1, <2>2
<1>. QED
  BY <1>1, <1>2, <1>3 DEF StrikesAgree, EntryOf

LEMMA StrikeShown ==
  ASSUME StrikesAgree, NEW e, EntitiesShape(e), e.blocklist = entities.blocklist,
         NEW d, NEW a, a.ev = "Reported", a.destination = d,
         NEW n, a.strikes = n, strikes' = Entered(strikes, d, n),
         entities' = Graph!Handled(e, a)
  PROVE  ButBlocklist(e, entities') /\ StrikesAgree'
<1>1. entities' = Graph!Reported(e, a)
  BY Dispatched
<1>2. PICK f : f = (a.strikes >= 3)
  OBVIOUS
<1>3. /\ ButBlocklist(e, entities')
      /\ entities'.blocklist = Struck(entities.blocklist, d, n, f)
  <2>1. /\ ButBlocklist(e, Graph!Reported(e, a))
        /\ Graph!Reported(e, a).blocklist =
              [[e.blocklist EXCEPT ![a.destination].strikes = a.strikes]
                 EXCEPT ![a.destination].flagged = a.strikes >= 3]
    BY ReportIndexed
  <2>2. Graph!Reported(e, a).blocklist =
          Struck(e.blocklist, a.destination, a.strikes, f)
    BY <1>2, <2>1 DEF Struck
  <2>. QED
    BY <1>1, <2>1, <2>2, Zenon
<1>4. PICK y, x : y = entities.blocklist[d] /\ x = StruckEntry(y, n, f)
  OBVIOUS
<1>5. entities'.blocklist = Entered(entities.blocklist, d, x)
  BY <1>3, <1>4, EntryStruck, Zenon
<1>6. d \in Address => EntryOf(x, n)
  <2>1. d \in Address =>
          y = [strikes |-> strikes[d], flagged |-> y.flagged, cleared |-> y.cleared]
    BY <1>4 DEF StrikesAgree
  <2>2. d \in Address => x = [strikes |-> n, flagged |-> f, cleared |-> y.cleared]
    BY <1>4, <2>1 DEF StruckEntry
  <2>. QED
    BY <2>2 DEF EntryOf
<1>7. StrikesAgree'
  BY <1>5, <1>6, EntryReplaced
<1>. QED
  BY <1>3, <1>7

LEMMA StrikesIndexed ==
  ASSUME NEW tx, Mined(tx), tx.call \in {"report", "clear"}
  PROVE  IndexInv'
<1> DEFINE d == tx.to
<1>1. EntitiesShape(entities) /\ StrikesAgree /\ Executed(tx)
  BY DEF Mined, IndexInv
<1>2. CASE tx.call = "report"
  <2> DEFINE a == ReportedLog(d)
  <2>1. Logs(tx) = <<a>>
    BY <1>2, LogsAre
  <2>2. a.ev = "Reported" /\ a.destination = d /\ a.strikes = strikes[d] + 1
    BY DEF ReportedLog
  <2>3. strikes' = Entered(strikes, d, strikes[d] + 1)
    BY <1>1, <1>2, CallIs DEF Executed, OnBlocklist, BLOCKLIST!Report, Entered
  <2> HIDE DEF a
  <2>4. entities' = Graph!Handled(entities, a)
    BY <1>1, <2>1, AfterOne
  <2>5. ButBlocklist(entities, entities') /\ StrikesAgree'
    BY <1>1, <2>2, <2>3, <2>4, StrikeShown
  <2>. QED
    BY <2>5, StrikesChanged
<1>3. CASE tx.call = "clear"
  <2> DEFINE a == [ev |-> "Cleared", destination |-> tx.to]
  <2>1. Logs(tx) = <<a>>
    BY <1>3, LogsAre
  <2>2. a.ev = "Cleared" /\ a.destination = d
    OBVIOUS
  <2>3. strikes' = Entered(strikes, d, 0)
    BY <1>1, <1>3, CallIs DEF Executed, OnBlocklist, BLOCKLIST!Clear,
       Entered
  <2> HIDE DEF a
  <2>4. entities' = Graph!Cleared(entities, a)
    <3>1. entities' = Graph!Handled(entities, a)
      BY <1>1, <2>1, AfterOne
    <3>. QED
      BY <2>2, <3>1, Dispatched
  <2>5. PICK x : x = [strikes |-> 0, flagged |-> FALSE, cleared |-> TRUE]
    OBVIOUS
  <2>6. /\ ButBlocklist(entities, entities')
        /\ entities'.blocklist = Entered(entities.blocklist, d, x)
    BY <1>1, <2>2, <2>4, <2>5, ClearIndexed DEF Entered
  <2>7. EntryOf(x, 0)
    BY <2>5 DEF EntryOf
  <2>8. StrikesAgree'
    BY <1>1, <2>3, <2>6, <2>7, EntryReplaced
  <2>. QED
    BY <2>6, <2>8, StrikesChanged
<1>. QED
  BY <1>2, <1>3

LEMMA TermsIndexed ==
  ASSUME NEW tx, Mined(tx), tx.call \in {"attach", "revoke"}
  PROVE  IndexInv'
<1>1. EntitiesShape(entities) /\ PolicyAgrees /\ Terms
  BY DEF Mined, IndexInv, Books
<1>2. CASE tx.call = "attach"
  <2> DEFINE a == [ev |-> "PolicyUpdated", policy |-> FirstPolicy]
  <2>1. Logs(tx) = <<a>>
    BY <1>2, LogsAre
  <2>2. a.ev = "PolicyUpdated" /\ a.policy = FirstPolicy
    OBVIOUS
  <2> HIDE DEF a
  <2>3. entities' = Graph!PolicyUpdated(entities, a)
    <3>1. entities' = Graph!Handled(entities, a)
      BY <2>1, AfterOne DEF Mined
    <3>. QED
      BY <2>2, <3>1, Dispatched
  <2>4. PICK f : f = FALSE
    OBVIOUS
  <2>5. /\ ButPolicy(entities, entities')
        /\ entities'.policy = [live |-> FirstPolicy, revoked |-> f]
    BY <1>1, <2>2, <2>3, <2>4, PolicyIndexed
  <2>6. latestVersion'[Guard] # 0
    <3>1. latestVersion' = [latestVersion EXCEPT ![Guard] = FirstPolicy.version]
          /\ FirstPolicy.version # 0
      <4>1. OnRegistry(Registry!Attach(tx.from, Guard, FirstPolicy))
        BY <1>2, CallIs DEF Mined, Executed
      <4>. QED
        BY <4>1 DEF OnRegistry, Registry!Attach, Registry!Valid
    <3>2. Guard \in DOMAIN latestVersion
      BY <1>1 DEF Terms
    <3>. QED
      BY <3>1, <3>2
  <2>7. FirstPolicy # NoPolicy
    BY PartsAssumption, WiringAssumption DEF Account!PolicyAssumption
  <2>8. entities'.policy.live = FirstPolicy /\ entities'.policy.revoked = f
    BY <2>5
  <2>9. PolicyAgrees'
    BY <2>4, <2>5, <2>6, <2>7, <2>8 DEF PolicyAgrees
  <2>. QED
    BY <2>5, <2>9, PolicyChanged
<1>3. CASE tx.call = "revoke"
  <2> DEFINE a == [ev |-> "PolicyRevoked"]
  <2>1. Logs(tx) = <<a>>
    BY <1>3, LogsAre
  <2>2. a.ev = "PolicyRevoked"
    OBVIOUS
  <2> HIDE DEF a
  <2>3. entities' = Graph!PolicyRevoked(entities)
    <3>1. entities' = Graph!Handled(entities, a)
      BY <2>1, AfterOne DEF Mined
    <3>. QED
      BY <2>2, <3>1, Dispatched
  <2>4. /\ latestVersion[Guard] # 0
        /\ latestVersion' = [latestVersion EXCEPT ![Guard] = 0]
    BY <1>3, CallIs DEF Mined, Executed, OnRegistry, Registry!Revoke
  <2>5. PICK f : f = TRUE
    OBVIOUS
  <2>6. /\ ButPolicy(entities, entities')
        /\ entities'.policy = [entities.policy EXCEPT !.revoked = f]
    BY <1>1, <2>3, <2>4, <2>5, RevocationIndexed DEF PolicyAgrees
  <2>7. entities'.policy = [live |-> entities.policy.live, revoked |-> f]
    BY <1>1, <2>6 DEF PolicyAgrees
  <2>8. latestVersion'[Guard] = 0
    BY <1>1, <2>4 DEF Terms
  <2>9. entities'.policy.revoked = f /\ entities'.policy.live = entities.policy.live
    BY <2>7
  <2>10. PolicyAgrees'
    BY <2>5, <2>7, <2>8, <2>9 DEF PolicyAgrees
  <2>. QED
    BY <2>6, <2>10, PolicyChanged
<1>. QED
  BY <1>2, <1>3

-----------------------------------------------------------------------------
(***************************************************************************)
(* Calls that change a hold.                                               *)
(***************************************************************************)
LEMMA StatusesAre ==
  /\ Graph!StatusOf(0) = "OWNER_APPROVED" /\ Graph!StatusOf(1) = "OWNER_FROZEN"
  /\ Graph!StatusOf(2) = "OWNER_FROZEN_ROTATED"
  /\ Graph!StatusOf(255) = "WATCHER_FROZEN" /\ Graph!StatusOf(254) = "AUTO_FROZEN"
BY DEF Graph!StatusOf

LEMMA StatusesShown ==
  /\ "RELEASED" \in StatusInIndex("RELEASED")
  /\ "OWNER_APPROVED" \in StatusInIndex("EXECUTED_OWNER")
  /\ "OWNER_FROZEN" \in StatusInIndex("CANCELLED")
  /\ "OWNER_FROZEN_ROTATED" \in StatusInIndex("CANCELLED")
  /\ "WATCHER_FROZEN" \in StatusInIndex("FROZEN")
  /\ "AUTO_FROZEN" \in StatusInIndex("FROZEN")
  /\ "PENDING" \in StatusInIndex("PENDING")
BY DEF StatusInIndex

\* A hold's entity has all its fields.
Entity(x) == x = MarkedAs(x, x.status, x.executed)

LEMMA EntityHasFields ==
  ASSUME NEW x, NEW h, NEW i, NEW W, HoldEntity(x, h, i, W)
  PROVE  Entity(x)
BY DEF HoldEntity, Entity, MarkedAs

LEMMA StillEntity ==
  ASSUME NEW g, NEW k, NEW j \in DOMAIN g, NEW y, NEW b, Marked(g, k, j, y, b)
  PROVE  j \in DOMAIN k /\ Entity(k[j]) /\ k[j].executed = b
BY DEF Marked, MarkedAs, Entity

LEMMA OnlyHoldsTwice ==
  ASSUME NEW e, NEW f, NEW g, ButHolds(e, f), ButHolds(f, g)
  PROVE  ButHolds(e, g)
BY DEF ButHolds

LEMMA DecisionMarks ==
  ASSUME NEW e, EntitiesShape(e), NEW j \in DOMAIN e.holds, Entity(e.holds[j]),
         NEW v, v.id = j, NEW y, y = Graph!StatusOf(v.decision)
  PROVE  /\ ButHolds(e, Graph!OwnerDecision(e, v))
         /\ Marked(e.holds, Graph!OwnerDecision(e, v).holds, j, y, e.holds[j].executed)
<1>1. /\ ButHolds(e, Graph!OwnerDecision(e, v))
      /\ Graph!OwnerDecision(e, v).holds = [e.holds EXCEPT ![j].status = y]
  BY HoldDecided
<1>2. Marked(e.holds, [e.holds EXCEPT ![j].status = y], j, y, e.holds[j].executed)
  BY StatusMarked DEF Entity
<1>. QED
  BY <1>1, <1>2

LEMMA PaymentMarks ==
  ASSUME NEW e, EntitiesShape(e), NEW j \in DOMAIN e.holds, Entity(e.holds[j]),
         NEW v, v.id = j, NEW c, c = TRUE
  PROVE  /\ ButHolds(e, Graph!Released(e, v))
         /\ Marked(e.holds, Graph!Released(e, v).holds, j, "RELEASED", c)
<1>1. /\ ButHolds(e, Graph!Released(e, v))
      /\ Graph!Released(e, v).holds =
           [[e.holds EXCEPT ![j].status = "RELEASED"] EXCEPT ![j].executed = c]
  BY HoldReleased
<1>2. Marked(e.holds, [[e.holds EXCEPT ![j].status = "RELEASED"]
                         EXCEPT ![j].executed = c], j, "RELEASED", c)
  BY PaymentMarked DEF Entity
<1>. QED
  BY <1>1, <1>2

LEMMA FreezeMarks ==
  ASSUME NEW e, EntitiesShape(e), NEW j \in DOMAIN e.holds, Entity(e.holds[j]),
         NEW v, v.id = j, ~v.clean
  PROVE  /\ ButHolds(e, Graph!HoldVerdictRouted(e, v))
         /\ Marked(e.holds, Graph!HoldVerdictRouted(e, v).holds, j, "FROZEN",
                   e.holds[j].executed)
<1>1. /\ ButHolds(e, Graph!HoldVerdictRouted(e, v))
      /\ Graph!HoldVerdictRouted(e, v).holds = [e.holds EXCEPT ![j].status = "FROZEN"]
  BY HoldRouted
<1>2. Marked(e.holds, [e.holds EXCEPT ![j].status = "FROZEN"], j, "FROZEN",
             e.holds[j].executed)
  BY StatusMarked DEF Entity
<1>. QED
  BY <1>1, <1>2

\* The entity of a hold that a sane transaction is about.
LEMMA HoldShown ==
  ASSUME NEW tx, Mined(tx), tx.call \in {"decide", "lapse", "holdVerdict"}
  PROVE  LET j == tx.hold IN
         /\ j \in 1 .. nextHoldId - 1 /\ j \in DOMAIN entities.holds
         /\ Entity(entities.holds[j])
         /\ entities.holds[j].executed = (holds[j].status \in Paid)
<1>1. tx.hold \in 1 .. nextHoldId - 1
  BY DEF Mined, Sane
<1>2. HoldsIndexed(holds, entities.holds, nextHoldId, outside.elsewhere)
  BY DEF Mined, IndexInv, HoldsAgree
<1>3. HoldEntity(entities.holds[tx.hold], holds[tx.hold], tx.hold, outside.elsewhere)
  BY <1>1, <1>2 DEF HoldsIndexed
<1>. QED
  BY <1>1, <1>2, <1>3, EntityHasFields DEF HoldsIndexed, HoldEntity

\* The hold gets a status and its entity is marked with what that is called.
LEMMA StatusChangeIndexed ==
  ASSUME NEW tx, Mined(tx), tx.call \in {"decide", "lapse", "holdVerdict"},
         NEW s, holds' = [holds EXCEPT ![tx.hold].status = s], nextHoldId' = nextHoldId,
         ButHolds(entities, entities'), NEW y, NEW b,
         Marked(entities.holds, entities'.holds, tx.hold, y, b),
         y \in StatusInIndex(s), b = (s \in Paid)
  PROVE  IndexInv'
<1>1. tx.hold \in 1 .. nextHoldId - 1
  BY DEF Mined, Sane
<1>2. HoldsTyped
      /\ HoldsIndexed(holds, entities.holds, nextHoldId, outside'.elsewhere)
  BY WiderShown DEF Mined, IndexInv, HoldsAgree, Books
<1>3. 1 .. nextHoldId - 1 \subseteq Account!HoldId
  BY <1>2, HoldIdsAre
<1>4. PICK k : k = entities'.holds
  OBVIOUS
<1>5. Marked(entities.holds, k, tx.hold, y, b)
  BY <1>4
<1>6. HoldsIndexed(WithStatus(holds, tx.hold, s), k, nextHoldId, outside'.elsewhere)
  <2>1. Shows(y, s, tx.hold, outside'.elsewhere)
    BY DEF Shows
  <2>. QED
    BY <1>1, <1>2, <1>3, <1>5, <2>1, MarkingAgrees DEF HoldsTyped
<1>7. holds' = WithStatus(holds, tx.hold, s)
  BY DEF WithStatus
<1>8. HoldsIndexed(holds', entities'.holds, nextHoldId', outside'.elsewhere)
  BY <1>4, <1>6, <1>7
<1>9. HoldsAgree'
  BY <1>8 DEF HoldsAgree
<1>. QED
  BY <1>9, HoldsChanged

LEMMA AfterTwo ==
  ASSUME NEW tx, Executed(tx), NEW a, NEW b, Logs(tx) = <<a, b>>
  PROVE  entities' = Graph!Handled(Graph!Handled(entities, a), b)
<1>1. Graph!Index(entities, Logs(tx)) = Graph!Handled(Graph!Handled(entities, a), b)
  BY TwoIndexed
<1>. QED
  BY <1>1 DEF Executed

LEMMA AfterThree ==
  ASSUME NEW tx, Executed(tx), NEW a, NEW b, NEW c, Logs(tx) = <<a, b, c>>
  PROVE  entities' = Graph!Handled(Graph!Handled(Graph!Handled(entities, a), b), c)
<1>1. Graph!Index(entities, Logs(tx)) =
        Graph!Handled(Graph!Handled(Graph!Handled(entities, a), b), c)
  BY ThreeIndexed
<1>. QED
  BY <1>1 DEF Executed

LEMMA NeitherIn ==
  ASSUME NEW d, NEW x, NEW y, NEW S, d = (x \in S), x \notin S, y \notin S
  PROVE  d = (y \in S)
<1>1. (y \in S) = (x \in S)
  OBVIOUS
<1>. QED
  BY <1>1

LEMMA StillUnpaid ==
  ASSUME NEW tx, Mined(tx), tx.call \in {"decide", "lapse", "holdVerdict"},
         holds[tx.hold].status \in {"PENDING", "FROZEN"},
         NEW s \in {"FROZEN", "CANCELLED"}
  PROVE  entities.holds[tx.hold].executed = (s \in Paid)
<1>1. PICK x : x = holds[tx.hold].status
  OBVIOUS
<1>2. entities.holds[tx.hold].executed = (x \in Paid)
  BY <1>1, HoldShown
<1>3. x \notin Paid /\ s \notin Paid
  BY <1>1 DEF Paid
<1>. QED
  BY <1>2, <1>3, NeitherIn

LEMMA HoldVerdictIndexed ==
  ASSUME NEW tx, Mined(tx), tx.call = "holdVerdict"
  PROVE  IndexInv'
<1> DEFINE j == tx.hold
<1>1. /\ j \in DOMAIN entities.holds /\ Entity(entities.holds[j])
      /\ entities.holds[j].executed = (holds[j].status \in Paid)
  BY HoldShown
<1>2. EntitiesShape(entities) /\ Executed(tx)
  BY DEF Mined, IndexInv
<1>3. OnVerdicts(SubmitHoldVerdict(tx.from, tx.from, j, tx.tier))
  BY <1>2, CallIs DEF Executed
<1>4. CASE tx.tier = 0
  <2> DEFINE a == Routed(Guard, tx)
             c == ReleasedLog(tx.hold)
             b == PaidHold(tx.hold)
  <2>1. Logs(tx) = <<a, c, b>>
    BY <1>4, LogsWrittenOut
  <2>2. /\ a.ev = "HoldVerdictRouted" /\ (a.clean <=> tx.tier = 0)
        /\ b.ev = "Transfer" /\ c.ev = "Released" /\ c.id = j
    BY DEF Transfer, Routed, ReleasedLog, PaidHold
  <2> HIDE DEF a, b, c
  <2>3. entities' = Graph!Handled(Graph!Handled(Graph!Handled(entities, a), c), b)
    BY <1>2, <2>1, AfterThree
  <2>4. PICK e : e = Graph!HoldVerdictRouted(entities, a)
    OBVIOUS
  <2>5. ButHolds(entities, e) /\ e.holds = entities.holds
    BY <1>2, <1>4, <2>2, <2>4, HoldRouted
  <2>6. Graph!Handled(entities, a) = e /\ Graph!Handled(e, c) = Graph!Released(e, c)
        /\ \A f : Graph!Handled(f, b) = f
    BY <2>2, <2>4, Dispatched
  <2>7. entities' = Graph!Released(e, c)
    BY <2>3, <2>6
  <2>8. PICK d : d = TRUE
    OBVIOUS
  <2>9. ButHolds(e, entities') /\ Marked(e.holds, entities'.holds, j, "RELEASED", d)
    BY <1>1, <2>2, <2>5, <2>7, <2>8, PaymentMarks DEF ButHolds
  <2>10. ButHolds(entities, entities')
    BY <2>5, <2>9, OnlyHoldsTwice
  <2>11. holds' = [holds EXCEPT ![j].status = "RELEASED"] /\ nextHoldId' = nextHoldId
    BY <1>3, <1>4 DEF OnVerdicts, SubmitHoldVerdict, Account!ReleaseHold,
       Account!SetStatus
  <2>12. d = ("RELEASED" \in Paid)
    BY <2>8 DEF Paid
  <2>. QED
    BY <2>5, <2>9, <2>10, <2>11, <2>12, StatusesShown, StatusChangeIndexed
<1>5. CASE tx.tier # 0
  <2> DEFINE a == Routed(Guard, tx)
             b == Decided(tx.hold, 255)
  <2>1. Logs(tx) = <<a, b>>
    BY <1>5, LogsWrittenOut
  <2>2. /\ a.ev = "HoldVerdictRouted" /\ (a.clean <=> tx.tier = 0) /\ a.id = j
        /\ b.ev = "OwnerDecision" /\ b.id = j /\ b.decision = 255
    BY DEF Decided, Routed
  <2> HIDE DEF a, b
  <2>3. entities' = Graph!Handled(Graph!Handled(entities, a), b)
    BY <1>2, <2>1, AfterTwo
  <2>4. PICK e : e = Graph!HoldVerdictRouted(entities, a)
    OBVIOUS
  <2>5. /\ holds' = [holds EXCEPT ![j].status = "FROZEN"] /\ nextHoldId' = nextHoldId
        /\ holds[j].status = "PENDING"
    BY <1>3, <1>5 DEF OnVerdicts, SubmitHoldVerdict, Account!FreezeHold,
       Account!SetStatus
  <2>6. PICK d : d = entities.holds[j].executed
    OBVIOUS
  <2>7. entities.holds[j].executed = d /\ d = ("FROZEN" \in Paid)
    BY <2>5, <2>6, StillUnpaid
  <2>8. ButHolds(entities, e) /\ Marked(entities.holds, e.holds, j, "FROZEN", d)
    BY <1>1, <1>2, <1>5, <2>2, <2>4, <2>7, FreezeMarks
  <2>9. j \in DOMAIN e.holds /\ Entity(e.holds[j]) /\ e.holds[j].executed = d
    BY <1>1, <2>8, StillEntity
  <2>10. Graph!Handled(entities, a) = e
         /\ Graph!Handled(e, b) = Graph!OwnerDecision(e, b)
    BY <2>2, <2>4, Dispatched
  <2>11. entities' = Graph!OwnerDecision(e, b)
    BY <2>3, <2>10
  <2>12. Graph!StatusOf(b.decision) = "WATCHER_FROZEN"
    BY <2>2, StatusesAre
  <2>13. ButHolds(e, entities')
         /\ Marked(e.holds, entities'.holds, j, "WATCHER_FROZEN", d)
    BY <2>2, <2>8, <2>9, <2>11, <2>12, DecisionMarks DEF ButHolds
  <2>14. ButHolds(entities, entities')
    BY <2>8, <2>13, OnlyHoldsTwice
  <2>15. Marked(entities.holds, entities'.holds, j, "WATCHER_FROZEN", d)
    BY <1>1, <2>8, <2>13, MarkedTwice
  <2>. QED
    BY <2>5, <2>7, <2>14, <2>15, StatusesShown, StatusChangeIndexed
<1>. QED
  BY <1>4, <1>5

\* A hold verdict for another account: the entity of the hold with the same
\* number here is marked, and the number is among those frozen elsewhere.
LEMMA FrozenMarked ==
  ASSUME NEW f, NEW g, NEW n, NEW W, HoldsIndexed(f, g, n, W), NEW j \in W,
         j \in 1 .. n - 1, NEW k, Marked(g, k, j, "FROZEN", g[j].executed)
  PROVE  HoldsIndexed(f, k, n, W)
<1>1. ASSUME NEW i \in 1 .. n - 1 PROVE HoldEntity(k[i], f[i], i, W)
  <2>1. CASE i = j
    BY <2>1 DEF Marked, MarkedAs, HoldsIndexed, HoldEntity, Shows
  <2>2. CASE i # j
    BY <2>2 DEF Marked, HoldsIndexed
  <2>. QED
    BY <2>1, <2>2
<1>. QED
  BY <1>1 DEF Marked, HoldsIndexed

LEMMA OtherHoldIndexed ==
  ASSUME NEW tx, Mined(tx), tx.call = "otherHoldVerdict"
  PROVE  IndexInv'
<1> DEFINE j == tx.hold
           g == entities.holds
           W == outside'.elsewhere
           a == Routed(tx.agent, tx)
<1>1. /\ EntitiesShape(entities) /\ Executed(tx) /\ OtherHoldVerdict(tx)
      /\ outside.elsewhere \subseteq W
  BY CallIs DEF Mined, IndexInv, Executed
<1>2. HoldsIndexed(holds, g, nextHoldId, W)
  BY WiderShown DEF Mined, IndexInv, HoldsAgree
<1>3. UNCHANGED <<holds, nextHoldId>>
  BY <1>1, HoldFrame DEF Executed
<1>4. a.ev = "HoldVerdictRouted" /\ a.id = j /\ (a.clean <=> tx.tier = 0)
  BY DEF Routed
<1>5. Logs(tx) = <<a>>
  BY LogsAre
<1> HIDE DEF a
<1>6. entities' = Graph!HoldVerdictRouted(entities, a)
  <2>1. entities' = Graph!Handled(entities, a)
    BY <1>1, <1>5, AfterOne
  <2>. QED
    BY <1>4, <2>1, Dispatched
<1>7. ButHolds(entities, entities')
  BY <1>1, <1>6, HoldRouted
<1>8. HoldsIndexed(holds, entities'.holds, nextHoldId, W)
  <2>1. CASE a.clean \/ j \notin DOMAIN g
    BY <1>1, <1>2, <1>4, <1>6, <2>1, HoldRouted
  <2>2. CASE ~a.clean /\ j \in DOMAIN g
    <3>1. j \in W
      <4>1. tx.tier = 1
        BY <1>1, <1>4, <2>2 DEF OtherHoldVerdict
      <4>. QED
        BY <4>1 DEF Mined, FrozenElsewhere
    <3>2. j \in 1 .. nextHoldId - 1 /\ Entity(g[j])
      <4>1. j \in 1 .. nextHoldId - 1 /\ HoldEntity(g[j], holds[j], j, W)
        BY <1>2, <2>2 DEF HoldsIndexed
      <4>. QED
        BY <4>1, EntityHasFields
    <3>3. Marked(g, entities'.holds, j, "FROZEN", g[j].executed)
      BY <1>1, <1>4, <1>6, <2>2, <3>2, FreezeMarks
    <3>. QED
      BY <1>2, <3>1, <3>2, <3>3, FrozenMarked
  <2>. QED
    BY <2>1, <2>2
<1>9. HoldsAgree'
  BY <1>3, <1>8 DEF HoldsAgree
<1>. QED
  BY <1>7, <1>9, HoldsChanged

LEMMA DecisionIndexed ==
  ASSUME NEW tx, Mined(tx), tx.call = "decide"
  PROVE  IndexInv'
<1> DEFINE j == tx.hold
<1>1. /\ j \in DOMAIN entities.holds /\ Entity(entities.holds[j])
      /\ entities.holds[j].executed = (holds[j].status \in Paid)
  BY HoldShown
<1>2. EntitiesShape(entities) /\ Executed(tx)
  BY DEF Mined, IndexInv
<1>3. OnAccount(Decide(tx))
  BY <1>2, CallIs DEF Executed
<1>4. tx.decision \in {0, 1, 2}
  BY DEF Mined, Sane
<1>5. CASE tx.decision = 0
  <2> DEFINE b == ReleasedLog(tx.hold)
             c == Decided(tx.hold, 0)
             a == PaidHold(tx.hold)
  <2>1. Logs(tx) = <<b, c, a>>
    BY <1>5, LogsWrittenOut
  <2>2. /\ a.ev = "Transfer" /\ b.ev = "Released" /\ b.id = j
        /\ c.ev = "OwnerDecision" /\ c.id = j /\ c.decision = 0
    BY DEF Transfer, Decided, ReleasedLog, PaidHold
  <2> HIDE DEF a, b, c
  <2>3. entities' = Graph!Handled(Graph!Handled(Graph!Handled(entities, b), c), a)
    BY <1>2, <2>1, AfterThree
  <2>4. PICK e : e = Graph!Released(entities, b)
    OBVIOUS
  <2>5. PICK d : d = TRUE
    OBVIOUS
  <2>6. ButHolds(entities, e) /\ Marked(entities.holds, e.holds, j, "RELEASED", d)
    BY <1>1, <1>2, <2>2, <2>4, <2>5, PaymentMarks
  <2>7. j \in DOMAIN e.holds /\ Entity(e.holds[j]) /\ e.holds[j].executed = d
    BY <1>1, <2>6, StillEntity
  <2>8. Graph!Handled(entities, b) = e
        /\ Graph!Handled(e, c) = Graph!OwnerDecision(e, c)
        /\ \A f : Graph!Handled(f, a) = f
    BY <2>2, <2>4, Dispatched
  <2>9. entities' = Graph!OwnerDecision(e, c)
    BY <2>3, <2>8
  <2>10. Graph!StatusOf(c.decision) = "OWNER_APPROVED"
    BY <2>2, StatusesAre
  <2>11. ButHolds(e, entities')
         /\ Marked(e.holds, entities'.holds, j, "OWNER_APPROVED", d)
    BY <2>2, <2>6, <2>7, <2>9, <2>10, DecisionMarks DEF ButHolds
  <2>12. ButHolds(entities, entities')
    BY <2>6, <2>11, OnlyHoldsTwice
  <2>13. Marked(entities.holds, entities'.holds, j, "OWNER_APPROVED", d)
    BY <1>1, <2>6, <2>11, MarkedTwice
  <2>14. holds' = [holds EXCEPT ![j].status = "EXECUTED_OWNER"]
         /\ nextHoldId' = nextHoldId
    BY <1>3, <1>5 DEF OnAccount, Decide, Account!Approve, Account!SetStatus
  <2>15. d = ("EXECUTED_OWNER" \in Paid)
    BY <2>5 DEF Paid
  <2>. QED
    BY <2>12, <2>13, <2>14, <2>15, StatusesShown, StatusChangeIndexed
<1>6. CASE tx.decision \in {1, 2}
  <2> DEFINE n == tx.decision
             b == Decided(tx.hold, n)
             y == Graph!StatusOf(n)
  <2>1. /\ holds' = [holds EXCEPT ![j].status = "CANCELLED"] /\ nextHoldId' = nextHoldId
        /\ holds[j].status \in {"PENDING", "FROZEN"}
    <3>1. Account!Reject(tx.from, tx.hold, tx.decision = 2)
      BY <1>3, <1>6 DEF OnAccount, Decide
    <3>. QED
      BY <3>1 DEF Account!Reject, Account!SetStatus
  <2>2. PICK d : d = entities.holds[j].executed
    OBVIOUS
  <2>3. entities.holds[j].executed = d /\ d = ("CANCELLED" \in Paid)
    BY <2>1, <2>2, StillUnpaid
  <2>4. b.ev = "OwnerDecision" /\ b.id = j /\ b.decision = n
    BY DEF Decided
  <2>5. y \in StatusInIndex("CANCELLED")
    BY <1>6, StatusesAre, StatusesShown
  <2> HIDE DEF b, y
  <2>6. PICK e : Same(entities, e) /\ entities' = Graph!OwnerDecision(e, b)
    <3>1. CASE n = 1
      <4>1. Logs(tx) = <<b>>
        BY <3>1, LogsWrittenOut DEF b
      <4>2. entities' = Graph!Handled(entities, b)
        BY <1>2, <4>1, AfterOne
      <4>3. entities' = Graph!OwnerDecision(entities, b)
        BY <2>4, <4>2, Dispatched
      <4>4. Same(entities, entities)
        BY <1>2 DEF Same, ButHolds
      <4>. QED
        BY <4>3, <4>4
    <3>2. CASE n = 2
      <4> DEFINE a == [ev |-> "AuthorityRevoked"]
      <4>1. Logs(tx) = <<a, b>>
        BY <3>2, LogsWrittenOut DEF b
      <4>2. a.ev = "AuthorityRevoked"
        OBVIOUS
      <4> HIDE DEF a
      <4>3. entities' = Graph!Handled(Graph!Handled(entities, a), b)
        BY <1>2, <4>1, AfterTwo
      <4>4. PICK f : f = Graph!NoteIncident(entities)
        OBVIOUS
      <4>5. Graph!Handled(entities, a) = f
            /\ Graph!Handled(f, b) = Graph!OwnerDecision(f, b)
        BY <2>4, <4>2, <4>4, Dispatched
      <4>6. Same(entities, f)
        BY <1>2, <4>4, IncidentNoted
      <4>. QED
        BY <4>3, <4>5, <4>6
    <3>. QED
      BY <1>6, <3>1, <3>2
  <2>7. ButHolds(entities, e) /\ e.holds = entities.holds /\ EntitiesShape(e)
    BY <2>6 DEF Same, ButHolds
  <2>8. y = Graph!StatusOf(b.decision)
    BY <2>4 DEF y
  <2>9. ButHolds(e, entities') /\ Marked(e.holds, entities'.holds, j, y, d)
    <3>1. /\ ButHolds(e, Graph!OwnerDecision(e, b))
          /\ Marked(e.holds, Graph!OwnerDecision(e, b).holds, j, y, e.holds[j].executed)
      BY <1>1, <2>4, <2>7, <2>8, DecisionMarks
    <3>. QED
      BY <2>3, <2>6, <2>7, <3>1
  <2>10. ButHolds(entities, entities')
    BY <2>7, <2>9, OnlyHoldsTwice
  <2>. QED
    BY <2>1, <2>3, <2>5, <2>7, <2>9, <2>10, StatusChangeIndexed
<1>. QED
  BY <1>4, <1>5, <1>6

LEMMA LapseIndexed ==
  ASSUME NEW tx, Mined(tx), tx.call = "lapse"
  PROVE  IndexInv'
<1> DEFINE j == tx.hold
           T == now + HOLD_EXTEND_SEC
           g == entities.holds
           W == outside'.elsewhere
<1>1. /\ j \in 1 .. nextHoldId - 1 /\ j \in DOMAIN entities.holds
      /\ Entity(entities.holds[j])
  BY HoldShown
<1>2. /\ EntitiesShape(entities) /\ Executed(tx) /\ HoldsTyped
      /\ HoldsIndexed(holds, g, nextHoldId, W)
  BY WiderShown DEF Mined, IndexInv, Books, HoldsAgree
<1>3. OnAccount(Account!LapseHold(j))
  BY <1>2, CallIs DEF Executed
<1>4. Logs(tx) = LapseLogs(tx)
  BY LogsAre
<1>5. CASE holds[j].extendedTo = 0
  <2> DEFINE a == [ev |-> "HoldLapsed", id |-> tx.hold, extendedTo |-> now + HOLD_EXTEND_SEC]
  <2>1. Logs(tx) = <<a>>
    BY <1>4, <1>5 DEF LapseLogs
  <2>2. a.ev = "HoldLapsed" /\ a.id = j /\ a.extendedTo = T
    OBVIOUS
  <2>3. holds' = [holds EXCEPT ![j].extendedTo = T] /\ nextHoldId' = nextHoldId
    BY <1>3, <1>5 DEF OnAccount, Account!LapseHold, Account!LapseExtend,
       Account!LapseFreeze
  <2> HIDE DEF a, T
  <2>4. entities' = Graph!HoldLapsed(entities, a)
    <3>1. entities' = Graph!Handled(entities, a)
      BY <1>2, <2>1, AfterOne
    <3>. QED
      BY <2>2, <3>1, Dispatched
  <2>5. /\ ButHolds(entities, entities')
        /\ entities'.holds = [g EXCEPT ![j].extendedTo = T]
    BY <1>1, <1>2, <2>2, <2>4, HoldExtended
  <2>6. 1 .. nextHoldId - 1 \subseteq Account!HoldId
    BY <1>2, HoldIdsAre
  <2>7. ASSUME NEW i \in 1 .. nextHoldId - 1
        PROVE  HoldEntity(entities'.holds[i], holds'[i], i, W)
    <3>1. HoldEntity(g[i], holds[i], i, W) /\ DOMAIN g = 1 .. nextHoldId - 1
      BY <1>2 DEF HoldsIndexed
    <3>2. i \in Account!HoldId /\ IsHold(holds[i]) /\ i \in DOMAIN holds
      BY <1>2, <2>6 DEF HoldsTyped
    <3>3. CASE i = j
      <4>1. entities'.holds[i] = [g[i] EXCEPT !.extendedTo = T]
        BY <2>5, <3>1, <3>3
      <4>2. holds'[i] = [holds[i] EXCEPT !.extendedTo = T]
        BY <2>3, <3>2, <3>3
      <4>3. \A x, h : HoldEntity(x, h, i, W) /\ IsHold(h) =>
              HoldEntity([x EXCEPT !.extendedTo = T], [h EXCEPT !.extendedTo = T], i, W)
        <5> SUFFICES ASSUME NEW x, NEW h, HoldEntity(x, h, i, W), IsHold(h)
                     PROVE  HoldEntity([x EXCEPT !.extendedTo = T],
                                       [h EXCEPT !.extendedTo = T], i, W)
          OBVIOUS
        <5>1. PICK y : y = [x EXCEPT !.extendedTo = T]
          OBVIOUS
        <5>2. PICK k : k = [h EXCEPT !.extendedTo = T]
          OBVIOUS
        <5>3. y = [to |-> h.to, amount |-> h.amount, status |-> x.status,
                   extendedTo |-> T, executed |-> x.executed]
          BY <5>1 DEF HoldEntity
        <5>4. k = [to |-> h.to, amount |-> h.amount, releaseAt |-> h.releaseAt,
                   createdAt |-> h.createdAt, extendedTo |-> T, status |-> h.status]
          BY <5>2 DEF IsHold
        <5>5. /\ y.status = x.status /\ y.executed = x.executed
              /\ k.to = h.to /\ k.amount = h.amount /\ k.extendedTo = T
              /\ k.status = h.status
          BY <5>3, <5>4
        <5>6. y = [to |-> k.to, amount |-> k.amount, status |-> y.status,
                   extendedTo |-> k.extendedTo, executed |-> y.executed]
          BY <5>3, <5>5
        <5>7. HoldEntity(y, k, i, W)
          BY <5>5, <5>6 DEF HoldEntity
        <5>. QED
          BY <5>1, <5>2, <5>7
      <4>. QED
        BY <3>1, <3>2, <4>1, <4>2, <4>3
    <3>4. CASE i # j
      <4>1. entities'.holds[i] = g[i] /\ holds'[i] = holds[i]
        BY <2>3, <2>5, <3>1, <3>2, <3>4
      <4>. QED
        BY <3>1, <4>1
    <3>. QED
      BY <3>3, <3>4
  <2>8. DOMAIN entities'.holds = 1 .. nextHoldId - 1
    BY <1>2, <2>5 DEF HoldsIndexed
  <2>9. HoldsAgree'
    BY <2>3, <2>7, <2>8 DEF HoldsAgree, HoldsIndexed
  <2>. QED
    BY <2>5, <2>9, HoldsChanged
<1>6. CASE holds[j].extendedTo # 0
  <2> DEFINE a == Decided(tx.hold, 254)
  <2>1. Logs(tx) = <<a>>
    BY <1>4, <1>6 DEF LapseLogs
  <2>2. a.ev = "OwnerDecision" /\ a.id = j /\ a.decision = 254
    BY DEF Decided
  <2>3. /\ holds' = [holds EXCEPT ![j].status = "FROZEN"] /\ nextHoldId' = nextHoldId
        /\ holds[j].status = "PENDING"
    BY <1>3, <1>6 DEF OnAccount, Account!LapseHold, Account!LapseExtend,
       Account!LapseFreeze, Account!SetStatus
  <2> HIDE DEF a
  <2>4. entities' = Graph!OwnerDecision(entities, a)
    <3>1. entities' = Graph!Handled(entities, a)
      BY <1>2, <2>1, AfterOne
    <3>. QED
      BY <2>2, <3>1, Dispatched
  <2>5. Graph!StatusOf(a.decision) = "AUTO_FROZEN"
    BY <2>2, StatusesAre
  <2>6. PICK d : d = g[j].executed
    OBVIOUS
  <2>7. d = ("FROZEN" \in Paid)
    BY <2>3, <2>6, StillUnpaid
  <2>8. /\ ButHolds(entities, entities')
        /\ Marked(g, entities'.holds, j, "AUTO_FROZEN", d)
    BY <1>1, <1>2, <2>2, <2>4, <2>5, <2>6, DecisionMarks
  <2>. QED
    BY <2>3, <2>7, <2>8, StatusesShown, StatusChangeIndexed
<1>. QED
  BY <1>5, <1>6

LEMMA ProposalIndexed ==
  ASSUME NEW tx, Mined(tx), tx.call = "propose"
  PROVE  IndexInv'
<1> DEFINE g == entities.holds
           W == outside'.elsewhere
<1>1. /\ EntitiesShape(entities) /\ Executed(tx) /\ HoldsTyped /\ HoldsAgree
      /\ HoldsIndexed(holds, g, nextHoldId, W) /\ outside.elsewhere \subseteq W
  BY WiderShown DEF Mined, IndexInv, Books, HoldsAgree
<1>2. OnAccount(\/ Account!ProposeRoutine(tx.from, tx.to, tx.amount)
                \/ Account!ProposeElevated(tx.from, tx.to, tx.amount))
  BY <1>1, CallIs DEF Executed
<1>3. Logs(tx) = ProposeLogs(tx)
  BY LogsAre
<1>4. CASE Account!ProposeRoutine(tx.from, tx.to, tx.amount)
  <2> DEFINE a == [ev |-> "Classified", tier |-> 0]
             c == [ev |-> "ExecutedRoutine"]
             b == Transfer(Guard, tx.to, tx.amount)
  <2>1. Logs(tx) = <<a, c, b>>
    <3>1. ~Account!Elevated(Registry!GetPolicy(Guard), tx.to)
      BY <1>4 DEF Account!ProposeRoutine
    <3>. QED
      BY <1>3, <3>1 DEF ProposeLogs
  <2>2. /\ a.ev = "Classified" /\ a.tier # 2 /\ b.ev = "Transfer"
        /\ c.ev = "ExecutedRoutine"
    BY DEF Transfer
  <2> HIDE DEF a, b, c
  <2>3. entities' = Graph!Handled(Graph!Handled(Graph!Handled(entities, a), c), b)
    BY <1>1, <2>1, AfterThree
  <2>4. entities' = Graph!ExecutedRoutine(entities)
    BY <2>2, <2>3, Dispatched
  <2>5. Same(entities, entities')
    BY <1>1, <2>4, RoutineCounted
  <2>6. UNCHANGED <<holds, nextHoldId>>
    BY <1>4 DEF Account!ProposeRoutine, Account!holdVars
  <2>7. HoldsAgree'
    BY <1>1, <2>5, <2>6, HoldsStay DEF Same
  <2>. QED
    BY <2>5, <2>7, HoldsChanged DEF Same
<1>5. CASE Account!ProposeElevated(tx.from, tx.to, tx.amount)
  <2> DEFINE n == nextHoldId
             a == [ev |-> "Classified", tier |-> 1]
             b == [ev |-> "Held", id |-> nextHoldId, to |-> tx.to, amount |-> tx.amount]
             h == Account!NewHold(tx.to, tx.amount)
  <2>1. Logs(tx) = <<a, b>>
    <3>1. Account!Elevated(Registry!GetPolicy(Guard), tx.to)
      BY <1>5 DEF Account!ProposeElevated
    <3>. QED
      BY <1>3, <3>1 DEF ProposeLogs
  <2>2. /\ a.ev = "Classified" /\ a.tier # 2
        /\ b.ev = "Held" /\ b.id = n /\ b.to = tx.to /\ b.amount = tx.amount
    OBVIOUS
  <2>3. holds' = [holds EXCEPT ![n] = h] /\ nextHoldId' = n + 1 /\ n <= MaxHolds
    BY <1>5 DEF Account!ProposeElevated
  <2>4. h.to = tx.to /\ h.amount = tx.amount /\ h.extendedTo = 0 /\ h.status = "PENDING"
        /\ IsHold(h)
    BY DEF IsHold, Account!NewHold, Mined, Sane
  <2> HIDE DEF a, b, h
  <2>5. entities' = Graph!Handled(Graph!Handled(entities, a), b)
    BY <1>1, <2>1, AfterTwo
  <2>6. entities' = Graph!Held(entities, b)
    BY <2>2, <2>5, Dispatched
  <2>7. PICK f : f = FALSE
    OBVIOUS
  <2>8. PICK x : x = [to |-> tx.to, amount |-> tx.amount, status |-> "PENDING",
                      extendedTo |-> 0, executed |-> f]
    OBVIOUS
  <2>9. /\ ButHolds(entities, entities')
        /\ entities'.holds = Graph!Saved(g, n, x)
    BY <1>1, <2>2, <2>6, <2>7, <2>8, HoldOpened
  <2>10. HoldEntity(x, h, n, W)
    <3>1. "PENDING" \in StatusInIndex("PENDING")
      BY StatusesShown
    <3>2. "PENDING" \notin Paid
      BY DEF Paid
    <3>3. x.executed = f /\ x.status = "PENDING"
      BY <2>8
    <3>4. x.executed = ("PENDING" \in Paid)
      <4>1. f \in BOOLEAN
        BY <2>7
      <4>. QED
        BY <2>7, <3>2, <3>3, <4>1
    <3>5. x = [to |-> h.to, amount |-> h.amount, status |-> x.status,
               extendedTo |-> h.extendedTo, executed |-> x.executed]
      BY <2>4, <2>8, <3>3
    <3>. QED
      BY <2>4, <3>1, <3>3, <3>4, <3>5 DEF HoldEntity, Shows
  <2>11. /\ MaxHolds \in Nat /\ n \in Nat /\ n >= 1
         /\ n \in Account!HoldId /\ 1 .. n - 1 \subseteq Account!HoldId
    <3>1. MaxHolds \in Nat
      BY PartsAssumption DEF Account!NumberAssumption
    <3>2. n \in 1 .. MaxHolds + 1
      BY <1>1 DEF HoldsTyped
    <3>. QED
      BY <2>3, <3>1, <3>2 DEF Account!HoldId
  <2>12. DOMAIN g = 1 .. n - 1 /\ \A i \in 1 .. n - 1 : HoldEntity(g[i], holds[i], i, W)
    BY <1>1 DEF HoldsIndexed
  <2>13. DOMAIN entities'.holds = 1 .. (n + 1) - 1
    BY <2>9, <2>11, <2>12 DEF Graph!Saved
  <2>14. ASSUME NEW i \in 1 .. (n + 1) - 1
         PROVE  HoldEntity(entities'.holds[i], holds'[i], i, W)
    <3>1. CASE i = n
      <4>1. entities'.holds[n] = x
        BY <2>9 DEF Graph!Saved
      <4>2. holds'[n] = h
        BY <1>1, <2>3, <2>11 DEF HoldsTyped
      <4>3. HoldEntity(entities'.holds[n], holds'[n], n, W)
        BY <2>10, <4>1, <4>2, Zenon
      <4>. QED
        BY <3>1, <4>3
    <3>2. CASE i # n
      <4>1. i \in 1 .. n - 1
        BY <2>11, <3>2
      <4>2. entities'.holds[i] = g[i]
        BY <2>9, <2>12, <3>2, <4>1 DEF Graph!Saved
      <4>3. holds'[i] = holds[i]
        BY <1>1, <2>3, <2>11, <3>2, <4>1 DEF HoldsTyped
      <4>. QED
        BY <2>12, <4>1, <4>2, <4>3
    <3>. QED
      BY <3>1, <3>2
  <2>15. HoldsAgree'
    BY <2>3, <2>13, <2>14 DEF HoldsAgree, HoldsIndexed
  <2>. QED
    BY <2>9, <2>15, HoldsChanged
<1>. QED
  BY <1>2, <1>4, <1>5 DEF OnAccount

-----------------------------------------------------------------------------
(***************************************************************************)
(* A verdict accepted.  A signal is saved a second time, under the         *)
(* transaction it names, which is no verdict.                              *)
(***************************************************************************)
LEMMA NamedIsNoVerdict ==
  ASSUME NEW v, IsSubmitted(v), NEW w, IsSubmitted(w)
  PROVE  v.txHash # w
<1>1. "outcome" \notin {"call", "hold"}
  OBVIOUS
<1>. QED
  BY <1>1 DEF IsSubmitted

FreshVerdict(x) == x = [outcome |-> x.outcome, payout |-> x.payout, reopened |-> 0]

\* Of the entities of verdicts it is enough to know these.
LEMMA VerdictsSaved ==
  ASSUME NEW tx, Mined(tx), tx.call = "verdict", NEW x,
         FreshVerdict(x), tx.verdict \notin Accepted, disputes' = disputes,
         Accepted' = Accepted \cup {tx.verdict},
         DOMAIN entities'.verdicts = (Accepted \cup Signalled \cup {tx.verdict})
           \cup {v.txHash : v \in {tx.verdict} \cap AcceptedAs("ATTEMPTED_BREACH")'},
         entities'.verdicts[tx.verdict] = x,
         \A w \in Accepted : entities'.verdicts[w] = entities.verdicts[w]
  PROVE  VerdictsAgree'
<1> DEFINE v == tx.verdict
<1>1. /\ DOMAIN disputes \subseteq Accepted
      /\ \A w \in Accepted : VerdictEntity(entities.verdicts[w], w \in DOMAIN disputes)
  BY DEF Mined, IndexInv, VerdictsAgree
<1>2. x.reopened = 0 /\ x = [outcome |-> x.outcome, payout |-> x.payout,
                              reopened |-> x.reopened]
  BY DEF FreshVerdict
<1>3. v \notin DOMAIN disputes'
  BY <1>1
<1>4. VerdictEntity(x, v \in DOMAIN disputes')
  BY <1>2, <1>3 DEF VerdictEntity
<1>5. ASSUME NEW w \in Accepted'
      PROVE  VerdictEntity(entities'.verdicts[w], w \in DOMAIN disputes')
  <2>1. CASE w = v
    BY <1>4, <2>1
  <2>2. CASE w # v
    BY <1>1, <2>2
  <2>. QED
    BY <2>1, <2>2
<1>6. Signalled' = Signalled
        \cup {w.txHash : w \in {v} \cap AcceptedAs("ATTEMPTED_BREACH")'}
  <2>1. AcceptedAs("ATTEMPTED_BREACH")' = AcceptedAs("ATTEMPTED_BREACH")
          \cup ({v} \cap AcceptedAs("ATTEMPTED_BREACH")')
    BY DEF AcceptedAs
  <2>. QED
    BY <2>1 DEF Signalled
<1>7. DOMAIN entities'.verdicts = (Accepted \cup Signalled)'
  BY <1>6
<1>8. DOMAIN disputes' \subseteq Accepted'
  BY <1>1
<1>. QED
  BY <1>5, <1>7, <1>8 DEF VerdictsAgree

\* What a verdict does to the contracts, of what the index shows.
LEMMA VerdictDoes ==
  ASSUME NEW tx, Mined(tx), tx.call = "verdict"
  PROVE  /\ Executed(tx) /\ IsSubmitted(tx.verdict) /\ Route(tx.verdict)
         /\ tx.verdict \notin Accepted /\ disputes' = disputes
         /\ Accepted' = Accepted \cup {tx.verdict}
         /\ DOMAIN entities.verdicts = Accepted \cup Signalled
         /\ \A w \in Accepted : tx.verdict.txHash # w
         /\ tx.verdict.txHash # tx.verdict
         /\ UNCHANGED <<holds, nextHoldId>> /\ latestVersion' = latestVersion
         /\ Logs(tx) = VerdictLogs(tx.verdict)
<1>1. Executed(tx) /\ Call(tx) /\ Sender(tx) /\ VerdictsAgree
  BY DEF Mined, Sender, Executed, IndexInv
<1>2. OnVerdicts(SubmitVerdict(tx.from, tx.from, tx.verdict))
  BY <1>1, CallIs
<1>3. tx.verdict \notin Accepted /\ disputes' = disputes /\ Route(tx.verdict)
  BY <1>2 DEF OnVerdicts, SubmitVerdict
<1>4. Accepted' = Accepted \cup {tx.verdict} /\ IsSubmitted(tx.verdict)
  BY <1>1, VerdictAdds
<1>5. \A w \in Accepted : IsSubmitted(w)
  BY DEF Mined, Books, AcceptedClaims
<1>6. UNCHANGED <<holds, nextHoldId>> /\ latestVersion' = latestVersion
  BY <1>1, HoldFrame, TermsFrame DEF registryVars
<1>7. Logs(tx) = VerdictLogs(tx.verdict)
  BY LogsAre
<1>8. DOMAIN entities.verdicts = Accepted \cup Signalled
  BY <1>1 DEF VerdictsAgree
<1>9. /\ \A w \in Accepted : tx.verdict.txHash # w
      /\ tx.verdict.txHash # tx.verdict
  BY <1>4, <1>5, NamedIsNoVerdict
<1>. QED
  BY <1>1, <1>3, <1>4, <1>6, <1>7, <1>8, <1>9

LEMMA DenialIndexed ==
  ASSUME NEW tx, Mined(tx), tx.call = "verdict",
         tx.verdict.outcome = "DENIED_OWNER_ORIGIN"
  PROVE  IndexInv'
<1> DEFINE v == tx.verdict
           a == AcceptedLog(v)
<1>1. EntitiesShape(entities) /\ HoldsAgree /\ PoolAgrees /\ StrikesAgree /\ PolicyAgrees
      /\ outside.elsewhere \subseteq outside'.elsewhere
  BY DEF Mined, IndexInv
<1>2. /\ Executed(tx) /\ Route(v) /\ v \notin Accepted /\ disputes' = disputes
      /\ Accepted' = Accepted \cup {v}
      /\ DOMAIN entities.verdicts = Accepted \cup Signalled
      /\ UNCHANGED <<holds, nextHoldId>> /\ latestVersion' = latestVersion
  BY VerdictDoes
<1>3. Logs(tx) = <<a>>
  BY VerdictDoes, VerdictLogsAre
<1>4. a.ev = "VerdictAccepted" /\ a.digest = v
  BY DEF AcceptedLog
<1>5. UNCHANGED <<totalAssets, premiumPool>> /\ strikes' = strikes
  BY <1>2 DEF Route, FilesStrike, ownPoolVars, blocklistVars
<1> HIDE DEF a
<1>6. entities' = Graph!VerdictAccepted(entities, a)
  <2>1. entities' = Graph!Handled(entities, a)
    BY <1>2, <1>3, AfterOne
  <2>. QED
    BY <1>4, <2>1, Dispatched
<1>7. PICK x : x = [outcome |-> a.outcome, payout |-> a.payout, reopened |-> 0]
  OBVIOUS
<1>8. /\ ButVerdicts(entities, entities')
      /\ entities'.verdicts = Graph!Saved(entities.verdicts, v, x)
  BY <1>1, <1>4, <1>6, <1>7, VerdictRecorded
<1>9. VerdictsAgree'
  <2>1. {v} \cap AcceptedAs("ATTEMPTED_BREACH")' = {}
    BY DEF AcceptedAs
  <2>2. FreshVerdict(x)
    BY <1>7 DEF FreshVerdict
  <2>3. /\ DOMAIN entities'.verdicts = Accepted \cup Signalled \cup {v}
        /\ entities'.verdicts[v] = x
        /\ \A w \in Accepted : entities'.verdicts[w] = entities.verdicts[w]
    BY <1>2, <1>8 DEF Graph!Saved
  <2>. QED
    BY <1>2, <2>1, <2>2, <2>3, VerdictsSaved
<1>10. EntitiesShape(entities)'
  BY <1>8 DEF ButVerdicts, EntitiesShape
<1>. QED
  BY <1>1, <1>2, <1>5, <1>8, <1>9, <1>10, HoldsStay, PoolStays, StrikesStay, PolicyStays
     DEF IndexInv, ButVerdicts

\* Both entities that a signal is saved as.
SignalSaved(e, f, v) ==
  /\ ButVerdicts(e, f)
  /\ \E x, z : /\ FreshVerdict(x)
              /\ f.verdicts = Graph!Saved(Graph!Saved(e.verdicts, v, x), v.txHash, z)

LEMMA SignalEvents ==
  ASSUME NEW e, EntitiesShape(e), NEW v, NEW f,
         f = Graph!Handled(Graph!Handled(e, AcceptedLog(v)), SignalLog(v))
  PROVE  SignalSaved(e, f, v)
<1> DEFINE a == AcceptedLog(v)
           b == SignalLog(v)
<1>1. a.ev = "VerdictAccepted" /\ a.digest = v
      /\ b.ev = "AttemptedBreachSignal" /\ b.txHash = v.txHash
  BY DEF AcceptedLog, SignalLog
<1> HIDE DEF a, b
<1>2. PICK g : g = Graph!VerdictAccepted(e, a)
  OBVIOUS
<1>3. PICK x : x = [outcome |-> a.outcome, payout |-> a.payout, reopened |-> 0]
  OBVIOUS
<1>4. PICK z : z = [outcome |-> "ATTEMPTED_BREACH", payout |-> 0, reopened |-> 0]
  OBVIOUS
<1>5. f = Graph!AttemptedBreachSignal(g, b)
  <2>1. Graph!Handled(e, a) = g
    BY <1>1, <1>2, Dispatched
  <2>2. Graph!Handled(g, b) = Graph!AttemptedBreachSignal(g, b)
    BY <1>1, Dispatched
  <2>. QED
    BY <2>1, <2>2 DEF a, b
<1>6. ButVerdicts(e, g) /\ g.verdicts = Graph!Saved(e.verdicts, v, x)
  BY <1>1, <1>2, <1>3, VerdictRecorded
<1>7. ButVerdicts(g, f) /\ f.verdicts = Graph!Saved(g.verdicts, v.txHash, z)
  <2>1. EntitiesShape(g)
    BY <1>6 DEF ButVerdicts
  <2>2. /\ ButVerdicts(g, Graph!AttemptedBreachSignal(g, b))
        /\ Graph!AttemptedBreachSignal(g, b).verdicts =
             Graph!Saved(g.verdicts, b.txHash,
               [outcome |-> "ATTEMPTED_BREACH", payout |-> 0, reopened |-> 0])
    BY <2>1, SignalRecorded
  <2>. QED
    BY <1>1, <1>4, <1>5, <2>2, Zenon
<1>8. ButVerdicts(e, f)
  BY <1>6, <1>7 DEF ButVerdicts
<1>9. FreshVerdict(x)
  BY <1>3 DEF FreshVerdict
<1>10. f.verdicts = Graph!Saved(Graph!Saved(e.verdicts, v, x), v.txHash, z)
  BY <1>6, <1>7
<1>. QED
  BY <1>8, <1>9, <1>10 DEF SignalSaved

LEMMA SignalIndexed ==
  ASSUME NEW tx, Mined(tx), tx.call = "verdict",
         tx.verdict.outcome = "ATTEMPTED_BREACH"
  PROVE  IndexInv'
<1> DEFINE v == tx.verdict
           a == AcceptedLog(v)
           b == SignalLog(v)
           c == ReportedLog(v.destination)
<1>1. EntitiesShape(entities) /\ HoldsAgree /\ PoolAgrees /\ StrikesAgree /\ PolicyAgrees
      /\ outside.elsewhere \subseteq outside'.elsewhere
  BY DEF Mined, IndexInv
<1>2. /\ Executed(tx) /\ Route(v) /\ v \notin Accepted /\ disputes' = disputes
      /\ Accepted' = Accepted \cup {v}
      /\ DOMAIN entities.verdicts = Accepted \cup Signalled
      /\ UNCHANGED <<holds, nextHoldId>> /\ latestVersion' = latestVersion
      /\ v.txHash # v /\ \A w \in Accepted : v.txHash # w
  BY VerdictDoes
<1>3. UNCHANGED <<totalAssets, premiumPool>>
  BY <1>2 DEF Route, ownPoolVars
<1>4. PICK f : f = Graph!Handled(Graph!Handled(entities, a), b)
  OBVIOUS
<1>5. PICK x, z : /\ ButVerdicts(entities, f) /\ FreshVerdict(x)
                  /\ f.verdicts =
                       Graph!Saved(Graph!Saved(entities.verdicts, v, x), v.txHash, z)
  <2>1. SignalSaved(entities, f, v)
    BY <1>1, <1>4, SignalEvents
  <2>. QED
    BY <2>1 DEF SignalSaved
<1>6. /\ StrikesAgree' /\ EntitiesShape(entities')
      /\ entities'.policy = f.policy /\ entities'.holds = f.holds
      /\ entities'.pool = f.pool /\ entities'.verdicts = f.verdicts
  <2>1. CASE FilesStrike(v)
    <3>1. Logs(tx) = <<a, b, c>>
      BY <2>1, VerdictDoes, VerdictLogsAre
    <3>2. strikes' = Entered(strikes, v.destination, strikes[v.destination] + 1)
      BY <1>2, <2>1 DEF Route, BLOCKLIST!Report, Entered
    <3>3. c.ev = "Reported" /\ c.destination = v.destination
          /\ c.strikes = strikes[v.destination] + 1
      BY DEF ReportedLog
    <3> HIDE DEF a, b, c
    <3>4. entities' = Graph!Handled(Graph!Handled(Graph!Handled(entities, a), b), c)
      BY <1>2, <3>1, AfterThree
    <3>5. ButBlocklist(f, entities') /\ StrikesAgree'
      BY <1>1, <1>4, <1>5, <3>2, <3>3, <3>4, StrikeShown DEF ButVerdicts
    <3>. QED
      BY <3>5 DEF ButBlocklist
  <2>2. CASE ~FilesStrike(v)
    <3>1. Logs(tx) = <<a, b>>
      BY <2>2, VerdictDoes, VerdictLogsAre
    <3>2. strikes' = strikes
      BY <1>2, <2>2 DEF Route, blocklistVars
    <3> HIDE DEF a, b
    <3>3. entities' = f
      BY <1>2, <1>4, <3>1, AfterTwo
    <3>4. StrikesAgree'
      BY <1>1, <1>5, <3>2, <3>3, StrikesStay DEF ButVerdicts
    <3>. QED
      BY <1>5, <3>3, <3>4 DEF ButVerdicts
  <2>. QED
    BY <2>1, <2>2
<1>7. VerdictsAgree'
  <2>1. {w.txHash : w \in {v} \cap AcceptedAs("ATTEMPTED_BREACH")'} = {v.txHash}
    BY <1>2 DEF AcceptedAs
  <2>2. PICK g : g = Graph!Saved(entities.verdicts, v, x)
    OBVIOUS
  <2>3. /\ DOMAIN g = Accepted \cup Signalled \cup {v} /\ g[v] = x
        /\ \A w \in Accepted : g[w] = entities.verdicts[w]
    BY <1>2, <2>2 DEF Graph!Saved
  <2>4. entities'.verdicts = Graph!Saved(g, v.txHash, z)
    BY <1>5, <1>6, <2>2
  <2>5. DOMAIN entities'.verdicts = (Accepted \cup Signalled \cup {v}) \cup {v.txHash}
    BY <2>3, <2>4 DEF Graph!Saved
  <2>6. entities'.verdicts[v] = x
    BY <1>2, <2>3, <2>4 DEF Graph!Saved
  <2>7. \A w \in Accepted : entities'.verdicts[w] = entities.verdicts[w]
    BY <1>2, <2>3, <2>4 DEF Graph!Saved
  <2>. QED
    BY <1>2, <1>5, <2>1, <2>5, <2>6, <2>7, VerdictsSaved
<1>8. EntitiesShape(entities)'
  BY <1>6 DEF EntitiesShape
<1>. QED
  BY <1>1, <1>2, <1>3, <1>5, <1>6, <1>7, <1>8, HoldsStay, PoolStays, PolicyStays
     DEF IndexInv, ButVerdicts

-----------------------------------------------------------------------------
(***************************************************************************)
(* A claim paid: the verdict, the loss and the payout, in one transaction. *)
(***************************************************************************)
Lost(x, j, s) == [[x EXCEPT !.junior = @ - j] EXCEPT !.senior = @ - s]
LossTaken(ta, j, s) == [ta EXCEPT !["junior"] = @ - j, !["senior"] = @ - s]
Charged(x, m) == [[x EXCEPT !.payouts = @ + m] EXCEPT !.claims = @ + 1]

LEMMA ClaimEvents ==
  ASSUME NEW e, EntitiesShape(e), NEW a, NEW b, NEW c, NEW d,
         a.ev = "VerdictAccepted", a.outcome = "COVERED", b.ev = "LossApplied",
         c.ev = "Transfer", d.ev = "Payout",
         NEW f, f = Graph!Handled(Graph!Handled(Graph!Handled(Graph!Handled(e, a), b), d), c)
  PROVE  /\ EntitiesShape(f)
         /\ f.policy = e.policy /\ f.holds = e.holds /\ f.blocklist = e.blocklist
         /\ f.verdicts = Graph!Saved(e.verdicts, a.digest,
              [outcome |-> a.outcome, payout |-> a.payout, reopened |-> 0])
         /\ f.pool = Charged(Lost(e.pool, b.junior, b.senior), d.amount)
<1>1. PICK x : x = Graph!VerdictAccepted(e, a)
  OBVIOUS
<1>2. PICK y : y = Graph!LossApplied(x, b)
  OBVIOUS
<1>3. /\ Graph!Handled(e, a) = x /\ Graph!Handled(x, b) = y
      /\ Graph!Handled(y, d) = Graph!Payout(y, d)
      /\ \A g : Graph!Handled(g, c) = g
  BY <1>1, <1>2, Dispatched
<1>4. f = Graph!Payout(y, d)
  BY <1>3
<1>5. /\ ButVerdicts(e, x)
      /\ x.verdicts = Graph!Saved(e.verdicts, a.digest,
           [outcome |-> a.outcome, payout |-> a.payout, reopened |-> 0])
  BY <1>1, VerdictRecorded
<1>6. /\ ButPool(x, y)
      /\ y.pool = Lost(x.pool, b.junior, b.senior)
  BY <1>2, <1>5, LossIndexed DEF ButVerdicts, Lost
<1>7. ButPool(y, f) /\ f.pool = Charged(y.pool, d.amount)
  <2>1. EntitiesShape(y)
    BY <1>6 DEF ButPool
  <2>2. /\ ButPool(y, Graph!Payout(y, d))
        /\ Graph!Payout(y, d).pool = Charged(y.pool, d.amount)
    BY <2>1, PayoutIndexed DEF Charged
  <2>. QED
    BY <1>4, <2>2
<1>8. /\ EntitiesShape(f)
      /\ f.policy = e.policy /\ f.holds = e.holds /\ f.blocklist = e.blocklist
      /\ f.verdicts = x.verdicts /\ x.pool = e.pool
  BY <1>5, <1>6, <1>7 DEF ButVerdicts, ButPool
<1>9. f.pool = Charged(Lost(e.pool, b.junior, b.senior), d.amount)
  BY <1>6, <1>7, <1>8
<1>. QED
  BY <1>5, <1>8, <1>9

LEMMA LossBooked ==
  ASSUME NEW ta, ta = [t \in MutualPool!Tranche |-> ta[t]],
         NEW p, NEW q, NEW c, NEW j, NEW s, NEW m, NEW tb, NEW x,
         tb = LossTaken(ta, j, s),
         x = Charged(Lost(Booked(ta, p, q, c), j, s), m)
  PROVE  /\ tb = [t \in MutualPool!Tranche |-> tb[t]]
         /\ x = Booked(tb, p, x.payouts, x.claims)
<1>1. /\ tb = [t \in MutualPool!Tranche |-> tb[t]]
      /\ tb["junior"] = ta["junior"] - j /\ tb["senior"] = ta["senior"] - s
  BY DEF MutualPool!Tranche, LossTaken
<1>2. ASSUME NEW ju, NEW se
      PROVE  LET y == [junior |-> ju, senior |-> se, premium |-> p, payouts |-> q,
                       claims |-> c] IN
             /\ Lost(y, j, s) = [junior |-> ju - j, senior |-> se - s, premium |-> p,
                                payouts |-> q, claims |-> c]
             /\ Charged(y, m) = [junior |-> ju, senior |-> se, premium |-> p,
                                payouts |-> q + m, claims |-> c + 1]
  <2> DEFINE y == [junior |-> ju, senior |-> se, premium |-> p, payouts |-> q,
                   claims |-> c]
  <2>1. PICK z : z = y
    OBVIOUS
  <2>2. PICK u : u = [z EXCEPT !.junior = @ - j]
    OBVIOUS
  <2>3. u = [junior |-> ju - j, senior |-> se, premium |-> p, payouts |-> q, claims |-> c]
    BY <2>1, <2>2
  <2>4. PICK w : w = [z EXCEPT !.payouts = @ + m]
    OBVIOUS
  <2>5. w = [junior |-> ju, senior |-> se, premium |-> p, payouts |-> q + m, claims |-> c]
    BY <2>1, <2>4
  <2>6. [u EXCEPT !.senior = @ - s]
          = [junior |-> ju - j, senior |-> se - s, premium |-> p, payouts |-> q,
             claims |-> c]
    BY <2>3
  <2>7. [w EXCEPT !.claims = @ + 1]
          = [junior |-> ju, senior |-> se, premium |-> p, payouts |-> q + m,
             claims |-> c + 1]
    BY <2>5
  <2>8. Lost(z, j, s) = [u EXCEPT !.senior = @ - s]
        /\ Charged(z, m) = [w EXCEPT !.claims = @ + 1]
    BY <2>2, <2>4 DEF Lost, Charged
  <2>. QED
    BY <2>1, <2>6, <2>7, <2>8
<1>3. PICK ju : ju = ta["junior"]
  OBVIOUS
<1>4. PICK se : se = ta["senior"]
  OBVIOUS
<1>5. Lost(Booked(ta, p, q, c), j, s)
        = [junior |-> ju - j, senior |-> se - s, premium |-> p, payouts |-> q,
           claims |-> c]
  BY <1>2, <1>3, <1>4 DEF Booked
<1>6. x = [junior |-> ju - j, senior |-> se - s, premium |-> p, payouts |-> q + m,
           claims |-> c + 1]
  BY <1>2, <1>5
<1>7. \A b1, b2, b4, b5 :
        LET r == [junior |-> b1, senior |-> b2, premium |-> p, payouts |-> b4,
                  claims |-> b5]
        IN r = [junior |-> b1, senior |-> b2, premium |-> p, payouts |-> r.payouts,
                claims |-> r.claims]
  OBVIOUS
<1>8. x = [junior |-> ju - j, senior |-> se - s, premium |-> p, payouts |-> x.payouts,
           claims |-> x.claims]
  BY <1>6, <1>7
<1>9. x = Booked(tb, p, x.payouts, x.claims)
  BY <1>1, <1>3, <1>4, <1>8 DEF Booked
<1>. QED
  BY <1>1, <1>9

LEMMA ClaimIndexed ==
  ASSUME NEW tx, Mined(tx), tx.call = "verdict", tx.verdict.outcome = "COVERED"
  PROVE  IndexInv'
<1> DEFINE v == tx.verdict
           j == MutualPool!FromJunior(v.payoutAmount)
           s == MutualPool!FromSenior(v.payoutAmount)
           a == AcceptedLog(v)
           b == [ev |-> "LossApplied", junior |-> j, senior |-> s]
           d == [ev |-> "Payout", digest |-> v, claimant |-> v.claimant,
                 amount |-> v.payoutAmount]
           c == Transfer(Pool, v.claimant, v.payoutAmount)
<1>1. /\ Executed(tx) /\ Route(v) /\ v \notin Accepted /\ disputes' = disputes
      /\ Accepted' = Accepted \cup {v}
      /\ DOMAIN entities.verdicts = Accepted \cup Signalled
      /\ UNCHANGED <<holds, nextHoldId>> /\ latestVersion' = latestVersion
  BY VerdictDoes
<1>2. EntitiesShape(entities) /\ HoldsAgree /\ PoolAgrees /\ StrikesAgree /\ PolicyAgrees
      /\ outside.elsewhere \subseteq outside'.elsewhere
  BY DEF Mined, IndexInv
<1>3. Logs(tx) = <<a, b, d, c>>
  BY VerdictDoes, VerdictLogsAre DEF PayoutLogs
<1>4. /\ a.ev = "VerdictAccepted" /\ a.outcome = "COVERED" /\ a.digest = v
      /\ b.ev = "LossApplied" /\ b.junior = j /\ b.senior = s
      /\ c.ev = "Transfer" /\ d.ev = "Payout" /\ d.amount = v.payoutAmount
  BY DEF Transfer, AcceptedLog
<1>5. strikes' = strikes
  BY <1>1 DEF Route, FilesStrike, blocklistVars
<1>6. /\ totalAssets' = [totalAssets EXCEPT !["junior"] = @ - j, !["senior"] = @ - s]
      /\ premiumPool' = premiumPool
  <2>1. MutualPool!Payout(Verdicts, v.claimant, v.payoutAmount)
    BY <1>1 DEF Route
  <2>. QED
    BY <2>1 DEF MutualPool!Payout
<1> HIDE DEF a, b, c, d, j, s
<1>7. entities' = Graph!Handled(Graph!Handled(Graph!Handled(Graph!Handled(entities, a), b), d), c)
  <2>1. Graph!Index(entities, Logs(tx)) =
          Graph!Handled(Graph!Handled(Graph!Handled(Graph!Handled(entities, a), b), d), c)
    BY <1>3, FourIndexed
  <2>. QED
    BY <1>1, <2>1 DEF Executed
<1>8. PICK f : f = entities'
  OBVIOUS
<1>9. /\ EntitiesShape(f)
      /\ f.policy = entities.policy /\ f.holds = entities.holds
      /\ f.blocklist = entities.blocklist
      /\ f.verdicts = Graph!Saved(entities.verdicts, v,
           [outcome |-> a.outcome, payout |-> a.payout, reopened |-> 0])
      /\ f.pool = Charged(Lost(entities.pool, j, s), d.amount)
  BY <1>2, <1>4, <1>7, <1>8, ClaimEvents
<1>10. PoolAgrees'
  <2> DEFINE p == entities.pool.payouts
             q == entities.pool.claims
  <2>1. /\ entities.pool = Booked(totalAssets, premiumPool, p, q)
        /\ totalAssets = [t \in MutualPool!Tranche |-> totalAssets[t]]
    BY <1>2 DEF PoolAgrees, Booked
  <2>2. PICK tb : tb = LossTaken(totalAssets, j, s)
    OBVIOUS
  <2>3. PICK x : x = Charged(Lost(Booked(totalAssets, premiumPool, p, q), j, s), d.amount)
    OBVIOUS
  <2>4. /\ tb = [t \in MutualPool!Tranche |-> tb[t]]
        /\ x = Booked(tb, premiumPool, x.payouts, x.claims)
    BY <2>1, <2>2, <2>3, LossBooked
  <2>5. f.pool = x
    BY <1>9, <2>1, <2>3
  <2>6. totalAssets' = tb
    BY <1>6, <2>2 DEF LossTaken
  <2>7. /\ totalAssets' = [t \in MutualPool!Tranche |-> totalAssets'[t]]
        /\ entities'.pool = Booked(totalAssets', premiumPool', entities'.pool.payouts,
                                   entities'.pool.claims)
    BY <1>6, <1>8, <2>4, <2>5, <2>6
  <2>. QED
    BY <2>7 DEF PoolAgrees, Booked
<1>11. VerdictsAgree'
  <2>1. {v} \cap AcceptedAs("ATTEMPTED_BREACH")' = {}
    BY DEF AcceptedAs
  <2>2. PICK x : x = [outcome |-> a.outcome, payout |-> a.payout, reopened |-> 0]
    OBVIOUS
  <2>3. FreshVerdict(x)
    BY <2>2 DEF FreshVerdict
  <2>4. entities'.verdicts = Graph!Saved(entities.verdicts, v, x)
    BY <1>8, <1>9, <2>2
  <2>5. /\ DOMAIN entities'.verdicts = Accepted \cup Signalled \cup {v}
        /\ entities'.verdicts[v] = x
        /\ \A w \in Accepted : entities'.verdicts[w] = entities.verdicts[w]
    BY <1>1, <2>4 DEF Graph!Saved
  <2>. QED
    BY <1>1, <2>1, <2>3, <2>5, VerdictsSaved
<1>12. EntitiesShape(entities)'
  BY <1>8, <1>9 DEF EntitiesShape
<1>. QED
  BY <1>1, <1>2, <1>5, <1>8, <1>9, <1>10, <1>11, <1>12, HoldsStay, StrikesStay,
     PolicyStays DEF IndexInv

LEMMA MinedIndexed ==
  ASSUME NEW tx, Mined(tx)
  PROVE  IndexInv'
<1>1. Call(tx)
  BY DEF Mined, Executed
<1>2. tx.call \in {"fund", "create", "setWatcher", "setPool", "poolVerdicts",
              "setReporter", "guardVerdicts", "mint", "deposit", "redeem", "premium",
              "attach", "revoke", "propose", "reportAttempt", "decide", "lapse",
              "killSwitch", "withdraw", "holdVerdict", "verdict", "dispute", "report",
              "clear", "otherHoldVerdict"}
  BY <1>1, CallIs
<1>3. CASE tx.call \in {"fund", "create", "setWatcher", "setPool", "poolVerdicts",
                      "setReporter", "guardVerdicts", "mint", "withdraw",
                      "reportAttempt", "killSwitch"}
  BY <1>3, SilentIndexed
<1>4. CASE tx.call \in {"deposit", "redeem"}
  BY <1>4, TradeIndexed
<1>5. CASE tx.call \in {"report", "clear"}
  BY <1>5, StrikesIndexed
<1>6. CASE tx.call \in {"attach", "revoke"}
  BY <1>6, TermsIndexed
<1>7. CASE tx.call = "premium"
  BY <1>7, PremiumBooked
<1>8. CASE tx.call = "dispute"
  BY <1>8, DisputeIndexed
<1>9. CASE tx.call = "propose"
  BY <1>9, ProposalIndexed
<1>10. CASE tx.call = "decide"
  BY <1>10, DecisionIndexed
<1>11. CASE tx.call = "lapse"
  BY <1>11, LapseIndexed
<1>12. CASE tx.call = "holdVerdict"
  BY <1>12, HoldVerdictIndexed
<1>13. CASE tx.call = "verdict"
  <2>1. tx.verdict.outcome \in {"COVERED", "ATTEMPTED_BREACH", "DENIED_OWNER_ORIGIN"}
    BY <1>13 DEF Mined, Sane, IsSubmitted
  <2>. QED
    BY <1>13, <2>1, ClaimIndexed, SignalIndexed, DenialIndexed
<1>14. CASE tx.call = "otherHoldVerdict"
  BY <1>14, OtherHoldIndexed
<1>. QED
  BY <1>2, <1>3, <1>4, <1>5, <1>6, <1>7, <1>8, <1>9, <1>10, <1>11, <1>12, <1>13, <1>14

-----------------------------------------------------------------------------
(***************************************************************************)
(* The agreement is inductive, beside the invariant of the scenario.       *)
(***************************************************************************)
LEMMA InitiallyIndexed == ASSUME ScenarioInit PROVE IndexInv
<1>1. /\ entities = Graph!NoEntities(Address)
      /\ nextHoldId = 1 /\ verdicts = <<>> /\ disputes = <<>> /\ premiumPool = 0
      /\ totalAssets = [t \in MutualPool!Tranche |-> 0]
      /\ strikes = [a \in Address |-> 0]
      /\ latestVersion = [a \in {Guard} |-> 0]
  BY DEF ScenarioInit, Undeployed, Account!Init, MutualPool!Init,
     BLOCKLIST!BlocklistInit, Registry!RegistryInit
<1>2. /\ EntitiesShape(entities)
      /\ entities.holds = <<>> /\ entities.verdicts = <<>>
      /\ entities.policy = [live |-> NoPolicy, revoked |-> FALSE]
      /\ entities.blocklist = [d \in Address |-> Graph!NoEntry]
      /\ entities.pool = [junior |-> 0, senior |-> 0, premium |-> 0,
                          payouts |-> 0, claims |-> 0]
  BY <1>1, Zenon DEF Graph!NoEntities, EntitiesShape
<1>3. DOMAIN <<>> = {} /\ 1 .. 1 - 1 = {}
  OBVIOUS
<1>4. HoldsAgree
  BY <1>1, <1>2, <1>3 DEF HoldsAgree, HoldsIndexed
<1>5. PoolAgrees
  BY <1>1, <1>2 DEF PoolAgrees, MutualPool!Tranche
<1>6. VerdictsAgree
  BY <1>1, <1>2, <1>3 DEF VerdictsAgree, Signalled, AcceptedAs, Accepted
<1>7. StrikesAgree
  BY <1>1, <1>2 DEF StrikesAgree, Graph!NoEntry
<1>8. PolicyAgrees
  BY <1>1, <1>2 DEF PolicyAgrees
<1>. QED
  BY <1>2, <1>4, <1>5, <1>6, <1>7, <1>8 DEF IndexInv

LEMMA IndexInvIsInductive ==
  ASSUME IInv, IndexInv, [ScenarioNext]_vars
  PROVE  IndexInv'
<1>0. Books /\ SaneMempool /\ IsSequence(mempool)
  BY InvariantParts DEF SaneMempool
<1>1. ASSUME NEW tx, Executed(tx), Sane(tx),
             outside.elsewhere \cup FrozenElsewhere(tx) \subseteq outside'.elsewhere
      PROVE  IndexInv'
  BY <1>0, <1>1, MinedIndexed DEF Mined
<1>2. ASSUME entities' = entities, UNCHANGED <<holds, nextHoldId>>,
             UNCHANGED <<totalAssets, premiumPool>>, UNCHANGED <<verdicts, disputes>>,
             strikes' = strikes, latestVersion' = latestVersion, outside' = outside
      PROVE  IndexInv'
  <2>1. Same(entities, entities')
    BY <1>2 DEF IndexInv, Same, ButHolds
  <2>. QED
    BY <1>2, <2>1, NothingChanges
<1>3. ASSUME UNCHANGED <<chainVars, entities>>, outside' = outside PROVE IndexInv'
  BY <1>2, <1>3 DEF chainVars, allVars, accountVars, ownPoolVars, registryVars,
     blocklistVars, verdictVars
<1>4. \A i \in DOMAIN mempool : Sane(mempool[i]) /\ FrozenElsewhere(mempool[i]) = {}
  BY <1>0, SequenceOfItsElements DEF SaneMempool, FrozenElsewhere
<1>5. CASE Begin \/ Observe \/ EvidenceFails \/ Handles \/ Verify \/ Persist
           \/ Conclude \/ Abort
  BY <1>3, <1>5 DEF Begin, Observe, EvidenceFails, Handles, Verify, Persist, Conclude,
     Abort, Fail, txVars
<1>6. CASE Send
  BY <1>3, <1>6 DEF Send, scriptVars
<1>7. CASE Later
  BY <1>2, <1>7 DEF Later, scriptVars, accountVars, ownPoolVars, registryVars, blocklistVars,
     verdictVars
<1>8. CASE Outsider
  <2>1. PICK tx \in OutsideTx :
          /\ Executed(tx)
          /\ outside' = [count |-> IF FollowUp(tx) THEN outside.count
                                   ELSE outside.count + 1,
                         elsewhere |-> outside.elsewhere \cup FrozenElsewhere(tx)]
    BY <1>8 DEF Outsider
  <2>. QED
    BY <1>1, <2>1, OutsideIsSane
<1>9. ASSUME NEW i \in DOMAIN mempool, Mine(i) \/ MineLeftover(i)
      PROVE  IndexInv'
  <2>1. (Executed(mempool[i]) \/ Reverted(mempool[i])) /\ outside' = outside
    BY <1>9 DEF Mine, MineLeftover, scriptVars
  <2>. QED
    BY <1>1, <1>3, <1>4, <2>1 DEF Reverted
<1>10. CASE UNCHANGED vars
  BY <1>3, <1>10 DEF vars, txVars, scriptVars
<1>. QED
  BY <1>5, <1>6, <1>7, <1>8, <1>9, <1>10 DEF ScenarioNext

\* Whoever reads the subgraph sees the contracts: after any sequence of the
\* script's transactions and of those that OutsideTx lists, signals, denials and
\* hold verdicts for another account among them, the entities that the handlers
\* of mapping.ts left behind say of each hold, of the tranches, of the verdicts
\* and their disputes, of the strikes and of the policy what the contracts say,
\* but for a signal's second entity and for a hold whose number was frozen in
\* another account.
THEOREM SubgraphAgrees == ScenarioSpec => []IndexAgrees
<1>1. ASSUME IndexInv PROVE IndexAgrees
  <2>1. /\ DOMAIN entities.holds = 1 .. nextHoldId - 1
        /\ \A i \in 1 .. nextHoldId - 1 :
             HoldEntity(entities.holds[i], holds[i], i, outside.elsewhere)
    BY <1>1 DEF IndexInv, HoldsAgree, HoldsIndexed
  <2>2. ASSUME NEW i \in DOMAIN entities.holds
        PROVE  /\ entities.holds[i].to = holds[i].to
               /\ entities.holds[i].amount = holds[i].amount
               /\ entities.holds[i].extendedTo = holds[i].extendedTo
               /\ \/ entities.holds[i].status \in StatusInIndex(holds[i].status)
                  \/ entities.holds[i].status = "FROZEN" /\ i \in outside.elsewhere
               /\ entities.holds[i].executed <=>
                    holds[i].status \in {"RELEASED", "EXECUTED_OWNER"}
    <3> DEFINE x == entities.holds[i]
               h == holds[i]
    <3>1. HoldEntity(x, h, i, outside.elsewhere)
      BY <2>1, <2>2
    <3>2. x.to = h.to /\ x.amount = h.amount /\ x.extendedTo = h.extendedTo
      <4> HIDE DEF x, h
      <4>1. x = [to |-> h.to, amount |-> h.amount, status |-> x.status,
                 extendedTo |-> x.extendedTo, executed |-> x.executed]
            /\ x.extendedTo = h.extendedTo
        BY <3>1 DEF HoldEntity
      <4>. QED
        BY <4>1
    <3>3. /\ x.status \in StatusInIndex(h.status)
             \/ (x.status = "FROZEN" /\ i \in outside.elsewhere)
          /\ x.executed <=> h.status \in Paid
      BY <3>1, Zenon DEF HoldEntity, Shows
    <3>. QED
      BY <3>2, <3>3, Zenon DEF Paid
  <2>3. \A t \in {"junior", "senior"} : entities.pool[t] = totalAssets[t]
    BY <1>1 DEF IndexInv, PoolAgrees
  <2>4. entities.pool.premium = premiumPool
    BY <1>1 DEF IndexInv, PoolAgrees
  <2>5. /\ DOMAIN entities.verdicts = Accepted \cup Signalled
        /\ \A v \in Accepted :
             (entities.verdicts[v].reopened > 0) <=> v \in DOMAIN disputes
    BY <1>1 DEF IndexInv, VerdictsAgree, VerdictEntity
  <2>6. ASSUME NEW d \in Address PROVE entities.blocklist[d].strikes = strikes[d]
    <3> DEFINE entry == entities.blocklist[d]
    <3>1. entry = [strikes |-> strikes[d], flagged |-> entry.flagged,
                   cleared |-> entry.cleared]
      BY <1>1, <2>6, Zenon DEF IndexInv, StrikesAgree
    <3> HIDE DEF entry
    <3>2. entry.strikes = strikes[d]
      BY <3>1
    <3>. QED
      BY <3>2 DEF entry
  <2>7. (latestVersion[Guard] # 0) <=>
          (entities.policy.live # NoPolicy /\ ~entities.policy.revoked)
    BY <1>1 DEF IndexInv, PolicyAgrees
  <2>. QED
    BY <2>1, <2>2, <2>3, <2>4, <2>5, <2>6, <2>7, Zenon DEF IndexAgrees
<1>2. ScenarioInit => IndexInv
  BY InitiallyIndexed
<1>3. IInv /\ IndexInv /\ [ScenarioNext]_vars => IndexInv'
  BY IndexInvIsInductive
<1>. QED
  BY <1>1, <1>2, <1>3, ScenarioInvariant, PTL DEF ScenarioSpec
=============================================================================
