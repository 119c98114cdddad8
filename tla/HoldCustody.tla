---------------------------- MODULE HoldCustody ----------------------------
(***************************************************************************)
(* What a GuardAccount promises about held funds, without clocks, keys,    *)
(* policies or counters: a hold names a recipient and an amount once, for  *)
(* ever; it leaves "locked" at most once and "frozen" at most once; it is  *)
(* paid at most once, in full, to that recipient, in the very step that    *)
(* closes it; and the other moves of a hold touch no money.                *)
(***************************************************************************)
EXTENDS USDCMock

CONSTANTS Guard,      \* the account that holds the funds
          HoldId,     \* the identifiers a hold can get
          Amount,     \* the amounts a hold can lock
          ZeroAddress \* the payee of a hold that was never created

VARIABLES stage,      \* stage[i]: where hold i stands
          promise,    \* promise[i]: to whom and how much, fixed at creation
          usdc        \* the token ledger

Stage == {"unborn", "locked", "frozen", "paid", "returned"}

Promise == [to : Address, amount : Amount]
NoPromise == [to |-> ZeroAddress, amount |-> 0]

Init ==
  /\ stage = [i \in HoldId |-> "unborn"]
  /\ promise = [i \in HoldId |-> NoPromise]
  /\ usdc \in Balances

\* An elevated transfer is parked instead of executed.
Lock(i) ==
  /\ stage[i] = "unborn"
  /\ stage' = [stage EXCEPT ![i] = "locked"]
  /\ \E p \in Promise : promise' = [promise EXCEPT ![i] = p]
  /\ UNCHANGED usdc

\* The watcher or the lapse of the window hands the hold to the owner.
Freeze(i) ==
  /\ stage[i] = "locked"
  /\ stage' = [stage EXCEPT ![i] = "frozen"]
  /\ UNCHANGED <<promise, usdc>>

\* The hold is executed: exactly the promised amount, to the promised payee.
Pay(i) ==
  /\ stage[i] \in {"locked", "frozen"}
  /\ stage' = [stage EXCEPT ![i] = "paid"]
  /\ Covers(usdc, Guard, promise[i].amount)
  /\ usdc' = Moved(usdc, Guard, promise[i].to, promise[i].amount)
  /\ UNCHANGED promise

\* The hold is cancelled: the funds simply stay where they are.
Return(i) ==
  /\ stage[i] \in {"locked", "frozen"}
  /\ stage' = [stage EXCEPT ![i] = "returned"]
  /\ UNCHANGED <<promise, usdc>>

\* Everything else the token ledger does: routine transfers, withdrawals,
\* deposits.  No hold changes in such a step.
OtherTransfers ==
  /\ usdc' \in Balances
  /\ UNCHANGED <<stage, promise>>

Next ==
  \/ \E i \in HoldId : Lock(i) \/ Freeze(i) \/ Pay(i) \/ Return(i)
  \/ OtherTransfers

custodyVars == <<stage, promise, usdc>>

Spec == Init /\ [][Next]_custodyVars
=============================================================================
