------------------------------ MODULE USDCMock ------------------------------
(***************************************************************************)
(* The USDC token every contract of the protocol settles in: a map from    *)
(* address to balance, and the one operation that moves value.  Allowances *)
(* are unlimited in every deployment script, so they never constrain a     *)
(* transferFrom and are left out.                                          *)
(***************************************************************************)
EXTENDS Naturals

CONSTANT Address   \* every account that can hold USDC, contracts included

\* balanceOf.
Balances == [Address -> Nat]

\* transfer and transferFrom revert when the sender's balance is short.
Covers(bal, from, amount) == amount <= bal[from]

\* The ledger after the transfer: debit first, then credit, so that a
\* transfer to oneself changes nothing.
Moved(bal, from, to, amount) ==
  [bal EXCEPT ![from] = @ - amount, ![to] = @ + amount]
=============================================================================
