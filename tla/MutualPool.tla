----------------------------- MODULE MutualPool -----------------------------
(***************************************************************************)
(* contracts/src/MutualPool.sol: the two-tranche pool that pays claims.    *)
(* Depositors hold shares of a tranche; a claim eats the junior tranche    *)
(* before the senior one; premiums are collected beside both.              *)
(*                                                                         *)
(* One action per external function; its require and if-revert conditions  *)
(* are the guards.  The reinsurance hook is recorded and never consulted:  *)
(* _reinsuranceAvailable returns 0 either way.                             *)
(***************************************************************************)
EXTENDS USDCMock, FiniteSetsExt

CONSTANTS
  ZeroAddress,       \* address(0)
  Pool,              \* this contract
  PoolAdmin,         \* the admin given to the constructor; it has no setter
  PoolCallers,       \* the accounts that send transactions to the pool
  VerdictContracts,  \* the contracts setVerdictContract may wire
  Claimants,         \* the accounts a verdict may pay
  Claims,            \* the amounts a verdict may pay
  Deposits,          \* the amounts of a deposit, a premium or a plain transfer
  Hooks,             \* the hooks setReinsurance may wire
  PoolOpening,       \* the USDC balances at deployment
  MaxShares          \* bound: shares outstanding in one tranche

VARIABLES
  poolVerdictContract,  \* verdictContract
  reinsuranceHook,
  totalAssets,          \* totalAssets[t]: USDC attributed to tranche t
  totalShares,          \* totalShares[t]: shares outstanding
  sharesOf,             \* sharesOf[t][a]: shares of depositor a
  premiumPool,
  usdc

trancheVars == <<totalAssets, totalShares, sharesOf>>
poolVars == <<poolVerdictContract, reinsuranceHook, trancheVars, premiumPool, usdc>>

Tranche == {"senior", "junior"}

ASSUME PoolAssumption ==
  /\ {ZeroAddress, Pool, PoolAdmin} \subseteq Address
  /\ Pool \notin {ZeroAddress, PoolAdmin}
  /\ PoolCallers \subseteq Address \ {ZeroAddress, Pool}
  /\ VerdictContracts \cup Hooks \subseteq Address \ {ZeroAddress, Pool}
  /\ Claimants \subseteq Address \ {ZeroAddress, Pool}
  /\ Claims \subseteq Nat \ {0}
  /\ Deposits \subseteq Nat \ {0}
  /\ PoolOpening \in Balances
  /\ MaxShares \in Nat

\* There are 2^160 of them.
ASSUME AddressesAreFinite == IsFiniteSet(Address)

TypeOK ==
  /\ poolVerdictContract \in Address
  /\ reinsuranceHook \in Address
  /\ totalAssets \in [Tranche -> Nat]
  /\ totalShares \in [Tranche -> Nat]
  /\ sharesOf \in [Tranche -> [Address -> Nat]]
  /\ premiumPool \in Nat
  /\ usdc \in Balances

-----------------------------------------------------------------------------
(***************************************************************************)
(* Shares and assets convert at the tranche's current ratio, rounded down; *)
(* a tranche without shares, or without assets, issues one share per unit. *)
(***************************************************************************)
\* Mutant of ToShare: rounded up, in favour of whoever enters.
ToShareUp(t, assets) ==
  IF totalShares[t] = 0 \/ totalAssets[t] = 0 THEN assets
  ELSE (assets * totalShares[t] + totalAssets[t] - 1) \div totalAssets[t]

ToShare(t, assets) ==
  IF totalShares[t] = 0 \/ totalAssets[t] = 0 THEN assets
  ELSE (assets * totalShares[t]) \div totalAssets[t]

ToAsset(t, shares) ==
  IF totalShares[t] = 0 THEN 0
  ELSE (shares * totalAssets[t]) \div totalShares[t]

Deposit(caller, t, assets) ==
  LET shares == ToShare(t, assets) IN
  /\ shares # 0
  /\ totalShares[t] + shares <= MaxShares
  /\ Covers(usdc, caller, assets)
  /\ totalShares' = [totalShares EXCEPT ![t] = @ + shares]
  /\ sharesOf' = [sharesOf EXCEPT ![t][caller] = @ + shares]
  /\ totalAssets' = [totalAssets EXCEPT ![t] = @ + assets]
  /\ usdc' = Moved(usdc, caller, Pool, assets)
  /\ UNCHANGED <<poolVerdictContract, reinsuranceHook, premiumPool>>

\* Mutant of Redeem: the shares are burnt, the outstanding total is not reduced.
RedeemKeepsTotal(caller, t, shares) ==
  LET assets == ToAsset(t, shares) IN
  /\ shares # 0
  /\ shares <= sharesOf[t][caller]
  /\ assets # 0
  /\ assets <= totalAssets[t]
  /\ Covers(usdc, Pool, assets)
  /\ sharesOf' = [sharesOf EXCEPT ![t][caller] = @ - shares]
  /\ totalAssets' = [totalAssets EXCEPT ![t] = @ - assets]
  /\ usdc' = Moved(usdc, Pool, caller, assets)
  /\ UNCHANGED <<poolVerdictContract, reinsuranceHook, premiumPool, totalShares>>

Redeem(caller, t, shares) ==
  LET assets == ToAsset(t, shares) IN
  /\ shares # 0
  /\ shares <= sharesOf[t][caller]
  /\ assets # 0
  /\ assets <= totalAssets[t]
  /\ shares <= totalShares[t]      \* checked subtraction
  /\ Covers(usdc, Pool, assets)
  /\ sharesOf' = [sharesOf EXCEPT ![t][caller] = @ - shares]
  /\ totalShares' = [totalShares EXCEPT ![t] = @ - shares]
  /\ totalAssets' = [totalAssets EXCEPT ![t] = @ - assets]
  /\ usdc' = Moved(usdc, Pool, caller, assets)
  /\ UNCHANGED <<poolVerdictContract, reinsuranceHook, premiumPool>>

(***************************************************************************)
(* The waterfall: the junior tranche pays what it can, the senior tranche  *)
(* the rest, and a claim above both reverts as a whole.                    *)
(***************************************************************************)
\* Mutants of FromJunior: the senior tranche pays first; the junior pays all.
FromJuniorLast(amount) == amount - Min({amount, totalAssets["senior"]})
FromJuniorOnly(amount) == amount

FromJunior(amount) == Min({amount, totalAssets["junior"]})
FromSenior(amount) == amount - FromJunior(amount)

\* Mutant of Payout: the senior share of a claim is not compared with what the
\* tranche has.
PayoutUnbounded(caller, claimant, amount) ==
  /\ caller = poolVerdictContract
  /\ claimant # ZeroAddress
  /\ amount # 0
  /\ Covers(usdc, Pool, amount)
  /\ totalAssets' = [totalAssets EXCEPT !["junior"] = @ - FromJunior(amount),
                                        !["senior"] = @ - FromSenior(amount)]
  /\ usdc' = Moved(usdc, Pool, claimant, amount)
  /\ UNCHANGED <<poolVerdictContract, reinsuranceHook, totalShares, sharesOf,
                 premiumPool>>

Payout(caller, claimant, amount) ==
  /\ caller = poolVerdictContract
  /\ claimant # ZeroAddress
  /\ amount # 0
  /\ FromSenior(amount) <= totalAssets["senior"]
  /\ Covers(usdc, Pool, amount)
  /\ totalAssets' = [totalAssets EXCEPT !["junior"] = @ - FromJunior(amount),
                                        !["senior"] = @ - FromSenior(amount)]
  /\ usdc' = Moved(usdc, Pool, claimant, amount)
  /\ UNCHANGED <<poolVerdictContract, reinsuranceHook, totalShares, sharesOf,
                 premiumPool>>

\* Mutant of RecordPremium: the premium is booked to the junior tranche as well.
RecordPremiumTwice(caller, amount) ==
  /\ amount # 0
  /\ Covers(usdc, caller, amount)
  /\ premiumPool' = premiumPool + amount
  /\ totalAssets' = [totalAssets EXCEPT !["junior"] = @ + amount]
  /\ usdc' = Moved(usdc, caller, Pool, amount)
  /\ UNCHANGED <<poolVerdictContract, reinsuranceHook, totalShares, sharesOf>>

\* Anyone may pay a premium; nothing ever leaves premiumPool again.
RecordPremium(caller, amount) ==
  /\ amount # 0
  /\ Covers(usdc, caller, amount)
  /\ premiumPool' = premiumPool + amount
  /\ usdc' = Moved(usdc, caller, Pool, amount)
  /\ UNCHANGED <<poolVerdictContract, reinsuranceHook, trancheVars>>

SetPoolVerdictContract(caller, vc) ==
  /\ caller = PoolAdmin
  /\ vc # ZeroAddress
  /\ poolVerdictContract' = vc
  /\ UNCHANGED <<reinsuranceHook, trancheVars, premiumPool, usdc>>

SetReinsurance(caller, hook) ==
  /\ caller = PoolAdmin
  /\ hook # ZeroAddress
  /\ reinsuranceHook' = hook
  /\ UNCHANGED <<poolVerdictContract, trancheVars, premiumPool, usdc>>

-----------------------------------------------------------------------------
Init ==
  /\ poolVerdictContract = ZeroAddress
  /\ reinsuranceHook = ZeroAddress
  /\ totalAssets = [t \in Tranche |-> 0]
  /\ totalShares = [t \in Tranche |-> 0]
  /\ sharesOf = [t \in Tranche |-> [a \in Address |-> 0]]
  /\ premiumPool = 0
  /\ usdc = PoolOpening

\* Depositors enter and leave.
Trade ==
  \E caller \in PoolCallers, t \in Tranche :
    \/ \E assets \in Deposits : Deposit(caller, t, assets)
    \/ \E shares \in 1 .. sharesOf[t][caller] : Redeem(caller, t, shares)

Claim ==
  \E caller \in PoolCallers, claimant \in Claimants, amount \in Claims :
    Payout(caller, claimant, amount)

Premium ==
  \E caller \in PoolCallers, amount \in Deposits : RecordPremium(caller, amount)

Wiring ==
  \E caller \in PoolCallers :
    \/ \E vc \in VerdictContracts : SetPoolVerdictContract(caller, vc)
    \/ \E hook \in Hooks : SetReinsurance(caller, hook)

\* Plain token transfers among the other accounts and to the pool.
OtherTransfer ==
  /\ \E from \in PoolCallers, to \in Claimants \cup {Pool}, amount \in Deposits :
       /\ Covers(usdc, from, amount)
       /\ usdc' = Moved(usdc, from, to, amount)
  /\ UNCHANGED <<poolVerdictContract, reinsuranceHook, trancheVars, premiumPool>>

Next == Trade \/ Claim \/ Premium \/ Wiring \/ OtherTransfer

Spec == Init /\ [][Next]_poolVars

-----------------------------------------------------------------------------
(***************************************************************************)
(* Properties.                                                             *)
(***************************************************************************)

\* What the pool has booked to the two tranches and to premiums is there: no
\* claim, redemption or premium books value that was not received, and no
\* payment takes it from a book other than its own.
Solvent == totalAssets["senior"] + totalAssets["junior"] + premiumPool <= usdc[Pool]

\* Shares are the depositors': the outstanding total is what they hold.  No
\* share is ever worth more than the one unit it was first issued for, however
\* deposits, claims and redemptions follow one another, so that a tranche
\* nobody holds a share of has no assets for the next depositor to take over.
SharesAreHeld ==
  \A t \in Tranche :
    /\ totalShares[t] = MapThenSumSet(LAMBDA a : sharesOf[t][a], Address)
    /\ totalAssets[t] <= totalShares[t]

\* A loss reaches the senior tranche only in a step that leaves the junior
\* tranche empty.
JuniorFirst ==
  [][totalShares' = totalShares /\ totalAssets'["senior"] < totalAssets["senior"]
       => totalAssets'["junior"] = 0]_poolVars

\* Entering or leaving never lowers what a share of the others is worth: the
\* rounding of both conversions is against whoever trades.
TradersPayTheRounding ==
  [][\A t \in Tranche :
       totalShares'[t] # totalShares[t] =>
         totalAssets'[t] * totalShares[t] >= totalAssets[t] * totalShares'[t]]_poolVars
=============================================================================
