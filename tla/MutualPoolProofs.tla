-------------------------- MODULE MutualPoolProofs --------------------------
(***************************************************************************)
(* Theorems about MutualPool for every set of accounts and amounts and any *)
(* number of shares.  Trade, Premium, Wiring, Payout and OtherTransfer are *)
(* treated one by one, so that a module that composes the pool with others *)
(* can cite the lemma of the action it contains.                           *)
(***************************************************************************)
EXTENDS MutualPool, SumsProofs

(***************************************************************************)
(* Each conjunct needs the others: shares must cover the assets for a      *)
(* deposit into an empty tranche not to be worth more than what it paid.   *)
(***************************************************************************)
SharesAddUp == \A t \in Tranche : totalShares[t] = SetSum(sharesOf[t], Address)

AssetsWithinShares == \A t \in Tranche : totalAssets[t] <= totalShares[t]

PoolInv == TypeOK /\ Solvent /\ SharesAddUp /\ AssetsWithinShares

LEMMA PoolInvImplies == PoolInv => TypeOK /\ Solvent /\ SharesAreHeld
BY DEF PoolInv, SharesAreHeld, SharesAddUp, AssetsWithinShares, SetSum

-----------------------------------------------------------------------------
(***************************************************************************)
(* Arithmetic of the two conversions.                                      *)
(***************************************************************************)
LEMMA DivBounds ==
  ASSUME NEW a \in Nat, NEW b \in Nat \ {0}
  PROVE  /\ a \div b \in Nat
         /\ (a \div b) * b <= a
         /\ a < (a \div b) * b + b
BY SMT

LEMMA TimesMonotone ==
  ASSUME NEW a \in Nat, NEW b \in Nat, NEW c \in Nat, a <= b
  PROVE  a * c <= b * c /\ c * a <= c * b
BY SMT

\* The quotient is the largest integer that fits.
LEMMA DivAtLeast ==
  ASSUME NEW a \in Nat, NEW b \in Nat \ {0}, NEW k \in Int, k * b <= a
  PROVE  k <= a \div b
<1>1. PICK q \in Nat : q = a \div b /\ a < q * b + b
  BY DivBounds
<1>2. SUFFICES ASSUME k > q PROVE FALSE
  BY <1>1
<1>3. PICK m \in Nat : k = q + 1 + m
  <2>1. k - (q + 1) \in Nat
    BY <1>2
  <2>2. QED
    BY <2>1
<1>4. k * b = (q * b + b) + m * b /\ m * b >= 0
  BY <1>3
<1>5. QED
  BY <1>1, <1>4

LEMMA ConversionsTyped ==
  ASSUME TypeOK, NEW t \in Tranche, NEW n \in Nat
  PROVE  ToShare(t, n) \in Nat /\ ToAsset(t, n) \in Nat
<1>1. totalShares[t] \in Nat /\ totalAssets[t] \in Nat
  BY DEF TypeOK
<1>2. n * totalShares[t] \in Nat /\ n * totalAssets[t] \in Nat
  BY <1>1
<1>3. QED
  BY <1>1, <1>2, DivBounds DEF ToShare, ToAsset

\* Shares issued are worth no more than what was paid for them.
LEMMA SharesAreNotCheap ==
  ASSUME TypeOK, NEW t \in Tranche, NEW n \in Nat
  PROVE  totalShares[t] # 0 => ToShare(t, n) * totalAssets[t] <= n * totalShares[t]
<1>1. totalShares[t] \in Nat /\ totalAssets[t] \in Nat
  BY DEF TypeOK
<1>2. n * totalShares[t] \in Nat
  BY <1>1
<1>3. CASE totalShares[t] # 0 /\ totalAssets[t] # 0
  BY <1>1, <1>2, <1>3, DivBounds DEF ToShare
<1>4. CASE totalShares[t] # 0 /\ totalAssets[t] = 0
  BY <1>1, <1>2, <1>4 DEF ToShare
<1>5. QED
  BY <1>3, <1>4

\* They are at least as many as the units paid: no share is worth more than one.
LEMMA SharesAreEnough ==
  ASSUME TypeOK, AssetsWithinShares, NEW t \in Tranche, NEW n \in Nat
  PROVE  n <= ToShare(t, n)
<1>1. totalShares[t] \in Nat /\ totalAssets[t] \in Nat /\ totalAssets[t] <= totalShares[t]
  BY DEF TypeOK, AssetsWithinShares
<1>2. CASE totalShares[t] = 0 \/ totalAssets[t] = 0
  BY <1>2 DEF ToShare
<1>3. CASE totalShares[t] # 0 /\ totalAssets[t] # 0
  <2>1. n * totalShares[t] \in Nat /\ n * totalAssets[t] <= n * totalShares[t]
    BY <1>1, TimesMonotone
  <2>2. QED
    BY <1>1, <1>3, <2>1, DivAtLeast DEF ToShare
<1>4. QED
  BY <1>2, <1>3

\* A redemption takes no more than its share.
LEMMA AssetsAreNotCheap ==
  ASSUME TypeOK, NEW t \in Tranche, NEW n \in Nat
  PROVE  ToAsset(t, n) * totalShares[t] <= n * totalAssets[t]
<1>1. totalShares[t] \in Nat /\ totalAssets[t] \in Nat
  BY DEF TypeOK
<1>2. n * totalAssets[t] \in Nat
  BY <1>1
<1>3. QED
  BY <1>1, <1>2, DivBounds DEF ToAsset

\* It leaves at most one unit per share that remains.
LEMMA RestStaysWithinShares ==
  ASSUME TypeOK, AssetsWithinShares, NEW t \in Tranche,
         NEW n \in Nat, n <= totalShares[t]
  PROVE  totalAssets[t] - ToAsset(t, n) <= totalShares[t] - n
<1>1. PICK A \in Nat, S \in Nat :
        A = totalAssets[t] /\ S = totalShares[t] /\ A <= S /\ n <= S
  BY DEF TypeOK, AssetsWithinShares
<1>2. CASE S = 0
  BY <1>1, <1>2 DEF ToAsset
<1>3. CASE S # 0
  <2>1. PICK r \in Nat, d \in Nat : S = n + r /\ S = A + d
    <3>1. S - n \in Nat /\ S - A \in Nat
      BY <1>1
    <3>2. S = n + (S - n) /\ S = A + (S - A)
      BY <1>1
    <3>3. QED
      BY <3>1, <3>2
  <2>2. (A + n - S) * S <= n * A
    <3>1. n * d <= S * d
      BY <1>1, TimesMonotone
    <3>2. n * S = n * A + n * d /\ d * S = S * d
      BY <2>1
    <3>3. (A + n - S) * S = n * S - d * S
      <4>1. A + n - S = n - d
        BY <1>1, <2>1
      <4>2. QED
        BY <4>1
    <3>4. n * S \in Int /\ d * S \in Int /\ n * A \in Int /\ n * d \in Int
      OBVIOUS
    <3>5. QED
      BY <3>1, <3>2, <3>3, <3>4
  <2>3. A + n - S <= (n * A) \div S
    <3>1. n * A \in Nat /\ A + n - S \in Int /\ S \in Nat \ {0}
      BY <1>3
    <3>2. QED
      BY <2>2, <3>1, DivAtLeast
  <2>4. ToAsset(t, n) = (n * A) \div S /\ (n * A) \div S \in Nat
    BY <1>1, <1>3, DivBounds DEF ToAsset
  <2>5. QED
    BY <1>1, <2>3, <2>4
<1>4. QED
  BY <1>2, <1>3

-----------------------------------------------------------------------------
(***************************************************************************)
(* USDC: a transfer takes from one account and gives to another.           *)
(***************************************************************************)
LEMMA MovedPoolUsdc ==
  ASSUME usdc \in Balances, NEW from \in Address, NEW to \in Address, NEW amount \in Nat,
         Covers(usdc, from, amount), usdc' = Moved(usdc, from, to, amount)
  PROVE  /\ usdc' \in Balances
         /\ from # Pool => usdc'[Pool] >= usdc[Pool]
         /\ from # Pool /\ to = Pool => usdc'[Pool] = usdc[Pool] + amount
         /\ from = Pool /\ to # Pool => usdc'[Pool] = usdc[Pool] - amount
BY PoolAssumption DEF Balances, Covers, Moved

LEMMA PoolInvFacts ==
  ASSUME PoolInv
  PROVE  /\ usdc \in Balances /\ premiumPool \in Nat /\ usdc[Pool] \in Nat
         /\ totalAssets \in [Tranche -> Nat] /\ totalShares \in [Tranche -> Nat]
         /\ sharesOf \in [Tranche -> [Address -> Nat]]
         /\ totalAssets["senior"] \in Nat /\ totalAssets["junior"] \in Nat
         /\ totalAssets["senior"] + totalAssets["junior"] + premiumPool <= usdc[Pool]
BY PoolAssumption DEF PoolInv, TypeOK, Solvent, Tranche, Balances

\* The shares of one depositor change, and the total with them.
LEMMA SharesAddUpAfter ==
  ASSUME PoolInv, sharesOf' \in [Tranche -> [Address -> Nat]],
         NEW t \in Tranche, NEW a \in Address,
         \A u \in Tranche :
           u # t => sharesOf'[u] = sharesOf[u] /\ totalShares'[u] = totalShares[u],
         \A b \in Address : b # a => sharesOf'[t][b] = sharesOf[t][b],
         totalShares'[t] = totalShares[t] + (sharesOf'[t][a] - sharesOf[t][a])
  PROVE  SharesAddUp'
<1>1. SUFFICES ASSUME NEW u \in Tranche
               PROVE  totalShares'[u] = SetSum(sharesOf'[u], Address)
  BY DEF SharesAddUp
<1>2. totalShares[u] = SetSum(sharesOf[u], Address) /\ totalShares[u] \in Int
  BY DEF PoolInv, SharesAddUp, TypeOK
<1>3. CASE u # t
  BY <1>2, <1>3
<1>4. CASE u = t
  <2>1. sharesOf[t] \in [Address -> Int] /\ sharesOf'[t] \in [Address -> Int]
    BY PoolInvFacts
  <2>2. SetSum(sharesOf'[t], Address)
          = SetSum(sharesOf[t], Address) - sharesOf[t][a] + sharesOf'[t][a]
    BY <2>1, SetSumUpdate, AddressesAreFinite
  <2>3. sharesOf[t][a] \in Int /\ sharesOf'[t][a] \in Int
    BY <2>1
  <2>4. QED
    BY <1>2, <1>4, <2>2, <2>3
<1>5. QED
  BY <1>3, <1>4

LEMMA DepositKeepsPoolInv ==
  ASSUME PoolInv, NEW caller \in Address \ {Pool}, NEW t \in Tranche, NEW n \in Nat,
         Deposit(caller, t, n)
  PROVE  PoolInv'
<1> DEFINE s == ToShare(t, n)
<1>1. s \in Nat /\ n <= s
  BY ConversionsTyped, SharesAreEnough DEF PoolInv
<1> HIDE DEF s
<1>2. /\ totalShares' = [totalShares EXCEPT ![t] = @ + s]
      /\ sharesOf' = [sharesOf EXCEPT ![t][caller] = @ + s]
      /\ totalAssets' = [totalAssets EXCEPT ![t] = @ + n]
      /\ Covers(usdc, caller, n) /\ usdc' = Moved(usdc, caller, Pool, n)
      /\ UNCHANGED <<poolVerdictContract, reinsuranceHook, premiumPool>>
  BY DEF Deposit, s
<1>3. usdc' \in Balances /\ usdc'[Pool] = usdc[Pool] + n
  BY <1>2, MovedPoolUsdc, PoolInvFacts, PoolAssumption
<1>4. TypeOK'
  BY <1>1, <1>2, <1>3 DEF PoolInv, TypeOK
<1>5. Solvent'
  BY <1>2, <1>3, PoolInvFacts DEF Solvent, Tranche
<1>6. SharesAddUp'
  <2>1. sharesOf' \in [Tranche -> [Address -> Nat]]
    BY <1>4 DEF TypeOK
  <2>2. /\ \A u \in Tranche :
             u # t => sharesOf'[u] = sharesOf[u] /\ totalShares'[u] = totalShares[u]
        /\ \A b \in Address : b # caller => sharesOf'[t][b] = sharesOf[t][b]
        /\ totalShares'[t] = totalShares[t] + s
        /\ sharesOf'[t][caller] = sharesOf[t][caller] + s
    BY <1>1, <1>2, PoolInvFacts
  <2>3. totalShares'[t] = totalShares[t] + (sharesOf'[t][caller] - sharesOf[t][caller])
    BY <1>1, <2>2, PoolInvFacts
  <2>4. QED
    BY <2>1, <2>2, <2>3, SharesAddUpAfter
<1>7. AssetsWithinShares'
  BY <1>1, <1>2, PoolInvFacts DEF PoolInv, AssetsWithinShares
<1>8. QED
  BY <1>4, <1>5, <1>6, <1>7 DEF PoolInv

LEMMA RedeemKeepsPoolInv ==
  ASSUME PoolInv, NEW caller \in Address \ {Pool}, NEW t \in Tranche, NEW n \in Nat,
         Redeem(caller, t, n)
  PROVE  PoolInv'
<1> DEFINE a == ToAsset(t, n)
<1>1. a \in Nat /\ totalAssets[t] - a <= totalShares[t] - n
  BY ConversionsTyped, RestStaysWithinShares DEF PoolInv, Redeem
<1>2. /\ totalShares' = [totalShares EXCEPT ![t] = @ - n]
      /\ sharesOf' = [sharesOf EXCEPT ![t][caller] = @ - n]
      /\ totalAssets' = [totalAssets EXCEPT ![t] = @ - a]
      /\ Covers(usdc, Pool, a) /\ usdc' = Moved(usdc, Pool, caller, a)
      /\ n <= sharesOf[t][caller] /\ n <= totalShares[t] /\ a <= totalAssets[t]
      /\ UNCHANGED <<poolVerdictContract, reinsuranceHook, premiumPool>>
  BY DEF Redeem
<1> HIDE DEF a
<1>3. usdc' \in Balances /\ usdc'[Pool] = usdc[Pool] - a
  BY <1>1, <1>2, MovedPoolUsdc, PoolInvFacts, PoolAssumption
<1>4. TypeOK'
  <2>1. totalShares[t] - n \in Nat /\ totalAssets[t] - a \in Nat
        /\ sharesOf[t][caller] - n \in Nat
    BY <1>1, <1>2, PoolInvFacts
  <2>2. QED
    BY <1>2, <1>3, <2>1 DEF PoolInv, TypeOK
<1>5. Solvent'
  BY <1>1, <1>2, <1>3, PoolInvFacts DEF Solvent, Tranche
<1>6. SharesAddUp'
  <2>1. sharesOf' \in [Tranche -> [Address -> Nat]]
    BY <1>4 DEF TypeOK
  <2>2. /\ \A u \in Tranche :
             u # t => sharesOf'[u] = sharesOf[u] /\ totalShares'[u] = totalShares[u]
        /\ \A b \in Address : b # caller => sharesOf'[t][b] = sharesOf[t][b]
        /\ totalShares'[t] = totalShares[t] - n
        /\ sharesOf'[t][caller] = sharesOf[t][caller] - n
    BY <1>2, PoolInvFacts
  <2>3. totalShares'[t] = totalShares[t] + (sharesOf'[t][caller] - sharesOf[t][caller])
    BY <2>2, PoolInvFacts
  <2>4. QED
    BY <2>1, <2>2, <2>3, SharesAddUpAfter
<1>7. AssetsWithinShares'
  BY <1>1, <1>2, PoolInvFacts DEF PoolInv, AssetsWithinShares
<1>8. QED
  BY <1>4, <1>5, <1>6, <1>7 DEF PoolInv

LEMMA MinOfTwo ==
  ASSUME NEW a \in Nat, NEW b \in Nat
  PROVE  /\ Min({a, b}) \in {a, b}
         /\ Min({a, b}) <= a /\ Min({a, b}) <= b
<1>1. \E x \in {a, b} : \A y \in {a, b} : x <= y
  <2>1. CASE a <= b
    BY <2>1
  <2>2. CASE b <= a
    BY <2>2
  <2>3. QED
    BY <2>1, <2>2
<1>2. Min({a, b}) = CHOOSE x \in {a, b} : \A y \in {a, b} : x <= y
  BY DEF Min
<1>3. QED
  BY <1>1, <1>2

\* The waterfall splits a claim, and the senior tranche is reached only when
\* the junior one is emptied.
LEMMA WaterfallSplits ==
  ASSUME TypeOK, NEW n \in Nat
  PROVE  /\ FromJunior(n) \in Nat /\ FromSenior(n) \in Nat
         /\ FromJunior(n) + FromSenior(n) = n
         /\ FromJunior(n) <= totalAssets["junior"]
         /\ FromSenior(n) # 0 => FromJunior(n) = totalAssets["junior"]
<1>1. totalAssets["junior"] \in Nat
  BY DEF TypeOK, Tranche
<1>2. /\ FromJunior(n) \in {n, totalAssets["junior"]}
      /\ FromJunior(n) <= n /\ FromJunior(n) <= totalAssets["junior"]
  BY <1>1, MinOfTwo DEF FromJunior
<1>3. QED
  BY <1>1, <1>2 DEF FromSenior

LEMMA PayoutKeepsPoolInv ==
  ASSUME PoolInv, NEW caller, NEW claimant \in Address \ {Pool}, NEW n \in Nat,
         Payout(caller, claimant, n)
  PROVE  PoolInv'
<1>1. PICK j \in Nat, s \in Nat :
        /\ j = FromJunior(n) /\ s = FromSenior(n) /\ j + s = n
        /\ j <= totalAssets["junior"]
  BY WaterfallSplits DEF PoolInv
<1>2. /\ s <= totalAssets["senior"]
      /\ totalAssets' = [totalAssets EXCEPT !["junior"] = @ - j, !["senior"] = @ - s]
      /\ Covers(usdc, Pool, n) /\ usdc' = Moved(usdc, Pool, claimant, n)
      /\ UNCHANGED <<poolVerdictContract, reinsuranceHook, totalShares, sharesOf,
                     premiumPool>>
  BY <1>1 DEF Payout
<1>3. usdc' \in Balances /\ usdc'[Pool] = usdc[Pool] - n
  BY <1>2, MovedPoolUsdc, PoolInvFacts, PoolAssumption
<1>4. /\ totalAssets'["junior"] = totalAssets["junior"] - j
      /\ totalAssets'["senior"] = totalAssets["senior"] - s
      /\ totalAssets' \in [Tranche -> Nat]
  BY <1>1, <1>2, PoolInvFacts DEF Tranche
<1>5. TypeOK'
  BY <1>2, <1>3, <1>4 DEF PoolInv, TypeOK
<1>6. Solvent'
  BY <1>1, <1>2, <1>3, <1>4, PoolInvFacts DEF Solvent
<1>7. SharesAddUp'
  BY <1>2 DEF PoolInv, SharesAddUp
<1>8. AssetsWithinShares'
  BY <1>1, <1>2, <1>4, PoolInvFacts DEF PoolInv, AssetsWithinShares, Tranche
<1>9. QED
  BY <1>5, <1>6, <1>7, <1>8 DEF PoolInv

LEMMA RecordPremiumKeepsPoolInv ==
  ASSUME PoolInv, NEW caller \in Address \ {Pool}, NEW n \in Nat,
         RecordPremium(caller, n)
  PROVE  PoolInv'
<1>1. usdc' \in Balances /\ usdc'[Pool] = usdc[Pool] + n
  BY MovedPoolUsdc, PoolInvFacts, PoolAssumption DEF RecordPremium
<1>2. TypeOK'
  BY <1>1 DEF PoolInv, TypeOK, RecordPremium, trancheVars
<1>3. Solvent'
  BY <1>1, PoolInvFacts DEF Solvent, RecordPremium, trancheVars
<1>4. SharesAddUp' /\ AssetsWithinShares'
  BY DEF PoolInv, RecordPremium, trancheVars, SharesAddUp, AssetsWithinShares
<1>5. QED
  BY <1>2, <1>3, <1>4 DEF PoolInv

\* Whatever other contracts and accounts do with USDC of their own.
LEMMA OtherUsdcKeepsPoolInv ==
  ASSUME PoolInv, usdc' \in Balances, usdc'[Pool] >= usdc[Pool],
         UNCHANGED <<poolVerdictContract, reinsuranceHook, trancheVars, premiumPool>>
  PROVE  PoolInv'
<1>1. TypeOK'
  BY DEF PoolInv, TypeOK, trancheVars
<1>2. Solvent'
  BY PoolInvFacts, <1>1, PoolAssumption DEF Solvent, trancheVars, TypeOK, Balances
<1>3. SharesAddUp' /\ AssetsWithinShares'
  BY DEF PoolInv, trancheVars, SharesAddUp, AssetsWithinShares
<1>4. QED
  BY <1>1, <1>2, <1>3 DEF PoolInv

LEMMA WiringKeepsPoolInv ==
  ASSUME PoolInv, Wiring
  PROVE  PoolInv'
<1>1. /\ UNCHANGED <<trancheVars, premiumPool, usdc>>
      /\ poolVerdictContract' \in Address /\ reinsuranceHook' \in Address
  BY PoolAssumption
  DEF Wiring, SetPoolVerdictContract, SetReinsurance, PoolInv, TypeOK
<1>2. QED
  BY <1>1 DEF PoolInv, TypeOK, Solvent, trancheVars, SharesAddUp, AssetsWithinShares

LEMMA TradeKeepsPoolInv ==
  ASSUME PoolInv, Trade
  PROVE  PoolInv'
<1>1. PICK caller \in PoolCallers, t \in Tranche :
        \/ \E n \in Deposits : Deposit(caller, t, n)
        \/ \E n \in 1 .. sharesOf[t][caller] : Redeem(caller, t, n)
  BY DEF Trade
<1>2. caller \in Address \ {Pool} /\ Deposits \subseteq Nat
  BY PoolAssumption
<1>3. CASE \E n \in Deposits : Deposit(caller, t, n)
  BY <1>2, <1>3, DepositKeepsPoolInv
<1>4. CASE \E n \in 1 .. sharesOf[t][caller] : Redeem(caller, t, n)
  BY <1>2, <1>4, RedeemKeepsPoolInv
<1>5. QED
  BY <1>1, <1>3, <1>4

LEMMA PremiumKeepsPoolInv ==
  ASSUME PoolInv, Premium
  PROVE  PoolInv'
BY RecordPremiumKeepsPoolInv, PoolAssumption DEF Premium

LEMMA OtherTransferKeepsPoolInv ==
  ASSUME PoolInv, OtherTransfer
  PROVE  PoolInv'
<1>1. PICK from \in PoolCallers, to \in Claimants \cup {Pool}, n \in Deposits :
        Covers(usdc, from, n) /\ usdc' = Moved(usdc, from, to, n)
  BY DEF OtherTransfer
<1>2. from \in Address /\ from # Pool /\ to \in Address /\ n \in Nat
  BY PoolAssumption
<1>3. usdc' \in Balances /\ usdc'[Pool] >= usdc[Pool]
  BY <1>1, <1>2, MovedPoolUsdc, PoolInvFacts
<1>4. QED
  BY <1>3, OtherUsdcKeepsPoolInv DEF OtherTransfer

LEMMA ClaimKeepsPoolInv ==
  ASSUME PoolInv, Claim
  PROVE  PoolInv'
BY PayoutKeepsPoolInv, PoolAssumption DEF Claim

-----------------------------------------------------------------------------
LEMMA InitPoolInv == Init => PoolInv
<1> SUFFICES ASSUME Init PROVE PoolInv
  OBVIOUS
<1>1. TypeOK
  BY PoolAssumption DEF Init, TypeOK, Balances
<1>2. Solvent
  <2>1. usdc[Pool] \in Nat
    BY <1>1, PoolAssumption DEF TypeOK, Balances
  <2>2. QED
    BY <2>1 DEF Init, Solvent, Tranche
<1>3. SharesAddUp
  <2>1. SUFFICES ASSUME NEW t \in Tranche
                 PROVE  totalShares[t] = SetSum(sharesOf[t], Address)
    BY DEF SharesAddUp
  <2>2. /\ sharesOf[t] \in [Address -> Int]
        /\ \A a \in Address : sharesOf[t][a] = 0
        /\ totalShares[t] = 0
    BY DEF Init
  <2>3. QED
    BY <2>2, SetSumZero, AddressesAreFinite
<1>4. AssetsWithinShares
  BY DEF Init, AssetsWithinShares
<1>5. QED
  BY <1>1, <1>2, <1>3, <1>4 DEF PoolInv

LEMMA NextPoolInv == PoolInv /\ [Next]_poolVars => PoolInv'
<1> SUFFICES ASSUME PoolInv, [Next]_poolVars PROVE PoolInv'
  OBVIOUS
<1>1. CASE UNCHANGED poolVars
  BY <1>1 DEF poolVars, trancheVars, PoolInv, TypeOK, Solvent, SharesAddUp,
              AssetsWithinShares
<1>2. QED
  BY <1>1, TradeKeepsPoolInv, ClaimKeepsPoolInv, PremiumKeepsPoolInv,
     WiringKeepsPoolInv, OtherTransferKeepsPoolInv DEF Next

LEMMA PoolInvHolds == Spec => []PoolInv
BY InitPoolInv, NextPoolInv, PTL DEF Spec

\* Every reachable state of the pool is well typed: no book, share or balance
\* goes below zero.
THEOREM PoolTypeCorrect == Spec => []TypeOK
<1>1. PoolInv => TypeOK
  BY DEF PoolInv
<1>2. QED
  BY <1>1, PoolInvHolds, PTL

\* What deposit, redeem, payout and recordPremium have booked to the tranches
\* and to premiums is always there, in any order of calls.
THEOREM PoolStaysSolvent == Spec => []Solvent
<1>1. PoolInv => Solvent
  BY DEF PoolInv
<1>2. QED
  BY <1>1, PoolInvHolds, PTL

\* The outstanding shares are the depositors', and no share is ever worth more
\* than the unit it was first issued for.
THEOREM SharesStayHeld == Spec => []SharesAreHeld
<1>1. PoolInv => SharesAreHeld
  BY PoolInvImplies
<1>2. QED
  BY <1>1, PoolInvHolds, PTL

-----------------------------------------------------------------------------
(***************************************************************************)
(* The two action properties.                                              *)
(***************************************************************************)
JuniorFirstStep ==
  totalShares' = totalShares /\ totalAssets'["senior"] < totalAssets["senior"]
    => totalAssets'["junior"] = 0

RoundingStep ==
  \A t \in Tranche :
    totalShares'[t] # totalShares[t] =>
      totalAssets'[t] * totalShares[t] >= totalAssets[t] * totalShares'[t]

LEMMA TradeChangesShares ==
  ASSUME PoolInv, Trade
  PROVE  totalShares' # totalShares
<1>1. PICK caller \in PoolCallers, t \in Tranche :
        \/ \E n \in Deposits : Deposit(caller, t, n)
        \/ \E n \in 1 .. sharesOf[t][caller] : Redeem(caller, t, n)
  BY DEF Trade
<1>2. totalShares[t] \in Nat
  BY PoolInvFacts
<1>3. ASSUME NEW n \in Deposits, Deposit(caller, t, n) PROVE totalShares'[t] # totalShares[t]
  <2>1. ToShare(t, n) \in Nat
    BY ConversionsTyped, PoolAssumption DEF PoolInv
  <2>2. totalShares'[t] = totalShares[t] + ToShare(t, n) /\ ToShare(t, n) # 0
    BY <1>3, PoolInvFacts DEF Deposit
  <2>3. QED
    BY <1>2, <2>1, <2>2
<1>4. ASSUME NEW n \in 1 .. sharesOf[t][caller], Redeem(caller, t, n)
      PROVE  totalShares'[t] # totalShares[t]
  <2>1. totalShares'[t] = totalShares[t] - n /\ n \in Nat /\ n # 0
    BY <1>4, PoolInvFacts DEF Redeem
  <2>2. QED
    BY <1>2, <2>1
<1>5. QED
  BY <1>1, <1>3, <1>4

LEMMA PayoutIsJuniorFirst ==
  ASSUME PoolInv, NEW caller, NEW claimant, NEW n \in Nat, Payout(caller, claimant, n)
  PROVE  JuniorFirstStep
<1>1. /\ FromJunior(n) \in Nat /\ FromSenior(n) \in Nat
      /\ FromSenior(n) # 0 => FromJunior(n) = totalAssets["junior"]
  BY WaterfallSplits DEF PoolInv
<1>2. /\ totalAssets'["junior"] = totalAssets["junior"] - FromJunior(n)
      /\ totalAssets'["senior"] = totalAssets["senior"] - FromSenior(n)
  BY PoolInvFacts DEF Payout, Tranche
<1>3. QED
  BY <1>1, <1>2, PoolInvFacts DEF JuniorFirstStep

\* A loss is charged to the senior tranche only in a step that leaves the
\* junior tranche empty, for any claims and any state of the tranches.
THEOREM WaterfallOrder == Spec => JuniorFirst
<1>1. PoolInv /\ [Next]_poolVars => [JuniorFirstStep]_poolVars
  <2> SUFFICES ASSUME PoolInv, Next PROVE JuniorFirstStep
    OBVIOUS
  <2>1. CASE Trade
    BY <2>1, TradeChangesShares DEF JuniorFirstStep
  <2>2. CASE Claim
    BY <2>2, PayoutIsJuniorFirst, PoolAssumption DEF Claim
  <2>3. CASE Premium \/ Wiring \/ OtherTransfer
    <3>1. totalAssets' = totalAssets
      BY <2>3 DEF Premium, RecordPremium, Wiring, SetPoolVerdictContract,
                  SetReinsurance, OtherTransfer, trancheVars
    <3>2. QED
      BY <3>1, PoolInvFacts DEF JuniorFirstStep
  <2>4. QED
    BY <2>1, <2>2, <2>3 DEF Next
<1>2. QED
  BY <1>1, PoolInvHolds, PTL DEF Spec, JuniorFirst, JuniorFirstStep

LEMMA DepositRounds ==
  ASSUME PoolInv, NEW caller, NEW t \in Tranche, NEW n \in Nat, Deposit(caller, t, n)
  PROVE  totalAssets'[t] * totalShares[t] >= totalAssets[t] * totalShares'[t]
<1>1. PICK A \in Nat, S \in Nat, s \in Nat :
        /\ A = totalAssets[t] /\ S = totalShares[t] /\ s = ToShare(t, n)
        /\ A <= S
        /\ S # 0 => s * A <= n * S
  BY ConversionsTyped, SharesAreNotCheap
  DEF PoolInv, TypeOK, AssetsWithinShares
<1>2. totalAssets'[t] = A + n /\ totalShares'[t] = S + s
  BY <1>1, PoolInvFacts DEF Deposit
<1>3. CASE S = 0
  BY <1>1, <1>2, <1>3
<1>4. CASE S # 0
  <2>1. (A + n) * S = A * S + n * S /\ A * (S + s) = A * S + s * A
    OBVIOUS
  <2>2. QED
    BY <1>1, <1>2, <1>4, <2>1
<1>5. QED
  BY <1>3, <1>4

LEMMA RedeemRounds ==
  ASSUME PoolInv, NEW caller, NEW t \in Tranche, NEW n \in Nat, Redeem(caller, t, n)
  PROVE  totalAssets'[t] * totalShares[t] >= totalAssets[t] * totalShares'[t]
<1>1. PICK A \in Nat, S \in Nat, a \in Nat :
        /\ A = totalAssets[t] /\ S = totalShares[t] /\ a = ToAsset(t, n)
        /\ a * S <= n * A
  BY ConversionsTyped, AssetsAreNotCheap DEF PoolInv, TypeOK
<1>2. totalAssets'[t] = A - a /\ totalShares'[t] = S - n
  BY <1>1, PoolInvFacts DEF Redeem
<1>3. (A - a) * S = A * S - a * S /\ A * (S - n) = A * S - n * A
  OBVIOUS
<1>4. QED
  BY <1>1, <1>2, <1>3

\* Entering or leaving a tranche never lowers what a share of the others is
\* worth, for any amounts: both conversions round against the caller.
THEOREM RoundingFavoursThePool == Spec => TradersPayTheRounding
<1>1. PoolInv /\ [Next]_poolVars => [RoundingStep]_poolVars
  <2> SUFFICES ASSUME PoolInv, Next, NEW t \in Tranche, totalShares'[t] # totalShares[t]
               PROVE  totalAssets'[t] * totalShares[t] >= totalAssets[t] * totalShares'[t]
    BY DEF RoundingStep
  <2>1. Trade
    BY DEF Next, Claim, Payout, Premium, RecordPremium, Wiring, SetPoolVerdictContract,
           SetReinsurance, OtherTransfer, trancheVars
  <2>2. PICK caller \in PoolCallers, u \in Tranche :
          \/ \E n \in Deposits : Deposit(caller, u, n)
          \/ \E n \in 1 .. sharesOf[u][caller] : Redeem(caller, u, n)
    BY <2>1 DEF Trade
  <2>3. u = t
    BY <2>2, PoolInvFacts DEF Deposit, Redeem
  <2>4. Deposits \subseteq Nat
    BY PoolAssumption
  <2>5. QED
    BY <2>2, <2>3, <2>4, DepositRounds, RedeemRounds
<1>2. QED
  BY <1>1, PoolInvHolds, PTL DEF Spec, TradersPayTheRounding, RoundingStep
=============================================================================
