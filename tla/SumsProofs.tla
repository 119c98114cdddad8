----------------------------- MODULE SumsProofs -----------------------------
(***************************************************************************)
(* What a caller of SumTo, and of MapThenSumSet over a finite set, needs to *)
(* know: the sum is an integer, it is zero on zeros, and changing one term *)
(* changes it by the difference.  The induction is on the least index, or  *)
(* the least size, at which a claim fails, which is first-order and so     *)
(* within the reach of the provers.                                        *)
(***************************************************************************)
EXTENDS Sums, FiniteSetsExt, FiniteSetTheorems, WellFoundedInduction, TLAPS

\* A set of naturals that is not empty has a least element.
LEMMA LeastNatural ==
  ASSUME NEW S \in SUBSET Nat, S # {}
  PROVE  \E m \in S : \A k \in S : m <= k
<1>1. PICK m \in S : \A k \in S : ~ (<<k, m>> \in OpToRel(<, Nat))
  BY NatLessThanWellFounded, WFMin
<1>2. \A k \in S : ~ (k < m)
  BY <1>1 DEF OpToRel
<1>3. QED
  BY <1>2

\* g is the table of partial sums of f up to n.
PartialSums(g, f, n) ==
  g = [k \in 0 .. n |-> IF k = 0 THEN 0 ELSE g[k - 1] + f[k]]

(***************************************************************************)
(* A table of partial sums exists: extend the one for the least length     *)
(* that has none.                                                          *)
(***************************************************************************)
LEMMA PartialSumsExist ==
  ASSUME NEW n \in Nat, NEW f \in [1 .. n -> Int]
  PROVE  \E g \in [0 .. n -> Int] : PartialSums(g, f, n)
<1> DEFINE Lacking == {m \in 0 .. n : ~ \E g \in [0 .. m -> Int] : PartialSums(g, f, m)}
<1> SUFFICES Lacking = {}
  OBVIOUS
<1> SUFFICES ASSUME Lacking # {} PROVE FALSE
  OBVIOUS
<1>1. PICK m \in Lacking : \A k \in Lacking : m <= k
  <2>1. Lacking \in SUBSET Nat
    OBVIOUS
  <2> HIDE DEF Lacking
  <2>2. QED
    BY <2>1, LeastNatural
<1>2. CASE m = 0
  <2> DEFINE g == [k \in 0 .. 0 |-> 0]
  <2>1. g \in [0 .. 0 -> Int] /\ PartialSums(g, f, 0)
    BY DEF PartialSums
  <2>2. QED
    BY <2>1, <1>2
<1>3. CASE m # 0
  <2>1. m - 1 \in 0 .. n /\ m - 1 \notin Lacking
    BY <1>1, <1>3
  <2>2. PICK h \in [0 .. m - 1 -> Int] : PartialSums(h, f, m - 1)
    BY <2>1
  <2> DEFINE g == [k \in 0 .. m |-> IF k = m THEN h[m - 1] + f[m] ELSE h[k]]
  <2>3. m \in 1 .. n /\ f[m] \in Int
    BY <1>3
  <2>4. g \in [0 .. m -> Int]
    BY <2>3
  <2>5. ASSUME NEW k \in 0 .. m
        PROVE  g[k] = IF k = 0 THEN 0 ELSE g[k - 1] + f[k]
    <3>1. CASE k = m
      BY <3>1, <2>3
    <3>2. CASE k # m
      <4>1. k \in 0 .. m - 1
        BY <3>2
      <4>2. h[k] = IF k = 0 THEN 0 ELSE h[k - 1] + f[k]
        BY <4>1, <2>2 DEF PartialSums
      <4>3. QED
        BY <4>1, <4>2, <3>2
    <3>3. QED
      BY <3>1, <3>2
  <2>6. PartialSums(g, f, m)
    BY <2>4, <2>5 DEF PartialSums
  <2>7. QED
    BY <2>4, <2>6
<1>4. QED
  BY <1>2, <1>3

(***************************************************************************)
(* Two tables of partial sums agree: look at the least index where they    *)
(* differ.                                                                 *)
(***************************************************************************)
LEMMA PartialSumsUnique ==
  ASSUME NEW n \in Nat, NEW f \in [1 .. n -> Int],
         NEW g, NEW h, PartialSums(g, f, n), PartialSums(h, f, n)
  PROVE  g[n] = h[n]
<1> DEFINE Differ == {k \in 0 .. n : g[k] # h[k]}
<1> SUFFICES ASSUME Differ # {} PROVE FALSE
  OBVIOUS
<1>1. PICK k \in Differ : \A j \in Differ : k <= j
  <2>1. Differ \in SUBSET Nat
    OBVIOUS
  <2> HIDE DEF Differ
  <2>2. QED
    BY <2>1, LeastNatural
<1>2. /\ g[k] = IF k = 0 THEN 0 ELSE g[k - 1] + f[k]
      /\ h[k] = IF k = 0 THEN 0 ELSE h[k - 1] + f[k]
  BY DEF PartialSums
<1>3. k # 0 => k - 1 \in 0 .. n /\ k - 1 \notin Differ
  BY <1>1
<1>4. QED
  BY <1>2, <1>3

LEMMA SumToIsPartialSum ==
  ASSUME NEW n \in Nat, NEW f \in [1 .. n -> Int],
         NEW g \in [0 .. n -> Int], PartialSums(g, f, n)
  PROVE  SumTo(f, n) = g[n]
<1> DEFINE s == CHOOSE h : PartialSums(h, f, n)
<1>1. PartialSums(s, f, n)
  OBVIOUS
<1>2. SumTo(f, n) = s[n]
  BY DEF SumTo, PartialSums
<1>3. QED
  BY <1>1, <1>2, PartialSumsUnique

\* The sum of integers is an integer.
LEMMA SumToType ==
  ASSUME NEW n \in Nat, NEW f \in [1 .. n -> Int]
  PROVE  SumTo(f, n) \in Int
<1>1. PICK g \in [0 .. n -> Int] : PartialSums(g, f, n)
  BY PartialSumsExist
<1>2. QED
  BY <1>1, SumToIsPartialSum

\* The sum of zeros is zero.
LEMMA SumToZero ==
  ASSUME NEW n \in Nat
  PROVE  SumTo([i \in 1 .. n |-> 0], n) = 0
<1> DEFINE f == [i \in 1 .. n |-> 0]
           g == [k \in 0 .. n |-> 0]
<1>1. g \in [0 .. n -> Int] /\ f \in [1 .. n -> Int]
  OBVIOUS
<1>2. PartialSums(g, f, n)
  BY DEF PartialSums
<1>3. QED
  BY <1>1, <1>2, SumToIsPartialSum

\* A term added to a sum may be added before or after another is replaced.
LEMMA AddLast ==
  \A a, x, y, z \in Int : (a + x) - y + z = (a - y + z) + x
OBVIOUS

\* Two sums whose terms agree except at i differ by the difference there.
LEMMA SumToUpdate ==
  ASSUME NEW n \in Nat, NEW f \in [1 .. n -> Int], NEW e \in [1 .. n -> Int],
         NEW i \in 1 .. n, \A j \in 1 .. n : j # i => e[j] = f[j]
  PROVE  SumTo(e, n) = SumTo(f, n) - f[i] + e[i]
<1>1. PICK g \in [0 .. n -> Int] : PartialSums(g, f, n)
  BY PartialSumsExist
<1> DEFINE h == [k \in 0 .. n |-> IF k < i THEN g[k] ELSE g[k] - f[i] + e[i]]
<1>2. h \in [0 .. n -> Int]
  OBVIOUS
<1>3. ASSUME NEW k \in 0 .. n
      PROVE  h[k] = IF k = 0 THEN 0 ELSE h[k - 1] + e[k]
  <2>1. g[k] = IF k = 0 THEN 0 ELSE g[k - 1] + f[k]
    BY <1>1 DEF PartialSums
  <2>2. k # 0 => k - 1 \in 0 .. n /\ k \in 1 .. n
    OBVIOUS
  <2>3. CASE k < i
    BY <2>1, <2>2, <2>3
  <2>4. CASE k = i
    <3>1. k # 0 /\ k - 1 < i /\ ~ (k < i)
      BY <2>4
    <3>2. h[k - 1] = g[k - 1] /\ h[k] = g[k] - f[i] + e[i]
      BY <3>1, <2>2
    <3>3. g[k] = g[k - 1] + f[i] /\ g[k - 1] \in Int /\ f[i] \in Int /\ e[i] \in Int
      BY <3>1, <2>1, <2>2, <2>4
    <3>4. QED
      BY <3>1, <3>2, <3>3, <2>4
  <2>5. CASE k > i
    <3>1. k # 0 /\ ~ (k - 1 < i) /\ ~ (k < i) /\ e[k] = f[k] /\ f[k] \in Int
      BY <2>5, <2>2
    <3>2. h[k - 1] = g[k - 1] - f[i] + e[i] /\ h[k] = g[k] - f[i] + e[i]
      BY <3>1, <2>2
    <3>3. g[k] = g[k - 1] + f[k] /\ g[k - 1] \in Int /\ f[i] \in Int /\ e[i] \in Int
      BY <3>1, <2>1, <2>2
    <3>4. (g[k - 1] + f[k]) - f[i] + e[i] = (g[k - 1] - f[i] + e[i]) + f[k]
      BY <3>1, <3>3, AddLast
    <3>5. QED
      BY <3>1, <3>2, <3>3, <3>4
  <2>6. QED
    BY <2>3, <2>4, <2>5
<1>4. PartialSums(h, e, n)
  BY <1>2, <1>3 DEF PartialSums
<1>5. SumTo(f, n) = g[n] /\ SumTo(e, n) = h[n]
  BY <1>1, <1>2, <1>4, SumToIsPartialSum
<1>6. QED
  BY <1>5

-----------------------------------------------------------------------------
(***************************************************************************)
(* Sums over a finite set: the fold of the community modules picks one     *)
(* element after the other, always the same from the same set.             *)
(***************************************************************************)
Pick(s) == CHOOSE x \in s : TRUE

SubtotalOf(g, f, s) == IF s = {} THEN 0 ELSE f[Pick(s)] + g[s \ {Pick(s)}]

\* g is the table of the sums of f over the subsets of S.
Subtotals(g, f, S) == g = [s \in SUBSET S |-> SubtotalOf(g, f, s)]

\* The sum of a function over a set: provers match this, and not a LAMBDA.
SetSum(f, S) == MapThenSumSet(LAMBDA a : f[a], S)

LEMMA SumIsSubtotal ==
  ASSUME NEW S, NEW f
  PROVE  SetSum(f, S) = (CHOOSE g : Subtotals(g, f, S))[S]
BY DEF SetSum, MapThenSumSet, MapThenFoldSet, Subtotals, SubtotalOf, Pick

LEMMA PickSmaller ==
  ASSUME NEW S, IsFiniteSet(S), NEW s \in SUBSET S
  PROVE  /\ Cardinality(s) \in Nat /\ Cardinality(s) <= Cardinality(S)
         /\ s # {} => /\ Pick(s) \in s
                      /\ Cardinality(s \ {Pick(s)}) = Cardinality(s) - 1
                      /\ Cardinality(s) > 0
<1>1. IsFiniteSet(s) /\ Cardinality(s) \in Nat /\ Cardinality(s) <= Cardinality(S)
  BY FS_Subset, FS_CardinalityType
<1>2. ASSUME s # {} PROVE Pick(s) \in s
  BY <1>2 DEF Pick
<1>3. ASSUME s # {} PROVE Cardinality(s \ {Pick(s)}) = Cardinality(s) - 1
  BY <1>1, <1>2, <1>3, FS_RemoveElement
<1>4. ASSUME s # {} PROVE Cardinality(s) > 0
  BY <1>1, <1>4, FS_EmptySet
<1>5. QED
  BY <1>1, <1>2, <1>3, <1>4

LEMMA SubtotalsExist ==
  ASSUME NEW S, IsFiniteSet(S), NEW f \in [S -> Int]
  PROVE  \E g \in [SUBSET S -> Int] : Subtotals(g, f, S)
<1> DEFINE Upto(g, n) ==
             \A s \in SUBSET S : Cardinality(s) <= n => g[s] = SubtotalOf(g, f, s)
           Lacking == {n \in Nat : ~ \E g \in [SUBSET S -> Int] : Upto(g, n)}
<1>1. Lacking = {}
  <2> SUFFICES ASSUME Lacking # {} PROVE FALSE
    OBVIOUS
  <2>1. PICK n \in Nat : n \in Lacking /\ \A k \in Lacking : n <= k
    <3>1. Lacking \in SUBSET Nat
      OBVIOUS
    <3> HIDE DEF Lacking
    <3>2. QED
      BY <3>1, LeastNatural
  <2>2. PICK h \in [SUBSET S -> Int] : n # 0 => Upto(h, n - 1)
    <3>1. CASE n = 0
      <4>1. [s \in SUBSET S |-> 0] \in [SUBSET S -> Int]
        OBVIOUS
      <4>2. QED
        BY <3>1, <4>1
    <3>2. CASE n # 0
      <4>1. n - 1 \in Nat /\ ~ (n <= n - 1)
        BY <3>2
      <4>2. n - 1 \notin Lacking
        BY <2>1, <4>1
      <4>3. QED
        BY <4>1, <4>2
    <3>3. QED
      BY <3>1, <3>2
  <2> DEFINE g == [s \in SUBSET S |-> IF Cardinality(s) = n THEN SubtotalOf(h, f, s) ELSE h[s]]
  <2>3. ASSUME NEW s \in SUBSET S PROVE SubtotalOf(h, f, s) \in Int
    <3>1. s # {} => Pick(s) \in S /\ s \ {Pick(s)} \in SUBSET S
      BY PickSmaller
    <3>2. QED
      BY <3>1 DEF SubtotalOf
  <2>4. g \in [SUBSET S -> Int]
    BY <2>3
  <2>5. ASSUME NEW s \in SUBSET S, Cardinality(s) <= n
        PROVE  g[s] = SubtotalOf(g, f, s)
    <3>1. SubtotalOf(g, f, s) = SubtotalOf(h, f, s)
      <4>1. CASE s = {}
        BY <4>1 DEF SubtotalOf
      <4>2. CASE s # {}
        <5>1. s \ {Pick(s)} \in SUBSET S /\ Cardinality(s \ {Pick(s)}) # n
          BY <2>5, <4>2, PickSmaller
        <5>2. g[s \ {Pick(s)}] = h[s \ {Pick(s)}]
          BY <5>1
        <5> HIDE DEF g
        <5>3. QED
          BY <4>2, <5>2 DEF SubtotalOf
      <4>3. QED
        BY <4>1, <4>2
    <3>2. CASE Cardinality(s) = n
      <4>1. g[s] = SubtotalOf(h, f, s)
        BY <3>2
      <4>2. QED
        BY <3>1, <4>1
    <3>3. CASE Cardinality(s) # n
      <4>1. n # 0 /\ Cardinality(s) <= n - 1
        <5>1. Cardinality(s) \in Nat
          BY PickSmaller
        <5>2. QED
          BY <2>5, <3>3, <5>1
      <4>2. g[s] = h[s] /\ h[s] = SubtotalOf(h, f, s)
        BY <2>2, <3>3, <4>1
      <4>3. QED
        BY <3>1, <4>2
    <3>4. QED
      BY <3>2, <3>3
  <2>6. Upto(g, n)
    BY <2>5
  <2>7. QED
    <3> HIDE DEF g, Upto
    <3>1. QED
      BY <2>1, <2>4, <2>6
<1>2. Cardinality(S) \in Nat
  BY FS_CardinalityType
<1>3. PICK g \in [SUBSET S -> Int] : Upto(g, Cardinality(S))
  BY <1>1, <1>2
<1>4. \A s \in SUBSET S : g[s] = SubtotalOf(g, f, s)
  BY <1>3, PickSmaller
<1>5. QED
  BY <1>4 DEF Subtotals

LEMMA SubtotalsUnique ==
  ASSUME NEW S, IsFiniteSet(S), NEW f \in [S -> Int], NEW g, NEW h,
         Subtotals(g, f, S), Subtotals(h, f, S)
  PROVE  g[S] = h[S]
<1> DEFINE Differ == {n \in Nat : \E s \in SUBSET S : Cardinality(s) = n /\ g[s] # h[s]}
<1>1. \A s \in SUBSET S : g[s] = SubtotalOf(g, f, s) /\ h[s] = SubtotalOf(h, f, s)
  BY DEF Subtotals
<1>2. Differ = {}
  <2> SUFFICES ASSUME Differ # {} PROVE FALSE
    OBVIOUS
  <2>1. PICK n \in Differ : \A k \in Differ : n <= k
    <3>1. Differ \in SUBSET Nat
      OBVIOUS
    <3> HIDE DEF Differ
    <3>2. QED
      BY <3>1, LeastNatural
  <2>2. PICK s \in SUBSET S : Cardinality(s) = n /\ g[s] # h[s]
    BY <2>1
  <2>3. s # {}
    BY <1>1, <2>2 DEF SubtotalOf
  <2>4. /\ s \ {Pick(s)} \in SUBSET S
        /\ Cardinality(s \ {Pick(s)}) = n - 1 /\ n - 1 \in Nat
    BY <2>2, <2>3, PickSmaller
  <2>5. n - 1 \notin Differ
    BY <2>1, <2>4
  <2>6. g[s \ {Pick(s)}] = h[s \ {Pick(s)}]
    BY <2>4, <2>5
  <2>7. QED
    BY <1>1, <2>2, <2>3, <2>6 DEF SubtotalOf
<1>3. Cardinality(S) \in Nat /\ S \in SUBSET S
  BY FS_CardinalityType
<1>4. QED
  BY <1>2, <1>3

LEMMA SumIsTable ==
  ASSUME NEW S, IsFiniteSet(S), NEW f \in [S -> Int],
         NEW g, Subtotals(g, f, S)
  PROVE  SetSum(f, S) = g[S]
<1> DEFINE c == CHOOSE h : Subtotals(h, f, S)
<1>1. Subtotals(c, f, S)
  OBVIOUS
<1>2. SetSum(f, S) = c[S]
  BY SumIsSubtotal
<1>3. QED
  BY <1>1, <1>2, SubtotalsUnique

\* A sum of integers over a finite set is an integer.
LEMMA SetSumType ==
  ASSUME NEW S, IsFiniteSet(S), NEW f \in [S -> Int]
  PROVE  SetSum(f, S) \in Int
<1>1. PICK g \in [SUBSET S -> Int] : Subtotals(g, f, S)
  BY SubtotalsExist
<1>2. QED
  BY <1>1, SumIsTable

\* Two sums over one set whose terms agree except at a differ by the difference
\* there.
LEMMA SetSumUpdate ==
  ASSUME NEW S, IsFiniteSet(S), NEW f \in [S -> Int], NEW e \in [S -> Int],
         NEW a \in S, \A b \in S : b # a => e[b] = f[b]
  PROVE  SetSum(e, S) = SetSum(f, S) - f[a] + e[a]
<1>1. PICK g \in [SUBSET S -> Int] : Subtotals(g, f, S)
  BY SubtotalsExist
<1> DEFINE h == [s \in SUBSET S |-> IF a \in s THEN g[s] - f[a] + e[a] ELSE g[s]]
<1>2. ASSUME NEW s \in SUBSET S PROVE h[s] = SubtotalOf(h, e, s)
  <2>1. g[s] = SubtotalOf(g, f, s)
    BY <1>1 DEF Subtotals
  <2>2. CASE s = {}
    BY <2>1, <2>2 DEF SubtotalOf
  <2>3. CASE s # {}
    <3>1. Pick(s) \in s /\ Pick(s) \in S /\ s \ {Pick(s)} \in SUBSET S
      BY <2>3, PickSmaller
    <3>2. PICK x \in S, t \in SUBSET S : x = Pick(s) /\ t = s \ {x}
      BY <3>1
    <3>3. g[s] = f[x] + g[t] /\ SubtotalOf(h, e, s) = e[x] + h[t]
      BY <2>1, <2>3, <3>2 DEF SubtotalOf
    <3>4. g[t] \in Int /\ f[x] \in Int /\ e[x] \in Int /\ f[a] \in Int /\ e[a] \in Int
      OBVIOUS
    <3>5. CASE x = a
      BY <3>1, <3>2, <3>3, <3>4, <3>5
    <3>6. CASE x # a
      BY <3>1, <3>2, <3>3, <3>4, <3>6
    <3>7. QED
      BY <3>5, <3>6
  <2>4. QED
    BY <2>2, <2>3
<1>3. Subtotals(h, e, S)
  BY <1>2 DEF Subtotals
<1>4. h[S] = g[S] - f[a] + e[a]
  OBVIOUS
<1> HIDE DEF h
<1>5. /\ SetSum(f, S) = g[S]
      /\ SetSum(e, S) = h[S]
  BY <1>1, <1>3, SumIsTable
<1>6. QED
  BY <1>4, <1>5

\* The sum of zeros over a set is zero.
LEMMA SetSumZero ==
  ASSUME NEW S, IsFiniteSet(S), NEW f \in [S -> Int], \A a \in S : f[a] = 0
  PROVE  SetSum(f, S) = 0
<1> DEFINE g == [s \in SUBSET S |-> 0]
<1>1. ASSUME NEW s \in SUBSET S PROVE g[s] = SubtotalOf(g, f, s)
  <2>1. CASE s = {}
    BY <2>1 DEF SubtotalOf
  <2>2. CASE s # {}
    <3>1. Pick(s) \in S /\ s \ {Pick(s)} \in SUBSET S
      BY <2>2, PickSmaller
    <3>2. QED
      BY <2>2, <3>1 DEF SubtotalOf
  <2>3. QED
    BY <2>1, <2>2
<1>2. Subtotals(g, f, S)
  BY <1>1 DEF Subtotals
<1>3. g[S] = 0
  OBVIOUS
<1> HIDE DEF g
<1>4. QED
  BY <1>2, <1>3, SumIsTable

\* A sum with one term that may differ from zero is that term.
LEMMA SetSumSingle ==
  ASSUME NEW S, IsFiniteSet(S), NEW a \in S, NEW n \in Int
  PROVE  SetSum([b \in S |-> IF b = a THEN n ELSE 0], S) = n
<1> DEFINE zero == [b \in S |-> 0]
           one == [b \in S |-> IF b = a THEN n ELSE 0]
<1>1. zero \in [S -> Int] /\ one \in [S -> Int]
  OBVIOUS
<1>2. /\ \A b \in S : zero[b] = 0
      /\ \A b \in S : b # a => one[b] = zero[b]
      /\ one[a] = n
  OBVIOUS
<1> HIDE DEF zero, one
<1>3. SetSum(zero, S) = 0
  BY <1>1, <1>2, SetSumZero
<1>4. SetSum(one, S) = SetSum(zero, S) - zero[a] + one[a]
  BY <1>1, <1>2, SetSumUpdate
<1>5. SetSum(one, S) = n
  BY <1>2, <1>3, <1>4
<1>6. QED
  BY <1>5 DEF one

\* Only the terms of the set count.
LEMMA SetSumRestrict ==
  ASSUME NEW S, IsFiniteSet(S), NEW f, \A a \in S : f[a] \in Int
  PROVE  SetSum(f, S) = SetSum([a \in S |-> f[a]], S)
<1> DEFINE r == [a \in S |-> f[a]]
           c == CHOOSE h : Subtotals(h, f, S)
<1>1. r \in [S -> Int]
  OBVIOUS
<1>2. ASSUME NEW h, NEW s \in SUBSET S PROVE SubtotalOf(h, r, s) = SubtotalOf(h, f, s)
  BY PickSmaller DEF SubtotalOf
<1>3. ASSUME NEW h PROVE Subtotals(h, r, S) <=> Subtotals(h, f, S)
  <2>. HIDE DEF r
  <2>. QED
    BY <1>2 DEF Subtotals
<1>. HIDE DEF r
<1>4. PICK g \in [SUBSET S -> Int] : Subtotals(g, r, S)
  BY <1>1, SubtotalsExist
<1>5. Subtotals(c, f, S)
  BY <1>3, <1>4
<1>6. SetSum(r, S) = c[S]
  BY <1>1, <1>3, <1>5, SumIsTable
<1>7. SetSum(f, S) = c[S]
  BY SumIsSubtotal
<1>. QED
  BY <1>6, <1>7 DEF r

\* A sum may be taken apart at any of its terms.
InAnyOrder(g, f, S) == \A u \in SUBSET S : \A a \in u : g[u] = f[a] + g[u \ {a}]

\* The subtotals may: look at the least set where they may not.
LEMMA SubtotalsInAnyOrder ==
  ASSUME NEW S, IsFiniteSet(S), NEW f, f \in [S -> Int],
         NEW g, g \in [SUBSET S -> Int], Subtotals(g, f, S)
  PROVE  InAnyOrder(g, f, S)
<1> DEFINE Splits(s) == \A x \in s : g[s] = f[x] + g[s \ {x}]
           Differ == {n \in Nat : \E s \in SUBSET S : Cardinality(s) = n /\ ~Splits(s)}
<1>1. \A s \in SUBSET S : g[s] = SubtotalOf(g, f, s)
  BY DEF Subtotals
<1>2. Differ = {}
  <2> SUFFICES ASSUME Differ # {} PROVE FALSE
    OBVIOUS
  <2>1. PICK n \in Differ : \A k \in Differ : n <= k
    <3>1. Differ \in SUBSET Nat
      OBVIOUS
    <3> HIDE DEF Differ
    <3>2. QED
      BY <3>1, LeastNatural
  <2>2. PICK s \in SUBSET S : Cardinality(s) = n /\ ~Splits(s)
    BY <2>1
  <2>3. PICK x \in s : g[s] # f[x] + g[s \ {x}]
    BY <2>2
  <2>4. PICK y \in s : y = Pick(s)
    BY <2>3, PickSmaller
  <2>5. g[s] = f[y] + g[s \ {y}]
    BY <1>1, <2>4 DEF SubtotalOf
  <2>6. x # y
    BY <2>3, <2>5
  <2>7. ASSUME NEW z \in s PROVE Splits(s \ {z})
    <3>1. IsFiniteSet(s) /\ Cardinality(s \ {z}) = Cardinality(s) - 1
      BY FS_Subset, FS_RemoveElement
    <3>2. Cardinality(s \ {z}) \in Nat /\ s \ {z} \in SUBSET S
      BY PickSmaller
    <3>3. Cardinality(s \ {z}) \notin Differ
      <4>1. ~ (n <= Cardinality(s \ {z}))
        BY <2>2, <3>1, <3>2
      <4>. HIDE DEF Differ
      <4>. QED
        BY <2>1, <4>1
    <3>. QED
      BY <3>2, <3>3
  <2>8. g[s \ {y}] = f[x] + g[(s \ {y}) \ {x}]
    BY <2>6, <2>7
  <2>9. g[s \ {x}] = f[y] + g[(s \ {x}) \ {y}]
    BY <2>6, <2>7
  <2>10. (s \ {y}) \ {x} = (s \ {x}) \ {y}
    OBVIOUS
  <2>11. /\ f[x] \in Int /\ f[y] \in Int
         /\ (s \ {x}) \ {y} \in SUBSET S /\ g[(s \ {x}) \ {y}] \in Int
    OBVIOUS
  <2>12. f[y] + (f[x] + g[(s \ {x}) \ {y}]) = f[x] + (f[y] + g[(s \ {x}) \ {y}])
    BY <2>11
  <2>. QED
    BY <2>3, <2>5, <2>8, <2>9, <2>10, <2>12
<1>3. ASSUME NEW u \in SUBSET S PROVE Cardinality(u) \in Nat
  BY PickSmaller
<1>. QED
  BY <1>2, <1>3 DEF InAnyOrder

\* One more element adds its term.
LEMMA SetSumAdd ==
  ASSUME NEW S, IsFiniteSet(S), NEW a, a \notin S,
         NEW f, f[a] \in Int, \A b \in S : f[b] \in Int
  PROVE  SetSum(f, S \cup {a}) = SetSum(f, S) + f[a]
<1> DEFINE T == S \cup {a}
           r == [b \in T |-> f[b]]
           q == [b \in S |-> f[b]]
<1>1. IsFiniteSet(T) /\ r \in [T -> Int] /\ q \in [S -> Int]
  BY FS_AddElement
<1>2. PICK g \in [SUBSET T -> Int] : Subtotals(g, r, T)
  <2>. HIDE DEF T, r
  <2>. QED
    BY <1>1, SubtotalsExist
<1> DEFINE h == [s \in SUBSET S |-> g[s]]
<1>3. ASSUME NEW s \in SUBSET S PROVE h[s] = SubtotalOf(h, q, s)
  <2>1. s \in SUBSET T /\ h[s] = g[s] /\ g[s] = SubtotalOf(g, r, s)
    BY <1>2 DEF Subtotals
  <2>2. CASE s = {}
    BY <2>1, <2>2 DEF SubtotalOf
  <2>3. CASE s # {}
    <3>1. Pick(s) \in S /\ s \ {Pick(s)} \in SUBSET S
      BY <2>3, PickSmaller
    <3>2. r[Pick(s)] = q[Pick(s)] /\ h[s \ {Pick(s)}] = g[s \ {Pick(s)}]
      BY <3>1
    <3>. HIDE DEF r, q, h
    <3>. QED
      BY <2>1, <2>3, <3>2 DEF SubtotalOf
  <2>. QED
    BY <2>2, <2>3
<1>4. Subtotals(h, q, S)
  <2>. HIDE DEF q
  <2>. QED
    BY <1>3 DEF Subtotals
<1>5. g[T] = r[a] + g[T \ {a}]
  <2>1. T \in SUBSET T /\ a \in T
    OBVIOUS
  <2>2. g \in [SUBSET T -> Int]
    OBVIOUS
  <2>. HIDE DEF T, r
  <2>3. Subtotals(g, r, T)
    BY <1>2
  <2>4. InAnyOrder(g, r, T)
    BY <1>1, <2>2, <2>3, SubtotalsInAnyOrder
  <2>. QED
    BY <2>1, <2>4 DEF InAnyOrder
<1>6. T \ {a} = S /\ r[a] = f[a] /\ h[S] = g[S] /\ g[S] \in Int
  OBVIOUS
<1>7. SetSum(r, T) = g[T] /\ SetSum(q, S) = h[S]
  <2>. HIDE DEF T, r, q, h
  <2>. QED
    BY <1>1, <1>2, <1>4, SumIsTable
<1>8. SetSum(f, T) = SetSum(r, T) /\ SetSum(f, S) = SetSum(q, S)
  <2>1. \A b \in T : f[b] \in Int
    OBVIOUS
  <2>. HIDE DEF T
  <2>. QED
    BY <1>1, <2>1, SetSumRestrict
<1>. QED
  <2>1. SetSum(f, T) = g[T] /\ SetSum(f, S) = g[S]
    BY <1>6, <1>7, <1>8, Zenon
  <2>2. g[T] = f[a] + g[S]
    BY <1>5, <1>6, Zenon
  <2>3. SetSum(f, T) = g[S] + f[a]
    BY <1>6, <2>1, <2>2
  <2>. QED
    BY <2>1, <2>3, Zenon

\* Two sums with the same terms.
LEMMA SetSumSame ==
  ASSUME NEW S, IsFiniteSet(S), NEW f, NEW e,
         \A a \in S : f[a] \in Int /\ e[a] = f[a]
  PROVE  SetSum(e, S) = SetSum(f, S)
<1>1. [a \in S |-> f[a]] = [a \in S |-> e[a]] /\ \A a \in S : e[a] \in Int
  OBVIOUS
<1>2. SetSum(f, S) = SetSum([a \in S |-> f[a]], S)
  BY SetSumRestrict
<1>3. SetSum(e, S) = SetSum([a \in S |-> e[a]], S)
  BY <1>1, SetSumRestrict
<1>. QED
  BY <1>1, <1>2, <1>3
=============================================================================
