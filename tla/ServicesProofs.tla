---------------------------- MODULE ServicesProofs ----------------------------
(***************************************************************************)
(* What the services keep, for every number of runs, orders and commits.   *)
(* In a behaviour one service works and the variables of the others stand  *)
(* still, so each of the invariants below is disturbed by one service.     *)
(***************************************************************************)
EXTENDS Services, SumsProofs, SequenceTheorems, TLAPS

-----------------------------------------------------------------------------
(***************************************************************************)
(* The name record.  Whatever resolver a run or one of its transactions    *)
(* names is the proxy, and the proxy is there: a run goes past its first   *)
(* transaction with no other, and a name once bound by us is taken by      *)
(* nobody.  The proxy carries the records of whoever deployed it, which    *)
(* are the run's own when it saw its own deployment succeed.               *)
(***************************************************************************)
Resolver == {NoResolver, Proxy, Foreign}
EnsTx == {"deploy", "approve", "commit", "register", "setResolver"}
NameTx == {"register", "setResolver"}

Deployed == proxy # Ens!NoRecords
OwnRecords == Ens!TextRecords(Label, facts)
OursAndBound == name.owner = Us /\ name.resolver = Proxy
Pending(kinds) == mempool # Ens!NoTx /\ mempool.kind \in kinds

EnsTypeOK ==
  /\ name \in [owner : {Us, Rival, NoOne}, resolver : Resolver]
  /\ resolver \in Resolver
  /\ receipt \in {"none", "success", "reverted"}
  /\ stage = "send" => receipt = "none"
  /\ mempool # Ens!NoTx => mempool.kind \in EnsTx /\ mempool.records # Ens!NoRecords

\* Nobody names a proxy that is not there.
ProxyIsThere ==
  /\ name.resolver = Proxy => Deployed
  /\ resolver = Proxy => Deployed
  /\ Pending(NameTx) => mempool.resolver = Proxy /\ Deployed

\* After its first transaction a run has a resolver, and before it none; it
\* repairs a name only that was bound to none.
RunHasResolver ==
  /\ step \in {"approve", "commit", "register", "setResolver"} => resolver = Proxy
  /\ step = "deploy" => resolver = NoResolver
  /\ step = "setResolver" \/ Pending({"setResolver"}) =>
       name.owner = Us /\ name.resolver # Foreign

\* A run that sent a deployment and has the proxy has its own.
OwnProxy ==
  /\ step \in {"preflight", "own"} => sent = {}
  /\ "deploy" \in sent => resolver = NoResolver \/ (resolver = Proxy /\ proxy = OwnRecords)
  /\ stage = "receipt" /\ mempool # Ens!NoTx => mempool.records = OwnRecords

\* A receipt means what it says, until the run has read it.
ReceiptIsTrue ==
  stage = "receipt" /\ receipt = "success" =>
    /\ step = "deploy" => proxy = OwnRecords
    /\ step \in NameTx => OursAndBound

Registered ==
  result = "registered" =>
    step = "idle" /\ name.owner = Us /\ name.resolver = resolver /\ resolver # NoResolver

EnsInv ==
  EnsTypeOK /\ ProxyIsThere /\ RunHasResolver /\ OwnProxy /\ ReceiptIsTrue /\ Registered

LEMMA RecordsDiffer ==
  ASSUME NEW l, NEW f
  PROVE  Ens!TextRecords(l, f) # Ens!NoRecords
<1>1. DOMAIN Ens!NoRecords = {"none"}
  BY DEF Ens!NoRecords
<1>2. DOMAIN Ens!TextRecords(l, f) = {"label", "texts"}
  BY DEF Ens!TextRecords
<1>. QED
  BY <1>1, <1>2

\* Reading the records of a resume gives the resume.
LEMMA RecordsReadBack ==
  ASSUME NEW f
  PROVE  Ens!FromEnsTextRecords(Ens!ToEnsTextRecords(Ens!BuildResume(f))) = Ens!BuildResume(f)
BY DEF Ens!FromEnsTextRecords, Ens!ToEnsTextRecords, Ens!ParseEnsTextValue, Ens!BuildResume

LEMMA BoundNameResolves == EnsInv => Ens!RegisteredNameIsBound
<1>. SUFFICES ASSUME EnsInv, result = "registered"
              PROVE  /\ name.owner = Us /\ name.resolver = resolver /\ resolver # NoResolver
                     /\ resolver = Proxy => proxy # Ens!NoRecords
                     /\ "deploy" \in sent => Ens!Resolved = Ens!BuildResume(facts)
  BY DEF Ens!RegisteredNameIsBound
<1>1. /\ name.owner = Us /\ name.resolver = resolver /\ resolver # NoResolver
      /\ resolver = Proxy => proxy # Ens!NoRecords
  BY DEF EnsInv, Registered, ProxyIsThere, Deployed
<1>2. ASSUME "deploy" \in sent PROVE Ens!Resolved = Ens!BuildResume(facts)
  <2>1. resolver = Proxy /\ proxy = OwnRecords
    BY <1>1, <1>2 DEF EnsInv, OwnProxy
  <2>2. proxy # Ens!NoRecords /\ proxy.label = Label
        /\ proxy.texts = Ens!ToEnsTextRecords(Ens!BuildResume(facts))
    BY <2>1, RecordsDiffer DEF OwnRecords, Ens!TextRecords
  <2>3. Ens!Resolved = Ens!FromEnsTextRecords(proxy.texts)
    BY <1>1, <2>1, <2>2 DEF Ens!Resolved
  <2>. QED
    BY <2>2, <2>3, RecordsReadBack
<1>. QED
  BY <1>1, <1>2

LEMMA EnsInitInv == Ens!EnsInit => EnsInv
<1>. SUFFICES ASSUME Ens!EnsInit PROVE EnsInv
  OBVIOUS
<1>. QED
  BY NamesAssumption
  DEF Ens!EnsInit, EnsInv, EnsTypeOK, ProxyIsThere, RunHasResolver, OwnProxy, ReceiptIsTrue,
      Registered, Resolver, Deployed, Pending

\* A transaction that is mined names the proxy, and only the name's owner
\* and nobody else's name is touched.
LEMMA MineKeepsInv == EnsInv /\ Ens!Mine => EnsInv'
<1>. SUFFICES ASSUME EnsInv, Ens!Mine PROVE EnsInv'
  OBVIOUS
<1>. DEFINE tx == mempool.kind
<1>. USE DEF EnsInv, EnsTypeOK, ProxyIsThere, RunHasResolver, OwnProxy, ReceiptIsTrue,
             Registered, OursAndBound, Deployed, OwnRecords, Pending
<1>1. tx \in EnsTx /\ mempool.records # Ens!NoRecords /\ mempool # Ens!NoTx
  BY DEF Ens!Mine
<1>2. mempool' = Ens!NoTx /\ UNCHANGED <<step, stage, resolver, facts, sent, runs, result>>
  BY DEF Ens!Mine
<1>3. CASE /\ Ens!Succeeds(tx) /\ Ens!Effect(tx, mempool.resolver, mempool.records)
           /\ receipt' = IF stage = "receipt" /\ step = tx THEN "success" ELSE receipt
  <2>1. CASE tx = "deploy"
    <3>1. proxy = Ens!NoRecords /\ proxy' = mempool.records /\ UNCHANGED name
      BY <1>3, <2>1 DEF Ens!Effect, Ens!Succeeds
    <3>2. name.resolver # Proxy /\ resolver # Proxy /\ ("deploy" \in sent => resolver = NoResolver)
      BY <3>1
    <3>3. EnsTypeOK'
      BY <1>1, <1>2, <1>3, <3>1
    <3>4. ProxyIsThere' /\ RunHasResolver'
      BY <1>1, <1>2, <3>1, <3>2
    <3>5. OwnProxy' /\ Registered'
      BY <1>2, <3>1, <3>2
    <3>6. step \in NameTx => resolver = Proxy
      BY DEF NameTx
    <3>7. ReceiptIsTrue'
      BY <1>1, <1>2, <1>3, <2>1, <3>1, <3>2, <3>6
    <3>. QED
      BY <3>3, <3>4, <3>5, <3>7
  <2>2. CASE tx \in {"approve", "commit"}
    <3>1. UNCHANGED <<name, proxy>>
      BY <1>3, <2>2 DEF Ens!Effect
    <3>. QED
      BY <1>2, <1>3, <2>2, <3>1 DEF NameTx
  <2>3. CASE tx = "register"
    <3>1. mempool.resolver = Proxy /\ Deployed /\ name.owner = NoOne
      BY <1>1, <1>3, <2>3 DEF NameTx, Ens!Succeeds, Ens!Available
    <3>2. UNCHANGED proxy /\ name' = [owner |-> Us, resolver |-> Proxy]
      BY <1>3, <2>3, <3>1 DEF Ens!Effect
    <3>. QED
      BY <1>2, <1>3, <2>3, <3>1, <3>2, NamesAssumption DEF NameTx, Resolver
  <2>4. CASE tx = "setResolver"
    <3>1. mempool.resolver = Proxy /\ Deployed /\ name.owner = Us /\ name.resolver # Foreign
      BY <1>1, <2>4 DEF NameTx
    <3>2. UNCHANGED proxy /\ name' = [name EXCEPT !.resolver = Proxy]
      BY <1>3, <2>4, <3>1 DEF Ens!Effect
    <3>3. name' \in [owner : {Us, Rival, NoOne}, resolver : Resolver] /\ OursAndBound'
      BY <3>1, <3>2 DEF Resolver
    <3>. QED
      BY <1>2, <1>3, <2>4, <3>1, <3>2, <3>3, NamesAssumption DEF NameTx, Resolver
  <2>. QED
    BY <1>1, <2>1, <2>2, <2>3, <2>4 DEF EnsTx
<1>4. CASE /\ UNCHANGED <<name, proxy, commitment, allowance, balance>>
           /\ receipt' = IF stage = "receipt" /\ step = tx THEN "reverted" ELSE receipt
  BY <1>2, <1>4
<1>. QED
  BY <1>3, <1>4 DEF Ens!Mine

\* The run goes on only with a proxy it has found or has seen deployed.
LEMMA OwnedBeforeKeepsInv == EnsInv /\ Ens!OwnedBefore => EnsInv'
<1>. SUFFICES ASSUME EnsInv, Ens!OwnedBefore PROVE EnsInv'
  OBVIOUS
<1>. USE DEF EnsInv, EnsTypeOK, ProxyIsThere, RunHasResolver, OwnProxy, ReceiptIsTrue,
             Registered, OursAndBound, Deployed, OwnRecords, Pending
<1>1. PICK found \in Ens!FindSpentProxy :
        \/ name.owner = Rival /\ Ens!Ends("aborted") /\ UNCHANGED resolver
        \/ /\ name.owner = Us /\ name.resolver # NoResolver
           /\ Ens!Ends("registered") /\ resolver' = name.resolver
        \/ /\ name.owner = Us /\ name.resolver = NoResolver
           /\ resolver' = found
           /\ IF found = NoResolver THEN Ens!Ends("aborted")
              ELSE Ens!GoTo("setResolver") /\ UNCHANGED result
        \/ /\ Ens!Available
           /\ resolver' = found
           /\ Ens!GoTo(IF found = NoResolver THEN "deploy" ELSE "approve")
           /\ UNCHANGED result
  BY DEF Ens!OwnedBefore
<1>2. found \in {NoResolver, Proxy} /\ (found = Proxy => Deployed)
  BY NamesAssumption DEF Ens!FindSpentProxy
<1>3. UNCHANGED <<name, proxy, mempool, facts, sent>> /\ step = "own" /\ sent = {}
  BY DEF Ens!OwnedBefore, Ens!chainVars
<1>4. name.owner \in {Us, Rival, NoOne} /\ name.resolver \in Resolver
  OBVIOUS
<1>5. CASE name.owner = Rival
  <2>1. Ens!Ends("aborted") /\ UNCHANGED resolver
    BY <1>1, <1>5, NamesAssumption DEF Ens!Available
  <2>. QED
    BY <1>3, <2>1 DEF Ens!Ends
<1>6. CASE name.owner = Us /\ name.resolver # NoResolver
  <2>1. Ens!Ends("registered") /\ resolver' = name.resolver
    BY <1>1, <1>6, NamesAssumption DEF Ens!Available
  <2>. QED
    BY <1>3, <1>4, <1>6, <2>1 DEF Ens!Ends
<1>7. CASE name.owner = Us /\ name.resolver = NoResolver
  <2>1. /\ resolver' = found
        /\ IF found = NoResolver THEN Ens!Ends("aborted")
           ELSE Ens!GoTo("setResolver") /\ UNCHANGED result
    BY <1>1, <1>7, NamesAssumption DEF Ens!Available
  <2>. QED
    BY <1>2, <1>3, <1>7, <2>1, NamesAssumption DEF Resolver, Ens!Ends, Ens!GoTo
<1>8. CASE name.owner = NoOne
  <2>1. /\ resolver' = found
        /\ Ens!GoTo(IF found = NoResolver THEN "deploy" ELSE "approve")
        /\ UNCHANGED result
    BY <1>1, <1>8, NamesAssumption DEF Ens!Available
  <2>. QED
    BY <1>2, <1>3, <1>8, <2>1, NamesAssumption DEF Resolver, Ens!GoTo
<1>. QED
  BY <1>4, <1>5, <1>6, <1>7, <1>8

\* What is sent names the run's resolver, which is the proxy where it counts,
\* and carries the run's records.
LEMMA SendKeepsInv == EnsInv /\ Ens!Send => EnsInv'
<1>. SUFFICES ASSUME EnsInv, Ens!Send PROVE EnsInv'
  OBVIOUS
<1>. USE DEF EnsInv, EnsTypeOK, ProxyIsThere, RunHasResolver, OwnProxy, ReceiptIsTrue,
             Registered, OursAndBound, Deployed, OwnRecords, Pending
<1>1. /\ UNCHANGED <<name, proxy, resolver, facts>> /\ step \in EnsTx /\ stage = "send"
  BY DEF Ens!Send, EnsTx
<1>2. CASE Ens!Ends("failed") /\ UNCHANGED <<mempool, sent>>
  BY <1>1, <1>2 DEF Ens!Ends, EnsTx
<1>3. CASE /\ mempool' = [kind |-> step, resolver |-> resolver, records |-> OwnRecords]
           /\ sent' = sent \cup {step}
           /\ stage' = "receipt" /\ receipt' = receipt
           /\ UNCHANGED <<step, result>>
  <2>1. /\ mempool'.kind = step /\ mempool'.resolver = resolver
        /\ mempool'.records = Ens!TextRecords(Label, facts)
    BY <1>3
  <2>2. mempool'.records # Ens!NoRecords
    BY <2>1, RecordsDiffer
  <2>3. EnsTypeOK' /\ Registered'
    BY <1>1, <1>3, <2>1, <2>2 DEF EnsTx
  <2>4. ProxyIsThere' /\ RunHasResolver'
    BY <1>1, <1>3, <2>1 DEF NameTx
  <2>5. step = "deploy" => resolver = NoResolver
    OBVIOUS
  <2>6. "deploy" \in sent' => resolver = NoResolver \/ (resolver = Proxy /\ proxy = OwnRecords)
    BY <1>3, <2>5
  <2>7. step' \notin {"preflight", "own"}
    BY <1>1, <1>3 DEF EnsTx
  <2>8. OwnProxy' /\ ReceiptIsTrue'
    BY <1>1, <1>3, <2>1, <2>6, <2>7
  <2>. QED
    BY <2>3, <2>4, <2>8
<1>. QED
  BY <1>2, <1>3 DEF Ens!Send

\* A receipt that was read let the run go on to what it stands for.
LEMMA ReceivedKeepsInv == EnsInv /\ Ens!Received => EnsInv'
<1>. SUFFICES ASSUME EnsInv, Ens!Received PROVE EnsInv'
  OBVIOUS
<1>. USE DEF EnsInv, EnsTypeOK, ProxyIsThere, RunHasResolver, OwnProxy, ReceiptIsTrue,
             Registered, OursAndBound, Deployed, OwnRecords, Pending
<1>1. UNCHANGED <<name, proxy, mempool, facts, sent>> /\ stage = "receipt"
  BY DEF Ens!Received, Ens!chainVars
<1>2. CASE Ens!Ends("failed") /\ UNCHANGED resolver
  BY <1>1, <1>2 DEF Ens!Ends
<1>3. CASE receipt = "success" /\ step = "deploy" /\ \E decoded \in BOOLEAN : Ens!DeployedAt(decoded)
  <2>1. PICK decoded \in BOOLEAN : Ens!DeployedAt(decoded)
    BY <1>3
  <2>2. CASE decoded
    <3>1. proxy = OwnRecords /\ proxy # Ens!NoRecords
      BY <1>1, <1>3, RecordsDiffer
    <3>. QED
      BY <1>1, <1>3, <2>1, <2>2, <3>1, NamesAssumption DEF Ens!DeployedAt, Ens!GoTo, Resolver
  <2>3. CASE ~decoded
    BY <1>1, <1>3, <2>1, <2>3 DEF Ens!DeployedAt, Ens!Ends
  <2>. QED
    BY <2>2, <2>3
<1>4. CASE /\ receipt = "success" /\ step = "approve"
           /\ Ens!GoTo("commit") /\ UNCHANGED <<resolver, result>>
  BY <1>1, <1>4 DEF Ens!GoTo
<1>5. CASE /\ receipt = "success" /\ step = "commit"
           /\ Ens!GoTo("register") /\ UNCHANGED <<resolver, result>>
  BY <1>1, <1>5 DEF Ens!GoTo
<1>6. CASE /\ receipt = "success" /\ step \in {"register", "setResolver"}
           /\ Ens!Ends("registered") /\ UNCHANGED resolver
  BY <1>1, <1>6, NamesAssumption DEF Ens!Ends, NameTx
<1>7. receipt \in {"success", "reverted"}
  BY DEF Ens!Received
<1>8. CASE receipt = "reverted"
  BY <1>2, <1>8 DEF Ens!Received
<1>9. CASE receipt = "success"
  BY <1>3, <1>4, <1>5, <1>6, <1>9 DEF Ens!Received
<1>. QED
  BY <1>7, <1>8, <1>9

\* The other steps of a run, and of the chain without it.
LEMMA OthersKeepInv ==
  EnsInv /\ (Ens!Begin \/ Ens!Preflight \/ Ens!Crash \/ Ens!Age \/ Ens!TakenByRival
               \/ Ens!OtherLabelRun) => EnsInv'
<1>. USE DEF EnsInv, EnsTypeOK, ProxyIsThere, RunHasResolver, OwnProxy, ReceiptIsTrue,
             Registered, OursAndBound, Deployed, OwnRecords, Pending
<1>1. ASSUME EnsInv, Ens!Begin PROVE EnsInv'
  BY <1>1, NamesAssumption DEF Ens!Begin, Ens!GoTo, Ens!chainVars, Resolver
<1>2. ASSUME EnsInv, Ens!Preflight PROVE EnsInv'
  <2>1. UNCHANGED <<name, proxy, mempool, resolver, facts, sent>> /\ step = "preflight"
    BY <1>2 DEF Ens!Preflight, Ens!chainVars
  <2>2. CASE Ens!Ends("aborted")
    BY <1>2, <2>1, <2>2 DEF Ens!Ends
  <2>3. CASE Ens!GoTo("own") /\ UNCHANGED result
    BY <1>2, <2>1, <2>3 DEF Ens!GoTo
  <2>. QED
    BY <1>2, <2>2, <2>3 DEF Ens!Preflight
<1>3. ASSUME EnsInv, Ens!Crash PROVE EnsInv'
  BY <1>3 DEF Ens!Crash, Ens!Ends, Ens!chainVars
<1>4. ASSUME EnsInv, Ens!Age PROVE EnsInv'
  BY <1>4 DEF Ens!Age
<1>5. ASSUME EnsInv, Ens!TakenByRival PROVE EnsInv'
  BY <1>5, NamesAssumption DEF Ens!TakenByRival, Ens!Available, Resolver, NameTx
<1>6. ASSUME EnsInv, Ens!OtherLabelRun PROVE EnsInv'
  <2>1. /\ proxy = Ens!NoRecords /\ mempool = Ens!NoTx
        /\ UNCHANGED <<name, mempool, step, stage, resolver, facts, sent, receipt, result>>
    BY <1>6 DEF Ens!OtherLabelRun
  <2>2. proxy' # Ens!NoRecords
    BY <1>6, RecordsDiffer DEF Ens!OtherLabelRun
  <2>3. OwnRecords # Ens!NoRecords
    BY RecordsDiffer
  <2>. QED
    BY <1>6, <2>1, <2>2, <2>3
<1>. QED
  BY <1>1, <1>2, <1>3, <1>4, <1>5, <1>6

LEMMA EnsNextKeepsInv == EnsInv /\ [Ens!EnsNext]_(Ens!ensVars) => EnsInv'
<1>1. ASSUME EnsInv, UNCHANGED Ens!ensVars PROVE EnsInv'
  BY <1>1
  DEF Ens!ensVars, EnsInv, EnsTypeOK, ProxyIsThere, RunHasResolver, OwnProxy, ReceiptIsTrue,
      Registered, OursAndBound, Deployed, OwnRecords, Pending
<1>. QED
  BY <1>1, MineKeepsInv, OwnedBeforeKeepsInv, SendKeepsInv, ReceivedKeepsInv, OthersKeepInv
  DEF Ens!EnsNext

\* The service of names is disturbed by itself only.
LEMMA ServicesKeepNames ==
  [ServicesNext]_servicesVars => [Ens!EnsNext]_(Ens!ensVars)
BY DEF ServicesNext, Serves, OthersIdle, servicesVars, ensVars, Ens!ensVars

\* A registration that reports REGISTERED leaves a name that is ours and bound
\* to the resolver it reports, which resolves to its resume if it deployed it:
\* for any number of runs, killed at any step and with their transactions mined
\* at any time, after and beside runs for other labels and with other resumes
\* (executeRegistrationPlan, register.ts).
THEOREM NamesAreBound == ServicesSpec => []RegisteredNameIsBound
<1>1. ServicesInit => EnsInv
  BY EnsInitInv DEF ServicesInit
<1>2. EnsInv /\ [ServicesNext]_servicesVars => EnsInv'
  BY ServicesKeepNames, EnsNextKeepsInv
<1>3. EnsInv => RegisteredNameIsBound
  BY BoundNameResolves DEF RegisteredNameIsBound
<1>. QED
  BY <1>1, <1>2, <1>3, PTL DEF ServicesSpec

-----------------------------------------------------------------------------
(***************************************************************************)
(* The engine by itself.  The amounts of a judgement fit the verdict       *)
(* contract's arithmetic for every loss, cap and deductible the contract   *)
(* admits.                                                                 *)
(***************************************************************************)
\* The deductibles _validate admits.
Deductible == 0 .. 5000

\* Rounding down: the remainder is dropped.
LEMMA Rounded ==
  ASSUME NEW n \in Nat
  PROVE  n \div BPS \in Nat /\ (n \div BPS) * BPS <= n
BY DEF BPS

LEMMA RestIsNat ==
  ASSUME NEW d \in Deductible
  PROVE  d \in Nat /\ BPS - d \in Nat
BY DEF BPS, Deductible

LEMMA ProductIsNat ==
  ASSUME NEW a \in Nat, NEW b \in Nat
  PROVE  a * b \in Nat
OBVIOUS

LEMMA ProductGrows ==
  ASSUME NEW a \in Nat, NEW b \in Nat, NEW c \in Nat, a <= b
  PROVE  a * c <= b * c
<1>1. PICK e \in Nat : b = a + e
  <2>1. b - a \in Nat /\ b = a + (b - a)
    OBVIOUS
  <2>. QED
    BY <2>1
<1>2. b * c = a * c + e * c
  BY <1>1
<1>3. a * c \in Nat /\ e * c \in Nat
  BY <1>1, ProductIsNat
<1>. QED
  BY <1>2, <1>3

\* The engine takes the deductible off the loss, the contract puts it on the
\* payout: (1 - d)(1 + d) <= 1, and both round down.
LEMMA DeductibleFits ==
  ASSUME NEW p \in Nat, NEW loss \in Nat, NEW d \in Deductible,
         p * BPS <= loss * (BPS - d)
  PROVE  p + (p * d) \div BPS <= loss
<1> DEFINE pd == p * d
           ld == loss * d
           ldd == ld * d
           q == pd \div BPS
<1>0. d \in Nat
  BY RestIsNat
<1>1. pd \in Nat /\ ld \in Nat /\ ldd \in Nat
  BY <1>0, ProductIsNat
<1>2. q \in Nat /\ q * BPS <= pd
  <2>. HIDE DEF pd
  <2>. QED
    BY <1>1, Rounded
<1>3. loss * (10000 - d) = loss * 10000 - ld
  BY <1>0
<1>4. p * 10000 <= loss * 10000 - ld
  BY <1>3 DEF BPS
<1>5. pd * 10000 <= ld * 10000 - ldd
  <2>1. loss * 10000 - ld \in Nat /\ p * 10000 \in Nat
    BY <1>1, <1>4
  <2>2. (p * 10000) * d <= (loss * 10000 - ld) * d
    BY <1>0, <1>4, <2>1, ProductGrows
  <2>3. (p * 10000) * d = pd * 10000
    BY <1>0
  <2>4. (loss * 10000 - ld) * d = ld * 10000 - ldd
    BY <1>0, <1>1
  <2>. QED
    BY <2>2, <2>3, <2>4
<1>. HIDE DEF pd, ld, ldd, q
<1>6. p * 10000 + pd <= loss * 10000
  BY <1>1, <1>4, <1>5
<1>7. (p + q) * 10000 <= loss * 10000
  BY <1>1, <1>2, <1>6 DEF BPS
<1>8. p + q <= loss
  BY <1>2, <1>7
<1>. QED
  BY <1>8 DEF q, pd

\* The rule of computePayout, and anything below it, fits the cap and the
\* loss.
LEMMA PayoutFits ==
  ASSUME NEW cap \in Nat, NEW loss \in Nat, NEW d \in Deductible, NEW payout \in Nat,
         payout <= IF (loss * (BPS - d)) \div BPS > cap THEN cap
                   ELSE (loss * (BPS - d)) \div BPS
  PROVE  payout <= cap /\ payout + (payout * d) \div BPS <= loss
<1> DEFINE whole == loss * (BPS - d)
           after == whole \div BPS
<1>1. BPS - d \in Nat
  BY RestIsNat
<1>2. whole \in Nat
  BY <1>1, ProductIsNat
<1>3. after \in Nat /\ after * BPS <= whole
  <2>. HIDE DEF whole
  <2>. QED
    BY <1>2, Rounded
<1>4. payout <= cap /\ payout <= after
  <2>. HIDE DEF whole
  <2>1. payout <= IF after > cap THEN cap ELSE after
    BY DEF whole
  <2>. HIDE DEF after
  <2>. QED
    BY <1>3, <2>1
<1>5. payout * BPS <= whole
  <2>. HIDE DEF whole, after
  <2>. QED
    BY <1>2, <1>3, <1>4 DEF BPS
<1>6. payout * BPS <= loss * (BPS - d)
  BY <1>5
<1>7. payout + (payout * d) \div BPS <= loss
  BY <1>6, DeductibleFits, Zenon
<1>. QED
  BY <1>4, <1>7

\* What the engine pays is an amount.
LEMMA PayoutIsNat ==
  ASSUME NEW p \in EnginePolicies, NEW loss \in Nat
  PROVE  ComputePayout(loss, p) \in Nat
<1> DEFINE whole == loss * (BPS - p.deductibleBps)
           after == whole \div BPS
<1>1. p.coverageCap \in Nat
  BY PoliciesAssumption
<1>2. BPS - p.deductibleBps \in Nat
  <2>1. p.deductibleBps \in Deductible
    BY PoliciesAssumption DEF Deductible
  <2>. QED
    BY <2>1, RestIsNat, Zenon
<1>3. whole \in Nat
  BY <1>2, ProductIsNat
<1>4. after \in Nat
  <2>. HIDE DEF whole
  <2>. QED
    BY <1>3, Rounded
<1>. HIDE DEF whole
<1>. QED
  BY <1>1, <1>4 DEF ComputePayout, whole

\* A covered judgement, with provenance or with a quarter of the payout, is
\* admissible.
LEMMA CoveredAdmissible ==
  ASSUME NEW p \in EnginePolicies, NEW t \in Transfers, NEW payout \in Nat,
         payout <= ComputePayout(t.amount, p)
  PROVE  /\ payout <= p.coverageCap
         /\ payout + DeductibleOf(payout, p) <= t.amount
<1>1. t.amount \in Nat
  BY TransfersAssumption
<1>2. p.coverageCap \in Nat
  BY PoliciesAssumption
<1>3. p.deductibleBps \in Deductible
  BY PoliciesAssumption DEF Deductible
<1>4. payout <= IF (t.amount * (BPS - p.deductibleBps)) \div BPS > p.coverageCap
                THEN p.coverageCap
                ELSE (t.amount * (BPS - p.deductibleBps)) \div BPS
  <2>1. ComputePayout(t.amount, p) =
          IF (t.amount * (BPS - p.deductibleBps)) \div BPS > p.coverageCap
          THEN p.coverageCap
          ELSE (t.amount * (BPS - p.deductibleBps)) \div BPS
    BY DEF ComputePayout
  <2>. QED
    BY <2>1, Zenon
<1>5. /\ payout <= p.coverageCap
      /\ payout + (payout * p.deductibleBps) \div BPS <= t.amount
  BY <1>1, <1>2, <1>3, <1>4, PayoutFits, Zenon
<1>. QED
  BY <1>5, Zenon DEF DeductibleOf

\* What the property says of one judgement.
RefusedIffUnproven(p, j) ==
  /\ Admissible(p, j) <=> ~(j.outcome = "COVERED" /\ j.alibi = "UNKNOWN")
  /\ j.outcome = "COVERED" => Admissible(p, [j EXCEPT !.alibi = "EXTERNAL"])
  /\ j.alibi = "OWNER_SIGNED" => j.payoutAmount = 0

\* Every judgement of judgeBreach is admissible but for a covered one without
\* provenance, whose amounts fit, and an order of the owner is worth nothing.
LEMMA JudgementRefusedIffUnproven ==
  ASSUME NEW p \in EnginePolicies, NEW t \in Transfers, NEW f \in KnownFacts
  PROVE  RefusedIffUnproven(p, JudgeBreach(p, t, f))
<1> DEFINE j == JudgeBreach(p, t, f)
           full == ComputePayout(t.amount, p)
<1>1. full \in Nat
  BY PayoutIsNat, TransfersAssumption
<1>2. full \div 4 \in Nat /\ full \div 4 <= full
  BY <1>1
<1>3. AlibiOf(t) \in {"OWNER_SIGNED", "EXTERNAL", "UNKNOWN"}
  BY DEF AlibiOf
<1>4. p.coverageCap \in Nat
  BY PoliciesAssumption
<1>5. CASE AlibiOf(t) = "OWNER_SIGNED"
  <2>1. j = Judged(t, "DENIED_OWNER_ORIGIN", 0)
    BY <1>5 DEF JudgeBreach
  <2>. QED
    BY <1>4, <1>5, <2>1 DEF Judged, Admissible, RefusedIffUnproven
<1>6. CASE AlibiOf(t) # "OWNER_SIGNED" /\ ~Violated(p, t, f)
  <2>1. j = Judged(t, "DISMISSED", 0)
    BY <1>6 DEF JudgeBreach
  <2>. QED
    BY <1>4, <1>6, <2>1 DEF Judged, Admissible, RefusedIffUnproven
<1>7. CASE AlibiOf(t) = "EXTERNAL" /\ Violated(p, t, f)
  <2>1. j = Judged(t, "COVERED", full)
    BY <1>7 DEF JudgeBreach
  <2>2. full <= p.coverageCap /\ full + DeductibleOf(full, p) <= t.amount
    BY <1>1, CoveredAdmissible
  <2>. QED
    BY <1>7, <2>1, <2>2 DEF Judged, Admissible, RefusedIffUnproven
<1>8. CASE AlibiOf(t) = "UNKNOWN" /\ Violated(p, t, f)
  <2>1. j = Judged(t, "COVERED", full \div 4)
    BY <1>8 DEF JudgeBreach
  <2>2. /\ full \div 4 <= p.coverageCap
        /\ full \div 4 + DeductibleOf(full \div 4, p) <= t.amount
    BY <1>2, CoveredAdmissible
  <2>. QED
    BY <1>8, <2>1, <2>2 DEF Judged, Admissible, RefusedIffUnproven
<1>. QED
  BY <1>3, <1>5, <1>6, <1>7, <1>8

\* Of the claims the engine judges the contract turns down those without
\* provenance and no other, and those not for their amounts; the owner's own
\* order costs the pool nothing: for every policy the registry accepts and
\* every amount (judgeBreach, computePayout, submitVerdict).
THEOREM OnlyUnprovenAreRefused == ClaimsSpec => []OnlyUnprovenClaimsAreRefused
<1>. USE DEF RefusedIffUnproven
<1>1. ClaimsInit => OnlyUnprovenClaimsAreRefused
  BY DEF ClaimsInit, OnlyUnprovenClaimsAreRefused
<1>2. OnlyUnprovenClaimsAreRefused /\ [ClaimsNext]_claims => OnlyUnprovenClaimsAreRefused'
  <2>1. ASSUME OnlyUnprovenClaimsAreRefused,
               NEW p \in EnginePolicies, NEW t \in Transfers, NEW f \in KnownFacts,
               JudgeClaim(p, t, f)
        PROVE  OnlyUnprovenClaimsAreRefused'
    <3> DEFINE new == [policy |-> p, judgement |-> JudgeBreach(p, t, f)]
    <3>1. claims' = claims \cup {new}
      BY <2>1 DEF JudgeClaim
    <3>2. RefusedIffUnproven(new.policy, new.judgement)
      BY JudgementRefusedIffUnproven
    <3>3. \A c \in claims : RefusedIffUnproven(c.policy, c.judgement)
      BY <2>1 DEF OnlyUnprovenClaimsAreRefused
    <3>. HIDE DEF new, RefusedIffUnproven
    <3>4. \A c \in claims' : RefusedIffUnproven(c.policy, c.judgement)
      BY <3>1, <3>2, <3>3
    <3>. QED
      BY <3>4 DEF OnlyUnprovenClaimsAreRefused, RefusedIffUnproven
  <2>2. ASSUME OnlyUnprovenClaimsAreRefused, UNCHANGED claims
        PROVE  OnlyUnprovenClaimsAreRefused'
    BY <2>2 DEF OnlyUnprovenClaimsAreRefused
  <2>. QED
    BY <2>1, <2>2 DEF ClaimsNext
<1>. QED
  BY <1>1, <1>2, PTL DEF ClaimsSpec

-----------------------------------------------------------------------------
(***************************************************************************)
(* The engine's claims.                                                    *)
(***************************************************************************)
LEMMA ServicesKeepClaims == [ServicesNext]_servicesVars => [ClaimsNext]_claims
BY DEF ServicesNext, Serves, OthersIdle, servicesVars

\* Among the services, too, the contract turns down the engine's claims
\* without provenance and no other (judgeBreach, computePayout, submitVerdict).
THEOREM OnlyUnprovenJudgedAreRefused == ServicesSpec => []OnlyUnprovenClaimsAreRefused
<1>1. ServicesSpec => ClaimsSpec
  <2>1. ServicesInit => ClaimsInit
    BY DEF ServicesInit
  <2>. QED
    BY <2>1, ServicesKeepClaims, PTL DEF ServicesSpec, ClaimsSpec
<1>. QED
  BY <1>1, OnlyUnprovenAreRefused, PTL

-----------------------------------------------------------------------------
(***************************************************************************)
(* The coverage API.                                                       *)
(***************************************************************************)
Books == [agentCount : Int, premiumVolume : Int]
StoredPolicy == [order : Orders, premium : Int, status : {"ACTIVE", "CANCELLED"}]

\* A number of at least one.
LEMMA ProductIsPositive ==
  ASSUME NEW a \in Nat \ {0}, NEW b \in Nat \ {0}
  PROVE  a * b \in Nat \ {0}
<1>1. a * b \in Nat
  BY ProductIsNat
<1>2. 1 * b <= a * b
  BY ProductGrows
<1>. QED
  BY <1>1, <1>2

LEMMA PremiumIsInt ==
  ASSUME NEW o \in Orders
  PROVE  Api!Premium(o) \in Int
<1> DEFINE r == [streak |-> 0, anomaly |-> 0, attempts |-> {}, claims |-> {}, lifetime |-> 0,
                 human |-> TRUE, sdk |-> ~o.watchOnly, watchOnly |-> o.watchOnly,
                 now |-> StartOfDay]
           f == Api!Quotes!Factors(r)
           Ratio == {<<1, 1>>, <<4, 5>>, <<9, 10>>, <<2, 1>>}
<1>1. /\ f.streak = <<1, 1>> /\ f.anomaly = <<1, 1>> /\ f.attempt = <<1, 1>>
      /\ f.claim = <<1, 1>> /\ f.human = <<4, 5>>
      /\ f.sdk \in Ratio /\ f.watchOnly \in Ratio
  BY DEF Api!Quotes!Factors, Api!Quotes!When, Api!Quotes!Recent, Api!Quotes!ClaimFactor
<1>. HIDE DEF f
<1>2. ASSUME NEW k \in {1, 2} PROVE Api!Quotes!Product(f, k) \in Nat \ {0}
  <2>1. ASSUME NEW q \in Ratio PROVE q[k] \in Nat \ {0}
    OBVIOUS
  <2>2. /\ f.streak[k] \in Nat \ {0} /\ f.anomaly[k] \in Nat \ {0}
        /\ f.attempt[k] \in Nat \ {0} /\ f.claim[k] \in Nat \ {0}
        /\ f.human[k] \in Nat \ {0} /\ f.sdk[k] \in Nat \ {0}
        /\ f.watchOnly[k] \in Nat \ {0}
    BY <1>1, <2>1
  <2>. DEFINE a == f.streak[k] * f.anomaly[k]
              b == a * f.attempt[k]
              c == b * f.claim[k]
              d == c * f.human[k]
              e == d * f.sdk[k]
  <2>3. a \in Nat \ {0}
    BY <2>2, ProductIsPositive
  <2>. HIDE DEF a
  <2>4. b \in Nat \ {0}
    BY <2>2, <2>3, ProductIsPositive
  <2>. HIDE DEF b
  <2>5. c \in Nat \ {0}
    BY <2>2, <2>4, ProductIsPositive
  <2>. HIDE DEF c
  <2>6. d \in Nat \ {0}
    BY <2>2, <2>5, ProductIsPositive
  <2>. HIDE DEF d
  <2>7. e \in Nat \ {0}
    BY <2>2, <2>6, ProductIsPositive
  <2>. HIDE DEF e
  <2>8. e * f.watchOnly[k] \in Nat \ {0}
    BY <2>2, <2>7, ProductIsPositive
  <2>. QED
    BY <2>8, Zenon DEF Api!Quotes!Product, a, b, c, d, e
<1>3. PICK n \in Nat, m \in Nat \ {0} : Api!Quotes!Multiplier(r) = <<n, m>>
  <2>1. Api!Quotes!Multiplier(r) = <<Api!Quotes!Product(f, 1), Api!Quotes!Product(f, 2)>>
    BY DEF Api!Quotes!Multiplier, f
  <2>2. Api!Quotes!Product(f, 1) \in Nat /\ Api!Quotes!Product(f, 2) \in Nat \ {0}
    BY <1>2
  <2>. QED
    BY <2>1, <2>2
<1>. DEFINE d == 50 * m
<1>4. Api!Premium(o) = (2 * o.cap * n + d) \div (2 * d)
  BY <1>3 DEF Api!Premium, Api!Quotes!MonthlyPremium
<1>5. 2 * o.cap * n \in Nat
  BY OrdersAssumption, ProductIsNat
<1>6. d \in Nat /\ 2 * d \in Nat \ {0}
  OBVIOUS
<1>. HIDE DEF d
<1>7. ASSUME NEW x \in Nat, NEW y \in Nat \ {0} PROVE x \div y \in Int
  OBVIOUS
<1>. QED
  BY <1>4, <1>5, <1>6, <1>7

\* The fleet of a platform and its premiums, of a store that is given.
FleetOf(st, p) == {i \in DOMAIN st : st[i].order.platform = p /\ st[i].status = "ACTIVE"}
PremiumsOf(st) == [i \in DOMAIN st |-> st[i].premium]
Volume(st, p) == SetSum(PremiumsOf(st), FleetOf(st, p))

Changes(st, nx, p, agents, volume) ==
  /\ Cardinality(FleetOf(nx, p)) = Cardinality(FleetOf(st, p)) + agents
  /\ Volume(nx, p) = Volume(st, p) + volume

LEMMA FleetIsFinite ==
  ASSUME NEW st \in Seq(StoredPolicy), NEW p
  PROVE  /\ IsFiniteSet(FleetOf(st, p)) /\ Cardinality(FleetOf(st, p)) \in Nat
         /\ \A i \in FleetOf(st, p) : PremiumsOf(st)[i] \in Int
         /\ Volume(st, p) \in Int
<1>1. IsFiniteSet(1 .. Len(st))
  BY FS_Interval
<1>2. IsFiniteSet(FleetOf(st, p))
  BY <1>1, FS_Subset DEF FleetOf
<1>3. Cardinality(FleetOf(st, p)) \in Nat
  BY <1>2, FS_CardinalityType
<1>4. \A i \in FleetOf(st, p) : PremiumsOf(st)[i] \in Int
  <2>1. ASSUME NEW i \in DOMAIN st PROVE st[i] \in StoredPolicy
    <3>1. DOMAIN st = 1 .. Len(st)
      OBVIOUS
    <3>. QED
      BY <3>1
  <2>2. ASSUME NEW i \in DOMAIN st PROVE PremiumsOf(st)[i] \in Int
    BY <2>1 DEF PremiumsOf, StoredPolicy
  <2>. QED
    BY <2>2 DEF FleetOf
<1>5. Volume(st, p) \in Int
  <2>1. SetSum(PremiumsOf(st), FleetOf(st, p))
          = SetSum([i \in FleetOf(st, p) |-> PremiumsOf(st)[i]], FleetOf(st, p))
    BY <1>2, <1>4, SetSumRestrict
  <2>2. [i \in FleetOf(st, p) |-> PremiumsOf(st)[i]] \in [FleetOf(st, p) -> Int]
    BY <1>4
  <2>3. SetSum([i \in FleetOf(st, p) |-> PremiumsOf(st)[i]], FleetOf(st, p)) \in Int
    BY <1>2, <2>2, SetSumType
  <2>. QED
    BY <2>1, <2>3 DEF Volume
<1>. QED
  BY <1>2, <1>3, <1>4, <1>5

\* A policy that joins a fleet brings its premium.
LEMMA FleetGrows ==
  ASSUME NEW st \in Seq(StoredPolicy), NEW nx \in Seq(StoredPolicy), NEW p, NEW n,
         n \notin FleetOf(st, p), FleetOf(nx, p) = FleetOf(st, p) \cup {n},
         \A i \in FleetOf(st, p) : PremiumsOf(nx)[i] = PremiumsOf(st)[i]
  PROVE  Changes(st, nx, p, 1, PremiumsOf(nx)[n])
<1> DEFINE S == FleetOf(st, p)
           f == PremiumsOf(st)
           e == PremiumsOf(nx)
<1>1. IsFiniteSet(S) /\ \A i \in S : f[i] \in Int
  BY FleetIsFinite
<1>2. \A i \in S \cup {n} : e[i] \in Int
  BY FleetIsFinite
<1>3. \A i \in S : e[i] = f[i]
  OBVIOUS
<1>4. Cardinality(S \cup {n}) = Cardinality(S) + 1
  BY <1>1, FS_AddElement
<1>. HIDE DEF S, f, e
<1>5. SetSum(e, S) = SetSum(f, S)
  BY <1>1, <1>3, SetSumSame
<1>6. SetSum(e, S \cup {n}) = SetSum(e, S) + e[n]
  <2>1. n \notin S
    BY DEF S
  <2>. QED
    BY <1>1, <1>2, <2>1, SetSumAdd
<1>. QED
  BY <1>4, <1>5, <1>6 DEF Changes, Volume, S, f, e

\* One that leaves it takes it away.
LEMMA FleetShrinks ==
  ASSUME NEW st \in Seq(StoredPolicy), NEW nx \in Seq(StoredPolicy), NEW p, NEW n,
         n \notin FleetOf(nx, p), FleetOf(st, p) = FleetOf(nx, p) \cup {n},
         PremiumsOf(nx) = PremiumsOf(st)
  PROVE  Changes(st, nx, p, -1, -PremiumsOf(st)[n])
<1>1. Changes(nx, st, p, 1, PremiumsOf(st)[n])
  BY FleetGrows
<1>2. PremiumsOf(st)[n] \in Int
  BY FleetIsFinite
<1>3. /\ Cardinality(FleetOf(st, p)) \in Nat /\ Cardinality(FleetOf(nx, p)) \in Nat
      /\ Volume(st, p) \in Int /\ Volume(nx, p) \in Int
  BY FleetIsFinite
<1>. QED
  BY <1>1, <1>2, <1>3 DEF Changes

LEMMA FleetUnchanged ==
  ASSUME NEW st \in Seq(StoredPolicy), NEW nx \in Seq(StoredPolicy), NEW p,
         FleetOf(nx, p) = FleetOf(st, p),
         \A i \in FleetOf(st, p) : PremiumsOf(nx)[i] = PremiumsOf(st)[i]
  PROVE  Changes(st, nx, p, 0, 0)
<1>1. IsFiniteSet(FleetOf(st, p)) /\ \A i \in FleetOf(st, p) : PremiumsOf(st)[i] \in Int
  BY FleetIsFinite
<1>2. SetSum(PremiumsOf(nx), FleetOf(st, p)) = SetSum(PremiumsOf(st), FleetOf(st, p))
  BY <1>1, SetSumSame
<1>3. Cardinality(FleetOf(st, p)) \in Nat /\ Volume(st, p) \in Int
  BY FleetIsFinite
<1>. QED
  BY <1>2, <1>3 DEF Changes, Volume

\* A new policy joins the fleet of its platform and no other.
LEMMA AppendChanges ==
  ASSUME NEW st \in Seq(StoredPolicy), NEW x \in StoredPolicy, x.status = "ACTIVE",
         NEW nx, nx = Append(st, x), NEW p
  PROVE  /\ nx \in Seq(StoredPolicy)
         /\ p = x.order.platform => Changes(st, nx, p, 1, x.premium)
         /\ p # x.order.platform => Changes(st, nx, p, 0, 0)
<1> DEFINE n == Len(st) + 1
<1>1. /\ nx \in Seq(StoredPolicy)
      /\ DOMAIN nx = 1 .. n /\ DOMAIN st = 1 .. Len(st) /\ Len(st) \in Nat
      /\ nx[n] = x /\ \A i \in DOMAIN st : nx[i] = st[i]
  OBVIOUS
<1>2. DOMAIN nx = DOMAIN st \cup {n} /\ n \notin DOMAIN st
  BY <1>1
<1>. HIDE DEF n
<1>3. \A i \in FleetOf(st, p) : PremiumsOf(nx)[i] = PremiumsOf(st)[i]
  BY <1>1, <1>2 DEF FleetOf, PremiumsOf
<1>4. PremiumsOf(nx)[n] = x.premium /\ n \notin FleetOf(st, p)
  BY <1>1, <1>2 DEF PremiumsOf, FleetOf
<1>5. ASSUME p = x.order.platform PROVE FleetOf(nx, p) = FleetOf(st, p) \cup {n}
  BY <1>1, <1>2, <1>5 DEF FleetOf
<1>6. ASSUME p # x.order.platform PROVE FleetOf(nx, p) = FleetOf(st, p)
  BY <1>1, <1>2, <1>6 DEF FleetOf
<1>7. ASSUME p = x.order.platform PROVE Changes(st, nx, p, 1, x.premium)
  <2>1. Changes(st, nx, p, 1, PremiumsOf(nx)[n])
    BY <1>1, <1>3, <1>4, <1>5, <1>7, FleetGrows
  <2>. QED
    BY <1>4, <2>1
<1>8. ASSUME p # x.order.platform PROVE Changes(st, nx, p, 0, 0)
  BY <1>1, <1>3, <1>6, <1>8, FleetUnchanged
<1>. QED
  BY <1>1, <1>7, <1>8

\* A cancelled policy leaves the fleet of its platform and no other.
LEMMA CancelChanges ==
  ASSUME NEW st \in Seq(StoredPolicy), NEW i \in DOMAIN st, st[i].status = "ACTIVE",
         NEW nx, nx = [st EXCEPT ![i].status = "CANCELLED"], NEW p
  PROVE  /\ nx \in Seq(StoredPolicy)
         /\ p = st[i].order.platform => Changes(st, nx, p, -1, -st[i].premium)
         /\ p # st[i].order.platform => Changes(st, nx, p, 0, 0)
<1>1. DOMAIN st = 1 .. Len(st) /\ Len(st) \in Nat /\ DOMAIN nx = DOMAIN st
  OBVIOUS
<1>2. \A j \in DOMAIN st : st[j] \in StoredPolicy
  BY <1>1
<1>3. /\ \A j \in DOMAIN st : j # i => nx[j] = st[j]
      /\ nx[i] = [st[i] EXCEPT !.status = "CANCELLED"]
  BY <1>2
<1>4. /\ nx[i] \in StoredPolicy /\ nx[i].status = "CANCELLED"
      /\ nx[i].order = st[i].order /\ nx[i].premium = st[i].premium
  BY <1>2, <1>3 DEF StoredPolicy
<1>5. nx \in Seq(StoredPolicy)
  <2>1. \A j \in DOMAIN nx : nx[j] \in StoredPolicy
    BY <1>1, <1>2, <1>3, <1>4
  <2>2. nx = [j \in 1 .. Len(st) |-> nx[j]]
    BY <1>1
  <2>. QED
    BY <1>1, <2>1, <2>2
<1>6. PremiumsOf(nx) = PremiumsOf(st) /\ PremiumsOf(st)[i] = st[i].premium
  BY <1>1, <1>3, <1>4 DEF PremiumsOf
<1>7. i \notin FleetOf(nx, p)
  BY <1>4 DEF FleetOf
<1>8. ASSUME p = st[i].order.platform PROVE FleetOf(st, p) = FleetOf(nx, p) \cup {i}
  BY <1>1, <1>3, <1>4, <1>8 DEF FleetOf
<1>9. ASSUME p # st[i].order.platform PROVE FleetOf(nx, p) = FleetOf(st, p)
  BY <1>1, <1>3, <1>4, <1>9 DEF FleetOf
<1>10. ASSUME p = st[i].order.platform PROVE Changes(st, nx, p, -1, -st[i].premium)
  <2>1. Changes(st, nx, p, -1, -PremiumsOf(st)[i])
    BY <1>5, <1>6, <1>7, <1>8, <1>10, FleetShrinks
  <2>. QED
    BY <1>6, <2>1
<1>11. ASSUME p # st[i].order.platform PROVE Changes(st, nx, p, 0, 0)
  BY <1>5, <1>6, <1>9, <1>11, FleetUnchanged
<1>. QED
  BY <1>5, <1>10, <1>11

\* The books of a platform; a platform without any has none to bill.
BooksOf(acc, p) ==
  IF acc[p] = NoAccount THEN [agentCount |-> 0, premiumVolume |-> 0] ELSE acc[p]

Matching(st, acc) ==
  \A p \in Platforms :
    /\ BooksOf(acc, p).agentCount = Cardinality(FleetOf(st, p))
    /\ BooksOf(acc, p).premiumVolume = Volume(st, p)

BooksFit(st, acc) ==
  /\ st \in Seq(StoredPolicy)
  /\ acc \in [Platforms -> Books \cup {NoAccount}]
  /\ Matching(st, acc)

ApiInv == BooksFit(store, accounts)

\* BooksMatchStore, with the sum as the lemmas about sums have it.
BooksAddUp ==
  \A p \in Platforms :
    /\ Api!Account(p).agentCount = Api!PlatformView(p).agents
    /\ Api!PlatformView(p).premiumVolume = SetSum(Api!Premiums, Api!Fleet(p))

LEMMA ApiCardinality == \A S : Api!Cardinality(S) = Cardinality(S)
BY Zenon DEF Api!Cardinality, Cardinality

LEMMA BooksAddUpMatch == BooksAddUp => Api!BooksMatchStore
<1>1. ASSUME NEW f, NEW S PROVE Api!MapThenSumSet(LAMBDA i : f[i], S) = SetSum(f, S)
  BY Zenon DEF SetSum, MapThenSumSet, MapThenFoldSet, Api!MapThenSumSet, Api!MapThenFoldSet
<1>. QED
  BY <1>1, Zenon DEF BooksAddUp, Api!BooksMatchStore

LEMMA ApiInvMatches == ApiInv => Api!BooksMatchStore
<1>. SUFFICES ASSUME ApiInv, NEW p \in Platforms
              PROVE  /\ Api!Account(p).agentCount = Api!PlatformView(p).agents
                     /\ Api!PlatformView(p).premiumVolume = SetSum(Api!Premiums, Api!Fleet(p))
  BY BooksAddUpMatch DEF BooksAddUp
<1>1. Api!Account(p) = BooksOf(accounts, p)
  BY DEF Api!Account, BooksOf
<1>2. Api!Fleet(p) = FleetOf(store, p) /\ Api!Premiums = PremiumsOf(store)
  BY DEF Api!Fleet, FleetOf, Api!Premiums, PremiumsOf
<1>3. SetSum(Api!Premiums, Api!Fleet(p)) = Volume(store, p)
  BY <1>2 DEF Volume
<1>4. /\ Api!PlatformView(p).agents = Cardinality(FleetOf(store, p))
      /\ Api!PlatformView(p).premiumVolume = BooksOf(accounts, p).premiumVolume
  BY <1>1, <1>2, ApiCardinality DEF Api!PlatformView
<1>. QED
  BY <1>1, <1>3, <1>4 DEF ApiInv, BooksFit, Matching

LEMMA EmptyStoreMatches ==
  ASSUME NEW st, st = <<>>, NEW acc, acc = [p \in Platforms |-> NoAccount]
  PROVE  BooksFit(st, acc)
<1>1. st \in Seq(StoredPolicy) /\ acc \in [Platforms -> Books \cup {NoAccount}]
  OBVIOUS
<1>2. ASSUME NEW p \in Platforms
      PROVE  FleetOf(st, p) = {} /\ Cardinality({}) = 0 /\ Volume(st, p) = 0
  <2>1. FleetOf(st, p) = {}
    BY DEF FleetOf
  <2>2. IsFiniteSet({}) /\ Cardinality({}) = 0
    BY FS_EmptySet
  <2>3. PremiumsOf(st) \in [{} -> Int]
    BY DEF PremiumsOf
  <2>4. SetSum(PremiumsOf(st), {}) = 0
    BY <2>2, <2>3, SetSumZero
  <2>. QED
    BY <2>1, <2>2, <2>4 DEF Volume
<1>3. \A p \in Platforms : BooksOf(acc, p) = [agentCount |-> 0, premiumVolume |-> 0]
  BY DEF BooksOf
<1>4. ASSUME NEW p \in Platforms
      PROVE  /\ BooksOf(acc, p).agentCount = Cardinality(FleetOf(st, p))
             /\ BooksOf(acc, p).premiumVolume = Volume(st, p)
  <2>1. BooksOf(acc, p).agentCount = 0 /\ BooksOf(acc, p).premiumVolume = 0
    BY <1>3
  <2>2. Cardinality(FleetOf(st, p)) = 0 /\ Volume(st, p) = 0
    BY <1>2
  <2>. QED
    BY <2>1, <2>2
<1>. QED
  BY <1>1, <1>4 DEF BooksFit, Matching

\* The fleet of q changes, and no other.
OnlyChanges(st, nx, q, agents, volume) ==
  /\ nx \in Seq(StoredPolicy)
  /\ Changes(st, nx, q, agents, volume)
  /\ \A p \in Platforms : p # q => Changes(st, nx, p, 0, 0)

\* The books move with the fleet.
LEMMA BookedKeepsMatching ==
  ASSUME ApiInv, NEW q \in Platforms, NEW agents \in Int, NEW volume \in Int,
         NEW st, OnlyChanges(store, st, q, agents, volume),
         NEW acc, acc = Api!Booked(q, agents, volume)
  PROVE  BooksFit(st, acc)
<1>1. /\ accounts \in [Platforms -> Books \cup {NoAccount}]
      /\ Api!Account(q) = BooksOf(accounts, q) /\ BooksOf(accounts, q) \in Books
  BY DEF ApiInv, BooksFit, Matching, Api!Account, BooksOf, Books
<1>. DEFINE new == [agentCount |-> BooksOf(accounts, q).agentCount + agents,
                     premiumVolume |-> BooksOf(accounts, q).premiumVolume + volume]
<1>3. acc = [accounts EXCEPT ![q] = new] /\ new \in Books
  BY <1>1 DEF Api!Booked, Books
<1>4. BooksOf(acc, q) = new
  BY <1>1, <1>3, OrdersAssumption DEF BooksOf, Books
<1>5. \A p \in Platforms : p # q => BooksOf(acc, p) = BooksOf(accounts, p)
  BY <1>1, <1>3 DEF BooksOf
<1>6. acc \in [Platforms -> Books \cup {NoAccount}] /\ st \in Seq(StoredPolicy)
  BY <1>1, <1>3 DEF OnlyChanges
<1>7. ASSUME NEW p \in Platforms
      PROVE  /\ BooksOf(acc, p).agentCount = Cardinality(FleetOf(st, p))
             /\ BooksOf(acc, p).premiumVolume = Volume(st, p)
  <2>1. /\ BooksOf(accounts, p).agentCount = Cardinality(FleetOf(store, p))
        /\ BooksOf(accounts, p).premiumVolume = Volume(store, p)
    BY DEF ApiInv, BooksFit, Matching
  <2>2. Cardinality(FleetOf(store, p)) \in Nat /\ Volume(store, p) \in Int
    BY FleetIsFinite DEF ApiInv, BooksFit
  <2>3. CASE p = q
    BY <1>4, <2>1, <2>3 DEF OnlyChanges, Changes
  <2>4. CASE p # q
    BY <1>5, <2>1, <2>2, <2>4 DEF OnlyChanges, Changes
  <2>. QED
    BY <2>3, <2>4
<1>. QED
  BY <1>6, <1>7 DEF BooksFit, Matching

\* The fleet and the books change together, in one step before any await.
LEMMA CreateKeepsBooks ==
  ASSUME ApiInv, NEW o \in Orders, Api!Create(o)
  PROVE  ApiInv'
<1> DEFINE x == [order |-> o, premium |-> Api!Premium(o), status |-> "ACTIVE"]
<1>1. x \in StoredPolicy /\ Api!Premium(o) \in Int /\ o.platform \in Platforms
  BY PremiumIsInt, OrdersAssumption DEF StoredPolicy
<1>2. store' = Append(store, x) /\ accounts' = Api!Booked(o.platform, 1, Api!Premium(o))
  BY DEF Api!Create
<1>3. ASSUME NEW p
      PROVE  /\ store' \in Seq(StoredPolicy)
             /\ p = o.platform => Changes(store, store', p, 1, Api!Premium(o))
             /\ p # o.platform => Changes(store, store', p, 0, 0)
  <2>1. x.status = "ACTIVE" /\ x.order = o /\ x.premium = Api!Premium(o)
    OBVIOUS
  <2>2. store \in Seq(StoredPolicy)
    BY DEF ApiInv, BooksFit
  <2>. HIDE DEF x
  <2>. QED
    BY <1>1, <1>2, <2>1, <2>2, AppendChanges
<1>. HIDE DEF x
<1>4. OnlyChanges(store, store', o.platform, 1, Api!Premium(o))
  BY <1>3 DEF OnlyChanges
<1>5. BooksFit(store', accounts')
  BY <1>1, <1>2, <1>4, BookedKeepsMatching
<1>. QED
  BY <1>5 DEF ApiInv

LEMMA CancelKeepsBooks ==
  ASSUME ApiInv, NEW i \in DOMAIN store, Api!Cancel(i)
  PROVE  ApiInv'
<1> DEFINE q == store[i].order.platform
           premium == store[i].premium
<1>1. store \in Seq(StoredPolicy) /\ store[i] \in StoredPolicy
  <2>1. store \in Seq(StoredPolicy)
    BY DEF ApiInv, BooksFit
  <2>. QED
    BY <2>1
<1>2. q \in Platforms /\ -premium \in Int
  BY <1>1, OrdersAssumption DEF StoredPolicy
<1>3. /\ store[i].status = "ACTIVE"
      /\ store' = [store EXCEPT ![i].status = "CANCELLED"]
      /\ accounts' = Api!Booked(q, -1, -premium)
  BY DEF Api!Cancel
<1>4. ASSUME NEW p
      PROVE  /\ store' \in Seq(StoredPolicy)
             /\ p = q => Changes(store, store', p, -1, -premium)
             /\ p # q => Changes(store, store', p, 0, 0)
  BY <1>1, <1>3, CancelChanges
<1>. HIDE DEF q, premium
<1>5. OnlyChanges(store, store', q, -1, -premium)
  BY <1>4 DEF OnlyChanges
<1>6. BooksFit(store', accounts')
  BY <1>2, <1>3, <1>5, BookedKeepsMatching
<1>. QED
  BY <1>6 DEF ApiInv

LEMMA ApiNextKeepsInv == ApiInv /\ [Api!ApiNext]_(Api!apiVars) => ApiInv'
<1>1. ASSUME ApiInv, UNCHANGED <<store, accounts>> PROVE ApiInv'
  BY <1>1 DEF ApiInv, BooksFit
<1>2. ASSUME ApiInv, NEW o \in Orders, Api!Post(o) PROVE ApiInv'
  BY <1>1, <1>2, CreateKeepsBooks DEF Api!Post
<1>3. ASSUME ApiInv, NEW i \in DOMAIN store, Api!Delete(i) PROVE ApiInv'
  BY <1>3, CancelKeepsBooks DEF Api!Delete
<1>4. ASSUME ApiInv, Api!Restart PROVE ApiInv'
  <2>1. store' = <<>> /\ accounts' = [p \in Platforms |-> NoAccount]
    BY <1>4 DEF Api!Restart
  <2>. QED
    BY <2>1, EmptyStoreMatches DEF ApiInv
<1>5. ASSUME NEW i,
             Api!Precheck(i) \/ Api!ReadVersion(i) \/ Api!Send(i) \/ Api!ReadHash(i) \/ Api!RpcFails(i)
      PROVE  UNCHANGED <<store, accounts>>
  BY <1>5 DEF Api!Precheck, Api!ReadVersion, Api!Send, Api!ReadHash, Api!RpcFails
<1>6. ASSUME Api!Mine PROVE UNCHANGED <<store, accounts>>
  BY <1>6 DEF Api!Mine
<1>7. ASSUME UNCHANGED Api!apiVars PROVE UNCHANGED <<store, accounts>>
  BY <1>7 DEF Api!apiVars
<1>. QED
  BY <1>1, <1>2, <1>3, <1>4, <1>5, <1>6, <1>7 DEF Api!ApiNext

LEMMA ServicesKeepBooks == [ServicesNext]_servicesVars => [Api!ApiNext]_(Api!apiVars)
BY DEF ServicesNext, Serves, OthersIdle, servicesVars, apiVars, Api!apiVars

\* What a platform is billed on is its fleet, for any number of orders and
\* platforms, whatever became of the requests that made them (store.ts,
\* coverage-bridge.ts).
THEOREM BooksAreTheFleet == ServicesSpec => []BooksMatchStore
<1>1. ServicesInit => ApiInv
  BY EmptyStoreMatches DEF ServicesInit, Api!ApiInit, ApiInv
<1>2. ApiInv /\ [ServicesNext]_servicesVars => ApiInv'
  BY ServicesKeepBooks, ApiNextKeepsInv
<1>3. ApiInv => BooksMatchStore
  BY ApiInvMatches DEF BooksMatchStore
<1>. QED
  BY <1>1, <1>2, <1>3, PTL DEF ServicesSpec

-----------------------------------------------------------------------------
(***************************************************************************)
(* The alibi store.  Links are only added, what is in memory is what is on *)
(* disk, and a link of the owner carries a signature over its digest: one  *)
(* such link among those of a text is enough for alibiFor.                 *)
(***************************************************************************)
EntryFields == {"digest", "text", "origin", "ownerSigned", "time", "teeCosigned",
                "prev", "signature"}

WellSigned(e) ==
  /\ e.ownerSigned \in BOOLEAN /\ DOMAIN e = EntryFields
  /\ e.ownerSigned => e.signature = e.digest

SignedChain(ch) ==
  /\ \E S : ch \in Seq(S)
  /\ \A i \in DOMAIN ch : WellSigned(ch[i])

OwnersLink(ch, text) == \E i \in DOMAIN ch : ch[i].text = text /\ ch[i].ownerSigned

AlibiInv ==
  /\ SignedChain(Alibi!Load)
  /\ up => chain = Alibi!Load
  /\ \A c \in inFlight : WellSigned(c.entry)
  /\ \A text \in kept : OwnersLink(Alibi!Load, text)

LEMMA EmptySigned == SignedChain(<<>>)
<1>1. <<>> \in Seq({})
  OBVIOUS
<1>. QED
  BY <1>1 DEF SignedChain

LEMMA EntrySigned ==
  ASSUME NEW prev, NEW text, NEW origin, NEW time
  PROVE  WellSigned(Alibi!EntryOn(prev, text, origin, time, FALSE))
BY DEF WellSigned, EntryFields, Alibi!EntryOn, Alibi!Digest

\* A link that is added leaves those before it as they are.
LEMMA AppendLink ==
  ASSUME NEW ch, SignedChain(ch), NEW e, WellSigned(e), NEW nx, nx = Append(ch, e)
  PROVE  /\ SignedChain(nx)
         /\ \A text : OwnersLink(ch, text) => OwnersLink(nx, text)
         /\ e.ownerSigned => OwnersLink(nx, e.text)
<1>1. PICK S : ch \in Seq(S)
  BY DEF SignedChain
<1>2. ch \in Seq(S \cup {e})
  BY <1>1
<1>3. /\ nx \in Seq(S \cup {e}) /\ Len(ch) \in Nat
      /\ DOMAIN nx = 1 .. Len(ch) + 1 /\ DOMAIN ch = 1 .. Len(ch)
      /\ \A i \in DOMAIN ch : nx[i] = ch[i]
      /\ nx[Len(ch) + 1] = e
  BY <1>2
<1>4. /\ DOMAIN ch \subseteq DOMAIN nx /\ Len(ch) + 1 \in DOMAIN nx
      /\ \A i \in DOMAIN nx : i \in DOMAIN ch \/ i = Len(ch) + 1
  BY <1>3
<1>5. \A i \in DOMAIN nx : WellSigned(nx[i])
  BY <1>3, <1>4 DEF SignedChain
<1>. QED
  BY <1>3, <1>4, <1>5 DEF SignedChain, OwnersLink

LEMMA OwnersLinkDecides ==
  ASSUME NEW ch, SignedChain(ch), NEW text, OwnersLink(ch, text)
  PROVE  Alibi!AlibiForText(ch, text) = [found |-> TRUE, ownerSigned |-> TRUE]
<1> DEFINE M == Alibi!Matches(ch, text)
<1>1. PICK i \in DOMAIN ch : ch[i].text = text /\ ch[i].ownerSigned
  BY DEF OwnersLink
<1>2. i \in M /\ M # {}
  BY <1>1 DEF Alibi!Matches
<1>3. CASE Alibi!Ambiguous(ch, text)
  BY <1>2, <1>3 DEF Alibi!AlibiForText
<1>4. CASE ~Alibi!Ambiguous(ch, text)
  <2>1. DOMAIN ch = 1 .. Len(ch) /\ Len(ch) \in Nat
    BY DEF SignedChain
  <2>2. M \in SUBSET Nat
    BY <2>1 DEF Alibi!Matches
  <2>3. Alibi!First(M) \in M
    <3>. HIDE DEF M
    <3>1. \E k \in M : \A j \in M : k <= j
      BY <1>2, <2>2, LeastNatural
    <3>. QED
      BY <3>1 DEF Alibi!First
  <2>. DEFINE e == ch[Alibi!First(M)]
  <2>4. WellSigned(e)
    BY <2>3 DEF SignedChain, Alibi!Matches
  <2>5. e.ownerSigned
    <3>1. \A j \in M : ch[i].ownerSigned = ch[j].ownerSigned
      BY <1>2, <1>4 DEF Alibi!Ambiguous
    <3>. QED
      BY <1>1, <2>3, <3>1
  <2>6. Alibi!VerdictFor(e) = [found |-> TRUE, ownerSigned |-> TRUE]
    <3>. HIDE DEF e
    <3>. QED
      BY <2>4, <2>5 DEF WellSigned, Alibi!VerdictFor
  <2>. QED
    BY <1>2, <1>4, <2>6 DEF Alibi!AlibiForText
<1>. QED
  BY <1>3, <1>4

LEMMA AlibiInitInv == Alibi!AlibiInit => AlibiInv
<1>. SUFFICES ASSUME Alibi!AlibiInit PROVE AlibiInv
  OBVIOUS
<1>1. Alibi!Load = <<>> /\ chain = <<>> /\ inFlight = {} /\ kept = {}
  BY DEF Alibi!AlibiInit, Alibi!Load, Alibi!Saved
<1>. QED
  BY <1>1, EmptySigned DEF AlibiInv

LEMMA FinishKeepsInv ==
  ASSUME AlibiInv, NEW c \in inFlight, NEW cosigned, Alibi!Finish(c, cosigned)
  PROVE  AlibiInv'
<1> DEFINE e == [c.entry EXCEPT !.teeCosigned = cosigned]
<1>1. /\ WellSigned(e)
      /\ e.text = c.entry.text /\ e.ownerSigned = c.entry.ownerSigned
  BY DEF AlibiInv, WellSigned, EntryFields
<1>2. /\ up /\ UNCHANGED up /\ chain' = Append(chain, e)
      /\ file' = Alibi!Saved(chain') /\ inFlight' = inFlight \ {c}
      /\ kept' = IF e.ownerSigned THEN kept \cup {e.text} ELSE kept
  BY <1>1 DEF Alibi!Finish, Alibi!Appended
<1>. HIDE DEF e
<1>3. Alibi!Load' = chain' /\ chain = Alibi!Load
  BY <1>2 DEF Alibi!Load, Alibi!Saved, AlibiInv
<1>4. /\ SignedChain(chain')
      /\ \A text : OwnersLink(chain, text) => OwnersLink(chain', text)
      /\ e.ownerSigned => OwnersLink(chain', e.text)
  BY <1>1, <1>2, <1>3, AppendLink DEF AlibiInv
<1>5. \A text \in kept' : OwnersLink(chain', text)
  BY <1>1, <1>2, <1>3, <1>4 DEF AlibiInv
<1>. QED
  BY <1>2, <1>3, <1>4, <1>5 DEF AlibiInv

LEMMA AlibiNextKeepsInv == AlibiInv /\ [Alibi!AlibiNext]_(Alibi!alibiVars) => AlibiInv'
<1>1. ASSUME AlibiInv, NEW text, NEW origin, NEW time, Alibi!Begin(text, origin, time)
      PROVE  AlibiInv'
  <2>1. PICK e : WellSigned(e) /\ inFlight' = inFlight \cup {[id |-> begun, entry |-> e]}
    BY <1>1, EntrySigned DEF Alibi!Begin
  <2>2. UNCHANGED <<up, chain, file, kept>>
    BY <1>1 DEF Alibi!Begin
  <2>. QED
    BY <1>1, <2>1, <2>2 DEF AlibiInv, Alibi!Load
<1>2. ASSUME AlibiInv, Alibi!Stop PROVE AlibiInv'
  BY <1>2 DEF Alibi!Stop, AlibiInv, Alibi!Load
<1>3. ASSUME AlibiInv, NEW c, Alibi!StopInWrite(c) PROVE AlibiInv'
  <2>1. up' = FALSE /\ inFlight' = {} /\ kept' = {} /\ Alibi!Load' = <<>>
    BY <1>3 DEF Alibi!StopInWrite, Alibi!Load
  <2>. QED
    BY <2>1, EmptySigned DEF AlibiInv
<1>4. ASSUME AlibiInv, Alibi!Start PROVE AlibiInv'
  BY <1>4 DEF Alibi!Start, AlibiInv, Alibi!Load
<1>5. ASSUME AlibiInv, UNCHANGED Alibi!alibiVars PROVE AlibiInv'
  BY <1>5 DEF Alibi!alibiVars, AlibiInv, Alibi!Load
<1>. QED
  BY <1>1, <1>2, <1>3, <1>4, <1>5, FinishKeepsInv DEF Alibi!AlibiNext

LEMMA ServicesKeepAlibi ==
  [ServicesNext]_servicesVars => [Alibi!AlibiNext]_(Alibi!alibiVars)
BY DEF ServicesNext, Serves, OthersIdle, servicesVars, alibiVars, Alibi!alibiVars

\* An instruction of the owner stays the owner's at claim time, for any
\* number of commits in flight and of stops; only a write cut short loses it
\* (commit, alibiFor, JsonChainStore).
THEOREM OwnersTextsStay == ServicesSpec => []OwnerTextStaysOwners
<1>1. ServicesInit => AlibiInv
  BY AlibiInitInv DEF ServicesInit
<1>2. AlibiInv /\ [ServicesNext]_servicesVars => AlibiInv'
  BY ServicesKeepAlibi, AlibiNextKeepsInv
<1>3. AlibiInv => OwnerTextStaysOwners
  BY OwnersLinkDecides DEF AlibiInv, OwnerTextStaysOwners, Alibi!OwnerTextStaysOwners
<1>. QED
  BY <1>1, <1>2, <1>3, PTL DEF ServicesSpec

-----------------------------------------------------------------------------
(***************************************************************************)
(* The mirror.  Logs, posted calls and events are sequences that grow.     *)
(***************************************************************************)
IsSequence(s) == \E S : s \in Seq(S)

ExtendedBy(s, e, nx) ==
  /\ IsSequence(nx)
  /\ Len(s) \in Nat /\ Len(nx) = Len(s) + 1
  /\ DOMAIN s = 1 .. Len(s) /\ DOMAIN nx = 1 .. Len(s) + 1
  /\ \A i \in DOMAIN s : nx[i] = s[i]
  /\ nx[Len(s) + 1] = e

LEMMA AppendExtends ==
  ASSUME NEW s, IsSequence(s), NEW e
  PROVE  ExtendedBy(s, e, Append(s, e)) /\ ExtendedBy(s, e, s \o <<e>>)
<1>1. PICK S : s \in Seq(S)
  BY DEF IsSequence
<1>2. s \in Seq(S \cup {e}) /\ <<e>> \in Seq(S \cup {e})
  BY <1>1
<1>3. Append(s, e) \in Seq(S \cup {e}) /\ s \o <<e>> \in Seq(S \cup {e})
  BY <1>2
<1>. QED
  BY <1>2, <1>3 DEF IsSequence, ExtendedBy

LEMMA SequenceDomain ==
  ASSUME NEW s, IsSequence(s)
  PROVE  Len(s) \in Nat /\ DOMAIN s = 1 .. Len(s)
BY DEF IsSequence

\* The logs of wl are those of vl and perhaps more.
Grows(vl, wl) ==
  /\ DOMAIN vl \subseteq DOMAIN wl
  /\ \A k \in DOMAIN vl : wl[k] = vl[k]

(***************************************************************************)
(* A call as it is posted, and later the event it leaves: it is made of a  *)
(* log that has an outcome, and says what that outcome is worth.           *)
(***************************************************************************)
Worth(entry) == CHOOSE o \in Mirror!OutcomeOf(entry) : TRUE

CallFor(c, vl, lf, k) ==
  /\ Mirror!OutcomeOf(vl[k]) # {}
  /\ c.digest = Mirror!DigestOf(vl[k])
  /\ c.name \in {"ValidationRequest", "ValidationResponse", "NewFeedback"}
  /\ c.name # "NewFeedback" =>
       c.requestHash = Mirror!RequestHash(vl[k].agent, k, Mirror!DigestOf(vl[k]))
  /\ c.name = "ValidationResponse" => c.response = Mirror!SCORE_BY_OUTCOME[Worth(vl[k])]
  /\ c.name = "NewFeedback" =>
       c.value = Mirror!VALUE_BY_OUTCOME[Worth(vl[k])] /\ c.life \in 0 .. lf

IsCall(c, vl, lf) == \E k \in DOMAIN vl : CallFor(c, vl, lf, k)

LEMMA CallsStay ==
  ASSUME NEW c, NEW vl, NEW wl, NEW lf \in Nat, NEW lg \in Nat,
         IsCall(c, vl, lf), Grows(vl, wl), lf <= lg
  PROVE  IsCall(c, wl, lg)
<1>1. PICK k \in DOMAIN vl : CallFor(c, vl, lf, k)
  BY DEF IsCall
<1>2. k \in DOMAIN wl /\ wl[k] = vl[k] /\ \A l \in 0 .. lf : l \in 0 .. lg
  BY DEF Grows
<1>. QED
  BY <1>1, <1>2 DEF IsCall, CallFor

LEMMA CallIsCall ==
  ASSUME NEW k \in DOMAIN vlog, Mirror!OutcomeOf(vlog[k]) # {}, life \in Nat,
         NEW n \in {"ValidationRequest", "ValidationResponse", "NewFeedback"}
  PROVE  /\ IsCall(Mirror!Call(n, k), vlog, life)
         /\ Mirror!Call(n, k).name = n
         /\ Mirror!Call(n, k).digest = Mirror!DigestOf(vlog[k])
         /\ n = "NewFeedback" => Mirror!Call(n, k).life = life
<1>1. CASE n = "ValidationRequest"
  BY <1>1 DEF IsCall, CallFor, Mirror!Call, Mirror!HashAt
<1>2. CASE n = "ValidationResponse"
  BY <1>2 DEF IsCall, CallFor, Mirror!Call, Mirror!HashAt, Worth
<1>3. CASE n = "NewFeedback"
  <2>1. Mirror!Call(n, k) = [name |-> n, value |-> Mirror!VALUE_BY_OUTCOME[Worth(vlog[k])],
                             digest |-> Mirror!DigestOf(vlog[k]), life |-> life]
    BY <1>3 DEF Mirror!Call, Worth
  <2>2. life \in 0 .. life
    OBVIOUS
  <2>. QED
    BY <1>3, <2>1, <2>2 DEF IsCall, CallFor
<1>. QED
  BY <1>1, <1>2, <1>3

(***************************************************************************)
(* What is left of a plan.                                                 *)
(***************************************************************************)
Posts == {<<"ValidationRequest", "ValidationResponse", "NewFeedback">>,
          <<"ValidationResponse", "NewFeedback">>, <<"NewFeedback">>}
Plans == Posts \cup {<<"known", "ValidationRequest", "ValidationResponse", "NewFeedback">>,
                     <<"known", "NewFeedback">>}

\* A tuple with one element more in front.
LEMMA TuplePrefixed ==
  ASSUME NEW S, NEW a \in S, NEW b \in S, NEW c \in S, NEW d \in S
  PROVE  <<a>> \o <<b, c, d>> = <<a, b, c, d>> /\ <<a>> \o <<b>> = <<a, b>>
<1>. DEFINE s == <<a>> \o <<b, c, d>>
            t == <<a, b, c, d>>
            u == <<a>> \o <<b>>
            v == <<a, b>>
<1>1. /\ <<a>> \in Seq(S) /\ <<b>> \in Seq(S) /\ <<b, c, d>> \in Seq(S)
      /\ Len(<<a>>) = 1 /\ Len(<<b>>) = 1 /\ Len(<<b, c, d>>) = 3
  OBVIOUS
<1>2. s \in Seq(S) /\ Len(s) = 4 /\ s[1] = a /\ s[2] = b /\ s[3] = c /\ s[4] = d
  BY <1>1, ConcatProperties
<1>3. t \in Seq(S) /\ Len(t) = 4 /\ t[1] = a /\ t[2] = b /\ t[3] = c /\ t[4] = d
  OBVIOUS
<1>4. u \in Seq(S) /\ Len(u) = 2 /\ u[1] = a /\ u[2] = b
  BY <1>1, ConcatProperties
<1>5. v \in Seq(S) /\ Len(v) = 2 /\ v[1] = a /\ v[2] = b
  OBVIOUS
<1>. HIDE DEF s, t, u, v
<1>6. /\ \A i \in 1 .. 4 : i = 1 \/ i = 2 \/ i = 3 \/ i = 4
      /\ \A i \in 1 .. 2 : i = 1 \/ i = 2
  OBVIOUS
<1>7. s = t
  BY <1>2, <1>3, <1>6, SeqEqual
<1>8. u = v
  BY <1>4, <1>5, <1>6, SeqEqual
<1>. QED
  BY <1>7, <1>8 DEF s, t, u, v

\* A tuple without its first element.
LEMMA TupleTail ==
  ASSUME NEW S, NEW a \in S, NEW b \in S, NEW c \in S, NEW d \in S
  PROVE  /\ Tail(<<a, b>>) = <<b>> /\ Tail(<<a, b, c>>) = <<b, c>>
         /\ Tail(<<a, b, c, d>>) = <<b, c, d>>
         /\ Head(<<a>>) = a /\ Head(<<a, b>>) = a /\ Head(<<a, b, c>>) = a
         /\ Head(<<a, b, c, d>>) = a
         /\ Len(<<a>>) = 1 /\ Len(<<a, b>>) = 2 /\ Len(<<a, b, c>>) = 3
<1>1. /\ Head(<<a>>) = a /\ Head(<<a, b>>) = a /\ Head(<<a, b, c>>) = a
      /\ Head(<<a, b, c, d>>) = a
      /\ Len(<<a>>) = 1 /\ Len(<<a, b>>) = 2 /\ Len(<<a, b, c>>) = 3
  OBVIOUS
<1>2. Tail(<<a, b>>) = <<b>>
  OBVIOUS
<1>3. Tail(<<a, b, c>>) = <<b, c>>
  OBVIOUS
<1>4. Tail(<<a, b, c, d>>) = <<b, c, d>>
  OBVIOUS
<1>. QED
  BY <1>1, <1>2, <1>3, <1>4

LEMMA PlanIsMade ==
  ASSUME NEW entry, NEW withTx, Mirror!PlanFor(entry, withTx) # <<>>
  PROVE  /\ <<Mirror!Known>> \o Mirror!PlanFor(entry, withTx) \in Plans
         /\ Mirror!OutcomeOf(entry) # {} /\ Mirror!DigestOf(entry) \notin posted
<1>1. /\ Mirror!OutcomeOf(entry) # {} /\ Mirror!DigestOf(entry) \notin posted
      /\ Mirror!PlanFor(entry, withTx) \in
           {<<"ValidationRequest", "ValidationResponse", "NewFeedback">>, <<"NewFeedback">>}
  BY DEF Mirror!PlanFor
<1>2. /\ <<"known">> \o <<"ValidationRequest", "ValidationResponse", "NewFeedback">>
           = <<"known", "ValidationRequest", "ValidationResponse", "NewFeedback">>
      /\ <<"known">> \o <<"NewFeedback">> = <<"known", "NewFeedback">>
  <2>. DEFINE S == {"known", "ValidationRequest", "ValidationResponse", "NewFeedback"}
  <2>1. "known" \in S /\ "ValidationRequest" \in S /\ "ValidationResponse" \in S /\ "NewFeedback" \in S
    OBVIOUS
  <2>. HIDE DEF S
  <2>. QED
    BY <2>1, TuplePrefixed
<1>. QED
  BY <1>1, <1>2 DEF Mirror!Known, Plans

LEMMA PlanGoesOn ==
  ASSUME NEW left \in Plans
  PROVE  /\ Head(left) = Mirror!Known => Tail(left) \in Posts
         /\ Head(left) # Mirror!Known =>
              /\ Head(left) \in {"ValidationRequest", "ValidationResponse", "NewFeedback"}
              /\ Len(left) > 1 => Tail(left) \in Posts /\ Head(left) # "NewFeedback"
              /\ ~(Len(left) > 1) => Head(left) = "NewFeedback"
<1>. DEFINE S == {"known", "ValidationRequest", "ValidationResponse", "NewFeedback"}
<1>1. "known" \in S /\ "ValidationRequest" \in S /\ "ValidationResponse" \in S /\ "NewFeedback" \in S
  OBVIOUS
<1>. HIDE DEF S
<1>2. CASE left = <<"known", "ValidationRequest", "ValidationResponse", "NewFeedback">>
  <2>1. Head(left) = "known" /\ Tail(left) \in Posts
    BY <1>1, <1>2, TupleTail DEF Posts
  <2>. QED
    BY <2>1 DEF Mirror!Known
<1>3. CASE left = <<"known", "NewFeedback">>
  <2>1. Head(left) = "known" /\ Tail(left) \in Posts
    BY <1>1, <1>3, TupleTail DEF Posts
  <2>. QED
    BY <2>1 DEF Mirror!Known
<1>4. CASE left = <<"ValidationRequest", "ValidationResponse", "NewFeedback">>
  <2>1. Head(left) = "ValidationRequest" /\ Tail(left) \in Posts /\ Len(left) = 3
    BY <1>1, <1>4, TupleTail DEF Posts
  <2>. QED
    BY <2>1 DEF Mirror!Known
<1>5. CASE left = <<"ValidationResponse", "NewFeedback">>
  <2>1. Head(left) = "ValidationResponse" /\ Tail(left) \in Posts /\ Len(left) = 2
    BY <1>1, <1>5, TupleTail DEF Posts
  <2>. QED
    BY <2>1 DEF Mirror!Known
<1>6. CASE left = <<"NewFeedback">>
  <2>1. Head(left) = "NewFeedback" /\ Len(left) = 1
    BY <1>1, <1>6, TupleTail
  <2>. QED
    BY <2>1 DEF Mirror!Known
<1>. QED
  BY <1>2, <1>3, <1>4, <1>5, <1>6 DEF Plans, Posts

(***************************************************************************)
(* What waits to be handled are logs that were emitted.                    *)
(***************************************************************************)
QueueOver(q, vl) == IsSequence(q) /\ \A n \in DOMAIN q : q[n].at \in DOMAIN vl

LEMMA QueueAdvances ==
  ASSUME NEW q, NEW vl, QueueOver(q, vl), q # <<>>
  PROVE  QueueOver(Tail(q), vl) /\ Head(q).at \in DOMAIN vl
<1>1. PICK S : q \in Seq(S)
  BY DEF QueueOver, IsSequence
<1>2. /\ Tail(q) \in Seq(S) /\ Head(q) = q[1] /\ 1 \in DOMAIN q
      /\ \A n \in DOMAIN Tail(q) : n + 1 \in DOMAIN q /\ Tail(q)[n] = q[n + 1]
  BY <1>1
<1>. QED
  BY <1>2 DEF QueueOver, IsSequence

LEMMA QueuesJoin ==
  ASSUME NEW q, NEW r, NEW vl, QueueOver(q, vl), QueueOver(r, vl)
  PROVE  QueueOver(q \o r, vl)
<1>1. PICK S : q \in Seq(S)
  BY DEF QueueOver, IsSequence
<1>2. PICK T : r \in Seq(T)
  BY DEF QueueOver, IsSequence
<1>3. q \in Seq(S \cup T) /\ r \in Seq(S \cup T)
  BY <1>1, <1>2
<1>4. /\ q \o r \in Seq(S \cup T) /\ Len(q) \in Nat /\ Len(r) \in Nat
      /\ DOMAIN (q \o r) = 1 .. Len(q) + Len(r)
      /\ DOMAIN q = 1 .. Len(q) /\ DOMAIN r = 1 .. Len(r)
      /\ \A n \in 1 .. Len(q) + Len(r) :
           (q \o r)[n] = IF n <= Len(q) THEN q[n] ELSE r[n - Len(q)]
  BY <1>3, ConcatProperties
<1>5. ASSUME NEW n \in DOMAIN (q \o r) PROVE (q \o r)[n].at \in DOMAIN vl
  <2>1. CASE n <= Len(q)
    BY <1>4, <2>1 DEF QueueOver
  <2>2. CASE ~(n <= Len(q))
    <3>1. n - Len(q) \in DOMAIN r
      BY <1>4, <2>2
    <3>. QED
      BY <1>4, <2>2, <3>1 DEF QueueOver
  <2>. QED
    BY <2>1, <2>2
<1>. QED
  BY <1>4, <1>5 DEF QueueOver, IsSequence

LEMMA LogsQueue ==
  ASSUME NEW vl, IsSequence(vl), NEW from \in 0 .. Len(vl), NEW source
  PROVE  QueueOver([n \in 1 .. Len(vl) - from |-> [at |-> from + n, source |-> source]], vl)
<1>. DEFINE q == [n \in 1 .. Len(vl) - from |-> [at |-> from + n, source |-> source]]
            Items == [at : Nat, source : {source}]
<1>1. Len(vl) \in Nat /\ DOMAIN vl = 1 .. Len(vl)
  BY SequenceDomain
<1>2. Len(vl) - from \in Nat /\ \A n \in 1 .. Len(vl) - from : from + n \in 1 .. Len(vl)
  BY <1>1
<1>3. q \in [1 .. Len(vl) - from -> Items]
  BY <1>1, <1>2
<1>4. q \in Seq(Items)
  BY <1>2, <1>3
<1>5. \A n \in DOMAIN q : q[n].at \in DOMAIN vl
  BY <1>1, <1>2
<1>. QED
  BY <1>4, <1>5 DEF QueueOver, IsSequence

(***************************************************************************)
(* The orchestrator.  It works on one log at a time, has not posted its    *)
(* digest, and remembers those it has posted until it is gone; a feedback  *)
(* is the last post of a log.                                              *)
(***************************************************************************)
QuietPhases == {"gate", "register", "exited", "killed", "recovered"}
HasEnded == phase \in {"exited", "killed", "recovered"}

TaskFits ==
  /\ task.at \in DOMAIN vlog
  /\ Mirror!OutcomeOf(vlog[task.at]) # {}
  /\ Mirror!DigestOf(vlog[task.at]) \notin posted
  /\ task.left \in Plans

SameFeedback(c, d) ==
  /\ c.name = "NewFeedback" /\ d.name = "NewFeedback"
  /\ c.digest = d.digest /\ c.life = d.life

PostedOnce ==
  \A i, j \in DOMAIN txs : SameFeedback(txs[i].call, txs[j].call) => i = j

Remembered ==
  \A i \in DOMAIN txs :
    txs[i].call.name = "NewFeedback" /\ txs[i].call.life = life =>
      txs[i].call.digest \in posted

CallsAreTrue == \A i \in DOMAIN txs : IsCall(txs[i].call, vlog, life)

SenderInv ==
  /\ IsSequence(vlog) /\ IsSequence(txs) /\ life \in Nat
  /\ polled \in 0 .. Len(vlog) /\ QueueOver(queue, vlog)
  /\ Mirror!Busy => TaskFits
  /\ phase \in QuietPhases => queue = <<>> /\ ~Mirror!Busy
  /\ CallsAreTrue /\ PostedOnce
  /\ ~HasEnded => Remembered

LEMMA BegunFits ==
  ASSUME NEW i \in DOMAIN vlog, NEW withTx, Mirror!PlanFor(vlog[i], withTx) # <<>>,
         task' = [at |-> i, left |-> <<Mirror!Known>> \o Mirror!PlanFor(vlog[i], withTx),
                  sent |-> {}],
         UNCHANGED <<vlog, posted>>
  PROVE  TaskFits'
BY PlanIsMade DEF TaskFits

LEMMA SenderInit == Mirror!OrchestratorInit => SenderInv
<1>. SUFFICES ASSUME Mirror!OrchestratorInit PROVE SenderInv
  OBVIOUS
<1>1. /\ vlog = <<>> /\ txs = <<>> /\ queue = <<>> /\ life = 0 /\ polled = 0
      /\ task = Mirror!Idle
  BY DEF Mirror!OrchestratorInit
<1>2. <<>> \in Seq({})
  OBVIOUS
<1>3. IsSequence(<<>>) /\ QueueOver(<<>>, <<>>)
  BY <1>2 DEF IsSequence, QueueOver
<1>. QED
  BY <1>1, <1>3 DEF SenderInv, Mirror!Busy, CallsAreTrue, PostedOnce, Remembered

LEMMA EmitKeepsSender ==
  ASSUME SenderInv, Mirror!Emit PROVE SenderInv'
<1>1. PICK entry : vlog' = Append(vlog, entry)
  BY DEF Mirror!Emit
<1>2. UNCHANGED <<txs, life, polled, queue, task, posted, phase>>
  BY DEF Mirror!Emit, Mirror!processVars
<1>3. ExtendedBy(vlog, entry, vlog')
  BY <1>1, AppendExtends DEF SenderInv
<1>4. Grows(vlog, vlog')
  BY <1>3 DEF ExtendedBy, Grows
<1>5. IsSequence(vlog') /\ polled \in 0 .. Len(vlog') /\ QueueOver(queue, vlog')
  BY <1>3, <1>4 DEF ExtendedBy, SenderInv, QueueOver, Grows
<1>6. Mirror!Busy => TaskFits'
  BY <1>2, <1>4 DEF SenderInv, TaskFits, Grows
<1>7. CallsAreTrue'
  BY <1>2, <1>4, CallsStay DEF SenderInv, CallsAreTrue
<1>. QED
  BY <1>2, <1>5, <1>6, <1>7 DEF SenderInv, Mirror!Busy, PostedOnce, Remembered, HasEnded

\* A step that leaves logs, calls, memory and life as they are.
LEMMA QuietStepKeepsSender ==
  ASSUME SenderInv, UNCHANGED <<vlog, polled, txs, life, posted>>,
         QueueOver(queue', vlog),
         task' = task \/ ~Mirror!Busy' \/ TaskFits',
         phase' \in QuietPhases => queue' = <<>> /\ ~Mirror!Busy',
         HasEnded => HasEnded'
  PROVE  SenderInv'
BY DEF SenderInv, Mirror!Busy, TaskFits, CallsAreTrue, PostedOnce, Remembered

LEMMA PollKeepsSender ==
  ASSUME SenderInv, Mirror!Poll PROVE SenderInv'
<1>1. /\ UNCHANGED <<vlog, txs, life, task, posted, phase>>
      /\ polled' = Len(vlog) /\ phase \notin QuietPhases
      /\ queue' = queue \/ queue' = queue \o Mirror!Delivered
  BY DEF Mirror!Poll, QuietPhases
<1>2. QueueOver(Mirror!Delivered, vlog)
  BY LogsQueue DEF SenderInv, Mirror!Delivered
<1>3. QueueOver(queue', vlog)
  BY <1>1, <1>2, QueuesJoin DEF SenderInv
<1>4. polled' \in 0 .. Len(vlog')
  BY <1>1, SequenceDomain DEF SenderInv
<1>. QED
  BY <1>1, <1>3, <1>4
  DEF SenderInv, Mirror!Busy, TaskFits, CallsAreTrue, PostedOnce, Remembered, HasEnded

LEMMA TakeKeepsSender ==
  ASSUME SenderInv, Mirror!Take PROVE SenderInv'
<1>1. /\ ~Mirror!Busy /\ queue # <<>> /\ queue' = Tail(queue)
      /\ UNCHANGED <<vlog, polled, txs, life, posted, phase>>
  BY DEF Mirror!Take
<1>2. QueueOver(queue', vlog) /\ Head(queue).at \in DOMAIN vlog
  BY <1>1, QueueAdvances DEF SenderInv
<1>3. task' = task \/ TaskFits'
  <2>1. ~Mirror!WithTx(vlog[Head(queue).at])
    BY DEF Mirror!Take, Mirror!WithTx
  <2>2. Mirror!PlanFor(vlog[Head(queue).at], Mirror!WithTx(vlog[Head(queue).at]))
          = Mirror!PlanFor(vlog[Head(queue).at], FALSE)
    BY <2>1 DEF Mirror!PlanFor
  <2>. QED
    BY <1>1, <1>2, <2>2, BegunFits DEF Mirror!Take, Mirror!Begin
<1>4. phase \notin QuietPhases
  BY <1>1 DEF SenderInv
<1>. QED
  BY <1>1, <1>2, <1>3, <1>4, QuietStepKeepsSender DEF HasEnded

LEMMA ProcessKeepsSender ==
  ASSUME SenderInv, Mirror!Process PROVE SenderInv'
<1>1. /\ ~Mirror!Busy /\ queue # <<>> /\ queue' = Tail(queue)
      /\ UNCHANGED <<vlog, polled, txs, life, posted, phase>>
  BY DEF Mirror!Process
<1>2. QueueOver(queue', vlog) /\ Head(queue).at \in DOMAIN vlog
  BY <1>1, QueueAdvances DEF SenderInv
<1>3. task' = task \/ TaskFits'
  BY <1>1, <1>2, BegunFits DEF Mirror!Process, Mirror!Begin
<1>4. phase \notin QuietPhases
  BY <1>1 DEF SenderInv
<1>. QED
  BY <1>1, <1>2, <1>3, <1>4, QuietStepKeepsSender DEF HasEnded

LEMMA RestartKeepsSender ==
  ASSUME SenderInv, Mirror!Restart PROVE SenderInv'
<1>1. /\ life' = life + 1 /\ polled' = Len(vlog) /\ queue' = <<>>
      /\ task' = Mirror!Idle /\ posted' = {}
      /\ UNCHANGED <<vlog, txs, phase>>
  BY DEF Mirror!Restart
<1>2. QueueOver(queue', vlog')
  <2>1. <<>> \in Seq({})
    OBVIOUS
  <2>. QED
    BY <1>1, <2>1 DEF QueueOver, IsSequence
<1>3. Grows(vlog, vlog') /\ life \in Nat /\ life' \in Nat /\ life <= life'
  BY <1>1 DEF Grows, SenderInv
<1>4. CallsAreTrue'
  BY <1>1, <1>3, CallsStay DEF CallsAreTrue, SenderInv
<1>5. Remembered'
  <2>. SUFFICES ASSUME NEW i \in DOMAIN txs, txs[i].call.name = "NewFeedback",
                       txs[i].call.life = life + 1
                PROVE  FALSE
    BY <1>1 DEF Remembered
  <2>1. txs[i].call.life \in 0 .. life
    BY DEF SenderInv, CallsAreTrue, IsCall, CallFor
  <2>. QED
    BY <2>1 DEF SenderInv
<1>6. polled' \in 0 .. Len(vlog')
  BY <1>1, SequenceDomain DEF SenderInv
<1>. QED
  BY <1>1, <1>2, <1>3, <1>4, <1>5, <1>6 DEF SenderInv, Mirror!Busy, PostedOnce

LEMMA ReadStatusKeepsSender ==
  ASSUME SenderInv, Mirror!ReadStatus PROVE SenderInv'
<1>1. /\ Mirror!Busy /\ TaskFits /\ Head(task.left) = Mirror!Known
      /\ UNCHANGED <<vlog, polled, queue, txs, life, phase>>
  BY DEF Mirror!ReadStatus, SenderInv
<1>2. phase \notin QuietPhases /\ ~HasEnded
  BY <1>1 DEF SenderInv, QuietPhases, HasEnded
<1>3. CASE task' = Mirror!Idle /\ posted' = posted \cup {Mirror!DigestOf(vlog[task.at])}
  BY <1>1, <1>2, <1>3
  DEF SenderInv, Mirror!Busy, CallsAreTrue, PostedOnce, Remembered, HasEnded
<1>4. CASE task' = [task EXCEPT !.left = Tail(@)] /\ posted' = posted
  <2>1. Tail(task.left) \in Plans
    BY <1>1, PlanGoesOn DEF TaskFits, Plans
  <2>2. TaskFits'
    BY <1>1, <1>4, <2>1 DEF TaskFits
  <2>. QED
    BY <1>1, <1>2, <1>4, <2>2, QuietStepKeepsSender DEF SenderInv
<1>. QED
  BY <1>3, <1>4 DEF Mirror!ReadStatus

LEMMA PostKeepsSender ==
  ASSUME SenderInv, Mirror!Post PROVE SenderInv'
<1>. DEFINE c == Mirror!Call(Head(task.left), task.at)
            tx == [call |-> c, status |-> "pending"]
<1>1. /\ Mirror!Busy /\ TaskFits /\ Head(task.left) # Mirror!Known
      /\ UNCHANGED <<vlog, polled, queue, life, phase>>
      /\ txs' = Append(txs, tx)
  BY DEF Mirror!Post, SenderInv
<1>2. phase \notin QuietPhases /\ ~HasEnded
  BY <1>1 DEF SenderInv, QuietPhases, HasEnded
<1>3. /\ Head(task.left) \in {"ValidationRequest", "ValidationResponse", "NewFeedback"}
      /\ Len(task.left) > 1 => Tail(task.left) \in Plans /\ Head(task.left) # "NewFeedback"
      /\ ~(Len(task.left) > 1) => Head(task.left) = "NewFeedback"
  BY <1>1, PlanGoesOn DEF TaskFits, Plans
<1>4. /\ IsCall(c, vlog, life) /\ c.name = Head(task.left)
      /\ c.digest = Mirror!DigestOf(vlog[task.at])
      /\ c.name = "NewFeedback" => c.life = life
  BY <1>1, <1>3, CallIsCall DEF TaskFits, SenderInv
<1>5. tx.call = c
  OBVIOUS
<1>6. ExtendedBy(txs, tx, txs')
  BY <1>1, AppendExtends DEF SenderInv
<1>7. \/ /\ Len(task.left) > 1
         /\ task' = [task EXCEPT !.left = Tail(@), !.sent = task'.sent]
         /\ posted' = posted
      \/ /\ ~(Len(task.left) > 1)
         /\ task' = Mirror!Idle
         /\ posted' = posted \cup {Mirror!DigestOf(vlog[task.at])}
  BY DEF Mirror!Post
<1>. HIDE DEF tx, c
<1>8. \A i \in DOMAIN txs' : (i \in DOMAIN txs /\ txs'[i] = txs[i]) \/ (i = Len(txs) + 1 /\ txs'[i] = tx)
  BY <1>6 DEF ExtendedBy
<1>9. CallsAreTrue'
  BY <1>1, <1>4, <1>5, <1>8 DEF SenderInv, CallsAreTrue
<1>10. \A i \in DOMAIN txs : ~SameFeedback(txs[i].call, c)
  BY <1>1, <1>2, <1>4 DEF SenderInv, Remembered, SameFeedback, TaskFits
<1>11. PostedOnce'
  BY <1>5, <1>8, <1>10 DEF SenderInv, PostedOnce, SameFeedback
<1>12. Remembered'
  BY <1>1, <1>2, <1>3, <1>4, <1>5, <1>7, <1>8 DEF SenderInv, Remembered
<1>13. Mirror!Busy' => TaskFits'
  <2>1. CASE task' = Mirror!Idle
    BY <2>1 DEF Mirror!Busy
  <2>2. CASE Len(task.left) > 1 /\ posted' = posted
    <3>1. PICK x : task' = [task EXCEPT !.left = Tail(@), !.sent = x]
      BY <1>7, <2>2
    <3>2. task'.at = task.at /\ task'.left = Tail(task.left)
      BY <3>1
    <3>. QED
      BY <1>1, <1>3, <2>2, <3>2 DEF TaskFits
  <2>. QED
    BY <1>7, <2>1, <2>2
<1>. QED
  BY <1>1, <1>2, <1>6, <1>9, <1>11, <1>12, <1>13 DEF SenderInv, ExtendedBy

LEMMA MineKeepsSender ==
  ASSUME SenderInv, NEW i \in DOMAIN txs, Mirror!Mine(i) PROVE SenderInv'
<1>1. PICK st : txs' = [txs EXCEPT ![i].status = st]
  BY DEF Mirror!Mine
<1>2. UNCHANGED <<vlog, polled, queue, task, posted, life, phase>>
  BY DEF Mirror!Mine
<1>3. IsSequence(txs') /\ DOMAIN txs' = DOMAIN txs
  <2>1. PICK S : txs \in Seq(S)
    BY DEF SenderInv, IsSequence
  <2>2. txs' \in Seq(S \cup {[txs[i] EXCEPT !.status = st]})
    BY <1>1, <2>1
  <2>. QED
    BY <1>1, <2>2 DEF IsSequence
<1>4. \A j \in DOMAIN txs :
        /\ txs'[j].call.name = txs[j].call.name /\ txs'[j].call.digest = txs[j].call.digest
        /\ txs'[j].call = txs[j].call
  BY <1>1
<1>. QED
  BY <1>2, <1>3, <1>4
  DEF SenderInv, CallsAreTrue, PostedOnce, Remembered, Mirror!Busy, TaskFits, HasEnded

LEMMA GoneKeepsSender ==
  ASSUME SenderInv, Mirror!Readback \/ Mirror!Killed PROVE SenderInv'
<1>1. /\ queue' = <<>> /\ task' = Mirror!Idle /\ UNCHANGED <<vlog, polled, txs, life>>
      /\ phase' \in {"exited", "killed"}
  BY DEF Mirror!Readback, Mirror!Killed, Mirror!Gone, Mirror!EndsWith
<1>2. QueueOver(queue', vlog')
  <2>1. <<>> \in Seq({})
    OBVIOUS
  <2>. QED
    BY <1>1, <2>1 DEF QueueOver, IsSequence
<1>. QED
  BY <1>1, <1>2 DEF SenderInv, CallsAreTrue, PostedOnce, HasEnded, Mirror!Busy

LEMMA PhaseKeepsSender ==
  ASSUME SenderInv,
         \/ Mirror!Gate \/ Mirror!Register \/ Mirror!Bind \/ Mirror!DemoExits
         \/ Mirror!Drained \/ Mirror!Recover \/ Mirror!PostFails \/ Mirror!IndexNext
         \/ UNCHANGED Mirror!orchestratorVars
  PROVE  SenderInv'
<1>1. /\ UNCHANGED <<vlog, polled, queue, txs, life, posted>>
      /\ task' = task \/ task' = Mirror!Idle
  BY DEF Mirror!Gate, Mirror!Register, Mirror!Bind, Mirror!DemoExits, Mirror!Drained,
         Mirror!Recover, Mirror!PostFails, Mirror!IndexNext, Mirror!processVars,
         Mirror!orchestratorVars
<1>2. phase' = phase \/ phase' \notin QuietPhases \/ phase \in QuietPhases
  BY DEF Mirror!Gate, Mirror!Register, Mirror!Bind, Mirror!DemoExits, Mirror!Drained,
         Mirror!Recover, Mirror!PostFails, Mirror!IndexNext, Mirror!processVars,
         Mirror!orchestratorVars, QuietPhases, Mirror!EndsWith
<1>3. HasEnded => HasEnded'
  BY DEF Mirror!Gate, Mirror!Register, Mirror!Bind, Mirror!DemoExits, Mirror!Drained,
         Mirror!Recover, Mirror!PostFails, Mirror!IndexNext, Mirror!processVars,
         Mirror!orchestratorVars, HasEnded, Mirror!EndsWith
<1>4. (task' = task \/ ~Mirror!Busy') /\ (~Mirror!Busy => ~Mirror!Busy')
  BY <1>1 DEF Mirror!Busy
<1>. QED
  BY <1>1, <1>2, <1>3, <1>4, QuietStepKeepsSender DEF SenderInv

LEMMA SweepKeepsSender ==
  ASSUME SenderInv, Mirror!Sweep PROVE SenderInv'
<1>. DEFINE q == [n \in 1 .. Len(vlog) |-> [at |-> n, source |-> "verdicts"]]
<1>1. /\ UNCHANGED <<vlog, polled, txs, life, task, posted>>
      /\ queue' = queue \o q
      /\ phase \notin QuietPhases /\ phase' \notin QuietPhases
  BY DEF Mirror!Sweep, QuietPhases
<1>2. QueueOver(q, vlog)
  <2>1. Len(vlog) \in Nat /\ 0 \in 0 .. Len(vlog)
    BY SequenceDomain DEF SenderInv
  <2>2. QueueOver([n \in 1 .. Len(vlog) - 0 |-> [at |-> 0 + n, source |-> "verdicts"]], vlog)
    BY <2>1, LogsQueue DEF SenderInv
  <2>3. q = [n \in 1 .. Len(vlog) - 0 |-> [at |-> 0 + n, source |-> "verdicts"]]
    BY <2>1
  <2>. QED
    BY <2>2, <2>3
<1>. HIDE DEF q
<1>3. QueueOver(queue', vlog)
  BY <1>1, <1>2, QueuesJoin DEF SenderInv
<1>. QED
  BY <1>1, <1>3, QuietStepKeepsSender DEF HasEnded, QuietPhases

LEMMA NextKeepsSender ==
  ASSUME SenderInv, [Mirror!OrchestratorNext]_(Mirror!orchestratorVars) PROVE SenderInv'
BY EmitKeepsSender, PollKeepsSender, TakeKeepsSender, ProcessKeepsSender, RestartKeepsSender,
   ReadStatusKeepsSender, PostKeepsSender, MineKeepsSender, GoneKeepsSender,
   PhaseKeepsSender, SweepKeepsSender
DEF Mirror!OrchestratorNext

-----------------------------------------------------------------------------
(***************************************************************************)
(* The registries.  Nothing comes before the registration, a request comes *)
(* once and before its answers, and a feedback comes of a post of its own. *)
(***************************************************************************)
EventsAreTrue ==
  \A i \in DOMAIN rlog :
    rlog[i].name \in {"Registered", "MetadataSet"} \/ IsCall(rlog[i], vlog, life)

RegistrationIsFirst ==
  /\ rlog # <<>> => rlog[1].name = "Registered"
  /\ \A i \in DOMAIN rlog : rlog[i].name = "Registered" => i = 1

RequestedOnce ==
  \A i, j \in Mirror!Places("ValidationRequest") :
    rlog[i].requestHash = rlog[j].requestHash => i = j

AnswersFollow ==
  \A i \in Mirror!Places("ValidationResponse") :
    \E j \in Mirror!Places("ValidationRequest") :
      j < i /\ rlog[j].requestHash = rlog[i].requestHash

FeedbackOnce == \A i, j \in DOMAIN rlog : SameFeedback(rlog[i], rlog[j]) => i = j

FeedbackWasPosted ==
  \A i \in DOMAIN rlog : rlog[i].name = "NewFeedback" =>
    \E j \in DOMAIN txs : txs[j].call = rlog[i] /\ txs[j].status = "success"

\* Before the registration nothing is sent.
NothingSentEarly ==
  /\ phase \in {"gate", "register"} => rlog = <<>>
  /\ rlog = <<>> => /\ phase \in {"gate", "register", "exited"}
                    /\ txs = <<>> /\ queue = <<>> /\ ~Mirror!Busy

RegistryInv ==
  /\ IsSequence(rlog) /\ NothingSentEarly
  /\ EventsAreTrue /\ RegistrationIsFirst
  /\ RequestedOnce /\ AnswersFollow
  /\ FeedbackOnce /\ FeedbackWasPosted

RegistrySteps ==
  Mirror!Register \/ Mirror!Bind \/ \E i \in DOMAIN txs : Mirror!Mine(i)

LEMMA RegistrationIsMade ==
  ASSUME NEW nx, nx = <<>> \o Mirror!Registration
  PROVE  /\ IsSequence(nx) /\ DOMAIN nx = 1 .. 2
         /\ nx[1].name = "Registered" /\ nx[2].name = "MetadataSet"
<1>. DEFINE a == [name |-> "Registered", owner |-> Ops]
            b == [name |-> "MetadataSet", wallet |-> Ops]
            r == <<a, b>>
<1>1. a \in {a, b} /\ b \in {a, b} /\ a.name = "Registered" /\ b.name = "MetadataSet"
  OBVIOUS
<1>2. Mirror!Registration = r
  BY DEF Mirror!Registration
<1>. DEFINE S == {a, b}
<1>. HIDE DEF a, b, S
<1>3. r \in Seq(S) /\ Len(r) = 2 /\ r[1] = a /\ r[2] = b
  BY <1>1 DEF S
<1>. HIDE DEF r
<1>4. nx = r
  BY <1>2, <1>3, ConcatEmptySeq
<1>. QED
  BY <1>1, <1>3, <1>4 DEF IsSequence

LEMMA RegistrationIsGood ==
  ASSUME IsSequence(rlog), DOMAIN rlog = 1 .. 2,
         rlog[1].name = "Registered", rlog[2].name = "MetadataSet"
  PROVE  /\ EventsAreTrue /\ RegistrationIsFirst /\ RequestedOnce /\ AnswersFollow
         /\ FeedbackOnce /\ FeedbackWasPosted
<1>1. \A i \in DOMAIN rlog : i = 1 \/ i = 2
  OBVIOUS
<1>. QED
  BY <1>1 DEF EventsAreTrue, RegistrationIsFirst, RequestedOnce, AnswersFollow, FeedbackOnce,
              FeedbackWasPosted, SameFeedback, Mirror!Places

LEMMA NothingIsGood ==
  ASSUME rlog = <<>>
  PROVE  /\ IsSequence(rlog) /\ EventsAreTrue /\ RegistrationIsFirst /\ RequestedOnce
         /\ AnswersFollow /\ FeedbackOnce /\ FeedbackWasPosted
<1>1. <<>> \in Seq({})
  OBVIOUS
<1>. QED
  BY <1>1 DEF IsSequence, EventsAreTrue, RegistrationIsFirst, RequestedOnce, AnswersFollow,
              FeedbackOnce, FeedbackWasPosted, Mirror!Places

LEMMA RegistryInit == Mirror!OrchestratorInit => RegistryInv
<1>. SUFFICES ASSUME Mirror!OrchestratorInit PROVE RegistryInv
  OBVIOUS
<1>1. CASE mode = "live"
  <2>1. rlog = Mirror!Registration /\ phase = "live"
    BY <1>1 DEF Mirror!OrchestratorInit, Mirror!RegistriesInit
  <2>2. Mirror!Registration = <<>> \o Mirror!Registration
    <3>. DEFINE a == [name |-> "Registered", owner |-> Ops]
                b == [name |-> "MetadataSet", wallet |-> Ops]
                S == {a, b}
    <3>1. a \in S /\ b \in S
      OBVIOUS
    <3>. HIDE DEF a, b, S
    <3>2. <<a, b>> \in Seq(S)
      BY <3>1
    <3>. QED
      BY <3>2, ConcatEmptySeq DEF a, b, Mirror!Registration
  <2>3. /\ IsSequence(rlog) /\ DOMAIN rlog = 1 .. 2
        /\ rlog[1].name = "Registered" /\ rlog[2].name = "MetadataSet"
    BY <2>1, <2>2, RegistrationIsMade
  <2>4. rlog # <<>>
    BY <2>3
  <2>. QED
    BY <2>1, <2>3, <2>4, RegistrationIsGood DEF RegistryInv, NothingSentEarly
<1>2. CASE mode # "live"
  <2>1. rlog = <<>> /\ phase = "gate" /\ txs = <<>> /\ queue = <<>> /\ ~Mirror!Busy
    BY <1>2 DEF Mirror!OrchestratorInit, Mirror!RegistriesInit, Mirror!Busy
  <2>. QED
    BY <2>1, NothingIsGood DEF RegistryInv, NothingSentEarly
<1>. QED
  BY <1>1, <1>2

\* A step that leaves the registries as they are.
LEMMA QuietStepKeepsRegistry ==
  ASSUME SenderInv, SenderInv', RegistryInv, UNCHANGED rlog,
         Grows(vlog, vlog'), life <= life', NothingSentEarly',
         \A j \in DOMAIN txs :
           txs[j].status = "success" => j \in DOMAIN txs' /\ txs'[j] = txs[j]
  PROVE  RegistryInv'
<1>1. EventsAreTrue'
  BY CallsStay DEF SenderInv, RegistryInv, EventsAreTrue
<1>2. FeedbackWasPosted'
  BY DEF RegistryInv, FeedbackWasPosted
<1>. QED
  BY <1>1, <1>2
  DEF RegistryInv, RegistrationIsFirst, RequestedOnce, AnswersFollow, FeedbackOnce,
      Mirror!Places

LEMMA QuietPhasesKeepRegistry ==
  ASSUME SenderInv, SenderInv', RegistryInv,
         \/ Mirror!Gate \/ Mirror!DemoExits \/ Mirror!Drained \/ Mirror!Recover
         \/ Mirror!Sweep \/ Mirror!Readback \/ Mirror!Killed \/ Mirror!IndexNext
         \/ UNCHANGED Mirror!orchestratorVars
  PROVE  RegistryInv'
<1>1. UNCHANGED <<vlog, txs, rlog, life>>
  BY DEF Mirror!Gate, Mirror!DemoExits, Mirror!Drained, Mirror!Recover, Mirror!Sweep,
         Mirror!Readback, Mirror!Killed, Mirror!IndexNext, Mirror!Index, Mirror!processVars,
         Mirror!registryVars, Mirror!orchestratorVars
<1>2. Grows(vlog, vlog') /\ life <= life'
  BY <1>1 DEF Grows, SenderInv
<1>3. /\ phase' = phase \/ phase = "gate" \/ phase' \notin {"gate", "register"}
      /\ rlog = <<>> => /\ phase' \in {"gate", "register", "exited"}
                        /\ queue' = <<>> /\ ~Mirror!Busy'
  BY DEF Mirror!Gate, Mirror!DemoExits, Mirror!Drained, Mirror!Recover, Mirror!Sweep,
         Mirror!Readback, Mirror!Killed, Mirror!IndexNext, Mirror!Index, Mirror!processVars,
         Mirror!registryVars, Mirror!orchestratorVars, Mirror!EndsWith, Mirror!Busy,
         RegistryInv, NothingSentEarly
<1>4. NothingSentEarly'
  BY <1>1, <1>3 DEF RegistryInv, NothingSentEarly
<1>. QED
  BY <1>1, <1>2, <1>4, QuietStepKeepsRegistry

LEMMA WorkKeepsRegistry ==
  ASSUME SenderInv, SenderInv', RegistryInv,
         \/ Mirror!Emit \/ Mirror!Poll \/ Mirror!Take \/ Mirror!Restart \/ Mirror!ReadStatus
         \/ Mirror!Post \/ Mirror!PostFails \/ Mirror!Process
  PROVE  RegistryInv'
<1>1. UNCHANGED <<rlog, phase>>
  BY DEF Mirror!Emit, Mirror!Poll, Mirror!Take, Mirror!Restart, Mirror!ReadStatus,
         Mirror!Post, Mirror!PostFails, Mirror!Process, Mirror!registryVars
<1>2. Grows(vlog, vlog')
  <2>1. CASE Mirror!Emit
    <3>1. PICK entry : vlog' = Append(vlog, entry)
      BY <2>1 DEF Mirror!Emit
    <3>2. ExtendedBy(vlog, entry, vlog')
      BY <3>1, AppendExtends DEF SenderInv
    <3>. QED
      BY <3>2 DEF ExtendedBy, Grows
  <2>2. CASE ~Mirror!Emit
    <3>1. vlog' = vlog
      BY <2>2 DEF Mirror!Poll, Mirror!Take, Mirror!Restart, Mirror!ReadStatus,
                  Mirror!Post, Mirror!PostFails, Mirror!Process
    <3>. QED
      BY <3>1 DEF Grows
  <2>. QED
    BY <2>1, <2>2
<1>3. life <= life'
  <2>1. life' = life \/ life' = life + 1
    BY DEF Mirror!Emit, Mirror!Poll, Mirror!Take, Mirror!Restart, Mirror!ReadStatus,
           Mirror!Post, Mirror!PostFails, Mirror!Process
  <2>. QED
    BY <2>1 DEF SenderInv
<1>4. \A j \in DOMAIN txs : j \in DOMAIN txs' /\ txs'[j] = txs[j]
  <2>1. CASE Mirror!Post
    <3>1. PICK tx : txs' = Append(txs, tx)
      BY <2>1 DEF Mirror!Post
    <3>2. ExtendedBy(txs, tx, txs')
      BY <3>1, AppendExtends DEF SenderInv
    <3>. QED
      BY <3>2 DEF ExtendedBy
  <2>2. CASE ~Mirror!Post
    <3>1. txs' = txs
      BY <2>2 DEF Mirror!Emit, Mirror!Poll, Mirror!Take, Mirror!Restart, Mirror!ReadStatus,
                  Mirror!PostFails, Mirror!Process, Mirror!processVars
    <3>. QED
      BY <3>1
  <2>. QED
    BY <2>1, <2>2
<1>5. ASSUME rlog = <<>> PROVE txs' = <<>> /\ queue' = <<>> /\ ~Mirror!Busy'
  <2>1. /\ phase \in {"gate", "register", "exited"}
        /\ txs = <<>> /\ queue = <<>> /\ ~Mirror!Busy
    BY <1>5 DEF RegistryInv, NothingSentEarly
  <2>2. Mirror!Restart
    BY <2>1 DEF Mirror!Emit, Mirror!Poll, Mirror!Take, Mirror!ReadStatus,
                Mirror!Post, Mirror!PostFails, Mirror!Process
  <2>. QED
    BY <2>1, <2>2 DEF Mirror!Restart, Mirror!Busy
<1>6. NothingSentEarly'
  BY <1>1, <1>5 DEF RegistryInv, NothingSentEarly
<1>. QED
  BY <1>1, <1>2, <1>3, <1>4, <1>6, QuietStepKeepsRegistry

\* The registration is the first thing in the registries.
LEMMA RegisterKeepsRegistry ==
  ASSUME SenderInv, SenderInv', RegistryInv, Mirror!Register
  PROVE  RegistryInv'
<1>1. /\ phase = "register" /\ rlog = <<>> /\ UNCHANGED <<vlog, txs, life, queue, task>>
      /\ txs = <<>> /\ queue = <<>> /\ ~Mirror!Busy
  BY DEF Mirror!Register, RegistryInv, NothingSentEarly, Mirror!processVars
<1>2. CASE rlog' = rlog
  <2>1. phase' \in {"bind", "exited"} /\ (phase' = "bind" => rlog' = rlog \o Mirror!Registration)
    BY DEF Mirror!Register, Mirror!EndsWith, Mirror!Emitted
  <2>2. phase' = "exited"
    BY <1>1, <1>2, <2>1, RegistrationIsMade
  <2>3. NothingSentEarly'
    BY <1>1, <1>2, <2>2 DEF NothingSentEarly, Mirror!Busy
  <2>4. Grows(vlog, vlog') /\ life <= life'
    BY <1>1 DEF Grows, SenderInv
  <2>. QED
    BY <1>1, <1>2, <2>3, <2>4, QuietStepKeepsRegistry
<1>3. CASE rlog' # rlog
  <2>1. phase' = "bind" /\ rlog' = <<>> \o Mirror!Registration
    BY <1>1, <1>3 DEF Mirror!Register, Mirror!EndsWith, Mirror!Emitted, Mirror!registryVars
  <2>2. /\ IsSequence(rlog') /\ DOMAIN rlog' = 1 .. 2
        /\ rlog'[1].name = "Registered" /\ rlog'[2].name = "MetadataSet"
    BY <2>1, RegistrationIsMade
  <2>3. (/\ EventsAreTrue /\ RegistrationIsFirst /\ RequestedOnce /\ AnswersFollow
         /\ FeedbackOnce /\ FeedbackWasPosted)'
    <3>1. \A i \in DOMAIN rlog' : i = 1 \/ i = 2
      BY <2>2
    <3>. QED
      BY <2>2, <3>1
      DEF EventsAreTrue, RegistrationIsFirst, RequestedOnce, AnswersFollow, FeedbackOnce,
          FeedbackWasPosted, SameFeedback, Mirror!Places
  <2>4. NothingSentEarly'
    BY <2>1, <2>2 DEF NothingSentEarly
  <2>. QED
    BY <2>2, <2>3, <2>4 DEF RegistryInv
<1>. QED
  BY <1>2, <1>3

LEMMA BindKeepsRegistry ==
  ASSUME SenderInv, SenderInv', RegistryInv, rlog # <<>>, Mirror!Bind
  PROVE  RegistryInv'
<1>. DEFINE e == [name |-> "MetadataSet", wallet |-> Amara]
<1>1. /\ UNCHANGED <<vlog, txs, life>> /\ phase' = "demo"
      /\ rlog' = rlog \/ rlog' = rlog \o <<e>>
  BY DEF Mirror!Bind, Mirror!Emitted, Mirror!registryVars, Mirror!processVars
<1>2. CASE rlog' = rlog
  <2>1. Grows(vlog, vlog') /\ life <= life' /\ NothingSentEarly'
    BY <1>1, <1>2 DEF Grows, SenderInv, NothingSentEarly
  <2>. QED
    BY <1>1, <1>2, <2>1, QuietStepKeepsRegistry
<1>3. CASE rlog' = rlog \o <<e>>
  <2>1. e.name = "MetadataSet"
    OBVIOUS
  <2>. HIDE DEF e
  <2>2. ExtendedBy(rlog, e, rlog')
    BY <1>3, AppendExtends DEF RegistryInv
  <2>3. /\ \A i \in DOMAIN rlog' : (i \in DOMAIN rlog /\ rlog'[i] = rlog[i])
                                   \/ rlog'[i].name = "MetadataSet"
        /\ \A i \in DOMAIN rlog : i \in DOMAIN rlog' /\ rlog'[i] = rlog[i]
    BY <2>1, <2>2 DEF ExtendedBy
  <2>4. IsSequence(rlog') /\ 1 \in DOMAIN rlog /\ rlog' # <<>>
    <3>1. PICK S : rlog \in Seq(S)
      BY DEF RegistryInv, IsSequence
    <3>2. 1 \in DOMAIN rlog
      BY <3>1
    <3>. QED
      BY <2>2, <2>3, <3>2 DEF ExtendedBy
  <2>5. NothingSentEarly' /\ RegistrationIsFirst'
    BY <1>1, <2>3, <2>4 DEF NothingSentEarly, RegistrationIsFirst, RegistryInv
  <2>6. EventsAreTrue'
    BY <1>1, <2>3 DEF EventsAreTrue, RegistryInv
  <2>7. RequestedOnce' /\ AnswersFollow'
    BY <2>3 DEF RequestedOnce, AnswersFollow, RegistryInv, Mirror!Places
  <2>8. FeedbackOnce' /\ FeedbackWasPosted'
    BY <1>1, <2>3 DEF FeedbackOnce, FeedbackWasPosted, RegistryInv, SameFeedback
  <2>. QED
    BY <2>4, <2>5, <2>6, <2>7, <2>8 DEF RegistryInv
<1>. QED
  BY <1>1, <1>2, <1>3

\* A mined call is one that was posted and not mined before.
LEMMA MineKeepsRegistry ==
  ASSUME SenderInv, SenderInv', RegistryInv, NEW n \in DOMAIN txs, Mirror!Mine(n)
  PROVE  RegistryInv'
<1>. DEFINE c == txs[n].call
<1>1. PICK st : /\ txs' = [txs EXCEPT ![n].status = st]
               /\ st = IF Mirror!Accepts(c) THEN "success" ELSE "reverted"
  BY DEF Mirror!Mine
<1>2. /\ UNCHANGED <<vlog, queue, task, life, phase>> /\ txs[n].status = "pending"
      /\ IF Mirror!Accepts(c) THEN rlog' = rlog \o <<c>> ELSE rlog' = rlog
  BY DEF Mirror!Mine, Mirror!Emitted, Mirror!registryVars
<1>3. /\ DOMAIN txs' = DOMAIN txs
      /\ \A j \in DOMAIN txs : j # n => txs'[j] = txs[j]
      /\ txs'[n].call = c /\ txs'[n].status = st
  <2>1. /\ DOMAIN txs' = DOMAIN txs
        /\ \A j \in DOMAIN txs : j # n => txs'[j] = txs[j]
    BY <1>1
  <2>2. txs'[n] = [txs[n] EXCEPT !.status = st]
    BY <1>1
  <2>3. txs'[n].call = c
    BY <2>2
  <2>4. txs'[n].status = st
    BY <2>2
  <2>. QED
    BY <2>1, <2>3, <2>4
<1>4. Grows(vlog, vlog') /\ life <= life'
  BY <1>2 DEF Grows, SenderInv
<1>5. rlog # <<>>
  BY DEF RegistryInv, NothingSentEarly
<1>6. IsCall(c, vlog, life)
  BY DEF SenderInv, CallsAreTrue
<1>7. CASE ~Mirror!Accepts(c)
  <2>1. NothingSentEarly'
    BY <1>2, <1>5, <1>7 DEF RegistryInv, NothingSentEarly
  <2>2. \A j \in DOMAIN txs : txs[j].status = "success" => txs'[j] = txs[j]
    BY <1>2, <1>3
  <2>. QED
    BY <1>2, <1>3, <1>4, <1>7, <2>1, <2>2, QuietStepKeepsRegistry
<1>8. CASE Mirror!Accepts(c)
  <2>1. ExtendedBy(rlog, c, rlog') /\ st = "success"
    BY <1>1, <1>2, <1>8, AppendExtends DEF RegistryInv
  <2>. DEFINE z == Len(rlog) + 1
  <2>2. /\ \A i \in DOMAIN rlog' : (i \in DOMAIN rlog /\ rlog'[i] = rlog[i] /\ i < z)
                                   \/ (i = z /\ rlog'[i] = c)
        /\ \A i \in DOMAIN rlog : i \in DOMAIN rlog' /\ rlog'[i] = rlog[i] /\ i < z
        /\ z \in DOMAIN rlog' /\ rlog'[z] = c /\ z \notin DOMAIN rlog
    BY <2>1 DEF ExtendedBy
  <2>3. IsSequence(rlog') /\ 1 \in DOMAIN rlog /\ rlog' # <<>>
    <3>1. PICK S : rlog \in Seq(S)
      BY DEF RegistryInv, IsSequence
    <3>2. 1 \in DOMAIN rlog
      BY <1>5, <3>1
    <3>. QED
      BY <2>1, <2>2, <3>2 DEF ExtendedBy
  <2>. HIDE DEF c, z
  <2>4. c.name \in {"ValidationRequest", "ValidationResponse", "NewFeedback"}
    BY <1>6 DEF IsCall, CallFor
  <2>5. NothingSentEarly' /\ RegistrationIsFirst'
    BY <1>2, <1>5, <2>2, <2>3, <2>4 DEF NothingSentEarly, RegistrationIsFirst, RegistryInv
  <2>6. EventsAreTrue'
    BY <1>2, <1>6, <2>2 DEF EventsAreTrue, RegistryInv
  <2>7. /\ c.name = "ValidationRequest" => ~Mirror!Requested(c.requestHash)
        /\ c.name = "ValidationResponse" => Mirror!Requested(c.requestHash)
    BY <1>8 DEF Mirror!Accepts
  <2>8. RequestedOnce'
    BY <2>2, <2>7 DEF RequestedOnce, RegistryInv, Mirror!Places, Mirror!Requested
  <2>9. AnswersFollow'
    BY <2>2, <2>7 DEF AnswersFollow, RegistryInv, Mirror!Places, Mirror!Requested
  <2>10. \A i \in DOMAIN rlog : ~SameFeedback(rlog[i], c)
    <3>. SUFFICES ASSUME NEW i \in DOMAIN rlog, SameFeedback(rlog[i], c) PROVE FALSE
      OBVIOUS
    <3>1. PICK j \in DOMAIN txs : txs[j].call = rlog[i] /\ txs[j].status = "success"
      BY DEF RegistryInv, FeedbackWasPosted, SameFeedback
    <3>2. j = n
      BY <3>1 DEF SenderInv, PostedOnce, c
    <3>. QED
      BY <1>2, <3>1, <3>2
  <2>11. FeedbackOnce'
    BY <2>2, <2>10 DEF FeedbackOnce, RegistryInv, SameFeedback
  <2>12. FeedbackWasPosted'
    <3>1. ASSUME NEW i \in DOMAIN rlog, rlog[i].name = "NewFeedback"
          PROVE  \E j \in DOMAIN txs' : txs'[j].call = rlog[i] /\ txs'[j].status = "success"
      BY <1>2, <1>3, <3>1 DEF RegistryInv, FeedbackWasPosted
    <3>2. n \in DOMAIN txs' /\ txs'[n].call = c /\ txs'[n].status = "success"
      BY <1>3, <2>1
    <3>. QED
      BY <2>2, <3>1, <3>2 DEF FeedbackWasPosted
  <2>. QED
    BY <2>3, <2>5, <2>6, <2>8, <2>9, <2>11, <2>12 DEF RegistryInv
<1>. QED
  BY <1>7, <1>8

LEMMA NextKeepsRegistry ==
  ASSUME SenderInv, SenderInv', RegistryInv,
         [Mirror!OrchestratorNext]_(Mirror!orchestratorVars)
  PROVE  RegistryInv'
<1>1. Mirror!Bind => rlog # <<>>
  BY DEF Mirror!Bind, RegistryInv, NothingSentEarly
<1>. QED
  BY <1>1, QuietPhasesKeepRegistry, WorkKeepsRegistry, RegisterKeepsRegistry,
     BindKeepsRegistry, MineKeepsRegistry
  DEF Mirror!OrchestratorNext

-----------------------------------------------------------------------------
(***************************************************************************)
(* The index.  The entities are those of the events read so far.           *)
(***************************************************************************)
ReadPlaces(kind) == {i \in Mirror!Places(kind) : i <= indexed}
ReadAnswers(hash) == {i \in Mirror!Answers(hash) : i <= indexed}

EntitiesShape ==
  /\ entities = [agent |-> entities.agent, validations |-> entities.validations,
                 feedback |-> entities.feedback]
  /\ entities.agent = [owner |-> entities.agent.owner, wallet |-> entities.agent.wallet,
                       seen |-> entities.agent.seen]

WalletIsRead ==
  ReadPlaces("MetadataSet") # {} =>
    entities.agent.wallet = rlog[Mirror!Max(ReadPlaces("MetadataSet"))].wallet

AnswerRead(hash) ==
  IF ReadAnswers(hash) = {} THEN -1 ELSE rlog[Mirror!Max(ReadAnswers(hash))].response

ValidationsAreRead ==
  \A i \in ReadPlaces("ValidationRequest") :
    /\ rlog[i].requestHash \in DOMAIN entities.validations
    /\ entities.validations[rlog[i].requestHash].response = AnswerRead(rlog[i].requestHash)

FeedbackIsRead ==
  /\ Len(entities.feedback) = Cardinality(ReadPlaces("NewFeedback"))
  /\ \A i \in ReadPlaces("NewFeedback") :
       entities.feedback[Mirror!FeedbackIndex(i)] =
         [value |-> rlog[i].value, digest |-> rlog[i].digest]

IndexInv ==
  /\ indexed \in 0 .. Len(rlog)
  /\ EntitiesShape /\ IsSequence(entities.feedback)
  /\ indexed > 0 => entities.agent.seen
  /\ WalletIsRead /\ ValidationsAreRead /\ FeedbackIsRead

LEMMA MirrorCardinality == \A S : Mirror!Cardinality(S) = Cardinality(S)
BY Zenon DEF Mirror!Cardinality, Cardinality

LEMMA MaxIsGreatest ==
  ASSUME NEW n \in Nat, NEW S \in SUBSET (1 .. n), S # {}
  PROVE  Mirror!Max(S) \in S /\ \A y \in S : Mirror!Max(S) >= y
<1>. DEFINE T == {n - x : x \in S}
<1>1. T \in SUBSET Nat /\ T # {}
  <2>1. \A x \in S : x \in 1 .. n /\ n - x \in Nat
    OBVIOUS
  <2>2. \E x : x \in S
    OBVIOUS
  <2>. QED
    BY <2>1, <2>2
<1>2. PICK m \in T : \A k \in T : m <= k
  <2>. HIDE DEF T
  <2>. QED
    BY <1>1, LeastNatural
<1>3. PICK x \in S : m = n - x
  BY <1>2
<1>4. \A y \in S : x >= y
  <2>. SUFFICES ASSUME NEW y \in S PROVE x >= y
    OBVIOUS
  <2>1. n - x <= n - y
    BY <1>2, <1>3
  <2>. QED
    BY <2>1
<1>. QED
  BY <1>4 DEF Mirror!Max

LEMMA MaxOfTop ==
  ASSUME NEW z \in Nat, NEW S \in SUBSET (1 .. z), z \in S
  PROVE  Mirror!Max(S) = z
<1>1. Mirror!Max(S) \in S /\ Mirror!Max(S) >= z
  BY MaxIsGreatest
<1>2. Mirror!Max(S) \in 1 .. z
  BY <1>1
<1>. QED
  BY <1>1, <1>2

\* The number of a feedback is at most that of the feedback up to it.
LEMMA FeedbackNumbers ==
  ASSUME NEW n \in Nat, NEW i \in Mirror!Places("NewFeedback"), IsSequence(rlog), i <= n
  PROVE  Mirror!FeedbackIndex(i) \in 1 .. Cardinality({j \in Mirror!Places("NewFeedback") : j <= n})
<1>. DEFINE P == Mirror!Places("NewFeedback")
            A == {j \in P : j <= i}
            B == {j \in P : j <= n}
<1>1. Len(rlog) \in Nat /\ P \subseteq 1 .. Len(rlog)
  BY SequenceDomain DEF Mirror!Places
<1>2. i \in Nat /\ i \in A /\ A \subseteq B /\ B \subseteq 1 .. Len(rlog)
  BY <1>1
<1>3. IsFiniteSet(1 .. Len(rlog))
  BY <1>1, FS_Interval
<1>4. IsFiniteSet(B) /\ IsFiniteSet(A)
  BY <1>2, <1>3, FS_Subset
<1>5. Cardinality(A) \in Nat /\ Cardinality(B) \in Nat /\ Cardinality(A) <= Cardinality(B)
  BY <1>2, <1>4, FS_Subset, FS_CardinalityType
<1>6. Cardinality(A) # 0
  BY <1>2, <1>4, FS_EmptySet
<1>7. Mirror!FeedbackIndex(i) = Cardinality(A)
  BY MirrorCardinality DEF Mirror!FeedbackIndex
<1>. QED
  BY <1>5, <1>6, <1>7

LEMMA IndexInit == Mirror!OrchestratorInit /\ RegistryInv => IndexInv
<1>. SUFFICES ASSUME Mirror!OrchestratorInit, RegistryInv PROVE IndexInv
  OBVIOUS
<1>1. indexed = 0 /\ entities.feedback = <<>>
  BY DEF Mirror!OrchestratorInit, Mirror!RegistriesInit
<1>2. Len(rlog) \in Nat /\ DOMAIN rlog = 1 .. Len(rlog)
  BY SequenceDomain DEF RegistryInv
<1>3. \A kind : ReadPlaces(kind) = {}
  BY <1>1, <1>2 DEF ReadPlaces, Mirror!Places
<1>4. <<>> \in Seq({}) /\ Len(<<>>) = 0 /\ Cardinality({}) = 0
  BY FS_EmptySet
<1>5. IsSequence(entities.feedback)
  BY <1>1, <1>4 DEF IsSequence
<1>6. FeedbackIsRead
  BY <1>1, <1>3, <1>4 DEF FeedbackIsRead
<1>7. WalletIsRead /\ ValidationsAreRead
  BY <1>3 DEF WalletIsRead, ValidationsAreRead
<1>8. EntitiesShape
  BY DEF EntitiesShape, Mirror!OrchestratorInit, Mirror!RegistriesInit, Mirror!NoAgent
<1>. QED
  BY <1>1, <1>2, <1>5, <1>6, <1>7, <1>8 DEF IndexInv

\* Events that come later are not read yet.
LEMMA GrowthKeepsIndex ==
  ASSUME IndexInv, IsSequence(rlog), IsSequence(rlog'), Grows(rlog, rlog'),
         UNCHANGED <<indexed, entities>>
  PROVE  IndexInv'
<1>1. /\ Len(rlog) \in Nat /\ DOMAIN rlog = 1 .. Len(rlog)
      /\ Len(rlog') \in Nat /\ DOMAIN rlog' = 1 .. Len(rlog')
  <2>1. \A q : IsSequence(q) => Len(q) \in Nat /\ DOMAIN q = 1 .. Len(q)
    BY SequenceDomain
  <2>. QED
    BY <2>1
<1>2. indexed' \in 0 .. Len(rlog')
  <2>1. Len(rlog) = 0 \/ Len(rlog) \in DOMAIN rlog'
    BY <1>1 DEF Grows
  <2>. QED
    BY <1>1, <2>1 DEF IndexInv
<1>3. \A i : i <= indexed /\ i \in DOMAIN rlog' => i \in DOMAIN rlog
  BY <1>1 DEF IndexInv
<1>4. \A i \in DOMAIN rlog : i \in DOMAIN rlog' /\ rlog'[i] = rlog[i]
  BY DEF Grows
<1>5. \A kind : ReadPlaces(kind)' = ReadPlaces(kind)
  BY <1>3, <1>4 DEF ReadPlaces, Mirror!Places
<1>6. \A hash : ReadAnswers(hash)' = ReadAnswers(hash)
  BY <1>3, <1>4 DEF ReadAnswers, Mirror!Answers, Mirror!Places
<1>7. \A kind : ReadPlaces(kind) \subseteq DOMAIN rlog
  BY DEF ReadPlaces, Mirror!Places
<1>8. \A hash : ReadAnswers(hash) \subseteq 1 .. Len(rlog)
  BY <1>1 DEF ReadAnswers, Mirror!Answers, Mirror!Places
<1>9. WalletIsRead'
  <2>. SUFFICES ASSUME ReadPlaces("MetadataSet") # {}
                PROVE  entities.agent.wallet = rlog'[Mirror!Max(ReadPlaces("MetadataSet"))].wallet
    BY <1>5 DEF WalletIsRead
  <2>1. Mirror!Max(ReadPlaces("MetadataSet")) \in DOMAIN rlog
    BY <1>1, <1>7, MaxIsGreatest
  <2>. QED
    BY <1>4, <2>1 DEF IndexInv, WalletIsRead
<1>10. \A hash : AnswerRead(hash)' = AnswerRead(hash)
  <2>. SUFFICES ASSUME NEW hash, ReadAnswers(hash) # {}
                PROVE  rlog'[Mirror!Max(ReadAnswers(hash))] = rlog[Mirror!Max(ReadAnswers(hash))]
    BY <1>6 DEF AnswerRead
  <2>1. Mirror!Max(ReadAnswers(hash)) \in DOMAIN rlog
    BY <1>1, <1>8, MaxIsGreatest
  <2>. QED
    BY <1>4, <2>1
<1>11. ValidationsAreRead'
  BY <1>4, <1>5, <1>7, <1>10 DEF IndexInv, ValidationsAreRead
<1>12. \A i \in ReadPlaces("NewFeedback") : Mirror!FeedbackIndex(i)' = Mirror!FeedbackIndex(i)
  <2>. SUFFICES ASSUME NEW i \in ReadPlaces("NewFeedback")
                PROVE  Mirror!FeedbackIndex(i)' = Mirror!FeedbackIndex(i)
    OBVIOUS
  <2>1. i \in 1 .. Len(rlog) /\ i <= indexed
    BY <1>1, <1>7 DEF ReadPlaces
  <2>2. {j \in Mirror!Places("NewFeedback") : j <= i}' = {j \in Mirror!Places("NewFeedback") : j <= i}
    BY <1>1, <1>4, <2>1 DEF Mirror!Places
  <2>. QED
    BY <2>2 DEF Mirror!FeedbackIndex
<1>13. FeedbackIsRead'
  BY <1>4, <1>5, <1>7, <1>12 DEF IndexInv, FeedbackIsRead
<1>. QED
  BY <1>2, <1>9, <1>11, <1>13 DEF IndexInv, EntitiesShape

(***************************************************************************)
(* What each handler does to the entities.                                 *)
(***************************************************************************)
SameAgent(ent) == ent.agent.wallet = entities.agent.wallet /\ ent.agent.seen

LEMMA RegisteredIsHandled ==
  ASSUME NEW e, e.name = "Registered", EntitiesShape, entities' = Mirror!Handled(e)
  PROVE  /\ EntitiesShape' /\ entities'.agent.seen
         /\ entities'.validations = entities.validations
         /\ entities'.feedback = entities.feedback
<1>1. entities' = [entities EXCEPT !.agent = [owner |-> e.owner, wallet |-> e.owner, seen |-> TRUE]]
  BY DEF Mirror!Handled
<1>2. PICK o, w, b, v, f :
        entities = [agent |-> [owner |-> o, wallet |-> w, seen |-> b],
                    validations |-> v, feedback |-> f]
  BY DEF EntitiesShape
<1>3. entities' = [agent |-> [owner |-> e.owner, wallet |-> e.owner, seen |-> TRUE],
                  validations |-> v, feedback |-> f]
  BY <1>1, <1>2
<1>. QED
  BY <1>2, <1>3 DEF EntitiesShape

LEMMA MetadataIsHandled ==
  ASSUME NEW e, e.name = "MetadataSet", EntitiesShape, entities' = Mirror!Handled(e),
         entities.agent.seen
  PROVE  /\ EntitiesShape' /\ entities'.agent.seen
         /\ entities'.agent.wallet = e.wallet
         /\ entities'.validations = entities.validations
         /\ entities'.feedback = entities.feedback
<1>1. entities' = [entities EXCEPT !.agent.wallet = e.wallet]
  BY DEF Mirror!Handled
<1>2. PICK o, w, b, v, f :
        entities = [agent |-> [owner |-> o, wallet |-> w, seen |-> b],
                    validations |-> v, feedback |-> f]
  BY DEF EntitiesShape
<1>3. entities' = [agent |-> [owner |-> o, wallet |-> e.wallet, seen |-> b],
                  validations |-> v, feedback |-> f]
  BY <1>1, <1>2
<1>. QED
  BY <1>2, <1>3 DEF EntitiesShape

LEMMA FeedbackIsHandled ==
  ASSUME NEW e, e.name = "NewFeedback", EntitiesShape, entities' = Mirror!Handled(e)
  PROVE  /\ EntitiesShape' /\ SameAgent(entities')
         /\ entities'.validations = entities.validations
         /\ entities'.feedback =
              Append(entities.feedback, [value |-> e.value, digest |-> e.digest])
<1>1. entities' = [entities EXCEPT !.agent = Mirror!LoadAgent,
                     !.feedback = Append(@, [value |-> e.value, digest |-> e.digest])]
  BY DEF Mirror!Handled
<1>2. PICK o, w, b, v, f :
        entities = [agent |-> [owner |-> o, wallet |-> w, seen |-> b],
                    validations |-> v, feedback |-> f]
  BY DEF EntitiesShape
<1>3. entities' = [agent |-> [owner |-> o, wallet |-> w, seen |-> TRUE],
                  validations |-> v, feedback |-> Append(f, [value |-> e.value, digest |-> e.digest])]
  BY <1>1, <1>2 DEF Mirror!LoadAgent
<1>. QED
  BY <1>2, <1>3 DEF EntitiesShape, SameAgent

\* A validation is written, the others are left.
Rewritten(ent, hash, response) ==
  /\ DOMAIN ent.validations = DOMAIN entities.validations \cup {hash}
  /\ ent.validations[hash].response = response
  /\ \A h \in DOMAIN entities.validations :
       h # hash => ent.validations[h] = entities.validations[h]

Written(hash, val) ==
  entities' = [entities EXCEPT !.agent = Mirror!LoadAgent,
                 !.validations = [h \in DOMAIN @ \cup {hash} |->
                                    IF h = hash THEN val ELSE @[h]]]

LEMMA ValidationIsHandled ==
  ASSUME NEW hash, NEW val, EntitiesShape, Written(hash, val)
  PROVE  /\ EntitiesShape' /\ SameAgent(entities')
         /\ entities'.feedback = entities.feedback
         /\ Rewritten(entities', hash, val.response)
<1>1. PICK o, w, b, v, f :
        entities = [agent |-> [owner |-> o, wallet |-> w, seen |-> b],
                    validations |-> v, feedback |-> f]
  BY DEF EntitiesShape
<1>. DEFINE vs == [h \in DOMAIN v \cup {hash} |-> IF h = hash THEN val ELSE v[h]]
<1>2. entities' = [agent |-> [owner |-> o, wallet |-> w, seen |-> TRUE],
                  validations |-> vs, feedback |-> f]
  BY <1>1 DEF Written, Mirror!LoadAgent
<1>3. /\ DOMAIN vs = DOMAIN v \cup {hash} /\ vs[hash] = val
      /\ \A h \in DOMAIN v : h # hash => vs[h] = v[h]
  OBVIOUS
<1>. HIDE DEF vs
<1>. QED
  BY <1>1, <1>2, <1>3 DEF EntitiesShape, SameAgent, Rewritten

LEMMA RequestIsHandled ==
  ASSUME NEW e, e.name = "ValidationRequest", EntitiesShape, entities' = Mirror!Handled(e)
  PROVE  /\ EntitiesShape' /\ SameAgent(entities')
         /\ entities'.feedback = entities.feedback
         /\ Rewritten(entities', e.requestHash, -1)
<1>1. Written(e.requestHash, Mirror!NewValidation)
  BY DEF Mirror!Handled, Written
<1>2. Mirror!NewValidation.response = -1
  BY DEF Mirror!NewValidation
<1>. QED
  BY <1>1, <1>2, ValidationIsHandled

LEMMA ResponseIsHandled ==
  ASSUME NEW e, e.name = "ValidationResponse", EntitiesShape, entities' = Mirror!Handled(e)
  PROVE  /\ EntitiesShape' /\ SameAgent(entities')
         /\ entities'.feedback = entities.feedback
         /\ Rewritten(entities', e.requestHash, e.response)
<1>1. Written(e.requestHash, [response |-> e.response])
  BY DEF Mirror!Handled, Written
<1>2. [response |-> e.response].response = e.response
  OBVIOUS
<1>. QED
  BY <1>1, <1>2, ValidationIsHandled

(***************************************************************************)
(* One event more is read.                                                 *)
(***************************************************************************)
OneMoreRead(z) ==
  /\ z = indexed + 1 /\ z \in Nat /\ z >= 1 /\ z \in DOMAIN rlog
  /\ indexed' = z /\ UNCHANGED rlog
  /\ entities' = Mirror!Handled(rlog[z])
  /\ \A kind : /\ ReadPlaces(kind) \subseteq 1 .. z /\ z \notin ReadPlaces(kind)
               /\ ReadPlaces(kind) \subseteq DOMAIN rlog
  /\ \A kind : ReadPlaces(kind)' =
       IF rlog[z].name = kind THEN ReadPlaces(kind) \cup {z} ELSE ReadPlaces(kind)
  /\ \A hash : ReadAnswers(hash) \subseteq 1 .. z
  /\ \A hash : ReadAnswers(hash)' =
       IF rlog[z].name = "ValidationResponse" /\ rlog[z].requestHash = hash
       THEN ReadAnswers(hash) \cup {z} ELSE ReadAnswers(hash)

LEMMA IndexReadsOne ==
  ASSUME IndexInv, IsSequence(rlog), Mirror!Index PROVE OneMoreRead(indexed + 1)
<1>. DEFINE z == indexed + 1
<1>1. /\ indexed < Len(rlog) /\ indexed' = z /\ entities' = Mirror!Handled(rlog[z])
      /\ UNCHANGED rlog
  BY DEF Mirror!Index
<1>2. Len(rlog) \in Nat /\ DOMAIN rlog = 1 .. Len(rlog) /\ indexed \in Nat
  BY SequenceDomain DEF IndexInv
<1>3. z \in Nat /\ z >= 1 /\ z \in DOMAIN rlog
  BY <1>1, <1>2
<1>4. \A i \in DOMAIN rlog : i \in Int /\ 1 <= i /\ (i <= z <=> (i <= indexed \/ i = z)) /\ ~(z <= indexed)
  BY <1>2
<1>5. \A kind : /\ ReadPlaces(kind) \subseteq 1 .. z /\ z \notin ReadPlaces(kind)
                /\ ReadPlaces(kind) \subseteq DOMAIN rlog
  BY <1>2, <1>3, <1>4 DEF ReadPlaces, Mirror!Places
<1>6. \A kind : ReadPlaces(kind)' =
        IF rlog[z].name = kind THEN ReadPlaces(kind) \cup {z} ELSE ReadPlaces(kind)
  BY <1>1, <1>3, <1>4 DEF ReadPlaces, Mirror!Places
<1>7. \A hash : ReadAnswers(hash) \subseteq 1 .. z
  BY <1>2, <1>3, <1>4 DEF ReadAnswers, Mirror!Answers, Mirror!Places
<1>8. \A hash : ReadAnswers(hash)' =
        IF rlog[z].name = "ValidationResponse" /\ rlog[z].requestHash = hash
        THEN ReadAnswers(hash) \cup {z} ELSE ReadAnswers(hash)
  BY <1>1, <1>3, <1>4 DEF ReadAnswers, Mirror!Answers, Mirror!Places
<1>. QED
  BY <1>1, <1>3, <1>5, <1>6, <1>7, <1>8 DEF OneMoreRead

\* The parts an event has nothing to do with.
LEMMA WalletStays ==
  ASSUME NEW z, OneMoreRead(z), WalletIsRead, rlog[z].name # "MetadataSet",
         ReadPlaces("MetadataSet") # {} => entities'.agent.wallet = entities.agent.wallet
  PROVE  WalletIsRead'
<1>1. ReadPlaces("MetadataSet")' = ReadPlaces("MetadataSet") /\ rlog' = rlog
  BY DEF OneMoreRead
<1>. QED
  BY <1>1 DEF WalletIsRead

LEMMA ValidationsStay ==
  ASSUME NEW z, OneMoreRead(z), ValidationsAreRead,
         rlog[z].name \notin {"ValidationRequest", "ValidationResponse"},
         entities'.validations = entities.validations
  PROVE  ValidationsAreRead'
<1>1. ReadPlaces("ValidationRequest")' = ReadPlaces("ValidationRequest") /\ rlog' = rlog
  BY DEF OneMoreRead
<1>2. \A hash : AnswerRead(hash)' = AnswerRead(hash)
  <2>1. \A hash : ReadAnswers(hash)' = ReadAnswers(hash)
    BY DEF OneMoreRead
  <2>. QED
    BY <1>1, <2>1 DEF AnswerRead
<1>. QED
  BY <1>1, <1>2 DEF ValidationsAreRead

LEMMA FeedbackStays ==
  ASSUME NEW z, OneMoreRead(z), FeedbackIsRead, rlog[z].name # "NewFeedback",
         entities'.feedback = entities.feedback
  PROVE  FeedbackIsRead'
<1>1. ReadPlaces("NewFeedback")' = ReadPlaces("NewFeedback") /\ rlog' = rlog
  BY DEF OneMoreRead
<1>2. \A i : Mirror!FeedbackIndex(i)' = Mirror!FeedbackIndex(i)
  BY <1>1 DEF Mirror!FeedbackIndex, Mirror!Places
<1>. QED
  BY <1>1, <1>2 DEF FeedbackIsRead

LEMMA WalletIsSet ==
  ASSUME NEW z, OneMoreRead(z), rlog[z].name = "MetadataSet",
         entities'.agent.wallet = rlog[z].wallet
  PROVE  WalletIsRead'
<1>1. /\ ReadPlaces("MetadataSet")' \in SUBSET (1 .. z) /\ z \in ReadPlaces("MetadataSet")'
      /\ z \in Nat /\ rlog' = rlog
  <2>1. ReadPlaces("MetadataSet") \subseteq 1 .. z /\ z \in Nat /\ z \in 1 .. z
    BY DEF OneMoreRead
  <2>. QED
    BY <2>1 DEF OneMoreRead
<1>2. Mirror!Max(ReadPlaces("MetadataSet")') = z
  BY <1>1, MaxOfTop
<1>. QED
  BY <1>1, <1>2 DEF WalletIsRead

LEMMA RequestIsRead ==
  ASSUME NEW z, OneMoreRead(z), ValidationsAreRead, RequestedOnce, AnswersFollow,
         z \in Nat, indexed \in Nat, DOMAIN rlog \subseteq Nat,
         rlog[z].name = "ValidationRequest", Rewritten(entities', rlog[z].requestHash, -1)
  PROVE  ValidationsAreRead'
<1>. DEFINE hash == rlog[z].requestHash
            R == ReadPlaces("ValidationRequest")
<1>1. /\ R' = R \cup {z} /\ rlog' = rlog /\ z \notin R /\ R \subseteq DOMAIN rlog
      /\ \A h : ReadAnswers(h)' = ReadAnswers(h)
  BY DEF OneMoreRead
<1>2. z \in Mirror!Places("ValidationRequest") /\ indexed = z - 1
  <2>1. z = indexed + 1 /\ z \in DOMAIN rlog /\ indexed \in Nat
    BY DEF OneMoreRead
  <2>. QED
    BY <2>1 DEF Mirror!Places
<1>3. \A h : AnswerRead(h)' = AnswerRead(h)
  BY <1>1 DEF AnswerRead
<1>4. \A i \in R : rlog[i].requestHash # hash
  BY <1>1, <1>2 DEF RequestedOnce, ReadPlaces
<1>5. ReadAnswers(hash) = {}
  <2>. SUFFICES ASSUME NEW i \in ReadAnswers(hash) PROVE FALSE
    OBVIOUS
  <2>1. i \in Mirror!Places("ValidationResponse") /\ rlog[i].requestHash = hash /\ i <= z - 1
    BY <1>2 DEF ReadAnswers, Mirror!Answers
  <2>2. PICK j \in Mirror!Places("ValidationRequest") : j < i /\ rlog[j].requestHash = hash
    BY <2>1 DEF AnswersFollow
  <2>3. j = z
    BY <1>2, <2>2 DEF RequestedOnce
  <2>4. i \in Nat
    BY <2>1 DEF Mirror!Places
  <2>. QED
    BY <2>1, <2>2, <2>3, <2>4
<1>6. AnswerRead(hash) = -1
  BY <1>5 DEF AnswerRead
<1>7. hash \in DOMAIN entities'.validations /\ entities'.validations[hash].response = -1
  BY DEF Rewritten
<1>8. ASSUME NEW i \in R
      PROVE  /\ rlog[i].requestHash \in DOMAIN entities'.validations
             /\ entities'.validations[rlog[i].requestHash].response
                  = AnswerRead(rlog[i].requestHash)
  BY <1>4 DEF Rewritten, ValidationsAreRead
<1>. HIDE DEF hash, R
<1>9. ASSUME NEW i \in R \cup {z}
      PROVE  /\ rlog[i].requestHash \in DOMAIN entities'.validations
             /\ entities'.validations[rlog[i].requestHash].response
                  = AnswerRead(rlog[i].requestHash)
  <2>1. CASE i = z
    BY <1>6, <1>7, <2>1 DEF hash
  <2>. QED
    BY <1>8, <2>1
<1>. QED
  BY <1>1, <1>3, <1>9 DEF ValidationsAreRead, R

LEMMA ResponseIsRead ==
  ASSUME NEW z, OneMoreRead(z), ValidationsAreRead, z \in Nat,
         rlog[z].name = "ValidationResponse",
         Rewritten(entities', rlog[z].requestHash, rlog[z].response)
  PROVE  ValidationsAreRead'
<1>. PICK hash : hash = rlog[z].requestHash
  OBVIOUS
<1>. DEFINE R == ReadPlaces("ValidationRequest")
<1>1. /\ R' = R /\ rlog' = rlog /\ z >= 1
      /\ \A h : h # hash => ReadAnswers(h)' = ReadAnswers(h)
      /\ ReadAnswers(hash)' = ReadAnswers(hash) \cup {z}
      /\ ReadAnswers(hash) \subseteq 1 .. z
  BY DEF OneMoreRead
<1>2. \A h : h # hash => AnswerRead(h)' = AnswerRead(h)
  BY <1>1 DEF AnswerRead
<1>3. ReadAnswers(hash)' \in SUBSET (1 .. z) /\ z \in ReadAnswers(hash)'
  BY <1>1
<1>4. Mirror!Max(ReadAnswers(hash)') = z
  BY <1>3, MaxOfTop
<1>5. AnswerRead(hash)' = rlog[z].response
  BY <1>1, <1>3, <1>4 DEF AnswerRead
<1>6. /\ hash \in DOMAIN entities'.validations
      /\ entities'.validations[hash].response = rlog[z].response
  BY DEF Rewritten
<1>7. ASSUME NEW i \in R
      PROVE  /\ rlog[i].requestHash \in DOMAIN entities'.validations
             /\ rlog[i].requestHash # hash =>
                  entities'.validations[rlog[i].requestHash].response
                    = AnswerRead(rlog[i].requestHash)
  BY DEF Rewritten, ValidationsAreRead
<1>. HIDE DEF R
<1>8. ASSUME NEW i \in R, NEW h, h = rlog[i].requestHash
      PROVE  entities'.validations[h].response = AnswerRead(h)'
  <2>1. CASE h = hash
    BY <1>1, <1>5, <1>6, <2>1
  <2>2. CASE h # hash
    BY <1>1, <1>2, <1>7, <1>8, <2>2
  <2>. QED
    BY <2>1, <2>2
<1>. QED
  BY <1>1, <1>7, <1>8 DEF ValidationsAreRead, R

LEMMA FeedbackIsTaken ==
  ASSUME NEW z, OneMoreRead(z), FeedbackIsRead, IsSequence(entities.feedback),
         IsSequence(rlog), z \in Nat, indexed \in Nat, rlog[z].name = "NewFeedback",
         entities'.feedback =
           Append(entities.feedback, [value |-> rlog[z].value, digest |-> rlog[z].digest])
  PROVE  FeedbackIsRead' /\ IsSequence(entities'.feedback)
<1>. DEFINE R == ReadPlaces("NewFeedback")
            f == entities.feedback
            e == [value |-> rlog[z].value, digest |-> rlog[z].digest]
            n == Cardinality(R)
<1>1. /\ R' = R \cup {z} /\ rlog' = rlog /\ z \notin R /\ R \subseteq DOMAIN rlog
      /\ z = indexed + 1 /\ z \in DOMAIN rlog
  BY DEF OneMoreRead
<1>2. Len(rlog) \in Nat /\ DOMAIN rlog = 1 .. Len(rlog)
  BY SequenceDomain
<1>3. IsFiniteSet(R)
  <2>1. IsFiniteSet(1 .. Len(rlog)) /\ R \subseteq 1 .. Len(rlog)
    BY <1>1, <1>2, FS_Interval
  <2>. HIDE DEF R
  <2>. QED
    BY <2>1, FS_Subset
<1>4. n \in Nat /\ Cardinality(R \cup {z}) = n + 1
  BY <1>1, <1>3, FS_AddElement, FS_CardinalityType
<1>5. Len(f) = n
  BY DEF FeedbackIsRead
<1>6. ExtendedBy(f, e, entities'.feedback)
  BY AppendExtends
<1>7. \A i : Mirror!FeedbackIndex(i)' = Mirror!FeedbackIndex(i)
  BY <1>1 DEF Mirror!FeedbackIndex, Mirror!Places
<1>8. Mirror!FeedbackIndex(z) = n + 1
  <2>1. {j \in Mirror!Places("NewFeedback") : j <= z} = R \cup {z}
    BY <1>1, <1>2 DEF ReadPlaces, Mirror!Places
  <2>. QED
    BY <1>4, <2>1, MirrorCardinality DEF Mirror!FeedbackIndex
<1>9. ASSUME NEW i \in R PROVE Mirror!FeedbackIndex(i) \in 1 .. n
  <2>1. i \in Mirror!Places("NewFeedback") /\ i <= indexed
    BY DEF ReadPlaces
  <2>2. {j \in Mirror!Places("NewFeedback") : j <= indexed} = R
    BY DEF ReadPlaces
  <2>. QED
    BY <2>1, <2>2, FeedbackNumbers
<1>10. ASSUME NEW i \in R
       PROVE  f[Mirror!FeedbackIndex(i)] = [value |-> rlog[i].value, digest |-> rlog[i].digest]
  BY DEF FeedbackIsRead
<1>. HIDE DEF R, f, e, n
<1>11. ASSUME NEW i \in R \cup {z}
       PROVE  entities'.feedback[Mirror!FeedbackIndex(i)]
                = [value |-> rlog[i].value, digest |-> rlog[i].digest]
  <2>1. CASE i = z
    <3>1. entities'.feedback[n + 1] = e
      BY <1>5, <1>6 DEF ExtendedBy
    <3>. QED
      BY <1>8, <2>1, <3>1 DEF e
  <2>2. CASE i # z
    <3>1. i \in R
      BY <2>2
    <3>2. Mirror!FeedbackIndex(i) \in DOMAIN f
      BY <1>4, <1>5, <1>6, <1>9, <3>1 DEF ExtendedBy
    <3>3. entities'.feedback[Mirror!FeedbackIndex(i)] = f[Mirror!FeedbackIndex(i)]
      BY <1>6, <3>2 DEF ExtendedBy
    <3>. QED
      BY <1>10, <3>1, <3>3
  <2>. QED
    BY <2>1, <2>2
<1>12. Len(entities'.feedback) = Cardinality(R')
  BY <1>1, <1>4, <1>5, <1>6 DEF ExtendedBy
<1>13. IsSequence(entities'.feedback)
  BY <1>6 DEF ExtendedBy
<1>. QED
  BY <1>1, <1>7, <1>11, <1>12, <1>13 DEF FeedbackIsRead, R

LEMMA IndexKeepsIndex ==
  ASSUME RegistryInv, IndexInv, Mirror!Index PROVE IndexInv'
<1>. PICK z : z = indexed + 1
  OBVIOUS
<1>. PICK e : e = rlog[z]
  OBVIOUS
<1>1. /\ OneMoreRead(z) /\ IsSequence(rlog)
      /\ WalletIsRead /\ ValidationsAreRead /\ FeedbackIsRead /\ EntitiesShape
  BY IndexReadsOne DEF RegistryInv, IndexInv
<1>2. /\ z \in Nat /\ z >= 1 /\ z \in DOMAIN rlog /\ indexed \in Nat /\ z = indexed + 1
      /\ indexed' = z /\ rlog' = rlog /\ entities' = Mirror!Handled(e)
  BY <1>1 DEF OneMoreRead, IndexInv
<1>3. Len(rlog) \in Nat /\ DOMAIN rlog = 1 .. Len(rlog)
  BY <1>1, SequenceDomain
<1>4. e.name \in {"Registered", "MetadataSet", "ValidationRequest", "ValidationResponse",
                  "NewFeedback"}
  BY <1>2 DEF RegistryInv, EventsAreTrue, IsCall, CallFor
<1>5. indexed' \in 0 .. Len(rlog')
  BY <1>2, <1>3
<1>6. IsSequence(entities.feedback)
  BY DEF IndexInv
<1>7. RequestedOnce /\ AnswersFollow
  BY DEF RegistryInv
<1>8. CASE e.name = "Registered"
  <2>1. /\ EntitiesShape' /\ entities'.agent.seen
        /\ entities'.validations = entities.validations
        /\ entities'.feedback = entities.feedback
    BY <1>1, <1>2, <1>8, RegisteredIsHandled
  <2>2. ReadPlaces("MetadataSet") = {}
    <3>1. z = 1
      BY <1>2, <1>8 DEF RegistryInv, RegistrationIsFirst
    <3>. QED
      BY <1>2, <1>3, <3>1 DEF ReadPlaces, Mirror!Places
  <2>3. WalletIsRead' /\ ValidationsAreRead' /\ FeedbackIsRead'
    BY <1>1, <1>8, <2>1, <2>2, WalletStays, ValidationsStay, FeedbackStays
  <2>. QED
    BY <1>5, <1>6, <2>1, <2>3 DEF IndexInv
<1>9. CASE e.name = "MetadataSet"
  <2>1. entities.agent.seen
    <3>1. z # 1
      <4>1. rlog # <<>>
        BY <1>2, <1>3
      <4>. QED
        BY <1>9, <4>1 DEF RegistryInv, RegistrationIsFirst
    <3>. QED
      BY <1>2, <3>1 DEF IndexInv
  <2>2. /\ EntitiesShape' /\ entities'.agent.seen
        /\ entities'.agent.wallet = e.wallet
        /\ entities'.validations = entities.validations
        /\ entities'.feedback = entities.feedback
    BY <1>1, <1>2, <1>9, <2>1, MetadataIsHandled
  <2>3. WalletIsRead' /\ ValidationsAreRead' /\ FeedbackIsRead'
    BY <1>1, <1>9, <2>2, WalletIsSet, ValidationsStay, FeedbackStays
  <2>. QED
    BY <1>5, <1>6, <2>2, <2>3 DEF IndexInv
<1>10. CASE e.name = "ValidationRequest"
  <2>1. /\ EntitiesShape' /\ SameAgent(entities')
        /\ entities'.feedback = entities.feedback
        /\ Rewritten(entities', e.requestHash, -1)
    BY <1>1, <1>2, <1>10, RequestIsHandled
  <2>2. WalletIsRead' /\ FeedbackIsRead'
    BY <1>1, <1>10, <2>1, WalletStays, FeedbackStays DEF SameAgent
  <2>3. ValidationsAreRead'
    BY <1>1, <1>2, <1>3, <1>7, <1>10, <2>1, RequestIsRead
  <2>. QED
    BY <1>5, <1>6, <2>1, <2>2, <2>3 DEF IndexInv, SameAgent
<1>11. CASE e.name = "ValidationResponse"
  <2>1. /\ EntitiesShape' /\ SameAgent(entities')
        /\ entities'.feedback = entities.feedback
        /\ Rewritten(entities', e.requestHash, e.response)
    BY <1>1, <1>2, <1>11, ResponseIsHandled
  <2>2. WalletIsRead' /\ FeedbackIsRead'
    BY <1>1, <1>11, <2>1, WalletStays, FeedbackStays DEF SameAgent
  <2>3. ValidationsAreRead'
    BY <1>1, <1>2, <1>11, <2>1, ResponseIsRead
  <2>. QED
    BY <1>5, <1>6, <2>1, <2>2, <2>3 DEF IndexInv, SameAgent
<1>12. CASE e.name = "NewFeedback"
  <2>1. /\ EntitiesShape' /\ SameAgent(entities')
        /\ entities'.validations = entities.validations
        /\ entities'.feedback =
             Append(entities.feedback, [value |-> e.value, digest |-> e.digest])
    BY <1>1, <1>2, <1>12, FeedbackIsHandled
  <2>2. WalletIsRead' /\ ValidationsAreRead'
    BY <1>1, <1>12, <2>1, WalletStays, ValidationsStay DEF SameAgent
  <2>3. FeedbackIsRead' /\ IsSequence(entities'.feedback)
    BY <1>1, <1>2, <1>6, <1>12, <2>1, FeedbackIsTaken
  <2>. QED
    BY <1>5, <2>1, <2>2, <2>3 DEF IndexInv, SameAgent
<1>. QED
  BY <1>4, <1>8, <1>9, <1>10, <1>11, <1>12

LEMMA RegistriesGrow ==
  ASSUME RegistryInv, [Mirror!OrchestratorNext]_(Mirror!orchestratorVars)
  PROVE  Grows(rlog, rlog') /\ (UNCHANGED <<indexed, entities>> \/ Mirror!Index)
<1>1. CASE UNCHANGED rlog /\ (UNCHANGED <<indexed, entities>> \/ Mirror!Index)
  BY <1>1 DEF Grows
<1>2. CASE \E events : rlog' = rlog \o events /\ IsSequence(events) /\ UNCHANGED <<indexed, entities>>
  <2>1. PICK events : rlog' = rlog \o events /\ IsSequence(events)
    BY <1>2
  <2>2. PICK S : rlog \in Seq(S)
    BY DEF RegistryInv, IsSequence
  <2>3. PICK T : events \in Seq(T)
    BY <2>1 DEF IsSequence
  <2>4. rlog \in Seq(S \cup T) /\ events \in Seq(S \cup T)
    BY <2>2, <2>3
  <2>5. Grows(rlog, rlog')
    BY <2>1, <2>4, ConcatProperties DEF Grows
  <2>. QED
    BY <1>2, <2>5
<1>3. IsSequence(Mirror!Registration)
  <2>. DEFINE a == [name |-> "Registered", owner |-> Ops]
              b == [name |-> "MetadataSet", wallet |-> Ops]
              S == {a, b}
  <2>1. a \in S /\ b \in S
    OBVIOUS
  <2>. HIDE DEF a, b, S
  <2>2. <<a, b>> \in Seq(S)
    BY <2>1
  <2>. QED
    BY <2>2 DEF IsSequence, Mirror!Registration, a, b
<1>4. \A ev : IsSequence(<<ev>>)
  <2>. SUFFICES ASSUME NEW ev PROVE IsSequence(<<ev>>)
    OBVIOUS
  <2>1. <<ev>> \in Seq({ev})
    OBVIOUS
  <2>. QED
    BY <2>1 DEF IsSequence
<1>5. CASE Mirror!Register \/ Mirror!Bind \/ \E i \in DOMAIN txs : Mirror!Mine(i)
  BY <1>1, <1>2, <1>3, <1>4, <1>5
  DEF Mirror!Register, Mirror!Bind, Mirror!Mine, Mirror!Emitted, Mirror!registryVars
<1>6. CASE ~(Mirror!Register \/ Mirror!Bind \/ \E i \in DOMAIN txs : Mirror!Mine(i))
  <2>1. UNCHANGED rlog /\ (UNCHANGED <<indexed, entities>> \/ Mirror!Index)
    BY <1>6
    DEF Mirror!OrchestratorNext, Mirror!Emit, Mirror!Poll, Mirror!Take, Mirror!Restart,
        Mirror!ReadStatus, Mirror!Post, Mirror!PostFails, Mirror!Process, Mirror!Gate,
        Mirror!DemoExits, Mirror!Drained, Mirror!Recover, Mirror!Sweep, Mirror!Readback,
        Mirror!Killed, Mirror!IndexNext, Mirror!Index, Mirror!registryVars,
        Mirror!orchestratorVars
  <2>. QED
    BY <1>1, <2>1
<1>. QED
  BY <1>5, <1>6

LEMMA NextKeepsIndex ==
  ASSUME RegistryInv, RegistryInv', IndexInv,
         [Mirror!OrchestratorNext]_(Mirror!orchestratorVars)
  PROVE  IndexInv'
BY RegistriesGrow, IndexKeepsIndex, GrowthKeepsIndex DEF RegistryInv

-----------------------------------------------------------------------------
(***************************************************************************)
(* The receipt.  What passes its checks is a covered verdict with answers, *)
(* and every answer with its hash says what it is worth.                   *)
(***************************************************************************)
Accepted(i) == i \in DOMAIN vlog /\ vlog[i].event = "VerdictAccepted"

Vouched(i) ==
  Accepted(i) /\ vlog[i].byte = 1 /\ Mirror!Answers(Mirror!HashAt(i)) # {}

PassInv ==
  /\ covered # 0 => Accepted(covered)
  /\ verdict = "PASS" => \E i \in DOMAIN vlog : Vouched(i)

LEMMA StatusIsWorth ==
  ASSUME RegistryInv, NEW i \in DOMAIN vlog, Mirror!Answers(Mirror!HashAt(i)) # {}
  PROVE  /\ Mirror!OutcomeOf(vlog[i]) # {}
         /\ Mirror!Status(Mirror!HashAt(i)) = Mirror!SCORE_BY_OUTCOME[Worth(vlog[i])]
<1>. DEFINE A == Mirror!Answers(Mirror!HashAt(i))
            m == Mirror!Max(A)
<1>1. Len(rlog) \in Nat /\ DOMAIN rlog = 1 .. Len(rlog)
  BY SequenceDomain DEF RegistryInv
<1>2. A \in SUBSET (1 .. Len(rlog))
  BY <1>1 DEF Mirror!Answers, Mirror!Places
<1>3. m \in A
  <2>. HIDE DEF A
  <2>. QED
    BY <1>1, <1>2, MaxIsGreatest DEF A
<1>4. /\ m \in DOMAIN rlog /\ rlog[m].name = "ValidationResponse"
      /\ rlog[m].requestHash = Mirror!HashAt(i)
  BY <1>3 DEF Mirror!Answers, Mirror!Places
<1>5. PICK k \in DOMAIN vlog : CallFor(rlog[m], vlog, life, k)
  BY <1>4 DEF RegistryInv, EventsAreTrue, IsCall
<1>6. k = i
  BY <1>4, <1>5 DEF CallFor, Mirror!HashAt, Mirror!RequestHash
<1>7. Mirror!Status(Mirror!HashAt(i)) = rlog[m].response
  BY DEF Mirror!Status, Mirror!Latest
<1>. QED
  BY <1>4, <1>5, <1>6, <1>7 DEF CallFor

LEMMA CoveredIsWorth ==
  ASSUME NEW entry, entry.event = "VerdictAccepted", Mirror!OutcomeOf(entry) # {}
  PROVE  entry.byte = 1 <=> Mirror!SCORE_BY_OUTCOME[Worth(entry)] = 25
<1>1. Mirror!OutcomeOf(entry) = Mirror!OutcomeFromByte(entry.byte)
  BY DEF Mirror!OutcomeOf
<1>2. CASE entry.byte = 1
  BY <1>1, <1>2 DEF Mirror!OutcomeFromByte, Worth, Mirror!SCORE_BY_OUTCOME
<1>3. CASE entry.byte = 2
  BY <1>1, <1>3 DEF Mirror!OutcomeFromByte, Worth, Mirror!SCORE_BY_OUTCOME
<1>4. CASE entry.byte = 3
  BY <1>1, <1>4 DEF Mirror!OutcomeFromByte, Worth, Mirror!SCORE_BY_OUTCOME
<1>. QED
  BY <1>1, <1>2, <1>3, <1>4 DEF Mirror!OutcomeFromByte

LEMMA CheckedIsVouched ==
  ASSUME RegistryInv, NEW i, Accepted(i), Mirror!ReadsCovered(i)
  PROVE  Vouched(i)
<1>1. Mirror!Status(Mirror!HashAt(i)) = 25
  BY DEF Mirror!ReadsCovered, Mirror!SCORE_BY_OUTCOME
<1>2. Mirror!Answers(Mirror!HashAt(i)) # {}
  BY <1>1 DEF Mirror!Status
<1>. QED
  BY <1>1, <1>2, StatusIsWorth, CoveredIsWorth DEF Vouched, Accepted

LEMMA VouchedStays ==
  ASSUME NEW i, Vouched(i), Grows(vlog, vlog'), Grows(rlog, rlog')
  PROVE  i \in DOMAIN vlog' /\ Vouched(i)'
<1>1. i \in DOMAIN vlog' /\ vlog'[i] = vlog[i]
  BY DEF Vouched, Accepted, Grows
<1>2. Mirror!HashAt(i)' = Mirror!HashAt(i)
  BY <1>1 DEF Mirror!HashAt
<1>3. Mirror!Answers(Mirror!HashAt(i))' # {}
  BY <1>2 DEF Vouched, Mirror!Answers, Mirror!Places, Grows
<1>. QED
  BY <1>1, <1>3 DEF Vouched, Accepted

LEMMA LogsGrow ==
  ASSUME SenderInv, [Mirror!OrchestratorNext]_(Mirror!orchestratorVars)
  PROVE  Grows(vlog, vlog')
<1>1. CASE Mirror!Emit
  <2>1. PICK entry : vlog' = Append(vlog, entry)
    BY <1>1 DEF Mirror!Emit
  <2>2. ExtendedBy(vlog, entry, vlog')
    BY <2>1, AppendExtends DEF SenderInv
  <2>. QED
    BY <2>2 DEF ExtendedBy, Grows
<1>2. CASE ~Mirror!Emit
  <2>1. vlog' = vlog
    BY <1>2
    DEF Mirror!OrchestratorNext, Mirror!Poll, Mirror!Take, Mirror!Restart,
        Mirror!ReadStatus, Mirror!Post, Mirror!PostFails, Mirror!Process, Mirror!Gate,
        Mirror!DemoExits, Mirror!Drained, Mirror!Recover, Mirror!Sweep, Mirror!Readback,
        Mirror!Killed, Mirror!IndexNext, Mirror!Register, Mirror!Bind, Mirror!Mine,
        Mirror!orchestratorVars
  <2>. QED
    BY <2>1 DEF Grows
<1>. QED
  BY <1>1, <1>2

LEMMA PassInit == Mirror!OrchestratorInit => PassInv
BY DEF Mirror!OrchestratorInit, PassInv

LEMMA CoveredIsAccepted ==
  ASSUME SenderInv, PassInv, [Mirror!OrchestratorNext]_(Mirror!orchestratorVars),
         covered' # 0
  PROVE  Accepted(covered')
<1>1. CASE covered' = covered
  BY <1>1 DEF PassInv
<1>2. CASE Mirror!ReadStatus \/ Mirror!Post
  <2>1. covered' = covered \/ (Mirror!WithTx(vlog[task.at]) /\ covered' = task.at)
    BY <1>2 DEF Mirror!ReadStatus, Mirror!Post
  <2>2. task.at \in DOMAIN vlog
    BY <1>2 DEF Mirror!ReadStatus, Mirror!Post, SenderInv, TaskFits
  <2>. QED
    BY <1>1, <2>1, <2>2 DEF Accepted, Mirror!WithTx
<1>3. CASE Mirror!Process
  <2>1. /\ queue # <<>>
        /\ \/ covered' = covered
           \/ Mirror!WithTx(vlog[Head(queue).at]) /\ covered' = Head(queue).at
    BY <1>3 DEF Mirror!Process
  <2>2. Head(queue).at \in DOMAIN vlog
    BY <2>1, QueueAdvances DEF SenderInv
  <2>. QED
    BY <1>1, <2>1, <2>2 DEF Accepted, Mirror!WithTx
<1>4. CASE ~(Mirror!ReadStatus \/ Mirror!Post \/ Mirror!Process)
  <2>1. covered' = covered
    BY <1>4
    DEF Mirror!OrchestratorNext, Mirror!Emit, Mirror!Poll, Mirror!Take, Mirror!Restart,
        Mirror!PostFails, Mirror!Gate, Mirror!DemoExits, Mirror!Drained, Mirror!Recover,
        Mirror!Sweep, Mirror!Readback, Mirror!Killed, Mirror!Gone, Mirror!IndexNext,
        Mirror!Register, Mirror!Bind, Mirror!Mine, Mirror!collectorVars,
        Mirror!orchestratorVars
  <2>. QED
    BY <1>1, <2>1
<1>. QED
  BY <1>2, <1>3, <1>4

LEMMA LastIsAccepted ==
  ASSUME SenderInv, Mirror!LastAccepted # 0 PROVE Accepted(Mirror!LastAccepted)
<1>. DEFINE I == {i \in 1 .. Len(vlog) : vlog[i].event = "VerdictAccepted"}
<1>1. Len(vlog) \in Nat /\ DOMAIN vlog = 1 .. Len(vlog)
  BY SequenceDomain DEF SenderInv
<1>2. I # {} /\ Mirror!LastAccepted = Mirror!Max(I)
  BY DEF Mirror!LastAccepted, Mirror!SelectLastInSeq
<1>3. Mirror!Max(I) \in I
  BY <1>1, <1>2, MaxIsGreatest
<1>. QED
  BY <1>1, <1>2, <1>3 DEF Accepted

LEMMA PassIsVouched ==
  ASSUME SenderInv, RegistryInv, PassInv,
         [Mirror!OrchestratorNext]_(Mirror!orchestratorVars), verdict' = "PASS"
  PROVE  \E i \in DOMAIN vlog : Vouched(i)
<1>1. CASE Mirror!Readback
  <2>1. covered # 0 /\ Mirror!ReadsCovered(covered)
    BY <1>1 DEF Mirror!Readback, Mirror!EndsWith
  <2>. QED
    BY <2>1, CheckedIsVouched DEF PassInv, Accepted
<1>2. CASE Mirror!Recover
  <2>1. Mirror!LastAccepted # 0 /\ Mirror!ReadsCovered(Mirror!LastAccepted)
    BY <1>2 DEF Mirror!Recover, Mirror!EndsWith
  <2>. QED
    BY <2>1, LastIsAccepted, CheckedIsVouched DEF Accepted
<1>3. CASE ~(Mirror!Readback \/ Mirror!Recover)
  <2>1. verdict = "PASS"
    BY <1>3
    DEF Mirror!OrchestratorNext, Mirror!Emit, Mirror!Poll, Mirror!Take, Mirror!Restart,
        Mirror!ReadStatus, Mirror!Post, Mirror!PostFails, Mirror!Process, Mirror!Gate,
        Mirror!DemoExits, Mirror!Drained, Mirror!Sweep, Mirror!Killed, Mirror!IndexNext,
        Mirror!Register, Mirror!Bind, Mirror!Mine, Mirror!EndsWith, Mirror!orchestratorVars
  <2>. QED
    BY <2>1 DEF PassInv
<1>. QED
  BY <1>1, <1>2, <1>3

LEMMA NextKeepsPass ==
  ASSUME SenderInv, RegistryInv, PassInv,
         [Mirror!OrchestratorNext]_(Mirror!orchestratorVars)
  PROVE  PassInv'
<1>1. Grows(vlog, vlog') /\ Grows(rlog, rlog')
  BY LogsGrow, RegistriesGrow
<1>2. covered' # 0 => Accepted(covered)'
  BY <1>1, CoveredIsAccepted DEF Accepted, Grows
<1>3. ASSUME verdict' = "PASS" PROVE \E i \in DOMAIN vlog' : Vouched(i)'
  <2>1. PICK i \in DOMAIN vlog : Vouched(i)
    BY <1>3, PassIsVouched
  <2>. QED
    BY <1>1, <2>1, VouchedStays
<1>. QED
  BY <1>2, <1>3 DEF PassInv

(***************************************************************************)
(* Together.                                                               *)
(***************************************************************************)
MirrorInv == SenderInv /\ RegistryInv /\ IndexInv /\ PassInv

LEMMA WorthIsSaid ==
  ASSUME NEW k \in DOMAIN vlog, Mirror!OutcomeOf(vlog[k]) # {}, NEW worth
  PROVE  Mirror!Said(Mirror!DigestOf(vlog[k]), worth, worth[Worth(vlog[k])])
<1>. DEFINE entry == vlog[k]
<1>1. entry \in Mirror!ToSet(vlog)
  BY DEF Mirror!ToSet
<1>2. CASE entry.event = "HoldVerdictRouted"
  <2>1. entry.clean /\ Mirror!OutcomeOf(entry) = {"ATTEMPTED"}
    BY <1>2 DEF Mirror!OutcomeOf, Mirror!OutcomeFromByte
  <2>2. Worth(entry) = "ATTEMPTED"
    BY <2>1 DEF Worth
  <2>. QED
    BY <1>1, <1>2, <2>1, <2>2 DEF Mirror!Said
<1>3. CASE entry.event # "HoldVerdictRouted"
  <2>1. Mirror!OutcomeOf(entry) = Mirror!OutcomeFromByte(entry.byte)
    BY <1>3 DEF Mirror!OutcomeOf
  <2>2. \/ entry.byte = 1 /\ Mirror!OutcomeOf(entry) = {"COVERED"}
        \/ entry.byte = 2 /\ Mirror!OutcomeOf(entry) = {"DENIED_OWNER_ORIGIN"}
        \/ entry.byte = 3 /\ Mirror!OutcomeOf(entry) = {"ATTEMPTED"}
    BY <2>1 DEF Mirror!OutcomeFromByte
  <2>3. entry.byte \in DOMAIN Mirror!ContractOutcome /\ Worth(entry) = Mirror!ContractOutcome[entry.byte]
    BY <2>2 DEF Worth, Mirror!ContractOutcome
  <2>. QED
    BY <1>1, <1>3, <2>3 DEF Mirror!Said
<1>. QED
  BY <1>2, <1>3

LEMMA EventsAreSaid ==
  ASSUME RegistryInv
  PROVE  /\ \A i \in Mirror!Places("ValidationResponse") :
              Mirror!Said(rlog[i].digest, Mirror!SCORE_BY_OUTCOME, rlog[i].response)
         /\ \A i \in Mirror!Places("NewFeedback") :
              Mirror!Said(rlog[i].digest, Mirror!VALUE_BY_OUTCOME, rlog[i].value)
<1>1. ASSUME NEW i \in Mirror!Places("ValidationResponse")
      PROVE  Mirror!Said(rlog[i].digest, Mirror!SCORE_BY_OUTCOME, rlog[i].response)
  <2>1. i \in DOMAIN rlog /\ rlog[i].name = "ValidationResponse"
    BY DEF Mirror!Places
  <2>2. PICK k \in DOMAIN vlog : CallFor(rlog[i], vlog, life, k)
    BY <2>1 DEF RegistryInv, EventsAreTrue, IsCall
  <2>3. /\ Mirror!OutcomeOf(vlog[k]) # {} /\ rlog[i].digest = Mirror!DigestOf(vlog[k])
        /\ rlog[i].response = Mirror!SCORE_BY_OUTCOME[Worth(vlog[k])]
    BY <2>1, <2>2 DEF CallFor
  <2>. QED
    BY <2>3, WorthIsSaid
<1>2. ASSUME NEW i \in Mirror!Places("NewFeedback")
      PROVE  Mirror!Said(rlog[i].digest, Mirror!VALUE_BY_OUTCOME, rlog[i].value)
  <2>1. i \in DOMAIN rlog /\ rlog[i].name = "NewFeedback"
    BY DEF Mirror!Places
  <2>2. PICK k \in DOMAIN vlog : CallFor(rlog[i], vlog, life, k)
    BY <2>1 DEF RegistryInv, EventsAreTrue, IsCall
  <2>3. /\ Mirror!OutcomeOf(vlog[k]) # {} /\ rlog[i].digest = Mirror!DigestOf(vlog[k])
        /\ rlog[i].value = Mirror!VALUE_BY_OUTCOME[Worth(vlog[k])]
    BY <2>1, <2>2 DEF CallFor
  <2>. QED
    BY <2>3, WorthIsSaid
<1>. QED
  BY <1>1, <1>2

\* An index that has caught up has read every place.
LEMMA CaughtUpMatches ==
  ASSUME RegistryInv, IndexInv PROVE Mirror!IndexMatches
<1>. SUFFICES ASSUME indexed = Len(rlog) PROVE Mirror!IndexMatches
  BY DEF Mirror!IndexMatches
<1>1. Len(rlog) \in Nat /\ DOMAIN rlog = 1 .. Len(rlog)
  BY SequenceDomain DEF RegistryInv
<1>2. \A kind : ReadPlaces(kind) = Mirror!Places(kind)
  BY <1>1 DEF ReadPlaces, Mirror!Places
<1>3. \A hash : ReadAnswers(hash) = Mirror!Answers(hash)
  BY <1>1 DEF ReadAnswers, Mirror!Answers, Mirror!Places
<1>4. Mirror!Places("MetadataSet") # {} =>
        entities.agent.wallet = Mirror!Latest(Mirror!Places("MetadataSet")).wallet
  BY <1>2 DEF IndexInv, WalletIsRead, Mirror!Latest
<1>5. ASSUME NEW i \in Mirror!Places("ValidationRequest"), NEW h, h = rlog[i].requestHash
      PROVE  entities.validations[h].response =
               IF Mirror!Answers(h) = {} THEN Mirror!NewValidation.response ELSE Mirror!Status(h)
  <2>1. entities.validations[h].response = AnswerRead(h)
    BY <1>2, <1>5 DEF IndexInv, ValidationsAreRead
  <2>2. Mirror!NewValidation.response = -1
    BY DEF Mirror!NewValidation
  <2>. QED
    BY <1>3, <2>1, <2>2 DEF AnswerRead, Mirror!Status, Mirror!Latest
<1>6. Len(entities.feedback) = Mirror!Cardinality(Mirror!Places("NewFeedback"))
  BY <1>2, MirrorCardinality DEF IndexInv, FeedbackIsRead
<1>7. \A i \in Mirror!Places("NewFeedback") :
        entities.feedback[Mirror!FeedbackIndex(i)] =
          [value |-> rlog[i].value, digest |-> rlog[i].digest]
  BY <1>2 DEF IndexInv, FeedbackIsRead
<1>. QED
  BY <1>4, <1>5, <1>6, <1>7 DEF Mirror!IndexMatches

LEMMA InvMakesFaithful == MirrorInv => MirrorIsFaithful
<1>. SUFFICES ASSUME MirrorInv PROVE Mirror!MirrorIsFaithful
  BY DEF MirrorIsFaithful
<1>1. ASSUME NEW i \in Mirror!Places("NewFeedback"), NEW j \in Mirror!Places("NewFeedback"),
             i # j
      PROVE  rlog[i].digest # rlog[j].digest \/ rlog[i].life # rlog[j].life
  BY <1>1 DEF MirrorInv, RegistryInv, FeedbackOnce, SameFeedback, Mirror!Places
<1>2. ASSUME verdict = "PASS"
      PROVE  \E i \in DOMAIN vlog :
               /\ vlog[i].event = "VerdictAccepted" /\ vlog[i].byte = 1
               /\ Mirror!Status(Mirror!HashAt(i)) = Mirror!SCORE_BY_OUTCOME["COVERED"]
  <2>1. PICK i \in DOMAIN vlog : Vouched(i)
    BY <1>2 DEF MirrorInv, PassInv
  <2>2. /\ Mirror!OutcomeOf(vlog[i]) # {}
        /\ Mirror!Status(Mirror!HashAt(i)) = Mirror!SCORE_BY_OUTCOME[Worth(vlog[i])]
    BY <2>1, StatusIsWorth DEF MirrorInv, Vouched
  <2>3. Mirror!SCORE_BY_OUTCOME[Worth(vlog[i])] = 25
    BY <2>1, <2>2, CoveredIsWorth DEF Vouched, Accepted
  <2>4. Mirror!SCORE_BY_OUTCOME["COVERED"] = 25
    BY DEF Mirror!SCORE_BY_OUTCOME
  <2>. QED
    BY <2>1, <2>2, <2>3, <2>4 DEF Vouched, Accepted
<1>. QED
  BY <1>1, <1>2, EventsAreSaid, CaughtUpMatches DEF MirrorInv, Mirror!MirrorIsFaithful

LEMMA ServicesKeepMirror ==
  [ServicesNext]_servicesVars => [Mirror!OrchestratorNext]_(Mirror!orchestratorVars)
BY DEF ServicesNext, servicesVars, Serves, OthersIdle, mirrorVars, Mirror!orchestratorVars

\* The driving record repeats the verdict contract: no answer or feedback
\* without an accepted log of that worth, no digest twice by one process, an
\* index that agrees once it has caught up, and a passing receipt only with
\* its covered verdict in the registries, whatever is dropped, delivered twice,
\* sent in part, mined late or killed (handle, mapping.ts, step4-arc.ts).
THEOREM DrivingRecordIsFaithful == ServicesSpec => []MirrorIsFaithful
<1>1. ServicesInit => MirrorInv
  BY SenderInit, RegistryInit, IndexInit, PassInit DEF ServicesInit, MirrorInv
<1>2. MirrorInv /\ [ServicesNext]_servicesVars => MirrorInv'
  BY ServicesKeepMirror, NextKeepsSender, NextKeepsRegistry, NextKeepsIndex, NextKeepsPass
  DEF MirrorInv
<1>. QED
  BY <1>1, <1>2, InvMakesFaithful, PTL DEF ServicesSpec

=============================================================================
