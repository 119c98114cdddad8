------------------------------ MODULE EnsRecord ------------------------------
(***************************************************************************)
(* packages/record: the agent's resume on ENSv2.  The registration takes   *)
(* four transactions, each sent and awaited in turn: a resolver proxy that *)
(* carries the records from its creation, the approval of the fee, a       *)
(* commitment, and after a minute the registration itself.  A run may stop *)
(* anywhere, with a transaction still to be mined, and another one picks   *)
(* up what it finds; a name that was bound to no resolver is repaired.     *)
(* The proxy's salt is that of the owner alone, so an account has one      *)
(* proxy, with the records of the run that deployed it, whatever label and *)
(* resume that run had; the script takes any label and another resume.     *)
(*                                                                         *)
(* The registrar, the registry, the factory and the token are external:    *)
(* they are what ensv2.ts expects of them.                                 *)
(***************************************************************************)
EXTENDS Naturals, FiniteSets

CONSTANTS
  Us, Rival, NoOne,     \* who may own the name
  Proxy, NoResolver,    \* the proxy of our salt; the zero address
  Foreign,              \* any other resolver
  Label, Labels,        \* the label followed here, and those we may register
  Price, Funds,         \* the fee, and what we may hold of the token
  Resumes,              \* what the resume may say, from run to run
  FirstNames,           \* the name before the first run
  MaxRuns               \* bound

VARIABLES
  name,        \* the name on the registry: [owner, resolver]
  proxy,       \* the proxy's records, or NoRecords before it is deployed
  commitment,  \* age of the commitment to Proxy: "none", "young", "old"
  allowance, balance,
  mempool,     \* our transaction that is not mined, or NoTx
  step, stage, \* where the run is: the step, and whether it sent or awaits
  resolver,    \* its resolver variable
  facts,       \* what its resume says
  sent,        \* the transactions it sent (txHashes)
  receipt,     \* of the transaction it awaits
  runs, result

chainVars == <<name, proxy, commitment, allowance, balance, mempool>>
ensVars == <<name, proxy, commitment, allowance, balance, mempool,
             step, stage, resolver, facts, sent, receipt, runs, result>>

NoRecords == [none |-> TRUE]
NoTx == [kind |-> "none"]

(***************************************************************************)
(* resume.ts: six fields with their provenance, and the text records they  *)
(* become; a record that cannot be read back counts as computed.           *)
(***************************************************************************)
FieldKeys == {"INSURED", "DRIVING", "CLAIMS", "ALIBI", "BACKING", "STATUS"}

BuildResume(said) ==
  [k \in FieldKeys |->
     [text |-> said[k],
      provenance |-> IF k = "DRIVING" THEN "COMPUTED" ELSE "VERIFIED"]]

ToEnsTextRecords(resume) ==
  [k \in FieldKeys |-> <<resume[k].text, resume[k].provenance>>]

ParseEnsTextValue(value) == [text |-> value[1], provenance |-> value[2]]

FromEnsTextRecords(records) ==
  [k \in DOMAIN records \cap FieldKeys |-> ParseEnsTextValue(records[k])]

\* The records a run's plan bakes into the proxy, under its label's node.
TextRecords(label, said) ==
  [label |-> label, texts |-> ToEnsTextRecords(BuildResume(said))]

\* Those found by resolving our label through our proxy.
Resolved ==
  IF name.resolver = Proxy /\ proxy # NoRecords /\ proxy.label = Label
  THEN FromEnsTextRecords(proxy.texts)
  ELSE FromEnsTextRecords([k \in {} |-> k])

-----------------------------------------------------------------------------
(***************************************************************************)
(* The contracts.                                                          *)
(***************************************************************************)
Available == name.owner = NoOne

Succeeds(tx) ==
  CASE tx = "deploy" -> proxy = NoRecords
    [] tx = "approve" -> TRUE
    [] tx = "commit" -> TRUE
    [] tx = "register" -> /\ Available /\ commitment = "old"
                          /\ allowance >= Price /\ balance >= Price
    [] tx = "setResolver" -> name.owner = Us

\* The effect of a transaction that succeeds; the resolver it names and the
\* records it carries are those of the run that sent it.
Effect(tx, bound, baked) ==
  /\ proxy' = IF tx = "deploy" THEN baked ELSE proxy
  /\ allowance' = IF tx = "approve" THEN Price
                  ELSE IF tx = "register" THEN allowance - Price ELSE allowance
  /\ balance' = IF tx = "register" THEN balance - Price ELSE balance
  /\ commitment' = IF tx = "commit" THEN "young"
                   ELSE IF tx = "register" THEN "none" ELSE commitment
  /\ name' = CASE tx = "register" -> [owner |-> Us, resolver |-> bound]
               [] tx = "setResolver" -> [name EXCEPT !.resolver = bound]
               [] OTHER -> name

\* A mined transaction may also fail, when the state has changed since its
\* estimate; the registrar may refuse a commitment it already has.
Mine ==
  /\ mempool # NoTx
  /\ mempool' = NoTx
  /\ LET tx == mempool.kind
         awaited == stage = "receipt" /\ step = tx
     IN \/ /\ Succeeds(tx)
           /\ Effect(tx, mempool.resolver, mempool.records)
           /\ receipt' = IF awaited THEN "success" ELSE receipt
        \/ /\ ~Succeeds(tx) \/ (tx = "commit" /\ commitment # "none")
           /\ receipt' = IF awaited THEN "reverted" ELSE receipt
           /\ UNCHANGED <<name, proxy, commitment, allowance, balance>>
  /\ UNCHANGED <<step, stage, resolver, facts, sent, runs, result>>

\* Time passes on chain.
Age ==
  /\ commitment # "none"
  /\ commitment' = IF commitment = "young" THEN "old" ELSE "none"
  /\ UNCHANGED <<name, proxy, allowance, balance, mempool,
                 step, stage, resolver, facts, sent, receipt, runs, result>>

\* Somebody else takes the name.
TakenByRival ==
  /\ Available
  /\ name' = [owner |-> Rival, resolver |-> NoResolver]
  /\ UNCHANGED <<proxy, commitment, allowance, balance, mempool,
                 step, stage, resolver, facts, sent, receipt, runs, result>>

\* Our account registers another of its labels: a run that finds no proxy
\* leaves one with that label's records, and has paid for the name or not.
OtherLabelRun ==
  /\ proxy = NoRecords /\ mempool = NoTx
  /\ \E l \in Labels \ {Label}, f \in Resumes : proxy' = TextRecords(l, f)
  /\ \E paid \in {0, Price} : paid <= balance /\ balance' = balance - paid
  /\ UNCHANGED <<name, commitment, allowance, mempool,
                 step, stage, resolver, facts, sent, receipt, runs, result>>

-----------------------------------------------------------------------------
(***************************************************************************)
(* register.ts and executeRegistrationPlan.                                *)
(***************************************************************************)
GoTo(s) == step' = s /\ stage' = "send" /\ receipt' = "none"

Ends(how) ==
  /\ step' = "idle" /\ stage' = "send" /\ receipt' = "none"
  /\ result' = how

Begin ==
  /\ step = "idle" /\ runs < MaxRuns
  /\ runs' = runs + 1
  /\ result' = "none"
  /\ resolver' = NoResolver
  /\ facts' \in Resumes /\ sent' = {}
  /\ GoTo("preflight")
  /\ UNCHANGED chainVars

\* An unavailable name must be ours, and costs nothing.
Preflight ==
  /\ step = "preflight"
  /\ IF \/ name.owner = Rival
        \/ Available /\ balance < Price
     THEN Ends("aborted")
     ELSE GoTo("own") /\ UNCHANGED result
  /\ UNCHANGED <<chainVars, resolver, facts, sent, runs>>

\* The proxy of our salt, whatever records it was initialised with; the scan
\* of the factory's logs goes back a bounded number of blocks.
FindSpentProxy == IF proxy = NoRecords THEN {NoResolver} ELSE {Proxy, NoResolver}

\* Ours and bound, to whatever resolver: nothing to do.  Ours and not: bind it
\* to the proxy found.
\* Not ours: a proxy found need not be deployed.
OwnedBefore ==
  /\ step = "own"
  /\ \E found \in FindSpentProxy :
       \/ name.owner = Rival /\ Ends("aborted") /\ UNCHANGED resolver
       \/ /\ name.owner = Us /\ name.resolver # NoResolver
          /\ Ends("registered") /\ resolver' = name.resolver
       \/ /\ name.owner = Us /\ name.resolver = NoResolver
          /\ resolver' = found
          /\ IF found = NoResolver THEN Ends("aborted")
             ELSE GoTo("setResolver") /\ UNCHANGED result
       \/ /\ Available
          /\ resolver' = found
          /\ GoTo(IF found = NoResolver THEN "deploy" ELSE "approve")
          /\ UNCHANGED result
  /\ UNCHANGED <<chainVars, facts, sent, runs>>

\* sendRaw: the nonce does not count a transaction still in the pool, and the
\* gas estimate fails on one that would revert.  The price is read before the
\* approval, and cannot be for a name that is taken.
Send ==
  /\ stage = "send"
  /\ step \in {"deploy", "approve", "commit", "register", "setResolver"}
  /\ IF \/ mempool # NoTx \/ ~Succeeds(step)
        \/ step = "approve" /\ ~Available
     THEN Ends("failed") /\ UNCHANGED <<mempool, sent>>
     ELSE /\ mempool' = [kind |-> step, resolver |-> resolver,
                         records |-> TextRecords(Label, facts)]
          /\ sent' = sent \cup {step}
          /\ stage' = "receipt"
          /\ UNCHANGED <<step, receipt, result>>
  /\ UNCHANGED <<name, proxy, commitment, allowance, balance, resolver, facts, runs>>

\* Mutant of DeployedAt: a proxy whose event is not found is registered all
\* the same.
DeployedAnyway(decoded) ==
  /\ resolver' = IF decoded THEN Proxy ELSE resolver
  /\ GoTo("approve") /\ UNCHANGED result

\* The proxy's address is taken from the event in the receipt; without it the
\* run stops before it registers against the zero address.
DeployedAt(decoded) ==
  /\ resolver' = IF decoded THEN Proxy ELSE resolver
  /\ IF decoded THEN GoTo("approve") /\ UNCHANGED result ELSE Ends("failed")

\* expectOk, and the next step; the wait of a minute after the commitment is
\* by the clock of the process, the age by that of the chain.
Received ==
  /\ stage = "receipt" /\ receipt # "none"
  /\ IF receipt = "reverted" THEN Ends("failed") /\ UNCHANGED resolver
     ELSE \/ step = "deploy" /\ \E decoded \in BOOLEAN : DeployedAt(decoded)
          \/ step = "approve" /\ GoTo("commit") /\ UNCHANGED <<resolver, result>>
          \/ step = "commit" /\ GoTo("register") /\ UNCHANGED <<resolver, result>>
          \/ step \in {"register", "setResolver"} /\ Ends("registered") /\ UNCHANGED resolver
  /\ UNCHANGED <<chainVars, facts, sent, runs>>

\* The run is killed; its transaction is still there.
Crash ==
  /\ step # "idle"
  /\ Ends("crashed")
  /\ UNCHANGED <<chainVars, resolver, facts, sent, runs>>

\* Earlier runs, for this label or another and with any resume, may have left
\* the proxy, and the name in any state; only a name that is bound to the
\* proxy tells that there is one.
EnsInit ==
  /\ name \in FirstNames
  /\ proxy \in {NoRecords} \cup {TextRecords(l, f) : l \in Labels, f \in Resumes}
  /\ name.resolver = Proxy => proxy # NoRecords
  /\ commitment = "none" /\ allowance = 0 /\ balance \in Funds
  /\ mempool = NoTx
  /\ step = "idle" /\ stage = "send" /\ resolver = NoResolver
  /\ facts = CHOOSE f \in Resumes : TRUE
  /\ sent = {}
  /\ receipt = "none" /\ runs = 0 /\ result = "none"

EnsNext ==
  \/ Begin \/ Preflight \/ OwnedBefore \/ Send \/ Received \/ Crash
  \/ Mine \/ Age \/ TakenByRival \/ OtherLabelRun

-----------------------------------------------------------------------------
\* A run that says REGISTERED leaves a name that is ours and bound to the
\* resolver the run reports, never to the zero address or to a proxy that is
\* not there; and if the run deployed the proxy, the name resolves to that
\* run's resume with its provenance labels.  Earlier runs may have left any of
\* their transactions to be mined late.  A run that finds the proxy, or the
\* name bound, promises no more: the records are those of whoever wrote them.
RegisteredNameIsBound ==
  result = "registered" =>
    /\ name.owner = Us /\ name.resolver = resolver /\ resolver # NoResolver
    /\ resolver = Proxy => proxy # NoRecords
    /\ "deploy" \in sent => Resolved = BuildResume(facts)

=============================================================================
