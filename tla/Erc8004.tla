------------------------------ MODULE Erc8004 ------------------------------
(***************************************************************************)
(* The ERC-8004 registries as the orchestrator uses them, the scores and   *)
(* values it posts (packages/sdk/src/erc8004) and the index of the         *)
(* registries (packages/subgraph/erc8004).  The registries are external:   *)
(* they keep one request per hash, take answers only to a request, number  *)
(* the feedback of a client, and their events are their state.             *)
(*                                                                         *)
(* One agent is registered; a digest is that of a verdict or of a hold.    *)
(***************************************************************************)
EXTENDS Integers, Sequences, FiniteSets, SequencesExt

CONSTANTS
  Ops, Amara,     \* the owner of the agent's NFT, and of its account
  NoWallet        \* the zero address

VARIABLES
  rlog,      \* the events of the registries
  indexed,   \* how many of them the subgraph has read
  entities   \* its agent, validations and feedback

registryVars == <<rlog, indexed, entities>>

(***************************************************************************)
(* mapping.ts: what a verdict is worth.                                    *)
(***************************************************************************)
Outcomes == {"COVERED", "DENIED_OWNER_ORIGIN", "ATTEMPTED"}
SCORE_BY_OUTCOME == [COVERED |-> 25, DENIED_OWNER_ORIGIN |-> 0, ATTEMPTED |-> 75]
VALUE_BY_OUTCOME == [COVERED |-> -2500, DENIED_OWNER_ORIGIN |-> -10000, ATTEMPTED |-> 500]

\* The byte of the contract; NONE and DISMISSED have no outcome here.
OutcomeFromByte(byte) ==
  CASE byte = 1 -> {"COVERED"}
    [] byte = 2 -> {"DENIED_OWNER_ORIGIN"}
    [] byte = 3 -> {"ATTEMPTED"}
    [] OTHER -> {}

\* encoding.ts: the hash binds the transaction and the digest; agent and
\* chain are the same for every request.
RequestHash(guardAccount, txHash, digest) ==
  [guardAccount |-> guardAccount, txHash |-> txHash, digest |-> digest]

-----------------------------------------------------------------------------
(***************************************************************************)
(* The registries' views.                                                  *)
(***************************************************************************)
\* The places of the events of one name, and the last event of several.
Places(name) == {i \in DOMAIN rlog : rlog[i].name = name}
Latest(places) == rlog[Max(places)]

Requested(hash) == \E i \in Places("ValidationRequest") : rlog[i].requestHash = hash
Answers(hash) == {i \in Places("ValidationResponse") : rlog[i].requestHash = hash}

\* The last answer; before it a request reads as zero.
Status(hash) == IF Answers(hash) = {} THEN 0 ELSE Latest(Answers(hash)).response

\* Feedback is numbered in the order it comes.
FeedbackIndex(i) == Cardinality({j \in Places("NewFeedback") : j <= i})

-----------------------------------------------------------------------------
(***************************************************************************)
(* subgraph/erc8004/src/mapping.ts.                                        *)
(***************************************************************************)
NoAgent == [owner |-> NoWallet, wallet |-> NoWallet, seen |-> FALSE]

\* Feedback and requests may come for an agent that was never registered.
LoadAgent == [entities.agent EXCEPT !.seen = TRUE]

NewValidation == [response |-> -1]

Handled(e) ==
  CASE e.name = "Registered" ->
         [entities EXCEPT !.agent = [owner |-> e.owner, wallet |-> e.owner, seen |-> TRUE]]
    [] e.name = "MetadataSet" ->
         IF entities.agent.seen THEN [entities EXCEPT !.agent.wallet = e.wallet]
         ELSE entities
    [] e.name = "NewFeedback" ->
         [entities EXCEPT !.agent = LoadAgent,
            !.feedback = Append(@, [value |-> e.value, digest |-> e.digest])]
    [] e.name = "ValidationRequest" ->
         [entities EXCEPT !.agent = LoadAgent,
            !.validations = [h \in DOMAIN @ \cup {e.requestHash} |->
                               IF h = e.requestHash THEN NewValidation ELSE @[h]]]
    [] e.name = "ValidationResponse" ->
         [entities EXCEPT !.agent = LoadAgent,
            !.validations = [h \in DOMAIN @ \cup {e.requestHash} |->
                               IF h = e.requestHash THEN [response |-> e.response]
                               ELSE @[h]]]

Index ==
  /\ indexed < Len(rlog)
  /\ indexed' = indexed + 1
  /\ entities' = Handled(rlog[indexed + 1])
  /\ UNCHANGED rlog

Emitted(events) == rlog' = rlog \o events /\ UNCHANGED <<indexed, entities>>

\* register() writes the owner as the first wallet.
Registration ==
  <<[name |-> "Registered", owner |-> Ops], [name |-> "MetadataSet", wallet |-> Ops]>>

RegistriesInit(events) ==
  /\ rlog = events /\ indexed = 0
  /\ entities = [agent |-> NoAgent, validations |-> [h \in {} |-> h], feedback |-> <<>>]

\* Once the subgraph has caught up.
IndexMatches ==
  indexed = Len(rlog) =>
    /\ Places("MetadataSet") # {} =>
         entities.agent.wallet = Latest(Places("MetadataSet")).wallet
    /\ \A i \in Places("ValidationRequest") :
         LET h == rlog[i].requestHash
         IN entities.validations[h].response =
              IF Answers(h) = {} THEN NewValidation.response ELSE Status(h)
    /\ Len(entities.feedback) = Cardinality(Places("NewFeedback"))
    /\ \A i \in Places("NewFeedback") :
         entities.feedback[FeedbackIndex(i)] =
           [value |-> rlog[i].value, digest |-> rlog[i].digest]

=============================================================================
