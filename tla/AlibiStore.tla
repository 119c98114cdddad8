----------------------------- MODULE AlibiStore -----------------------------
(***************************************************************************)
(* packages/sdk/src/index.ts at work: the agent commits instructions, each *)
(* commit awaiting a co-signature between reading the head and appending   *)
(* its link, and the whole chain is written to a file after every append.  *)
(* The process may stop at any time, also in the middle of that write.     *)
(***************************************************************************)
EXTENDS InstructionChain, FiniteSets

CONSTANTS
  Texts,        \* the instructions
  Origins,      \* where an instruction comes from
  CommitTimes,  \* the second a commit is stamped with
  TeeAttached,  \* a co-signing endpoint is configured
  MaxCommits, MaxInFlight, MaxStops   \* bounds

VARIABLES
  up,        \* the process is running
  chain,     \* the entries in memory
  file,      \* the file: [readable, entries]
  inFlight,  \* commits waiting for the co-signature
  begun, stops,
  kept       \* owner texts whose commit returned, since the last lost write

alibiVars == <<up, chain, file, inFlight, begun, stops, kept>>

Saved(entries) == [readable |-> TRUE, entries |-> entries]

\* load: an unreadable store starts fresh.
Load == IF file.readable THEN file.entries ELSE <<>>

\* commit up to the await: the digest is over the head of that moment.
Begin(text, origin, time) ==
  /\ up /\ begun < MaxCommits /\ Cardinality(inFlight) < MaxInFlight
  /\ inFlight' = inFlight \cup
       {[id |-> begun, entry |-> EntryOn(HeadOf(chain), text, origin, time, FALSE)]}
  /\ begun' = begun + 1
  /\ UNCHANGED <<up, chain, file, stops, kept>>

\* The co-signature is there or not; without an endpoint it never is.
Appended(c, cosigned) == Append(chain, [c.entry EXCEPT !.teeCosigned = cosigned])

Finish(c, cosigned) ==
  /\ up
  /\ cosigned => TeeAttached
  /\ chain' = Appended(c, cosigned)
  /\ file' = Saved(chain')
  /\ inFlight' = inFlight \ {c}
  /\ kept' = IF c.entry.ownerSigned THEN kept \cup {c.entry.text} ELSE kept
  /\ UNCHANGED <<up, begun, stops>>

\* The process stops between two steps.
Stop ==
  /\ up /\ stops < MaxStops
  /\ up' = FALSE /\ stops' = stops + 1
  /\ chain' = <<>> /\ inFlight' = {}
  /\ UNCHANGED <<file, begun, kept>>

\* It stops while the file is being rewritten: what was there is gone too.
StopInWrite(c) ==
  /\ up /\ stops < MaxStops
  /\ up' = FALSE /\ stops' = stops + 1
  /\ chain' = <<>> /\ inFlight' = {}
  /\ file' = [readable |-> FALSE, entries |-> <<>>] /\ kept' = {}
  /\ UNCHANGED begun

Start ==
  /\ ~up
  /\ up' = TRUE
  /\ chain' = Load
  /\ UNCHANGED <<file, inFlight, begun, stops, kept>>

AlibiInit ==
  /\ up = TRUE /\ chain = <<>> /\ file = Saved(<<>>) /\ inFlight = {}
  /\ begun = 0 /\ stops = 0 /\ kept = {}

AlibiNext ==
  \/ \E text \in Texts, origin \in Origins, time \in CommitTimes :
       Begin(text, origin, time)
  \/ \E c \in inFlight, cosigned \in BOOLEAN : Finish(c, cosigned)
  \/ \E c \in inFlight : StopInWrite(c)
  \/ Stop
  \/ Start

-----------------------------------------------------------------------------
\* An instruction the owner has given is the owner's at claim time, however
\* many commits of the same text, signed or not, were in flight around it and
\* whatever the order they ended in: a claim on it is never taken for an
\* external one.  Only a write cut short loses it (alibiFor, commit).
OwnerTextStaysOwners ==
  up => \A text \in kept : AlibiForText(chain, text) = [found |-> TRUE, ownerSigned |-> TRUE]

=============================================================================
