-------------------------- MODULE InstructionChain --------------------------
(***************************************************************************)
(* packages/sdk/src/index.ts: the agent's instructions as a hash chain.    *)
(* An entry is signed by the owner's session key when it came from the     *)
(* owner's console; at claim time the chain says whether a transfer was    *)
(* ordered by the owner.                                                   *)
(*                                                                         *)
(* A digest binds the link before it, the origin, the flag, the time and   *)
(* the text: it is the record of them.  A signature is the digest it was   *)
(* made over, or NoDigest; only the session key makes one.                 *)
(***************************************************************************)
EXTENDS Naturals, Sequences

CONSTANT NoDigest   \* "0x0" of an empty chain; no signature

HeadOf(chain) == IF chain = <<>> THEN NoDigest ELSE chain[Len(chain)].digest

Digest(prev, text, origin, time) ==
  [prev |-> prev, origin |-> origin, ownerSigned |-> origin = "owner-console",
   time |-> time, text |-> text]

\* An entry made on top of a head, which may be an old one.
EntryOn(prev, text, origin, time, cosigned) ==
  LET d == Digest(prev, text, origin, time)
  IN [digest |-> d, text |-> text, origin |-> origin,
      ownerSigned |-> d.ownerSigned, time |-> time, teeCosigned |-> cosigned,
      prev |-> prev, signature |-> IF d.ownerSigned THEN d ELSE NoDigest]

\* A commit nothing else happens beside.
Committed(chain, text, origin, time) ==
  Append(chain, EntryOn(HeadOf(chain), text, origin, time, FALSE))

\* verdictFor: the flag counts when the signature is one over the digest.
VerdictFor(entry) ==
  [found |-> TRUE,
   ownerSigned |-> entry.ownerSigned /\ entry.signature = entry.digest]

\* The first of some links.
First(links) == CHOOSE i \in links : \A j \in links : i <= j

NotFound == [found |-> FALSE, ownerSigned |-> FALSE]

\* alibiFor of a digest: it identifies one link.
AlibiForDigest(chain, d) ==
  LET links == {i \in DOMAIN chain : chain[i].digest = d}
  IN IF links = {} THEN NotFound ELSE VerdictFor(chain[First(links)])

\* alibiFor of a text, which may have been committed more than once: links
\* that disagree make it the owner's.
Matches(chain, text) == {i \in DOMAIN chain : chain[i].text = text}

Ambiguous(chain, text) ==
  \E i, j \in Matches(chain, text) : chain[i].ownerSigned # chain[j].ownerSigned

\* Mutant of AlibiForText: the first link decides.
AlibiForFirst(chain, text) ==
  IF Matches(chain, text) = {} THEN NotFound
  ELSE VerdictFor(chain[First(Matches(chain, text))])

AlibiForText(chain, text) ==
  IF Matches(chain, text) = {} THEN NotFound
  ELSE IF Ambiguous(chain, text) THEN [found |-> TRUE, ownerSigned |-> TRUE]
  ELSE VerdictFor(chain[First(Matches(chain, text))])

VerifyChain(chain) ==
  \A i \in DOMAIN chain :
    /\ chain[i].prev = IF i = 1 THEN NoDigest ELSE chain[i - 1].digest
    /\ chain[i].digest = Digest(chain[i].prev, chain[i].text, chain[i].origin,
                                chain[i].time)

=============================================================================
