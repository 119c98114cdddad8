----------------------------- MODULE Blocklist -----------------------------
(***************************************************************************)
(* contracts/src/Blocklist.sol: strikes against destinations, filed by     *)
(* reporters and cleared by the admin or a reporter.  The _cleared flag is *)
(* only ever deleted, so it is always false and left out.                  *)
(***************************************************************************)
EXTENDS Naturals

CONSTANTS
  Address,       \* all accounts
  ZeroAddress,   \* address(0)
  Deployer,      \* first admin and first reporter
  Destinations,  \* the accounts strikes may be filed against
  Reporters,     \* the accounts setReporter may name
  Admins,        \* the accounts setAdmin may name
  MAX_STRIKES    \* the largest value of the counter's type

VARIABLES
  strikes,       \* strikes[a]
  isReporter,
  blocklistAdmin \* admin

blocklistVars == <<strikes, isReporter, blocklistAdmin>>

BlocklistTypeOK ==
  /\ strikes \in [Address -> 0 .. MAX_STRIKES]
  /\ isReporter \in [Address -> BOOLEAN]
  /\ blocklistAdmin \in Address \ {ZeroAddress}

-----------------------------------------------------------------------------
\* The checked increment reverts at the end of the counter's type.
Report(caller, destination) ==
  /\ isReporter[caller]
  /\ destination # ZeroAddress
  /\ strikes[destination] < MAX_STRIKES
  /\ strikes' = [strikes EXCEPT ![destination] = @ + 1]
  /\ UNCHANGED <<isReporter, blocklistAdmin>>

Clear(caller, destination) ==
  /\ caller = blocklistAdmin \/ isReporter[caller]
  /\ strikes[destination] # 0
  /\ strikes' = [strikes EXCEPT ![destination] = 0]
  /\ UNCHANGED <<isReporter, blocklistAdmin>>

SetReporter(caller, reporter, allowed) ==
  /\ caller = blocklistAdmin
  /\ reporter # ZeroAddress
  /\ isReporter' = [isReporter EXCEPT ![reporter] = allowed]
  /\ UNCHANGED <<strikes, blocklistAdmin>>

\* The reporter flag of the old admin stays behind.
SetAdmin(caller, newAdmin) ==
  /\ caller = blocklistAdmin
  /\ newAdmin # ZeroAddress
  /\ blocklistAdmin' = newAdmin
  /\ UNCHANGED <<strikes, isReporter>>

BlocklistInit ==
  /\ strikes = [a \in Address |-> 0]
  /\ isReporter = [a \in Address |-> a = Deployer]
  /\ blocklistAdmin = Deployer

\* A transaction to the blocklist.
BlocklistCall(callers) ==
  \E caller \in callers :
    \/ \E d \in Destinations : Report(caller, d) \/ Clear(caller, d)
    \/ \E r \in Reporters, allowed \in BOOLEAN : SetReporter(caller, r, allowed)
    \/ \E a \in Admins : SetAdmin(caller, a)
=============================================================================
