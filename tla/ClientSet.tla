----------------------------- MODULE ClientSet -----------------------------
(***************************************************************************)
(* The set of API clients (looker.go, internal/dependency/client_set.go):  *)
(* AddConsul, which waits for the cluster to have a leader, and AddVault,  *)
(* which may unwrap its token first.  A client reaches the set only when   *)
(* everything before has succeeded; a failed call leaves the set as it     *)
(* was, and the program may call again.  One goroutine calls them; times   *)
(* are in seconds.                                                         *)
(*                                                                         *)
(* Stop only closes idle connections: it changes neither client and is     *)
(* left out, as are addresses, time-outs and the other fields of an input  *)
(* that are copied as they are.                                            *)
(***************************************************************************)
EXTENDS Naturals

CONSTANTS
  MaxRetryWait,     \* hasLeader gives up when the next wait would exceed it
  MaxCreates        \* bound on the calls of AddConsul and AddVault

ASSUME ClientSetAssumption == MaxRetryWait \in Nat \ {0} /\ MaxCreates \in Nat

VARIABLES
  consul, vault,    \* the clients of the set, or NoClient
  maker,            \* the call under way: pc, input, and hasLeader's waits
  creates           \* calls so far

clientVars == <<consul, vault, maker, creates>>

\* The fields of CreateClientInput that decide the outcome; loads tells whether
\* the certificates that are named can be read, and valid whether NewClient of
\* the API takes the address.
Inputs ==
  [ssl : BOOLEAN, verify : BOOLEAN, loads : BOOLEAN, valid : BOOLEAN,
   token : {"none", "wrapping"}, unwrap : BOOLEAN]

NoInput == [ssl |-> FALSE, verify |-> TRUE, loads |-> TRUE, valid |-> TRUE,
            token |-> "none", unwrap |-> FALSE]

\* A client knows the input it was made from only for the properties.
NoClient == [made |-> FALSE, skipsVerify |-> FALSE, token |-> "none", input |-> NoInput]

Client(i, token) ==
  [made |-> TRUE, skipsVerify |-> i.ssl /\ ~ i.verify, token |-> token, input |-> i]

newTransportFails(i) == i.ssl /\ ~ i.loads

\* The transport is made first, then the client of the API.
creationFails(i) == newTransportFails(i) \/ ~ i.valid

Resting(pc) == [pc |-> pc, input |-> NoInput, retryTime |-> 0, waited |-> 0]

ClientInit ==
  /\ consul = NoClient
  /\ vault = NoClient
  /\ maker = Resting("idle")
  /\ creates = 0

MayCreate == maker.pc \in {"idle", "failed", "noLeader"} /\ creates < MaxCreates

(***************************************************************************)
(* AddConsul, CreateConsulClient and hasLeader.                            *)
(***************************************************************************)
CreateConsulClient(i) ==
  /\ MayCreate
  /\ creates' = creates + 1
  /\ maker' = IF creationFails(i) THEN Resting("failed")
              ELSE [pc |-> "leader", input |-> i, retryTime |-> 1, waited |-> 0]
  /\ UNCHANGED <<consul, vault>>

\* Status().Leader() names a leader: the client is saved.
LeaderFound ==
  /\ maker.pc = "leader"
  /\ consul' = Client(maker.input, maker.input.token)
  /\ maker' = Resting("idle")
  /\ UNCHANGED <<vault, creates>>

\* A network error that is not temporary ends the call.
LeaderRefused ==
  /\ maker.pc = "leader"
  /\ maker' = Resting("failed")
  /\ UNCHANGED <<consul, vault, creates>>

\* A mutant: the wait is compared before it doubles.
NoLeaderYetLate ==
  /\ maker.pc = "leader"
  /\ maker' = [maker EXCEPT !.pc = IF maker.retryTime > MaxRetryWait THEN "noLeader" ELSE "sleep",
                            !.retryTime = @ * 2]
  /\ UNCHANGED <<consul, vault, creates>>

\* No leader, or any other error: the wait doubles before it is used.
NoLeaderYet ==
  /\ maker.pc = "leader"
  /\ LET retryTime == maker.retryTime * 2
     IN  maker' = [maker EXCEPT !.pc = IF retryTime > MaxRetryWait THEN "noLeader" ELSE "sleep",
                                !.retryTime = retryTime]
  /\ UNCHANGED <<consul, vault, creates>>

LeaderSleepEnds ==
  /\ maker.pc = "sleep"
  /\ maker' = [maker EXCEPT !.pc = "leader", !.waited = @ + maker.retryTime]
  /\ UNCHANGED <<consul, vault, creates>>

(***************************************************************************)
(* AddVault and CreateVaultClient.                                         *)
(***************************************************************************)
CreateVaultClient(i) ==
  /\ MayCreate
  /\ creates' = creates + 1
  /\ \/ /\ creationFails(i)
        /\ maker' = Resting("failed")
        /\ UNCHANGED vault
     \/ /\ ~ creationFails(i) /\ i.unwrap
        /\ maker' = [Resting("unwrap") EXCEPT !.input = i]
        /\ UNCHANGED vault
     \/ /\ ~ creationFails(i) /\ ~ i.unwrap
        /\ vault' = Client(i, i.token)
        /\ maker' = Resting("idle")
  /\ UNCHANGED consul

\* Unwrap returns a secret with a token in it.
Unwrapped ==
  /\ maker.pc = "unwrap"
  /\ vault' = Client(maker.input, "unwrapped")
  /\ maker' = Resting("idle")
  /\ UNCHANGED <<consul, creates>>

\* A mutant: the client is saved although unwrapping failed.
UnwrapFailsSaved ==
  /\ maker.pc = "unwrap"
  /\ vault' = Client(maker.input, maker.input.token)
  /\ maker' = Resting("failed")
  /\ UNCHANGED <<consul, creates>>

\* An error, no secret, no auth or no token.
UnwrapFails ==
  /\ maker.pc = "unwrap"
  /\ maker' = Resting("failed")
  /\ UNCHANGED <<consul, vault, creates>>

ClientNext ==
  \/ \E i \in Inputs : CreateConsulClient(i)
  \/ \E i \in Inputs : CreateVaultClient(i)
  \/ LeaderFound
  \/ LeaderRefused
  \/ NoLeaderYet
  \/ LeaderSleepEnds
  \/ Unwrapped
  \/ UnwrapFails

-----------------------------------------------------------------------------
(***************************************************************************)
(* Properties.                                                             *)
(***************************************************************************)
\* hasLeader (client_set.go): a cluster without a leader gets the whole of the
\* longest wait before AddConsul gives up, and no more than twice as much,
\* however the doubling of the wait and the test against the limit interplay.
\* So it is for an even limit, as the code's minute is.  For an odd one it may
\* be less: with the three seconds of client_set_test.go the one wait is two.
LeaderGetsItsTime ==
  maker.pc = "noLeader" => maker.waited \in MaxRetryWait .. 2 * MaxRetryWait

\* CreateConsulClient, CreateVaultClient: what reaches the set was made from an
\* input whose certificates load and whose address is valid, checks the server
\* unless told not to, and carries the unwrapped token whenever the input asks
\* to unwrap.
SetHoldsWorkingClients ==
  /\ \A c \in {consul, vault} :
       c.made => ~ creationFails(c.input) /\ (c.skipsVerify => ~ c.input.verify)
  /\ vault.made /\ vault.input.unwrap => vault.token = "unwrapped"
=============================================================================
