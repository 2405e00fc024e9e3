----------------------------- MODULE FastTrack -----------------------------
(***************************************************************************)
(* `open-zk fast-track` (crates/cli/src/commands/fast_track.rs): several   *)
(* calls of it, side by side, from one directory.  `forge script` is a     *)
(* program of its own: it simulates contracts/script/DeployDevnet.s.sol    *)
(* against the deployer's current nonce, prints the addresses that follow  *)
(* from it, then broadcasts the transactions one by one, each valid for    *)
(* its own nonce only.                                                     *)
(***************************************************************************)
EXTENDS Naturals, Sequences

CONSTANTS
  Deploys,        \* calls of fast-track
  FastTrackArgs,  \* their arguments
  Keys,           \* deployer accounts
  MaxNonce        \* bound on the transactions of an account

ASSUME FastTrackAssumption ==
  /\ FastTrackArgs \in
       [Deploys -> [deployer_key : Keys, with_dispute_game : BOOLEAN,
                    starting_block : Nat]]
  /\ MaxNonce \in Nat

VARIABLES
  nonce,          \* of each deployer account
  contracts,      \* what is deployed
  deployment_json,
  deploy          \* of each call: where it is, forge's base nonce, transactions mined, result

fastTrackVars == <<nonce, contracts, deployment_json, deploy>>

\* The contracts the script creates, in the order of its transactions.
Names == <<"MockSP1Verifier", "MockRiscZeroVerifier", "OpenZkL2OutputOracle", "OpenZkDisputeGame">>
Transactions(d) == IF FastTrackArgs[d].with_dispute_game THEN 4 ELSE 3

\* CREATE: an address is a deployer and a nonce.
AddressOf(d, base, i) == <<FastTrackArgs[d].deployer_key, base + i - 1>>

\* The i-th contract.  A game knows its oracle; the owner of each is the deployer, and the
\* verifiers are mocks in any case.  The game's timeout, which nothing reads, is left out.
Contract(d, base, i) ==
  [address |-> AddressOf(d, base, i), name |-> Names[i],
   oracle |-> IF i = 4 THEN <<AddressOf(d, base, 3)>> ELSE <<>>]

\* The console.log lines of the script, in their order: the game's come first.
Logs(d, base) ==
  LET log(i) == [name |-> Names[i], address |-> AddressOf(d, base, i)]
  IN IF FastTrackArgs[d].with_dispute_game THEN <<log(4), log(1), log(2), log(3)>>
     ELSE <<log(1), log(2), log(3)>>

NoResult == [oracle_address |-> <<>>, dispute_game_address |-> <<>>]
Idle == [pc |-> "start", base |-> 0, sent |-> 0, result |-> NoResult]

FastTrackInit ==
  /\ nonce = [k \in Keys |-> 0]
  /\ contracts = {}
  /\ deployment_json = [file |-> "absent"]
  /\ deploy = [d \in Deploys |-> Idle]

At(d, pc) == deploy[d].pc = pc
Goes(d, pc) == deploy' = [deploy EXCEPT ![d].pc = pc]

-----------------------------------------------------------------------------
(* execute, up to forge: the key's form, both nodes and forge itself.       *)

Preflight(d) ==
  /\ At(d, "start")
  /\ Goes(d, "forge")
  /\ UNCHANGED <<nonce, contracts, deployment_json>>

-----------------------------------------------------------------------------
(* forge script --broadcast                                                 *)

Simulate(d) ==
  /\ At(d, "forge")
  /\ deploy' = [deploy EXCEPT ![d].pc = "broadcast",
                              ![d].base = nonce[FastTrackArgs[d].deployer_key]]
  /\ UNCHANGED <<nonce, contracts, deployment_json>>

Broadcast(d) ==
  LET key == FastTrackArgs[d].deployer_key
  IN /\ At(d, "broadcast") /\ deploy[d].sent < Transactions(d)
     /\ nonce[key] < MaxNonce /\ nonce[key] = deploy[d].base + deploy[d].sent
     /\ nonce' = [nonce EXCEPT ![key] = @ + 1]
     /\ contracts' = contracts \cup {Contract(d, deploy[d].base, deploy[d].sent + 1)}
     /\ deploy' = [deploy EXCEPT ![d].sent = @ + 1]
     /\ UNCHANGED deployment_json

\* A mutation of ForgeDone: the exit status is not looked at.
ForgeEnded(d) ==
  /\ At(d, "broadcast")
  /\ Goes(d, "parse")
  /\ UNCHANGED <<nonce, contracts, deployment_json>>

\* deploy_via_forge: the output of a forge that could send everything.
ForgeDone(d) ==
  /\ At(d, "broadcast") /\ deploy[d].sent = Transactions(d)
  /\ Goes(d, "parse")
  /\ UNCHANGED <<nonce, contracts, deployment_json>>

-----------------------------------------------------------------------------
(* parse_deployment_output                                                  *)

\* A mutation of extract_address: the first line of the project's contracts.
FirstOpenZkAddress(output, contract_name) ==
  LET lines == {i \in 1 .. Len(output) :
                  output[i].name \in {"OpenZkL2OutputOracle", "OpenZkDisputeGame"}}
  IN IF lines = {} THEN <<>>
     ELSE <<output[CHOOSE i \in lines : \A k \in lines : i <= k].address>>

\* The first line that names the contract, and its address.
extract_address(output, contract_name) ==
  LET lines == {i \in 1 .. Len(output) : output[i].name = contract_name}
  IN IF lines = {} THEN <<>>
     ELSE <<output[CHOOSE i \in lines : \A k \in lines : i <= k].address>>

\* Both names are in the output of a script that succeeded.
Parse(d) ==
  LET output == Logs(d, deploy[d].base)
  IN /\ At(d, "parse")
     /\ deploy' = [deploy EXCEPT
          ![d].pc = "record",
          ![d].result =
             [oracle_address |-> extract_address(output, "OpenZkL2OutputOracle"),
              dispute_game_address |-> IF FastTrackArgs[d].with_dispute_game
                                       THEN extract_address(output, "OpenZkDisputeGame")
                                       ELSE <<>>]]
     /\ UNCHANGED <<nonce, contracts, deployment_json>>

-----------------------------------------------------------------------------
(* std::fs::write of deployment.json: truncate, then write.                 *)

TruncateRecord(d) ==
  /\ At(d, "record")
  /\ deployment_json' = [file |-> "empty"]
  /\ Goes(d, "write")
  /\ UNCHANGED <<nonce, contracts>>

\* A record written since then is overwritten: a longer one leaves its tail.
WriteRecord(d) ==
  /\ At(d, "write")
  /\ \/ deployment_json' = [file |-> "whole", result |-> deploy[d].result,
                            starting_block |-> FastTrackArgs[d].starting_block]
     \/ /\ deployment_json.file # "empty"
        /\ deployment_json' = [file |-> "garbled"]
  /\ Goes(d, "ok")
  /\ UNCHANGED <<nonce, contracts>>

-----------------------------------------------------------------------------

Over == {"ok", "failed"}

\* A mistyped key, an unreachable node, a missing forge, a rejected transaction, a full
\* disk; or the operator stops the call.  What forge sent, and the file, stay.
DeployFails(d) ==
  /\ deploy[d].pc \notin Over
  /\ deploy' = [deploy EXCEPT ![d] = [Idle EXCEPT !.pc = "failed"]]
  /\ UNCHANGED <<nonce, contracts, deployment_json>>

\* The operator tries again, or deploys once more.
Again(d) ==
  /\ deploy[d].pc \in Over
  /\ deploy' = [deploy EXCEPT ![d] = Idle]
  /\ UNCHANGED <<nonce, contracts, deployment_json>>

\* The account is used for something else.
OtherTransaction(k) ==
  /\ nonce[k] < MaxNonce
  /\ nonce' = [nonce EXCEPT ![k] = @ + 1]
  /\ UNCHANGED <<contracts, deployment_json, deploy>>

FastTrackNext ==
  \/ \E d \in Deploys :
       \/ Preflight(d) \/ Simulate(d) \/ Broadcast(d) \/ ForgeDone(d)
       \/ Parse(d) \/ TruncateRecord(d) \/ WriteRecord(d) \/ DeployFails(d) \/ Again(d)
  \/ \E k \in Keys : OtherTransaction(k)

-----------------------------------------------------------------------------
(* What an operator may rely on afterwards.                                 *)

\* The contracts of a result are on chain, and a game is wired to the oracle.
Deployed(result) ==
  /\ \E c \in contracts : /\ <<c.address>> = result.oracle_address
                          /\ c.name = "OpenZkL2OutputOracle"
  /\ result.dispute_game_address # <<>> =>
       \E c \in contracts : /\ <<c.address>> = result.dispute_game_address
                            /\ c.name = "OpenZkDisputeGame"
                            /\ c.oracle = result.oracle_address

\* A deployment.json that parses names an oracle that exists and, when it names a game, one
\* that disputes outputs of that very oracle: whatever calls with the same key ran beside
\* it, and however often one of them was stopped between forge's first transaction and the
\* last byte of the file.
RecordIsDeployed ==
  deployment_json.file = "whole" => Deployed(deployment_json.result)

\* Two calls that both report success report different contracts, although both may have
\* simulated against the same nonce and so printed the same addresses: only one of them
\* got all its transactions mined.
OksAreDisjoint ==
  \A d, e \in Deploys :
    (At(d, "ok") /\ At(e, "ok") /\ d # e) =>
      /\ deploy[d].result.oracle_address # deploy[e].result.oracle_address
      /\ deploy[d].result.dispute_game_address # <<>> =>
           deploy[d].result.dispute_game_address # deploy[e].result.dispute_game_address

=============================================================================
