----------------------------- MODULE WitnessFiles -----------------------------
(***************************************************************************)
(* The configuration files of RpcWitnessProvider::generate_witness,        *)
(* crates/host/src/witness/rpc.rs.  A call writes the rollup and the L1    *)
(* configuration to temporary files whose names hold only the process id,  *)
(* and reads them again five times: for the hash of the boot info, for the *)
(* L1 chain id, before the kona client starts, when the client asks, and   *)
(* for the local keys of the witness.  Calls of one process share the two  *)
(* files; the calls here may overlap in any way and be of different        *)
(* networks.                                                               *)
(*                                                                         *)
(* What the calls read from the nodes for the claim is in RangeProving.    *)
(***************************************************************************)
EXTENDS Naturals

CONSTANTS
  Calls,      \* calls of generate_witness in one process
  Networks,   \* which chain's nodes a provider is connected to
  Mainnet,    \* the network whose L1 chain id is 1
  Unnamed,    \* networks whose rollup configuration names no l1_chain_id
  Leftovers,  \* what an earlier process with the same id may have left behind
  Torn,       \* content of a file between truncation and write, or of a file
              \* that is not there: nothing that parses
  Missing     \* a value a call does not have (yet), or that it skipped

\* A rollup configuration, with or without the fork times of debug_chainConfig.
RollupConfig == [network : Networks, merged : BOOLEAN]
\* An L1 configuration: from debug_chainConfig, or the default for a chain id.
L1Config == [network : Networks, default : BOOLEAN]

ASSUME MainnetAssumption == Mainnet \in Networks
ASSUME TornAssumption == Torn \notin RollupConfig \union L1Config
ASSUME LeftoversAssumption ==
  Leftovers \subseteq [rollup : RollupConfig \union {Torn}, l1 : L1Config \union {Torn}]
ASSUME MissingAssumption ==
  Missing \notin RollupConfig \union L1Config \union Networks \union {Torn}

\* A rollup_config_path that is not set, not there or not JSON is "unusable".
Provider == [network : Networks, path : {"valid", "unusable"}, op_node : BOOLEAN]

VARIABLES
  rollup,     \* open-zk-rollup-config-<pid>.json
  l1,         \* open-zk-l1-config-<pid>.json
  provider,   \* the provider of each call; never changes
  pc,
  config,     \* the rollup configuration the call resolved
  l1_config,  \* the L1 configuration it resolved
  chain_id,   \* the network of the L1 chain id it re-read
  hash,       \* what rollup_config_hash was computed from
  client_rollup, client_l1,  \* the configurations the kona client was served
  key_rollup, key_l1,        \* the configurations injected as local keys
  overlapped  \* history: another call wrote a file while this one was active

files == <<rollup, l1>>
client == <<client_rollup, client_l1>>
keys == <<key_rollup, key_l1>>
vars == <<files, provider, pc, config, l1_config, chain_id, hash, client, keys, overlapped>>

Ended == {"done", "failed", "hung"}

Init ==
  /\ \E old \in Leftovers : rollup = old.rollup /\ l1 = old.l1
  /\ provider \in [Calls -> Provider]
  /\ pc = [c \in Calls |-> "ensure"]
  /\ config = [c \in Calls |-> Missing]
  /\ l1_config = [c \in Calls |-> Missing]
  /\ chain_id = [c \in Calls |-> Missing]
  /\ hash = [c \in Calls |-> Missing]
  /\ client_rollup = [c \in Calls |-> Missing] /\ client_l1 = [c \in Calls |-> Missing]
  /\ key_rollup = [c \in Calls |-> Missing] /\ key_l1 = [c \in Calls |-> Missing]
  /\ overlapped = [c \in Calls |-> FALSE]

Goto(c, l) == pc' = [pc EXCEPT ![c] = l]

\* The other calls that are on their way see call c write.
Disturb(c) ==
  overlapped' = [d \in Calls |-> overlapped[d] \/ (d # c /\ pc[d] \notin {"ensure"} \union Ended)]

-----------------------------------------------------------------------------
(* ensure_rollup_config                                                     *)

\* The file the user named; its content is the configuration of the network.
UserConfig(c) == [network |-> provider[c].network, merged |-> TRUE]

\* The path is set and holds JSON.
UsePath(c) ==
  /\ pc[c] = "ensure" /\ provider[c].path = "valid"
  /\ config' = [config EXCEPT ![c] = UserConfig(c)]
  /\ Goto(c, "hash")
  /\ UNCHANGED <<files, provider, l1_config, chain_id, hash, client, keys, overlapped>>

NoOpNode(c) ==
  /\ pc[c] = "ensure" /\ provider[c].path = "unusable" /\ ~ provider[c].op_node
  /\ Goto(c, "failed")
  /\ UNCHANGED <<files, provider, config, l1_config, chain_id, hash, client, keys, overlapped>>

\* optimism_rollupConfig answers; debug_chainConfig may (merged) or may not.
FetchRollup(c, merged) ==
  /\ pc[c] = "ensure" /\ provider[c].path = "unusable" /\ provider[c].op_node
  /\ config' = [config EXCEPT ![c] = [network |-> provider[c].network, merged |-> merged]]
  /\ Goto(c, "truncate")
  /\ UNCHANGED <<files, provider, l1_config, chain_id, hash, client, keys, overlapped>>

\* A mutation of Truncate: a file that is there is taken as it is.
KeepsFile(c) ==
  /\ pc[c] = "truncate"
  /\ IF rollup = Torn THEN Goto(c, "write") ELSE Goto(c, "hash")
  /\ UNCHANGED <<files, provider, config, l1_config, chain_id, hash, client, keys, overlapped>>

\* std::fs::write: the file is truncated, then written.
Truncate(c) ==
  /\ pc[c] = "truncate"
  /\ rollup' = Torn /\ Disturb(c)
  /\ Goto(c, "write")
  /\ UNCHANGED <<l1, provider, config, l1_config, chain_id, hash, client, keys>>

Write(c) ==
  /\ pc[c] = "write"
  /\ rollup' = config[c] /\ Disturb(c)
  /\ Goto(c, "hash")
  /\ UNCHANGED <<l1, provider, config, l1_config, chain_id, hash, client, keys>>

-----------------------------------------------------------------------------
(* Reading the files.                                                       *)

\* A mutation of ReadRollup: the temporary file is read whatever was resolved.
ReadsTemporary(c) == rollup

\* The content at the path the call resolved.
ReadRollup(c) == IF provider[c].path = "valid" THEN UserConfig(c) ELSE rollup

\* A mutation of Hash: the configuration is hashed as it was before the merge.
HashesUnmerged(c) ==
  /\ pc[c] = "hash" /\ ReadRollup(c) # Torn
  /\ hash' = [hash EXCEPT ![c] = [ReadRollup(c) EXCEPT !.merged = FALSE]]
  /\ Goto(c, "reread")
  /\ UNCHANGED <<files, provider, config, l1_config, chain_id, client, keys, overlapped>>

\* compute_rollup_config_hash.
Hash(c) ==
  /\ pc[c] = "hash" /\ ReadRollup(c) # Torn
  /\ hash' = [hash EXCEPT ![c] = ReadRollup(c)]
  /\ Goto(c, "reread")
  /\ UNCHANGED <<files, provider, config, l1_config, chain_id, client, keys, overlapped>>

\* The l1_chain_id of configuration r, mainnet's when it has none.
L1ChainId(r) == IF r.network \in Unnamed THEN Mainnet ELSE r.network

\* generate_witness reads the rollup configuration again for the L1 chain id.
Reread(c) ==
  /\ pc[c] = "reread" /\ ReadRollup(c) # Torn
  /\ chain_id' = [chain_id EXCEPT ![c] = L1ChainId(ReadRollup(c))]
  /\ Goto(c, "l1")
  /\ UNCHANGED <<files, provider, config, l1_config, hash, client, keys, overlapped>>

\* ensure_l1_config: debug_chainConfig of the L1 node, or the default.
FetchL1(c, default) ==
  /\ pc[c] = "l1"
  /\ l1_config' = [l1_config EXCEPT ![c] =
       [network |-> IF default THEN chain_id[c] ELSE provider[c].network,
        default |-> default]]
  /\ Goto(c, "truncate l1")
  /\ UNCHANGED <<files, provider, config, chain_id, hash, client, keys, overlapped>>

TruncateL1(c) ==
  /\ pc[c] = "truncate l1"
  /\ l1' = Torn /\ Disturb(c)
  /\ Goto(c, "write l1")
  /\ UNCHANGED <<rollup, provider, config, l1_config, chain_id, hash, client, keys>>

WriteL1(c) ==
  /\ pc[c] = "write l1"
  /\ l1' = l1_config[c] /\ Disturb(c)
  /\ Goto(c, "verify")
  /\ UNCHANGED <<rollup, provider, config, l1_config, chain_id, hash, client, keys>>

-----------------------------------------------------------------------------
(* collect_witness and the local keys.                                      *)

\* read_rollup_config and read_l1_config, before the client starts.
Verify(c) ==
  /\ pc[c] = "verify" /\ ReadRollup(c) # Torn /\ l1 # Torn
  /\ Goto(c, "client rollup")
  /\ UNCHANGED <<files, provider, config, l1_config, chain_id, hash, client, keys, overlapped>>

\* The client asks for the configurations; SingleChainLocalInputs reads the
\* file then, and a client that gets no answer waits forever.  For the L1 chains
\* it knows, the client goes by its own registry whatever the file says.
ClientRollup(c) ==
  /\ pc[c] = "client rollup"
  /\ IF ReadRollup(c) = Torn
     THEN Goto(c, "hung") /\ UNCHANGED client_rollup
     ELSE /\ Goto(c, "client l1")
          /\ client_rollup' = [client_rollup EXCEPT ![c] = ReadRollup(c)]
  /\ UNCHANGED <<files, provider, config, l1_config, chain_id, hash, client_l1, keys, overlapped>>

ClientL1(c) ==
  /\ pc[c] = "client l1"
  /\ IF l1 = Torn
     THEN Goto(c, "hung") /\ UNCHANGED client_l1
     ELSE Goto(c, "keys rollup") /\ client_l1' = [client_l1 EXCEPT ![c] = l1]
  /\ UNCHANGED <<files, provider, config, l1_config, chain_id, hash, client_rollup, keys,
                 overlapped>>

\* The loop over the local keys: a key without value is left out.
KeyRollup(c) ==
  /\ pc[c] = "keys rollup"
  /\ key_rollup' = [key_rollup EXCEPT ![c] =
                      IF ReadRollup(c) = Torn THEN Missing ELSE ReadRollup(c)]
  /\ Goto(c, "keys l1")
  /\ UNCHANGED <<files, provider, config, l1_config, chain_id, hash, client, key_l1, overlapped>>

KeyL1(c) ==
  /\ pc[c] = "keys l1"
  /\ key_l1' = [key_l1 EXCEPT ![c] = IF l1 = Torn THEN Missing ELSE l1]
  /\ Goto(c, "done")
  /\ UNCHANGED <<files, provider, config, l1_config, chain_id, hash, client, key_rollup, overlapped>>

\* An RPC or a file operation fails, or a file does not parse: `?' returns it.
\* Past the client nothing can fail any more.
Fail(c) ==
  /\ pc[c] \notin {"keys rollup", "keys l1"} \union Ended
  /\ Goto(c, "failed")
  /\ UNCHANGED <<files, provider, config, l1_config, chain_id, hash, client, keys, overlapped>>

Call(c) ==
  \/ UsePath(c) \/ NoOpNode(c) \/ Truncate(c) \/ Write(c)
  \/ \E b \in BOOLEAN : FetchRollup(c, b) \/ FetchL1(c, b)
  \/ Hash(c) \/ Reread(c) \/ TruncateL1(c) \/ WriteL1(c)
  \/ Verify(c) \/ ClientRollup(c) \/ ClientL1(c) \/ KeyRollup(c) \/ KeyL1(c)
  \/ Fail(c)

Next == \E c \in Calls : Call(c)

Spec == Init /\ [][Next]_vars

-----------------------------------------------------------------------------

TypeOK ==
  /\ rollup \in RollupConfig \union {Torn}
  /\ l1 \in L1Config \union {Torn}
  /\ provider \in [Calls -> Provider]
  /\ pc \in [Calls -> {"ensure", "truncate", "write", "hash", "reread", "l1", "truncate l1",
                       "write l1", "verify", "client rollup", "client l1", "keys rollup",
                       "keys l1"} \union Ended]
  /\ config \in [Calls -> RollupConfig \union {Missing}]
  /\ l1_config \in [Calls -> L1Config \union {Missing}]
  /\ chain_id \in [Calls -> Networks \union {Missing}]
  /\ hash \in [Calls -> RollupConfig \union {Missing}]
  /\ client_rollup \in [Calls -> RollupConfig \union {Missing}]
  /\ client_l1 \in [Calls -> L1Config \union {Missing}]
  /\ key_rollup \in [Calls -> RollupConfig \union {Missing}]
  /\ key_l1 \in [Calls -> L1Config \union {Missing}]
  /\ overlapped \in [Calls -> BOOLEAN]

\* The rollup parts of the witness are all of configuration r.
RollupParts(c, r) == hash[c] = r /\ client_rollup[c] = r /\ key_rollup[c] = r
L1Parts(c, r) == client_l1[c] = r /\ key_l1[c] = r

(***************************************************************************)
(* A call of generate_witness during which no other call writes a file     *)
(* never hangs on its files, and the witness it returns is of one          *)
(* configuration: the boot info's hash, what the kona client was served    *)
(* and the local keys the guest reads are the configuration the call       *)
(* resolved, whatever an earlier call, finished or failed half way through *)
(* its write, or an earlier process of the same id, left in the files.     *)
(***************************************************************************)
AloneIsConsistent ==
  \A c \in Calls : ~ overlapped[c] =>
    /\ pc[c] # "hung"
    /\ pc[c] = "done" => RollupParts(c, config[c]) /\ L1Parts(c, l1_config[c])

(***************************************************************************)
(* A provider with a rollup configuration path of its own is not disturbed *)
(* by the others as to the rollup configuration, and the chain id it looks *)
(* the L1 configuration up by is the one of its own file.                  *)
(***************************************************************************)
PathIsolates ==
  \A c \in Calls : provider[c].path = "valid" /\ pc[c] = "done" =>
    RollupParts(c, UserConfig(c)) /\ chain_id[c] = L1ChainId(UserConfig(c))

Resolved(c) == config[c] # Missing /\ provider[c].path = "unusable"

(***************************************************************************)
(* Calls of one network whose nodes answer alike may overlap: if every     *)
(* call that has resolved a rollup configuration by RPC resolved the same  *)
(* one, the hash and the client's configuration of a finished call are     *)
(* that one, and the local key is too unless it was skipped.               *)
(***************************************************************************)
AgreeingCallsMayOverlap ==
  \A c \in Calls :
    /\ pc[c] = "done" /\ Resolved(c)
    /\ \A d \in Calls : Resolved(d) => config[d] = config[c]
    => /\ hash[c] = config[c] /\ client_rollup[c] = config[c]
       /\ key_rollup[c] \in {config[c], Missing}

-----------------------------------------------------------------------------
(* The inductive invariant: what has been read so far, and what the files   *)
(* hold for the reads to come.                                              *)

PastKeyRollup == {"keys l1", "done"}
PastClientL1 == {"keys rollup"} \union PastKeyRollup
PastClientRollup == {"client l1"} \union PastClientL1
PastWriteL1 == {"verify", "client rollup"} \union PastClientRollup
PastReread == {"l1", "truncate l1", "write l1"} \union PastWriteL1
PastHash == {"reread"} \union PastReread
PastWrite == {"hash"} \union PastHash

Progress(c) ==
  /\ pc[c] = "ensure" => config[c] = Missing
  /\ pc[c] \in {"truncate", "write"} => Resolved(c)
  /\ pc[c] \in PastWrite => config[c] # Missing
  /\ pc[c] \in PastReread => chain_id[c] # Missing
  /\ pc[c] \in {"truncate l1", "write l1"} \union PastWriteL1 => l1_config[c] # Missing
  /\ provider[c].path = "valid" => config[c] \in {Missing, UserConfig(c)}

AloneInv(c) ==
  ~ overlapped[c] =>
    /\ pc[c] # "hung"
    /\ pc[c] \in PastWrite \ {"done"} => ReadRollup(c) = config[c]
    /\ pc[c] \in PastWriteL1 \ {"done"} => l1 = l1_config[c]
    /\ pc[c] \in PastHash => hash[c] = config[c]
    /\ pc[c] \in PastClientRollup => client_rollup[c] = config[c]
    /\ pc[c] \in PastClientL1 => client_l1[c] = l1_config[c]
    /\ pc[c] \in PastKeyRollup => key_rollup[c] = config[c]
    /\ pc[c] = "done" => key_l1[c] = l1_config[c]

PathInv(c) ==
  provider[c].path = "valid" =>
    /\ pc[c] \in PastHash => hash[c] = UserConfig(c)
    /\ pc[c] \in PastReread => chain_id[c] = L1ChainId(UserConfig(c))
    /\ pc[c] \in PastClientRollup => client_rollup[c] = UserConfig(c)
    /\ pc[c] \in PastKeyRollup => key_rollup[c] = UserConfig(c)

AgreeInv(c) ==
  Resolved(c) /\ (\A d \in Calls : Resolved(d) => config[d] = config[c]) =>
    /\ pc[c] \in PastHash => hash[c] = config[c]
    /\ pc[c] \in PastClientRollup => client_rollup[c] = config[c]
    /\ pc[c] \in PastKeyRollup => key_rollup[c] \in {config[c], Missing}

\* Once a call has truncated the rollup file, whatever is in it some call of this
\* process resolved.
FileOrigin ==
  \A c \in Calls : Resolved(c) /\ pc[c] \in {"write"} \union PastWrite /\ rollup # Torn =>
    \E d \in Calls : Resolved(d) /\ rollup = config[d]

CallInv(c) == Progress(c) /\ AloneInv(c) /\ PathInv(c) /\ AgreeInv(c)

IInv == TypeOK /\ FileOrigin /\ \A c \in Calls : CallInv(c)

=============================================================================
