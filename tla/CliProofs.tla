----------------------------- MODULE CliProofs -----------------------------
(***************************************************************************)
(* Proofs about the command line tool, for every number of deployments,    *)
(* every set of command lines, files, environments and builds, and every   *)
(* answer of the markets.                                                  *)
(***************************************************************************)
EXTENDS Cli, FiniteSetTheorems, TLAPS

-----------------------------------------------------------------------------
(* fast-track                                                               *)

Results ==
  [oracle_address : Seq(Keys \X Nat), dispute_game_address : Seq(Keys \X Nat)]

DeployTypes ==
  /\ nonce \in [Keys -> Nat]
  /\ deploy \in [Deploys -> [pc : {"start", "forge", "broadcast", "parse", "record", "write"} \cup Over,
                             base : Nat, sent : Nat, result : Results]]

\* What the script's logs say of a deployment from a base nonce.
ResultOf(d, base) ==
  [oracle_address |-> <<AddressOf(d, base, 3)>>,
   dispute_game_address |-> IF FastTrackArgs[d].with_dispute_game
                            THEN <<AddressOf(d, base, 4)>> ELSE <<>>]

\* The transactions a call has sent are mined, at nonces from its base on.
SentIsMined ==
  \A d \in Deploys :
    /\ deploy[d].sent <= Transactions(d)
    /\ deploy[d].base + deploy[d].sent <= nonce[FastTrackArgs[d].deployer_key]
    /\ \A i \in 1 .. 4 :
         i <= deploy[d].sent => Contract(d, deploy[d].base, i) \in contracts
    /\ deploy[d].pc \in {"start", "forge"} => deploy[d].sent = 0
    /\ deploy[d].pc \in {"parse", "record", "write", "ok"} => deploy[d].sent = Transactions(d)
    /\ deploy[d].pc \in {"record", "write", "ok"} =>
         deploy[d].result = ResultOf(d, deploy[d].base)

\* No nonce is used by two calls with the same key.
NoncesDisjoint ==
  \A d, e \in Deploys :
    (/\ d # e /\ FastTrackArgs[d].deployer_key = FastTrackArgs[e].deployer_key
     /\ deploy[d].sent > 0 /\ deploy[e].sent > 0) =>
      \/ deploy[d].base + deploy[d].sent <= deploy[e].base
      \/ deploy[e].base + deploy[e].sent <= deploy[d].base

FastTrackInv == DeployTypes /\ SentIsMined /\ NoncesDisjoint /\ RecordIsDeployed

LEMMA ArgsTypes ==
  ASSUME NEW d \in Deploys
  PROVE  /\ FastTrackArgs[d].deployer_key \in Keys
         /\ FastTrackArgs[d].with_dispute_game \in BOOLEAN
         /\ Transactions(d) \in {3, 4}
         /\ FastTrackArgs[d].with_dispute_game <=> Transactions(d) = 4
  BY FastTrackAssumption DEF Transactions

\* The first line of the logs that names a contract has that contract's address.
LEMMA ExtractsTheRightLine ==
  ASSUME NEW d \in Deploys, NEW base \in Nat
  PROVE  /\ extract_address(Logs(d, base), "OpenZkL2OutputOracle") = <<AddressOf(d, base, 3)>>
         /\ FastTrackArgs[d].with_dispute_game =>
              extract_address(Logs(d, base), "OpenZkDisputeGame") = <<AddressOf(d, base, 4)>>
  <1> DEFINE out == Logs(d, base)
             Lines(name) == {i \in 1 .. Len(out) : out[i].name = name}
             First(name) == CHOOSE i \in Lines(name) : \A k \in Lines(name) : i <= k
  <1>1. ASSUME NEW name, NEW n \in Nat, Lines(name) = {n}
        PROVE  extract_address(out, name) = <<out[n].address>>
    <2>1. First(name) = n /\ Lines(name) # {}
      BY <1>1
    <2> QED
      BY <2>1 DEF extract_address
  <1>2. CASE FastTrackArgs[d].with_dispute_game
    <2>1. /\ Len(out) = 4
          /\ out[1] = [name |-> "OpenZkDisputeGame", address |-> AddressOf(d, base, 4)]
          /\ out[2].name = "MockSP1Verifier" /\ out[3].name = "MockRiscZeroVerifier"
          /\ out[4] = [name |-> "OpenZkL2OutputOracle", address |-> AddressOf(d, base, 3)]
      BY <1>2 DEF Logs, Names
    <2> HIDE DEF out
    <2>2. /\ Lines("OpenZkL2OutputOracle") = {4} /\ Lines("OpenZkDisputeGame") = {1}
          /\ out[4].address = AddressOf(d, base, 3) /\ out[1].address = AddressOf(d, base, 4)
      BY <2>1
    <2> QED
      BY <1>1, <2>2 DEF out
  <1>3. CASE ~ FastTrackArgs[d].with_dispute_game
    <2>1. /\ Len(out) = 3
          /\ out[1].name = "MockSP1Verifier" /\ out[2].name = "MockRiscZeroVerifier"
          /\ out[3] = [name |-> "OpenZkL2OutputOracle", address |-> AddressOf(d, base, 3)]
      BY <1>3 DEF Logs, Names
    <2> HIDE DEF out
    <2>2. Lines("OpenZkL2OutputOracle") = {3} /\ out[3].address = AddressOf(d, base, 3)
      BY <2>1
    <2> QED
      BY <1>1, <1>3, <2>2 DEF out
  <1> QED
    BY <1>2, <1>3

\* A call that sent everything can write its record with a clear conscience.
LEMMA SentIsDeployed ==
  ASSUME FastTrackInv, NEW d \in Deploys, deploy[d].sent = Transactions(d)
  PROVE  Deployed(ResultOf(d, deploy[d].base))
  <1> DEFINE b == deploy[d].base
  <1>1. Contract(d, b, 3) \in contracts /\ (Transactions(d) = 4 => Contract(d, b, 4) \in contracts)
    BY ArgsTypes DEF FastTrackInv, SentIsMined
  <1>2. /\ Contract(d, b, 3).address = AddressOf(d, b, 3)
        /\ Contract(d, b, 3).name = "OpenZkL2OutputOracle"
        /\ Contract(d, b, 4).address = AddressOf(d, b, 4)
        /\ Contract(d, b, 4).name = "OpenZkDisputeGame"
        /\ Contract(d, b, 4).oracle = <<AddressOf(d, b, 3)>>
    BY DEF Contract, Names
  <1>3. \E c \in contracts : /\ <<c.address>> = ResultOf(d, b).oracle_address
                             /\ c.name = "OpenZkL2OutputOracle"
    BY <1>1, <1>2 DEF ResultOf
  <1>4. ASSUME ResultOf(d, b).dispute_game_address # <<>>
        PROVE  \E c \in contracts : /\ <<c.address>> = ResultOf(d, b).dispute_game_address
                                    /\ c.name = "OpenZkDisputeGame"
                                    /\ c.oracle = ResultOf(d, b).oracle_address
    BY <1>1, <1>2, <1>4, ArgsTypes DEF ResultOf
  <1> QED
    BY <1>3, <1>4 DEF Deployed

Calls ==
  [pc : {"start", "forge", "broadcast", "parse", "record", "write"} \cup Over,
   base : Nat, sent : Nat, result : Results]

\* SentIsMined of one call whose state is r.
CallIsMined(d, r) ==
  /\ r.sent <= Transactions(d)
  /\ r.base + r.sent <= nonce[FastTrackArgs[d].deployer_key]
  /\ \A i \in 1 .. 4 : i <= r.sent => Contract(d, r.base, i) \in contracts
  /\ r.pc \in {"start", "forge"} => r.sent = 0
  /\ r.pc \in {"parse", "record", "write", "ok"} => r.sent = Transactions(d)
  /\ r.pc \in {"record", "write", "ok"} => r.result = ResultOf(d, r.base)

\* A call moves on without a transaction: it keeps what it sent, or has sent nothing.
LEMMA CallMoves ==
  ASSUME FastTrackInv, NEW d \in Deploys, NEW r \in Calls, CallIsMined(d, r),
         r.sent = 0 \/ (r.sent = deploy[d].sent /\ r.base = deploy[d].base),
         deploy' \in [Deploys -> Calls], deploy'[d] = r,
         \A e \in Deploys : e # d => deploy'[e] = deploy[e],
         UNCHANGED <<nonce, contracts>>
  PROVE  (DeployTypes /\ SentIsMined /\ NoncesDisjoint)'
  <1> USE DEF FastTrackInv
  <1>1. /\ deploy'[d] = r /\ \A e \in Deploys : e # d => deploy'[e] = deploy[e]
        /\ deploy \in [Deploys -> Calls] /\ deploy' \in [Deploys -> Calls]
    BY DEF DeployTypes, Calls
  <1>2. DeployTypes'
    BY <1>1 DEF DeployTypes, Calls
  <1>3. SentIsMined'
    <2> SUFFICES ASSUME NEW e \in Deploys PROVE CallIsMined(e, deploy'[e])
      BY DEF SentIsMined, CallIsMined
    <2>1. CASE e = d
      BY <1>1, <2>1
    <2>2. CASE e # d
      BY <1>1, <2>2 DEF SentIsMined, CallIsMined
    <2> QED
      BY <2>1, <2>2
  <1>4. NoncesDisjoint'
    <2>1. \A e \in Deploys : deploy'[e].sent = 0 \/ /\ deploy'[e].sent = deploy[e].sent
                                                     /\ deploy'[e].base = deploy[e].base
      BY <1>1
    <2>2. \A e \in Deploys : deploy'[e].sent \in Nat /\ deploy'[e].base \in Nat
      BY <1>1 DEF Calls
    <2> QED
      BY <2>1, <2>2 DEF NoncesDisjoint
  <1> QED
    BY <1>2, <1>3, <1>4

LEMMA CallTypes ==
  ASSUME FastTrackInv, NEW d \in Deploys
  PROVE  /\ deploy[d] \in Calls /\ CallIsMined(d, deploy[d])
         /\ deploy[d].base \in Nat /\ deploy[d].sent \in Nat
         /\ nonce[FastTrackArgs[d].deployer_key] \in Nat
         /\ deploy \in [Deploys -> Calls]
  BY ArgsTypes DEF FastTrackInv, DeployTypes, Calls, SentIsMined, CallIsMined

\* Contracts are never removed, so a record that was true stays true.
LEMMA RecordStays ==
  ASSUME RecordIsDeployed, contracts \subseteq contracts',
         \/ UNCHANGED deployment_json
         \/ deployment_json'.file # "whole"
  PROVE  RecordIsDeployed'
  BY DEF RecordIsDeployed, Deployed

LEMMA ResultTypes ==
  ASSUME NEW d \in Deploys, NEW b \in Nat
  PROVE  ResultOf(d, b) \in Results
  <1>1. AddressOf(d, b, 3) \in Keys \X Nat /\ AddressOf(d, b, 4) \in Keys \X Nat
    BY ArgsTypes DEF AddressOf
  <1>2. /\ <<AddressOf(d, b, 3)>> \in Seq(Keys \X Nat)
        /\ <<AddressOf(d, b, 4)>> \in Seq(Keys \X Nat) /\ <<>> \in Seq(Keys \X Nat)
    BY <1>1
  <1> HIDE DEF Results
  <1>3. (IF FastTrackArgs[d].with_dispute_game THEN <<AddressOf(d, b, 4)>> ELSE <<>>)
          \in Seq(Keys \X Nat)
    BY <1>2
  <1> QED
    BY <1>2, <1>3 DEF Results, ResultOf

\* One transaction is mined at the call's own nonce, so at none that is in use.
LEMMA BroadcastInv ==
  ASSUME FastTrackInv, NEW d \in Deploys, Broadcast(d)
  PROVE  FastTrackInv'
  <1> DEFINE key == FastTrackArgs[d].deployer_key
             b == deploy[d].base
             n == deploy[d].sent
  <1>1. /\ deploy[d].pc = "broadcast" /\ n < Transactions(d) /\ nonce[key] = b + n
        /\ nonce' = [nonce EXCEPT ![key] = @ + 1]
        /\ contracts' = contracts \cup {Contract(d, b, n + 1)}
        /\ deploy' = [deploy EXCEPT ![d].sent = @ + 1]
        /\ UNCHANGED deployment_json
    BY DEF Broadcast, At
  <1>2. /\ deploy[d] \in Calls /\ CallIsMined(d, deploy[d]) /\ b \in Nat /\ n \in Nat
        /\ Transactions(d) \in {3, 4} /\ key \in Keys /\ deploy \in [Deploys -> Calls]
        /\ nonce \in [Keys -> Nat]
    BY CallTypes, ArgsTypes DEF FastTrackInv, DeployTypes
  <1>3. /\ deploy'[d] = [deploy[d] EXCEPT !.sent = n + 1]
        /\ deploy'[d].sent = n + 1 /\ deploy'[d].base = b /\ deploy'[d].pc = "broadcast"
        /\ \A e \in Deploys : e # d => deploy'[e] = deploy[e]
        /\ deploy' \in [Deploys -> Calls]
    BY <1>1, <1>2 DEF Calls
  <1>4. /\ nonce' \in [Keys -> Nat] /\ nonce'[key] = b + n + 1
        /\ \A k \in Keys : nonce[k] <= nonce'[k]
    BY <1>1, <1>2
  <1>5. DeployTypes'
    BY <1>3, <1>4 DEF DeployTypes, Calls
  <1>6. SentIsMined'
    <2>1. ASSUME NEW e \in Deploys, e # d
          PROVE  CallIsMined(e, deploy[e])'
      <3>1. /\ CallIsMined(e, deploy[e]) /\ deploy'[e] = deploy[e] /\ deploy[e].base \in Nat
            /\ deploy[e].sent \in Nat /\ FastTrackArgs[e].deployer_key \in Keys
        BY <1>3, <2>1, CallTypes, ArgsTypes
      <3>2. deploy[e].base + deploy[e].sent <= nonce'[FastTrackArgs[e].deployer_key]
        BY <1>2, <1>4, <3>1 DEF CallIsMined
      <3>3. \A i \in 1 .. 4 : i <= deploy[e].sent =>
              Contract(e, deploy[e].base, i) \in contracts'
        BY <1>1, <3>1 DEF CallIsMined
      <3> HIDE DEF key, b, n
      <3> QED
        BY <3>1, <3>2, <3>3 DEF CallIsMined
    <2>2. CallIsMined(d, deploy[d])'
      <3>1. ASSUME NEW i \in 1 .. 4, i <= n + 1
            PROVE  Contract(d, b, i) \in contracts'
        <4>1. CASE i = n + 1
          BY <1>1, <4>1
        <4>2. CASE i # n + 1
          BY <1>1, <1>2, <3>1, <4>2 DEF CallIsMined
        <4> QED
          BY <4>1, <4>2
      <3> QED
        BY <1>1, <1>2, <1>3, <1>4, <3>1 DEF CallIsMined
    <2> QED
      BY <2>1, <2>2 DEF SentIsMined, CallIsMined
  <1>7. NoncesDisjoint'
    <2>1. ASSUME NEW e \in Deploys, e # d, FastTrackArgs[e].deployer_key = key,
                 deploy[e].sent > 0
          PROVE  deploy[e].base + deploy[e].sent <= b
      <3>1. /\ deploy[e].base \in Nat /\ deploy[e].sent \in Nat
            /\ deploy[e].base + deploy[e].sent <= b + n
        BY <1>1, <2>1, CallTypes DEF CallIsMined
      <3>2. CASE n = 0
        BY <1>2, <3>1, <3>2
      <3>3. CASE n # 0
        <4>1. \/ deploy[e].base + deploy[e].sent <= b
              \/ b + n <= deploy[e].base
          BY <1>2, <2>1, <3>3 DEF FastTrackInv, NoncesDisjoint
        <4> QED
          BY <1>2, <2>1, <3>1, <4>1
      <3> QED
        BY <3>2, <3>3
    <2> SUFFICES ASSUME NEW f \in Deploys, NEW e \in Deploys, f # e,
                        FastTrackArgs[f].deployer_key = FastTrackArgs[e].deployer_key,
                        deploy'[f].sent > 0, deploy'[e].sent > 0
                 PROVE  \/ deploy'[f].base + deploy'[f].sent <= deploy'[e].base
                        \/ deploy'[e].base + deploy'[e].sent <= deploy'[f].base
      BY DEF NoncesDisjoint
    <2>2. CASE f = d
      BY <1>3, <2>1, <2>2
    <2>3. CASE e = d
      BY <1>3, <2>1, <2>3
    <2>4. CASE f # d /\ e # d
      BY <1>3, <2>4 DEF FastTrackInv, NoncesDisjoint
    <2> QED
      BY <2>2, <2>3, <2>4
  <1>8. RecordIsDeployed'
    BY <1>1, RecordStays DEF FastTrackInv
  <1> QED
    BY <1>5, <1>6, <1>7, <1>8 DEF FastTrackInv

LEMMA FastTrackInitInv == FastTrackInit => FastTrackInv
  <1> SUFFICES ASSUME FastTrackInit PROVE FastTrackInv
    OBVIOUS
  <1>1. Idle \in Calls /\ Idle.pc = "start" /\ Idle.base = 0 /\ Idle.sent = 0
    BY DEF Idle, Calls, NoResult, Results
  <1>2. \A d \in Deploys : deploy[d] = Idle
    BY DEF FastTrackInit
  <1>3. DeployTypes
    BY <1>1 DEF FastTrackInit, DeployTypes, Calls
  <1>4. SentIsMined /\ NoncesDisjoint
    BY <1>1, <1>2, <1>3, ArgsTypes DEF SentIsMined, NoncesDisjoint, DeployTypes
  <1> QED
    BY <1>3, <1>4 DEF FastTrackInv, FastTrackInit, RecordIsDeployed

LEMMA FastTrackStep ==
  ASSUME FastTrackInv, FastTrackNext
  PROVE  FastTrackInv'
  <1>1. ASSUME NEW k \in Keys, OtherTransaction(k)
        PROVE  FastTrackInv'
    <2>1. /\ nonce \in [Keys -> Nat] /\ nonce' \in [Keys -> Nat]
          /\ \A j \in Keys : nonce[j] <= nonce'[j]
          /\ UNCHANGED <<contracts, deployment_json, deploy>>
      BY <1>1 DEF OtherTransaction, FastTrackInv, DeployTypes
    <2>2. (DeployTypes /\ NoncesDisjoint /\ RecordIsDeployed)'
      BY <2>1 DEF FastTrackInv, DeployTypes, NoncesDisjoint, RecordIsDeployed, Deployed
    <2>3. ASSUME NEW d \in Deploys
          PROVE  deploy[d].base + deploy[d].sent <= nonce'[FastTrackArgs[d].deployer_key]
      BY <2>1, CallTypes, ArgsTypes DEF CallIsMined
    <2> QED
      BY <2>1, <2>2, <2>3 DEF FastTrackInv, SentIsMined
  <1>2. ASSUME NEW d \in Deploys,
               \/ Preflight(d) \/ Simulate(d) \/ Broadcast(d) \/ ForgeDone(d) \/ Parse(d)
               \/ TruncateRecord(d) \/ WriteRecord(d) \/ DeployFails(d) \/ Again(d)
        PROVE  FastTrackInv'
    <2> DEFINE key == FastTrackArgs[d].deployer_key
               old == deploy[d]
    <2>0. /\ old \in Calls /\ CallIsMined(d, old) /\ old.base \in Nat /\ old.sent \in Nat
          /\ nonce[key] \in Nat /\ deploy \in [Deploys -> Calls] /\ RecordIsDeployed
          /\ old.result \in Results /\ Transactions(d) \in {3, 4}
      BY CallTypes, ArgsTypes DEF FastTrackInv, Calls
    <2>1. ASSUME deploy' \in [Deploys -> Calls], CallIsMined(d, deploy'[d]), RecordIsDeployed',
                 \/ deploy'[d].sent = 0
                 \/ deploy'[d].sent = old.sent /\ deploy'[d].base = old.base,
                 \A e \in Deploys : e # d => deploy'[e] = deploy[e],
                 UNCHANGED <<nonce, contracts>>
          PROVE  FastTrackInv'
      BY <2>1, CallMoves DEF FastTrackInv
    <2>2. ASSUME NEW to \in {"forge", "parse", "write", "ok"}, Goes(d, to),
                 UNCHANGED <<nonce, contracts>>, RecordIsDeployed',
                 \/ to = "forge" /\ old.pc = "start"
                 \/ to = "parse" /\ old.sent = Transactions(d)
                 \/ to = "write" /\ old.pc = "record"
                 \/ to = "ok" /\ old.pc = "write"
          PROVE  FastTrackInv'
      <3>1. /\ deploy' \in [Deploys -> Calls] /\ \A e \in Deploys : e # d => deploy'[e] = deploy[e]
            /\ deploy'[d].pc = to /\ deploy'[d].base = old.base /\ deploy'[d].sent = old.sent
            /\ deploy'[d].result = old.result
        BY <2>0, <2>2 DEF Goes, Calls, Over
      <3>2. CallIsMined(d, deploy'[d])
        BY <2>0, <2>2, <3>1 DEF CallIsMined
      <3> QED
        BY <2>1, <2>2, <3>1, <3>2
    <2>3. CASE Preflight(d)
      BY <2>0, <2>2, <2>3, RecordStays DEF Preflight, At
    <2>4. CASE ForgeDone(d)
      BY <2>0, <2>2, <2>4, RecordStays DEF ForgeDone
    <2>5. CASE Simulate(d)
      <3>1. old.pc = "forge" /\ old.sent = 0
        BY <2>0, <2>5 DEF Simulate, At, CallIsMined
      <3>2. /\ deploy' \in [Deploys -> Calls] /\ \A e \in Deploys : e # d => deploy'[e] = deploy[e]
            /\ deploy'[d].pc = "broadcast" /\ deploy'[d].base = nonce[key] /\ deploy'[d].sent = 0
        BY <2>0, <2>5, <3>1 DEF Simulate, Calls
      <3>3. CallIsMined(d, deploy'[d])
        BY <2>0, <3>2 DEF CallIsMined
      <3>4. RecordIsDeployed' /\ UNCHANGED <<nonce, contracts>>
        BY <2>0, <2>5, RecordStays DEF Simulate
      <3> QED
        BY <2>1, <3>2, <3>3, <3>4
    <2>6. CASE Broadcast(d)
      BY <2>6, BroadcastInv
    <2>7. CASE Parse(d)
      <3>1. old.pc = "parse" /\ UNCHANGED <<nonce, contracts, deployment_json>>
        BY <2>7 DEF Parse, At
      <3>2. /\ deploy' = [deploy EXCEPT ![d].pc = "record", ![d].result = ResultOf(d, old.base)]
            /\ ResultOf(d, old.base) \in Results
        BY <2>0, <2>7, ExtractsTheRightLine, ResultTypes DEF Parse, ResultOf
      <3>3. /\ deploy' \in [Deploys -> Calls] /\ \A e \in Deploys : e # d => deploy'[e] = deploy[e]
            /\ deploy'[d].pc = "record" /\ deploy'[d].base = old.base
            /\ deploy'[d].sent = old.sent /\ deploy'[d].result = ResultOf(d, old.base)
        BY <2>0, <3>2 DEF Calls
      <3>5. CallIsMined(d, deploy'[d])
        BY <2>0, <3>1, <3>3 DEF CallIsMined
      <3> QED
        BY <2>0, <2>1, <3>1, <3>3, <3>5, RecordStays
    <2>8. CASE TruncateRecord(d)
      BY <2>0, <2>2, <2>8, RecordStays DEF TruncateRecord, At
    <2>9. CASE WriteRecord(d)
      <3>1. old.pc = "write" /\ UNCHANGED <<nonce, contracts>> /\ Goes(d, "ok")
        BY <2>9 DEF WriteRecord, At
      <3>2. old.result = ResultOf(d, old.base) /\ old.sent = Transactions(d)
        BY <2>0, <3>1 DEF CallIsMined
      <3>3. Deployed(old.result)
        BY <3>2, SentIsDeployed
      <3>4. RecordIsDeployed'
        <4>1. CASE deployment_json' = [file |-> "garbled"]
          BY <4>1 DEF RecordIsDeployed
        <4>2. CASE deployment_json' = [file |-> "whole", result |-> deploy[d].result,
                            starting_block |-> FastTrackArgs[d].starting_block]
          BY <3>1, <3>3, <4>2 DEF RecordIsDeployed, Deployed
        <4> QED
          BY <2>9, <4>1, <4>2 DEF WriteRecord
      <3> QED
        BY <2>2, <3>1, <3>4
    <2>10. CASE DeployFails(d) \/ Again(d)
      <3>1. PICK p \in {"start", "failed"} :
              deploy' = [deploy EXCEPT ![d] = [pc |-> p, base |-> 0, sent |-> 0, result |-> NoResult]]
        BY <2>10 DEF DeployFails, Again, Idle
      <3>2. /\ deploy' \in [Deploys -> Calls] /\ \A e \in Deploys : e # d => deploy'[e] = deploy[e]
            /\ deploy'[d].pc = p /\ deploy'[d].base = 0 /\ deploy'[d].sent = 0
        BY <2>0, <3>1 DEF Calls, NoResult, Results, Over
      <3>3. CallIsMined(d, deploy'[d])
        BY <2>0, <3>2 DEF CallIsMined
      <3>4. RecordIsDeployed' /\ UNCHANGED <<nonce, contracts>>
        BY <2>0, <2>10, RecordStays DEF DeployFails, Again
      <3> QED
        BY <2>1, <3>2, <3>3, <3>4
    <2> QED
      BY <1>2, <2>3, <2>4, <2>5, <2>6, <2>7, <2>8, <2>9, <2>10
  <1> QED
    BY <1>1, <1>2 DEF FastTrackNext

\* Different nonces are different addresses.
LEMMA MinedOksAreDisjoint ==
  ASSUME FastTrackInv
  PROVE  OksAreDisjoint
  <1> SUFFICES ASSUME NEW d \in Deploys, NEW e \in Deploys, d # e, At(d, "ok"), At(e, "ok")
               PROVE  /\ deploy[d].result.oracle_address # deploy[e].result.oracle_address
                      /\ deploy[d].result.dispute_game_address # <<>> =>
                           deploy[d].result.dispute_game_address
                             # deploy[e].result.dispute_game_address
    BY DEF OksAreDisjoint
  <1> DEFINE b == deploy[d].base
             c == deploy[e].base
             key == FastTrackArgs[d].deployer_key
  <1>1. /\ deploy[d].result = ResultOf(d, b) /\ deploy[e].result = ResultOf(e, c)
        /\ deploy[d].sent \in {3, 4} /\ deploy[e].sent \in {3, 4} /\ b \in Nat /\ c \in Nat
    BY CallTypes, ArgsTypes DEF At, CallIsMined
  <1>2. key = FastTrackArgs[e].deployer_key => b # c
    BY <1>1 DEF FastTrackInv, NoncesDisjoint
  <1>3. AddressOf(d, b, 3) # AddressOf(e, c, 3) /\ AddressOf(d, b, 4) # AddressOf(e, c, 4)
    BY <1>1, <1>2 DEF AddressOf
  <1> QED
    BY <1>1, <1>3 DEF ResultOf

-----------------------------------------------------------------------------
(* The commands                                                             *)

LEMMA LeastElement ==
  ASSUME NEW T, T \subseteq Nat, T # {}
  PROVE  \E x \in T : \A y \in T : x <= y
  <1>1. PICK x \in T : \A y \in T : ~ (<<y, x>> \in OpToRel(<, Nat))
    BY NatLessThanWellFounded, WFMin
  <1>2. \A y \in T : y \in Nat /\ x \in Nat /\ ~ (y < x)
    BY <1>1 DEF OpToRel
  <1> QED
    BY <1>2

\* Auto is always resolved: to the first backend that is allowed and known, or Sp1.
LEMMA AutoResolves ==
  ASSUME NEW names
  PROVE  resolve_auto(names) \in {"Sp1", "RiscZero"}
  <1>1. CASE Kept(names) = {}
    BY <1>1 DEF resolve_auto
  <1>2. CASE Kept(names) # {}
    <2> DEFINE i == CHOOSE x \in Kept(names) : \A k \in Kept(names) : x <= k
    <2>1. Kept(names) \subseteq Nat
      BY DEF Kept
    <2>2. \E x \in Kept(names) : \A k \in Kept(names) : x <= k
      BY <1>2, <2>1, LeastElement
    <2>3. i \in Kept(names)
      BY <2>2
    <2>4. names[i] \in {"sp1", "risc0"} /\ resolve_auto(names) = BackendOf(names[i])
      BY <1>2, <2>3 DEF Kept, resolve_auto
    <2> HIDE DEF i
    <2> QED
      BY <2>4 DEF BackendOf
  <1> QED
    BY <1>1, <1>2

LEMMA ResolveTypes ==
  ASSUME NEW c
  PROVE  resolve(c) \in Intents
  <1>1. (IF BackendOf(c.backend) = "Auto" THEN resolve_auto(c.allowed_backends)
         ELSE BackendOf(c.backend)) \in {"Sp1", "RiscZero", "Mock"}
    BY AutoResolves DEF BackendOf
  <1>2. aggregation_window_of(SecurityOf(c.security)) \in {10, 100, 1000}
    BY DEF aggregation_window_of
  <1> QED
    BY <1>1, <1>2 DEF resolve, OpenZkConfig, Intents

\* A process has an outcome only when it has ended, and no witness before it made one.
CommandInv ==
  /\ CliInv
  /\ cpc # "idle" => outcome = Unfinished
  /\ cpc \in {"init", "init_write", "load", "prove", "estimate", "count", "serve", "serving"} =>
       witness = <<>>
  /\ NoFalseProof /\ EstimateIsHonest

LEMMA CommandInitInv == CommandInit => CommandInv
  <1> SUFFICES ASSUME CommandInit PROVE CommandInv
    OBVIOUS
  <1>1. resolve(from_file(default_toml)) \in Intents
    BY ResolveTypes
  <1>3. outcome.type = "none"
    BY DEF CommandInit, Unfinished
  <1> QED
    BY <1>1, <1>3 DEF CommandInit, CommandInv, CliInv, NoFalseProof, EstimateIsHonest

\* A process that ends without a proof or an estimate.
LEMMA EndsInv ==
  ASSUME CommandInv, NEW result, Ends(result), result.type \notin {"proof", "estimate"},
         UNCHANGED <<inv, config, intent, pricing, witness, cycle_estimate>>
  PROVE  CommandInv'
  BY DEF CommandInv, CliInv, Ends, NoFalseProof, EstimateIsHonest, Mock, Asked, Blocks, CyclesOf

\* None of the other outcomes is a proof or an estimate.
LEMMA EndedTypes ==
  /\ Failed.type \notin {"proof", "estimate"} /\ Done.type \notin {"proof", "estimate"}
  /\ Killed.type \notin {"proof", "estimate"} /\ Unfinished.type \notin {"proof", "estimate"}
  BY DEF Failed, Done, Killed, Unfinished

\* What keeps running has no outcome yet.
LEMMA RunningHasNoOutcome ==
  ASSUME outcome' = Unfinished
  PROVE  (NoFalseProof /\ EstimateIsHonest)'
  BY EndedTypes DEF NoFalseProof, EstimateIsHonest

LEMMA InvocationTypes ==
  ASSUME CommandInv
  PROVE  /\ inv \in Invocations /\ inv.start_block \in Nat /\ inv.end_block \in Nat
         /\ inv.command \in {"init", "prove", "estimate", "serve"}
  BY CliAssumption DEF CommandInv, CliInv

\* Enough windows to cover the blocks, and not one too many.
LEMMA RangesCover ==
  ASSUME NEW blocks \in Nat \ {0}, NEW w \in Nat \ {0}
  PROVE  /\ num_ranges(blocks, w) \in Nat /\ num_ranges(blocks, w) > 0
         /\ num_ranges(blocks, w) * w >= blocks
         /\ num_ranges(blocks, w) * w < blocks + w
  <1> DEFINE a == blocks + w - 1
             q == a \div w
  <1>1. a \in Nat
    OBVIOUS
  <1> HIDE DEF a
  <1>2. q \in Nat /\ q * w <= a /\ a < q * w + w /\ q * w \in Nat
    BY <1>1
  <1>3. num_ranges(blocks, w) = q
    BY DEF num_ranges, a
  <1>4. q = 0 => q * w = 0
    BY <1>2
  <1> DEFINE m == q * w
  <1> HIDE DEF q, m
  <1>5. m \in Nat /\ m <= a /\ a < m + w /\ (q = 0 => m = 0)
    BY <1>2, <1>4 DEF m, q
  <1>6. m >= blocks /\ m < blocks + w
    BY <1>5 DEF a
  <1>7. q \in Nat /\ q > 0
    BY <1>2, <1>5, <1>6 DEF q
  <1> QED
    BY <1>3, <1>6, <1>7 DEF m

LEMMA ProveMockInv ==
  ASSUME CommandInv, ProveMock
  PROVE  CommandInv'
  <1> DEFINE artifact == mock_prove("Groth16")
  <1>1. /\ Mock /\ outcome' = Proof(artifact) /\ cpc' = "idle"
        /\ UNCHANGED <<inv, config, intent, pricing, witness, cycle_estimate>>
    BY DEF ProveMock, Ends, locals, CommandInv, CliInv, Intents
  <1>2. /\ artifact.backend = "Mock" /\ artifact.mode = "Groth16"
        /\ verify("Mock", artifact, inv.env)
    BY DEF mock_prove, ProofArtifact, verify
  <1>3. outcome'.type = "proof" /\ outcome'.artifact = artifact
    BY <1>1 DEF Proof
  <1> HIDE DEF artifact
  <1>4. NoFalseProof' /\ EstimateIsHonest'
    BY <1>1, <1>2, <1>3 DEF NoFalseProof, EstimateIsHonest, Mock, is_mock_mode
  <1> QED
    BY <1>1, <1>4 DEF CommandInv, CliInv, Mock, Asked

LEMMA RunProverInv ==
  ASSUME CommandInv, RunProver
  PROVE  CommandInv'
  <1> DEFINE backend == intent.backend
             artifact == prove(backend, witness, "Groth16", inv.env)
  <1>1. /\ outcome' = Proof(artifact) /\ cpc = "run_prover" /\ cpc' = "idle"
        /\ Available(backend, inv.features)
        /\ UNCHANGED <<inv, config, intent, pricing, witness, cycle_estimate>>
    BY DEF RunProver, Ends, locals, CommandInv, CliInv, Intents
  <1>2. /\ ~ Mock /\ "kona" \in inv.features /\ witness = Asked
        /\ backend = IF BackendOf(config.backend) = "Auto"
                     THEN resolve_auto(config.allowed_backends) ELSE BackendOf(config.backend)
        /\ config.backend # "mock" /\ "SP1_PROVER=mock" \notin inv.env
    BY <1>1 DEF CommandInv, CliInv, Mock, is_mock_mode, resolve,
       OpenZkConfig
  <1>3. backend \in {"Sp1", "RiscZero"}
    BY <1>2, AutoResolves DEF BackendOf
  <1>4. /\ config.backend = "sp1" => backend = "Sp1"
        /\ config.backend = "risc0" => backend = "RiscZero"
    BY <1>2 DEF BackendOf
  <1>5. /\ artifact.backend = backend /\ artifact.mode = "Groth16"
        /\ artifact.proof_bytes.by = backend /\ artifact.public_values = <<range_journal(witness)>>
        /\ artifact.proof_bytes.genuine \/ (backend = "RiscZero" /\ "RISC0_DEV_MODE=1" \in inv.env)
    <2>1. CASE backend = "Sp1"
      <3>1. artifact = ProofArtifact("Sp1", "Groth16", Bytes("Sp1", "SP1_PROVER=mock" \notin inv.env),
                                     <<range_journal(witness)>>, "range")
        BY <2>1 DEF prove, sp1_prove
      <3>2. /\ artifact.backend = "Sp1" /\ artifact.mode = "Groth16"
            /\ artifact.proof_bytes.by = "Sp1" /\ artifact.public_values = <<range_journal(witness)>>
            /\ artifact.proof_bytes.genuine = ("SP1_PROVER=mock" \notin inv.env)
        BY <3>1 DEF ProofArtifact, Bytes
      <3> HIDE DEF artifact
      <3> QED
        BY <1>2, <2>1, <3>2
    <2>2. CASE backend = "RiscZero"
      <3>1. artifact = ProofArtifact("RiscZero", "Groth16",
                         Bytes("RiscZero", "RISC0_DEV_MODE=1" \notin inv.env),
                         <<range_journal(witness)>>, "range")
        BY <2>2 DEF prove, risc0_prove
      <3>2. /\ artifact.backend = "RiscZero" /\ artifact.mode = "Groth16"
            /\ artifact.proof_bytes.by = "RiscZero" /\ artifact.public_values = <<range_journal(witness)>>
            /\ artifact.proof_bytes.genuine = ("RISC0_DEV_MODE=1" \notin inv.env)
        BY <3>1 DEF ProofArtifact, Bytes
      <3> HIDE DEF artifact
      <3> QED
        BY <2>2, <3>2
    <2> QED
      BY <1>3, <2>1, <2>2
  <1>6. outcome'.type = "proof" /\ outcome'.artifact = artifact
    BY <1>1 DEF Proof
  <1> HIDE DEF artifact, backend
  <1>7. verify(backend, artifact, inv.env)
    BY <1>3, <1>5 DEF verify
  <1>9. /\ artifact.public_values # <<>>
        /\ Attested(artifact.public_values[1])
             = (inv.start_block .. inv.end_block) \ {inv.start_block}
    <2>1. artifact.public_values = <<range_journal(Asked)>>
      BY <1>2, <1>5
    <2>2. /\ range_journal(Asked).l2_pre_root = inv.start_block
          /\ range_journal(Asked).l2_block_number = inv.end_block
      BY DEF range_journal, Asked
    <2>3. Attested(range_journal(Asked)) = (inv.start_block .. inv.end_block) \ {inv.start_block}
      <3>1. inv.start_block \in Nat /\ inv.end_block \in Nat
        BY InvocationTypes DEF CommandInv, CliInv
      <3> QED
        BY <2>2, <3>1 DEF Attested
    <2> QED
      BY <2>1, <2>3
  <1>8. NoFalseProof' /\ EstimateIsHonest'
    BY <1>1, <1>2, <1>3, <1>4, <1>5, <1>6, <1>7, <1>9 DEF NoFalseProof, EstimateIsHonest, Attested
  <1> QED
    BY <1>1, <1>8 DEF CommandInv, CliInv, Mock, Asked

\* The three ways to price end in an estimate of what was counted.
LEMMA EstimateInv ==
  ASSUME CommandInv, NEW cost, NEW samples, NEW price,
         cpc = "price", Ends(Estimate(cost, samples, price)),
         UNCHANGED <<inv, config, intent, pricing, witness, cycle_estimate>>,
         Supported, Mock => cost = 0
  PROVE  CommandInv'
  <1> DEFINE w == intent.aggregation_window
             n == num_ranges(Blocks, w)
             span == IF Mock THEN 0 ELSE CyclesOf(Asked)
             o == Estimate(cost, samples, price)
  <1>1. w \in {10, 100, 1000} /\ Blocks \in Nat \ {0}
    BY InvocationTypes DEF CommandInv, CliInv, Intents, Blocks, num_blocks
  <1>2. n \in Nat /\ n * w >= Blocks /\ n * w < Blocks + w /\ n > 0
    <2>1. w \in Nat \ {0}
      BY <1>1
    <2> HIDE DEF w
    <2> QED
      BY <1>1, <2>1, RangesCover
  <1>3. /\ cycle_estimate.cycles = span
        /\ cycle_estimate.backend = IF Mock THEN "Mock" ELSE intent.backend
    <2>1. CASE Mock
      BY <2>1 DEF CommandInv, CliInv, NoCycles
    <2>2. CASE ~ Mock
      <3>1. /\ witness = Asked /\ inv.start_block <= inv.end_block
            /\ cycle_estimate = count_cycles(intent.backend, witness)
        BY <2>2 DEF CommandInv, CliInv
      <3>3. intent.backend \in {"Sp1", "RiscZero"}
        BY <2>2, AutoResolves DEF CommandInv, CliInv, Mock, is_mock_mode, resolve, OpenZkConfig,
           BackendOf
      <3> QED
        BY <2>2, <3>1, <3>3 DEF count_cycles
    <2> QED
      BY <2>1, <2>2
  <1>4. /\ outcome' = o /\ cpc' = "idle"
        /\ o.type = "estimate" /\ o.source = pricing.provider /\ o.cycles = span
        /\ o.ranges = n /\ o.cost = cost
        /\ o.total_cycles = IF n > 1 THEN span * n ELSE span
        /\ o.total_cost = IF n > 1 THEN cost * n ELSE cost
    BY <1>3 DEF Ends, Estimate, Blocks
  <1> HIDE DEF o, n
  <1>5. span \in Nat /\ o.total_cycles >= span /\ (n = 1 => o.total_cycles = span)
    <2>1. span \in Nat
      <3>1. CASE Mock
        BY <3>1
      <3>2. CASE ~ Mock
        <4>1. inv.start_block <= inv.end_block /\ inv.start_block \in Nat /\ inv.end_block \in Nat
          BY <3>2, InvocationTypes DEF CommandInv, CliInv
        <4>2. CyclesOf(Asked) \in Nat
          BY <4>1 DEF CyclesOf, Asked
        <4> QED
          BY <3>2, <4>2
      <3> QED
        BY <3>1, <3>2
    <2> HIDE DEF span
    <2>2. span * n >= span
      BY <1>2, <2>1
    <2> QED
      BY <1>2, <1>4, <2>1, <2>2
  <1>6. Mock => o.total_cost = 0
    BY <1>2, <1>4
  <1>7. /\ o.source # "fixed" => ~ Mock
        /\ o.source # "fixed" =>
             intent.backend = IF o.source = "succinct" THEN "Sp1" ELSE "RiscZero"
    BY <1>3, <1>4 DEF Supported, supports_backend, CommandInv, CliInv
  <1>8. Mock' = Mock /\ Blocks' = Blocks /\ CyclesOf(Asked)' = CyclesOf(Asked)
    BY DEF Mock, Blocks, CyclesOf, Asked
  <1>9. NoFalseProof' /\ EstimateIsHonest'
    BY <1>2, <1>4, <1>5, <1>6, <1>7, <1>8 DEF NoFalseProof, EstimateIsHonest
  <1> QED
    BY <1>4, <1>8, <1>9 DEF CommandInv, CliInv, Asked

LEMMA GenerateWitnessInv ==
  ASSUME CommandInv, GenerateWitness
  PROVE  CommandInv'
  <1>1. /\ ~ Mock /\ "kona" \in inv.features /\ inv.start_block <= inv.end_block
        /\ witness' = Asked /\ cpc' \in {"run_prover", "run_cycle_count"}
        /\ cpc \in {"prove", "count"} /\ (cpc' = "run_cycle_count" => cpc = "count")
        /\ UNCHANGED <<inv, config, intent, pricing, cycle_estimate, outcome>>
    BY DEF GenerateWitness, Asked
  <1>2. outcome' = Unfinished /\ Asked # <<>>
    BY <1>1 DEF CommandInv, Asked
  <1> QED
    BY <1>1, <1>2, RunningHasNoOutcome DEF CommandInv, CliInv, Mock, Asked

LEMMA WitnessHangsInv ==
  ASSUME CommandInv, WitnessHangs
  PROVE  CommandInv'
  <1>1. /\ ~ Mock /\ "kona" \in inv.features /\ cpc' = "hung" /\ cpc \in {"prove", "count"}
        /\ UNCHANGED <<inv, config, intent, pricing, witness, cycle_estimate, outcome>>
    BY DEF WitnessHangs, locals
  <1>2. outcome' = Unfinished
    BY <1>1 DEF CommandInv
  <1> QED
    BY <1>1, <1>2, RunningHasNoOutcome DEF CommandInv, CliInv, Mock, Asked

LEMMA CountInv ==
  ASSUME CommandInv, CountMock \/ RunCycleCount
  PROVE  CommandInv'
  <1>1. /\ cpc' = "price" /\ UNCHANGED <<inv, config, intent, pricing, witness, outcome>>
        /\ cpc \in {"count", "run_cycle_count"}
    BY DEF CountMock, RunCycleCount
  <1>2. outcome' = Unfinished
    BY <1>1 DEF CommandInv
  <1>3. IF Mock THEN cycle_estimate' = NoCycles
        ELSE /\ witness # <<>> /\ Available(intent.backend, inv.features)
             /\ cycle_estimate' = count_cycles(intent.backend, witness)
    <2>1. CASE CountMock
      BY <2>1 DEF CountMock, count_cycles, NoCycles
    <2>2. CASE RunCycleCount
      BY <2>2 DEF RunCycleCount, CommandInv, CliInv
    <2> QED
      BY <2>1, <2>2
  <1> QED
    BY <1>1, <1>2, <1>3, RunningHasNoOutcome DEF CommandInv, CliInv, Mock, Asked

\* The error paths, the end of the service and a signal.
EndsBadly ==
  \/ InitRefuses \/ InitWrites \/ LoadFails \/ WithoutKona \/ NotAvailable
  \/ PricingFails \/ Unsupported \/ PollFails \/ CtrlC \/ Fails \/ Kill

LEMMA EndsBadlyInv ==
  ASSUME CommandInv, EndsBadly
  PROVE  CommandInv'
  <1>1. /\ Ends(Failed) \/ Ends(Done) \/ Ends(Killed)
        /\ UNCHANGED <<inv, config, intent, pricing, witness, cycle_estimate>>
    BY DEF EndsBadly, InitRefuses, InitWrites, LoadFails, WithoutKona, NotAvailable,
       PricingFails, Unsupported, PollFails, CtrlC, Fails, Kill, locals
  <1> QED
    BY <1>1, EndsInv, EndedTypes

LEMMA PriceInv ==
  ASSUME CommandInv,
         \/ PriceFixed
         \/ \E data \in Indexer : PriceBoundless(data)
         \/ \E requests \in Requests : PriceSuccinct(requests)
  PROVE  CommandInv'
  <1>1. CASE PriceFixed
    <2> DEFINE rate == FixedRate(cycle_estimate.backend)
    <2>1. /\ cpc = "price" /\ pricing.provider = "fixed"
          /\ Ends(Estimate(cycle_estimate.cycles * rate, <<>>, rate))
          /\ UNCHANGED <<inv, config, intent, pricing, witness, cycle_estimate>>
      BY <1>1 DEF PriceFixed, locals
    <2>2. Supported
      BY <2>1 DEF Supported, supports_backend
    <2>3. Mock => cycle_estimate.cycles * rate = 0
      BY <2>1 DEF CommandInv, CliInv, NoCycles, FixedRate
    <2> HIDE DEF rate
    <2> QED
      BY <2>1, <2>2, <2>3, EstimateInv
  <1>2. ASSUME NEW price, NEW samples, cpc = "price", Supported,
               pricing.provider \in {"boundless", "succinct"},
               Ends(MarketPrice(price, samples)),
               UNCHANGED <<inv, config, intent, pricing, witness, cycle_estimate>>
        PROVE  CommandInv'
    <2>1. ~ Mock
      <3> SUFFICES ASSUME Mock PROVE FALSE
        OBVIOUS
      <3>1. cycle_estimate.backend = "Mock"
        BY <1>2 DEF CommandInv, CliInv, NoCycles
      <3> QED
        BY <1>2, <3>1 DEF Supported, supports_backend
    <2>2. CASE price = <<>>
      BY <1>2, <2>2, EndsInv, EndedTypes DEF MarketPrice
    <2>3. CASE price # <<>>
      BY <1>2, <2>1, <2>3, EstimateInv DEF MarketPrice
    <2> QED
      BY <2>2, <2>3
  <1>3. ASSUME NEW data \in Indexer, PriceBoundless(data)
        PROVE  CommandInv'
    BY <1>2, <1>3 DEF PriceBoundless, locals
  <1>4. ASSUME NEW requests \in Requests, PriceSuccinct(requests)
        PROVE  CommandInv'
    BY <1>2, <1>4 DEF PriceSuccinct, locals
  <1> QED
    BY <1>1, <1>3, <1>4

LEMMA CommandStep ==
  ASSUME CommandInv, CommandNext
  PROVE  CommandInv'
  <1>1. ASSUME NEW i \in Invocations, Start(i)
        PROVE  CommandInv'
    <2>1. resolve(from_file(default_toml)) \in Intents
      BY ResolveTypes
    <2>2. cpc' \in {"init", "load"} /\ outcome' = Unfinished
      BY <1>1 DEF Start
    <2> QED
      BY <1>1, <2>1, <2>2, RunningHasNoOutcome DEF Start, CommandInv, CliInv
  <1>2. ASSUME NEW t \in Tomls, Edit(t)
        PROVE  CommandInv'
    BY <1>2 DEF Edit, locals, CommandInv, CliInv, NoFalseProof, EstimateIsHonest, Mock, Asked, CyclesOf,
       Blocks
  <1>3. CASE InitTruncates
    BY <1>3, RunningHasNoOutcome DEF InitTruncates, locals, CommandInv, CliInv, Mock, Asked
  <1>4. CASE LoadConfig
    <2>1. /\ cpc = "load" /\ cpc' = inv.command /\ config' = from_file(toml[1])
          /\ intent' = resolve(from_file(toml[1]))
          /\ UNCHANGED <<inv, pricing, witness, cycle_estimate, outcome>>
      BY <1>4 DEF LoadConfig
    <2>2. resolve(from_file(toml[1])) \in Intents
      BY ResolveTypes
    <2>3. /\ cpc' \in {"init", "prove", "estimate", "serve"} /\ witness' = <<>>
          /\ outcome' = Unfinished /\ inv' \in Invocations
      BY <2>1, InvocationTypes DEF CommandInv
    <2> QED
      BY <2>1, <2>2, <2>3, RunningHasNoOutcome DEF CommandInv, CliInv
  <1>5. ASSUME NEW fetched \in CoinGecko, ResolvePricing(fetched)
        PROVE  CommandInv'
    <2>1. /\ cpc = "estimate" /\ cpc' = "count" /\ pricing'.provider = Provider
          /\ Provider # "error"
          /\ UNCHANGED <<inv, config, intent, witness, cycle_estimate, outcome>>
      BY <1>5 DEF ResolvePricing
    <2>2. Provider \in {"fixed", "boundless", "succinct"}
      BY <2>1 DEF Provider
    <2>3. outcome' = Unfinished
      BY <2>1 DEF CommandInv
    <2> QED
      BY <2>1, <2>2, <2>3, RunningHasNoOutcome DEF CommandInv, CliInv, Mock, Asked
  <1>6. CASE ServeStarts
    <2>1. /\ cpc = "serve"
          /\ UNCHANGED <<inv, config, intent, pricing, witness, cycle_estimate>>
          /\ Ends(Failed) \/ (cpc' = "serving" /\ UNCHANGED outcome)
      BY <1>6 DEF ServeStarts
    <2>2. CASE Ends(Failed)
      BY <2>1, <2>2, EndsInv, EndedTypes
    <2>3. CASE cpc' = "serving" /\ UNCHANGED outcome
      BY <2>1, <2>3, RunningHasNoOutcome DEF CommandInv, CliInv, Mock, Asked
    <2> QED
      BY <2>1, <2>2, <2>3
  <1> QED
    BY <1>1, <1>2, <1>3, <1>4, <1>5, <1>6, EndsBadlyInv, GenerateWitnessInv,
       WitnessHangsInv, CountInv, PriceInv, ProveMockInv, RunProverInv DEF CommandNext, Step, EndsBadly

-----------------------------------------------------------------------------
(* The market of the Succinct network: sorting, counting and the median     *)

\* The orders a sort of the prices of T may choose.
Orders(prices, T) ==
  {f \in Bijection(1 .. Cardinality(T), T) :
     \A i, j \in 1 .. Cardinality(T) : i <= j => prices[f[i]] <= prices[f[j]]}

LEMMA BijectionDef ==
  ASSUME NEW S, NEW T, NEW f
  PROVE  f \in Bijection(S, T) <=>
           /\ f \in [S -> T]
           /\ \A a, b \in S : f[a] = f[b] => a = b
           /\ \A t \in T : \E s \in S : f[s] = t
  BY DEF Bijection, Injection, Surjection, IsInjective

\* The cheapest first, and then the rest in order.
LEMMA CheapestFirst ==
  ASSUME NEW T, IsFiniteSet(T), NEW prices \in [T -> Nat], NEW x \in T,
         \A y \in T : prices[x] <= prices[y],
         NEW g \in Orders(prices, T \ {x})
  PROVE  Orders(prices, T) # {}
  <1> DEFINE n == Cardinality(T)
             f == [i \in 1 .. n |-> IF i = 1 THEN x ELSE g[i - 1]]
  <1>1. n \in Nat /\ Cardinality(T \ {x}) = n - 1 /\ n - 1 \in Nat
    <2>1. /\ n \in Nat /\ IsFiniteSet(T \ {x})
          /\ Cardinality(T \ {x}) = n - 1
      BY FS_CardinalityType, FS_RemoveElement
    <2> QED
      BY <2>1, FS_CardinalityType
  <1> HIDE DEF n
  <1>2. /\ g \in [1 .. (n - 1) -> T \ {x}]
        /\ \A a, b \in 1 .. (n - 1) : g[a] = g[b] => a = b
        /\ \A t \in T \ {x} : \E s \in 1 .. (n - 1) : g[s] = t
        /\ \A i, j \in 1 .. (n - 1) : i <= j => prices[g[i]] <= prices[g[j]]
    <2>1. /\ g \in Bijection(1 .. (n - 1), T \ {x})
          /\ \A i, j \in 1 .. (n - 1) : i <= j => prices[g[i]] <= prices[g[j]]
      BY <1>1 DEF Orders
    <2> QED
      BY <2>1 DEF Bijection, Injection, Surjection, IsInjective
  <1>3. f \in [1 .. n -> T]
    BY <1>1, <1>2
  <1>4. /\ f[1] = x
        /\ \A i \in 1 .. n : i # 1 => i - 1 \in 1 .. (n - 1) /\ f[i] = g[i - 1]
    BY <1>1
  <1> HIDE DEF f
  <1>5. \A a, b \in 1 .. n : f[a] = f[b] => a = b
    <2> SUFFICES ASSUME NEW a \in 1 .. n, NEW b \in 1 .. n, f[a] = f[b]
                 PROVE  a = b
      OBVIOUS
    <2>1. CASE a = 1 \/ b = 1
      BY <1>1, <1>2, <1>4, <2>1
    <2>2. CASE a # 1 /\ b # 1
      <3>1. a - 1 = b - 1
        BY <1>2, <1>4, <2>2
      <3> QED
        BY <3>1
    <2> QED
      BY <2>1, <2>2
  <1>6. ASSUME NEW t \in T PROVE \E s \in 1 .. n : f[s] = t
    <2>1. CASE t = x
      BY <1>1, <1>4, <2>1
    <2>2. CASE t # x
      <3>1. PICK s \in 1 .. (n - 1) : g[s] = t
        BY <1>2, <2>2
      <3>2. s + 1 \in 1 .. n /\ s + 1 # 1 /\ (s + 1) - 1 = s
        BY <1>1
      <3> QED
        BY <1>4, <3>1, <3>2
    <2> QED
      BY <2>1, <2>2
  <1>7. ASSUME NEW i \in 1 .. n, NEW j \in 1 .. n, i <= j
        PROVE  prices[f[i]] <= prices[f[j]]
    <2>1. CASE i = 1
      BY <1>3, <1>4, <2>1
    <2>2. CASE i # 1
      <3>1. j # 1 /\ i - 1 <= j - 1
        BY <1>7, <2>2
      <3> QED
        BY <1>2, <1>4, <2>2, <3>1
    <2> QED
      BY <2>1, <2>2
  <1>8. f \in Bijection(1 .. n, T)
    BY <1>3, <1>5, <1>6, BijectionDef
  <1>9. f \in Orders(prices, T)
    BY <1>7, <1>8 DEF Orders, n
  <1> QED
    BY <1>9

\* By the least number of prices that could not be sorted.
LEMMA SortingExists ==
  ASSUME NEW S, IsFiniteSet(S), NEW prices \in [S -> Nat]
  PROVE  Orders(prices, S) # {}
  <1> DEFINE Bad == {n \in Nat : \E T \in SUBSET S : Cardinality(T) = n /\ Orders(prices, T) = {}}
  <1> SUFFICES ASSUME Bad # {} PROVE FALSE
    BY FS_CardinalityType
  <1>1. PICK n \in Bad : \A m \in Bad : n <= m
    BY LeastElement
  <1>2. PICK T \in SUBSET S : Cardinality(T) = n /\ Orders(prices, T) = {}
    BY <1>1
  <1>3. IsFiniteSet(T) /\ n \in Nat
    BY <1>1, FS_Subset
  <1>4. CASE T = {}
    <2> DEFINE f == [i \in {} |-> i]
    <2>1. 1 .. Cardinality(T) = {}
      BY <1>4, FS_EmptySet
    <2>2. f \in Bijection({}, {})
      BY BijectionDef
    <2>3. f \in Orders(prices, T)
      BY <1>4, <2>1, <2>2 DEF Orders
    <2> QED
      BY <1>2, <2>3
  <1>5. CASE T # {}
    <2>1. PICK x \in T : \A y \in T : prices[x] <= prices[y]
      <3> DEFINE P == {prices[y] : y \in T}
      <3>1. P \subseteq Nat /\ P # {}
        BY <1>5
      <3>2. PICK m \in P : \A q \in P : m <= q
        BY <3>1, LeastElement
      <3> QED
        BY <3>2
    <2> DEFINE U == T \ {x}
    <2>2. IsFiniteSet(U) /\ Cardinality(U) = n - 1
      BY <1>2, <1>3, FS_RemoveElement
    <2>3. Cardinality(U) \in Nat /\ Cardinality(U) < n /\ U \in SUBSET S
      BY <1>3, <2>2, FS_CardinalityType
    <2>4. Orders(prices, U) # {}
      <3>1. Cardinality(U) \notin Bad
        BY <1>1, <1>3, <2>3
      <3> QED
        BY <2>3, <3>1
    <2> DEFINE q == [y \in T |-> prices[y]]
    <2>5. q \in [T -> Nat] /\ \A y \in T : q[y] = prices[y]
      OBVIOUS
    <2>6. ASSUME NEW V \in SUBSET T, NEW f
          PROVE  f \in Orders(q, V) <=> f \in Orders(prices, V)
      <3>1. f \in Bijection(1 .. Cardinality(V), V) => \A i \in 1 .. Cardinality(V) : f[i] \in T
        BY <2>6 DEF Bijection, Injection, Surjection, IsInjective
      <3>2. f \in Bijection(1 .. Cardinality(V), V) =>
              \A i \in 1 .. Cardinality(V) : q[f[i]] = prices[f[i]]
        BY <2>5, <3>1
      <3> QED
        BY <3>2 DEF Orders
    <2> HIDE DEF q
    <2>7. Orders(q, T) # {}
      BY <1>3, <2>1, <2>4, <2>5, <2>6, CheapestFirst
    <2> QED
      BY <1>2, <2>6, <2>7
  <1> QED
    BY <1>4, <1>5

\* Where a price stands in the order bounds the number of those below and above it.
LEMMA PlaceCounts ==
  ASSUME NEW S, IsFiniteSet(S), NEW prices \in [S -> Nat], NEW f \in Orders(prices, S),
         NEW k \in 1 .. Cardinality(S), NEW T \in SUBSET S
  PROVE  /\ (\A y \in S : prices[y] >= prices[f[k]] => y \in T)
              => Cardinality(T) >= Cardinality(S) - k + 1
         /\ (\A y \in S : prices[y] <= prices[f[k]] => y \in T)
              => Cardinality(T) >= k
  <1> DEFINE n == Cardinality(S)
  <1>1. /\ n \in Nat /\ IsFiniteSet(T) /\ Cardinality(T) \in Nat
        /\ f \in [1 .. n -> S]
        /\ \A a, b \in 1 .. n : f[a] = f[b] => a = b
        /\ \A i, j \in 1 .. n : i <= j => prices[f[i]] <= prices[f[j]]
    BY FS_CardinalityType, FS_Subset, BijectionDef DEF Orders
  <1> HIDE DEF n
  <1>2. ASSUME NEW lo \in 1 .. n, NEW hi \in 1 .. n, \A i \in lo .. hi : f[i] \in T
        PROVE  lo <= hi => Cardinality(T) >= hi - lo + 1
    <2> DEFINE g == [i \in lo .. hi |-> f[i]]
    <2>1. lo .. hi \subseteq 1 .. n
      BY <1>1
    <2>2. g \in Injection(lo .. hi, T)
      BY <1>1, <1>2, <2>1 DEF Injection, IsInjective
    <2> HIDE DEF g
    <2>3. Cardinality(lo .. hi) <= Cardinality(T)
      BY <1>1, <2>2, FS_Injection
    <2> QED
      BY <1>1, <2>3, FS_Interval
  <1>3. k \in 1 .. n
    BY DEF n
  <1>4. ASSUME \A y \in S : prices[y] >= prices[f[k]] => y \in T
        PROVE  Cardinality(T) >= n - k + 1
    <2>1. \A i \in k .. n : i \in 1 .. n /\ prices[f[i]] >= prices[f[k]] /\ f[i] \in S
      BY <1>1, <1>3
    <2> QED
      BY <1>1, <1>2, <1>3, <1>4, <2>1
  <1>5. ASSUME \A y \in S : prices[y] <= prices[f[k]] => y \in T
        PROVE  Cardinality(T) >= k
    <2>1. \A i \in 1 .. k : i \in 1 .. n /\ prices[f[i]] <= prices[f[k]] /\ f[i] \in S
      BY <1>1, <1>3
    <2> QED
      <3>1. 1 \in 1 .. n /\ k \in Nat /\ 1 <= k
        BY <1>1, <1>3
      <3>2. \A i \in 1 .. k : f[i] \in T
        BY <1>5, <2>1
      <3> QED
        <4>1. Cardinality(T) >= k - 1 + 1
          BY <1>2, <1>3, <3>1, <3>2
        <4> QED
          BY <1>1, <3>1, <4>1
  <1> QED
    BY <1>4, <1>5 DEF n

\* At least half of the prices are not below the median, and at least half not above it.
LEMMA MedianIsMiddle ==
  ASSUME NEW S, IsFiniteSet(S), S # {}, NEW prices \in [S -> Nat]
  PROVE  /\ 2 * Cardinality({i \in S : 2 * prices[i] >= median(prices)}) >= Cardinality(S)
         /\ 2 * Cardinality({i \in S : 2 * prices[i] <= median(prices)}) >= Cardinality(S)
  <1> DEFINE n == Cardinality(S)
             f == CHOOSE f \in Bijection(1 .. n, DOMAIN prices) :
                    \A i, j \in 1 .. n : i <= j => prices[f[i]] <= prices[f[j]]
             m == median(prices)
             above == {i \in S : 2 * prices[i] >= m}
             below == {i \in S : 2 * prices[i] <= m}
  <1>1. f \in Orders(prices, S)
    BY SortingExists DEF Orders
  <1>2. \A i \in 1 .. n : Sorted(prices)[i] = prices[f[i]]
    BY DEF Sorted
  <1>3. m = IF n % 2 = 0 THEN Sorted(prices)[n \div 2] + Sorted(prices)[n \div 2 + 1]
            ELSE 2 * Sorted(prices)[n \div 2 + 1]
    BY DEF median
  <1>4. n \in Nat /\ n # 0
    BY FS_CardinalityType, FS_EmptySet
  <1>5. /\ f \in [1 .. n -> S]
        /\ \A i, j \in 1 .. n : i <= j => prices[f[i]] <= prices[f[j]]
    <2>1. /\ f \in Bijection(1 .. n, S)
          /\ \A i, j \in 1 .. n : i <= j => prices[f[i]] <= prices[f[j]]
      BY <1>1 DEF Orders
    <2> HIDE DEF f
    <2> QED
      BY <2>1 DEF Bijection, Injection, Surjection, IsInjective
  <1>6. IsFiniteSet(above) /\ IsFiniteSet(below) /\ Cardinality(above) \in Nat /\ Cardinality(below) \in Nat
    BY FS_Subset, FS_CardinalityType
  <1> HIDE DEF f, m, n
  <1>7. CASE n % 2 = 0
    <2> DEFINE h == n \div 2
    <2>1. h \in 1 .. n /\ h + 1 \in 1 .. n /\ n = 2 * h
      BY <1>4, <1>7
    <2>2. m = prices[f[h]] + prices[f[h + 1]] /\ prices[f[h]] <= prices[f[h + 1]]
      BY <1>2, <1>3, <1>5, <1>7, <2>1
    <2> HIDE DEF h
    <2>3. /\ prices[f[h]] \in Nat /\ prices[f[h + 1]] \in Nat
      BY <1>5, <2>1
    <2>4. /\ \A y \in S : prices[y] >= prices[f[h + 1]] => y \in above
          /\ \A y \in S : prices[y] <= prices[f[h]] => y \in below
      BY <2>2, <2>3
    <2> HIDE DEF above, below
    <2>5. Cardinality(above) >= n - (h + 1) + 1
      BY <1>1, <2>1, <2>4, PlaceCounts DEF n, above
    <2>6. Cardinality(below) >= h
      BY <1>1, <2>1, <2>4, PlaceCounts DEF n, below
    <2>7. 2 * Cardinality(above) >= n /\ 2 * Cardinality(below) >= n
      BY <1>4, <1>6, <2>1, <2>5, <2>6
    <2> QED
      BY <2>7 DEF n, above, below, m
  <1>8. CASE n % 2 # 0
    <2> DEFINE h == n \div 2 + 1
    <2>1. h \in 1 .. n /\ n = 2 * h - 1
      BY <1>4, <1>8
    <2>2. m = 2 * prices[f[h]]
      BY <1>2, <1>3, <1>8, <2>1
    <2> HIDE DEF h
    <2>3. prices[f[h]] \in Nat
      BY <1>5, <2>1
    <2>4. /\ \A y \in S : prices[y] >= prices[f[h]] => y \in above
          /\ \A y \in S : prices[y] <= prices[f[h]] => y \in below
      BY <2>2, <2>3
    <2> HIDE DEF above, below
    <2>5. Cardinality(above) >= n - h + 1 /\ Cardinality(below) >= h
      BY <1>1, <2>1, <2>4, PlaceCounts DEF n, above, below
    <2>6. 2 * Cardinality(above) >= n /\ 2 * Cardinality(below) >= n
      BY <1>4, <1>6, <2>1, <2>5
    <2> QED
      BY <2>6 DEF n, above, below, m
  <1> QED
    BY <1>7, <1>8

\* Every usable request has a price.
LEMMA PricesTypes ==
  ASSUME NEW requests \in Requests
  PROVE  LET used == {i \in 1 .. Len(requests) : Usable(requests[i])}
             prices == prices_per_cycle(requests)
         IN /\ IsFiniteSet(used) /\ DOMAIN prices = used /\ prices \in [used -> Nat]
            /\ \A i \in used :
                 prices[i] = CostOf(requests[i])[1] \div requests[i].cycles[1]
  <1> DEFINE used == {i \in 1 .. Len(requests) : Usable(requests[i])}
             prices == prices_per_cycle(requests)
             Request == [cycles : Seq(Nat), gas_used : Seq(Nat), gas_price : Seq(Nat),
                         deduction_amount : Seq(Nat)]
  <1>1. requests \in Seq(Request)
    BY RequestsAssumption
  <1>2. Len(requests) \in Nat /\ \A i \in 1 .. Len(requests) : requests[i] \in Request
    <2> HIDE DEF Request
    <2> QED
      BY <1>1
  <1>3. IsFiniteSet(used)
    <2>1. IsFiniteSet(1 .. Len(requests))
      BY <1>2, FS_Interval
    <2> QED
      BY <2>1, FS_Subset
  <1>4. ASSUME NEW req \in Request, Usable(req)
        PROVE  CostOf(req)[1] \div req.cycles[1] \in Nat
    <2>1. req.cycles[1] \in Nat /\ req.cycles[1] > 0
      BY <1>4 DEF Usable
    <2>2. CostOf(req)[1] \in Nat
      <3>1. CASE req.gas_used # <<>> /\ req.gas_price # <<>>
        <4>1. req.gas_used[1] \in Nat /\ req.gas_price[1] \in Nat
          BY <3>1
        <4> QED
          BY <3>1, <4>1 DEF CostOf
      <3>2. CASE ~ (req.gas_used # <<>> /\ req.gas_price # <<>>)
        <4>1. CostOf(req) = req.deduction_amount /\ CostOf(req) # <<>>
          BY <1>4, <3>2 DEF CostOf, Usable
        <4>2. req.deduction_amount \in Seq(Nat)
          BY <1>4
        <4> QED
          BY <4>1, <4>2
      <3> QED
        BY <3>1, <3>2
    <2> HIDE DEF Request
    <2> QED
      BY <2>1, <2>2
  <1>5. \A i \in used : CostOf(requests[i])[1] \div requests[i].cycles[1] \in Nat
    BY <1>2, <1>4
  <1>6. prices = [i \in used |-> CostOf(requests[i])[1] \div requests[i].cycles[1]]
    BY DEF prices_per_cycle
  <1> QED
    BY <1>3, <1>5, <1>6

\* MarketPriceIsMiddle of a list of requests and a price.
Middle(requests, price) ==
  LET used == {i \in 1 .. Len(requests) : Usable(requests[i])}
      Twice(i) == 2 * (CostOf(requests[i])[1] \div requests[i].cycles[1])
  IN /\ used # {}
     /\ 2 * Cardinality({i \in used : Twice(i) >= price}) >= Cardinality(used)
     /\ 2 * Cardinality({i \in used : Twice(i) <= price}) >= Cardinality(used)

LEMMA FetchedIsMiddle ==
  ASSUME NEW requests \in Requests, fetch_market_price(requests) # <<>>
  PROVE  Middle(requests, fetch_market_price(requests)[1])
  <1> DEFINE used == {i \in 1 .. Len(requests) : Usable(requests[i])}
             prices == prices_per_cycle(requests)
             Twice(i) == 2 * (CostOf(requests[i])[1] \div requests[i].cycles[1])
             m == median(prices)
  <1>1. /\ IsFiniteSet(used) /\ DOMAIN prices = used /\ prices \in [used -> Nat]
        /\ \A i \in used : Twice(i) = 2 * prices[i]
    BY PricesTypes
  <1>2. used # {} /\ fetch_market_price(requests)[1] = m
    BY <1>1 DEF fetch_market_price
  <1> HIDE DEF used, prices
  <1>3. /\ 2 * Cardinality({i \in used : 2 * prices[i] >= m}) >= Cardinality(used)
        /\ 2 * Cardinality({i \in used : 2 * prices[i] <= m}) >= Cardinality(used)
    BY <1>1, <1>2, MedianIsMiddle
  <1> HIDE DEF Twice, m
  <1>4. /\ {i \in used : 2 * prices[i] >= m} = {i \in used : Twice(i) >= m}
        /\ {i \in used : 2 * prices[i] <= m} = {i \in used : Twice(i) <= m}
    BY <1>1
  <1> QED
    BY <1>2, <1>3, <1>4 DEF Middle, used, Twice

LEMMA MiddleStep ==
  ASSUME MarketPriceIsMiddle, [Next]_vars
  PROVE  MarketPriceIsMiddle'
  <1>1. ASSUME UNCHANGED outcome PROVE MarketPriceIsMiddle'
    BY <1>1 DEF MarketPriceIsMiddle
  <1>2. ASSUME ~ (outcome'.type = "estimate" /\ outcome'.source = "succinct")
        PROVE  MarketPriceIsMiddle'
    BY <1>2 DEF MarketPriceIsMiddle
  <1>3. ASSUME EndsBadly \/ ProveMock \/ RunProver \/ \E i \in Invocations : Start(i)
        PROVE  MarketPriceIsMiddle'
    <2>1. outcome'.type # "estimate"
      BY <1>3 DEF EndsBadly, InitRefuses, InitWrites, LoadFails, WithoutKona, NotAvailable,
         PricingFails, Unsupported, PollFails, CtrlC, Fails, Kill, ProveMock, RunProver, Start,
         Ends, Failed, Done, Killed, Proof, Unfinished
    <2> QED
      BY <1>2, <2>1
  <1>4. ASSUME \/ InitTruncates \/ LoadConfig \/ GenerateWitness \/ WitnessHangs
               \/ CountMock \/ RunCycleCount
               \/ \E fetched \in CoinGecko : ResolvePricing(fetched)
               \/ \E t \in Tomls : Edit(t)
        PROVE  MarketPriceIsMiddle'
    BY <1>1, <1>4 DEF InitTruncates, LoadConfig, GenerateWitness, WitnessHangs, CountMock,
       RunCycleCount, ResolvePricing, Edit
  <1>5. CASE ServeStarts
    <2>1. outcome' = Failed \/ UNCHANGED outcome
      BY <1>5 DEF ServeStarts, Ends
    <2> QED
      BY <1>1, <1>2, <2>1 DEF Failed
  <1>6. ASSUME PriceFixed \/ \E data \in Indexer : PriceBoundless(data)
        PROVE  MarketPriceIsMiddle'
    <2>1. outcome' = Failed \/ outcome'.source = pricing.provider
      BY <1>6 DEF PriceFixed, PriceBoundless, Ends, MarketPrice, Estimate
    <2>2. pricing.provider # "succinct"
      BY <1>6 DEF PriceFixed, PriceBoundless
    <2> QED
      BY <1>2, <2>1, <2>2 DEF Failed
  <1>7. ASSUME NEW requests \in Requests, PriceSuccinct(requests)
        PROVE  MarketPriceIsMiddle'
    <2> DEFINE price == fetch_market_price(requests)
    <2>1. outcome' = MarketPrice(price, requests)
      BY <1>7 DEF PriceSuccinct, Ends
    <2>2. CASE price = <<>>
      BY <1>2, <2>1, <2>2 DEF MarketPrice, Failed
    <2>3. CASE price # <<>>
      <3>1. outcome'.samples = requests /\ outcome'.price = price[1]
        BY <2>1, <2>3 DEF MarketPrice, Estimate
      <3>2. Middle(requests, price[1])
        BY <2>3, FetchedIsMiddle
      <3> HIDE DEF price
      <3> QED
        BY <3>1, <3>2 DEF MarketPriceIsMiddle, Middle
    <2> QED
      BY <2>2, <2>3
  <1>8. ASSUME FastTrackNext \/ UNCHANGED vars, UNCHANGED commandVars \/ UNCHANGED vars
        PROVE  MarketPriceIsMiddle'
    BY <1>1, <1>8 DEF vars, commandVars
  <1> QED
    BY <1>1, <1>3, <1>4, <1>5, <1>6, <1>7, <1>8 DEF Next, CommandNext, Step, EndsBadly

-----------------------------------------------------------------------------

LEMMA Invariance == Spec => [](FastTrackInv /\ CommandInv)
  <1>1. Init => FastTrackInv /\ CommandInv
    BY FastTrackInitInv, CommandInitInv DEF Init
  <1>2. FastTrackInv /\ CommandInv /\ [Next]_vars => (FastTrackInv /\ CommandInv)'
    <2> SUFFICES ASSUME FastTrackInv, CommandInv, [Next]_vars
                 PROVE  FastTrackInv' /\ CommandInv'
      OBVIOUS
    <2>1. ASSUME UNCHANGED fastTrackVars PROVE FastTrackInv'
      BY <2>1 DEF fastTrackVars, FastTrackInv, DeployTypes, SentIsMined, NoncesDisjoint,
         RecordIsDeployed, Deployed
    <2>2. ASSUME UNCHANGED commandVars PROVE CommandInv'
      BY <2>2 DEF commandVars, CommandInv, CliInv, NoFalseProof, EstimateIsHonest, Mock, Asked, CyclesOf,
         Blocks
    <2> QED
      BY <2>1, <2>2, FastTrackStep, CommandStep DEF Next, vars
  <1> QED
    BY <1>1, <1>2, PTL DEF Spec

(***************************************************************************)
(* Whatever is in open-zk.toml, every process works from the intent of the *)
(* file as it was read once, with a backend that exists.                   *)
(***************************************************************************)
THEOREM CliInvariance == Spec => []CliInv
  <1>1. FastTrackInv /\ CommandInv => CliInv
    BY DEF CommandInv
  <1> QED
    BY <1>1, Invariance, PTL

(***************************************************************************)
(* prove: no artifact is other than what the file and the environment      *)
(* asked for, and it attests the blocks after the first on the command     *)
(* line up to the last, neither more nor less.                             *)
(***************************************************************************)
THEOREM ProofsAreTrue == Spec => []NoFalseProof
  <1>1. FastTrackInv /\ CommandInv => NoFalseProof
    BY DEF CommandInv
  <1> QED
    BY <1>1, Invariance, PTL

(***************************************************************************)
(* estimate: the right cycles, the right market, enough ranges, and never  *)
(* too little, for every span of blocks and every answer of the markets.   *)
(***************************************************************************)
THEOREM EstimatesAreHonest == Spec => []EstimateIsHonest
  <1>1. FastTrackInv /\ CommandInv => EstimateIsHonest
    BY DEF CommandInv
  <1> QED
    BY <1>1, Invariance, PTL

(***************************************************************************)
(* estimate: whatever the Succinct network answers, and however many       *)
(* requests of it are of use, the price is a middle one.                   *)
(***************************************************************************)
THEOREM MarketPricesAreMiddle == Spec => []MarketPriceIsMiddle
  <1>1. Init => MarketPriceIsMiddle
    BY DEF Init, CommandInit, MarketPriceIsMiddle, Unfinished
  <1>2. MarketPriceIsMiddle /\ [Next]_vars => MarketPriceIsMiddle'
    BY MiddleStep
  <1> QED
    BY <1>1, <1>2, PTL DEF Spec

(***************************************************************************)
(* fast-track: a record that parses is of contracts that exist, for every  *)
(* number of calls, keys, retries and interruptions.                       *)
(***************************************************************************)
THEOREM RecordsAreDeployed == Spec => []RecordIsDeployed
  <1>1. FastTrackInv /\ CommandInv => RecordIsDeployed
    BY DEF FastTrackInv
  <1> QED
    BY <1>1, Invariance, PTL

(***************************************************************************)
(* fast-track: calls that succeed do not report each other's contracts.    *)
(***************************************************************************)
THEOREM DeploymentsAreDisjoint == Spec => []OksAreDisjoint
  <1>1. FastTrackInv /\ CommandInv => OksAreDisjoint
    BY MinedOksAreDisjoint
  <1> QED
    BY <1>1, Invariance, PTL

-----------------------------------------------------------------------------
(* How many steps a process can take: the safety half of CommandsEnd.       *)

\* The most steps a process can still take by itself.
Ahead ==
  [idle |-> 0, hung |-> 0, serving |-> 1, init_write |-> 1, run_prover |-> 1, price |-> 1,
   serve |-> 2, init |-> 2, prove |-> 2, run_cycle_count |-> 2, count |-> 3,
   estimate |-> 4, load |-> 5]

(***************************************************************************)
(* No command goes round in a circle: each step a process takes leaves it  *)
(* fewer to take, so at most five, whatever the file, the environment, the *)
(* build and the answers; and nothing but the start of a process, neither  *)
(* an edit of the file nor a deployment next to it, gives it more.         *)
(***************************************************************************)
ProcessesDescend ==
  [][/\ Step => Ahead[cpc'] < Ahead[cpc]
     /\ Ahead[cpc'] > Ahead[cpc] => cpc = "idle"]_vars

\* Every process of the tool takes at most five steps of its own.
THEOREM ProcessesAreFinite == Spec => ProcessesDescend
  <1>1. CommandInv /\ [Next]_vars
          => [/\ Step => Ahead[cpc'] < Ahead[cpc]
              /\ Ahead[cpc'] > Ahead[cpc] => cpc = "idle"]_vars
    <2> SUFFICES ASSUME CommandInv, [Next]_vars
                 PROVE  /\ Step => Ahead[cpc'] < Ahead[cpc]
                        /\ Ahead[cpc'] > Ahead[cpc] => cpc = "idle"
      OBVIOUS
    <2>1. ASSUME Step PROVE Ahead[cpc'] < Ahead[cpc]
      <3>1. CASE LoadConfig
        <4>1. cpc = "load" /\ cpc' \in {"init", "prove", "estimate", "serve"}
          BY <3>1, InvocationTypes DEF LoadConfig, CommandInv, CliInv
        <4> QED
          BY <4>1 DEF Ahead
      <3>2. CASE \/ InitTruncates \/ GenerateWitness \/ WitnessHangs \/ CountMock \/ RunCycleCount
                 \/ \E fetched \in CoinGecko : ResolvePricing(fetched)
        BY <3>2 DEF InitTruncates, GenerateWitness, WitnessHangs, CountMock, RunCycleCount,
           ResolvePricing, Ahead
      <3>3. CASE \/ ProveMock \/ RunProver \/ PriceFixed
                 \/ \E data \in Indexer : PriceBoundless(data)
                 \/ \E requests \in Requests : PriceSuccinct(requests)
        <4>1. cpc' = "idle" /\ cpc \in {"prove", "run_prover", "price"}
          BY <3>3 DEF ProveMock, RunProver, PriceFixed, PriceBoundless, PriceSuccinct, Ends
        <4> QED
          BY <4>1 DEF Ahead
      <3>4. CASE ServeStarts
        BY <3>4 DEF ServeStarts, Ends, Ahead
      <3>5. CASE \/ InitRefuses \/ InitWrites \/ LoadFails \/ WithoutKona \/ NotAvailable
                 \/ PricingFails \/ Unsupported \/ PollFails \/ Fails
        <4>1. cpc' = "idle" /\ cpc \in {"init", "init_write", "load", "prove", "count", "run_prover",
                                        "run_cycle_count", "estimate", "price", "serving"}
          BY <3>5 DEF InitRefuses, InitWrites, LoadFails, WithoutKona, NotAvailable,
             PricingFails, Unsupported, PollFails, Fails, Ends
        <4> QED
          BY <4>1 DEF Ahead
      <3> QED
        BY <2>1, <3>1, <3>2, <3>3, <3>4, <3>5 DEF Step
    <2>2. ASSUME ~ Step, cpc # "idle" PROVE ~ (Ahead[cpc'] > Ahead[cpc])
      <3>1. cpc' = cpc \/ cpc' = "idle"
        BY <2>2 DEF Next, CommandNext, Start, CtrlC, Kill, Edit, Ends, commandVars, vars
      <3>2. Ahead[cpc] \in Nat
        BY DEF CommandInv, CliInv, Ahead
      <3> QED
        BY <3>1, <3>2 DEF Ahead
    <2>3. cpc \in DOMAIN Ahead /\ \A p \in DOMAIN Ahead : Ahead[p] \in Nat
      BY DEF CommandInv, CliInv, Ahead
    <2>4. Step => ~ (Ahead[cpc'] > Ahead[cpc])
      <3>1. cpc' \in DOMAIN Ahead
        BY CommandStep DEF Next, CommandInv, CliInv, Ahead, vars, commandVars
      <3> QED
        BY <2>1, <2>3, <3>1
    <2> QED
      BY <2>1, <2>2, <2>4
  <1> QED
    BY <1>1, Invariance, PTL DEF Spec, ProcessesDescend

=============================================================================
