-------------------------- MODULE SettlementProofs --------------------------
(***************************************************************************)
(* Any number of operators, calls, direct callers and program updates: an  *)
(* Ok of the client means settled, and a verdict given through the client  *)
(* is on its journal's block and stands.                                   *)
(***************************************************************************)
EXTENDS Settlement, DisputeGameProofs

(***************************************************************************)
(* What the contracts promise to a transaction that waits: proven blocks   *)
(* stay proven, resolved disputes stay resolved, and an open dispute ends  *)
(* only by being resolved.                                                 *)
(***************************************************************************)
LEMMA OnlyForward ==
  ASSUME IInv, [Next]_vars, NEW b \in BlockNumbers
  PROVE  /\ isBlockProven(b) => isBlockProven(b)'
         /\ disputes[b].resolved => disputes'[b].resolved
         /\ isDisputed(b) => isDisputed(b)' \/ disputes'[b].resolved
<1>1. isBlockProven(b) => isBlockProven(b)'
  <2>1. CASE UNCHANGED proposals
    BY <2>1 DEF isBlockProven
  <2>2. ASSUME NEW j \in Journals, ProcessJournal(j)
        PROVE  isBlockProven(b) => isBlockProven(b)'
    BY <2>2, BlockOfType DEF ProcessJournal, StoreProposal, isBlockProven, IInv, TypeOK,
       OracleTypeOK
  <2> QED
    BY <2>1, <2>2, ProposalStep
<1>2. /\ disputes[b].resolved => disputes'[b].resolved
      /\ isDisputed(b) => isDisputed(b)' \/ disputes'[b].resolved
  <2>1. CASE UNCHANGED disputes
    BY <2>1 DEF isDisputed
  <2>2. ASSUME NEW s \in Senders, NEW c \in BlockNumbers, challenge(s, c)
        PROVE  /\ disputes[b].resolved => disputes'[b].resolved
               /\ isDisputed(b) => isDisputed(b)' \/ disputes'[b].resolved
    <3>1. CASE b = c
      BY <2>2, <3>1 DEF challenge, isDisputed, IInv, Bookkeeping
    <3>2. CASE b # c
      BY <2>2, <3>2 DEF challenge, OpenDispute, isDisputed, IInv, TypeOK
    <3> QED
      BY <3>1, <3>2
  <2>3. ASSUME NEW c \in BlockNumbers, NEW j \in Journals, NEW k \in Backends, resolve(c, j, k)
        PROVE  /\ disputes[b].resolved => disputes'[b].resolved
               /\ isDisputed(b) => isDisputed(b)' \/ disputes'[b].resolved
    <3> disputes[b] \in Dispute /\ disputes \in [BlockNumbers -> Dispute]
      BY DEF IInv, TypeOK
    <3>1. CASE b = c
      BY <2>3, <3>1 DEF resolve, RecordVerdict, isDisputed, Dispute
    <3>2. CASE b # c
      BY <2>3, <3>2 DEF resolve, RecordVerdict, isDisputed
    <3> QED
      BY <3>1, <3>2
  <2> QED
    BY <2>1, <2>2, <2>3, DisputeStep
<1> QED
  BY <1>1, <1>2

ProgramKeys == <<sp1ProgramVKey, risc0ImageId, gameSp1ProgramVKey, gameRisc0ImageId>>

\* As long as no program changes, a call that would succeed still would, or
\* somebody else has settled it.
LEMMA SettledOrEstimates ==
  ASSUME IInv, [Next]_vars, NEW call \in Call
  PROVE  /\ Settled(call) => Settled(call)'
         /\ Estimates(call) /\ UNCHANGED ProgramKeys => Estimates(call)' \/ Settled(call)'
<1>1. BlockOf(call.journal) \in BlockNumbers
  BY BlockOfType DEF Call
<1>2. Settled(call) => Settled(call)'
  BY <1>1, OnlyForward DEF Settled
<1>3. ASSUME Estimates(call), UNCHANGED ProgramKeys
      PROVE  Estimates(call)' \/ Settled(call)'
  <2>1. CASE call.kind = "submit"
    <3>1. Submittable(call)
      BY <1>3, <2>1 DEF Estimates
    <3>2. Submittable(call)' \/ isBlockProven(BlockOf(call.journal))'
      BY <1>3, <3>1 DEF Submittable, ProgramKeys
    <3> QED
      BY <2>1, <3>2 DEF Estimates, Settled
  <2>2. CASE call.kind = "resolve"
    <3>1. Resolvable(call)
      BY <1>3, <2>2 DEF Estimates
    <3>2. isDisputed(BlockOf(call.journal))' \/ disputes'[BlockOf(call.journal)].resolved
      BY <1>1, <3>1, OnlyForward DEF Resolvable
    <3>3. VerifiesForGame(call.journal, call.backend)'
      BY <1>3, <3>1 DEF Resolvable, VerifiesForGame, ProgramKeys
    <3>4. Resolvable(call)' \/ disputes'[BlockOf(call.journal)].resolved
      BY <3>1, <3>2, <3>3 DEF Resolvable
    <3> QED
      BY <2>2, <3>4 DEF Estimates, Settled
  <2> QED
    BY <2>1, <2>2 DEF Call
<1> QED
  BY <1>2, <1>3

\* A step of the contracts without a program update keeps what a transaction
\* that was already sent may rely on.
LEMMA FateKept ==
  ASSUME IInv, [Next]_vars, NEW call \in Call,
         Settled(call) \/ Estimates(call), UNCHANGED ProgramKeys
  PROVE  Settled(call)' \/ Estimates(call)'
BY SettledOrEstimates

\* Executing a call settles it, a zero post root apart.
LEMMA ExecuteSettles ==
  ASSUME IInv, NEW call \in Call, Execute(call)
  PROVE  /\ Next /\ UNCHANGED ProgramKeys
         /\ call.journal.l2_post_root # ZeroRoot => Settled(call)'
<1>1. BlockOf(call.journal) \in BlockNumbers /\ call.journal \in Journals
  BY BlockOfType DEF Call
<1>2. CASE call.kind = "submit" /\ UNCHANGED gameVars
           /\ (submitSp1Proof(call.journal) \/ submitRisc0Proof(call.journal))
  <2>1. Next
    BY <1>1, <1>2 DEF Next, OracleNext
  <2>2. UNCHANGED ProgramKeys
    BY <1>2 DEF submitSp1Proof, submitRisc0Proof, gameVars, ProgramKeys
  <2>3. ProcessJournal(call.journal)
    BY <1>2 DEF submitSp1Proof, submitRisc0Proof
  <2>4. proposals'[BlockOf(call.journal)].outputRoot = call.journal.l2_post_root
    BY <1>1, <2>3 DEF ProcessJournal, StoreProposal, IInv, TypeOK, OracleTypeOK
  <2> QED
    BY <1>2, <2>1, <2>2, <2>4 DEF Settled, isBlockProven
<1>3. CASE call.kind = "resolve"
           /\ resolve(BlockOf(call.journal), call.journal, call.backend)
  <2>1. call.backend \in Backends
    BY DEF Call
  <2>2. Next
    BY <1>1, <1>3, <2>1 DEF Next, GameNext
  <2>3. UNCHANGED ProgramKeys
    BY <1>3 DEF resolve, oracleVars, ProgramKeys
  <2>4. disputes \in [BlockNumbers -> Dispute]
    BY DEF IInv, TypeOK
  <2>5. disputes'[BlockOf(call.journal)].resolved
    BY <1>1, <1>3, <2>4 DEF resolve, RecordVerdict, Dispute
  <2> QED
    BY <1>3, <2>2, <2>3, <2>5 DEF Settled
<1> QED
  BY <1>2, <1>3 DEF Execute

\* A verdict, once given, is never touched again.
LEMMA ResolvedUntouched ==
  ASSUME IInv, [Next]_vars, NEW b \in BlockNumbers, disputes[b].resolved
  PROVE  disputes'[b] = disputes[b]
<1>1. CASE UNCHANGED disputes
  BY <1>1
<1>2. ASSUME NEW s \in Senders, NEW c \in BlockNumbers, challenge(s, c)
      PROVE  disputes'[b] = disputes[b]
  BY <1>2 DEF challenge, OpenDispute, IInv, TypeOK, Bookkeeping
<1>3. ASSUME NEW c \in BlockNumbers, NEW j \in Journals, NEW k \in Backends, resolve(c, j, k)
      PROVE  disputes'[b] = disputes[b]
  BY <1>3 DEF resolve, RecordVerdict, IInv, TypeOK
<1> QED
  BY <1>1, <1>2, <1>3, DisputeStep

\* The verdict a call asks for: on its journal's block, against the root copied from the oracle.
Verdict(call) ==
  /\ disputes[BlockOf(call.journal)].resolved
  /\ disputes[BlockOf(call.journal)].valid <=>
       call.journal.l2_post_root = disputes[BlockOf(call.journal)].disputedOutputRoot

\* Executing resolve gives that verdict, ...
LEMMA ExecuteGivesVerdict ==
  ASSUME IInv, NEW call \in Call, resolve(BlockOf(call.journal), call.journal, call.backend)
  PROVE  Verdict(call)'
<1> DEFINE c == BlockOf(call.journal)
<1>1. c \in BlockNumbers
  BY BlockOfType DEF Call
<1>2. disputes \in [BlockNumbers -> Dispute]
  BY DEF IInv, TypeOK
<1>3. disputes' = [disputes EXCEPT ![c] =
        [@ EXCEPT !.resolved = TRUE,
                  !.valid = (call.journal.l2_post_root = disputes[c].disputedOutputRoot)]]
  BY DEF resolve, RecordVerdict
<1> HIDE DEF c
<1>4. /\ disputes'[c].resolved
      /\ disputes'[c].disputedOutputRoot = disputes[c].disputedOutputRoot
      /\ disputes'[c].valid = (call.journal.l2_post_root = disputes[c].disputedOutputRoot)
  BY <1>1, <1>2, <1>3 DEF Dispute
<1> QED
  BY <1>4 DEF c, Verdict

\* ... every later step keeps it, ...
LEMMA VerdictKept ==
  ASSUME IInv, [Next]_vars, NEW call \in Call, Verdict(call)
  PROVE  Verdict(call)'
<1>1. BlockOf(call.journal) \in BlockNumbers
  BY BlockOfType DEF Call
<1>2. disputes'[BlockOf(call.journal)] = disputes[BlockOf(call.journal)]
  BY <1>1, ResolvedUntouched DEF Verdict
<1> QED
  BY <1>2 DEF Verdict

\* ... and it is one about the root the oracle holds.
LEMMA VerdictIsOnOracleRoot ==
  ASSUME IInv, NEW call \in Call
  PROVE  Verdict(call) <=>
           /\ disputes[BlockOf(call.journal)].resolved
           /\ disputes[BlockOf(call.journal)].valid <=>
                call.journal.l2_post_root = proposals[BlockOf(call.journal)].outputRoot
<1>1. BlockOf(call.journal) \in BlockNumbers
  BY BlockOfType DEF Call
<1>2. disputes[BlockOf(call.journal)].resolved =>
        disputes[BlockOf(call.journal)].disputedOutputRoot
          = proposals[BlockOf(call.journal)].outputRoot
  BY <1>1 DEF IInv, Bookkeeping, DisputeMatchesOracle
<1> QED
  BY <1>2 DEF Verdict

-----------------------------------------------------------------------------

\* The fate of one operator's transaction.
Fate(c) ==
  /\ tx[c].status # "none" => tx[c].rotations <= rotations
  /\ client[c] = "idle" => tx[c].status = "none"
  /\ client[c] \in {"waiting", "ok"} => tx[c].status # "none"
  /\ client[c] = "ok" => tx[c].status \in {"success", "reverted"}
  /\ tx[c].status # "none" /\ tx[c].rotations = rotations
       /\ tx[c].call.journal.l2_post_root # ZeroRoot
     => \/ Settled(tx[c].call)
        \/ tx[c].status = "pending" /\ Estimates(tx[c].call)

SentTx == [status : {"pending", "success", "reverted"}, call : Call, rotations : Nat]

LEMMA SentTxType ==
  ASSUME SettleTypeOK, NEW c \in Clients, tx[c].status # "none"
  PROVE  tx[c] \in SentTx
BY DEF SettleTypeOK, NoTx, SentTx

\* What is known of a transaction is known of the call it carries.
LEMMA SameCall ==
  ASSUME NEW c \in Clients, NEW k \in Call, tx'[c].call = k
  PROVE  /\ Settled(tx[c].call)' <=> Settled(k)'
         /\ Estimates(tx[c].call)' <=> Estimates(k)'
<1>1. Settled(tx[c].call)' <=> Settled(k)'
  BY DEF Settled, BlockOf, isBlockProven
<1>2. Estimates(tx[c].call)' <=> Estimates(k)'
  BY DEF Estimates, Submittable, Resolvable, VerifiesForGame, BlockOf, isBlockProven, isDisputed
<1> QED
  BY <1>1, <1>2

\* The contracts move without a program update, the transaction does not.
LEMMA FateOfOthers ==
  ASSUME SettleInv, [Next]_vars, UNCHANGED ProgramKeys, UNCHANGED rotations,
         NEW c \in Clients, tx'[c] = tx[c], client'[c] = client[c]
  PROVE  Fate(c)'
<1>1. Fate(c) /\ IInv /\ SettleTypeOK
  BY DEF SettleInv, TxFate, Fate
<1>2. CASE tx[c].status = "none"
  BY <1>1, <1>2 DEF Fate
<1>3. CASE tx[c].status # "none"
  <2>1. PICK k \in Call : k = tx[c].call
    BY <1>1, <1>3, SentTxType DEF SentTx
  <2>2. /\ Settled(k) => Settled(k)'
        /\ Estimates(k) => Estimates(k)' \/ Settled(k)'
    BY <1>1, SettledOrEstimates
  <2>3. /\ Settled(tx[c].call)' <=> Settled(k)'
        /\ Estimates(tx[c].call)' <=> Estimates(k)'
    BY <2>1, SameCall
  <2>4. \/ Settled(k)
        \/ tx[c].status = "pending" /\ Estimates(k)
        \/ tx[c].rotations # rotations
        \/ tx[c].call.journal.l2_post_root = ZeroRoot
    BY <1>1, <1>3, <2>1 DEF Fate
  <2>5. \/ Settled(tx[c].call)'
        \/ tx[c].status = "pending" /\ Estimates(tx[c].call)'
        \/ tx[c].rotations # rotations
        \/ tx[c].call.journal.l2_post_root = ZeroRoot
    BY <2>2, <2>3, <2>4
  <2> QED
    BY <1>1, <1>3, <2>5 DEF Fate
<1> QED
  BY <1>2, <1>3

LEMMA FatesMakeTxFate == (\A c \in Clients : Fate(c)') <=> TxFate'
BY DEF TxFate, Fate

\* A step that leaves the contracts alone, transactions and calls apart.
LEMMA ContractsKept ==
  ASSUME SettleInv, UNCHANGED vars
  PROVE  IInv' /\ [Next]_vars /\ UNCHANGED ProgramKeys
<1>1. IInv'
  BY StepInv DEF SettleInv
<1> QED
  BY <1>1 DEF vars, oracleVars, gameVars, ProgramKeys

LEMMA SendInv ==
  ASSUME SettleInv, NEW d \in Clients, NEW call \in Call, Send(d, call)
  PROVE  SettleInv'
<1>1. UNCHANGED <<vars, rotations>>
  BY DEF Send
<1>2. /\ client' = [client EXCEPT ![d] = "waiting"]
      /\ tx' = [tx EXCEPT ![d] = Pending(call)]
      /\ Estimates(call)
  BY DEF Send
<1>3. client \in [Clients -> {"idle", "waiting", "ok", "error"}] /\ DOMAIN tx = Clients
      /\ rotations \in Nat
  BY DEF SettleInv, SettleTypeOK
<1>4. Pending(call) \in SentTx
  BY <1>3 DEF Pending, SentTx
<1>5. SettleTypeOK'
  BY <1>1, <1>2, <1>4, ContractsKept DEF SettleInv, SettleTypeOK, SentTx
<1>6. ASSUME NEW c \in Clients PROVE Fate(c)'
  <2>1. CASE c # d
    BY <1>1, <1>2, <1>3, <2>1, ContractsKept, FateOfOthers
  <2>2. CASE c = d
    <3>1. tx'[c] = Pending(call) /\ client'[c] = "waiting"
      BY <1>2, <1>3, <2>2
    <3>2. tx'[c].status = "pending" /\ tx'[c].call = call /\ tx'[c].rotations = rotations
      BY <3>1 DEF Pending
    <3>3. Estimates(call)' \/ Settled(call)'
      BY <1>1, <1>2, ContractsKept, SettledOrEstimates DEF SettleInv
    <3>4. Estimates(tx[c].call)' \/ Settled(tx[c].call)'
      BY <3>2, <3>3, SameCall
    <3> QED
      BY <1>1, <1>3, <3>1, <3>2, <3>4 DEF Fate
  <2> QED
    BY <2>1, <2>2
<1>7. TxFate'
  BY <1>6, FatesMakeTxFate
<1> QED
  BY <1>1, <1>5, <1>7, ContractsKept DEF SettleInv

\* A call ends: only the client's state changes.
LEMMA ReturnInv ==
  ASSUME SettleInv, NEW d \in Clients, Refuse(d) \/ Receipt(d) \/ ReceiptError(d)
  PROVE  SettleInv'
<1>1. UNCHANGED <<vars, tx, rotations>>
  BY DEF Refuse, Receipt, ReceiptError
<1>2. PICK r \in {"ok", "error"} :
        /\ client' = [client EXCEPT ![d] = r]
        /\ r = "ok" => tx[d].status \in {"success", "reverted"}
  BY DEF Refuse, Receipt, ReceiptError
<1>3. client \in [Clients -> {"idle", "waiting", "ok", "error"}] /\ SettleTypeOK
  BY DEF SettleInv, SettleTypeOK
<1>4. SettleTypeOK'
  BY <1>1, <1>2, <1>3, ContractsKept DEF SettleTypeOK
<1>5. ASSUME NEW c \in Clients PROVE Fate(c)'
  <2>1. CASE c # d
    BY <1>1, <1>2, <1>3, <2>1, ContractsKept, FateOfOthers
  <2>2. CASE c = d
    <3>1. client'[c] = r /\ tx'[c] = tx[c] /\ Fate(c)
      BY <1>1, <1>2, <1>3, <2>2 DEF SettleInv, TxFate, Fate
    <3>2. CASE tx[c].status = "none"
      BY <1>1, <1>2, <2>2, <3>1, <3>2 DEF Fate
    <3>3. CASE tx[c].status # "none"
      <4>1. PICK k \in Call : k = tx[c].call
        BY <1>3, <3>3, SentTxType DEF SentTx
      <4>2. /\ Settled(k) => Settled(k)'
            /\ Estimates(k) => Estimates(k)' \/ Settled(k)'
        BY <1>1, ContractsKept, SettledOrEstimates DEF SettleInv
      <4>3. /\ Settled(tx[c].call)' <=> Settled(k)'
            /\ Estimates(tx[c].call)' <=> Estimates(k)'
        BY <3>1, <4>1, SameCall
      <4>4. \/ Settled(tx[c].call)'
            \/ tx[c].status = "pending" /\ Estimates(tx[c].call)'
            \/ tx[c].rotations # rotations
            \/ tx[c].call.journal.l2_post_root = ZeroRoot
        BY <3>1, <3>3, <4>1, <4>2, <4>3 DEF Fate
      <4> QED
        BY <1>1, <1>2, <2>2, <3>1, <3>3, <4>4 DEF Fate
    <3> QED
      BY <3>2, <3>3
  <2> QED
    BY <2>1, <2>2
<1>6. TxFate'
  BY <1>5, FatesMakeTxFate
<1> QED
  BY <1>1, <1>4, <1>6, ContractsKept DEF SettleInv

\* A transaction leaves the mempool.
LEMMA MinedInv ==
  ASSUME SettleInv, NEW d \in Clients, Mine(d) \/ Revert(d)
  PROVE  SettleInv'
<1>1. tx[d].status = "pending" /\ UNCHANGED <<client, rotations>>
  BY DEF Mine, Revert
<1>2. PICK k \in Call : k = tx[d].call
  BY <1>1, SentTxType DEF SentTx, SettleInv
<1>3. PICK st \in {"success", "reverted"} : tx' = [tx EXCEPT ![d].status = st]
  BY DEF Mine, Revert
<1>4. SettleTypeOK /\ DOMAIN tx = Clients /\ tx[d] \in SentTx
  BY <1>1, SentTxType DEF SettleInv, SettleTypeOK
<1>5. tx'[d] \in SentTx /\ tx'[d].call = k /\ tx'[d].rotations = tx[d].rotations
      /\ tx'[d].status = st
  BY <1>2, <1>3, <1>4 DEF SentTx
<1>6. /\ [Next]_vars /\ UNCHANGED ProgramKeys
      /\ \/ Settled(k)'
         \/ tx[d].rotations # rotations
         \/ k.journal.l2_post_root = ZeroRoot
  <2>1. CASE Mine(d)
    <3>1. Execute(k)
      <4>1. Execute(tx[d].call)
        BY <2>1 DEF Mine
      <4>2. CASE /\ tx[d].call.kind = "submit" /\ tx[d].call.backend = "SP1"
                 /\ submitSp1Proof(tx[d].call.journal) /\ UNCHANGED gameVars
        <5>1. submitSp1Proof(k.journal)
          BY <1>2, <4>2 DEF submitSp1Proof, ProcessJournal, StoreProposal, BlockOf, MovesHead
        <5> QED
          BY <1>2, <4>2, <5>1 DEF Execute
      <4>3. CASE /\ tx[d].call.kind = "submit" /\ tx[d].call.backend = "RiscZero"
                 /\ submitRisc0Proof(tx[d].call.journal) /\ UNCHANGED gameVars
        <5>1. submitRisc0Proof(k.journal)
          BY <1>2, <4>3 DEF submitRisc0Proof, ProcessJournal, StoreProposal, BlockOf, MovesHead
        <5> QED
          BY <1>2, <4>3, <5>1 DEF Execute
      <4>4. CASE /\ tx[d].call.kind = "resolve"
                 /\ resolve(BlockOf(tx[d].call.journal), tx[d].call.journal, tx[d].call.backend)
        <5>1. resolve(BlockOf(k.journal), k.journal, k.backend)
          BY <1>2, <4>4 DEF resolve, RecordVerdict, VerifiesForGame, BlockOf
        <5> QED
          BY <1>2, <4>4, <5>1 DEF Execute
      <4> QED
        BY <4>1, <4>2, <4>3, <4>4 DEF Execute
    <3> QED
      BY <3>1, ExecuteSettles DEF SettleInv
  <2>2. CASE Revert(d)
    <3>1. UNCHANGED vars /\ ~ Estimates(k)
      BY <1>2, <2>2 DEF Revert
    <3>2. \/ Settled(k)
          \/ tx[d].rotations # rotations
          \/ k.journal.l2_post_root = ZeroRoot
      BY <1>1, <1>2, <3>1 DEF SettleInv, TxFate
    <3>3. Settled(k) => Settled(k)'
      BY <3>1, ContractsKept, SettledOrEstimates DEF SettleInv
    <3> QED
      BY <3>1, <3>2, <3>3, ContractsKept
  <2> QED
    BY <2>1, <2>2
<1>7. IInv'
  BY <1>6, StepInv DEF SettleInv
<1>8. SettleTypeOK'
  BY <1>1, <1>3, <1>4, <1>5, <1>6 DEF SettleTypeOK, ProgramKeys, SentTx
<1>9. ASSUME NEW c \in Clients PROVE Fate(c)'
  <2>1. CASE c # d
    BY <1>1, <1>3, <1>4, <1>6, <2>1, FateOfOthers
  <2>2. CASE c = d
    <3>1. Settled(tx[d].call)' <=> Settled(k)'
      BY <1>5, SameCall
    <3>2. Fate(d)
      BY DEF SettleInv, TxFate, Fate
    <3> QED
      BY <1>1, <1>2, <1>5, <1>6, <2>2, <3>1, <3>2 DEF Fate
  <2> QED
    BY <2>1, <2>2
<1>10. TxFate'
  BY <1>9, FatesMakeTxFate
<1> QED
  BY <1>6, <1>7, <1>8, <1>10 DEF SettleInv

\* A program update: what was sent before is excepted from now on.
LEMMA RotateInv ==
  ASSUME SettleInv, Rotate
  PROVE  SettleInv'
<1>1. UNCHANGED <<client, tx>> /\ rotations' = rotations + 1
  BY DEF Rotate
<1>2. Next
  BY DEF Rotate, Next, OracleNext, GameNext
<1>3. IInv'
  BY <1>2, StepInv DEF SettleInv
<1>7. SettleTypeOK'
  BY <1>1 DEF SettleInv, SettleTypeOK
<1>8. ASSUME NEW c \in Clients PROVE Fate(c)'
  <2>1. Fate(c) /\ SettleTypeOK
    BY DEF SettleInv, TxFate, Fate
  <2>2. CASE tx[c].status = "none"
    BY <1>1, <2>1, <2>2 DEF Fate
  <2>3. CASE tx[c].status # "none"
    <3>1. tx[c].rotations \in Nat /\ rotations \in Nat
      BY <2>1, <2>3, SentTxType DEF SentTx, SettleTypeOK
    <3>2. tx[c].rotations # rotations' /\ tx[c].rotations <= rotations'
      BY <1>1, <2>1, <2>3, <3>1 DEF Fate
    <3> QED
      BY <1>1, <2>1, <3>2 DEF Fate
  <2> QED
    BY <2>2, <2>3
<1>9. TxFate'
  BY <1>8, FatesMakeTxFate
<1> QED
  BY <1>3, <1>7, <1>9 DEF SettleInv

\* Challenges, direct calls and time, and steps of nobody.
LEMMA OthersInv ==
  ASSUME SettleInv, Others \/ UNCHANGED allVars
  PROVE  SettleInv'
<1>1. UNCHANGED <<client, tx, rotations>>
  BY DEF Others, senderVars, allVars
<1>2. [Next]_vars
  BY DEF Others, allVars, Next, OracleNext, GameNext
<1>3. UNCHANGED ProgramKeys
  <2>1. CASE \E s \in Senders, b \in BlockNumbers : challenge(s, b)
    BY <2>1 DEF challenge, OpenDispute, oracleVars, ProgramKeys
  <2>2. CASE \E b \in BlockNumbers, j \in Journals, k \in Backends : resolve(b, j, k)
    BY <2>2 DEF resolve, oracleVars, ProgramKeys
  <2>3. CASE \E j \in Journals : (submitSp1Proof(j) \/ submitRisc0Proof(j)) /\ UNCHANGED gameVars
    BY <2>3 DEF submitSp1Proof, submitRisc0Proof, gameVars, ProgramKeys
  <2>4. CASE AdvanceTime /\ UNCHANGED gameVars
    BY <2>4 DEF AdvanceTime, gameVars, ProgramKeys
  <2>5. CASE UNCHANGED allVars
    BY <2>5 DEF allVars, vars, oracleVars, gameVars, ProgramKeys
  <2> QED
    BY <2>1, <2>2, <2>3, <2>4, <2>5 DEF Others
<1>5. IInv'
  BY <1>2, StepInv DEF SettleInv
<1>6. SettleTypeOK'
  BY <1>1, <1>3 DEF SettleInv, SettleTypeOK, ProgramKeys
<1>7. TxFate'
  BY <1>1, <1>2, <1>3, FateOfOthers, FatesMakeTxFate
<1> QED
  BY <1>5, <1>6, <1>7 DEF SettleInv

(***************************************************************************)
(* The invariant of contracts and operators together.                      *)
(***************************************************************************)
THEOREM SettlementInvariance == SettleSpec => []SettleInv
<1>1. SettleInit => SettleInv
  <2> SUFFICES ASSUME SettleInit PROVE SettleInv
    OBVIOUS
  <2>1. IInv
    BY InitInv DEF SettleInit
  <2>2. SettleTypeOK
    BY DEF SettleInit, SettleTypeOK, NoTx
  <2>3. TxFate
    BY DEF SettleInit, TxFate, NoTx
  <2> QED
    BY <2>1, <2>2, <2>3 DEF SettleInv
<1>2. SettleInv /\ [SettleNext]_allVars => SettleInv'
  BY SendInv, ReturnInv, MinedInv, RotateInv, OthersInv DEF SettleNext
<1> QED
  BY <1>1, <1>2, PTL DEF SettleSpec

(***************************************************************************)
(* An Ok of submit_proof or resolve_dispute means that the block is proven *)
(* or the dispute resolved, although the receipt's status is not read.     *)
(***************************************************************************)
THEOREM OkIsSettled == SettleSpec => []OkMeansSettled
<1>1. SettleInv => OkMeansSettled
  BY DEF SettleInv, TxFate, OkMeansSettled
<1> QED
  BY <1>1, SettlementInvariance, PTL

-----------------------------------------------------------------------------
(* Operators and direct callers add nothing to what the contracts can do.   *)

LEMMA ContractStep ==
  ASSUME SettleInv, [SettleNext]_allVars
  PROVE  [Next]_vars
<1>1. ASSUME NEW c \in Clients, Mine(c)
      PROVE  Next
  <2>1. tx[c].call \in Call
    BY <1>1, SentTxType DEF Mine, SettleInv, SentTx
  <2> QED
    BY <1>1, <2>1, ExecuteSettles DEF Mine, SettleInv
<1>2. ASSUME NEW c \in Clients, Refuse(c) \/ Revert(c) \/ Receipt(c) \/ ReceiptError(c)
      PROVE  UNCHANGED vars
  BY <1>2 DEF Refuse, Revert, Receipt, ReceiptError
<1>3. ASSUME NEW c \in Clients, NEW call \in Call, Send(c, call)
      PROVE  UNCHANGED vars
  BY <1>3 DEF Send
<1>4. CASE Rotate
  BY <1>4 DEF Rotate, Next, OracleNext, GameNext
<1>5. CASE Others
  BY <1>5 DEF Others, Next, OracleNext, GameNext
<1>6. CASE UNCHANGED allVars
  BY <1>6 DEF allVars
<1> QED
  BY <1>1, <1>2, <1>3, <1>4, <1>5, <1>6 DEF SettleNext

(***************************************************************************)
(* Seen from the chain, any number of operators who send, wait, lose       *)
(* receipts and are overtaken are a behaviour of the two contracts alone:  *)
(* every theorem of DisputeGameProofs holds under RpcProofSubmitter too.   *)
(***************************************************************************)
THEOREM OperatorsRefineContracts == SettleSpec => Spec
<1>1. SettleInit => Init
  BY DEF SettleInit
<1>2. SettleInv /\ [SettleNext]_allVars => [Next]_vars
  BY ContractStep
<1> QED
  BY <1>1, <1>2, SettlementInvariance, PTL DEF SettleSpec, Spec

(***************************************************************************)
(* So the monitor, the CLI and the engine, which rely on the contract view *)
(* only, may rely on it while operators settle, and what is proven or      *)
(* resolved stays as it is whatever the operators send.                    *)
(***************************************************************************)
THEOREM OperatorsKeepTheView ==
  SettleSpec => ImplementsView /\ ProvenIsFinal /\ VerdictIsFinal
  BY OperatorsRefineContracts, Refinement, ProvenStaysFinal, VerdictStaysFinal, PTL

(***************************************************************************)
(* What an Ok says never becomes false: a call that is settled stays       *)
(* settled, through every later proof, verdict and program update, also    *)
(* the updates OkMeansSettled has to except.                               *)
(***************************************************************************)
SettledStays == [][\A call \in Call : Settled(call) => Settled(call)']_allVars

\* No step of an operator, a challenger or the owner unsettles a call of the submitter.
THEOREM SettledIsFinal == SettleSpec => SettledStays
<1>1. SettleInv /\ [SettleNext]_allVars
        => [\A call \in Call : Settled(call) => Settled(call)']_allVars
  <2> SUFFICES ASSUME SettleInv, [SettleNext]_allVars, NEW call \in Call, Settled(call)
               PROVE  Settled(call)'
    OBVIOUS
  <2>1. BlockOf(call.journal) \in BlockNumbers
    BY BlockOfType DEF Call
  <2>2. [Next]_vars /\ IInv
    BY ContractStep DEF SettleInv
  <2> QED
    BY <2>1, <2>2, OnlyForward DEF Settled
<1> QED
  BY <1>1, SettlementInvariance, PTL DEF SettleSpec, SettledStays

-----------------------------------------------------------------------------
(* Operators who race for one block or one dispute.                         *)

\* A call whose success settles it: a zero root proves nothing.
Settles(call) == call.kind = "resolve" \/ call.journal.l2_post_root # ZeroRoot

(***************************************************************************)
(* However many operators send a proof of the same block, or a verdict on  *)
(* the same dispute, at the same time, and whatever their estimates said,  *)
(* at most one of the transactions that settle it succeeds.                *)
(***************************************************************************)
OneWinner ==
  \A c, d \in Clients :
    /\ tx[c].status = "success" /\ tx[d].status = "success"
    /\ tx[c].call.kind = tx[d].call.kind
    /\ BlockOf(tx[c].call.journal) = BlockOf(tx[d].call.journal)
    /\ Settles(tx[c].call) /\ Settles(tx[d].call)
    => c = d

\* Settled stays true of a success, also after program updates.
SuccessIsSettled ==
  \A c \in Clients : tx[c].status = "success" /\ Settles(tx[c].call) => Settled(tx[c].call)

\* A transaction that executes finds its block or dispute unsettled, and settles it.
LEMMA ExecutesOnce ==
  ASSUME IInv, NEW call \in Call, Execute(call)
  PROVE  /\ ~ Settled(call)
         /\ Settles(call) => Settled(call)'
<1>1. BlockOf(call.journal) \in BlockNumbers /\ call.journal \in Journals
  BY BlockOfType DEF Call
<1>2. CASE call.kind = "submit"
  <2>1. ProcessJournal(call.journal)
    BY <1>2 DEF Execute, submitSp1Proof, submitRisc0Proof
  <2>2. ~ Settled(call)
    BY <1>2, <2>1 DEF ProcessJournal, Settled
  <2>3. call.journal.l2_post_root # ZeroRoot => Settled(call)'
    BY ExecuteSettles
  <2> QED
    BY <1>2, <2>2, <2>3 DEF Settles
<1>3. CASE call.kind = "resolve"
  <2>1. resolve(BlockOf(call.journal), call.journal, call.backend)
    BY <1>3 DEF Execute
  <2>2. ~ Settled(call)
    BY <1>3, <2>1 DEF resolve, Settled
  <2>3. disputes \in [BlockNumbers -> Dispute]
    BY DEF IInv, TypeOK
  <2>4. disputes'[BlockOf(call.journal)].resolved
    BY <1>1, <2>1, <2>3 DEF resolve, RecordVerdict, Dispute
  <2> QED
    BY <1>3, <2>2, <2>4 DEF Settled
<1> QED
  BY <1>2, <1>3 DEF Call

\* A success was one already, or is the only thing that happens to a transaction.
LEMMA SuccessComesFromMine ==
  ASSUME SettleInv, [SettleNext]_allVars, NEW c \in Clients, tx'[c].status = "success"
  PROVE  \/ tx'[c] = tx[c]
         \/ /\ Execute(tx[c].call) /\ tx[c].call \in Call /\ tx'[c].call = tx[c].call
            /\ \A d \in Clients \ {c} : tx'[d] = tx[d]
<1> tx \in [Clients -> {NoTx} \union SentTx]
  BY DEF SettleInv, SettleTypeOK, SentTx
<1>1. ASSUME NEW e \in Clients, Mine(e)
      PROVE  \/ tx'[c] = tx[c]
             \/ /\ Execute(tx[c].call) /\ tx[c].call \in Call /\ tx'[c].call = tx[c].call
                /\ \A d \in Clients \ {c} : tx'[d] = tx[d]
  <2>1. CASE e = c
    <3>1. tx[c] \in SentTx
      BY <1>1, <2>1, SentTxType DEF Mine, SettleInv
    <3>2. tx' = [tx EXCEPT ![c].status = "success"] /\ Execute(tx[c].call)
      BY <1>1, <2>1 DEF Mine
    <3>3. tx'[c].call = tx[c].call /\ tx[c].call \in Call
      BY <3>1, <3>2 DEF SentTx
    <3>4. \A d \in Clients \ {c} : tx'[d] = tx[d]
      BY <3>2
    <3> QED
      BY <3>2, <3>3, <3>4
  <2>2. CASE e # c
    BY <1>1, <2>2 DEF Mine
  <2> QED
    BY <2>1, <2>2
<1>2. ASSUME NEW e \in Clients, NEW call \in Call, Send(e, call)
      PROVE  tx'[c] = tx[c]
  BY <1>2 DEF Send, Pending
<1>3. ASSUME NEW e \in Clients, Revert(e)
      PROVE  tx'[c] = tx[c]
  <2>1. CASE e = c
    <3>1. tx[c] \in SentTx
      BY <1>3, <2>1, SentTxType DEF Revert, SettleInv
    <3>2. tx'[c].status = "reverted"
      BY <1>3, <2>1, <3>1 DEF Revert, SentTx
    <3> QED
      BY <3>2
  <2>2. CASE e # c
    BY <1>3, <2>2 DEF Revert
  <2> QED
    BY <2>1, <2>2
<1>4. CASE UNCHANGED tx
  BY <1>4
<1>5. \/ UNCHANGED tx
      \/ \E e \in Clients : Mine(e) \/ Revert(e)
      \/ \E e \in Clients, call \in Call : Send(e, call)
  BY DEF SettleNext, allVars, senderVars, Refuse, Receipt, ReceiptError, Rotate, Others
<1> QED
  BY <1>1, <1>2, <1>3, <1>4, <1>5

\* Whether a call is settled depends on its kind and its block only.
LEMMA RivalsSettleTogether ==
  ASSUME NEW k \in Call, NEW l \in Call, k.kind = l.kind,
         BlockOf(k.journal) = BlockOf(l.journal)
  PROVE  Settled(k) <=> Settled(l)
BY DEF Settled

LEMMA SuccessStep ==
  ASSUME SettleInv, SuccessIsSettled, [SettleNext]_allVars
  PROVE  SuccessIsSettled'
<1> SUFFICES ASSUME NEW c \in Clients, tx'[c].status = "success", Settles(tx'[c].call)
             PROVE  Settled(tx[c].call)'
  BY DEF SuccessIsSettled, Settles
<1>1. CASE tx'[c] = tx[c]
  <2>1. PICK k \in Call : k = tx[c].call
    BY <1>1, SentTxType DEF SettleInv, SentTx
  <2>2. Settled(k)
    BY <1>1, <2>1 DEF SuccessIsSettled
  <2>3. BlockOf(k.journal) \in BlockNumbers
    BY BlockOfType DEF Call
  <2>4. Settled(k)'
    BY <2>2, <2>3, ContractStep, OnlyForward DEF Settled, SettleInv
  <2> QED
    BY <1>1, <2>1, <2>4, SameCall
<1>2. CASE Execute(tx[c].call) /\ tx[c].call \in Call /\ tx'[c].call = tx[c].call
  <2>1. PICK k \in Call : k = tx[c].call
    BY <1>2
  <2>2. Settled(k)'
    BY <1>2, <2>1, ExecutesOnce DEF SettleInv
  <2> QED
    BY <1>2, <2>1, <2>2, SameCall
<1> QED
  BY <1>1, <1>2, SuccessComesFromMine

\* The transaction that executes second would find its rival's call settled.
LEMMA NoSecondWinner ==
  ASSUME SettleInv, SuccessIsSettled,
         NEW c \in Clients, NEW d \in Clients,
         Execute(tx[c].call), tx[c].call \in Call,
         tx[d].status = "success", Settles(tx[d].call),
         tx[c].call.kind = tx[d].call.kind,
         BlockOf(tx[c].call.journal) = BlockOf(tx[d].call.journal)
  PROVE  FALSE
<1>1. tx[d].call \in Call
  BY SentTxType DEF SettleInv, SentTx
<1>2. Settled(tx[d].call)
  BY DEF SuccessIsSettled
<1>3. Settled(tx[c].call)
  BY <1>1, <1>2, RivalsSettleTogether
<1> QED
  BY <1>3, ExecutesOnce DEF SettleInv

LEMMA WinnerStep ==
  ASSUME SettleInv, SuccessIsSettled, OneWinner, [SettleNext]_allVars
  PROVE  OneWinner'
<1> SUFFICES ASSUME NEW c \in Clients, NEW d \in Clients, c # d,
                    tx'[c].status = "success", tx'[d].status = "success",
                    tx'[c].call.kind = tx'[d].call.kind,
                    BlockOf(tx'[c].call.journal) = BlockOf(tx'[d].call.journal),
                    Settles(tx'[c].call), Settles(tx'[d].call)
             PROVE  FALSE
  BY DEF OneWinner, Settles, BlockOf
<1>1. CASE tx'[c] = tx[c] /\ tx'[d] = tx[d]
  BY <1>1 DEF OneWinner
<1>2. CASE tx'[c] # tx[c]
  BY <1>2, SuccessComesFromMine, NoSecondWinner
<1>3. CASE tx'[d] # tx[d]
  BY <1>3, SuccessComesFromMine, NoSecondWinner
<1> QED
  BY <1>1, <1>2, <1>3

(***************************************************************************)
(* The race of submitters is decided by the contracts: estimates of many   *)
(* operators may all succeed, one transaction does, and the others revert  *)
(* although the client answers Ok to all of them.                          *)
(***************************************************************************)
THEOREM RacesHaveOneWinner == SettleSpec => []OneWinner
<1>1. SettleInit => SuccessIsSettled /\ OneWinner
  BY DEF SettleInit, SuccessIsSettled, OneWinner, NoTx
<1>2. SettleInv /\ SuccessIsSettled /\ OneWinner /\ [SettleNext]_allVars
        => SuccessIsSettled' /\ OneWinner'
  BY SuccessStep, WinnerStep
<1> QED
  BY <1>1, <1>2, SettlementInvariance, PTL DEF SettleSpec

-----------------------------------------------------------------------------

LEMMA VerdictStep ==
  ASSUME SettleInv, VerdictIsOnItsBlock, [SettleNext]_allVars
  PROVE  VerdictIsOnItsBlock'
<1> SUFFICES ASSUME NEW c \in Clients, tx'[c].status = "success", tx'[c].call.kind = "resolve"
             PROVE  LET j == tx'[c].call.journal
                        b == BlockOf(j)
                    IN  /\ disputes'[b].resolved
                        /\ disputes'[b].valid <=> j.l2_post_root = proposals'[b].outputRoot
  BY DEF VerdictIsOnItsBlock, BlockOf
<1>1. IInv /\ [Next]_vars /\ IInv'
  BY ContractStep, StepInv DEF SettleInv
<1>2. PICK k \in Call : k = tx'[c].call /\ Verdict(k)'
  <2>1. CASE tx'[c] = tx[c]
    <3>1. PICK k \in Call : k = tx[c].call
      BY <2>1, SentTxType DEF SettleInv, SentTx
    <3>2. Verdict(k)
      BY <1>1, <2>1, <3>1, VerdictIsOnOracleRoot DEF VerdictIsOnItsBlock
    <3> QED
      BY <1>1, <2>1, <3>1, <3>2, VerdictKept
  <2>2. CASE Execute(tx[c].call) /\ tx[c].call \in Call /\ tx'[c].call = tx[c].call
    <3>1. PICK k \in Call : k = tx[c].call
      BY <2>2
    <3>2. resolve(BlockOf(k.journal), k.journal, k.backend)
      BY <2>2, <3>1 DEF Execute
    <3> QED
      BY <1>1, <2>2, <3>1, <3>2, ExecuteGivesVerdict
  <2> QED
    BY <2>1, <2>2, SuccessComesFromMine
<1>3. /\ disputes'[BlockOf(k.journal)].resolved
      /\ disputes'[BlockOf(k.journal)].valid <=>
           k.journal.l2_post_root = proposals'[BlockOf(k.journal)].outputRoot
  <2>1. BlockOf(k.journal) \in BlockNumbers
    BY BlockOfType DEF Call
  <2>2. /\ disputes'[BlockOf(k.journal)].resolved
        /\ disputes'[BlockOf(k.journal)].valid <=>
             k.journal.l2_post_root = disputes'[BlockOf(k.journal)].disputedOutputRoot
    BY <1>2 DEF Verdict
  <2>3. disputes'[BlockOf(k.journal)].disputedOutputRoot
          = proposals'[BlockOf(k.journal)].outputRoot
    BY <1>1, <2>1, <2>2 DEF IInv, Bookkeeping, DisputeMatchesOracle
  <2> QED
    BY <2>2, <2>3
<1> QED
  BY <1>2, <1>3

(***************************************************************************)
(* A verdict that RpcProofSubmitter.resolve_dispute got is on the block of *)
(* its journal and stands, against everything anybody calls later.         *)
(***************************************************************************)
THEOREM VerdictsStand == SettleSpec => []VerdictIsOnItsBlock
<1>1. SettleInit => VerdictIsOnItsBlock
  BY DEF SettleInit, VerdictIsOnItsBlock, NoTx
<1>2. SettleInv /\ VerdictIsOnItsBlock /\ [SettleNext]_allVars => VerdictIsOnItsBlock'
  BY VerdictStep
<1> QED
  BY <1>1, <1>2, SettlementInvariance, PTL DEF SettleSpec

=============================================================================
