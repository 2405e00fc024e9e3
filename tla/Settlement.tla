----------------------------- MODULE Settlement -----------------------------
(***************************************************************************)
(* RpcProofSubmitter (crates/contracts/src/rpc_submitter.rs) in front of   *)
(* the two contracts: several operators send proofs of their own at the    *)
(* same time.  send() estimates gas against the current state, which fails *)
(* for a call that would revert, and hands the transaction to the mempool; *)
(* the transaction is executed later, in any order; get_receipt() returns  *)
(* whether it succeeded or reverted, and the caller gets Ok for both.      *)
(* The contract functions are open to everybody: other accounts call them  *)
(* directly, with any journal that verifies and for any dispute.           *)
(***************************************************************************)
EXTENDS DisputeGame

CONSTANTS
  Clients,      \* operators, each in one call of submit_proof or resolve_dispute
  MaxRotations  \* bound on the program identifier updates

ASSUME MaxRotationsAssumption == MaxRotations \in Nat

VARIABLES
  client,       \* what each operator's call is doing
  tx,           \* the transaction of each operator
  rotations     \* history: number of program identifier updates so far

senderVars == <<client, tx, rotations>>
allVars == <<vars, senderVars>>

Call == [kind : {"submit", "resolve"}, journal : Journals, backend : Backends]

NoTx == [status |-> "none"]

SettleInit ==
  /\ Init
  /\ client = [c \in Clients |-> "idle"]
  /\ tx = [c \in Clients |-> NoTx]
  /\ rotations = 0

-----------------------------------------------------------------------------

\* What the call would do now: the guards of the contract functions.
Submittable(call) ==
  LET id == IF call.backend = "SP1" THEN sp1ProgramVKey ELSE risc0ImageId IN
  /\ call.journal.length = 192
  /\ <<call.backend, id, call.journal>> \in Accepts
  /\ ~ isBlockProven(BlockOf(call.journal))

Resolvable(call) ==
  /\ isDisputed(BlockOf(call.journal))
  /\ call.journal.length = 192
  /\ VerifiesForGame(call.journal, call.backend)

Estimates(call) ==
  \/ call.kind = "submit" /\ Submittable(call)
  \/ call.kind = "resolve" /\ Resolvable(call)

\* A mutation of Execute: the dispute to resolve is not the journal's block.
ExecuteElsewhere(call) ==
  \/ call.kind = "submit" /\ call.backend = "SP1" /\ submitSp1Proof(call.journal)
       /\ UNCHANGED gameVars
  \/ call.kind = "submit" /\ call.backend = "RiscZero" /\ submitRisc0Proof(call.journal)
       /\ UNCHANGED gameVars
  \/ call.kind = "resolve"
       /\ \E b \in BlockNumbers : resolve(b, call.journal, call.backend)

\* The contract call the client encodes; a dispute is named by the journal's block.
Execute(call) ==
  \/ call.kind = "submit" /\ call.backend = "SP1" /\ submitSp1Proof(call.journal)
       /\ UNCHANGED gameVars
  \/ call.kind = "submit" /\ call.backend = "RiscZero" /\ submitRisc0Proof(call.journal)
       /\ UNCHANGED gameVars
  \/ call.kind = "resolve" /\ resolve(BlockOf(call.journal), call.journal, call.backend)

Pending(call) == [status |-> "pending", call |-> call, rotations |-> rotations]

\* A mutation of Send: the transaction is sent without estimating it first.
SendsBlindly(c, call) ==
  /\ client[c] = "idle"
  /\ tx' = [tx EXCEPT ![c] = Pending(call)]
  /\ client' = [client EXCEPT ![c] = "waiting"]
  /\ UNCHANGED <<vars, rotations>>

\* send(): the estimate succeeds and the transaction enters the mempool.
Send(c, call) ==
  /\ client[c] = "idle" /\ Estimates(call)
  /\ tx' = [tx EXCEPT ![c] = Pending(call)]
  /\ client' = [client EXCEPT ![c] = "waiting"]
  /\ UNCHANGED <<vars, rotations>>

\* No address, an unsupported backend, or an estimate that fails.
Refuse(c) ==
  /\ client[c] = "idle"
  /\ client' = [client EXCEPT ![c] = "error"]
  /\ UNCHANGED <<vars, tx, rotations>>

Mine(c) ==
  /\ tx[c].status = "pending"
  /\ Execute(tx[c].call)
  /\ tx' = [tx EXCEPT ![c].status = "success"]
  /\ UNCHANGED <<client, rotations>>

Revert(c) ==
  /\ tx[c].status = "pending"
  /\ ~ Estimates(tx[c].call)
  /\ tx' = [tx EXCEPT ![c].status = "reverted"]
  /\ UNCHANGED <<vars, client, rotations>>

\* get_receipt() returns; the status in the receipt is not looked at.
Receipt(c) ==
  /\ client[c] = "waiting" /\ tx[c].status \in {"success", "reverted"}
  /\ client' = [client EXCEPT ![c] = "ok"]
  /\ UNCHANGED <<vars, tx, rotations>>

\* send()'s answer or the receipt is lost: an error, with the transaction
\* still in the mempool or already executed.
ReceiptError(c) ==
  /\ client[c] = "waiting"
  /\ client' = [client EXCEPT ![c] = "error"]
  /\ UNCHANGED <<vars, tx, rotations>>

-----------------------------------------------------------------------------
(* Everybody else: the owner, challengers, and accounts that call the       *)
(* contracts without the client.                                            *)

Rotate ==
  /\ rotations < MaxRotations
  /\ rotations' = rotations + 1
  /\ \/ /\ \E s \in Senders, k \in ProgramIds : setSp1ProgramVKey(s, k) \/ setRisc0ImageId(s, k)
        /\ UNCHANGED gameVars
     \/ \E s \in Senders, k \in ProgramIds : gameSetSp1ProgramVKey(s, k) \/ gameSetRisc0ImageId(s, k)
  /\ UNCHANGED <<client, tx>>

Others ==
  /\ \/ \E s \in Senders, b \in BlockNumbers : challenge(s, b)
     \/ \E b \in BlockNumbers, j \in Journals, k \in Backends : resolve(b, j, k)
     \/ \E j \in Journals : (submitSp1Proof(j) \/ submitRisc0Proof(j)) /\ UNCHANGED gameVars
     \/ AdvanceTime /\ UNCHANGED gameVars
  /\ UNCHANGED senderVars

SettleNext ==
  \/ \E c \in Clients, call \in Call : Send(c, call)
  \/ \E c \in Clients : Refuse(c) \/ Mine(c) \/ Revert(c) \/ Receipt(c) \/ ReceiptError(c)
  \/ Rotate \/ Others

SettleSpec == SettleInit /\ [][SettleNext]_allVars

-----------------------------------------------------------------------------

(***************************************************************************)
(* Ok means settled although the receipt's status is ignored: when         *)
(* submit_proof returned a hash the block is proven, and when              *)
(* resolve_dispute did the dispute is resolved, by this transaction or by  *)
(* anybody's that overtook it and made it revert.  Two things are          *)
(* excepted: a program identifier that changed since the transaction was   *)
(* sent, and a journal whose post root is zero.                            *)
(***************************************************************************)
Settled(call) ==
  \/ call.kind = "submit" /\ isBlockProven(BlockOf(call.journal))
  \/ call.kind = "resolve" /\ disputes[BlockOf(call.journal)].resolved

OkMeansSettled ==
  \A c \in Clients :
    client[c] = "ok" /\ tx[c].rotations = rotations
      /\ tx[c].call.journal.l2_post_root # ZeroRoot
    => Settled(tx[c].call)

(***************************************************************************)
(* A verdict given through the client is on the journal's own block and    *)
(* stands: once a transaction of resolve_dispute succeeded, the dispute of *)
(* that block is resolved, and its output is called valid exactly when the *)
(* root the oracle holds for the block is the one the journal attests,     *)
(* whatever is proven, challenged, resolved or updated afterwards.  The    *)
(* contract does not compare the journal's block with the disputed one: it *)
(* rests on resolve_dispute, which takes the number from the journal, and  *)
(* says nothing of disputes that others resolve by a direct call, which    *)
(* may bring a valid journal of another block.                             *)
(***************************************************************************)
VerdictIsOnItsBlock ==
  \A c \in Clients :
    tx[c].status = "success" /\ tx[c].call.kind = "resolve" =>
      LET j == tx[c].call.journal
          b == BlockOf(j)
      IN  /\ disputes[b].resolved
          /\ disputes[b].valid <=> j.l2_post_root = proposals[b].outputRoot

\* What a transaction's fate says about the contracts.
TxFate ==
  \A c \in Clients :
    /\ tx[c].status # "none" => tx[c].rotations <= rotations
    /\ client[c] = "idle" => tx[c].status = "none"
    /\ client[c] \in {"waiting", "ok"} => tx[c].status # "none"
    /\ client[c] = "ok" => tx[c].status \in {"success", "reverted"}
    /\ tx[c].status # "none" /\ tx[c].rotations = rotations
         /\ tx[c].call.journal.l2_post_root # ZeroRoot
       => \/ Settled(tx[c].call)
          \/ tx[c].status = "pending" /\ Estimates(tx[c].call)

SettleTypeOK ==
  /\ client \in [Clients -> {"idle", "waiting", "ok", "error"}]
  /\ tx \in [Clients -> {NoTx} \union
               [status : {"pending", "success", "reverted"}, call : Call, rotations : Nat]]
  /\ rotations \in Nat

SettleInv == IInv /\ SettleTypeOK /\ TxFate

=============================================================================
