---------------------------- MODULE RangeProving ----------------------------
(***************************************************************************)
(* From a proof request to a range journal: the CLI's witness helper       *)
(* (crates/cli/src/commands/witness_helper.rs) or the engine fills in a    *)
(* ProofRequest, RpcWitnessProvider (crates/host/src/witness/rpc.rs) reads *)
(* the nodes and collects a witness, and the range guest                   *)
(* (crates/guest/src/pipeline.rs) derives the blocks and commits a journal.*)
(*                                                                         *)
(* The nodes are read in separate calls and their chains may reorganise    *)
(* between any two of them.  A root stands for the block it commits to:    *)
(* two blocks of different forks have different roots.                     *)
(***************************************************************************)
EXTENDS Naturals, Sequences

CONSTANTS
  L1Heads,      \* L1 block hashes
  ZeroHash,     \* B256::ZERO as an L1 hash
  Roots,        \* L2 output roots
  ZeroRoot,     \* B256::ZERO, which no output hashes to
  NumberOf,     \* the number of the block a root commits to
  HeaderRoot,   \* the root fetch_output_root computes from a block's header
  Views,        \* what the nodes may answer: L1 head, L2 root by block number
  Derives,      \* <<l1 head, r, s>>: s is derived on top of r from L1 up to l1 head
  Plan          \* the block ranges to prove, as plan_range or an operator asks

ASSUME RootsAssumption ==
  /\ ZeroRoot \in Roots /\ ZeroHash \in L1Heads
  /\ NumberOf \in [Roots -> Nat]
  /\ HeaderRoot \in [Roots -> Roots]
\* The node answers a number with a block of that number.
ASSUME ViewsAssumption ==
  \A v \in Views :
    /\ v.l1 \in L1Heads
    /\ \A n \in DOMAIN v.l2 : v.l2[n] \in Roots \ {ZeroRoot} /\ NumberOf[v.l2[n]] = n
ASSUME PlanAssumption ==
  Plan \in Seq([l2_start_block : Nat, l2_end_block : Nat])
\* A header root is the block's root, or the root of no block at all.
ASSUME HeaderRootAssumption ==
  \A r \in Roots : HeaderRoot[r] = r \/ \A v \in Views : \A n \in DOMAIN v.l2 : HeaderRoot[r] # v.l2[n]

VARIABLES
  view,         \* what the nodes answer now
  pc,           \* where the current job is
  job,          \* its place in Plan
  request,      \* the ProofRequest: l1_head and l2_start_output_root
  agreed_head,  \* the block read as agreed_l2_head_hash
  claimed,      \* claimed_l2_output_root
  witness,      \* what the guest is given: boot info, and known output preimages
  proofs        \* the journals committed so far, by place in Plan

vars == <<view, pc, job, request, agreed_head, claimed, witness, proofs>>

NoJournal == [l1_head |-> "none"]

Jobs == 1 .. Len(Plan)
\* A mutation of Start: the wrong end of the range.
StartSwapped == Plan[job].l2_end_block
Start == Plan[job].l2_start_block
End == Plan[job].l2_end_block

Request(h) == [l1_head |-> h, l2_start_output_root |-> ZeroRoot]

NoWitness == [l1_head |-> ZeroHash, agreed |-> ZeroRoot, claimed |-> ZeroRoot,
              number |-> 0, outputs |-> {}]

Init ==
  /\ view \in Views
  /\ pc = "idle" /\ job = 1
  /\ request = Request(ZeroHash)
  /\ agreed_head = ZeroRoot /\ claimed = ZeroRoot
  /\ witness = NoWitness
  /\ proofs = [i \in Jobs |-> NoJournal]

-----------------------------------------------------------------------------
(* The request.                                                             *)

\* witness_helper::generate_witness reads the latest L1 block ...
ReadL1Head(i) ==
  /\ pc = "idle" /\ proofs[i] = NoJournal
  /\ job' = i
  /\ request' = Request(view.l1)
  /\ pc' = "start_root"
  /\ UNCHANGED <<view, agreed_head, claimed, witness, proofs>>

\* ... and the output root at the start block.
ReadStartRoot ==
  /\ pc = "start_root" /\ Start \in DOMAIN view.l2
  /\ request' = [request EXCEPT !.l2_start_output_root = view.l2[Start]]
  /\ pc' = "start_block"
  /\ UNCHANGED <<view, job, agreed_head, claimed, witness, proofs>>

\* plan_range leaves the root zero.
PlannedRequest(i) ==
  /\ pc = "idle" /\ proofs[i] = NoJournal
  /\ job' = i
  /\ request' = Request(view.l1)
  /\ pc' = "start_block"
  /\ UNCHANGED <<view, agreed_head, claimed, witness, proofs>>

-----------------------------------------------------------------------------
(* RpcWitnessProvider::generate_witness.                                    *)

ReadStartBlock ==
  /\ pc = "start_block" /\ Start \in DOMAIN view.l2
  /\ agreed_head' = view.l2[Start]
  /\ pc' = "claim"
  /\ UNCHANGED <<view, job, request, claimed, witness, proofs>>

\* optimism_outputAtBlock of the OP node or of the L2 node, else the header.
FetchOutputRoot ==
  /\ pc = "claim" /\ End \in DOMAIN view.l2
  /\ claimed' \in {view.l2[End], HeaderRoot[view.l2[End]]}
  /\ pc' = "collect"
  /\ UNCHANGED <<view, job, request, agreed_head, witness, proofs>>

\* build_host_config and the local keys; the output preimage that the kona
\* host serves for the agreed root is that of the agreed head.
HostBoot ==
  [l1_head |-> request.l1_head, agreed |-> request.l2_start_output_root,
   claimed |-> claimed, number |-> End, outputs |-> {agreed_head}]

\* The kona client returned Ok: the store is snapshot and serialized.
CollectWitness ==
  /\ pc = "collect"
  /\ witness' = HostBoot
  /\ pc' = "guest"
  /\ UNCHANGED <<view, job, request, agreed_head, claimed, proofs>>

-----------------------------------------------------------------------------
(* The range guest, run_pipeline.                                           *)

\* fetch_safe_head_hash finds the preimage, and the safe head is not too new.
SafeHeadFound == witness.agreed \in witness.outputs /\ NumberOf[witness.agreed] <= witness.number

Journal(post) ==
  [l1_head |-> witness.l1_head, l2_pre_root |-> witness.agreed, l2_post_root |-> post,
   l2_block_number |-> witness.number, rollup_config_hash |-> ZeroRoot]

TraceExtension == witness.agreed = witness.claimed

\* advance_to_target: L1 up to l1_head must hold the data of the target block.
Advance(post) ==
  /\ <<witness.l1_head, witness.agreed, post>> \in Derives
  /\ NumberOf[post] = witness.number

\* The command ends, its locals with it.
JobEnds ==
  /\ pc' = "idle" /\ job' = 1
  /\ request' = Request(ZeroHash)
  /\ agreed_head' = ZeroRoot /\ claimed' = ZeroRoot
  /\ witness' = NoWitness

Committed(journal) ==
  /\ proofs' = [proofs EXCEPT ![job] = journal]
  /\ JobEnds
  /\ UNCHANGED view

\* A mutation of GuestDerives: the claim is committed without comparing it.
CommitsClaim ==
  /\ pc = "guest" /\ SafeHeadFound /\ ~ TraceExtension
  /\ \E post \in Roots : Advance(post)
  /\ Committed(Journal(witness.claimed))

GuestDerives ==
  /\ pc = "guest" /\ SafeHeadFound /\ ~ TraceExtension
  /\ \E post \in Roots :
       /\ Advance(post)
       /\ post = witness.claimed                  \* output root mismatch
       /\ Committed(Journal(post))

GuestExtendsTrace ==
  /\ pc = "guest" /\ SafeHeadFound /\ TraceExtension
  /\ Committed(Journal(witness.claimed))

\* An RPC, the client or the guest failed: the command reports and ends.
Fail ==
  /\ pc # "idle"
  /\ JobEnds
  /\ UNCHANGED <<view, proofs>>

-----------------------------------------------------------------------------

\* L1 and L2 grow or reorganise.
ChainMoves(v) ==
  /\ view' = v
  /\ UNCHANGED <<pc, job, request, agreed_head, claimed, witness, proofs>>

Next ==
  \/ \E i \in Jobs : ReadL1Head(i) \/ PlannedRequest(i)
  \/ ReadStartRoot \/ ReadStartBlock \/ FetchOutputRoot \/ CollectWitness
  \/ GuestDerives \/ GuestExtendsTrace \/ Fail
  \/ \E v \in Views : ChainMoves(v)

Spec == Init /\ [][Next]_vars

-----------------------------------------------------------------------------

Proved(i) == proofs[i] # NoJournal

TypeOK ==
  /\ view \in Views
  /\ pc \in {"idle", "start_root", "start_block", "claim", "collect", "guest"}
  /\ job \in Nat
  /\ request \in [l1_head : L1Heads, l2_start_output_root : Roots]
  /\ agreed_head \in Roots /\ claimed \in Roots
  /\ witness \in [l1_head : L1Heads, agreed : Roots, claimed : Roots, number : Nat,
                  outputs : SUBSET Roots]
  /\ DOMAIN proofs = Jobs
  /\ pc # "idle" => job \in Jobs

(***************************************************************************)
(* A committed journal is true, however the nodes' chains reorganised      *)
(* between the four reads behind it: its post root is the output of the    *)
(* block it names, and was derived from L1 up to its l1_head on top of its *)
(* pre root, or is the pre root itself (the trace extension).              *)
(***************************************************************************)
JournalIsTrue ==
  \A i \in Jobs : Proved(i) =>
    LET j == proofs[i] IN
    /\ NumberOf[j.l2_post_root] = j.l2_block_number
    /\ \/ <<j.l1_head, j.l2_pre_root, j.l2_post_root>> \in Derives
       \/ j.l2_pre_root = j.l2_post_root

(***************************************************************************)
(* A journal answers the range that was asked for: it starts from a block  *)
(* at the request's start and ends at its end, although the root and the   *)
(* block hash it starts from were read in different calls; and a request   *)
(* whose start root was left zero never yields one.                        *)
(***************************************************************************)
JournalAnswersRequest ==
  \A i \in Jobs : Proved(i) =>
    /\ proofs[i].l2_pre_root # ZeroRoot
    /\ NumberOf[proofs[i].l2_pre_root] = Plan[i].l2_start_block
    /\ proofs[i].l2_block_number = Plan[i].l2_end_block

\* What the reads have established on the way to the guest.
ReadsFit ==
  /\ pc \in {"claim", "collect"} =>
       \E v \in Views : Start \in DOMAIN v.l2 /\ agreed_head = v.l2[Start]
  /\ pc = "collect" =>
       \E v \in Views : End \in DOMAIN v.l2 /\ claimed \in {v.l2[End], HeaderRoot[v.l2[End]]}
  /\ pc = "guest" =>
       /\ witness.number = End
       /\ \A r \in witness.outputs :
            /\ r # ZeroRoot /\ NumberOf[r] = Start
            /\ r = witness.claimed => NumberOf[r] = End

IInv == TypeOK /\ ReadsFit /\ JournalIsTrue /\ JournalAnswersRequest

(***************************************************************************)
(* The aggregation guest expects of neighbouring ranges that "each range's *)
(* post_root must equal the next range's pre_root"; so the proofs of a     *)
(* plan made of adjacent ranges, once all exist, aggregate.                *)
(***************************************************************************)
PlanAggregates ==
  (\A i \in Jobs : Proved(i)) =>
    \A i \in 1 .. Len(Plan) - 1 :
      proofs[i].l2_post_root = proofs[i + 1].l2_pre_root

=============================================================================
