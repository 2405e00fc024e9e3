----------------------------- MODULE Aggregation -----------------------------
(***************************************************************************)
(* The aggregation guest, guests/aggregation/src/main.rs: it reads range   *)
(* proofs from the host, checks them inside the zkVM, checks that their    *)
(* journals follow one another and commits one journal for all of them.    *)
(* The host chooses the inputs, so they are arbitrary here, and so is the  *)
(* key of the program the inner proofs are verified against: it is read    *)
(* like the proofs, compared with nothing and not committed.  A failed     *)
(* assertion panics and no proof exists.  The journal's program_id, which  *)
(* every range guest leaves zero, is left out.                             *)
(***************************************************************************)
EXTENDS Naturals, Sequences

CONSTANTS
  L1Heads, Roots, Blocks, ConfigHashes,   \* fields of a StateTransitionJournal
  Inputs,       \* byte strings the host may feed as inner journals
  VKeys,        \* program verification keys the host may name
  NoVKey,       \* range_program_vkey before it is read
  RangeVKeys,   \* the keys of range programs
  Proved,       \* <<key, input>>: a proof of that input by that program exists
  Decodes,      \* those from_abi_bytes accepts
  Derives,      \* <<config, l1 head, pre root, post root, block>>: what a range
                \* proof attests; transitive along the roots.  When no block is
                \* derived the two roots are equal, and the block is the claim's
  MaxProofs     \* bound on the number of proofs the host announces

Journal == [l1_head : L1Heads, l2_pre_root : Roots, l2_post_root : Roots,
            l2_block_number : Blocks, rollup_config_hash : ConfigHashes]

Attests(j) == <<j.rollup_config_hash, j.l1_head, j.l2_pre_root, j.l2_post_root,
                j.l2_block_number>>

ASSUME MaxProofsAssumption == MaxProofs \in Nat
ASSUME InputsAssumption == Inputs \subseteq Journal
\* A range program is sound; nothing is assumed of other programs.
ASSUME ProvedAssumption ==
  \A k \in RangeVKeys, j \in Inputs : <<k, j>> \in Proved => Attests(j) \in Derives
\* Two state transitions under one configuration and one L1 head compose.
ASSUME DerivesAssumption ==
  \A c \in ConfigHashes, h \in L1Heads, r, s, t \in Roots, m, n \in Blocks :
    <<c, h, r, s, m>> \in Derives /\ <<c, h, s, t, n>> \in Derives
      => <<c, h, r, t, n>> \in Derives

VARIABLES
  pc,           \* where main() is
  num_proofs,
  range_program_vkey,
  journals,     \* the decoded inner journals
  w,            \* the next window of two journals to compare
  committed     \* the journal given to commit_slice, as a sequence of at most one

host == <<num_proofs, range_program_vkey>>
vars == <<pc, host, journals, w, committed>>

Init ==
  /\ pc = "start" /\ num_proofs = 0 /\ range_program_vkey = NoVKey
  /\ journals = <<>> /\ w = 1
  /\ committed = <<>>

ReadCount(n, vkey) ==
  /\ pc = "start"
  /\ num_proofs' = n
  /\ range_program_vkey' = vkey
  /\ pc' = "read"
  /\ UNCHANGED <<journals, w, committed>>

\* One turn of the read loop: verify_inner_proof, then from_abi_bytes.
ReadProof(j) ==
  /\ pc = "read" /\ Len(journals) < num_proofs
  /\ IF <<range_program_vkey, j>> \in Proved /\ j \in Decodes
     THEN journals' = Append(journals, j) /\ UNCHANGED pc
     ELSE pc' = "panic" /\ UNCHANGED journals
  /\ UNCHANGED <<host, w, committed>>

\* assert!(!journals.is_empty())
ReadDone ==
  /\ pc = "read" /\ Len(journals) = num_proofs
  /\ pc' = IF journals = <<>> THEN "panic" ELSE "windows"
  /\ UNCHANGED <<host, journals, w, committed>>

\* Mutations of Continuous: one of the two assertions is missing.
ContinuousRootsOnly(a, b) == a.l2_post_root = b.l2_pre_root
ContinuousConfigOnly(a, b) == a.rollup_config_hash = b.rollup_config_hash

Continuous(a, b) ==
  /\ a.l2_post_root = b.l2_pre_root
  /\ a.rollup_config_hash = b.rollup_config_hash

\* One turn of the loop over journals.windows(2).
CheckWindow ==
  /\ pc = "windows" /\ w < Len(journals)
  /\ IF Continuous(journals[w], journals[w + 1])
     THEN w' = w + 1 /\ UNCHANGED pc
     ELSE pc' = "panic" /\ UNCHANGED w
  /\ UNCHANGED <<host, journals, committed>>

\* A mutation of Aggregated: the block number of the first range.
AggregatedFirstBlock(first, last) == [first EXCEPT !.l2_post_root = last.l2_post_root]

Aggregated(first, last) ==
  [l1_head |-> first.l1_head,
   l2_pre_root |-> first.l2_pre_root,
   l2_post_root |-> last.l2_post_root,
   l2_block_number |-> last.l2_block_number,
   rollup_config_hash |-> first.rollup_config_hash]

Commit ==
  /\ pc = "windows" /\ ~ (w < Len(journals))
  /\ committed' = <<Aggregated(journals[1], journals[Len(journals)])>>
  /\ pc' = "committed"
  /\ UNCHANGED <<host, journals, w>>

Next ==
  \/ \E n \in 0 .. MaxProofs, vkey \in VKeys : ReadCount(n, vkey)
  \/ \E j \in Inputs : ReadProof(j)
  \/ ReadDone \/ CheckWindow \/ Commit

Spec == Init /\ [][Next]_vars

-----------------------------------------------------------------------------

TypeOK ==
  /\ pc \in {"start", "read", "windows", "committed", "panic"}
  /\ num_proofs \in Nat
  /\ range_program_vkey \in VKeys \union {NoVKey}
  /\ journals \in Seq(Inputs)
  /\ w \in Nat \ {0}
  /\ committed \in Seq(Journal)

OneL1Head == \A i \in 1 .. Len(journals) : journals[i].l1_head = journals[1].l1_head

(***************************************************************************)
(* If the host named a range program, the journal the aggregation program  *)
(* commits attests a derivation, as if that program had proved the whole   *)
(* span: from the first pre root to the last post root, at the last block, *)
(* under the one configuration and the one L1 head of the batch.  The      *)
(* guest compares roots and configurations of neighbours only.  The two    *)
(* hypotheses are what it leaves to others: that the L1 heads agree, which *)
(* the engine's plan provides (Engine!PlanTiles), and which program was    *)
(* verified, which a reader of the committed journal cannot tell.          *)
(***************************************************************************)
AggregateIsSound ==
  pc = "committed" /\ OneL1Head /\ range_program_vkey \in RangeVKeys
    => Attests(committed[1]) \in Derives

(***************************************************************************)
(* Whatever program the host named, what the guest commits covers every    *)
(* inner journal: each of them, not only the neighbours compared, was      *)
(* proved by that one program and is under the committed configuration,    *)
(* and each one's post root is where its successor starts.                 *)
(***************************************************************************)
AggregateCoversAll ==
  pc = "committed" =>
    /\ Len(committed) = 1
    /\ \A i \in 1 .. Len(journals) :
         /\ <<range_program_vkey, journals[i]>> \in Proved
         /\ journals[i].rollup_config_hash = committed[1].rollup_config_hash
    /\ \A i \in 1 .. Len(journals) - 1 :
         journals[i].l2_post_root = journals[i + 1].l2_pre_root

\* The loop invariant: the journals are proved, and those up to w chain and compose.
Composed ==
  /\ pc \in {"read", "windows", "committed"} =>
       \A i \in 1 .. Len(journals) : <<range_program_vkey, journals[i]>> \in Proved
  /\ pc = "start" => journals = <<>>
  /\ pc \in {"start", "read"} => w = 1
  /\ pc \in {"windows", "committed"} =>
       /\ 1 <= w /\ w <= Len(journals)
       /\ \A i \in 1 .. w : journals[i].rollup_config_hash = journals[1].rollup_config_hash
       /\ \A i \in 1 .. w - 1 : journals[i].l2_post_root = journals[i + 1].l2_pre_root
       /\ OneL1Head /\ range_program_vkey \in RangeVKeys =>
            Attests(Aggregated(journals[1], journals[w])) \in Derives

CommittedIsAggregate ==
  pc = "committed" =>
    /\ w = Len(journals)
    /\ committed = <<Aggregated(journals[1], journals[Len(journals)])>>

IInv == TypeOK /\ Composed /\ CommittedIsAggregate

=============================================================================
