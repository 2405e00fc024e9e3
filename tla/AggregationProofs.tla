-------------------------- MODULE AggregationProofs --------------------------
(***************************************************************************)
(* Proofs about the aggregation guest, for any number of proofs.           *)
(***************************************************************************)
EXTENDS Aggregation, TLAPS

LEMMA InitInv == Init => IInv
  BY DEF Init, IInv, TypeOK, Composed, CommittedIsAggregate

LEMMA ReadProofInv ==
  ASSUME IInv, NEW j \in Inputs, ReadProof(j)
  PROVE  IInv'
  <1> USE DEF IInv
  <1>1. CASE <<range_program_vkey, j>> \in Proved /\ j \in Decodes
    <2>1. /\ pc = "read" /\ journals' = Append(journals, j)
          /\ UNCHANGED <<pc, num_proofs, range_program_vkey, w, committed>>
      BY <1>1 DEF ReadProof, host
    <2>2. journals \in Seq(Inputs) /\ journals' \in Seq(Inputs)
      BY <2>1 DEF TypeOK
    <2>4. ASSUME NEW i \in 1 .. Len(journals')
          PROVE  <<range_program_vkey', journals'[i]>> \in Proved
      <3>1. CASE i = Len(journals) + 1
        BY <1>1, <2>1, <2>2, <3>1
      <3>2. CASE i \in 1 .. Len(journals)
        <4>1. journals'[i] = journals[i]
          BY <2>1, <2>2, <3>2
        <4> QED
          BY <2>1, <3>2, <4>1 DEF Composed
      <3>3. Len(journals') = Len(journals) + 1 /\ Len(journals) \in Nat
        BY <2>1, <2>2
      <3> QED
        BY <3>1, <3>2, <3>3
    <2>5. Composed'
      <3>1. w' = 1
        BY <2>1 DEF Composed
      <3> QED
        BY <2>1, <2>4, <3>1 DEF Composed
    <2> QED
      BY <2>1, <2>2, <2>5 DEF TypeOK, CommittedIsAggregate
  <1>2. CASE ~ (<<range_program_vkey, j>> \in Proved /\ j \in Decodes)
    BY <1>2 DEF ReadProof, host, TypeOK, Composed, CommittedIsAggregate
  <1> QED
    BY <1>1, <1>2

\* What a range program proved is attested.
LEMMA RangeProofsAttest ==
  ASSUME IInv, pc \in {"read", "windows", "committed"}, range_program_vkey \in RangeVKeys,
         NEW i \in 1 .. Len(journals)
  PROVE  Attests(journals[i]) \in Derives
  <1>1. journals[i] \in Inputs /\ <<range_program_vkey, journals[i]>> \in Proved
    BY DEF IInv, TypeOK, Composed
  <1> QED
    BY <1>1, ProvedAssumption

\* The first journal of a batch attests itself.
LEMMA ReadDoneInv ==
  ASSUME IInv, ReadDone
  PROVE  IInv'
  <1> USE DEF IInv, ReadDone, host
  <1>1. CASE journals = <<>>
    BY <1>1 DEF TypeOK, Composed, CommittedIsAggregate
  <1>2. CASE journals # <<>>
    <2>1. 1 \in 1 .. Len(journals) /\ journals[1] \in Journal
      BY <1>2, InputsAssumption DEF TypeOK
    <2>2. Attests(Aggregated(journals[1], journals[1])) = Attests(journals[1])
      BY DEF Attests, Aggregated
    <2>3. /\ pc = "read" /\ pc' = "windows" /\ w = 1
          /\ UNCHANGED <<num_proofs, range_program_vkey, journals, w, committed>>
      BY <1>2 DEF Composed
    <2>4. \A i \in 1 .. Len(journals) : <<range_program_vkey, journals[i]>> \in Proved
      BY <2>3 DEF Composed
    <2>5. range_program_vkey \in RangeVKeys =>
            Attests(Aggregated(journals[1], journals[1])) \in Derives
      BY <2>1, <2>2, <2>3, RangeProofsAttest
    <2>6. Composed'
      BY <2>1, <2>3, <2>4, <2>5 DEF Composed, OneL1Head, Attests, Aggregated
    <2> QED
      BY <2>3, <2>6 DEF TypeOK, CommittedIsAggregate
  <1> QED
    BY <1>1, <1>2

\* Two neighbours that agree extend what is composed so far by one journal.
LEMMA Extend ==
  ASSUME IInv, pc = "windows", w < Len(journals), OneL1Head, range_program_vkey \in RangeVKeys,
         Continuous(journals[w], journals[w + 1])
  PROVE  Attests(Aggregated(journals[1], journals[w + 1])) \in Derives
  <1> DEFINE a == journals[1]
             b == journals[w]
             c == journals[w + 1]
  <1>1. 1 \in 1 .. Len(journals) /\ w \in 1 .. Len(journals) /\ w + 1 \in 1 .. Len(journals)
    BY DEF IInv, TypeOK
  <1>2. a \in Journal /\ b \in Journal /\ c \in Journal
    BY <1>1, InputsAssumption DEF IInv, TypeOK
  <1>3. Attests(Aggregated(a, b)) \in Derives /\ Attests(c) \in Derives
    BY <1>1, RangeProofsAttest DEF IInv, Composed
  <1>4. /\ b.rollup_config_hash = a.rollup_config_hash
        /\ c.rollup_config_hash = b.rollup_config_hash
        /\ c.l2_pre_root = b.l2_post_root
        /\ c.l1_head = a.l1_head
    BY <1>1 DEF IInv, TypeOK, Composed, Continuous, OneL1Head
  <1> HIDE DEF a, b, c
  <1>5. /\ <<a.rollup_config_hash, a.l1_head, a.l2_pre_root, b.l2_post_root,
             b.l2_block_number>> \in Derives
        /\ <<a.rollup_config_hash, a.l1_head, b.l2_post_root, c.l2_post_root,
             c.l2_block_number>> \in Derives
    BY <1>3, <1>4 DEF Attests, Aggregated
  <1>6. <<a.rollup_config_hash, a.l1_head, a.l2_pre_root, c.l2_post_root,
          c.l2_block_number>> \in Derives
    BY <1>2, <1>5, DerivesAssumption DEF Journal
  <1>7. Attests(Aggregated(a, c)) \in Derives
    BY <1>6 DEF Attests, Aggregated
  <1> QED
    BY <1>7 DEF a, c

LEMMA CheckWindowInv ==
  ASSUME IInv, CheckWindow
  PROVE  IInv'
  <1>1. CASE Continuous(journals[w], journals[w + 1])
    <2>1. /\ pc = "windows" /\ w < Len(journals) /\ w' = w + 1
          /\ UNCHANGED <<pc, num_proofs, range_program_vkey, journals, committed>>
      BY <1>1 DEF CheckWindow, host
    <2>2. w \in Nat \ {0} /\ Len(journals) \in Nat
      BY DEF IInv, TypeOK
    <2>3. OneL1Head /\ range_program_vkey \in RangeVKeys =>
            Attests(Aggregated(journals[1], journals[w + 1])) \in Derives
      BY <1>1, <2>1, Extend
    <2>4. /\ journals[w].rollup_config_hash = journals[w + 1].rollup_config_hash
          /\ journals[w].l2_post_root = journals[w + 1].l2_pre_root
      BY <1>1 DEF Continuous
    <2>5. /\ \A i \in 1 .. w : journals[i].rollup_config_hash = journals[1].rollup_config_hash
          /\ \A i \in 1 .. w - 1 : journals[i].l2_post_root = journals[i + 1].l2_pre_root
          /\ \A i \in 1 .. Len(journals) : <<range_program_vkey, journals[i]>> \in Proved
      BY <2>1 DEF IInv, Composed
    <2>6. \A i \in 1 .. w + 1 : journals[i].rollup_config_hash = journals[1].rollup_config_hash
      <3> SUFFICES ASSUME NEW i \in 1 .. w + 1
                   PROVE  journals[i].rollup_config_hash = journals[1].rollup_config_hash
        OBVIOUS
      <3>1. i \in 1 .. w \/ i = w + 1
        BY <2>2
      <3>2. w \in 1 .. w
        BY <2>2
      <3> QED
        BY <2>4, <2>5, <3>1, <3>2
    <2>7. \A i \in 1 .. w : journals[i].l2_post_root = journals[i + 1].l2_pre_root
      <3> SUFFICES ASSUME NEW i \in 1 .. w
                   PROVE  journals[i].l2_post_root = journals[i + 1].l2_pre_root
        OBVIOUS
      <3>1. i \in 1 .. w - 1 \/ i = w
        BY <2>2
      <3> QED
        BY <2>4, <2>5, <3>1
    <2>8. 1 <= w' /\ w' <= Len(journals') /\ w' - 1 = w
      BY <2>1, <2>2
    <2>10. /\ \A i \in 1 .. w' : journals'[i].rollup_config_hash = journals'[1].rollup_config_hash
           /\ \A i \in 1 .. w' - 1 : journals'[i].l2_post_root = journals'[i + 1].l2_pre_root
      BY <2>1, <2>6, <2>7, <2>8
    <2>11. (OneL1Head /\ range_program_vkey \in RangeVKeys =>
              Attests(Aggregated(journals[1], journals[w])) \in Derives)'
      BY <2>1, <2>3 DEF OneL1Head, Attests, Aggregated
    <2>12. (\A i \in 1 .. Len(journals) : <<range_program_vkey, journals[i]>> \in Proved)'
      BY <2>1, <2>5
    <2>9. Composed'
      BY <2>1, <2>8, <2>10, <2>11, <2>12 DEF Composed
    <2> QED
      BY <2>1, <2>2, <2>9 DEF IInv, TypeOK, CommittedIsAggregate
  <1>2. CASE ~ Continuous(journals[w], journals[w + 1])
    BY <1>2 DEF CheckWindow, host, IInv, TypeOK, Composed, CommittedIsAggregate
  <1> QED
    BY <1>1, <1>2

LEMMA CommitInv ==
  ASSUME IInv, Commit
  PROVE  IInv'
  <1>1. /\ pc = "windows" /\ pc' = "committed" /\ UNCHANGED <<num_proofs, range_program_vkey, journals, w>>
        /\ committed' = <<Aggregated(journals[1], journals[Len(journals)])>>
    BY DEF Commit, host
  <1>2. w = Len(journals) /\ w \in 1 .. Len(journals) /\ 1 \in 1 .. Len(journals)
    BY DEF Commit, host, IInv, TypeOK, Composed
  <1>3. Aggregated(journals[1], journals[Len(journals)]) \in Journal
    BY <1>2, InputsAssumption DEF IInv, TypeOK, Journal, Aggregated
  <1>4. TypeOK'
    BY <1>1, <1>3 DEF IInv, TypeOK
  <1>5. Composed'
    BY <1>1 DEF IInv, Composed, OneL1Head, Attests, Aggregated
  <1>6. CommittedIsAggregate'
    BY <1>1, <1>2 DEF CommittedIsAggregate, Aggregated
  <1> QED
    BY <1>4, <1>5, <1>6 DEF IInv

(***************************************************************************)
(* The loop invariant holds throughout.                                    *)
(***************************************************************************)
THEOREM Invariance == Spec => []IInv
  <1>1. IInv /\ [Next]_vars => IInv'
    <2> SUFFICES ASSUME IInv, [Next]_vars PROVE IInv'
      OBVIOUS
    <2>1. ASSUME NEW n \in 0 .. MaxProofs, NEW k \in VKeys, ReadCount(n, k) PROVE IInv'
      BY <2>1, MaxProofsAssumption DEF ReadCount, IInv, TypeOK, Composed, CommittedIsAggregate
    <2>2. CASE UNCHANGED vars
      BY <2>2 DEF vars, host, IInv, TypeOK, Composed, CommittedIsAggregate, OneL1Head, Attests, Aggregated
    <2> QED
      BY <2>1, <2>2, ReadProofInv, ReadDoneInv, CheckWindowInv, CommitInv DEF Next
  <1> QED
    BY <1>1, InitInv, PTL DEF Spec

(***************************************************************************)
(* An aggregated journal over one L1 head, of inner proofs by a range      *)
(* program, attests a derivation, for every number of them.                *)
(***************************************************************************)
THEOREM AggregationSoundness == Spec => []AggregateIsSound
  <1>1. IInv => AggregateIsSound
    BY DEF IInv, Composed, CommittedIsAggregate, AggregateIsSound
  <1> QED
    BY <1>1, Invariance, PTL

(***************************************************************************)
(* And it leaves no inner journal out, by whatever program it was proved.  *)
(***************************************************************************)
THEOREM AggregationCoverage == Spec => []AggregateCoversAll
  <1>1. IInv => AggregateCoversAll
    BY DEF IInv, TypeOK, Composed, CommittedIsAggregate, AggregateCoversAll, Aggregated
  <1> QED
    BY <1>1, Invariance, PTL

-----------------------------------------------------------------------------
(* The guest's verdict on a batch.                                          *)

\* All proofs the host announced were accepted, there is one, and they follow one another.
GoodBatch ==
  /\ Len(journals) = num_proofs /\ journals # <<>>
  /\ \A i \in 1 .. Len(journals) - 1 : Continuous(journals[i], journals[i + 1])

(***************************************************************************)
(* main() commits exactly the good batches: it never commits to fewer      *)
(* proofs than were announced nor past a gap it did not compare, and it    *)
(* panics on no batch whose proofs are valid, not none and continuous.     *)
(***************************************************************************)
VerdictIsExact ==
  /\ pc = "committed" => GoodBatch
  /\ pc = "panic" => ~ GoodBatch

\* What is read is part of what was announced, and all of it is compared.
ReadsAll ==
  /\ pc = "start" => num_proofs = 0
  /\ pc \in {"start", "read"} => Len(journals) <= num_proofs
  /\ pc \in {"windows", "committed"} => Len(journals) = num_proofs /\ journals # <<>>

LEMMA ComparedAreContinuous ==
  ASSUME IInv, pc = "windows", ReadsAll, ~ (w < Len(journals))
  PROVE  GoodBatch
  <1>1. /\ w = Len(journals) /\ w \in Nat /\ w >= 1
        /\ \A i \in 1 .. w : journals[i].rollup_config_hash = journals[1].rollup_config_hash
        /\ \A i \in 1 .. w - 1 : journals[i].l2_post_root = journals[i + 1].l2_pre_root
    BY DEF IInv, TypeOK, Composed
  <1>2. ASSUME NEW i \in 1 .. w - 1
        PROVE  Continuous(journals[i], journals[i + 1])
    <2>1. i \in 1 .. w /\ i + 1 \in 1 .. w
      BY <1>1
    <2> QED
      BY <1>1, <2>1 DEF Continuous
  <1> QED
    BY <1>1, <1>2 DEF GoodBatch, ReadsAll

LEMMA VerdictStep ==
  ASSUME IInv, ReadsAll, VerdictIsExact, [Next]_vars
  PROVE  ReadsAll' /\ VerdictIsExact'
  <1> USE DEF ReadsAll, VerdictIsExact
  <1>0. Len(journals) \in Nat /\ num_proofs \in Nat /\ journals \in Seq(Inputs)
    BY DEF IInv, TypeOK
  <1>1. ASSUME NEW n \in 0 .. MaxProofs, NEW k \in VKeys, ReadCount(n, k)
        PROVE  ReadsAll' /\ VerdictIsExact'
    <2>1. journals = <<>> /\ n \in Nat
      BY <1>1, MaxProofsAssumption DEF ReadCount, IInv, Composed
    <2> QED
      BY <1>1, <2>1 DEF ReadCount
  <1>2. ASSUME NEW j \in Inputs, ReadProof(j)
        PROVE  ReadsAll' /\ VerdictIsExact'
    <2>1. pc = "read" /\ Len(journals) < num_proofs /\ UNCHANGED num_proofs
      BY <1>2 DEF ReadProof, host
    <2>2. CASE <<range_program_vkey, j>> \in Proved /\ j \in Decodes
      <3>1. pc' = "read" /\ Len(journals') = Len(journals) + 1
        BY <1>0, <1>2, <2>1, <2>2 DEF ReadProof, host
      <3> QED
        BY <1>0, <2>1, <3>1
    <2>3. CASE ~ (<<range_program_vkey, j>> \in Proved /\ j \in Decodes)
      <3>1. pc' = "panic" /\ UNCHANGED journals
        BY <1>2, <2>3 DEF ReadProof, host
      <3> QED
        BY <1>0, <2>1, <3>1 DEF GoodBatch
    <2> QED
      BY <2>2, <2>3
  <1>3. CASE ReadDone
    BY <1>3 DEF ReadDone, host, GoodBatch
  <1>4. CASE CheckWindow
    <2>1. /\ pc = "windows" /\ w < Len(journals) /\ w \in 1 .. Len(journals) - 1
          /\ UNCHANGED <<num_proofs, range_program_vkey, journals>>
      BY <1>0, <1>4 DEF CheckWindow, host, IInv, TypeOK
    <2>2. CASE Continuous(journals[w], journals[w + 1])
      BY <1>4, <2>1, <2>2 DEF CheckWindow, host
    <2>3. CASE ~ Continuous(journals[w], journals[w + 1])
      <3>1. pc' = "panic" /\ ~ GoodBatch
        BY <1>4, <2>1, <2>3 DEF CheckWindow, host, GoodBatch
      <3> QED
        BY <2>1, <3>1 DEF GoodBatch
    <2> QED
      BY <2>2, <2>3
  <1>5. CASE Commit
    <2>1. GoodBatch /\ pc' = "committed" /\ UNCHANGED <<num_proofs, range_program_vkey, journals>>
      BY <1>5, ComparedAreContinuous DEF Commit, host
    <2> QED
      BY <2>1 DEF GoodBatch
  <1>6. CASE UNCHANGED vars
    BY <1>6 DEF vars, host, GoodBatch
  <1> QED
    BY <1>1, <1>2, <1>3, <1>4, <1>5, <1>6 DEF Next

\* The aggregation guest's main() commits the good batches and panics on the others.
THEOREM GuestDecidesExactly == Spec => []VerdictIsExact
  <1>1. Init => ReadsAll /\ VerdictIsExact
    BY DEF Init, ReadsAll, VerdictIsExact
  <1>2. IInv /\ ReadsAll /\ VerdictIsExact /\ [Next]_vars => ReadsAll' /\ VerdictIsExact'
    BY VerdictStep
  <1> QED
    BY <1>1, <1>2, Invariance, PTL DEF Spec

=============================================================================
