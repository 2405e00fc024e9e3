------------------------- MODULE RangeProvingProofs -------------------------
(***************************************************************************)
(* The journals of the range guest are true and answer their requests,     *)
(* whatever the nodes answer and however often their chains reorganise.    *)
(***************************************************************************)
EXTENDS RangeProving, SequenceTheorems, TLAPS

(***************************************************************************)
(* A root some node answered for a block is a root of that number, and not *)
(* zero; the one computed from a header coincides with an answered root    *)
(* only if it is the right one.                                            *)
(***************************************************************************)
LEMMA AnsweredRoot ==
  ASSUME NEW v \in Views, NEW n \in DOMAIN v.l2
  PROVE  /\ v.l2[n] \in Roots \ {ZeroRoot}
         /\ NumberOf[v.l2[n]] = n
         /\ HeaderRoot[v.l2[n]] \in Roots
BY ViewsAssumption, RootsAssumption

\* If the claim equals an answered root, its number is the end of the range.
LEMMA ClaimNumber ==
  ASSUME NEW v \in Views, NEW n \in DOMAIN v.l2,
         NEW u \in Views, NEW m \in DOMAIN u.l2,
         NEW c \in {v.l2[n], HeaderRoot[v.l2[n]]}, c = u.l2[m]
  PROVE  NumberOf[c] = n
<1>1. v.l2[n] \in Roots
  BY AnsweredRoot
<1>2. CASE c = v.l2[n]
  BY <1>2, AnsweredRoot
<1>3. CASE c = HeaderRoot[v.l2[n]]
  <2>1. HeaderRoot[v.l2[n]] = v.l2[n]
    BY <1>1, <1>3, HeaderRootAssumption
  <2> QED
    BY <2>1, <1>3, AnsweredRoot
<1> QED
  BY <1>2, <1>3

\* The ranges of the plan are pairs of block numbers.
LEMMA PlanRange ==
  ASSUME NEW i \in Jobs
  PROVE  Plan[i].l2_start_block \in Nat /\ Plan[i].l2_end_block \in Nat
<1>1. Plan[i] \in [l2_start_block : Nat, l2_end_block : Nat]
  BY PlanAssumption, ElementOfSeq DEF Jobs
<1> QED
  BY <1>1

LEMMA EmptyRecords ==
  /\ \A h \in L1Heads : Request(h) \in [l1_head : L1Heads, l2_start_output_root : Roots]
  /\ NoWitness \in [l1_head : L1Heads, agreed : Roots, claimed : Roots, number : Nat,
                    outputs : SUBSET Roots]
BY RootsAssumption DEF Request, NoWitness

LEMMA InitInv == Init => IInv
<1> SUFFICES ASSUME Init PROVE IInv
  OBVIOUS
<1>1. TypeOK
  BY EmptyRecords, RootsAssumption DEF Init, TypeOK
<1>2. ReadsFit
  BY DEF Init, ReadsFit
<1>3. JournalIsTrue /\ JournalAnswersRequest
  BY DEF Init, JournalIsTrue, JournalAnswersRequest, Proved
<1> QED
  BY <1>1, <1>2, <1>3 DEF IInv

\* A step that commits nothing leaves the journals' properties alone.
LEMMA JournalsKept ==
  ASSUME IInv, UNCHANGED proofs
  PROVE  JournalIsTrue' /\ JournalAnswersRequest'
BY DEF IInv, JournalIsTrue, JournalAnswersRequest, Proved

\* Ending a job keeps everything that does not speak of proofs.
LEMMA EndKeeps ==
  ASSUME IInv, JobEnds, UNCHANGED view, DOMAIN proofs' = Jobs
  PROVE  TypeOK' /\ ReadsFit'
<1>1. TypeOK'
  BY EmptyRecords, RootsAssumption DEF IInv, TypeOK, JobEnds
<1>2. ReadsFit'
  BY DEF JobEnds, ReadsFit
<1> QED
  BY <1>1, <1>2

\* A commit of a true journal for the current job preserves the invariant.
LEMMA CommitKeeps ==
  ASSUME IInv, pc = "guest", NEW post \in Roots, Committed(Journal(post)),
         SafeHeadFound, NumberOf[post] = witness.number,
         \/ <<witness.l1_head, witness.agreed, post>> \in Derives
         \/ witness.agreed = post
  PROVE  IInv'
<1>1. job \in Jobs /\ DOMAIN proofs = Jobs
  BY DEF IInv, TypeOK
<1>2. proofs' = [proofs EXCEPT ![job] = Journal(post)] /\ DOMAIN proofs' = Jobs
  BY <1>1 DEF Committed
<1>3. TypeOK' /\ ReadsFit'
  BY <1>2, EndKeeps DEF Committed
<1>4. /\ witness.number = Plan[job].l2_end_block
      /\ witness.agreed # ZeroRoot
      /\ NumberOf[witness.agreed] = Plan[job].l2_start_block
  BY DEF IInv, ReadsFit, SafeHeadFound, Start, End
<1>5. ASSUME NEW i \in Jobs, i # job
      PROVE  proofs'[i] = proofs[i]
  BY <1>1, <1>2, <1>5
<1>6. proofs'[job] = Journal(post)
  BY <1>1, <1>2
<1>7. JournalIsTrue'
  <2> SUFFICES ASSUME NEW i \in Jobs, Proved(i)'
               PROVE  /\ NumberOf[proofs'[i].l2_post_root] = proofs'[i].l2_block_number
                      /\ \/ <<proofs'[i].l1_head, proofs'[i].l2_pre_root,
                              proofs'[i].l2_post_root>> \in Derives
                         \/ proofs'[i].l2_pre_root = proofs'[i].l2_post_root
    BY DEF JournalIsTrue
  <2>1. CASE i = job
    BY <2>1, <1>6 DEF Journal
  <2>2. CASE i # job
    BY <2>2, <1>5 DEF IInv, JournalIsTrue, Proved
  <2> QED
    BY <2>1, <2>2
<1>8. JournalAnswersRequest'
  <2> SUFFICES ASSUME NEW i \in Jobs, Proved(i)'
               PROVE  /\ proofs'[i].l2_pre_root # ZeroRoot
                      /\ NumberOf[proofs'[i].l2_pre_root] = Plan[i].l2_start_block
                      /\ proofs'[i].l2_block_number = Plan[i].l2_end_block
    BY DEF JournalAnswersRequest
  <2>1. CASE i = job
    BY <2>1, <1>4, <1>6 DEF Journal
  <2>2. CASE i # job
    BY <2>2, <1>5 DEF IInv, JournalAnswersRequest, Proved
  <2> QED
    BY <2>1, <2>2
<1> QED
  BY <1>3, <1>7, <1>8 DEF IInv

LEMMA NextInv == IInv /\ [Next]_vars => IInv'
<1> SUFFICES ASSUME IInv, [Next]_vars PROVE IInv'
  OBVIOUS
<1> USE DEF IInv
<1>1. ASSUME NEW i \in Jobs, ReadL1Head(i) \/ PlannedRequest(i)
      PROVE  IInv'
  <2>1. request' = Request(view.l1) /\ view.l1 \in L1Heads
    BY <1>1, ViewsAssumption DEF ReadL1Head, PlannedRequest, TypeOK
  <2>2. TypeOK'
    BY <1>1, <2>1, EmptyRecords DEF ReadL1Head, PlannedRequest, TypeOK, Jobs
  <2>3. ReadsFit'
    BY <1>1 DEF ReadL1Head, PlannedRequest, ReadsFit
  <2>4. UNCHANGED proofs
    BY <1>1 DEF ReadL1Head, PlannedRequest
  <2> QED
    BY <2>2, <2>3, <2>4, JournalsKept
<1>2. CASE ReadStartRoot
  <2>1. view.l2[Start] \in Roots
    BY <1>2, AnsweredRoot DEF ReadStartRoot, TypeOK
  <2>2. TypeOK'
    BY <1>2, <2>1 DEF ReadStartRoot, TypeOK
  <2>3. ReadsFit'
    BY <1>2 DEF ReadStartRoot, ReadsFit
  <2> QED
    BY <1>2, <2>2, <2>3, JournalsKept DEF ReadStartRoot
<1>3. CASE ReadStartBlock
  <2>1. view.l2[Start] \in Roots
    BY <1>3, AnsweredRoot DEF ReadStartBlock, TypeOK
  <2>2. TypeOK'
    BY <1>3, <2>1 DEF ReadStartBlock, TypeOK
  <2>3. ReadsFit'
    BY <1>3 DEF ReadStartBlock, ReadsFit, TypeOK, Start
  <2> QED
    BY <1>3, <2>2, <2>3, JournalsKept DEF ReadStartBlock
<1>4. CASE FetchOutputRoot
  <2>1. view.l2[End] \in Roots /\ HeaderRoot[view.l2[End]] \in Roots
    BY <1>4, AnsweredRoot DEF FetchOutputRoot, TypeOK
  <2>2. TypeOK'
    BY <1>4, <2>1 DEF FetchOutputRoot, TypeOK
  <2>3. ReadsFit'
    BY <1>4 DEF FetchOutputRoot, ReadsFit, TypeOK, Start, End
  <2> QED
    BY <1>4, <2>2, <2>3, JournalsKept DEF FetchOutputRoot
<1>5. CASE CollectWitness
  <2>1. End \in Nat
    BY <1>5, PlanRange DEF CollectWitness, TypeOK, End
  <2>2. HostBoot \in [l1_head : L1Heads, agreed : Roots, claimed : Roots, number : Nat,
                      outputs : SUBSET Roots]
    BY <2>1 DEF HostBoot, TypeOK
  <2>3. TypeOK'
    BY <1>5, <2>2 DEF CollectWitness, TypeOK
  <2>4. PICK u \in Views : Start \in DOMAIN u.l2 /\ agreed_head = u.l2[Start]
    BY <1>5 DEF CollectWitness, ReadsFit
  <2>5. PICK v \in Views :
          End \in DOMAIN v.l2 /\ claimed \in {v.l2[End], HeaderRoot[v.l2[End]]}
    BY <1>5 DEF CollectWitness, ReadsFit
  <2>6. agreed_head # ZeroRoot /\ NumberOf[agreed_head] = Start
    BY <2>4, AnsweredRoot
  <2>7. agreed_head = claimed => NumberOf[agreed_head] = End
    <3> SUFFICES ASSUME agreed_head = claimed PROVE NumberOf[claimed] = End
      OBVIOUS
    <3>1. claimed = u.l2[Start]
      BY <2>4
    <3> HIDE DEF IInv
    <3> QED
      BY <2>4, <2>5, <3>1, ClaimNumber
  <2>8. witness'.number = End /\ witness'.outputs = {agreed_head} /\ witness'.claimed = claimed
    BY <1>5 DEF CollectWitness, HostBoot
  <2>9. UNCHANGED <<Start, End>>
    BY <1>5 DEF CollectWitness, Start, End
  <2>10. ReadsFit'
    BY <1>5, <2>6, <2>7, <2>8, <2>9 DEF CollectWitness, ReadsFit
  <2> QED
    BY <1>5, <2>3, <2>10, JournalsKept DEF CollectWitness
<1>6. CASE GuestDerives
  BY <1>6, CommitKeeps DEF GuestDerives, Advance
<1>7. CASE GuestExtendsTrace
  <2>1. witness.claimed \in Roots
    BY DEF TypeOK
  <2>2. witness.agreed = witness.claimed /\ NumberOf[witness.claimed] = witness.number
    BY <1>7 DEF GuestExtendsTrace, TraceExtension, SafeHeadFound, ReadsFit
  <2> QED
    BY <1>7, <2>1, <2>2, CommitKeeps DEF GuestExtendsTrace
<1>8. CASE Fail
  BY <1>8, EndKeeps, JournalsKept DEF Fail, TypeOK
<1>9. ASSUME NEW v \in Views, ChainMoves(v)
      PROVE  IInv'
  <2>1. TypeOK'
    BY <1>9 DEF ChainMoves, TypeOK
  <2>2. ReadsFit'
    BY <1>9 DEF ChainMoves, ReadsFit, Start, End
  <2> QED
    BY <1>9, <2>1, <2>2, JournalsKept DEF ChainMoves
<1>10. CASE UNCHANGED vars
  <2>1. TypeOK'
    BY <1>10 DEF vars, TypeOK
  <2>2. ReadsFit'
    BY <1>10 DEF vars, ReadsFit, Start, End
  <2> QED
    BY <1>10, <2>1, <2>2, JournalsKept DEF vars
<1> QED
  BY <1>1, <1>2, <1>3, <1>4, <1>5, <1>6, <1>7, <1>8, <1>9, <1>10 DEF Next

(***************************************************************************)
(* The inductive invariant holds in every reachable state.                 *)
(***************************************************************************)
THEOREM Invariance == Spec => []IInv
BY InitInv, NextInv, PTL DEF Spec

(***************************************************************************)
(* No reorganisation between the reads of the witness provider makes the   *)
(* range guest commit a false journal (the output root assertion of        *)
(* run_pipeline).                                                          *)
(***************************************************************************)
THEOREM JournalsAreTrue == Spec => []JournalIsTrue
<1>1. IInv => JournalIsTrue
  BY DEF IInv
<1> QED
  BY <1>1, Invariance, PTL

(***************************************************************************)
(* A journal covers the range of the request it answers, and a request     *)
(* with the zero start root of plan_range never gets one.                  *)
(***************************************************************************)
THEOREM JournalsAnswerRequests == Spec => []JournalAnswersRequest
<1>1. IInv => JournalAnswersRequest
  BY DEF IInv
<1> QED
  BY <1>1, Invariance, PTL

(***************************************************************************)
(* The finding behind PlanAggregates is not a matter of bad luck with the  *)
(* nodes.  plan_range makes each range start one block after the end of    *)
(* the one before it, a journal's pre root is that of the block it starts  *)
(* at, and so neighbours never share a root: whatever the nodes answer,    *)
(* the continuity assertion of the aggregation guest fails for every two   *)
(* neighbours of every plan the engine makes (Engine!PlanTiles).           *)
(***************************************************************************)
NeighboursNeverChain ==
  \A i \in 1 .. Len(Plan) - 1 :
    /\ Proved(i) /\ Proved(i + 1)
    /\ Plan[i + 1].l2_start_block = Plan[i].l2_end_block + 1
    => proofs[i].l2_post_root # proofs[i + 1].l2_pre_root

\* Journals of neighbouring ranges never chain, for every plan and every history of the nodes.
THEOREM AdjacentRangesNeverChain == Spec => []NeighboursNeverChain
<1>1. IInv => NeighboursNeverChain
  <2> SUFFICES ASSUME IInv, NEW i \in 1 .. Len(Plan) - 1, Proved(i), Proved(i + 1),
                      Plan[i + 1].l2_start_block = Plan[i].l2_end_block + 1
               PROVE  proofs[i].l2_post_root # proofs[i + 1].l2_pre_root
    BY DEF NeighboursNeverChain
  <2>1. Len(Plan) \in Nat
    BY PlanAssumption
  <2>2. i \in Jobs /\ i + 1 \in Jobs
    BY <2>1 DEF Jobs
  <2>3. NumberOf[proofs[i].l2_post_root] = Plan[i].l2_end_block
    BY <2>2 DEF IInv, JournalIsTrue, JournalAnswersRequest
  <2>4. NumberOf[proofs[i + 1].l2_pre_root] = Plan[i].l2_end_block + 1
    BY <2>2 DEF IInv, JournalAnswersRequest
  <2>5. Plan[i].l2_end_block \in Nat
    BY <2>2, PlanRange
  <2> QED
    BY <2>3, <2>4, <2>5
<1> QED
  BY <1>1, Invariance, PTL

=============================================================================
