-------------------------- MODULE DisputeGameProofs --------------------------
(***************************************************************************)
(* Proofs about the two contracts, for every width of the block number,    *)
(* every set of journals and every relation of accepted proofs.            *)
(***************************************************************************)
EXTENDS DisputeGame, TLAPS

USE DEF BlockNumbers

\* A truncated block word is a block number.
LEMMA BlockOfType == \A j \in Journals : BlockOf(j) \in BlockNumbers
  BY U64Assumption, JournalsAssumption DEF BlockOf

(***************************************************************************)
(* What accepting a journal does, whichever backend verified it.           *)
(***************************************************************************)
LEMMA ProcessJournalInv ==
  ASSUME IInv, NEW j \in Journals, ProcessJournal(j),
         UNCHANGED <<sp1ProgramVKey, risc0ImageId, now>>, UNCHANGED gameVars
  PROVE  IInv'
  <1> DEFINE c == BlockOf(j)
  <1>1. c \in BlockNumbers /\ j.l2_post_root \in Roots /\ j.l1_head \in L1Heads
    BY BlockOfType, JournalsAssumption
  <1>2. ~ isBlockProven(c) /\ StoreProposal(j)
    BY DEF ProcessJournal
  <1> DEFINE p == [outputRoot |-> j.l2_post_root, l2BlockNumber |-> c,
                   l1Head |-> j.l1_head, timestamp |-> now]
  <1>3. proposals' = [proposals EXCEPT ![c] = p] /\ p \in OutputProposal
    BY <1>1, <1>2 DEF StoreProposal, OutputProposal, IInv, TypeOK, OracleTypeOK
  <1>4. \/ c > latestBlockNumber /\ latestBlockNumber' = c
                                 /\ latestOutputRoot' = j.l2_post_root
        \/ ~ (c > latestBlockNumber) /\ UNCHANGED <<latestBlockNumber, latestOutputRoot>>
    BY <1>2 DEF StoreProposal, MovesHead
  <1> HIDE DEF c, p
  <1>5. p.outputRoot = j.l2_post_root /\ p.timestamp = now
    BY DEF p
  <1>6. /\ proposals'[c] = p
        /\ \A b \in BlockNumbers : b # c => proposals'[b] = proposals[b]
    BY <1>1, <1>3 DEF IInv, TypeOK, OracleTypeOK
  <1>7. TypeOK'
    BY <1>1, <1>3, <1>4 DEF IInv, TypeOK, OracleTypeOK, gameVars
  <1>8. HeadIsHighest'
    <2>1. now # 0 /\ latestBlockNumber \in Nat /\ c \in Nat
      BY <1>1, U64Assumption DEF IInv, TypeOK, OracleTypeOK
    <2>2. c <= latestBlockNumber' /\ latestBlockNumber <= latestBlockNumber'
      BY <1>4, <2>1
    <2>3. ASSUME NEW b \in BlockNumbers, proposals'[b].timestamp # 0
          PROVE  b <= latestBlockNumber'
      <3>1. CASE b = c
        BY <2>2, <3>1
      <3>2. CASE b # c
        <4>1. b <= latestBlockNumber
          BY <1>6, <2>3, <3>2 DEF IInv, HeadIsHighest, Recorded
        <4> QED
          BY <2>1, <2>2, <1>4, <4>1, U64Assumption
      <3> QED
        BY <3>1, <3>2
    <2>4. latestBlockNumber' # 0 => proposals'[latestBlockNumber'].timestamp # 0
      <3>1. latestBlockNumber' # c => latestBlockNumber' = latestBlockNumber
        BY <1>4
      <3> QED
        BY <1>5, <1>6, <2>1, <3>1 DEF IInv, TypeOK, OracleTypeOK, HeadIsHighest, Recorded
    <2> QED
      BY <2>3, <2>4 DEF HeadIsHighest, Recorded
  <1>9. HeadRootAgrees'
    BY <1>1, <1>2, <1>4, <1>5, <1>6
    DEF IInv, TypeOK, OracleTypeOK, HeadRootAgrees, isBlockProven
  <1>10. DisputeMatchesOracle'
    BY <1>1, <1>2, <1>6 DEF IInv, DisputeMatchesOracle, isBlockProven, gameVars
  <1>11. Bookkeeping'
    BY <1>1, <1>5, <1>6 DEF IInv, TypeOK, OracleTypeOK, Bookkeeping, isBlockProven, Recorded, gameVars
  <1> QED
    BY <1>7, <1>8, <1>9, <1>10, <1>11 DEF IInv

LEMMA InitInv == Init => IInv
  <1> SUFFICES ASSUME Init PROVE IInv
    OBVIOUS
  <1> USE DEF Init, OracleInit, GameInit
  <1>1. TypeOK
    BY U64Assumption, RootsAssumption
    DEF TypeOK, OracleTypeOK, OutputProposal, NoProposal, Dispute, NoDispute
  <1>2. HeadIsHighest /\ HeadRootAgrees /\ Bookkeeping
    BY DEF HeadIsHighest, HeadRootAgrees, Bookkeeping, Recorded, NoProposal, NoDispute, isBlockProven
  <1>3. DisputeMatchesOracle
    BY DEF DisputeMatchesOracle, NoDispute
  <1> QED
    BY <1>1, <1>2, <1>3 DEF IInv

LEMMA OracleStepInv ==
  ASSUME IInv, OracleNext, UNCHANGED gameVars
  PROVE  IInv'
  <1>1. CASE \E j \in Journals : submitSp1Proof(j) \/ submitRisc0Proof(j)
    <2>1. PICK j \in Journals : submitSp1Proof(j) \/ submitRisc0Proof(j)
      BY <1>1
    <2> QED
      BY <2>1, ProcessJournalInv DEF submitSp1Proof, submitRisc0Proof
  <1>2. CASE \E s \in Senders, k \in ProgramIds : setSp1ProgramVKey(s, k) \/ setRisc0ImageId(s, k)
    BY <1>2 DEF setSp1ProgramVKey, setRisc0ImageId, gameVars, IInv, TypeOK, OracleTypeOK,
       HeadIsHighest, HeadRootAgrees, DisputeMatchesOracle, Bookkeeping, Recorded, isBlockProven
  <1>3. CASE AdvanceTime
    <2> USE <1>3 DEF AdvanceTime, gameVars, IInv
    <2>1. TypeOK'
      BY DEF TypeOK, OracleTypeOK
    <2>2. (HeadIsHighest /\ HeadRootAgrees /\ DisputeMatchesOracle)'
      BY DEF HeadIsHighest, HeadRootAgrees, DisputeMatchesOracle, Recorded, isBlockProven
    <2>3. Bookkeeping'
      BY DEF TypeOK, OracleTypeOK, OutputProposal, Bookkeeping, Recorded, isBlockProven
    <2> QED
      BY <2>1, <2>2, <2>3
  <1> QED
    BY <1>1, <1>2, <1>3 DEF OracleNext

LEMMA GameStepInv ==
  ASSUME IInv, GameNext
  PROVE  IInv'
  <1>1. ASSUME NEW s \in Senders, NEW c \in BlockNumbers, challenge(s, c)
        PROVE  IInv'
    <2> DEFINE d == [challenger |-> s, disputedOutputRoot |-> proposals[c].outputRoot,
                     createdAt |-> now, resolved |-> FALSE, valid |-> FALSE]
    <2>1. /\ isBlockProven(c)
          /\ disputes' = [disputes EXCEPT ![c] = d]
          /\ UNCHANGED oracleVars
          /\ UNCHANGED <<gameSp1ProgramVKey, gameRisc0ImageId, resolvedAt>>
      BY <1>1 DEF challenge, OpenDispute
    <2>2. d \in Dispute
      BY DEF Dispute, IInv, TypeOK, OracleTypeOK, OutputProposal
    <2>3. /\ d.disputedOutputRoot = proposals[c].outputRoot
          /\ d.createdAt = now /\ ~ d.resolved
      OBVIOUS
    <2> HIDE DEF d
    <2>4. /\ disputes'[c] = d
          /\ \A b \in BlockNumbers : b # c => disputes'[b] = disputes[b]
      BY <2>1 DEF IInv, TypeOK
    <2>5. (TypeOK /\ HeadIsHighest /\ HeadRootAgrees)'
      BY <2>1, <2>2 DEF oracleVars, IInv, TypeOK, OracleTypeOK, HeadIsHighest, HeadRootAgrees, Recorded
    <2>6. DisputeMatchesOracle'
      BY <2>1, <2>3, <2>4 DEF oracleVars, IInv, DisputeMatchesOracle, Bookkeeping, isBlockProven
    <2>7. Bookkeeping'
      BY <2>1, <2>3, <2>4 DEF oracleVars, IInv, Bookkeeping, Recorded, isBlockProven
    <2> QED
      BY <2>5, <2>6, <2>7 DEF IInv
  <1>2. ASSUME NEW c \in BlockNumbers, NEW j \in Journals, NEW k \in Backends, resolve(c, j, k)
        PROVE  IInv'
    <2> DEFINE v == (j.l2_post_root = disputes[c].disputedOutputRoot)
               d == [disputes[c] EXCEPT !.resolved = TRUE, !.valid = v]
    <2>1. /\ disputes[c].createdAt # 0
          /\ disputes' = [disputes EXCEPT ![c] = d]
          /\ resolvedAt' = [resolvedAt EXCEPT ![c] = now]
          /\ UNCHANGED oracleVars
          /\ UNCHANGED <<gameSp1ProgramVKey, gameRisc0ImageId>>
      BY <1>2 DEF resolve, RecordVerdict, IInv, TypeOK
    <2>2. v \in BOOLEAN
      OBVIOUS
    <2> HIDE DEF v
    <2>3. disputes[c] \in Dispute
      BY DEF IInv, TypeOK
    <2>4. /\ d \in Dispute
          /\ d.createdAt = disputes[c].createdAt
          /\ d.disputedOutputRoot = disputes[c].disputedOutputRoot
      BY <2>2, <2>3 DEF Dispute
    <2> HIDE DEF d
    <2>5. TypeOK'
      BY <2>1, <2>4 DEF oracleVars, IInv, TypeOK, OracleTypeOK
    <2>6. \A b \in BlockNumbers :
            /\ disputes'[b].createdAt = disputes[b].createdAt
            /\ disputes'[b].disputedOutputRoot = disputes[b].disputedOutputRoot
            /\ b # c => disputes'[b] = disputes[b]
      BY <2>1, <2>4 DEF IInv, TypeOK
    <2>7. (HeadIsHighest /\ HeadRootAgrees)'
      BY <2>1 DEF oracleVars, IInv, HeadIsHighest, HeadRootAgrees, Recorded
    <2>8. DisputeMatchesOracle'
      BY <2>1, <2>6 DEF oracleVars, IInv, DisputeMatchesOracle, isBlockProven
    <2>9. Bookkeeping'
      BY <2>1, <2>6 DEF oracleVars, IInv, Bookkeeping, Recorded, isBlockProven
    <2> QED
      BY <2>5, <2>7, <2>8, <2>9 DEF IInv
  <1>3. CASE \E s \in Senders, k \in ProgramIds : \/ gameSetSp1ProgramVKey(s, k)
                                                  \/ gameSetRisc0ImageId(s, k)
    BY <1>3 DEF gameSetSp1ProgramVKey, gameSetRisc0ImageId, oracleVars, IInv, TypeOK, OracleTypeOK,
       HeadIsHighest, HeadRootAgrees, DisputeMatchesOracle, Bookkeeping, Recorded, isBlockProven
  <1> QED
    BY <1>1, <1>2, <1>3 DEF GameNext

LEMMA StepInv == ASSUME IInv, [Next]_vars PROVE IInv'
  <1>1. CASE UNCHANGED vars
    BY <1>1 DEF vars, oracleVars, gameVars, IInv, TypeOK, OracleTypeOK, HeadIsHighest,
       HeadRootAgrees, DisputeMatchesOracle, Bookkeeping, Recorded, isBlockProven
  <1> QED
    BY <1>1, OracleStepInv, GameStepInv DEF Next

(***************************************************************************)
(* The inductive invariant holds in every reachable state.                 *)
(***************************************************************************)
THEOREM Invariance == Spec => []IInv
  <1>1. IInv /\ [Next]_vars => IInv'
    BY StepInv
  <1> QED
    BY <1>1, InitInv, PTL DEF Spec

(***************************************************************************)
(* latestBlockNumber is the highest block _processJournal ever recorded.   *)
(***************************************************************************)
THEOREM HeadStaysHighest == Spec => []HeadIsHighest
  BY Invariance, PTL DEF IInv

(***************************************************************************)
(* latestOutputRoot is the root of the proposal at latestBlockNumber.      *)
(***************************************************************************)
THEOREM HeadRootsAgree == Spec => []HeadRootAgrees
  BY Invariance, PTL DEF IInv

(***************************************************************************)
(* The root challenge() copied into a dispute is still the oracle's.       *)
(***************************************************************************)
THEOREM DisputesMatch == Spec => []DisputeMatchesOracle
  BY Invariance, PTL DEF IInv

\* How a step may change the proposals: by accepting one journal, or not at all.
LEMMA ProposalStep ==
  ASSUME IInv, [Next]_vars
  PROVE  \/ UNCHANGED <<proposals, latestBlockNumber>>
         \/ \E j \in Journals : ProcessJournal(j) /\ UNCHANGED gameVars
  BY DEF Next, OracleNext, submitSp1Proof, submitRisc0Proof, setSp1ProgramVKey, setRisc0ImageId,
     AdvanceTime, GameNext, challenge, OpenDispute, resolve, gameSetSp1ProgramVKey,
     gameSetRisc0ImageId, vars, oracleVars

(***************************************************************************)
(* No step replaces the proposal of a proven block.                        *)
(***************************************************************************)
THEOREM ProvenStaysFinal == Spec => ProvenIsFinal
  <1>1. IInv /\ [Next]_vars
          => [\A b \in BlockNumbers : isBlockProven(b) => proposals'[b] = proposals[b]]_oracleVars
    <2> SUFFICES ASSUME IInv, [Next]_vars, NEW b \in BlockNumbers, isBlockProven(b)
                 PROVE  proposals'[b] = proposals[b]
      OBVIOUS
    <2>1. CASE UNCHANGED proposals
      BY <2>1
    <2>2. ASSUME NEW j \in Journals, ProcessJournal(j)
          PROVE  proposals'[b] = proposals[b]
      BY <2>2, BlockOfType DEF ProcessJournal, StoreProposal, IInv, TypeOK, OracleTypeOK
    <2> QED
      BY <2>1, <2>2, ProposalStep
  <1> QED
    BY <1>1, Invariance, PTL DEF Spec, ProvenIsFinal

\* How a step may change the disputes.
LEMMA DisputeStep ==
  ASSUME IInv, [Next]_vars
  PROVE  \/ UNCHANGED disputes
         \/ \E s \in Senders, b \in BlockNumbers : challenge(s, b)
         \/ \E b \in BlockNumbers, j \in Journals, k \in Backends : resolve(b, j, k)
  BY DEF Next, GameNext, gameSetSp1ProgramVKey, gameSetRisc0ImageId, vars, gameVars

(***************************************************************************)
(* A dispute is raised once, over one root, and decided at most once.      *)
(***************************************************************************)
THEOREM VerdictStaysFinal == Spec => VerdictIsFinal
  <1> DEFINE Kept(b) == /\ disputes'[b].challenger = disputes[b].challenger
                        /\ disputes'[b].disputedOutputRoot = disputes[b].disputedOutputRoot
                        /\ disputes'[b].createdAt = disputes[b].createdAt
                        /\ disputes[b].resolved => disputes'[b] = disputes[b]
  <1>1. IInv /\ [Next]_vars
          => [\A b \in BlockNumbers : disputes[b].createdAt # 0 => Kept(b)]_vars
    <2> SUFFICES ASSUME IInv, [Next]_vars, NEW b \in BlockNumbers, disputes[b].createdAt # 0
                 PROVE  Kept(b)
      OBVIOUS
    <2>1. ASSUME NEW s \in Senders, NEW c \in BlockNumbers, challenge(s, c)
          PROVE  Kept(b)
      BY <2>1 DEF challenge, OpenDispute, IInv, TypeOK
    <2>2. ASSUME NEW c \in BlockNumbers, NEW j \in Journals, NEW k \in Backends, resolve(c, j, k)
          PROVE  Kept(b)
      BY <2>2 DEF resolve, RecordVerdict, IInv, TypeOK, Dispute
    <2> QED
      BY <2>1, <2>2, DisputeStep
  <1> QED
    BY <1>1, Invariance, PTL DEF Spec, VerdictIsFinal

(***************************************************************************)
(* The contracts implement the view their readers rely on.                 *)
(***************************************************************************)
THEOREM Refinement == Spec => ImplementsView
  <1> DEFINE proven == {b \in BlockNumbers : isBlockProven(b)}
             open == {b \in BlockNumbers : isDisputed(b)}
             closed == {b \in BlockNumbers : disputes[b].resolved}
  <1>1. Init => View!ViewInit
    BY DEF Init, OracleInit, GameInit, View!ViewInit, NoProposal, NoDispute, isBlockProven, isDisputed
  <1>2. IInv /\ [Next]_vars => [View!ViewNext]_View!viewVars
    <2> SUFFICES ASSUME IInv, [Next]_vars
                 PROVE  \/ \E b \in BlockNumbers : View!Record(b) \/ View!Challenge(b) \/ View!Resolve(b)
                        \/ UNCHANGED <<latestBlockNumber, proven, open, closed>>
      BY DEF View!ViewNext, View!viewVars
    <2>1. ASSUME NEW j \in Journals, ProcessJournal(j), UNCHANGED gameVars
          PROVE  View!Record(BlockOf(j))
      <3> DEFINE c == BlockOf(j)
      <3>1. c \in BlockNumbers /\ c \notin proven
        BY <2>1, BlockOfType DEF ProcessJournal
      <3>2. latestBlockNumber' = IF c > latestBlockNumber THEN c ELSE latestBlockNumber
        BY <2>1 DEF ProcessJournal, StoreProposal, MovesHead
      <3>3. \A b \in BlockNumbers : b # c => proposals'[b] = proposals[b]
        BY <2>1, <3>1 DEF ProcessJournal, StoreProposal, IInv, TypeOK, OracleTypeOK
      <3>4. proven' \in {proven, proven \union {c}}
        BY <3>1, <3>3 DEF isBlockProven
      <3>5. UNCHANGED <<open, closed>>
        BY <2>1 DEF gameVars, isDisputed
      <3> QED
        BY <3>1, <3>2, <3>4, <3>5 DEF View!Record
    <2>2. ASSUME NEW s \in Senders, NEW c \in BlockNumbers, challenge(s, c)
          PROVE  View!Challenge(c)
      <3>1. /\ disputes'[c].createdAt = now /\ ~ disputes'[c].resolved /\ now # 0
            /\ \A b \in BlockNumbers : b # c => disputes'[b] = disputes[b]
        BY <2>2 DEF challenge, OpenDispute, IInv, TypeOK, OracleTypeOK
      <3>2. c \in proven /\ c \notin open /\ c \notin closed
        BY <2>2 DEF challenge, OpenDispute, isDisputed, IInv, Bookkeeping
      <3>3. open' = open \union {c} /\ closed' = closed
        BY <3>1, <3>2 DEF isDisputed
      <3>4. UNCHANGED <<latestBlockNumber, proven>>
        BY <2>2 DEF challenge, OpenDispute, oracleVars, isBlockProven
      <3> QED
        BY <3>2, <3>3, <3>4 DEF View!Challenge
    <2>3. ASSUME NEW c \in BlockNumbers, NEW j \in Journals, NEW k \in Backends, resolve(c, j, k)
          PROVE  View!Resolve(c)
      <3>1. /\ disputes'[c].createdAt = disputes[c].createdAt /\ disputes'[c].resolved
            /\ \A b \in BlockNumbers : b # c => disputes'[b] = disputes[b]
        BY <2>3 DEF resolve, RecordVerdict, IInv, TypeOK, Dispute
      <3>2. c \in open
        BY <2>3 DEF resolve, isDisputed
      <3>3. open' = open \ {c} /\ closed' = closed \union {c}
        BY <3>1, <3>2 DEF isDisputed
      <3>4. UNCHANGED <<latestBlockNumber, proven>>
        BY <2>3 DEF resolve, oracleVars, isBlockProven
      <3> QED
        BY <3>2, <3>3, <3>4 DEF View!Resolve
    <2>4. CASE UNCHANGED <<proposals, latestBlockNumber, disputes>>
      BY <2>4 DEF isBlockProven, isDisputed
    <2>5. \/ UNCHANGED <<proposals, latestBlockNumber, disputes>>
          \/ \E j \in Journals : ProcessJournal(j) /\ UNCHANGED gameVars
          \/ \E s \in Senders, b \in BlockNumbers : challenge(s, b)
          \/ \E b \in BlockNumbers, j \in Journals, k \in Backends : resolve(b, j, k)
      BY ProposalStep, DisputeStep DEF gameVars
    <2> QED
      BY <2>1, <2>2, <2>3, <2>4, <2>5, BlockOfType
  <1> QED
    BY <1>1, <1>2, Invariance, PTL DEF Spec, ImplementsView, View!ViewSpec

=============================================================================
