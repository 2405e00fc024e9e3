---------------------------- MODULE EngineProofs ----------------------------
(***************************************************************************)
(* Proofs about the engine, for every aggregation window, chain length and *)
(* set of blocks that others settle and dispute.                           *)
(***************************************************************************)
EXTENDS Engine, TLAPS

Request == [l1_head : Nat, l2_start_block : Nat, l2_end_block : Nat]

LEMMA LeqTransitive ==
  \A a, b, c \in Nat : b <= c => (a <= b => a <= c) /\ (a <= b + 1 => a <= c + 1)
  OBVIOUS

LEMMA InitInv == Init => IInv
  BY DEF Init, ViewInit, IInv, TypeOK, ViewSound, ReadsAreOld, PlanLoop, PlanTiles,
     RangeLeavesNoGap, DisputeIsReal, Active, Proving

\* One turn of plan_range's loop ends its request at most at the end of the range.
LEMMA RangeEndBounds ==
  ASSUME NEW c \in Nat, end \in Nat, c <= end
  PROVE  /\ RangeEnd(c) \in Nat
         /\ c <= RangeEnd(c) /\ RangeEnd(c) <= end
         /\ RangeEnd(c) < c + aggregation_window
  BY WindowAssumption DEF RangeEnd, Minimum

LEMMA PlanRequestInv ==
  ASSUME IInv, PlanRequest
  PROVE  IInv'
  <1> DEFINE r == [l1_head |-> l1_head, l2_start_block |-> cursor,
                   l2_end_block |-> RangeEnd(cursor)]
             n == Len(requests)
  <1> USE DEF IInv, PlanRequest
  <1>1. /\ cursor \in Nat /\ end \in Nat /\ start \in Nat /\ l1_head \in Nat
        /\ cursor <= end /\ requests \in Seq(Request) /\ pc = "plan"
    BY DEF TypeOK, Request
  <1>2. /\ RangeEnd(cursor) \in Nat
        /\ cursor <= RangeEnd(cursor) /\ RangeEnd(cursor) <= end
        /\ RangeEnd(cursor) < cursor + aggregation_window
    BY <1>1, RangeEndBounds
  <1>3. r \in Request
    BY <1>1, <1>2 DEF Request
  <1>4. requests' = Append(requests, r) /\ cursor' = RangeEnd(cursor) + 1
        /\ UNCHANGED <<chainVars, proof_mode, dispute_address, pc, seen, start, end, l1_head, done, event>>
    OBVIOUS
  <1>5. /\ r.l1_head = l1_head /\ r.l2_start_block = cursor
        /\ r.l2_end_block = RangeEnd(cursor)
    OBVIOUS
  <1> HIDE DEF r
  <1>6. /\ requests' \in Seq(Request) /\ Len(requests') = n + 1 /\ n \in Nat
        /\ requests'[n + 1] = r
        /\ \A i \in 1 .. n : requests'[i] = requests[i]
    BY <1>1, <1>3, <1>4
  <1>7. TypeOK'
    BY <1>2, <1>4, <1>6 DEF TypeOK, Request, chainVars, viewVars
  <1>8. RequestsChain'
    <2>1. RequestsChain
      BY <1>1 DEF PlanLoop
    <2>2. cursor = IF n = 0 THEN start ELSE requests[n].l2_end_block + 1
      BY <1>1 DEF PlanLoop
    <2> SUFFICES ASSUME NEW i \in 1 .. n + 1
                 PROVE  /\ requests'[i].l2_start_block =
                             IF i = 1 THEN start ELSE requests'[i - 1].l2_end_block + 1
                        /\ requests'[i].l2_start_block <= requests'[i].l2_end_block
                        /\ requests'[i].l2_end_block <= end
                        /\ requests'[i].l2_end_block < requests'[i].l2_start_block + aggregation_window
                        /\ requests'[i].l1_head = l1_head
      BY <1>4, <1>6 DEF RequestsChain
    <2>3. CASE i <= n
      <3>1. i \in 1 .. n /\ (i # 1 => i - 1 \in 1 .. n)
        BY <1>6, <2>3
      <3> QED
        BY <1>6, <2>1, <3>1 DEF RequestsChain
    <2>4. CASE i = n + 1
      <3>1. requests'[i] = r /\ (i # 1 => requests'[i - 1] = requests[n])
        BY <1>6, <2>4
      <3> QED
        BY <1>2, <1>5, <1>6, <2>2, <2>4, <3>1
    <2> QED
      BY <1>6, <2>3, <2>4
  <1>9. PlanLoop'
    <2>1. requests' # <<>> /\ requests'[Len(requests')].l2_end_block = RangeEnd(cursor)
      BY <1>5, <1>6
    <2> QED
      BY <1>1, <1>2, <1>4, <1>8, <2>1 DEF PlanLoop
  <1>10. (ViewSound /\ ReadsAreOld /\ PlanTiles /\ RangeLeavesNoGap /\ DisputeIsReal)'
    BY <1>1, <1>4 DEF ViewSound, ReadsAreOld, PlanTiles, RangeLeavesNoGap, DisputeIsReal,
       Proving, Active, chainVars, viewVars
  <1> QED
    BY <1>7, <1>9, <1>10

LEMMA PlanDoneInv ==
  ASSUME IInv, PlanDone
  PROVE  IInv'
  <1> USE DEF IInv, PlanDone, planVars, chainVars, viewVars
  <1>1. (TypeOK /\ ViewSound /\ ReadsAreOld /\ PlanLoop /\ RangeLeavesNoGap /\ DisputeIsReal)'
    BY DEF TypeOK, ViewSound, ReadsAreOld, PlanLoop, RangeLeavesNoGap, DisputeIsReal, Proving, Active
  <1>2. /\ RequestsChain /\ start \in Nat /\ end \in Nat /\ cursor \in Nat /\ start <= end
        /\ cursor = IF requests = <<>> THEN start ELSE requests[Len(requests)].l2_end_block + 1
        /\ cursor <= end + 1 /\ ~ (cursor <= end)
    BY DEF PlanLoop, TypeOK, ReadsAreOld, Active
  <1>3. requests # <<>>
    BY <1>2
  <1>4. requests[Len(requests)].l2_end_block \in Nat
    <2>1. requests \in Seq(Request)
      BY DEF TypeOK, Request
    <2>2. Len(requests) \in 1 .. Len(requests)
      BY <1>3, <2>1
    <2>3. requests[Len(requests)] \in Request
      BY <2>1, <2>2
    <2> QED
      BY <2>3 DEF Request
  <1>5. requests[Len(requests)].l2_end_block = end
    BY <1>2, <1>3, <1>4
  <1>6. PlanTiles'
    BY <1>2, <1>3, <1>5 DEF PlanTiles, RequestsChain
  <1> QED
    BY <1>1, <1>6

\* The other steps of run() leave the plan alone or throw it away.
LEMMA RunInv ==
  ASSUME IInv, Run
  PROVE  IInv'
  <1> USE DEF IInv, TypeOK, ViewSound, ReadsAreOld, PlanLoop, PlanTiles, RequestsChain,
          RangeLeavesNoGap, DisputeIsReal, Proving, Active, planVars, chainVars, viewVars
  <1>1. CASE ReadSafe
    BY <1>1 DEF ReadSafe
  <1>2. CASE ReadLatest
    BY <1>2 DEF ReadLatest
  <1>3. ASSUME NEW n \in {head, 0}, ReadProven(n)
        PROVE  IInv'
    BY <1>3 DEF ReadProven, PendingStart
  <1>4. CASE QueryDispute
    BY <1>4, BlocksAssumption DEF QueryDispute
  <1>5. CASE NoDispute
    BY <1>5 DEF NoDispute
  <1>6. CASE ReadState
    BY <1>6 DEF ReadState
  <1>7. CASE PlanRequest \/ PlanDone
    BY <1>7, PlanRequestInv, PlanDoneInv
  <1>8. CASE Submit
    BY <1>8 DEF Submit
  <1>11. CASE Wait
    BY <1>11 DEF Wait
  <1>9. CASE SubmitAggregation \/ WaitAggregation \/ SkipAggregation \/ FinishDispute
    BY <1>9 DEF SubmitAggregation, WaitAggregation, SkipAggregation, FinishDispute
  <1>10. CASE Fail
    BY <1>10 DEF Fail
  <1>12. CASE Sleep
    BY <1>12 DEF Sleep
  <1> QED
    BY <1>1, <1>2, <1>3, <1>4, <1>5, <1>6, <1>7, <1>8, <1>9, <1>10, <1>11, <1>12
    DEF Run, Answer

\* What the chain does between two reads cannot invalidate what was read.
LEMMA ChainInv ==
  ASSUME IInv, L1Finalizes \/ SafeAdvances \/ Contracts
  PROVE  IInv'
  <1> USE DEF IInv, engineVars, planVars, viewVars
  <1>1. CASE L1Finalizes \/ SafeAdvances
    <2>1. /\ l2_safe \in Nat /\ l2_safe' \in Nat /\ l2_safe <= l2_safe' /\ l1_finalized' \in Nat
          /\ UNCHANGED <<viewVars, engineVars>>
      BY <1>1 DEF L1Finalizes, SafeAdvances, TypeOK
    <2>2. (TypeOK /\ ViewSound /\ DisputeIsReal)'
      BY <2>1 DEF TypeOK, ViewSound, DisputeIsReal
    <2>3. (PlanLoop /\ PlanTiles)'
      BY <2>1 DEF PlanLoop, PlanTiles, RequestsChain
    <2>4. (ReadsAreOld /\ RangeLeavesNoGap)'
      BY <2>1 DEF TypeOK, ReadsAreOld, RangeLeavesNoGap
    <2> QED
      BY <2>2, <2>3, <2>4
  <1>2. CASE Contracts
    <2>1. PICK b \in Blocks : Record(b) \/ Challenge(b) \/ Resolve(b)
      BY <1>2 DEF Contracts, ViewNext
    <2>2. UNCHANGED <<l1_finalized, l2_safe, engineVars>>
      BY <1>2 DEF Contracts
    <2>3. /\ head' \in Nat /\ head <= head' /\ b \in Nat
          /\ proven' \subseteq Blocks /\ open' \subseteq Blocks /\ closed' \subseteq Blocks
          /\ open \union closed \subseteq open' \union closed'
      <3>1. b \in Nat /\ head \in Nat
        BY BlocksAssumption DEF TypeOK
      <3>2. CASE Record(b)
        <4>1. head' = IF b > head THEN b ELSE head
          BY <3>2 DEF Record
        <4>2. head' \in Nat /\ head <= head'
          BY <3>1, <4>1
        <4> QED
          BY <3>1, <3>2, <4>2 DEF TypeOK, Record
      <3>3. CASE Challenge(b)
        BY <3>1, <3>3 DEF TypeOK, Challenge
      <3>4. CASE Resolve(b)
        BY <3>1, <3>4 DEF TypeOK, Resolve
      <3> QED
        BY <2>1, <3>2, <3>3, <3>4
    <2>4. ViewSound'
      <3>1. (open \union closed \subseteq proven)'
        BY <2>1 DEF ViewSound, Record, Challenge, Resolve
      <3>2. ASSUME NEW x \in proven' PROVE x <= head'
        <4>1. CASE x \in proven
          BY <2>3, <4>1, BlocksAssumption DEF ViewSound, TypeOK
        <4>2. CASE x \notin proven
          BY <2>1, <2>3, <4>2 DEF Record, Challenge, Resolve, TypeOK
        <4> QED
          BY <4>1, <4>2
      <3> QED
        BY <3>1, <3>2 DEF ViewSound
    <2>5. TypeOK'
      BY <2>2, <2>3 DEF TypeOK
    <2>6. (ReadsAreOld /\ RangeLeavesNoGap)'
      <3>1. seen \in Nat /\ start \in Nat /\ head \in Nat
        BY DEF TypeOK
      <3>2. (seen <= head => seen <= head') /\ (start <= head + 1 => start <= head' + 1)
        BY <2>3, <3>1, LeqTransitive
      <3> QED
        BY <2>2, <3>2 DEF ReadsAreOld, RangeLeavesNoGap
    <2>8. DisputeIsReal'
      <3>1. start <= head => start <= head'
        BY <2>3 DEF TypeOK
      <3> QED
        BY <2>2, <2>3, <3>1 DEF DisputeIsReal
    <2>7. (PlanLoop /\ PlanTiles)'
      BY <2>2 DEF PlanLoop, PlanTiles, RequestsChain
    <2> QED
      BY <2>4, <2>5, <2>6, <2>7, <2>8
  <1> QED
    BY <1>1, <1>2

(***************************************************************************)
(* The inductive invariant of the engine.                                  *)
(***************************************************************************)
THEOREM Invariance == Spec => []IInv
  <1>1. IInv /\ [Next]_vars => IInv'
    <2> SUFFICES ASSUME IInv, [Next]_vars PROVE IInv'
      OBVIOUS
    <2>1. CASE UNCHANGED vars
      BY <2>1 DEF vars, engineVars, planVars, chainVars, viewVars, IInv, TypeOK, ViewSound,
         ReadsAreOld, PlanLoop, PlanTiles, RequestsChain, RangeLeavesNoGap, DisputeIsReal
    <2> QED
      BY <2>1, RunInv, ChainInv DEF Next
  <1> QED
    BY <1>1, InitInv, PTL DEF Spec

(***************************************************************************)
(* Every plan the engine dispatches tiles its range.                       *)
(***************************************************************************)
THEOREM PlansTile == Spec => []PlanTiles
  BY Invariance, PTL DEF IInv

(***************************************************************************)
(* Torn reads of the chain never make the engine prove a range that leaves *)
(* a gap above the head or reaches beyond the safe block, nor act on a     *)
(* dispute that was never raised.                                          *)
(***************************************************************************)
THEOREM ReadsAreSound == Spec => [](RangeLeavesNoGap /\ DisputeIsReal)
  BY Invariance, PTL DEF IInv

(***************************************************************************)
(* The same, of the one block a sentinel proves.                           *)
(***************************************************************************)
THEOREM DisputesAreReal == Spec => []DisputeIsReal
  BY Invariance, PTL DEF IInv

-----------------------------------------------------------------------------
(* How many requests a plan has, and which events may follow it.            *)

LEMMA MulSucc ==
  ASSUME NEW n \in Nat, NEW w \in Nat
  PROVE  n * w \in Nat /\ (n + 1) * w = n * w + w
  OBVIOUS

LEMMA DivUnique ==
  ASSUME NEW a \in Nat, NEW w \in Nat \ {0}, NEW n \in Nat, n * w <= a, a < n * w + w
  PROVE  a \div w = n
  OBVIOUS

\* n windows, the last one begun: rounding up the division counts them.
LEMMA CountsWindows ==
  ASSUME NEW s \in Nat, NEW e \in Nat, NEW n \in Nat \ {0}, NEW w \in Nat \ {0},
         s + (n - 1) * w <= e, e < s + n * w
  PROVE  num_ranges(num_blocks(s, e), w) = n
  <1>1. n - 1 \in Nat /\ (n - 1) * w \in Nat /\ n * w \in Nat /\ n * w = (n - 1) * w + w
    BY MulSucc
  <1> DEFINE q == (n - 1) * w
             p == n * w
  <1>2. q \in Nat /\ p \in Nat /\ p = q + w /\ s + q <= e /\ e < s + p
    BY <1>1
  <1> HIDE DEF q, p
  <1>3. e >= s /\ num_blocks(s, e) = e - s + 1 /\ e - s + 1 + w - 1 \in Nat
    BY <1>2 DEF num_blocks
  <1>4. p <= e - s + 1 + w - 1 /\ e - s + 1 + w - 1 < p + w
    BY <1>2
  <1>5. (e - s + 1 + w - 1) \div w = n
    BY <1>3, <1>4, DivUnique DEF p
  <1> QED
    BY <1>3, <1>5 DEF num_ranges

LEMMA ProgressInit == Init => ProgressInv
  BY DEF Init, NoEvent, Event, ProgressInv, PlanCount, EventTiming, PlanMatchesEstimate,
     CompletionIsEarned, Completions, Proving

LEMMA PlanRequestProgress ==
  ASSUME IInv, ProgressInv, PlanRequest
  PROVE  ProgressInv'
  <1> DEFINE n == Len(requests)
             w == aggregation_window
             k == n * w
  <1>1. /\ pc = "plan" /\ pc' = "plan" /\ cursor <= end /\ UNCHANGED <<start, end, event, done>>
        /\ cursor' = RangeEnd(cursor) + 1
        /\ cursor \in Nat /\ start \in Nat /\ end \in Nat /\ w \in Nat \ {0}
    BY WindowAssumption DEF IInv, TypeOK, PlanRequest
  <1>2. n \in Nat /\ Len(requests') = n + 1
    BY DEF IInv, TypeOK, PlanRequest
  <1>3. k \in Nat /\ (n + 1) * w = k + w /\ (n + 1 - 1) * w = k
    BY <1>1, <1>2, MulSucc
  <1>4. cursor = IF start + k <= end THEN start + k ELSE end + 1
    BY <1>1 DEF ProgressInv, PlanCount
  <1> HIDE DEF k
  <1>5. start + k = cursor
    BY <1>1, <1>3, <1>4
  <1>6. RangeEnd(cursor) + 1 = IF start + (k + w) <= end THEN start + (k + w) ELSE end + 1
    BY <1>1, <1>3, <1>5 DEF RangeEnd, Minimum
  <1>7. PlanCount'
    BY <1>1, <1>2, <1>3, <1>5, <1>6 DEF PlanCount
  <1> QED
    BY <1>1, <1>7 DEF ProgressInv, EventTiming, PlanMatchesEstimate, CompletionIsEarned,
       Completions, Proving

LEMMA PlanDoneProgress ==
  ASSUME IInv, ProgressInv, PlanDone
  PROVE  ProgressInv'
  <1> DEFINE n == Len(requests)
             w == aggregation_window
  <1>1. /\ pc = "plan" /\ pc' = "submit" /\ ~ (cursor <= end) /\ start <= end
        /\ UNCHANGED <<start, end, event, done, requests, cursor>>
        /\ cursor \in Nat /\ start \in Nat /\ end \in Nat /\ w \in Nat \ {0}
    BY WindowAssumption DEF IInv, TypeOK, PlanDone, planVars, ReadsAreOld, Active
  <1>2. n \in Nat /\ n * w \in Nat
    BY <1>1, MulSucc DEF IInv, TypeOK
  <1>3. /\ cursor = IF start + n * w <= end THEN start + n * w ELSE end + 1
        /\ n > 0 => start + (n - 1) * w <= end
    BY <1>1 DEF ProgressInv, PlanCount
  <1>4. end < start + n * w
    BY <1>1, <1>2, <1>3
  <1>5. n # 0
    BY <1>1, <1>4
  <1>6. num_ranges(num_blocks(start, end), w) = n
    BY <1>1, <1>2, <1>3, <1>4, <1>5, CountsWindows
  <1> HIDE DEF n
  <1>7. PlanMatchesEstimate'
    BY <1>1, <1>6 DEF PlanMatchesEstimate, n
  <1>8. done = 0
    BY <1>1 DEF ProgressInv, EventTiming
  <1> QED
    BY <1>1, <1>2, <1>7, <1>8 DEF ProgressInv, EventTiming, PlanCount, CompletionIsEarned,
       Completions, Proving, n

LEMMA RunProgress ==
  ASSUME IInv, ProgressInv, Run
  PROVE  ProgressInv'
  <1> USE DEF ProgressInv, EventTiming, PlanMatchesEstimate, CompletionIsEarned, Completions,
          Proving, planVars, Event, NoEvent
  <1>0. Len(requests) \in Nat /\ start \in Nat /\ end \in Nat /\ done \in Nat
    BY DEF IInv, TypeOK
  <1>1. CASE ReadSafe \/ ReadLatest \/ NoDispute \/ Fail
    BY <1>1 DEF ReadSafe, ReadLatest, NoDispute, Fail, PlanCount, RequestsChain
  <1>2. ASSUME NEW m \in {head, 0}, ReadProven(m)
        PROVE  ProgressInv'
    BY <1>2 DEF ReadProven, PlanCount
  <1>3. CASE QueryDispute
    BY <1>3 DEF QueryDispute, PlanCount
  <1>4. CASE ReadState
    <2>1. /\ Len(requests') = 0 /\ cursor' = start /\ start <= end /\ UNCHANGED <<start, end>>
          /\ 0 * aggregation_window = 0 /\ pc' = "plan" /\ pc = "state"
          /\ UNCHANGED <<event, done>>
      BY <1>4, WindowAssumption DEF ReadState, IInv, ReadsAreOld, Active
    <2>2. PlanCount'
      BY <1>0, <2>1 DEF PlanCount
    <2> QED
      BY <2>1, <2>2
  <1>5. CASE PlanRequest \/ PlanDone
    BY <1>5, PlanRequestProgress, PlanDoneProgress
  <1>6. CASE Submit
    BY <1>0, <1>6 DEF Submit, RequestEvent, PlanCount
  <1>7. CASE Wait
    BY <1>0, <1>7 DEF Wait, RequestEvent, PlanCount
  <1>8. CASE SubmitAggregation \/ FinishDispute
    <2>1. /\ RequestsChain /\ requests # <<>> /\ requests[Len(requests)].l2_end_block = end
          /\ done = Len(requests)
      BY <1>8 DEF IInv, PlanTiles, SubmitAggregation, FinishDispute
    <2>2. done > 0
      BY <1>0, <2>1 DEF IInv, TypeOK
    <2> QED
      BY <1>8, <2>1, <2>2 DEF SubmitAggregation, FinishDispute, RequestsChain, PlanCount
  <1>9. CASE WaitAggregation
    BY <1>9 DEF WaitAggregation, RequestsChain, PlanCount
  <1>10. CASE SkipAggregation \/ Sleep
    BY <1>10 DEF SkipAggregation, Sleep, PlanCount
  <1> QED
    BY <1>1, <1>2, <1>3, <1>4, <1>5, <1>6, <1>7, <1>8, <1>9, <1>10 DEF Run, Answer

LEMMA ProgressInvariance == Spec => []ProgressInv
  <1>1. IInv /\ ProgressInv /\ [Next]_vars => ProgressInv'
    <2> SUFFICES ASSUME IInv, ProgressInv, [Next]_vars PROVE ProgressInv'
      OBVIOUS
    <2>1. CASE UNCHANGED engineVars
      BY <2>1 DEF engineVars, planVars, ProgressInv, PlanCount, EventTiming,
         PlanMatchesEstimate, CompletionIsEarned, RequestsChain
    <2>2. CASE Run
      BY <2>2, RunProgress
    <2> QED
      BY <2>1, <2>2 DEF Next, L1Finalizes, SafeAdvances, Contracts, vars
  <1> QED
    BY <1>1, Invariance, ProgressInit, PTL DEF Spec

(***************************************************************************)
(* For every window and every range, the engine's loop makes as many       *)
(* requests as the estimate's division announces.                          *)
(***************************************************************************)
THEOREM EstimateCountsThePlan == Spec => []PlanMatchesEstimate
  BY ProgressInvariance, PTL DEF ProgressInv

(***************************************************************************)
(* No event claims a range of which a request is still to be proved.       *)
(***************************************************************************)
THEOREM CompletionsAreEarned == Spec => []CompletionIsEarned
  BY ProgressInvariance, PTL DEF ProgressInv

-----------------------------------------------------------------------------
(* How long one iteration of run() can be: the safety half of KeepsPolling. *)

\* The stations of an iteration, and what is left to do in the loops of two of them:
\* blocks to plan, and calls of the dispatcher.
Phase ==
  [poll |-> 6, poll_proven |-> 5, poll_dispute |-> 5, state |-> 4, plan |-> 3,
   submit |-> 2, wait |-> 2, agg_wait |-> 1, sleep |-> 0, failed |-> 0]

Left ==
  CASE pc = "plan" -> end + 1 - cursor
    [] pc = "submit" -> 2 * (Len(requests) - done) + 1
    [] pc = "wait" -> 2 * (Len(requests) - done)
    [] OTHER -> 0

LEMMA LeftIsNatural ==
  ASSUME IInv, ProgressInv
  PROVE  Left \in Nat
  <1>1. CASE pc = "plan"
    <2>1. cursor \in Nat /\ end \in Nat /\ cursor <= end + 1
      BY <1>1 DEF IInv, TypeOK, PlanLoop
    <2> QED
      BY <1>1, <2>1 DEF Left
  <1>2. CASE pc \in {"submit", "wait"}
    <2>1. done <= Len(requests) /\ done \in Nat /\ Len(requests) \in Nat
      BY <1>2 DEF ProgressInv, EventTiming, Proving, IInv, TypeOK
    <2> QED
      BY <1>2, <2>1 DEF Left
  <1>3. CASE pc \notin {"plan", "submit", "wait"}
    BY <1>3 DEF Left
  <1> QED
    BY <1>1, <1>2, <1>3

(***************************************************************************)
(* Every step of run() between one poll and the next brings its end        *)
(* nearer: an error ends it, or it comes to a later station, or less is    *)
(* left to do at the same one.  The chain cannot prolong an iteration: no  *)
(* block that becomes safe, no proof and no dispute of others changes what *)
(* is left.                                                                *)
(***************************************************************************)
Nearer ==
  \/ pc' = "failed"
  \/ Phase[pc'] < Phase[pc]
  \/ Phase[pc'] = Phase[pc] /\ Left' < Left

IterationsDescend ==
  [][/\ Run /\ ~ Sleep => Nearer
     /\ ~ Run => UNCHANGED <<pc, Left>>]_vars

LEMMA PlanDescends ==
  ASSUME IInv, PlanRequest
  PROVE  Nearer
  <1>1. /\ pc = "plan" /\ pc' = "plan" /\ end' = end /\ cursor' = RangeEnd(cursor) + 1
        /\ cursor \in Nat /\ end \in Nat /\ cursor <= end
    BY DEF PlanRequest, IInv, TypeOK
  <1>2. RangeEnd(cursor) \in Nat /\ cursor <= RangeEnd(cursor)
    BY <1>1, RangeEndBounds
  <1>3. Left = end + 1 - cursor /\ Left' = end + 1 - cursor'
    BY <1>1 DEF Left
  <1>4. Left' < Left
    BY <1>1, <1>2, <1>3
  <1> QED
    BY <1>1, <1>4 DEF Nearer

LEMMA ProofsDescend ==
  ASSUME IInv, ProgressInv, Submit \/ Wait
  PROVE  Nearer
  <1> DEFINE n == Len(requests)
  <1>1. done \in Nat /\ n \in Nat /\ requests' = requests
    BY DEF IInv, TypeOK, Submit, Wait, planVars
  <1>2. CASE Submit
    <2>1. pc = "submit" /\ pc' = "wait" /\ done' = done
      BY <1>2 DEF Submit
    <2>2. Left = 2 * (n - done) + 1 /\ Left' = 2 * (n - done)
      BY <1>1, <2>1 DEF Left
    <2>3. Left' < Left
      BY <1>1, <2>2
    <2> QED
      BY <2>1, <2>3 DEF Nearer, Phase
  <1>3. CASE Wait
    <2>1. pc = "wait" /\ pc' = "submit" /\ done' = done + 1
      BY <1>3 DEF Wait
    <2>2. Left = 2 * (n - done) /\ Left' = 2 * (n - (done + 1)) + 1
      BY <1>1, <2>1 DEF Left
    <2>3. Left' < Left
      BY <1>1, <2>2
    <2> QED
      BY <2>1, <2>3 DEF Nearer, Phase
  <1> QED
    BY <1>2, <1>3

LEMMA OthersDescend ==
  ASSUME \/ ReadSafe \/ ReadLatest \/ Answer \/ NoDispute \/ ReadState \/ PlanDone
         \/ SubmitAggregation \/ WaitAggregation \/ SkipAggregation \/ FinishDispute \/ Fail
  PROVE  Nearer
  BY DEF ReadSafe, ReadLatest, Answer, QueryDispute, ReadProven, NoDispute, ReadState, PlanDone,
     SubmitAggregation, WaitAggregation, SkipAggregation, FinishDispute, Fail, Nearer, Phase

\* An iteration of run() has an end, however long its plan and whatever the chain does.
THEOREM IterationsAreFinite == Spec => [](Left \in Nat) /\ IterationsDescend
  <1>1. IInv /\ ProgressInv => Left \in Nat
    BY LeftIsNatural
  <1>2. IInv /\ ProgressInv /\ [Next]_vars
          => [/\ Run /\ ~ Sleep => Nearer
              /\ ~ Run => UNCHANGED <<pc, Left>>]_vars
    <2> SUFFICES ASSUME IInv, ProgressInv, [Next]_vars
                 PROVE  /\ Run /\ ~ Sleep => Nearer
                        /\ ~ Run => UNCHANGED <<pc, Left>>
      OBVIOUS
    <2>1. ASSUME Run, ~ Sleep PROVE Nearer
      BY <2>1, PlanDescends, ProofsDescend, OthersDescend DEF Run
    <2>2. ASSUME ~ Run PROVE UNCHANGED <<pc, Left>>
      <3>1. UNCHANGED engineVars
        BY <2>2 DEF Next, L1Finalizes, SafeAdvances, Contracts, vars
      <3> QED
        BY <3>1 DEF engineVars, planVars, Left
    <2> QED
      BY <2>1, <2>2
  <1> QED
    BY <1>1, <1>2, Invariance, ProgressInvariance, PTL DEF Spec, IterationsDescend

=============================================================================
