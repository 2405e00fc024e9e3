------------------------------- MODULE Engine -------------------------------
(***************************************************************************)
(* The orchestration engine (crates/orchestrator/src/engine.rs) with the   *)
(* chain monitor it polls (monitor.rs, rpc_monitor.rs) and the dispatcher  *)
(* it hands proof jobs to (dispatcher.rs), run against SettlementView.     *)
(*                                                                         *)
(* Every RPC is a step of its own, so the chain moves between the reads    *)
(* that make up one answer of the monitor.  Locals of a loop iteration are *)
(* reset when the iteration ends.                                          *)
(***************************************************************************)
EXTENDS SettlementView, Intent

CONSTANTS
  aggregation_window,   \* ResolvedIntent.aggregation_window
  MaxL1,                \* bound on the finalized L1 block number
  MaxBlock              \* bound on the safe L2 block number

ASSUME WindowAssumption == aggregation_window \in Nat \ {0}
ASSUME BlocksAssumption == Blocks \subseteq Nat

VARIABLES
  l1_finalized,         \* number of the finalized L1 block
  l2_safe,              \* number of the safe L2 block
  proof_mode,           \* ResolvedIntent.proof_mode
  dispute_address,      \* whether with_dispute_address was called on the monitor
  pc,                   \* where run() is
  seen,                 \* the last number an RPC returned
  start, end,           \* the range being proved
  l1_head,              \* ChainState.l1_head of the second get_state
  cursor, requests,     \* plan_range
  done,                 \* range_proofs.len()
  event                 \* the last EngineEvent sent

chainVars == <<l1_finalized, l2_safe, viewVars>>
planVars == <<cursor, requests, l1_head>>
engineVars == <<proof_mode, dispute_address, pc, seen, start, end, planVars, done, event>>
vars == <<chainVars, engineVars>>

Event(type, s, e) == [type |-> type, start |-> s, end |-> e]
NoEvent == Event("None", 0, 0)

Init ==
  /\ ViewInit
  /\ l1_finalized = 0
  /\ l2_safe = 0
  /\ proof_mode \in {"Beacon", "Sentinel"}
  /\ dispute_address \in {"Some", "None"}
  /\ pc = "poll"
  /\ seen = 0 /\ start = 0 /\ end = 0 /\ l1_head = 0
  /\ cursor = 0 /\ requests = <<>> /\ done = 0
  /\ event = NoEvent

-----------------------------------------------------------------------------
(* Beacon: pending_range() calls get_state(), which reads the safe L2 block *)
(* first and the oracle's head after it.                                    *)

ReadSafe ==
  /\ proof_mode = "Beacon" /\ pc = "poll"
  /\ seen' = l2_safe
  /\ pc' = "poll_proven"
  /\ UNCHANGED <<chainVars, proof_mode, dispute_address, start, end, planVars, done, event>>

\* A mutation of PendingStart: the head itself is proved again.
PendingFromHead(proven_block) == proven_block

PendingStart(proven_block) == proven_block + 1

\* n is the oracle's answer: its head, or 0 for a response of unexpected length.
ReadProven(n) ==
  /\ pc = "poll_proven"
  /\ IF seen > n
     THEN /\ start' = PendingStart(n)
          /\ end' = seen
          /\ event' = Event("RangeDetected", PendingStart(n), seen)
          /\ pc' = "state"
     ELSE /\ pc' = "sleep"
          /\ UNCHANGED <<start, end, event>>
  /\ UNCHANGED <<chainVars, proof_mode, dispute_address, seen, planVars, done>>

-----------------------------------------------------------------------------
(* Sentinel: active_dispute() asks the oracle for its head and the game     *)
(* whether that one block is disputed; without the game's address it asks   *)
(* nobody and answers None.                                                 *)

\* A mutation of ReadLatest: the block below the head is asked about.
ReadsBelowHead ==
  /\ proof_mode = "Sentinel" /\ dispute_address = "Some" /\ pc = "poll"
  /\ seen' = IF head = 0 THEN 0 ELSE head - 1
  /\ pc' = "poll_dispute"
  /\ UNCHANGED <<chainVars, proof_mode, dispute_address, start, end, planVars, done, event>>

ReadLatest ==
  /\ proof_mode = "Sentinel" /\ dispute_address = "Some" /\ pc = "poll"
  /\ seen' = head
  /\ pc' = "poll_dispute"
  /\ UNCHANGED <<chainVars, proof_mode, dispute_address, start, end, planVars, done, event>>

\* A mutation of QueryDispute: the block number is read again after the answer.
ReportsNewHead ==
  /\ pc = "poll_dispute" /\ seen \in open
  /\ start' = head /\ end' = head
  /\ event' = Event("DisputeDetected", head, head)
  /\ pc' = "state"
  /\ UNCHANGED <<chainVars, proof_mode, dispute_address, seen, planVars, done>>

QueryDispute ==
  /\ pc = "poll_dispute" /\ seen \in open
  /\ start' = seen /\ end' = seen
  /\ event' = Event("DisputeDetected", seen, seen)
  /\ pc' = "state"
  /\ UNCHANGED <<chainVars, proof_mode, dispute_address, seen, planVars, done>>

\* No address, the answer is no, or one of the two calls failed: errors are swallowed.
NoDispute ==
  /\ \/ proof_mode = "Sentinel" /\ pc = "poll"
     \/ pc = "poll_dispute"
  /\ pc' = "sleep"
  /\ UNCHANGED <<chainVars, proof_mode, dispute_address, seen, start, end, planVars, done, event>>

-----------------------------------------------------------------------------
(* Both: a second get_state(), of which only l1_head is used, then          *)
(* plan_range, one loop turn per step.                                      *)

ReadState ==
  /\ pc = "state"
  /\ l1_head' = l1_finalized
  /\ cursor' = start
  /\ requests' = <<>>
  /\ pc' = "plan"
  /\ UNCHANGED <<chainVars, proof_mode, dispute_address, seen, start, end, done, event>>

Minimum(a, b) == IF a <= b THEN a ELSE b

\* Mutations of RangeEnd: one block too many per request; no cap at the end.
RangeEndOffByOne(c) == Minimum(c + aggregation_window, end)
RangeEndUncapped(c) == c + aggregation_window - 1

RangeEnd(c) == Minimum(c + aggregation_window - 1, end)

PlanRequest ==
  /\ pc = "plan" /\ cursor <= end
  /\ requests' = Append(requests, [l1_head |-> l1_head, l2_start_block |-> cursor,
                                   l2_end_block |-> RangeEnd(cursor)])
  /\ cursor' = RangeEnd(cursor) + 1
  /\ UNCHANGED <<chainVars, proof_mode, dispute_address, pc, seen, start, end, l1_head, done, event>>

PlanDone ==
  /\ pc = "plan" /\ ~ (cursor <= end)
  /\ pc' = "submit"
  /\ UNCHANGED <<chainVars, proof_mode, dispute_address, seen, start, end, planVars, done, event>>

-----------------------------------------------------------------------------
(* The requests are submitted and awaited one after the other.              *)

RequestEvent(type) ==
  LET r == requests[done + 1] IN
  IF proof_mode = "Beacon" THEN Event(type, r.l2_start_block, r.l2_end_block) ELSE event

Submit ==
  /\ pc = "submit" /\ done < Len(requests)
  /\ event' = RequestEvent("ProofStarted")
  /\ pc' = "wait"
  /\ UNCHANGED <<chainVars, proof_mode, dispute_address, seen, start, end, planVars, done>>

\* A mutation of Wait: the finished request stays at the front.
WaitsAgain ==
  /\ pc = "wait"
  /\ event' = RequestEvent("ProofCompleted")
  /\ pc' = "submit"
  /\ UNCHANGED <<chainVars, proof_mode, dispute_address, seen, start, end, planVars, done>>

Wait ==
  /\ pc = "wait"
  /\ event' = RequestEvent("ProofCompleted")
  /\ done' = done + 1
  /\ pc' = "submit"
  /\ UNCHANGED <<chainVars, proof_mode, dispute_address, seen, start, end, planVars>>

\* More than one range proof: submit_aggregation(range_proofs).
SubmitAggregation ==
  /\ proof_mode = "Beacon" /\ pc = "submit"
  /\ done = Len(requests) /\ done > 1
  /\ event' = Event("AggregationStarted", start, end)
  /\ pc' = "agg_wait"
  /\ UNCHANGED <<chainVars, proof_mode, dispute_address, seen, start, end, planVars, done>>

WaitAggregation ==
  /\ pc = "agg_wait"
  /\ event' = Event("AggregationCompleted", start, end)
  /\ pc' = "sleep"
  /\ UNCHANGED <<chainVars, proof_mode, dispute_address, seen, start, end, planVars, done>>

SkipAggregation ==
  /\ proof_mode = "Beacon" /\ pc = "submit"
  /\ done = Len(requests) /\ done <= 1
  /\ pc' = "sleep"
  /\ UNCHANGED <<chainVars, proof_mode, dispute_address, seen, start, end, planVars, done, event>>

\* A mutation of FinishDispute: the proofs are submitted and not waited for.
FinishEarly ==
  /\ proof_mode = "Sentinel" /\ pc \in {"submit", "wait"}
  /\ event' = Event("DisputeResolved", start, end)
  /\ pc' = "sleep"
  /\ UNCHANGED <<chainVars, proof_mode, dispute_address, seen, start, end, planVars, done>>

FinishDispute ==
  /\ proof_mode = "Sentinel" /\ pc = "submit" /\ done = Len(requests)
  /\ event' = Event("DisputeResolved", start, end)
  /\ pc' = "sleep"
  /\ UNCHANGED <<chainVars, proof_mode, dispute_address, seen, start, end, planVars, done>>

\* A monitor or dispatcher error: the `?` leaves run() and the loop ends.
Fail ==
  /\ \/ pc \in {"state", "wait", "agg_wait", "poll_proven"}
     \/ pc = "submit" /\ (done < Len(requests) \/ (proof_mode = "Beacon" /\ done > 1))
     \/ proof_mode = "Beacon" /\ pc = "poll"
  /\ pc' = "failed"
  /\ UNCHANGED <<chainVars, proof_mode, dispute_address, seen, start, end, planVars, done, event>>

Sleep ==
  /\ pc = "sleep"
  /\ pc' = "poll"
  /\ seen' = 0 /\ start' = 0 /\ end' = 0 /\ l1_head' = 0
  /\ cursor' = 0 /\ requests' = <<>> /\ done' = 0
  /\ event' = NoEvent
  /\ UNCHANGED <<chainVars, proof_mode, dispute_address>>

Answer == QueryDispute \/ \E n \in {head, 0} : ReadProven(n)

Run ==
  \/ ReadSafe \/ ReadLatest \/ Answer \/ NoDispute \/ ReadState
  \/ PlanRequest \/ PlanDone \/ Submit \/ Wait
  \/ SubmitAggregation \/ WaitAggregation \/ SkipAggregation \/ FinishDispute
  \/ Fail \/ Sleep

-----------------------------------------------------------------------------
(* The chain: L1 finalizes, L2 blocks become safe, others use the contracts. *)

L1Finalizes ==
  /\ l1_finalized < MaxL1
  /\ l1_finalized' = l1_finalized + 1
  /\ UNCHANGED <<l2_safe, viewVars, engineVars>>

SafeAdvances ==
  /\ l2_safe < MaxBlock
  /\ l2_safe' = l2_safe + 1
  /\ UNCHANGED <<l1_finalized, viewVars, engineVars>>

Contracts ==
  /\ ViewNext
  /\ UNCHANGED <<l1_finalized, l2_safe, engineVars>>

Next == Run \/ L1Finalizes \/ SafeAdvances \/ Contracts

Spec == Init /\ [][Next]_vars

(***************************************************************************)
(* Weak fairness of the loop: tokio keeps polling the task and every await *)
(* returns, with a value or an error.  Strong fairness of the two calls    *)
(* behind active_dispute: an RPC that is retried at every poll does not    *)
(* fail every time.                                                        *)
(***************************************************************************)
FairSpec == Spec /\ WF_vars(Run) /\ SF_vars(ReadLatest) /\ SF_vars(QueryDispute)

-----------------------------------------------------------------------------

Proving == {"submit", "wait", "agg_wait"}
Active == {"state", "plan"} \union Proving

TypeOK ==
  /\ l1_finalized \in Nat /\ l2_safe \in Nat
  /\ head \in Nat
  /\ proven \subseteq Blocks /\ open \subseteq Blocks /\ closed \subseteq Blocks
  /\ proof_mode \in {"Beacon", "Sentinel"}
  /\ dispute_address \in {"Some", "None"}
  /\ pc \in {"poll", "poll_proven", "poll_dispute", "sleep", "failed"} \union Active
  /\ seen \in Nat /\ start \in Nat /\ end \in Nat
  /\ l1_head \in Nat /\ cursor \in Nat /\ done \in Nat
  /\ requests \in Seq([l1_head : Nat, l2_start_block : Nat, l2_end_block : Nat])

(***************************************************************************)
(* plan_range: the requests cover start .. end exactly once, in order,     *)
(* without gap or overlap, each is not empty and not longer than the       *)
(* aggregation window, and all share one L1 head.                          *)
(***************************************************************************)
RequestsChain ==
  \A i \in 1 .. Len(requests) :
    /\ requests[i].l2_start_block =
         IF i = 1 THEN start ELSE requests[i - 1].l2_end_block + 1
    /\ requests[i].l2_start_block <= requests[i].l2_end_block
    /\ requests[i].l2_end_block <= end
    /\ requests[i].l2_end_block < requests[i].l2_start_block + aggregation_window
    /\ requests[i].l1_head = l1_head

PlanTiles ==
  pc \in Proving =>
    /\ RequestsChain
    /\ requests # <<>> /\ requests[Len(requests)].l2_end_block = end

(***************************************************************************)
(* A beacon range leaves no gap on the chain as it is now, although the    *)
(* monitor read it in several calls: it starts at most one block above the *)
(* oracle's head, so that nothing between is skipped, it never asks for    *)
(* genesis, and it ends at a block that is safe.  It may be superfluous:   *)
(* others may have proved past its end since it was read.                  *)
(***************************************************************************)
RangeLeavesNoGap ==
  proof_mode = "Beacon" /\ pc \in Active =>
    /\ 1 <= start /\ start <= head + 1
    /\ start <= end /\ end <= l2_safe

(***************************************************************************)
(* A sentinel never proves on a false alarm: the one block it proves was   *)
(* proven in the oracle and challenged in the game, although the head it   *)
(* asked about and the dispute it was told of come from different calls.   *)
(***************************************************************************)
DisputeIsReal ==
  proof_mode = "Sentinel" /\ pc \in Active =>
    start = end /\ start \in open \union closed /\ start <= head

(***************************************************************************)
(* The engine dispatches exactly as many range proofs as `estimate` tells  *)
(* the operator are needed for the same blocks: a loop over a cursor here, *)
(* a rounded-up division in crates/cli/src/commands/estimate.rs there.     *)
(***************************************************************************)
PlanMatchesEstimate ==
  pc \in Proving => Len(requests) = num_ranges(num_blocks(start, end), aggregation_window)

(***************************************************************************)
(* An event that announces a whole range, up to and including              *)
(* DisputeResolved, is sent only after every request of a plan for exactly *)
(* that range was proved and waited for: no failure of one request on the  *)
(* way, which ends the loop by `?`, leaves such an event behind.           *)
(***************************************************************************)
Completions == {"AggregationStarted", "AggregationCompleted", "DisputeResolved"}

CompletionIsEarned ==
  event.type \in Completions =>
    /\ RequestsChain /\ done = Len(requests) /\ done > 0
    /\ event.start = start /\ event.end = end /\ requests[done].l2_end_block = end

\* The loop invariant of plan_range, and what the contracts keep.
PlanLoop ==
  pc = "plan" =>
    /\ RequestsChain
    /\ cursor = IF requests = <<>> THEN start ELSE requests[Len(requests)].l2_end_block + 1
    /\ cursor <= end + 1

ReadsAreOld ==
  /\ pc = "poll_proven" => seen <= l2_safe /\ proof_mode = "Beacon"
  /\ pc = "poll_dispute" => seen <= head /\ proof_mode = "Sentinel"
  /\ pc \in Active => start <= end

ViewSound ==
  /\ open \union closed \subseteq proven
  /\ \A b \in proven : b <= head

IInv ==
  /\ TypeOK /\ ViewSound /\ ReadsAreOld /\ PlanLoop
  /\ PlanTiles /\ RangeLeavesNoGap /\ DisputeIsReal

\* The windows already planned are full; when each event can be the last one sent.
PlanCount ==
  pc = "plan" =>
    LET n == Len(requests)
        full == start + n * aggregation_window
    IN /\ cursor = IF full <= end THEN full ELSE end + 1
       /\ n > 0 => start + (n - 1) * aggregation_window <= end

EventTiming ==
  /\ event.type \in Completions => pc \in {"agg_wait", "sleep", "failed"}
  /\ pc \in Proving => done <= Len(requests)
  /\ pc = "wait" => done < Len(requests)
  /\ pc \in {"poll", "poll_proven", "poll_dispute", "state", "plan"} => done = 0
  /\ pc = "agg_wait" => event.type \in Completions

ProgressInv == PlanCount /\ EventTiming /\ PlanMatchesEstimate /\ CompletionIsEarned

(***************************************************************************)
(* "Run the engine loop": run() keeps polling until an error ends it, so   *)
(* that no iteration, whatever it plans, goes on forever.                  *)
(***************************************************************************)
KeepsPolling == []<>(pc \in {"poll", "failed"})

(***************************************************************************)
(* A dispute over the oracle's head is noticed by a running sentinel whose *)
(* monitor was given the game's address, unless it is resolved, or the     *)
(* head moves on, before that.  The default is no address, and the serve   *)
(* command sets none: such a sentinel notices nothing, for ever.           *)
(***************************************************************************)
Noticed(b) == event.type = "DisputeDetected" /\ event.start = b

HeadDisputeNoticed ==
  \A b \in Blocks :
    (proof_mode = "Sentinel" /\ dispute_address = "Some" /\ b \in open /\ b = head)
      ~> (Noticed(b) \/ b \notin open \/ b # head \/ pc = "failed")

(***************************************************************************)
(* monitor.rs: active_dispute "Returns an active dispute if one exists."   *)
(* So every open dispute is noticed by a sentinel that keeps running and   *)
(* knows the game's address.                                               *)
(***************************************************************************)
EveryDisputeNoticed ==
  \A b \in Blocks :
    (proof_mode = "Sentinel" /\ dispute_address = "Some" /\ b \in open)
      ~> (Noticed(b) \/ b \notin open \/ pc = "failed")

(***************************************************************************)
(* engine.rs: "Beacon: continuously proves every block range and submits   *)
(* proofs."  So a safe block is covered by the oracle's head in the end.   *)
(***************************************************************************)
BeaconSettles ==
  \A b \in 1 .. MaxBlock :
    (proof_mode = "Beacon" /\ b <= l2_safe) ~> (b <= head \/ pc = "failed")

=============================================================================
