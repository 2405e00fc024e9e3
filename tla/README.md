# A TLA+ development of open-zk

open-zk proves the state transitions of an OP Stack rollup with SP1 or RISC
Zero and settles them in two contracts. This directory holds TLA+ models of its
core, the TLC configurations that check them on small instances, and proofs,
checked by TLAPS, that the main properties hold for every instance. All
definitions are translated from the code; `PROJECT.json` maps each of them to
the lines it models.

## The system

| Component | State | Operations | Interacts with |
|---|---|---|---|
| `OpenZkL2OutputOracle` | proposals by block, head, program identifiers | `submitSp1Proof`, `submitRisc0Proof`, key setters | verifier contracts, read by game and monitor |
| `OpenZkDisputeGame` | one dispute per block, its own program identifiers | `challenge`, `resolve`, key setters | reads the oracle |
| `RpcChainMonitor` | none | `get_state` (three RPCs), `pending_range`, `active_dispute` (two RPCs) | L1 node, L2 node, contracts |
| `OrchestrationEngine` | locals of one loop iteration, event channel | beacon loop, sentinel loop, `plan_range` | monitor, dispatcher |
| `ProofDispatcher` | job handles | `submit`, `wait`, `submit_aggregation` | engine (only a mock exists) |
| `RpcWitnessProvider`, CLI witness helper | temporary config files, preimage store | `generate_witness` and the reads behind it | L1, L2, OP and beacon nodes, kona host |
| range guest (`run_pipeline`) | derivation state | boot, derive, compare, commit | preimages from the host |
| aggregation guest | inner journals | verify, check continuity, commit | range journals |
| `RpcProofSubmitter` | none | `submit_proof`, `resolve_dispute` | contracts through an L1 node |
| Celestia and EigenDA sources | items of the current L1 block, `open` | `next` (loads on demand), `clear` | L1 data and preimage oracle; called by kona's pipeline |
| `CliConfig`, `OpenZkConfig`, `IntentResolver` | none | parse with defaults, convert, resolve | every command; the engine |
| prover backends | none | `prove`, `verify`, `count_cycles` | SP1 and RISC Zero SDKs |
| pricing providers | token rate | `supports_backend`, `price` | Boundless indexer, Succinct network, CoinGecko |
| CLI `init`, `prove`, `estimate`, `serve` | `open-zk.toml`, the locals of a process | one run of the command | all of the above |
| CLI `fast-track`, deployment script | `deployment.json`, deployer's nonce, contracts | preflight, `forge script`, parse, record | L1 node, forge |
| codecs, `status` | see *Not modelled* | | |

What is hard about it: the chain moves between any two RPCs (monitor, witness
provider, submitter); proofs arrive out of order, twice, and from several
operators; transactions are estimated in one state and executed in another;
program identifiers change while proofs are in flight; the two contracts hold
copies of each other's data; the pieces of a plan have to fit together after
being proved separately; concurrent witness generations share files; deployments
with one key race for nonces and may stop half way; whether a proof or a price
is a real one depends on a file, the environment and the build at once. The full
list, with the lines, is under `hazards` in `PROJECT.json`.

## Modules

```
OutputOracle <- DisputeGame <- Settlement          (the contracts, then their clients)
                    |  implements
               SettlementView <- Engine            (what readers see, and the engine reading it)
RangeProving   Aggregation                         (request -> journal -> aggregate)
WitnessFiles                                       (files of a witness)
DaSource --implements--> BlockFeed                 (data of an L1 block, and what is asked of it)
Intent, Pricing, Prover <- Command <- Cli          (the command line tool)
                         FastTrack <-
Intent <- Engine                                   (the estimate's count against the plan)
```

* **OutputOracle** - the oracle contract. A revert is the absence of a step. A
  verifier is a set of (backend, program, journal) triples for which some proof
  verifies. `U64` is the number of `uint64` values; `BlockOf` truncates the
  journal's 256-bit word to it.
* **DisputeGame** - the game, extending the oracle. `resolvedAt` is a history
  variable.
* **SettlementView** - the abstract specification: head, proven, open and
  closed blocks. `DisputeGame!View` is the refinement mapping. A journal with a
  zero root moves the head without making the block proven, which is why
  `Record` leaves a choice.
* **Engine** - engine, monitor and dispatcher against `SettlementView`. `pc`
  is the place in `run()`, one step per RPC, per request planned and per job;
  the locals of an iteration are reset by `Sleep`. `Fail` is the `?` that leaves
  the loop. Jobs are awaited one after the other, as in the code
  (`max_concurrent_proofs` is not read by it). `event` is the last one
  sent; `Completions` are the kinds that announce a finished plan.
  `dispute_address` is whether the monitor was given the game's address: without
  it `active_dispute` answers None before its first call. The safe L2 block number
  does not go back.
* **RangeProving** - the CLI's request (or the engine's, with its zero start
  root), the reads of `generate_witness`, and the range guest. A root stands
  for one block of one fork; `Views` are the answers the nodes may give and
  `ChainMoves` is any growth or reorganisation of L1 and L2. `Derives` abstracts
  kona: which root is derived on which, from L1 up to which head. The kona
  client's own verdict during collection is left open, so that the guest's
  checks carry the result. The preimage of the agreed root is in the witness
  only if it is the output of the agreed head that was read. The journal's
  `rollup_config_hash` is the zero the guest commits.
* **Aggregation** - `main()` of the aggregation guest, one step per loop turn;
  the host's inputs are arbitrary, and the key the inner proofs are verified
  against is one of them. `Proved` says which program has a proof of which input;
  only the programs in `RangeVKeys` are assumed sound.
* **Settlement** - calls of `RpcProofSubmitter` in front of the contracts. The
  mempool, the estimate made by the alloy provider before sending, and the
  execution in any order are external. A retry is another call, so a member of
  `Clients` is one call rather than one operator. The contract functions are open
  to everybody: `Others` are direct calls, with every journal that verifies and for
  every dispute, at any time.

* **WitnessFiles** - the other half of `generate_witness`: the two temporary
  configuration files, named by the process id, with calls that overlap in any
  way. A write is a truncation and a write, so another call may read a torn
  file; the files may hold what an earlier process of the same id left
  (`Leftovers`). A read that finds a torn file is an error in the call itself,
  a hang in the kona client, and a silently missing local key at the end. What the
  client is served is what is modelled: for the L1 chains it knows (mainnet, sepolia,
  holesky) it goes by its own registry (`rpc.rs:211`). A configuration is its network and whether the fork times were merged.
  `overlapped` is a history variable.
* **DaSource** - both commitment based sources, which differ in `OwnPrefix`.
  `next` has one step per await. The pipeline that calls it (advance after Eof,
  reset to an earlier block) is external. A resolved commitment and passed
  through calldata are items with the index of their transaction.
* **BlockFeed** - the abstract specification of such a source: the items of a
  block one by one, the end of the block when none is missing, and the same
  again after a reset. It knows no queue, no loading and no `open`;
  `DaSource!Feed` is the refinement mapping.

* **Intent** - the defaults of a configuration file, the conversions with their
  fall-backs (an unknown backend is `Auto`, an unknown security `Standard`, an
  unknown allowed backend is dropped), the resolver, `is_mock_mode` and the
  estimate's arithmetic. Operators only.
* **Pricing**, **Prover** - the providers and the backends, operators only. A
  proof is who made it and whether it is genuine; its public values are the journal
  the range program commits on the witness (`range_journal`: from the root at the
  first block of the range to its last block). Prices are small naturals, doubled so that a median is a
  number; the samples' costs are multiples of their cycles. `Sorted` is what
  `sort_by` promises, the prices of the usable samples in an order that does not
  fall, and not how it gets there.
* **Command** - one process of the tool after the other, from `main`'s match to
  its exit, one step per await and per file access. The file may be edited and
  the process killed at any time; `init` truncates before it writes. Generating a
  witness succeeds, fails, or hangs (`WitnessHangs`): the await of the kona client has
  no timeout. `serve`
  ends at the engine's start, except that the skeleton monitor of a build
  without the `rpc` feature is polled.
* **FastTrack** - calls of `fast-track` side by side. An address is a deployer
  and a nonce. forge simulates, prints, and broadcasts transactions that are
  valid for one nonce each. A contract keeps the arguments that tie it to the others;
  the challenge timeout is passed to the game and not recorded, and left out. `DeployFails` is every error exit and the kill, at
  any point; `Again` is the retry. A write over a record that another call has
  just written may leave a garbled file.
* **Cli** - Command and FastTrack together, with the properties of both.

Operators called *a mutation of X* are deliberately wrong variants of `X`; each
property is violated when one of them replaces its original, which shows
that the property depends on that piece of the code.

## What the runs check

| Run | Shows | Bounds |
|---|---|---|
| `dispute_game` | head is the highest block and its root agrees with its proposal; proven proposals and verdicts are final; a dispute's copied root never goes stale; the contracts implement `SettlementView` | 3 block numbers (so that word 4 wraps to 1), 3 roots with zero, 2 program identifiers, time up to 3, a short journal, the always accepting mock verifier |
| `engine` | plans tile the range; in spite of torn reads a range acted on leaves no gap above the head (it may have become superfluous) and a dispute acted on is real; a completion event comes only after every proof of its plan; the plan has as many requests as the estimate says; the loop keeps polling; a dispute over the head is noticed by a monitor that has the game's address | 5 blocks, window 2 (three requests, the last one short), contracts on blocks 2 and 4, monitors with and without the game's address |
| `aggregation` | a committed aggregate covers all inner journals, proved by one program, and attests a derivation if that is a range program | up to 3 proofs out of 8 inputs, two configurations, two L1 heads, an undecodable input, a journal only another program proved, and either program's key |
| `range_proving` | journals are true and answer their requests whatever is reorganised between the reads | two L2 forks, three L1 heads, unsafe blocks, a header without withdrawals root, two adjacent ranges and a single block |
| `settlement` | Ok means settled; a verdict given through the submitter is on the journal's block and stands | two concurrent calls beside any direct ones, one key update, two programs that accept different journals; one instant, as no function reads the time but to store it |
| `da_source` | items are fed once, in order, to the right block, and Eof means nothing is missing but commitments without preimage; the sources implement `BlockFeed` | two L1 blocks with up to 2 and 1 transactions of ten kinds, a batcher that may change, failed loads and resets at any time |
| `witness_files` | a call on its own is consistent whatever was left in the files; a path of one's own isolates; calls that resolve the same configuration may overlap | two overlapping calls, two networks (one without `l1_chain_id`), all providers, files left torn or full |
| `cli` | a deployment record that parses names contracts that exist and are wired, and two successful calls never the same ones; no stand-in passes for a proof, no estimate is on the wrong market or too low; the market price is a middle one; commands end, unless the kona client hangs | two deployments with one key, one with a game, 7 transactions of the account (both deployments whole, or one broken by the other or by a foreign transaction); 71 command lines over three builds and four environments; six files besides the default one; up to seven samples of a market |

The deployments and the commands share no variable, so `MCCli` lets a session be
of one kind (`part`) and explores the sum of the halves and not their product.

The bounds are the smallest at which the cases meet: two ranges and an
aggregation need three requests to be told apart from a special last one;
a call, its retry and somebody who overtakes both are two calls and a direct one; truncation needs a word above
`U64`. The theorems below remove the bounds for everything but liveness.

Four runs expect a violation; each states what a comment of the repository
says and finds that the code does something else:

* `resolved_within_timeout` - `challengeTimeout` is never read.
* `every_dispute_noticed` - `active_dispute` asks about the head only.
* `beacon_settles` - the beacon loop drops its proofs; nothing is submitted.
* `plan_aggregates` - a range's pre root is the root *at* its first block, so
  the journals of adjacent ranges do not chain. With a range of one block the
  guest takes its trace extension and derives nothing.

Met on the way, stated in the comments of the definitions concerned, and not a run of
their own:

* the sentinel sends `DisputeResolved` ("A dispute has been resolved", `engine.rs:46`)
  when its proof exists and calls no submitter (`engine.rs:219`);
  `CompletionIsEarned` is what the event does mean;
* the estimate's "Per-range" cycles are those of the whole span, and the total
  multiplies them by the number of ranges (`estimate.rs:226`): it is an upper
  bound, which is what `EstimateIsHonest` says;
* `is_mock_mode` knows `SP1_PROVER` and not `RISC0_DEV_MODE`, so that a dev receipt is
  presented like a proof: the exception at the end of `NoFalseProof`;
* the aggregation guest reads `range_program_vkey` from the host and neither compares
  it with a constant nor commits it (`main.rs:27`): who reads an aggregate journal
  cannot tell which program its inner proofs are of. `AggregateIsSound` has it as a
  hypothesis;
* `resolve` is open to every account and compares the post root only
  (`OpenZkDisputeGame.sol:158`), so that a direct call with a valid journal of another
  block gives a verdict that is not about the disputed output, while `Dispute.valid` is
  "true = original output was correct" (line 25). `VerdictIsOnItsBlock` is therefore about
  the verdicts that the submitter obtains;
* `prove` calls its first block "inclusive" (`prove.rs:15`), and the proof starts from the
  root at that block: what is attested are the blocks after it, none if it is the last
  one too. `NoFalseProof` says so;
* `plan_range` leaves the start root zero, "filled by witness provider"
  (`engine.rs:243`); the provider passes it on, and no such request yields a journal
  (`JournalAnswersRequest`);
* a witness generation may wait for ever: `rpc.rs:411` knows that the client "hangs waiting
  for the preimage", and the await at `rpc.rs:473` has no timeout;
* the monitor knows no game unless it is given its address, and `serve` gives none: its
  sentinel notices nothing; nor does one on the skeleton monitor, while a beacon on it
  ends at its first poll;
* `fast-track` does not use `owner_key` and `submission_interval`, passes
  `starting_block` to the record only, and always deploys mock verifiers, also when
  `mock_mode` is recorded as false; the resolver does not read the target finality.

### Fairness

`Engine!FairSpec` assumes weak fairness of the loop (tokio polls the task, each
await returns a value or an error) and strong fairness of the two calls of
`active_dispute`, whose errors are swallowed and which are repeated at every
poll: a call tried forever does not fail every time. Nothing is assumed of the
chain. `Cli!FairSpec` assumes weak fairness of a process's own steps (`Step`): it
is alone in its loop and a step it can take is taken; nobody has to
stop, restart or edit anything. That nodes, provers and the network answer is an
assumption on them; only the requests for prices and rates have timeouts. It is not made
of the kona client: `WitnessHangs` leaves a process where no step is possible. The other modules state no fairness. Deadlock is not checked where the
program ends: the engine after an error, the guest after its commit, and
`Settlement` and `WitnessFiles` when all their calls have returned.

## What is proved

TLAPS checks, for all values of the constants under the named `ASSUME`s:

* **DisputeGameProofs** - `Invariance`, `HeadStaysHighest`, `HeadRootsAgree`,
  `DisputesMatch`, `ProvenStaysFinal`, `VerdictStaysFinal`, `Refinement`. The invariant adds to the properties that
  stored times are not in the future, that a proven block has a stored
  proposal and that verdicts belong to disputes (`Bookkeeping`); without the
  last a challenge could overwrite a verdict.
* **EngineProofs** - `Invariance`, `PlansTile`, `ReadsAreSound`,
  `DisputesAreReal`, `EstimateCountsThePlan`, `CompletionsAreEarned`, `IterationsAreFinite`. The invariant
  has the loop invariant of `plan_range` (`PlanLoop`), the fact that what was
  read is at most what the chain has now (`ReadsAreOld`), and what the view
  keeps (`ViewSound`). `EstimateCountsThePlan` rests on a second one, `PlanCount`
  (after `n` requests the cursor is `n` windows on), and on the uniqueness of
  division. `IterationsAreFinite` is the safety half of `KeepsPolling`: between
  two polls every step of `run()` comes to a later station (`Phase`) or leaves less
  to do at the same one (`Left`, a natural), and no step of the chain changes
  either. `CompletionsAreEarned` rests on `ProgressInv`: which events were sent
  is a function of the place in the loop (`EventTiming`).
* **AggregationProofs** - `Invariance`, `AggregationSoundness`,
  `AggregationCoverage`, assuming that range programs are sound and that
  derivations compose; soundness is of the batches whose key is a range program's,
  nothing is assumed of other programs; the loop invariant is that the journals up to the
  current window compose (`Composed`). `GuestDecidesExactly` adds completeness:
  the guest commits the batches whose proofs were all accepted, are not none and are
  continuous (`GoodBatch`), and panics on the others only. It needs that nothing
  announced is left unread and no pair uncompared (`ReadsAll`).
* **RangeProvingProofs** - `Invariance`, `JournalsAreTrue`,
  `JournalsAnswerRequests`, `AdjacentRangesNeverChain`. The last one generalises
  the `plan_aggregates` run: a journal's pre root is that of the block its range
  starts at, so for every plan and every history of the nodes no two neighbours
  pass the aggregation guest's continuity check. The invariant relates the reads (`ReadsFit`): the
  known output preimage is of a block some node answered for the start, and if
  the claim equals it, start and end are the same block. It needs that a header
  root is the right one or nobody's (`HeaderRootAssumption`).
* **SettlementProofs** - `SettlementInvariance`, `OkIsSettled`,
  `VerdictsStand`, on top of the contracts' proofs and with anybody's direct calls. The argument is
  monotonicity: proven blocks stay proven, resolved disputes stay resolved and
  an open dispute ends only by being resolved (`OnlyForward`), so a call that
  would have succeeded when it was sent either still would or is settled by
  somebody else (`TxFate`). `OperatorsRefineContracts` shows that a behaviour with
  any number of operators is, seen from the chain, one of the contracts alone;
  `OperatorsKeepTheView` transfers the view and the two finality properties along
  it. `VerdictsStand` adds that a
  resolved dispute and the proven proposal under it are never written again, so the
  comparison made when a transaction executed holds ever after. `SettledIsFinal`: nothing unsettles a call, program updates included.
  `RacesHaveOneWinner`: of the transactions that settle one block or one dispute at
  most one succeeds; the invariant is that a success is settled
  (`SuccessIsSettled`), and a transaction that executes found its call unsettled
  (`ExecutesOnce`).
* **DaSourceProofs** - `Inductive`, `FeedsInOrder`, `EofComplete`,
  `FeedRefinement`. The invariant
  says that the queue continues what was fed and the two make up what was
  loaded (`QueueContinues`), and that nothing of the block is queued or fed
  while it is not open (`LoadIsFresh`); without the latter a second load would
  feed twice. For the refinement it is enough that, once a block is open, what is
  missing of it is what the queue holds: then its head is the first item missing,
  and an empty queue means that none is. Loading is a stutter.
* **WitnessFilesProofs** - `Inductive`, `AloneConsistent`, `PathIsolation`,
  `AgreeingOverlap`. The invariant carries, for a call that was not overlapped,
  what the files hold for the reads to come (`AloneInv`), and for overlapping
  calls that what is in the rollup file was resolved by one of them
  (`FileOrigin`). `Bystander` is the frame argument: a call that takes no step
  keeps its part.
* **CliProofs** - `CliInvariance`, `ProofsAreTrue`, `EstimatesAreHonest`,
  `MarketPricesAreMiddle`, `RecordsAreDeployed`, `DeploymentsAreDisjoint`,
  `ProcessesAreFinite`, for any files, environments,
  builds, calls and keys. The invariant of the deployments (`FastTrackInv`) is that
  what a call has sent lies below the account's nonce and was created by it alone:
  intervals of nonces of two calls that sent anything do not overlap, since each
  transaction needs the account at its own nonce. That of the commands
  (`CommandInv`) adds to `CliInv` what the outcome says. That `resolve_auto`
  always finds a backend needs the least element of a set of naturals, which is
  taken from the well-foundedness of `<`. The same fact gives `MarketPricesAreMiddle`
  its sorted list without induction: of the lengths for which no sorted order of the
  usable samples exists there would be a least one, and its cheapest sample in front
  of the order of the others is an order (`SortingExists`). Half of the places lie on
  each side of the middle, and a bijection carries them to as many samples
  (`PlaceCounts`). It rests on `RequestsAssumption`: what the network answers is
  a list of records of optional naturals. `ProcessesAreFinite` is the safety half of
  `CommandsEnd`: a process has at most five steps of its own (`Ahead`).

Only model-checked: the liveness properties `KeepsPolling`,
`HeadDisputeNoticed` and `CommandsEnd` (temporal reasoning under fairness and `ENABLED` are out of the prover's reach). For the first and the third
the descending measures are proved, and what is left to TLC is that the fair
steps are enabled and taken.

## Not modelled

* The byte formats: the witness framing (`adapter.rs`, `witness_data.rs`), the
  preimage encoding (`kv_store.rs`, the guest's `oracle.rs`) and the journal's ABI
  encoding but for its 256-bit block word. They are calls of rkyv, bincode and
  alloy around a map behind a lock; the models pass the values. What happens to a
  preimage that is missing is in `RangeProving`, `WitnessFiles` and `DaSource`.
* `open-zk status` reads and prints and keeps no state; likewise all printing,
  logging, formatting and durations.
* The inside of the prover SDKs (a proof is an assumption of soundness), and
  derivation and execution inside kona (an abstract relation).
* L2 safe-head regressions in `Engine`; reorganisations are in `RangeProving`.
* A dispatcher other than through the engine's calls: the repository has a mock
  only, and nothing calls `status`.
* An end-to-end composition of plan, range proofs, aggregate and submission: the
  code does not connect them (`beacon_settles`, `plan_aggregates`).

What could come next: the composition above once the code has it.
