-------------------------------- MODULE Cli --------------------------------
(***************************************************************************)
(* The command line tool as an operator uses it: contract deployments      *)
(* (FastTrack) and the commands that work from open-zk.toml (Command), in  *)
(* any order and side by side.                                             *)
(***************************************************************************)
EXTENDS FastTrack, Command

ASSUME CliAssumption ==
  \A i \in Invocations :
    /\ i.command \in {"init", "prove", "estimate", "serve"}
    /\ i.start_block \in Nat /\ i.end_block \in Nat

vars == <<fastTrackVars, commandVars>>

Init == FastTrackInit /\ CommandInit

Next ==
  \/ FastTrackNext /\ UNCHANGED commandVars
  \/ CommandNext /\ UNCHANGED fastTrackVars

Spec == Init /\ [][Next]_vars

\* A process that can take a step by itself takes one: it is alone in its loop.  A node, a
\* prover or the Succinct network answers or fails, which is an assumption on them (the
\* requests for prices and rates have timeouts); the kona client need not, and then the
\* process is "hung".  Nobody has to stop or restart anything.
FairSpec == Spec /\ WF_commandVars(Step)

-----------------------------------------------------------------------------
(* Invariants                                                               *)

Asked == <<[start_block |-> inv.start_block, end_block |-> inv.end_block]>>
Blocks == num_blocks(inv.start_block, inv.end_block)

Intents ==
  [proof_mode : {"Beacon", "Sentinel"}, backend : {"Sp1", "RiscZero", "Mock"},
   proving_mode : {"Groth16"}, aggregation_window : {10, 100, 1000}]

\* What holds at the point of the process where it stands.  The intent is always that of
\* the configuration read once, at the start: an edit of the file afterwards reaches
\* neither.  Whatever the file says, an intent names a backend that exists.
CliInv ==
  /\ intent = resolve(config) /\ intent \in Intents
  /\ inv \in Invocations
  /\ cpc \in {"idle", "init", "init_write", "load", "prove", "estimate", "count", "serve",
              "serving", "run_prover", "run_cycle_count", "price", "hung"}
  /\ witness # <<>> => /\ ~ Mock /\ "kona" \in inv.features
                       /\ witness = Asked /\ inv.start_block <= inv.end_block
  /\ cpc \in {"run_prover", "run_cycle_count"} => witness # <<>>
  /\ cpc = "hung" => ~ Mock /\ "kona" \in inv.features
  /\ cpc \in {"count", "run_cycle_count", "price"} =>
       pricing.provider \in {"fixed", "boundless", "succinct"}
  /\ cpc = "price" =>
       IF Mock THEN cycle_estimate = NoCycles
       ELSE /\ witness # <<>> /\ Available(intent.backend, inv.features)
            /\ cycle_estimate = count_cycles(intent.backend, witness)

\* The blocks whose derivation a journal attests: none for a range of one block.
Attested(journal) == journal.l2_pre_root + 1 .. journal.l2_block_number

\* `prove` never passes off one thing for another.  A dummy proof is returned exactly when
\* mock mode was asked for, by the file or by SP1_PROVER; otherwise the proof is of the
\* backend the file names, in a build that has it, in the mode the intent asks for,
\* accepted by that backend's verify, and made by a real prover - except under
\* RISC0_DEV_MODE, which is_mock_mode does not know.  What it attests is the blocks on the
\* command line without the first, from whose root it starts, although the argument is
\* called inclusive: nothing more, nothing else and nothing less.
NoFalseProof ==
  outcome.type = "proof" =>
    LET a == outcome.artifact
    IN /\ a.backend = "Mock" <=> (config.backend = "mock" \/ "SP1_PROVER=mock" \in inv.env)
       /\ a.mode = "Groth16" /\ verify(a.backend, a, inv.env)
       /\ a.backend # "Mock" =>
            /\ config.backend = "sp1" => a.backend = "Sp1"
            /\ config.backend = "risc0" => a.backend = "RiscZero"
            /\ "kona" \in inv.features /\ Available(a.backend, inv.features)
            /\ a.proof_bytes.by = a.backend /\ a.public_values # <<>>
            /\ Attested(a.public_values[1]) =
                 (inv.start_block .. inv.end_block) \ {inv.start_block}
            /\ ~ a.proof_bytes.genuine =>
                 a.backend = "RiscZero" /\ "RISC0_DEV_MODE=1" \in inv.env

\* An estimate that is printed is of the right cycles, on the right market, and never too
\* low.  Mock mode prints zeros.  Otherwise the cycles are those of the range program on
\* the blocks asked for, and priced by a market of the backend that counted them, whatever provider was named on
\* the command line or in the file; the ranges are just enough windows to cover the
\* blocks; and the total is never below the cycles of the span, and equal for one range.
EstimateIsHonest ==
  outcome.type = "estimate" =>
    LET span == IF Mock THEN 0 ELSE CyclesOf(Asked)
        w == intent.aggregation_window
    IN /\ outcome.cycles = span
       /\ outcome.total_cycles >= span /\ (outcome.ranges = 1 => outcome.total_cycles = span)
       /\ outcome.ranges * w >= Blocks /\ outcome.ranges * w < Blocks + w
       /\ Mock => outcome.cost = 0 /\ outcome.total_cost = 0
       /\ outcome.source # "fixed" =>
            intent.backend = IF outcome.source = "succinct" THEN "Sp1" ELSE "RiscZero"
       /\ outcome.source # "fixed" => ~ Mock

\* The market price of the Succinct network is a middle one: of the requests that have a
\* cost and cycles, at least half are not cheaper and at least half are not dearer.
\* (Prices per cycle; the price itself is kept doubled.)
MarketPriceIsMiddle ==
  (outcome.type = "estimate" /\ outcome.source = "succinct") =>
    LET used == {i \in 1 .. Len(outcome.samples) : Usable(outcome.samples[i])}
        Twice(i) == 2 * (CostOf(outcome.samples[i])[1] \div outcome.samples[i].cycles[1])
    IN /\ used # {}
       /\ 2 * Cardinality({i \in used : Twice(i) >= outcome.price}) >= Cardinality(used)
       /\ 2 * Cardinality({i \in used : Twice(i) <= outcome.price}) >= Cardinality(used)

-----------------------------------------------------------------------------
(* Liveness                                                                 *)

\* Every command comes to an end by itself, whatever the file, the environment and the
\* build: there is an arm, if only an error, for each combination.  Only a service
\* that has started goes on, and a `prove` or `estimate` whose kona client waits for a
\* preimage that nobody has: nothing but the operator ends that one.
CommandsEnd == cpc \notin {"idle", "serving", "hung"} ~> cpc \in {"idle", "serving", "hung"}

=============================================================================
