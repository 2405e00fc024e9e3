------------------------------- MODULE Command -------------------------------
(***************************************************************************)
(* The commands of the CLI that work from open-zk.toml: init, prove,       *)
(* estimate and serve (crates/cli/src/commands/), one process after the    *)
(* other, each with its own arguments, environment and build features.     *)
(* The operator may edit the file, and kill the process, at any time.      *)
(* What a process leaves in its locals stays until the next one starts.    *)
(***************************************************************************)
EXTENDS Intent, Pricing, Prover

CONSTANTS
  Invocations,    \* command lines with the environment and the build they run in
  Tomls,          \* contents an operator may give the file
  Indexer,        \* answers of the Boundless indexer
  Requests,       \* answers of the Succinct network: recent proof requests
  CoinGecko       \* answers of CoinGecko: a rate, or none

ASSUME RequestsAssumption ==
  Requests \subseteq Seq([cycles : Seq(Nat), gas_used : Seq(Nat), gas_price : Seq(Nat),
                          deduction_amount : Seq(Nat)])

VARIABLES
  toml,           \* open-zk.toml: absent or empty (<<>>), or a content
  cpc,            \* where the process is
  inv,            \* its command line, environment and features
  config, intent, \* CliConfig and ResolvedIntent
  pricing,        \* DynPricing: provider and token rate
  witness,        \* the witness generated, if any
  cycle_estimate,
  monitor,        \* serve: the monitor the engine was given
  outcome         \* how the process ended

commandVars == <<toml, cpc, inv, config, intent, pricing, witness, cycle_estimate,
                 monitor, outcome>>
locals == <<config, intent, pricing, witness, cycle_estimate, monitor>>

DefaultUsd == 2
NoPricing == [provider |-> "none", token_usd |-> 0]
NoCycles == [backend |-> "Mock", cycles |-> 0]
Unfinished == [type |-> "none"]
Failed == [type |-> "error"]
Done == [type |-> "ok"]
Killed == [type |-> "killed"]

Mock == is_mock_mode(config, inv.env)

CommandInit ==
  /\ toml \in {<<>>, <<default_toml>>}
  /\ cpc = "idle"
  /\ inv \in {i \in Invocations : i.command = "init"}
  /\ config = from_file(default_toml) /\ intent = resolve(from_file(default_toml))
  /\ pricing = NoPricing /\ witness = <<>> /\ cycle_estimate = NoCycles
  /\ monitor = "none" /\ outcome = Unfinished

Ends(result) == cpc' = "idle" /\ outcome' = result

\* main: match cli.command
Start(i) ==
  /\ cpc = "idle"
  /\ inv' = i
  /\ cpc' = IF i.command = "init" THEN "init" ELSE "load"
  /\ config' = from_file(default_toml) /\ intent' = resolve(from_file(default_toml))
  /\ pricing' = NoPricing /\ witness' = <<>> /\ cycle_estimate' = NoCycles
  /\ monitor' = "none" /\ outcome' = Unfinished
  /\ UNCHANGED toml

-----------------------------------------------------------------------------
(* init: the file is tested, truncated and written.  An empty file is a     *)
(* file, so `exists` is left open when there is no content.                 *)

InitRefuses ==
  /\ cpc = "init" /\ ~ inv.force
  /\ Ends(Failed)
  /\ UNCHANGED <<toml, inv, locals>>

InitTruncates ==
  /\ cpc = "init" /\ (inv.force \/ toml = <<>>)
  /\ toml' = <<>>
  /\ cpc' = "init_write"
  /\ UNCHANGED <<inv, locals, outcome>>

InitWrites ==
  /\ cpc = "init_write"
  /\ toml' = <<default_toml>>
  /\ Ends(Done)
  /\ UNCHANGED <<inv, locals>>

-----------------------------------------------------------------------------
(* CliConfig::from_file, to_sdk_config, resolve, is_mock_mode.              *)

\* A mutation of LoadFails: a file that is not there yet is waited for.
LoadWaits ==
  /\ cpc = "load" /\ toml # <<>> /\ ~ toml[1].network
  /\ Ends(Failed)
  /\ UNCHANGED <<toml, inv, locals>>

LoadFails ==
  /\ cpc = "load" /\ (toml # <<>> => ~ toml[1].network)
  /\ Ends(Failed)
  /\ UNCHANGED <<toml, inv, locals>>

LoadConfig ==
  /\ cpc = "load" /\ toml # <<>> /\ toml[1].network
  /\ config' = from_file(toml[1])
  /\ intent' = resolve(from_file(toml[1]))
  /\ cpc' = inv.command
  /\ UNCHANGED <<toml, inv, pricing, witness, cycle_estimate, monitor, outcome>>

-----------------------------------------------------------------------------
(* Witness generation, as prove and estimate call it (RangeProving has the  *)
(* detail).  A range whose end is before its start has none.                *)

WithoutKona ==
  /\ cpc \in {"prove", "count"} /\ ~ Mock /\ "kona" \notin inv.features
  /\ Ends(Failed)
  /\ UNCHANGED <<toml, inv, locals>>

GenerateWitness ==
  /\ cpc \in {"prove", "count"} /\ ~ Mock /\ "kona" \in inv.features
  /\ inv.start_block <= inv.end_block
  /\ witness' = <<[start_block |-> inv.start_block, end_block |-> inv.end_block]>>
  /\ cpc' = IF cpc = "prove" THEN "run_prover" ELSE "run_cycle_count"
  /\ UNCHANGED <<toml, inv, config, intent, pricing, cycle_estimate, monitor, outcome>>

\* The kona client asks for a preimage the host does not have and waits for it; so does
\* `client_task.await`, without a timeout.
WitnessHangs ==
  /\ cpc \in {"prove", "count"} /\ ~ Mock /\ "kona" \in inv.features
  /\ inv.start_block <= inv.end_block
  /\ cpc' = "hung"
  /\ UNCHANGED <<toml, inv, locals, outcome>>

\* run_prover or run_cycle_count: the backend was not compiled in.
NotAvailable ==
  /\ cpc \in {"run_prover", "run_cycle_count"} /\ ~ Available(intent.backend, inv.features)
  /\ Ends(Failed)
  /\ UNCHANGED <<toml, inv, locals>>

-----------------------------------------------------------------------------
(* prove                                                                    *)

Proof(artifact) == [type |-> "proof", artifact |-> artifact]

ProveMock ==
  /\ cpc = "prove" /\ Mock
  /\ Ends(Proof(mock_prove(intent.proving_mode)))
  /\ UNCHANGED <<toml, inv, locals>>

RunProver ==
  /\ cpc = "run_prover" /\ Available(intent.backend, inv.features)
  /\ Ends(Proof(prove(intent.backend, witness, intent.proving_mode, inv.env)))
  /\ UNCHANGED <<toml, inv, locals>>

-----------------------------------------------------------------------------
(* estimate: the provider is resolved first, from the intent's backend.     *)

\* hasKey: SuccinctPricing::from_env finds a valid private key, in either of its variables.
Provider ==
  LET asked == unwrap_or(inv.pricing, config.provider)
      hasKey == "sp1" \in inv.features /\ "NETWORK_PRIVATE_KEY" \in inv.env
  IN CASE asked \in {"boundless", "fixed"} -> asked
       [] asked = "succinct" -> IF hasKey THEN "succinct" ELSE "error"
       [] OTHER -> CASE intent.backend = "RiscZero" -> "boundless"
                     [] intent.backend = "Sp1" /\ hasKey -> "succinct"
                     [] OTHER -> "fixed"

PricingFails ==
  /\ cpc = "estimate" /\ Provider = "error"
  /\ Ends(Failed)
  /\ UNCHANGED <<toml, inv, locals>>

\* The token's rate is fetched here, the market's price after the execution.
ResolvePricing(fetched) ==
  /\ cpc = "estimate" /\ Provider # "error"
  /\ pricing' = [provider |-> Provider,
                 token_usd |-> CASE Provider = "boundless" ->
                                      token_usd(config.eth_usd_price, fetched, DefaultUsd)
                                 [] Provider = "succinct" ->
                                      token_usd(config.prove_usd_price, fetched, DefaultUsd)
                                 [] OTHER -> 0]
  /\ cpc' = "count"
  /\ UNCHANGED <<toml, inv, config, intent, witness, cycle_estimate, monitor, outcome>>

CountMock ==
  /\ cpc = "count" /\ Mock
  /\ cycle_estimate' = count_cycles("Mock", <<>>)
  /\ cpc' = "price"
  /\ UNCHANGED <<toml, inv, config, intent, pricing, witness, monitor, outcome>>

RunCycleCount ==
  /\ cpc = "run_cycle_count" /\ Available(intent.backend, inv.features)
  /\ cycle_estimate' = count_cycles(intent.backend, witness)
  /\ cpc' = "price"
  /\ UNCHANGED <<toml, inv, config, intent, pricing, witness, monitor, outcome>>

Supported == supports_backend(pricing.provider, cycle_estimate.backend)

\* compose_cost_estimate and print_estimate: cost is in the unit of the price.
Estimate(cost, samples, price) ==
  LET ranges == num_ranges(num_blocks(inv.start_block, inv.end_block), intent.aggregation_window)
  IN [type |-> "estimate", source |-> pricing.provider, samples |-> samples, price |-> price,
      cycles |-> cycle_estimate.cycles, cost |-> cost, ranges |-> ranges,
      total_cycles |-> IF ranges > 1 THEN cycle_estimate.cycles * ranges
                       ELSE cycle_estimate.cycles,
      total_cost |-> IF ranges > 1 THEN cost * ranges ELSE cost]

\* UnsupportedBackend
Unsupported ==
  /\ cpc = "price" /\ ~ Supported
  /\ Ends(Failed)
  /\ UNCHANGED <<toml, inv, locals>>

PriceFixed ==
  /\ cpc = "price" /\ pricing.provider = "fixed"
  /\ LET rate == FixedRate(cycle_estimate.backend)
     IN Ends(Estimate(cycle_estimate.cycles * rate, <<>>, rate))
  /\ UNCHANGED <<toml, inv, locals>>

\* A market answered: its price per cycle, if it has one, or NoData.
MarketPrice(price, samples) ==
  IF price = <<>> THEN Failed
  ELSE Estimate(cycle_estimate.cycles * price[1] * pricing.token_usd, samples, price[1])

PriceBoundless(data) ==
  /\ cpc = "price" /\ pricing.provider = "boundless" /\ Supported
  /\ Ends(MarketPrice(price_for_percentile(data, config.boundless_percentile), <<>>))
  /\ UNCHANGED <<toml, inv, locals>>

PriceSuccinct(requests) ==
  /\ cpc = "price" /\ pricing.provider = "succinct" /\ Supported
  /\ Ends(MarketPrice(fetch_market_price(requests), requests))
  /\ UNCHANGED <<toml, inv, locals>>

-----------------------------------------------------------------------------
(* serve: a mock monitor, or the skeleton RpcChainMonitor, whose get_state  *)
(* fails and whose active_dispute answers None.                             *)

ServeStarts ==
  /\ cpc = "serve"
  /\ \/ /\ Mock \/ inv.oracle_address = "none"
        /\ monitor' = "MockMonitor" /\ cpc' = "serving" /\ UNCHANGED outcome
     \/ /\ ~ Mock /\ inv.oracle_address = "valid"
        /\ monitor' = "skeleton" /\ cpc' = "serving" /\ UNCHANGED outcome
     \/ /\ ~ Mock /\ inv.oracle_address = "invalid"
        /\ Ends(Failed) /\ UNCHANGED monitor
  /\ UNCHANGED <<toml, inv, config, intent, pricing, witness, cycle_estimate>>

\* The beacon loop's pending_range fails; every other poll finds nothing.
PollFails ==
  /\ cpc = "serving" /\ monitor = "skeleton" /\ intent.proof_mode = "Beacon"
  /\ Ends(Failed)
  /\ UNCHANGED <<toml, inv, locals>>

CtrlC ==
  /\ cpc = "serving"
  /\ Ends(Done)
  /\ UNCHANGED <<toml, inv, locals>>

-----------------------------------------------------------------------------

\* A node, a prover or a market fails, and `?` ends the process.
Fails ==
  /\ \/ cpc \in {"prove", "count"} /\ ~ Mock /\ "kona" \in inv.features
     \/ cpc \in {"init_write", "run_prover", "run_cycle_count"}
     \/ cpc = "price" /\ pricing.provider # "fixed"
  /\ Ends(Failed)
  /\ UNCHANGED <<toml, inv, locals>>

Kill ==
  /\ cpc # "idle"
  /\ Ends(Killed)
  /\ UNCHANGED <<toml, inv, locals>>

Edit(t) ==
  /\ toml' = <<t>>
  /\ UNCHANGED <<cpc, inv, locals, outcome>>

\* A step the process takes by itself.
Step ==
  \/ InitRefuses \/ InitTruncates \/ InitWrites \/ LoadFails \/ LoadConfig
  \/ WithoutKona \/ GenerateWitness \/ WitnessHangs \/ NotAvailable
  \/ ProveMock \/ RunProver
  \/ PricingFails \/ (\E fetched \in CoinGecko : ResolvePricing(fetched))
  \/ CountMock \/ RunCycleCount \/ Unsupported \/ PriceFixed
  \/ (\E data \in Indexer : PriceBoundless(data))
  \/ (\E requests \in Requests : PriceSuccinct(requests))
  \/ ServeStarts \/ PollFails \/ Fails

CommandNext ==
  \/ Step \/ CtrlC \/ Kill
  \/ \E i \in Invocations : Start(i)
  \/ \E t \in Tomls : Edit(t)

=============================================================================
