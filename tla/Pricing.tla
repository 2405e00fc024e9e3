------------------------------- MODULE Pricing -------------------------------
(***************************************************************************)
(* The pricing providers of crates/host/src/pricing/ (fixed.rs,            *)
(* boundless.rs, succinct.rs, token_price.rs).  Prices are natural numbers *)
(* of a small unit; conversions between units, all multiplications by a    *)
(* constant, are left out.  A price per cycle is kept doubled, so that the *)
(* median of an even number of samples is a number.                        *)
(***************************************************************************)
EXTENDS Naturals, Sequences, FiniteSets, Functions

-----------------------------------------------------------------------------
(* fixed.rs: $0.01 and $0.008 per 10M cycles.                               *)

FixedRate(backend) ==
  CASE backend = "Sp1" -> 10 [] backend = "RiscZero" -> 8 [] OTHER -> 0

\* A mutation of supports_backend: every market prices every backend's cycles.
SupportsAll(provider, backend) == TRUE

supports_backend(provider, backend) ==
  CASE provider = "fixed" -> TRUE
    [] provider = "boundless" -> backend = "RiscZero"
    [] provider = "succinct" -> backend = "Sp1"

-----------------------------------------------------------------------------
(* boundless.rs: one entry of the indexer, a price per percentile.          *)

Percentiles == {"p5", "p10", "p25", "p50", "p75", "p90", "p95", "p99"}

\* str::to_lowercase, on the names that are a percentile's but for their case.
to_lowercase(name) ==
  LET upper == [P5 |-> "p5", P10 |-> "p10", P25 |-> "p25", P50 |-> "p50",
                P75 |-> "p75", P90 |-> "p90", P95 |-> "p95", P99 |-> "p99"]
  IN IF name \in DOMAIN upper THEN upper[name] ELSE name

\* Percentile::parse(..).unwrap_or_default()
PercentileOf(name) == IF to_lowercase(name) \in Percentiles THEN to_lowercase(name) ELSE "p50"

\* NoData for an empty answer; a price that is not a number has none.
price_for_percentile(data, name) ==
  IF data = <<>> THEN <<>> ELSE data[1][PercentileOf(name)]

-----------------------------------------------------------------------------
(* succinct.rs: the median price per cycle of recent requests.  A request   *)
(* has optional cycles, gas_used, gas_price and deduction_amount; a         *)
(* deduction that is not a number is like none.                             *)

CostOf(req) ==
  IF req.gas_used # <<>> /\ req.gas_price # <<>> THEN <<req.gas_used[1] * req.gas_price[1]>>
  ELSE req.deduction_amount

\* filter_map of extract_cost_pairs, and the filter on cycles after it.
Usable(req) ==
  CostOf(req) # <<>> /\ req.cycles # <<>> /\ req.cycles[1] > 0

\* One price for each usable request.  The costs are chosen to be multiples of the
\* cycles, as \div stands for f64's /.
prices_per_cycle(requests) ==
  [i \in {i \in 1 .. Len(requests) : Usable(requests[i])} |->
     CostOf(requests[i])[1] \div requests[i].cycles[1]]

\* A mutation of Sorted: the prices are left in the order of the requests.
Unsorted(prices) ==
  LET n == Cardinality(DOMAIN prices)
      order == CHOOSE f \in Bijection(1 .. n, DOMAIN prices) :
                 \A i, j \in 1 .. n : i <= j => f[i] <= f[j]
  IN [i \in 1 .. n |-> prices[order[i]]]

\* sort_by: the prices in an order that has none before a lower one.
Sorted(prices) ==
  LET n == Cardinality(DOMAIN prices)
      order == CHOOSE f \in Bijection(1 .. n, DOMAIN prices) :
                 \A i, j \in 1 .. n : i <= j => prices[f[i]] <= prices[f[j]]
  IN [i \in 1 .. n |-> prices[order[i]]]

\* Twice the median of prices that are not none.
median(prices) ==
  LET s == Sorted(prices)
      n == Cardinality(DOMAIN prices)
  IN IF n % 2 = 0 THEN s[n \div 2] + s[n \div 2 + 1] ELSE 2 * s[n \div 2 + 1]

\* NoData when no request is usable, else the doubled price.
fetch_market_price(requests) ==
  LET prices == prices_per_cycle(requests)
  IN IF DOMAIN prices = {} THEN <<>> ELSE <<median(prices)>>

-----------------------------------------------------------------------------
(* token_price.rs: an override, else CoinGecko's answer, else the default.  *)

token_usd(override, fetched, default) ==
  IF override # <<>> THEN override[1]
  ELSE IF fetched # <<>> THEN fetched[1] ELSE default

=============================================================================
