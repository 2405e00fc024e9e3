------------------------------- MODULE Intent -------------------------------
(***************************************************************************)
(* From open-zk.toml to concrete proving parameters: the serde defaults    *)
(* and conversions of crates/cli/src/config.rs, the SDK configuration of   *)
(* crates/sdk/src/config.rs, and IntentResolver of                         *)
(* crates/orchestrator/src/intent.rs.                                      *)
(*                                                                         *)
(* An optional value is a sequence of at most one element.  A name the     *)
(* code does not know is any other string.                                 *)
(***************************************************************************)
EXTENDS Naturals, Sequences

unwrap_or(option, default) == IF option = <<>> THEN default ELSE option[1]

\* What the file says, field by field; a file without [network] is refused.
default_toml ==
  [network |-> TRUE, backend |-> <<"auto">>, allowed_backends |-> << <<"sp1", "risc0">> >>,
   security |-> <<"standard">>, provider |-> <<"auto">>, eth_usd_price |-> <<>>,
   prove_usd_price |-> <<>>, boundless_percentile |-> <<"p50">>]

\* from_file: every field of [proving] and [pricing] has a default.
from_file(t) ==
  [backend |-> unwrap_or(t.backend, "auto"),
   allowed_backends |-> unwrap_or(t.allowed_backends, <<"sp1", "risc0">>),
   security |-> unwrap_or(t.security, "standard"),
   provider |-> unwrap_or(t.provider, "auto"),
   eth_usd_price |-> t.eth_usd_price, prove_usd_price |-> t.prove_usd_price,
   boundless_percentile |-> unwrap_or(t.boundless_percentile, "p50")]

SecurityOf(name) ==
  CASE name = "maximum" -> "Maximum" [] name = "economy" -> "Economy" [] OTHER -> "Standard"

BackendOf(name) ==
  CASE name = "sp1" -> "Sp1" [] name = "risc0" -> "RiscZero" [] name = "mock" -> "Mock"
    [] OTHER -> "Auto"

\* The entries that to_sdk_config keeps, in order; all others are dropped.
Kept(names) == {i \in 1 .. Len(names) : names[i] \in {"sp1", "risc0"}}

\* A mutation of resolve_auto: nothing is chosen when nothing is left.
AutoStaysAuto(names) ==
  IF Kept(names) = {} THEN "Auto"
  ELSE BackendOf(names[CHOOSE i \in Kept(names) : \A k \in Kept(names) : i <= k])

\* resolve_auto: the first entry, or Sp1 when nothing is left.
resolve_auto(names) ==
  IF Kept(names) = {} THEN "Sp1"
  ELSE BackendOf(names[CHOOSE i \in Kept(names) : \A k \in Kept(names) : i <= k])

aggregation_window_of(security) ==
  CASE security = "Maximum" -> 10 [] security = "Economy" -> 1000 [] OTHER -> 100

\* to_sdk_config hands every field to the builder, so that no default of build applies;
\* of the allowed backends resolve_auto keeps those that have a name here.
OpenZkConfig(c) ==
  [backend |-> BackendOf(c.backend), allowed_backends |-> c.allowed_backends,
   security |-> SecurityOf(c.security)]

\* OpenZkConfig::resolve and IntentResolver::resolve; the target finality is not read.
resolve(c) ==
  LET sdk == OpenZkConfig(c)
  IN [proof_mode |-> IF sdk.security = "Maximum" THEN "Beacon" ELSE "Sentinel",
      backend |-> IF sdk.backend = "Auto" THEN resolve_auto(sdk.allowed_backends)
                  ELSE sdk.backend,
      proving_mode |-> "Groth16",
      aggregation_window |-> aggregation_window_of(sdk.security)]

\* A mutation of is_mock_mode: the environment is not asked.
ConfigMockOnly(c, env) == c.backend = "mock"

is_mock_mode(c, env) == c.backend = "mock" \/ "SP1_PROVER=mock" \in env

\* u64::saturating_sub and div_ceil, as the estimate uses them.
num_blocks(start, end) == (IF end >= start THEN end - start ELSE 0) + 1

\* A mutation of num_ranges: a last, partial window is forgotten.
FullWindowsOnly(blocks, window) == blocks \div window

num_ranges(blocks, window) == (blocks + window - 1) \div window

=============================================================================
