------------------------------- MODULE MCCli -------------------------------
(***************************************************************************)
(* Cli on a small instance.  Deployments and commands share no variable,   *)
(* so a behaviour of the one constrains no behaviour of the other: each    *)
(* session here is of one kind (`part`), and the states explored are the   *)
(* sum of both halves and not their product.                               *)
(***************************************************************************)
EXTENDS Cli

VARIABLE part

mcVars == <<vars, part>>

MCDeploys == {"first", "second"}
MCFastTrackArgs ==
  [d \in MCDeploys |->
     [deployer_key |-> "anvil0", with_dispute_game |-> d = "first", starting_block |-> 0]]

Invocation(command, start, end, pricing_arg, address, force, env, features) ==
  [command |-> command, start_block |-> start, end_block |-> end, pricing |-> pricing_arg,
   oracle_address |-> address, force |-> force, env |-> env, features |-> features]

\* Build features and environments that come together.
Builds == {{}, {"kona", "sp1"}, {"kona", "risc0"}}

\* A full window, one block more than a window, and an end before the start.
Spans == {<<1, 10>>, <<1, 101>>, <<9, 3>>}

MCInvocations ==
  {Invocation("init", 0, 0, <<>>, "none", force, {}, {}) : force \in BOOLEAN}
    \cup {Invocation("prove", s[1], s[2], <<>>, "none", FALSE, env, build) :
            s \in Spans \ {<<1, 101>>}, build \in Builds,
            env \in {{}, {"SP1_PROVER=mock"}, {"RISC0_DEV_MODE=1"}}}
    \cup {Invocation("estimate", a[1], a[2], a[3], "none", FALSE, env, build) :
            a \in {<<s[1], s[2], <<>> >> : s \in Spans}
                    \cup {<<1, 101, <<p>> >> : p \in {"boundless", "succinct"}},
            build \in Builds,
            env \in {{}, {"SP1_PROVER=mock"}, {"NETWORK_PRIVATE_KEY"}}}
    \cup {Invocation("serve", 0, 0, <<>>, address, FALSE, env, {}) :
            address \in {"none", "valid", "invalid"}, env \in {{}, {"SP1_PROVER=mock"}}}

Toml(backend, allowed, security, provider) ==
  [default_toml EXCEPT !.backend = backend, !.allowed_backends = allowed,
                       !.security = security, !.provider = provider]

MCTomls ==
  {Toml(<<"sp1">>, <<>>, <<"maximum">>, <<>>),
   Toml(<<"risc0">>, <<>>, <<"standard">>, <<"auto">>),
   Toml(<<"mock">>, <<>>, <<"economy">>, <<"auto">>),
   Toml(<<>>, << <<"jolt", "risc0">> >>, <<>>, <<"fixed">>),
   [Toml(<<"unknown">>, << <<"jolt">> >>, <<"unknown">>, <<"unknown">>)
      EXCEPT !.boundless_percentile = <<"P99">>, !.eth_usd_price = <<3>>],
   [default_toml EXCEPT !.network = FALSE]}

Prices == [p \in Percentiles |-> IF p = "p5" THEN <<>> ELSE IF p = "p99" THEN <<9>> ELSE <<4>>]
MCIndexer == {<<>>, <<Prices>>}

Request(cycles, gas_used, gas_price, deduction) ==
  [cycles |-> cycles, gas_used |-> gas_used, gas_price |-> gas_price,
   deduction_amount |-> deduction]

\* Prices per cycle of 5, 1, 3 and 2, in this order, with requests of no use between them.
MCRequests ==
  LET five == Request(<<2>>, <<5>>, <<2>>, <<>>)
      one == Request(<<3>>, <<>>, <<>>, <<3>>)
      three == Request(<<1>>, <<>>, <<1>>, <<3>>)
      two == Request(<<1>>, <<2>>, <<1>>, <<9>>)
      zero == Request(<<0>>, <<1>>, <<1>>, <<>>)
      unknown == Request(<<>>, <<1>>, <<1>>, <<>>)
      free == Request(<<1>>, <<1>>, <<>>, <<>>)
  IN {<<>>, <<zero, unknown>>, <<five>>, <<five, one, three>>,
      <<five, zero, one, unknown, three, free, two>>}

MCCoinGecko == {<<>>, <<1>>}

MCInit ==
  /\ Init
  /\ part \in {"deploy", "command"} /\ (part = "deploy" => toml = <<>> /\ ~ inv.force)

MCNext ==
  \/ part = "deploy" /\ FastTrackNext /\ UNCHANGED <<commandVars, part>>
  \/ part = "command" /\ CommandNext /\ UNCHANGED <<fastTrackVars, part>>

MCSpec == MCInit /\ [][MCNext]_mcVars /\ WF_commandVars(part = "command" /\ Step)

=============================================================================
