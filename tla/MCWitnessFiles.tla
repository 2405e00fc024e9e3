---------------------------- MODULE MCWitnessFiles ----------------------------
(***************************************************************************)
(* Two overlapping calls, of the same network or of two, one of which      *)
(* names no L1 chain id in its rollup configuration.                       *)
(***************************************************************************)
EXTENDS WitnessFiles

MCLeftovers ==
  {[rollup |-> Torn, l1 |-> Torn],
   [rollup |-> [network |-> "n", merged |-> FALSE], l1 |-> [network |-> "n", default |-> TRUE]]}

=============================================================================
