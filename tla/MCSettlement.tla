---------------------------- MODULE MCSettlement ----------------------------
(***************************************************************************)
(* Two calls of the operators, and anybody's direct calls beside them.     *)
(* Under k1 a wrong journal for block 1 and one with a zero root verify,   *)
(* under k2 the right ones; either contract may have either program.       *)
(***************************************************************************)
EXTENDS Settlement, TLC

CONSTANTS r0, r1, r2, bad, h0, h1, k1, k2, alice, op1, op2

MCRoots == {r0, r1, r2, bad}
MCL1Heads == {h0, h1}
MCProgramIds == {k1, k2}
MCSenders == {alice}
MCClients == {op1, op2}
CallsAlike == Permutations(MCClients)

Journal(root, n) ==
  [length |-> 192, l1_head |-> h1, l2_post_root |-> root, l2_block_number |-> n]

MCJournals == {Journal(r1, 1), Journal(bad, 1), Journal(r2, 2), Journal(r0, 2)}
MCAccepts ==
  {<<"SP1", k1, Journal(bad, 1)>>, <<"SP1", k1, Journal(r0, 2)>>,
   <<"SP1", k2, Journal(r1, 1)>>, <<"SP1", k2, Journal(r2, 2)>>,
   <<"RiscZero", k2, Journal(r1, 1)>>}

=============================================================================
