--------------------------- MODULE MCDisputeGame ---------------------------
(***************************************************************************)
(* A small instance of the two contracts.  uint64 has three values, so     *)
(* that a block word can be truncated; the SP1 verifier accepts under each *)
(* program identifier the journals that program proves, and the RISC Zero  *)
(* verifier is the mock of contracts/src/mock, which accepts everything,   *)
(* a journal with a zero root included.                                    *)
(***************************************************************************)
EXTENDS DisputeGame

CONSTANTS r0, r1, r2, h0, h1, k1, k2, alice, bob

MCRoots == {r0, r1, r2}
MCL1Heads == {h0, h1}
MCProgramIds == {k1, k2}
MCSenders == {alice, bob}

Journal(len, root, n) ==
  [length |-> len, l1_head |-> h1, l2_post_root |-> root, l2_block_number |-> n]

\* Words 1, 2 and 4: 4 is truncated to block 1.  One journal is too short.
MCJournals == {Journal(192, r1, 1), Journal(192, r2, 2), Journal(192, r0, 2),
               Journal(192, r2, 4), Journal(160, r1, 1)}

MCAccepts ==
  {<<"SP1", k1, Journal(192, r1, 1)>>, <<"SP1", k2, Journal(192, r2, 2)>>,
   <<"SP1", k2, Journal(160, r1, 1)>>}
    \union {<<"RiscZero", k, j>> : k \in {k1}, j \in MCJournals}

=============================================================================
