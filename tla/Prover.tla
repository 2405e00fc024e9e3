------------------------------- MODULE Prover -------------------------------
(***************************************************************************)
(* The prover backends of crates/host/src/prover/ (mock.rs, sp1.rs,        *)
(* risc0.rs).  A proof is who made it and whether it is genuine: with      *)
(* SP1_PROVER=mock the SP1 SDK, and with RISC0_DEV_MODE=1 the RISC Zero    *)
(* SDK, return stand-ins of the same type.  The public values are the      *)
(* journal the range program commits when it runs on the witness, if any.  *)
(***************************************************************************)
EXTENDS Naturals, Sequences

Bytes(by, genuine) == [by |-> by, genuine |-> genuine]
EmptyBytes == Bytes("nobody", FALSE)

ProofArtifact(backend, mode, proof_bytes, public_values, program_id) ==
  [backend |-> backend, mode |-> mode, proof_bytes |-> proof_bytes,
   public_values |-> public_values, program_id |-> program_id]

\* What the range program commits: it starts from the output root at the first block of the
\* request and derives the blocks after it, up to the last.  A root is its block here.
range_journal(witness) ==
  [l2_pre_root |-> witness[1].start_block, l2_block_number |-> witness[1].end_block]

\* MockProverBackend: two bytes, no public values, no program.
mock_prove(mode) == ProofArtifact("Mock", mode, Bytes("Mock", FALSE), <<>>, "zero")

\* Sp1ProverBackend: Execute yields no proof and no program identifier.
sp1_prove(witness, mode, env) ==
  LET public_values == <<range_journal(witness)>>
      proof_bytes == Bytes("Sp1", "SP1_PROVER=mock" \notin env)
  IN IF mode = "Execute" THEN ProofArtifact("Sp1", mode, EmptyBytes, public_values, "zero")
     ELSE ProofArtifact("Sp1", mode, proof_bytes, public_values, "range")

\* RiscZeroProverBackend: the same, with the image id in either case.
risc0_prove(witness, mode, env) ==
  ProofArtifact("RiscZero", mode,
                IF mode = "Execute" THEN EmptyBytes
                ELSE Bytes("RiscZero", "RISC0_DEV_MODE=1" \notin env),
                <<range_journal(witness)>>, "range")

prove(backend, witness, mode, env) ==
  CASE backend = "Sp1" -> sp1_prove(witness, mode, env)
    [] backend = "RiscZero" -> risc0_prove(witness, mode, env)
    [] OTHER -> mock_prove(mode)

\* verify: Mock accepts its own, the others any Execute artifact, without a proof, and a
\* stand-in only where stand-ins are made.
verify(backend, artifact, env) ==
  \/ backend = "Mock" /\ artifact.backend = "Mock"
  \/ backend # "Mock" /\ artifact.mode = "Execute"
  \/ /\ backend # "Mock"
     /\ artifact.proof_bytes.by = backend
     /\ \/ artifact.proof_bytes.genuine
        \/ backend = "Sp1" /\ "SP1_PROVER=mock" \in env
        \/ backend = "RiscZero" /\ "RISC0_DEV_MODE=1" \in env

\* Cycles of executing the range program: one for its start, which it has in any case, and
\* one for each block it derives after the first are enough to tell.
CyclesOf(witness) == witness[1].end_block - witness[1].start_block + 1

count_cycles(backend, witness) ==
  IF backend \in {"Sp1", "RiscZero"} THEN [backend |-> backend, cycles |-> CyclesOf(witness)]
  ELSE [backend |-> "Mock", cycles |-> 0]

\* The cfg(feature) arms of run_prover and run_cycle_count.
Available(backend, features) ==
  CASE backend = "Sp1" -> "sp1" \in features
    [] backend = "RiscZero" -> "risc0" \in features
    [] OTHER -> backend = "Mock"

=============================================================================
