---------------------------- MODULE OutputOracle ----------------------------
(***************************************************************************)
(* The L2 output oracle, contracts/src/OpenZkL2OutputOracle.sol.           *)
(*                                                                         *)
(* Anyone may submit a journal (the public values of a range proof) with a *)
(* proof; the contract asks a verifier contract whether the proof holds    *)
(* for the program identifier it currently allows, stores the proposal and *)
(* moves its head.  A transaction that reverts changes nothing, so a       *)
(* revert is the absence of the step.                                      *)
(***************************************************************************)
EXTENDS Naturals

CONSTANTS
  U64,          \* number of uint64 values: 2^64 in the contract
  Roots,        \* bytes32 output roots, ZeroRoot among them
  ZeroRoot,     \* bytes32(0), what an unwritten mapping entry holds
  L1Heads,      \* bytes32 L1 block hashes
  ZeroHash,     \* bytes32(0) as an L1 head
  ProgramIds,   \* SP1 verification keys and RISC Zero image IDs
  Senders,      \* accounts
  owner,        \* the deployer
  Journals,     \* byte strings that are submitted as public values
  Accepts,      \* <<backend, program id, journal>> for which some proof verifies
  MaxTime       \* bound on block.timestamp

Backends == {"SP1", "RiscZero"}

BlockNumbers == 0 .. U64 - 1

ASSUME U64Assumption == U64 \in Nat \ {0}
ASSUME RootsAssumption == ZeroRoot \in Roots /\ ZeroHash \in L1Heads
ASSUME OwnerAssumption == owner \in Senders
ASSUME JournalsAssumption ==
  Journals \subseteq [length : Nat, l1_head : L1Heads, l2_post_root : Roots,
                      l2_block_number : Nat]
ASSUME MaxTimeAssumption == MaxTime \in Nat

VARIABLES
  proposals,           \* mapping(uint64 => OutputProposal)
  latestBlockNumber,
  latestOutputRoot,
  sp1ProgramVKey,
  risc0ImageId,
  now                  \* block.timestamp of the L1 block being built

oracleVars == <<proposals, latestBlockNumber, latestOutputRoot, sp1ProgramVKey,
                risc0ImageId, now>>

OutputProposal ==
  [outputRoot : Roots, l2BlockNumber : BlockNumbers, l1Head : L1Heads,
   timestamp : Nat]

NoProposal == [outputRoot |-> ZeroRoot, l2BlockNumber |-> 0,
               l1Head |-> ZeroHash, timestamp |-> 0]

-----------------------------------------------------------------------------

OracleInit ==
  /\ proposals = [b \in BlockNumbers |-> NoProposal]
  /\ latestBlockNumber = 0
  /\ latestOutputRoot = ZeroRoot
  /\ sp1ProgramVKey \in ProgramIds
  /\ risc0ImageId \in ProgramIds
  /\ now = 1

isBlockProven(b) == proposals[b].outputRoot # ZeroRoot

\* uint64(uint256(journal[96:128])): the high bits of the word are dropped.
BlockOf(journal) == journal.l2_block_number % U64

\* A mutation of MovesHead: the head follows the last submission.
HeadFollowsLast(journal) == TRUE

\* The head moves only forward.
MovesHead(journal) == BlockOf(journal) > latestBlockNumber

StoreProposal(journal) ==
  LET b == BlockOf(journal) IN
  /\ proposals' = [proposals EXCEPT ![b] =
       [outputRoot |-> journal.l2_post_root, l2BlockNumber |-> b,
        l1Head |-> journal.l1_head, timestamp |-> now]]
  /\ IF MovesHead(journal)
     THEN latestBlockNumber' = b /\ latestOutputRoot' = journal.l2_post_root
     ELSE UNCHANGED <<latestBlockNumber, latestOutputRoot>>

ProcessJournal(journal) ==
  /\ ~ isBlockProven(BlockOf(journal))            \* BlockAlreadyProven
  /\ StoreProposal(journal)

submitSp1Proof(journal) ==
  /\ journal.length = 192                         \* InvalidJournalLength
  /\ <<"SP1", sp1ProgramVKey, journal>> \in Accepts
  /\ ProcessJournal(journal)
  /\ UNCHANGED <<sp1ProgramVKey, risc0ImageId, now>>

submitRisc0Proof(journal) ==
  /\ journal.length = 192
  /\ <<"RiscZero", risc0ImageId, journal>> \in Accepts
  /\ ProcessJournal(journal)
  /\ UNCHANGED <<sp1ProgramVKey, risc0ImageId, now>>

setSp1ProgramVKey(sender, vkey) ==
  /\ sender = owner                               \* Unauthorized
  /\ sp1ProgramVKey' = vkey
  /\ UNCHANGED <<proposals, latestBlockNumber, latestOutputRoot, risc0ImageId, now>>

setRisc0ImageId(sender, imageId) ==
  /\ sender = owner
  /\ risc0ImageId' = imageId
  /\ UNCHANGED <<proposals, latestBlockNumber, latestOutputRoot, sp1ProgramVKey, now>>

\* The chain moves to a later block.
AdvanceTime ==
  /\ now < MaxTime
  /\ now' = now + 1
  /\ UNCHANGED <<proposals, latestBlockNumber, latestOutputRoot, sp1ProgramVKey,
                 risc0ImageId>>

OracleNext ==
  \/ \E j \in Journals : submitSp1Proof(j)
  \/ \E j \in Journals : submitRisc0Proof(j)
  \/ \E s \in Senders, k \in ProgramIds : setSp1ProgramVKey(s, k)
  \/ \E s \in Senders, k \in ProgramIds : setRisc0ImageId(s, k)
  \/ AdvanceTime

OracleSpec == OracleInit /\ [][OracleNext]_oracleVars

-----------------------------------------------------------------------------

OracleTypeOK ==
  /\ proposals \in [BlockNumbers -> OutputProposal]
  /\ latestBlockNumber \in BlockNumbers
  /\ latestOutputRoot \in Roots
  /\ sp1ProgramVKey \in ProgramIds
  /\ risc0ImageId \in ProgramIds
  /\ now \in Nat \ {0}

\* A proposal was stored for b, whatever its root (block.timestamp is not 0).
Recorded(b) == proposals[b].timestamp # 0

(***************************************************************************)
(* The head is the highest block any accepted journal named, however the   *)
(* submissions are ordered and whatever was submitted for lower blocks     *)
(* afterwards (_processJournal's head update).                             *)
(***************************************************************************)
HeadIsHighest ==
  /\ \A b \in BlockNumbers : Recorded(b) => b <= latestBlockNumber
  /\ latestBlockNumber # 0 => Recorded(latestBlockNumber)

(***************************************************************************)
(* The two copies of the head's root agree: latestOutputRoot, once set, is *)
(* the root stored in the proposal of latestBlockNumber.  The guard        *)
(* BlockAlreadyProven keeps the stored copy from being replaced later.     *)
(***************************************************************************)
HeadRootAgrees ==
  latestOutputRoot # ZeroRoot =>
    proposals[latestBlockNumber].outputRoot = latestOutputRoot

(***************************************************************************)
(* What a proven block's proposal says is final: no later submission, of   *)
(* either backend, under any program identifier, replaces any field of it. *)
(***************************************************************************)
ProvenIsFinal ==
  [][\A b \in BlockNumbers : isBlockProven(b) => proposals'[b] = proposals[b]]_oracleVars

=============================================================================
