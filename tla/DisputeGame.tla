----------------------------- MODULE DisputeGame -----------------------------
(***************************************************************************)
(* The dispute game, contracts/src/OpenZkDisputeGame.sol, composed with    *)
(* the oracle it reads.  The game holds its own copies of the two program  *)
(* identifiers, set independently of the oracle's, and copies the disputed *)
(* root out of the oracle when a challenge is raised.                      *)
(***************************************************************************)
EXTENDS OutputOracle

CONSTANTS
  ZeroAddress,        \* address(0)
  challengeTimeout    \* stored by the constructor

ASSUME ZeroAddressAssumption == ZeroAddress \notin Senders
ASSUME TimeoutAssumption == challengeTimeout \in Nat

VARIABLES
  disputes,           \* mapping(uint64 => Dispute)
  gameSp1ProgramVKey, \* OpenZkDisputeGame.sp1ProgramVKey
  gameRisc0ImageId,   \* OpenZkDisputeGame.risc0ImageId
  resolvedAt          \* history: block.timestamp of each resolve transaction

gameVars == <<disputes, gameSp1ProgramVKey, gameRisc0ImageId, resolvedAt>>
vars == <<oracleVars, gameVars>>

Dispute ==
  [challenger : Senders \union {ZeroAddress}, disputedOutputRoot : Roots,
   createdAt : Nat, resolved : BOOLEAN, valid : BOOLEAN]

NoDispute == [challenger |-> ZeroAddress, disputedOutputRoot |-> ZeroRoot,
              createdAt |-> 0, resolved |-> FALSE, valid |-> FALSE]

GameInit ==
  /\ disputes = [b \in BlockNumbers |-> NoDispute]
  /\ gameSp1ProgramVKey \in ProgramIds
  /\ gameRisc0ImageId \in ProgramIds
  /\ resolvedAt = [b \in BlockNumbers |-> 0]

Init == OracleInit /\ GameInit

isDisputed(b) == disputes[b].createdAt # 0 /\ ~ disputes[b].resolved

\* Stores a fresh dispute over whatever was there.
OpenDispute(sender, b) ==
  /\ isBlockProven(b)                             \* BlockNotProven
  /\ disputes' = [disputes EXCEPT ![b] =
       [challenger |-> sender, disputedOutputRoot |-> proposals[b].outputRoot,
        createdAt |-> now, resolved |-> FALSE, valid |-> FALSE]]
  /\ UNCHANGED <<oracleVars, gameSp1ProgramVKey, gameRisc0ImageId, resolvedAt>>

\* A mutation of challenge: the block need not be proven.
ChallengesUnproven(sender, b) ==
  /\ disputes[b].createdAt = 0
  /\ disputes' = [disputes EXCEPT ![b] =
       [challenger |-> sender, disputedOutputRoot |-> proposals[b].outputRoot,
        createdAt |-> now, resolved |-> FALSE, valid |-> FALSE]]
  /\ UNCHANGED <<oracleVars, gameSp1ProgramVKey, gameRisc0ImageId, resolvedAt>>

challenge(sender, b) ==
  /\ disputes[b].createdAt = 0                    \* AlreadyDisputed
  /\ OpenDispute(sender, b)

\* The verifier call of resolve, with the game's own program identifier.
VerifiesForGame(journal, backend) ==
  \/ backend = "SP1" /\ <<"SP1", gameSp1ProgramVKey, journal>> \in Accepts
  \/ backend = "RiscZero" /\ <<"RiscZero", gameRisc0ImageId, journal>> \in Accepts

\* The end of resolve: only the journal's post root is looked at.
RecordVerdict(b, journal) ==
  /\ disputes' = [disputes EXCEPT ![b] =
       [@ EXCEPT !.resolved = TRUE,
                 !.valid = (journal.l2_post_root = disputes[b].disputedOutputRoot)]]
  /\ resolvedAt' = [resolvedAt EXCEPT ![b] = now]

\* A mutation of resolve: a dispute may be resolved again.
ResolvesTwice(b, journal, backend) ==
  /\ disputes[b].createdAt # 0
  /\ journal.length = 192
  /\ VerifiesForGame(journal, backend)
  /\ RecordVerdict(b, journal)
  /\ UNCHANGED <<oracleVars, gameSp1ProgramVKey, gameRisc0ImageId>>

resolve(b, journal, backend) ==
  /\ disputes[b].createdAt # 0                    \* DisputeNotFound
  /\ ~ disputes[b].resolved                       \* AlreadyResolved
  /\ journal.length = 192                         \* InvalidJournalLength
  /\ VerifiesForGame(journal, backend)            \* or InvalidBackend
  /\ RecordVerdict(b, journal)
  /\ UNCHANGED <<oracleVars, gameSp1ProgramVKey, gameRisc0ImageId>>

gameSetSp1ProgramVKey(sender, vkey) ==
  /\ sender = owner                               \* Unauthorized
  /\ gameSp1ProgramVKey' = vkey
  /\ UNCHANGED <<oracleVars, disputes, gameRisc0ImageId, resolvedAt>>

gameSetRisc0ImageId(sender, imageId) ==
  /\ sender = owner
  /\ gameRisc0ImageId' = imageId
  /\ UNCHANGED <<oracleVars, disputes, gameSp1ProgramVKey, resolvedAt>>

GameNext ==
  \/ \E s \in Senders, b \in BlockNumbers : challenge(s, b)
  \/ \E b \in BlockNumbers, j \in Journals, k \in Backends : resolve(b, j, k)
  \/ \E s \in Senders, k \in ProgramIds : gameSetSp1ProgramVKey(s, k)
  \/ \E s \in Senders, k \in ProgramIds : gameSetRisc0ImageId(s, k)

Next == (OracleNext /\ UNCHANGED gameVars) \/ GameNext

Spec == Init /\ [][Next]_vars

-----------------------------------------------------------------------------

TypeOK ==
  /\ OracleTypeOK
  /\ disputes \in [BlockNumbers -> Dispute]
  /\ gameSp1ProgramVKey \in ProgramIds
  /\ gameRisc0ImageId \in ProgramIds
  /\ resolvedAt \in [BlockNumbers -> Nat]

(***************************************************************************)
(* The root a dispute copied from the oracle never goes stale: as long as  *)
(* the dispute exists, it is the root the oracle holds for that block, the *)
(* block is proven, and its proof is not younger than the challenge.       *)
(***************************************************************************)
DisputeMatchesOracle ==
  \A b \in BlockNumbers : disputes[b].createdAt # 0 =>
    /\ isBlockProven(b)
    /\ disputes[b].disputedOutputRoot = proposals[b].outputRoot
    /\ proposals[b].timestamp <= disputes[b].createdAt

(***************************************************************************)
(* A dispute is raised once and decided once: its challenger, its root and *)
(* its time never change, and a verdict, once given, stands.               *)
(***************************************************************************)
VerdictIsFinal ==
  [][\A b \in BlockNumbers : disputes[b].createdAt # 0 =>
       /\ disputes'[b].challenger = disputes[b].challenger
       /\ disputes'[b].disputedOutputRoot = disputes[b].disputedOutputRoot
       /\ disputes'[b].createdAt = disputes[b].createdAt
       /\ disputes[b].resolved => disputes'[b] = disputes[b]]_vars

(***************************************************************************)
(* The inductive invariant: beside the three properties above, a proven    *)
(* block has a stored proposal, no stored time is in the future, and a     *)
(* verdict belongs to a dispute that was raised.                           *)
(***************************************************************************)
Bookkeeping ==
  \A b \in BlockNumbers :
    /\ isBlockProven(b) => Recorded(b)
    /\ proposals[b].timestamp <= now
    /\ disputes[b].resolved => disputes[b].createdAt # 0

IInv ==
  /\ TypeOK
  /\ HeadIsHighest
  /\ HeadRootAgrees
  /\ DisputeMatchesOracle
  /\ Bookkeeping

(***************************************************************************)
(* The two contracts together implement what their readers rely on.        *)
(***************************************************************************)
View == INSTANCE SettlementView WITH
  Blocks <- BlockNumbers,
  head <- latestBlockNumber,
  proven <- {b \in BlockNumbers : isBlockProven(b)},
  open <- {b \in BlockNumbers : isDisputed(b)},
  closed <- {b \in BlockNumbers : disputes[b].resolved}

ImplementsView == View!ViewSpec

(***************************************************************************)
(* The comment on challengeTimeout: "Duration (in seconds) within which a  *)
(* dispute must be resolved."  resolve never reads it.                     *)
(***************************************************************************)
ResolvedWithinTimeout ==
  \A b \in BlockNumbers : disputes[b].resolved =>
    resolvedAt[b] <= disputes[b].createdAt + challengeTimeout

=============================================================================
