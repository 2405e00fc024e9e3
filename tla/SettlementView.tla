--------------------------- MODULE SettlementView ---------------------------
(***************************************************************************)
(* What the two contracts promise to whoever reads them from outside: the  *)
(* orchestrator's monitor only ever calls latestBlockNumber() and          *)
(* isDisputed(block), the CLI also isBlockProven(block).  DisputeGame is   *)
(* shown to implement this specification, and Engine runs against it.      *)
(***************************************************************************)
EXTENDS Naturals

CONSTANT Blocks        \* L2 block numbers

VARIABLES
  head,                \* latestBlockNumber()
  proven,              \* the blocks for which isBlockProven() is true
  open,                \* the blocks for which isDisputed() is true
  closed               \* the blocks whose dispute was resolved

viewVars == <<head, proven, open, closed>>

ViewInit ==
  /\ head = 0
  /\ proven = {}
  /\ open = {}
  /\ closed = {}

\* A journal for b is accepted.  One with a zero root moves the head without
\* making b proven: isBlockProven tests the stored root.
Record(b) ==
  /\ b \notin proven
  /\ head' = IF b > head THEN b ELSE head
  /\ proven' \in {proven, proven \union {b}}
  /\ UNCHANGED <<open, closed>>

\* A proven block is challenged, once in its life.
Challenge(b) ==
  /\ b \in proven \ (open \union closed)
  /\ open' = open \union {b}
  /\ UNCHANGED <<head, proven, closed>>

\* A dispute ends, and never reopens.
Resolve(b) ==
  /\ b \in open
  /\ open' = open \ {b}
  /\ closed' = closed \union {b}
  /\ UNCHANGED <<head, proven>>

ViewNext == \E b \in Blocks : Record(b) \/ Challenge(b) \/ Resolve(b)

ViewSpec == ViewInit /\ [][ViewNext]_viewVars

=============================================================================
