----------------------------- MODULE BlockFeed -----------------------------
(***************************************************************************)
(* What the derivation pipeline expects of a data availability source, of  *)
(* whatever kind: the items an L1 block holds for it, one by one, each     *)
(* once, in the order of their transactions; an end of the block only when *)
(* all of them were given; and after a reset the same again.  How a block  *)
(* is loaded, queued and remembered as loaded is not its concern.          *)
(* DaSource is shown to implement this specification.                      *)
(***************************************************************************)
EXTENDS Naturals, Sequences

CONSTANTS
  NumBlocks,
  Items               \* records with an index, their place in the block

VARIABLES
  wanted,             \* the items of each block; never changes
  at,                 \* the block the pipeline is at
  done,               \* whether it was told that this block is at its end
  given               \* the items it was given of each block

feedVars == <<wanted, at, done, given>>

FeedBlocks == 1 .. NumBlocks

FeedInit ==
  /\ wanted \in [FeedBlocks -> SUBSET Items]
  /\ at = 1 /\ done = FALSE /\ given = [b \in FeedBlocks |-> <<>>]

Missing == {x \in wanted[at] : \A k \in 1 .. Len(given[at]) : given[at][k] # x}

Give(x) ==
  /\ ~ done /\ x \in Missing /\ \A y \in Missing : x.index <= y.index
  /\ given' = [given EXCEPT ![at] = Append(@, x)]
  /\ UNCHANGED <<wanted, at, done>>

Exhaust ==
  /\ ~ done /\ Missing = {}
  /\ done' = TRUE
  /\ UNCHANGED <<wanted, at, given>>

GoOn ==
  /\ done /\ at < NumBlocks
  /\ at' = at + 1 /\ done' = FALSE
  /\ UNCHANGED <<wanted, given>>

StartOver(b) ==
  /\ b <= at
  /\ at' = b /\ done' = FALSE
  /\ given' = [c \in FeedBlocks |-> IF c < b THEN given[c] ELSE <<>>]
  /\ UNCHANGED wanted

FeedNext ==
  \/ \E x \in wanted[at] : Give(x)
  \/ Exhaust \/ GoOn \/ \E b \in FeedBlocks : StartOver(b)

FeedSpec == FeedInit /\ [][FeedNext]_feedVars

=============================================================================
