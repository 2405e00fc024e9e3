------------------------------- MODULE DaSource -------------------------------
(***************************************************************************)
(* The commitment based data availability sources of the range guests:     *)
(* CelestiaDataSource (guests/range-celestia/src/da_source.rs) and         *)
(* EigenDADataSource (guests/range-eigenda/src/da_source.rs).  The two     *)
(* files differ in the prefix byte of their commitments, OwnPrefix here.   *)
(* The derivation pipeline asks for the items of an L1 block one by one    *)
(* with next(); the source loads the block on the first call, remembers in *)
(* `open' that it did, and clear() ends the block.                         *)
(*                                                                         *)
(* next() is one action per await: the chain provider's answer, one turn   *)
(* of the loop over the transactions (an oracle lookup each), and the pop. *)
(* The pipeline that calls next() and clear() is kona-derive, external.    *)
(***************************************************************************)
EXTENDS Naturals, Sequences

CONSTANTS
  Addresses, NoAddress,  \* NoAddress: a creation, or a signature that fails
  Inbox,                 \* batch_inbox_address
  Bodies,                \* what follows the prefix byte
  OwnPrefix,             \* "celestia" (0xce) or "eigenda" (0xed)
  NumBlocks,             \* L1 blocks the pipeline walks through
  Chains                 \* the L1 chains considered, functions of 1 .. NumBlocks

Blocks == 1 .. NumBlocks

\* The first byte of the calldata; "none" is empty calldata.
Prefix == {"none", "generic", "celestia", "eigenda", "other"}

\* eip4844 stands for every envelope the match does not take calldata from.
Tx == [kind : {"calldata", "eip4844"}, to : Addresses \union {NoAddress},
       from : Addresses \union {NoAddress}, prefix : Prefix, body : Bodies]

\* An L1 block, with the batcher address that the rollup had at that block.
L1Block == [batcher : Addresses, txs : Seq(Tx)]

\* index is the transaction the item was read from.
Item == [index : Nat, resolved : BOOLEAN, body : Bodies]

ASSUME NumBlocksAssumption == NumBlocks \in Nat \ {0}
ASSUME AddressesAssumption == Inbox \in Addresses /\ NoAddress \notin Addresses
ASSUME OwnPrefixAssumption == OwnPrefix \in {"celestia", "eigenda"}
ASSUME ChainsAssumption == Chains \subseteq [Blocks -> L1Block]

VARIABLES
  chain,       \* L1 as the chain provider answers; never changes
  preimages,   \* the commitments the preimage oracle holds; never changes
  open,
  batch_data,
  pc,          \* where next() is
  i,           \* the loop's next transaction
  cursor,      \* the L1 block the pipeline is at
  result,      \* what the last call of next() returned, "none" after clear()
  fed          \* the items the pipeline was given for each block

source == <<open, batch_data>>
vars == <<chain, preimages, open, batch_data, pc, i, cursor, result, fed>>

Init ==
  /\ chain \in Chains
  /\ preimages \in SUBSET Bodies
  /\ open = FALSE /\ batch_data = <<>>
  /\ pc = "idle" /\ i = 1
  /\ cursor = 1 /\ result = "none" /\ fed = [b \in Blocks |-> <<>>]

-----------------------------------------------------------------------------

\* The transaction passes the filters of the loop.
FromBatcher(tx, batcher) ==
  /\ tx.kind = "calldata"
  /\ tx.to = Inbox
  /\ tx.from = batcher
  /\ tx.prefix # "none"

IsCommitment(tx) == tx.prefix \in {OwnPrefix, "generic"}

\* A commitment without preimage is skipped, calldata is passed through.
Yields(tx) == IsCommitment(tx) => tx.body \in preimages

Carries(b, k) ==
  LET tx == chain[b].txs[k] IN FromBatcher(tx, chain[b].batcher) /\ Yields(tx)

ItemOf(b, k) ==
  LET tx == chain[b].txs[k]
  IN  [index |-> k, resolved |-> IsCommitment(tx), body |-> tx.body]

\* next() with the block loaded before.
NextLoaded ==
  /\ pc = "idle" /\ result # "eof" /\ open
  /\ pc' = "pop"
  /\ UNCHANGED <<chain, preimages, source, i, cursor, result, fed>>

\* A mutation of FetchBlock: a loaded block is loaded again.
FetchesAgain ==
  /\ pc = "idle" /\ result # "eof"
  /\ pc' = "load" /\ i' = 1
  /\ UNCHANGED <<chain, preimages, source, cursor, result, fed>>

\* next() with nothing loaded: the chain provider answers ...
FetchBlock ==
  /\ pc = "idle" /\ result # "eof" /\ ~open
  /\ pc' = "load" /\ i' = 1
  /\ UNCHANGED <<chain, preimages, source, cursor, result, fed>>

\* ... or fails, and next() returns its error.
FetchFails ==
  /\ pc = "idle" /\ result # "eof" /\ ~open
  /\ result' = "error"
  /\ UNCHANGED <<chain, preimages, source, pc, i, cursor, fed>>

\* One turn of the loop.
LoadTx ==
  /\ pc = "load" /\ i <= Len(chain[cursor].txs)
  /\ batch_data' = IF Carries(cursor, i) THEN Append(batch_data, ItemOf(cursor, i))
                   ELSE batch_data
  /\ i' = i + 1
  /\ UNCHANGED <<chain, preimages, open, pc, cursor, result, fed>>

LoadDone ==
  /\ pc = "load" /\ i > Len(chain[cursor].txs)
  /\ open' = TRUE
  /\ pc' = "pop"
  /\ UNCHANGED <<chain, preimages, batch_data, i, cursor, result, fed>>

\* A mutation of Pop: pop_back, so that the newest item comes first.
PopBack ==
  /\ pc = "pop" /\ batch_data # <<>>
  /\ fed' = [fed EXCEPT ![cursor] = Append(@, batch_data[Len(batch_data)])]
  /\ batch_data' = SubSeq(batch_data, 1, Len(batch_data) - 1)
  /\ result' = "item" /\ pc' = "idle"
  /\ UNCHANGED <<chain, preimages, open, i, cursor>>

\* pop_front hands an item to the pipeline ...
Pop ==
  /\ pc = "pop" /\ batch_data # <<>>
  /\ fed' = [fed EXCEPT ![cursor] = Append(@, Head(batch_data))]
  /\ batch_data' = Tail(batch_data)
  /\ result' = "item" /\ pc' = "idle"
  /\ UNCHANGED <<chain, preimages, open, i, cursor>>

\* ... or finds none left.
PopEof ==
  /\ pc = "pop" /\ batch_data = <<>>
  /\ result' = "eof" /\ pc' = "idle"
  /\ UNCHANGED <<chain, preimages, source, i, cursor, fed>>

\* Mutations of clear: one of the two assignments is missing.
ClearKeepsOpen == batch_data' = <<>> /\ UNCHANGED open
ClearKeepsData == open' = FALSE /\ UNCHANGED batch_data

clear == batch_data' = <<>> /\ open' = FALSE

\* After Eof the pipeline clears the source and moves to the next L1 block.
Advance ==
  /\ pc = "idle" /\ result = "eof" /\ cursor < NumBlocks
  /\ clear
  /\ cursor' = cursor + 1 /\ result' = "none"
  /\ UNCHANGED <<chain, preimages, pc, i, fed>>

\* A reset of the pipeline to an L1 block it has reached: what was derived from
\* there on is dropped and read again.
Reset(b) ==
  /\ pc = "idle" /\ b <= cursor
  /\ clear
  /\ cursor' = b /\ result' = "none"
  /\ fed' = [c \in Blocks |-> IF c < b THEN fed[c] ELSE <<>>]
  /\ UNCHANGED <<chain, preimages, pc, i>>

Next ==
  \/ NextLoaded \/ FetchBlock \/ FetchFails
  \/ LoadTx \/ LoadDone \/ Pop \/ PopEof
  \/ Advance \/ \E b \in Blocks : Reset(b)

Spec == Init /\ [][Next]_vars

-----------------------------------------------------------------------------

TypeOK ==
  /\ chain \in [Blocks -> L1Block]
  /\ preimages \in SUBSET Bodies
  /\ open \in BOOLEAN
  /\ batch_data \in Seq(Item)
  /\ pc \in {"idle", "load", "pop"}
  /\ i \in Nat \ {0}
  /\ cursor \in Blocks
  /\ result \in {"none", "item", "eof", "error"}
  /\ fed \in [Blocks -> Seq(Item)]

\* The items of s are items of block b, in the order of its transactions.
InOrder(b, s) ==
  /\ \A k \in 1 .. Len(s) :
       /\ s[k].index \in 1 .. Len(chain[b].txs)
       /\ Carries(b, s[k].index)
       /\ s[k] = ItemOf(b, s[k].index)
  /\ \A k, l \in 1 .. Len(s) : k < l => s[k].index < s[l].index

Has(s, k) == \E l \in 1 .. Len(s) : s[l].index = k

(***************************************************************************)
(* next() feeds the pipeline a block's own items, each at most once and in *)
(* the order of the transactions, whatever calls fail and wherever the     *)
(* pipeline is reset: `open' keeps a loaded block from being loaded again  *)
(* and clear() leaves nothing of one block behind for another.             *)
(***************************************************************************)
FedInOrder ==
  \A b \in Blocks : InOrder(b, fed[b]) /\ (b > cursor => fed[b] = <<>>)

(***************************************************************************)
(* Eof means that the block is exhausted: when next() has returned it, and *)
(* for every block the pipeline has left, each transaction of the batcher  *)
(* has been fed, except the commitments the preimage oracle did not hold.  *)
(* A retry after a failed load loses nothing.                              *)
(***************************************************************************)
EofIsComplete ==
  \A b \in Blocks :
    b < cursor \/ (b = cursor /\ result = "eof") =>
      \A k \in 1 .. Len(chain[b].txs) : Carries(b, k) => Has(fed[b], k)

\* The queue continues what was fed, and with it makes up what was loaded.
QueueContinues ==
  /\ InOrder(cursor, batch_data)
  /\ \A k \in 1 .. Len(fed[cursor]), l \in 1 .. Len(batch_data) :
       fed[cursor][k].index < batch_data[l].index
  /\ open => \A k \in 1 .. Len(chain[cursor].txs) :
       Carries(cursor, k) => Has(fed[cursor], k) \/ Has(batch_data, k)

LoadIsFresh ==
  /\ ~open => fed[cursor] = <<>>
  /\ ~open /\ pc # "load" => batch_data = <<>>
  /\ pc = "load" =>
       /\ ~open /\ result # "eof"
       /\ \A k \in 1 .. Len(batch_data) : batch_data[k].index < i
       /\ \A k \in 1 .. Len(chain[cursor].txs) :
            k < i /\ Carries(cursor, k) => Has(batch_data, k)
  /\ pc = "pop" => open /\ result # "eof"
  /\ result = "eof" => open /\ batch_data = <<>>

IInv == TypeOK /\ FedInOrder /\ EofIsComplete /\ QueueContinues /\ LoadIsFresh

(***************************************************************************)
(* Refinement: open, queue and loop are invisible to the pipeline, and     *)
(* every answer of next() is the one a feed of the block's own items would *)
(* give at this point - a first load, a load retried after an error, a     *)
(* clear in the middle of a block or a block read again included.          *)
(***************************************************************************)
ItemsOf(b) == {ItemOf(b, k) : k \in {j \in 1 .. Len(chain[b].txs) : Carries(b, j)}}

Feed == INSTANCE BlockFeed WITH
  Items <- Item, wanted <- [b \in Blocks |-> ItemsOf(b)], at <- cursor,
  done <- (result = "eof"), given <- fed

ImplementsFeed == Feed!FeedSpec

=============================================================================
