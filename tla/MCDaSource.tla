------------------------------ MODULE MCDaSource ------------------------------
(***************************************************************************)
(* Two L1 blocks.  The first holds up to two transactions, of every kind   *)
(* the loop tells apart; the batcher may change between the blocks, so     *)
(* that a transaction counts in one block and not in the other.            *)
(***************************************************************************)
EXTENDS DaSource

T(kind, to, from, prefix, body) ==
  [kind |-> kind, to |-> to, from |-> from, prefix |-> prefix, body |-> body]

Commitments == {T("calldata", "inbox", "batcher", "celestia", "c"),
                T("calldata", "inbox", "batcher", "generic", "d")}
Calldata == {T("calldata", "inbox", "batcher", "other", "c"),
             T("calldata", "inbox", "batcher", "eigenda", "c")}
Ignored == {T("calldata", "inbox", "other", "other", "c"),
            T("calldata", "other", "batcher", "other", "c"),
            T("calldata", NoAddress, "batcher", "other", "c"),
            T("calldata", "inbox", NoAddress, "celestia", "c"),
            T("eip4844", "inbox", "batcher", "other", "c"),
            T("calldata", "inbox", "batcher", "none", "c")}
Txs == Commitments \union Calldata \union Ignored

UpToTwo == {<<>>} \union {<<t>> : t \in Txs} \union (Txs \X Txs)
UpToOne == {<<>>} \union {<<t>> : t \in Commitments \union
                                        {T("calldata", "inbox", "other", "other", "c")}}

MCChains ==
  {[b \in 1 .. 2 |-> IF b = 1 THEN [batcher |-> "batcher", txs |-> s]
                     ELSE [batcher |-> a, txs |-> t]] :
     s \in UpToTwo, t \in UpToOne, a \in {"batcher", "other"}}

=============================================================================
