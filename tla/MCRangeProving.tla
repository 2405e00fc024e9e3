--------------------------- MODULE MCRangeProving ---------------------------
(***************************************************************************)
(* Two forks of an L2 chain that part after block 2: roots 1 2 3 4 5 for   *)
(* blocks 0 1 2 3 4 of the first, and 14 15 for blocks 3 4 of the second.  *)
(* L1 head 1 contains the batches up to block 3 of the first fork, 2 those *)
(* up to block 4, and 12 those of the second fork (an L1 reorganisation).  *)
(* The header of block 4 carries no withdrawals root, so the root computed *)
(* from it, 99, is nobody's.                                               *)
(***************************************************************************)
EXTENDS RangeProving

MCRoots == {0, 1, 2, 3, 4, 5, 14, 15, 99}
MCNumberOf == [r \in MCRoots |-> CASE r \in {0, 1} -> 0 [] r \in 2 .. 5 -> r - 1
                                   [] r \in {14, 15} -> r - 11 [] r = 99 -> 0]
MCHeaderRoot == [r \in MCRoots |-> IF r = 5 THEN 99 ELSE r]

Fork1 == <<1, 2, 3, 4, 5>>
Fork2 == <<1, 2, 3, 14, 15>>
ByNumber(chain, n) == [b \in 0 .. n |-> chain[b + 1]]

\* The L2 node may be ahead of what L1 contains (unsafe blocks).
MCViews ==
  {[l1 |-> 1, l2 |-> ByNumber(Fork1, 3)], [l1 |-> 1, l2 |-> ByNumber(Fork1, 4)],
   [l1 |-> 2, l2 |-> ByNumber(Fork1, 4)], [l1 |-> 12, l2 |-> ByNumber(Fork2, 4)]}

On(chain, n) == {<<chain[i], chain[k]>> : i \in 1 .. n, k \in 1 .. n}

MCDerives ==
  {<<h, p[1], p[2]>> : h \in {1, 2}, p \in {q \in On(Fork1, 4) : q[1] < q[2]}}
    \union {<<2, Fork1[i], 5>> : i \in 1 .. 4}
    \union {<<12, p[1], p[2]>> : p \in {q \in On(Fork2, 5) : q[1] < q[2]}}

\* plan_range(1, 4) with a window of 2, and the block of a dispute.
MCPlan == <<[l2_start_block |-> 1, l2_end_block |-> 2],
            [l2_start_block |-> 3, l2_end_block |-> 4],
            [l2_start_block |-> 4, l2_end_block |-> 4]>>
TwoRanges == SubSeq(MCPlan, 1, 2)

=============================================================================
