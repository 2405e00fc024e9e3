---------------------------- MODULE MCAggregation ----------------------------
(***************************************************************************)
(* An L2 chain of four blocks whose roots are 0 .. 3; block 3 was derived  *)
(* from L1 block 2.  The host also offers a journal that only another      *)
(* program proved, a proved byte string that is not a journal, and the     *)
(* journal of a range without blocks, whose number is the claim's.         *)
(***************************************************************************)
EXTENDS Aggregation

MCDerives ==
  {t \in {"c1", "c2"} \X (1 .. 2) \X (0 .. 3) \X (0 .. 3) \X (0 .. 3) :
     t[3] <= t[4] /\ t[4] <= t[5] /\ (t[3] < t[4] /\ t[4] = 3 => t[2] = 2)}

J(c, h, pre, post, n) ==
  [l1_head |-> h, l2_pre_root |-> pre, l2_post_root |-> post,
   l2_block_number |-> n, rollup_config_hash |-> c]

RangeProved ==
  {J("c1", 1, 0, 1, 1), J("c1", 1, 1, 2, 2), J("c1", 2, 2, 3, 3), J("c1", 2, 1, 2, 2),
   J("c2", 1, 1, 2, 2), J("c1", 1, 0, 2, 2), J("c1", 1, 2, 2, 3)}
Untrue == J("c1", 1, 2, 0, 0)

MCInputs == RangeProved \union {Untrue}
MCProved == ({"range"} \X RangeProved) \union ({"other"} \X {J("c1", 1, 1, 2, 2), Untrue})
MCDecodes == MCInputs \ {J("c1", 1, 0, 2, 2)}

=============================================================================
