--------------------------- MODULE MC_Symbolizer ---------------------------
(* Symbolizer for TLC.  Two pids, two births and three nodes: both pids are *)
(* in the chain, or one of them is reused; a node is taken out at its head  *)
(* or further on, by the sweep and by a removal, while the other thread is  *)
(* at any node.  A start time that cannot be read makes a removal possible  *)
(* without a reuse.  No definition tells one pid from another.              *)
EXTENDS Symbolizer, TLC

Symmetry == Permutations(Pid)
=============================================================================
