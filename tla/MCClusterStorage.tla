-------------------------- MODULE MCClusterStorage --------------------------
(* The instances of ClusterStorage that TLC checks. *)
EXTENDS ClusterStorage, TLC

Symmetry == Permutations(Nodes) \cup Permutations(Req)

AllOps == MdOps \cup LvmOps \cup {"mkfs"}
=============================================================================
