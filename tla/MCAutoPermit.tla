---------------------------- MODULE MCAutoPermit ----------------------------
(* Instances of AutoPermit for TLC. *)
EXTENDS AutoPermit, TLC

CONSTANTS o1, o2, o3

Symmetry == Permutations(Orders) \cup Permutations(RpcThreads)
=============================================================================
