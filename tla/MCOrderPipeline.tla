-------------------------- MODULE MCOrderPipeline --------------------------
(* Instances of OrderPipeline for TLC. *)
EXTENDS OrderPipeline, TLC

CONSTANTS i1, i2

Symmetry == Permutations({i1, i2})
=============================================================================
