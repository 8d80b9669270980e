---------------------------- MODULE MCKernelLocks ----------------------------
(* Instances of KernelLocks for TLC: Memory.mem and a shard Memory.1.mem,   *)
(* whose path comes first.                                                  *)
EXTENDS KernelLocks, TLC

CONSTANT shard

ShardFirst == (shard :> 1) @@ (Core :> 2)
Symmetry == Permutations(Requests) \cup Permutations(Persisters)
=============================================================================
