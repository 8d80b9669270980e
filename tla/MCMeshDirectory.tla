--------------------------- MODULE MCMeshDirectory ---------------------------
(* Two node ids, two keys and two registrations at once. *)
EXTENDS MeshDirectory, TLC

Symmetry == Permutations(Ids) \cup Permutations(Keys) \cup Permutations(Regs)
=============================================================================
