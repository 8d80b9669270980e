----------------------------- MODULE MCMeshGrant -----------------------------
(* A small mesh for TLC: a Sovereign and one target.  The goroutines that  *)
(* serve requests are interchangeable.                                     *)
EXTENDS MeshGrant, TLC
CONSTANTS sovereign, target

MCOrder == <<sovereign, target>>
Symmetry == Permutations(Handlers)
=============================================================================
