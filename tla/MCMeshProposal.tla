--------------------------- MODULE MCMeshProposal ---------------------------
(* MeshProposal with a few handlers and revisions. *)
EXTENDS MeshProposal, TLC

HandlerSymmetry == Permutations(Handlers)
============================================================================
