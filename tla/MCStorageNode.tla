--------------------------- MODULE MCStorageNode ---------------------------
(* Instance of StorageNode for TLC. *)
EXTENDS StorageNode, TLC
CONSTANTS c1, c2
Symmetry == Permutations(Clients) \cup Permutations(Conns) \cup Permutations(Entries)
=============================================================================
