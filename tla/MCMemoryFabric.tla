--------------------------- MODULE MCMemoryFabric ---------------------------
(* Instance of MemoryFabric for TLC: one core body and one storage body. *)
EXTENDS MemoryFabric
=============================================================================
