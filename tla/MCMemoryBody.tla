---------------------------- MODULE MCMemoryBody ----------------------------
(* MemoryBody on small bodies.  Id a is disciplined in every passing run; in *)
(* MemoryBody.cfg id b is re-created while its tombstone is pending, deleted *)
(* by speculative commits before its first full save, and paged in by        *)
(* request handlers, next to it.                                             *)
EXTENDS MemoryBody

CONSTANTS a, b
============================================================================
