--------------------------- MODULE MCTransactions ---------------------------
(* Instances of Transactions for TLC: a core body and a shard. *)
EXTENDS Transactions, TLC

Symmetry == Permutations(Txns) \cup Permutations(Primary \ Fresh)
=============================================================================
