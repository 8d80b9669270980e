---------------------------- MODULE MCExternalIO ----------------------------
(* Instances of ExternalIO for TLC. *)
EXTENDS ExternalIO, TLC

IdSymmetry == Permutations(Ids)
=============================================================================
