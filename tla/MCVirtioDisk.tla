---------------------------- MODULE MCVirtioDisk ----------------------------
(* Small instances of the disk driver for TLC. *)
EXTENDS VirtioDisk, TLC

Symmetry == Permutations(Proc) \cup Permutations(Value)
=============================================================================
