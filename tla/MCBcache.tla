------------------------------ MODULE MCBcache ------------------------------
(* Small instances of the buffer cache for TLC. *)
EXTENDS Bcache, TLC

Symmetry == Permutations(Proc) \cup Permutations(Block)
=============================================================================
