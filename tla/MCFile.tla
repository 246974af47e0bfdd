------------------------------- MODULE MCFile -------------------------------
(* Small instances of the file table for TLC. *)
EXTENDS File, TLC

Symmetry == Permutations(Proc \ {InitProc})
=============================================================================
