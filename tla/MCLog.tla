------------------------------- MODULE MCLog -------------------------------
(* Small instances of the log for TLC. *)
EXTENDS LogInv, TLC

Symmetry == Permutations(Block) \cup Permutations(Proc \ {InitProc})
=============================================================================
