----------------------------- MODULE MCConsole -----------------------------
(* Console for TLC: processes are interchangeable.                         *)
EXTENDS Console, TLC

Symmetry == Permutations(Proc)
=============================================================================
