------------------------------- MODULE MCPipe -------------------------------
(* Small instances of the pipe for TLC. *)
EXTENDS Pipe, TLC

Symmetry == Permutations(Proc) \cup Permutations(Byte)
=============================================================================
