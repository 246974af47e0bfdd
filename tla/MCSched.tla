------------------------------ MODULE MCSched ------------------------------
(* Small instances of the scheduler and the traps for TLC. *)
EXTENDS Sched, TLC
=============================================================================
