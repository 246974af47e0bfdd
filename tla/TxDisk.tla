------------------------------- MODULE TxDisk -------------------------------
(***************************************************************************)
(* What the logging layer of xv6 (kernel/log.c) promises to the file       *)
(* system above it: a disk whose blocks are changed by operations, where   *)
(* the changes of a group of operations become durable all at once, never  *)
(* while an operation is under way, and a crash falls back to the last     *)
(* durable state.  The header comment of log.c, lines 10-31, says as much. *)
(***************************************************************************)
CONSTANTS Proc,    \* the processes that run file-system calls
          Block,   \* block numbers of the file system (home locations)
          Value    \* contents of a block

VARIABLES mem,      \* what a read through the buffer cache returns
          durable,  \* what a reader finds after a crash and a reboot
          open      \* processes between begin_op() and end_op()

vars == <<mem, durable, open>>

Init ==
    /\ durable \in [Block -> Value]
    /\ mem = durable
    /\ open = {}

Begin(p) ==
    /\ p \notin open
    /\ open' = open \cup {p}
    /\ UNCHANGED <<mem, durable>>

Write(p, b, v) ==
    /\ p \in open
    /\ mem' = [mem EXCEPT ![b] = v]
    /\ UNCHANGED <<durable, open>>

End(p) ==
    /\ p \in open
    /\ open' = open \ {p}
    /\ UNCHANGED <<mem, durable>>

\* All that was written since the last commit becomes durable in one step,
\* and no operation is cut in two by it.
Commit ==
    /\ open = {}
    /\ durable' = mem
    /\ UNCHANGED <<mem, open>>

Crash ==
    /\ mem' = durable
    /\ open' = {}
    /\ UNCHANGED durable

Next ==
    \/ \E p \in Proc : Begin(p) \/ End(p)
    \/ \E p \in Proc, b \in Block, v \in Value : Write(p, b, v)
    \/ Commit
    \/ Crash

Spec == Init /\ [][Next]_vars
=============================================================================
