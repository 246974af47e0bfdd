------------------------------ MODULE SyncDisk ------------------------------
(***************************************************************************)
(* What virtio_disk_rw() promises to bread() and bwrite(): the transfer    *)
(* takes place exactly once between the call and the return.  A process    *)
(* works on the buffer, and the block, it has locked: both are named by    *)
(* the process.                                                            *)
(***************************************************************************)
CONSTANTS Proc, Value

VARIABLES disk,   \* contents of the block of each process on the disk
          data,   \* b->data of its buffer
          req,    \* state of its request
          write   \* direction of its request

vars == <<disk, data, req, write>>

Init ==
    /\ disk \in [Proc -> Value]
    /\ data \in [Proc -> Value]
    /\ req = [p \in Proc |-> "none"]
    /\ write = [p \in Proc |-> FALSE]

\* The caller of bwrite() has changed the buffer before the call; bread() finds
\* in it what another block left.
Call(p, w, v) ==
    /\ req[p] = "none"
    /\ req' = [req EXCEPT ![p] = "called"]
    /\ write' = [write EXCEPT ![p] = w]
    /\ data' = [data EXCEPT ![p] = v]
    /\ UNCHANGED disk

Transfer(p) ==
    /\ req[p] = "called"
    /\ req' = [req EXCEPT ![p] = "done"]
    /\ IF write[p]
       THEN disk' = [disk EXCEPT ![p] = data[p]] /\ UNCHANGED data
       ELSE data' = [data EXCEPT ![p] = disk[p]] /\ UNCHANGED disk
    /\ UNCHANGED write

Return(p) ==
    /\ req[p] = "done"
    /\ req' = [req EXCEPT ![p] = "none"]
    /\ write' = [write EXCEPT ![p] = FALSE]
    /\ UNCHANGED <<disk, data>>

Next == \E p \in Proc :
            \/ Transfer(p)
            \/ Return(p)
            \/ \E w \in BOOLEAN, v \in Value : Call(p, w, v)

Spec == Init /\ [][Next]_vars
=============================================================================
