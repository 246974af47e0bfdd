-------------------------------- MODULE Fifo --------------------------------
(***************************************************************************)
(* What a pipe promises: a bounded queue of bytes.  Bytes come out in the  *)
(* order they went in, none twice; a byte is lost only when the reader's   *)
(* buffer cannot be written.                                               *)
(***************************************************************************)
EXTENDS Integers, Sequences

CONSTANTS Proc, Byte, Capacity

VARIABLES queue,
          got,          \* what the current read call of a process received
          ropen, wopen

vars == <<queue, got, ropen, wopen>>

Init == queue = <<>> /\ got = [p \in Proc |-> <<>>] /\ ropen = TRUE /\ wopen = TRUE

Put(c) ==
    /\ ropen /\ wopen /\ Len(queue) < Capacity
    /\ queue' = Append(queue, c)
    /\ UNCHANGED <<got, ropen, wopen>>

Get(p) ==
    /\ ropen /\ queue # <<>>
    /\ queue' = Tail(queue)
    /\ got' = [got EXCEPT ![p] = Append(@, Head(queue))]
    /\ UNCHANGED <<ropen, wopen>>

\* The end of a read call, which loses at most one byte.
EndRead(p) ==
    /\ queue' = queue \/ (queue # <<>> /\ queue' = Tail(queue))
    /\ got' = [got EXCEPT ![p] = <<>>]
    /\ UNCHANGED <<ropen, wopen>>

CloseRead == ropen /\ ropen' = FALSE /\ UNCHANGED <<queue, got, wopen>>
CloseWrite == wopen /\ wopen' = FALSE /\ UNCHANGED <<queue, got, ropen>>

Next ==
    \/ \E c \in Byte : Put(c)
    \/ \E p \in Proc : Get(p) \/ EndRead(p)
    \/ CloseRead \/ CloseWrite

Spec == Init /\ [][Next]_vars
=============================================================================
