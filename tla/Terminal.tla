------------------------------ MODULE Terminal ------------------------------
(***************************************************************************)
(* What the console promises to the programs that read and write it: the   *)
(* input is a queue of finished lines after which the line being typed can *)
(* still be edited, and output leaves in the order it was written.         *)
(***************************************************************************)
EXTENDS Integers, Sequences, SequencesExt

CONSTANTS Proc, Key,
          NL, EOF,          \* what ends a line
          InCap, OutCap     \* bytes of input and output that are kept

VARIABLES line,    \* typed, not yet finished
          queue,   \* finished, not yet read
          got,     \* what the running read() of a process has received
          out      \* written, not yet given to the device

vars == <<line, queue, got, out>>

Init == line = <<>> /\ queue = <<>> /\ got = [p \in Proc |-> <<>>] /\ out = <<>>

\* A line is also finished when there is no room for more.
Type(c) ==
    /\ Len(queue) + Len(line) < InCap
    /\ IF c \in {NL, EOF} \/ Len(queue) + Len(line) + 1 = InCap
       THEN queue' = queue \o Append(line, c) /\ line' = <<>>
       ELSE line' = Append(line, c) /\ UNCHANGED queue
    /\ UNCHANGED <<got, out>>

Erase ==
    /\ line # <<>> /\ line' = Front(line)
    /\ UNCHANGED <<queue, got, out>>

Take(p) ==
    /\ queue # <<>> /\ Head(queue) # EOF
    /\ queue' = Tail(queue)
    /\ got' = [got EXCEPT ![p] = Append(@, Head(queue))]
    /\ UNCHANGED <<line, out>>

\* The end of a read() uses up an end of file if it has nothing else to
\* return; otherwise at most a byte that could not be copied is lost.
EndRead(p) ==
    /\ \/ UNCHANGED queue
       \/ /\ queue # <<>> /\ queue' = Tail(queue)
          /\ Head(queue) = EOF => got[p] = <<>>
    /\ got' = [got EXCEPT ![p] = <<>>]
    /\ UNCHANGED <<line, out>>

Write(c) == Len(out) < OutCap /\ out' = Append(out, c) /\ UNCHANGED <<line, queue, got>>
Send == out # <<>> /\ out' = Tail(out) /\ UNCHANGED <<line, queue, got>>

Next ==
    \/ \E c \in Key : Type(c) \/ Write(c)
    \/ \E p \in Proc : Take(p) \/ EndRead(p)
    \/ Erase \/ Send

Spec == Init /\ [][Next]_vars
=============================================================================
