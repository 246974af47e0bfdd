----------------------------- MODULE FileStore -----------------------------
(***************************************************************************)
(* What the file layer promises of the contents of files: a write changes  *)
(* its own file, its own bytes, to what was written; a crash takes all     *)
(* files back to one earlier moment.  view is what a read returns, safe    *)
(* what the log has of it, stable what a crash leaves.  view and safe      *)
(* differ only in bytes whose copy from user memory broke off.             *)
(***************************************************************************)
EXTENDS Integers, Sequences

CONSTANTS Inum, Sources      \* Sources: what a system call may write

VARIABLES view, safe, stable

Between(new, s, t) == Len(new) = Len(s) /\ \A k \in DOMAIN new : new[k] \in {s[k], t[k]}

\* s with the units w from offset off on, longer where they reach past its end.
Overwrite(s, off, w) ==
    [k \in 1..(IF off + Len(w) > Len(s) THEN off + Len(w) ELSE Len(s)) |->
        IF k \in (off + 1)..(off + Len(w)) THEN w[k - off] ELSE s[k]]

OnlyFile(i) == \A x \in Inum \ {i} : view'[x] = view[x] /\ safe'[x] = safe[x]

Piece(src, a, b) == SubSeq(src, a, b)

\* A piece of a write.  The log takes whole blocks, and with them bytes that
\* an earlier write left in view only.
Write(i) ==
    /\ \E src \in Sources : \E a, b \in DOMAIN src : \E off \in 0..Len(view[i]) :
         LET w == Piece(src, a, b) IN
         /\ view'[i] = Overwrite(view[i], off, w)
         /\ Between(safe'[i], Overwrite(safe[i], off, w), view'[i])
    /\ OnlyFile(i) /\ UNCHANGED stable

\* A copy that broke off.
Smudge(i) ==
    /\ \E src \in Sources : \E a, b \in DOMAIN src : \E off \in 0..Len(view[i]) :
         view'[i] = SubSeq(Overwrite(view[i], off, Piece(src, a, b)), 1, Len(view[i]))
    /\ safe'[i] = safe[i] /\ OnlyFile(i) /\ UNCHANGED stable

\* Bytes that only the cache had are gone with it.
Fade(i) == Between(view'[i], view[i], safe[i]) /\ safe'[i] = safe[i] /\ OnlyFile(i) /\ UNCHANGED stable

Truncate(i) == view'[i] = <<>> /\ safe'[i] = <<>> /\ OnlyFile(i) /\ UNCHANGED stable

Commit == stable' = safe /\ UNCHANGED <<view, safe>>

Crash == view' = stable /\ safe' = stable /\ UNCHANGED stable

Init == safe = view /\ stable = view

Next == Commit \/ Crash \/ \E i \in Inum : Write(i) \/ Smudge(i) \/ Fade(i) \/ Truncate(i)

Spec == Init /\ [][Next]_<<view, safe, stable>>
=============================================================================
