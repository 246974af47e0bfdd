----------------------------- MODULE BlockStore -----------------------------
(***************************************************************************)
(* What the buffer cache promises (kernel/bio.c, lines 1-16): a process    *)
(* that has a block has it alone, finds in it what was last written to it, *)
(* and loses nothing when the buffer is given to another block.            *)
(***************************************************************************)
CONSTANTS Proc, Block, Value

VARIABLES val,     \* the contents of each block
          holder   \* which processes have which block

vars == <<val, holder>>

Init ==
    /\ val \in [Block -> Value]
    /\ holder = {}

Acquire(p, b) ==                            \* bread() returns
    /\ \A h \in holder : h[1] # p /\ h[2] # b
    /\ holder' = holder \cup {<<p, b>>}
    /\ UNCHANGED val

Write(p, b, v) ==
    /\ <<p, b>> \in holder
    /\ val' = [val EXCEPT ![b] = v]
    /\ UNCHANGED holder

Release(p, b) ==                            \* brelse()
    /\ <<p, b>> \in holder
    /\ holder' = holder \ {<<p, b>>}
    /\ UNCHANGED val

Next == \E p \in Proc, b \in Block :
            \/ Acquire(p, b)
            \/ Release(p, b)
            \/ \E v \in Value : Write(p, b, v)

Spec == Init /\ [][Next]_vars
=============================================================================
