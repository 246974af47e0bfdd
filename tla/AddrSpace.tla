------------------------------ MODULE AddrSpace ------------------------------
(***************************************************************************)
(* What the kernel promises of user memory: every process has a private    *)
(* run of pages from address 0.  sbrk() adds zeroed pages or drops the     *)
(* last ones, fork() copies them all, exec() replaces them all, and a call *)
(* that fails changes nothing.                                             *)
(***************************************************************************)
EXTENDS Integers, Sequences

CONSTANTS Proc, PGSIZE, Images(_)   \* Images(i): i is what exec() may install

VARIABLE as      \* [sz, sp, page] of each process; page = <<>> when it is unused

Dead == [sz |-> 0, sp |-> 0, page |-> <<>>]
Round(n) == (n + PGSIZE - 1) \div PGSIZE
Zeroed == [data |-> [o \in 0..(PGSIZE - 1) |-> 0], flags |-> {"V", "R", "W", "U"}]
Live(p) == as[p].sp > 0

Resize(p, sz) ==
    /\ Live(p)
    /\ as' = [as EXCEPT ![p] =
         [@ EXCEPT !.sz = sz,
                   !.page = [v \in 0..(Round(sz) - 1) |->
                               IF v \in DOMAIN @ THEN @[v] ELSE Zeroed]]]

Fork(p, q) == Live(p) /\ as[q] = Dead /\ as' = [as EXCEPT ![q] = as[p]]
Reap(p) == Live(p) /\ as' = [as EXCEPT ![p] = Dead]
Exec(p) == Live(p) /\ Images(as'[p]) /\ as' = [as EXCEPT ![p] = as'[p]]

\* Bytes of pages that p may write change, and nothing else.
Store(p) ==
    /\ Live(p) /\ DOMAIN as'[p].page = DOMAIN as[p].page
    /\ \A v \in DOMAIN as[p].page :
         \/ as'[p].page[v] = as[p].page[v]
         \/ /\ {"U", "W"} \subseteq as[p].page[v].flags
            /\ as'[p].page[v].flags = as[p].page[v].flags
    /\ as' = [as EXCEPT ![p] = [@ EXCEPT !.page = as'[p].page]]

Init == \E p \in Proc : /\ as[p].sz = PGSIZE /\ DOMAIN as[p].page = {0}
                        /\ \A q \in Proc \ {p} : as[q] = Dead

Next == \E p \in Proc :
    \/ \E q \in Proc : Fork(p, q)
    \/ Resize(p, as'[p].sz) \/ Reap(p) \/ Exec(p) \/ Store(p)

Spec == Init /\ [][Next]_as
=============================================================================
