------------------------------ MODULE Umalloc ------------------------------
(***************************************************************************)
(* The allocator of user programs (user/umalloc.c): a circular list of     *)
(* free blocks in address order, searched first-fit from freep, which      *)
(* grows the process with sbrk() when no block fits.  Addresses count      *)
(* Header units; a block is its header's address.  The program is any      *)
(* sequence of malloc(), free() of a block it holds, and sbrk() of its own.*)
(* malloc() takes a uint and sbrk() an int: from 2 GB on, the bytes        *)
(* morecore() asks for are not those the kernel is asked for.              *)
(***************************************************************************)
EXTENDS Integers, FiniteSets

CONSTANTS
    HEADER,     \* sizeof(Header), in bytes
    INT,        \* number of values of an int (2^32)
    NALLOC,     \* least number of units morecore() asks for (4096)
    HEAPMAX,    \* units the kernel lets the process grow to
    Requests,   \* arguments of malloc(), below INT
    Gaps        \* units the program takes with sbrk() itself

ASSUME HeapAssumption == INT % HEADER = 0 /\ Requests \subseteq 0..(INT - 1)

VARIABLES
    h,          \* [freep, brk, ptr, size]: the allocator's memory; history
                \* overrun: it has a block larger than the memory sbrk() gave
    held,       \* blocks the program holds -> the bytes it asked for
    gaps,       \* units taken by the program's own sbrk()
    denied      \* units of a malloc() that has just returned 0, or 0

heapVars == <<h, held, gaps, denied>>

Null == 0

base == 1           \* static, below the heap

HEAP == 3

Unit == base..HEAPMAX

HeapInit ==
    /\ h = [freep |-> Null, brk |-> HEAP, ptr |-> [u \in Unit |-> Null], size |-> [u \in Unit |-> 0],
            overrun |-> FALSE]
    /\ held = <<>> /\ gaps = {} /\ denied = 0

-----------------------------------------------------------------------------
RECURSIVE Place(_, _, _), Find(_, _, _, _)

\* The loop of free(): the list element after which bp belongs.
Place(m, bp, p) ==
    LET next == m.ptr[p]
    IN  IF \/ bp > p /\ bp < next
           \/ p >= next /\ (bp > p \/ bp < next)
        THEN p ELSE Place(m, bp, next)

\* Headers swallowed by a merge are forgotten: the code never reads them again.
Clear(f, S) == [u \in Unit |-> IF u \in S THEN 0 ELSE f[u]]

Release(m, bp) ==
    LET p     == Place(m, bp, m.freep)
        next  == m.ptr[p]
        upper == bp + m.size[bp] = next
        lower == p + m.size[p] = bp
        size  == m.size[bp] + (IF upper THEN m.size[next] ELSE 0)
        after == IF upper THEN m.ptr[next] ELSE next
        gone  == (IF upper THEN {next} ELSE {}) \cup (IF lower THEN {bp} ELSE {})
        at    == IF lower THEN p ELSE bp
    IN  [m EXCEPT
           !.size = Clear([@ EXCEPT ![at] = size + (IF lower THEN m.size[p] ELSE 0)], gone),
           !.ptr  = Clear([@ EXCEPT ![p] = bp, ![at] = after], gone),
           !.freep = p]

\* The conversion of a 64-bit count to sbrk()'s int.
ToInt(n) == ((n + INT \div 2) % INT) - INT \div 2

\* growproc(n): fails only when it has to grow; a process cannot shrink below 0.
CanGrow(brk, n) == n <= 0 \/ brk + n <= HEAPMAX

Grown(brk, n) == IF brk + n < 0 THEN brk ELSE brk + n

\* morecore(): the new memory is handed to free(); [freep |-> Null] when sbrk() fails.
morecore(m, nunits) ==
    LET nu == IF nunits < NALLOC THEN NALLOC ELSE nunits
        n  == ToInt(nu * HEADER) \div HEADER
    IN  IF ~CanGrow(m.brk, n) THEN [m EXCEPT !.freep = Null]
        ELSE Release([m EXCEPT !.size[m.brk] = nu, !.brk = Grown(@, n), !.overrun = n # nu], m.brk)

\* Mutant: the block that is split keeps its size.
CarveWhole(m, prevp, p, nunits) ==
    LET at == p + m.size[p] - nunits
    IN  IF m.size[p] = nunits
        THEN [m EXCEPT !.ptr[prevp] = m.ptr[p], !.ptr[p] = Null, !.freep = prevp]
        ELSE [m EXCEPT !.size[at] = nunits, !.freep = prevp]

\* The block p, or the tail of it, leaves the list.
Carve(m, prevp, p, nunits) ==
    LET at == p + m.size[p] - nunits
    IN  IF m.size[p] = nunits
        THEN [m EXCEPT !.ptr[prevp] = m.ptr[p], !.ptr[p] = Null, !.freep = prevp]
        ELSE [m EXCEPT !.size = [@ EXCEPT ![p] = @ - nunits, ![at] = nunits], !.freep = prevp]

\* The loop of malloc(): the memory afterwards and the block, or Null.
Find(m, nunits, prevp, p) ==
    LET grown == morecore(m, nunits)
    IN  IF m.size[p] >= nunits
        THEN [m |-> Carve(m, prevp, p, nunits), bp |-> p + m.size[p] - nunits]
        ELSE IF p # m.freep THEN Find(m, nunits, p, m.ptr[p])
        ELSE IF grown.freep = Null THEN [m |-> m, bp |-> Null]
        ELSE Find(grown, nunits, grown.freep, grown.ptr[grown.freep])

Started(m) == IF m.freep = Null THEN [m EXCEPT !.freep = base, !.ptr[base] = base] ELSE m

Units(nbytes) == (nbytes + HEADER - 1) \div HEADER + 1

-----------------------------------------------------------------------------
malloc(nbytes) ==
    LET m == Started(h)
        r == Find(m, Units(nbytes), m.freep, m.ptr[m.freep])
    IN  /\ h' = r.m
        /\ IF r.bp = Null
           THEN denied' = Units(nbytes) /\ UNCHANGED held
           ELSE denied' = 0 /\ held' = [b \in DOMAIN held \cup {r.bp} |->
                                          IF b = r.bp THEN nbytes ELSE held[b]]
        /\ UNCHANGED gaps

free(bp) ==
    /\ h' = Release(h, bp)
    /\ held' = [b \in DOMAIN held \ {bp} |-> held[b]]
    /\ denied' = 0
    /\ UNCHANGED gaps

sbrk(n) ==
    /\ h.brk + n <= HEAPMAX
    /\ h' = [h EXCEPT !.brk = @ + n]
    /\ gaps' = gaps \cup h.brk..h.brk + n - 1
    /\ denied' = 0
    /\ UNCHANGED held

\* After an overrun the block's header may not be mapped, and the block is not
\* the program's memory: what follows is a page fault or an overwrite, and the
\* heap is not followed further.
HeapNext ==
    /\ ~h.overrun
    /\ \/ \E nbytes \in Requests : malloc(nbytes)
       \/ \E bp \in DOMAIN held : free(bp)
       \/ \E n \in Gaps : sbrk(n)

-----------------------------------------------------------------------------
Span(b) == b..b + h.size[b] - 1

\* The free blocks: what the list holds besides base.
RECURSIVE Listed(_)
Listed(p) == IF h.ptr[p] = base THEN {} ELSE {h.ptr[p]} \cup Listed(h.ptr[p])

\* From base the list goes up in address and returns, so that Listed ends.
Ordered == \A u \in Unit : h.ptr[u] \notin {Null, base} => u < h.ptr[u]

\* free() and malloc() keep the heap a partition: each unit obtained from sbrk()
\* is in exactly one free block, one block the program holds, or the program's
\* own sbrk() area; the list is in address order with freep on it, and no two
\* free blocks touch; a block holds the bytes asked for; malloc() returns 0
\* only when no free block fits and the process cannot grow.  All this as long
\* as no malloc() was given a block whose bytes are more than the largest int:
\* sbrk() is then asked for fewer, and malloc() may return what is not there.
HeapSound ==
    /\ h.overrun => \E b \in DOMAIN held : Units(held[b]) * HEADER >= INT \div 2
    /\ ~h.overrun /\ h.freep # Null =>
       /\ Ordered
       /\ LET list == Listed(base)
              all  == list \cup DOMAIN held
          IN  /\ h.freep \in list \cup {base}
              /\ list \cap DOMAIN held = {}
              /\ \A b, c \in all : b # c => Span(b) \cap Span(c) = {}
              /\ \A b \in all : Span(b) \cap gaps = {}
              /\ UNION {Span(b) : b \in all} \cup gaps = HEAP..h.brk - 1
              /\ \A b, c \in list : b + h.size[b] # c
              /\ \A b \in DOMAIN held : (h.size[b] - 1) * HEADER >= held[b]
              /\ denied # 0 => /\ \A b \in list : h.size[b] < denied
                               /\ h.brk + denied > HEAPMAX \/ h.brk + NALLOC > HEAPMAX
=============================================================================
