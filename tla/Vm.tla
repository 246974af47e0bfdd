--------------------------------- MODULE Vm ---------------------------------
(***************************************************************************)
(* Physical pages and user page tables: kernel/kalloc.c, kernel/vm.c, and  *)
(* the operations of proc.c, exec.c and sysfile.c that build, copy, resize *)
(* and free an address space.  Page-table pages are pages of mem, taken    *)
(* from the same free list as everything else, so that every allocation of *)
(* every operation may fail.                                               *)
(*                                                                         *)
(* A kernel function is an operator from a machine state s to the state it *)
(* leaves, with its result in s.ret.  A system call is one step: it works  *)
(* on pages that only it can reach, and once kalloc() has failed it asks   *)
(* for no other page, so what the other CPUs do meanwhile shows only in    *)
(* how many pages are free.                                                *)
(***************************************************************************)
EXTENDS Integers, Sequences, FiniteSets

CONSTANTS Proc, InitProc,
          NPAGES,        \* pages between end and PHYSTOP
          PGSIZE,        \* bytes in a page
          FAN,           \* PTEs in a page-table page (512)
          USERSTACK, MAXARG,
          ALIGN,         \* alignment of the user stack pointer (16)
          UINT64,        \* number of values of a uint64
          Execs,         \* the calls of exec(): <<file, lengths of the argument strings>>
          SbrkN,         \* the arguments of sbrk()
          Access,        \* <<address, length>> of kernel copies
          MAXPIPES,      \* bound: pages held by pipes
          MAXOPS         \* bound: calls in a behaviour

MAXVA == (FAN * FAN * FAN * PGSIZE) \div 2
TRAMPOLINE == MAXVA - PGSIZE
TRAPFRAME == TRAMPOLINE - PGSIZE

\* RAM is far smaller than the virtual addresses (128 MB and 256 GB).
ASSUME VmAssumption ==
    /\ InitProc \in Proc /\ NPAGES \in Nat /\ NPAGES > 7 + MAXPIPES
    /\ PGSIZE \in Nat \ {0, 1} /\ FAN \in Nat \ {0, 1}
    /\ NPAGES * PGSIZE < TRAPFRAME /\ 2 * MAXVA <= UINT64

Page == 1..NPAGES
TEXT == NPAGES + 1          \* the trampoline's page, part of the kernel's text
Fill(b) == [o \in 0..(PGSIZE - 1) |-> b]
NoPte == [pa |-> 0, flags |-> {}]
EmptyTable == [i \in 0..(FAN - 1) |-> NoPte]
Unused == [pagetable |-> 0, trapframe |-> 0, sz |-> 0]

VARIABLES free,      \* how often a page is on kmem.freelist
          mem,       \* what a page holds: PTEs or bytes
          proc,      \* pagetable, trapframe and sz of a process
          pipes,     \* pages that hold a struct pipe
          panic,     \* the message of a panic, or ""
          nops

vars == <<free, mem, proc, pipes, panic, nops>>

PGROUNDDOWN(a) == a - (a % PGSIZE)
PGROUNDUP(n) == PGROUNDDOWN((n + PGSIZE - 1) % UINT64)
PX(level, va) == (va \div (PGSIZE * FAN ^ level)) % FAN
Ret(s, r) == [s EXCEPT !.ret = r]
Panic(s, why) == [s EXCEPT !.panic = why, !.ret = 0]
Stopped(s) == s.panic # ""
-----------------------------------------------------------------------------
(* kalloc.c                                                                *)

\* Which free page the list yields first is immaterial: the least one.
kalloc(s) ==
    IF \A pg \in Page : s.free[pg] = 0 THEN Ret(s, 0)
    ELSE LET r == CHOOSE pg \in Page : s.free[pg] > 0 /\ \A x \in 1..(pg - 1) : s.free[x] = 0
         IN  [s EXCEPT !.free[r] = @ - 1, !.mem[r] = Fill(5), !.ret = r]

kfree(s, pa) ==
    IF pa \notin Page THEN Panic(s, "kfree")
    ELSE [s EXCEPT !.mem[pa] = Fill(1), !.free[pa] = @ + 1, !.ret = 0]
-----------------------------------------------------------------------------
(* vm.c: page tables                                                       *)

RECURSIVE WalkLevel(_, _, _, _, _)
WalkLevel(s, pt, level, va, alloc) ==
    LET i == PX(level, va)
        pte == s.mem[pt][i]
        grow(k) == IF k.ret = 0 THEN k
                   ELSE WalkLevel([k EXCEPT !.mem[k.ret] = EmptyTable,
                                            !.mem[pt][i] = [pa |-> k.ret, flags |-> {"V"}]],
                                  k.ret, level - 1, va, alloc)
    IN  IF level = 0 THEN [s EXCEPT !.ret = pt, !.ix = i]
        ELSE IF "V" \in pte.flags THEN WalkLevel(s, pte.pa, level - 1, va, alloc)
        ELSE IF ~alloc THEN Ret(s, 0)
        ELSE grow(kalloc(s))

\* The PTE for va is entry s.ix of page s.ret.
walk(s, pt, va, alloc) ==
    IF va >= MAXVA THEN Panic(s, "walk") ELSE WalkLevel(s, pt, 2, va, alloc)

Pte(s) == s.mem[s.ret][s.ix]

\* Mutant: PTE_U is not tested.
WalkaddrAnyPage(s, pt, va) ==
    LET leaf(w) == IF w.ret # 0 /\ "V" \in Pte(w).flags THEN Pte(w).pa ELSE 0
    IN  IF va >= MAXVA THEN 0 ELSE leaf(walk(s, pt, va, FALSE))

walkaddr(s, pt, va) ==
    LET leaf(w) == IF w.ret # 0 /\ {"V", "U"} \subseteq Pte(w).flags THEN Pte(w).pa ELSE 0
    IN  IF va >= MAXVA THEN 0 ELSE leaf(walk(s, pt, va, FALSE))

\* Of one page, as every caller below asks.
mappages(s, pt, va, pa, perm) ==
    LET map(w) ==
          IF Stopped(w) THEN w
          ELSE IF w.ret = 0 THEN Ret(w, -1)
          ELSE IF "V" \in Pte(w).flags THEN Panic(w, "mappages: remap")
          ELSE [w EXCEPT !.mem[w.ret][w.ix] = [pa |-> pa, flags |-> perm \cup {"V"}], !.ret = 0]
    IN  map(walk(s, pt, va, TRUE))

RECURSIVE uvmunmap(_, _, _, _, _)
uvmunmap(s, pt, va, npages, do_free) ==
    LET freed(w) == IF do_free THEN kfree(w, Pte(w).pa) ELSE w
        unmap(w) ==
          IF w.ret = 0 THEN Panic(s, "uvmunmap: walk")
          ELSE IF "V" \notin Pte(w).flags THEN Panic(s, "uvmunmap: not mapped")
          ELSE IF Pte(w).flags = {"V"} THEN Panic(s, "uvmunmap: not a leaf")
          ELSE uvmunmap([freed(w) EXCEPT !.mem[w.ret][w.ix] = NoPte],
                        pt, va + PGSIZE, npages - 1, do_free)
    IN  IF npages = 0 \/ Stopped(s) THEN s ELSE unmap(walk(s, pt, va, FALSE))

uvmdealloc(s, pt, oldsz, newsz) ==
    IF newsz >= oldsz THEN Ret(s, oldsz)
    ELSE Ret(uvmunmap(s, pt, PGROUNDUP(newsz),
                      (PGROUNDUP(oldsz) - PGROUNDUP(newsz)) \div PGSIZE, TRUE), newsz)

\* The loop of uvmalloc(), from page a on; first is where it began.
RECURSIVE AllocFrom(_, _, _, _, _, _)
AllocFrom(s, pt, first, a, newsz, xperm) ==
    LET undo(t) == Ret(uvmdealloc(t, pt, a, first), 0)
        mapped(pg, m) == IF Stopped(m) THEN m
                         ELSE IF m.ret # 0 THEN undo(kfree(m, pg))
                         ELSE AllocFrom(m, pt, first, a + PGSIZE, newsz, xperm)
        map(k) == IF k.ret = 0 THEN undo(k)
                  ELSE mapped(k.ret, mappages([k EXCEPT !.mem[k.ret] = Fill(0)],
                                              pt, a, k.ret, {"R", "U"} \cup xperm))
    IN  IF a >= newsz THEN Ret(s, newsz) ELSE map(kalloc(s))

uvmalloc(s, pt, oldsz, newsz, xperm) ==
    IF newsz < oldsz THEN Ret(s, oldsz)
    ELSE AllocFrom(s, pt, PGROUNDUP(oldsz), PGROUNDUP(oldsz), newsz, xperm)

RECURSIVE freewalk(_, _)
RECURSIVE FreeEntries(_, _, _)
freewalk(s, pt) ==
    LET freed(f) == IF Stopped(f) THEN f ELSE kfree(f, pt) IN freed(FreeEntries(s, pt, 0))

\* The loop of freewalk(), from entry i on.
FreeEntries(s, pt, i) ==
    LET pte == s.mem[pt][i]
        next(f) == FreeEntries([f EXCEPT !.mem[pt][i] = NoPte], pt, i + 1)
    IN  IF i = FAN \/ Stopped(s) THEN s
        ELSE IF "V" \notin pte.flags THEN FreeEntries(s, pt, i + 1)
        ELSE IF pte.flags \cap {"R", "W", "X"} # {} THEN Panic(s, "freewalk: leaf")
        ELSE next(freewalk(s, pte.pa))

uvmfree(s, pt, sz) ==
    LET tables(u) == IF Stopped(u) THEN u ELSE freewalk(u, pt)
    IN  tables(uvmunmap(s, pt, 0, PGROUNDUP(sz) \div PGSIZE, TRUE))

\* uvmcopy(), from page i on.
RECURSIVE CopyFrom(_, _, _, _, _)
CopyFrom(s, old, new, i, sz) ==
    LET err(t) == Ret(uvmunmap(t, new, 0, i \div PGSIZE, TRUE), -1)
        mapped(pg, m) == IF Stopped(m) THEN m
                         ELSE IF m.ret # 0 THEN err(kfree(m, pg))
                         ELSE CopyFrom(m, old, new, i + PGSIZE, sz)
        copy(pte, k) == IF k.ret = 0 THEN err(k)
                        ELSE mapped(k.ret, mappages([k EXCEPT !.mem[k.ret] = s.mem[pte.pa]],
                                                    new, i, k.ret, pte.flags))
        page(w) == IF w.ret = 0 THEN Panic(s, "uvmcopy: pte should exist")
                   ELSE IF "V" \notin Pte(w).flags THEN Panic(s, "uvmcopy: page not present")
                   ELSE copy(Pte(w), kalloc(s))
    IN  IF i >= sz THEN Ret(s, 0) ELSE page(walk(s, old, i, FALSE))

uvmcopy(s, old, new, sz) == CopyFrom(s, old, new, 0, sz)

\* Mutant: the guard page stays accessible.
UvmclearForgotten(s, pt, va) == s

uvmclear(s, pt, va) ==
    LET clear(w) == IF w.ret = 0 THEN Panic(s, "uvmclear")
                    ELSE [w EXCEPT !.mem[w.ret][w.ix].flags = @ \ {"U"}]
    IN  clear(walk(s, pt, va, FALSE))
-----------------------------------------------------------------------------
(* vm.c and syscall.c: copies between the kernel and user memory           *)

Least(a, b) == IF a < b THEN a ELSE b

\* The bytes of src go to dstva, page by page, up to the first page that refuses.
RECURSIVE copyout(_, _, _, _)
copyout(s, pt, dstva, src) ==
    LET va0 == PGROUNDDOWN(dstva)
        off == dstva - va0
        n == Least(PGSIZE - off, Len(src))
        put(w) ==
          IF w.ret = 0 \/ ~({"V", "U", "W"} \subseteq Pte(w).flags) THEN Ret(s, -1)
          ELSE copyout([s EXCEPT !.mem[Pte(w).pa] =
                          [o \in DOMAIN @ |-> IF o \in off..(off + n - 1) THEN src[o - off + 1] ELSE @[o]]],
                       pt, va0 + PGSIZE, SubSeq(src, n + 1, Len(src)))
    IN  IF src = <<>> THEN Ret(s, 0)
        ELSE IF va0 >= MAXVA THEN Ret(s, -1)
        ELSE put(walk(s, pt, va0, FALSE))

Joined(bytes, rest) == IF rest = <<-1>> THEN <<-1>> ELSE bytes \o rest

\* The bytes read, or <<-1>>.
RECURSIVE copyin(_, _, _, _)
copyin(s, pt, srcva, len) ==
    LET va0 == PGROUNDDOWN(srcva)
        off == srcva - va0
        n == Least(PGSIZE - off, len)
        from(pa0) == IF pa0 = 0 THEN <<-1>>
                     ELSE Joined([j \in 1..n |-> s.mem[pa0][off + j - 1]],
                                 copyin(s, pt, va0 + PGSIZE, len - n))
    IN  IF len = 0 THEN <<>> ELSE from(walkaddr(s, pt, va0))

\* The string without its NUL, or <<-1>>.
RECURSIVE copyinstr(_, _, _, _)
copyinstr(s, pt, srcva, max) ==
    LET va0 == PGROUNDDOWN(srcva)
        off == srcva - va0
        n == Least(PGSIZE - off, max)
        nul(pa0) == {j \in 0..(n - 1) : s.mem[pa0][off + j] = 0}
        upto(pa0, k) == [j \in 1..k |-> s.mem[pa0][off + j - 1]]
        from(pa0) == IF pa0 = 0 THEN <<-1>>
                     ELSE IF nul(pa0) # {} THEN upto(pa0, CHOOSE j \in nul(pa0) : \A x \in nul(pa0) : j <= x)
                     ELSE Joined(upto(pa0, n), copyinstr(s, pt, va0 + PGSIZE, max - n))
    IN  IF max = 0 THEN <<-1>> ELSE from(walkaddr(s, pt, va0))

fetchaddr(s, p, addr, size) ==
    LET sz == s.proc[p].sz IN
    IF addr >= sz \/ (addr + size) % UINT64 > sz THEN <<-1>>
    ELSE copyin(s, s.proc[p].pagetable, addr, size)
-----------------------------------------------------------------------------
(* proc.c                                                                  *)

proc_pagetable(s, trapframe) ==
    LET both(pt, f) == IF f.ret < 0 THEN Ret(uvmfree(uvmunmap(f, pt, TRAMPOLINE, 1, FALSE), pt, 0), 0)
                       ELSE Ret(f, pt)
        one(pt, t) == IF t.ret < 0 THEN Ret(uvmfree(t, pt, 0), 0)
                      ELSE both(pt, mappages(t, pt, TRAPFRAME, trapframe, {"R", "W"}))
        table(k) == IF k.ret = 0 THEN k
                    ELSE one(k.ret, mappages([k EXCEPT !.mem[k.ret] = EmptyTable],
                                             k.ret, TRAMPOLINE, TEXT, {"R", "X"}))
    IN  table(kalloc(s))

proc_freepagetable(s, pt, sz) ==
    uvmfree(uvmunmap(uvmunmap(s, pt, TRAMPOLINE, 1, FALSE), pt, TRAPFRAME, 1, FALSE), pt, sz)

\* The rest of freeproc() is in module Proc.
freeproc(s, p) ==
    LET q == s.proc[p]
        a == IF q.trapframe # 0 THEN kfree(s, q.trapframe) ELSE s
        b == IF q.pagetable # 0 THEN proc_freepagetable(a, q.pagetable, q.sz) ELSE a
    IN  [b EXCEPT !.proc[p] = Unused]

allocproc(s, p) ==
    LET table(g) == IF g.ret = 0 THEN Ret(freeproc(g, p), 0)
                    ELSE Ret([g EXCEPT !.proc[p].pagetable = g.ret], 1)
        frame(k) == IF k.ret = 0 THEN Ret(freeproc(k, p), 0)
                    ELSE table(proc_pagetable([k EXCEPT !.proc[p].trapframe = k.ret], k.ret))
    IN  frame(kalloc(s))

\* trapframe->sp is byte 0 of the trapframe.
SetSp(s, p, sp) == [s EXCEPT !.mem[s.proc[p].trapframe][0] = sp]

\* kinit(), then userinit() with uvmfirst().
Booted ==
    LET s == [free |-> [pg \in Page |-> 1], mem |-> [pg \in Page |-> Fill(1)], panic |-> "",
              proc |-> [p \in Proc |-> Unused], ret |-> 0, ix |-> 0]
        a == allocproc(s, InitProc)
        k == kalloc(a)
        m == mappages([k EXCEPT !.mem[k.ret] = Fill(2)], k.proc[InitProc].pagetable, 0, k.ret,
                      {"R", "W", "X", "U"})
    IN  SetSp([m EXCEPT !.proc[InitProc].sz = PGSIZE], InitProc, PGSIZE)

growproc(s, p, n) ==
    LET q == s.proc[p]
        new == (q.sz + n) % UINT64
        resized(g) == [g EXCEPT !.proc[p].sz = g.ret, !.ret = 0]
        grown(g) == IF g.ret = 0 THEN Ret(g, -1) ELSE resized(g)
    IN  IF n > 0 THEN grown(uvmalloc(s, q.pagetable, q.sz, new, {"W"}))
        ELSE IF n < 0 THEN resized(uvmdealloc(s, q.pagetable, q.sz, new))
        ELSE Ret(s, 0)

\* The part of fork() that concerns memory.
fork(s, p, np) ==
    LET q == s.proc[p]
        copied(c) == IF c.ret < 0 THEN Ret(freeproc(c, np), -1)
                     ELSE [c EXCEPT !.proc[np].sz = q.sz,
                                    !.mem[c.proc[np].trapframe] = c.mem[c.proc[p].trapframe]]
        child(a) == IF a.ret = 0 THEN Ret(a, -1)
                    ELSE copied(uvmcopy(a, q.pagetable, a.proc[np].pagetable, q.sz))
    IN  child(allocproc(s, np))
-----------------------------------------------------------------------------
(* exec.c and sys_exec()                                                   *)

flags2perm(flags) == flags \cap {"X", "W"}

\* readi() fills n bytes of page pa with the file's, if the file has them.
RECURSIVE LoadFrom(_, _, _, _)
LoadFrom(s, pt, seg, i) ==
    LET n == Least(seg.filesz - i, PGSIZE)
        have == Least(n, seg.avail - i)
        read(pa) == [s EXCEPT !.mem[pa] = [o \in DOMAIN @ |-> IF o < have THEN 2 ELSE @[o]]]
        load(pa) == IF pa = 0 THEN Panic(s, "loadseg: address should exist")
                    ELSE IF have < n THEN Ret(read(pa), -1)
                    ELSE LoadFrom(read(pa), pt, seg, i + PGSIZE)
    IN  IF i >= seg.filesz THEN Ret(s, 0) ELSE load(walkaddr(s, pt, seg.vaddr + i))

loadseg(s, pt, seg) == LoadFrom(s, pt, seg, 0)

Bad(s, pt, sz) == Ret(IF Stopped(s) THEN s ELSE proc_freepagetable(s, pt, sz), -1)

\* The program headers from the i-th on.  The result is sz, or -1 after "bad".
RECURSIVE LoadSegs(_, _, _, _, _)
LoadSegs(s, pt, segs, i, sz) ==
    LET ph == segs[i]
        end == (ph.vaddr + ph.memsz) % UINT64
        loaded(sz1, l) == IF l.ret < 0 THEN Bad(l, pt, sz1)
                          ELSE LoadSegs(l, pt, segs, i + 1, sz1)
        load(u) == IF u.ret = 0 THEN Bad(u, pt, sz) ELSE loaded(u.ret, loadseg(u, pt, ph))
    IN  IF Stopped(s) THEN s
        ELSE IF i > Len(segs) THEN Ret(s, sz)
        ELSE IF ph.type = "short" THEN Bad(s, pt, sz)
        ELSE IF ph.type # "load" THEN LoadSegs(s, pt, segs, i + 1, sz)
        ELSE IF ph.memsz < ph.filesz \/ end < ph.vaddr \/ ph.vaddr % PGSIZE # 0 THEN Bad(s, pt, sz)
        ELSE load(uvmalloc(s, pt, sz, end, flags2perm(ph.flags)))

\* Push copies bytes below sp, aligned; the result is the new sp, or 0.
Push(s, pt, sp, base, bytes) ==
    LET low == sp - Len(bytes)
        sp1 == low - (low % ALIGN)
        pushed(c) == IF c.ret < 0 THEN Ret(c, 0) ELSE Ret(c, sp1)
    IN  IF sp1 < base THEN Ret(s, 0) ELSE pushed(copyout(s, pt, sp1, bytes))

RECURSIVE PushArgs(_, _, _, _, _, _)
PushArgs(s, pt, sp, base, argv, ustack) ==
    LET i == Len(ustack)
        next(a) == IF a.ret = 0 THEN a ELSE PushArgs(a, pt, a.ret, base, argv, Append(ustack, a.ret))
    IN  IF i = Len(argv) THEN Push(s, pt, sp, base, Append(ustack, 0))
        ELSE IF i >= MAXARG THEN Ret(s, 0)
        ELSE next(Push(s, pt, sp, base, argv[i + 1]))

\* elf.ok: namei() finds the file, and its header is whole and has the magic number.
exec(s, p, elf, argv) ==
    LET q == s.proc[p]
        top(sz) == sz + (USERSTACK + 1) * PGSIZE
        commit(pt, sz, a) ==
          IF a.ret = 0 THEN Bad(a, pt, top(sz))
          ELSE Ret(proc_freepagetable([SetSp(a, p, a.ret) EXCEPT !.proc[p].pagetable = pt,
                                                                 !.proc[p].sz = top(sz)],
                                      q.pagetable, q.sz), Len(argv))
        args(pt, sz, u) ==
          IF u.ret = 0 THEN Bad(u, pt, sz)
          ELSE commit(pt, sz, PushArgs(uvmclear(u, pt, sz), pt, top(sz),
                                       top(sz) - USERSTACK * PGSIZE, argv, <<>>))
        stack(pt, l) ==
          IF Stopped(l) \/ l.ret < 0 THEN l
          ELSE LET sz == PGROUNDUP(l.ret) IN args(pt, sz, uvmalloc(l, pt, sz, top(sz), {"W"}))
        load(g) == IF g.ret = 0 THEN Ret(g, -1)
                   ELSE stack(g.ret, LoadSegs(g, g.ret, elf.segs, 1, 0))
    IN  IF ~elf.ok THEN Ret(s, -1) ELSE load(proc_pagetable(s, q.trapframe))

\* A string of length n, with its NUL.
Str(n) == [j \in 1..n |-> 1] \o <<0>>
Strs(args) == [i \in DOMAIN args |-> Str(args[i])]

RECURSIVE FreeAll(_, _)
FreeAll(s, pages) == IF pages = <<>> THEN s ELSE FreeAll(kfree(s, Head(pages)), Tail(pages))

\* Mutant: the argument pages are freed only when exec() succeeds.
SysExecKeepsArgs(s, p, elf, args, pages) ==
    LET done(e) == IF e.ret < 0 THEN e ELSE FreeAll(e, pages)
    IN  done(exec(s, p, elf, Strs(args)))

\* The argument pages are all read: exec() and then the loop that frees them.
ExecWith(s, p, elf, args, pages) == FreeAll(exec(s, p, elf, Strs(args)), pages)

\* Where uargv runs out of the process's memory, and fetchaddr() fails.
Unreadable == -1

\* One kernel page for each argument, filled by fetchstr(), whose limit is PGSIZE.
RECURSIVE sys_exec(_, _, _, _, _)
sys_exec(s, p, elf, args, pages) ==
    LET i == Len(pages)
        fetch(k) == IF k.ret = 0 THEN FreeAll(k, pages)
                    ELSE IF args[i + 1] >= PGSIZE THEN FreeAll(k, Append(pages, k.ret))
                    ELSE sys_exec(k, p, elf, args, Append(pages, k.ret))
    IN  IF i >= MAXARG THEN FreeAll(s, pages)
        ELSE IF i = Len(args) THEN ExecWith(s, p, elf, args, pages)
        ELSE IF args[i + 1] = Unreadable THEN FreeAll(s, pages)
        ELSE fetch(kalloc(s))
-----------------------------------------------------------------------------
(* Behaviours                                                              *)

Now == [free |-> free, mem |-> mem, panic |-> panic, proc |-> proc, ret |-> 0, ix |-> 0]
Live(p) == proc[p].pagetable # 0

Becomes(s) ==
    free' = s.free /\ mem' = s.mem /\ panic' = s.panic /\ proc' = s.proc

\* The first process runs, and has opened some pipes.
RECURSIVE OpenPipes(_, _, _)
OpenPipes(s, held, n) ==
    LET k == kalloc(s) IN
    IF n = 0 THEN <<s, held>> ELSE OpenPipes(k, held \cup {k.ret}, n - 1)

Init == \E n \in 0..MAXPIPES :
    LET b == OpenPipes(Booted, {}, n) IN
    /\ free = b[1].free /\ mem = b[1].mem /\ proc = b[1].proc /\ panic = b[1].panic
    /\ pipes = b[2] /\ nops = 0

Sbrk(p) == \E n \in SbrkN : Becomes(growproc(Now, p, n))
Fork(p) == \E np \in Proc : ~Live(np) /\ Becomes(fork(Now, p, np))
Exec(p) == \E x \in Execs : Becomes(sys_exec(Now, p, x[1], x[2], <<>>))

\* wait() frees a child that has exited.
Reap(p) == p # InitProc /\ Becomes(freeproc(Now, p))

\* pipealloc() takes a page and pipeclose() returns it.
PipeAlloc ==
    LET k == kalloc(Now) IN
    /\ Cardinality(pipes) < MAXPIPES
    /\ Becomes(k) /\ pipes' = pipes \cup ({k.ret} \ {0})
PipeClose == \E pg \in pipes : Becomes(kfree(Now, pg)) /\ pipes' = pipes \ {pg}

\* The kernel copies bytes to user memory (read(), fstat(), wait(), pipe()).
CopyOut(p) == \E a \in Access :
    Becomes(copyout(Now, proc[p].pagetable, a[1], [j \in 1..a[2] |-> 3]))

\* User code stores a byte where the MMU lets it.
Store(p) == \E a \in Access :
    LET w == walk(Now, proc[p].pagetable, a[1], FALSE) IN
    /\ a[1] < MAXVA /\ w.ret # 0 /\ {"V", "U", "W"} \subseteq Pte(w).flags
    /\ Becomes([w EXCEPT !.mem[Pte(w).pa][a[1] % PGSIZE] = 1])

Next ==
    /\ panic = ""
    /\ nops < MAXOPS /\ nops' = nops + 1
    /\ \/ /\ \E p \in Proc : Live(p) /\ (Sbrk(p) \/ Fork(p) \/ Exec(p) \/ Reap(p) \/ CopyOut(p) \/ Store(p))
          /\ UNCHANGED pipes
       \/ PipeAlloc \/ PipeClose

Spec == Init /\ [][Next]_vars
-----------------------------------------------------------------------------
(* Properties                                                              *)

\* The PTEs of p's page table, as <<table page, index, level>>.
Ptes(p) ==
    LET entries(t, l) == {<<t, i, l>> : i \in 0..(FAN - 1)}
        below(E) == UNION {entries(mem[e[1]][e[2]].pa, e[3] - 1) :
                             e \in {x \in E : "V" \in mem[x[1]][x[2]].flags}}
        l2 == IF Live(p) THEN entries(proc[p].pagetable, 2) ELSE {}
        l1 == below(l2)
    IN  l2 \cup l1 \cup below(l1)

\* Who owns page pg.  The mapping of the trapframe at TRAPFRAME owns nothing.
Owners(pg) ==
    {<<p, "trapframe">> : p \in {x \in Proc : proc[x].trapframe = pg}}
    \cup {<<p, "pagetable">> : p \in {x \in Proc : proc[x].pagetable = pg}}
    \cup UNION {{<<p, e>> : e \in {x \in Ptes(p) : /\ mem[x[1]][x[2]].pa = pg
                                                  /\ pg # proc[p].trapframe}} : p \in Proc}
    \cup {<<"pipe", x>> : x \in pipes \cap {pg}}

\* The type of every variable; the first invariant below includes it.
TypeOK ==
    /\ free \in [Page -> Nat] /\ pipes \subseteq Page /\ nops \in 0..MAXOPS
    /\ DOMAIN mem = Page /\ \A pg \in Page : DOMAIN mem[pg] \in {0..(PGSIZE - 1), 0..(FAN - 1)}
    /\ proc \in [Proc -> [pagetable : Page \cup {0}, trapframe : Page \cup {0}, sz : 0..(UINT64 - 1)]]

\* kalloc.c and vm.c: between calls every page is on the free list once and in
\* no use, or off it and in one use.  No call leaks a page, frees one twice or
\* shares one, wherever an allocation of it failed; and the checks of mappages(),
\* uvmunmap(), uvmcopy(), freewalk(), loadseg() and kfree() never fire: each
\* clean-up path removes exactly the mappings that the work before it made.
PagesAccounted ==
    /\ panic = ""
    /\ TypeOK
    /\ \A pg \in Page : free[pg] + Cardinality(Owners(pg)) = 1

\* The page of p at address v * PGSIZE, found without walk().
LeafOf(p, v) ==
    LET e2 == mem[proc[p].pagetable][v \div (FAN * FAN)]
        e1 == mem[e2.pa][(v \div FAN) % FAN]
    IN  IF "V" \notin e2.flags \/ "V" \notin e1.flags THEN NoPte ELSE mem[e1.pa][v % FAN]

UserPage(p) == {v \in 0..((TRAPFRAME \div PGSIZE) - 1) : "V" \in LeafOf(p, v).flags}

SpaceOf(p) ==
    IF ~Live(p) THEN [sz |-> 0, sp |-> 0, page |-> <<>>]
    ELSE [sz |-> proc[p].sz, sp |-> mem[proc[p].trapframe][0],
          page |-> [v \in UserPage(p) |-> [data |-> mem[LeafOf(p, v).pa], flags |-> LeafOf(p, v).flags]]]

\* The byte at address a, or -1 where p has no user page.
ByteAt(page, a) ==
    LET v == a \div PGSIZE IN
    IF v \in DOMAIN page /\ "U" \in page[v].flags THEN page[v].data[a % PGSIZE] ELSE -1

\* i is the image of file e with arguments args: the bytes of its segments,
\* zeros between them, an inaccessible page, and a stack at whose sp the
\* vector argv points to every string and ends with 0.
ImageOf(i, e, args) ==
    LET segs == {k \in DOMAIN e.segs : e.segs[k].type = "load"}
        end(k) == e.segs[k].vaddr + e.segs[k].memsz
        T == LET ends == {0} \cup {end(k) : k \in segs}
             IN  CHOOSE m \in ends : \A x \in ends : x <= m
        n == (T + PGSIZE - 1) \div PGSIZE
        byte(a) == IF \E k \in segs : a \in e.segs[k].vaddr..(e.segs[k].vaddr + e.segs[k].filesz - 1)
                   THEN 2 ELSE 0
        first(v) == CHOOSE k \in segs : end(k) > v * PGSIZE /\ \A x \in segs : end(x) > v * PGSIZE => k <= x
    IN  /\ e.ok /\ \A k \in segs : e.segs[k].filesz <= e.segs[k].memsz /\ end(k) < MAXVA
        /\ i.sz = (n + 1 + USERSTACK) * PGSIZE
        /\ DOMAIN i.page = 0..(n + USERSTACK)
        /\ \A v \in 0..(n - 1) :
             /\ i.page[v].flags = {"V", "R", "U"} \cup flags2perm(e.segs[first(v)].flags)
             /\ \A o \in 0..(PGSIZE - 1) : i.page[v].data[o] = byte(v * PGSIZE + o)
        /\ "U" \notin i.page[n].flags
        /\ \A v \in (n + 1)..(n + USERSTACK) : i.page[v].flags = {"V", "R", "W", "U"}
        /\ i.sp % ALIGN = 0 /\ ByteAt(i.page, i.sp + Len(args)) = 0
        /\ \A j \in DOMAIN args :
             LET at == ByteAt(i.page, i.sp + j - 1) IN
             \A c \in 0..args[j] : ByteAt(i.page, at + c) = Str(args[j])[c + 1]

IsImage(i) == \E x \in Execs : ImageOf(i, x[1], x[2])

AS == INSTANCE AddrSpace WITH as <- [p \in Proc |-> SpaceOf(p)], Images <- IsImage

\* fork(), exec(), sbrk(), wait() and stores implement private address spaces:
\* a child starts with a copy of its parent's pages, exec() installs the
\* program whole or changes nothing, and no process sees another's stores.
MemSpec == AS!Spec

\* vm.c, syscall.c: what the kernel reads through copyin(), copyinstr() and
\* fetchaddr() is what the process would read itself, and a range or string
\* that leaves its user pages is refused.
CopyinSound ==
    \A p \in {x \in Proc : Live(x)} : LET page == SpaceOf(p).page IN \A acc \in Access :
        LET pt == proc[p].pagetable
            at(j) == ByteAt(page, acc[1] + j)
            all(n) == \A j \in 0..(n - 1) : at(j) # -1
            seq(n) == [j \in 1..n |-> at(j - 1)]
            ends == {n \in 0..(acc[2] - 1) : at(n) = 0 /\ \A j \in 0..(n - 1) : at(j) \notin {0, -1}}
        IN  /\ copyin(Now, pt, acc[1], acc[2]) = IF all(acc[2]) THEN seq(acc[2]) ELSE <<-1>>
            /\ copyinstr(Now, pt, acc[1], acc[2]) =
                 IF ends = {} THEN <<-1>> ELSE seq(CHOOSE n \in ends : TRUE)
            /\ fetchaddr(Now, p, acc[1], acc[2]) # <<-1>> => acc[1] + acc[2] <= proc[p].sz
=============================================================================
