-------------------------------- MODULE Blocks --------------------------------
(***************************************************************************)
(* The contents of files on disk blocks (kernel/fs.c: balloc(), bfree(),   *)
(* bmap(), itrunc(), readi(), writei(), dirlookup(), dirlink(), and the    *)
(* chunks of filewrite() in file.c), over the promise of TxDisk: cache is  *)
(* what bread() returns, disk what a crash falls back to, and the last     *)
(* end_op() of a group moves the logged blocks lh from one to the other.   *)
(*                                                                         *)
(* Each writei() and itrunc() is cut after every block it allocates, fills *)
(* or frees, so that calls on other files come in between.                 *)
(***************************************************************************)
EXTENDS Layout, FiniteSets

CONSTANTS Proc, NoProc,
          Images,        \* the disks that mkfs makes
          Sources,       \* what processes write: sequences of units
          MAXOPBLOCKS,
          UINT,          \* number of values of a uint
          MAXCALLS       \* bound: calls in a behaviour

ASSUME BlocksAssumption ==
    /\ NoProc \notin Proc /\ MAXOPBLOCKS \in Nat /\ UINT \in Nat /\ MAXFILE * BSIZE < UINT

VARIABLES cache, disk, lh,
          ip,            \* the inode table: size and addrs of each inode
          lock,          \* who holds ip->lock
          loc,           \* the call a process is in, and its local variables
          wrote,         \* blocks its operation has passed to log_write()
          hole,          \* was the root made with a size beyond its blocks?
          panic, ncalls

vars == <<cache, disk, lh, ip, lock, loc, wrote, hole, panic, ncalls>>

Idle == [op |-> "idle", i |-> 0, off |-> 0, src |-> <<>>]
Dinode(d, i) == d[IBLOCK(i)][i % IPB]
Loaded(d) == [i \in Inum |-> [size |-> Dinode(d, i).size, addrs |-> Dinode(d, i).addrs]]

-----------------------------------------------------------------------------
(* Blocks.                                                                 *)

Used(d, b) == (b % BPB) \in d[BBLOCK(b)]

\* The block balloc() finds, or 0.
balloc(d) ==
    LET free == {b \in Block : ~Used(d, b)} IN
    IF free = {} THEN 0 ELSE CHOOSE b \in free : \A x \in free : b <= x

\* Mutant: the block keeps what it held.
TakenDirty(d, b) == [d EXCEPT ![BBLOCK(b)] = @ \cup {b % BPB}]

\* ... and what it does to it: the bit is set, the block zeroed by bzero().
Taken(d, b) == [d EXCEPT ![BBLOCK(b)] = @ \cup {b % BPB}, ![b] = ZeroBlock]
TakeLogs(b) == {BBLOCK(b), b}

bfree(d, b) == [d EXCEPT ![BBLOCK(b)] = @ \ {b % BPB}]

\* The address of block bn of file f, 0 where there is none.
Mapped(d, f, bn) ==
    IF bn < NDIRECT THEN f.addrs[bn]
    ELSE IF f.addrs[NDIRECT] = 0 THEN 0
    ELSE First(d[f.addrs[NDIRECT]][bn - NDIRECT])

\* bmap() where there is none: first the indirect block, if it is missing, then
\* the block.  s has the disk d, the inode f, the blocks logged.
AddTable(s) ==
    LET b == balloc(s.d) IN
    IF b = 0 THEN s
    ELSE [d |-> Taken(s.d, b), f |-> [s.f EXCEPT !.addrs[NDIRECT] = b], logs |-> s.logs \cup TakeLogs(b)]

AddBlock(s, bn) ==
    LET b == balloc(s.d)
        table == s.f.addrs[NDIRECT]
    IN  IF b = 0 \/ (bn >= NDIRECT /\ table = 0) THEN s
        ELSE IF bn < NDIRECT
        THEN [d |-> Taken(s.d, b), f |-> [s.f EXCEPT !.addrs[bn] = b], logs |-> s.logs \cup TakeLogs(b)]
        ELSE [d |-> [Taken(s.d, b) EXCEPT ![table][bn - NDIRECT] = <<b>>], f |-> s.f,
              logs |-> s.logs \cup TakeLogs(b) \cup {table}]

NeedsTable(f, bn) == bn >= NDIRECT /\ f.addrs[NDIRECT] = 0

bmap(d, f, bn) ==
    LET s == [d |-> d, f |-> f, logs |-> {}] IN
    IF Mapped(d, f, bn) # 0 THEN s
    ELSE AddBlock(IF NeedsTable(f, bn) THEN AddTable(s) ELSE s, bn)

Below(i, bn) == bn * BSIZE < ip[i].size
Least(a, b) == IF a < b THEN a ELSE b

Init ==
    /\ disk \in Images /\ cache = disk /\ lh = {}
    /\ ip = Loaded(disk)
    /\ lock = [i \in Inum |-> NoProc]
    /\ loc = [p \in Proc |-> Idle] /\ wrote = [p \in Proc |-> {}]
    /\ hole = \E bn \in 0..(MAXFILE - 1) : Below(ROOTINO, bn) /\ Mapped(disk, ip[ROOTINO], bn) = 0
    /\ panic = "" /\ ncalls = 0
-----------------------------------------------------------------------------
(* Transactions, as module Log shows them.                                 *)

Busy == {p \in Proc : loc[p].op # "idle"}

log_write(p, S) == lh' = lh \cup S /\ wrote' = [wrote EXCEPT ![p] = @ \cup S]

\* iunlock() and end_op() of p with the cache c: the last one out commits.
Finish(p, c, logged) ==
    LET all == lh \cup logged IN
    /\ cache' = c
    /\ wrote' = [wrote EXCEPT ![p] = {}]
    /\ IF Busy \subseteq {p}
       THEN disk' = [b \in Block |-> IF b \in all THEN c[b] ELSE disk[b]] /\ lh' = {}
       ELSE lh' = all /\ UNCHANGED disk
    /\ loc' = [loc EXCEPT ![p] = Idle]

\* A call of p takes ip->lock of inode i, and leaves s of it.
Start(p, op, i, off, src, s) ==
    /\ panic = "" /\ loc[p].op = "idle" /\ lock[i] = NoProc
    /\ ncalls < MAXCALLS /\ ncalls' = ncalls + 1
    /\ lock' = [lock EXCEPT ![i] = p]
    /\ loc' = [loc EXCEPT ![p] = [op |-> op, i |-> i, off |-> off, src |-> src]]
    /\ cache' = s.d /\ ip' = [ip EXCEPT ![i] = s.f] /\ log_write(p, s.logs)
    /\ UNCHANGED <<disk, hole, panic>>

Same(i) == [d |-> cache, f |-> ip[i], logs |-> {}]

At(p, op) == panic = "" /\ loc[p].op = op
-----------------------------------------------------------------------------
(* writei()                                                                *)

\* Mutant: no room is left for a write that is not aligned.
ChunkNoSlop == ((MAXOPBLOCKS - 1 - 1) \div 2) * BSIZE

\* filewrite(): what goes into one transaction.
max == ((MAXOPBLOCKS - 1 - 1 - 2) \div 2) * BSIZE

\* The tests at the head of writei().
Writable(i, off, n) ==
    /\ ~(off > ip[i].size \/ (off + n) % UINT < off)
    /\ ~((off + n) % UINT > MAXFILE * BSIZE)

\* A file of this file system, not the root.
IsFile(i) == i # ROOTINO /\ Dinode(cache, i).type # "free"

StartWrite(p) == \E i \in Inum, off \in 0..(UINT - 1), src \in Sources :
    LET n == Least(Len(src), max) IN
    /\ IsFile(i) /\ Writable(i, off, n)
    /\ Start(p, "write", i, off, SubSeq(src, 1, n), Same(i))

\* The first half of bmap(): the indirect block.
WriteTable(p) ==
    LET i == loc[p].i
        s == AddTable(Same(i))
    IN  /\ At(p, "write") /\ loc[p].src # <<>> /\ NeedsTable(ip[i], loc[p].off \div BSIZE)
        /\ cache' = s.d /\ ip' = [ip EXCEPT ![i] = s.f] /\ log_write(p, s.logs)
        /\ loc' = [loc EXCEPT ![p].src = IF s.logs = {} THEN <<>> ELSE @]
        /\ UNCHANGED <<disk, lock, hole, panic, ncalls>>

\* The first k units of src at offset off of the block at a.
Filled(d, a, off, src, k) ==
    [d EXCEPT ![a] = [u \in DOMAIN @ |->
        IF u \in (off % BSIZE)..((off % BSIZE) + k - 1) THEN src[u - (off % BSIZE) + 1] ELSE @[u]]]

\* One round of the loop: no block; or all of it copied and logged; or
\* either_copyin() fails after k units, which stay in the buffer.
WriteBlock(p) ==
    LET i == loc[p].i
        off == loc[p].off
        src == loc[p].src
        s == bmap(cache, ip[i], off \div BSIZE)
        a == Mapped(s.d, s.f, off \div BSIZE)
        m == Least(Len(src), BSIZE - (off % BSIZE))
    IN  /\ At(p, "write") /\ src # <<>> /\ ~NeedsTable(ip[i], off \div BSIZE)
        /\ ip' = [ip EXCEPT ![i] = s.f]
        /\ \/ /\ a = 0 /\ cache' = s.d /\ log_write(p, s.logs)
              /\ loc' = [loc EXCEPT ![p].src = <<>>]
           \/ /\ a # 0 /\ cache' = Filled(s.d, a, off, src, m) /\ log_write(p, s.logs \cup {a})
              /\ loc' = [loc EXCEPT ![p].src = SubSeq(@, m + 1, Len(@)), ![p].off = @ + m]
           \/ /\ a # 0 /\ \E k \in 0..(m - 1) : cache' = Filled(s.d, a, off, src, k)
              /\ log_write(p, s.logs)
              /\ loc' = [loc EXCEPT ![p].src = <<>>]
        /\ UNCHANGED <<disk, lock, hole, panic, ncalls>>

iupdate(d, i, f) == [d EXCEPT ![IBLOCK(i)][i % IPB].size = f.size, ![IBLOCK(i)][i % IPB].addrs = f.addrs]

\* iupdate(), iunlock(), end_op(), with the inode as f.
Update(p, f) ==
    LET i == loc[p].i IN
    /\ ip' = [ip EXCEPT ![i] = f]
    /\ Finish(p, iupdate(cache, i, f), {IBLOCK(i)})
    /\ lock' = [lock EXCEPT ![i] = NoProc]
    /\ UNCHANGED <<hole, panic, ncalls>>

\* Mutant: the inode is written back only when the file has grown.
WriteEndIfGrown(p) ==
    LET i == loc[p].i IN
    /\ At(p, "write") /\ loc[p].src = <<>>
    /\ IF loc[p].off > ip[i].size THEN Update(p, [ip[i] EXCEPT !.size = loc[p].off])
       ELSE /\ Finish(p, cache, {})
            /\ lock' = [lock EXCEPT ![i] = NoProc] /\ UNCHANGED <<ip, hole, panic, ncalls>>

WriteEnd(p) ==
    /\ At(p, "write") /\ loc[p].src = <<>>
    /\ Update(p, [ip[loc[p].i] EXCEPT !.size = IF loc[p].off > @ THEN loc[p].off ELSE @])
-----------------------------------------------------------------------------
(* itrunc(), in sys_open() with O_TRUNC and in iput().                     *)

StartTrunc(p) == \E i \in Inum : IsFile(i) /\ Start(p, "trunc", i, 0, <<>>, Same(i))

Direct(f) == {k \in 0..(NDIRECT - 1) : f.addrs[k] # 0}

\* Entries of the indirect block that the loop has still to free; loc.off is j.
Entries(d, f, j) ==
    IF f.addrs[NDIRECT] = 0 THEN {}
    ELSE {k \in j..(NINDIRECT - 1) : d[f.addrs[NDIRECT]][k] # Unit0}

\* bfree() of block b, after which the inode is f and the loop at j.
Free(p, b, f, j) ==
    /\ IF Used(cache, b)
       THEN cache' = bfree(cache, b) /\ log_write(p, {BBLOCK(b)}) /\ UNCHANGED panic
       ELSE panic' = "freeing free block" /\ UNCHANGED <<cache, lh, wrote>>
    /\ ip' = [ip EXCEPT ![loc[p].i] = f]
    /\ loc' = [loc EXCEPT ![p].off = j]
    /\ UNCHANGED <<disk, lock, hole, ncalls>>

TruncDirect(p) ==
    LET f == ip[loc[p].i] IN
    /\ At(p, "trunc")
    /\ \E k \in Direct(f) : /\ \A x \in Direct(f) : k <= x
                            /\ Free(p, f.addrs[k], [f EXCEPT !.addrs[k] = 0], 0)

TruncEntry(p) ==
    LET f == ip[loc[p].i]
        todo == Entries(cache, f, loc[p].off)
    IN  /\ At(p, "trunc") /\ Direct(f) = {}
        /\ \E k \in todo : /\ \A x \in todo : k <= x
                           /\ Free(p, First(cache[f.addrs[NDIRECT]][k]), f, k + 1)

TruncTable(p) ==
    LET f == ip[loc[p].i] IN
    /\ At(p, "trunc") /\ Direct(f) = {} /\ f.addrs[NDIRECT] # 0
    /\ Entries(cache, f, loc[p].off) = {}
    /\ Free(p, f.addrs[NDIRECT], [f EXCEPT !.addrs[NDIRECT] = 0], 0)

TruncEnd(p) ==
    LET f == ip[loc[p].i] IN
    /\ At(p, "trunc") /\ \A k \in 0..NDIRECT : f.addrs[k] = 0
    /\ Update(p, [f EXCEPT !.size = 0])
-----------------------------------------------------------------------------
(* The root directory.  Reading it allocates where its size is beyond its  *)
(* blocks.                                                                 *)

Holes(d, f) == {bn \in 0..(MAXFILE - 1) : bn * BSIZE < f.size /\ Mapped(d, f, bn) = 0}

\* The loop of dirlookup() over the whole directory.
Scan ==
    LET f == ip[ROOTINO] IN
    IF Holes(cache, f) = {} THEN Same(ROOTINO)
    ELSE bmap(cache, f, CHOOSE bn \in Holes(cache, f) : TRUE)

Slots == LET f == ip[ROOTINO] IN
    {k \in 0..(f.size - 1) : LET a == Mapped(cache, f, k \div BSIZE) IN
                             a = 0 \/ First(cache[a][k % BSIZE]) = 0}

\* dirlink(): no entry has the name; its entry goes to the first free slot, or
\* to the end.
StartLink(p) ==
    LET slot == IF Slots = {} THEN ip[ROOTINO].size ELSE CHOOSE k \in Slots : \A x \in Slots : k <= x
        src == <<Dirent(ROOTINO + 1, "new")>>
    IN  /\ Holes(Scan.d, Scan.f) = {}
        /\ Writable(ROOTINO, slot, 1) /\ Start(p, "write", ROOTINO, slot, src, Scan)

\* sys_unlink() clears the entry of a file.
StartUnlink(p) == \E k \in (0..(ip[ROOTINO].size - 1)) \ Slots :
    k > 1 /\ Start(p, "write", ROOTINO, k, <<Unit0>>, Same(ROOTINO))

\* namei() of a name that is not there, in a transaction of its own.
Lookup(p) ==
    /\ panic = "" /\ loc[p].op = "idle" /\ lock[ROOTINO] = NoProc
    /\ ncalls < MAXCALLS /\ ncalls' = ncalls + 1
    /\ IF Holes(Scan.d, Scan.f) = {}
       THEN /\ Finish(p, Scan.d, Scan.logs) /\ ip' = [ip EXCEPT ![ROOTINO] = Scan.f]
            /\ UNCHANGED panic
       ELSE panic' = "dirlookup read" /\ UNCHANGED <<cache, disk, lh, ip, loc, wrote>>
    /\ UNCHANGED <<lock, hole>>

\* fileread() of the root, which is in no transaction, where bmap() allocates.
ReadHole(p) ==
    /\ panic = "" /\ loc[p].op = "idle" /\ lock[ROOTINO] = NoProc
    /\ ncalls < MAXCALLS /\ ncalls' = ncalls + 1
    /\ Scan.logs # {}
    /\ IF Busy = {} THEN panic' = "log_write outside of trans" /\ UNCHANGED <<cache, ip, lh>>
       ELSE /\ cache' = Scan.d /\ ip' = [ip EXCEPT ![ROOTINO] = Scan.f]
            /\ lh' = lh \cup Scan.logs /\ UNCHANGED panic
    /\ UNCHANGED <<disk, lock, loc, wrote, hole>>
-----------------------------------------------------------------------------
\* A buffer that is not in the log is recycled; what only it held is lost.
Forget(b) ==
    /\ b \notin lh /\ cache[b] # disk[b]
    /\ cache' = [cache EXCEPT ![b] = disk[b]]
    /\ UNCHANGED <<disk, lh, ip, lock, loc, wrote, hole, panic, ncalls>>

\* Power fails, and the log is recovered.
Crash ==
    /\ cache' = disk /\ lh' = {} /\ ip' = Loaded(disk)
    /\ lock' = [i \in Inum |-> NoProc] /\ loc' = [p \in Proc |-> Idle]
    /\ wrote' = [p \in Proc |-> {}] /\ panic' = ""
    /\ UNCHANGED <<disk, hole, ncalls>>

Writei(p) == StartWrite(p) \/ WriteTable(p) \/ WriteBlock(p) \/ WriteEnd(p)
Itrunc(p) == StartTrunc(p) \/ TruncDirect(p) \/ TruncEntry(p) \/ TruncTable(p) \/ TruncEnd(p)
Dir(p) == StartLink(p) \/ StartUnlink(p) \/ Lookup(p) \/ ReadHole(p)

Next ==
    \/ \E p \in Proc : Writei(p) \/ Itrunc(p) \/ Dir(p)
    \/ \E b \in Block : Forget(b)
    \/ Crash

Spec == Init /\ [][Next]_vars
-----------------------------------------------------------------------------
(* Properties                                                              *)

\* The type of every variable; the first invariant below includes it.
TypeOK ==
    /\ DOMAIN cache = Block /\ DOMAIN disk = Block /\ lh \subseteq Block
    /\ \A d \in {cache, disk} : \A b \in Block :
         IF b \in bmapstart..(nmeta - 1) THEN d[b] \subseteq 0..(BPB - 1)
         ELSE DOMAIN d[b] = IF b \in inodestart..(bmapstart - 1) THEN 0..(IPB - 1) ELSE 0..(BSIZE - 1)
    /\ ip \in [Inum -> [size : 0..(MAXFILE * BSIZE), addrs : [0..NDIRECT -> Block]]]
    /\ lock \in [Inum -> Proc \cup {NoProc}]
    /\ wrote \in [Proc -> SUBSET Block] /\ hole \in BOOLEAN /\ ncalls \in 0..MAXCALLS
    /\ \A p \in Proc : /\ loc[p].op \in {"idle", "write", "trunc"}
                       /\ loc[p].op # "idle" => lock[loc[p].i] = p

\* The blocks of file f on disk d, as pointers <<where, block>>; the itrunc()
\* that is at entry j of the indirect block has freed those before.
Pointers(d, f, j) ==
    {<<k, f.addrs[k]>> : k \in {x \in 0..NDIRECT : f.addrs[x] # 0}}
    \cup {<<NDIRECT + 1 + k, First(d[f.addrs[NDIRECT]][k])>> : k \in Entries(d, f, j)}

Freed(i) == IF lock[i] # NoProc /\ loc[lock[i]].op = "trunc" THEN loc[lock[i]].off ELSE 0

\* The bits of d are the blocks that the inodes f[i] point to, each once.
Exact(d, f, freed) ==
    LET all == UNION {{<<i, x>> : x \in Pointers(d, f[i], freed[i])} : i \in Inum}
        blocks == {x[2][2] : x \in all}
    IN  /\ Cardinality(blocks) = Cardinality(all)
        /\ blocks \subseteq nmeta..(FSSIZE - 1)
        /\ (0..(nmeta - 1)) \cup blocks \subseteq {b \in Block : Used(d, b)}
        /\ hole \/ {b \in Block : Used(d, b)} \subseteq (0..(nmeta - 1)) \cup blocks

\* fs.c, mkfs.c: at every moment, and in what a crash leaves, the bitmap has
\* exactly the blocks in use, no block is in two places, and an inode that is
\* not locked is on disk as it is in memory.  Only where mkfs filled the last
\* block of the root exactly can a block be lost, or a check of the kernel fire.
BlocksAccounted ==
    /\ TypeOK
    /\ Exact(cache, ip, [i \in Inum |-> Freed(i)])
    /\ Exact(disk, Loaded(disk), [i \in Inum |-> 0])
    /\ \A i \in Inum : lock[i] = NoProc /\ ~(hole /\ i = ROOTINO) => Loaded(cache)[i] = ip[i]
    /\ panic # "" => hole

\* file.c:148-155: the pieces filewrite() makes, and dirlink() and itrunc(), log no
\* more blocks than begin_op() reserves, inode, indirect and bitmap blocks included.
WithinBudget == \A p \in Busy : Cardinality(wrote[p] \cup {IBLOCK(loc[p].i)}) <= MAXOPBLOCKS

\* What reading n units of file f finds on d.
Contents(d, f, n) == [k \in 1..n |->
    LET a == Mapped(d, f, (k - 1) \div BSIZE) IN IF a = 0 THEN Unit0 ELSE d[a][(k - 1) % BSIZE]]

Size(i) ==
    IF lock[i] = NoProc THEN ip[i].size
    ELSE IF loc[lock[i]].op = "trunc" THEN 0
    ELSE IF loc[lock[i]].off > ip[i].size THEN loc[lock[i]].off ELSE ip[i].size

Logged == [b \in Block |-> IF b \in lh THEN cache[b] ELSE disk[b]]

FS == INSTANCE FileStore WITH
        Sources <- Sources \cup {<<Unit0>>, <<Dirent(ROOTINO + 1, "new")>>},
        view <- [i \in Inum |-> Contents(cache, ip[i], Size(i))],
        safe <- [i \in Inum |-> Contents(Logged, ip[i], Size(i))],
        stable <- [i \in Inum |-> Contents(disk, Loaded(disk)[i], Loaded(disk)[i].size)]

\* fs.c: writei() and itrunc() on blocks implement files as sequences of bytes:
\* a write changes its bytes of its file, whoever else allocates or frees at the
\* same time, and a crash leaves what the last commit left.
FileSpec == FS!Spec
=============================================================================
