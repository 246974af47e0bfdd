------------------------------- MODULE Bcache -------------------------------
(***************************************************************************)
(* The buffer cache of kernel/bio.c and the sleep-locks (sleeplock.c) of   *)
(* its buffers.  What runs under bcache.lock, or under the spin-lock of a  *)
(* sleep-lock, is one step.  A process uses one buffer at a time: it gets  *)
(* it with bread(), may change it with log_write() or bwrite(), and gives  *)
(* it back with brelse().                                                  *)
(***************************************************************************)
EXTENDS Integers, Sequences, FiniteSets, FiniteSetsExt, Functions

CONSTANTS Proc, Buf, Block, Value,
          NoProc,    \* lk->pid of a free sleep-lock
          NoBlock,   \* dev 0, block 0: a buffer that was never used
          LogMax     \* blocks the log pins at a time

ASSUME BcacheAssumption ==
    /\ NoProc \notin Proc /\ NoBlock \notin Block
    /\ IsFiniteSet(Proc) /\ IsFiniteSet(Buf) /\ Buf # {} /\ LogMax \in Nat

VARIABLES blockno, valid, refcnt, data,   \* struct buf
          owner,    \* b->lock: the process that has it, or NoProc
          lru,      \* the list from bcache.head.next (most recent) on
          pinned,   \* blocks in log.lh: logged and not installed
          disk,
          pc, buf, want   \* where a process is, its buffer and its block

vars == <<blockno, valid, refcnt, data, owner, lru, pinned, disk, pc, buf, want>>
bvars == <<blockno, valid, data, lru>>

\* binit() links every buffer into the list.
Linked == CHOOSE s \in Bijection(1..Cardinality(Buf), Buf) : TRUE

Init ==
    /\ blockno = [i \in Buf |-> NoBlock]
    /\ valid = [i \in Buf |-> FALSE]
    /\ refcnt = [i \in Buf |-> 0]
    /\ data \in {[i \in Buf |-> v] : v \in Value}
    /\ owner = [i \in Buf |-> NoProc]
    /\ lru = Linked
    /\ pinned = {}
    /\ disk \in {[b \in Block |-> v] : v \in Value}
    /\ pc = [p \in Proc |-> "idle"]
    /\ buf = [p \in Proc |-> Head(lru)]
    /\ want = [p \in Proc |-> NoBlock]

Goto(p, l) == pc' = [pc EXCEPT ![p] = l]

\* panic("bget: no buffers") happens with bcache.lock held.
BcacheLockFree == \A q \in Proc : pc[q] # "panic"

\* Where the first loop of bget() stops.
Hits(b) == {i \in Buf : blockno[i] = b}

\* Where its second loop stops: the unused buffer nearest to the end.
Unused == {k \in DOMAIN lru : refcnt[lru[k]] = 0}
Victim == lru[Max(Unused)]

BGet(p, b) ==
    /\ pc[p] = "idle"
    /\ BcacheLockFree
    /\ want' = [want EXCEPT ![p] = b]
    /\ \/ \E i \in Hits(b) :
             /\ refcnt' = [refcnt EXCEPT ![i] = @ + 1]
             /\ buf' = [buf EXCEPT ![p] = i]
             /\ Goto(p, "acquiresleep")
             /\ UNCHANGED <<blockno, valid>>
       \/ /\ Hits(b) = {} /\ Unused # {}
          /\ blockno' = [blockno EXCEPT ![Victim] = b]
          /\ valid' = [valid EXCEPT ![Victim] = FALSE]
          /\ refcnt' = [refcnt EXCEPT ![Victim] = 1]
          /\ buf' = [buf EXCEPT ![p] = Victim]
          /\ Goto(p, "acquiresleep")
       \/ /\ Hits(b) = {} /\ Unused = {}
          /\ Goto(p, "panic")
          /\ UNCHANGED <<blockno, valid, refcnt, buf>>
    /\ UNCHANGED <<data, owner, lru, pinned, disk>>

AcquireSleep(p) ==
    /\ pc[p] = "acquiresleep"
    /\ IF owner[buf[p]] = NoProc
       THEN owner' = [owner EXCEPT ![buf[p]] = p] /\ Goto(p, "bread")
       ELSE Goto(p, "asleep") /\ UNCHANGED owner
    /\ UNCHANGED <<bvars, refcnt, pinned, disk, buf, want>>

\* Mutant: bread() ignores b->valid.
BreadAlways(p) ==
    /\ pc[p] = "bread"
    /\ data' = [data EXCEPT ![buf[p]] = disk[blockno[buf[p]]]]
    /\ valid' = [valid EXCEPT ![buf[p]] = TRUE]
    /\ Goto(p, "use")
    /\ UNCHANGED <<blockno, lru, refcnt, owner, pinned, disk, buf, want>>

\* The rest of bread(): the disk is read only into an invalid buffer.
Bread(p) ==
    /\ pc[p] = "bread"
    /\ data' = IF valid[buf[p]] THEN data
               ELSE [data EXCEPT ![buf[p]] = disk[blockno[buf[p]]]]
    /\ valid' = [valid EXCEPT ![buf[p]] = TRUE]
    /\ Goto(p, "use")
    /\ UNCHANGED <<blockno, lru, refcnt, owner, pinned, disk, buf, want>>

\* modify b->data; log_write(b), which calls bpin() for a new block.
LogWrite(p, v) ==
    /\ pc[p] = "use"
    /\ want[p] \in pinned \/ Cardinality(pinned) < LogMax
    /\ BcacheLockFree
    /\ data' = [data EXCEPT ![buf[p]] = v]
    /\ refcnt' = IF want[p] \in pinned THEN refcnt
                 ELSE [refcnt EXCEPT ![buf[p]] = @ + 1]
    /\ pinned' = pinned \cup {want[p]}
    /\ UNCHANGED <<blockno, valid, lru, owner, disk, pc, buf, want>>

\* install_trans(): bwrite() of a logged block, before its bunpin().
Bwrite(p) ==
    /\ pc[p] = "use"
    /\ want[p] \in pinned
    /\ disk' = [disk EXCEPT ![blockno[buf[p]]] = data[buf[p]]]
    /\ Goto(p, "bunpin")
    /\ UNCHANGED <<bvars, refcnt, owner, pinned, buf, want>>

\* Mutant: bunpin() forgets b->refcnt--.
BunpinKeeps(p) ==
    /\ pc[p] = "bunpin"
    /\ BcacheLockFree
    /\ pinned' = pinned \ {want[p]}
    /\ Goto(p, "use")
    /\ UNCHANGED <<bvars, refcnt, owner, disk, buf, want>>

Bunpin(p) ==
    /\ pc[p] = "bunpin"
    /\ BcacheLockFree
    /\ refcnt' = [refcnt EXCEPT ![buf[p]] = @ - 1]
    /\ pinned' = pinned \ {want[p]}
    /\ Goto(p, "use")
    /\ UNCHANGED <<bvars, owner, disk, buf, want>>

\* Mutant: releasesleep() forgets wakeup(lk).
WakeupNobody(i, f) == f

\* wakeup(lk) of releasesleep(): all who sleep on this buffer's lock.
Wakeup(i, f) ==
    [q \in Proc |-> IF f[q] = "asleep" /\ buf[q] = i THEN "acquiresleep" ELSE f[q]]

\* The list without a buffer: the two assignments that unlink it.
Place(i) == CHOOSE k \in DOMAIN lru : lru[k] = i
Unlink(i) == SubSeq(lru, 1, Place(i) - 1) \o SubSeq(lru, Place(i) + 1, Len(lru))

\* brelse() gives up the lock first and the reference afterwards.
ReleaseSleep(p) ==
    /\ pc[p] = "use"
    /\ owner' = [owner EXCEPT ![buf[p]] = NoProc]
    /\ pc' = Wakeup(buf[p], [pc EXCEPT ![p] = "brelse"])
    /\ UNCHANGED <<bvars, refcnt, pinned, disk, buf, want>>

Brelse(p) ==
    /\ pc[p] = "brelse"
    /\ BcacheLockFree
    /\ refcnt' = [refcnt EXCEPT ![buf[p]] = @ - 1]
    /\ lru' = IF refcnt'[buf[p]] = 0 THEN <<buf[p]>> \o Unlink(buf[p]) ELSE lru
    /\ Goto(p, "idle")
    /\ UNCHANGED <<blockno, valid, data, owner, pinned, disk, buf, want>>

Step(p) == \/ AcquireSleep(p) \/ Bread(p) \/ Bwrite(p) \/ Bunpin(p)
           \/ ReleaseSleep(p) \/ Brelse(p)

Next == \E p \in Proc :
            \/ Step(p)
            \/ \E b \in Block : BGet(p, b)
            \/ \E v \in Value : LogWrite(p, v)

Spec == Init /\ [][Next]_vars

\* A process that started bread() goes on and gives its buffer back: file
\* system calls end, and the scheduler runs every runnable process.
FairSpec == Spec /\ \A p \in Proc : WF_vars(AcquireSleep(p)) /\ WF_vars(Bread(p))
                     /\ WF_vars(Bunpin(p)) /\ SF_vars(ReleaseSleep(p)) /\ WF_vars(Brelse(p))
-----------------------------------------------------------------------------
Label == {"idle", "acquiresleep", "asleep", "bread", "use", "bunpin", "brelse", "panic"}

\* The type of every variable; the first invariant below includes it.
TypeOK ==
    /\ blockno \in [Buf -> Block \cup {NoBlock}]
    /\ valid \in [Buf -> BOOLEAN]
    /\ refcnt \in [Buf -> Nat]
    /\ data \in [Buf -> Value]
    /\ owner \in [Buf -> Proc \cup {NoProc}]
    /\ Len(lru) = Cardinality(Buf) /\ Range(lru) = Buf
    /\ pinned \subseteq Block
    /\ disk \in [Block -> Value]
    /\ pc \in [Proc -> Label] /\ buf \in [Proc -> Buf]
    /\ want \in [Proc -> Block \cup {NoBlock}]

Users(i) == {p \in Proc : pc[p] \notin {"idle", "panic"} /\ buf[p] = i}

\* bio.c:68, 82, 125, 142, 149: refcnt counts exactly the processes between
\* bget() and the end of brelse(), the sleeping ones included, and the pin.
RefcntCounts ==
    /\ TypeOK
    /\ \A i \in Buf : refcnt[i] = Cardinality(Users(i))
                                  + (IF blockno[i] \in pinned THEN 1 ELSE 0)

\* What a bread() of each block would return.
Contents == [b \in Block |->
    IF \E i \in Hits(b) : valid[i]
    THEN data[CHOOSE i \in Hits(b) : valid[i]] ELSE disk[b]]

Store == INSTANCE BlockStore WITH
    val <- Contents,
    holder <- {<<p, want[p]>> : p \in {q \in Proc : pc[q] \in {"use", "bunpin"}}}

\* The cache implements BlockStore: exclusive use of a block and no lost
\* write, whichever buffers are recycled and whoever waits for them.
StoreSpec == Store!Spec

\* acquiresleep(): who sleeps on a buffer's lock is woken again.
SleeperWakes == \A p \in Proc : pc[p] = "asleep" ~> pc[p] # "asleep"
=============================================================================
