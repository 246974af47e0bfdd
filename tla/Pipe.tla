-------------------------------- MODULE Pipe --------------------------------
(***************************************************************************)
(* A pipe (kernel/pipe.c), shared by processes that read, write, close and *)
(* are killed.  pi->lock is explicit, and held from one step of a call to  *)
(* the next.  nread and nwrite are unsigned and wrap around.               *)
(***************************************************************************)
EXTENDS Integers, Sequences, FiniteSets

CONSTANTS Proc, NoProc,
          Byte,
          PIPESIZE,
          UINT,     \* number of values of an unsigned int
          MAXN      \* bound: bytes asked for in one call

ASSUME PipeAssumption ==
    /\ NoProc \notin Proc
    /\ PIPESIZE \in Nat \ {0} /\ MAXN \in Nat
    /\ UINT \in Nat /\ UINT > PIPESIZE /\ UINT % PIPESIZE = 0

VARIABLES data, nread, nwrite, readopen, writeopen,   \* struct pipe
          lock,       \* the process that holds pi->lock
          pc,         \* where a process is
          n,          \* bytes still to copy in its call (0 outside)
          got,        \* bytes its read call has copied out
          killed

pipe == <<data, nread, nwrite, readopen, writeopen>>
vars == <<pipe, lock, pc, n, got, killed>>

Init ==
    /\ data \in [0..(PIPESIZE - 1) -> Byte]
    /\ nread = 0 /\ nwrite = 0 /\ readopen = TRUE /\ writeopen = TRUE
    /\ lock = NoProc
    /\ pc = [p \in Proc |-> "user"]
    /\ n = [p \in Proc |-> 0]
    /\ got = [p \in Proc |-> <<>>]
    /\ killed = [p \in Proc |-> FALSE]

Goto(p, l) == pc' = [pc EXCEPT ![p] = l]

\* Mutant: wakeup(&pi->nread) is forgotten.
WakeNoReader(f) == f

\* wakeup(&pi->nread) and wakeup(&pi->nwrite): sleepers of f take the lock again.
WakeReaders(f) == [q \in Proc |-> IF f[q] = "r_asleep" THEN "r_lock" ELSE f[q]]
WakeWriters(f) == [q \in Proc |-> IF f[q] = "w_asleep" THEN "w_lock" ELSE f[q]]

\* Mutant: one byte too many before the pipe counts as full.
FullLate == nwrite = (nread + PIPESIZE + 1) % UINT

Full == nwrite = (nread + PIPESIZE) % UINT
Empty == nread = nwrite
Inc(k) == (k + 1) % UINT
-----------------------------------------------------------------------------
(* pipewrite()                                                             *)

CallWrite(p) ==
    /\ pc[p] = "user" /\ writeopen /\ ~killed[p]
    /\ \E k \in 1..MAXN : n' = [n EXCEPT ![p] = k]
    /\ Goto(p, "w_lock")
    /\ UNCHANGED <<pipe, lock, got, killed>>

\* Mutant: a reader does not test for an empty pipe.
AcquireNoTest(p) ==
    /\ lock = NoProc
    /\ lock' = p
    /\ \/ pc[p] = "w_lock" /\ Goto(p, "write")
       \/ pc[p] = "r_lock" /\ Goto(p, "copy")
    /\ UNCHANGED <<pipe, n, got, killed>>

\* acquire(&pi->lock), when called or at the end of sleep().
Acquire(p) ==
    /\ lock = NoProc
    /\ lock' = p
    /\ \/ pc[p] = "w_lock" /\ Goto(p, "write")
       \/ pc[p] = "r_lock" /\ Goto(p, "read")
    /\ UNCHANGED <<pipe, n, got, killed>>

WriteFails(p) ==
    /\ pc[p] = "write" /\ n[p] > 0 /\ (~readopen \/ killed[p])
    /\ lock' = NoProc
    /\ n' = [n EXCEPT ![p] = 0]
    /\ Goto(p, "user")
    /\ UNCHANGED <<pipe, got, killed>>

WriteByte(p, c) ==
    /\ pc[p] = "write" /\ n[p] > 0 /\ readopen /\ ~killed[p] /\ ~Full
    /\ data' = [data EXCEPT ![nwrite % PIPESIZE] = c]
    /\ nwrite' = Inc(nwrite)
    /\ n' = [n EXCEPT ![p] = @ - 1]
    /\ UNCHANGED <<nread, readopen, writeopen, lock, pc, got, killed>>

\* wakeup(&pi->nread), then sleep(&pi->nwrite, &pi->lock) in the next step.
WriteFull(p) ==
    /\ pc[p] = "write" /\ n[p] > 0 /\ readopen /\ ~killed[p] /\ Full
    /\ pc' = WakeReaders([pc EXCEPT ![p] = "w_sleep"])
    /\ UNCHANGED <<pipe, lock, n, got, killed>>

\* All is written, or copyin() failed: wakeup(&pi->nread); release.
WriteDone(p) ==
    /\ pc[p] = "write"
    /\ n[p] = 0 \/ (readopen /\ ~killed[p] /\ ~Full)
    /\ pc' = WakeReaders([pc EXCEPT ![p] = "user"])
    /\ lock' = NoProc
    /\ n' = [n EXCEPT ![p] = 0]
    /\ UNCHANGED <<pipe, got, killed>>
-----------------------------------------------------------------------------
(* piperead()                                                              *)

CallRead(p) ==
    /\ pc[p] = "user" /\ readopen /\ ~killed[p]
    /\ \E k \in 1..MAXN : n' = [n EXCEPT ![p] = k]
    /\ Goto(p, "r_lock")
    /\ UNCHANGED <<pipe, lock, got, killed>>

\* The while loop: return -1, sleep(&pi->nread, &pi->lock), or go on.
ReadTest(p) ==
    /\ pc[p] = "read"
    /\ IF Empty /\ writeopen
       THEN IF killed[p]
            THEN Goto(p, "user") /\ lock' = NoProc /\ n' = [n EXCEPT ![p] = 0]
            ELSE Goto(p, "r_sleep") /\ UNCHANGED <<lock, n>>
       ELSE Goto(p, "copy") /\ UNCHANGED <<lock, n>>
    /\ UNCHANGED <<pipe, got, killed>>

\* One round of the for loop.
ReadByte(p) ==
    /\ pc[p] = "copy" /\ n[p] > 0 /\ ~Empty
    /\ got' = [got EXCEPT ![p] = Append(@, data[nread % PIPESIZE])]
    /\ nread' = Inc(nread)
    /\ n' = [n EXCEPT ![p] = @ - 1]
    /\ UNCHANGED <<data, nwrite, readopen, writeopen, lock, pc, killed>>

\* The loop is over, or copyout() failed after nread was incremented:
\* wakeup(&pi->nwrite); release.
ReadDone(p) ==
    /\ pc[p] = "copy"
    /\ \/ (n[p] = 0 \/ Empty) /\ UNCHANGED nread
       \/ n[p] > 0 /\ ~Empty /\ nread' = Inc(nread)
    /\ pc' = WakeWriters([pc EXCEPT ![p] = "user"])
    /\ lock' = NoProc
    /\ n' = [n EXCEPT ![p] = 0] /\ got' = [got EXCEPT ![p] = <<>>]
    /\ UNCHANGED <<data, nwrite, readopen, writeopen, killed>>
-----------------------------------------------------------------------------
\* sleep(): p->lock is taken before the pipe's lock is released, so that the
\* release and going to sleep are one step for whoever calls wakeup().
Sleep(p) ==
    /\ \/ pc[p] = "w_sleep" /\ Goto(p, "w_asleep")
       \/ pc[p] = "r_sleep" /\ Goto(p, "r_asleep")
    /\ lock' = NoProc
    /\ UNCHANGED <<pipe, n, got, killed>>

\* pipeclose(), called by fileclose() when no descriptor of this end is left:
\* then no process is in a call on it.
CloseWrite ==
    /\ writeopen /\ lock = NoProc
    /\ \A p \in Proc : pc[p] \notin {"w_lock", "w_asleep"}
    /\ writeopen' = FALSE
    /\ pc' = WakeReaders(pc)
    /\ UNCHANGED <<data, nread, nwrite, readopen, lock, n, got, killed>>

CloseRead ==
    /\ readopen /\ lock = NoProc
    /\ \A p \in Proc : pc[p] \notin {"r_lock", "r_asleep"}
    /\ readopen' = FALSE
    /\ pc' = WakeWriters(pc)
    /\ UNCHANGED <<data, nread, nwrite, writeopen, lock, n, got, killed>>

\* kill(): needs p->lock only.
Kill(p) ==
    /\ ~killed[p]
    /\ killed' = [killed EXCEPT ![p] = TRUE]
    /\ pc' = [pc EXCEPT ![p] = CASE @ = "r_asleep" -> "r_lock"
                                 [] @ = "w_asleep" -> "w_lock"
                                 [] OTHER -> @]
    /\ UNCHANGED <<pipe, lock, n, got>>

Writing(p) ==
    \/ WriteFails(p) \/ WriteFull(p) \/ WriteDone(p)
    \/ \E c \in Byte : WriteByte(p, c)
Reading(p) == ReadTest(p) \/ ReadByte(p) \/ ReadDone(p)
InCall(p) == Acquire(p) \/ Writing(p) \/ Reading(p) \/ Sleep(p)

Next ==
    \/ \E p \in Proc : InCall(p) \/ CallWrite(p) \/ CallRead(p) \/ Kill(p)
    \/ CloseWrite \/ CloseRead

Spec == Init /\ [][Next]_vars
-----------------------------------------------------------------------------
Locked == {"write", "w_sleep", "read", "copy", "r_sleep"}

\* The type of every variable; the first invariant below includes it.
TypeOK ==
    /\ data \in [0..(PIPESIZE - 1) -> Byte]
    /\ nread \in 0..(UINT - 1) /\ nwrite \in 0..(UINT - 1)
    /\ readopen \in BOOLEAN /\ writeopen \in BOOLEAN
    /\ lock \in Proc \cup {NoProc}
    /\ pc \in [Proc -> Locked \cup {"user", "w_lock", "w_asleep", "r_lock", "r_asleep"}]
    /\ n \in [Proc -> 0..MAXN] /\ got \in [Proc -> Seq(Byte)]
    /\ killed \in [Proc -> BOOLEAN]

\* The two waits of the code, "pipewrite-full" (pipe.c:88) and "pipe-empty"
\* (pipe.c:113): with the lock free, a writer sleeps only before a full pipe
\* with a reader, a reader only before an empty one with a writer.
SleepersMustWait ==
    lock = NoProc => \A p \in Proc : /\ pc[p] = "w_asleep" => Full /\ readopen
                                     /\ pc[p] = "r_asleep" => Empty /\ writeopen

\* sleep() and wakeup() in pipe.c: as long as nobody is killed, no wakeup is
\* missing in either direction.
NoLostWakeup == TypeOK /\ ((\A p \in Proc : ~killed[p]) => SleepersMustWait)

\* piperead() of at least one byte that returns 0 found the end of file, also
\* when another reader took what this one was woken for; or copyout() failed on
\* its first byte, with the pipe perhaps still open, and that byte is gone from
\* the pipe: its caller cannot tell the two apart.
ZeroIsEofOrFault ==
    [][\A p \in Proc :
          pc[p] = "copy" /\ pc'[p] = "user" /\ got[p] = <<>> =>
              \/ Empty /\ ~writeopen /\ nread' = nread
              \/ ~Empty /\ nread' = Inc(nread)]_vars

Q == INSTANCE Fifo WITH
        Capacity <- PIPESIZE, ropen <- readopen, wopen <- writeopen,
        queue <- [k \in 1..((nwrite - nread) % UINT) |-> data[(nread + k - 1) % PIPESIZE]]

\* The ring buffer with its wrapping indices is a bounded FIFO, whoever reads
\* and writes at the same time.
FifoSpec == Q!Spec
=============================================================================
