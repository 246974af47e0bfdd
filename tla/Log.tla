-------------------------------- MODULE Log --------------------------------
(***************************************************************************)
(* The write-ahead log of kernel/log.c with the crash recovery run by      *)
(* initlog().  Each disk write (bwrite) is a step of its own, so a crash   *)
(* may fall between any two of them; what is done under log.lock is one    *)
(* step, because the lock excludes every other user of struct log.         *)
(*                                                                         *)
(* An operation is a process between begin_op() and end_op(); the blocks   *)
(* it changes are arbitrary, at most OPBLOCKS different ones.              *)
(***************************************************************************)
EXTENDS Integers, Sequences, FiniteSets, Functions

CONSTANTS Proc,         \* processes
          InitProc,     \* the first process: forkret() -> fsinit() -> initlog()
          Block,        \* home blocks of the file system
          Value,        \* contents of a block
          MAXOPBLOCKS,  \* param.h: blocks begin_op() reserves for an operation
          OPBLOCKS,     \* different blocks an operation really writes
          LOGSIZE,      \* param.h: capacity of struct logheader
          NLOG          \* sb.nlog, log.size: header plus data blocks on disk

ASSUME LogAssumption ==
    /\ InitProc \in Proc
    /\ IsFiniteSet(Proc)
    /\ MAXOPBLOCKS \in Nat \ {0}
    /\ OPBLOCKS \in 1..MAXOPBLOCKS
    /\ LOGSIZE \in Nat
    /\ NLOG \in Nat \ {0}

VARIABLES outstanding, committing,
          lh,       \* log.lh: block[0..n-1] as a sequence, n is its length
          pin,      \* references the log holds on a buffer (bpin - bunpin)
          cache,    \* contents a bread() of a home block returns
          disk,     \* home blocks on the disk
          logdata,  \* data blocks of the on-disk log, log.start+1 ...
          head,     \* the on-disk header block, log.start
          pc, tail, \* where a process is; its loop counter
          wrote     \* blocks the running operation of a process has written

mem  == <<outstanding, committing, lh, pin, wrote>>
vars == <<outstanding, committing, lh, pin, cache, disk, logdata, head,
          pc, tail, wrote>>

Slot == 1..(NLOG - 1)

Goto(p, l) == pc' = [pc EXCEPT ![p] = l]

\* panic() while holding log.lock: that CPU spins, the lock is never released.
LogLockFree == \A q \in Proc : pc[q] # "panic"

\* Mutant: end_op() forgets wakeup(&log).
WakeupNobody(f) == f

\* wakeup(&log): the woken processes go round the loop of begin_op() again.
WakeupLog(f) == [q \in Proc |-> IF f[q] = "asleep" THEN "woken" ELSE f[q]]

Init ==
    /\ disk \in [Block -> Value]
    /\ logdata \in [Slot -> Value]
    /\ head = <<>>                       \* mkfs zeroes the log
    /\ cache = disk
    /\ outstanding = 0 /\ committing = 0 /\ lh = <<>>
    /\ pin = [b \in Block |-> 0]
    /\ pc = [p \in Proc |-> IF p = InitProc THEN "read_head" ELSE "down"]
    /\ tail = [p \in Proc |-> 0]
    /\ wrote = [p \in Proc |-> {}]
-----------------------------------------------------------------------------
(* Operations of the file system.                                          *)

\* Mutant: begin_op() forgets what it set aside for the other operations.
MayBeginAlone ==
    /\ committing = 0
    /\ Len(lh) + MAXOPBLOCKS <= LOGSIZE

\* The two reasons to sleep in begin_op(), negated.
MayBegin ==
    /\ committing = 0
    /\ Len(lh) + (outstanding + 1) * MAXOPBLOCKS <= LOGSIZE

BeginOp(p) ==
    /\ pc[p] \in {"idle", "woken"}
    /\ LogLockFree
    /\ \/ /\ ~MayBegin
          /\ Goto(p, "asleep")
          /\ UNCHANGED <<outstanding, wrote>>
       \/ /\ MayBegin
          /\ outstanding' = outstanding + 1
          /\ wrote' = [wrote EXCEPT ![p] = {}]
          /\ Goto(p, "op")
    /\ UNCHANGED <<committing, lh, pin, cache, disk, logdata, head, tail>>

\* "too big a transaction" of log_write(); that its other panic, "log_write
\* outside of trans", cannot happen is part of CommitAlone below.
LogHasRoom == Len(lh) < LOGSIZE /\ Len(lh) < NLOG - 1

\* log_write() finds the block in the header: log absorption.
Absorbed(b) == b \in Range(lh)

\* bread(b); modify; log_write(); brelse(): the caller holds b's sleep-lock.
LogWrite(p, b, v) ==
    /\ pc[p] = "op"
    /\ Cardinality(wrote[p] \cup {b}) <= OPBLOCKS
    /\ LogLockFree
    /\ \/ /\ ~LogHasRoom                \* the buffer stays locked for ever
          /\ Goto(p, "panic")
          /\ UNCHANGED <<lh, pin, cache, wrote>>
       \/ /\ LogHasRoom
          /\ cache' = [cache EXCEPT ![b] = v]
          /\ wrote' = [wrote EXCEPT ![p] = @ \cup {b}]
          /\ IF Absorbed(b)
             THEN UNCHANGED <<lh, pin>>
             ELSE /\ lh' = Append(lh, b)
                  /\ pin' = [pin EXCEPT ![b] = @ + 1]
          /\ UNCHANGED pc
    /\ UNCHANGED <<outstanding, committing, disk, logdata, head, tail>>

\* panic("log.committing") is the last conjunct of CommitAlone below.
EndOp(p) ==
    /\ pc[p] = "op"
    /\ LogLockFree
    /\ outstanding' = outstanding - 1
    /\ \/ /\ outstanding = 1
          /\ committing' = 1
          /\ Goto(p, "commit")
       \/ /\ outstanding # 1
          /\ pc' = WakeupLog([pc EXCEPT ![p] = "idle"])
          /\ UNCHANGED committing
    /\ UNCHANGED <<lh, pin, cache, disk, logdata, head, tail, wrote>>
-----------------------------------------------------------------------------
(* commit(), called without a lock by the end_op() that set committing.    *)

\* Mutant: the header is written before the blocks it lists.
CommitHeadFirst(p) ==
    /\ pc[p] = "commit"
    /\ Goto(p, IF Len(lh) > 0 THEN "write_head" ELSE "committed")
    /\ tail' = [tail EXCEPT ![p] = 0]
    /\ UNCHANGED <<mem, cache, disk, logdata, head>>

\* Mutant: a transaction of one block is taken for an empty one.
CommitManyOnly(p) ==
    /\ pc[p] = "commit"
    /\ Goto(p, IF Len(lh) > 1 THEN "write_log" ELSE "committed")
    /\ tail' = [tail EXCEPT ![p] = 0]
    /\ UNCHANGED <<mem, cache, disk, logdata, head>>

Commit(p) ==
    /\ pc[p] = "commit"
    /\ Goto(p, IF Len(lh) > 0 THEN "write_log" ELSE "committed")
    /\ tail' = [tail EXCEPT ![p] = 0]
    /\ UNCHANGED <<mem, cache, disk, logdata, head>>

WriteLog(p) ==
    /\ pc[p] = "write_log"
    /\ IF tail[p] < Len(lh)
       THEN /\ logdata' = [logdata EXCEPT ![tail[p] + 1] = cache[lh[tail[p] + 1]]]
            /\ tail' = [tail EXCEPT ![p] = @ + 1]
            /\ UNCHANGED pc
       ELSE /\ Goto(p, "write_head")
            /\ UNCHANGED <<logdata, tail>>
    /\ UNCHANGED <<mem, cache, disk, head>>

\* write_head() is called three times: to commit, to erase the transaction,
\* and by recover_from_log() to clear the log.
WriteHead(p) ==
    /\ pc[p] \in {"write_head", "clear", "r_clear"}
    /\ head' = lh
    /\ tail' = [tail EXCEPT ![p] = 0]
    /\ CASE pc[p] = "write_head" -> Goto(p, "install")
         [] pc[p] = "clear"      -> Goto(p, "committed")
         [] pc[p] = "r_clear"    -> pc' = [q \in Proc |-> "idle"]
    /\ UNCHANGED <<mem, cache, disk, logdata>>

\* Mutant: install_trans() forgets bunpin().
UnpinsNever(l) == 0

\* bunpin() is skipped when recovering: nothing was pinned.
Unpins(l) == IF l = "install" THEN 1 ELSE 0

\* install_trans(recovering), then log.lh.n = 0 in its two callers.
InstallTrans(p) ==
    /\ pc[p] \in {"install", "r_install"}
    /\ IF tail[p] < Len(lh)
       THEN LET b == lh[tail[p] + 1]
            IN  /\ cache' = [cache EXCEPT ![b] = logdata[tail[p] + 1]]
                /\ disk' = [disk EXCEPT ![b] = logdata[tail[p] + 1]]
                /\ pin' = [pin EXCEPT ![b] = @ - Unpins(pc[p])]
                /\ tail' = [tail EXCEPT ![p] = @ + 1]
                /\ UNCHANGED <<lh, pc>>
       ELSE /\ lh' = <<>>
            /\ Goto(p, IF pc[p] = "install" THEN "clear" ELSE "r_clear")
            /\ UNCHANGED <<cache, disk, pin, tail>>
    /\ UNCHANGED <<outstanding, committing, logdata, head, wrote>>

\* The end of end_op() after commit() returned.
EndCommit(p) ==
    /\ pc[p] = "committed"
    /\ LogLockFree
    /\ committing' = 0
    /\ pc' = WakeupLog([pc EXCEPT ![p] = "idle"])
    /\ UNCHANGED <<outstanding, lh, pin, cache, disk, logdata, head, tail, wrote>>
-----------------------------------------------------------------------------
(* Recovery, the buffer cache below, and the power switch.                 *)

ReadHead(p) ==
    /\ pc[p] = "read_head"
    /\ lh' = head
    /\ tail' = [tail EXCEPT ![p] = 0]
    /\ Goto(p, "r_install")
    /\ UNCHANGED <<outstanding, committing, pin, cache, disk, logdata, head, wrote>>

\* bget() recycles a buffer with refcnt 0; the next bread() goes to the disk.
Recycle(b) ==
    /\ pin[b] = 0
    /\ cache' = [cache EXCEPT ![b] = disk[b]]
    /\ UNCHANGED <<mem, disk, logdata, head, pc, tail>>

\* Everything but the disk is lost, and the machine boots.
Crash ==
    /\ outstanding' = 0 /\ committing' = 0 /\ lh' = <<>>
    /\ pin' = [b \in Block |-> 0]
    /\ cache' = disk
    /\ pc' = [p \in Proc |-> IF p = InitProc THEN "read_head" ELSE "down"]
    /\ tail' = [p \in Proc |-> 0]
    /\ wrote' = [p \in Proc |-> {}]
    /\ UNCHANGED <<disk, logdata, head>>

KernelStep(p) ==
    \/ BeginOp(p) \/ EndOp(p)
    \/ Commit(p) \/ WriteLog(p) \/ WriteHead(p) \/ InstallTrans(p) \/ EndCommit(p)
    \/ ReadHead(p)

Next ==
    \/ \E p \in Proc : KernelStep(p)
    \/ \E p \in Proc, b \in Block, v \in Value : LogWrite(p, b, v)
    \/ \E b \in Block : Recycle(b)
    \/ Crash

Spec == Init /\ [][Next]_vars

\* A process that is not idle keeps running: the scheduler finds every
\* RUNNABLE process, operations end, the disk answers.  Nothing forces a
\* process to start an operation, and power fails finitely often.
FairSpec ==
    /\ Spec
    /\ \A p \in Proc : WF_vars(pc[p] # "idle" /\ KernelStep(p))
    /\ <>[][~Crash]_vars
-----------------------------------------------------------------------------
(* Properties.                                                             *)

Label == {"down", "idle", "asleep", "woken", "op", "commit", "write_log",
          "write_head", "install", "clear", "committed", "read_head",
          "r_install", "r_clear", "panic"}

BootLabel == {"read_head", "r_install", "r_clear"}
OpLabel == {"op", "panic"}
CommitLabel == {"commit", "write_log", "write_head", "install", "clear", "committed"}

Booting == pc[InitProc] \in BootLabel
InOp == {p \in Proc : pc[p] \in OpLabel}
InCommit == {p \in Proc : pc[p] \in CommitLabel}

\* The type of every variable.
TypeOK ==
    /\ outstanding \in Nat
    /\ committing \in {0, 1}
    /\ lh \in Seq(Block) /\ head \in Seq(Block)
    /\ pin \in [Block -> Int]
    /\ cache \in [Block -> Value] /\ disk \in [Block -> Value]
    /\ logdata \in [Slot -> Value]
    /\ pc \in [Proc -> Label]
    /\ tail \in [Proc -> Nat]
    /\ wrote \in [Proc -> SUBSET Block]

\* The blocks that begin_op() set aside for the running operations and that
\* these have not used yet.
Reserved == {r \in InOp \X (1..MAXOPBLOCKS) : r[2] > Cardinality(wrote[r[1]])}

\* begin_op() (log.c:133): the blocks already logged and the ones still set
\* aside for running operations together fit in the header.
LogSpace == Len(lh) + Cardinality(Reserved) <= LOGSIZE

\* log.c:153, 222: end_op() never finds log.committing set and log_write()
\* is never called outside a transaction; the committing process is alone.
CommitAlone ==
    /\ outstanding = Cardinality(InOp)
    /\ committing = 1 <=> InCommit # {}
    /\ committing = 1 => outstanding = 0 /\ Cardinality(InCommit) = 1

\* The logged blocks that install_trans() has not reached yet.
Pinned == {b \in Block : /\ ~Booting
                         /\ \E i \in DOMAIN lh :
                               /\ lh[i] = b
                               /\ \A p \in Proc : pc[p] = "install" => tail[p] < i}

\* bpin()/bunpin() in log_write() and install_trans(): exactly the logged
\* blocks that are not installed yet are pinned, each once, and a buffer the
\* cache may recycle holds what is on the disk.
PinsMatchLog ==
    \A b \in Block : /\ pin[b] = IF b \in Pinned THEN 1 ELSE 0
                     /\ b \notin Pinned => cache[b] = disk[b]

\* After the last end_op() returned (log.c:167-174) nothing is left in the
\* log and every write is at its home location.
QuiescentDurable ==
    outstanding = 0 /\ committing = 0 /\ ~Booting =>
        lh = <<>> /\ head = <<>> /\ disk = cache

\* What recover_from_log() makes of the home blocks d, given the header h
\* and the data blocks l of the on-disk log.
RecoveredFrom(h, l, d) ==
    [b \in Block |-> IF b \in Range(h) THEN l[CHOOSE i \in DOMAIN h : h[i] = b] ELSE d[b]]

Recovered == RecoveredFrom(head, logdata, disk)

Tx == INSTANCE TxDisk WITH mem <- IF Booting THEN Recovered ELSE cache,
                           durable <- Recovered,
                           open <- InOp

\* The log implements the transactional disk: whatever the interleaving of
\* operations, commits, recoveries and crashes, the state found after a
\* reboot changes only at write_head(), to all the writes of complete
\* operations (log.c:99-101, "the true point at which the current
\* transaction commits").
TxSpec == Tx!Spec

\* begin_op() sleeps on &log only until an end_op() wakes it: no wakeup(&log)
\* is missing, unless log_write() panicked and keeps log.lock.
SleeperWakes == \A p \in Proc : pc[p] = "asleep" ~> pc[p] # "asleep" \/ ~LogLockFree

=============================================================================
