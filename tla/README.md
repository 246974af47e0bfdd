# xv6 in TLA+

A TLA+ development for the xv6-riscv kernel and its user programs in `src/`. Each
module models one part of the system from its C source; TLC checks the modules on
small instances, and TLAPS proves the central results about the log, the buffer
cache, the disk driver, pipes, the process table, the scheduler and the traps for every
instance. `PROJECT.json` lists components, runs, the map from definitions to source lines,
mutants, hazards and theorems.

## The system

xv6 is a small multi-core Unix kernel. Several CPUs run kernel threads that
share memory under spin-locks, wait with `sleep()`/`wakeup()`, and are
interrupted by a disk, a UART and a timer. The power may fail at any time; only
what the disk holds survives. The parts, bottom up:

| part | source | state | operations | what is hard about it |
|---|---|---|---|---|
| spin-locks | `spinlock.c` | `locked`, `noff`, `intena` | `acquire`, `release`, `push_off` | a handler that wants a lock its CPU holds |
| scheduler | `proc.c`, `swtch.S` | `p->state`, `p->lock`, `c->proc` | `scheduler`, `sched`, `yield`, `sleep`, `wakeup` | one kernel stack, two CPUs; wakeups in the window before sleeping |
| processes | `proc.c`, `sysproc.c` | `pid`, `parent`, `killed` | `fork`, `exit`, `wait`, `kill` | parent and child exit together; slots are reused |
| traps | `trap.c`, `trampoline.S` | `stvec`, `sepc`, `sstatus` | `usertrap`, `usertrapret`, `kerneltrap` | registers that the next trap overwrites, on whichever CPU |
| memory | `kalloc.c`, `vm.c`, `exec.c` | free list, page tables | `uvmalloc`, `uvmcopy`, `exec` | running out of memory half-way |
| disk driver | `virtio_disk.c` | descriptor table, two rings | `virtio_disk_rw`, `virtio_disk_intr` | a device that completes in any order |
| buffer cache | `bio.c`, `sleeplock.c` | `refcnt`, `valid`, LRU list | `bread`, `bwrite`, `brelse`, `bpin` | recycling a buffer somebody waits for |
| log | `log.c` | `log.lh`, header on disk | `begin_op`, `log_write`, `end_op`, recovery | a crash between any two disk writes |
| inodes | `fs.c` | `ref`, `nlink`, dinodes | `ialloc`, `iget`, `ilock`, `iput` | the last reference goes while another comes |
| blocks | `fs.c`, `mkfs.c` | bitmap, `ip->addrs` | `balloc`, `bmap`, `itrunc`, `writei` | an allocation that stops half-way; log space |
| directories | `fs.c`, `sysfile.c` | entries | `create`, `link`, `unlink` | names and link counts across calls |
| files | `file.c`, `sysfile.c` | `f->ref`, `ofile[]` | `dup`, `close`, `pipe`, `open` | one struct shared by many processes |
| pipes | `pipe.c` | ring, two open flags | `piperead`, `pipewrite`, `pipeclose` | wakeups when one side closes or dies |
| console | `console.c`, `uart.c` | input and output rings | `consoleread`, `consoleintr`, `uartputc` | an editor in an interrupt handler |
| shell | `sh.c`, `init.c` | descriptors, children | parser, `runcmd` | pipe ends and children left over |
| library | `umalloc.c`, `ulib.c`, `grep.c` | free list, buffers | `malloc`, `free`, `grep` | boundaries |

How they fit together: system calls run in a process between `begin_op()` and
`end_op()`; they lock inodes, read and write blocks through the buffer cache,
and call `log_write()` instead of `bwrite()`. The last `end_op()` of a group
commits. The buffer cache calls the disk driver, which sleeps until the
interrupt handler wakes it; sleeping is the scheduler's business.

## Modules

Each layer is modelled over what the layer below promises, and each promise is
a specification of its own that the layer below is shown to implement:

```
   shell, init                Shell: over fork, exit, wait, pipe as Proc and File have them
        |
   file-system calls
        | bytes of a file    FileStore  <= Blocks     (checked)
   fs.c, file.c
        | transactions       TxDisk     <= Log        (checked and proved)
   log.c
        | exclusive blocks   BlockStore <= Bcache     (checked and proved)
   bio.c, sleeplock.c
        | read/write block   SyncDisk   <= VirtioDisk (checked and proved)
   virtio_disk.c
        | sleep, wakeup      Sched: no lost wakeup (proved), who can run does (checked)
   proc.c
```

`Log` - the write-ahead log (`log.c`). `lh` is `log.lh` as a sequence, `head`
and `logdata` are the log on the disk, `disk` the home blocks, `cache` what
`bread()` returns, `pin` the references `bpin()` takes. One action per disk
write: `WriteLog`, `WriteHead` and `InstallTrans` write one block each, so
`Crash` may fall between any two. `Recycle` is the buffer cache evicting a
block that is not pinned. What happens under `log.lock` is one step. A panic
inside `log_write()` leaves `log.lock` held for ever, as in the code.
`LogInv` holds the inductive invariant, `LogSteps` and `LogProofs` the proofs, `TxDisk`
the abstract specification.

`Bcache` - the buffer cache with its sleep-locks. `lru` is the linked list as a
sequence; `bget` finds or recycles under `bcache.lock`, then waits in
`acquiresleep`; `bread` reads when `valid` is 0. Implements `BlockStore`: a
process has a block to itself from `bread()` to `brelse()`, and reads what was
written last; proofs in `BcacheProofs`.

`VirtioDisk` - descriptors, available and used ring, the interrupt handler that
walks the used ring, and the device (external) that takes and completes chains
in any order. The 16-bit ring indices wrap at `IDXMOD`. Implements `SyncDisk`;
proofs in `VirtioProofs`.

`Sched` - how CPUs move between user programs, kernel threads, `scheduler()` and
interrupt handlers, from `main()` on. Every `acquire` and `release` of `p->lock` and
`tickslock` is a step, `acquire` itself two (interrupts off, then the lock).
`stack[c]` says whose kernel stack a CPU is on, which is what goes wrong when a
process is `RUNNABLE` too early. `Hart` has the registers: the bits of `sstatus`,
`sepc`, `stvec`, and `noff` and `intena` of `struct cpu`, with what the hardware does
at a trap and an `sret`. A timer interrupt may come at every step where
interrupts are on: in user space, in a system call, in `scheduler()`. `back` is a
history variable, where each trap of a thread has to return to. Processes compute,
make calls that return at once, call `sys_sleep()` for a tick, and `kill()` each
other. `SchedInv` holds the inductive invariant, `SchedKeeps` and `SchedProofs` the
proofs.

`Proc` - the process table: `fork`, `exit`, `wait`, `kill`, `sys_sleep`, with
`wait_lock` and the windows between the locks. Proofs in `ProcProofs`.

`Pipe` - a pipe with readers and writers that may be killed, and ends that are
closed. Implements `Fifo`; proofs in `PipeProofs`.

`Inode` - the inode table and the calls that change the name space, over the
promise of `TxDisk`: `disk` is what the open transaction sees, `durable` what a
crash falls back to; the last `end_op()` of a group copies one to the other.
`ref`, `valid` and `mem` are a table entry, `th[p]` the local variables of the
call a process is in. Steps are cut where the code takes or drops `ip->lock` or
`itable.lock`; `iput()`, which drops `itable.lock` in the middle, has four. A
path is a sequence of names, a file has no contents, and any `dirlink()` that
may need a block may fail.

`Console` - `console.c` and `uart.c`: the input ring with its read, write and
edit index, the output ring, and the UART as an external actor that receives
keys, sends from a FIFO and interrupts when it is empty. The echo and
`uartstart()` look at the line status and write the transmit register in two
steps, under different locks. Implements `Terminal`, a line-edited input queue
and an ordered output. Work done under `cons.lock` that ends in the release of
the lock is one step.

`Vm` - physical pages and user page tables. `mem` holds for each page its bytes or
its PTEs, `free` how often it is on the free list, so that a page freed twice
shows. The functions of `kalloc.c`, `vm.c`, `exec.c` and the memory side of `proc.c`
are operators with the same names, from one machine state to the next; a system
call is one action. Other CPUs matter only through the number of free pages,
which pipes vary. Implements `AddrSpace`: private pages that `fork()` copies, `exec()`
replaces by the image of a file, `sbrk()` extends with zeros. The refinement
mapping reads the page tables without `walk()`.

`File` - `struct file`, descriptors and what they keep open. One step per lock
taken: `Fileclose` is the part under `ftable.lock`, `CloseObject` the
`pipeclose()` or `iput()` after it, and other processes run in between. `moved` is a
history variable, the bytes transferred through a file.

`Blocks` - file contents on disk blocks: `balloc()`, `bfree()`, `bmap()`, `itrunc()`,
`readi()`, `writei()`, `dirlookup()`, `dirlink()` and the chunks of `filewrite()`, over
the promise of `TxDisk`. `writei()` and `itrunc()` are cut after every block they
allocate, fill or free, so that calls on other inodes come in between; an allocation or
a copy may fail in the middle. `Layout` is the disk format of `fs.h`, `Mkfs` the host
program as operators on a disk image: the initial states of `Blocks` are the images it
makes. A block holds `BSIZE` units, where a unit is a byte, an address or a
directory entry. Implements `FileStore`: files are sequences, a write changes its own
range of its own file, a crash returns to the last commit.

`ShParse` - the parser of `sh.c` on characters: `gettoken`, `peek` and the functions of
the grammar, with `nulterminate()` cutting the line, and beside them a reference
grammar that splits a token sequence at its operators. `Text` - `skipelem`, `namecmp`,
`strncpy`, both `memmove`s, and `grep` with its buffer, one call per behaviour,
compared with reference definitions. `Shell` - `init` and the shell as processes with
descriptors: `runcmd()` is cut after each `fork()`, `pipe()`, `open()` and `wait()`, over
kernel calls that do what `Proc` and `File` model in detail; the process table can be
full. `Umalloc` - the circular free list of `malloc()` and `free()`, on which every
pointer and size is a word of the heap.

`MC*` modules give TLC symmetry sets and inputs: `MCInode` the calls and the
file systems it starts from, `MCVm` the programs `exec()` is given, `MCBlocks` the files
`mkfs` is given, `MCUser` the lines, paths, patterns and shell sessions. The three parts
of `MCUser` (sessions, the heap, pure calls) share no state, so a behaviour is one of
them.

## Runs

| run | instance | states | shows |
|---|---|---|---|
| `LogCrash` | 2 processes, 2 blocks, 2-block operations, any number of crashes | 39 k | `LogSpace`, `PinsMatchLog`, `QuiescentDurable`; `TxSpec`; `SleeperWakes` |
| `Bcache` | 2 processes, 2 buffers, 3 blocks, 1 pin | 151 k | `RefcntCounts`; `StoreSpec`; `SleeperWakes` |
| `VirtioDisk` | 3 processes, 7 descriptors, indices modulo 4 | 360 k | `ChainsPartition`, `NoLostInterrupt`; `SyncSpec` |
| `Sched` | 2 CPUs, 2 processes | 44 k | `OneStack`, `NoLostWakeup`; `TrapTransparent`, `SleeperRuns` |
| `Proc` | 3 slots, pids up to 3, `kill` of 0, 2, 3 | 29 k | `FreedIsOffCpu`, `KillHitsPid`; `OrphanReaped`, `KilledChildlessExits` |
| `Pipe` | 3 processes, 2 bytes of ring, counters modulo 4 | 62 k | `NoLostWakeup`; `ZeroIsEofOrFault`, `FifoSpec` |
| `Inode` | 2 processes, 3 inodes, 2 names, 3 calls of 13, 1 crash | 800 k | `RefCounts`, `NamesSound`, `NoLockCycle`, `NoLeak` |
| `Console` | 2 processes, 3 bytes of input, 2 of output ring, 4 keys and calls | 608 k | `NoLostWakeup`; `TerminalSpec` |
| `Vm` | 2 processes, 23 pages of 4 bytes with 4 PTEs, 0 to 13 of them taken, 3 calls | 19 k | `PagesAccounted`, `CopyinSound`; `MemSpec` |
| `File` | 3 processes, 3 files, 3 descriptors each, 1 page for pipes, 5 calls | 193 k | `FileRefs`, `OffsetsExact` |
| `Blocks` | 2 processes, 13 disk blocks of 2 units, 1 direct block, 5 images, 3 calls, any number of crashes | 60 k | `BlocksAccounted`, `WithinBudget`; `FileSpec` |
| `User` | 8 sessions on 7 process slots; a heap of 14 units; 12 k calls | 83 k | `TextRight`, `JobsSound`, `HeapSound`; `ShellReturns` |

Every run passes. The type invariant of a module, where it has one, is part of its
first invariant.

What the properties say beyond their names: `OneStack` has also that `noff` counts the
locks a CPU holds or spins for and that interrupts are off meanwhile, so that no code
spins on a lock of its own CPU. `TrapTransparent`: a thread goes on where each of its
traps took it, at most one trap inside another, with the right vector and interrupts
on, and none of the panics of `trap.c` and `sched()` happens. `NoLockCycle` includes the
promise in `iput()` that its `acquiresleep()` does not block. `NoLostInterrupt` includes
that nobody sleeps for descriptors beside three free ones. `PagesAccounted` includes that
no check of `vm.c` panics. `BlocksAccounted`: the bitmap, in memory and in what a crash
would leave, has exactly the blocks that inodes point to, each once. `JobsSound`: each
program of a line starts with the descriptors the line says and no others, and at a
prompt the shell has no child and no foreground process is left. `OrphanReaped`: `wait()`
takes the first zombie in table order, so a zombie child of init is reaped unless init
reaps ones in earlier slots for ever. `ZeroIsEofOrFault`: a pipe read returns 0 at end of
file, or when `copyout()` fails on the first byte, which the pipe then has lost.

Bounds. `NLOG` in `LogCrash` is one below `LOGSIZE`, so that both the sleep for
space and the panic of `log_write()` are reached. Three blocks and two buffers
force recycling in `Bcache`. Seven descriptors are two chains and one left
over, so `alloc3_desc` meets success, failure after one descriptor and sleep;
`IDXMOD` is the wrap of the 16-bit indices and a multiple of the ring size, as
in the code. `UINT` in `Pipe` is the wrap of `nread` and `nwrite`, a multiple
of `PIPESIZE`. Three process slots are init, a parent and a child, and nobody kills init (it
would exit, which is a panic); `MAXPID`
bounds the number of forks, so that in the run the forks stop and `OrphanReaped` has every
orphan reaped; that forks without end may starve one is in the property, not in the run.
`MAXN` bounds the length of a pipe or console read or write. `Inode` starts from
four file systems (empty; a directory; a directory in a directory, and everybody's
working directory; a directory beside a file), which is what longer sequences of
calls would first have to build; three calls more are enough for two of them to
race with a third, and for `create("/a/b")` or `link("/a", "/b/b")` to race with the
removal of the directory.
`START` in `Console` puts the indices just before they wrap; three bytes of
input ring are the least in which kill-line erases two, and four events fill
it, or fill the output ring behind an echo and make a writer sleep.
In `Vm` a page-table page has 4 entries, so that four user pages fill one and the
fifth needs another; the number of pages taken at the start puts the failing
`kalloc()` at each place of `fork()`, `exec()` and `sbrk()` in turn. RAM is smaller
than the address space, as in the machine. `UINT64` lets `sbrk()` and segment ends
wrap. In `File` five calls are enough to share a file between two processes by `fork()`
or `dup()` and race two closes, and `open()` and `pipe()` find descriptors and files
used up. `CHUNK` is the piece of
`filewrite()` between two transactions. In `VirtioDisk` a caller's buffer holds, before a
read, what some other block held, and before a write something new.

In `Sched` two processes and two CPUs are the least with a process that moves, a CPU
that idles and a wakeup from the other CPU; `sys_sleep()` waits for one tick, since the
loop in it only counts them. In `Blocks` a file has one direct block and an indirect
block of two entries; `BPB` gives the disk two bitmap blocks, and 13 blocks run out
after two files; `MAXOPBLOCKS = 6` makes a chunk of `filewrite()` two units, one block,
by the formula of the code, so that a chunk that is not aligned takes two; `UINT` lets
`off + n` wrap. In three of the images the root's last
block has room, beside a file that is empty, ends inside its block or fills it; in two
it is full, and the root ends in a hole. In `User` lines
have all nine characters the parser tells apart up to length 4 and a choice of them up to
5; `MAXARGS`, `DIRSIZ` and grep's `BUFSIZE` are small enough for each limit to be met.
Sessions cover pipelines of three and four, lists, background commands, blocks,
redirections, syntax errors, `cd` and end of file; with 7 slots some of them fit and some
run out of processes at each place. `NALLOC` stands for the 4096 units of
`morecore()`, `Gaps` for a program's own `sbrk()`. `INT` is the range of the int that
`sbrk()` takes; `Requests` has sizes that fit it and sizes whose bytes become negative or
small in it.

Fairness. A thread that can take its next kernel step eventually does: the
scheduler goes round the process table (`Sched` checks `SleeperRuns` for
it) and spin-locks are held for bounded code. No fairness is put on user
programs making system calls, on `kill`, or on operations ending (in `Log`
a process between `begin_op()` and `end_op()` is in kernel code and does end).
`Log` assumes that crashes stop at some time, without which recovery could be
interrupted for ever. In `Sched` each CPU has strong fairness for its scheduler, for the
thread on its stack and for the timer: a thread that is interrupted again and again
still gets on, a lock that is free again and again is obtained, and `clockintr()` asks
for the next interrupt each time. `Shell` has weak fairness of its processes together;
no process there waits for another except through `wait()` and pipes. A program whose
standard input is a pipe ends when the writers are gone; one on the console is assumed
to end, by itself or because its user types an end of file: `ShellReturns` is about such
sessions, and what is typed goes to the shell. Acquiring a
contended lock gets strong fairness elsewhere only where stated in the module.

## Proofs

Each proof has the same shape: an inductive invariant `Inv`, first checked by TLC on
the instance of the run, then `Init => Inv` and `Inv /\ [Next]_vars => Inv'`, one step
per action and conjunct, and each property from `Inv`. The theorems hold for every
value of the constants that the named assumption of the module allows.

**Log** (`LogSteps`, `LogProofs`; `LogAssumption`). For every finite set
of processes, any blocks and values and all `MAXOPBLOCKS`, `LOGSIZE`, `NLOG`:
`TypeCorrect`, `CommitIsAlone`, `SpaceIsKept`, `PinsAreRight` and
`QuiescentIsDurable`, all from `InvHolds: Spec => []Inv`.
The properties are not inductive by themselves. `QuiescentDurable`, say, needs
that when `install_trans()` is done the home blocks hold what the log holds,
that the log held what the cache held when the header was written, and that
nobody wrote in between. `Inv` (`LogInv`) therefore says who may be where
(`ControlInv`), that what an operation wrote is in the header, which has room
for the rest (`SpaceInv`), how far commit or recovery has come (`Progress`) and
that header entries are different blocks (`DataInv`). `LogSteps` says what each
action does to the state and proves types and `ControlInv`; `LogProofs` proves
`DataInv`, `SpaceInv` and the pins, and puts the parts together.
Its last part proves `LogImplementsTxDisk: Spec => TxSpec`. The abstract
durable state is what recovery would produce from the disk as it is now:
`Recovered`, the home blocks overwritten by the logged blocks the header names.
The write of a non-empty header in `commit()` is the abstract commit; every other
disk write leaves `Recovered` as it is, which is the key lemma per action; a
crash loses only `cache`.

**Bcache** (`BcacheProofs`; `BcacheAssumption`). For any finite sets of processes and
buffers, any blocks, and any number of pins: `ReferencesAreCounted` and
`CacheIsBlockStore: Spec => StoreSpec`. The list always has every buffer once (`ListInv`),
so the second loop of `bget()` finds an unused buffer when there is one. `OneBuffer` says
that no block has two buffers. `CountInv` is the count itself, by cardinalities of the set
of users: `bget()` adds one, the end of `brelse()` takes one, and a logged block's pin is
one more. From it a recycled buffer has no user and no pin; `CleanInv`, that a valid buffer
of a block outside the log holds what the disk holds, then makes recycling invisible.
`CleanInv` needs `UnpinInv`: from `bwrite()` to `bunpin()` the disk and the buffer agree, as
only the owner of the sleep-lock writes (`LockInv`) and the buffer stays the block's
(`UseInv`). Abstractly a block is held from the end of `bread()` to `releasesleep()`.

**VirtioDisk** (`VirtioProofs`; `VirtioAssumption`). For any processes and values, any
number of descriptors, rings of at least `NUM \div 3` entries and indices that wrap at a
multiple of the ring size: `ChainsAlwaysPartition`, `InterruptsNotLost` and
`DriverIsSynchronous: Spec => SyncSpec`. `ChainInv` gives the three cells of each request,
disjoint from the others' and together all that is in use; `CountInv` counts them, three
for each request, so that no ring ever overflows. `AvailInv` and `UsedInv` say what the
entries between the two indices of a ring are: exactly the requests submitted and not
fetched, or served and not yet seen by the handler, each once (`Lists`, with
`ListsWrite`, `ListsPut` and `ListsGet` over lemmas on `%`); this is where the wrap and its
divisibility enter. With them the handler's `info[id].b` is always the buffer of a sleeper
whose block was moved. `PlaceInv` and `DevInv` tie `b->disk`, the lock and the status byte to
how far the request is. The abstract transfer is the device serving the request, and
`Cases` shows that each action, at the descriptors the invariant gives it, is one of ten
steps, of which the callers see three.

**Pipe** (`PipeProofs`; `PipeAssumption`). For any processes, bytes, `PIPESIZE` and
`UINT`, where `PIPESIZE` divides `UINT` as 512 divides 2^32: `WakeupsArrive`,
`ZeroExplained` (`ZeroIsEofOrFault`) and `PipeIsFifo: Spec => FifoSpec`. `RoomInv` says that `nwrite - nread` modulo `UINT` is
at most `PIPESIZE`; with it, and only because of the divisibility, a byte written or
read is at an end of the abstract queue (`RingPut`, `RingGet`, over lemmas on `%`).
`SleepInv` says of each sleeper what it still has to wait for, or who holds the lock
and is about to wake it.

**Proc** (`ProcProofs`; `ProcAssumption`). For a table of any size and any pids:
`FreedSlots`, `KillIsExact`, and two properties that no run states, `ExitIsNoticed` (a
parent asleep in `wait()` has no zombie child) and `TableIsSound` (parents are alive,
pids are unique). `StateInv` says where a process of each state can be, `ForkInv` that
the slot a `fork()` has allocated is nobody else's, `FamilyInv` that a parent is alive
and has not passed `reparent()`, `WaitInv` that who waits, or holds `wait_lock` on the
way to sleep, has no zombie child, and `KillInv` that no `killed` is left over.

**Sched** (`SchedInv`, `SchedKeeps`, `SchedProofs`; `SchedAssumption`). For any number of
CPUs and processes: `StacksAreOwned`, `WakeupsArrive` and `TrapsAreTransparent`, the
last with its action property, that a return from `kerneltrap()` goes where that trap
came from. `Inv` ties the place a thread is at to all that must agree with it there:
the locks its CPU holds (`LockInv`), `p->state` and `p->chan` (`StateInv`), the CPU's
registers (`HartInv`: `noff`, `intena`, `SIE`, `stvec`, and what `sepc`, `SPP` and `SPIE` are
worth), the `intena` that `sched()` keeps in a local variable (`IntenaInv`), the frame
that `kerneltrap()` saved (`FrameInv`), the history variable (`BackInv`), and what
`wakeup()` has still to look at (`WakeInv`). The model has some thirty actions;
`SchedInv` defines nineteen ways in which they change the state, with the registers
reduced to "right for the place the CPU goes to". `SchedProofs` shows that every
action is one of these ways (`Cases`), `SchedKeeps` that each way keeps each conjunct.

Only model-checked: all liveness, which needs fairness and `ENABLED`, out of the
prover's reach; the other components' invariants and refinements, for which no proof
has been written; and what the recursive definitions of `ShParse` and `Text` compute,
for which there is no induction over data.

## Observations

No property is refuted; these are cases that the properties name as exceptions, or
that the models made visible.

* `kill()` does not look at `p->state`: `kill(0)` finds an unused slot and sets `killed`,
  which `allocproc()` does not clear, so the next process there is born killed
  (`KillHitsPid` allows for it).
* `iput()` frees an inode, releases its locks, and drops its reference only after that.
  If another process allocates the same inode number in between, it shares the table
  entry, and if it also drops it first, neither sees the last reference: the inode stays
  allocated (`reused` in `NoLeak`).
* `create()` and `link()` do not look whether the directory was removed since its path was
  looked up, or was removed while it is the working directory. What they name there
  keeps that link when the directory is freed, and no path reaches it (`stray` in
  `NoLeak`).
* `piperead()` increments `nread` before `copyout()`: when that fails on the first byte
  the byte is lost, and the call returns 0, as at end of file.
* `wait()` starts at the first slot each time: as long as init finds zombies in earlier
  slots, one in a later slot is not reaped.
* `malloc()` takes a `uint`, `morecore()` computes the bytes in 64 bits, and `sbrk()` takes an
  `int`. From 2 GB on the heap is asked to grow by another number, small, zero or
  negative, and the block still gets the size that was meant; `HeapSound` is about heaps
  without such a request, and the model ends there.
* `mkfs` rounds the root's size to `((off/BSIZE)+1)*BSIZE`. When the entries exactly fill
  the last block, the size reaches into a block that is not there. Then `readi()` of the
  root allocates it in `bmap()` without an `iupdate()`: a crash loses the block, a
  `fileread()` outside a transaction panics in `log_write()`, and `dirlookup()` panics when
  the disk is full. In `Blocks` this is `hole`; `BlocksAccounted` says that nothing of the
  kind happens otherwise. `mkfs` does not check the number of inodes either.
* A `fork()` that fails half-way through a pipeline leaves its left half running
  beside the next prompt (`failed` in `JobsSound`). If the shell exits, `init` reaps it,
  another process takes the slot and `init`'s own `fork()` fails, then `init` exits and the
  kernel panics (`halted`).
* `a >x >y` writes to `x`: redirections nest, and the innermost is applied last.
* `grep` drops a last line without a newline, and all that follows a line longer than
  its buffer; `TextRight` states what it prints in these cases.
* A working directory can be removed, and then its parent; the `..` of the removed
  directory holds no link, so it names a free inode, and looking it up panics in
  `ilock()`: `NamesSound` says that this is the only way to that panic. It bounds `nlink`
  from below only, since calls and crashes leave links without a name; `NoLeak` has the
  equality.
* `begin_op()` lets operations reserve `LOGSIZE` blocks, but the log on disk has `LOGSIZE`
  blocks with its header, and `log_write()` panics at the last one; the calls of this
  kernel write fewer blocks than they reserve (`WithinBudget`), and `LogCrash` includes
  that panic.
* `kill()` may fall between the test of `killed(p)` and `sleep()` in `wait()`, and then
  wakes nobody (`KilledChildlessExits` is about victims without children for this reason);
  a killed `pipewrite()` returns without waking the reader for bytes it had written
  (`NoLostWakeup` of `Pipe` is about pipes whose processes were not killed).

## Not modelled

* `Inode` and `Blocks` are not composed: `Inode` lets any `dirlink()` fail, `Blocks` has one
  directory and files that exist. `NINODE` and the `iput()` of `exit()` are left out.
* Device files, `fstat`, and calls that fail without changing anything, in `File`.
* The kernel's own page table, `proc_mapstacks()` and the TLB, in `Vm`. Elsewhere a
  copy to or from user space is a step that succeeds or fails.
* A request that the disk fails: the device of `VirtioDisk` answers with status 0, and the
  panic on another status is left out. The check of the superblock's magic number.
* General registers in `swtch.S` and the two trap vectors; machine mode (`entry.S`,
  `start()`, `timerinit()`); the initialisation calls of CPU 0, which run alone; `wfi`; the
  PLIC and virtio set-up registers. The handlers of the disk and the UART run as actors of
  their own in `VirtioDisk` and `Console`; the timer's runs on the interrupted stack in
  `Sched`.
* Weak memory: a lock is a step, and the fences of `acquire()`, `release()` and the
  virtio driver are taken to do their work.
* Formatting: `printf()` of the kernel and of user programs, `^P`, the `panicked` flag.
* The small user programs (`cat`, `ls`, `wc`, ...), sequential and of one loop each.
  `usertests.c`, `grind.c`, `forktest.c` and `stressfs.c` were read for what the kernel is
  meant to do.

## Plan

1. Proofs, in the manner of those above: `RefCounts` of `Inode`; `FileRefs` of `File`; the
   bitmap in `BlocksAccounted`.
2. `Inode` over `Blocks`: directories that grow, and files freed by the last `iput()`.
