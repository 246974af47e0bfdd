-------------------------------- MODULE Proc --------------------------------
(***************************************************************************)
(* The life of a process (kernel/proc.c): fork(), exit(), wait(), kill(),  *)
(* with sys_sleep() as another place to be asleep in.  wait_lock is        *)
(* explicit; what is done under one p->lock is one step.  Which CPU runs a *)
(* process is the subject of Sched: here RUNNABLE stands for RUNNABLE and  *)
(* RUNNING, and a process that is RUNNABLE may take its next step.         *)
(***************************************************************************)
EXTENDS Integers, FiniteSets, FiniteSetsExt

CONSTANTS NPROC,      \* param.h: entries of the process table
          MAXPID,     \* bound: fork() is not called beyond this pid
          KILLARGS    \* arguments user programs give to kill()

ASSUME ProcAssumption == /\ NPROC \in Nat \ {0} /\ MAXPID \in Nat \ {0}
                         /\ KILLARGS \subseteq Int

Proc == 1..NPROC
initproc == 1
None == 0

VARIABLES state, pid, parent, killed,
          chan,      \* p->chan: "wait" (p itself), "ticks" or "none"
          nextpid,
          waitlock,  \* the process that holds wait_lock, or None
          pc,        \* where a process is in the kernel; "user": not there
          np,        \* fork()'s local np
          meant      \* history: pids somebody wanted dead

vars == <<state, pid, parent, killed, chan, nextpid, waitlock, pc, np, meant>>

Init ==
    /\ state = [p \in Proc |-> IF p = initproc THEN "RUNNABLE" ELSE "UNUSED"]
    /\ pid = [p \in Proc |-> IF p = initproc THEN 1 ELSE 0]
    /\ parent = [p \in Proc |-> None]
    /\ killed = [p \in Proc |-> FALSE]
    /\ chan = [p \in Proc |-> "none"]
    /\ nextpid = 2
    /\ waitlock = None
    /\ pc = [p \in Proc |-> IF p = initproc THEN "user" ELSE "none"]
    /\ np = [p \in Proc |-> None]
    /\ meant = {}

At(p, l) == state[p] = "RUNNABLE" /\ pc[p] = l
Goto(p, l) == pc' = [pc EXCEPT ![p] = l]
Kids(p) == {q \in Proc : parent[q] = p}

\* Mutant: usertrap() does not look at killed(p).
SyscallKilled(p) == At(p, "user")

\* usertrap() lets a killed process make no system call.
Syscall(p) == At(p, "user") /\ ~killed[p]

\* Mutant: wakeup() is forgotten.
WokenNobody(W) == state

\* wakeup() of the processes in W that sleep in wait().
Woken(W) == [q \in Proc |-> IF q \in W /\ state[q] = "SLEEPING" /\ chan[q] = "wait"
                            THEN "RUNNABLE" ELSE state[q]]
-----------------------------------------------------------------------------
(* fork()                                                                  *)

\* allocproc() finds an UNUSED slot; from there to the first release() fork()
\* holds its lock.  The scan locks one slot at a time, so that the slot need
\* not be the first free one.
AllocProc(p, q) ==
    /\ Syscall(p) /\ state[q] = "UNUSED" /\ nextpid <= MAXPID
    /\ nextpid' = nextpid + 1
    /\ pid' = [pid EXCEPT ![q] = nextpid]
    /\ state' = [state EXCEPT ![q] = "USED"]
    /\ np' = [np EXCEPT ![p] = q]
    /\ Goto(p, "fork_parent")
    /\ UNCHANGED <<parent, killed, chan, waitlock, meant>>

\* kalloc() or uvmcopy() fails: freeproc(np), and fork() returns -1.
AllocFails(p, q) ==
    /\ Syscall(p) /\ state[q] = "UNUSED" /\ nextpid <= MAXPID
    /\ nextpid' = nextpid + 1
    /\ killed' = [killed EXCEPT ![q] = FALSE]
    /\ UNCHANGED <<state, pid, parent, chan, waitlock, pc, np, meant>>

ForkParent(p) ==
    /\ At(p, "fork_parent") /\ waitlock = None
    /\ parent' = [parent EXCEPT ![np[p]] = p]
    /\ Goto(p, "fork_runnable")
    /\ UNCHANGED <<state, pid, killed, chan, nextpid, waitlock, np, meant>>

\* The child starts in user space, where it returns from fork() with 0.
ForkRunnable(p) ==
    /\ At(p, "fork_runnable")
    /\ state' = [state EXCEPT ![np[p]] = "RUNNABLE"]
    /\ pc' = [pc EXCEPT ![p] = "user", ![np[p]] = "user"]
    /\ np' = [np EXCEPT ![p] = None]
    /\ UNCHANGED <<pid, parent, killed, chan, nextpid, waitlock, meant>>
-----------------------------------------------------------------------------
(* exit(): by the program itself, or by usertrap() because p is killed.    *)

Exit(p) ==
    /\ At(p, "user")
    /\ Goto(p, IF p = initproc THEN "panic" ELSE "exit")    \* "init exiting"
    /\ UNCHANGED <<state, pid, parent, killed, chan, nextpid, waitlock, np, meant>>

\* reparent(p): pp->parent = initproc for each child.
Reparent(p) == [q \in Proc |-> IF q \in Kids(p) THEN initproc ELSE parent[q]]

\* acquire(&wait_lock); reparent(p), which wakes init for every child it
\* gets; wakeup(p->parent).
ExitReparent(p) ==
    /\ At(p, "exit") /\ waitlock = None
    /\ waitlock' = p
    /\ parent' = Reparent(p)
    /\ state' = Woken({parent[p]} \cup {initproc : q \in Kids(p)})
    /\ Goto(p, "exit_zombie")
    /\ UNCHANGED <<pid, killed, chan, nextpid, np, meant>>

\* acquire(&p->lock); p->state = ZOMBIE; release(&wait_lock).
ExitZombie(p) ==
    /\ At(p, "exit_zombie")
    /\ state' = [state EXCEPT ![p] = "ZOMBIE"]
    /\ waitlock' = None
    /\ Goto(p, "exit_sched")
    /\ UNCHANGED <<pid, parent, killed, chan, nextpid, np, meant>>

\* sched(): off p's kernel stack, scheduler() releases p->lock.
ExitSched(p) ==
    /\ pc[p] = "exit_sched"
    /\ Goto(p, "none")
    /\ UNCHANGED <<state, pid, parent, killed, chan, nextpid, waitlock, np, meant>>
-----------------------------------------------------------------------------
(* wait()                                                                  *)

Wait(p) ==
    /\ Syscall(p)
    /\ Goto(p, "wait")
    /\ UNCHANGED <<state, pid, parent, killed, chan, nextpid, waitlock, np, meant>>

\* acquire(&wait_lock), at the start or at the end of sleep().
WaitLock(p) ==
    /\ At(p, "wait") /\ waitlock = None
    /\ waitlock' = p
    /\ chan' = [chan EXCEPT ![p] = "none"]
    /\ Goto(p, "wait_scan")
    /\ UNCHANGED <<state, pid, parent, killed, nextpid, np, meant>>

Zombies(p) == {q \in Kids(p) : state[q] = "ZOMBIE"}

\* Mutant: wait() does not take the lock of the child.
PLockIgnored(q) == TRUE

\* acquire(&pp->lock) succeeds: pp is not still in exit() or swtch().
PLockFree(q) == pc[q] # "exit_sched"

\* Mutant: p->killed is not cleared.
FreeprocKilled(q) ==
    /\ state' = [state EXCEPT ![q] = "UNUSED"]
    /\ pid' = [pid EXCEPT ![q] = 0]
    /\ parent' = [parent EXCEPT ![q] = None]
    /\ chan' = [chan EXCEPT ![q] = "none"]
    /\ UNCHANGED killed

\* freeproc(q) under q->lock.
Freeproc(q) ==
    /\ state' = [state EXCEPT ![q] = "UNUSED"]
    /\ pid' = [pid EXCEPT ![q] = 0]
    /\ parent' = [parent EXCEPT ![q] = None]
    /\ chan' = [chan EXCEPT ![q] = "none"]
    /\ killed' = [killed EXCEPT ![q] = FALSE]

\* The first ZOMBIE child; if copyout() of its status fails it stays one and
\* wait() returns -1.  (init passes no address.)
WaitReap(p) ==
    /\ At(p, "wait_scan") /\ Zombies(p) # {}
    /\ LET q == Min(Zombies(p))
       IN  /\ PLockFree(q)
           /\ \/ Freeproc(q)
              \/ p # initproc /\ UNCHANGED <<state, pid, parent, chan, killed>>
    /\ waitlock' = None
    /\ Goto(p, "user")
    /\ UNCHANGED <<nextpid, np, meant>>

\* The test of killed(p), for itself under p->lock, before sleep() is called.
WaitTest(p) ==
    /\ At(p, "wait_scan") /\ Zombies(p) = {}
    /\ IF Kids(p) = {} \/ killed[p]
       THEN waitlock' = None /\ Goto(p, "user")
       ELSE Goto(p, "wait_sleep") /\ UNCHANGED waitlock
    /\ UNCHANGED <<state, pid, parent, killed, chan, nextpid, np, meant>>

\* sleep(p, &wait_lock)
WaitSleep(p) ==
    /\ At(p, "wait_sleep")
    /\ chan' = [chan EXCEPT ![p] = "wait"]
    /\ state' = [state EXCEPT ![p] = "SLEEPING"]
    /\ waitlock' = None
    /\ Goto(p, "wait")
    /\ UNCHANGED <<pid, parent, killed, nextpid, np, meant>>
-----------------------------------------------------------------------------
(* sys_sleep() and the clock.                                              *)

SysSleep(p) ==
    /\ Syscall(p)
    /\ Goto(p, "ticks")
    /\ UNCHANGED <<state, pid, parent, killed, chan, nextpid, waitlock, np, meant>>

\* The time is over or p is killed, or both tests failed.
TicksTest(p) ==
    /\ At(p, "ticks")
    /\ chan' = [chan EXCEPT ![p] = "none"]
    /\ \/ Goto(p, "user")
       \/ ~killed[p] /\ Goto(p, "ticks_sleep")
    /\ UNCHANGED <<state, pid, parent, killed, nextpid, waitlock, np, meant>>

\* sleep(&ticks, &tickslock)
TicksSleep(p) ==
    /\ At(p, "ticks_sleep")
    /\ chan' = [chan EXCEPT ![p] = "ticks"]
    /\ state' = [state EXCEPT ![p] = "SLEEPING"]
    /\ Goto(p, "ticks")
    /\ UNCHANGED <<pid, parent, killed, nextpid, waitlock, np, meant>>

\* clockintr(): tickslock is held from TicksTest to TicksSleep.
ClockIntr ==
    /\ \A p \in Proc : pc[p] # "ticks_sleep"
    /\ state' = [q \in Proc |-> IF state[q] = "SLEEPING" /\ chan[q] = "ticks"
                                THEN "RUNNABLE" ELSE state[q]]
    /\ UNCHANGED <<pid, parent, killed, chan, nextpid, waitlock, pc, np, meant>>
-----------------------------------------------------------------------------
\* kill(n): the first slot whose pid is n.
Victim(n) == Min({q \in Proc : pid[q] = n})

Kill(p, n) ==
    /\ Syscall(p) /\ \E q \in Proc : pid[q] = n
    /\ PLockFree(Victim(n))
    /\ killed' = [killed EXCEPT ![Victim(n)] = TRUE]
    /\ state' = [state EXCEPT ![Victim(n)] = IF @ = "SLEEPING" THEN "RUNNABLE" ELSE @]
    /\ meant' = meant \cup {n}
    /\ UNCHANGED <<pid, parent, chan, nextpid, waitlock, pc, np>>

\* usertrap(): setkilled(p) after an exception.
Setkilled(p) ==
    /\ At(p, "user") /\ p # initproc
    /\ killed' = [killed EXCEPT ![p] = TRUE]
    /\ meant' = meant \cup {pid[p]}
    /\ UNCHANGED <<state, pid, parent, chan, nextpid, waitlock, pc, np>>

ForkStep(p) == ForkParent(p) \/ ForkRunnable(p)
ExitStep(p) == ExitReparent(p) \/ ExitZombie(p) \/ ExitSched(p)
WaitStep(p) == WaitLock(p) \/ WaitReap(p) \/ WaitTest(p) \/ WaitSleep(p)
TicksStep(p) == TicksTest(p) \/ TicksSleep(p)
KernelStep(p) ==
    \/ ForkStep(p) \/ ExitStep(p) \/ WaitStep(p) \/ TicksStep(p)
    \/ killed[p] /\ Exit(p)

UserStep(p) ==
    \/ \E q \in Proc : AllocProc(p, q) \/ AllocFails(p, q)
    \/ Exit(p) \/ Wait(p) \/ SysSleep(p) \/ Setkilled(p)
    \/ \E n \in KILLARGS : Kill(p, n)

Next == ClockIntr \/ \E p \in Proc : KernelStep(p) \/ UserStep(p)

Spec == Init /\ [][Next]_vars

\* The kernel code of every process is run, contended locks are obtained, the
\* clock ticks and the time of a sys_sleep() ends, and init, which calls
\* wait() again and again, does not exit (user/init.c does so only when its
\* own fork() or wait() fails).
FairSpec ==
    /\ Init /\ [][Next /\ pc'[initproc] # "panic"]_vars
    /\ WF_vars(ClockIntr)
    /\ \A p \in Proc : /\ SF_vars(KernelStep(p))
                       /\ SF_vars(TicksTest(p) /\ pc'[p] = "user")
    /\ SF_vars(Wait(initproc))
-----------------------------------------------------------------------------
Label == {"none", "user", "panic", "fork_parent", "fork_runnable", "exit",
          "exit_zombie", "exit_sched", "wait", "wait_scan", "wait_sleep",
          "ticks", "ticks_sleep"}

Live(p) == state[p] \in {"RUNNABLE", "SLEEPING"}

\* The type of every variable; the first invariant below includes it.
TypeOK ==
    /\ state \in [Proc -> {"UNUSED", "USED", "RUNNABLE", "SLEEPING", "ZOMBIE"}]
    /\ pid \in [Proc -> 0..MAXPID] /\ nextpid \in 2..(MAXPID + 1)
    /\ parent \in [Proc -> Proc \cup {None}] /\ np \in [Proc -> Proc \cup {None}]
    /\ killed \in [Proc -> BOOLEAN]
    /\ chan \in [Proc -> {"none", "wait", "ticks"}]
    /\ waitlock \in Proc \cup {None}
    /\ pc \in [Proc -> Label]
    /\ meant \subseteq KILLARGS \cup 0..MAXPID

\* "make sure the child isn't still in exit() or swtch()" (proc.c:434): a
\* slot is freed only when its process has left its kernel stack.
FreedIsOffCpu == TypeOK /\ \A q \in Proc : state[q] = "UNUSED" => pc[q] = "none"

\* "Kill the process with the given pid." (proc.c:715): a process is marked
\* killed only if its own pid was given to kill(), or it faulted; or if kill(0)
\* was called, which marks a free slot, and so the next process in it.
KillHitsPid == \A q \in Proc : Live(q) /\ killed[q] => {0, pid[q]} \cap meant # {}

InitReaps(r) == state[r] = "ZOMBIE" /\ parent[r] = initproc /\ state'[r] = "UNUSED"

\* A process abandoned by its parent (reparent()) is reaped by init's wait(),
\* which takes the first ZOMBIE in table order: unless it frees slots before
\* this one for ever, which needs forks that never stop.
OrphanReaped ==
    \A q \in Proc : <>[](state[q] = "ZOMBIE" /\ parent[q] = initproc) =>
                        []<><<\E r \in Proc : r < q /\ InitReaps(r)>>_vars

\* A killed process without children exits, wherever kill() found it.
KilledChildlessExits == \A q \in Proc : Live(q) /\ killed[q] /\ Kids(q) = {} ~> ~Live(q)
=============================================================================
