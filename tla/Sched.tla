-------------------------------- MODULE Sched --------------------------------
(***************************************************************************)
(* How a CPU moves between user programs, the kernel threads of processes, *)
(* scheduler() and the handlers of interrupts: kernel/trap.c, main.c,      *)
(* scheduler(), sched(), yield(), sleep(), wakeup() and kill() of proc.c,  *)
(* with p->lock and tickslock explicit.                                    *)
(*                                                                         *)
(* A thread is a process, on its kernel stack or in user space, or the     *)
(* scheduler() of a CPU, named by the CPU.  An interrupt is handled on the *)
(* stack of the thread it interrupts.  Processes call sys_sleep() for one  *)
(* tick, kill() each other, make calls that do not wait, and compute.      *)
(***************************************************************************)
EXTENDS Hart, FiniteSets, Sequences

CONSTANTS NPROC,     \* param.h: entries of the process table
          Cpu, NoCpu,
          Cpu0       \* the CPU with cpuid() 0

ASSUME SchedAssumption == /\ NPROC \in Nat \ {0} /\ NoCpu \notin Cpu /\ Cpu0 \in Cpu
                          /\ Cpu \cap 0..NPROC = {}      \* the name of a CPU is no process

Proc == 1..NPROC
NoProc == 0
Thread == Proc \cup Cpu

VARIABLES started,
          state, chan,     \* p->state; is p->chan &ticks (or 0)?
          plock, lk,       \* the CPU that holds p->lock, tickslock
          proc,            \* c->proc
          stack,           \* the thread whose stack a CPU runs on
          sp,              \* p of scheduler()
          pc,              \* where a thread is, or will resume
          hart,
          epc,             \* p->trapframe->epc
          intena,          \* sched()'s local variable
          frame,           \* kerneltrap()'s local variables
          todo,            \* wakeup()'s loop in clockintr()
          elapsed,         \* has a tick come since sys_sleep() took ticks0?
          back,            \* where the traps of a thread must return to, the innermost last
          panic

procs == <<state, chan>>
locks == <<plock, lk>>
cpus == <<proc, stack, sp>>
traps == <<epc, frame, back, panic>>
clock == <<started, todo, elapsed>>
vars == <<procs, locks, cpus, traps, clock, pc, hart, intena>>

NoFrame == [sepc |-> Nowhere, spie |-> FALSE, spp |-> "U"]

Init ==
    /\ started = FALSE
    /\ state = [p \in Proc |-> "RUNNABLE"] /\ chan = [p \in Proc |-> FALSE]
    /\ plock = [p \in Proc |-> NoCpu] /\ lk = NoCpu
    /\ proc = [c \in Cpu |-> NoProc] /\ stack = [c \in Cpu |-> c] /\ sp = [c \in Cpu |-> 1]
    /\ pc = [t \in Thread |-> IF t \in Cpu THEN "main" ELSE "forkret"]
    /\ hart = [c \in Cpu |-> StartHart]
    /\ epc = [p \in Proc |-> <<p, "user">>] /\ back = [t \in Thread |-> IF t \in Cpu THEN <<>> ELSE <<<<t, "user">>>>]
    /\ intena = [p \in Proc |-> FALSE]
    /\ frame = [t \in Thread |-> NoFrame]
    /\ todo = {} /\ elapsed = [p \in Proc |-> "unset"] /\ panic = ""

Front(s) == SubSeq(s, 1, Len(s) - 1)
Last(s) == s[Len(s)]

\* CPU c runs thread t, which is at l.
At(c, t, l) == panic = "" /\ stack[c] = t /\ pc[t] = l
Goto(t, l) == pc' = [pc EXCEPT ![t] = l]
SetHart(c, h) == hart' = [hart EXCEPT ![c] = h]
-----------------------------------------------------------------------------
(* main() and scheduler() on CPU c.                                        *)

\* CPU 0 initialises the kernel; the others wait.  trapinithart() sets stvec.
Boot(c) ==
    /\ At(c, c, "main") /\ (c = Cpu0 \/ started)
    /\ started' = TRUE
    /\ SetHart(c, intr_on(w_stvec(hart[c], "kernelvec")))
    /\ Goto(c, "scan")
    /\ UNCHANGED <<procs, locks, cpus, traps, intena, todo, elapsed>>

\* acquire(&p->lock): push_off(), then the loop that spins.
SchedPushOff(c) ==
    /\ At(c, c, "scan") /\ Goto(c, "spin")
    /\ SetHart(c, push_off(hart[c]))
    /\ UNCHANGED <<procs, locks, cpus, traps, clock, intena>>

\* Mutant: scheduler() does not look at p->state.
RunsAny(p) == TRUE
Runs(p) == state[p] = "RUNNABLE"

\* The lock is free: p->state = RUNNING; c->proc = p; swtch(&c->context, &p->context).
SchedRun(c) ==
    LET p == sp[c] IN
    /\ At(c, c, "spin") /\ plock[p] = NoCpu /\ Runs(p) /\ Goto(c, "swtched")
    /\ plock' = [plock EXCEPT ![p] = c]
    /\ state' = [state EXCEPT ![p] = "RUNNING"]
    /\ proc' = [proc EXCEPT ![c] = p] /\ stack' = [stack EXCEPT ![c] = p]
    /\ UNCHANGED <<traps, clock, chan, lk, sp, hart, intena>>

\* Mutant: scheduler() leaves interrupts as they are.
LoopTopAsFound(h, p) == h

\* The head of the for(;;): intr_on().
LoopTop(h, p) == IF p = NPROC THEN intr_on(h) ELSE h

\* Not RUNNABLE, or back from the thread: c->proc = 0; release(&p->lock); p++.
SchedRelease(c) ==
    LET p == sp[c] IN
    /\ \/ At(c, c, "swtched")
       \/ At(c, c, "spin") /\ plock[p] = NoCpu /\ ~Runs(p)
    /\ proc' = [proc EXCEPT ![c] = NoProc]
    /\ plock' = [plock EXCEPT ![p] = NoCpu] /\ SetHart(c, LoopTop(pop_off(hart[c]), p))
    /\ sp' = [sp EXCEPT ![c] = (p % NPROC) + 1] /\ Goto(c, "scan")
    /\ UNCHANGED <<procs, traps, clock, lk, stack, intena>>
-----------------------------------------------------------------------------
(* Traps.                                                                  *)

Mode(t) == IF pc[t] = "user" THEN "U" ELSE "S"

\* After clockintr() returns: a process yields.
Handled(c, t) == IF proc[c] # NoProc THEN "yield" ELSE "kret"

\* devintr() for the timer: clockintr() updates ticks on CPU 0.
devintr(c, t) == IF c = Cpu0 THEN "tick" ELSE Handled(c, t)

\* usertrap() up to syscall() or clockintr(): stvec, trapframe->epc.  A system
\* call returns to the instruction after the ecall, and runs with interrupts on.
usertrap(c, p, h, why) ==
    /\ panic' = IF h.spp = "S" THEN "usertrap: not from user mode" ELSE ""
    /\ epc' = [epc EXCEPT ![p] = IF why = "ecall" THEN <<p, "user+4">> ELSE h.sepc]
    /\ SetHart(c, LET k == w_stvec(Saved(h), "kernelvec") IN IF why = "ecall" THEN intr_on(k) ELSE k)
    /\ Goto(p, IF why = "ecall" THEN "syscall" ELSE devintr(c, p))
    /\ UNCHANGED frame

kerneltrap(c, t, h) ==
    /\ panic' = IF h.spp = "U" THEN "kerneltrap: not from supervisor mode"
                ELSE IF h.sie THEN "kerneltrap: interrupts enabled" ELSE ""
    /\ frame' = [frame EXCEPT ![t] = [sepc |-> h.sepc, spie |-> h.spie, spp |-> h.spp]]
    /\ SetHart(c, Saved(h)) /\ Goto(t, devintr(c, t))
    /\ UNCHANGED epc

\* A trap on CPU c, through the vector in stvec: the ecall of a program, or the
\* timer where interrupts are enabled.
Trap(c, why) ==
    LET t == stack[c]
        h == TrapEntry(hart[c], Mode(t), <<t, pc[t]>>)
    IN  /\ panic = ""
        /\ IF why = "ecall" THEN Mode(t) = "U" ELSE Mode(t) = "U" \/ hart[c].sie
        /\ back' = [back EXCEPT ![t] = Append(@, <<t, IF why = "ecall" THEN "user+4" ELSE pc[t]>>)]
        /\ IF hart[c].stvec = "uservec" THEN usertrap(c, t, h, why) ELSE kerneltrap(c, t, h)
        /\ UNCHANGED <<procs, locks, cpus, clock, intena>>

Ecall(c) == Trap(c, "ecall")
TimerInterrupt(c) == Trap(c, "timer")

\* clockintr(): acquire(&tickslock); ticks++; wakeup(&ticks) ...
ClockAcquire(c, t) ==
    /\ At(c, t, "tick") /\ lk = NoCpu /\ Goto(t, "wakeup")
    /\ lk' = c /\ SetHart(c, push_off(hart[c]))
    /\ elapsed' = [p \in Proc |-> IF elapsed[p] = "no" THEN "yes" ELSE elapsed[p]]
    /\ todo' = Proc \ {proc[c]}                    \* p != myproc()
    /\ UNCHANGED <<procs, cpus, traps, plock, intena, started>>

Least(S) == CHOOSE p \in S : \A q \in S : p <= q

\* Mutant: wakeup() looks at p->state without p->lock.
WakeupUnlocked(c, t, p) ==
    /\ At(c, t, "wakeup") /\ todo # {} /\ p = Least(todo)
    /\ state' = [state EXCEPT ![p] = IF @ = "SLEEPING" /\ chan[p] THEN "RUNNABLE" ELSE @]
    /\ todo' = todo \ {p}
    /\ UNCHANGED <<locks, cpus, traps, chan, pc, hart, intena, started, elapsed>>

\* One round of the loop of wakeup(), under p->lock.
Wakeup(c, t, p) ==
    /\ At(c, t, "wakeup") /\ todo # {} /\ p = Least(todo) /\ plock[p] = NoCpu
    /\ state' = [state EXCEPT ![p] = IF @ = "SLEEPING" /\ chan[p] THEN "RUNNABLE" ELSE @]
    /\ todo' = todo \ {p}
    /\ UNCHANGED <<locks, cpus, traps, chan, pc, hart, intena, started, elapsed>>

ClockRelease(c, t) ==
    /\ At(c, t, "wakeup") /\ todo = {} /\ Goto(t, Handled(c, t))
    /\ lk' = NoCpu /\ SetHart(c, pop_off(hart[c]))
    /\ UNCHANGED <<procs, cpus, traps, clock, plock, intena>>

\* The end of kerneltrap() and kernelvec: w_sepc(sepc), w_sstatus(sstatus), sret.
KernelReturn(c, t) ==
    LET h == [hart[c] EXCEPT !.sepc = frame[t].sepc, !.spie = frame[t].spie, !.spp = frame[t].spp]
    IN  /\ At(c, t, "kret") /\ Goto(t, h.sepc[2])
        /\ SetHart(c, sret(h))
        /\ frame' = [frame EXCEPT ![t] = NoFrame]
        /\ back' = [back EXCEPT ![t] = Front(@)]
        /\ UNCHANGED <<procs, locks, cpus, clock, epc, panic, intena>>

\* usertrapret(): intr_off(), stvec, then sstatus and sepc for the sret in userret.
Usertrapret(c, p) ==
    /\ At(c, p, "ret") /\ Goto(p, "sret")
    /\ SetHart(c, [w_stvec(intr_off(hart[c]), "uservec") EXCEPT
                     !.spp = "U", !.spie = TRUE, !.sepc = epc[p]])
    /\ UNCHANGED <<procs, locks, cpus, traps, clock, intena>>

Userret(c, p) ==
    /\ At(c, p, "sret") /\ Goto(p, "user")
    /\ SetHart(c, sret(hart[c]))
    /\ back' = [back EXCEPT ![p] = Front(@)]
    /\ epc' = [epc EXCEPT ![p] = <<p, "user">>]
    /\ UNCHANGED <<procs, locks, cpus, clock, intena, frame, panic>>
-----------------------------------------------------------------------------
(* System calls and switches of process p on CPU c.                        *)

\* The first thing a new process does: release(&p->lock), then usertrapret().
Forkret(c, p) ==
    /\ At(c, p, "forkret") /\ Goto(p, "ret")
    /\ plock' = [plock EXCEPT ![p] = NoCpu] /\ SetHart(c, pop_off(hart[c]))
    /\ UNCHANGED <<procs, cpus, traps, clock, lk, intena>>

\* syscall() of a call that does not wait.
Syscall(c, p) ==
    /\ At(c, p, "syscall") /\ Goto(p, "ret")
    /\ UNCHANGED <<procs, locks, cpus, traps, clock, hart, intena>>

\* kill(q): under q->lock a sleeping victim becomes RUNNABLE.  (What it does
\* then is in module Proc; here it finds its tick missing and sleeps again.)
Kill(c, p, q) ==
    /\ At(c, p, "syscall") /\ plock[q] = NoCpu /\ state[q] = "SLEEPING" /\ Goto(p, "ret")
    /\ state' = [state EXCEPT ![q] = "RUNNABLE"]
    /\ UNCHANGED <<locks, cpus, traps, clock, chan, hart, intena>>

\* acquire(&tickslock), in sys_sleep() and again at the end of sleep().
LockPushOff(c, p) ==
    /\ (At(c, p, "syscall") \/ At(c, p, "slept_on")) /\ Goto(p, "spin")
    /\ SetHart(c, push_off(hart[c]))
    /\ UNCHANGED <<procs, locks, cpus, traps, clock, intena>>

\* ... then ticks0 = ticks the first time; while(ticks - ticks0 < n) sleep().
LockSwap(c, p) ==
    /\ At(c, p, "spin") /\ lk = NoCpu
    /\ IF elapsed[p] = "yes"
       THEN /\ Goto(p, "ret") /\ SetHart(c, pop_off(hart[c]))
            /\ elapsed' = [elapsed EXCEPT ![p] = "unset"] /\ UNCHANGED lk
       ELSE /\ Goto(p, "sleep") /\ lk' = c
            /\ elapsed' = [elapsed EXCEPT ![p] = "no"] /\ UNCHANGED hart
    /\ UNCHANGED <<procs, cpus, traps, plock, started, todo, intena>>

\* sleep(): acquire(&p->lock), then release(lk).
SleepLock(c, p) ==
    /\ At(c, p, "sleep") /\ plock[p] = NoCpu /\ Goto(p, "sleep_unlock")
    /\ plock' = [plock EXCEPT ![p] = c] /\ SetHart(c, push_off(hart[c]))
    /\ UNCHANGED <<procs, cpus, traps, clock, lk, intena>>

SleepUnlock(c, p) ==
    /\ At(c, p, "sleep_unlock") /\ Goto(p, "sleep_state")
    /\ lk' = NoCpu /\ SetHart(c, pop_off(hart[c]))
    /\ UNCHANGED <<procs, cpus, traps, clock, plock, intena>>

\* yield(): acquire(&p->lock); p->state = RUNNABLE.
Yield(c, p) ==
    /\ At(c, p, "yield") /\ plock[p] = NoCpu /\ Goto(p, "yield_sched")
    /\ plock' = [plock EXCEPT ![p] = c] /\ SetHart(c, push_off(hart[c]))
    /\ state' = [state EXCEPT ![p] = "RUNNABLE"]
    /\ UNCHANGED <<cpus, traps, clock, chan, lk, intena>>

\* sched(): its tests, then swtch(&p->context, &mycpu()->context).  Before it
\* sleep() has set p->chan and p->state.
Sched(c, p) ==
    LET h == hart[c] IN
    /\ \/ /\ At(c, p, "sleep_state") /\ Goto(p, "slept")
          /\ chan' = [chan EXCEPT ![p] = TRUE] /\ state' = [state EXCEPT ![p] = "SLEEPING"]
       \/ At(c, p, "yield_sched") /\ Goto(p, "yielded") /\ UNCHANGED procs
    /\ panic' = IF plock[p] # c THEN "sched p->lock" ELSE IF h.noff # 1 THEN "sched locks"
                ELSE IF state'[p] = "RUNNING" THEN "sched running"
                ELSE IF h.sie THEN "sched interruptible" ELSE ""
    /\ intena' = [intena EXCEPT ![p] = h.intena]
    /\ stack' = [stack EXCEPT ![c] = c]
    /\ UNCHANGED <<locks, clock, proc, sp, epc, frame, back, hart>>

\* Mutant: sched() does not put intena back.
ResumedAsFound(c, p) == hart[c]

\* Back from sched(), which restores intena: release(&p->lock).
Resumed(c, p) == [hart[c] EXCEPT !.intena = intena[p]]

Resume(c, p) ==
    /\ \/ At(c, p, "slept") /\ Goto(p, "slept_on")
       \/ At(c, p, "yielded") /\ Goto(p, IF frame[p] = NoFrame THEN "ret" ELSE "kret")
    /\ SetHart(c, pop_off(Resumed(c, p)))
    /\ plock' = [plock EXCEPT ![p] = NoCpu]
    /\ chan' = [chan EXCEPT ![p] = FALSE]
    /\ intena' = [intena EXCEPT ![p] = FALSE]
    /\ UNCHANGED <<cpus, traps, clock, state, lk>>
-----------------------------------------------------------------------------
Scheduler(c) == Boot(c) \/ SchedPushOff(c) \/ SchedRun(c) \/ SchedRelease(c)
Handler(c, t) == \/ ClockAcquire(c, t) \/ ClockRelease(c, t) \/ KernelReturn(c, t)
                 \/ \E p \in Proc : Wakeup(c, t, p)
Process(c, p) == \/ Forkret(c, p) \/ Syscall(c, p) \/ LockSwap(c, p)
                 \/ SleepLock(c, p) \/ SleepUnlock(c, p) \/ Yield(c, p) \/ Sched(c, p) \/ Resume(c, p)
                 \/ Usertrapret(c, p) \/ Userret(c, p)
OnStack(c) == \/ \E t \in Thread : Handler(c, t)
              \/ \E p \in Proc : Process(c, p) \/ LockPushOff(c, p)

Next == \E c \in Cpu : \/ Scheduler(c) \/ OnStack(c) \/ Ecall(c) \/ TimerInterrupt(c)
                       \/ \E p, q \in Proc : Kill(c, p, q)

Spec == Init /\ [][Next]_vars

\* CPUs keep running: a thread that is interrupted again and again still gets
\* on, and one that spins on a lock that is free again and again gets it.  The
\* timer keeps interrupting: clockintr() asks for the next interrupt each time.
FairSpec ==
    /\ Spec
    /\ \A c \in Cpu : SF_vars(Scheduler(c)) /\ SF_vars(OnStack(c)) /\ SF_vars(TimerInterrupt(c))
-----------------------------------------------------------------------------
Label == {"main", "scan", "swtched", "forkret", "user", "syscall", "spin", "sleep",
          "sleep_unlock", "sleep_state", "slept", "slept_on", "tick", "wakeup", "yield",
          "yield_sched", "yielded", "kret", "ret", "sret"}

\* The type of every variable; the first invariant below includes it.
TypeOK ==
    /\ started \in BOOLEAN /\ state \in [Proc -> {"SLEEPING", "RUNNABLE", "RUNNING"}]
    /\ chan \in [Proc -> BOOLEAN] /\ intena \in [Proc -> BOOLEAN]
    /\ plock \in [Proc -> Cpu \cup {NoCpu}] /\ lk \in Cpu \cup {NoCpu}
    /\ proc \in [Cpu -> Proc \cup {NoProc}] /\ stack \in [Cpu -> Thread] /\ sp \in [Cpu -> Proc]
    /\ pc \in [Thread -> Label] /\ todo \subseteq Proc
    /\ elapsed \in [Proc -> {"unset", "no", "yes"}]
    /\ \A c \in Cpu : hart[c].stvec \in {"none", "uservec", "kernelvec"} /\ hart[c].noff \in 0..2

Held(c) == (IF \E p \in Proc : plock[p] = c THEN 1 ELSE 0) + (IF lk = c THEN 1 ELSE 0)

\* A CPU holds at most one p->lock, its noff counts the spin-locks it holds or
\* spins for, and while it is not 0 interrupts are off; so code that spins,
\* handlers included, never waits for a lock that this CPU holds.
LocksMaskIntr ==
    \A c \in Cpu :
      LET t == stack[c] IN
      /\ \A p, q \in Proc : plock[p] = c /\ plock[q] = c => p = q
      /\ hart[c].noff = Held(c) + (IF pc[t] = "spin" THEN 1 ELSE 0)
      /\ hart[c].sie => hart[c].noff = 0
      /\ pc[t] = "tick" \/ (pc[t] = "spin" /\ t \in Proc) => lk # c
      /\ pc[t] \in {"sleep", "yield"} => plock[t] # c
      /\ pc[t] = "spin" /\ t \in Cpu => plock[sp[c]] # c

\* proc.c, sched() and scheduler(): p->lock is held from before p->state
\* changes until swtch() has left p's stack, so no kernel stack is ever used
\* by two CPUs, and a CPU on p's stack has p as its c->proc.  push_off() and
\* pop_off() of spinlock.c keep interrupts off meanwhile (LocksMaskIntr).
OneStack ==
    /\ TypeOK /\ LocksMaskIntr
    /\ \A c, d \in Cpu : c # d => stack[c] # stack[d]
    /\ \A c \in Cpu : proc[c] = (IF stack[c] \in Proc THEN stack[c] ELSE
                                 IF pc[c] = "swtched" THEN proc[c] ELSE NoProc)

\* sleep() and wakeup() (proc.c:668-713): with tickslock free, no thread is
\* asleep on &ticks whose tick has come: no wakeup was lost in the window
\* between release(lk) and p->state = SLEEPING.
NoLostWakeup ==
    lk = NoCpu => \A p \in Proc : ~(elapsed[p] = "yes" /\ state[p] = "SLEEPING" /\ chan[p])

\* trap.c: whatever a thread's traps, yields and moves between CPUs, it goes on
\* where each trap took it, with interrupts on, at most one trap inside another
\* (which kernel stacks have room for); and none of the panics of trap.c and
\* sched() happens.
TrapTransparent ==
    /\ [](panic = "")
    /\ [](\A c \in Cpu : pc[stack[c]] = "sret" =>
            /\ hart[c].sepc = Last(back[stack[c]]) /\ Len(back[stack[c]]) = 1
            /\ hart[c].stvec = "uservec" /\ hart[c].spp = "U" /\ hart[c].spie)
    /\ [](\A t \in Thread : Len(back[t]) <= IF t \in Cpu THEN 1 ELSE 2)
    /\ [][\A c \in Cpu : LET t == stack[c] IN pc[t] = "kret" /\ pc'[t] # "kret" =>
            <<t, pc'[t]>> = Last(back[t]) /\ hart'[c].sie /\ hart'[c].stvec = "kernelvec"]_vars

\* A process that sleeps for a tick, or waits for a CPU, eventually runs.
SleeperRuns == \A p \in Proc : state[p] # "RUNNING" ~> state[p] = "RUNNING"
=============================================================================
