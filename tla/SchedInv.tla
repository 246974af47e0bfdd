----------------------------- MODULE SchedInv --------------------------------
(***************************************************************************)
(* The inductive invariant of Sched, and the ways in which one of its      *)
(* steps changes the state.  SchedKeeps proves that each way keeps the     *)
(* invariant, SchedProofs that every step is one of them.                  *)
(***************************************************************************)
EXTENDS Sched

-----------------------------------------------------------------------------
(* The inductive invariant.                                                *)

CpuLabel == {"main", "scan", "spin", "swtched", "tick", "wakeup", "kret"}
ProcLabel == Label \ {"main", "scan", "swtched"}

\* Where a thread holds its own p->lock, where tickslock, where both.
HoldsP == {"forkret", "slept", "yielded", "sleep_unlock", "sleep_state", "yield_sched"}
HoldsTicks == {"wakeup", "sleep", "sleep_unlock"}
Noff(l) == IF l = "sleep_unlock" THEN 2
           ELSE IF l \in HoldsP \cup HoldsTicks \cup {"spin", "swtched"} THEN 1 ELSE 0

\* Where interrupts may be enabled, and where they are.
Open == {"scan", "user", "syscall", "slept_on", "ret"}
Enabled == {"user", "syscall", "slept_on"}

\* Inside the handler of an interrupt.
InHandler == {"tick", "wakeup", "yield", "yield_sched", "yielded", "kret"}

Addr == {Nowhere} \cup (Thread \X (Label \cup {"user+4"}))
HartType == [sie : BOOLEAN, spie : BOOLEAN, spp : {"U", "S"}, sepc : Addr,
             stvec : {"none", "uservec", "kernelvec"}, noff : Int, intena : BOOLEAN]
FrameType == [sepc : Addr, spie : BOOLEAN, spp : {"U", "S"}]

\* Types.
RunType ==
    /\ started \in BOOLEAN /\ state \in [Proc -> {"SLEEPING", "RUNNABLE", "RUNNING"}]
    /\ chan \in [Proc -> BOOLEAN] /\ intena \in [Proc -> BOOLEAN]
    /\ plock \in [Proc -> Cpu \cup {NoCpu}] /\ lk \in Cpu \cup {NoCpu}
    /\ proc \in [Cpu -> Proc \cup {NoProc}] /\ stack \in [Cpu -> Thread] /\ sp \in [Cpu -> Proc]
    /\ pc \in [Thread -> Label] /\ todo \subseteq Proc
    /\ elapsed \in [Proc -> {"unset", "no", "yes"}]
TrapType == hart \in [Cpu -> HartType] /\ frame \in [Thread -> FrameType] /\ epc \in [Proc -> Addr]

LabelInv ==
    /\ \A c \in Cpu : pc[c] \in CpuLabel
    /\ \A p \in Proc : pc[p] \in ProcLabel

\* A CPU is on its own stack, or on that of the process its scheduler() chose.
StackInv ==
    /\ \A c \in Cpu : \/ stack[c] = c /\ (pc[c] # "swtched" => proc[c] = NoProc)
                      \/ stack[c] \in Proc /\ pc[c] = "swtched" /\ sp[c] = stack[c] /\ proc[c] = stack[c]
    /\ \A c, d \in Cpu : stack[c] = stack[d] => c = d

\* What p->state says.
StateInv ==
    \A p \in Proc :
        /\ (\A c \in Cpu : stack[c] # p) => state[p] # "RUNNING" /\ pc[p] \in {"forkret", "slept", "yielded"}
        /\ \A c \in Cpu : stack[c] = p => state[p] = IF pc[p] = "yield_sched" THEN "RUNNABLE" ELSE "RUNNING"
        /\ state[p] = "SLEEPING" => chan[p]

\* Who holds a lock.
LockInv ==
    /\ \A c \in Cpu, p \in Proc :
          plock[p] = c <=> \/ stack[c] = p /\ pc[p] \in HoldsP
                           \/ stack[c] = c /\ pc[c] = "swtched" /\ sp[c] = p
    /\ \A c \in Cpu : lk = c <=> pc[stack[c]] \in HoldsTicks

\* The registers h of a CPU that runs thread t at l, as far as that place
\* determines them, for the saved user addresses e.
HartOk(h, t, l, e) ==
    /\ h.noff = Noff(l)
    /\ h.sie => l \in Open
    /\ l \in Enabled => h.sie
    /\ h.stvec = IF l = "main" THEN "none" ELSE IF l \in {"user", "sret"} THEN "uservec" ELSE "kernelvec"
    /\ l \in {"wakeup", "yield_sched"} => ~h.intena
    /\ t \in Proc /\ l \in {"spin", "sleep", "sleep_unlock", "sleep_state"} => h.intena
    /\ l = "sret" => h.sepc = e[t] /\ h.spp = "U" /\ h.spie
HartInv == \A c \in Cpu : HartOk(hart[c], stack[c], pc[stack[c]], epc)
IntenaInv ==
    \A p \in Proc : (pc[p] = "slept" => intena[p]) /\ (pc[p] = "yielded" => ~intena[p])

\* What the trap that a thread is in has saved.
FrameInv ==
    /\ \A t \in Thread : frame[t] # NoFrame =>
          /\ pc[t] \in InHandler /\ frame[t].spie /\ frame[t].spp = "S"
          /\ \E l \in Open \ {"user"} : frame[t].sepc = <<t, l>> /\ (t \in Cpu <=> l = "scan")
    /\ \A t \in Thread : pc[t] = "kret" \/ (t \in Cpu /\ pc[t] \in InHandler) => frame[t] # NoFrame

\* Where the traps of a thread return to.
Back(t) ==
    IF t \in Proc
    THEN IF pc[t] = "user" THEN <<>>
         ELSE IF frame[t] = NoFrame THEN <<epc[t]>> ELSE <<epc[t], frame[t].sepc>>
    ELSE IF frame[t] = NoFrame THEN <<>> ELSE <<frame[t].sepc>>
BackInv == back = [t \in Thread |-> Back(t)]

\* A sleeper, or one that is about to sleep, whose tick has come is still to be
\* looked at by wakeup().
WakeInv ==
    \A p \in Proc :
        /\ pc[p] \in {"sleep", "sleep_unlock"} => elapsed[p] = "no"
        /\ elapsed[p] = "yes" /\ (pc[p] = "sleep_state" \/ state[p] = "SLEEPING") =>
              p \in todo /\ \E c \in Cpu : pc[stack[c]] = "wakeup"

Inv == /\ RunType /\ TrapType /\ LabelInv /\ StackInv /\ StateInv /\ LockInv /\ HartInv /\ IntenaInv
       /\ FrameInv /\ BackInv /\ WakeInv /\ panic = ""
-----------------------------------------------------------------------------
(* The steps, one for each way through an action, with what a step leaves  *)
(* in the registers said by HartOk.                                        *)

Moves(c, t, l, m) == stack[c] = t /\ pc[t] = l /\ pc' = [pc EXCEPT ![t] = m]
HartTo(c, t, l) == \E k \in HartType : hart' = [hart EXCEPT ![c] = k] /\ HartOk(k, t, l, epc')

\* Boot, SchedPushOff, Usertrapret, Syscall and LockPushOff.
QuietMove(t, l, m) ==
    \/ t \in Cpu /\ \/ l = "main" /\ m = "scan"
                    \/ l = "scan" /\ m = "spin"
    \/ t \in Proc /\ \/ l = "ret" /\ m = "sret"
                     \/ l = "syscall" /\ m \in {"ret", "spin"}
                     \/ l = "slept_on" /\ m = "spin"
Quiet(c, t, l, m) ==
    /\ QuietMove(t, l, m) /\ Moves(c, t, l, m) /\ HartTo(c, t, m)
    /\ started' \in BOOLEAN
    /\ UNCHANGED <<procs, locks, cpus, traps, intena, todo, elapsed>>

\* SchedRun and SchedRelease.
Run(c, p) ==
    /\ Moves(c, c, "spin", "swtched") /\ HartTo(c, p, pc[p])
    /\ p = sp[c] /\ plock[p] = NoCpu /\ state[p] = "RUNNABLE"
    /\ plock' = [plock EXCEPT ![p] = c]
    /\ state' = [state EXCEPT ![p] = "RUNNING"]
    /\ proc' = [proc EXCEPT ![c] = p] /\ stack' = [stack EXCEPT ![c] = p]
    /\ UNCHANGED <<traps, clock, chan, lk, sp, intena>>
Release(c, p) ==
    /\ p = sp[c]
    /\ \/ Moves(c, c, "swtched", "scan")
       \/ Moves(c, c, "spin", "scan") /\ plock[p] = NoCpu
    /\ HartTo(c, c, "scan")
    /\ proc' = [proc EXCEPT ![c] = NoProc]
    /\ plock' = [plock EXCEPT ![p] = NoCpu]
    /\ \E q \in Proc : sp' = [sp EXCEPT ![c] = q]
    /\ UNCHANGED <<procs, traps, clock, lk, stack, intena>>

\* A trap from user space to m, to return to a; a trap from the kernel.
UserTrap(c, p, m, a) ==
    /\ Moves(c, p, "user", m) /\ HartTo(c, p, m)
    /\ \/ m = "syscall" /\ a = <<p, "user+4">>
       \/ m \in {"tick", "yield"} /\ a = <<p, "user">>
    /\ back' = [back EXCEPT ![p] = Append(@, a)]
    /\ epc' = [epc EXCEPT ![p] = a]
    /\ UNCHANGED <<procs, locks, cpus, clock, intena, frame, panic>>
KernelTrap(c, t, l, m) ==
    /\ Moves(c, t, l, m) /\ HartTo(c, t, m)
    /\ l \in Open \ {"user"} /\ (t \in Cpu <=> l = "scan")
    /\ m = "tick" \/ m = IF t \in Proc THEN "yield" ELSE "kret"
    /\ back' = [back EXCEPT ![t] = Append(@, <<t, l>>)]
    /\ frame' = [frame EXCEPT ![t] = [sepc |-> <<t, l>>, spie |-> TRUE, spp |-> "S"]]
    /\ UNCHANGED <<procs, locks, cpus, clock, intena, epc, panic>>

\* clockintr()
ClockBegin(c, t) ==
    /\ Moves(c, t, "tick", "wakeup") /\ HartTo(c, t, "wakeup")
    /\ lk = NoCpu /\ lk' = c
    /\ elapsed' = [p \in Proc |-> IF elapsed[p] = "no" THEN "yes" ELSE elapsed[p]]
    /\ todo' = Proc \ {proc[c]}
    /\ UNCHANGED <<procs, cpus, traps, plock, intena, started>>
ClockRound(c, t, p) ==
    /\ stack[c] = t /\ pc[t] = "wakeup" /\ plock[p] = NoCpu
    /\ state' = [state EXCEPT ![p] = IF @ = "SLEEPING" /\ chan[p] THEN "RUNNABLE" ELSE @]
    /\ todo' = todo \ {p}
    /\ UNCHANGED <<locks, cpus, traps, chan, pc, hart, intena, started, elapsed>>
ClockEnd(c, t, m) ==
    /\ Moves(c, t, "wakeup", m) /\ HartTo(c, t, m)
    /\ m = IF t \in Proc THEN "yield" ELSE "kret"
    /\ todo = {} /\ lk' = NoCpu
    /\ UNCHANGED <<procs, cpus, traps, clock, plock, intena>>

\* The returns from traps.
ReturnKernel(c, t, m) ==
    /\ Moves(c, t, "kret", m) /\ HartTo(c, t, m) /\ hart'[c].sie /\ hart'[c].stvec = "kernelvec"
    /\ frame[t].sepc = <<t, m>> /\ m \in Open \ {"user"} /\ (t \in Cpu <=> m = "scan")
    /\ frame' = [frame EXCEPT ![t] = NoFrame]
    /\ back' = [back EXCEPT ![t] = Front(@)]
    /\ UNCHANGED <<procs, locks, cpus, clock, epc, panic, intena>>
ReturnUser(c, p) ==
    /\ Moves(c, p, "sret", "user") /\ HartTo(c, p, "user")
    /\ back' = [back EXCEPT ![p] = Front(@)]
    /\ epc' = [epc EXCEPT ![p] = <<p, "user">>]
    /\ UNCHANGED <<procs, locks, cpus, clock, intena, frame, panic>>

\* Forkret, Kill, and the two ways through LockSwap.
First(c, p) ==
    /\ Moves(c, p, "forkret", "ret") /\ HartTo(c, p, "ret")
    /\ plock' = [plock EXCEPT ![p] = NoCpu]
    /\ UNCHANGED <<procs, cpus, traps, clock, lk, intena>>
Kills(c, p, q) ==
    /\ Moves(c, p, "syscall", "ret") /\ HartTo(c, p, "ret")
    /\ plock[q] = NoCpu /\ state[q] = "SLEEPING"
    /\ state' = [state EXCEPT ![q] = "RUNNABLE"]
    /\ UNCHANGED <<locks, cpus, traps, clock, chan, intena>>
TickCame(c, p) ==
    /\ Moves(c, p, "spin", "ret") /\ HartTo(c, p, "ret")
    /\ elapsed' = [elapsed EXCEPT ![p] = "unset"]
    /\ UNCHANGED <<procs, locks, cpus, traps, started, todo, intena>>
NoTick(c, p) ==
    /\ Moves(c, p, "spin", "sleep") /\ HartTo(c, p, "sleep")
    /\ lk = NoCpu /\ lk' = c
    /\ elapsed' = [elapsed EXCEPT ![p] = "no"]
    /\ UNCHANGED <<procs, cpus, traps, plock, started, todo, intena>>

\* sleep(), yield(), sched()
LockSelf(c, p) ==
    /\ Moves(c, p, "sleep", "sleep_unlock") /\ HartTo(c, p, "sleep_unlock")
    /\ plock[p] = NoCpu /\ plock' = [plock EXCEPT ![p] = c]
    /\ UNCHANGED <<procs, cpus, traps, clock, lk, intena>>
UnlockTicks(c, p) ==
    /\ Moves(c, p, "sleep_unlock", "sleep_state") /\ HartTo(c, p, "sleep_state")
    /\ lk' = NoCpu
    /\ UNCHANGED <<procs, cpus, traps, clock, plock, intena>>
Yields(c, p) ==
    /\ Moves(c, p, "yield", "yield_sched") /\ HartTo(c, p, "yield_sched")
    /\ plock[p] = NoCpu /\ plock' = [plock EXCEPT ![p] = c]
    /\ state' = [state EXCEPT ![p] = "RUNNABLE"]
    /\ UNCHANGED <<cpus, traps, clock, chan, lk, intena>>
SwitchOff(c, p, m) ==
    /\ HartTo(c, c, "swtched")
    /\ \/ /\ m = "slept" /\ Moves(c, p, "sleep_state", m)
          /\ chan' = [chan EXCEPT ![p] = TRUE] /\ state' = [state EXCEPT ![p] = "SLEEPING"]
       \/ /\ m = "yielded" /\ Moves(c, p, "yield_sched", m) /\ UNCHANGED procs
    /\ intena' = [intena EXCEPT ![p] = (m = "slept")]
    /\ stack' = [stack EXCEPT ![c] = c]
    /\ UNCHANGED <<locks, clock, proc, sp, traps>>
SwitchedOn(c, p, m) ==
    /\ HartTo(c, p, m)
    /\ \/ m = "slept_on" /\ Moves(c, p, "slept", m)
       \/ m = "ret" /\ Moves(c, p, "yielded", m) /\ frame[p] = NoFrame
       \/ m = "kret" /\ Moves(c, p, "yielded", m) /\ frame[p] # NoFrame
    /\ plock' = [plock EXCEPT ![p] = NoCpu]
    /\ chan' = [chan EXCEPT ![p] = FALSE]
    /\ intena' = [intena EXCEPT ![p] = FALSE]
    /\ UNCHANGED <<cpus, traps, clock, state, lk>>

Step ==
    \E c \in Cpu :
        \/ \E t \in Thread, l, m \in Label : Quiet(c, t, l, m) \/ KernelTrap(c, t, l, m)
        \/ \E t \in Thread, m \in Label : ClockEnd(c, t, m) \/ ReturnKernel(c, t, m)
        \/ \E t \in Thread : ClockBegin(c, t)
        \/ \E t \in Thread, p \in Proc : ClockRound(c, t, p)
        \/ \E p \in Proc, m \in Label, a \in Addr : UserTrap(c, p, m, a)
        \/ \E p \in Proc : \/ Run(c, p) \/ Release(c, p) \/ ReturnUser(c, p) \/ First(c, p)
                           \/ TickCame(c, p) \/ NoTick(c, p) \/ LockSelf(c, p)
                           \/ UnlockTicks(c, p) \/ Yields(c, p)
        \/ \E p \in Proc, m \in Label : SwitchOff(c, p, m) \/ SwitchedOn(c, p, m)
        \/ \E p, q \in Proc : Kills(c, p, q)

\* A thread that leaves kerneltrap() goes on where its trap took it.
ReturnsRight ==
    \A c \in Cpu : pc[stack[c]] = "kret" /\ pc'[stack[c]] # "kret" =>
        /\ <<stack[c], pc'[stack[c]]>> = Last(back[stack[c]])
        /\ hart'[c].sie /\ hart'[c].stvec = "kernelvec"
=============================================================================
