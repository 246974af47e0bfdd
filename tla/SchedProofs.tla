----------------------------- MODULE SchedProofs -----------------------------
(***************************************************************************)
(* Proofs about the scheduler and the traps, for any number of CPUs and    *)
(* processes: no kernel stack is used by two CPUs, spin-locks and noff     *)
(* agree, no wakeup is lost, and a trap returns where it came from.        *)
(***************************************************************************)
EXTENDS SchedKeeps

-----------------------------------------------------------------------------
(* The registers.                                                          *)

\* push_off()
LEMMA PushOff ==
    ASSUME NEW h \in HartType
    PROVE  /\ push_off(h) \in HartType
           /\ push_off(h).sie = FALSE /\ push_off(h).noff = h.noff + 1
           /\ push_off(h).intena = IF h.noff = 0 THEN h.sie ELSE h.intena
           /\ push_off(h).stvec = h.stvec
<1>1. h.noff + 1 \in Int /\ (IF h.noff = 0 THEN h.sie ELSE h.intena) \in BOOLEAN
  BY DEF HartType
<1>2. push_off(h) \in HartType
  BY <1>1, ZenonT(30) DEF HartType, push_off
<1>3. push_off(h).sie = FALSE /\ push_off(h).noff = h.noff + 1
  BY DEF HartType, push_off
<1>4. push_off(h).intena = IF h.noff = 0 THEN h.sie ELSE h.intena
  BY DEF HartType, push_off
<1>5. push_off(h).stvec = h.stvec
  BY DEF HartType, push_off
<1> QED BY <1>2, <1>3, <1>4, <1>5

\* pop_off()
LEMMA PopOff ==
    ASSUME NEW h \in HartType
    PROVE  /\ pop_off(h) \in HartType
           /\ pop_off(h).noff = h.noff - 1
           /\ pop_off(h).sie <=> h.sie \/ (h.noff = 1 /\ h.intena)
           /\ pop_off(h).intena <=> h.intena /\ h.noff > 1
           /\ pop_off(h).stvec = h.stvec
<1>1. /\ h.noff - 1 \in Int /\ (h.sie \/ (h.noff = 1 /\ h.intena)) \in BOOLEAN
      /\ (h.intena /\ h.noff > 1) \in BOOLEAN
  BY DEF HartType
<1>2. pop_off(h) \in HartType
  BY <1>1, ZenonT(30) DEF HartType, pop_off
<1>3. pop_off(h).noff = h.noff - 1
  BY DEF HartType, pop_off
<1>4. pop_off(h).sie <=> h.sie \/ (h.noff = 1 /\ h.intena)
  BY DEF HartType, pop_off
<1>5. pop_off(h).intena <=> h.intena /\ h.noff > 1
  BY ZenonT(30) DEF HartType, pop_off
<1>6. pop_off(h).stvec = h.stvec
  BY DEF HartType, pop_off
<1> QED BY <1>2, <1>3, <1>4, <1>5, <1>6

\* The registers once a trap is saved in memory.
LEMMA SavedRegs ==
    ASSUME NEW h \in HartType
    PROVE  Saved(h) \in HartType /\ Saved(h).sie = h.sie /\ Saved(h).noff = h.noff /\ Saved(h).stvec = h.stvec
<1>1. Saved(h) \in HartType
  BY ZenonT(30) DEF HartType, Saved, Addr
<1> QED BY <1>1 DEF HartType, Saved

\* intr_on(), intr_off() and w_stvec()
LEMMA IntrOn ==
    ASSUME NEW h \in HartType
    PROVE  /\ intr_on(h) \in HartType /\ intr_on(h).sie = TRUE
           /\ intr_on(h).noff = h.noff /\ intr_on(h).stvec = h.stvec
<1>1. intr_on(h) \in HartType
  BY ZenonT(30) DEF HartType, intr_on
<1> QED BY <1>1 DEF HartType, intr_on

LEMMA IntrOff ==
    ASSUME NEW h \in HartType
    PROVE  /\ intr_off(h) \in HartType /\ intr_off(h).sie = FALSE
           /\ intr_off(h).noff = h.noff /\ intr_off(h).stvec = h.stvec
<1>1. intr_off(h) \in HartType
  BY ZenonT(30) DEF HartType, intr_off
<1> QED BY <1>1 DEF HartType, intr_off

LEMMA Stvec ==
    ASSUME NEW h \in HartType, NEW v \in {"none", "uservec", "kernelvec"}
    PROVE  /\ w_stvec(h, v) \in HartType /\ w_stvec(h, v).sie = h.sie
           /\ w_stvec(h, v).noff = h.noff /\ w_stvec(h, v).stvec = v
<1>1. w_stvec(h, v) \in HartType
  BY ZenonT(30) DEF HartType, w_stvec
<1> QED BY <1>1 DEF HartType, w_stvec

\* sret
LEMMA Sret ==
    ASSUME NEW h \in HartType
    PROVE  /\ sret(h) \in HartType /\ sret(h).sie = h.spie
           /\ sret(h).noff = h.noff /\ sret(h).stvec = h.stvec
<1>1. sret(h) \in HartType
  BY ZenonT(30) DEF HartType, sret, Addr
<1> QED BY <1>1 DEF HartType, sret

-----------------------------------------------------------------------------
(* What each step leaves in the registers.                                 *)

\* Boot
LEMMA RegBoot ==
    ASSUME NEW h \in HartType, NEW t, NEW e, HartOk(h, t, "main", e)
    PROVE  intr_on(w_stvec(h, "kernelvec")) \in HartType /\ HartOk(intr_on(w_stvec(h, "kernelvec")), t, "scan", e)
<1> DEFINE g1 == w_stvec(h, "kernelvec")
<1>1. g1 \in HartType /\ g1.sie = h.sie /\ g1.noff = h.noff /\ g1.stvec = "kernelvec"
  BY Stvec
<1> HIDE DEF g1
<1> DEFINE k == intr_on(g1)
<1>2. k \in HartType /\ k.sie = TRUE /\ k.noff = g1.noff /\ k.stvec = g1.stvec
  BY <1>1, IntrOn, ZenonT(30)
<1> HIDE DEF k
<1>3. HartOk(k, t, "scan", e)
  BY <1>1, <1>2 DEF HartType, HartOk, Noff, Open, Enabled, HoldsP, HoldsTicks
<1> QED BY <1>2, <1>3 DEF k, g1

\* SchedPushOff
LEMMA RegScan ==
    ASSUME NEW h \in HartType, NEW t, NEW e, HartOk(h, t, "scan", e), t \notin Proc
    PROVE  push_off(h) \in HartType /\ HartOk(push_off(h), t, "spin", e)
<1> DEFINE k == push_off(h)
<1>1. /\ k \in HartType /\ k.sie = FALSE /\ k.noff = h.noff + 1
      /\ k.intena = (IF h.noff = 0 THEN h.sie ELSE h.intena) /\ k.stvec = h.stvec
  BY PushOff, ZenonT(30)
<1> HIDE DEF k
<1>2. HartOk(k, t, "spin", e)
  BY <1>1 DEF HartType, HartOk, Noff, Open, Enabled, HoldsP, HoldsTicks
<1> QED BY <1>1, <1>2 DEF k

\* LockPushOff
LEMMA RegAcquire ==
    ASSUME NEW h \in HartType, NEW t, NEW e, NEW l \in {"syscall", "slept_on"}, HartOk(h, t, l, e)
    PROVE  push_off(h) \in HartType /\ HartOk(push_off(h), t, "spin", e)
<1> DEFINE k == push_off(h)
<1>1. /\ k \in HartType /\ k.sie = FALSE /\ k.noff = h.noff + 1
      /\ k.intena = (IF h.noff = 0 THEN h.sie ELSE h.intena) /\ k.stvec = h.stvec
  BY PushOff, ZenonT(30)
<1> HIDE DEF k
<1>2. HartOk(k, t, "spin", e)
  BY <1>1 DEF HartType, HartOk, Noff, Open, Enabled, HoldsP, HoldsTicks
<1> QED BY <1>1, <1>2 DEF k

\* ClockAcquire
LEMMA RegTick ==
    ASSUME NEW h \in HartType, NEW t, NEW e, HartOk(h, t, "tick", e)
    PROVE  push_off(h) \in HartType /\ HartOk(push_off(h), t, "wakeup", e)
<1> DEFINE k == push_off(h)
<1>1. /\ k \in HartType /\ k.sie = FALSE /\ k.noff = h.noff + 1
      /\ k.intena = (IF h.noff = 0 THEN h.sie ELSE h.intena) /\ k.stvec = h.stvec
  BY PushOff, ZenonT(30)
<1> HIDE DEF k
<1>2. HartOk(k, t, "wakeup", e)
  BY <1>1 DEF HartType, HartOk, Noff, Open, Enabled, HoldsP, HoldsTicks
<1> QED BY <1>1, <1>2 DEF k

\* Yield
LEMMA RegYield ==
    ASSUME NEW h \in HartType, NEW t, NEW e, HartOk(h, t, "yield", e)
    PROVE  push_off(h) \in HartType /\ HartOk(push_off(h), t, "yield_sched", e)
<1> DEFINE k == push_off(h)
<1>1. /\ k \in HartType /\ k.sie = FALSE /\ k.noff = h.noff + 1
      /\ k.intena = (IF h.noff = 0 THEN h.sie ELSE h.intena) /\ k.stvec = h.stvec
  BY PushOff, ZenonT(30)
<1> HIDE DEF k
<1>2. HartOk(k, t, "yield_sched", e)
  BY <1>1 DEF HartType, HartOk, Noff, Open, Enabled, HoldsP, HoldsTicks
<1> QED BY <1>1, <1>2 DEF k

\* SleepLock
LEMMA RegSleepLock ==
    ASSUME NEW h \in HartType, NEW t, NEW e, HartOk(h, t, "sleep", e)
    PROVE  push_off(h) \in HartType /\ HartOk(push_off(h), t, "sleep_unlock", e)
<1> DEFINE k == push_off(h)
<1>1. /\ k \in HartType /\ k.sie = FALSE /\ k.noff = h.noff + 1
      /\ k.intena = (IF h.noff = 0 THEN h.sie ELSE h.intena) /\ k.stvec = h.stvec
  BY PushOff, ZenonT(30)
<1> HIDE DEF k
<1>2. HartOk(k, t, "sleep_unlock", e)
  BY <1>1 DEF HartType, HartOk, Noff, Open, Enabled, HoldsP, HoldsTicks
<1> QED BY <1>1, <1>2 DEF k

\* SleepUnlock
LEMMA RegSleepUnlock ==
    ASSUME NEW h \in HartType, NEW t, NEW e, HartOk(h, t, "sleep_unlock", e)
    PROVE  pop_off(h) \in HartType /\ HartOk(pop_off(h), t, "sleep_state", e)
<1> DEFINE k == pop_off(h)
<1>1. /\ k \in HartType /\ k.noff = h.noff - 1
      /\ (k.sie <=> h.sie \/ (h.noff = 1 /\ h.intena))
      /\ (k.intena <=> h.intena /\ h.noff > 1) /\ k.stvec = h.stvec
  BY PopOff
<1> HIDE DEF k
<1>2. HartOk(k, t, "sleep_state", e)
  BY <1>1 DEF HartType, HartOk, Noff, Open, Enabled, HoldsP, HoldsTicks
<1> QED BY <1>1, <1>2 DEF k

\* ClockRelease
LEMMA RegClockRelease ==
    ASSUME NEW h \in HartType, NEW t, NEW e, HartOk(h, t, "wakeup", e), NEW m \in {"yield", "kret"}
    PROVE  pop_off(h) \in HartType /\ HartOk(pop_off(h), t, m, e)
<1> DEFINE k == pop_off(h)
<1>1. /\ k \in HartType /\ k.noff = h.noff - 1
      /\ (k.sie <=> h.sie \/ (h.noff = 1 /\ h.intena))
      /\ (k.intena <=> h.intena /\ h.noff > 1) /\ k.stvec = h.stvec
  BY PopOff
<1> HIDE DEF k
<1>2. HartOk(k, t, m, e)
  BY <1>1 DEF HartType, HartOk, Noff, Open, Enabled, HoldsP, HoldsTicks
<1> QED BY <1>1, <1>2 DEF k

\* Forkret
LEMMA RegForkret ==
    ASSUME NEW h \in HartType, NEW t, NEW e, HartOk(h, t, "forkret", e)
    PROVE  pop_off(h) \in HartType /\ HartOk(pop_off(h), t, "ret", e)
<1> DEFINE k == pop_off(h)
<1>1. /\ k \in HartType /\ k.noff = h.noff - 1
      /\ (k.sie <=> h.sie \/ (h.noff = 1 /\ h.intena))
      /\ (k.intena <=> h.intena /\ h.noff > 1) /\ k.stvec = h.stvec
  BY PopOff
<1> HIDE DEF k
<1>2. HartOk(k, t, "ret", e)
  BY <1>1 DEF HartType, HartOk, Noff, Open, Enabled, HoldsP, HoldsTicks
<1> QED BY <1>1, <1>2 DEF k

\* LockSwap, when the tick has come
LEMMA RegGot ==
    ASSUME NEW h \in HartType, NEW t, NEW e, HartOk(h, t, "spin", e)
    PROVE  pop_off(h) \in HartType /\ HartOk(pop_off(h), t, "ret", e)
<1> DEFINE k == pop_off(h)
<1>1. /\ k \in HartType /\ k.noff = h.noff - 1
      /\ (k.sie <=> h.sie \/ (h.noff = 1 /\ h.intena))
      /\ (k.intena <=> h.intena /\ h.noff > 1) /\ k.stvec = h.stvec
  BY PopOff
<1> HIDE DEF k
<1>2. HartOk(k, t, "ret", e)
  BY <1>1 DEF HartType, HartOk, Noff, Open, Enabled, HoldsP, HoldsTicks
<1> QED BY <1>1, <1>2 DEF k

\* Userret
LEMMA RegUserret ==
    ASSUME NEW h \in HartType, NEW t, NEW e, NEW f, HartOk(h, t, "sret", e)
    PROVE  sret(h) \in HartType /\ HartOk(sret(h), t, "user", f)
<1> DEFINE k == sret(h)
<1>1. k \in HartType /\ k.sie = h.spie /\ k.noff = h.noff /\ k.stvec = h.stvec
  BY Sret
<1> HIDE DEF k
<1>2. HartOk(k, t, "user", f)
  BY <1>1 DEF HartType, HartOk, Noff, Open, Enabled, HoldsP, HoldsTicks
<1> QED BY <1>1, <1>2 DEF k

\* Syscall and Kill
LEMMA RegSyscall ==
    ASSUME NEW h \in HartType, NEW t, NEW u, NEW e, HartOk(h, t, "syscall", e)
    PROVE  HartOk(h, t, "ret", e)
BY DEF HartType, HartOk, Noff, Open, Enabled, HoldsP, HoldsTicks

\* LockSwap, when no tick has come
LEMMA RegNoTick ==
    ASSUME NEW h \in HartType, NEW t, NEW u, NEW e, HartOk(h, t, "spin", e)
    PROVE  HartOk(h, t, "sleep", e)
BY DEF HartType, HartOk, Noff, Open, Enabled, HoldsP, HoldsTicks

\* SchedRun
LEMMA RegRun ==
    ASSUME NEW h \in HartType, NEW t, NEW u, NEW e, NEW m \in {"forkret", "slept", "yielded"}, HartOk(h, t, "spin", e)
    PROVE  HartOk(h, u, m, e)
BY DEF HartType, HartOk, Noff, Open, Enabled, HoldsP, HoldsTicks

\* Sched
LEMMA RegSched ==
    ASSUME NEW h \in HartType, NEW t, NEW u, NEW e, NEW l \in {"sleep_state", "yield_sched"}, HartOk(h, t, l, e)
    PROVE  HartOk(h, u, "swtched", e)
BY DEF HartType, HartOk, Noff, Open, Enabled, HoldsP, HoldsTicks

\* SchedRelease
LEMMA RegRelease ==
    ASSUME NEW h \in HartType, NEW t, NEW e, NEW p, NEW l \in {"spin", "swtched"}, HartOk(h, t, l, e)
    PROVE  LoopTop(pop_off(h), p) \in HartType /\ HartOk(LoopTop(pop_off(h), p), t, "scan", e)
<1> DEFINE g == pop_off(h)
<1>1. g \in HartType /\ g.noff = h.noff - 1 /\ g.stvec = h.stvec
  BY PopOff
<1> HIDE DEF g
<1> DEFINE k == LoopTop(g, p)
<1>2. k \in HartType /\ k.noff = g.noff /\ k.stvec = g.stvec
  BY <1>1, IntrOn, ZenonT(30) DEF LoopTop
<1> HIDE DEF k
<1>3. HartOk(k, t, "scan", e)
  BY <1>1, <1>2 DEF HartType, HartOk, Noff, Open, Enabled, HoldsP, HoldsTicks
<1> QED BY <1>2, <1>3 DEF k, g

\* Usertrapret
LEMMA RegUsertrapret ==
    ASSUME NEW h \in HartType, NEW t, NEW e, e[t] \in Addr, HartOk(h, t, "ret", e)
    PROVE  /\ [w_stvec(intr_off(h), "uservec") EXCEPT !.spp = "U", !.spie = TRUE, !.sepc = e[t]] \in HartType
           /\ HartOk([w_stvec(intr_off(h), "uservec") EXCEPT !.spp = "U", !.spie = TRUE, !.sepc = e[t]],
                     t, "sret", e)
<1> DEFINE a == e[t]
           g == intr_off(h)
           f == w_stvec(g, "uservec")
           k == [f EXCEPT !.spp = "U", !.spie = TRUE, !.sepc = a]
<1>a. a \in Addr
  OBVIOUS
<1> HIDE DEF a
<1>1. g \in HartType /\ g.sie = FALSE /\ g.noff = h.noff
  BY IntrOff, ZenonT(30)
<1> HIDE DEF g
<1>2. f \in HartType /\ f.sie = FALSE /\ f.noff = h.noff /\ f.stvec = "uservec"
  BY <1>1, Stvec
<1> HIDE DEF f
<1>3. k \in HartType
  BY <1>a, <1>2, ZenonT(30) DEF HartType
<1>4. /\ k.sie = FALSE /\ k.noff = h.noff /\ k.stvec = "uservec"
      /\ k.spp = "U" /\ k.spie = TRUE /\ k.sepc = a
  BY <1>a, <1>2 DEF HartType
<1> HIDE DEF k
<1>5. HartOk(k, t, "sret", e)
  BY <1>3, <1>4 DEF a, HartType, HartOk, Noff, Open, Enabled, HoldsP, HoldsTicks
<1> QED BY <1>3, <1>5 DEF k, f, g, a

\* Resume
LEMMA RegResume ==
    ASSUME NEW h \in HartType, NEW t, NEW e, NEW i \in BOOLEAN,
           NEW l, NEW m, HartOk(h, t, l, e),
           \/ l = "slept" /\ m = "slept_on" /\ i
           \/ l = "yielded" /\ m \in {"ret", "kret"} /\ ~i
    PROVE  /\ pop_off([h EXCEPT !.intena = i]) \in HartType
           /\ HartOk(pop_off([h EXCEPT !.intena = i]), t, m, e)
<1> DEFINE g == [h EXCEPT !.intena = i]
           k == pop_off(g)
<1>1. g \in HartType
  BY ZenonT(30) DEF HartType
<1>2. g.intena = i /\ g.sie = h.sie /\ g.noff = h.noff /\ g.stvec = h.stvec
  BY DEF HartType
<1> HIDE DEF g
<1>3. k \in HartType /\ k.noff = g.noff - 1 /\ (k.sie <=> g.sie \/ (g.noff = 1 /\ g.intena)) /\ k.stvec = g.stvec
  BY <1>1, PopOff
<1> HIDE DEF k
<1>4. h.noff = 1 /\ ~h.sie /\ h.stvec = "kernelvec"
  BY DEF HartType, HartOk, Noff, Open, Enabled, HoldsP, HoldsTicks
<1>5. HartOk(k, t, m, e)
  BY <1>2, <1>3, <1>4 DEF HartType, HartOk, Noff, Open, Enabled, HoldsP, HoldsTicks
<1> QED BY <1>3, <1>5 DEF k, g

\* What the invariant says of the CPU that takes the step.
LEMMA Here ==
    ASSUME Inv, NEW c \in Cpu, NEW t, NEW l, At(c, t, l)
    PROVE  /\ t \in Thread /\ stack[c] = t /\ pc[t] = l /\ l \in Label
           /\ hart[c] \in HartType /\ HartOk(hart[c], t, l, epc)
<1> USE DEF Inv
<1>1. stack[c] = t /\ pc[t] = l /\ t \in Thread /\ l \in Label
  BY ZenonT(30) DEF RunType, At
<1>2. hart[c] \in HartType
  BY ZenonT(30) DEF TrapType
<1>3. HartOk(hart[c], stack[c], pc[stack[c]], epc)
  BY ZenonT(30) DEF HartInv
<1> QED BY <1>1, <1>2, <1>3, ZenonT(30)

\* After an interrupt a process yields, and scheduler() goes on.
LEMMA HandledIs ==
    ASSUME Inv, NEW c \in Cpu, NEW t \in Thread, stack[c] = t, t \in Cpu => pc[t] # "swtched"
    PROVE  /\ Handled(c, t) = IF t \in Proc THEN "yield" ELSE "kret"
           /\ t \in Cpu => t = c
<1>1. StackInv
  BY ZenonT(30) DEF Inv
<1> QED BY <1>1, Names, ZenonT(30) DEF StackInv, Handled

\* A step that leaves the registers k.
LEMMA ToHart ==
    ASSUME NEW c, NEW t, NEW l, NEW k \in HartType, HartOk(k, t, l, epc'),
           hart' = [hart EXCEPT ![c] = k]
    PROVE  HartTo(c, t, l)
BY ZenonT(30) DEF HartTo

\* A step that leaves the registers alone.
LEMMA SameHart ==
    ASSUME Inv, NEW c \in Cpu, NEW t, NEW l, HartOk(hart[c], t, l, epc'), hart' = hart
    PROVE  HartTo(c, t, l)
<1>1. hart \in [Cpu -> HartType]
  BY ZenonT(30) DEF Inv, TrapType
<1>2. hart' = [hart EXCEPT ![c] = hart[c]] /\ hart[c] \in HartType
  BY <1>1
<1> QED BY <1>2, ToHart, ZenonT(30)

\* The flag that main() sets.
LEMMA StartedBool ==
    ASSUME Inv PROVE started \in BOOLEAN
BY ZenonT(30) DEF Inv, RunType

\* main()
LEMMA IsBoot ==
    ASSUME Inv, NEW c \in Cpu, Boot(c)
    PROVE  Quiet(c, c, "main", "scan")
<1>1. At(c, c, "main")
  BY DEF Boot
<1>2. c \in Thread /\ stack[c] = c /\ pc[c] = "main" /\ hart[c] \in HartType /\ HartOk(hart[c], c, "main", epc)
  BY <1>1, Here, ZenonT(30)
<1>3. epc' = epc
  BY DEF Boot, traps
<1> DEFINE k == intr_on(w_stvec(hart[c], "kernelvec"))
<1>4. k \in HartType /\ HartOk(k, c, "scan", epc)
  BY <1>2, RegBoot, ZenonT(30)
<1>5. hart' = [hart EXCEPT ![c] = k]
  BY DEF Boot, SetHart
<1> HIDE DEF k
<1>6. HartTo(c, c, "scan")
  BY <1>3, <1>4, <1>5, ToHart, ZenonT(30)
<1> QED BY <1>2, <1>6 DEF Boot, Goto, Moves, Quiet, QuietMove

\* push_off() in scheduler()
LEMMA IsSchedPushOff ==
    ASSUME Inv, NEW c \in Cpu, SchedPushOff(c)
    PROVE  Quiet(c, c, "scan", "spin")
<1>1. At(c, c, "scan")
  BY DEF SchedPushOff
<1>2. c \in Thread /\ stack[c] = c /\ pc[c] = "scan" /\ hart[c] \in HartType /\ HartOk(hart[c], c, "scan", epc)
  BY <1>1, Here, ZenonT(30)
<1>3. epc' = epc
  BY DEF SchedPushOff, traps
<1> DEFINE k == push_off(hart[c])
<1>4. k \in HartType /\ HartOk(k, c, "spin", epc)
  BY <1>2, Names, RegScan, ZenonT(30)
<1>5. hart' = [hart EXCEPT ![c] = k]
  BY DEF SchedPushOff, SetHart
<1> HIDE DEF k
<1>6. HartTo(c, c, "spin")
  BY <1>3, <1>4, <1>5, ToHart, ZenonT(30)
<1> QED BY <1>2, <1>6, Names, StartedBool DEF SchedPushOff, Goto, Moves, Quiet, QuietMove, clock

\* usertrapret()
LEMMA IsUsertrapret ==
    ASSUME Inv, NEW c \in Cpu, NEW p \in Proc, Usertrapret(c, p)
    PROVE  Quiet(c, p, "ret", "sret")
<1>1. At(c, p, "ret")
  BY DEF Usertrapret
<1>2. p \in Thread /\ stack[c] = p /\ pc[p] = "ret" /\ hart[c] \in HartType /\ HartOk(hart[c], p, "ret", epc)
  BY <1>1, Here, ZenonT(30)
<1>3. epc' = epc
  BY DEF Usertrapret, traps
<1> DEFINE k == [w_stvec(intr_off(hart[c]), "uservec") EXCEPT !.spp = "U", !.spie = TRUE, !.sepc = epc[p]]
<1>e. epc[p] \in Addr
  BY ZenonT(30) DEF Inv, TrapType
<1>4. k \in HartType /\ HartOk(k, p, "sret", epc)
  BY <1>2, <1>e, RegUsertrapret, ZenonT(30)
<1>5. hart' = [hart EXCEPT ![c] = k]
  BY DEF Usertrapret, SetHart
<1> HIDE DEF k
<1>6. HartTo(c, p, "sret")
  BY <1>3, <1>4, <1>5, ToHart, ZenonT(30)
<1> QED BY <1>2, <1>6, Names, StartedBool DEF Usertrapret, Goto, Moves, Quiet, QuietMove, clock

\* syscall()
LEMMA IsSyscall ==
    ASSUME Inv, NEW c \in Cpu, NEW p \in Proc, Syscall(c, p)
    PROVE  Quiet(c, p, "syscall", "ret")
<1>1. At(c, p, "syscall")
  BY DEF Syscall
<1>2. p \in Thread /\ stack[c] = p /\ pc[p] = "syscall" /\ hart[c] \in HartType /\ HartOk(hart[c], p, "syscall", epc)
  BY <1>1, Here, ZenonT(30)
<1>3. epc' = epc
  BY DEF Syscall, traps
<1>4. HartOk(hart[c], p, "ret", epc)
  BY <1>2, RegSyscall, ZenonT(30)
<1>5. hart' = hart
  BY DEF Syscall
<1>6. HartTo(c, p, "ret")
  BY <1>3, <1>4, <1>5, SameHart, ZenonT(30)
<1> QED BY <1>2, <1>6, Names, StartedBool DEF Syscall, Goto, Moves, Quiet, QuietMove, clock

\* acquire(&tickslock)
LEMMA IsLockPushOff ==
    ASSUME Inv, NEW c \in Cpu, NEW p \in Proc, NEW l \in {"syscall", "slept_on"}, At(c, p, l), LockPushOff(c, p)
    PROVE  Quiet(c, p, l, "spin")
<1>1. At(c, p, l)
  OBVIOUS
<1>2. p \in Thread /\ stack[c] = p /\ pc[p] = l /\ hart[c] \in HartType /\ HartOk(hart[c], p, l, epc)
  BY <1>1, Here, ZenonT(30)
<1>3. epc' = epc
  BY DEF LockPushOff, traps
<1> DEFINE k == push_off(hart[c])
<1>4. k \in HartType /\ HartOk(k, p, "spin", epc)
  BY <1>2, RegAcquire, ZenonT(30)
<1>5. hart' = [hart EXCEPT ![c] = k]
  BY DEF LockPushOff, SetHart
<1> HIDE DEF k
<1>6. HartTo(c, p, "spin")
  BY <1>3, <1>4, <1>5, ToHart, ZenonT(30)
<1> QED BY <1>2, <1>6, Names, StartedBool DEF LockPushOff, Goto, Moves, Quiet, QuietMove, clock

\* scheduler() runs p
LEMMA IsSchedRun ==
    ASSUME Inv, NEW c \in Cpu, NEW p \in Proc, p = sp[c], SchedRun(c)
    PROVE  Run(c, p)
<1>1. At(c, c, "spin")
  BY DEF SchedRun
<1>2. c \in Thread /\ stack[c] = c /\ pc[c] = "spin" /\ hart[c] \in HartType /\ HartOk(hart[c], c, "spin", epc)
  BY <1>1, Here, ZenonT(30)
<1>3. epc' = epc
  BY DEF SchedRun, traps
<1>e. pc[p] \in {"forkret", "slept", "yielded"}
  BY Parked, ZenonT(30) DEF SchedRun, Runs, Inv
<1>4. HartOk(hart[c], p, pc[p], epc)
  BY <1>2, <1>e, RegRun, ZenonT(30)
<1>5. hart' = hart
  BY DEF SchedRun
<1>6. HartTo(c, p, pc[p])
  BY <1>3, <1>4, <1>5, SameHart, ZenonT(30)
<1> QED BY <1>2, <1>6 DEF SchedRun, Goto, Moves, Run, Runs

\* scheduler() releases p->lock
LEMMA IsSchedRelease ==
    ASSUME Inv, NEW c \in Cpu, NEW p \in Proc, p = sp[c], NEW l \in {"spin", "swtched"}, At(c, c, l), SchedRelease(c)
    PROVE  Release(c, p)
<1>1. At(c, c, l)
  OBVIOUS
<1>2. c \in Thread /\ stack[c] = c /\ pc[c] = l /\ hart[c] \in HartType /\ HartOk(hart[c], c, l, epc)
  BY <1>1, Here, ZenonT(30)
<1>3. epc' = epc
  BY DEF SchedRelease, traps
<1> DEFINE k == LoopTop(pop_off(hart[c]), p)
<1>4. k \in HartType /\ HartOk(k, c, "scan", epc)
  BY <1>2, RegRelease, ZenonT(30)
<1>5. hart' = [hart EXCEPT ![c] = k]
  BY DEF SchedRelease, SetHart
<1> HIDE DEF k
<1>6. HartTo(c, c, "scan")
  BY <1>3, <1>4, <1>5, ToHart, ZenonT(30)
<1>e. (p % NPROC) + 1 \in Proc
  BY SchedAssumption DEF Proc
<1>f. l = "spin" => plock[p] = NoCpu
  BY <1>2, ZenonT(30) DEF SchedRelease, At
<1> QED BY <1>2, <1>6, <1>e, <1>f, ZenonT(30) DEF SchedRelease, Goto, Moves, Release

\* clockintr() begins
LEMMA IsClockAcquire ==
    ASSUME Inv, NEW c \in Cpu, NEW t \in Thread, ClockAcquire(c, t)
    PROVE  ClockBegin(c, t)
<1>1. At(c, t, "tick")
  BY DEF ClockAcquire
<1>2. t \in Thread /\ stack[c] = t /\ pc[t] = "tick" /\ hart[c] \in HartType /\ HartOk(hart[c], t, "tick", epc)
  BY <1>1, Here, ZenonT(30)
<1>3. epc' = epc
  BY DEF ClockAcquire, traps
<1> DEFINE k == push_off(hart[c])
<1>4. k \in HartType /\ HartOk(k, t, "wakeup", epc)
  BY <1>2, RegTick, ZenonT(30)
<1>5. hart' = [hart EXCEPT ![c] = k]
  BY DEF ClockAcquire, SetHart
<1> HIDE DEF k
<1>6. HartTo(c, t, "wakeup")
  BY <1>3, <1>4, <1>5, ToHart, ZenonT(30)
<1> QED BY <1>2, <1>6 DEF ClockAcquire, Goto, Moves, ClockBegin

\* clockintr() looks at p
LEMMA IsWakeup ==
    ASSUME NEW c \in Cpu, NEW t \in Thread, NEW p \in Proc, Wakeup(c, t, p)
    PROVE  ClockRound(c, t, p)
BY ZenonT(30) DEF Wakeup, ClockRound, At

\* clockintr() ends
LEMMA IsClockRelease ==
    ASSUME Inv, NEW c \in Cpu, NEW t \in Thread, NEW m, m = IF t \in Proc THEN "yield" ELSE "kret", ClockRelease(c, t)
    PROVE  ClockEnd(c, t, m)
<1>1. At(c, t, "wakeup")
  BY DEF ClockRelease
<1>2. t \in Thread /\ stack[c] = t /\ pc[t] = "wakeup" /\ hart[c] \in HartType /\ HartOk(hart[c], t, "wakeup", epc)
  BY <1>1, Here, ZenonT(30)
<1>e. m \in {"yield", "kret"}
  OBVIOUS
<1>f. Handled(c, t) = m
  BY <1>2, HandledIs
<1>3. epc' = epc
  BY DEF ClockRelease, traps
<1> DEFINE k == pop_off(hart[c])
<1>4. k \in HartType /\ HartOk(k, t, m, epc)
  BY <1>2, <1>e, RegClockRelease, ZenonT(30)
<1>5. hart' = [hart EXCEPT ![c] = k]
  BY DEF ClockRelease, SetHart
<1> HIDE DEF k
<1>6. HartTo(c, t, m)
  BY <1>3, <1>4, <1>5, ToHart, ZenonT(30)
<1> QED BY <1>2, <1>6, <1>f DEF ClockRelease, Goto, Moves, ClockEnd

\* userret
LEMMA IsUserret ==
    ASSUME Inv, NEW c \in Cpu, NEW p \in Proc, Userret(c, p)
    PROVE  ReturnUser(c, p)
<1>1. At(c, p, "sret")
  BY DEF Userret
<1>2. p \in Thread /\ stack[c] = p /\ pc[p] = "sret" /\ hart[c] \in HartType /\ HartOk(hart[c], p, "sret", epc)
  BY <1>1, Here, ZenonT(30)
<1> DEFINE k == sret(hart[c])
<1>4. k \in HartType /\ HartOk(k, p, "user", epc')
  BY <1>2, RegUserret, ZenonT(30)
<1>5. hart' = [hart EXCEPT ![c] = k]
  BY DEF Userret, SetHart
<1> HIDE DEF k
<1>6. HartTo(c, p, "user")
  BY <1>4, <1>5, ToHart, ZenonT(30)
<1> QED BY <1>2, <1>6 DEF Userret, Goto, Moves, ReturnUser

\* forkret()
LEMMA IsForkret ==
    ASSUME Inv, NEW c \in Cpu, NEW p \in Proc, Forkret(c, p)
    PROVE  First(c, p)
<1>1. At(c, p, "forkret")
  BY DEF Forkret
<1>2. p \in Thread /\ stack[c] = p /\ pc[p] = "forkret" /\ hart[c] \in HartType /\ HartOk(hart[c], p, "forkret", epc)
  BY <1>1, Here, ZenonT(30)
<1>3. epc' = epc
  BY DEF Forkret, traps
<1> DEFINE k == pop_off(hart[c])
<1>4. k \in HartType /\ HartOk(k, p, "ret", epc)
  BY <1>2, RegForkret, ZenonT(30)
<1>5. hart' = [hart EXCEPT ![c] = k]
  BY DEF Forkret, SetHart
<1> HIDE DEF k
<1>6. HartTo(c, p, "ret")
  BY <1>3, <1>4, <1>5, ToHart, ZenonT(30)
<1> QED BY <1>2, <1>6 DEF Forkret, Goto, Moves, First

\* kill()
LEMMA IsKill ==
    ASSUME Inv, NEW c \in Cpu, NEW p \in Proc, NEW q \in Proc, Kill(c, p, q)
    PROVE  Kills(c, p, q)
<1>1. At(c, p, "syscall")
  BY DEF Kill
<1>2. p \in Thread /\ stack[c] = p /\ pc[p] = "syscall" /\ hart[c] \in HartType /\ HartOk(hart[c], p, "syscall", epc)
  BY <1>1, Here, ZenonT(30)
<1>3. epc' = epc
  BY DEF Kill, traps
<1>4. HartOk(hart[c], p, "ret", epc)
  BY <1>2, RegSyscall, ZenonT(30)
<1>5. hart' = hart
  BY DEF Kill
<1>6. HartTo(c, p, "ret")
  BY <1>3, <1>4, <1>5, SameHart, ZenonT(30)
<1> QED BY <1>2, <1>6 DEF Kill, Goto, Moves, Kills

\* sys_sleep(), when the tick has come
LEMMA IsTickCame ==
    ASSUME Inv, NEW c \in Cpu, NEW p \in Proc, elapsed[p] = "yes", LockSwap(c, p)
    PROVE  TickCame(c, p)
<1>1. At(c, p, "spin")
  BY DEF LockSwap
<1>2. p \in Thread /\ stack[c] = p /\ pc[p] = "spin" /\ hart[c] \in HartType /\ HartOk(hart[c], p, "spin", epc)
  BY <1>1, Here, ZenonT(30)
<1>3. epc' = epc
  BY DEF LockSwap, traps
<1> DEFINE k == pop_off(hart[c])
<1>4. k \in HartType /\ HartOk(k, p, "ret", epc)
  BY <1>2, RegGot, ZenonT(30)
<1>5. hart' = [hart EXCEPT ![c] = k]
  BY DEF LockSwap, SetHart
<1> HIDE DEF k
<1>6. HartTo(c, p, "ret")
  BY <1>3, <1>4, <1>5, ToHart, ZenonT(30)
<1> QED BY <1>2, <1>6 DEF LockSwap, Goto, Moves, TickCame, locks

\* sys_sleep(), when it has not
LEMMA IsNoTick ==
    ASSUME Inv, NEW c \in Cpu, NEW p \in Proc, elapsed[p] # "yes", LockSwap(c, p)
    PROVE  NoTick(c, p)
<1>1. At(c, p, "spin")
  BY DEF LockSwap
<1>2. p \in Thread /\ stack[c] = p /\ pc[p] = "spin" /\ hart[c] \in HartType /\ HartOk(hart[c], p, "spin", epc)
  BY <1>1, Here, ZenonT(30)
<1>3. epc' = epc
  BY DEF LockSwap, traps
<1>4. HartOk(hart[c], p, "sleep", epc)
  BY <1>2, RegNoTick, ZenonT(30)
<1>5. hart' = hart
  BY DEF LockSwap
<1>6. HartTo(c, p, "sleep")
  BY <1>3, <1>4, <1>5, SameHart, ZenonT(30)
<1> QED BY <1>2, <1>6 DEF LockSwap, Goto, Moves, NoTick

\* sleep() takes p->lock
LEMMA IsSleepLock ==
    ASSUME Inv, NEW c \in Cpu, NEW p \in Proc, SleepLock(c, p)
    PROVE  LockSelf(c, p)
<1>1. At(c, p, "sleep")
  BY DEF SleepLock
<1>2. p \in Thread /\ stack[c] = p /\ pc[p] = "sleep" /\ hart[c] \in HartType /\ HartOk(hart[c], p, "sleep", epc)
  BY <1>1, Here, ZenonT(30)
<1>3. epc' = epc
  BY DEF SleepLock, traps
<1> DEFINE k == push_off(hart[c])
<1>4. k \in HartType /\ HartOk(k, p, "sleep_unlock", epc)
  BY <1>2, RegSleepLock, ZenonT(30)
<1>5. hart' = [hart EXCEPT ![c] = k]
  BY DEF SleepLock, SetHart
<1> HIDE DEF k
<1>6. HartTo(c, p, "sleep_unlock")
  BY <1>3, <1>4, <1>5, ToHart, ZenonT(30)
<1> QED BY <1>2, <1>6 DEF SleepLock, Goto, Moves, LockSelf

\* sleep() releases tickslock
LEMMA IsSleepUnlock ==
    ASSUME Inv, NEW c \in Cpu, NEW p \in Proc, SleepUnlock(c, p)
    PROVE  UnlockTicks(c, p)
<1>1. At(c, p, "sleep_unlock")
  BY DEF SleepUnlock
<1>2. p \in Thread /\ stack[c] = p /\ pc[p] = "sleep_unlock" /\ hart[c] \in HartType /\ HartOk(hart[c], p, "sleep_unlock", epc)
  BY <1>1, Here, ZenonT(30)
<1>3. epc' = epc
  BY DEF SleepUnlock, traps
<1> DEFINE k == pop_off(hart[c])
<1>4. k \in HartType /\ HartOk(k, p, "sleep_state", epc)
  BY <1>2, RegSleepUnlock, ZenonT(30)
<1>5. hart' = [hart EXCEPT ![c] = k]
  BY DEF SleepUnlock, SetHart
<1> HIDE DEF k
<1>6. HartTo(c, p, "sleep_state")
  BY <1>3, <1>4, <1>5, ToHart, ZenonT(30)
<1> QED BY <1>2, <1>6 DEF SleepUnlock, Goto, Moves, UnlockTicks

\* yield()
LEMMA IsYield ==
    ASSUME Inv, NEW c \in Cpu, NEW p \in Proc, Yield(c, p)
    PROVE  Yields(c, p)
<1>1. At(c, p, "yield")
  BY DEF Yield
<1>2. p \in Thread /\ stack[c] = p /\ pc[p] = "yield" /\ hart[c] \in HartType /\ HartOk(hart[c], p, "yield", epc)
  BY <1>1, Here, ZenonT(30)
<1>3. epc' = epc
  BY DEF Yield, traps
<1> DEFINE k == push_off(hart[c])
<1>4. k \in HartType /\ HartOk(k, p, "yield_sched", epc)
  BY <1>2, RegYield, ZenonT(30)
<1>5. hart' = [hart EXCEPT ![c] = k]
  BY DEF Yield, SetHart
<1> HIDE DEF k
<1>6. HartTo(c, p, "yield_sched")
  BY <1>3, <1>4, <1>5, ToHart, ZenonT(30)
<1> QED BY <1>2, <1>6 DEF Yield, Goto, Moves, Yields

\* sched()
LEMMA IsSched ==
    ASSUME Inv, NEW c \in Cpu, NEW p \in Proc,
           NEW l, NEW m, At(c, p, l),
           \/ l = "sleep_state" /\ m = "slept"
           \/ l = "yield_sched" /\ m = "yielded", Sched(c, p)
    PROVE  SwitchOff(c, p, m)
<1>1. At(c, p, l)
  OBVIOUS
<1>2. p \in Thread /\ stack[c] = p /\ pc[p] = l /\ hart[c] \in HartType /\ HartOk(hart[c], p, l, epc)
  BY <1>1, Here, ZenonT(30)
<1>e. l \in {"sleep_state", "yield_sched"}
  OBVIOUS
<1>f. hart[c].noff = 1 /\ ~hart[c].sie /\ hart[c].intena = (m = "slept")
  BY <1>2 DEF HartType, HartOk, Noff, Open, HoldsP, HoldsTicks
<1>g. intena' = [intena EXCEPT ![p] = (m = "slept")]
  BY <1>f, ZenonT(30) DEF Sched
<1>i. /\ pc' = [pc EXCEPT ![p] = m] /\ panic = ""
      /\ l = "sleep_state" => chan' = [chan EXCEPT ![p] = TRUE] /\ state' = [state EXCEPT ![p] = "SLEEPING"]
      /\ l = "yield_sched" => state' = state /\ chan' = chan
      /\ stack' = [stack EXCEPT ![c] = c]
      /\ UNCHANGED <<plock, lk, started, todo, elapsed, proc, sp, epc, frame, back>>
  BY <1>2, ZenonT(30) DEF Sched, At, Goto, procs, locks, clock
<1>h. panic' = ""
  <2>1. StateInv /\ LockInv /\ state \in [Proc -> {"SLEEPING", "RUNNABLE", "RUNNING"}]
    BY ZenonT(30) DEF Inv, RunType
  <2>2. plock[p] = c
    BY <1>2, <2>1 DEF LockInv, HoldsP
  <2>3. state'[p] # "RUNNING"
    BY <1>2, <1>e, <1>i, <2>1, ZenonT(30) DEF StateInv
  <2> QED BY <1>f, <2>2, <2>3, ZenonT(30) DEF Sched
<1>3. epc' = epc
  BY ZenonT(30) DEF Sched
<1>4. HartOk(hart[c], c, "swtched", epc)
  BY <1>2, <1>e, RegSched, ZenonT(30)
<1>5. hart' = hart
  BY ZenonT(30) DEF Sched
<1>6. HartTo(c, c, "swtched")
  BY <1>3, <1>4, <1>5, SameHart, ZenonT(30)
<1> QED BY <1>2, <1>6, <1>g, <1>i, <1>h, ZenonT(30) DEF Moves, SwitchOff, traps, procs, locks, clock

\* sched() returns
LEMMA IsResume ==
    ASSUME Inv, NEW c \in Cpu, NEW p \in Proc, NEW l, NEW m, At(c, p, l),
           \/ l = "slept" /\ m = "slept_on"
           \/ l = "yielded" /\ m = "ret" /\ frame[p] = NoFrame
           \/ l = "yielded" /\ m = "kret" /\ frame[p] # NoFrame, Resume(c, p)
    PROVE  SwitchedOn(c, p, m)
<1>1. At(c, p, l)
  OBVIOUS
<1>2. p \in Thread /\ stack[c] = p /\ pc[p] = l /\ hart[c] \in HartType /\ HartOk(hart[c], p, l, epc)
  BY <1>1, Here, ZenonT(30)
<1>3. epc' = epc
  BY DEF Resume, traps
<1> DEFINE k == pop_off(Resumed(c, p))
<1>e. intena[p] \in BOOLEAN /\ (l = "slept" => intena[p]) /\ (l = "yielded" => ~intena[p])
  <2>1. IntenaInv /\ intena \in [Proc -> BOOLEAN]
    BY ZenonT(30) DEF Inv, RunType
  <2> QED BY <1>2, <2>1 DEF IntenaInv
<1>i. /\ pc' = [pc EXCEPT ![p] = m] /\ plock' = [plock EXCEPT ![p] = NoCpu]
      /\ chan' = [chan EXCEPT ![p] = FALSE] /\ intena' = [intena EXCEPT ![p] = FALSE]
      /\ UNCHANGED <<cpus, traps, clock, state, lk>>
  BY <1>2, ZenonT(30) DEF Resume, At, Goto
<1>4. k \in HartType /\ HartOk(k, p, m, epc)
  BY <1>2, <1>e, RegResume, ZenonT(30) DEF Resumed
<1>5. hart' = [hart EXCEPT ![c] = k]
  BY DEF Resume, SetHart
<1> HIDE DEF k
<1>6. HartTo(c, p, m)
  BY <1>3, <1>4, <1>5, ToHart, ZenonT(30)
<1> QED BY <1>2, <1>6, <1>i, ZenonT(30) DEF Moves, SwitchedOn

\* kernelvec returns
LEMMA IsKernelReturn ==
    ASSUME Inv, NEW c \in Cpu, NEW t \in Thread, KernelReturn(c, t)
    PROVE  \E m \in Label : ReturnKernel(c, t, m)
<1> DEFINE a == frame[t].sepc
           k == sret([hart[c] EXCEPT !.sepc = a, !.spie = TRUE, !.spp = "S"])
<1>1. At(c, t, "kret")
  BY DEF KernelReturn
<1>2. stack[c] = t /\ pc[t] = "kret" /\ hart[c] \in HartType /\ HartOk(hart[c], t, "kret", epc)
  BY <1>1, Here, ZenonT(30)
<1>3. FrameInv /\ frame \in [Thread -> FrameType]
  BY ZenonT(30) DEF Inv, TrapType
<1>4. a \in Addr /\ frame[t].spie = TRUE /\ frame[t].spp = "S"
  BY <1>2, <1>3 DEF FrameInv, FrameType
<1>5. PICK m \in Open \ {"user"} : a = <<t, m>> /\ (t \in Cpu <=> m = "scan")
  BY <1>2, <1>3 DEF FrameInv
<1>6. m \in Label /\ a[2] = m
  BY <1>5 DEF Open, Label
<1>7. epc' = epc
  BY DEF KernelReturn
<1>8. /\ [hart[c] EXCEPT !.sepc = a, !.spie = TRUE, !.spp = "S"].sepc = a
      /\ k \in HartType /\ k.sie /\ k.stvec = "kernelvec" /\ HartOk(k, t, m, epc)
  <2> DEFINE x == hart[c]
             g == [x EXCEPT !.sepc = a, !.spie = TRUE, !.spp = "S"]
             y == sret(g)
  <2>1. x \in HartType /\ HartOk(x, t, "kret", epc)
    BY <1>2
  <2> HIDE DEF x, a
  <2>2. g \in HartType
    BY <1>4, <2>1, ZenonT(30) DEF HartType
  <2>3. g.sepc = a /\ g.spie = TRUE /\ g.noff = x.noff /\ g.stvec = x.stvec
    BY <1>4, <2>1 DEF HartType
  <2> HIDE DEF g
  <2>4. y \in HartType /\ y.sie = TRUE /\ y.noff = x.noff /\ y.stvec = x.stvec
    BY <2>2, <2>3, Sret, ZenonT(30)
  <2> HIDE DEF y
  <2>5. y.stvec = "kernelvec" /\ HartOk(y, t, m, epc)
    BY <2>1, <2>4 DEF HartType, HartOk, Noff, Open, Enabled, HoldsP, HoldsTicks
  <2> QED BY <2>3, <2>4, <2>5, ZenonT(30) DEF x, g, y
<1>9. pc' = [pc EXCEPT ![t] = m] /\ hart' = [hart EXCEPT ![c] = k]
  BY <1>4, <1>6, <1>8, ZenonT(30) DEF KernelReturn, Goto, SetHart
<1> HIDE DEF k
<1>10. HartTo(c, t, m)
  BY <1>7, <1>8, <1>9, ToHart, ZenonT(30)
<1>11. hart'[c].sie /\ hart'[c].stvec = "kernelvec"
  <2>1. hart \in [Cpu -> HartType]
    BY ZenonT(30) DEF Inv, TrapType
  <2> HIDE DEF a
  <2> QED BY <1>8, <1>9, <2>1, ZenonT(30)
<1> QED BY <1>2, <1>5, <1>6, <1>9, <1>10, <1>11, ZenonT(30) DEF ReturnKernel, Moves, KernelReturn

\* A trap from user space
LEMMA IsUserTrap ==
    ASSUME Inv, NEW c \in Cpu, NEW p \in Proc, stack[c] = p, pc[p] = "user",
           NEW why \in {"ecall", "timer"}, Trap(c, why)
    PROVE  \E m \in Label, a \in Addr : UserTrap(c, p, m, a)
<1> DEFINE b == <<p, "user">>
           h == TrapEntry(hart[c], "U", b)
           k == w_stvec(Saved(h), "kernelvec")
<1>1. At(c, p, "user")
  BY ZenonT(30) DEF Trap, At
<1>2. p \in Thread /\ hart[c] \in HartType /\ HartOk(hart[c], p, "user", epc)
  BY <1>1, Here, ZenonT(30)
<1>3. hart[c].stvec = "uservec"
  BY <1>2 DEF HartOk
<1>4. b \in Addr /\ <<p, "user+4">> \in Addr
  BY <1>2 DEF Addr, Label
<1>5. /\ h.spp = "U" /\ h.sepc = b /\ k \in HartType /\ intr_on(k) \in HartType
      /\ \A m \in {"tick", "yield"} : HartOk(k, p, m, epc')
      /\ HartOk(intr_on(k), p, "syscall", epc')
  <2> DEFINE x == hart[c]
             y == TrapEntry(x, "U", b)
             g == Saved(y)
             z == w_stvec(g, "kernelvec")
             i == intr_on(z)
  <2>1. x \in HartType /\ HartOk(x, p, "user", epc)
    BY <1>2
  <2> HIDE DEF x, b
  <2>2. y \in HartType
    BY <1>4, <2>1, ZenonT(30) DEF HartType, TrapEntry
  <2>3. y.spp = "U" /\ y.sepc = b /\ y.sie = FALSE /\ y.noff = x.noff
    BY <1>4, <2>1 DEF HartType, TrapEntry
  <2> HIDE DEF y
  <2>4. g \in HartType /\ g.sie = FALSE /\ g.noff = x.noff
    BY <2>2, <2>3, SavedRegs, ZenonT(30)
  <2> HIDE DEF g
  <2>5. z \in HartType /\ z.sie = FALSE /\ z.noff = x.noff /\ z.stvec = "kernelvec"
    BY <2>4, Stvec
  <2> HIDE DEF z
  <2>6. i \in HartType /\ i.sie = TRUE /\ i.noff = x.noff /\ i.stvec = "kernelvec"
    BY <2>5, IntrOn, ZenonT(30)
  <2> HIDE DEF i
  <2>7. ASSUME NEW m \in {"tick", "yield"} PROVE HartOk(z, p, m, epc')
    BY <2>1, <2>5 DEF HartType, HartOk, Noff, Open, Enabled, HoldsP, HoldsTicks
  <2>8. HartOk(i, p, "syscall", epc')
    BY <2>1, <2>6 DEF HartType, HartOk, Noff, Open, Enabled, HoldsP, HoldsTicks
  <2> QED BY <2>3, <2>5, <2>6, <2>7, <2>8, ZenonT(30) DEF x, y, g, z, i
<1>6. /\ usertrap(c, p, h, why)
      /\ back' = [back EXCEPT ![p] = Append(@, <<p, IF why = "ecall" THEN "user+4" ELSE "user">>)]
      /\ UNCHANGED <<procs, locks, cpus, clock, intena>>
  BY <1>3, ZenonT(30) DEF Trap, Mode
<1>7. panic' = "" /\ panic = ""
  BY <1>5, <1>6, ZenonT(30) DEF usertrap, Trap
<1>8. CASE why = "ecall"
  <2>1. hart' = [hart EXCEPT ![c] = intr_on(k)]
    BY <1>6, <1>8, ZenonT(30) DEF usertrap, SetHart
  <2>2. HartTo(c, p, "syscall")
    <3> HIDE DEF k
    <3> QED BY <1>5, <2>1, ToHart, ZenonT(30)
  <2>3. UserTrap(c, p, "syscall", <<p, "user+4">>)
    BY <1>6, <1>7, <1>8, <2>2, ZenonT(30) DEF usertrap, UserTrap, Moves, Goto
  <2> QED BY <1>4, <2>3 DEF Label
<1>9. CASE why # "ecall"
  <2> DEFINE m == devintr(c, p)
  <2>1. m \in {"tick", "yield"}
    <3>1. Handled(c, p) = "yield"
      BY <1>2, Names, HandledIs
    <3> QED BY <3>1 DEF devintr
  <2>2. hart' = [hart EXCEPT ![c] = k] /\ epc' = [epc EXCEPT ![p] = b]
    BY <1>5, <1>6, <1>9, ZenonT(30) DEF usertrap, SetHart
  <2>3. pc' = [pc EXCEPT ![p] = m] /\ frame' = frame
    BY <1>6, <1>9, ZenonT(30) DEF usertrap, Goto
  <2> HIDE DEF m
  <2>4. HartTo(c, p, m)
    <3> HIDE DEF k
    <3> QED BY <1>5, <2>1, <2>2, ToHart, ZenonT(30)
  <2>5. UserTrap(c, p, m, b)
    BY <1>6, <1>7, <1>9, <2>1, <2>2, <2>3, <2>4, ZenonT(30) DEF UserTrap, Moves
  <2> QED BY <1>4, <2>1, <2>5 DEF Label
<1> QED BY <1>8, <1>9

\* A trap from the kernel
LEMMA IsKernelTrap ==
    ASSUME Inv, NEW c \in Cpu, NEW t \in Thread, stack[c] = t, pc[t] # "user",
           NEW why \in {"ecall", "timer"}, Trap(c, why)
    PROVE  \E l, m \in Label : KernelTrap(c, t, l, m)
<1> DEFINE l == pc[t]
           m == devintr(c, t)
           a == <<t, l>>
           h == TrapEntry(hart[c], "S", a)
           k == Saved(h)
<1>1. At(c, t, l)
  BY ZenonT(30) DEF Trap, At
<1>2. l \in Label /\ hart[c] \in HartType /\ HartOk(hart[c], t, l, epc)
  BY <1>1, Here, ZenonT(30)
<1>3. why # "ecall" /\ hart[c].sie
  BY ZenonT(30) DEF Trap, Mode
<1>4. l \in Open \ {"user"} /\ hart[c].stvec = "kernelvec"
  BY <1>2, <1>3 DEF HartOk, Open
<1>5. t \in Cpu <=> l = "scan"
  <2>1. LabelInv
    BY ZenonT(30) DEF Inv
  <2> QED BY <1>4, <2>1, Names DEF LabelInv, CpuLabel, ProcLabel, Open
<1>6. m \in {"tick", "yield", "kret"} /\ (m = "tick" \/ m = IF t \in Proc THEN "yield" ELSE "kret")
  <2>1. Handled(c, t) = IF t \in Proc THEN "yield" ELSE "kret"
    BY <1>4, HandledIs DEF Open
  <2> QED BY <2>1 DEF devintr
<1>7. a \in Addr
  BY <1>2 DEF Addr
<1>8. /\ h.spp = "S" /\ h.spie = TRUE /\ h.sie = FALSE /\ h.sepc = a /\ k \in HartType
      /\ HartOk(k, t, m, epc)
  <2> DEFINE x == hart[c]
             y == TrapEntry(x, "S", a)
             z == Saved(y)
  <2>1. x \in HartType /\ HartOk(x, t, l, epc) /\ x.sie = TRUE
    BY <1>2, <1>3 DEF HartType
  <2> HIDE DEF x, a, m, l
  <2>2. y \in HartType
    BY <1>7, <2>1, ZenonT(30) DEF HartType, TrapEntry
  <2>3. /\ y.spp = "S" /\ y.spie = TRUE /\ y.sie = FALSE /\ y.sepc = a
        /\ y.noff = x.noff /\ y.stvec = x.stvec
    BY <1>7, <2>1 DEF HartType, TrapEntry
  <2> HIDE DEF y
  <2>4. z \in HartType /\ z.sie = FALSE /\ z.noff = x.noff /\ z.stvec = x.stvec
    BY <2>2, <2>3, SavedRegs, ZenonT(30)
  <2> HIDE DEF z
  <2>5. HartOk(z, t, m, epc)
    BY <1>4, <1>6, <2>1, <2>4 DEF HartType, HartOk, Noff, Open, Enabled, HoldsP, HoldsTicks
  <2> QED BY <2>3, <2>4, <2>5, ZenonT(30) DEF x, y, z
<1>9. /\ kerneltrap(c, t, h)
      /\ back' = [back EXCEPT ![t] = Append(@, a)]
      /\ UNCHANGED <<procs, locks, cpus, clock, intena>>
  BY <1>3, <1>4, ZenonT(30) DEF Trap, Mode
<1>10. /\ panic' = "" /\ panic = "" /\ epc' = epc
       /\ frame' = [frame EXCEPT ![t] = [sepc |-> a, spie |-> TRUE, spp |-> "S"]]
  BY <1>8, <1>9, ZenonT(30) DEF kerneltrap, Trap
<1>11. hart' = [hart EXCEPT ![c] = k] /\ pc' = [pc EXCEPT ![t] = m]
  BY <1>9, ZenonT(30) DEF kerneltrap, SetHart, Goto
<1> HIDE DEF k, m
<1>12. HartTo(c, t, m)
  BY <1>8, <1>10, <1>11, ToHart, ZenonT(30)
<1>13. KernelTrap(c, t, l, m)
  BY <1>4, <1>5, <1>6, <1>9, <1>10, <1>11, <1>12, ZenonT(30) DEF KernelTrap, Moves
<1> QED BY <1>2, <1>6, <1>13 DEF Label

\* Every step is one of these.
LEMMA Cases ==
    ASSUME Inv, Next PROVE Step
<1>1. PICK c \in Cpu : \/ Scheduler(c) \/ OnStack(c) \/ Ecall(c) \/ TimerInterrupt(c)
                       \/ \E p, q \in Proc : Kill(c, p, q)
  BY DEF Next
<1> DEFINE
      S1 == \E t \in Thread, l, m \in Label : Quiet(c, t, l, m) \/ KernelTrap(c, t, l, m)
      S2 == \E t \in Thread, m \in Label : ClockEnd(c, t, m) \/ ReturnKernel(c, t, m)
      S3 == \/ \E t \in Thread : ClockBegin(c, t)
            \/ \E t \in Thread, p \in Proc : ClockRound(c, t, p)
      S4 == \E p \in Proc, m \in Label, a \in Addr : UserTrap(c, p, m, a)
      S5 == \E p \in Proc : \/ Run(c, p) \/ Release(c, p) \/ ReturnUser(c, p) \/ First(c, p)
                            \/ TickCame(c, p) \/ NoTick(c, p) \/ LockSelf(c, p)
                            \/ UnlockTicks(c, p) \/ Yields(c, p)
      S6 == \E p \in Proc, m \in Label : SwitchOff(c, p, m) \/ SwitchedOn(c, p, m)
      S7 == \E p, q \in Proc : Kills(c, p, q)
<1> SUFFICES S1 \/ S2 \/ S3 \/ S4 \/ S5 \/ S6 \/ S7
  BY ZenonT(30) DEF Step
<1>l. {"main", "scan", "spin", "ret", "sret", "syscall", "slept_on", "slept", "yielded", "yield", "kret"} \subseteq Label
  BY DEF Label
<1>t. stack[c] \in Thread /\ pc[stack[c]] \in Label /\ sp[c] \in Proc /\ c \in Thread
  <2>1. stack \in [Cpu -> Thread] /\ pc \in [Thread -> Label] /\ sp \in [Cpu -> Proc]
    BY ZenonT(30) DEF Inv, RunType
  <2> QED BY <2>1, Names
<1>2. CASE Scheduler(c)
  <2>1. CASE Boot(c)
    <3>1. Quiet(c, c, "main", "scan")
      BY <2>1, IsBoot, ZenonT(30)
    <3> QED BY <3>1, <1>l, <1>t, ZenonT(30)
  <2>2. CASE SchedPushOff(c)
    <3>1. Quiet(c, c, "scan", "spin")
      BY <2>2, IsSchedPushOff, ZenonT(30)
    <3> QED BY <3>1, <1>l, <1>t, ZenonT(30)
  <2>3. CASE SchedRun(c)
    <3>1. Run(c, sp[c])
      BY <2>3, <1>t, IsSchedRun, ZenonT(30)
    <3> QED BY <3>1, <1>t, ZenonT(30)
  <2>4. CASE SchedRelease(c)
    <3>1. PICK l \in {"spin", "swtched"} : At(c, c, l)
      BY <2>4, ZenonT(30) DEF SchedRelease
    <3>2. Release(c, sp[c])
      BY <2>4, <3>1, <1>t, IsSchedRelease, ZenonT(30)
    <3> QED BY <3>2, <1>t, ZenonT(30)
  <2> QED BY <1>2, <2>1, <2>2, <2>3, <2>4, ZenonT(30) DEF Scheduler
<1>3. ASSUME NEW t \in Thread, Handler(c, t) PROVE S1 \/ S2 \/ S3 \/ S4 \/ S5 \/ S6 \/ S7
  <2>1. CASE ClockAcquire(c, t)
    BY <2>1, IsClockAcquire, ZenonT(30)
  <2>2. CASE ClockRelease(c, t)
    <3> DEFINE m == IF t \in Proc THEN "yield" ELSE "kret"
    <3>1. m \in Label
      BY <1>l
    <3> HIDE DEF m
    <3>2. ClockEnd(c, t, m)
      BY <2>2, IsClockRelease, ZenonT(30) DEF m
    <3> QED BY <3>1, <3>2, ZenonT(30)
  <2>3. CASE KernelReturn(c, t)
    <3>1. \E m \in Label : ReturnKernel(c, t, m)
      BY <2>3, IsKernelReturn, ZenonT(30)
    <3> QED BY <3>1, ZenonT(30)
  <2>4. CASE \E p \in Proc : Wakeup(c, t, p)
    BY <2>4, IsWakeup, ZenonT(30)
  <2> QED BY <1>3, <2>1, <2>2, <2>3, <2>4, ZenonT(30) DEF Handler
<1>4. ASSUME NEW p \in Proc, Process(c, p) PROVE S1 \/ S2 \/ S3 \/ S4 \/ S5 \/ S6 \/ S7
  <2>1. CASE Forkret(c, p)
    BY <2>1, IsForkret, ZenonT(30)
  <2>2. CASE Syscall(c, p)
    <3>1. Quiet(c, p, "syscall", "ret")
      BY <2>2, IsSyscall, ZenonT(30)
    <3> QED BY <3>1, <1>l, Names, ZenonT(30)
  <2>3. CASE LockSwap(c, p)
    BY <2>3, IsTickCame, IsNoTick, ZenonT(30)
  <2>4. CASE SleepLock(c, p)
    BY <2>4, IsSleepLock, ZenonT(30)
  <2>5. CASE SleepUnlock(c, p)
    BY <2>5, IsSleepUnlock, ZenonT(30)
  <2>6. CASE Yield(c, p)
    BY <2>6, IsYield, ZenonT(30)
  <2>7. CASE Sched(c, p)
    <3>1. \/ At(c, p, "sleep_state") /\ SwitchOff(c, p, "slept")
          \/ At(c, p, "yield_sched") /\ SwitchOff(c, p, "yielded")
      <4>1. At(c, p, "sleep_state") \/ At(c, p, "yield_sched")
        BY <2>7, ZenonT(30) DEF Sched
      <4>2. CASE At(c, p, "sleep_state")
        BY <2>7, <4>2, IsSched
      <4>3. CASE At(c, p, "yield_sched")
        BY <2>7, <4>3, IsSched
      <4> QED BY <4>1, <4>2, <4>3
    <3> QED BY <3>1, <1>l, ZenonT(30)
  <2>8. CASE Resume(c, p)
    <3>1. At(c, p, "slept") \/ At(c, p, "yielded")
      BY <2>8, ZenonT(30) DEF Resume
    <3>2. CASE At(c, p, "slept")
      <4>1. SwitchedOn(c, p, "slept_on")
        BY <2>8, <3>2, IsResume, ZenonT(30)
      <4> QED BY <4>1, <1>l, ZenonT(30)
    <3>3. CASE At(c, p, "yielded") /\ frame[p] = NoFrame
      <4>1. SwitchedOn(c, p, "ret")
        BY <2>8, <3>3, IsResume, ZenonT(30)
      <4> QED BY <4>1, <1>l, ZenonT(30)
    <3>4. CASE At(c, p, "yielded") /\ frame[p] # NoFrame
      <4>1. SwitchedOn(c, p, "kret")
        BY <2>8, <3>4, IsResume, ZenonT(30)
      <4> QED BY <4>1, <1>l, ZenonT(30)
    <3> QED BY <3>1, <3>2, <3>3, <3>4
  <2>9. CASE Usertrapret(c, p)
    <3>1. Quiet(c, p, "ret", "sret")
      BY <2>9, IsUsertrapret, ZenonT(30)
    <3> QED BY <3>1, <1>l, Names, ZenonT(30)
  <2>10. CASE Userret(c, p)
    BY <2>10, IsUserret, ZenonT(30)
  <2> QED BY <1>4, <2>1, <2>2, <2>3, <2>4, <2>5, <2>6, <2>7, <2>8, <2>9, <2>10, ZenonT(30) DEF Process
<1>5. ASSUME NEW p \in Proc, LockPushOff(c, p) PROVE S1
  <2>1. PICK l \in {"syscall", "slept_on"} : At(c, p, l)
    BY <1>5, ZenonT(30) DEF LockPushOff
  <2>2. Quiet(c, p, l, "spin")
    BY <1>5, <2>1, IsLockPushOff, ZenonT(30)
  <2> QED BY <2>1, <2>2, <1>l, Names, ZenonT(30)
<1>6. ASSUME NEW why \in {"ecall", "timer"}, Trap(c, why) PROVE S1 \/ S4
  <2>1. CASE pc[stack[c]] = "user"
    <3>1. stack[c] \in Proc
      <4>1. LabelInv
        BY ZenonT(30) DEF Inv
      <4> QED BY <1>t, <2>1, <4>1 DEF LabelInv, CpuLabel, Thread
    <3>2. \E m \in Label, a \in Addr : UserTrap(c, stack[c], m, a)
      BY <1>6, <2>1, <3>1, IsUserTrap, ZenonT(30)
    <3> QED BY <3>1, <3>2, ZenonT(30)
  <2>2. CASE pc[stack[c]] # "user"
    <3>1. \E l, m \in Label : KernelTrap(c, stack[c], l, m)
      BY <1>6, <1>t, <2>2, IsKernelTrap, ZenonT(30)
    <3> QED BY <3>1, <1>t, ZenonT(30)
  <2> QED BY <2>1, <2>2
<1>7. ASSUME NEW p \in Proc, NEW q \in Proc, Kill(c, p, q) PROVE S7
  BY <1>7, IsKill, ZenonT(30)
<1>8. Ecall(c) \/ TimerInterrupt(c) => S1 \/ S4
  BY <1>6, ZenonT(30) DEF Ecall, TimerInterrupt
<1>9. OnStack(c) => S1 \/ S2 \/ S3 \/ S4 \/ S5 \/ S6 \/ S7
  <2> HIDE DEF S1, S2, S3, S4, S5, S6, S7
  <2> QED BY <1>3, <1>4, <1>5, ZenonT(30) DEF OnStack
<1> HIDE DEF S1, S2, S3, S4, S5, S6, S7
<1> QED BY <1>1, <1>2, <1>7, <1>8, <1>9, ZenonT(30)

-----------------------------------------------------------------------------
(* The theorems.                                                           *)

\* Every step keeps it.
LEMMA InvStep ==
    ASSUME Inv, [Next]_vars PROVE Inv'
<1>0. /\ RunType /\ TrapType /\ LabelInv /\ StackInv /\ StateInv /\ LockInv /\ HartInv /\ IntenaInv
      /\ FrameInv /\ BackInv /\ WakeInv /\ panic = ""
  BY ZenonT(30) DEF Inv
<1>1. CASE Next
  <2>1. Step
    BY <1>1, Cases, ZenonT(30)
  <2>2. RunType' /\ TrapType' /\ LabelInv' /\ StackInv' /\ StateInv' /\ LockInv'
    BY <1>0, <2>1, RunTypeStep, TrapTypeStep, LabelStep, StackStep, StateStep, LockStep, ZenonT(30)
  <2>3. HartInv' /\ IntenaInv' /\ FrameInv' /\ BackInv' /\ WakeInv' /\ panic' = ""
    BY <1>0, <2>1, HartStep, IntenaStep, FrameStep, BackStep, WakeStep, PanicStep, ZenonT(30)
  <2> QED BY <2>2, <2>3, ZenonT(30) DEF Inv
<1>2. CASE UNCHANGED vars
  <2>0. UNCHANGED <<started, state, chan, plock, lk, proc, stack, sp, pc, hart, epc, intena, frame,
                    todo, elapsed, back, panic>>
    BY <1>2, ZenonT(30) DEF vars, procs, locks, cpus, traps, clock
  <2>1. RunType' /\ TrapType'
    BY <1>0, <2>0, ZenonT(30) DEF RunType, TrapType
  <2>2. LabelInv' /\ StackInv' /\ StateInv' /\ LockInv'
    <3>1. LabelInv'
      BY <1>0, <2>0, ZenonT(30) DEF LabelInv
    <3>2. StackInv'
      BY <1>0, <2>0, ZenonT(30) DEF StackInv
    <3>3. StateInv'
      BY <1>0, <2>0, ZenonT(30) DEF StateInv
    <3>4. LockInv'
      <4>1. plock' = plock /\ stack' = stack /\ pc' = pc /\ sp' = sp /\ lk' = lk
        BY <2>0, ZenonT(30)
      <4> QED BY <1>0, <4>1, ZenonT(30) DEF LockInv
    <3> QED BY <3>1, <3>2, <3>3, <3>4
  <2>3. HartInv' /\ IntenaInv' /\ FrameInv' /\ WakeInv' /\ panic' = ""
    BY <1>0, <2>0, ZenonT(30) DEF HartInv, IntenaInv, FrameInv, WakeInv
  <2>4. BackInv'
    BY <1>0, <2>0, BackKept, ZenonT(30)
  <2> QED BY <2>1, <2>2, <2>3, <2>4, ZenonT(30) DEF Inv
<1> QED BY <1>1, <1>2

\* The invariant of scheduler(), sched(), sleep(), wakeup() and the traps.
THEOREM Invariance == Spec => []Inv
BY InvInit, InvStep, PTL DEF Spec

\* The spin-locks that a CPU holds are those that the place it is at says.
LEMMA HeldIs ==
    ASSUME Inv, NEW c \in Cpu
    PROVE  /\ \A p, q \in Proc : plock[p] = c /\ plock[q] = c => p = q
           /\ Held(c) = (IF pc[stack[c]] \in HoldsP \cup {"swtched"} THEN 1 ELSE 0)
                        + (IF pc[stack[c]] \in HoldsTicks THEN 1 ELSE 0)
<1> DEFINE t == stack[c]
           any == \E p \in Proc : plock[p] = c
<1>1. RunType /\ LabelInv /\ StackInv /\ LockInv
  BY ZenonT(30) DEF Inv
<1>2. lk = c <=> pc[t] \in HoldsTicks
  BY <1>1 DEF LockInv
<1>3. /\ any <=> pc[t] \in HoldsP \cup {"swtched"}
      /\ \A p, q \in Proc : plock[p] = c /\ plock[q] = c => p = q
  <2>1. CASE t \in Proc
    <3>1. \A p \in Proc : plock[p] = c <=> p = t /\ pc[t] \in HoldsP
      BY <1>1, <2>1, Names DEF LockInv
    <3>2. pc[t] # "swtched"
      BY <1>1, <2>1 DEF LabelInv, ProcLabel
    <3> QED BY <2>1, <3>1, <3>2
  <2>2. CASE t = c
    <3>1. \A p \in Proc : plock[p] = c <=> p = sp[c] /\ pc[c] = "swtched"
      BY <1>1, <2>2, Names DEF LockInv, RunType
    <3>2. pc[c] \notin HoldsP /\ sp[c] \in Proc
      BY <1>1, <2>2 DEF LabelInv, CpuLabel, HoldsP, RunType
    <3> QED BY <2>2, <3>1, <3>2
  <2> QED BY <1>1, <2>1, <2>2 DEF StackInv
<1>4. Held(c) = (IF any THEN 1 ELSE 0) + (IF lk = c THEN 1 ELSE 0)
  BY DEF Held
<1> HIDE DEF any, t
<1>5. Held(c) = (IF pc[t] \in HoldsP \cup {"swtched"} THEN 1 ELSE 0)
                + (IF pc[t] \in HoldsTicks THEN 1 ELSE 0)
  BY <1>2, <1>3, <1>4
<1> QED BY <1>3, <1>5, ZenonT(30) DEF t

\* noff counts the locks, and interrupts are off while it is not 0.
LEMMA LocksMask ==
    ASSUME Inv PROVE LocksMaskIntr
<1>1. RunType /\ LabelInv /\ StackInv /\ LockInv /\ HartInv
  BY ZenonT(30) DEF Inv
<1> SUFFICES ASSUME NEW c \in Cpu
             PROVE  /\ \A p, q \in Proc : plock[p] = c /\ plock[q] = c => p = q
                    /\ hart[c].noff = Held(c) + (IF pc[stack[c]] = "spin" THEN 1 ELSE 0)
                    /\ hart[c].sie => hart[c].noff = 0
                    /\ pc[stack[c]] = "tick" \/ (pc[stack[c]] = "spin" /\ stack[c] \in Proc) => lk # c
                    /\ pc[stack[c]] \in {"sleep", "yield"} => plock[stack[c]] # c
                    /\ pc[stack[c]] = "spin" /\ stack[c] \in Cpu => plock[sp[c]] # c
  BY ZenonT(30) DEF LocksMaskIntr
<1> DEFINE l == pc[stack[c]]
<1>2. /\ hart[c].noff = Noff(l) /\ (hart[c].sie => l \in Open)
  BY <1>1, ZenonT(30) DEF HartInv, HartOk
<1>3. Held(c) = (IF l \in HoldsP \cup {"swtched"} THEN 1 ELSE 0) + (IF l \in HoldsTicks THEN 1 ELSE 0)
  BY HeldIs
<1>4. lk = c <=> l \in HoldsTicks
  BY <1>1 DEF LockInv
<1>5. l \in {"sleep", "yield"} => plock[stack[c]] # c
  BY <1>1, Names DEF LockInv, RunType, LabelInv, CpuLabel, HoldsP
<1>6. l = "spin" /\ stack[c] \in Cpu => plock[sp[c]] # c
  BY <1>1, Names DEF LockInv, RunType, StackInv, HoldsP
<1> HIDE DEF l
<1>7. hart[c].noff = Held(c) + (IF l = "spin" THEN 1 ELSE 0)
  BY <1>2, <1>3 DEF Noff, HoldsP, HoldsTicks
<1>8. hart[c].sie => hart[c].noff = 0
  BY <1>2 DEF Noff, Open, HoldsP, HoldsTicks
<1>9. l = "tick" \/ (l = "spin" /\ stack[c] \in Proc) => lk # c
  BY <1>4 DEF HoldsTicks
<1>10. \A p, q \in Proc : plock[p] = c /\ plock[q] = c => p = q
  BY HeldIs, ZenonT(30)
<1> QED BY <1>5, <1>6, <1>7, <1>8, <1>9, <1>10, ZenonT(30) DEF l

\* sched() and scheduler(): no kernel stack is used by two CPUs, c->proc is the
\* process on c's stack, and noff counts the locks, for any number of CPUs.
THEOREM StacksAreOwned == Spec => []OneStack
<1>1. ASSUME Inv PROVE OneStack
  <2>1. RunType /\ TrapType /\ StackInv /\ HartInv
    BY <1>1, ZenonT(30) DEF Inv
  <2>2. ASSUME NEW c \in Cpu
        PROVE  hart[c].stvec \in {"none", "uservec", "kernelvec"} /\ hart[c].noff \in 0..2
    <3>1. hart[c] \in HartType /\ hart[c].noff = Noff(pc[stack[c]])
      BY <2>1, ZenonT(30) DEF TrapType, HartInv, HartOk
    <3> QED BY <3>1 DEF HartType, Noff
  <2>3. TypeOK
    BY <2>1, <2>2, ZenonT(30) DEF RunType, TypeOK
  <2>4. LocksMaskIntr
    BY <1>1, LocksMask, ZenonT(30)
  <2>5. \A c, d \in Cpu : c # d => stack[c] # stack[d]
    BY <2>1 DEF StackInv
  <2>6. ASSUME NEW c \in Cpu
        PROVE  proc[c] = (IF stack[c] \in Proc THEN stack[c] ELSE
                          IF pc[c] = "swtched" THEN proc[c] ELSE NoProc)
    BY <2>1, Names DEF StackInv
  <2> QED BY <2>3, <2>4, <2>5, <2>6, ZenonT(30) DEF OneStack
<1> QED BY <1>1, Invariance, PTL

\* sleep() and wakeup(): no wakeup is lost, for any number of CPUs and sleepers.
THEOREM WakeupsArrive == Spec => []NoLostWakeup
<1>1. ASSUME Inv PROVE NoLostWakeup
  <2>1. RunType /\ LockInv /\ WakeInv
    BY <1>1, ZenonT(30) DEF Inv
  <2>2. ASSUME lk = NoCpu, NEW c \in Cpu PROVE pc[stack[c]] # "wakeup"
    BY <2>1, <2>2, Names DEF LockInv, HoldsTicks
  <2> QED BY <2>1, <2>2 DEF NoLostWakeup, WakeInv
<1> QED BY <1>1, Invariance, PTL

\* usertrap(), kerneltrap() and usertrapret(): a thread goes on where each of
\* its traps took it, whatever else happens meanwhile, and none of the panics
\* of trap.c and sched() is reached.
THEOREM TrapsAreTransparent == Spec => TrapTransparent
<1>1. Inv => panic = ""
  BY ZenonT(30) DEF Inv
<1>2. Inv => \A c \in Cpu : pc[stack[c]] = "sret" =>
            /\ hart[c].sepc = Last(back[stack[c]]) /\ Len(back[stack[c]]) = 1
            /\ hart[c].stvec = "uservec" /\ hart[c].spp = "U" /\ hart[c].spie
  <2> SUFFICES ASSUME Inv, NEW c \in Cpu, pc[stack[c]] = "sret"
               PROVE  /\ hart[c].sepc = Last(back[stack[c]]) /\ Len(back[stack[c]]) = 1
                      /\ hart[c].stvec = "uservec" /\ hart[c].spp = "U" /\ hart[c].spie
    OBVIOUS
  <2> DEFINE t == stack[c]
  <2>1. RunType /\ LabelInv /\ HartInv /\ FrameInv /\ BackInv
    BY ZenonT(30) DEF Inv
  <2>2. t \in Proc /\ t \in Thread
    BY <2>1, Names DEF RunType, LabelInv, CpuLabel, Thread
  <2>3. frame[t] = NoFrame
    BY <2>1, <2>2 DEF FrameInv, InHandler
  <2>4. back[t] = <<epc[t]>>
    BY <2>1, <2>2, <2>3 DEF BackInv, Back
  <2>5. hart[c].sepc = epc[t] /\ hart[c].spp = "U" /\ hart[c].spie /\ hart[c].stvec = "uservec"
    BY <2>1 DEF HartInv, HartOk
  <2> QED BY <2>4, <2>5, ShortSeqs, ZenonT(30)
<1>3. Inv => \A t \in Thread : Len(back[t]) <= IF t \in Cpu THEN 1 ELSE 2
  <2> SUFFICES ASSUME Inv, NEW t \in Thread PROVE Len(back[t]) <= IF t \in Cpu THEN 1 ELSE 2
    OBVIOUS
  <2>1. back[t] = Back(t)
    BY ZenonT(30) DEF Inv, BackInv
  <2>2. /\ t \in Cpu => back[t] = <<>> \/ back[t] = <<frame[t].sepc>>
        /\ t \in Proc => back[t] = <<>> \/ back[t] = <<epc[t]>> \/ back[t] = <<epc[t], frame[t].sepc>>
    BY <2>1, Names, ZenonT(30) DEF Back
  <2>3. Len(<<>>) = 0 /\ Len(<<frame[t].sepc>>) = 1 /\ Len(<<epc[t]>>) = 1 /\ Len(<<epc[t], frame[t].sepc>>) = 2
    BY ShortSeqs, ZenonT(30)
  <2> DEFINE n == Len(back[t])
  <2>4. n \in {0, 1, 2} /\ (t \in Cpu => n \in {0, 1})
    BY <2>2, <2>3, Names, ZenonT(30)
  <2> HIDE DEF n
  <2>5. n <= IF t \in Cpu THEN 1 ELSE 2
    BY <2>4
  <2> QED BY <2>5 DEF n
<1>4. Inv /\ [Next]_vars =>
        [\A c \in Cpu : LET t == stack[c] IN pc[t] = "kret" /\ pc'[t] # "kret" =>
            <<t, pc'[t]>> = Last(back[t]) /\ hart'[c].sie /\ hart'[c].stvec = "kernelvec"]_vars
  <2> SUFFICES ASSUME Inv, Next PROVE ReturnsRight
    BY ZenonT(30) DEF ReturnsRight
  <2>1. RunType /\ StackInv /\ FrameInv /\ BackInv
    BY ZenonT(30) DEF Inv
  <2>2. Step
    BY Cases, ZenonT(30)
  <2> QED BY <2>1, <2>2, ReturnStep, ZenonT(30)
<1> QED BY <1>1, <1>2, <1>3, <1>4, Invariance, PTL DEF TrapTransparent, Spec
=============================================================================
