----------------------------- MODULE SchedKeeps ------------------------------
(***************************************************************************)
(* Each way in which a step of Sched changes the state keeps each part of  *)
(* its inductive invariant.                                                *)
(***************************************************************************)
EXTENDS SchedInv, TLAPS

\* Names.
LEMMA Names ==
    /\ Cpu \cap Proc = {} /\ NoProc \notin Proc /\ NoCpu \notin Cpu
    /\ Proc \subseteq Thread /\ Cpu \subseteq Thread
    /\ \A t \in Thread : t \in Cpu <=> t \notin Proc
BY SchedAssumption DEF Proc, NoProc, Thread

\* Equality of sequences.
LEMMA SameSeq ==
    ASSUME NEW S, NEW s \in Seq(S), NEW t \in Seq(S), Len(s) = Len(t),
           \A k \in 1..Len(s) : s[k] = t[k]
    PROVE  s = t
OBVIOUS

\* A second trap.
LEMMA AppendSecond ==
    ASSUME NEW e, NEW a
    PROVE  Append(<<e>>, a) = <<e, a>>
<1> DEFINE S == {e, a}
           s == <<e>>
           t == <<e, a>>
<1>1. s \in Seq(S) /\ t \in Seq(S) /\ a \in S
  OBVIOUS
<1>2. Len(s) = 1 /\ Len(t) = 2 /\ s[1] = e /\ t[1] = e /\ t[2] = a
  OBVIOUS
<1> HIDE DEF s, t, S
<1>3. Append(s, a) \in Seq(S) /\ Len(Append(s, a)) = 2 /\ Append(s, a)[1] = e /\ Append(s, a)[2] = a
  <2>1. /\ Append(s, a) \in Seq(S) /\ Len(Append(s, a)) = Len(s) + 1
        /\ \A k \in 1..Len(s) : Append(s, a)[k] = s[k]
        /\ Append(s, a)[Len(s) + 1] = a
    BY <1>1
  <2> QED BY <1>2, <2>1
<1>4. \A k \in 1..2 : Append(s, a)[k] = t[k]
  BY <1>2, <1>3
<1>5. Append(s, a) = t
  BY <1>1, <1>2, <1>3, <1>4, SameSeq, ZenonT(30)
<1> QED BY <1>5, ZenonT(30) DEF s, t

\* Back from the second trap.
LEMMA FrontOfTwo ==
    ASSUME NEW e, NEW a
    PROVE  Front(<<e, a>>) = <<e>>
<1> DEFINE S == {e, a}
           s == <<e>>
           t == <<e, a>>
<1>1. s \in Seq(S) /\ t \in Seq(S)
  OBVIOUS
<1>2. Len(s) = 1 /\ Len(t) = 2 /\ s[1] = e /\ t[1] = e
  OBVIOUS
<1> HIDE DEF s, t, S
<1>3. Front(t) \in Seq(S) /\ Len(Front(t)) = 1 /\ Front(t)[1] = e
  <2>1. Front(t) = SubSeq(t, 1, 1)
    BY <1>2 DEF Front
  <2>2. SubSeq(t, 1, 1) \in Seq(S) /\ Len(SubSeq(t, 1, 1)) = 1 /\ SubSeq(t, 1, 1)[1] = t[1]
    BY <1>1, <1>2
  <2> QED BY <1>2, <2>1, <2>2, ZenonT(30)
<1>4. \A k \in 1..1 : Front(t)[k] = s[k]
  BY <1>2, <1>3
<1>5. Front(t) = s
  BY <1>1, <1>2, <1>3, <1>4, SameSeq, ZenonT(30)
<1> QED BY <1>5, ZenonT(30) DEF s, t

\* Everything about at most two nested traps.
LEMMA ShortSeqs ==
    ASSUME NEW e, NEW a
    PROVE  /\ Append(<<>>, e) = <<e>> /\ Append(<<e>>, a) = <<e, a>>
           /\ Front(<<e>>) = <<>> /\ Front(<<e, a>>) = <<e>>
           /\ Last(<<e>>) = e /\ Last(<<e, a>>) = a
           /\ Len(<<>>) = 0 /\ Len(<<e>>) = 1 /\ Len(<<e, a>>) = 2
<1>1. Append(<<>>, e) = <<e>>
  OBVIOUS
<1>2. Front(<<e>>) = <<>>
  BY DEF Front
<1>3. Last(<<e>>) = e /\ Last(<<e, a>>) = a
  BY ZenonT(30) DEF Last
<1>4. Len(<<>>) = 0 /\ Len(<<e>>) = 1 /\ Len(<<e, a>>) = 2
  OBVIOUS
<1> QED BY <1>1, <1>2, <1>3, <1>4, AppendSecond, FrontOfTwo, ZenonT(30)

\* A RUNNABLE process whose lock is free is on no CPU.
LEMMA Parked ==
    ASSUME StateInv, LockInv, NEW p \in Proc, plock[p] = NoCpu, state[p] = "RUNNABLE"
    PROVE  pc[p] \in {"forkret", "slept", "yielded"} /\ \A c \in Cpu : stack[c] # p
<1>1. ASSUME NEW c \in Cpu, stack[c] = p PROVE FALSE
  <2>1. pc[p] = "yield_sched"
    BY <1>1, ZenonT(30) DEF StateInv
  <2>2. plock[p] = c
    BY <1>1, <2>1, ZenonT(30) DEF LockInv, HoldsP
  <2> QED BY <2>2, Names, ZenonT(30)
<1> QED BY <1>1, ZenonT(30) DEF StateInv

-----------------------------------------------------------------------------
(* Every step keeps every conjunct of the invariant.                       *)

\* Types.
LEMMA RunTypeStep ==
    ASSUME RunType, Step
    PROVE  RunType'
<1>1. ASSUME NEW c \in Cpu, NEW t \in Thread, NEW l \in Label, NEW m \in Label, Quiet(c, t, l, m) PROVE RunType'
  BY Names, <1>1, ZenonT(30) DEF RunType, Label, Quiet, Moves, procs, locks, cpus, traps, clock, QuietMove
<1>2. ASSUME NEW c \in Cpu, NEW p \in Proc, Run(c, p) PROVE RunType'
  BY Names, <1>2, ZenonT(30) DEF RunType, Label, Run, Moves, procs, locks, cpus, traps, clock
<1>3. ASSUME NEW c \in Cpu, NEW p \in Proc, Release(c, p) PROVE RunType'
  BY Names, <1>3 DEF RunType, Label, Release, Moves, procs, locks, cpus, traps, clock
<1>4. ASSUME NEW c \in Cpu, NEW p \in Proc, NEW m \in Label, NEW a \in Addr, UserTrap(c, p, m, a) PROVE RunType'
  BY Names, <1>4, ZenonT(30) DEF RunType, Label, UserTrap, Moves, procs, locks, cpus, traps, clock
<1>5. ASSUME NEW c \in Cpu, NEW t \in Thread, NEW l \in Label, NEW m \in Label, KernelTrap(c, t, l, m) PROVE RunType'
  BY Names, <1>5, ZenonT(30) DEF RunType, Label, KernelTrap, Moves, procs, locks, cpus, traps, clock
<1>6. ASSUME NEW c \in Cpu, NEW t \in Thread, ClockBegin(c, t) PROVE RunType'
  BY Names, <1>6, ZenonT(30) DEF RunType, Label, ClockBegin, Moves, procs, locks, cpus, traps, clock
<1>7. ASSUME NEW c \in Cpu, NEW t \in Thread, NEW p \in Proc, ClockRound(c, t, p) PROVE RunType'
  BY Names, <1>7, ZenonT(30) DEF RunType, Label, ClockRound, Moves, procs, locks, cpus, traps, clock
<1>8. ASSUME NEW c \in Cpu, NEW t \in Thread, NEW m \in Label, ClockEnd(c, t, m) PROVE RunType'
  BY Names, <1>8, ZenonT(30) DEF RunType, Label, ClockEnd, Moves, procs, locks, cpus, traps, clock
<1>9. ASSUME NEW c \in Cpu, NEW t \in Thread, NEW m \in Label, ReturnKernel(c, t, m) PROVE RunType'
  BY Names, <1>9, ZenonT(30) DEF RunType, Label, ReturnKernel, Moves, procs, locks, cpus, traps, clock
<1>10. ASSUME NEW c \in Cpu, NEW p \in Proc, ReturnUser(c, p) PROVE RunType'
  BY Names, <1>10, ZenonT(30) DEF RunType, Label, ReturnUser, Moves, procs, locks, cpus, traps, clock
<1>11. ASSUME NEW c \in Cpu, NEW p \in Proc, First(c, p) PROVE RunType'
  BY Names, <1>11, ZenonT(30) DEF RunType, Label, First, Moves, procs, locks, cpus, traps, clock
<1>12. ASSUME NEW c \in Cpu, NEW p \in Proc, NEW q \in Proc, Kills(c, p, q) PROVE RunType'
  BY Names, <1>12, ZenonT(30) DEF RunType, Label, Kills, Moves, procs, locks, cpus, traps, clock
<1>13. ASSUME NEW c \in Cpu, NEW p \in Proc, TickCame(c, p) PROVE RunType'
  BY Names, <1>13, ZenonT(30) DEF RunType, Label, TickCame, Moves, procs, locks, cpus, traps, clock
<1>14. ASSUME NEW c \in Cpu, NEW p \in Proc, NoTick(c, p) PROVE RunType'
  BY Names, <1>14, ZenonT(30) DEF RunType, Label, NoTick, Moves, procs, locks, cpus, traps, clock
<1>15. ASSUME NEW c \in Cpu, NEW p \in Proc, LockSelf(c, p) PROVE RunType'
  BY Names, <1>15, ZenonT(30) DEF RunType, Label, LockSelf, Moves, procs, locks, cpus, traps, clock
<1>16. ASSUME NEW c \in Cpu, NEW p \in Proc, UnlockTicks(c, p) PROVE RunType'
  BY Names, <1>16, ZenonT(30) DEF RunType, Label, UnlockTicks, Moves, procs, locks, cpus, traps, clock
<1>17. ASSUME NEW c \in Cpu, NEW p \in Proc, Yields(c, p) PROVE RunType'
  BY Names, <1>17, ZenonT(30) DEF RunType, Label, Yields, Moves, procs, locks, cpus, traps, clock
<1>18. ASSUME NEW c \in Cpu, NEW p \in Proc, NEW m \in Label, SwitchOff(c, p, m) PROVE RunType'
  <2>1. pc' = [pc EXCEPT ![p] = m] /\ stack' = [stack EXCEPT ![c] = c]
    BY <1>18, ZenonT(30) DEF SwitchOff, Moves
  <2>2. \/ chan' = [chan EXCEPT ![p] = TRUE] /\ state' = [state EXCEPT ![p] = "SLEEPING"]
        \/ chan' = chan /\ state' = state
    BY <1>18, ZenonT(30) DEF SwitchOff, procs
  <2>3. intena' \in [Proc -> BOOLEAN]
    <3> DEFINE b == m = "slept"
    <3>1. b \in BOOLEAN /\ intena' = [intena EXCEPT ![p] = b]
      BY <1>18, ZenonT(30) DEF SwitchOff
    <3> HIDE DEF b
    <3> QED BY <3>1, ZenonT(30) DEF RunType
  <2>4. UNCHANGED <<started, todo, elapsed, plock, lk, proc, sp>>
    BY <1>18, ZenonT(30) DEF SwitchOff, locks, clock
  <2> QED BY <2>1, <2>2, <2>3, <2>4, Names, ZenonT(30) DEF RunType
<1>19. ASSUME NEW c \in Cpu, NEW p \in Proc, NEW m \in Label, SwitchedOn(c, p, m) PROVE RunType'
  BY Names, <1>19 DEF RunType, Label, SwitchedOn, Moves, procs, locks, cpus, traps, clock
<1> QED BY <1>1, <1>2, <1>3, <1>4, <1>5, <1>6, <1>7, <1>8, <1>9, <1>10, <1>11, <1>12, <1>13, <1>14, <1>15, <1>16, <1>17, <1>18, <1>19, ZenonT(30) DEF Step

\* Labels.
LEMMA LabelStep ==
    ASSUME RunType, LabelInv, Step
    PROVE  LabelInv'
<1>1. ASSUME NEW c \in Cpu, NEW t \in Thread, NEW l \in Label, NEW m \in Label, Quiet(c, t, l, m) PROVE LabelInv'
  BY Names, <1>1, ZenonT(30) DEF RunType, LabelInv, CpuLabel, ProcLabel, Label, Quiet, Moves, procs, locks, cpus, traps, clock, QuietMove
<1>2. ASSUME NEW c \in Cpu, NEW p \in Proc, Run(c, p) PROVE LabelInv'
  BY Names, <1>2 DEF RunType, LabelInv, CpuLabel, ProcLabel, Label, Run, Moves, procs, locks, cpus, traps, clock
<1>3. ASSUME NEW c \in Cpu, NEW p \in Proc, Release(c, p) PROVE LabelInv'
  <2>1. pc' = [pc EXCEPT ![c] = "scan"]
    BY <1>3, ZenonT(30) DEF Release, Moves
  <2> QED BY <2>1, Names DEF RunType, LabelInv, CpuLabel, ProcLabel, Label
<1>4. ASSUME NEW c \in Cpu, NEW p \in Proc, NEW m \in Label, NEW a \in Addr, UserTrap(c, p, m, a) PROVE LabelInv'
  BY Names, <1>4, ZenonT(30) DEF RunType, LabelInv, CpuLabel, ProcLabel, Label, UserTrap, Moves, procs, locks, cpus, traps, clock
<1>5. ASSUME NEW c \in Cpu, NEW t \in Thread, NEW l \in Label, NEW m \in Label, KernelTrap(c, t, l, m) PROVE LabelInv'
  BY Names, <1>5, ZenonT(30) DEF RunType, LabelInv, CpuLabel, ProcLabel, Label, KernelTrap, Moves, procs, locks, cpus, traps, clock
<1>6. ASSUME NEW c \in Cpu, NEW t \in Thread, ClockBegin(c, t) PROVE LabelInv'
  BY Names, <1>6, ZenonT(30) DEF RunType, LabelInv, CpuLabel, ProcLabel, Label, ClockBegin, Moves, procs, locks, cpus, traps, clock
<1>7. ASSUME NEW c \in Cpu, NEW t \in Thread, NEW p \in Proc, ClockRound(c, t, p) PROVE LabelInv'
  BY Names, <1>7, ZenonT(30) DEF RunType, LabelInv, CpuLabel, ProcLabel, Label, ClockRound, Moves, procs, locks, cpus, traps, clock
<1>8. ASSUME NEW c \in Cpu, NEW t \in Thread, NEW m \in Label, ClockEnd(c, t, m) PROVE LabelInv'
  BY Names, <1>8 DEF RunType, LabelInv, CpuLabel, ProcLabel, Label, ClockEnd, Moves, procs, locks, cpus, traps, clock
<1>9. ASSUME NEW c \in Cpu, NEW t \in Thread, NEW m \in Label, ReturnKernel(c, t, m) PROVE LabelInv'
  <2>1. pc' = [pc EXCEPT ![t] = m] /\ m \in {"scan", "syscall", "slept_on", "ret"} /\ (t \in Cpu <=> m = "scan")
    BY <1>9, ZenonT(30) DEF ReturnKernel, Moves, Open
  <2> QED BY <2>1, Names DEF RunType, LabelInv, CpuLabel, ProcLabel, Label
<1>10. ASSUME NEW c \in Cpu, NEW p \in Proc, ReturnUser(c, p) PROVE LabelInv'
  BY Names, <1>10, ZenonT(30) DEF RunType, LabelInv, CpuLabel, ProcLabel, Label, ReturnUser, Moves, procs, locks, cpus, traps, clock
<1>11. ASSUME NEW c \in Cpu, NEW p \in Proc, First(c, p) PROVE LabelInv'
  BY Names, <1>11, ZenonT(30) DEF RunType, LabelInv, CpuLabel, ProcLabel, Label, First, Moves, procs, locks, cpus, traps, clock
<1>12. ASSUME NEW c \in Cpu, NEW p \in Proc, NEW q \in Proc, Kills(c, p, q) PROVE LabelInv'
  BY Names, <1>12, ZenonT(30) DEF RunType, LabelInv, CpuLabel, ProcLabel, Label, Kills, Moves, procs, locks, cpus, traps, clock
<1>13. ASSUME NEW c \in Cpu, NEW p \in Proc, TickCame(c, p) PROVE LabelInv'
  BY Names, <1>13 DEF RunType, LabelInv, CpuLabel, ProcLabel, Label, TickCame, Moves, procs, locks, cpus, traps, clock
<1>14. ASSUME NEW c \in Cpu, NEW p \in Proc, NoTick(c, p) PROVE LabelInv'
  BY Names, <1>14 DEF RunType, LabelInv, CpuLabel, ProcLabel, Label, NoTick, Moves, procs, locks, cpus, traps, clock
<1>15. ASSUME NEW c \in Cpu, NEW p \in Proc, LockSelf(c, p) PROVE LabelInv'
  BY Names, <1>15, ZenonT(30) DEF RunType, LabelInv, CpuLabel, ProcLabel, Label, LockSelf, Moves, procs, locks, cpus, traps, clock
<1>16. ASSUME NEW c \in Cpu, NEW p \in Proc, UnlockTicks(c, p) PROVE LabelInv'
  BY Names, <1>16, ZenonT(30) DEF RunType, LabelInv, CpuLabel, ProcLabel, Label, UnlockTicks, Moves, procs, locks, cpus, traps, clock
<1>17. ASSUME NEW c \in Cpu, NEW p \in Proc, Yields(c, p) PROVE LabelInv'
  BY Names, <1>17, ZenonT(30) DEF RunType, LabelInv, CpuLabel, ProcLabel, Label, Yields, Moves, procs, locks, cpus, traps, clock
<1>18. ASSUME NEW c \in Cpu, NEW p \in Proc, NEW m \in Label, SwitchOff(c, p, m) PROVE LabelInv'
  BY Names, <1>18 DEF RunType, LabelInv, CpuLabel, ProcLabel, Label, SwitchOff, Moves, procs, locks, cpus, traps, clock
<1>19. ASSUME NEW c \in Cpu, NEW p \in Proc, NEW m \in Label, SwitchedOn(c, p, m) PROVE LabelInv'
  <2>1. pc' = [pc EXCEPT ![p] = m] /\ m \in {"slept_on", "ret", "kret"}
    BY <1>19, ZenonT(30) DEF SwitchedOn, Moves
  <2> QED BY <2>1, Names DEF RunType, LabelInv, CpuLabel, ProcLabel, Label
<1> QED BY <1>1, <1>2, <1>3, <1>4, <1>5, <1>6, <1>7, <1>8, <1>9, <1>10, <1>11, <1>12, <1>13, <1>14, <1>15, <1>16, <1>17, <1>18, <1>19, ZenonT(30) DEF Step

\* What a trap saves.
LEMMA FrameTypes ==
    /\ NoFrame \in FrameType
    /\ \A t \in Thread, l \in Label : <<t, l>> \in Addr /\ [sepc |-> <<t, l>>, spie |-> TRUE, spp |-> "S"] \in FrameType
    /\ \A p \in Proc : <<p, "user">> \in Addr
<1>1. NoFrame \in FrameType
  BY ZenonT(30) DEF NoFrame, FrameType, Addr
<1>2. \A t \in Thread, l \in Label : <<t, l>> \in Addr
  BY ZenonT(30) DEF Addr
<1>3. ASSUME NEW t \in Thread, NEW l \in Label PROVE [sepc |-> <<t, l>>, spie |-> TRUE, spp |-> "S"] \in FrameType
  <2> DEFINE a == <<t, l>>
  <2>1. a \in Addr
    BY <1>2, ZenonT(30)
  <2> HIDE DEF a
  <2>2. [sepc |-> a, spie |-> TRUE, spp |-> "S"] \in FrameType
    BY <2>1, ZenonT(30) DEF FrameType
  <2> QED BY <2>2, ZenonT(30) DEF a
<1>4. \A p \in Proc : <<p, "user">> \in Addr
  <2>1. "user" \in Label
    BY ZenonT(30) DEF Label
  <2> QED BY <1>2, <2>1, Names, ZenonT(30)
<1> QED BY <1>1, <1>2, <1>3, <1>4, ZenonT(30)

\* Types of what traps save.
LEMMA TrapTypeStep ==
    ASSUME TrapType, Step
    PROVE  TrapType'
<1>1. ASSUME NEW c \in Cpu, NEW t \in Thread, NEW l \in Label, NEW m \in Label, Quiet(c, t, l, m) PROVE TrapType'
  BY <1>1, ZenonT(30) DEF TrapType, HartTo, Quiet, Moves, procs, locks, cpus, traps, clock, QuietMove
<1>2. ASSUME NEW c \in Cpu, NEW p \in Proc, Run(c, p) PROVE TrapType'
  BY <1>2, ZenonT(30) DEF TrapType, HartTo, Run, Moves, procs, locks, cpus, traps, clock
<1>3. ASSUME NEW c \in Cpu, NEW p \in Proc, Release(c, p) PROVE TrapType'
  BY <1>3, ZenonT(30) DEF TrapType, HartTo, Release, Moves, procs, locks, cpus, traps, clock
<1>4. ASSUME NEW c \in Cpu, NEW p \in Proc, NEW m \in Label, NEW a \in Addr, UserTrap(c, p, m, a) PROVE TrapType'
  BY <1>4, ZenonT(30) DEF TrapType, HartTo, UserTrap, Moves, procs, locks, cpus, traps, clock
<1>5. ASSUME NEW c \in Cpu, NEW t \in Thread, NEW l \in Label, NEW m \in Label, KernelTrap(c, t, l, m) PROVE TrapType'
  <2>1. frame' \in [Thread -> FrameType]
    <3> DEFINE f == [sepc |-> <<t, l>>, spie |-> TRUE, spp |-> "S"]
    <3>1. f \in FrameType
      BY FrameTypes, ZenonT(30)
    <3>2. frame' = [frame EXCEPT ![t] = f]
      BY <1>5, ZenonT(30) DEF KernelTrap
    <3> HIDE DEF f
    <3> QED BY <3>1, <3>2, ZenonT(30) DEF TrapType
  <2>2. epc' \in [Proc -> Addr] /\ hart' \in [Cpu -> HartType]
    BY <1>5, ZenonT(30) DEF TrapType, KernelTrap, HartTo
  <2> QED BY <2>1, <2>2, ZenonT(30) DEF TrapType
<1>6. ASSUME NEW c \in Cpu, NEW t \in Thread, ClockBegin(c, t) PROVE TrapType'
  BY <1>6, ZenonT(30) DEF TrapType, HartTo, ClockBegin, Moves, procs, locks, cpus, traps, clock
<1>7. ASSUME NEW c \in Cpu, NEW t \in Thread, NEW p \in Proc, ClockRound(c, t, p) PROVE TrapType'
  BY <1>7, ZenonT(30) DEF TrapType, HartTo, ClockRound, Moves, procs, locks, cpus, traps, clock
<1>8. ASSUME NEW c \in Cpu, NEW t \in Thread, NEW m \in Label, ClockEnd(c, t, m) PROVE TrapType'
  BY <1>8, ZenonT(30) DEF TrapType, HartTo, ClockEnd, Moves, procs, locks, cpus, traps, clock
<1>9. ASSUME NEW c \in Cpu, NEW t \in Thread, NEW m \in Label, ReturnKernel(c, t, m) PROVE TrapType'
  <2>1. frame' \in [Thread -> FrameType]
    BY <1>9, FrameTypes, ZenonT(30) DEF ReturnKernel, TrapType
  <2>2. epc' \in [Proc -> Addr] /\ hart' \in [Cpu -> HartType]
    BY <1>9, ZenonT(30) DEF TrapType, ReturnKernel, HartTo
  <2> QED BY <2>1, <2>2, ZenonT(30) DEF TrapType
<1>10. ASSUME NEW c \in Cpu, NEW p \in Proc, ReturnUser(c, p) PROVE TrapType'
  <2>1. epc' \in [Proc -> Addr]
    BY <1>10, FrameTypes, ZenonT(30) DEF ReturnUser, TrapType
  <2>2. frame' \in [Thread -> FrameType] /\ hart' \in [Cpu -> HartType]
    BY <1>10, ZenonT(30) DEF TrapType, ReturnUser, HartTo
  <2> QED BY <2>1, <2>2, ZenonT(30) DEF TrapType
<1>11. ASSUME NEW c \in Cpu, NEW p \in Proc, First(c, p) PROVE TrapType'
  BY <1>11, ZenonT(30) DEF TrapType, HartTo, First, Moves, procs, locks, cpus, traps, clock
<1>12. ASSUME NEW c \in Cpu, NEW p \in Proc, NEW q \in Proc, Kills(c, p, q) PROVE TrapType'
  BY <1>12, ZenonT(30) DEF TrapType, HartTo, Kills, Moves, procs, locks, cpus, traps, clock
<1>13. ASSUME NEW c \in Cpu, NEW p \in Proc, TickCame(c, p) PROVE TrapType'
  BY <1>13, ZenonT(30) DEF TrapType, HartTo, TickCame, Moves, procs, locks, cpus, traps, clock
<1>14. ASSUME NEW c \in Cpu, NEW p \in Proc, NoTick(c, p) PROVE TrapType'
  BY <1>14, ZenonT(30) DEF TrapType, HartTo, NoTick, Moves, procs, locks, cpus, traps, clock
<1>15. ASSUME NEW c \in Cpu, NEW p \in Proc, LockSelf(c, p) PROVE TrapType'
  BY <1>15, ZenonT(30) DEF TrapType, HartTo, LockSelf, Moves, procs, locks, cpus, traps, clock
<1>16. ASSUME NEW c \in Cpu, NEW p \in Proc, UnlockTicks(c, p) PROVE TrapType'
  BY <1>16, ZenonT(30) DEF TrapType, HartTo, UnlockTicks, Moves, procs, locks, cpus, traps, clock
<1>17. ASSUME NEW c \in Cpu, NEW p \in Proc, Yields(c, p) PROVE TrapType'
  BY <1>17, ZenonT(30) DEF TrapType, HartTo, Yields, Moves, procs, locks, cpus, traps, clock
<1>18. ASSUME NEW c \in Cpu, NEW p \in Proc, NEW m \in Label, SwitchOff(c, p, m) PROVE TrapType'
  BY <1>18, ZenonT(30) DEF TrapType, HartTo, SwitchOff, Moves, procs, locks, cpus, traps, clock
<1>19. ASSUME NEW c \in Cpu, NEW p \in Proc, NEW m \in Label, SwitchedOn(c, p, m) PROVE TrapType'
  BY <1>19, ZenonT(30) DEF TrapType, HartTo, SwitchedOn, Moves, procs, locks, cpus, traps, clock
<1> QED BY <1>1, <1>2, <1>3, <1>4, <1>5, <1>6, <1>7, <1>8, <1>9, <1>10, <1>11, <1>12, <1>13, <1>14, <1>15, <1>16, <1>17, <1>18, <1>19, ZenonT(30) DEF Step

\* Stacks.
LEMMA StackStep ==
    ASSUME RunType, StackInv, StateInv, LockInv, Step
    PROVE  StackInv'
<1>1. ASSUME NEW c \in Cpu, NEW t \in Thread, NEW l \in Label, NEW m \in Label, Quiet(c, t, l, m) PROVE StackInv'
  BY Names, <1>1, ZenonT(30) DEF RunType, StackInv, Label, Quiet, Moves, procs, locks, cpus, traps, clock, QuietMove
<1>2. ASSUME NEW c \in Cpu, NEW p \in Proc, Run(c, p) PROVE StackInv'
  <2>1. \A d \in Cpu : stack[d] # p
    BY <1>2, Parked, ZenonT(30) DEF Run
  <2>2. /\ stack' = [stack EXCEPT ![c] = p] /\ proc' = [proc EXCEPT ![c] = p]
        /\ pc' = [pc EXCEPT ![c] = "swtched"] /\ sp' = sp /\ sp[c] = p
    BY <1>2, ZenonT(30) DEF Run, Moves
  <2> QED BY <2>1, <2>2, Names DEF RunType, StackInv
<1>3. ASSUME NEW c \in Cpu, NEW p \in Proc, Release(c, p) PROVE StackInv'
  BY Names, <1>3 DEF RunType, StackInv, Label, Release, Moves, procs, locks, cpus, traps, clock
<1>4. ASSUME NEW c \in Cpu, NEW p \in Proc, NEW m \in Label, NEW a \in Addr, UserTrap(c, p, m, a) PROVE StackInv'
  BY Names, <1>4, ZenonT(30) DEF RunType, StackInv, Label, UserTrap, Moves, procs, locks, cpus, traps, clock
<1>5. ASSUME NEW c \in Cpu, NEW t \in Thread, NEW l \in Label, NEW m \in Label, KernelTrap(c, t, l, m) PROVE StackInv'
  BY Names, <1>5, ZenonT(30) DEF RunType, StackInv, Label, KernelTrap, Moves, procs, locks, cpus, traps, clock
<1>6. ASSUME NEW c \in Cpu, NEW t \in Thread, ClockBegin(c, t) PROVE StackInv'
  BY Names, <1>6, ZenonT(30) DEF RunType, StackInv, Label, ClockBegin, Moves, procs, locks, cpus, traps, clock
<1>7. ASSUME NEW c \in Cpu, NEW t \in Thread, NEW p \in Proc, ClockRound(c, t, p) PROVE StackInv'
  BY Names, <1>7, ZenonT(30) DEF RunType, StackInv, Label, ClockRound, Moves, procs, locks, cpus, traps, clock
<1>8. ASSUME NEW c \in Cpu, NEW t \in Thread, NEW m \in Label, ClockEnd(c, t, m) PROVE StackInv'
  BY Names, <1>8, ZenonT(30) DEF RunType, StackInv, Label, ClockEnd, Moves, procs, locks, cpus, traps, clock
<1>9. ASSUME NEW c \in Cpu, NEW t \in Thread, NEW m \in Label, ReturnKernel(c, t, m) PROVE StackInv'
  BY Names, <1>9, ZenonT(30) DEF RunType, StackInv, Label, ReturnKernel, Moves, procs, locks, cpus, traps, clock
<1>10. ASSUME NEW c \in Cpu, NEW p \in Proc, ReturnUser(c, p) PROVE StackInv'
  BY Names, <1>10, ZenonT(30) DEF RunType, StackInv, Label, ReturnUser, Moves, procs, locks, cpus, traps, clock
<1>11. ASSUME NEW c \in Cpu, NEW p \in Proc, First(c, p) PROVE StackInv'
  BY Names, <1>11, ZenonT(30) DEF RunType, StackInv, Label, First, Moves, procs, locks, cpus, traps, clock
<1>12. ASSUME NEW c \in Cpu, NEW p \in Proc, NEW q \in Proc, Kills(c, p, q) PROVE StackInv'
  BY Names, <1>12, ZenonT(30) DEF RunType, StackInv, Label, Kills, Moves, procs, locks, cpus, traps, clock
<1>13. ASSUME NEW c \in Cpu, NEW p \in Proc, TickCame(c, p) PROVE StackInv'
  BY Names, <1>13, ZenonT(30) DEF RunType, StackInv, Label, TickCame, Moves, procs, locks, cpus, traps, clock
<1>14. ASSUME NEW c \in Cpu, NEW p \in Proc, NoTick(c, p) PROVE StackInv'
  BY Names, <1>14, ZenonT(30) DEF RunType, StackInv, Label, NoTick, Moves, procs, locks, cpus, traps, clock
<1>15. ASSUME NEW c \in Cpu, NEW p \in Proc, LockSelf(c, p) PROVE StackInv'
  BY Names, <1>15, ZenonT(30) DEF RunType, StackInv, Label, LockSelf, Moves, procs, locks, cpus, traps, clock
<1>16. ASSUME NEW c \in Cpu, NEW p \in Proc, UnlockTicks(c, p) PROVE StackInv'
  BY Names, <1>16, ZenonT(30) DEF RunType, StackInv, Label, UnlockTicks, Moves, procs, locks, cpus, traps, clock
<1>17. ASSUME NEW c \in Cpu, NEW p \in Proc, Yields(c, p) PROVE StackInv'
  BY Names, <1>17, ZenonT(30) DEF RunType, StackInv, Label, Yields, Moves, procs, locks, cpus, traps, clock
<1>18. ASSUME NEW c \in Cpu, NEW p \in Proc, NEW m \in Label, SwitchOff(c, p, m) PROVE StackInv'
  BY Names, <1>18 DEF RunType, StackInv, Label, SwitchOff, Moves, procs, locks, cpus, traps, clock
<1>19. ASSUME NEW c \in Cpu, NEW p \in Proc, NEW m \in Label, SwitchedOn(c, p, m) PROVE StackInv'
  BY Names, <1>19, ZenonT(30) DEF RunType, StackInv, Label, SwitchedOn, Moves, procs, locks, cpus, traps, clock
<1> QED BY <1>1, <1>2, <1>3, <1>4, <1>5, <1>6, <1>7, <1>8, <1>9, <1>10, <1>11, <1>12, <1>13, <1>14, <1>15, <1>16, <1>17, <1>18, <1>19, ZenonT(30) DEF Step

\* States.
LEMMA StateStep ==
    ASSUME RunType, LabelInv, StackInv, StateInv, LockInv, Step
    PROVE  StateInv'
<1>1. ASSUME NEW c \in Cpu, NEW t \in Thread, NEW l \in Label, NEW m \in Label, Quiet(c, t, l, m) PROVE StateInv'
  BY Names, <1>1 DEF RunType, StackInv, StateInv, Quiet, Moves, procs, locks, cpus, traps, clock, QuietMove
<1>2. ASSUME NEW c \in Cpu, NEW p \in Proc, Run(c, p) PROVE StateInv'
  <2>1. pc[p] # "yield_sched"
    BY <1>2, Parked, ZenonT(30) DEF Run
  <2> QED BY <1>2, <2>1, Names DEF RunType, StackInv, StateInv, Run, Moves
<1>3. ASSUME NEW c \in Cpu, NEW p \in Proc, Release(c, p) PROVE StateInv'
  BY Names, <1>3 DEF RunType, StackInv, StateInv, Release, Moves, procs, locks, cpus, traps, clock
<1>4. ASSUME NEW c \in Cpu, NEW p \in Proc, NEW m \in Label, NEW a \in Addr, UserTrap(c, p, m, a) PROVE StateInv'
  BY Names, <1>4 DEF RunType, StackInv, StateInv, UserTrap, Moves, procs, locks, cpus, traps, clock
<1>5. ASSUME NEW c \in Cpu, NEW t \in Thread, NEW l \in Label, NEW m \in Label, KernelTrap(c, t, l, m) PROVE StateInv'
  <2>1. pc[t] # "yield_sched" /\ m # "yield_sched" /\ pc[t] \notin {"forkret", "slept", "yielded"}
    BY <1>5, ZenonT(30) DEF KernelTrap, Moves, Open
  <2> QED BY <1>5, <2>1, Names DEF RunType, StackInv, StateInv, KernelTrap, Moves, procs, cpus
<1>6. ASSUME NEW c \in Cpu, NEW t \in Thread, ClockBegin(c, t) PROVE StateInv'
  BY Names, <1>6 DEF RunType, StackInv, StateInv, ClockBegin, Moves, procs, locks, cpus, traps, clock
<1>7. ASSUME NEW c \in Cpu, NEW t \in Thread, NEW p \in Proc, ClockRound(c, t, p) PROVE StateInv'
  BY Names, <1>7 DEF RunType, StackInv, StateInv, ClockRound, Moves, procs, locks, cpus, traps, clock
<1>8. ASSUME NEW c \in Cpu, NEW t \in Thread, NEW m \in Label, ClockEnd(c, t, m) PROVE StateInv'
  BY Names, <1>8 DEF RunType, StackInv, StateInv, ClockEnd, Moves, procs, locks, cpus, traps, clock
<1>9. ASSUME NEW c \in Cpu, NEW t \in Thread, NEW m \in Label, ReturnKernel(c, t, m) PROVE StateInv'
  <2>1. pc[t] # "yield_sched" /\ m # "yield_sched" /\ pc[t] \notin {"forkret", "slept", "yielded"}
    BY <1>9, ZenonT(30) DEF ReturnKernel, Moves, Open
  <2> QED BY <1>9, <2>1, Names DEF RunType, StackInv, StateInv, ReturnKernel, Moves, procs, cpus
<1>10. ASSUME NEW c \in Cpu, NEW p \in Proc, ReturnUser(c, p) PROVE StateInv'
  BY Names, <1>10 DEF RunType, StackInv, StateInv, ReturnUser, Moves, procs, locks, cpus, traps, clock
<1>11. ASSUME NEW c \in Cpu, NEW p \in Proc, First(c, p) PROVE StateInv'
  BY Names, <1>11 DEF RunType, StackInv, StateInv, First, Moves, procs, locks, cpus, traps, clock
<1>12. ASSUME NEW c \in Cpu, NEW p \in Proc, NEW q \in Proc, Kills(c, p, q) PROVE StateInv'
  BY Names, <1>12 DEF RunType, StackInv, StateInv, Kills, Moves, procs, locks, cpus, traps, clock
<1>13. ASSUME NEW c \in Cpu, NEW p \in Proc, TickCame(c, p) PROVE StateInv'
  BY Names, <1>13 DEF RunType, StackInv, StateInv, TickCame, Moves, procs, locks, cpus, traps, clock
<1>14. ASSUME NEW c \in Cpu, NEW p \in Proc, NoTick(c, p) PROVE StateInv'
  BY Names, <1>14 DEF RunType, StackInv, StateInv, NoTick, Moves, procs, locks, cpus, traps, clock
<1>15. ASSUME NEW c \in Cpu, NEW p \in Proc, LockSelf(c, p) PROVE StateInv'
  BY Names, <1>15 DEF RunType, StackInv, StateInv, LockSelf, Moves, procs, locks, cpus, traps, clock
<1>16. ASSUME NEW c \in Cpu, NEW p \in Proc, UnlockTicks(c, p) PROVE StateInv'
  BY Names, <1>16 DEF RunType, StackInv, StateInv, UnlockTicks, Moves, procs, locks, cpus, traps, clock
<1>17. ASSUME NEW c \in Cpu, NEW p \in Proc, Yields(c, p) PROVE StateInv'
  BY Names, <1>17 DEF RunType, StackInv, StateInv, Yields, Moves, procs, locks, cpus, traps, clock
<1>18. ASSUME NEW c \in Cpu, NEW p \in Proc, NEW m \in Label, SwitchOff(c, p, m) PROVE StateInv'
  BY Names, <1>18 DEF RunType, StackInv, StateInv, SwitchOff, Moves, procs, locks, cpus, traps, clock
<1>19. ASSUME NEW c \in Cpu, NEW p \in Proc, NEW m \in Label, SwitchedOn(c, p, m) PROVE StateInv'
  BY Names, <1>19 DEF RunType, StackInv, StateInv, SwitchedOn, Moves, procs, locks, cpus, traps, clock
<1> QED BY <1>1, <1>2, <1>3, <1>4, <1>5, <1>6, <1>7, <1>8, <1>9, <1>10, <1>11, <1>12, <1>13, <1>14, <1>15, <1>16, <1>17, <1>18, <1>19, ZenonT(30) DEF Step

\* Locks.
LEMMA LockStep ==
    ASSUME RunType, LabelInv, StackInv, StateInv, LockInv, Step
    PROVE  LockInv'
<1>1. ASSUME NEW c \in Cpu, NEW t \in Thread, NEW l \in Label, NEW m \in Label, Quiet(c, t, l, m) PROVE LockInv'
  BY Names, <1>1 DEF RunType, StackInv, LockInv, HoldsP, HoldsTicks, Quiet, Moves, procs, locks, cpus, traps, clock, QuietMove
<1>2. ASSUME NEW c \in Cpu, NEW p \in Proc, Run(c, p) PROVE LockInv'
  <2>1. pc[p] \in HoldsP /\ pc[p] \notin HoldsTicks
    BY <1>2, Parked, ZenonT(30) DEF Run, HoldsP, HoldsTicks
  <2>2. \A d \in Cpu : stack[d] # p
    BY <1>2, Parked, ZenonT(30) DEF Run
  <2>3. "spin" \notin HoldsP \cup HoldsTicks
    BY ZenonT(30) DEF HoldsP, HoldsTicks
  <2> QED BY <1>2, <2>1, <2>2, <2>3, Names DEF RunType, StackInv, LockInv, Run, Moves
<1>3. ASSUME NEW c \in Cpu, NEW p \in Proc, Release(c, p) PROVE LockInv'
  BY Names, <1>3 DEF RunType, StackInv, LockInv, HoldsP, HoldsTicks, Release, Moves, procs, locks, cpus, traps, clock
<1>4. ASSUME NEW c \in Cpu, NEW p \in Proc, NEW m \in Label, NEW a \in Addr, UserTrap(c, p, m, a) PROVE LockInv'
  BY Names, <1>4 DEF RunType, StackInv, LockInv, HoldsP, HoldsTicks, UserTrap, Moves, procs, locks, cpus, traps, clock
<1>5. ASSUME NEW c \in Cpu, NEW t \in Thread, NEW l \in Label, NEW m \in Label, KernelTrap(c, t, l, m) PROVE LockInv'
  <2>1. pc[t] \notin HoldsP \cup HoldsTicks \cup {"swtched"} /\ m \notin HoldsP \cup HoldsTicks \cup {"swtched"}
    BY <1>5, ZenonT(30) DEF KernelTrap, Moves, Open, HoldsP, HoldsTicks
  <2> QED BY <1>5, <2>1, Names DEF RunType, StackInv, LockInv, KernelTrap, Moves, locks, cpus
<1>6. ASSUME NEW c \in Cpu, NEW t \in Thread, ClockBegin(c, t) PROVE LockInv'
  BY Names, <1>6 DEF RunType, StackInv, LockInv, HoldsP, HoldsTicks, ClockBegin, Moves, procs, locks, cpus, traps, clock
<1>7. ASSUME NEW c \in Cpu, NEW t \in Thread, NEW p \in Proc, ClockRound(c, t, p) PROVE LockInv'
  BY Names, <1>7 DEF RunType, StackInv, LockInv, HoldsP, HoldsTicks, ClockRound, Moves, procs, locks, cpus, traps, clock
<1>8. ASSUME NEW c \in Cpu, NEW t \in Thread, NEW m \in Label, ClockEnd(c, t, m) PROVE LockInv'
  BY Names, <1>8 DEF RunType, StackInv, LockInv, HoldsP, HoldsTicks, ClockEnd, Moves, procs, locks, cpus, traps, clock
<1>9. ASSUME NEW c \in Cpu, NEW t \in Thread, NEW m \in Label, ReturnKernel(c, t, m) PROVE LockInv'
  <2>1. pc[t] \notin HoldsP \cup HoldsTicks \cup {"swtched"} /\ m \notin HoldsP \cup HoldsTicks \cup {"swtched"}
    BY <1>9, ZenonT(30) DEF ReturnKernel, Moves, Open, HoldsP, HoldsTicks
  <2> QED BY <1>9, <2>1, Names DEF RunType, StackInv, LockInv, ReturnKernel, Moves, locks, cpus
<1>10. ASSUME NEW c \in Cpu, NEW p \in Proc, ReturnUser(c, p) PROVE LockInv'
  BY Names, <1>10 DEF RunType, StackInv, LockInv, HoldsP, HoldsTicks, ReturnUser, Moves, procs, locks, cpus, traps, clock
<1>11. ASSUME NEW c \in Cpu, NEW p \in Proc, First(c, p) PROVE LockInv'
  BY Names, <1>11 DEF RunType, StackInv, LockInv, HoldsP, HoldsTicks, First, Moves, procs, locks, cpus, traps, clock
<1>12. ASSUME NEW c \in Cpu, NEW p \in Proc, NEW q \in Proc, Kills(c, p, q) PROVE LockInv'
  BY Names, <1>12 DEF RunType, StackInv, LockInv, HoldsP, HoldsTicks, Kills, Moves, procs, locks, cpus, traps, clock
<1>13. ASSUME NEW c \in Cpu, NEW p \in Proc, TickCame(c, p) PROVE LockInv'
  BY Names, <1>13 DEF RunType, StackInv, LockInv, HoldsP, HoldsTicks, TickCame, Moves, procs, locks, cpus, traps, clock
<1>14. ASSUME NEW c \in Cpu, NEW p \in Proc, NoTick(c, p) PROVE LockInv'
  BY Names, <1>14 DEF RunType, StackInv, LockInv, HoldsP, HoldsTicks, NoTick, Moves, procs, locks, cpus, traps, clock
<1>15. ASSUME NEW c \in Cpu, NEW p \in Proc, LockSelf(c, p) PROVE LockInv'
  BY Names, <1>15 DEF RunType, StackInv, LockInv, HoldsP, HoldsTicks, LockSelf, Moves, procs, locks, cpus, traps, clock
<1>16. ASSUME NEW c \in Cpu, NEW p \in Proc, UnlockTicks(c, p) PROVE LockInv'
  BY Names, <1>16 DEF RunType, StackInv, LockInv, HoldsP, HoldsTicks, UnlockTicks, Moves, procs, locks, cpus, traps, clock
<1>17. ASSUME NEW c \in Cpu, NEW p \in Proc, Yields(c, p) PROVE LockInv'
  BY Names, <1>17 DEF RunType, StackInv, LockInv, HoldsP, HoldsTicks, Yields, Moves, procs, locks, cpus, traps, clock
<1>18. ASSUME NEW c \in Cpu, NEW p \in Proc, NEW m \in Label, SwitchOff(c, p, m) PROVE LockInv'
  BY Names, <1>18 DEF RunType, StackInv, LockInv, HoldsP, HoldsTicks, SwitchOff, Moves, procs, locks, cpus, traps, clock
<1>19. ASSUME NEW c \in Cpu, NEW p \in Proc, NEW m \in Label, SwitchedOn(c, p, m) PROVE LockInv'
  BY Names, <1>19 DEF RunType, StackInv, LockInv, HoldsP, HoldsTicks, SwitchedOn, Moves, procs, locks, cpus, traps, clock
<1> QED BY <1>1, <1>2, <1>3, <1>4, <1>5, <1>6, <1>7, <1>8, <1>9, <1>10, <1>11, <1>12, <1>13, <1>14, <1>15, <1>16, <1>17, <1>18, <1>19, ZenonT(30) DEF Step

\* The registers, when a step changes those of c only.
LEMMA HartKept ==
    ASSUME RunType, LabelInv, TrapType, HartInv, NEW c \in Cpu, HartTo(c, stack'[c], pc'[stack'[c]]),
           \A d \in Cpu \ {c} : /\ stack'[d] = stack[d] /\ pc'[stack[d]] = pc[stack[d]]
                                /\ stack[d] \in Proc => epc'[stack[d]] = epc[stack[d]]
    PROVE  HartInv'
<1> SUFFICES ASSUME NEW d \in Cpu PROVE HartOk(hart'[d], stack'[d], pc'[stack'[d]], epc')
  BY ZenonT(30) DEF HartInv
<1>1. CASE d = c
  BY <1>1, ZenonT(30) DEF HartTo, TrapType
<1>2. CASE d # c
  <2>1. /\ hart'[d] = hart[d] /\ stack'[d] = stack[d] /\ pc'[stack'[d]] = pc[stack[d]]
    BY <1>2, ZenonT(30) DEF HartTo, TrapType
  <2>2. HartOk(hart[d], stack[d], pc[stack[d]], epc)
    BY ZenonT(30) DEF HartInv
  <2>3. pc[stack[d]] = "sret" => epc'[stack[d]] = epc[stack[d]]
    BY <1>2, Names, ZenonT(30) DEF LabelInv, CpuLabel, RunType
  <2> QED BY <2>1, <2>2, <2>3, ZenonT(30) DEF HartOk
<1> QED BY <1>1, <1>2, ZenonT(30)

\* Registers.
LEMMA HartStep ==
    ASSUME RunType, LabelInv, StackInv, StateInv, LockInv, TrapType, HartInv, Step
    PROVE  HartInv'
<1>1. ASSUME NEW c \in Cpu, NEW t \in Thread, NEW l \in Label, NEW m \in Label, Quiet(c, t, l, m) PROVE HartInv'
  <2>1. HartTo(c, stack'[c], pc'[stack'[c]])
    BY <1>1, ZenonT(30) DEF RunType, Quiet, Moves, cpus
  <2>2. \A d \in Cpu \ {c} : /\ stack'[d] = stack[d] /\ pc'[stack[d]] = pc[stack[d]]
                             /\ stack[d] \in Proc => epc'[stack[d]] = epc[stack[d]]
    BY <1>1, Names, ZenonT(30) DEF RunType, TrapType, StackInv, Quiet, Moves, cpus, traps
  <2> QED BY <2>1, <2>2, HartKept, ZenonT(30)
<1>2. ASSUME NEW c \in Cpu, NEW p \in Proc, Run(c, p) PROVE HartInv'
  <2>1. HartTo(c, stack'[c], pc'[stack'[c]])
    BY <1>2, Names, ZenonT(30) DEF RunType, Run, Moves
  <2>2. \A d \in Cpu \ {c} : /\ stack'[d] = stack[d] /\ pc'[stack[d]] = pc[stack[d]]
                             /\ stack[d] \in Proc => epc'[stack[d]] = epc[stack[d]]
    BY <1>2, Names DEF RunType, TrapType, StackInv, Run, Moves, cpus, traps
  <2> QED BY <2>1, <2>2, HartKept, ZenonT(30)
<1>3. ASSUME NEW c \in Cpu, NEW p \in Proc, Release(c, p) PROVE HartInv'
  <2>1. HartTo(c, stack'[c], pc'[stack'[c]])
    BY <1>3, ZenonT(30) DEF RunType, Release, Moves, cpus
  <2>2. \A d \in Cpu \ {c} : /\ stack'[d] = stack[d] /\ pc'[stack[d]] = pc[stack[d]]
                             /\ stack[d] \in Proc => epc'[stack[d]] = epc[stack[d]]
    BY <1>3, Names DEF RunType, TrapType, StackInv, Release, Moves, cpus, traps
  <2> QED BY <2>1, <2>2, HartKept, ZenonT(30)
<1>4. ASSUME NEW c \in Cpu, NEW p \in Proc, NEW m \in Label, NEW a \in Addr, UserTrap(c, p, m, a) PROVE HartInv'
  <2>1. HartTo(c, stack'[c], pc'[stack'[c]])
    BY <1>4, ZenonT(30) DEF RunType, UserTrap, Moves, cpus
  <2>2. \A d \in Cpu \ {c} : /\ stack'[d] = stack[d] /\ pc'[stack[d]] = pc[stack[d]]
                             /\ stack[d] \in Proc => epc'[stack[d]] = epc[stack[d]]
    BY <1>4, Names, ZenonT(30) DEF RunType, TrapType, StackInv, UserTrap, Moves, cpus, traps
  <2> QED BY <2>1, <2>2, HartKept, ZenonT(30)
<1>5. ASSUME NEW c \in Cpu, NEW t \in Thread, NEW l \in Label, NEW m \in Label, KernelTrap(c, t, l, m) PROVE HartInv'
  <2>1. HartTo(c, stack'[c], pc'[stack'[c]])
    BY <1>5, ZenonT(30) DEF RunType, KernelTrap, Moves, cpus
  <2>2. \A d \in Cpu \ {c} : /\ stack'[d] = stack[d] /\ pc'[stack[d]] = pc[stack[d]]
                             /\ stack[d] \in Proc => epc'[stack[d]] = epc[stack[d]]
    BY <1>5, Names, ZenonT(30) DEF RunType, TrapType, StackInv, KernelTrap, Moves, cpus, traps
  <2> QED BY <2>1, <2>2, HartKept, ZenonT(30)
<1>6. ASSUME NEW c \in Cpu, NEW t \in Thread, ClockBegin(c, t) PROVE HartInv'
  <2>1. HartTo(c, stack'[c], pc'[stack'[c]])
    BY <1>6, ZenonT(30) DEF RunType, ClockBegin, Moves, cpus
  <2>2. \A d \in Cpu \ {c} : /\ stack'[d] = stack[d] /\ pc'[stack[d]] = pc[stack[d]]
                             /\ stack[d] \in Proc => epc'[stack[d]] = epc[stack[d]]
    BY <1>6, Names, ZenonT(30) DEF RunType, TrapType, StackInv, ClockBegin, Moves, cpus, traps
  <2> QED BY <2>1, <2>2, HartKept, ZenonT(30)
<1>7. ASSUME NEW c \in Cpu, NEW t \in Thread, NEW p \in Proc, ClockRound(c, t, p) PROVE HartInv'
  BY <1>7, ZenonT(30) DEF HartInv, ClockRound, cpus, traps
<1>8. ASSUME NEW c \in Cpu, NEW t \in Thread, NEW m \in Label, ClockEnd(c, t, m) PROVE HartInv'
  <2>1. HartTo(c, stack'[c], pc'[stack'[c]])
    BY <1>8, ZenonT(30) DEF RunType, ClockEnd, Moves, cpus
  <2>2. \A d \in Cpu \ {c} : /\ stack'[d] = stack[d] /\ pc'[stack[d]] = pc[stack[d]]
                             /\ stack[d] \in Proc => epc'[stack[d]] = epc[stack[d]]
    BY <1>8, Names, ZenonT(30) DEF RunType, TrapType, StackInv, ClockEnd, Moves, cpus, traps
  <2> QED BY <2>1, <2>2, HartKept, ZenonT(30)
<1>9. ASSUME NEW c \in Cpu, NEW t \in Thread, NEW m \in Label, ReturnKernel(c, t, m) PROVE HartInv'
  <2>1. HartTo(c, stack'[c], pc'[stack'[c]])
    BY <1>9, ZenonT(30) DEF RunType, ReturnKernel, Moves, cpus
  <2>2. \A d \in Cpu \ {c} : /\ stack'[d] = stack[d] /\ pc'[stack[d]] = pc[stack[d]]
                             /\ stack[d] \in Proc => epc'[stack[d]] = epc[stack[d]]
    BY <1>9, Names DEF RunType, TrapType, StackInv, ReturnKernel, Moves, cpus, traps
  <2> QED BY <2>1, <2>2, HartKept, ZenonT(30)
<1>10. ASSUME NEW c \in Cpu, NEW p \in Proc, ReturnUser(c, p) PROVE HartInv'
  <2>1. HartTo(c, stack'[c], pc'[stack'[c]])
    BY <1>10, ZenonT(30) DEF RunType, ReturnUser, Moves, cpus
  <2>2. \A d \in Cpu \ {c} : /\ stack'[d] = stack[d] /\ pc'[stack[d]] = pc[stack[d]]
                             /\ stack[d] \in Proc => epc'[stack[d]] = epc[stack[d]]
    BY <1>10, Names, ZenonT(30) DEF RunType, TrapType, StackInv, ReturnUser, Moves, cpus, traps
  <2> QED BY <2>1, <2>2, HartKept, ZenonT(30)
<1>11. ASSUME NEW c \in Cpu, NEW p \in Proc, First(c, p) PROVE HartInv'
  <2>1. HartTo(c, stack'[c], pc'[stack'[c]])
    BY <1>11, ZenonT(30) DEF RunType, First, Moves, cpus
  <2>2. \A d \in Cpu \ {c} : /\ stack'[d] = stack[d] /\ pc'[stack[d]] = pc[stack[d]]
                             /\ stack[d] \in Proc => epc'[stack[d]] = epc[stack[d]]
    BY <1>11, Names, ZenonT(30) DEF RunType, TrapType, StackInv, First, Moves, cpus, traps
  <2> QED BY <2>1, <2>2, HartKept, ZenonT(30)
<1>12. ASSUME NEW c \in Cpu, NEW p \in Proc, NEW q \in Proc, Kills(c, p, q) PROVE HartInv'
  <2>1. HartTo(c, stack'[c], pc'[stack'[c]])
    BY <1>12, ZenonT(30) DEF RunType, Kills, Moves, cpus
  <2>2. \A d \in Cpu \ {c} : /\ stack'[d] = stack[d] /\ pc'[stack[d]] = pc[stack[d]]
                             /\ stack[d] \in Proc => epc'[stack[d]] = epc[stack[d]]
    BY <1>12, Names, ZenonT(30) DEF RunType, TrapType, StackInv, Kills, Moves, cpus, traps
  <2> QED BY <2>1, <2>2, HartKept, ZenonT(30)
<1>13. ASSUME NEW c \in Cpu, NEW p \in Proc, TickCame(c, p) PROVE HartInv'
  <2>1. HartTo(c, stack'[c], pc'[stack'[c]])
    BY <1>13, ZenonT(30) DEF RunType, TickCame, Moves, cpus
  <2>2. \A d \in Cpu \ {c} : /\ stack'[d] = stack[d] /\ pc'[stack[d]] = pc[stack[d]]
                             /\ stack[d] \in Proc => epc'[stack[d]] = epc[stack[d]]
    BY <1>13, Names, ZenonT(30) DEF RunType, TrapType, StackInv, TickCame, Moves, cpus, traps
  <2> QED BY <2>1, <2>2, HartKept, ZenonT(30)
<1>14. ASSUME NEW c \in Cpu, NEW p \in Proc, NoTick(c, p) PROVE HartInv'
  <2>1. HartTo(c, stack'[c], pc'[stack'[c]])
    BY <1>14, ZenonT(30) DEF RunType, NoTick, Moves, cpus
  <2>2. \A d \in Cpu \ {c} : /\ stack'[d] = stack[d] /\ pc'[stack[d]] = pc[stack[d]]
                             /\ stack[d] \in Proc => epc'[stack[d]] = epc[stack[d]]
    BY <1>14, Names, ZenonT(30) DEF RunType, TrapType, StackInv, NoTick, Moves, cpus, traps
  <2> QED BY <2>1, <2>2, HartKept, ZenonT(30)
<1>15. ASSUME NEW c \in Cpu, NEW p \in Proc, LockSelf(c, p) PROVE HartInv'
  <2>1. HartTo(c, stack'[c], pc'[stack'[c]])
    BY <1>15, ZenonT(30) DEF RunType, LockSelf, Moves, cpus
  <2>2. \A d \in Cpu \ {c} : /\ stack'[d] = stack[d] /\ pc'[stack[d]] = pc[stack[d]]
                             /\ stack[d] \in Proc => epc'[stack[d]] = epc[stack[d]]
    BY <1>15, Names, ZenonT(30) DEF RunType, TrapType, StackInv, LockSelf, Moves, cpus, traps
  <2> QED BY <2>1, <2>2, HartKept, ZenonT(30)
<1>16. ASSUME NEW c \in Cpu, NEW p \in Proc, UnlockTicks(c, p) PROVE HartInv'
  <2>1. HartTo(c, stack'[c], pc'[stack'[c]])
    BY <1>16, ZenonT(30) DEF RunType, UnlockTicks, Moves, cpus
  <2>2. \A d \in Cpu \ {c} : /\ stack'[d] = stack[d] /\ pc'[stack[d]] = pc[stack[d]]
                             /\ stack[d] \in Proc => epc'[stack[d]] = epc[stack[d]]
    BY <1>16, Names, ZenonT(30) DEF RunType, TrapType, StackInv, UnlockTicks, Moves, cpus, traps
  <2> QED BY <2>1, <2>2, HartKept, ZenonT(30)
<1>17. ASSUME NEW c \in Cpu, NEW p \in Proc, Yields(c, p) PROVE HartInv'
  <2>1. HartTo(c, stack'[c], pc'[stack'[c]])
    BY <1>17, ZenonT(30) DEF RunType, Yields, Moves, cpus
  <2>2. \A d \in Cpu \ {c} : /\ stack'[d] = stack[d] /\ pc'[stack[d]] = pc[stack[d]]
                             /\ stack[d] \in Proc => epc'[stack[d]] = epc[stack[d]]
    BY <1>17, Names, ZenonT(30) DEF RunType, TrapType, StackInv, Yields, Moves, cpus, traps
  <2> QED BY <2>1, <2>2, HartKept, ZenonT(30)
<1>18. ASSUME NEW c \in Cpu, NEW p \in Proc, NEW m \in Label, SwitchOff(c, p, m) PROVE HartInv'
  <2>1. HartTo(c, stack'[c], pc'[stack'[c]])
    <3>1. stack[c] = p /\ pc' = [pc EXCEPT ![p] = m] /\ stack' = [stack EXCEPT ![c] = c]
      BY <1>18, ZenonT(30) DEF SwitchOff, Moves
    <3>2. stack'[c] = c /\ pc'[c] = "swtched"
      BY <3>1, Names, ZenonT(30) DEF RunType, StackInv
    <3> QED BY <1>18, <3>2, ZenonT(30) DEF SwitchOff
  <2>2. \A d \in Cpu \ {c} : /\ stack'[d] = stack[d] /\ pc'[stack[d]] = pc[stack[d]]
                             /\ stack[d] \in Proc => epc'[stack[d]] = epc[stack[d]]
    BY <1>18, Names DEF RunType, TrapType, StackInv, SwitchOff, Moves, cpus, traps
  <2> QED BY <2>1, <2>2, HartKept, ZenonT(30)
<1>19. ASSUME NEW c \in Cpu, NEW p \in Proc, NEW m \in Label, SwitchedOn(c, p, m) PROVE HartInv'
  <2>1. HartTo(c, stack'[c], pc'[stack'[c]])
    BY <1>19, ZenonT(30) DEF RunType, SwitchedOn, Moves, cpus
  <2>2. \A d \in Cpu \ {c} : /\ stack'[d] = stack[d] /\ pc'[stack[d]] = pc[stack[d]]
                             /\ stack[d] \in Proc => epc'[stack[d]] = epc[stack[d]]
    BY <1>19, Names DEF RunType, TrapType, StackInv, SwitchedOn, Moves, cpus, traps
  <2> QED BY <2>1, <2>2, HartKept, ZenonT(30)
<1> QED BY <1>1, <1>2, <1>3, <1>4, <1>5, <1>6, <1>7, <1>8, <1>9, <1>10, <1>11, <1>12, <1>13, <1>14, <1>15, <1>16, <1>17, <1>18, <1>19, ZenonT(30) DEF Step

\* What sched() has saved.
LEMMA IntenaStep ==
    ASSUME RunType, IntenaInv, Step
    PROVE  IntenaInv'
<1>1. ASSUME NEW c \in Cpu, NEW t \in Thread, NEW l \in Label, NEW m \in Label, Quiet(c, t, l, m) PROVE IntenaInv'
  BY Names, <1>1, ZenonT(30) DEF RunType, IntenaInv, Quiet, Moves, procs, locks, cpus, traps, clock, QuietMove
<1>2. ASSUME NEW c \in Cpu, NEW p \in Proc, Run(c, p) PROVE IntenaInv'
  BY Names, <1>2, ZenonT(30) DEF RunType, IntenaInv, Run, Moves, procs, locks, cpus, traps, clock
<1>3. ASSUME NEW c \in Cpu, NEW p \in Proc, Release(c, p) PROVE IntenaInv'
  BY Names, <1>3 DEF RunType, IntenaInv, Release, Moves, procs, locks, cpus, traps, clock
<1>4. ASSUME NEW c \in Cpu, NEW p \in Proc, NEW m \in Label, NEW a \in Addr, UserTrap(c, p, m, a) PROVE IntenaInv'
  BY Names, <1>4, ZenonT(30) DEF RunType, IntenaInv, UserTrap, Moves, procs, locks, cpus, traps, clock
<1>5. ASSUME NEW c \in Cpu, NEW t \in Thread, NEW l \in Label, NEW m \in Label, KernelTrap(c, t, l, m) PROVE IntenaInv'
  BY Names, <1>5, ZenonT(30) DEF RunType, IntenaInv, KernelTrap, Moves, procs, locks, cpus, traps, clock
<1>6. ASSUME NEW c \in Cpu, NEW t \in Thread, ClockBegin(c, t) PROVE IntenaInv'
  BY Names, <1>6, ZenonT(30) DEF RunType, IntenaInv, ClockBegin, Moves, procs, locks, cpus, traps, clock
<1>7. ASSUME NEW c \in Cpu, NEW t \in Thread, NEW p \in Proc, ClockRound(c, t, p) PROVE IntenaInv'
  BY Names, <1>7, ZenonT(30) DEF RunType, IntenaInv, ClockRound, Moves, procs, locks, cpus, traps, clock
<1>8. ASSUME NEW c \in Cpu, NEW t \in Thread, NEW m \in Label, ClockEnd(c, t, m) PROVE IntenaInv'
  BY Names, <1>8, ZenonT(30) DEF RunType, IntenaInv, ClockEnd, Moves, procs, locks, cpus, traps, clock
<1>9. ASSUME NEW c \in Cpu, NEW t \in Thread, NEW m \in Label, ReturnKernel(c, t, m) PROVE IntenaInv'
  BY Names, <1>9, ZenonT(30) DEF RunType, IntenaInv, ReturnKernel, Moves, Open
<1>10. ASSUME NEW c \in Cpu, NEW p \in Proc, ReturnUser(c, p) PROVE IntenaInv'
  BY Names, <1>10, ZenonT(30) DEF RunType, IntenaInv, ReturnUser, Moves, procs, locks, cpus, traps, clock
<1>11. ASSUME NEW c \in Cpu, NEW p \in Proc, First(c, p) PROVE IntenaInv'
  BY Names, <1>11, ZenonT(30) DEF RunType, IntenaInv, First, Moves, procs, locks, cpus, traps, clock
<1>12. ASSUME NEW c \in Cpu, NEW p \in Proc, NEW q \in Proc, Kills(c, p, q) PROVE IntenaInv'
  BY Names, <1>12, ZenonT(30) DEF RunType, IntenaInv, Kills, Moves, procs, locks, cpus, traps, clock
<1>13. ASSUME NEW c \in Cpu, NEW p \in Proc, TickCame(c, p) PROVE IntenaInv'
  BY Names, <1>13, ZenonT(30) DEF RunType, IntenaInv, TickCame, Moves, procs, locks, cpus, traps, clock
<1>14. ASSUME NEW c \in Cpu, NEW p \in Proc, NoTick(c, p) PROVE IntenaInv'
  BY Names, <1>14, ZenonT(30) DEF RunType, IntenaInv, NoTick, Moves, procs, locks, cpus, traps, clock
<1>15. ASSUME NEW c \in Cpu, NEW p \in Proc, LockSelf(c, p) PROVE IntenaInv'
  BY Names, <1>15, ZenonT(30) DEF RunType, IntenaInv, LockSelf, Moves, procs, locks, cpus, traps, clock
<1>16. ASSUME NEW c \in Cpu, NEW p \in Proc, UnlockTicks(c, p) PROVE IntenaInv'
  BY Names, <1>16, ZenonT(30) DEF RunType, IntenaInv, UnlockTicks, Moves, procs, locks, cpus, traps, clock
<1>17. ASSUME NEW c \in Cpu, NEW p \in Proc, Yields(c, p) PROVE IntenaInv'
  BY Names, <1>17, ZenonT(30) DEF RunType, IntenaInv, Yields, Moves, procs, locks, cpus, traps, clock
<1>18. ASSUME NEW c \in Cpu, NEW p \in Proc, NEW m \in Label, SwitchOff(c, p, m) PROVE IntenaInv'
  BY Names, <1>18, ZenonT(30) DEF RunType, IntenaInv, SwitchOff, Moves, procs, locks, cpus, traps, clock
<1>19. ASSUME NEW c \in Cpu, NEW p \in Proc, NEW m \in Label, SwitchedOn(c, p, m) PROVE IntenaInv'
  BY Names, <1>19, ZenonT(30) DEF RunType, IntenaInv, SwitchedOn, Moves, procs, locks, cpus, traps, clock
<1> QED BY <1>1, <1>2, <1>3, <1>4, <1>5, <1>6, <1>7, <1>8, <1>9, <1>10, <1>11, <1>12, <1>13, <1>14, <1>15, <1>16, <1>17, <1>18, <1>19, ZenonT(30) DEF Step

\* The labels where interrupts may be enabled.
LEMMA OpenLabels ==
    ASSUME NEW l \in Open
    PROVE  l \notin InHandler /\ l \notin {"kret", "wakeup", "sleep", "sleep_unlock", "sleep_state"}
BY ZenonT(30) DEF Open, InHandler

\* What traps have saved.
LEMMA FrameStep ==
    ASSUME RunType, TrapType, LabelInv, StackInv, FrameInv, Step
    PROVE  FrameInv'
<1>1. ASSUME NEW c \in Cpu, NEW t \in Thread, NEW l \in Label, NEW m \in Label, Quiet(c, t, l, m) PROVE FrameInv'
  BY Names, <1>1 DEF RunType, TrapType, FrameInv, InHandler, Quiet, Moves, procs, locks, cpus, traps, clock, QuietMove
<1>2. ASSUME NEW c \in Cpu, NEW p \in Proc, Run(c, p) PROVE FrameInv'
  BY Names, <1>2 DEF RunType, TrapType, FrameInv, InHandler, Run, Moves, procs, locks, cpus, traps, clock
<1>3. ASSUME NEW c \in Cpu, NEW p \in Proc, Release(c, p) PROVE FrameInv'
  BY Names, <1>3 DEF RunType, TrapType, FrameInv, InHandler, Release, Moves, procs, locks, cpus, traps, clock
<1>4. ASSUME NEW c \in Cpu, NEW p \in Proc, NEW m \in Label, NEW a \in Addr, UserTrap(c, p, m, a) PROVE FrameInv'
  BY Names, <1>4 DEF RunType, TrapType, FrameInv, InHandler, UserTrap, Moves, procs, locks, cpus, traps, clock
<1>5. ASSUME NEW c \in Cpu, NEW t \in Thread, NEW l \in Label, NEW m \in Label, KernelTrap(c, t, l, m) PROVE FrameInv'
  <2> DEFINE f == [sepc |-> <<t, l>>, spie |-> TRUE, spp |-> "S"]
  <2>1. f # NoFrame /\ f.spie /\ f.spp = "S" /\ f.sepc = <<t, l>>
    BY ZenonT(30) DEF NoFrame
  <2>2. m \in InHandler
    BY <1>5, ZenonT(30) DEF KernelTrap, InHandler
  <2>3. frame' = [frame EXCEPT ![t] = f] /\ pc' = [pc EXCEPT ![t] = m]
    BY <1>5, ZenonT(30) DEF KernelTrap, Moves
  <2>4. l \in Open \ {"user"} /\ (t \in Cpu <=> l = "scan")
    BY <1>5, ZenonT(30) DEF KernelTrap
  <2> HIDE DEF f
  <2>5. ASSUME NEW u \in Thread
        PROVE  IF u = t THEN frame'[u] = f /\ pc'[u] = m ELSE frame'[u] = frame[u] /\ pc'[u] = pc[u]
    BY <2>3, ZenonT(30) DEF RunType, TrapType
  <2> QED BY <2>1, <2>2, <2>4, <2>5, ZenonT(30) DEF FrameInv
<1>6. ASSUME NEW c \in Cpu, NEW t \in Thread, ClockBegin(c, t) PROVE FrameInv'
  BY Names, <1>6 DEF RunType, TrapType, FrameInv, InHandler, ClockBegin, Moves, procs, locks, cpus, traps, clock
<1>7. ASSUME NEW c \in Cpu, NEW t \in Thread, NEW p \in Proc, ClockRound(c, t, p) PROVE FrameInv'
  BY Names, <1>7 DEF RunType, TrapType, FrameInv, InHandler, ClockRound, Moves, procs, locks, cpus, traps, clock
<1>8. ASSUME NEW c \in Cpu, NEW t \in Thread, NEW m \in Label, ClockEnd(c, t, m) PROVE FrameInv'
  BY Names, <1>8 DEF RunType, TrapType, FrameInv, InHandler, ClockEnd, Moves, procs, locks, cpus, traps, clock
<1>9. ASSUME NEW c \in Cpu, NEW t \in Thread, NEW m \in Label, ReturnKernel(c, t, m) PROVE FrameInv'
  <2>1. m \notin InHandler /\ m # "kret"
    BY <1>9, OpenLabels, ZenonT(30) DEF ReturnKernel
  <2> QED BY <1>9, <2>1, ZenonT(30) DEF RunType, TrapType, FrameInv, ReturnKernel, Moves
<1>10. ASSUME NEW c \in Cpu, NEW p \in Proc, ReturnUser(c, p) PROVE FrameInv'
  BY Names, <1>10 DEF RunType, TrapType, FrameInv, InHandler, ReturnUser, Moves, procs, locks, cpus, traps, clock
<1>11. ASSUME NEW c \in Cpu, NEW p \in Proc, First(c, p) PROVE FrameInv'
  BY Names, <1>11 DEF RunType, TrapType, FrameInv, InHandler, First, Moves, procs, locks, cpus, traps, clock
<1>12. ASSUME NEW c \in Cpu, NEW p \in Proc, NEW q \in Proc, Kills(c, p, q) PROVE FrameInv'
  BY Names, <1>12 DEF RunType, TrapType, FrameInv, InHandler, Kills, Moves, procs, locks, cpus, traps, clock
<1>13. ASSUME NEW c \in Cpu, NEW p \in Proc, TickCame(c, p) PROVE FrameInv'
  BY Names, <1>13 DEF RunType, TrapType, FrameInv, InHandler, TickCame, Moves, procs, locks, cpus, traps, clock
<1>14. ASSUME NEW c \in Cpu, NEW p \in Proc, NoTick(c, p) PROVE FrameInv'
  BY Names, <1>14 DEF RunType, TrapType, FrameInv, InHandler, NoTick, Moves, procs, locks, cpus, traps, clock
<1>15. ASSUME NEW c \in Cpu, NEW p \in Proc, LockSelf(c, p) PROVE FrameInv'
  BY Names, <1>15 DEF RunType, TrapType, FrameInv, InHandler, LockSelf, Moves, procs, locks, cpus, traps, clock
<1>16. ASSUME NEW c \in Cpu, NEW p \in Proc, UnlockTicks(c, p) PROVE FrameInv'
  BY Names, <1>16 DEF RunType, TrapType, FrameInv, InHandler, UnlockTicks, Moves, procs, locks, cpus, traps, clock
<1>17. ASSUME NEW c \in Cpu, NEW p \in Proc, Yields(c, p) PROVE FrameInv'
  BY Names, <1>17 DEF RunType, TrapType, FrameInv, InHandler, Yields, Moves, procs, locks, cpus, traps, clock
<1>18. ASSUME NEW c \in Cpu, NEW p \in Proc, NEW m \in Label, SwitchOff(c, p, m) PROVE FrameInv'
  BY Names, <1>18 DEF RunType, TrapType, FrameInv, InHandler, SwitchOff, Moves, procs, locks, cpus, traps, clock
<1>19. ASSUME NEW c \in Cpu, NEW p \in Proc, NEW m \in Label, SwitchedOn(c, p, m) PROVE FrameInv'
  BY Names, <1>19 DEF RunType, TrapType, FrameInv, InHandler, SwitchedOn, Moves, procs, locks, cpus, traps, clock
<1> QED BY <1>1, <1>2, <1>3, <1>4, <1>5, <1>6, <1>7, <1>8, <1>9, <1>10, <1>11, <1>12, <1>13, <1>14, <1>15, <1>16, <1>17, <1>18, <1>19, ZenonT(30) DEF Step

\* Where traps return to, when no trap begins or ends.
LEMMA BackKept ==
    ASSUME BackInv, UNCHANGED <<back, epc, frame>>,
           \A p \in Proc : pc'[p] = "user" <=> pc[p] = "user"
    PROVE  BackInv'
<1>1. ASSUME NEW t \in Thread PROVE Back(t)' = Back(t)
  BY ZenonT(30) DEF Back
<1> QED BY <1>1, ZenonT(30) DEF BackInv

\* ... and when one of thread t does.
LEMMA BackMoves ==
    ASSUME BackInv, NEW t \in Thread, NEW s, back' = [back EXCEPT ![t] = s], Back(t)' = s,
           \A u \in Thread \ {t} : /\ u \in Proc => epc'[u] = epc[u]
                                   /\ frame'[u] = frame[u] /\ pc'[u] = pc[u]
    PROVE  BackInv'
<1>1. ASSUME NEW u \in Thread \ {t} PROVE Back(u)' = Back(u)
  BY ZenonT(30) DEF Back
<1> HIDE DEF Back
<1>2. back' = [u \in Thread |-> IF u = t THEN s ELSE back[u]] /\ \A u \in Thread : back[u] = Back(u)
  BY ZenonT(30) DEF BackInv
<1> QED BY <1>1, <1>2, ZenonT(30) DEF BackInv

\* Where traps return to.
LEMMA BackStep ==
    ASSUME RunType, TrapType, FrameInv, BackInv, Step
    PROVE  BackInv'
<1>1. ASSUME NEW c \in Cpu, NEW t \in Thread, NEW l \in Label, NEW m \in Label, Quiet(c, t, l, m) PROVE BackInv'
  <2>1. \A u \in Proc : pc'[u] = "user" <=> pc[u] = "user"
    BY <1>1 DEF RunType, Quiet, Moves, QuietMove
  <2> QED BY <1>1, <2>1, BackKept, ZenonT(30) DEF Quiet, traps
<1>2. ASSUME NEW c \in Cpu, NEW p \in Proc, Run(c, p) PROVE BackInv'
  <2>1. \A u \in Proc : pc'[u] = "user" <=> pc[u] = "user"
    BY <1>2 DEF RunType, Run, Moves
  <2> QED BY <1>2, <2>1, BackKept, ZenonT(30) DEF Run, traps
<1>3. ASSUME NEW c \in Cpu, NEW p \in Proc, Release(c, p) PROVE BackInv'
  <2>1. pc' = [pc EXCEPT ![c] = "scan"] /\ pc[c] \in {"swtched", "spin"}
    BY <1>3, ZenonT(30) DEF Release, Moves
  <2>2. \A u \in Proc : pc'[u] = "user" <=> pc[u] = "user"
    BY <2>1 DEF RunType
  <2> QED BY <1>3, <2>2, BackKept, ZenonT(30) DEF Release, traps
<1>4. ASSUME NEW c \in Cpu, NEW p \in Proc, NEW m \in Label, NEW a \in Addr, UserTrap(c, p, m, a) PROVE BackInv'
  <2>1. p \in Thread /\ frame[p] = NoFrame
    BY <1>4, Names, ZenonT(30) DEF UserTrap, Moves, FrameInv, InHandler
  <2>2. back[p] = <<>>
    BY <1>4, <2>1, ZenonT(30) DEF UserTrap, Moves, BackInv, Back
  <2>7. back' = [back EXCEPT ![p] = <<a>>] /\ Back(p)' = <<a>>
    <3>1. Append(back[p], a) = <<a>>
      BY <2>2, ShortSeqs, ZenonT(30)
    <3>2. back' = [back EXCEPT ![p] = <<a>>]
      BY <1>4, <3>1, ZenonT(30) DEF UserTrap
    <3>3. pc'[p] # "user" /\ frame'[p] = NoFrame /\ epc'[p] = a
      BY <1>4, <2>1, ZenonT(30) DEF UserTrap, Moves, RunType, TrapType
    <3> QED BY <3>2, <3>3, ZenonT(30) DEF Back
  <2>8. \A u \in Thread \ {p} : /\ u \in Proc => epc'[u] = epc[u]
                                /\ frame'[u] = frame[u] /\ pc'[u] = pc[u]
    BY <1>4, ZenonT(30) DEF RunType, TrapType, UserTrap, Moves
  <2> QED BY <2>7, <2>8, Names, BackMoves, ZenonT(30)
<1>5. ASSUME NEW c \in Cpu, NEW t \in Thread, NEW l \in Label, NEW m \in Label, KernelTrap(c, t, l, m) PROVE BackInv'
  <2> DEFINE b == <<t, l>>
             s == IF t \in Proc THEN <<epc[t], b>> ELSE <<b>>
  <2>1. pc[t] = l /\ l # "user" /\ frame[t] = NoFrame
    BY <1>5, OpenLabels, ZenonT(30) DEF KernelTrap, Moves, FrameInv
  <2>2. back[t] = IF t \in Proc THEN <<epc[t]>> ELSE <<>>
    BY <2>1, ZenonT(30) DEF BackInv, Back
  <2>7. back' = [back EXCEPT ![t] = s] /\ Back(t)' = s
    <3>1. frame'[t] # NoFrame /\ frame'[t].sepc = b /\ pc'[t] # "user" /\ epc' = epc
      <4> DEFINE f == [sepc |-> b, spie |-> TRUE, spp |-> "S"]
      <4>1. f # NoFrame /\ f.sepc = b
        BY ZenonT(30) DEF NoFrame
      <4>2. frame' = [frame EXCEPT ![t] = f] /\ pc' = [pc EXCEPT ![t] = m] /\ epc' = epc /\ m # "user"
        BY <1>5, ZenonT(30) DEF KernelTrap, Moves
      <4> HIDE DEF f, b
      <4> QED BY <4>1, <4>2, ZenonT(30) DEF RunType, TrapType
    <3>2. back' = [back EXCEPT ![t] = Append(@, b)]
      BY <1>5, ZenonT(30) DEF KernelTrap
    <3> HIDE DEF b
    <3>3. Append(back[t], b) = s
      BY <2>2, ShortSeqs, ZenonT(30)
    <3>4. Back(t)' = s
      BY <3>1, ZenonT(30) DEF Back
    <3> QED BY <3>2, <3>3, <3>4, ZenonT(30)
  <2>8. \A u \in Thread \ {t} : /\ u \in Proc => epc'[u] = epc[u]
                                /\ frame'[u] = frame[u] /\ pc'[u] = pc[u]
    BY <1>5, ZenonT(30) DEF RunType, TrapType, KernelTrap, Moves
  <2> QED BY <2>7, <2>8, Names, BackMoves, ZenonT(30)
<1>6. ASSUME NEW c \in Cpu, NEW t \in Thread, ClockBegin(c, t) PROVE BackInv'
  <2>1. \A u \in Proc : pc'[u] = "user" <=> pc[u] = "user"
    BY <1>6 DEF RunType, ClockBegin, Moves
  <2> QED BY <1>6, <2>1, BackKept, ZenonT(30) DEF ClockBegin, traps
<1>7. ASSUME NEW c \in Cpu, NEW t \in Thread, NEW p \in Proc, ClockRound(c, t, p) PROVE BackInv'
  <2>1. \A u \in Proc : pc'[u] = "user" <=> pc[u] = "user"
    BY <1>7, ZenonT(30) DEF RunType, ClockRound, Moves
  <2> QED BY <1>7, <2>1, BackKept, ZenonT(30) DEF ClockRound, traps
<1>8. ASSUME NEW c \in Cpu, NEW t \in Thread, NEW m \in Label, ClockEnd(c, t, m) PROVE BackInv'
  <2>1. \A u \in Proc : pc'[u] = "user" <=> pc[u] = "user"
    BY <1>8 DEF RunType, ClockEnd, Moves
  <2> QED BY <1>8, <2>1, BackKept, ZenonT(30) DEF ClockEnd, traps
<1>9. ASSUME NEW c \in Cpu, NEW t \in Thread, NEW m \in Label, ReturnKernel(c, t, m) PROVE BackInv'
  <2> DEFINE s == IF t \in Proc THEN <<epc[t]>> ELSE <<>>
  <2>1. pc[t] = "kret" /\ frame[t] # NoFrame
    BY <1>9, ZenonT(30) DEF ReturnKernel, Moves, FrameInv
  <2>2. back[t] = IF t \in Proc THEN <<epc[t], frame[t].sepc>> ELSE <<frame[t].sepc>>
    BY <2>1, ZenonT(30) DEF BackInv, Back
  <2>7. back' = [back EXCEPT ![t] = s] /\ Back(t)' = s
    <3>1. Front(back[t]) = s
      BY <2>2, ShortSeqs, ZenonT(30)
    <3>2. back' = [back EXCEPT ![t] = s]
      BY <1>9, <3>1, ZenonT(30) DEF ReturnKernel
    <3>3. pc'[t] # "user" /\ frame'[t] = NoFrame /\ epc' = epc
      BY <1>9, ZenonT(30) DEF ReturnKernel, Moves, RunType, TrapType, Open
    <3> QED BY <3>2, <3>3, ZenonT(30) DEF Back
  <2>8. \A u \in Thread \ {t} : /\ u \in Proc => epc'[u] = epc[u]
                                /\ frame'[u] = frame[u] /\ pc'[u] = pc[u]
    BY <1>9, ZenonT(30) DEF RunType, TrapType, ReturnKernel, Moves
  <2> QED BY <2>7, <2>8, Names, BackMoves, ZenonT(30)
<1>10. ASSUME NEW c \in Cpu, NEW p \in Proc, ReturnUser(c, p) PROVE BackInv'
  <2>1. p \in Thread /\ frame[p] = NoFrame
    BY <1>10, Names, ZenonT(30) DEF ReturnUser, Moves, FrameInv, InHandler
  <2>2. back[p] = <<epc[p]>>
    BY <1>10, <2>1, ZenonT(30) DEF ReturnUser, Moves, BackInv, Back
  <2>7. back' = [back EXCEPT ![p] = <<>>] /\ Back(p)' = <<>>
    <3>1. Front(back[p]) = <<>>
      BY <2>2, ShortSeqs, ZenonT(30)
    <3>2. back' = [back EXCEPT ![p] = <<>>]
      BY <1>10, <3>1, ZenonT(30) DEF ReturnUser
    <3>3. pc'[p] = "user"
      BY <1>10, <2>1, ZenonT(30) DEF ReturnUser, Moves, RunType
    <3> QED BY <3>2, <3>3, ZenonT(30) DEF Back
  <2>8. \A u \in Thread \ {p} : /\ u \in Proc => epc'[u] = epc[u]
                                /\ frame'[u] = frame[u] /\ pc'[u] = pc[u]
    BY <1>10, ZenonT(30) DEF RunType, TrapType, ReturnUser, Moves
  <2> QED BY <2>7, <2>8, Names, BackMoves, ZenonT(30)
<1>11. ASSUME NEW c \in Cpu, NEW p \in Proc, First(c, p) PROVE BackInv'
  <2>1. \A u \in Proc : pc'[u] = "user" <=> pc[u] = "user"
    BY <1>11 DEF RunType, First, Moves
  <2> QED BY <1>11, <2>1, BackKept, ZenonT(30) DEF First, traps
<1>12. ASSUME NEW c \in Cpu, NEW p \in Proc, NEW q \in Proc, Kills(c, p, q) PROVE BackInv'
  <2>1. \A u \in Proc : pc'[u] = "user" <=> pc[u] = "user"
    BY <1>12 DEF RunType, Kills, Moves
  <2> QED BY <1>12, <2>1, BackKept, ZenonT(30) DEF Kills, traps
<1>13. ASSUME NEW c \in Cpu, NEW p \in Proc, TickCame(c, p) PROVE BackInv'
  <2>1. \A u \in Proc : pc'[u] = "user" <=> pc[u] = "user"
    BY <1>13 DEF RunType, TickCame, Moves
  <2> QED BY <1>13, <2>1, BackKept, ZenonT(30) DEF TickCame, traps
<1>14. ASSUME NEW c \in Cpu, NEW p \in Proc, NoTick(c, p) PROVE BackInv'
  <2>1. \A u \in Proc : pc'[u] = "user" <=> pc[u] = "user"
    BY <1>14 DEF RunType, NoTick, Moves
  <2> QED BY <1>14, <2>1, BackKept, ZenonT(30) DEF NoTick, traps
<1>15. ASSUME NEW c \in Cpu, NEW p \in Proc, LockSelf(c, p) PROVE BackInv'
  <2>1. \A u \in Proc : pc'[u] = "user" <=> pc[u] = "user"
    BY <1>15 DEF RunType, LockSelf, Moves
  <2> QED BY <1>15, <2>1, BackKept, ZenonT(30) DEF LockSelf, traps
<1>16. ASSUME NEW c \in Cpu, NEW p \in Proc, UnlockTicks(c, p) PROVE BackInv'
  <2>1. \A u \in Proc : pc'[u] = "user" <=> pc[u] = "user"
    BY <1>16 DEF RunType, UnlockTicks, Moves
  <2> QED BY <1>16, <2>1, BackKept, ZenonT(30) DEF UnlockTicks, traps
<1>17. ASSUME NEW c \in Cpu, NEW p \in Proc, Yields(c, p) PROVE BackInv'
  <2>1. \A u \in Proc : pc'[u] = "user" <=> pc[u] = "user"
    BY <1>17 DEF RunType, Yields, Moves
  <2> QED BY <1>17, <2>1, BackKept, ZenonT(30) DEF Yields, traps
<1>18. ASSUME NEW c \in Cpu, NEW p \in Proc, NEW m \in Label, SwitchOff(c, p, m) PROVE BackInv'
  <2>1. pc' = [pc EXCEPT ![p] = m] /\ pc[p] \in {"sleep_state", "yield_sched"} /\ m \in {"slept", "yielded", "slept_on", "ret", "kret"}
    BY <1>18, ZenonT(30) DEF SwitchOff, Moves
  <2>2. \A u \in Proc : pc'[u] = "user" <=> pc[u] = "user"
    BY <2>1 DEF RunType
  <2> QED BY <1>18, <2>2, BackKept, ZenonT(30) DEF SwitchOff, traps
<1>19. ASSUME NEW c \in Cpu, NEW p \in Proc, NEW m \in Label, SwitchedOn(c, p, m) PROVE BackInv'
  <2>1. pc' = [pc EXCEPT ![p] = m] /\ pc[p] \in {"slept", "yielded"} /\ m \in {"slept", "yielded", "slept_on", "ret", "kret"}
    BY <1>19, ZenonT(30) DEF SwitchedOn, Moves
  <2>2. \A u \in Proc : pc'[u] = "user" <=> pc[u] = "user"
    BY <2>1 DEF RunType
  <2> QED BY <1>19, <2>2, BackKept, ZenonT(30) DEF SwitchedOn, traps
<1> QED BY <1>1, <1>2, <1>3, <1>4, <1>5, <1>6, <1>7, <1>8, <1>9, <1>10, <1>11, <1>12, <1>13, <1>14, <1>15, <1>16, <1>17, <1>18, <1>19, ZenonT(30) DEF Step

\* Wakeups, when thread t moves from l to m.
LEMMA WakeKept ==
    ASSUME RunType, WakeInv, UNCHANGED <<state, elapsed, todo, stack>>, NEW t, NEW m,
           pc' = [pc EXCEPT ![t] = m], pc[t] # "wakeup", m \notin {"sleep", "sleep_unlock", "sleep_state"}
    PROVE  WakeInv'
BY DEF RunType, WakeInv

\* Wakeups.
LEMMA WakeStep ==
    ASSUME RunType, StackInv, StateInv, LockInv, WakeInv, Step
    PROVE  WakeInv'
<1>1. ASSUME NEW c \in Cpu, NEW t \in Thread, NEW l \in Label, NEW m \in Label, Quiet(c, t, l, m) PROVE WakeInv'
  BY Names, <1>1, ZenonT(30) DEF RunType, StackInv, WakeInv, Quiet, Moves, procs, locks, cpus, traps, clock, QuietMove
<1>2. ASSUME NEW c \in Cpu, NEW p \in Proc, Run(c, p) PROVE WakeInv'
  BY Names, <1>2 DEF RunType, StackInv, WakeInv, Run, Moves, procs, locks, cpus, traps, clock
<1>3. ASSUME NEW c \in Cpu, NEW p \in Proc, Release(c, p) PROVE WakeInv'
  BY Names, <1>3 DEF RunType, StackInv, WakeInv, Release, Moves, procs, locks, cpus, traps, clock
<1>4. ASSUME NEW c \in Cpu, NEW p \in Proc, NEW m \in Label, NEW a \in Addr, UserTrap(c, p, m, a) PROVE WakeInv'
  BY Names, <1>4, ZenonT(30) DEF RunType, StackInv, WakeInv, UserTrap, Moves, procs, locks, cpus, traps, clock
<1>5. ASSUME NEW c \in Cpu, NEW t \in Thread, NEW l \in Label, NEW m \in Label, KernelTrap(c, t, l, m) PROVE WakeInv'
  <2>1. pc' = [pc EXCEPT ![t] = m] /\ pc[t] # "wakeup" /\ m \notin {"sleep", "sleep_unlock", "sleep_state"}
    BY <1>5, OpenLabels, ZenonT(30) DEF KernelTrap, Moves
  <2>2. UNCHANGED <<state, elapsed, todo, stack>>
    BY <1>5, ZenonT(30) DEF KernelTrap, procs, clock, cpus
  <2> QED BY <2>1, <2>2, WakeKept, ZenonT(30)
<1>6. ASSUME NEW c \in Cpu, NEW t \in Thread, ClockBegin(c, t) PROVE WakeInv'
  <2>1. ASSUME NEW q \in Proc, pc[q] \in {"sleep", "sleep_unlock"} PROVE FALSE
    <3>1. PICK d \in Cpu : stack[d] = q
      BY <2>1, ZenonT(30) DEF StateInv
    <3> QED BY <1>6, <2>1, <3>1, Names, ZenonT(30) DEF LockInv, HoldsTicks, ClockBegin
  <2>2. ASSUME NEW q \in Proc, state[q] = "SLEEPING" \/ pc[q] = "sleep_state" PROVE q # proc[c]
    <3>1. stack[c] = t /\ pc[t] = "tick"
      BY <1>6, ZenonT(30) DEF ClockBegin, Moves
    <3>2. CASE t \in Proc
      BY <2>2, <3>1, <3>2, Names DEF StackInv, StateInv
    <3>3. CASE t \in Cpu
      BY <3>1, <3>3, Names, ZenonT(30) DEF StackInv
    <3> QED BY <3>2, <3>3, ZenonT(30) DEF Thread
  <2>3. stack'[c] = t /\ pc'[t] = "wakeup" /\ \A q \in Proc : q # t => pc'[q] = pc[q]
    BY <1>6 DEF ClockBegin, Moves, cpus, RunType
  <2>4. todo' = Proc \ {proc[c]} /\ state' = state
    BY <1>6, ZenonT(30) DEF ClockBegin, procs
  <2>5. ASSUME NEW q \in Proc PROVE pc'[q] \notin {"sleep", "sleep_unlock"}
    BY <2>1, <2>3, ZenonT(30)
  <2>6. ASSUME NEW q \in Proc, pc'[q] = "sleep_state" \/ state'[q] = "SLEEPING" PROVE q \in todo'
    BY <2>2, <2>3, <2>4, <2>6, ZenonT(30)
  <2> QED BY <2>3, <2>5, <2>6, ZenonT(30) DEF WakeInv
<1>7. ASSUME NEW c \in Cpu, NEW t \in Thread, NEW p \in Proc, ClockRound(c, t, p) PROVE WakeInv'
  <2>1. pc[p] # "sleep_state"
    <3> SUFFICES ASSUME pc[p] = "sleep_state" PROVE FALSE
      OBVIOUS
    <3>1. PICK d \in Cpu : stack[d] = p
      BY ZenonT(30) DEF StateInv
    <3> QED BY <1>7, <3>1, Names DEF LockInv, HoldsP, ClockRound
  <2>2. state'[p] # "SLEEPING"
    BY <1>7 DEF StateInv, ClockRound, RunType
  <2> QED BY <1>7, <2>1, <2>2, ZenonT(30) DEF RunType, WakeInv, ClockRound, cpus
<1>8. ASSUME NEW c \in Cpu, NEW t \in Thread, NEW m \in Label, ClockEnd(c, t, m) PROVE WakeInv'
  BY Names, <1>8, ZenonT(30) DEF RunType, StackInv, WakeInv, ClockEnd, Moves, procs, locks, cpus, traps, clock
<1>9. ASSUME NEW c \in Cpu, NEW t \in Thread, NEW m \in Label, ReturnKernel(c, t, m) PROVE WakeInv'
  <2>1. pc' = [pc EXCEPT ![t] = m] /\ pc[t] # "wakeup" /\ m \notin {"sleep", "sleep_unlock", "sleep_state"}
    BY <1>9, OpenLabels, ZenonT(30) DEF ReturnKernel, Moves
  <2>2. UNCHANGED <<state, elapsed, todo, stack>>
    BY <1>9, ZenonT(30) DEF ReturnKernel, procs, clock, cpus
  <2> QED BY <2>1, <2>2, WakeKept, ZenonT(30)
<1>10. ASSUME NEW c \in Cpu, NEW p \in Proc, ReturnUser(c, p) PROVE WakeInv'
  BY Names, <1>10 DEF RunType, StackInv, WakeInv, ReturnUser, Moves, procs, locks, cpus, traps, clock
<1>11. ASSUME NEW c \in Cpu, NEW p \in Proc, First(c, p) PROVE WakeInv'
  BY Names, <1>11 DEF RunType, StackInv, WakeInv, First, Moves, procs, locks, cpus, traps, clock
<1>12. ASSUME NEW c \in Cpu, NEW p \in Proc, NEW q \in Proc, Kills(c, p, q) PROVE WakeInv'
  BY Names, <1>12, ZenonT(30) DEF RunType, StackInv, WakeInv, Kills, Moves, procs, locks, cpus, traps, clock
<1>13. ASSUME NEW c \in Cpu, NEW p \in Proc, TickCame(c, p) PROVE WakeInv'
  BY Names, <1>13 DEF RunType, StackInv, WakeInv, TickCame, Moves, procs, locks, cpus, traps, clock
<1>14. ASSUME NEW c \in Cpu, NEW p \in Proc, NoTick(c, p) PROVE WakeInv'
  BY Names, <1>14, ZenonT(30) DEF RunType, StackInv, WakeInv, NoTick, Moves, procs, locks, cpus, traps, clock
<1>15. ASSUME NEW c \in Cpu, NEW p \in Proc, LockSelf(c, p) PROVE WakeInv'
  BY Names, <1>15 DEF RunType, StackInv, WakeInv, LockSelf, Moves, procs, locks, cpus, traps, clock
<1>16. ASSUME NEW c \in Cpu, NEW p \in Proc, UnlockTicks(c, p) PROVE WakeInv'
  BY Names, <1>16 DEF RunType, StackInv, WakeInv, UnlockTicks, Moves, procs, locks, cpus, traps, clock
<1>17. ASSUME NEW c \in Cpu, NEW p \in Proc, Yields(c, p) PROVE WakeInv'
  BY Names, <1>17, ZenonT(30) DEF RunType, StackInv, WakeInv, Yields, Moves, procs, locks, cpus, traps, clock
<1>18. ASSUME NEW c \in Cpu, NEW p \in Proc, NEW m \in Label, SwitchOff(c, p, m) PROVE WakeInv'
  <2>1. /\ stack[c] = p /\ pc' = [pc EXCEPT ![p] = m] /\ stack' = [stack EXCEPT ![c] = c] /\ m \in {"slept", "yielded"}
        /\ elapsed' = elapsed /\ todo' = todo
    BY <1>18, ZenonT(30) DEF SwitchOff, Moves, clock
  <2>2. \/ pc[p] = "sleep_state" /\ state' = [state EXCEPT ![p] = "SLEEPING"]
        \/ pc[p] = "yield_sched" /\ state' = state
    BY <1>18, ZenonT(30) DEF SwitchOff, Moves, procs
  <2>3. ASSUME NEW d \in Cpu, pc[stack[d]] = "wakeup" PROVE pc'[stack'[d]] = "wakeup"
    BY <2>1, <2>2, <2>3, ZenonT(30) DEF RunType, StackInv
  <2>4. ASSUME NEW q \in Proc PROVE pc'[q] \in {"sleep", "sleep_unlock", "sleep_state"} => pc'[q] = pc[q]
    BY <2>1 DEF RunType
  <2>5. ASSUME NEW q \in Proc, state'[q] = "SLEEPING" PROVE state[q] = "SLEEPING" \/ pc[q] = "sleep_state"
    BY <2>2, <2>5, ZenonT(30) DEF RunType
  <2> QED BY <2>1, <2>3, <2>4, <2>5, ZenonT(30) DEF WakeInv
<1>19. ASSUME NEW c \in Cpu, NEW p \in Proc, NEW m \in Label, SwitchedOn(c, p, m) PROVE WakeInv'
  BY Names, <1>19 DEF RunType, StackInv, WakeInv, SwitchedOn, Moves, procs, locks, cpus, traps, clock
<1> QED BY <1>1, <1>2, <1>3, <1>4, <1>5, <1>6, <1>7, <1>8, <1>9, <1>10, <1>11, <1>12, <1>13, <1>14, <1>15, <1>16, <1>17, <1>18, <1>19, ZenonT(30) DEF Step

\* No panic() is called.
LEMMA PanicStep ==
    ASSUME panic = "", Step
    PROVE  panic' = ""
<1>1. ASSUME NEW c \in Cpu, NEW t \in Thread, NEW l \in Label, NEW m \in Label, Quiet(c, t, l, m) PROVE panic' = ""
  BY <1>1, ZenonT(30) DEF Quiet, traps
<1>2. ASSUME NEW c \in Cpu, NEW p \in Proc, Run(c, p) PROVE panic' = ""
  BY <1>2, ZenonT(30) DEF Run, traps
<1>3. ASSUME NEW c \in Cpu, NEW p \in Proc, Release(c, p) PROVE panic' = ""
  BY <1>3, ZenonT(30) DEF Release, traps
<1>4. ASSUME NEW c \in Cpu, NEW p \in Proc, NEW m \in Label, NEW a \in Addr, UserTrap(c, p, m, a) PROVE panic' = ""
  BY <1>4, ZenonT(30) DEF UserTrap, traps
<1>5. ASSUME NEW c \in Cpu, NEW t \in Thread, NEW l \in Label, NEW m \in Label, KernelTrap(c, t, l, m) PROVE panic' = ""
  BY <1>5, ZenonT(30) DEF KernelTrap, traps
<1>6. ASSUME NEW c \in Cpu, NEW t \in Thread, ClockBegin(c, t) PROVE panic' = ""
  BY <1>6, ZenonT(30) DEF ClockBegin, traps
<1>7. ASSUME NEW c \in Cpu, NEW t \in Thread, NEW p \in Proc, ClockRound(c, t, p) PROVE panic' = ""
  BY <1>7, ZenonT(30) DEF ClockRound, traps
<1>8. ASSUME NEW c \in Cpu, NEW t \in Thread, NEW m \in Label, ClockEnd(c, t, m) PROVE panic' = ""
  BY <1>8, ZenonT(30) DEF ClockEnd, traps
<1>9. ASSUME NEW c \in Cpu, NEW t \in Thread, NEW m \in Label, ReturnKernel(c, t, m) PROVE panic' = ""
  BY <1>9, ZenonT(30) DEF ReturnKernel, traps
<1>10. ASSUME NEW c \in Cpu, NEW p \in Proc, ReturnUser(c, p) PROVE panic' = ""
  BY <1>10, ZenonT(30) DEF ReturnUser, traps
<1>11. ASSUME NEW c \in Cpu, NEW p \in Proc, First(c, p) PROVE panic' = ""
  BY <1>11, ZenonT(30) DEF First, traps
<1>12. ASSUME NEW c \in Cpu, NEW p \in Proc, NEW q \in Proc, Kills(c, p, q) PROVE panic' = ""
  BY <1>12, ZenonT(30) DEF Kills, traps
<1>13. ASSUME NEW c \in Cpu, NEW p \in Proc, TickCame(c, p) PROVE panic' = ""
  BY <1>13, ZenonT(30) DEF TickCame, traps
<1>14. ASSUME NEW c \in Cpu, NEW p \in Proc, NoTick(c, p) PROVE panic' = ""
  BY <1>14, ZenonT(30) DEF NoTick, traps
<1>15. ASSUME NEW c \in Cpu, NEW p \in Proc, LockSelf(c, p) PROVE panic' = ""
  BY <1>15, ZenonT(30) DEF LockSelf, traps
<1>16. ASSUME NEW c \in Cpu, NEW p \in Proc, UnlockTicks(c, p) PROVE panic' = ""
  BY <1>16, ZenonT(30) DEF UnlockTicks, traps
<1>17. ASSUME NEW c \in Cpu, NEW p \in Proc, Yields(c, p) PROVE panic' = ""
  BY <1>17, ZenonT(30) DEF Yields, traps
<1>18. ASSUME NEW c \in Cpu, NEW p \in Proc, NEW m \in Label, SwitchOff(c, p, m) PROVE panic' = ""
  BY <1>18, ZenonT(30) DEF SwitchOff, traps
<1>19. ASSUME NEW c \in Cpu, NEW p \in Proc, NEW m \in Label, SwitchedOn(c, p, m) PROVE panic' = ""
  BY <1>19, ZenonT(30) DEF SwitchedOn, traps
<1> QED BY <1>1, <1>2, <1>3, <1>4, <1>5, <1>6, <1>7, <1>8, <1>9, <1>10, <1>11, <1>12, <1>13, <1>14, <1>15, <1>16, <1>17, <1>18, <1>19, ZenonT(30) DEF Step

\* A step that leaves no thread's "kret".
LEMMA NoReturn ==
    ASSUME RunType, NEW t, NEW m, t \in Thread => pc[t] # "kret", pc' = [pc EXCEPT ![t] = m]
    PROVE  ReturnsRight
BY ZenonT(30) DEF RunType, ReturnsRight

\* Returns from kerneltrap().
LEMMA ReturnStep ==
    ASSUME RunType, StackInv, FrameInv, BackInv, Step
    PROVE  ReturnsRight
<1>1. ASSUME NEW c \in Cpu, NEW t \in Thread, NEW l \in Label, NEW m \in Label, Quiet(c, t, l, m) PROVE ReturnsRight
  <2>1. pc' = [pc EXCEPT ![t] = m] /\ pc[t] # "kret"
    BY <1>1, ZenonT(30) DEF Quiet, Moves, QuietMove
  <2> QED BY <2>1, NoReturn, ZenonT(30)
<1>2. ASSUME NEW c \in Cpu, NEW p \in Proc, Run(c, p) PROVE ReturnsRight
  <2>1. pc' = [pc EXCEPT ![c] = "swtched"] /\ pc[c] # "kret"
    BY <1>2, ZenonT(30) DEF Run, Moves
  <2> QED BY <2>1, NoReturn, ZenonT(30)
<1>3. ASSUME NEW c \in Cpu, NEW p \in Proc, Release(c, p) PROVE ReturnsRight
  <2>1. pc' = [pc EXCEPT ![c] = "scan"] /\ pc[c] # "kret"
    BY <1>3, ZenonT(30) DEF Release, Moves
  <2> QED BY <2>1, NoReturn, ZenonT(30)
<1>4. ASSUME NEW c \in Cpu, NEW p \in Proc, NEW m \in Label, NEW a \in Addr, UserTrap(c, p, m, a) PROVE ReturnsRight
  <2>1. pc' = [pc EXCEPT ![p] = m] /\ pc[p] # "kret"
    BY <1>4, ZenonT(30) DEF UserTrap, Moves
  <2> QED BY <2>1, NoReturn, ZenonT(30)
<1>5. ASSUME NEW c \in Cpu, NEW t \in Thread, NEW l \in Label, NEW m \in Label, KernelTrap(c, t, l, m) PROVE ReturnsRight
  <2>1. pc' = [pc EXCEPT ![t] = m] /\ pc[t] # "kret"
    BY <1>5, ZenonT(30) DEF KernelTrap, Moves, Open
  <2> QED BY <2>1, NoReturn, ZenonT(30)
<1>6. ASSUME NEW c \in Cpu, NEW t \in Thread, ClockBegin(c, t) PROVE ReturnsRight
  <2>1. pc' = [pc EXCEPT ![t] = "wakeup"] /\ pc[t] # "kret"
    BY <1>6, ZenonT(30) DEF ClockBegin, Moves
  <2> QED BY <2>1, NoReturn, ZenonT(30)
<1>7. ASSUME NEW c \in Cpu, NEW t \in Thread, NEW p \in Proc, ClockRound(c, t, p) PROVE ReturnsRight
  BY <1>7, ZenonT(30) DEF ClockRound, ReturnsRight
<1>8. ASSUME NEW c \in Cpu, NEW t \in Thread, NEW m \in Label, ClockEnd(c, t, m) PROVE ReturnsRight
  <2>1. pc' = [pc EXCEPT ![t] = m] /\ pc[t] # "kret"
    BY <1>8, ZenonT(30) DEF ClockEnd, Moves
  <2> QED BY <2>1, NoReturn, ZenonT(30)
<1>9. ASSUME NEW c \in Cpu, NEW t \in Thread, NEW m \in Label, ReturnKernel(c, t, m) PROVE ReturnsRight
  <2>1. frame[t] # NoFrame /\ stack[c] = t /\ pc[t] = "kret" /\ frame[t].sepc = <<t, m>>
    BY <1>9, ZenonT(30) DEF FrameInv, ReturnKernel, Moves
  <2>2. back[t] = IF t \in Proc THEN <<epc[t], frame[t].sepc>> ELSE <<frame[t].sepc>>
    BY <2>1, ZenonT(30) DEF BackInv, Back
  <2>3. Last(back[t]) = frame[t].sepc
    <3> DEFINE a == frame[t].sepc
               e == epc[t]
    <3>2. back[t] = <<e, a>> \/ back[t] = <<a>>
      BY <2>2, ZenonT(30)
    <3> HIDE DEF a, e
    <3>1. Last(<<e, a>>) = a /\ Last(<<a>>) = a
      BY ShortSeqs, ZenonT(30)
    <3>3. Last(back[t]) = a
      BY <3>1, <3>2, ZenonT(30)
    <3> QED BY <3>3, ZenonT(30) DEF a
  <2>4. pc'[t] = m /\ \A u \in Thread \ {t} : pc'[u] = pc[u]
    BY <1>9, ZenonT(30) DEF ReturnKernel, Moves, RunType
  <2>5. \A d \in Cpu : d # c => stack[d] \in Thread /\ stack[d] # t
    BY <2>1, ZenonT(30) DEF StackInv, RunType
  <2>6. hart'[c].sie /\ hart'[c].stvec = "kernelvec"
    BY <1>9, ZenonT(30) DEF ReturnKernel
  <2> QED BY <2>1, <2>3, <2>4, <2>5, <2>6, ZenonT(30) DEF ReturnsRight
<1>10. ASSUME NEW c \in Cpu, NEW p \in Proc, ReturnUser(c, p) PROVE ReturnsRight
  <2>1. pc' = [pc EXCEPT ![p] = "user"] /\ pc[p] # "kret"
    BY <1>10, ZenonT(30) DEF ReturnUser, Moves
  <2> QED BY <2>1, NoReturn, ZenonT(30)
<1>11. ASSUME NEW c \in Cpu, NEW p \in Proc, First(c, p) PROVE ReturnsRight
  <2>1. pc' = [pc EXCEPT ![p] = "ret"] /\ pc[p] # "kret"
    BY <1>11, ZenonT(30) DEF First, Moves
  <2> QED BY <2>1, NoReturn, ZenonT(30)
<1>12. ASSUME NEW c \in Cpu, NEW p \in Proc, NEW q \in Proc, Kills(c, p, q) PROVE ReturnsRight
  <2>1. pc' = [pc EXCEPT ![p] = "ret"] /\ pc[p] # "kret"
    BY <1>12, ZenonT(30) DEF Kills, Moves
  <2> QED BY <2>1, NoReturn, ZenonT(30)
<1>13. ASSUME NEW c \in Cpu, NEW p \in Proc, TickCame(c, p) PROVE ReturnsRight
  <2>1. pc' = [pc EXCEPT ![p] = "ret"] /\ pc[p] # "kret"
    BY <1>13, ZenonT(30) DEF TickCame, Moves
  <2> QED BY <2>1, NoReturn, ZenonT(30)
<1>14. ASSUME NEW c \in Cpu, NEW p \in Proc, NoTick(c, p) PROVE ReturnsRight
  <2>1. pc' = [pc EXCEPT ![p] = "sleep"] /\ pc[p] # "kret"
    BY <1>14, ZenonT(30) DEF NoTick, Moves
  <2> QED BY <2>1, NoReturn, ZenonT(30)
<1>15. ASSUME NEW c \in Cpu, NEW p \in Proc, LockSelf(c, p) PROVE ReturnsRight
  <2>1. pc' = [pc EXCEPT ![p] = "sleep_unlock"] /\ pc[p] # "kret"
    BY <1>15, ZenonT(30) DEF LockSelf, Moves
  <2> QED BY <2>1, NoReturn, ZenonT(30)
<1>16. ASSUME NEW c \in Cpu, NEW p \in Proc, UnlockTicks(c, p) PROVE ReturnsRight
  <2>1. pc' = [pc EXCEPT ![p] = "sleep_state"] /\ pc[p] # "kret"
    BY <1>16, ZenonT(30) DEF UnlockTicks, Moves
  <2> QED BY <2>1, NoReturn, ZenonT(30)
<1>17. ASSUME NEW c \in Cpu, NEW p \in Proc, Yields(c, p) PROVE ReturnsRight
  <2>1. pc' = [pc EXCEPT ![p] = "yield_sched"] /\ pc[p] # "kret"
    BY <1>17, ZenonT(30) DEF Yields, Moves
  <2> QED BY <2>1, NoReturn, ZenonT(30)
<1>18. ASSUME NEW c \in Cpu, NEW p \in Proc, NEW m \in Label, SwitchOff(c, p, m) PROVE ReturnsRight
  <2>1. pc' = [pc EXCEPT ![p] = m] /\ pc[p] # "kret"
    BY <1>18, ZenonT(30) DEF SwitchOff, Moves
  <2> QED BY <2>1, NoReturn, ZenonT(30)
<1>19. ASSUME NEW c \in Cpu, NEW p \in Proc, NEW m \in Label, SwitchedOn(c, p, m) PROVE ReturnsRight
  <2>1. pc' = [pc EXCEPT ![p] = m] /\ pc[p] # "kret"
    BY <1>19, ZenonT(30) DEF SwitchedOn, Moves
  <2> QED BY <2>1, NoReturn, ZenonT(30)
<1> QED BY <1>1, <1>2, <1>3, <1>4, <1>5, <1>6, <1>7, <1>8, <1>9, <1>10, <1>11, <1>12, <1>13, <1>14, <1>15, <1>16, <1>17, <1>18, <1>19, ZenonT(30) DEF Step

\* The invariant holds when the CPUs start.
LEMMA InvInit ==
    ASSUME Init PROVE Inv
<1>1. RunType
  <2>1. 1 \in Proc
    BY SchedAssumption DEF Proc
  <2>2. /\ started \in BOOLEAN /\ state \in [Proc -> {"SLEEPING", "RUNNABLE", "RUNNING"}]
        /\ chan \in [Proc -> BOOLEAN] /\ intena \in [Proc -> BOOLEAN]
        /\ plock \in [Proc -> Cpu \cup {NoCpu}] /\ lk \in Cpu \cup {NoCpu}
    BY ZenonT(30) DEF Init
  <2>3. proc \in [Cpu -> Proc \cup {NoProc}] /\ stack \in [Cpu -> Thread] /\ sp \in [Cpu -> Proc]
    BY <2>1, Names, ZenonT(30) DEF Init
  <2>4. pc \in [Thread -> Label] /\ todo \subseteq Proc /\ elapsed \in [Proc -> {"unset", "no", "yes"}]
    BY ZenonT(30) DEF Init, Label
  <2> QED BY <2>2, <2>3, <2>4, ZenonT(30) DEF RunType
<1>2. StartHart \in HartType
  BY DEF StartHart, HartType, Addr
<1>3. TrapType
  BY <1>2, FrameTypes, ZenonT(30) DEF TrapType, Init
<1>4. /\ \A c \in Cpu : stack[c] = c /\ pc[c] = "main" /\ proc[c] = NoProc /\ hart[c] = StartHart
      /\ \A p \in Proc : pc[p] = "forkret" /\ state[p] = "RUNNABLE" /\ plock[p] = NoCpu /\ elapsed[p] = "unset"
      /\ \A t \in Thread : frame[t] = NoFrame
      /\ lk = NoCpu
  BY Names, ZenonT(30) DEF Init
<1>5. LabelInv
  BY <1>4, ZenonT(30) DEF LabelInv, CpuLabel, ProcLabel, Label
<1>6. StackInv
  BY <1>4 DEF StackInv
<1>7. StateInv
  BY <1>4, Names, ZenonT(30) DEF StateInv
<1>8. LockInv
  BY <1>4, Names DEF LockInv, HoldsP, HoldsTicks
<1>9. HartInv
  BY <1>4, Names DEF HartInv, HartOk, StartHart, Noff, Open, Enabled, HoldsP, HoldsTicks
<1>10. IntenaInv
  BY <1>4, ZenonT(30) DEF IntenaInv
<1>11. FrameInv
  BY <1>4, Names, ZenonT(30) DEF FrameInv, InHandler, Thread
<1>12. BackInv
  <2>1. ASSUME NEW t \in Thread PROVE Back(t) = IF t \in Cpu THEN <<>> ELSE <<<<t, "user">>>>
    BY <1>4, Names, ZenonT(30) DEF Back, Init
  <2> QED BY <2>1, ZenonT(30) DEF BackInv, Init
<1>13. WakeInv
  BY <1>4, ZenonT(30) DEF WakeInv
<1>14. panic = ""
  BY ZenonT(30) DEF Init
<1> QED BY <1>1, <1>3, <1>5, <1>6, <1>7, <1>8, <1>9, <1>10, <1>11, <1>12, <1>13, <1>14, ZenonT(30) DEF Inv
=============================================================================
