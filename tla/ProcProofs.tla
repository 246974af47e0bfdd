----------------------------- MODULE ProcProofs -----------------------------
(***************************************************************************)
(* Proofs about the life of processes, for a process table of any size and *)
(* any arguments of kill(): a freed slot is off its kernel stack, kill()   *)
(* hits who it names, a parent that waits misses no exit, and no process   *)
(* has a dead parent.                                                      *)
(***************************************************************************)
EXTENDS Proc, TLAPS, WellFoundedInduction

-----------------------------------------------------------------------------
(* The inductive invariant.                                                *)

Forking == {"fork_parent", "fork_runnable"}
HoldsWaitLock == {"exit_zombie", "wait_scan", "wait_sleep"}

\* p is in wait() and has made up its mind to sleep, or does.
Waits(p) == pc[p] = "wait_sleep" \/ (pc[p] = "wait" /\ state[p] = "SLEEPING")

\* What the state of a process says of where it is.
StateInv ==
    \A p \in Proc :
        /\ Live(p) <=> pc[p] \notin {"none", "exit_sched"}
        /\ pc[p] = "exit_sched" => state[p] = "ZOMBIE"
        /\ state[p] = "SLEEPING" => pc[p] = "ticks" \/ (pc[p] = "wait" /\ chan[p] = "wait")
        /\ state[p] = "SLEEPING" => chan[p] # "none"
InitInv == Live(initproc) /\ pc[initproc] \notin {"exit", "exit_zombie"}

\* The slot a fork() has allocated is its own.
ForkInv ==
    /\ \A p \in Proc : pc[p] \in Forking => np[p] \in Proc /\ state[np[p]] = "USED"
    /\ \A p, r \in Proc : pc[p] \in Forking /\ pc[r] \in Forking /\ np[p] = np[r] => p = r

LockInv == \A p \in Proc : pc[p] \in HoldsWaitLock <=> waitlock = p

\* A parent is alive and has not passed reparent().
FamilyInv ==
    \A q \in Proc : parent[q] # None => Live(parent[q]) /\ pc[parent[q]] # "exit_zombie"

\* exit() wakes the parent before the child is a zombie, under wait_lock.
WaitInv ==
    \A p, q \in Proc :
        Waits(p) /\ parent[q] = p => state[q] # "ZOMBIE" /\ pc[q] # "exit_zombie"

PidInv ==
    /\ \A p \in Proc : pid[p] < nextpid /\ (pid[p] = 0 <=> state[p] = "UNUSED")
    /\ \A p, r \in Proc : pid[p] = pid[r] /\ pid[p] # 0 => p = r

KillInv == \A p \in Proc : killed[p] => 0 \in meant \/ pid[p] \in meant

Inv ==
    /\ TypeOK /\ StateInv /\ InitInv /\ ForkInv /\ LockInv
    /\ FamilyInv /\ WaitInv /\ PidInv /\ KillInv

-----------------------------------------------------------------------------
(* The first of several slots, which kill() and wait() look for.           *)

\* A relation that contains < and has a minimal element in S yields a least one.
LEMMA LeastIn ==
    ASSUME NEW R, NEW S, S \subseteq Nat,
           \E x \in S : \A y \in S : ~(<<y, x>> \in R),
           \A x, y \in Nat : y < x => <<y, x>> \in R
    PROVE  \E x \in S : \A y \in S : x <= y
<1>1. PICK x \in S : \A y \in S : ~(<<y, x>> \in R)
  OBVIOUS
<1>2. ASSUME NEW y \in S PROVE x <= y
  <2>1. ~(y < x)
    BY <1>1, Zenon
  <2>2. x \in Nat /\ y \in Nat
    OBVIOUS
  <2> QED BY <2>1, <2>2
<1> QED BY <1>2

\* A set of slots that is not empty has a first one.
LEMMA Least ==
    ASSUME NEW S, S \subseteq Nat, S # {}
    PROVE  Min(S) \in S
<1>1. \E x \in S : \A y \in S : ~(<<y, x>> \in OpToRel(<, Nat))
  BY NatLessThanWellFounded, WFMin, ZenonT(30)
<1>2. \A x, y \in Nat : y < x => <<y, x>> \in OpToRel(<, Nat)
  BY DEF OpToRel
<1>3. \E x \in S : \A y \in S : x <= y
  BY <1>1, <1>2, LeastIn, ZenonT(30)
<1> QED BY <1>3, ZenonT(30) DEF Min

-----------------------------------------------------------------------------
(* The steps, with the slot that is found as a parameter.                  *)

Reaps(p, q) ==
    /\ At(p, "wait_scan") /\ q \in Zombies(p) /\ PLockFree(q)
    /\ \/ Freeproc(q)
       \/ UNCHANGED <<state, pid, parent, chan, killed>>
    /\ waitlock' = None
    /\ Goto(p, "user")
    /\ UNCHANGED <<nextpid, np, meant>>

Kills(p, q, n) ==
    /\ Syscall(p) /\ pid[q] = n /\ PLockFree(q)
    /\ killed' = [killed EXCEPT ![q] = TRUE]
    /\ state' = [state EXCEPT ![q] = IF @ = "SLEEPING" THEN "RUNNABLE" ELSE @]
    /\ meant' = meant \cup {n}
    /\ UNCHANGED <<pid, parent, chan, nextpid, waitlock, pc, np>>

\* wait() frees a child that is a zombie.
LEMMA ReapsSlot ==
    ASSUME NEW p \in Proc, WaitReap(p)
    PROVE  \E q \in Proc : Reaps(p, q)
<1>1. Zombies(p) \subseteq Nat /\ Zombies(p) # {} /\ Zombies(p) \subseteq Proc
  BY ProcAssumption DEF WaitReap, Zombies, Kids, Proc
<1>2. Min(Zombies(p)) \in Zombies(p)
  BY <1>1, Least
<1> DEFINE q == Min(Zombies(p))
<1>3. Reaps(p, q)
  BY <1>2 DEF WaitReap, Reaps
<1> QED BY <1>1, <1>2, <1>3

\* kill() marks a slot with the pid it was given.
LEMMA KillsSlot ==
    ASSUME NEW p \in Proc, NEW n \in KILLARGS, Kill(p, n)
    PROVE  \E q \in Proc : Kills(p, q, n)
<1> DEFINE S == {q \in Proc : pid[q] = n}
<1>1. S \subseteq Nat /\ S # {}
  BY ProcAssumption DEF Kill, Proc
<1>2. Min(S) \in S
  BY <1>1, Least
<1>3. Victim(n) \in Proc /\ pid[Victim(n)] = n
  BY <1>2 DEF Victim
<1>4. Kills(p, Victim(n), n)
  BY <1>3 DEF Kill, Kills
<1> QED BY <1>3, <1>4

Step ==
    \/ \E p, q \in Proc : AllocProc(p, q) \/ AllocFails(p, q) \/ Reaps(p, q)
    \/ \E p, q \in Proc : \E n \in KILLARGS : Kills(p, q, n)
    \/ \E p \in Proc : \/ ForkParent(p) \/ ForkRunnable(p)
                       \/ Exit(p) \/ ExitReparent(p) \/ ExitZombie(p) \/ ExitSched(p)
                       \/ Wait(p) \/ WaitLock(p) \/ WaitTest(p) \/ WaitSleep(p)
                       \/ SysSleep(p) \/ TicksTest(p) \/ TicksSleep(p) \/ Setkilled(p)
    \/ ClockIntr

\* There are no other steps.
LEMMA StepCases == [Next]_vars => Step \/ UNCHANGED vars
<1> SUFFICES ASSUME Next PROVE Step
  OBVIOUS
<1>1. ASSUME NEW p \in Proc, KernelStep(p) PROVE Step
  BY <1>1, ReapsSlot DEF KernelStep, ForkStep, ExitStep, WaitStep, TicksStep, Step
<1>2. ASSUME NEW p \in Proc, UserStep(p) PROVE Step
  BY <1>2, KillsSlot DEF UserStep, Step
<1> QED BY <1>1, <1>2 DEF Next, Step

-----------------------------------------------------------------------------
(* Every step keeps the invariant.                                         *)

States == {"UNUSED", "USED", "RUNNABLE", "SLEEPING", "ZOMBIE"}

\* Types, in two parts.
RunType ==
    /\ state \in [Proc -> States] /\ pc \in [Proc -> Label]
    /\ chan \in [Proc -> {"none", "wait", "ticks"}]
    /\ killed \in [Proc -> BOOLEAN]
    /\ waitlock \in Proc \cup {None}
    /\ initproc \in Proc /\ None \notin Proc
TableType ==
    /\ pid \in [Proc -> 0..MAXPID] /\ nextpid \in 2..(MAXPID + 1)
    /\ parent \in [Proc -> Proc \cup {None}] /\ np \in [Proc -> Proc \cup {None}]
    /\ meant \subseteq KILLARGS \cup 0..MAXPID

\* Together they are the type invariant.
LEMMA Types == TypeOK <=> RunType /\ TableType
<1>1. initproc \in Proc /\ None \notin Proc
  BY ProcAssumption DEF initproc, None, Proc
<1> QED BY <1>1 DEF TypeOK, RunType, TableType, States

\* Where a process may be.
LEMMA RunTypeStep ==
    ASSUME RunType, [Next]_vars
    PROVE  RunType'
<1>1. ASSUME NEW p \in Proc, NEW q \in Proc, AllocProc(p, q) PROVE RunType'
  BY <1>1 DEF RunType, States, Label, AllocProc, Syscall, At, Goto
<1>2. ASSUME NEW p \in Proc, NEW q \in Proc, AllocFails(p, q) PROVE RunType'
  BY <1>2 DEF RunType, States, Label, AllocFails, Syscall, At
<1>3. ASSUME NEW p \in Proc, ForkParent(p) PROVE RunType'
  BY <1>3 DEF RunType, States, Label, ForkParent, At, Goto
<1>4. ASSUME NEW p \in Proc, ForkRunnable(p) PROVE RunType'
  BY <1>4, ZenonT(30) DEF RunType, States, Label, ForkRunnable, At
<1>5. ASSUME NEW p \in Proc, Exit(p) PROVE RunType'
  BY <1>5 DEF RunType, States, Label, Exit, At, Goto
<1>6. ASSUME NEW p \in Proc, ExitReparent(p) PROVE RunType'
  BY <1>6 DEF RunType, States, Label, ExitReparent, At, Goto, Reparent, Woken, Kids
<1>7. ASSUME NEW p \in Proc, ExitZombie(p) PROVE RunType'
  BY <1>7 DEF RunType, States, Label, ExitZombie, At, Goto
<1>8. ASSUME NEW p \in Proc, ExitSched(p) PROVE RunType'
  BY <1>8 DEF RunType, States, Label, ExitSched, Goto
<1>9. ASSUME NEW p \in Proc, Wait(p) PROVE RunType'
  BY <1>9 DEF RunType, States, Label, Wait, Syscall, At, Goto
<1>10. ASSUME NEW p \in Proc, WaitLock(p) PROVE RunType'
  BY <1>10 DEF RunType, States, Label, WaitLock, At, Goto
<1>11. ASSUME NEW p \in Proc, NEW q \in Proc, Reaps(p, q) PROVE RunType'
  BY <1>11, ZenonT(30) DEF RunType, States, Label, Reaps, At, Goto, Zombies, Kids, PLockFree, Freeproc
<1>12. ASSUME NEW p \in Proc, WaitTest(p) PROVE RunType'
  BY <1>12 DEF RunType, States, Label, WaitTest, At, Goto, Zombies, Kids
<1>13. ASSUME NEW p \in Proc, WaitSleep(p) PROVE RunType'
  BY <1>13 DEF RunType, States, Label, WaitSleep, At, Goto
<1>14. ASSUME NEW p \in Proc, SysSleep(p) PROVE RunType'
  BY <1>14 DEF RunType, States, Label, SysSleep, Syscall, At, Goto
<1>15. ASSUME NEW p \in Proc, TicksTest(p) PROVE RunType'
  BY <1>15 DEF RunType, States, Label, TicksTest, At, Goto
<1>16. ASSUME NEW p \in Proc, TicksSleep(p) PROVE RunType'
  BY <1>16 DEF RunType, States, Label, TicksSleep, At, Goto
<1>17. ASSUME ClockIntr PROVE RunType'
  BY <1>17 DEF RunType, States, Label, ClockIntr
<1>18. ASSUME NEW p \in Proc, NEW q \in Proc, NEW n \in KILLARGS, Kills(p, q, n) PROVE RunType'
  BY <1>18 DEF RunType, States, Label, Kills, Syscall, At, PLockFree
<1>19. ASSUME NEW p \in Proc, Setkilled(p) PROVE RunType'
  BY <1>19 DEF RunType, States, Label, Setkilled, At
<1>20. CASE UNCHANGED vars
  BY <1>20 DEF RunType, States, Label, vars
<1> QED BY <1>1, <1>2, <1>3, <1>4, <1>5, <1>6, <1>7, <1>8, <1>9, <1>10, <1>11, <1>12, <1>13, <1>14, <1>15, <1>16, <1>17, <1>18, <1>19, <1>20, StepCases DEF Step

\* What the table holds.
LEMMA TableTypeStep ==
    ASSUME RunType, TableType, [Next]_vars
    PROVE  TableType'
<1>1. ASSUME NEW p \in Proc, NEW q \in Proc, AllocProc(p, q) PROVE TableType'
  BY <1>1, ProcAssumption DEF RunType, TableType, AllocProc, Syscall, At, Goto
<1>2. ASSUME NEW p \in Proc, NEW q \in Proc, AllocFails(p, q) PROVE TableType'
  BY <1>2, ProcAssumption DEF RunType, TableType, AllocFails, Syscall, At
<1>3. ASSUME NEW p \in Proc, ForkParent(p) PROVE TableType'
  BY <1>3, ProcAssumption, ZenonT(30) DEF RunType, TableType, ForkParent, At, Goto
<1>4. ASSUME NEW p \in Proc, ForkRunnable(p) PROVE TableType'
  BY <1>4, ProcAssumption DEF RunType, TableType, ForkRunnable, At
<1>5. ASSUME NEW p \in Proc, Exit(p) PROVE TableType'
  BY <1>5, ProcAssumption DEF RunType, TableType, Exit, At, Goto
<1>6. ASSUME NEW p \in Proc, ExitReparent(p) PROVE TableType'
  BY <1>6, ProcAssumption DEF RunType, TableType, ExitReparent, At, Goto, Reparent, Woken, Kids
<1>7. ASSUME NEW p \in Proc, ExitZombie(p) PROVE TableType'
  BY <1>7, ProcAssumption DEF RunType, TableType, ExitZombie, At, Goto
<1>8. ASSUME NEW p \in Proc, ExitSched(p) PROVE TableType'
  BY <1>8, ProcAssumption DEF RunType, TableType, ExitSched, Goto
<1>9. ASSUME NEW p \in Proc, Wait(p) PROVE TableType'
  BY <1>9, ProcAssumption DEF RunType, TableType, Wait, Syscall, At, Goto
<1>10. ASSUME NEW p \in Proc, WaitLock(p) PROVE TableType'
  BY <1>10, ProcAssumption DEF RunType, TableType, WaitLock, At, Goto
<1>11. ASSUME NEW p \in Proc, NEW q \in Proc, Reaps(p, q) PROVE TableType'
  BY <1>11, ProcAssumption DEF RunType, TableType, Reaps, At, Goto, Zombies, Kids, PLockFree, Freeproc
<1>12. ASSUME NEW p \in Proc, WaitTest(p) PROVE TableType'
  BY <1>12, ProcAssumption DEF RunType, TableType, WaitTest, At, Goto, Zombies, Kids
<1>13. ASSUME NEW p \in Proc, WaitSleep(p) PROVE TableType'
  BY <1>13, ProcAssumption DEF RunType, TableType, WaitSleep, At, Goto
<1>14. ASSUME NEW p \in Proc, SysSleep(p) PROVE TableType'
  BY <1>14, ProcAssumption DEF RunType, TableType, SysSleep, Syscall, At, Goto
<1>15. ASSUME NEW p \in Proc, TicksTest(p) PROVE TableType'
  BY <1>15, ProcAssumption DEF RunType, TableType, TicksTest, At, Goto
<1>16. ASSUME NEW p \in Proc, TicksSleep(p) PROVE TableType'
  BY <1>16, ProcAssumption DEF RunType, TableType, TicksSleep, At, Goto
<1>17. ASSUME ClockIntr PROVE TableType'
  BY <1>17, ProcAssumption DEF RunType, TableType, ClockIntr
<1>18. ASSUME NEW p \in Proc, NEW q \in Proc, NEW n \in KILLARGS, Kills(p, q, n) PROVE TableType'
  BY <1>18, ProcAssumption DEF RunType, TableType, Kills, Syscall, At, PLockFree
<1>19. ASSUME NEW p \in Proc, Setkilled(p) PROVE TableType'
  <2>1. pid[p] \in 0..MAXPID
    BY DEF TableType
  <2> QED BY <1>19, <2>1 DEF TableType, Setkilled
<1>20. CASE UNCHANGED vars
  BY <1>20, ProcAssumption DEF RunType, TableType, vars
<1> QED BY <1>1, <1>2, <1>3, <1>4, <1>5, <1>6, <1>7, <1>8, <1>9, <1>10, <1>11, <1>12, <1>13, <1>14, <1>15, <1>16, <1>17, <1>18, <1>19, <1>20, StepCases DEF Step

\* The state of a process and where it is.
LEMMA StateStep ==
    ASSUME RunType, StateInv, ForkInv, [Next]_vars
    PROVE  StateInv'
<1>1. ASSUME NEW p \in Proc, NEW q \in Proc, AllocProc(p, q) PROVE StateInv'
  BY <1>1 DEF RunType, States, StateInv, ForkInv, Forking, Live, AllocProc, Syscall, At, Goto
<1>2. ASSUME NEW p \in Proc, NEW q \in Proc, AllocFails(p, q) PROVE StateInv'
  BY <1>2 DEF RunType, States, StateInv, ForkInv, Forking, Live, AllocFails, Syscall, At
<1>3. ASSUME NEW p \in Proc, ForkParent(p) PROVE StateInv'
  BY <1>3 DEF RunType, States, StateInv, ForkInv, Forking, Live, ForkParent, At, Goto
<1>4. ASSUME NEW p \in Proc, ForkRunnable(p) PROVE StateInv'
  BY <1>4 DEF RunType, States, StateInv, ForkInv, Forking, Live, ForkRunnable, At
<1>5. ASSUME NEW p \in Proc, Exit(p) PROVE StateInv'
  BY <1>5 DEF RunType, States, StateInv, ForkInv, Forking, Live, Exit, At, Goto
<1>6. ASSUME NEW p \in Proc, ExitReparent(p) PROVE StateInv'
  BY <1>6 DEF RunType, States, StateInv, ForkInv, Forking, Live, ExitReparent, At, Goto, Reparent, Woken, Kids
<1>7. ASSUME NEW p \in Proc, ExitZombie(p) PROVE StateInv'
  BY <1>7 DEF RunType, States, StateInv, ForkInv, Forking, Live, ExitZombie, At, Goto
<1>8. ASSUME NEW p \in Proc, ExitSched(p) PROVE StateInv'
  BY <1>8 DEF RunType, States, StateInv, ForkInv, Forking, Live, ExitSched, Goto
<1>9. ASSUME NEW p \in Proc, Wait(p) PROVE StateInv'
  BY <1>9 DEF RunType, States, StateInv, ForkInv, Forking, Live, Wait, Syscall, At, Goto
<1>10. ASSUME NEW p \in Proc, WaitLock(p) PROVE StateInv'
  BY <1>10 DEF RunType, States, StateInv, ForkInv, Forking, Live, WaitLock, At, Goto
<1>11. ASSUME NEW p \in Proc, NEW q \in Proc, Reaps(p, q) PROVE StateInv'
  BY <1>11 DEF RunType, States, StateInv, ForkInv, Forking, Live, Reaps, At, Goto, Zombies, Kids, PLockFree, Freeproc
<1>12. ASSUME NEW p \in Proc, WaitTest(p) PROVE StateInv'
  BY <1>12 DEF RunType, States, StateInv, ForkInv, Forking, Live, WaitTest, At, Goto, Zombies, Kids
<1>13. ASSUME NEW p \in Proc, WaitSleep(p) PROVE StateInv'
  BY <1>13 DEF RunType, States, StateInv, ForkInv, Forking, Live, WaitSleep, At, Goto
<1>14. ASSUME NEW p \in Proc, SysSleep(p) PROVE StateInv'
  BY <1>14 DEF RunType, States, StateInv, ForkInv, Forking, Live, SysSleep, Syscall, At, Goto
<1>15. ASSUME NEW p \in Proc, TicksTest(p) PROVE StateInv'
  BY <1>15 DEF RunType, States, StateInv, ForkInv, Forking, Live, TicksTest, At, Goto
<1>16. ASSUME NEW p \in Proc, TicksSleep(p) PROVE StateInv'
  BY <1>16 DEF RunType, States, StateInv, ForkInv, Forking, Live, TicksSleep, At, Goto
<1>17. ASSUME ClockIntr PROVE StateInv'
  BY <1>17 DEF RunType, States, StateInv, ForkInv, Forking, Live, ClockIntr
<1>18. ASSUME NEW p \in Proc, NEW q \in Proc, NEW n \in KILLARGS, Kills(p, q, n) PROVE StateInv'
  BY <1>18 DEF RunType, States, StateInv, ForkInv, Forking, Live, Kills, Syscall, At, PLockFree
<1>19. ASSUME NEW p \in Proc, Setkilled(p) PROVE StateInv'
  BY <1>19 DEF RunType, States, StateInv, ForkInv, Forking, Live, Setkilled, At
<1>20. CASE UNCHANGED vars
  BY <1>20 DEF RunType, States, StateInv, ForkInv, Forking, Live, vars
<1> QED BY <1>1, <1>2, <1>3, <1>4, <1>5, <1>6, <1>7, <1>8, <1>9, <1>10, <1>11, <1>12, <1>13, <1>14, <1>15, <1>16, <1>17, <1>18, <1>19, <1>20, StepCases DEF Step

\* init never exits: exit() panics.
LEMMA InitStep ==
    ASSUME RunType, StateInv, InitInv, [Next]_vars
    PROVE  InitInv'
<1>1. ASSUME NEW p \in Proc, NEW q \in Proc, AllocProc(p, q) PROVE InitInv'
  BY <1>1 DEF RunType, StateInv, InitInv, Live, AllocProc, Syscall, At, Goto
<1>2. ASSUME NEW p \in Proc, NEW q \in Proc, AllocFails(p, q) PROVE InitInv'
  BY <1>2 DEF RunType, StateInv, InitInv, Live, AllocFails, Syscall, At
<1>3. ASSUME NEW p \in Proc, ForkParent(p) PROVE InitInv'
  BY <1>3 DEF RunType, StateInv, InitInv, Live, ForkParent, At, Goto
<1>4. ASSUME NEW p \in Proc, ForkRunnable(p) PROVE InitInv'
  BY <1>4 DEF RunType, StateInv, InitInv, Live, ForkRunnable, At
<1>5. ASSUME NEW p \in Proc, Exit(p) PROVE InitInv'
  BY <1>5 DEF RunType, StateInv, InitInv, Live, Exit, At, Goto
<1>6. ASSUME NEW p \in Proc, ExitReparent(p) PROVE InitInv'
  BY <1>6 DEF RunType, StateInv, InitInv, Live, ExitReparent, At, Goto, Reparent, Woken, Kids
<1>7. ASSUME NEW p \in Proc, ExitZombie(p) PROVE InitInv'
  BY <1>7 DEF RunType, StateInv, InitInv, Live, ExitZombie, At, Goto
<1>8. ASSUME NEW p \in Proc, ExitSched(p) PROVE InitInv'
  BY <1>8 DEF RunType, StateInv, InitInv, Live, ExitSched, Goto
<1>9. ASSUME NEW p \in Proc, Wait(p) PROVE InitInv'
  BY <1>9 DEF RunType, StateInv, InitInv, Live, Wait, Syscall, At, Goto
<1>10. ASSUME NEW p \in Proc, WaitLock(p) PROVE InitInv'
  BY <1>10 DEF RunType, StateInv, InitInv, Live, WaitLock, At, Goto
<1>11. ASSUME NEW p \in Proc, NEW q \in Proc, Reaps(p, q) PROVE InitInv'
  BY <1>11 DEF RunType, StateInv, InitInv, Live, Reaps, At, Goto, Zombies, Kids, PLockFree, Freeproc
<1>12. ASSUME NEW p \in Proc, WaitTest(p) PROVE InitInv'
  BY <1>12 DEF RunType, StateInv, InitInv, Live, WaitTest, At, Goto, Zombies, Kids
<1>13. ASSUME NEW p \in Proc, WaitSleep(p) PROVE InitInv'
  BY <1>13 DEF RunType, StateInv, InitInv, Live, WaitSleep, At, Goto
<1>14. ASSUME NEW p \in Proc, SysSleep(p) PROVE InitInv'
  BY <1>14 DEF RunType, StateInv, InitInv, Live, SysSleep, Syscall, At, Goto
<1>15. ASSUME NEW p \in Proc, TicksTest(p) PROVE InitInv'
  BY <1>15 DEF RunType, StateInv, InitInv, Live, TicksTest, At, Goto
<1>16. ASSUME NEW p \in Proc, TicksSleep(p) PROVE InitInv'
  BY <1>16 DEF RunType, StateInv, InitInv, Live, TicksSleep, At, Goto
<1>17. ASSUME ClockIntr PROVE InitInv'
  BY <1>17 DEF RunType, StateInv, InitInv, Live, ClockIntr
<1>18. ASSUME NEW p \in Proc, NEW q \in Proc, NEW n \in KILLARGS, Kills(p, q, n) PROVE InitInv'
  BY <1>18 DEF RunType, StateInv, InitInv, Live, Kills, Syscall, At, PLockFree
<1>19. ASSUME NEW p \in Proc, Setkilled(p) PROVE InitInv'
  BY <1>19 DEF RunType, StateInv, InitInv, Live, Setkilled, At
<1>20. CASE UNCHANGED vars
  BY <1>20 DEF RunType, StateInv, InitInv, Live, vars
<1> QED BY <1>1, <1>2, <1>3, <1>4, <1>5, <1>6, <1>7, <1>8, <1>9, <1>10, <1>11, <1>12, <1>13, <1>14, <1>15, <1>16, <1>17, <1>18, <1>19, <1>20, StepCases DEF Step

\* A slot is allocated by one fork() only.
LEMMA ForkingStep ==
    ASSUME RunType, TableType, StateInv, ForkInv, [Next]_vars
    PROVE  ForkInv'
<1>1. ASSUME NEW p \in Proc, NEW q \in Proc, AllocProc(p, q) PROVE ForkInv'
  BY <1>1 DEF RunType, TableType, StateInv, ForkInv, Forking, Live, AllocProc, Syscall, At, Goto
<1>2. ASSUME NEW p \in Proc, NEW q \in Proc, AllocFails(p, q) PROVE ForkInv'
  BY <1>2 DEF RunType, TableType, StateInv, ForkInv, Forking, Live, AllocFails, Syscall, At
<1>3. ASSUME NEW p \in Proc, ForkParent(p) PROVE ForkInv'
  BY <1>3 DEF RunType, TableType, StateInv, ForkInv, Forking, Live, ForkParent, At, Goto
<1>4. ASSUME NEW p \in Proc, ForkRunnable(p) PROVE ForkInv'
  BY <1>4 DEF RunType, TableType, StateInv, ForkInv, Forking, Live, ForkRunnable, At
<1>5. ASSUME NEW p \in Proc, Exit(p) PROVE ForkInv'
  BY <1>5 DEF RunType, TableType, StateInv, ForkInv, Forking, Live, Exit, At, Goto
<1>6. ASSUME NEW p \in Proc, ExitReparent(p) PROVE ForkInv'
  BY <1>6 DEF RunType, TableType, StateInv, ForkInv, Forking, Live, ExitReparent, At, Goto, Reparent, Woken, Kids
<1>7. ASSUME NEW p \in Proc, ExitZombie(p) PROVE ForkInv'
  BY <1>7 DEF RunType, TableType, StateInv, ForkInv, Forking, Live, ExitZombie, At, Goto
<1>8. ASSUME NEW p \in Proc, ExitSched(p) PROVE ForkInv'
  BY <1>8 DEF RunType, TableType, StateInv, ForkInv, Forking, Live, ExitSched, Goto
<1>9. ASSUME NEW p \in Proc, Wait(p) PROVE ForkInv'
  BY <1>9 DEF RunType, TableType, StateInv, ForkInv, Forking, Live, Wait, Syscall, At, Goto
<1>10. ASSUME NEW p \in Proc, WaitLock(p) PROVE ForkInv'
  BY <1>10 DEF RunType, TableType, StateInv, ForkInv, Forking, Live, WaitLock, At, Goto
<1>11. ASSUME NEW p \in Proc, NEW q \in Proc, Reaps(p, q) PROVE ForkInv'
  BY <1>11 DEF RunType, TableType, StateInv, ForkInv, Forking, Live, Reaps, At, Goto, Zombies, Kids, PLockFree, Freeproc
<1>12. ASSUME NEW p \in Proc, WaitTest(p) PROVE ForkInv'
  BY <1>12 DEF RunType, TableType, StateInv, ForkInv, Forking, Live, WaitTest, At, Goto, Zombies, Kids
<1>13. ASSUME NEW p \in Proc, WaitSleep(p) PROVE ForkInv'
  BY <1>13 DEF RunType, TableType, StateInv, ForkInv, Forking, Live, WaitSleep, At, Goto
<1>14. ASSUME NEW p \in Proc, SysSleep(p) PROVE ForkInv'
  BY <1>14 DEF RunType, TableType, StateInv, ForkInv, Forking, Live, SysSleep, Syscall, At, Goto
<1>15. ASSUME NEW p \in Proc, TicksTest(p) PROVE ForkInv'
  BY <1>15 DEF RunType, TableType, StateInv, ForkInv, Forking, Live, TicksTest, At, Goto
<1>16. ASSUME NEW p \in Proc, TicksSleep(p) PROVE ForkInv'
  BY <1>16 DEF RunType, TableType, StateInv, ForkInv, Forking, Live, TicksSleep, At, Goto
<1>17. ASSUME ClockIntr PROVE ForkInv'
  BY <1>17 DEF RunType, TableType, StateInv, ForkInv, Forking, Live, ClockIntr
<1>18. ASSUME NEW p \in Proc, NEW q \in Proc, NEW n \in KILLARGS, Kills(p, q, n) PROVE ForkInv'
  BY <1>18 DEF RunType, TableType, StateInv, ForkInv, Forking, Live, Kills, Syscall, At, PLockFree
<1>19. ASSUME NEW p \in Proc, Setkilled(p) PROVE ForkInv'
  BY <1>19 DEF RunType, TableType, StateInv, ForkInv, Forking, Live, Setkilled, At
<1>20. CASE UNCHANGED vars
  BY <1>20 DEF RunType, TableType, StateInv, ForkInv, Forking, Live, vars
<1> QED BY <1>1, <1>2, <1>3, <1>4, <1>5, <1>6, <1>7, <1>8, <1>9, <1>10, <1>11, <1>12, <1>13, <1>14, <1>15, <1>16, <1>17, <1>18, <1>19, <1>20, StepCases DEF Step

\* wait_lock is held by one process.
LEMMA LockStep ==
    ASSUME RunType, StateInv, ForkInv, LockInv, [Next]_vars
    PROVE  LockInv'
<1>1. ASSUME NEW p \in Proc, NEW q \in Proc, AllocProc(p, q) PROVE LockInv'
  BY <1>1 DEF RunType, StateInv, ForkInv, LockInv, Forking, HoldsWaitLock, Live, AllocProc, Syscall, At, Goto
<1>2. ASSUME NEW p \in Proc, NEW q \in Proc, AllocFails(p, q) PROVE LockInv'
  BY <1>2 DEF RunType, StateInv, ForkInv, LockInv, Forking, HoldsWaitLock, Live, AllocFails, Syscall, At
<1>3. ASSUME NEW p \in Proc, ForkParent(p) PROVE LockInv'
  BY <1>3 DEF RunType, StateInv, ForkInv, LockInv, Forking, HoldsWaitLock, Live, ForkParent, At, Goto
<1>4. ASSUME NEW p \in Proc, ForkRunnable(p) PROVE LockInv'
  BY <1>4 DEF RunType, StateInv, ForkInv, LockInv, Forking, HoldsWaitLock, Live, ForkRunnable, At
<1>5. ASSUME NEW p \in Proc, Exit(p) PROVE LockInv'
  BY <1>5 DEF RunType, StateInv, ForkInv, LockInv, Forking, HoldsWaitLock, Live, Exit, At, Goto
<1>6. ASSUME NEW p \in Proc, ExitReparent(p) PROVE LockInv'
  BY <1>6 DEF RunType, StateInv, ForkInv, LockInv, Forking, HoldsWaitLock, Live, ExitReparent, At, Goto, Reparent, Woken, Kids
<1>7. ASSUME NEW p \in Proc, ExitZombie(p) PROVE LockInv'
  BY <1>7 DEF RunType, StateInv, ForkInv, LockInv, Forking, HoldsWaitLock, Live, ExitZombie, At, Goto
<1>8. ASSUME NEW p \in Proc, ExitSched(p) PROVE LockInv'
  BY <1>8 DEF RunType, StateInv, ForkInv, LockInv, Forking, HoldsWaitLock, Live, ExitSched, Goto
<1>9. ASSUME NEW p \in Proc, Wait(p) PROVE LockInv'
  BY <1>9 DEF RunType, StateInv, ForkInv, LockInv, Forking, HoldsWaitLock, Live, Wait, Syscall, At, Goto
<1>10. ASSUME NEW p \in Proc, WaitLock(p) PROVE LockInv'
  BY <1>10 DEF RunType, StateInv, ForkInv, LockInv, Forking, HoldsWaitLock, Live, WaitLock, At, Goto
<1>11. ASSUME NEW p \in Proc, NEW q \in Proc, Reaps(p, q) PROVE LockInv'
  BY <1>11 DEF RunType, StateInv, ForkInv, LockInv, Forking, HoldsWaitLock, Live, Reaps, At, Goto, Zombies, Kids, PLockFree, Freeproc
<1>12. ASSUME NEW p \in Proc, WaitTest(p) PROVE LockInv'
  BY <1>12 DEF RunType, StateInv, ForkInv, LockInv, Forking, HoldsWaitLock, Live, WaitTest, At, Goto, Zombies, Kids
<1>13. ASSUME NEW p \in Proc, WaitSleep(p) PROVE LockInv'
  BY <1>13 DEF RunType, StateInv, ForkInv, LockInv, Forking, HoldsWaitLock, Live, WaitSleep, At, Goto
<1>14. ASSUME NEW p \in Proc, SysSleep(p) PROVE LockInv'
  BY <1>14 DEF RunType, StateInv, ForkInv, LockInv, Forking, HoldsWaitLock, Live, SysSleep, Syscall, At, Goto
<1>15. ASSUME NEW p \in Proc, TicksTest(p) PROVE LockInv'
  BY <1>15 DEF RunType, StateInv, ForkInv, LockInv, Forking, HoldsWaitLock, Live, TicksTest, At, Goto
<1>16. ASSUME NEW p \in Proc, TicksSleep(p) PROVE LockInv'
  BY <1>16 DEF RunType, StateInv, ForkInv, LockInv, Forking, HoldsWaitLock, Live, TicksSleep, At, Goto
<1>17. ASSUME ClockIntr PROVE LockInv'
  BY <1>17 DEF RunType, StateInv, ForkInv, LockInv, Forking, HoldsWaitLock, Live, ClockIntr
<1>18. ASSUME NEW p \in Proc, NEW q \in Proc, NEW n \in KILLARGS, Kills(p, q, n) PROVE LockInv'
  BY <1>18 DEF RunType, StateInv, ForkInv, LockInv, Forking, HoldsWaitLock, Live, Kills, Syscall, At, PLockFree
<1>19. ASSUME NEW p \in Proc, Setkilled(p) PROVE LockInv'
  BY <1>19 DEF RunType, StateInv, ForkInv, LockInv, Forking, HoldsWaitLock, Live, Setkilled, At
<1>20. CASE UNCHANGED vars
  BY <1>20 DEF RunType, StateInv, ForkInv, LockInv, Forking, HoldsWaitLock, Live, vars
<1> QED BY <1>1, <1>2, <1>3, <1>4, <1>5, <1>6, <1>7, <1>8, <1>9, <1>10, <1>11, <1>12, <1>13, <1>14, <1>15, <1>16, <1>17, <1>18, <1>19, <1>20, StepCases DEF Step

\* reparent() leaves no child behind.
LEMMA FamilyStep ==
    ASSUME RunType, TableType, StateInv, InitInv, ForkInv, FamilyInv, [Next]_vars
    PROVE  FamilyInv'
<1>1. ASSUME NEW p \in Proc, NEW q \in Proc, AllocProc(p, q) PROVE FamilyInv'
  BY <1>1 DEF RunType, TableType, StateInv, InitInv, ForkInv, FamilyInv, Forking, Live, AllocProc, Syscall, At, Goto
<1>2. ASSUME NEW p \in Proc, NEW q \in Proc, AllocFails(p, q) PROVE FamilyInv'
  BY <1>2 DEF RunType, TableType, StateInv, InitInv, ForkInv, FamilyInv, Forking, Live, AllocFails, Syscall, At
<1>3. ASSUME NEW p \in Proc, ForkParent(p) PROVE FamilyInv'
  BY <1>3 DEF RunType, TableType, StateInv, InitInv, ForkInv, FamilyInv, Forking, Live, ForkParent, At, Goto
<1>4. ASSUME NEW p \in Proc, ForkRunnable(p) PROVE FamilyInv'
  BY <1>4 DEF RunType, TableType, StateInv, InitInv, ForkInv, FamilyInv, Forking, Live, ForkRunnable, At
<1>5. ASSUME NEW p \in Proc, Exit(p) PROVE FamilyInv'
  BY <1>5 DEF RunType, TableType, StateInv, InitInv, ForkInv, FamilyInv, Forking, Live, Exit, At, Goto
<1>6. ASSUME NEW p \in Proc, ExitReparent(p) PROVE FamilyInv'
  BY <1>6 DEF RunType, TableType, StateInv, InitInv, ForkInv, FamilyInv, Forking, Live, ExitReparent, At, Goto, Reparent, Woken, Kids
<1>7. ASSUME NEW p \in Proc, ExitZombie(p) PROVE FamilyInv'
  BY <1>7 DEF RunType, TableType, StateInv, InitInv, ForkInv, FamilyInv, Forking, Live, ExitZombie, At, Goto
<1>8. ASSUME NEW p \in Proc, ExitSched(p) PROVE FamilyInv'
  BY <1>8 DEF RunType, TableType, StateInv, InitInv, ForkInv, FamilyInv, Forking, Live, ExitSched, Goto
<1>9. ASSUME NEW p \in Proc, Wait(p) PROVE FamilyInv'
  BY <1>9 DEF RunType, TableType, StateInv, InitInv, ForkInv, FamilyInv, Forking, Live, Wait, Syscall, At, Goto
<1>10. ASSUME NEW p \in Proc, WaitLock(p) PROVE FamilyInv'
  BY <1>10 DEF RunType, TableType, StateInv, InitInv, ForkInv, FamilyInv, Forking, Live, WaitLock, At, Goto
<1>11. ASSUME NEW p \in Proc, NEW q \in Proc, Reaps(p, q) PROVE FamilyInv'
  BY <1>11 DEF RunType, TableType, StateInv, InitInv, ForkInv, FamilyInv, Forking, Live, Reaps, At, Goto, Zombies, Kids, PLockFree, Freeproc
<1>12. ASSUME NEW p \in Proc, WaitTest(p) PROVE FamilyInv'
  BY <1>12 DEF RunType, TableType, StateInv, InitInv, ForkInv, FamilyInv, Forking, Live, WaitTest, At, Goto, Zombies, Kids
<1>13. ASSUME NEW p \in Proc, WaitSleep(p) PROVE FamilyInv'
  BY <1>13 DEF RunType, TableType, StateInv, InitInv, ForkInv, FamilyInv, Forking, Live, WaitSleep, At, Goto
<1>14. ASSUME NEW p \in Proc, SysSleep(p) PROVE FamilyInv'
  BY <1>14 DEF RunType, TableType, StateInv, InitInv, ForkInv, FamilyInv, Forking, Live, SysSleep, Syscall, At, Goto
<1>15. ASSUME NEW p \in Proc, TicksTest(p) PROVE FamilyInv'
  BY <1>15 DEF RunType, TableType, StateInv, InitInv, ForkInv, FamilyInv, Forking, Live, TicksTest, At, Goto
<1>16. ASSUME NEW p \in Proc, TicksSleep(p) PROVE FamilyInv'
  BY <1>16 DEF RunType, TableType, StateInv, InitInv, ForkInv, FamilyInv, Forking, Live, TicksSleep, At, Goto
<1>17. ASSUME ClockIntr PROVE FamilyInv'
  BY <1>17 DEF RunType, TableType, StateInv, InitInv, ForkInv, FamilyInv, Forking, Live, ClockIntr
<1>18. ASSUME NEW p \in Proc, NEW q \in Proc, NEW n \in KILLARGS, Kills(p, q, n) PROVE FamilyInv'
  BY <1>18 DEF RunType, TableType, StateInv, InitInv, ForkInv, FamilyInv, Forking, Live, Kills, Syscall, At, PLockFree
<1>19. ASSUME NEW p \in Proc, Setkilled(p) PROVE FamilyInv'
  BY <1>19 DEF RunType, TableType, StateInv, InitInv, ForkInv, FamilyInv, Forking, Live, Setkilled, At
<1>20. CASE UNCHANGED vars
  BY <1>20 DEF RunType, TableType, StateInv, InitInv, ForkInv, FamilyInv, Forking, Live, vars
<1> QED BY <1>1, <1>2, <1>3, <1>4, <1>5, <1>6, <1>7, <1>8, <1>9, <1>10, <1>11, <1>12, <1>13, <1>14, <1>15, <1>16, <1>17, <1>18, <1>19, <1>20, StepCases DEF Step

\* exit() wakes a parent that waits.
LEMMA WaitingStep ==
    ASSUME RunType, TableType, StateInv, InitInv, ForkInv, LockInv, FamilyInv, WaitInv, [Next]_vars
    PROVE  WaitInv'
<1>1. ASSUME NEW p \in Proc, NEW q \in Proc, AllocProc(p, q) PROVE WaitInv'
  BY <1>1 DEF RunType, TableType, StateInv, InitInv, ForkInv, LockInv, FamilyInv, WaitInv, Waits, HoldsWaitLock, Forking, Live, AllocProc, Syscall, At, Goto
<1>2. ASSUME NEW p \in Proc, NEW q \in Proc, AllocFails(p, q) PROVE WaitInv'
  BY <1>2 DEF RunType, TableType, StateInv, InitInv, ForkInv, LockInv, FamilyInv, WaitInv, Waits, HoldsWaitLock, Forking, Live, AllocFails, Syscall, At
<1>3. ASSUME NEW p \in Proc, ForkParent(p) PROVE WaitInv'
  BY <1>3 DEF RunType, TableType, StateInv, InitInv, ForkInv, LockInv, FamilyInv, WaitInv, Waits, HoldsWaitLock, Forking, Live, ForkParent, At, Goto
<1>4. ASSUME NEW p \in Proc, ForkRunnable(p) PROVE WaitInv'
  BY <1>4 DEF RunType, TableType, StateInv, InitInv, ForkInv, LockInv, FamilyInv, WaitInv, Waits, HoldsWaitLock, Forking, Live, ForkRunnable, At
<1>5. ASSUME NEW p \in Proc, Exit(p) PROVE WaitInv'
  BY <1>5 DEF RunType, TableType, StateInv, InitInv, ForkInv, LockInv, FamilyInv, WaitInv, Waits, HoldsWaitLock, Forking, Live, Exit, At, Goto
<1>6. ASSUME NEW p \in Proc, ExitReparent(p) PROVE WaitInv'
  BY <1>6 DEF RunType, TableType, StateInv, InitInv, ForkInv, LockInv, FamilyInv, WaitInv, Waits, HoldsWaitLock, Forking, Live, ExitReparent, At, Goto, Reparent, Woken, Kids
<1>7. ASSUME NEW p \in Proc, ExitZombie(p) PROVE WaitInv'
  BY <1>7 DEF RunType, TableType, StateInv, InitInv, ForkInv, LockInv, FamilyInv, WaitInv, Waits, HoldsWaitLock, Forking, Live, ExitZombie, At, Goto
<1>8. ASSUME NEW p \in Proc, ExitSched(p) PROVE WaitInv'
  BY <1>8 DEF RunType, TableType, StateInv, InitInv, ForkInv, LockInv, FamilyInv, WaitInv, Waits, HoldsWaitLock, Forking, Live, ExitSched, Goto
<1>9. ASSUME NEW p \in Proc, Wait(p) PROVE WaitInv'
  BY <1>9 DEF RunType, TableType, StateInv, InitInv, ForkInv, LockInv, FamilyInv, WaitInv, Waits, HoldsWaitLock, Forking, Live, Wait, Syscall, At, Goto
<1>10. ASSUME NEW p \in Proc, WaitLock(p) PROVE WaitInv'
  BY <1>10 DEF RunType, TableType, StateInv, InitInv, ForkInv, LockInv, FamilyInv, WaitInv, Waits, HoldsWaitLock, Forking, Live, WaitLock, At, Goto
<1>11. ASSUME NEW p \in Proc, NEW q \in Proc, Reaps(p, q) PROVE WaitInv'
  BY <1>11 DEF RunType, TableType, StateInv, InitInv, ForkInv, LockInv, FamilyInv, WaitInv, Waits, HoldsWaitLock, Forking, Live, Reaps, At, Goto, Zombies, Kids, PLockFree, Freeproc
<1>12. ASSUME NEW p \in Proc, WaitTest(p) PROVE WaitInv'
  BY <1>12 DEF RunType, TableType, StateInv, InitInv, ForkInv, LockInv, FamilyInv, WaitInv, Waits, HoldsWaitLock, Forking, Live, WaitTest, At, Goto, Zombies, Kids
<1>13. ASSUME NEW p \in Proc, WaitSleep(p) PROVE WaitInv'
  BY <1>13 DEF RunType, TableType, StateInv, InitInv, ForkInv, LockInv, FamilyInv, WaitInv, Waits, HoldsWaitLock, Forking, Live, WaitSleep, At, Goto
<1>14. ASSUME NEW p \in Proc, SysSleep(p) PROVE WaitInv'
  BY <1>14 DEF RunType, TableType, StateInv, InitInv, ForkInv, LockInv, FamilyInv, WaitInv, Waits, HoldsWaitLock, Forking, Live, SysSleep, Syscall, At, Goto
<1>15. ASSUME NEW p \in Proc, TicksTest(p) PROVE WaitInv'
  BY <1>15 DEF RunType, TableType, StateInv, InitInv, ForkInv, LockInv, FamilyInv, WaitInv, Waits, HoldsWaitLock, Forking, Live, TicksTest, At, Goto
<1>16. ASSUME NEW p \in Proc, TicksSleep(p) PROVE WaitInv'
  BY <1>16 DEF RunType, TableType, StateInv, InitInv, ForkInv, LockInv, FamilyInv, WaitInv, Waits, HoldsWaitLock, Forking, Live, TicksSleep, At, Goto
<1>17. ASSUME ClockIntr PROVE WaitInv'
  BY <1>17 DEF RunType, TableType, StateInv, InitInv, ForkInv, LockInv, FamilyInv, WaitInv, Waits, HoldsWaitLock, Forking, Live, ClockIntr
<1>18. ASSUME NEW p \in Proc, NEW q \in Proc, NEW n \in KILLARGS, Kills(p, q, n) PROVE WaitInv'
  BY <1>18 DEF RunType, TableType, StateInv, InitInv, ForkInv, LockInv, FamilyInv, WaitInv, Waits, HoldsWaitLock, Forking, Live, Kills, Syscall, At, PLockFree
<1>19. ASSUME NEW p \in Proc, Setkilled(p) PROVE WaitInv'
  BY <1>19 DEF RunType, TableType, StateInv, InitInv, ForkInv, LockInv, FamilyInv, WaitInv, Waits, HoldsWaitLock, Forking, Live, Setkilled, At
<1>20. CASE UNCHANGED vars
  BY <1>20 DEF RunType, TableType, StateInv, InitInv, ForkInv, LockInv, FamilyInv, WaitInv, Waits, HoldsWaitLock, Forking, Live, vars
<1> QED BY <1>1, <1>2, <1>3, <1>4, <1>5, <1>6, <1>7, <1>8, <1>9, <1>10, <1>11, <1>12, <1>13, <1>14, <1>15, <1>16, <1>17, <1>18, <1>19, <1>20, StepCases DEF Step

\* A pid is given out once.
LEMMA PidStep ==
    ASSUME RunType, TableType, ForkInv, PidInv, [Next]_vars
    PROVE  PidInv'
<1>1. ASSUME NEW p \in Proc, NEW q \in Proc, AllocProc(p, q) PROVE PidInv'
  BY <1>1 DEF RunType, TableType, ForkInv, Forking, PidInv, AllocProc, Syscall, At, Goto
<1>2. ASSUME NEW p \in Proc, NEW q \in Proc, AllocFails(p, q) PROVE PidInv'
  BY <1>2 DEF RunType, TableType, ForkInv, Forking, PidInv, AllocFails, Syscall, At
<1>3. ASSUME NEW p \in Proc, ForkParent(p) PROVE PidInv'
  BY <1>3 DEF RunType, TableType, ForkInv, Forking, PidInv, ForkParent, At, Goto
<1>4. ASSUME NEW p \in Proc, ForkRunnable(p) PROVE PidInv'
  BY <1>4 DEF RunType, TableType, ForkInv, Forking, PidInv, ForkRunnable, At
<1>5. ASSUME NEW p \in Proc, Exit(p) PROVE PidInv'
  BY <1>5 DEF RunType, TableType, ForkInv, Forking, PidInv, Exit, At, Goto
<1>6. ASSUME NEW p \in Proc, ExitReparent(p) PROVE PidInv'
  BY <1>6 DEF RunType, TableType, ForkInv, Forking, PidInv, ExitReparent, At, Goto, Reparent, Woken, Kids
<1>7. ASSUME NEW p \in Proc, ExitZombie(p) PROVE PidInv'
  BY <1>7 DEF RunType, TableType, ForkInv, Forking, PidInv, ExitZombie, At, Goto
<1>8. ASSUME NEW p \in Proc, ExitSched(p) PROVE PidInv'
  BY <1>8 DEF RunType, TableType, ForkInv, Forking, PidInv, ExitSched, Goto
<1>9. ASSUME NEW p \in Proc, Wait(p) PROVE PidInv'
  BY <1>9 DEF RunType, TableType, ForkInv, Forking, PidInv, Wait, Syscall, At, Goto
<1>10. ASSUME NEW p \in Proc, WaitLock(p) PROVE PidInv'
  BY <1>10 DEF RunType, TableType, ForkInv, Forking, PidInv, WaitLock, At, Goto
<1>11. ASSUME NEW p \in Proc, NEW q \in Proc, Reaps(p, q) PROVE PidInv'
  BY <1>11 DEF RunType, TableType, ForkInv, Forking, PidInv, Reaps, At, Goto, Zombies, Kids, PLockFree, Freeproc
<1>12. ASSUME NEW p \in Proc, WaitTest(p) PROVE PidInv'
  BY <1>12 DEF RunType, TableType, ForkInv, Forking, PidInv, WaitTest, At, Goto, Zombies, Kids
<1>13. ASSUME NEW p \in Proc, WaitSleep(p) PROVE PidInv'
  BY <1>13 DEF RunType, TableType, ForkInv, Forking, PidInv, WaitSleep, At, Goto
<1>14. ASSUME NEW p \in Proc, SysSleep(p) PROVE PidInv'
  BY <1>14 DEF RunType, TableType, ForkInv, Forking, PidInv, SysSleep, Syscall, At, Goto
<1>15. ASSUME NEW p \in Proc, TicksTest(p) PROVE PidInv'
  BY <1>15 DEF RunType, TableType, ForkInv, Forking, PidInv, TicksTest, At, Goto
<1>16. ASSUME NEW p \in Proc, TicksSleep(p) PROVE PidInv'
  BY <1>16 DEF RunType, TableType, ForkInv, Forking, PidInv, TicksSleep, At, Goto
<1>17. ASSUME ClockIntr PROVE PidInv'
  BY <1>17 DEF RunType, TableType, ForkInv, Forking, PidInv, ClockIntr
<1>18. ASSUME NEW p \in Proc, NEW q \in Proc, NEW n \in KILLARGS, Kills(p, q, n) PROVE PidInv'
  BY <1>18 DEF RunType, TableType, ForkInv, Forking, PidInv, Kills, Syscall, At, PLockFree
<1>19. ASSUME NEW p \in Proc, Setkilled(p) PROVE PidInv'
  BY <1>19 DEF RunType, TableType, ForkInv, Forking, PidInv, Setkilled, At
<1>20. CASE UNCHANGED vars
  BY <1>20 DEF RunType, TableType, ForkInv, Forking, PidInv, vars
<1> QED BY <1>1, <1>2, <1>3, <1>4, <1>5, <1>6, <1>7, <1>8, <1>9, <1>10, <1>11, <1>12, <1>13, <1>14, <1>15, <1>16, <1>17, <1>18, <1>19, <1>20, StepCases DEF Step

\* A killed flag does not outlive its process.
LEMMA KilledStep ==
    ASSUME RunType, TableType, PidInv, KillInv, [Next]_vars
    PROVE  KillInv'
<1>1. ASSUME NEW p \in Proc, NEW q \in Proc, AllocProc(p, q) PROVE KillInv'
  BY <1>1 DEF RunType, TableType, PidInv, KillInv, AllocProc, Syscall, At, Goto
<1>2. ASSUME NEW p \in Proc, NEW q \in Proc, AllocFails(p, q) PROVE KillInv'
  BY <1>2 DEF RunType, TableType, PidInv, KillInv, AllocFails, Syscall, At
<1>3. ASSUME NEW p \in Proc, ForkParent(p) PROVE KillInv'
  BY <1>3 DEF RunType, TableType, PidInv, KillInv, ForkParent, At, Goto
<1>4. ASSUME NEW p \in Proc, ForkRunnable(p) PROVE KillInv'
  BY <1>4 DEF RunType, TableType, PidInv, KillInv, ForkRunnable, At
<1>5. ASSUME NEW p \in Proc, Exit(p) PROVE KillInv'
  BY <1>5 DEF RunType, TableType, PidInv, KillInv, Exit, At, Goto
<1>6. ASSUME NEW p \in Proc, ExitReparent(p) PROVE KillInv'
  BY <1>6 DEF RunType, TableType, PidInv, KillInv, ExitReparent, At, Goto, Reparent, Woken, Kids
<1>7. ASSUME NEW p \in Proc, ExitZombie(p) PROVE KillInv'
  BY <1>7 DEF RunType, TableType, PidInv, KillInv, ExitZombie, At, Goto
<1>8. ASSUME NEW p \in Proc, ExitSched(p) PROVE KillInv'
  BY <1>8 DEF RunType, TableType, PidInv, KillInv, ExitSched, Goto
<1>9. ASSUME NEW p \in Proc, Wait(p) PROVE KillInv'
  BY <1>9 DEF RunType, TableType, PidInv, KillInv, Wait, Syscall, At, Goto
<1>10. ASSUME NEW p \in Proc, WaitLock(p) PROVE KillInv'
  BY <1>10 DEF RunType, TableType, PidInv, KillInv, WaitLock, At, Goto
<1>11. ASSUME NEW p \in Proc, NEW q \in Proc, Reaps(p, q) PROVE KillInv'
  BY <1>11 DEF RunType, TableType, PidInv, KillInv, Reaps, At, Goto, Zombies, Kids, PLockFree, Freeproc
<1>12. ASSUME NEW p \in Proc, WaitTest(p) PROVE KillInv'
  BY <1>12 DEF RunType, TableType, PidInv, KillInv, WaitTest, At, Goto, Zombies, Kids
<1>13. ASSUME NEW p \in Proc, WaitSleep(p) PROVE KillInv'
  BY <1>13 DEF RunType, TableType, PidInv, KillInv, WaitSleep, At, Goto
<1>14. ASSUME NEW p \in Proc, SysSleep(p) PROVE KillInv'
  BY <1>14 DEF RunType, TableType, PidInv, KillInv, SysSleep, Syscall, At, Goto
<1>15. ASSUME NEW p \in Proc, TicksTest(p) PROVE KillInv'
  BY <1>15 DEF RunType, TableType, PidInv, KillInv, TicksTest, At, Goto
<1>16. ASSUME NEW p \in Proc, TicksSleep(p) PROVE KillInv'
  BY <1>16 DEF RunType, TableType, PidInv, KillInv, TicksSleep, At, Goto
<1>17. ASSUME ClockIntr PROVE KillInv'
  BY <1>17 DEF RunType, TableType, PidInv, KillInv, ClockIntr
<1>18. ASSUME NEW p \in Proc, NEW q \in Proc, NEW n \in KILLARGS, Kills(p, q, n) PROVE KillInv'
  BY <1>18 DEF RunType, TableType, PidInv, KillInv, Kills, Syscall, At, PLockFree
<1>19. ASSUME NEW p \in Proc, Setkilled(p) PROVE KillInv'
  BY <1>19 DEF RunType, TableType, PidInv, KillInv, Setkilled, At
<1>20. CASE UNCHANGED vars
  BY <1>20 DEF RunType, TableType, PidInv, KillInv, vars
<1> QED BY <1>1, <1>2, <1>3, <1>4, <1>5, <1>6, <1>7, <1>8, <1>9, <1>10, <1>11, <1>12, <1>13, <1>14, <1>15, <1>16, <1>17, <1>18, <1>19, <1>20, StepCases DEF Step

\* The state after userinit() satisfies the invariant.
LEMMA InvInit == Init => Inv
<1> SUFFICES ASSUME Init PROVE Inv
  OBVIOUS
<1>1. RunType
  BY ProcAssumption DEF Init, RunType, States, Label, Proc, initproc, None
<1>2. TableType
  BY <1>1, ProcAssumption DEF Init, RunType, TableType
<1>3. StateInv /\ InitInv
  BY <1>1 DEF Init, RunType, StateInv, InitInv, Live
<1>4. ForkInv
  BY DEF Init, ForkInv, Forking
<1>5. LockInv
  BY <1>1 DEF Init, RunType, LockInv, HoldsWaitLock
<1>6. FamilyInv /\ WaitInv
  BY DEF Init, FamilyInv, WaitInv
<1>7. PidInv
  BY <1>1 DEF Init, RunType, PidInv
<1>8. KillInv
  BY DEF Init, KillInv
<1>9. TypeOK
  BY <1>1, <1>2, Types
<1> QED BY <1>3, <1>4, <1>5, <1>6, <1>7, <1>8, <1>9 DEF Inv

\* All of it together.
LEMMA InvStep == Inv /\ [Next]_vars => Inv'
<1> SUFFICES ASSUME Inv, [Next]_vars PROVE Inv'
  OBVIOUS
<1>1. /\ RunType /\ TableType /\ StateInv /\ InitInv /\ ForkInv /\ LockInv
      /\ FamilyInv /\ WaitInv /\ PidInv /\ KillInv
  BY Types DEF Inv
<1>2. RunType' /\ TableType' /\ StateInv' /\ InitInv' /\ ForkInv'
  BY <1>1, RunTypeStep, TableTypeStep, StateStep, InitStep, ForkingStep, Zenon
<1>3. LockInv' /\ FamilyInv' /\ WaitInv' /\ PidInv' /\ KillInv'
  BY <1>1, LockStep, FamilyStep, WaitingStep, PidStep, KilledStep, Zenon
<1>4. TypeOK'
  BY <1>2 DEF TypeOK, RunType, TableType, States
<1> QED BY <1>2, <1>3, <1>4 DEF Inv

-----------------------------------------------------------------------------
(* The theorems.                                                           *)

\* The invariant holds of every reachable state of the process table.
THEOREM Invariance == Spec => []Inv
BY InvInit, InvStep, PTL DEF Spec

\* wait() frees a slot only when its process is off its kernel stack, although
\* a process is a ZOMBIE some time before it calls swtch() for the last time.
THEOREM FreedSlots == Spec => []FreedIsOffCpu
<1>1. Inv => FreedIsOffCpu
  BY DEF Inv, StateInv, FreedIsOffCpu, Live
<1> QED BY <1>1, Invariance, PTL

\* A live process that is marked killed was named to kill() or faulted, unless
\* somebody called kill(0): no flag is left over from an earlier process.
THEOREM KillIsExact == Spec => []KillHitsPid
<1>1. Inv => KillHitsPid
  BY DEF Inv, KillInv, KillHitsPid
<1> QED BY <1>1, Invariance, PTL

\* A parent that sleeps in wait() has no child that is a zombie: exit() wakes it
\* before, and both sides hold wait_lock.
NoExitMissed ==
    \A p \in Proc : state[p] = "SLEEPING" /\ pc[p] = "wait" => Zombies(p) = {}

\* sleep(p, &wait_lock) in wait() and wakeup(p->parent) in exit() lose no wakeup,
\* also when a zombie changes its parent in reparent().
THEOREM ExitIsNoticed == Spec => []NoExitMissed
<1>1. Inv => NoExitMissed
  BY DEF Inv, WaitInv, Waits, NoExitMissed, Zombies, Kids
<1> QED BY <1>1, Invariance, PTL

\* p->parent never refers to a slot whose process is gone, and no two processes
\* share a pid.
TableSound ==
    /\ \A q \in Proc : parent[q] # None => Live(parent[q])
    /\ \A p, q \in Proc : pid[p] = pid[q] /\ state[p] # "UNUSED" => p = q

\* exit() hands all children to init before it gives up the slot, and allocpid()
\* counts on.
THEOREM TableIsSound == Spec => []TableSound
<1>1. Inv => TableSound
  BY DEF Inv, FamilyInv, PidInv, TableSound
<1> QED BY <1>1, Invariance, PTL
=============================================================================
