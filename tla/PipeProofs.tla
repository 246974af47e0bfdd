----------------------------- MODULE PipeProofs -----------------------------
(***************************************************************************)
(* Proofs about the pipe, for any processes and bytes and any PIPESIZE     *)
(* that divides the number of values of an unsigned int: no wakeup is      *)
(* lost, a read gives 0 only at end of file or when copyout() fails, and   *)
(* the ring buffer is a queue.                                             *)
(***************************************************************************)
EXTENDS Pipe, TLAPS

-----------------------------------------------------------------------------
(* The inductive invariant.                                                *)

\* Who holds pi->lock, and which ends are open for a call to be under way.
ControlInv ==
    \A p \in Proc : /\ pc[p] \in Locked <=> lock = p
                    /\ pc[p] \in {"w_lock", "write", "w_sleep", "w_asleep"} => writeopen
                    /\ pc[p] \in {"r_lock", "read", "copy", "r_sleep", "r_asleep"} => readopen

\* What a read call has done so far.
CallInv ==
    \A p \in Proc : /\ pc[p] \in {"r_lock", "read", "r_sleep", "r_asleep"} => n[p] > 0
                    /\ pc[p] # "copy" => got[p] = <<>>
                    /\ pc[p] = "copy" /\ got[p] = <<>> => n[p] > 0 /\ ~(Empty /\ writeopen)

\* The bytes in the pipe.
Count == (nwrite - nread) % UINT
RoomInv == Count <= PIPESIZE

\* Why a process is about to sleep, and why it is still asleep: if not for what
\* it waits for, then because who holds the lock will wake it.
SleepInv ==
    /\ \A p \in Proc : /\ pc[p] = "w_sleep" => Full /\ readopen
                       /\ pc[p] = "r_sleep" => Empty /\ writeopen
    /\ (\A p \in Proc : ~killed[p]) =>
         \A p \in Proc :
            /\ pc[p] = "w_asleep" => readopen /\ (Full \/ \E q \in Proc : pc[q] = "copy")
            /\ pc[p] = "r_asleep" => writeopen /\ (Empty \/ \E q \in Proc : pc[q] = "write")

Inv == TypeOK /\ ControlInv /\ CallInv /\ RoomInv /\ SleepInv

-----------------------------------------------------------------------------
(* Arithmetic modulo m.                                                    *)

\* A remainder is what is left beyond whole turns.
LEMMA ModUnique ==
    ASSUME NEW m \in Nat \ {0}, NEW q \in Int, NEW r \in 0..(m - 1)
    PROVE  (m * q + r) % m = r
OBVIOUS

\* Division with remainder.
LEMMA ModDef ==
    ASSUME NEW m \in Nat \ {0}, NEW x \in Int
    PROVE  x \div m \in Int /\ x % m \in 0..(m - 1) /\ x = m * (x \div m) + (x % m)
OBVIOUS

\* Sums of turns are turns.
LEMMA Distribute ==
    ASSUME NEW m \in Int, NEW a \in Int, NEW b \in Int, NEW r \in Int
    PROVE  (m * a + r) + m * b = m * (a + b) + r /\ m * a - m * b = m * (a - b)
OBVIOUS

\* At most one turn away from 0..m-1.
LEMMA ModNear ==
    ASSUME NEW m \in Nat \ {0}, NEW x \in (-m)..(2 * m - 1)
    PROVE  x % m = IF x < 0 THEN x + m ELSE IF x < m THEN x ELSE x - m
<1>1. CASE x < 0
  <2>1. x = m * (-1) + (x + m) /\ x + m \in 0..(m - 1)
    BY <1>1
  <2> QED BY <1>1, <2>1, ModUnique
<1>2. CASE x >= 0 /\ x < m
  <2>1. x = m * 0 + x /\ x \in 0..(m - 1)
    BY <1>2
  <2> QED BY <1>2, <2>1, ModUnique
<1>3. CASE x >= m
  <2>1. x = m * 1 + (x - m) /\ x - m \in 0..(m - 1)
    BY <1>3
  <2> QED BY <1>3, <2>1, ModUnique
<1> QED BY <1>1, <1>2, <1>3

\* Whole turns of m do not matter.
LEMMA ModMultiple ==
    ASSUME NEW m \in Nat \ {0}, NEW u \in Nat, u % m = 0, NEW x \in Int
    PROVE  (x + u) % m = x % m
<1> DEFINE a == x \div m  b == u \div m  r == x % m
<1>1. a \in Int /\ r \in 0..(m - 1) /\ x = m * a + r
  BY ModDef
<1>2. b \in Int /\ u = m * b
  BY ModDef
<1> HIDE DEF a, b, r
<1>3. x + u = m * (a + b) + r
  BY <1>1, <1>2, Distribute
<1>4. (x + u) % m = r
  BY <1>1, <1>2, <1>3, ModUnique
<1> QED BY <1>4 DEF r

\* Less than a turn is no turn.
LEMMA SmallMultiple ==
    ASSUME NEW m \in Nat \ {0}, NEW d \in Int, m * d < m, m * d > -m
    PROVE  d = 0
<1>1. ~(d >= 1)
  OBVIOUS
<1>2. ~(d <= -1)
  OBVIOUS
<1> QED BY <1>1, <1>2

\* Numbers less than m apart have different places in a ring of m.
LEMMA ModDistinct ==
    ASSUME NEW m \in Nat \ {0}, NEW x \in Int, NEW y \in Int, x % m = y % m, x - y < m, y - x < m
    PROVE  x = y
<1> DEFINE a == x \div m  b == y \div m  r == x % m
<1>1. a \in Int /\ r \in 0..(m - 1) /\ x = m * a + r
  BY ModDef
<1>2. b \in Int /\ y = m * b + r
  BY ModDef
<1> HIDE DEF a, b, r
<1>3. x - y = m * (a - b) /\ a - b \in Int
  BY <1>1, <1>2, Distribute
<1>4. a - b = 0
  BY <1>3, SmallMultiple
<1> QED BY <1>3, <1>4

-----------------------------------------------------------------------------
(* The counters.                                                           *)

Indices == nread \in 0..(UINT - 1) /\ nwrite \in 0..(UINT - 1)

\* The tests of pipewrite() and piperead() in terms of the number of bytes.
LEMMA CountTests ==
    ASSUME Indices
    PROVE  /\ Count \in 0..(UINT - 1)
           /\ Count = IF nwrite >= nread THEN nwrite - nread ELSE nwrite - nread + UINT
           /\ Full <=> Count = PIPESIZE
           /\ Empty <=> Count = 0
<1>1. Count = IF nwrite >= nread THEN nwrite - nread ELSE nwrite - nread + UINT
  <2> DEFINE x == nwrite - nread
  <2>1. UINT \in Nat \ {0} /\ x \in (-UINT)..(2 * UINT - 1) /\ x < UINT
    BY PipeAssumption DEF Indices
  <2> HIDE DEF x
  <2>2. x % UINT = IF x < 0 THEN x + UINT ELSE x
    BY <2>1, ModNear, ZenonT(30)
  <2> QED BY <2>2, PipeAssumption DEF Count, Indices, x
<1>2. (nread + PIPESIZE) % UINT =
          IF nread + PIPESIZE < UINT THEN nread + PIPESIZE ELSE (nread + PIPESIZE) - UINT
  <2> DEFINE x == nread + PIPESIZE
  <2>1. UINT \in Nat \ {0} /\ x \in (-UINT)..(2 * UINT - 1) /\ ~(x < 0)
    BY PipeAssumption DEF Indices
  <2> HIDE DEF x
  <2>2. x % UINT = IF x < UINT THEN x ELSE x - UINT
    BY <2>1, ModNear, ZenonT(30)
  <2> QED BY <2>2 DEF x
<1> QED BY <1>1, <1>2, PipeAssumption DEF Indices, Full, Empty

\* A counter that is incremented.
LEMMA IncFacts ==
    ASSUME NEW k \in 0..(UINT - 1)
    PROVE  Inc(k) \in 0..(UINT - 1) /\ Inc(k) = IF k + 1 < UINT THEN k + 1 ELSE 0
<1> DEFINE x == k + 1
<1>1. UINT \in Nat \ {0} /\ x \in (-UINT)..(2 * UINT - 1) /\ ~(x < 0)
  BY PipeAssumption
<1> HIDE DEF x
<1>2. x % UINT = IF x < UINT THEN x ELSE x - UINT
  BY <1>1, ModNear, ZenonT(30)
<1> QED BY <1>2, PipeAssumption DEF Inc, x

\* A byte written.
LEMMA CountPut ==
    ASSUME Indices, RoomInv, ~Full, nread' = nread, nwrite' = Inc(nwrite)
    PROVE  Indices' /\ Count' = Count + 1 /\ Count < PIPESIZE /\ RoomInv'
<1>1. Indices'
  BY IncFacts DEF Indices
<1>2. Count' = IF nwrite' >= nread' THEN nwrite' - nread' ELSE nwrite' - nread' + UINT
  <2> DEFINE x == nwrite' - nread'
  <2>1. UINT \in Nat \ {0} /\ x \in (-UINT)..(2 * UINT - 1) /\ x < UINT
    BY <1>1, PipeAssumption DEF Indices
  <2> HIDE DEF x
  <2>2. x % UINT = IF x < 0 THEN x + UINT ELSE x
    BY <2>1, ModNear, ZenonT(30)
  <2> QED BY <1>1, <2>2, PipeAssumption DEF Count, Indices, x
<1>3. Count < PIPESIZE
  BY CountTests, PipeAssumption DEF RoomInv
<1>4. Count' = Count + 1
  BY <1>2, <1>3, CountTests, IncFacts, PipeAssumption DEF Indices
<1> QED BY <1>1, <1>3, <1>4, CountTests, PipeAssumption DEF RoomInv

\* A byte read.
LEMMA CountGet ==
    ASSUME Indices, RoomInv, ~Empty, nread' = Inc(nread), nwrite' = nwrite
    PROVE  Indices' /\ Count' = Count - 1 /\ Count > 0 /\ RoomInv'
<1>1. Indices'
  BY IncFacts DEF Indices
<1>2. Count' = IF nwrite' >= nread' THEN nwrite' - nread' ELSE nwrite' - nread' + UINT
  <2> DEFINE x == nwrite' - nread'
  <2>1. UINT \in Nat \ {0} /\ x \in (-UINT)..(2 * UINT - 1) /\ x < UINT
    BY <1>1, PipeAssumption DEF Indices
  <2> HIDE DEF x
  <2>2. x % UINT = IF x < 0 THEN x + UINT ELSE x
    BY <2>1, ModNear, ZenonT(30)
  <2> QED BY <1>1, <2>2, PipeAssumption DEF Count, Indices, x
<1>3. Count > 0
  BY CountTests
<1>4. Count' = Count - 1
  BY <1>2, <1>3, CountTests, IncFacts, PipeAssumption DEF Indices
<1> QED BY <1>1, <1>3, <1>4, CountTests, PipeAssumption DEF RoomInv

-----------------------------------------------------------------------------
(* Every step keeps the invariant.                                         *)

\* The types of the ring and of the processes.
RingType ==
    /\ data \in [0..(PIPESIZE - 1) -> Byte]
    /\ Indices
ProcType ==
    /\ readopen \in BOOLEAN /\ writeopen \in BOOLEAN
    /\ lock \in Proc \cup {NoProc}
    /\ pc \in [Proc -> Locked \cup {"user", "w_lock", "w_asleep", "r_lock", "r_asleep"}]
    /\ killed \in [Proc -> BOOLEAN]
CallType == n \in [Proc -> 0..MAXN] /\ got \in [Proc -> Seq(Byte)]

\* The places that piperead() and pipewrite() use.
LEMMA Places ==
    ASSUME RingType
    PROVE  /\ nread % PIPESIZE \in 0..(PIPESIZE - 1)
           /\ nwrite % PIPESIZE \in 0..(PIPESIZE - 1)
           /\ data[nread % PIPESIZE] \in Byte
<1>1. nread \in Int /\ nwrite \in Int /\ PIPESIZE \in Nat \ {0}
  BY PipeAssumption DEF RingType, Indices
<1>2. nread % PIPESIZE \in 0..(PIPESIZE - 1) /\ nwrite % PIPESIZE \in 0..(PIPESIZE - 1)
  BY <1>1, ModDef, ZenonT(30)
<1> QED BY <1>2 DEF RingType

\* A read call that copied a byte has copied something.
LEMMA AppendNotEmpty ==
    ASSUME NEW s \in Seq(Byte), NEW b \in Byte
    PROVE  Append(s, b) # <<>>
<1>1. Len(Append(s, b)) = Len(s) + 1 /\ Len(s) \in Nat
  OBVIOUS
<1>2. Len(<<>>) = 0
  OBVIOUS
<1> QED BY <1>1, <1>2

\* Together they are the type invariant.
LEMMA Types == TypeOK <=> RingType /\ ProcType /\ CallType
BY DEF TypeOK, RingType, ProcType, CallType, Indices

\* The counters stay unsigned.
LEMMA RingStep ==
    ASSUME RingType, [Next]_vars
    PROVE  RingType'
<1>1. ASSUME NEW p \in Proc, CallWrite(p) PROVE RingType'
  BY <1>1 DEF RingType, Indices, CallWrite, pipe, Goto
<1>2. ASSUME NEW p \in Proc, Acquire(p) PROVE RingType'
  BY <1>2 DEF RingType, Indices, Acquire, pipe, Goto, Locked
<1>3. ASSUME NEW p \in Proc, WriteFails(p) PROVE RingType'
  BY <1>3 DEF RingType, Indices, WriteFails, pipe, Goto
<1>4. ASSUME NEW p \in Proc, NEW c \in Byte, WriteByte(p, c) PROVE RingType'
  BY <1>4, IncFacts, Places, PipeAssumption, ZenonT(30) DEF RingType, Indices, WriteByte
<1>5. ASSUME NEW p \in Proc, WriteFull(p) PROVE RingType'
  BY <1>5 DEF RingType, Indices, WriteFull, pipe, WakeReaders
<1>6. ASSUME NEW p \in Proc, WriteDone(p) PROVE RingType'
  BY <1>6 DEF RingType, Indices, WriteDone, pipe, WakeReaders
<1>7. ASSUME NEW p \in Proc, CallRead(p) PROVE RingType'
  BY <1>7 DEF RingType, Indices, CallRead, pipe, Goto
<1>8. ASSUME NEW p \in Proc, ReadTest(p) PROVE RingType'
  BY <1>8 DEF RingType, Indices, ReadTest, pipe, Goto
<1>9. ASSUME NEW p \in Proc, ReadByte(p) PROVE RingType'
  BY <1>9, IncFacts, PipeAssumption DEF RingType, Indices, ReadByte
<1>10. ASSUME NEW p \in Proc, ReadDone(p) PROVE RingType'
  BY <1>10, IncFacts, PipeAssumption, ZenonT(30) DEF RingType, Indices, ReadDone, WakeWriters
<1>11. ASSUME NEW p \in Proc, Sleep(p) PROVE RingType'
  BY <1>11 DEF RingType, Indices, Sleep, pipe, Goto
<1>12. ASSUME NEW p \in Proc, Kill(p) PROVE RingType'
  BY <1>12 DEF RingType, Indices, Kill, pipe
<1>13. ASSUME CloseWrite PROVE RingType'
  BY <1>13 DEF RingType, Indices, CloseWrite, WakeReaders
<1>14. ASSUME CloseRead PROVE RingType'
  BY <1>14 DEF RingType, Indices, CloseRead, WakeWriters
<1>15. CASE UNCHANGED vars
  BY <1>15 DEF RingType, Indices, vars, pipe
<1> QED BY <1>1, <1>2, <1>3, <1>4, <1>5, <1>6, <1>7, <1>8, <1>9, <1>10, <1>11, <1>12, <1>13, <1>14, <1>15 DEF Next, InCall, Writing, Reading

\* Where a process may be.
LEMMA ProcStep ==
    ASSUME ProcType, [Next]_vars
    PROVE  ProcType'
<1>1. ASSUME NEW p \in Proc, CallWrite(p) PROVE ProcType'
  BY <1>1 DEF ProcType, CallWrite, pipe, Goto, Locked
<1>2. ASSUME NEW p \in Proc, Acquire(p) PROVE ProcType'
  BY <1>2 DEF ProcType, Acquire, pipe, Goto, Locked
<1>3. ASSUME NEW p \in Proc, WriteFails(p) PROVE ProcType'
  BY <1>3 DEF ProcType, WriteFails, pipe, Goto, Locked
<1>4. ASSUME NEW p \in Proc, NEW c \in Byte, WriteByte(p, c) PROVE ProcType'
  BY <1>4 DEF ProcType, WriteByte, Locked
<1>5. ASSUME NEW p \in Proc, WriteFull(p) PROVE ProcType'
  BY <1>5 DEF ProcType, WriteFull, pipe, WakeReaders, Locked
<1>6. ASSUME NEW p \in Proc, WriteDone(p) PROVE ProcType'
  BY <1>6 DEF ProcType, WriteDone, pipe, WakeReaders, Locked
<1>7. ASSUME NEW p \in Proc, CallRead(p) PROVE ProcType'
  BY <1>7 DEF ProcType, CallRead, pipe, Goto, Locked
<1>8. ASSUME NEW p \in Proc, ReadTest(p) PROVE ProcType'
  BY <1>8 DEF ProcType, ReadTest, pipe, Goto, Locked
<1>9. ASSUME NEW p \in Proc, ReadByte(p) PROVE ProcType'
  BY <1>9 DEF ProcType, ReadByte, Locked
<1>10. ASSUME NEW p \in Proc, ReadDone(p) PROVE ProcType'
  BY <1>10 DEF ProcType, ReadDone, WakeWriters, Locked
<1>11. ASSUME NEW p \in Proc, Sleep(p) PROVE ProcType'
  BY <1>11 DEF ProcType, Sleep, pipe, Goto, Locked
<1>12. ASSUME NEW p \in Proc, Kill(p) PROVE ProcType'
  BY <1>12 DEF ProcType, Kill, pipe, Locked
<1>13. ASSUME CloseWrite PROVE ProcType'
  BY <1>13, ZenonT(30) DEF ProcType, CloseWrite, WakeReaders, Locked
<1>14. ASSUME CloseRead PROVE ProcType'
  BY <1>14, ZenonT(30) DEF ProcType, CloseRead, WakeWriters, Locked
<1>15. CASE UNCHANGED vars
  BY <1>15 DEF ProcType, vars, pipe, Locked
<1> QED BY <1>1, <1>2, <1>3, <1>4, <1>5, <1>6, <1>7, <1>8, <1>9, <1>10, <1>11, <1>12, <1>13, <1>14, <1>15 DEF Next, InCall, Writing, Reading

\* What is left to copy and what was copied.
LEMMA CallTypeStep ==
    ASSUME RingType, CallType, [Next]_vars
    PROVE  CallType'
<1>1. ASSUME NEW p \in Proc, CallWrite(p) PROVE CallType'
  BY <1>1, PipeAssumption DEF CallType, CallWrite, pipe, Goto
<1>2. ASSUME NEW p \in Proc, Acquire(p) PROVE CallType'
  BY <1>2, PipeAssumption DEF CallType, Acquire, pipe, Goto, Locked
<1>3. ASSUME NEW p \in Proc, WriteFails(p) PROVE CallType'
  BY <1>3, PipeAssumption DEF CallType, WriteFails, pipe, Goto
<1>4. ASSUME NEW p \in Proc, NEW c \in Byte, WriteByte(p, c) PROVE CallType'
  BY <1>4, PipeAssumption DEF CallType, WriteByte
<1>5. ASSUME NEW p \in Proc, WriteFull(p) PROVE CallType'
  BY <1>5, PipeAssumption DEF CallType, WriteFull, pipe, WakeReaders
<1>6. ASSUME NEW p \in Proc, WriteDone(p) PROVE CallType'
  BY <1>6, PipeAssumption DEF CallType, WriteDone, pipe, WakeReaders
<1>7. ASSUME NEW p \in Proc, CallRead(p) PROVE CallType'
  BY <1>7, PipeAssumption DEF CallType, CallRead, pipe, Goto
<1>8. ASSUME NEW p \in Proc, ReadTest(p) PROVE CallType'
  BY <1>8, PipeAssumption DEF CallType, ReadTest, pipe, Goto
<1>9. ASSUME NEW p \in Proc, ReadByte(p) PROVE CallType'
  BY <1>9, Places, PipeAssumption DEF CallType, ReadByte
<1>10. ASSUME NEW p \in Proc, ReadDone(p) PROVE CallType'
  BY <1>10, PipeAssumption DEF CallType, ReadDone, WakeWriters
<1>11. ASSUME NEW p \in Proc, Sleep(p) PROVE CallType'
  BY <1>11, PipeAssumption DEF CallType, Sleep, pipe, Goto
<1>12. ASSUME NEW p \in Proc, Kill(p) PROVE CallType'
  BY <1>12, PipeAssumption DEF CallType, Kill, pipe
<1>13. ASSUME CloseWrite PROVE CallType'
  BY <1>13, PipeAssumption DEF CallType, CloseWrite, WakeReaders
<1>14. ASSUME CloseRead PROVE CallType'
  BY <1>14, PipeAssumption DEF CallType, CloseRead, WakeWriters
<1>15. CASE UNCHANGED vars
  BY <1>15, PipeAssumption DEF CallType, vars, pipe
<1> QED BY <1>1, <1>2, <1>3, <1>4, <1>5, <1>6, <1>7, <1>8, <1>9, <1>10, <1>11, <1>12, <1>13, <1>14, <1>15 DEF Next, InCall, Writing, Reading

\* Only the holder of the lock moves within a call, and a close finds no call.
LEMMA ControlStep ==
    ASSUME ProcType, ControlInv, [Next]_vars
    PROVE  ControlInv'
<1>1. ASSUME NEW p \in Proc, CallWrite(p) PROVE ControlInv'
  BY <1>1, PipeAssumption DEF ProcType, ControlInv, CallWrite, pipe, Goto, Locked
<1>2. ASSUME NEW p \in Proc, Acquire(p) PROVE ControlInv'
  BY <1>2, PipeAssumption DEF ProcType, ControlInv, Acquire, pipe, Goto, Locked
<1>3. ASSUME NEW p \in Proc, WriteFails(p) PROVE ControlInv'
  BY <1>3, PipeAssumption DEF ProcType, ControlInv, WriteFails, pipe, Goto, Locked
<1>4. ASSUME NEW p \in Proc, NEW c \in Byte, WriteByte(p, c) PROVE ControlInv'
  BY <1>4, PipeAssumption DEF ProcType, ControlInv, WriteByte, Locked
<1>5. ASSUME NEW p \in Proc, WriteFull(p) PROVE ControlInv'
  BY <1>5, PipeAssumption DEF ProcType, ControlInv, WriteFull, pipe, WakeReaders, Locked
<1>6. ASSUME NEW p \in Proc, WriteDone(p) PROVE ControlInv'
  BY <1>6, PipeAssumption DEF ProcType, ControlInv, WriteDone, pipe, WakeReaders, Locked
<1>7. ASSUME NEW p \in Proc, CallRead(p) PROVE ControlInv'
  BY <1>7, PipeAssumption DEF ProcType, ControlInv, CallRead, pipe, Goto, Locked
<1>8. ASSUME NEW p \in Proc, ReadTest(p) PROVE ControlInv'
  BY <1>8, PipeAssumption DEF ProcType, ControlInv, ReadTest, pipe, Goto, Locked
<1>9. ASSUME NEW p \in Proc, ReadByte(p) PROVE ControlInv'
  BY <1>9, PipeAssumption DEF ProcType, ControlInv, ReadByte, Locked
<1>10. ASSUME NEW p \in Proc, ReadDone(p) PROVE ControlInv'
  BY <1>10, PipeAssumption DEF ProcType, ControlInv, ReadDone, WakeWriters, Locked
<1>11. ASSUME NEW p \in Proc, Sleep(p) PROVE ControlInv'
  BY <1>11, PipeAssumption DEF ProcType, ControlInv, Sleep, pipe, Goto, Locked
<1>12. ASSUME NEW p \in Proc, Kill(p) PROVE ControlInv'
  BY <1>12, PipeAssumption DEF ProcType, ControlInv, Kill, pipe, Locked
<1>13. ASSUME CloseWrite PROVE ControlInv'
  BY <1>13, PipeAssumption DEF ProcType, ControlInv, CloseWrite, WakeReaders, Locked
<1>14. ASSUME CloseRead PROVE ControlInv'
  BY <1>14, PipeAssumption DEF ProcType, ControlInv, CloseRead, WakeWriters, Locked
<1>15. CASE UNCHANGED vars
  BY <1>15, PipeAssumption DEF ProcType, ControlInv, vars, pipe, Locked
<1> QED BY <1>1, <1>2, <1>3, <1>4, <1>5, <1>6, <1>7, <1>8, <1>9, <1>10, <1>11, <1>12, <1>13, <1>14, <1>15 DEF Next, InCall, Writing, Reading

\* The ring never holds more than PIPESIZE bytes.
LEMMA RoomStep ==
    ASSUME RingType, RoomInv, [Next]_vars
    PROVE  RoomInv'
<1>1. ASSUME NEW p \in Proc, CallWrite(p) PROVE RoomInv'
  BY <1>1 DEF RoomInv, Count, CallWrite, pipe, Goto
<1>2. ASSUME NEW p \in Proc, Acquire(p) PROVE RoomInv'
  BY <1>2 DEF RoomInv, Count, Acquire, pipe, Goto, Locked
<1>3. ASSUME NEW p \in Proc, WriteFails(p) PROVE RoomInv'
  BY <1>3 DEF RoomInv, Count, WriteFails, pipe, Goto
<1>4. ASSUME NEW p \in Proc, NEW c \in Byte, WriteByte(p, c) PROVE RoomInv'
  BY <1>4, CountPut DEF RingType, WriteByte
<1>5. ASSUME NEW p \in Proc, WriteFull(p) PROVE RoomInv'
  BY <1>5 DEF RoomInv, Count, WriteFull, pipe, WakeReaders
<1>6. ASSUME NEW p \in Proc, WriteDone(p) PROVE RoomInv'
  BY <1>6 DEF RoomInv, Count, WriteDone, pipe, WakeReaders
<1>7. ASSUME NEW p \in Proc, CallRead(p) PROVE RoomInv'
  BY <1>7 DEF RoomInv, Count, CallRead, pipe, Goto
<1>8. ASSUME NEW p \in Proc, ReadTest(p) PROVE RoomInv'
  BY <1>8 DEF RoomInv, Count, ReadTest, pipe, Goto
<1>9. ASSUME NEW p \in Proc, ReadByte(p) PROVE RoomInv'
  BY <1>9, CountGet DEF RingType, ReadByte
<1>10. ASSUME NEW p \in Proc, ReadDone(p) PROVE RoomInv'
  BY <1>10, CountGet DEF RingType, ReadDone, RoomInv, Count
<1>11. ASSUME NEW p \in Proc, Sleep(p) PROVE RoomInv'
  BY <1>11 DEF RoomInv, Count, Sleep, pipe, Goto
<1>12. ASSUME NEW p \in Proc, Kill(p) PROVE RoomInv'
  BY <1>12 DEF RoomInv, Count, Kill, pipe
<1>13. ASSUME CloseWrite PROVE RoomInv'
  BY <1>13 DEF RoomInv, Count, CloseWrite, WakeReaders
<1>14. ASSUME CloseRead PROVE RoomInv'
  BY <1>14 DEF RoomInv, Count, CloseRead, WakeWriters
<1>15. CASE UNCHANGED vars
  BY <1>15 DEF RoomInv, Count, vars, pipe
<1> QED BY <1>1, <1>2, <1>3, <1>4, <1>5, <1>6, <1>7, <1>8, <1>9, <1>10, <1>11, <1>12, <1>13, <1>14, <1>15 DEF Next, InCall, Writing, Reading

\* A read call that has copied nothing found a byte or the end of file.
LEMMA CallStep ==
    ASSUME RingType, ProcType, CallType, ControlInv, CallInv, [Next]_vars
    PROVE  CallInv'
<1>1. ASSUME NEW p \in Proc, CallWrite(p) PROVE CallInv'
  BY <1>1, Places DEF ProcType, CallType, ControlInv, CallInv, Empty, CallWrite, pipe, Goto, Locked
<1>2. ASSUME NEW p \in Proc, Acquire(p) PROVE CallInv'
  BY <1>2, Places DEF ProcType, CallType, ControlInv, CallInv, Empty, Acquire, pipe, Goto, Locked
<1>3. ASSUME NEW p \in Proc, WriteFails(p) PROVE CallInv'
  BY <1>3, Places DEF ProcType, CallType, ControlInv, CallInv, Empty, WriteFails, pipe, Goto, Locked
<1>4. ASSUME NEW p \in Proc, NEW c \in Byte, WriteByte(p, c) PROVE CallInv'
  BY <1>4, Places DEF ProcType, CallType, ControlInv, CallInv, Empty, WriteByte, Locked
<1>5. ASSUME NEW p \in Proc, WriteFull(p) PROVE CallInv'
  BY <1>5, Places DEF ProcType, CallType, ControlInv, CallInv, Empty, WriteFull, pipe, WakeReaders, Locked
<1>6. ASSUME NEW p \in Proc, WriteDone(p) PROVE CallInv'
  BY <1>6, Places DEF ProcType, CallType, ControlInv, CallInv, Empty, WriteDone, pipe, WakeReaders, Locked
<1>7. ASSUME NEW p \in Proc, CallRead(p) PROVE CallInv'
  BY <1>7, Places DEF ProcType, CallType, ControlInv, CallInv, Empty, CallRead, pipe, Goto, Locked
<1>8. ASSUME NEW p \in Proc, ReadTest(p) PROVE CallInv'
  BY <1>8, Places DEF ProcType, CallType, ControlInv, CallInv, Empty, ReadTest, pipe, Goto, Locked
<1>9. ASSUME NEW p \in Proc, ReadByte(p) PROVE CallInv'
  <2>1. data[nread % PIPESIZE] \in Byte
    BY Places
  <2>2. got'[p] # <<>>
    <3>1. got[p] \in Seq(Byte) /\ got'[p] = Append(got[p], data[nread % PIPESIZE])
      BY <1>9 DEF CallType, ReadByte
    <3> QED BY <2>1, <3>1, AppendNotEmpty
  <2>3. \A q \in Proc \ {p} : pc[q] # "copy" /\ n'[q] = n[q] /\ got'[q] = got[q]
    BY <1>9 DEF ProcType, CallType, ControlInv, ReadByte, Locked
  <2>4. pc' = pc /\ pc[p] = "copy"
    BY <1>9 DEF ReadByte
  <2> QED BY <2>2, <2>3, <2>4 DEF CallInv
<1>10. ASSUME NEW p \in Proc, ReadDone(p) PROVE CallInv'
  BY <1>10, Places DEF ProcType, CallType, ControlInv, CallInv, Empty, ReadDone, WakeWriters, Locked
<1>11. ASSUME NEW p \in Proc, Sleep(p) PROVE CallInv'
  BY <1>11, Places DEF ProcType, CallType, ControlInv, CallInv, Empty, Sleep, pipe, Goto, Locked
<1>12. ASSUME NEW p \in Proc, Kill(p) PROVE CallInv'
  BY <1>12, Places DEF ProcType, CallType, ControlInv, CallInv, Empty, Kill, pipe, Locked
<1>13. ASSUME CloseWrite PROVE CallInv'
  BY <1>13, Places DEF ProcType, CallType, ControlInv, CallInv, Empty, CloseWrite, WakeReaders, Locked
<1>14. ASSUME CloseRead PROVE CallInv'
  BY <1>14, Places DEF ProcType, CallType, ControlInv, CallInv, Empty, CloseRead, WakeWriters, Locked
<1>15. CASE UNCHANGED vars
  BY <1>15, Places DEF ProcType, CallType, ControlInv, CallInv, Empty, vars, pipe, Locked
<1> QED BY <1>1, <1>2, <1>3, <1>4, <1>5, <1>6, <1>7, <1>8, <1>9, <1>10, <1>11, <1>12, <1>13, <1>14, <1>15 DEF Next, InCall, Writing, Reading

\* Sleepers.
LEMMA SleepStep ==
    ASSUME RingType, ProcType, ControlInv, SleepInv, [Next]_vars
    PROVE  SleepInv'
<1>1. ASSUME NEW p \in Proc, CallWrite(p) PROVE SleepInv'
  BY <1>1 DEF ProcType, ControlInv, SleepInv, Empty, Full, CallWrite, pipe, Goto, Locked
<1>2. ASSUME NEW p \in Proc, Acquire(p) PROVE SleepInv'
  BY <1>2 DEF ProcType, ControlInv, SleepInv, Empty, Full, Acquire, pipe, Goto, Locked
<1>3. ASSUME NEW p \in Proc, WriteFails(p) PROVE SleepInv'
  BY <1>3 DEF ProcType, ControlInv, SleepInv, Empty, Full, WriteFails, pipe, Goto, Locked
<1>4. ASSUME NEW p \in Proc, NEW c \in Byte, WriteByte(p, c) PROVE SleepInv'
  BY <1>4 DEF ProcType, ControlInv, SleepInv, Empty, Full, WriteByte, Locked
<1>5. ASSUME NEW p \in Proc, WriteFull(p) PROVE SleepInv'
  BY <1>5 DEF ProcType, ControlInv, SleepInv, Empty, Full, WriteFull, pipe, WakeReaders, Locked
<1>6. ASSUME NEW p \in Proc, WriteDone(p) PROVE SleepInv'
  BY <1>6 DEF ProcType, ControlInv, SleepInv, Empty, Full, WriteDone, pipe, WakeReaders, Locked
<1>7. ASSUME NEW p \in Proc, CallRead(p) PROVE SleepInv'
  BY <1>7 DEF ProcType, ControlInv, SleepInv, Empty, Full, CallRead, pipe, Goto, Locked
<1>8. ASSUME NEW p \in Proc, ReadTest(p) PROVE SleepInv'
  BY <1>8 DEF ProcType, ControlInv, SleepInv, Empty, Full, ReadTest, pipe, Goto, Locked
<1>9. ASSUME NEW p \in Proc, ReadByte(p) PROVE SleepInv'
  BY <1>9 DEF ProcType, ControlInv, SleepInv, Empty, Full, ReadByte, Locked
<1>10. ASSUME NEW p \in Proc, ReadDone(p) PROVE SleepInv'
  BY <1>10 DEF ProcType, ControlInv, SleepInv, Empty, Full, ReadDone, WakeWriters, Locked
<1>11. ASSUME NEW p \in Proc, Sleep(p) PROVE SleepInv'
  BY <1>11 DEF ProcType, ControlInv, SleepInv, Empty, Full, Sleep, pipe, Goto, Locked
<1>12. ASSUME NEW p \in Proc, Kill(p) PROVE SleepInv'
  BY <1>12 DEF ProcType, ControlInv, SleepInv, Empty, Full, Kill, pipe, Locked
<1>13. ASSUME CloseWrite PROVE SleepInv'
  <2>1. \A q \in Proc : pc'[q] \notin {"w_sleep", "r_sleep", "w_asleep", "r_asleep"}
    BY <1>13, PipeAssumption DEF ProcType, ControlInv, CloseWrite, WakeReaders, Locked
  <2> QED BY <2>1 DEF SleepInv
<1>14. ASSUME CloseRead PROVE SleepInv'
  <2>1. \A q \in Proc : pc'[q] \notin {"w_sleep", "r_sleep", "w_asleep", "r_asleep"}
    BY <1>14, PipeAssumption DEF ProcType, ControlInv, CloseRead, WakeWriters, Locked
  <2> QED BY <2>1 DEF SleepInv
<1>15. CASE UNCHANGED vars
  BY <1>15 DEF ProcType, ControlInv, SleepInv, Empty, Full, vars, pipe, Locked
<1> QED BY <1>1, <1>2, <1>3, <1>4, <1>5, <1>6, <1>7, <1>8, <1>9, <1>10, <1>11, <1>12, <1>13, <1>14, <1>15 DEF Next, InCall, Writing, Reading

\* A read call returns from the loop in no other way.
LEMMA EndOfRead ==
    ASSUME ProcType, NEW r \in Proc, pc[r] = "copy", pc'[r] = "user", [Next]_vars
    PROVE  ReadDone(r)
<1>1. ASSUME NEW p \in Proc, CallWrite(p) PROVE ReadDone(r)
  BY <1>1 DEF ProcType, CallWrite, pipe, Goto
<1>2. ASSUME NEW p \in Proc, Acquire(p) PROVE ReadDone(r)
  BY <1>2 DEF ProcType, Acquire, pipe, Goto, Locked
<1>3. ASSUME NEW p \in Proc, WriteFails(p) PROVE ReadDone(r)
  BY <1>3 DEF ProcType, WriteFails, pipe, Goto
<1>4. ASSUME NEW p \in Proc, NEW c \in Byte, WriteByte(p, c) PROVE ReadDone(r)
  BY <1>4 DEF ProcType, WriteByte
<1>5. ASSUME NEW p \in Proc, WriteFull(p) PROVE ReadDone(r)
  BY <1>5 DEF ProcType, WriteFull, pipe, WakeReaders
<1>6. ASSUME NEW p \in Proc, WriteDone(p) PROVE ReadDone(r)
  BY <1>6 DEF ProcType, WriteDone, pipe, WakeReaders
<1>7. ASSUME NEW p \in Proc, CallRead(p) PROVE ReadDone(r)
  BY <1>7 DEF ProcType, CallRead, pipe, Goto
<1>8. ASSUME NEW p \in Proc, ReadTest(p) PROVE ReadDone(r)
  BY <1>8 DEF ProcType, ReadTest, pipe, Goto
<1>9. ASSUME NEW p \in Proc, ReadByte(p) PROVE ReadDone(r)
  BY <1>9 DEF ProcType, ReadByte
<1>10. ASSUME NEW p \in Proc, ReadDone(p) PROVE ReadDone(r)
  BY <1>10, ZenonT(30) DEF ProcType, ReadDone, WakeWriters
<1>11. ASSUME NEW p \in Proc, Sleep(p) PROVE ReadDone(r)
  BY <1>11 DEF ProcType, Sleep, pipe, Goto
<1>12. ASSUME NEW p \in Proc, Kill(p) PROVE ReadDone(r)
  BY <1>12 DEF ProcType, Kill, pipe
<1>13. ASSUME CloseWrite PROVE ReadDone(r)
  BY <1>13 DEF ProcType, CloseWrite, WakeReaders
<1>14. ASSUME CloseRead PROVE ReadDone(r)
  BY <1>14 DEF ProcType, CloseRead, WakeWriters
<1>15. CASE UNCHANGED vars
  BY <1>15 DEF ProcType, vars, pipe
<1> QED BY <1>1, <1>2, <1>3, <1>4, <1>5, <1>6, <1>7, <1>8, <1>9, <1>10, <1>11, <1>12, <1>13, <1>14, <1>15 DEF Next, InCall, Writing, Reading

\* A new pipe (pipealloc()) satisfies the invariant.
LEMMA InitInv == Init => Inv
<1> SUFFICES ASSUME Init PROVE Inv
  OBVIOUS
<1>1. TypeOK
  BY PipeAssumption DEF Init, TypeOK, Locked
<1>2. ControlInv
  BY PipeAssumption DEF Init, ControlInv, Locked
<1>3. CallInv
  BY DEF Init, CallInv
<1>4. RoomInv
  <2>1. Indices /\ Empty
    BY PipeAssumption DEF Init, Indices, Empty
  <2> QED BY <2>1, CountTests, PipeAssumption DEF RoomInv
<1>5. SleepInv
  BY DEF Init, SleepInv
<1> QED BY <1>1, <1>2, <1>3, <1>4, <1>5 DEF Inv

\* All of it together.
LEMMA InvStep == Inv /\ [Next]_vars => Inv'
<1> SUFFICES ASSUME Inv, [Next]_vars PROVE Inv'
  OBVIOUS
<1>1. RingType /\ ProcType /\ CallType /\ ControlInv /\ CallInv /\ RoomInv /\ SleepInv
  BY Types DEF Inv
<1>2. RingType' /\ ProcType' /\ CallType' /\ ControlInv' /\ RoomInv'
  BY <1>1, RingStep, ProcStep, CallTypeStep, ControlStep, RoomStep, Zenon
<1>3. CallInv' /\ SleepInv'
  BY <1>1, CallStep, SleepStep, Zenon
<1>4. TypeOK'
  BY <1>2 DEF TypeOK, RingType, ProcType, CallType, Indices
<1> QED BY <1>2, <1>3, <1>4 DEF Inv

\* The invariant holds of every reachable state of the pipe.
THEOREM Invariance == Spec => []Inv
BY InitInv, InvStep, PTL DEF Spec

\* With the lock free, a process that sleeps in pipewrite() sleeps before a full
\* pipe with a reader, one in piperead() before an empty pipe with a writer:
\* whoever changed that has called wakeup().
THEOREM WakeupsArrive == Spec => []NoLostWakeup
<1>1. Inv => NoLostWakeup
  <2> SUFFICES ASSUME Inv, \A p \in Proc : ~killed[p], lock = NoProc PROVE SleepersMustWait
    BY DEF Inv, NoLostWakeup, SleepersMustWait
  <2>1. \A q \in Proc : pc[q] \notin {"copy", "write"}
    BY PipeAssumption DEF Inv, ControlInv, Locked
  <2> QED BY <2>1 DEF Inv, SleepInv, SleepersMustWait
<1> QED BY <1>1, Invariance, PTL

\* piperead() returns 0 bytes only when all writers are gone and nothing is left,
\* or when copyout() fails on the first byte, which the pipe then has lost.
THEOREM ZeroExplained == Spec => ZeroIsEofOrFault
<1> DEFINE Explained == \A p \in Proc :
               pc[p] = "copy" /\ pc'[p] = "user" /\ got[p] = <<>> =>
                   \/ Empty /\ ~writeopen /\ nread' = nread
                   \/ ~Empty /\ nread' = Inc(nread)
<1>1. Inv /\ [Next]_vars => [Explained]_vars
  <2> SUFFICES ASSUME Inv, Next, NEW p \in Proc,
                      pc[p] = "copy", pc'[p] = "user", got[p] = <<>>
               PROVE  \/ Empty /\ ~writeopen /\ nread' = nread
                      \/ ~Empty /\ nread' = Inc(nread)
    OBVIOUS
  <2>1. n[p] > 0 /\ n[p] # 0 /\ ~(Empty /\ writeopen)
    <3>1. n[p] > 0 /\ ~(Empty /\ writeopen)
      BY DEF Inv, CallInv
    <3> QED BY <3>1
  <2>2. RingType /\ ProcType
    BY Types DEF Inv
  <2>3. ReadDone(p)
    BY <2>2, EndOfRead
  <2>4. CASE Empty
    BY <2>1, <2>3, <2>4 DEF ReadDone
  <2>5. CASE ~Empty
    BY <2>1, <2>3, <2>5 DEF ReadDone
  <2> QED BY <2>4, <2>5
<1>2. Spec => [][Explained]_vars
  BY <1>1, Invariance, PTL DEF Spec
<1> QED BY <1>2 DEF ZeroIsEofOrFault

-----------------------------------------------------------------------------
(* The ring buffer as a queue.                                             *)

Ring == [k \in 1..Count |-> data[(nread + k - 1) % PIPESIZE]]

\* A stretch of a ring is a sequence.
LEMMA RingSeq ==
    ASSUME NEW d \in [0..(PIPESIZE - 1) -> Byte], NEW i \in Nat, NEW m \in Nat
    PROVE  /\ [k \in 1..m |-> d[(i + k - 1) % PIPESIZE]] \in Seq(Byte)
           /\ Len([k \in 1..m |-> d[(i + k - 1) % PIPESIZE]]) = m
<1>1. ASSUME NEW k \in 1..m PROVE d[(i + k - 1) % PIPESIZE] \in Byte
  <2> DEFINE x == i + k - 1
  <2>1. x \in Int /\ PIPESIZE \in Nat \ {0}
    BY PipeAssumption
  <2> HIDE DEF x
  <2>2. x % PIPESIZE \in 0..(PIPESIZE - 1)
    BY <2>1, ModDef, ZenonT(30)
  <2>3. d[x % PIPESIZE] \in Byte
    BY <2>2
  <2> QED BY <2>3 DEF x
<1> DEFINE s == [k \in 1..m |-> d[(i + k - 1) % PIPESIZE]]
<1>2. s \in [1..m -> Byte]
  BY <1>1, ZenonT(30)
<1> HIDE DEF s
<1>3. s \in Seq(Byte) /\ Len(s) = m
  BY <1>2
<1> QED BY <1>3 DEF s

\* Two functions on the same interval.
LEMMA SameSeq ==
    ASSUME NEW s \in Seq(Byte), NEW t \in Seq(Byte), Len(s) = Len(t),
           \A k \in 1..Len(s) : s[k] = t[k]
    PROVE  s = t
OBVIOUS

\* data[pi->nwrite++ % PIPESIZE] = ch puts a byte at the end of the queue, and
\* does not overwrite one that is in it.
LEMMA RingPut ==
    ASSUME RingType, RoomInv, ~Full, NEW c \in Byte,
           nread' = nread, nwrite' = Inc(nwrite), data' = [data EXCEPT ![nwrite % PIPESIZE] = c]
    PROVE  Ring' = Append(Ring, c) /\ Len(Ring) < PIPESIZE
<1>1. /\ RingType' /\ Count' = Count + 1 /\ Count < PIPESIZE /\ Count \in Nat
      /\ nread \in Nat /\ nwrite \in Nat /\ PIPESIZE \in Nat \ {0} /\ UINT \in Nat
  <2>1. Indices' /\ Count' = Count + 1 /\ Count < PIPESIZE /\ Count \in Nat
    BY CountPut, CountTests DEF RingType
  <2>2. data' \in [0..(PIPESIZE - 1) -> Byte]
    BY ZenonT(30) DEF RingType
  <2> QED BY <2>1, <2>2, PipeAssumption DEF RingType, Indices
<1>2. nwrite % PIPESIZE = (nread + Count) % PIPESIZE
  <2>1. nread + Count = nwrite \/ nread + Count = nwrite + UINT
    BY CountTests, <1>1 DEF RingType, Indices
  <2>2. (nwrite + UINT) % PIPESIZE = nwrite % PIPESIZE
    <3>1. nwrite \in Int /\ PIPESIZE \in Nat \ {0} /\ UINT \in Nat /\ UINT % PIPESIZE = 0
      BY <1>1, PipeAssumption
    <3> QED BY <3>1, ModMultiple, ZenonT(30)
  <2> QED BY <2>1, <2>2
<1>3. ASSUME NEW k \in 1..Count PROVE (nread + k - 1) % PIPESIZE # nwrite % PIPESIZE
  <2> DEFINE x == nread + k - 1
             y == nread + Count
  <2>1. x \in Int /\ y \in Int /\ x - y < PIPESIZE /\ y - x < PIPESIZE /\ x # y
    BY <1>1
  <2>2. y % PIPESIZE = nwrite % PIPESIZE
    BY <1>2
  <2> HIDE DEF x, y
  <2>3. x % PIPESIZE # y % PIPESIZE
    BY <1>1, <2>1, ModDistinct, ZenonT(30)
  <2> QED BY <2>2, <2>3 DEF x
<1>4. Ring \in Seq(Byte) /\ Len(Ring) = Count /\ Ring' \in Seq(Byte) /\ Len(Ring') = Count + 1
  <2>1. Ring \in Seq(Byte) /\ Len(Ring) = Count
    BY <1>1, RingSeq DEF Ring, RingType
  <2>2. Ring' \in Seq(Byte) /\ Len(Ring') = Count'
    BY <1>1, RingSeq DEF Ring, RingType, Indices
  <2> QED BY <1>1, <2>1, <2>2
<1>5. ASSUME NEW k \in 1..(Count + 1) PROVE Ring'[k] = Append(Ring, c)[k]
  <2>1. Ring'[k] = data'[(nread + k - 1) % PIPESIZE]
    BY <1>1 DEF Ring
  <2>2. CASE k = Count + 1
    <3>1. nread + k - 1 = nread + Count
      BY <1>1, <2>2
    <3>2. data'[nwrite % PIPESIZE] = c
      BY Places DEF RingType
    <3>3. Append(Ring, c)[Count + 1] = c
      BY <1>4
    <3> QED BY <1>2, <2>1, <2>2, <3>1, <3>2, <3>3
  <2>3. CASE k \in 1..Count
    <3>1. data'[(nread + k - 1) % PIPESIZE] = data[(nread + k - 1) % PIPESIZE]
      <4> DEFINE x == nread + k - 1
      <4>1. x \in Int
        BY <1>1
      <4>2. x % PIPESIZE # nwrite % PIPESIZE
        BY <1>3, <2>3
      <4> HIDE DEF x
      <4>3. x % PIPESIZE \in 0..(PIPESIZE - 1)
        BY <1>1, <4>1, ModDef, ZenonT(30)
      <4>4. data'[x % PIPESIZE] = data[x % PIPESIZE]
        BY <4>2, <4>3 DEF RingType
      <4> QED BY <4>4 DEF x
    <3>2. Append(Ring, c)[k] = Ring[k]
      BY <1>4, <2>3
    <3>3. Ring[k] = data[(nread + k - 1) % PIPESIZE]
      BY <2>3 DEF Ring
    <3> QED BY <2>1, <3>1, <3>2, <3>3
  <2>4. k = Count + 1 \/ k \in 1..Count
    BY <1>1
  <2> QED BY <2>2, <2>3, <2>4, ZenonT(30)
<1>6. Append(Ring, c) \in Seq(Byte) /\ Len(Append(Ring, c)) = Count + 1
  BY <1>4
<1>7. \A k \in 1..Len(Ring') : Ring'[k] = Append(Ring, c)[k]
  BY <1>4, <1>5
<1>8. Ring' = Append(Ring, c)
  BY <1>4, <1>6, <1>7, SameSeq
<1> QED BY <1>1, <1>4, <1>8

\* data[pi->nread++ % PIPESIZE] takes the first byte of the queue.
LEMMA RingGet ==
    ASSUME RingType, RoomInv, ~Empty,
           nread' = Inc(nread), nwrite' = nwrite, data' = data
    PROVE  Ring # <<>> /\ Ring' = Tail(Ring) /\ Head(Ring) = data[nread % PIPESIZE]
<1>1. /\ RingType' /\ Count' = Count - 1 /\ Count > 0 /\ Count \in Nat
      /\ nread \in Nat /\ nread' \in Nat /\ PIPESIZE \in Nat \ {0} /\ UINT \in Nat
  BY CountGet, CountTests, PipeAssumption DEF RingType, Indices
<1>2. Ring \in Seq(Byte) /\ Len(Ring) = Count /\ Ring' \in Seq(Byte) /\ Len(Ring') = Count - 1
  <2>1. Ring \in Seq(Byte) /\ Len(Ring) = Count
    BY <1>1, RingSeq DEF Ring, RingType
  <2>2. Ring' \in Seq(Byte) /\ Len(Ring') = Count'
    BY <1>1, RingSeq DEF Ring, RingType, Indices
  <2> QED BY <1>1, <2>1, <2>2
<1>3. Ring # <<>>
  BY <1>1, <1>2
<1>4. Head(Ring) = data[nread % PIPESIZE]
  <2>1. Head(Ring) = Ring[1]
    BY <1>2, <1>3
  <2>2. Ring[1] = data[(nread + 1 - 1) % PIPESIZE]
    BY <1>1 DEF Ring
  <2>3. nread + 1 - 1 = nread
    BY <1>1
  <2> QED BY <2>1, <2>2, <2>3
<1>5. ASSUME NEW k \in 1..(Count - 1) PROVE Ring'[k] = Tail(Ring)[k]
  <2>1. Ring'[k] = data[(nread' + k - 1) % PIPESIZE]
    BY <1>1 DEF Ring
  <2>2. Tail(Ring)[k] = Ring[k + 1]
    BY <1>1, <1>2, <1>3
  <2>3. Ring[k + 1] = data[(nread + (k + 1) - 1) % PIPESIZE]
    BY <1>1 DEF Ring
  <2>4. (nread' + k - 1) % PIPESIZE = (nread + (k + 1) - 1) % PIPESIZE
    <3> DEFINE x == nread' + k - 1
               y == nread + (k + 1) - 1
    <3>a. nread' = nread + 1 \/ (nread' = 0 /\ nread + 1 = UINT)
      BY <1>1, IncFacts DEF RingType, Indices
    <3>1. x \in Int /\ (y = x \/ y = x + UINT) /\ UINT % PIPESIZE = 0
      BY <1>1, <3>a, PipeAssumption
    <3> HIDE DEF x, y
    <3>2. (x + UINT) % PIPESIZE = x % PIPESIZE
      BY <1>1, <3>1, ModMultiple, ZenonT(30)
    <3>3. x % PIPESIZE = y % PIPESIZE
      BY <3>1, <3>2
    <3> QED BY <3>3 DEF x, y
  <2> QED BY <2>1, <2>2, <2>3, <2>4, ZenonT(30)
<1>6. Tail(Ring) \in Seq(Byte) /\ Len(Tail(Ring)) = Count - 1
  BY <1>1, <1>2, <1>3
<1>7. Ring' = Tail(Ring)
  BY <1>2, <1>5, <1>6, SameSeq
<1> QED BY <1>3, <1>4, <1>7

\* A new pipe is an empty queue.
LEMMA QueueInit == Init => Q!Init
<1> SUFFICES ASSUME Init PROVE Q!Init
  OBVIOUS
<1>1. Indices /\ Empty
  BY PipeAssumption DEF Init, Indices, Empty
<1>2. Count = 0
  BY <1>1, CountTests
<1>3. Ring = <<>>
  BY <1>2 DEF Ring
<1> QED BY <1>3 DEF Init, Q!Init, Ring, Count

\* Every step of the pipe is a step of the queue or leaves it alone.
LEMMA QueueStep ==
    ASSUME RingType, RoomInv, ControlInv, [Next]_vars
    PROVE  [Q!Next]_(Q!vars)
<1>1. ASSUME NEW p \in Proc, CallWrite(p) PROVE [Q!Next]_(Q!vars)
  BY <1>1 DEF CallWrite, pipe, Q!vars
<1>2. ASSUME NEW p \in Proc, Acquire(p) PROVE [Q!Next]_(Q!vars)
  BY <1>2 DEF Acquire, pipe, Q!vars
<1>3. ASSUME NEW p \in Proc, WriteFails(p) PROVE [Q!Next]_(Q!vars)
  BY <1>3 DEF WriteFails, pipe, Q!vars
<1>4. ASSUME NEW p \in Proc, NEW c \in Byte, WriteByte(p, c) PROVE [Q!Next]_(Q!vars)
  <2>1. Ring' = Append(Ring, c) /\ Len(Ring) < PIPESIZE
    BY <1>4, RingPut, ZenonT(30) DEF WriteByte
  <2>2. writeopen /\ readopen /\ got' = got /\ readopen' = readopen /\ writeopen' = writeopen
    BY <1>4 DEF WriteByte, ControlInv
  <2>3. Q!Put(c)
    BY <2>1, <2>2, ZenonT(30) DEF Q!Put, Ring, Count
  <2> QED BY <2>3 DEF Q!Next
<1>5. ASSUME NEW p \in Proc, WriteFull(p) PROVE [Q!Next]_(Q!vars)
  BY <1>5 DEF WriteFull, pipe, Q!vars
<1>6. ASSUME NEW p \in Proc, WriteDone(p) PROVE [Q!Next]_(Q!vars)
  BY <1>6 DEF WriteDone, pipe, Q!vars
<1>7. ASSUME NEW p \in Proc, CallRead(p) PROVE [Q!Next]_(Q!vars)
  BY <1>7 DEF CallRead, pipe, Q!vars
<1>8. ASSUME NEW p \in Proc, ReadTest(p) PROVE [Q!Next]_(Q!vars)
  BY <1>8 DEF ReadTest, pipe, Q!vars
<1>9. ASSUME NEW p \in Proc, ReadByte(p) PROVE [Q!Next]_(Q!vars)
  <2>1. Ring # <<>> /\ Ring' = Tail(Ring) /\ Head(Ring) = data[nread % PIPESIZE]
    BY <1>9, RingGet DEF ReadByte
  <2>2. readopen /\ readopen' = readopen /\ writeopen' = writeopen
    BY <1>9 DEF ReadByte, ControlInv
  <2>3. got' = [got EXCEPT ![p] = Append(@, Head(Ring))]
    BY <1>9, <2>1, ZenonT(30) DEF ReadByte
  <2>4. Q!Get(p)
    BY <2>1, <2>2, <2>3, ZenonT(30) DEF Q!Get, Ring, Count
  <2> QED BY <2>4 DEF Q!Next
<1>10. ASSUME NEW p \in Proc, ReadDone(p) PROVE [Q!Next]_(Q!vars)
  <2>1. Ring' = Ring \/ (Ring # <<>> /\ Ring' = Tail(Ring))
    BY <1>10, RingGet, ZenonT(30) DEF ReadDone, Ring, Count
  <2>2. readopen' = readopen /\ writeopen' = writeopen /\ got' = [got EXCEPT ![p] = <<>>]
    BY <1>10 DEF ReadDone
  <2>3. Q!EndRead(p)
    BY <2>1, <2>2, ZenonT(30) DEF Q!EndRead, Ring, Count
  <2> QED BY <2>3 DEF Q!Next
<1>11. ASSUME NEW p \in Proc, Sleep(p) PROVE [Q!Next]_(Q!vars)
  BY <1>11 DEF Sleep, pipe, Q!vars
<1>12. ASSUME NEW p \in Proc, Kill(p) PROVE [Q!Next]_(Q!vars)
  BY <1>12 DEF Kill, pipe, Q!vars
<1>13. ASSUME CloseWrite PROVE [Q!Next]_(Q!vars)
  BY <1>13 DEF CloseWrite, Q!CloseWrite, Q!Next
<1>14. ASSUME CloseRead PROVE [Q!Next]_(Q!vars)
  BY <1>14 DEF CloseRead, Q!CloseRead, Q!Next
<1>15. CASE UNCHANGED vars
  BY <1>15 DEF vars, pipe, Q!vars
<1> QED BY <1>1, <1>2, <1>3, <1>4, <1>5, <1>6, <1>7, <1>8, <1>9, <1>10, <1>11, <1>12, <1>13, <1>14, <1>15 DEF Next, InCall, Writing, Reading

\* The ring buffer with its wrapping indices is a bounded FIFO: bytes leave it in
\* the order they came, and only the end of a failed read loses one.
THEOREM PipeIsFifo == Spec => FifoSpec
<1>1. Inv /\ [Next]_vars => [Q!Next]_(Q!vars)
  BY QueueStep, Types DEF Inv
<1> QED BY <1>1, QueueInit, Invariance, PTL DEF Spec, FifoSpec, Q!Spec
=============================================================================
