------------------------------ MODULE LogSteps ------------------------------
(***************************************************************************)
(* The steps of the log, one for each way through an action, and the first *)
(* parts of its inductive invariant: types, who may be where, and the      *)
(* space in the header.                                                    *)
(***************************************************************************)
EXTENDS LogInv, TLAPS, FiniteSetTheorems

-----------------------------------------------------------------------------
(* Sequences and finite sets.                                              *)

\* Appending a block that is not in the header keeps its entries distinct.
LEMMA AppendFacts ==
    ASSUME NEW s \in Seq(Block), NEW b \in Block
    PROVE  /\ Append(s, b) \in Seq(Block)
           /\ Len(Append(s, b)) = Len(s) + 1
           /\ \A i \in 1..Len(s) : Append(s, b)[i] = s[i]
           /\ Append(s, b)[Len(s) + 1] = b
           /\ Range(Append(s, b)) = Range(s) \cup {b}
           /\ NoRepeat(s) /\ b \notin Range(s) => NoRepeat(Append(s, b))
<1>1. /\ Append(s, b) \in Seq(Block)
      /\ Len(Append(s, b)) = Len(s) + 1
      /\ \A i \in 1..Len(s) : Append(s, b)[i] = s[i]
      /\ Append(s, b)[Len(s) + 1] = b
      /\ DOMAIN s = 1..Len(s) /\ DOMAIN Append(s, b) = 1..(Len(s) + 1)
      /\ Len(s) \in Nat
  OBVIOUS
<1>2. Range(Append(s, b)) = Range(s) \cup {b}
  BY <1>1 DEF Range
<1>3. ASSUME NoRepeat(s), b \notin Range(s) PROVE NoRepeat(Append(s, b))
  BY <1>1, <1>3 DEF NoRepeat, Range
<1> QED BY <1>1, <1>2, <1>3

\* A header has finitely many blocks.
LEMMA RangeFinite ==
    ASSUME NEW s \in Seq(Block)
    PROVE  IsFiniteSet(Range(s))
<1>1. s \in Surjection(1..Len(s), Range(s))
  BY DEF Surjection, Range
<1>2. IsFiniteSet(1..Len(s))
  BY FS_Interval
<1> QED BY <1>1, <1>2, FS_Surjection

\* Operations are finitely many.
LEMMA InOpFinite ==
    /\ IsFiniteSet(InOp) /\ Cardinality(InOp) \in Nat
    /\ IsFiniteSet(InOp') /\ Cardinality(InOp') \in Nat
<1>1. InOp \in SUBSET Proc /\ InOp' \in SUBSET Proc
  BY DEF InOp
<1> QED BY <1>1, LogAssumption, FS_Subset, FS_CardinalityType

-----------------------------------------------------------------------------
(* The actions of Log, one for each way through them.                      *)

Sleeps(p) ==
    /\ pc[p] \in {"idle", "woken"}
    /\ pc' = [pc EXCEPT ![p] = "asleep"]
    /\ UNCHANGED <<outstanding, committing, lh, pin, cache, disk, logdata, head, tail, wrote>>

Begins(p) ==
    /\ pc[p] \in {"idle", "woken"}
    /\ committing = 0 /\ Len(lh) + (outstanding + 1) * MAXOPBLOCKS <= LOGSIZE
    /\ outstanding' = outstanding + 1
    /\ wrote' = [wrote EXCEPT ![p] = {}]
    /\ pc' = [pc EXCEPT ![p] = "op"]
    /\ UNCHANGED <<committing, lh, pin, cache, disk, logdata, head, tail>>

Panics(p) ==
    /\ pc[p] = "op"
    /\ pc' = [pc EXCEPT ![p] = "panic"]
    /\ UNCHANGED <<outstanding, committing, lh, pin, cache, disk, logdata, head, tail, wrote>>

Absorbs(p, b, v) ==
    /\ pc[p] = "op"
    /\ b \in Range(lh)
    /\ cache' = [cache EXCEPT ![b] = v]
    /\ wrote' = [wrote EXCEPT ![p] = wrote[p] \cup {b}]
    /\ UNCHANGED <<outstanding, committing, lh, pin, disk, logdata, head, pc, tail>>

Appends(p, b, v) ==
    /\ pc[p] = "op"
    /\ Cardinality(wrote[p] \cup {b}) <= OPBLOCKS
    /\ Len(lh) < LOGSIZE /\ Len(lh) < NLOG - 1
    /\ b \notin Range(lh)
    /\ cache' = [cache EXCEPT ![b] = v]
    /\ wrote' = [wrote EXCEPT ![p] = wrote[p] \cup {b}]
    /\ lh' = Append(lh, b)
    /\ pin' = [pin EXCEPT ![b] = pin[b] + 1]
    /\ UNCHANGED <<outstanding, committing, disk, logdata, head, pc, tail>>

EndsLast(p) ==
    /\ pc[p] = "op"
    /\ outstanding = 1 /\ outstanding' = 0 /\ committing' = 1
    /\ pc' = [pc EXCEPT ![p] = "commit"]
    /\ UNCHANGED <<lh, pin, cache, disk, logdata, head, tail, wrote>>

Ends(p) ==
    /\ pc[p] = "op"
    /\ outstanding # 1 /\ outstanding' = outstanding - 1
    /\ pc' = WakeupLog([pc EXCEPT ![p] = "idle"])
    /\ UNCHANGED <<committing, lh, pin, cache, disk, logdata, head, tail, wrote>>

Commits(p) ==
    /\ pc[p] = "commit"
    /\ \/ Len(lh) > 0 /\ pc' = [pc EXCEPT ![p] = "write_log"]
       \/ ~(Len(lh) > 0) /\ pc' = [pc EXCEPT ![p] = "committed"]
    /\ tail' = [tail EXCEPT ![p] = 0]
    /\ UNCHANGED <<outstanding, committing, lh, pin, cache, disk, logdata, head, wrote>>

LogsBlock(p) ==
    /\ pc[p] = "write_log" /\ tail[p] < Len(lh)
    /\ logdata' = [logdata EXCEPT ![tail[p] + 1] = cache[lh[tail[p] + 1]]]
    /\ tail' = [tail EXCEPT ![p] = tail[p] + 1]
    /\ UNCHANGED <<outstanding, committing, lh, pin, cache, disk, head, pc, wrote>>

LoggedAll(p) ==
    /\ pc[p] = "write_log" /\ ~(tail[p] < Len(lh))
    /\ pc' = [pc EXCEPT ![p] = "write_head"]
    /\ UNCHANGED <<outstanding, committing, lh, pin, cache, disk, logdata, head, tail, wrote>>

WritesHead(p) ==
    /\ pc[p] = "write_head"
    /\ head' = lh
    /\ tail' = [tail EXCEPT ![p] = 0]
    /\ pc' = [pc EXCEPT ![p] = "install"]
    /\ UNCHANGED <<outstanding, committing, lh, pin, cache, disk, logdata, wrote>>

ClearsHead(p) ==
    /\ pc[p] = "clear"
    /\ head' = lh
    /\ tail' = [tail EXCEPT ![p] = 0]
    /\ pc' = [pc EXCEPT ![p] = "committed"]
    /\ UNCHANGED <<outstanding, committing, lh, pin, cache, disk, logdata, wrote>>

EndsBoot(p) ==
    /\ pc[p] = "r_clear"
    /\ head' = lh
    /\ tail' = [tail EXCEPT ![p] = 0]
    /\ pc' = [q \in Proc |-> "idle"]
    /\ UNCHANGED <<outstanding, committing, lh, pin, cache, disk, logdata, wrote>>

InstallsBlock(p) ==
    /\ pc[p] \in {"install", "r_install"} /\ tail[p] < Len(lh)
    /\ cache' = [cache EXCEPT ![lh[tail[p] + 1]] = logdata[tail[p] + 1]]
    /\ disk' = [disk EXCEPT ![lh[tail[p] + 1]] = logdata[tail[p] + 1]]
    /\ pin' = [pin EXCEPT ![lh[tail[p] + 1]] =
                   pin[lh[tail[p] + 1]] - (IF pc[p] = "install" THEN 1 ELSE 0)]
    /\ tail' = [tail EXCEPT ![p] = tail[p] + 1]
    /\ UNCHANGED <<outstanding, committing, lh, logdata, head, pc, wrote>>

InstalledAll(p) ==
    /\ \/ pc[p] = "install" /\ pc' = [pc EXCEPT ![p] = "clear"]
       \/ pc[p] = "r_install" /\ pc' = [pc EXCEPT ![p] = "r_clear"]
    /\ ~(tail[p] < Len(lh))
    /\ lh' = <<>>
    /\ UNCHANGED <<outstanding, committing, pin, cache, disk, logdata, head, tail, wrote>>

EndsCommit(p) ==
    /\ pc[p] = "committed"
    /\ committing' = 0
    /\ pc' = WakeupLog([pc EXCEPT ![p] = "idle"])
    /\ UNCHANGED <<outstanding, lh, pin, cache, disk, logdata, head, tail, wrote>>

ReadsHead(p) ==
    /\ pc[p] = "read_head"
    /\ lh' = head
    /\ tail' = [tail EXCEPT ![p] = 0]
    /\ pc' = [pc EXCEPT ![p] = "r_install"]
    /\ UNCHANGED <<outstanding, committing, pin, cache, disk, logdata, head, wrote>>

Recycles(b) ==
    /\ pin[b] = 0
    /\ cache' = [cache EXCEPT ![b] = disk[b]]
    /\ UNCHANGED <<outstanding, committing, lh, pin, disk, logdata, head, pc, tail, wrote>>

ProcStep(p) ==
    \/ Sleeps(p) \/ Begins(p) \/ Panics(p) \/ EndsLast(p) \/ Ends(p) \/ Commits(p)
    \/ LogsBlock(p) \/ LoggedAll(p) \/ WritesHead(p) \/ ClearsHead(p) \/ EndsBoot(p)
    \/ InstallsBlock(p) \/ InstalledAll(p) \/ EndsCommit(p) \/ ReadsHead(p)
    \/ \E b \in Block, v \in Value : Absorbs(p, b, v) \/ Appends(p, b, v)

\* Every step of the log is one of these.
LEMMA Steps ==
    ASSUME [Next]_vars
    PROVE  \/ \E p \in Proc : ProcStep(p)
           \/ \E b \in Block : Recycles(b)
           \/ Crash
           \/ UNCHANGED vars
<1>1. ASSUME NEW p \in Proc, BeginOp(p) PROVE Sleeps(p) \/ Begins(p)
  BY <1>1 DEF BeginOp, Goto, MayBegin, Sleeps, Begins
<1>2. ASSUME NEW p \in Proc, EndOp(p) PROVE EndsLast(p) \/ Ends(p)
  BY <1>2 DEF EndOp, Goto, EndsLast, Ends
<1>3. ASSUME NEW p \in Proc, Commit(p) PROVE Commits(p)
  BY <1>3, ZenonT(30) DEF Commit, Goto, mem, Commits
<1>4. ASSUME NEW p \in Proc, WriteLog(p) PROVE LogsBlock(p) \/ LoggedAll(p)
  BY <1>4 DEF WriteLog, Goto, mem, LogsBlock, LoggedAll
<1>5. ASSUME NEW p \in Proc, WriteHead(p)
      PROVE  WritesHead(p) \/ ClearsHead(p) \/ EndsBoot(p)
  BY <1>5, ZenonT(30) DEF WriteHead, Goto, mem, WritesHead, ClearsHead, EndsBoot
<1>6. ASSUME NEW p \in Proc, InstallTrans(p) PROVE InstallsBlock(p) \/ InstalledAll(p)
  BY <1>6 DEF InstallTrans, Goto, Unpins, InstallsBlock, InstalledAll
<1>7. ASSUME NEW p \in Proc, EndCommit(p) PROVE EndsCommit(p)
  BY <1>7 DEF EndCommit, EndsCommit
<1>8. ASSUME NEW p \in Proc, ReadHead(p) PROVE ReadsHead(p)
  BY <1>8 DEF ReadHead, Goto, ReadsHead
<1>9. ASSUME NEW p \in Proc, NEW b \in Block, NEW v \in Value, LogWrite(p, b, v)
      PROVE  Panics(p) \/ Absorbs(p, b, v) \/ Appends(p, b, v)
  BY <1>9 DEF LogWrite, Goto, LogHasRoom, Absorbed, Panics, Absorbs, Appends
<1>10. ASSUME NEW b \in Block, Recycle(b) PROVE Recycles(b)
  BY <1>10 DEF Recycle, mem, Recycles
<1> QED BY <1>1, <1>2, <1>3, <1>4, <1>5, <1>6, <1>7, <1>8, <1>9, <1>10
        DEF Next, KernelStep, ProcStep
-----------------------------------------------------------------------------
(* Types.                                                                  *)

\* Assigning a value of the right type to an element keeps the type.
LEMMA ExceptType ==
    ASSUME NEW D, NEW R, NEW f \in [D -> R], NEW x \in D, NEW y \in R
    PROVE  [f EXCEPT ![x] = y] \in [D -> R]
OBVIOUS

\* mkfs and a boot leave every variable with its type.
LEMMA TypeInit == Init => TypeOK
BY LogAssumption DEF Init, TypeOK, Label

\* Every step keeps the types; the indices of write_log() and install_trans()
\* stay within the on-disk log.
LEMMA TypeStep == Inv /\ [Next]_vars => TypeOK'
<1> SUFFICES ASSUME Inv, [Next]_vars PROVE TypeOK'
  OBVIOUS
<1>t. TypeOK /\ ControlInv /\ SpaceInv
  BY DEF Inv
<1>1. ASSUME NEW p \in Proc, ProcStep(p) PROVE TypeOK'
  <2>1. CASE Sleeps(p)
    BY <1>t, <2>1 DEF Sleeps, TypeOK, Label
  <2>2. CASE Begins(p)
    <3>1. pc' \in [Proc -> Label]
      BY <1>t, <2>2 DEF Begins, TypeOK, Label
    <3> QED BY <1>t, <2>2, <3>1 DEF Begins, TypeOK
  <2>3. CASE Panics(p)
    BY <1>t, <2>3 DEF Panics, TypeOK, Label
  <2>4. CASE EndsLast(p)
    BY <1>t, <2>4 DEF EndsLast, TypeOK, Label
  <2>5. CASE Ends(p)
    <3>1. p \in InOp /\ outstanding \in Nat \ {0}
      BY <1>t, <2>5, InOpFinite, FS_EmptySet, ZenonT(30) DEF Ends, TypeOK, ControlInv, InOp, OpLabel
    <3>2. pc' \in [Proc -> Label]
      BY <1>t, <2>5 DEF Ends, TypeOK, WakeupLog, Label
    <3>3. outstanding' \in Nat
      BY <2>5, <3>1 DEF Ends
    <3>4. UNCHANGED <<committing, lh, pin, cache, disk, logdata, head, tail, wrote>>
      BY <2>5 DEF Ends
    <3> QED BY <1>t, <3>2, <3>3, <3>4 DEF TypeOK
  <2>6. CASE Commits(p)
    BY <1>t, <2>6, ZenonT(30) DEF Commits, TypeOK, Label
  <2>7. CASE LogsBlock(p)
    <3>1. tail[p] + 1 \in 1..Len(lh) /\ lh[tail[p] + 1] \in Block /\ tail[p] + 1 \in Nat
      BY <1>t, <2>7 DEF LogsBlock, TypeOK
    <3>2. logdata' \in [Slot -> Value] /\ tail' \in [Proc -> Nat]
      BY <1>t, <2>7, <3>1, ZenonT(30) DEF LogsBlock, TypeOK
    <3> QED BY <1>t, <2>7, <3>2 DEF LogsBlock, TypeOK
  <2>8. CASE LoggedAll(p)
    BY <1>t, <2>8 DEF LoggedAll, TypeOK, Label
  <2>9. CASE WritesHead(p)
    BY <1>t, <2>9 DEF WritesHead, TypeOK, Label
  <2>10. CASE ClearsHead(p)
    BY <1>t, <2>10 DEF ClearsHead, TypeOK, Label
  <2>11. CASE EndsBoot(p)
    BY <1>t, <2>11 DEF EndsBoot, TypeOK, Label
  <2>12. CASE InstallsBlock(p)
    <3> DEFINE k == tail[p] + 1
               n == pin[lh[k]] - (IF pc[p] = "install" THEN 1 ELSE 0)
    <3>1. /\ cache \in [Block -> Value] /\ disk \in [Block -> Value] /\ pin \in [Block -> Int]
          /\ tail \in [Proc -> Nat] /\ logdata \in [Slot -> Value] /\ lh \in Seq(Block)
      BY <1>t DEF TypeOK
    <3>2. /\ cache' = [cache EXCEPT ![lh[k]] = logdata[k]]
          /\ disk' = [disk EXCEPT ![lh[k]] = logdata[k]]
          /\ pin' = [pin EXCEPT ![lh[k]] = n]
          /\ tail' = [tail EXCEPT ![p] = k] /\ tail[p] < Len(lh)
      BY <2>12 DEF InstallsBlock
    <3>3. k \in 1..Len(lh) /\ k \in Nat
      BY <3>1, <3>2
    <3>4. lh[k] \in Block
      BY <3>1, <3>3
    <3>5. logdata[k] \in Value
      <4>1. Len(lh) \in Nat /\ Len(lh) <= NLOG - 1
        BY <1>t, <3>1 DEF SpaceInv
      <4>2. k \in Slot
        BY <3>3, <4>1, LogAssumption DEF Slot
      <4> QED BY <3>1, <4>2
    <3>6. n \in Int
      BY <3>1, <3>4
    <3> HIDE DEF k, n
    <3>7. /\ cache' \in [Block -> Value] /\ disk' \in [Block -> Value] /\ pin' \in [Block -> Int]
          /\ tail' \in [Proc -> Nat]
      BY <3>1, <3>2, <3>3, <3>4, <3>5, <3>6, ExceptType
    <3> QED BY <1>t, <2>12, <3>7 DEF InstallsBlock, TypeOK
  <2>13. CASE InstalledAll(p)
    <3>1. pc' \in [Proc -> Label]
      BY <1>t, <2>13, ZenonT(30) DEF InstalledAll, TypeOK, Label
    <3>2. lh' \in Seq(Block)
      BY <2>13 DEF InstalledAll
    <3> QED BY <1>t, <2>13, <3>1, <3>2 DEF InstalledAll, TypeOK
  <2>14. CASE EndsCommit(p)
    BY <1>t, <2>14 DEF EndsCommit, TypeOK, WakeupLog, Label
  <2>15. CASE ReadsHead(p)
    BY <1>t, <2>15 DEF ReadsHead, TypeOK, Label
  <2>16. ASSUME NEW b \in Block, NEW v \in Value, Absorbs(p, b, v) PROVE TypeOK'
    BY <1>t, <2>16 DEF Absorbs, TypeOK
  <2>17. ASSUME NEW b \in Block, NEW v \in Value, Appends(p, b, v) PROVE TypeOK'
    <3>1. lh' \in Seq(Block)
      BY <1>t, <2>17, AppendFacts DEF Appends, TypeOK
    <3>2. pin' \in [Block -> Int]
      <4>1. pin \in [Block -> Int] /\ pin[b] + 1 \in Int
        BY <1>t DEF TypeOK
      <4> QED BY <2>17, <4>1, ExceptType DEF Appends
    <3> QED BY <1>t, <2>17, <3>1, <3>2 DEF Appends, TypeOK
  <2> QED BY <1>1, <2>1, <2>2, <2>3, <2>4, <2>5, <2>6, <2>7, <2>8, <2>9, <2>10, <2>11,
             <2>12, <2>13, <2>14, <2>15, <2>16, <2>17 DEF ProcStep
<1>2. ASSUME NEW b \in Block, Recycles(b) PROVE TypeOK'
  BY <1>t, <1>2 DEF Recycles, TypeOK
<1>3. CASE Crash
  BY <1>t, <1>3 DEF Crash, TypeOK, Label
<1>4. CASE UNCHANGED vars
  BY <1>t, <1>4 DEF vars, TypeOK
<1> QED BY <1>1, <1>2, <1>3, <1>4, Steps
-----------------------------------------------------------------------------
(* Control: who runs an operation, who commits, who boots.                 *)

\* Nobody starts or ends an operation, a commit or a recovery.
SameRoles ==
    \A q \in Proc : /\ pc'[q] \in BootLabel <=> pc[q] \in BootLabel
                    /\ pc'[q] = "down" <=> pc[q] = "down"
                    /\ pc'[q] \in OpLabel <=> pc[q] \in OpLabel
                    /\ pc'[q] \in CommitLabel <=> pc[q] \in CommitLabel

\* Then the sets of operations, of committers and of booting processes stay.
LEMMA SameRolesFacts ==
    ASSUME SameRoles
    PROVE  InOp' = InOp /\ InCommit' = InCommit /\ (Booting' <=> Booting)
BY LogAssumption DEF SameRoles, InOp, InCommit, Booting

\* Sleeping, log_write() and the steps inside commit() and recovery change no roles.
LEMMA KeepsRoles ==
    ASSUME TypeOK, NEW p \in Proc,
           \/ Sleeps(p) \/ Panics(p) \/ Commits(p) \/ LogsBlock(p) \/ LoggedAll(p)
           \/ WritesHead(p) \/ ClearsHead(p) \/ InstallsBlock(p) \/ InstalledAll(p)
           \/ ReadsHead(p)
           \/ \E b \in Block, v \in Value : Absorbs(p, b, v) \/ Appends(p, b, v)
    PROVE  SameRoles /\ UNCHANGED <<outstanding, committing>>
<1>1. CASE Sleeps(p)
  BY <1>1 DEF Sleeps, TypeOK, SameRoles, BootLabel, OpLabel, CommitLabel
<1>2. CASE Panics(p)
  BY <1>2 DEF Panics, TypeOK, SameRoles, BootLabel, OpLabel, CommitLabel
<1>3. CASE Commits(p)
  BY <1>3 DEF Commits, TypeOK, SameRoles, BootLabel, OpLabel, CommitLabel
<1>4. CASE LogsBlock(p)
  BY <1>4 DEF LogsBlock, SameRoles
<1>5. CASE LoggedAll(p)
  BY <1>5 DEF LoggedAll, TypeOK, SameRoles, BootLabel, OpLabel, CommitLabel
<1>6. CASE WritesHead(p)
  BY <1>6 DEF WritesHead, TypeOK, SameRoles, BootLabel, OpLabel, CommitLabel
<1>7. CASE ClearsHead(p)
  BY <1>7 DEF ClearsHead, TypeOK, SameRoles, BootLabel, OpLabel, CommitLabel
<1>8. CASE InstallsBlock(p)
  BY <1>8 DEF InstallsBlock, SameRoles
<1>9. CASE InstalledAll(p)
  BY <1>9 DEF InstalledAll, TypeOK, SameRoles, BootLabel, OpLabel, CommitLabel
<1>10. CASE ReadsHead(p)
  BY <1>10 DEF ReadsHead, TypeOK, SameRoles, BootLabel, OpLabel, CommitLabel
<1>11. CASE \E b \in Block, v \in Value : Absorbs(p, b, v) \/ Appends(p, b, v)
  BY <1>11 DEF Absorbs, Appends, SameRoles
<1> QED BY <1>1, <1>2, <1>3, <1>4, <1>5, <1>6, <1>7, <1>8, <1>9, <1>10, <1>11

\* The end of end_op(): p is idle and the sleepers of begin_op() are awake.
LEMMA WakesSleepers ==
    ASSUME TypeOK, NEW p \in Proc, pc' = WakeupLog([pc EXCEPT ![p] = "idle"])
    PROVE  /\ pc'[p] = "idle"
           /\ \A q \in Proc \ {p} :
                 pc'[q] = pc[q] \/ (pc[q] = "asleep" /\ pc'[q] = "woken")
BY DEF TypeOK, WakeupLog

\* At boot only the first process runs, in initlog().
LEMMA ControlInit == Init => ControlInv
<1> SUFFICES ASSUME Init PROVE ControlInv
  OBVIOUS
<1>1. InOp = {} /\ InCommit = {} /\ Booting
  BY LogAssumption DEF Init, InOp, InCommit, Booting, OpLabel, CommitLabel, BootLabel
<1>2. Cardinality(InOp) = 0
  BY <1>1, FS_EmptySet
<1> QED BY <1>1, <1>2 DEF Init, ControlInv, BootLabel

\* log.outstanding and log.committing tell who is between begin_op() and end_op().
LEMMA ControlStep == Inv /\ [Next]_vars => ControlInv'
<1> SUFFICES ASSUME Inv, [Next]_vars PROVE ControlInv'
  OBVIOUS
<1>t. TypeOK /\ ControlInv
  BY DEF Inv
<1>s. ASSUME SameRoles, UNCHANGED <<outstanding, committing>> PROVE ControlInv'
  BY <1>t, <1>s, SameRolesFacts DEF SameRoles, ControlInv
<1>1. ASSUME NEW p \in Proc, ProcStep(p) PROVE ControlInv'
  <2>1. CASE Begins(p)
    <3>1. /\ InOp' = InOp \cup {p} /\ p \notin InOp /\ InCommit' = InCommit /\ InCommit = {}
          /\ Booting' <=> Booting
      BY <1>t, <2>1 DEF Begins, TypeOK, ControlInv, InOp, InCommit, Booting,
                        OpLabel, CommitLabel, BootLabel
    <3>2. Cardinality(InOp') = Cardinality(InOp) + 1
      BY <3>1, InOpFinite, FS_AddElement
    <3>3. \A q \in Proc : /\ pc'[q] \in BootLabel <=> pc[q] \in BootLabel
                          /\ pc'[q] = "down" <=> pc[q] = "down"
      BY <1>t, <2>1 DEF Begins, TypeOK, BootLabel
    <3>4. outstanding' = outstanding + 1 /\ committing' = 0 /\ committing = 0
      BY <2>1 DEF Begins
    <3> QED BY <1>t, <3>1, <3>2, <3>3, <3>4 DEF ControlInv
  <2>2. CASE EndsLast(p)
    <3>1. p \in InOp /\ Cardinality(InOp) = 1
      BY <1>t, <2>2 DEF EndsLast, ControlInv, InOp, OpLabel
    <3>2. PICK q : InOp = {q}
      BY <3>1, InOpFinite, FS_Singleton
    <3>3. InOp = {p} /\ committing # 1
      BY <1>t, <3>1, <3>2 DEF ControlInv
    <3>4. InCommit = {}
      BY <1>t, <3>3 DEF ControlInv
    <3>5. InOp' = {} /\ InCommit' = {p} /\ (Booting' <=> Booting)
      BY <1>t, <2>2, <3>3, <3>4 DEF EndsLast, TypeOK, InOp, InCommit, Booting,
                                OpLabel, CommitLabel, BootLabel
    <3>6. Cardinality(InOp') = 0
      BY <3>5, FS_EmptySet
    <3>7. \A r \in Proc : /\ pc'[r] \in BootLabel <=> pc[r] \in BootLabel
                          /\ pc'[r] = "down" <=> pc[r] = "down"
      BY <1>t, <2>2 DEF EndsLast, TypeOK, BootLabel
    <3>8. outstanding' = 0 /\ committing' = 1
      BY <2>2 DEF EndsLast
    <3> QED BY <1>t, <3>5, <3>6, <3>7, <3>8 DEF ControlInv
  <2>3. CASE Ends(p)
    <3>1. p \in InOp /\ committing # 1
      BY <1>t, <2>3 DEF Ends, ControlInv, InOp, OpLabel
    <3>w. /\ pc'[p] = "idle"
          /\ \A q \in Proc \ {p} :
                pc'[q] = pc[q] \/ (pc[q] = "asleep" /\ pc'[q] = "woken")
      BY <1>t, <2>3, WakesSleepers, ZenonT(30) DEF Ends
    <3>2. InOp' = InOp \ {p} /\ InCommit' = InCommit /\ (Booting' <=> Booting)
      BY <2>3, <3>w, LogAssumption, ZenonT(30) DEF Ends, InOp, InCommit, Booting, OpLabel, CommitLabel, BootLabel
    <3>3. Cardinality(InOp') = Cardinality(InOp) - 1
      BY <3>1, <3>2, InOpFinite, FS_RemoveElement
    <3>4. \A q \in Proc : /\ pc'[q] \in BootLabel <=> pc[q] \in BootLabel
                          /\ pc'[q] = "down" <=> pc[q] = "down"
      BY <2>3, <3>w, ZenonT(30) DEF Ends, BootLabel
    <3>5. outstanding' = outstanding - 1 /\ committing' = committing
      BY <2>3 DEF Ends
    <3> QED BY <1>t, <3>1, <3>2, <3>3, <3>4, <3>5 DEF ControlInv
  <2>4. CASE EndsBoot(p)
    <3>1. p = InitProc /\ Booting
      BY <1>t, <2>4 DEF EndsBoot, ControlInv, Booting, BootLabel
    <3>2. InOp = {} /\ InCommit = {}
      BY <1>t, <2>4, <3>1 DEF EndsBoot, ControlInv, InOp, InCommit, OpLabel, CommitLabel
    <3>3. InOp' = {} /\ InCommit' = {} /\ ~Booting'
      BY <2>4, LogAssumption DEF EndsBoot, InOp, InCommit, Booting,
                                 OpLabel, CommitLabel, BootLabel
    <3>4. \A q \in Proc : pc'[q] \notin BootLabel /\ pc'[q] # "down"
      BY <2>4 DEF EndsBoot, BootLabel
    <3>5. UNCHANGED <<outstanding, committing>>
      BY <2>4 DEF EndsBoot
    <3> QED BY <1>t, <3>2, <3>3, <3>4, <3>5 DEF ControlInv
  <2>5. CASE EndsCommit(p)
    <3>1. InCommit = {p}
      BY <1>t, <2>5 DEF EndsCommit, ControlInv, InCommit, CommitLabel
    <3>w. /\ pc'[p] = "idle"
          /\ \A q \in Proc \ {p} :
                pc'[q] = pc[q] \/ (pc[q] = "asleep" /\ pc'[q] = "woken")
      BY <1>t, <2>5, WakesSleepers, ZenonT(30) DEF EndsCommit
    <3>a. InOp' = InOp /\ (Booting' <=> Booting)
      BY <2>5, <3>w, LogAssumption, ZenonT(30) DEF EndsCommit, InOp, Booting, OpLabel, BootLabel
    <3>b. \A q \in Proc : pc[q] \in CommitLabel => q = p
      BY <3>1 DEF InCommit
    <3>c. \A q \in Proc : pc'[q] \notin CommitLabel
      BY <3>w, <3>b DEF CommitLabel
    <3>2. InOp' = InOp /\ InCommit' = {} /\ (Booting' <=> Booting)
      BY <3>a, <3>c DEF InCommit
    <3>3. \A q \in Proc : /\ pc'[q] \in BootLabel <=> pc[q] \in BootLabel
                          /\ pc'[q] = "down" <=> pc[q] = "down"
      BY <2>5, <3>w, ZenonT(30) DEF EndsCommit, BootLabel
    <3>4. outstanding' = outstanding /\ committing' = 0
      BY <2>5 DEF EndsCommit
    <3> QED BY <1>t, <3>2, <3>3, <3>4 DEF ControlInv
  <2> QED BY <1>t, <1>1, <1>s, KeepsRoles, <2>1, <2>2, <2>3, <2>4, <2>5 DEF ProcStep
<1>2. ASSUME NEW b \in Block, Recycles(b) PROVE ControlInv'
  BY <1>s, <1>2 DEF Recycles, SameRoles
<1>3. CASE Crash
  <2>1. InOp' = {} /\ InCommit' = {} /\ Booting'
    BY <1>3, LogAssumption DEF Crash, InOp, InCommit, Booting, OpLabel, CommitLabel, BootLabel
  <2>2. Cardinality(InOp') = 0
    BY <2>1, FS_EmptySet
  <2>3. \A q \in Proc : /\ pc'[q] \in BootLabel <=> q = InitProc
                        /\ pc'[q] = "down" <=> q # InitProc
    BY <1>3 DEF Crash, BootLabel
  <2>4. outstanding' = 0 /\ committing' = 0
    BY <1>3 DEF Crash
  <2> QED BY <2>1, <2>2, <2>3, <2>4 DEF ControlInv
<1>4. CASE UNCHANGED vars
  BY <1>s, <1>4 DEF vars, SameRoles
<1> QED BY <1>1, <1>2, <1>3, <1>4, Steps
-----------------------------------------------------------------------------
(* Space: a block for every write a running operation may still make.      *)

\* What is set aside by begin_op() can be counted.
LEMMA ReservedFinite ==
    /\ IsFiniteSet(Reserved) /\ Cardinality(Reserved) \in Nat
    /\ Cardinality(Reserved) <= Cardinality(InOp) * MAXOPBLOCKS
<1>1. IsFiniteSet(1..MAXOPBLOCKS) /\ Cardinality(1..MAXOPBLOCKS) = MAXOPBLOCKS
  BY LogAssumption, FS_Interval
<1>2. /\ IsFiniteSet(InOp \X (1..MAXOPBLOCKS))
      /\ Cardinality(InOp \X (1..MAXOPBLOCKS)) = Cardinality(InOp) * MAXOPBLOCKS
  BY <1>1, InOpFinite, FS_Product, ZenonT(30)
<1>3. Reserved \in SUBSET (InOp \X (1..MAXOPBLOCKS))
  BY DEF Reserved
<1> QED BY <1>2, <1>3, FS_Subset, FS_CardinalityType

\* ... and in the next state.
LEMMA ReservedFinite2 ==
    /\ IsFiniteSet(Reserved') /\ Cardinality(Reserved') \in Nat
    /\ Cardinality(Reserved') <= Cardinality(InOp') * MAXOPBLOCKS
<1>1. IsFiniteSet(1..MAXOPBLOCKS) /\ Cardinality(1..MAXOPBLOCKS) = MAXOPBLOCKS
  BY LogAssumption, FS_Interval
<1>2. /\ IsFiniteSet(InOp' \X (1..MAXOPBLOCKS))
      /\ Cardinality(InOp' \X (1..MAXOPBLOCKS)) = Cardinality(InOp') * MAXOPBLOCKS
  BY <1>1, InOpFinite, FS_Product, ZenonT(30)
<1>3. Reserved' \in SUBSET (InOp' \X (1..MAXOPBLOCKS))
  BY DEF Reserved
<1> QED BY <1>2, <1>3, FS_Subset, FS_CardinalityType

\* Whoever commits or boots is alone: no operation is running.
LEMMA NoOpMeanwhile ==
    ASSUME ControlInv, NEW p \in Proc, pc[p] \in CommitLabel \cup BootLabel
    PROVE  InOp = {} /\ Reserved = {}
<1>1. ASSUME pc[p] \in CommitLabel PROVE InOp = {}
  BY <1>1 DEF ControlInv, InCommit
<1>2. ASSUME pc[p] \in BootLabel PROVE InOp = {}
  <2>1. p = InitProc /\ Booting
    BY <1>2 DEF ControlInv, Booting
  <2>2. \A q \in Proc : pc[q] = "down" \/ q = InitProc
    BY <2>1 DEF ControlInv
  <2> QED BY <1>2, <2>1, <2>2 DEF InOp, OpLabel, BootLabel
<1> QED BY <1>1, <1>2 DEF Reserved

\* An empty log has room.
LEMMA SpaceInit == Init => SpaceInv
<1> SUFFICES ASSUME Init PROVE SpaceInv
  OBVIOUS
<1>1. InOp = {}
  BY DEF Init, InOp, OpLabel
<1>2. Cardinality(Reserved) = 0
  BY <1>1, FS_EmptySet DEF Reserved
<1>3. Len(lh) = 0 /\ Len(head) = 0
  BY DEF Init
<1> QED BY <1>1, <1>2, <1>3, LogAssumption DEF SpaceInv, LogSpace

\* The space argument: begin_op() sets MAXOPBLOCKS aside, and each append by
\* an operation uses up one of the blocks set aside for it.
LEMMA SpaceStep == Inv /\ [Next]_vars => SpaceInv'
<1> SUFFICES ASSUME Inv, [Next]_vars PROVE SpaceInv'
  OBVIOUS
<1>t. TypeOK /\ ControlInv /\ SpaceInv
  BY DEF Inv
<1>l. Len(lh) \in Nat /\ Len(head) \in Nat /\ Len(lh) <= LOGSIZE
  BY <1>t, ReservedFinite, LogAssumption DEF TypeOK, SpaceInv, LogSpace
<1>f. \A p \in InOp : IsFiniteSet(wrote[p]) /\ Cardinality(wrote[p]) \in Nat
  <2> TAKE p \in InOp
  <2>1. wrote[p] \in SUBSET Range(lh) /\ IsFiniteSet(Range(lh))
    BY <1>t, RangeFinite DEF TypeOK, SpaceInv
  <2> QED BY <2>1, FS_Subset, FS_CardinalityType
\* The steps that neither start an operation nor let one write.
<1>s. ASSUME InOp' \subseteq InOp, UNCHANGED <<lh, wrote>>,
             head' = head \/ head' = lh
      PROVE  SpaceInv'
  <2>1. Reserved' \in SUBSET Reserved
    BY <1>s DEF Reserved
  <2>2. Cardinality(Reserved') <= Cardinality(Reserved)
    BY <2>1, ReservedFinite, FS_Subset
  <2>3. LogSpace'
    BY <1>t, <1>l, <1>s, <2>2, ReservedFinite, ReservedFinite2, LogAssumption DEF SpaceInv, LogSpace
  <2> QED BY <1>t, <1>l, <1>s, <2>3 DEF SpaceInv
\* The steps that change the header while no operation runs.
<1>e. ASSUME InOp' = {}, lh' = <<>> \/ lh' = head, UNCHANGED head
      PROVE  SpaceInv'
  <2>1. Cardinality(Reserved') = 0
    BY <1>e, FS_EmptySet DEF Reserved
  <2>2. Len(lh') <= LOGSIZE /\ Len(lh') <= NLOG - 1 /\ Len(lh') \in Nat
    BY <1>t, <1>l, <1>e, LogAssumption DEF SpaceInv
  <2>3. Len(head') <= LOGSIZE /\ Len(head') <= NLOG - 1
    BY <1>t, <1>e DEF SpaceInv
  <2> QED BY <1>e, <2>1, <2>2, <2>3 DEF SpaceInv, LogSpace
<1>1. ASSUME NEW p \in Proc, ProcStep(p) PROVE SpaceInv'
  <2>1. CASE \/ Sleeps(p) \/ Panics(p) \/ Commits(p) \/ LogsBlock(p) \/ LoggedAll(p)
             \/ WritesHead(p) \/ ClearsHead(p) \/ InstallsBlock(p)
    <3>1. InOp' \subseteq InOp
      BY <1>t, <2>1, KeepsRoles, SameRolesFacts
    <3>2. UNCHANGED <<lh, wrote>> /\ (head' = head \/ head' = lh)
      <4>1. CASE Sleeps(p)
        BY <4>1 DEF Sleeps
      <4>2. CASE Panics(p)
        BY <4>2 DEF Panics
      <4>3. CASE Commits(p)
        BY <4>3 DEF Commits
      <4>4. CASE LogsBlock(p)
        BY <4>4 DEF LogsBlock
      <4>5. CASE LoggedAll(p)
        BY <4>5 DEF LoggedAll
      <4>6. CASE WritesHead(p)
        BY <4>6 DEF WritesHead
      <4>7. CASE ClearsHead(p)
        BY <4>7 DEF ClearsHead
      <4>8. CASE InstallsBlock(p)
        BY <4>8 DEF InstallsBlock
      <4> QED BY <2>1, <4>1, <4>2, <4>3, <4>4, <4>5, <4>6, <4>7, <4>8
    <3> QED BY <1>s, <3>1, <3>2
  <2>2. CASE InstalledAll(p) \/ ReadsHead(p)
    <3>1. InOp = {}
      BY <1>t, <2>2, NoOpMeanwhile DEF InstalledAll, ReadsHead, CommitLabel, BootLabel
    <3>2. InOp' = {}
      BY <1>t, <2>2, <3>1, KeepsRoles, SameRolesFacts
    <3> QED BY <1>e, <2>2, <3>2 DEF InstalledAll, ReadsHead
  <2>3. CASE EndsLast(p) \/ EndsBoot(p) \/ Ends(p) \/ EndsCommit(p)
    <3>1. CASE EndsLast(p)
      BY <1>t, <1>s, <3>1 DEF EndsLast, TypeOK, InOp, OpLabel
    <3>2. CASE EndsBoot(p)
      BY <1>s, <3>2 DEF EndsBoot, InOp, OpLabel
    <3>3. CASE Ends(p)
      <4>1. InOp' \subseteq InOp
        BY <1>t, <3>3, WakesSleepers, ZenonT(30) DEF Ends, InOp, OpLabel
      <4> QED BY <1>s, <3>3, <4>1 DEF Ends
    <3>4. CASE EndsCommit(p)
      <4>1. InOp' \subseteq InOp
        BY <1>t, <3>4, WakesSleepers, ZenonT(30) DEF EndsCommit, InOp, OpLabel
      <4> QED BY <1>s, <3>4, <4>1 DEF EndsCommit
    <3> QED BY <2>3, <3>1, <3>2, <3>3, <3>4
  <2>4. CASE Begins(p)
    <3>1. InOp' = InOp \cup {p} /\ p \notin InOp
      BY <1>t, <2>4 DEF Begins, TypeOK, InOp, OpLabel
    <3>2. Cardinality(InOp') = outstanding + 1
      BY <1>t, <3>1, InOpFinite, FS_AddElement DEF ControlInv
    <3>3. Cardinality(Reserved') <= (outstanding + 1) * MAXOPBLOCKS
      BY <3>2, ReservedFinite2
    <3>4. Len(lh) + (outstanding + 1) * MAXOPBLOCKS <= LOGSIZE
      BY <2>4 DEF Begins
    <3>5. (outstanding + 1) * MAXOPBLOCKS \in Nat
      BY <1>t, LogAssumption DEF TypeOK
    <3>6. Len(lh) + Cardinality(Reserved') <= LOGSIZE
      BY <1>l, <3>3, <3>4, <3>5, ReservedFinite2, LogAssumption
    <3>7. lh' = lh /\ head' = head /\ LogSpace'
      BY <2>4, <3>6 DEF Begins, LogSpace
    <3>8. \A q \in InOp' : wrote'[q] \subseteq Range(lh)
      BY <1>t, <2>4, <3>1 DEF Begins, TypeOK, SpaceInv
    <3> QED BY <1>t, <3>7, <3>8 DEF SpaceInv
  <2>5. ASSUME NEW b \in Block, NEW v \in Value, Absorbs(p, b, v) PROVE SpaceInv'
    <3>1. InOp' = InOp /\ p \in InOp
      BY <2>5 DEF Absorbs, InOp, OpLabel
    <3>2. \A q \in InOp : wrote'[q] = IF q = p THEN wrote[p] \cup {b} ELSE wrote[q]
      BY <1>t, <2>5 DEF Absorbs, TypeOK, InOp
    <3>3. Cardinality(wrote[p] \cup {b}) >= Cardinality(wrote[p]) /\ Cardinality(wrote[p] \cup {b}) \in Nat
      <4>1. IsFiniteSet(wrote[p]) /\ Cardinality(wrote[p]) \in Nat
        BY <1>f, <3>1
      <4>2. Cardinality(wrote[p] \cup {b}) =
              IF b \in wrote[p] THEN Cardinality(wrote[p]) ELSE Cardinality(wrote[p]) + 1
        BY <4>1, FS_AddElement, ZenonT(30)
      <4> QED BY <4>1, <4>2
    <3>4. \A q \in InOp : Cardinality(wrote'[q]) >= Cardinality(wrote[q]) /\ Cardinality(wrote'[q]) \in Nat
      BY <1>f, <3>2, <3>3
    <3>5. Reserved' \in SUBSET Reserved
      BY <1>f, <3>1, <3>4, LogAssumption DEF Reserved
    <3>6. Cardinality(Reserved') <= Cardinality(Reserved)
      BY <3>5, ReservedFinite, FS_Subset
    <3>7. lh' = lh /\ head' = head
      BY <2>5 DEF Absorbs
    <3>8. LogSpace'
      BY <1>t, <1>l, <3>6, <3>7, ReservedFinite, ReservedFinite2, LogAssumption DEF SpaceInv, LogSpace
    <3>9. \A q \in InOp' : wrote'[q] \subseteq Range(lh')
      BY <1>t, <2>5, <3>1, <3>2, <3>7 DEF Absorbs, SpaceInv
    <3> QED BY <1>t, <3>7, <3>8, <3>9 DEF SpaceInv
  <2>6. ASSUME NEW b \in Block, NEW v \in Value, Appends(p, b, v) PROVE SpaceInv'
    <3> DEFINE r == <<p, Cardinality(wrote[p]) + 1>>
    <3>1. InOp' = InOp /\ p \in InOp
      BY <2>6 DEF Appends, InOp, OpLabel
    <3>2. \A q \in InOp : wrote'[q] = IF q = p THEN wrote[p] \cup {b} ELSE wrote[q]
      BY <1>t, <2>6 DEF Appends, TypeOK, InOp
    <3>3. b \notin wrote[p]
      BY <1>t, <2>6, <3>1 DEF Appends, SpaceInv
    <3>4. Cardinality(wrote'[p]) = Cardinality(wrote[p]) + 1
      <4>1. IsFiniteSet(wrote[p]) /\ Cardinality(wrote[p]) \in Nat
        BY <1>f, <3>1
      <4>2. Cardinality(wrote[p] \cup {b}) = Cardinality(wrote[p]) + 1
        BY <3>3, <4>1, FS_AddElement, ZenonT(30)
      <4> QED BY <3>1, <3>2, <4>2
    <3>5. Cardinality(wrote[p]) + 1 \in 1..MAXOPBLOCKS
      <4>1. Cardinality(wrote'[p]) <= OPBLOCKS
        BY <2>6, <3>1, <3>2, ZenonT(30) DEF Appends
      <4>2. Cardinality(wrote[p]) \in Nat
        BY <1>f, <3>1
      <4> QED BY <3>4, <4>1, <4>2, LogAssumption
    <3>6. r \in Reserved
      BY <1>f, <3>1, <3>5 DEF Reserved
    <3>7. Reserved' \in SUBSET (Reserved \ {r})
      BY <1>f, <3>1, <3>2, <3>4, LogAssumption DEF Reserved
    <3>8. Cardinality(Reserved') <= Cardinality(Reserved) - 1
      <4>1. /\ IsFiniteSet(Reserved \ {r})
            /\ Cardinality(Reserved \ {r}) = Cardinality(Reserved) - 1
        BY <3>6, ReservedFinite, FS_RemoveElement
      <4> QED BY <3>7, <4>1, FS_Subset
    <3>9. Len(lh') = Len(lh) + 1 /\ Range(lh') = Range(lh) \cup {b} /\ head' = head
      BY <1>t, <2>6, AppendFacts DEF Appends, TypeOK
    <3>10. LogSpace'
      BY <1>t, <1>l, <3>8, <3>9, ReservedFinite, ReservedFinite2, LogAssumption DEF SpaceInv, LogSpace
    <3>11. \A q \in InOp' : wrote'[q] \subseteq Range(lh')
      BY <1>t, <3>1, <3>2, <3>9 DEF SpaceInv
    <3>12. Len(lh') <= NLOG - 1
      BY <1>l, <2>6, <3>9, LogAssumption DEF Appends
    <3> QED BY <1>t, <3>9, <3>10, <3>11, <3>12 DEF SpaceInv
  <2> QED BY <1>1, <2>1, <2>2, <2>3, <2>4, <2>5, <2>6 DEF ProcStep
<1>2. ASSUME NEW b \in Block, Recycles(b) PROVE SpaceInv'
  BY <1>s, <1>2 DEF Recycles, InOp
<1>3. CASE Crash
  BY <1>e, <1>3 DEF Crash, InOp, OpLabel
<1>4. CASE UNCHANGED vars
  BY <1>s, <1>4 DEF vars, InOp
<1> QED BY <1>1, <1>2, <1>3, <1>4, Steps
=============================================================================
