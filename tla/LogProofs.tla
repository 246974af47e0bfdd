----------------------------- MODULE LogProofs ------------------------------
(***************************************************************************)
(* Proofs about the log, for any number of processes and blocks and any    *)
(* size of the log: Inv of LogInv is inductive, the safety properties of   *)
(* Log follow from it, and the log implements the transactional disk of    *)
(* TxDisk.  Here are the data on the disk, the pins and the theorems.      *)
(***************************************************************************)
EXTENDS LogSteps

-----------------------------------------------------------------------------
(* Data: what the buffers, the home blocks and the on-disk log hold.       *)

Active == CommitLabel \cup BootLabel

\* At most one process commits or boots.
LEMMA Alone ==
    ASSUME ControlInv, NEW p \in Proc, pc[p] \in Active
    PROVE  \A q \in Proc \ {p} : pc[q] \notin Active
<1>1. ASSUME pc[p] \in BootLabel PROVE \A q \in Proc \ {p} : pc[q] = "down"
  BY <1>1, ZenonT(30) DEF ControlInv, Booting
<1>2. ASSUME pc[p] \in CommitLabel PROVE \A q \in Proc \ {p} : pc[q] \notin CommitLabel
  BY <1>2, ZenonT(30) DEF ControlInv, InCommit
<1>3. ASSUME pc[p] \in CommitLabel PROVE ~Booting
  BY <1>3, LogAssumption, ZenonT(30) DEF ControlInv, Booting, BootLabel, CommitLabel
<1> QED BY <1>1, <1>2, <1>3, ZenonT(30) DEF Active, BootLabel, CommitLabel, ControlInv, Booting

\* Nobody commits or boots while an operation runs or starts.
LEMMA OpAlone ==
    ASSUME ControlInv, NEW p \in Proc,
           pc[p] \in OpLabel \/ (pc[p] \in {"idle", "woken"} /\ committing = 0)
    PROVE  ~Booting /\ \A q \in Proc : pc[q] \notin Active
<1>1. ~Booting
  BY LogAssumption, ZenonT(30) DEF ControlInv, Booting, BootLabel, OpLabel
<1>2. InCommit = {}
  BY DEF ControlInv, InOp
<1> QED BY <1>1, <1>2, ZenonT(30) DEF Active, InCommit, ControlInv, Booting

\* Progress says nothing of a process outside commit() and recovery.
LEMMA InactiveProgress ==
    \A q : pc'[q] \notin Active => Progress(q)'
BY ZenonT(30) DEF Active, CommitLabel, BootLabel, Progress

\* A buffer that bget() may recycle holds what is on the disk already.
LEMMA RecycleStutters ==
    ASSUME TypeOK, PinsMatchLog, NEW b \in Block, Recycles(b)
    PROVE  UNCHANGED vars
<1>1. cache[b] = disk[b]
  BY DEF Recycles, PinsMatchLog
<1>2. cache' = cache
  BY <1>1, ZenonT(30) DEF Recycles, TypeOK
<1> QED BY <1>2, ZenonT(30) DEF Recycles, vars

\* What Progress asks for in write_log() ...
LEMMA AtWriteLog ==
    ASSUME NEW p \in Proc, pc'[p] = "write_log", tail'[p] <= Len(lh'),
           Copied(lh', tail'[p], logdata', cache')
    PROVE  Progress(p)'
BY ZenonT(30) DEF Progress

\* ... before write_head() commits ...
LEMMA AtWriteHead ==
    ASSUME NEW p \in Proc, pc'[p] = "write_head", Copied(lh', Len(lh'), logdata', cache')
    PROVE  Progress(p)'
BY ZenonT(30) DEF Progress

\* ... in install_trans() of commit() ...
LEMMA AtInstall ==
    ASSUME NEW p \in Proc, pc'[p] = "install", head' = lh', tail'[p] <= Len(lh'),
           Copied(lh', Len(lh'), logdata', cache'), Copied(lh', tail'[p], logdata', disk')
    PROVE  Progress(p)'
BY ZenonT(30) DEF Progress

\* ... and of recover_from_log() ...
LEMMA AtRInstall ==
    ASSUME NEW p \in Proc, pc'[p] = "r_install", lh' = head', tail'[p] <= Len(lh'),
           Copied(lh', tail'[p], logdata', disk')
    PROVE  Progress(p)'
BY ZenonT(30) DEF Progress

\* ... before write_head() clears the log ...
LEMMA AtClear ==
    ASSUME NEW p \in Proc, pc'[p] \in {"clear", "r_clear"}, lh' = <<>>,
           Copied(head', Len(head'), logdata', disk')
    PROVE  Progress(p)'
BY ZenonT(30) DEF Progress

\* ... and after it.
LEMMA AtCommitted ==
    ASSUME NEW p \in Proc, pc'[p] = "committed", lh' = <<>>
    PROVE  Progress(p)'
BY ZenonT(30) DEF Progress

\* Both install_trans() work on the blocks that the header on disk lists.
LEMMA Installing ==
    ASSUME NEW p \in Proc, Progress(p), pc[p] \in {"install", "r_install"}
    PROVE  head = lh /\ tail[p] <= Len(lh) /\ Copied(lh, tail[p], logdata, disk)
BY ZenonT(30) DEF Progress

\* mkfs leaves an empty log.
LEMMA DataInit == Init => DataInv
<1> SUFFICES ASSUME Init PROVE DataInv
  OBVIOUS
<1>1. NoRepeat(lh) /\ NoRepeat(head) /\ Booting
  BY LogAssumption DEF Init, NoRepeat, Booting, BootLabel
<1>2. \A p \in Proc : Progress(p)
  BY ZenonT(30) DEF Init, Progress
<1> QED BY <1>1, <1>2, ZenonT(30) DEF DataInv

\* Every step keeps the header, the log and the home blocks in agreement.
LEMMA DataStep == Inv /\ [Next]_vars => DataInv'
<1> SUFFICES ASSUME Inv, [Next]_vars PROVE DataInv'
  OBVIOUS
<1>t. TypeOK /\ ControlInv /\ SpaceInv /\ DataInv /\ PinsMatchLog
  BY ZenonT(30) DEF Inv
<1>d. DOMAIN lh = 1..Len(lh) /\ Len(lh) \in Nat /\ DOMAIN head = 1..Len(head) /\ Len(head) \in Nat
  BY <1>t DEF TypeOK
<1>n. NoRepeat(lh) /\ NoRepeat(head) /\ NoRepeat(<<>>)
  BY <1>t DEF DataInv, NoRepeat
<1>q. ASSUME NEW p \in Proc, \A q \in Proc \ {p} : pc'[q] \notin Active, Progress(p)'
      PROVE  (\A q \in Proc : Progress(q))'
  BY <1>q, InactiveProgress, ZenonT(30)
\* Steps outside commit() and recover_from_log() that write nothing.
<1>s. ASSUME UNCHANGED <<lh, head, logdata, cache, disk, tail>>, SameRoles,
             \A q \in Proc : pc[q] \in Active => pc'[q] = pc[q]
      PROVE  DataInv'
  <2>1. InOp' = InOp /\ InCommit' = InCommit /\ (Booting' <=> Booting)
    BY <1>s, SameRolesFacts, ZenonT(30)
  <2>2. \A q \in Proc : pc'[q] \in Active => pc[q] = pc'[q]
    BY <1>s, ZenonT(30) DEF SameRoles, Active
  <2>3. \A q \in Proc : pc[q] \in {"install", "clear"} <=> pc'[q] \in {"install", "clear"}
    BY <1>s, <2>2, ZenonT(30) DEF Active, CommitLabel
  <2>4. ASSUME NEW q \in Proc, pc'[q] \in Active PROVE Progress(q)'
    <3>1. pc'[q] = pc[q] /\ Progress(q)
      BY <1>t, <2>2, <2>4, ZenonT(30) DEF DataInv
    <3> QED BY <1>s, <3>1, ZenonT(30) DEF Progress, Copied
  <2>5. \A q \in Proc : Progress(q)'
    BY <2>4, InactiveProgress, ZenonT(30)
  <2> QED BY <1>t, <1>s, <2>1, <2>3, <2>5, ZenonT(30) DEF DataInv
\* Steps of a committing or booting process that leave it active.
<1>c. ASSUME NEW p \in Proc, pc[p] \in Active, pc'[p] \in Active,
             \A q \in Proc \ {p} : pc'[q] = pc[q],
             NoRepeat(lh'), NoRepeat(head'), Progress(p)',
             pc'[p] \in BootLabel \/ head' = <<>> \/ pc'[p] \in {"install", "clear"}
      PROVE  DataInv'
  <2>1. \A q \in Proc \ {p} : pc'[q] \notin Active
    BY <1>t, <1>c, Alone, ZenonT(30)
  <2>2. (\A q \in Proc : Progress(q))'
    BY <1>c, <1>q, <2>1, ZenonT(30)
  <2>3. pc'[p] \in BootLabel => Booting' \/ head' = <<>>
    BY ControlStep, ZenonT(30) DEF ControlInv, Booting
  <2>4. Booting' \/ InCommit' # {}
    BY <1>c, ControlStep, ZenonT(30) DEF Active, InCommit, ControlInv, Booting
  <2> QED BY <1>c, <2>2, <2>3, <2>4, ZenonT(30) DEF DataInv
<1>1. ASSUME NEW p \in Proc, ProcStep(p) PROVE DataInv'
  <2>p. Progress(p)
    BY <1>t, ZenonT(30) DEF DataInv
  <2>1. CASE Sleeps(p)
    <3>1. SameRoles
      BY <1>t, <2>1, KeepsRoles, ZenonT(30)
    <3> QED BY <1>t, <1>s, <2>1, <3>1, ZenonT(30) DEF Sleeps, TypeOK, Active, CommitLabel, BootLabel
  <2>2. CASE Panics(p)
    <3>1. SameRoles
      BY <1>t, <2>2, KeepsRoles, ZenonT(30)
    <3> QED BY <1>t, <1>s, <2>2, <3>1, ZenonT(30) DEF Panics, TypeOK, Active, CommitLabel, BootLabel
  <2>3. CASE Begins(p)
    <3>1. ~Booting /\ \A q \in Proc : pc[q] \notin Active
      BY <1>t, <2>3, OpAlone, ZenonT(30) DEF Begins
    <3>2. \A q \in Proc : pc'[q] \notin Active
      BY <1>t, <2>3, <3>1, ZenonT(30) DEF Begins, TypeOK, Active, CommitLabel, BootLabel
    <3>3. head = <<>>
      BY <1>t, <3>1, ZenonT(30) DEF DataInv, Active, CommitLabel
    <3>4. p \in InOp'
      BY <1>t, <2>3, ZenonT(30) DEF Begins, TypeOK, InOp, OpLabel
    <3>5. lh' = lh /\ head' = head
      BY <2>3, ZenonT(30) DEF Begins
    <3> QED BY <1>n, <3>2, <3>3, <3>4, <3>5, InactiveProgress, ZenonT(30) DEF DataInv
  <2>4. ASSUME NEW b \in Block, NEW v \in Value, Absorbs(p, b, v) \/ Appends(p, b, v)
        PROVE  DataInv'
    <3>1. ~Booting /\ \A q \in Proc : pc[q] \notin Active
      BY <1>t, <2>4, OpAlone, ZenonT(30) DEF Absorbs, Appends, OpLabel
    <3>2. head = <<>>
      BY <1>t, <3>1, ZenonT(30) DEF DataInv, Active, CommitLabel
    <3>3. pc' = pc /\ head' = head /\ p \in InOp'
      BY <2>4, ZenonT(30) DEF Absorbs, Appends, InOp, OpLabel
    <3>4. NoRepeat(lh')
      <4>1. lh' = lh \/ (lh' = Append(lh, b) /\ b \notin Range(lh))
        BY <2>4, ZenonT(30) DEF Absorbs, Appends
      <4>2. lh \in Seq(Block)
        BY <1>t, ZenonT(30) DEF TypeOK
      <4> QED BY <1>n, <4>1, <4>2, AppendFacts, ZenonT(30)
    <3> QED BY <1>n, <3>1, <3>2, <3>3, <3>4, InactiveProgress, ZenonT(30) DEF DataInv
  <2>5. CASE EndsLast(p)
    <3>1. ~Booting /\ \A q \in Proc : pc[q] \notin Active
      BY <1>t, <2>5, OpAlone, ZenonT(30) DEF EndsLast, OpLabel
    <3>2. head = <<>>
      BY <1>t, <3>1, ZenonT(30) DEF DataInv, Active, CommitLabel
    <3>3. pc'[p] = "commit" /\ \A q \in Proc \ {p} : pc'[q] = pc[q]
      BY <1>t, <2>5, ZenonT(30) DEF EndsLast, TypeOK
    <3>4. Progress(p)' /\ p \in InCommit'
      BY <3>3, ZenonT(30) DEF Progress, InCommit, CommitLabel
    <3>5. (\A q \in Proc : Progress(q))'
      BY <1>q, <3>1, <3>3, <3>4, ZenonT(30)
    <3>6. lh' = lh /\ head' = head
      BY <2>5, ZenonT(30) DEF EndsLast
    <3> QED BY <1>n, <3>2, <3>4, <3>5, <3>6, ZenonT(30) DEF DataInv
  <2>6. CASE Ends(p)
    <3>1. ~Booting /\ \A q \in Proc : pc[q] \notin Active
      BY <1>t, <2>6, OpAlone, ZenonT(30) DEF Ends, OpLabel
    <3>2. head = <<>>
      BY <1>t, <3>1, ZenonT(30) DEF DataInv, Active, CommitLabel
    <3>3. /\ pc'[p] = "idle"
          /\ \A q \in Proc \ {p} :
                pc'[q] = pc[q] \/ (pc[q] = "asleep" /\ pc'[q] = "woken")
      BY <1>t, <2>6, WakesSleepers, ZenonT(30) DEF Ends
    <3>4. \A q \in Proc : pc'[q] \notin Active
      BY <3>1, <3>3, ZenonT(30) DEF Active, CommitLabel, BootLabel
    <3>5. lh' = lh /\ head' = head /\ outstanding' = outstanding - 1 /\ outstanding # 1
      BY <2>6, ZenonT(30) DEF Ends
    <3>6. Cardinality(InOp') # 0
      BY <1>t, <3>5, ControlStep DEF ControlInv, TypeOK
    <3>7. InOp' # {}
      BY <3>6, FS_EmptySet, ZenonT(30)
    <3> QED BY <1>n, <3>2, <3>4, <3>5, <3>7, InactiveProgress, ZenonT(30) DEF DataInv
  <2>7. CASE EndsCommit(p)
    <3>1. lh = <<>>
      BY <2>p, <2>7, ZenonT(30) DEF EndsCommit, Progress
    <3>2. \A q \in Proc \ {p} : pc[q] \notin Active
      BY <1>t, <2>7, Alone, ZenonT(30) DEF EndsCommit, Active, CommitLabel
    <3>3. ~Booting
      BY <2>7, <3>2, LogAssumption, ZenonT(30) DEF EndsCommit, Booting, Active, BootLabel
    <3>4. head = <<>>
      BY <1>t, <2>7, <3>2, <3>3, ZenonT(30) DEF EndsCommit, DataInv, Active, CommitLabel
    <3>5. /\ pc'[p] = "idle"
          /\ \A q \in Proc \ {p} :
                pc'[q] = pc[q] \/ (pc[q] = "asleep" /\ pc'[q] = "woken")
      BY <1>t, <2>7, WakesSleepers, ZenonT(30) DEF EndsCommit
    <3>6. \A q \in Proc : pc'[q] \notin Active
      BY <3>2, <3>5, ZenonT(30) DEF Active, CommitLabel, BootLabel
    <3>7. lh' = lh /\ head' = head
      BY <2>7, ZenonT(30) DEF EndsCommit
    <3> QED BY <1>n, <3>1, <3>4, <3>6, <3>7, InactiveProgress, ZenonT(30) DEF DataInv
  <2>8. CASE EndsBoot(p)
    <3>1. lh = <<>>
      BY <2>p, <2>8, ZenonT(30) DEF EndsBoot, Progress
    <3>2. \A q \in Proc : pc'[q] \notin Active
      BY <2>8, ZenonT(30) DEF EndsBoot, Active, CommitLabel, BootLabel
    <3>3. lh' = lh /\ head' = lh
      BY <2>8, ZenonT(30) DEF EndsBoot
    <3> QED BY <1>n, <3>1, <3>2, <3>3, InactiveProgress, ZenonT(30) DEF DataInv
  <2>9. CASE Commits(p)
    <3>1. pc[p] \in Active /\ \A q \in Proc \ {p} : pc[q] \notin Active
      BY <1>t, <2>9, Alone, ZenonT(30) DEF Commits, Active, CommitLabel
    <3>2. head = <<>>
      <4>1. ~Booting
        BY <2>9, <3>1, LogAssumption, ZenonT(30) DEF Commits, Booting, Active, BootLabel
      <4> QED BY <1>t, <2>9, <3>1, <4>1, ZenonT(30) DEF Commits, DataInv, Active, CommitLabel
    <3>3. /\ pc'[p] = "write_log" \/ (pc'[p] = "committed" /\ lh = <<>>)
          /\ \A q \in Proc \ {p} : pc'[q] = pc[q]
          /\ tail'[p] = 0
      BY <1>t, <1>d, <2>9 DEF Commits, TypeOK
    <3>4. lh' = lh /\ head' = head
      BY <2>9, ZenonT(30) DEF Commits
    <3>5. Progress(p)'
      <4>1. Copied(lh', 0, logdata', cache')
        BY DEF Copied
      <4> QED BY <1>d, <3>3, <3>4, <4>1, AtWriteLog, AtCommitted
    <3> QED BY <1>c, <1>n, <3>1, <3>2, <3>3, <3>4, <3>5, ZenonT(30) DEF Active, CommitLabel
  <2>10. CASE LogsBlock(p)
    <3>1. pc[p] \in Active /\ \A q \in Proc \ {p} : pc[q] \notin Active
      BY <1>t, <2>10, Alone, ZenonT(30) DEF LogsBlock, Active, CommitLabel
    <3>2. head = <<>>
      <4>1. ~Booting
        BY <2>10, <3>1, LogAssumption, ZenonT(30) DEF LogsBlock, Booting, Active, BootLabel
      <4> QED BY <1>t, <2>10, <3>1, <4>1, ZenonT(30) DEF LogsBlock, DataInv, Active, CommitLabel
    <3>3. lh' = lh /\ head' = head /\ pc' = pc /\ cache' = cache /\ pc[p] = "write_log"
      BY <2>10, ZenonT(30) DEF LogsBlock
    <3>4. /\ tail[p] \in Nat /\ tail[p] < Len(lh) /\ tail'[p] = tail[p] + 1
          /\ tail[p] + 1 \in Slot
      BY <1>t, <1>d, <2>10, LogAssumption DEF LogsBlock, TypeOK, SpaceInv, Slot
    <3>5. /\ \A i \in 1..tail[p] : logdata'[i] = logdata[i]
          /\ logdata'[tail[p] + 1] = cache[lh[tail[p] + 1]]
      BY <1>t, <2>10, <3>4 DEF LogsBlock, TypeOK, Slot
    <3>6. Copied(lh, tail[p], logdata, cache)
      BY <2>p, <3>3, ZenonT(30) DEF Progress
    <3>7. Copied(lh', tail'[p], logdata', cache')
      BY <3>3, <3>4, <3>5, <3>6 DEF Copied
    <3>8. Progress(p)'
      BY <1>d, <3>3, <3>4, <3>7, AtWriteLog
    <3> QED BY <1>c, <1>n, <3>1, <3>2, <3>3, <3>8, ZenonT(30)
  <2>11. CASE LoggedAll(p)
    <3>1. pc[p] \in Active /\ \A q \in Proc \ {p} : pc[q] \notin Active
      BY <1>t, <2>11, Alone, ZenonT(30) DEF LoggedAll, Active, CommitLabel
    <3>2. head = <<>>
      <4>1. ~Booting
        BY <2>11, <3>1, LogAssumption, ZenonT(30) DEF LoggedAll, Booting, Active, BootLabel
      <4> QED BY <1>t, <2>11, <3>1, <4>1, ZenonT(30) DEF LoggedAll, DataInv, Active, CommitLabel
    <3>3. /\ pc'[p] = "write_head" /\ \A q \in Proc \ {p} : pc'[q] = pc[q]
      BY <1>t, <2>11, ZenonT(30) DEF LoggedAll, TypeOK
    <3>4. UNCHANGED <<lh, head, logdata, cache>> /\ pc[p] = "write_log" /\ ~(tail[p] < Len(lh))
      BY <2>11, ZenonT(30) DEF LoggedAll
    <3>5. tail[p] = Len(lh) /\ Copied(lh, tail[p], logdata, cache)
      BY <1>t, <1>d, <2>p, <3>4 DEF Progress, TypeOK
    <3>6. Progress(p)'
      BY <3>3, <3>4, <3>5, AtWriteHead, ZenonT(30)
    <3> QED BY <1>c, <1>n, <3>1, <3>2, <3>3, <3>4, <3>6, ZenonT(30) DEF Active, CommitLabel
  <2>12. CASE WritesHead(p)
    <3>1. /\ pc'[p] = "install" /\ \A q \in Proc \ {p} : pc'[q] = pc[q]
          /\ tail'[p] = 0
      BY <1>t, <2>12, ZenonT(30) DEF WritesHead, TypeOK
    <3>2. UNCHANGED <<lh, logdata, cache>> /\ head' = lh /\ pc[p] = "write_head"
      BY <2>12, ZenonT(30) DEF WritesHead
    <3>3. Copied(lh, Len(lh), logdata, cache)
      BY <2>p, <3>2, ZenonT(30) DEF Progress
    <3>4. Copied(lh', tail'[p], logdata', disk')
      BY <3>1 DEF Copied
    <3>5. Progress(p)'
      BY <1>d, <3>1, <3>2, <3>3, <3>4, AtInstall
    <3> QED BY <1>c, <1>n, <3>1, <3>2, <3>5, ZenonT(30) DEF Active, CommitLabel
  <2>13. CASE ClearsHead(p)
    <3>1. /\ pc'[p] = "committed" /\ \A q \in Proc \ {p} : pc'[q] = pc[q]
      BY <1>t, <2>13, ZenonT(30) DEF ClearsHead, TypeOK
    <3>2. lh' = lh /\ head' = lh /\ pc[p] = "clear" /\ lh = <<>>
      BY <2>p, <2>13, ZenonT(30) DEF ClearsHead, Progress
    <3>3. Progress(p)'
      BY <3>1, <3>2, AtCommitted, ZenonT(30)
    <3> QED BY <1>c, <1>n, <3>1, <3>2, <3>3, ZenonT(30) DEF Active, CommitLabel
  <2>14. CASE InstallsBlock(p)
    <3> DEFINE k == tail[p] + 1
    <3>1. /\ tail[p] \in Nat /\ k \in 1..Len(lh) /\ tail'[p] = k /\ lh[k] \in Block
          /\ pc[p] \in {"install", "r_install"}
          /\ \A i \in 1..Len(lh) : lh[i] \in Block
      BY <1>t, <1>d, <2>14 DEF InstallsBlock, TypeOK
    <3>2. UNCHANGED <<lh, head, logdata, pc>>
      BY <2>14, ZenonT(30) DEF InstallsBlock
    <3>3. \A b \in Block : /\ cache'[b] = IF b = lh[k] THEN logdata[k] ELSE cache[b]
                           /\ disk'[b] = IF b = lh[k] THEN logdata[k] ELSE disk[b]
      BY <1>t, <2>14, ZenonT(30) DEF InstallsBlock, TypeOK
    <3>4. \A i \in 1..Len(lh) : lh[i] = lh[k] => i = k
      BY <1>n, <1>d, <3>1 DEF NoRepeat
    <3>5. head = lh /\ tail[p] <= Len(lh) /\ Copied(lh, tail[p], logdata, disk)
      BY <2>p, <3>1, Installing, ZenonT(30)
    <3>6. Copied(lh, k, logdata, disk')
      BY <1>d, <3>1, <3>3, <3>4, <3>5 DEF Copied
    <3>7. ASSUME pc[p] = "install" PROVE Copied(lh, Len(lh), logdata, cache')
      <4>1. Copied(lh, Len(lh), logdata, cache)
        BY <2>p, <3>7, ZenonT(30) DEF Progress
      <4> QED BY <1>d, <3>1, <3>3, <3>4, <4>1, ZenonT(30) DEF Copied
    <3>8. Progress(p)'
      BY <1>d, <3>1, <3>2, <3>5, <3>6, <3>7, AtInstall, AtRInstall
    <3> QED BY <1>c, <1>n, <3>1, <3>2, <3>8, ZenonT(30) DEF Active, CommitLabel, BootLabel
  <2>15. CASE InstalledAll(p)
    <3>1. /\ \/ pc[p] = "install" /\ pc'[p] = "clear"
             \/ pc[p] = "r_install" /\ pc'[p] = "r_clear"
          /\ \A q \in Proc \ {p} : pc'[q] = pc[q]
      BY <1>t, <2>15, ZenonT(30) DEF InstalledAll, TypeOK
    <3>2. UNCHANGED <<head, logdata, disk>> /\ lh' = <<>> /\ ~(tail[p] < Len(lh))
      BY <2>15, ZenonT(30) DEF InstalledAll
    <3>3. head = lh /\ tail[p] = Len(lh) /\ Copied(lh, tail[p], logdata, disk)
      <4>1. head = lh /\ tail[p] <= Len(lh) /\ Copied(lh, tail[p], logdata, disk)
        BY <2>p, <3>1, Installing, ZenonT(30)
      <4>2. tail[p] \in Nat
        BY <1>t, ZenonT(30) DEF TypeOK
      <4> QED BY <1>d, <3>2, <4>1, <4>2
    <3>4. Progress(p)'
      BY <3>1, <3>2, <3>3, AtClear, ZenonT(30)
    <3> QED BY <1>c, <1>n, <3>1, <3>2, <3>4, ZenonT(30) DEF Active, CommitLabel, BootLabel
  <2>16. CASE ReadsHead(p)
    <3>1. /\ pc[p] = "read_head" /\ pc'[p] = "r_install" /\ tail'[p] = 0
          /\ \A q \in Proc \ {p} : pc'[q] = pc[q]
      BY <1>t, <2>16, ZenonT(30) DEF ReadsHead, TypeOK
    <3>2. head' = head /\ lh' = head
      BY <2>16, ZenonT(30) DEF ReadsHead
    <3>3. Copied(lh', tail'[p], logdata', disk')
      BY <3>1 DEF Copied
    <3>4. Progress(p)'
      BY <1>d, <3>1, <3>2, <3>3, AtRInstall
    <3> QED BY <1>c, <1>n, <3>1, <3>2, <3>4, ZenonT(30) DEF Active, CommitLabel, BootLabel
  <2> QED BY <1>1, <2>1, <2>2, <2>3, <2>4, <2>5, <2>6, <2>7, <2>8, <2>9, <2>10, <2>11, <2>12,
             <2>13, <2>14, <2>15, <2>16, ZenonT(30) DEF ProcStep
<1>2. ASSUME NEW b \in Block, Recycles(b) PROVE DataInv'
  BY <1>t, <1>s, <1>2, RecycleStutters, ZenonT(30) DEF vars, SameRoles
<1>3. CASE Crash
  <2>1. Booting' /\ lh' = <<>> /\ head' = head
    BY <1>3, LogAssumption, ZenonT(30) DEF Crash, Booting, BootLabel
  <2>2. \A q \in Proc : Progress(q)'
    BY <1>3, ZenonT(30) DEF Crash, Progress
  <2> QED BY <1>n, <2>1, <2>2, ZenonT(30) DEF DataInv
<1>4. CASE UNCHANGED vars
  BY <1>s, <1>4, ZenonT(30) DEF vars, SameRoles
<1> QED BY <1>1, <1>2, <1>3, <1>4, Steps, ZenonT(30)
-----------------------------------------------------------------------------
(* Pins: the buffers that install_trans() still has to write are held.     *)

\* Before install_trans() starts, the pinned buffers are those in the header.
LEMMA PinnedLogged ==
    ASSUME lh \in Seq(Block), ~Booting, \A q \in Proc : pc[q] # "install"
    PROVE  Pinned = Range(lh)
BY DEF Pinned, Range

\* Nothing is pinned at boot.
LEMMA PinInit == Init => PinsMatchLog
<1> SUFFICES ASSUME Init PROVE PinsMatchLog
  OBVIOUS
<1>1. Pinned = {}
  BY DEF Init, Pinned
<1> QED BY <1>1, ZenonT(30) DEF Init, PinsMatchLog

\* Sleeping and most steps of commit() leave the header, the buffers and the
\* home blocks alone, and no install_trans() begins or ends.
LEMMA QuietStep ==
    ASSUME TypeOK, NEW p \in Proc,
           Sleeps(p) \/ Panics(p) \/ Commits(p) \/ LogsBlock(p) \/ LoggedAll(p) \/ ClearsHead(p)
    PROVE  /\ UNCHANGED <<lh, pin, cache, disk>>
           /\ pc[p] # "install" /\ pc'[p] # "install"
           /\ \A q \in Proc \ {p} : pc'[q] = pc[q] /\ tail'[q] = tail[q]
<1>t. pc \in [Proc -> Label] /\ tail \in [Proc -> Nat]
  BY ZenonT(30) DEF TypeOK
<1>1. CASE Sleeps(p)
  BY <1>t, <1>1, ZenonT(30) DEF Sleeps
<1>2. CASE Panics(p)
  BY <1>t, <1>2, ZenonT(30) DEF Panics
<1>3. CASE Commits(p)
  BY <1>t, <1>3, ZenonT(30) DEF Commits
<1>4. CASE LogsBlock(p)
  BY <1>t, <1>4, ZenonT(30) DEF LogsBlock
<1>5. CASE LoggedAll(p)
  BY <1>t, <1>5, ZenonT(30) DEF LoggedAll
<1>6. CASE ClearsHead(p)
  BY <1>t, <1>6, ZenonT(30) DEF ClearsHead
<1> QED BY <1>1, <1>2, <1>3, <1>4, <1>5, <1>6, ZenonT(30)

\* bpin() and bunpin() follow the header in every step.
LEMMA PinStep == Inv /\ [Next]_vars => PinsMatchLog'
<1> SUFFICES ASSUME Inv, [Next]_vars PROVE PinsMatchLog'
  OBVIOUS
<1>t. TypeOK /\ ControlInv /\ SpaceInv /\ DataInv /\ PinsMatchLog
  BY ZenonT(30) DEF Inv
<1>d. DOMAIN lh = 1..Len(lh) /\ Len(lh) \in Nat /\ \A i \in 1..Len(lh) : lh[i] \in Block
  BY <1>t DEF TypeOK
<1>m. ASSUME Pinned' = Pinned, UNCHANGED <<pin, cache, disk>> PROVE PinsMatchLog'
  BY <1>t, <1>m, ZenonT(30) DEF PinsMatchLog
\* Steps that leave the header alone and do not concern install_trans().
<1>s. ASSUME UNCHANGED <<lh, pin, cache, disk>>, Booting' <=> Booting,
             \A q \in Proc : /\ pc'[q] = "install" <=> pc[q] = "install"
                             /\ pc[q] = "install" => tail'[q] = tail[q]
      PROVE  PinsMatchLog'
  <2>1. Pinned' = Pinned
    BY <1>s, ZenonT(30) DEF Pinned
  <2> QED BY <1>m, <1>s, <2>1, ZenonT(30)
<1>1. ASSUME NEW p \in Proc, ProcStep(p) PROVE PinsMatchLog'
  <2>b. pc[p] \in BootLabel => Booting
    BY <1>t, ZenonT(30) DEF ControlInv, Booting
  <2>1. CASE Sleeps(p) \/ Panics(p) \/ Commits(p) \/ LogsBlock(p) \/ LoggedAll(p) \/ ClearsHead(p)
    <3>1. Booting' <=> Booting
      BY <1>t, <2>1, KeepsRoles, SameRolesFacts, ZenonT(30)
    <3>2. /\ UNCHANGED <<lh, pin, cache, disk>>
          /\ pc[p] # "install" /\ pc'[p] # "install"
          /\ \A q \in Proc \ {p} : pc'[q] = pc[q] /\ tail'[q] = tail[q]
      BY <1>t, <2>1, QuietStep, ZenonT(30)
    <3> QED BY <1>s, <3>1, <3>2, ZenonT(30)
  <2>2. CASE Begins(p) \/ EndsLast(p)
    <3>1. Booting' <=> Booting
      BY <1>t, <2>2, LogAssumption, ZenonT(30) DEF Begins, EndsLast, TypeOK, Booting, BootLabel
    <3>2. UNCHANGED <<lh, pin, cache, disk>>
      BY <2>2, ZenonT(30) DEF Begins, EndsLast
    <3>3. /\ pc[p] # "install" /\ pc'[p] # "install"
          /\ \A q \in Proc \ {p} : pc'[q] = pc[q] /\ tail'[q] = tail[q]
      BY <1>t, <2>2, ZenonT(30) DEF Begins, EndsLast, TypeOK
    <3> QED BY <1>s, <3>1, <3>2, <3>3, ZenonT(30)
  <2>3. CASE Ends(p) \/ EndsCommit(p)
    <3>1. pc[p] # "install" /\ pc[p] \notin BootLabel
      BY <2>3, ZenonT(30) DEF Ends, EndsCommit, BootLabel
    <3>2. UNCHANGED <<lh, pin, cache, disk, tail>>
      BY <2>3, ZenonT(30) DEF Ends, EndsCommit
    <3>3. /\ pc'[p] = "idle"
          /\ \A q \in Proc \ {p} :
                pc'[q] = pc[q] \/ (pc[q] = "asleep" /\ pc'[q] = "woken")
      BY <1>t, <2>3, WakesSleepers, ZenonT(30) DEF Ends, EndsCommit
    <3>4. Booting' <=> Booting
      BY <3>1, <3>3, LogAssumption, ZenonT(30) DEF Booting, BootLabel
    <3> QED BY <1>s, <3>1, <3>2, <3>3, <3>4, ZenonT(30)
  <2>4. CASE WritesHead(p)
    <3>1. Booting' <=> Booting
      BY <1>t, <2>4, KeepsRoles, SameRolesFacts, ZenonT(30)
    <3>2. \A q \in Proc : pc[q] # "install"
      BY <1>t, <2>4, Alone, ZenonT(30) DEF WritesHead, Active, CommitLabel
    <3>3. \A q \in Proc : pc'[q] = "install" => tail'[q] = 0
      BY <1>t, <2>4, <3>2, ZenonT(30) DEF WritesHead, TypeOK
    <3>4. UNCHANGED <<lh, pin, cache, disk>>
      BY <2>4, ZenonT(30) DEF WritesHead
    <3>5. Pinned' = Pinned
      BY <1>d, <3>1, <3>2, <3>3, <3>4 DEF Pinned
    <3> QED BY <1>m, <3>4, <3>5, ZenonT(30)
  <2>5. CASE EndsBoot(p)
    <3>1. lh = <<>> /\ Booting
      BY <1>t, <2>5, <2>b, ZenonT(30) DEF EndsBoot, DataInv, Progress, BootLabel
    <3>2. UNCHANGED <<lh, pin, cache, disk>>
      BY <2>5, ZenonT(30) DEF EndsBoot
    <3>3. Pinned' = {} /\ Pinned = {}
      BY <3>1, <3>2 DEF Pinned
    <3> QED BY <1>m, <3>2, <3>3, ZenonT(30)
  <2>6. CASE ReadsHead(p)
    <3>1. Booting
      BY <2>6, <2>b, ZenonT(30) DEF ReadsHead, BootLabel
    <3>2. Booting'
      BY <1>t, <2>6, <3>1, KeepsRoles, SameRolesFacts, ZenonT(30)
    <3>3. Pinned' = {} /\ Pinned = {}
      BY <3>1, <3>2, ZenonT(30) DEF Pinned
    <3> QED BY <1>m, <2>6, <3>3, ZenonT(30) DEF ReadsHead
  <2>7. CASE InstalledAll(p)
    <3>1. lh' = <<>> /\ UNCHANGED <<pin, cache, disk>>
      BY <2>7, ZenonT(30) DEF InstalledAll
    <3>2. Pinned' = {}
      BY <3>1 DEF Pinned
    <3>3. tail[p] = Len(lh) /\ (pc[p] = "install" \/ Booting)
      BY <1>t, <1>d, <2>7, <2>b DEF InstalledAll, DataInv, Progress, TypeOK, BootLabel
    <3>4. Pinned = {}
      BY <1>d, <3>3 DEF Pinned
    <3> QED BY <1>m, <3>1, <3>2, <3>4, ZenonT(30)
  <2>8. CASE InstallsBlock(p)
    <3> DEFINE k == tail[p] + 1
    <3>1. k \in 1..Len(lh) /\ lh[k] \in Block /\ tail[p] \in Nat /\ tail'[p] = k
      BY <1>t, <1>d, <2>8 DEF InstallsBlock, TypeOK
    <3>2. \A b \in Block : /\ b # lh[k] => cache'[b] = cache[b] /\ disk'[b] = disk[b] /\ pin'[b] = pin[b]
                           /\ b = lh[k] => /\ cache'[b] = disk'[b]
                                           /\ pin'[b] = pin[b] - (IF pc[p] = "install" THEN 1 ELSE 0)
      BY <1>t, <2>8, ZenonT(30) DEF InstallsBlock, TypeOK
    <3>3. lh' = lh /\ pc' = pc
      BY <2>8, ZenonT(30) DEF InstallsBlock
    <3>4. CASE pc[p] = "install"
      <4>1. ~Booting /\ \A q \in Proc \ {p} : pc[q] # "install"
        BY <1>t, <3>4, Alone, LogAssumption, ZenonT(30) DEF Active, CommitLabel, Booting, BootLabel
      <4>2. \A i \in 1..Len(lh) : lh[i] = lh[k] => i = k
        BY <1>t, <1>d, <3>1, ZenonT(30) DEF DataInv, NoRepeat
      <4>3. Pinned = {b \in Block : \E i \in 1..Len(lh) : lh[i] = b /\ tail[p] < i}
        BY <1>d, <3>4, <4>1, ZenonT(30) DEF Pinned
      <4>4. Pinned' = {b \in Block : \E i \in 1..Len(lh) : lh[i] = b /\ k < i}
        BY <1>d, <3>1, <3>3, <3>4, <4>1, ZenonT(30) DEF Pinned, Booting
      <4>5. lh[k] \in Pinned /\ lh[k] \notin Pinned'
        BY <3>1, <4>2, <4>3, <4>4
      <4>6. \A b \in Block : b # lh[k] => (b \in Pinned <=> b \in Pinned')
        BY <3>1, <4>3, <4>4
      <4> QED BY <1>t, <3>1, <3>2, <3>4, <4>5, <4>6 DEF PinsMatchLog
    <3>5. CASE pc[p] = "r_install"
      <4>1. Booting /\ Booting'
        BY <2>b, <3>3, <3>5, ZenonT(30) DEF BootLabel, Booting
      <4>2. Pinned = {} /\ Pinned' = {}
        BY <4>1, ZenonT(30) DEF Pinned
      <4>3. \A b \in Block : pin'[b] = 0
        BY <1>t, <3>2, <3>5, <4>2 DEF PinsMatchLog
      <4>4. \A b \in Block : cache'[b] = disk'[b]
        BY <1>t, <3>2, <4>2, ZenonT(30) DEF PinsMatchLog
      <4> QED BY <4>2, <4>3, <4>4, ZenonT(30) DEF PinsMatchLog
    <3> QED BY <2>8, <3>4, <3>5, ZenonT(30) DEF InstallsBlock
  <2>9. ASSUME NEW b \in Block, NEW v \in Value, Absorbs(p, b, v) \/ Appends(p, b, v)
        PROVE  PinsMatchLog'
    <3>1. ~Booting /\ \A q \in Proc : pc[q] # "install"
      BY <1>t, <2>9, OpAlone, ZenonT(30) DEF Absorbs, Appends, OpLabel, Active, CommitLabel
    <3>2. pc' = pc /\ ~Booting' /\ disk' = disk
      BY <2>9, <3>1, ZenonT(30) DEF Absorbs, Appends, Booting
    <3>3. Pinned = Range(lh) /\ lh \in Seq(Block)
      BY <1>t, <3>1, PinnedLogged, ZenonT(30) DEF TypeOK
    <3>4. lh' \in Seq(Block)
      BY TypeStep, ZenonT(30) DEF TypeOK
    <3>5. Pinned' = Range(lh')
      BY <3>1, <3>2, <3>4 DEF Pinned, Range
    <3>6. \A c \in Block : c # b => cache'[c] = cache[c]
      BY <1>t, <2>9, ZenonT(30) DEF Absorbs, Appends, TypeOK
    <3>7. CASE Absorbs(p, b, v)
      <4>1. b \in Range(lh) /\ lh' = lh /\ pin' = pin
        BY <3>7, ZenonT(30) DEF Absorbs
      <4> QED BY <1>t, <3>2, <3>3, <3>5, <3>6, <4>1, ZenonT(30) DEF PinsMatchLog
    <3>8. CASE Appends(p, b, v)
      <4>1. b \notin Range(lh) /\ Range(lh') = Range(lh) \cup {b}
        BY <3>3, <3>8, AppendFacts, ZenonT(30) DEF Appends
      <4>2. pin'[b] = pin[b] + 1 /\ \A c \in Block : c # b => pin'[c] = pin[c]
        BY <1>t, <3>8, ZenonT(30) DEF Appends, TypeOK
      <4>3. pin[b] = 0
        BY <1>t, <3>3, <4>1, ZenonT(30) DEF PinsMatchLog
      <4> QED BY <1>t, <3>2, <3>3, <3>5, <3>6, <4>1, <4>2, <4>3 DEF PinsMatchLog
    <3> QED BY <2>9, <3>7, <3>8, ZenonT(30)
  <2> QED BY <1>1, <2>1, <2>2, <2>3, <2>4, <2>5, <2>6, <2>7, <2>8, <2>9, ZenonT(30) DEF ProcStep
<1>2. ASSUME NEW b \in Block, Recycles(b) PROVE PinsMatchLog'
  BY <1>t, <1>s, <1>2, RecycleStutters, ZenonT(30) DEF vars, Booting
<1>3. CASE Crash
  <2>1. Booting'
    BY <1>3, LogAssumption, ZenonT(30) DEF Crash, Booting, BootLabel
  <2>2. Pinned' = {}
    BY <2>1, ZenonT(30) DEF Pinned
  <2> QED BY <1>3, <2>2, ZenonT(30) DEF Crash, PinsMatchLog
<1>4. CASE UNCHANGED vars
  BY <1>s, <1>4, ZenonT(30) DEF vars, Booting
<1> QED BY <1>1, <1>2, <1>3, <1>4, Steps, ZenonT(30)
-----------------------------------------------------------------------------
(* The theorems.                                                           *)

\* Inv holds in every reachable state: the in-memory header, the pins, the
\* progress of commit() and of recover_from_log() and the disk agree.
THEOREM InvHolds == Spec => []Inv
<1>1. Init => Inv
  BY TypeInit, ControlInit, SpaceInit, DataInit, PinInit, ZenonT(30) DEF Inv
<1>2. Inv /\ [Next]_vars => Inv'
  BY TypeStep, ControlStep, SpaceStep, DataStep, PinStep, ZenonT(30) DEF Inv
<1> QED BY <1>1, <1>2, PTL DEF Spec

\* The variables of the log always have their types; in particular the index
\* of write_log() and install_trans() stays within the on-disk log.
THEOREM TypeCorrect == Spec => []TypeOK
<1>1. Inv => TypeOK
  BY ZenonT(30) DEF Inv
<1> QED BY <1>1, InvHolds, PTL

\* end_op() never finds log.committing set, log_write() is never called
\* outside a transaction, and at most one process runs commit(), with no
\* operation beside it.
THEOREM CommitIsAlone == Spec => []CommitAlone
<1>1. Inv => CommitAlone
  <2> SUFFICES ASSUME Inv PROVE CommitAlone
    OBVIOUS
  <2>1. ControlInv
    BY ZenonT(30) DEF Inv
  <2>2. ASSUME committing = 1 PROVE outstanding = 0 /\ Cardinality(InCommit) = 1
    <3>1. outstanding = 0
      BY <2>1, <2>2, FS_EmptySet, ZenonT(30) DEF ControlInv
    <3>2. PICK p \in InCommit : TRUE
      BY <2>1, <2>2, ZenonT(30) DEF ControlInv
    <3>3. InCommit = {p}
      BY <2>1, <3>2, ZenonT(30) DEF ControlInv
    <3> QED BY <3>1, <3>3, FS_Singleton, ZenonT(30)
  <2> QED BY <2>1, <2>2, ZenonT(30) DEF CommitAlone, ControlInv
<1> QED BY <1>1, InvHolds, PTL

\* The admission test of begin_op() keeps room in the header for every block
\* that the admitted operations may still log.
THEOREM SpaceIsKept == Spec => []LogSpace
<1>1. Inv => LogSpace
  BY ZenonT(30) DEF Inv, SpaceInv
<1> QED BY <1>1, InvHolds, PTL

\* Exactly the logged and not yet installed blocks are pinned in the buffer
\* cache, each once; every other buffer holds what is on the disk.
THEOREM PinsAreRight == Spec => []PinsMatchLog
<1>1. Inv => PinsMatchLog
  BY ZenonT(30) DEF Inv
<1> QED BY <1>1, InvHolds, PTL

\* When no operation runs and no commit is under way, everything written is
\* at its home location on the disk and the log is empty.
THEOREM QuiescentIsDurable == Spec => []QuiescentDurable
<1>1. Inv => QuiescentDurable
  <2> SUFFICES ASSUME Inv, outstanding = 0, committing = 0, ~Booting
               PROVE  lh = <<>> /\ head = <<>> /\ disk = cache
    BY ZenonT(30) DEF QuiescentDurable
  <2>1. TypeOK /\ ControlInv /\ DataInv /\ PinsMatchLog
    BY ZenonT(30) DEF Inv
  <2>2. InOp = {} /\ InCommit = {}
    BY <2>1, InOpFinite, FS_EmptySet DEF ControlInv
  <2>3. lh = <<>> /\ head = <<>>
    BY <2>1, <2>2, ZenonT(30) DEF DataInv, InCommit, CommitLabel
  <2>4. \A b \in Block : cache[b] = disk[b]
    BY <2>1, <2>3 DEF PinsMatchLog, Pinned
  <2>5. disk = cache
    BY <2>1, <2>4 DEF TypeOK
  <2> QED BY <2>3, <2>5, ZenonT(30)
<1> QED BY <1>1, InvHolds, PTL

-----------------------------------------------------------------------------
(* The log implements TxDisk.  Each way through an action of Log is one    *)
(* step of TxDisk or none: begin_op() is Begin, log_write() is Write,      *)
(* end_op() is End, the write_head() of commit() is Commit, a crash is     *)
(* Crash, and everything else is invisible.                                *)

\* What TxDisk calls mem, and one step of TxDisk or none.
Mem == IF Booting THEN Recovered ELSE cache
TxStep == Tx!Next \/ UNCHANGED Tx!vars

-----------------------------------------------------------------------------
(* What recover_from_log() would restore.                                  *)

\* An entry of the header stands for its data block, because no block occurs
\* twice in the header.
LEMMA RecoveredLogged ==
    ASSUME NEW h \in Seq(Block), NoRepeat(h), NEW l, NEW d, NEW i \in 1..Len(h)
    PROVE  RecoveredFrom(h, l, d)[h[i]] = l[i]
<1>1. h[i] \in Block /\ h[i] \in Range(h) /\ i \in DOMAIN h /\ DOMAIN h = 1..Len(h)
  BY DEF Range
<1>2. \A j \in DOMAIN h : h[j] = h[i] => j = i
  BY <1>1, ZenonT(30) DEF NoRepeat
<1>3. (CHOOSE j \in DOMAIN h : h[j] = h[i]) = i
  BY <1>1, <1>2, ZenonT(30)
<1> QED BY <1>1, <1>3, ZenonT(30) DEF RecoveredFrom

LEMMA RecoveredOther ==
    ASSUME NEW h \in Seq(Block), NEW l, NEW d, NEW b \in Block, b \notin Range(h)
    PROVE  RecoveredFrom(h, l, d)[b] = d[b]
BY ZenonT(30) DEF RecoveredFrom

\* A block's recovered contents are f's if the log or, failing that, the home
\* location holds f's.
LEMMA RecoveredIs ==
    ASSUME NEW h \in Seq(Block), NoRepeat(h), NEW l, NEW d,
           NEW f \in [Block -> Value],
           Copied(h, Len(h), l, f),
           \A b \in Block : b \notin Range(h) => d[b] = f[b]
    PROVE  RecoveredFrom(h, l, d) = f
<1>1. ASSUME NEW b \in Block PROVE RecoveredFrom(h, l, d)[b] = f[b]
  <2>1. CASE b \in Range(h)
    <3>1. PICK i \in 1..Len(h) : h[i] = b
      BY <2>1 DEF Range
    <3>2. f[h[i]] = l[i]
      BY ZenonT(30) DEF Copied
    <3> QED BY <3>1, <3>2, RecoveredLogged
  <2>2. CASE b \notin Range(h)
    BY <2>2, RecoveredOther
  <2> QED BY <2>1, <2>2, ZenonT(30)
<1>2. RecoveredFrom(h, l, d) = [b \in Block |-> RecoveredFrom(h, l, d)[b]]
  BY DEF RecoveredFrom
<1>3. f = [b \in Block |-> f[b]]
  OBVIOUS
<1> QED BY <1>1, <1>2, <1>3, ZenonT(30)

\* With an empty header the home blocks stay as they are.
LEMMA RecoveredEmpty ==
    ASSUME NEW l, NEW d \in [Block -> Value]
    PROVE  RecoveredFrom(<<>>, l, d) = d
<1>1. <<>> \in Seq(Block) /\ NoRepeat(<<>>) /\ Copied(<<>>, Len(<<>>), l, d)
  BY DEF NoRepeat, Copied
<1> QED BY <1>1, RecoveredIs, ZenonT(30)

\* Recovery does not look at the home location of a logged block.
LEMMA RecoveredSame ==
    ASSUME NEW h \in Seq(Block), NEW l, NEW d, NEW e,
           \A b \in Block : b \notin Range(h) => e[b] = d[b]
    PROVE  RecoveredFrom(h, l, e) = RecoveredFrom(h, l, d)
BY DEF RecoveredFrom
-----------------------------------------------------------------------------
(* The steps.                                                              *)

LEMMA RefinesInit == Init => Tx!Init
<1> SUFFICES ASSUME Init PROVE Tx!Init
  OBVIOUS
<1>1. Recovered = disk /\ disk \in [Block -> Value]
  BY RecoveredEmpty, ZenonT(30) DEF Init, Recovered
<1>2. Booting /\ InOp = {}
  BY LogAssumption, ZenonT(30) DEF Init, Booting, BootLabel, InOp, OpLabel
<1> QED BY <1>1, <1>2, ZenonT(30) DEF Tx!Init

\* Outside install_trans() and its clean-up the log on the disk is empty, and
\* what recovery would restore is simply the home blocks.
LEMMA NothingToRecover ==
    ASSUME Inv, ~Booting, \A q \in Proc : pc[q] \notin {"install", "clear"}
    PROVE  head = <<>> /\ Recovered = disk
<1>1. head = <<>> /\ disk \in [Block -> Value]
  BY ZenonT(30) DEF Inv, DataInv, TypeOK
<1> QED BY <1>1, RecoveredEmpty, ZenonT(30) DEF Recovered

LEMMA RefinesStep == Inv /\ [Next]_vars => TxStep
<1> SUFFICES ASSUME Inv, [Next]_vars PROVE TxStep
  OBVIOUS
<1>t. TypeOK /\ ControlInv /\ SpaceInv /\ DataInv /\ PinsMatchLog
  BY ZenonT(30) DEF Inv
<1>d. /\ lh \in Seq(Block) /\ head \in Seq(Block) /\ DOMAIN lh = 1..Len(lh)
      /\ NoRepeat(lh) /\ NoRepeat(head)
      /\ cache \in [Block -> Value] /\ disk \in [Block -> Value]
  BY <1>t DEF TypeOK, DataInv
<1>u. ASSUME Mem' = Mem, Recovered' = Recovered, InOp' = InOp PROVE TxStep
  BY <1>u, ZenonT(30) DEF TxStep, Tx!vars, Mem
<1>s. ASSUME UNCHANGED <<cache, disk, logdata, head>>, Booting' <=> Booting
      PROVE  Mem' = Mem /\ Recovered' = Recovered
  BY <1>s, ZenonT(30) DEF Mem, Recovered
<1>1. ASSUME NEW p \in Proc, ProcStep(p) PROVE TxStep
  <2>p. Progress(p)
    BY <1>t, ZenonT(30) DEF DataInv
  <2>1. CASE \/ Sleeps(p) \/ Panics(p) \/ Commits(p) \/ LoggedAll(p) \/ InstalledAll(p)
             \/ ReadsHead(p)
    <3>1. InOp' = InOp /\ (Booting' <=> Booting)
      BY <1>t, <2>1, KeepsRoles, SameRolesFacts, ZenonT(30)
    <3>2. UNCHANGED <<cache, disk, logdata, head>>
      BY <2>1, ZenonT(30) DEF Sleeps, Panics, Commits, LoggedAll, InstalledAll, ReadsHead
    <3> QED BY <1>s, <1>u, <3>1, <3>2, ZenonT(30)
  <2>2. CASE Begins(p)
    <3>1. InOp' = InOp \cup {p} /\ p \notin InOp /\ (Booting' <=> Booting)
      BY <1>t, <2>2, LogAssumption, ZenonT(30) DEF Begins, TypeOK, InOp, OpLabel, Booting, BootLabel
    <3>2. Mem' = Mem /\ Recovered' = Recovered
      BY <1>s, <2>2, <3>1, ZenonT(30) DEF Begins
    <3> QED BY <3>1, <3>2, ZenonT(30) DEF TxStep, Tx!Next, Tx!Begin, Mem
  <2>3. ASSUME NEW b \in Block, NEW v \in Value, Absorbs(p, b, v) \/ Appends(p, b, v)
        PROVE  TxStep
    <3>1. ~Booting
      BY <1>t, <2>3, OpAlone, ZenonT(30) DEF Absorbs, Appends, OpLabel
    <3>2. p \in InOp /\ InOp' = InOp /\ ~Booting'
      BY <2>3, <3>1, ZenonT(30) DEF Absorbs, Appends, InOp, OpLabel, Booting
    <3>3. cache' = [cache EXCEPT ![b] = v] /\ Recovered' = Recovered
      BY <2>3, ZenonT(30) DEF Absorbs, Appends, Recovered
    <3>4. Mem' = [Mem EXCEPT ![b] = v]
      BY <3>1, <3>2, <3>3, ZenonT(30) DEF Mem
    <3> QED BY <3>2, <3>3, <3>4, ZenonT(30) DEF TxStep, Tx!Next, Tx!Write, Mem
  <2>4. CASE EndsLast(p) \/ Ends(p)
    <3>1. p \in InOp /\ UNCHANGED <<cache, disk, logdata, head>>
      BY <2>4, ZenonT(30) DEF EndsLast, Ends, InOp, OpLabel
    <3>2. InOp' = InOp \ {p} /\ (Booting' <=> Booting)
      <4>1. CASE EndsLast(p)
        BY <1>t, <4>1, LogAssumption, ZenonT(30)
           DEF EndsLast, TypeOK, InOp, OpLabel, Booting, BootLabel
      <4>2. CASE Ends(p)
        <5>1. /\ pc'[p] = "idle"
              /\ \A q \in Proc \ {p} :
                    pc'[q] = pc[q] \/ (pc[q] = "asleep" /\ pc'[q] = "woken")
          BY <1>t, <4>2, WakesSleepers, ZenonT(30) DEF Ends
        <5> QED BY <4>2, <5>1, LogAssumption, ZenonT(30) DEF Ends, InOp, OpLabel, Booting, BootLabel
      <4> QED BY <2>4, <4>1, <4>2, ZenonT(30)
    <3>3. Mem' = Mem /\ Recovered' = Recovered
      BY <1>s, <3>1, <3>2, ZenonT(30)
    <3> QED BY <3>1, <3>2, <3>3, ZenonT(30) DEF TxStep, Tx!Next, Tx!End, Mem
  <2>5. CASE LogsBlock(p)
    <3>1. InOp' = InOp /\ (Booting' <=> Booting)
      BY <1>t, <2>5, KeepsRoles, SameRolesFacts, ZenonT(30)
    <3>2. \A q \in Proc \ {p} : pc[q] \notin Active
      BY <1>t, <2>5, Alone, ZenonT(30) DEF LogsBlock, Active, CommitLabel
    <3>3. ~Booting /\ \A q \in Proc : pc[q] \notin {"install", "clear"}
      BY <2>5, <3>2, LogAssumption, ZenonT(30)
         DEF LogsBlock, Booting, Active, BootLabel, CommitLabel
    <3>4. head = <<>> /\ Recovered = disk
      BY <3>3, NothingToRecover, ZenonT(30)
    <3>5. UNCHANGED <<cache, disk, head>>
      BY <2>5, ZenonT(30) DEF LogsBlock
    <3>6. Recovered' = disk
      BY <1>d, <3>4, <3>5, RecoveredEmpty, ZenonT(30) DEF Recovered
    <3>7. Mem' = Mem
      BY <3>1, <3>3, <3>5, ZenonT(30) DEF Mem
    <3> QED BY <1>u, <3>1, <3>4, <3>6, <3>7, ZenonT(30)
  <2>6. CASE WritesHead(p)
    <3>1. InOp' = InOp /\ (Booting' <=> Booting)
      BY <1>t, <2>6, KeepsRoles, SameRolesFacts, ZenonT(30)
    <3>2. \A q \in Proc \ {p} : pc[q] \notin Active
      BY <1>t, <2>6, Alone, ZenonT(30) DEF WritesHead, Active, CommitLabel
    <3>3. ~Booting /\ \A q \in Proc : pc[q] # "install"
      BY <2>6, <3>2, LogAssumption, ZenonT(30)
         DEF WritesHead, Booting, Active, BootLabel, CommitLabel
    <3>4. Copied(lh, Len(lh), logdata, cache)
      BY <2>6, <2>p, ZenonT(30) DEF WritesHead, Progress
    <3>5. \A b \in Block : b \notin Range(lh) => disk[b] = cache[b]
      BY <1>t, <1>d, <3>3, PinnedLogged, ZenonT(30) DEF PinsMatchLog
    <3>6. RecoveredFrom(lh, logdata, disk) = cache
      BY <1>d, <3>4, <3>5, RecoveredIs
    <3>7. Recovered' = cache /\ cache' = cache
      BY <2>6, <3>6, ZenonT(30) DEF WritesHead, Recovered
    <3>8. Mem' = cache /\ Mem = cache
      BY <3>1, <3>3, <3>7, ZenonT(30) DEF Mem
    <3>9. InOp = {}
      BY <1>t, <2>6, NoOpMeanwhile, ZenonT(30) DEF WritesHead, CommitLabel
    <3> QED BY <3>1, <3>7, <3>8, <3>9, ZenonT(30) DEF TxStep, Tx!Next, Tx!Commit, Mem
  <2>7. CASE ClearsHead(p) \/ EndsBoot(p)
    <3>1. lh = <<>> /\ Copied(head, Len(head), logdata, disk)
      BY <2>7, <2>p, ZenonT(30) DEF ClearsHead, EndsBoot, Progress
    <3>2. Recovered = disk
      BY <1>d, <3>1, RecoveredIs, ZenonT(30) DEF Recovered
    <3>3. UNCHANGED <<cache, disk>> /\ head' = <<>>
      BY <2>7, <3>1, ZenonT(30) DEF ClearsHead, EndsBoot
    <3>4. Recovered' = disk
      BY <1>d, <3>3, RecoveredEmpty, ZenonT(30) DEF Recovered
    <3>5. CASE ClearsHead(p)
      <4>1. InOp' = InOp /\ (Booting' <=> Booting)
        BY <1>t, <3>5, KeepsRoles, SameRolesFacts, ZenonT(30)
      <4>2. Mem' = Mem
        BY <3>2, <3>3, <3>4, <4>1, ZenonT(30) DEF Mem
      <4> QED BY <1>u, <3>2, <3>4, <4>1, <4>2, ZenonT(30)
    <3>6. CASE EndsBoot(p)
      <4>1. Booting /\ InOp = {}
        BY <1>t, <3>6, NoOpMeanwhile, ZenonT(30) DEF EndsBoot, ControlInv, Booting, BootLabel
      <4>2. ~Booting' /\ InOp' = {}
        BY <3>6, LogAssumption, ZenonT(30) DEF EndsBoot, Booting, BootLabel, InOp, OpLabel
      <4>3. \A b \in Block : cache[b] = disk[b]
        BY <1>t, <4>1, ZenonT(30) DEF PinsMatchLog, Pinned
      <4>4. cache = disk
        BY <1>d, <4>3
      <4>5. Mem' = Mem
        BY <3>2, <3>3, <4>1, <4>2, <4>4, ZenonT(30) DEF Mem
      <4> QED BY <1>u, <3>2, <3>4, <4>1, <4>2, <4>5, ZenonT(30)
    <3> QED BY <2>7, <3>5, <3>6, ZenonT(30)
  <2>8. CASE InstallsBlock(p)
    <3> DEFINE k == tail[p] + 1
    <3>1. InOp' = InOp /\ (Booting' <=> Booting)
      BY <1>t, <2>8, KeepsRoles, SameRolesFacts, ZenonT(30)
    <3>2. k \in 1..Len(lh) /\ lh[k] \in Block /\ lh[k] \in Range(lh)
      BY <1>t, <1>d, <2>8 DEF InstallsBlock, TypeOK, Range
    <3>3. head = lh /\ head' = head /\ logdata' = logdata
      BY <2>8, <2>p, ZenonT(30) DEF InstallsBlock, Progress
    <3>4. \A b \in Block : b # lh[k] => disk'[b] = disk[b]
      BY <1>t, <2>8, ZenonT(30) DEF InstallsBlock, TypeOK
    <3>5. Recovered' = Recovered
      BY <1>d, <3>2, <3>3, <3>4, RecoveredSame DEF Recovered
    <3>6. CASE pc[p] = "install"
      <4>1. cache[lh[k]] = logdata[k]
        BY <2>p, <3>2, <3>6, ZenonT(30) DEF Progress, Copied
      <4>2. cache' = cache
        BY <1>d, <2>8, <3>2, <4>1, ZenonT(30) DEF InstallsBlock
      <4>3. Mem' = Mem
        BY <3>1, <3>5, <4>2, ZenonT(30) DEF Mem
      <4> QED BY <1>u, <3>1, <3>5, <4>3, ZenonT(30)
    <3>7. CASE pc[p] = "r_install"
      <4>1. Booting
        BY <1>t, <3>7, ZenonT(30) DEF ControlInv, Booting, BootLabel
      <4>2. Mem' = Mem
        BY <3>1, <3>5, <4>1, ZenonT(30) DEF Mem
      <4> QED BY <1>u, <3>1, <3>5, <4>2, ZenonT(30)
    <3> QED BY <2>8, <3>6, <3>7, ZenonT(30) DEF InstallsBlock
  <2>9. CASE EndsCommit(p)
    <3>1. /\ pc'[p] = "idle"
          /\ \A q \in Proc \ {p} :
                pc'[q] = pc[q] \/ (pc[q] = "asleep" /\ pc'[q] = "woken")
      BY <1>t, <2>9, WakesSleepers, ZenonT(30) DEF EndsCommit
    <3>2. InOp' = InOp /\ (Booting' <=> Booting)
      BY <2>9, <3>1, LogAssumption, ZenonT(30) DEF EndsCommit, InOp, OpLabel, Booting, BootLabel
    <3>3. UNCHANGED <<cache, disk, logdata, head>>
      BY <2>9, ZenonT(30) DEF EndsCommit
    <3> QED BY <1>s, <1>u, <3>2, <3>3, ZenonT(30)
  <2> QED BY <1>1, <2>1, <2>2, <2>3, <2>4, <2>5, <2>6, <2>7, <2>8, <2>9, ZenonT(30) DEF ProcStep
<1>2. ASSUME NEW b \in Block, Recycles(b) PROVE TxStep
  <2>1. UNCHANGED vars
    BY <1>t, <1>2, RecycleStutters, ZenonT(30)
  <2> QED BY <1>s, <1>u, <2>1, ZenonT(30) DEF vars, InOp, Booting
<1>3. CASE Crash
  <2>1. Booting' /\ InOp' = {} /\ Recovered' = Recovered
    BY <1>3, LogAssumption, ZenonT(30) DEF Crash, Booting, BootLabel, InOp, OpLabel, Recovered
  <2> QED BY <2>1, ZenonT(30) DEF TxStep, Tx!Next, Tx!Crash
<1>4. CASE UNCHANGED vars
  BY <1>s, <1>u, <1>4, ZenonT(30) DEF vars, InOp, Booting
<1> QED BY <1>1, <1>2, <1>3, <1>4, Steps, ZenonT(30)

\* The log implements the transactional disk: whatever the interleaving of
\* operations, commits, recoveries and crashes, what a reboot finds changes
\* only at the write_head() of commit(), to the writes of all the operations
\* that have ended, and a crash falls back to it.
THEOREM LogImplementsTxDisk == Spec => TxSpec
<1>1. Init => Tx!Init
  BY RefinesInit, ZenonT(30)
<1>2. Inv /\ [Next]_vars => [Tx!Next]_(Tx!vars)
  BY RefinesStep, ZenonT(30) DEF TxStep
<1> QED BY <1>1, <1>2, InvHolds, PTL DEF Spec, TxSpec, Tx!Spec
=============================================================================
