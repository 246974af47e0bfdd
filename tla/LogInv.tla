------------------------------- MODULE LogInv -------------------------------
(***************************************************************************)
(* The inductive invariant of the log: what makes the properties of Log    *)
(* preserved by every step.  TLC can check it as an invariant of MCLog;    *)
(* LogProofs proves that it is inductive.                                  *)
(***************************************************************************)
EXTENDS Log

NoRepeat(s) == \A i, j \in DOMAIN s : s[i] = s[j] => i = j

\* The first k entries of the header h have been copied from l to f.
Copied(h, k, l, f) == \A i \in 1..k : f[h[i]] = l[i]

\* Who is where: only the first process boots, and the others do not run
\* before it is done; operations and a commit exclude each other.
ControlInv ==
    /\ \A p \in Proc : pc[p] \in BootLabel => p = InitProc
    /\ \A p \in Proc : pc[p] = "down" <=> p # InitProc /\ Booting
    /\ outstanding = Cardinality(InOp)
    /\ committing = 1 <=> InCommit # {}
    /\ committing = 1 => InOp = {}
    /\ \A p, q \in InCommit : p = q

\* What an operation wrote is in the header, which has room for the rest.
SpaceInv ==
    /\ \A p \in InOp : wrote[p] \subseteq Range(lh)
    /\ LogSpace
    /\ Len(lh) <= NLOG - 1
    /\ Len(head) <= NLOG - 1 /\ Len(head) <= LOGSIZE

\* How far commit() or recover_from_log() of process p has come.
Progress(p) ==
    /\ pc[p] = "write_log" => tail[p] <= Len(lh) /\ Copied(lh, tail[p], logdata, cache)
    /\ pc[p] = "write_head" => Copied(lh, Len(lh), logdata, cache)
    /\ pc[p] = "install" => /\ head = lh /\ tail[p] <= Len(lh)
                            /\ Copied(lh, Len(lh), logdata, cache)
                            /\ Copied(lh, tail[p], logdata, disk)
    /\ pc[p] \in {"clear", "r_clear"} => lh = <<>> /\ Copied(head, Len(head), logdata, disk)
    /\ pc[p] = "committed" => lh = <<>>
    /\ pc[p] = "r_install" => /\ lh = head /\ tail[p] <= Len(lh)
                              /\ Copied(lh, tail[p], logdata, disk)

\* What the buffers, the home blocks and the log on the disk hold.
DataInv ==
    /\ NoRepeat(lh) /\ NoRepeat(head)
    /\ ~Booting /\ (\A p \in Proc : pc[p] \notin {"install", "clear"}) => head = <<>>
    /\ ~Booting /\ InOp = {} /\ InCommit = {} => lh = <<>>
    /\ \A p \in Proc : Progress(p)

\* The log's structures and the disk agree, at every point of an operation,
\* of commit() and of recover_from_log() (log.c:10-31, 116-203).
Inv == TypeOK /\ ControlInv /\ SpaceInv /\ DataInv /\ PinsMatchLog
=============================================================================
