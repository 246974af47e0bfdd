-------------------------------- MODULE File --------------------------------
(***************************************************************************)
(* Open files: the table of struct file (kernel/file.c), the descriptors   *)
(* of processes (kernel/sysfile.c) and the ends of pipes they keep open,   *)
(* under open, dup, pipe, close, read, write, fork and exit.  A step is    *)
(* what a call does under one lock.  The files that are opened share one   *)
(* inode; the bytes of a pipe are module Pipe's.                           *)
(***************************************************************************)
EXTENDS Integers, Sequences, FiniteSets, FiniteSetsExt

CONSTANTS Proc, NoProc,
          InitProc,
          NFILE, NOFILE,
          Pages,      \* pages kalloc() has for pipes
          Writes,     \* lengths asked of write() and read()
          CHUNK,      \* bytes filewrite() writes in one transaction
          MAXSIZE,    \* bytes an inode can hold
          MAXCALLS    \* bound: calls in a behaviour

File == 1..NFILE
FD == 0..(NOFILE - 1)

ASSUME FileAssumption ==
    /\ NoProc \notin Proc /\ InitProc \in Proc /\ 0 \notin Pages
    /\ NFILE \in Nat /\ NOFILE \in Nat \ {0} /\ CHUNK \in Nat \ {0}

VARIABLES ftable,    \* ref, type, readable, writable, pipe and off of a file
          ofile,     \* ofile[p][fd]: a file, or 0
          pipe,      \* readopen and writeopen of the pages that hold a pipe
          data,      \* the bytes of the inode: who wrote them
          iref,      \* references to the inode that files hold
          ilock,     \* who holds its sleep-lock
          alive,     \* processes that exist and have not called exit()
          pc,
          loc,       \* a process's locals
          panic,
          ncalls,
          moved      \* history: bytes read and written through a file since it was opened

vars == <<ftable, ofile, pipe, data, iref, ilock, alive, pc, loc, panic, ncalls, moved>>

NoFile == [ref |-> 0, type |-> "none", readable |-> FALSE, writable |-> FALSE, pipe |-> 0, off |-> 0]
NoLoc == [f |-> 0,           \* a file that has no descriptor yet, or is in use
          close |-> <<>>,    \* files to fileclose()
          ff |-> NoFile,     \* fileclose()'s copy
          fd |-> 0,          \* the loop index of fork() and exit()
          np |-> NoProc,     \* fork()'s child
          ip |-> FALSE,      \* open() has the inode
          n |-> 0,           \* bytes to read or write, then those that were
          rest |-> 0]        \* bytes of later chunks

Init ==
    /\ ftable = [f \in File |-> NoFile]
    /\ ofile = [p \in Proc |-> [fd \in FD |-> 0]]
    /\ pipe = [pi \in {} |-> <<>>]
    /\ data = <<>> /\ iref = 0 /\ ilock = NoProc
    /\ alive = {InitProc}
    /\ pc = [p \in Proc |-> "user"]
    /\ loc = [p \in Proc |-> NoLoc]
    /\ panic = FALSE /\ ncalls = 0
    /\ moved = [f \in File |-> 0]

Goto(p, l, s) == pc' = [pc EXCEPT ![p] = s] /\ loc' = [loc EXCEPT ![p] = l]
Return(p) == Goto(p, NoLoc, "user")
Call(p) == /\ p \in alive /\ pc[p] = "user" /\ ncalls < MAXCALLS /\ ~panic
           /\ ncalls' = ncalls + 1
Step(p, s) == pc[p] = s /\ ~panic /\ UNCHANGED ncalls
inode == <<data, iref, ilock>>

\* The first free file and descriptor, or 0 and NOFILE.
FreeFile == LET S == {f \in File : ftable[f].ref = 0}
            IN  IF S = {} THEN 0 ELSE CHOOSE f \in S : \A x \in S : f <= x
FreeFd(fds) == LET S == {fd \in FD : fds[fd] = 0}
               IN  IF S = {} THEN NOFILE ELSE CHOOSE fd \in S : \A x \in S : fd <= x
-----------------------------------------------------------------------------
(* fileclose() and sys_close()                                             *)

\* Mutant: the type of a file that is free stays.
LastCloseKeepsType(f) == [ftable[f] EXCEPT !.ref = 0]

\* What the last fileclose() of f leaves in the table.
LastClose(f) == [ftable[f] EXCEPT !.ref = 0, !.type = "none"]

\* ftable.lock is held.  The last reference leaves the object to CloseObject.
Fileclose(p) ==
    LET f == Head(loc[p].close)
        l == [loc[p] EXCEPT !.close = Tail(@)]
    IN  /\ Step(p, "close")
        /\ panic' = (ftable[f].ref < 1)
        /\ ftable' = [ftable EXCEPT ![f] = IF @.ref > 1 THEN [@ EXCEPT !.ref = @ - 1] ELSE LastClose(f)]
        /\ IF ftable[f].ref > 1 THEN Goto(p, l, "closed")
           ELSE Goto(p, [l EXCEPT !.ff = ftable[f]], "object")
        /\ UNCHANGED <<ofile, pipe, inode, alive, moved>>

\* pipeclose(), freeing the pipe with its second end, or iput().
CloseObject(p) ==
    LET ff == loc[p].ff
        pi == ff.pipe
        left == IF ff.writable THEN [pipe[pi] EXCEPT !.writeopen = FALSE]
                ELSE [pipe[pi] EXCEPT !.readopen = FALSE]
    IN  /\ Step(p, "object")
        /\ IF ff.type # "pipe" THEN UNCHANGED pipe
           ELSE IF ~left.readopen /\ ~left.writeopen
           THEN pipe' = [x \in DOMAIN pipe \ {pi} |-> pipe[x]]
           ELSE pipe' = [pipe EXCEPT ![pi] = left]
        /\ iref' = IF ff.type = "inode" THEN iref - 1 ELSE iref
        /\ Goto(p, [loc[p] EXCEPT !.ff = NoFile], "closed")
        /\ UNCHANGED <<ftable, ofile, data, ilock, alive, panic, moved>>

\* Back in the caller: the next file to close, exit()'s loop, open()'s
\* iunlockput(), or the end of the call.
Closed(p) ==
    /\ Step(p, "closed")
    /\ IF loc[p].close # <<>> THEN Goto(p, loc[p], "close") /\ UNCHANGED <<ofile, iref, ilock>>
       ELSE IF p \notin alive
       THEN /\ ofile' = [ofile EXCEPT ![p][loc[p].fd] = 0]
            /\ Goto(p, [loc[p] EXCEPT !.fd = @ + 1], "exit")
            /\ UNCHANGED <<iref, ilock>>
       ELSE /\ Return(p) /\ UNCHANGED ofile
            /\ iref' = IF loc[p].ip THEN iref - 1 ELSE iref
            /\ ilock' = IF loc[p].ip THEN NoProc ELSE ilock
    /\ UNCHANGED <<ftable, pipe, data, alive, panic, moved>>

sys_close(p) == \E fd \in FD :
    /\ Call(p) /\ ofile[p][fd] # 0
    /\ ofile' = [ofile EXCEPT ![p][fd] = 0]
    /\ Goto(p, [NoLoc EXCEPT !.close = <<ofile[p][fd]>>], "close")
    /\ UNCHANGED <<ftable, pipe, inode, alive, panic, moved>>

sys_dup(p) == \E fd \in FD :
    LET f == ofile[p][fd]
        new == FreeFd(ofile[p])
    IN  /\ Call(p) /\ f # 0 /\ new # NOFILE
        /\ ofile' = [ofile EXCEPT ![p][new] = f]
        /\ panic' = (ftable[f].ref < 1)
        /\ ftable' = [ftable EXCEPT ![f].ref = @ + 1]
        /\ UNCHANGED <<pipe, inode, alive, pc, loc, moved>>
-----------------------------------------------------------------------------
(* sys_open(), of an inode that namei() finds                              *)

OpenLock(p) ==
    /\ Call(p) /\ ilock = NoProc
    /\ ilock' = p /\ iref' = iref + 1
    /\ Goto(p, [NoLoc EXCEPT !.ip = TRUE], "open")
    /\ UNCHANGED <<ftable, ofile, pipe, data, alive, panic, moved>>

\* filealloc() and fdalloc(), then the fields of f and O_TRUNC; or the clean-up.
OpenFile(p) ==
    LET f == FreeFile
        fd == FreeFd(ofile[p])
    IN  /\ Step(p, "open")
        /\ \/ /\ f = 0
              /\ iref' = iref - 1 /\ ilock' = NoProc /\ Return(p)
              /\ UNCHANGED <<ftable, ofile, data, moved>>
           \/ /\ f # 0 /\ fd = NOFILE
              /\ ftable' = [ftable EXCEPT ![f].ref = 1]
              /\ Goto(p, [loc[p] EXCEPT !.close = <<f>>], "close")
              /\ UNCHANGED <<ofile, inode, moved>>
           \/ /\ f # 0 /\ fd # NOFILE
              /\ ofile' = [ofile EXCEPT ![p][fd] = f]
              /\ ftable' = [ftable EXCEPT ![f] = [@ EXCEPT !.ref = 1, !.type = "inode", !.off = 0,
                                                           !.readable = TRUE, !.writable = TRUE]]
              /\ \E trunc \in BOOLEAN : data' = IF trunc THEN <<>> ELSE data
              /\ moved' = [moved EXCEPT ![f] = 0]
              /\ ilock' = NoProc /\ Return(p)
              /\ UNCHANGED iref
        /\ UNCHANGED <<pipe, alive, panic>>
-----------------------------------------------------------------------------
(* sys_pipe() with pipealloc()                                             *)

PipeFirst(p) ==
    LET f == FreeFile IN
    /\ Call(p) /\ f # 0
    /\ ftable' = [ftable EXCEPT ![f].ref = 1]
    /\ Goto(p, [NoLoc EXCEPT !.f = f], "pipe")
    /\ UNCHANGED <<ofile, pipe, inode, alive, panic, moved>>

\* The two calls of fdalloc(), undone unless both succeed.
PipeFds(fds, rf, wf) ==
    LET one == [fds EXCEPT ![FreeFd(fds)] = rf] IN
    IF FreeFd(fds) = NOFILE \/ FreeFd(one) = NOFILE THEN fds
    ELSE [one EXCEPT ![FreeFd(one)] = wf]

\* The second filealloc(), kalloc(), the fields, the descriptors and the copyout()s,
\* or the clean-up: of pipealloc() with files of type FD_NONE, or of sys_pipe().
PipeSecond(p) ==
    LET rf == loc[p].f
        wf == FreeFile
        fds == PipeFds(ofile[p], rf, wf)
        end(r) == [NoFile EXCEPT !.ref = 1, !.type = "pipe", !.readable = r, !.writable = ~r]
        undo(fs) == Goto(p, [NoLoc EXCEPT !.close = fs], "close")
    IN  /\ Step(p, "pipe")
        /\ \/ wf = 0 /\ undo(<<rf>>) /\ UNCHANGED <<ftable, ofile, pipe>>
           \/ /\ wf # 0 /\ Pages \subseteq DOMAIN pipe
              /\ ftable' = [ftable EXCEPT ![wf].ref = 1]
              /\ undo(<<rf, wf>>) /\ UNCHANGED <<ofile, pipe>>
           \/ /\ wf # 0 /\ ~(Pages \subseteq DOMAIN pipe)
              /\ LET pi == CHOOSE x \in Pages : x \notin DOMAIN pipe IN
                 /\ pipe' = [x \in DOMAIN pipe \cup {pi} |->
                               IF x = pi THEN [readopen |-> TRUE, writeopen |-> TRUE] ELSE pipe[x]]
                 /\ ftable' = [ftable EXCEPT ![rf] = [end(TRUE) EXCEPT !.pipe = pi],
                                             ![wf] = [end(FALSE) EXCEPT !.pipe = pi]]
              /\ \/ fds # ofile[p] /\ ofile' = [ofile EXCEPT ![p] = fds] /\ Return(p)
                 \/ undo(<<rf, wf>>) /\ UNCHANGED ofile
        /\ UNCHANGED <<inode, alive, panic, moved>>
-----------------------------------------------------------------------------
(* fork() and exit()                                                       *)

ForkStart(p) == \E np \in Proc \ alive :
    /\ Call(p) /\ pc[np] = "user" /\ \A q \in alive : loc[q].np # np
    /\ Goto(p, [NoLoc EXCEPT !.np = np], "fork")
    /\ UNCHANGED <<ftable, ofile, pipe, inode, alive, panic, moved>>

filedup(f) == [ftable[f] EXCEPT !.ref = @ + 1]

\* One descriptor of the loop; after the last one the child runs.
ForkFd(p) ==
    LET l == loc[p]
        f == ofile[p][l.fd]
    IN  /\ Step(p, "fork")
        /\ IF l.fd = NOFILE
           THEN Return(p) /\ alive' = alive \cup {l.np} /\ UNCHANGED <<ftable, ofile, panic>>
           ELSE /\ IF f = 0 THEN UNCHANGED <<ftable, ofile, panic>>
                   ELSE /\ panic' = (ftable[f].ref < 1)
                        /\ ftable' = [ftable EXCEPT ![f] = filedup(f)]
                        /\ ofile' = [ofile EXCEPT ![l.np][l.fd] = f]
                /\ Goto(p, [l EXCEPT !.fd = @ + 1], "fork") /\ UNCHANGED alive
        /\ UNCHANGED <<pipe, inode, moved>>

ExitStart(p) ==
    /\ Call(p) /\ p # InitProc
    /\ alive' = alive \ {p} /\ Goto(p, NoLoc, "exit")
    /\ UNCHANGED <<ftable, ofile, pipe, inode, panic, moved>>

\* One descriptor of exit(); Closed clears it after fileclose().  The slot is free at the end.
ExitFd(p) ==
    LET l == loc[p] IN
    /\ Step(p, "exit")
    /\ IF l.fd = NOFILE THEN Return(p)
       ELSE IF ofile[p][l.fd] = 0 THEN Goto(p, [l EXCEPT !.fd = @ + 1], "exit")
       ELSE Goto(p, [l EXCEPT !.close = <<ofile[p][l.fd]>>], "close")
    /\ UNCHANGED <<ftable, ofile, pipe, inode, alive, panic, moved>>
-----------------------------------------------------------------------------
(* fileread() and filewrite() of an inode                                  *)

\* A file of the process of type FD_INODE; the other types go to other modules.
ReadWrite(p) == \E fd \in FD, n \in Writes, op \in {"read", "write"} :
    LET f == ofile[p][fd] IN
    /\ Call(p) /\ f # 0
    /\ panic' = (ftable[f].type = "none")
    /\ IF ftable[f].type = "inode" THEN Goto(p, [NoLoc EXCEPT !.f = f, !.n = n], op)
       ELSE UNCHANGED <<pc, loc>>
    /\ UNCHANGED <<ftable, ofile, pipe, inode, alive, moved>>

\* Mutant: ilock() does not wait.
IlockNoWait(p, to) ==
    /\ ilock' = p
    /\ Goto(p, loc[p], to)

Ilock(p, to) ==
    /\ ilock = NoProc /\ ilock' = p
    /\ Goto(p, loc[p], to)

LockFile(p) ==
    /\ \/ Step(p, "read") /\ Ilock(p, "readi")
       \/ Step(p, "write") /\ Ilock(p, "writei")
    /\ UNCHANGED <<ftable, ofile, pipe, data, iref, alive, panic, moved>>

Least(a, b) == IF a < b THEN a ELSE b

\* readi(): at most what is left of the file, or fewer bytes or none on an error.
Readi(p) ==
    LET f == loc[p].f
        left == Least(loc[p].n, Len(data) - ftable[f].off)
    IN  /\ Step(p, "readi")
        /\ \E r \in IF left > 0 THEN {-1} \cup 0..left ELSE {0} :
             /\ Goto(p, [loc[p] EXCEPT !.n = r], "off")
             /\ moved' = [moved EXCEPT ![f] = IF r > 0 THEN @ + r ELSE @]
        /\ UNCHANGED <<ftable, ofile, pipe, inode, alive, panic>>

\* writei() of one chunk: all of it, or less when a block or the user's page is missing.
Writei(p) ==
    LET f == loc[p].f
        off == ftable[f].off
        n1 == Least(loc[p].n, CHUNK)
        refused == off > Len(data) \/ off + n1 > MAXSIZE
        after(r) == [i \in 1..(IF off + r > Len(data) THEN off + r ELSE Len(data)) |->
                       IF i \in (off + 1)..(off + r) THEN p ELSE data[i]]
    IN  /\ Step(p, "writei")
        /\ \E r \in IF refused THEN {-1} ELSE 0..n1 :
             /\ data' = IF r > 0 THEN after(r) ELSE data
             /\ moved' = [moved EXCEPT ![f] = IF r > 0 THEN @ + r ELSE @]
             /\ Goto(p, [loc[p] EXCEPT !.n = r, !.rest = IF r = n1 THEN loc[p].n - r ELSE 0], "off")
        /\ UNCHANGED <<ftable, ofile, pipe, iref, ilock, alive, panic>>

\* f->off += r and iunlock(); a whole chunk is followed by the next one.
Advance(p) ==
    LET l == loc[p] IN
    /\ Step(p, "off")
    /\ ftable' = [ftable EXCEPT ![l.f].off = IF l.n > 0 THEN @ + l.n ELSE @]
    /\ ilock' = NoProc
    /\ IF l.rest > 0 THEN Goto(p, [l EXCEPT !.n = l.rest, !.rest = 0], "write") ELSE Return(p)
    /\ UNCHANGED <<ofile, pipe, data, iref, alive, panic, moved>>
-----------------------------------------------------------------------------
Next == \E p \in Proc :
    \/ Fileclose(p) \/ CloseObject(p) \/ Closed(p) \/ sys_close(p) \/ sys_dup(p)
    \/ OpenLock(p) \/ OpenFile(p) \/ PipeFirst(p) \/ PipeSecond(p)
    \/ ForkStart(p) \/ ForkFd(p) \/ ExitStart(p) \/ ExitFd(p)
    \/ ReadWrite(p) \/ LockFile(p) \/ Readi(p) \/ Writei(p) \/ Advance(p)

Spec == Init /\ [][Next]_vars
-----------------------------------------------------------------------------
(* Properties                                                              *)

\* The type of every variable; the first invariant below includes it.
TypeOK ==
    /\ ftable \in [File -> [ref : Nat, type : {"none", "pipe", "inode"}, readable : BOOLEAN,
                            writable : BOOLEAN, pipe : Pages \cup {0}, off : 0..MAXSIZE]]
    /\ ofile \in [Proc -> [FD -> File \cup {0}]] /\ DOMAIN pipe \subseteq Pages
    /\ data \in Seq(Proc) /\ Len(data) <= MAXSIZE
    /\ iref \in Nat /\ ilock \in Proc \cup {NoProc} /\ alive \subseteq Proc
    /\ pc \in [Proc -> {"user", "close", "object", "closed", "open", "pipe", "fork", "exit",
                        "read", "readi", "write", "writei", "off"}]

\* References to f that are not, or no longer, a descriptor's.
InFlight(p, f) ==
    LET l == loc[p]
        listed == Cardinality({i \in DOMAIN l.close : l.close[i] = f})
    IN  IF p \in alive THEN listed + (IF pc[p] = "pipe" /\ l.f = f THEN 1 ELSE 0)
        ELSE IF pc[p] \in {"object", "closed"} /\ ofile[p][l.fd] = f THEN -1 ELSE 0

\* Files, and copies in fileclose(), that keep an object open.
Keeps(Test(_)) ==
    {f \in File : ftable[f].ref > 0 /\ Test(ftable[f])}
    \cup {p \in Proc : pc[p] = "object" /\ Test(loc[p].ff)}

\* pipe.c, file.c: a pipe's end is open exactly while a file keeps it open,
\* the page of a pipe is freed with its last end and no file names it then,
\* and the inode has one reference from every file that has it open.
EndsMatch ==
    /\ \A pi \in Pages :
         LET reader(f) == f.type = "pipe" /\ f.pipe = pi /\ f.readable
             writer(f) == f.type = "pipe" /\ f.pipe = pi /\ f.writable
         IN  IF pi \in DOMAIN pipe
             THEN /\ pipe[pi].readopen <=> Keeps(reader) # {}
                  /\ pipe[pi].writeopen <=> Keeps(writer) # {}
                  /\ pipe[pi].readopen \/ pipe[pi].writeopen
             ELSE Keeps(reader) \cup Keeps(writer) = {}
    /\ LET isInode(f) == f.type = "inode"
           opening == {p \in Proc : loc[p].ip}
       IN  iref = Cardinality(Keeps(isInode)) + Cardinality(opening)

\* file.c, sysfile.c: f->ref is the number of descriptors that name f, in all
\* processes, plus the references that calls hold on the way; none of the
\* panics of filedup(), fileclose(), fileread() and filewrite() can happen; and
\* the objects behind the files, pipes and the inode, are open accordingly.
FileRefs ==
    /\ TypeOK /\ ~panic /\ EndsMatch
    /\ \A f \in File :
         LET held(p) == Cardinality({fd \in FD : ofile[p][fd] = f}) + InFlight(p, f)
         IN  ftable[f].ref = MapThenSumSet(held, Proc)

\* file.c: processes that share a file through fork() or dup() read and write
\* at the offset where the transfer before ended, so none of their bytes are
\* written over each other.
OffsetsExact == \A p \in Proc :
    pc[p] \in {"readi", "writei"} => ftable[loc[p].f].off = moved[loc[p].f]
=============================================================================
