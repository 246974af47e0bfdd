------------------------------- MODULE Inode -------------------------------
(***************************************************************************)
(* The inode table, directories and the system calls that change the name  *)
(* space (kernel/fs.c, kernel/sysfile.c), on top of the transactions that  *)
(* Log provides (TxDisk): what the calls of a group wrote becomes durable  *)
(* when the last of them ends, and a crash falls back to that state.       *)
(*                                                                         *)
(* Steps are cut where another process can interfere: at ilock(), at       *)
(* itable.lock, and inside iput().  What is done while the locks of the    *)
(* inodes concerned are held is one step.  The contents of files and the   *)
(* allocation of blocks are left out; a write that needs a block may fail. *)
(***************************************************************************)
EXTENDS Integers, Sequences, FiniteSets

CONSTANTS Proc, NoProc,
          NINODES,   \* sb.ninodes - 1: inode numbers are 1..NINODES
          Name,      \* names of directory entries other than "." and ".."
          Call,      \* calls processes make: [op, path, new], a path being
                     \* [abs : BOOLEAN, elems : Seq(Name \cup {".", ".."})]
          MAXCALLS,  \* bound on the number of calls
          Image      \* what earlier calls left: [disk, cwd]

ASSUME InodeAssumption == NINODES \in Nat \ {0} /\ NoProc \notin Proc

VARIABLES disk, durable,  \* dinodes and directory contents, in the transaction
                          \* under way; after a crash
          open,           \* processes between begin_op() and end_op()
          ref, valid, mem,\* ip->ref, ip->valid, the other fields of ip
          lock,           \* who holds ip->lock
          cwd, fd,        \* p->cwd; the inode of p's open file
          th,             \* the local variables of p's system call
          crashed, calls, \* has there been a crash; calls made
          reused,         \* inodes allocated while their entry was still in use
          stray           \* inodes given a name in a directory without one

vars == <<disk, durable, open, ref, valid, mem, lock, cwd, fd, th, crashed, calls, reused, stray>>
table == <<ref, valid>>
aux == <<crashed, calls, reused, stray>>

None == 0
ROOTINO == 1
Inum == 1..NINODES

Type == {"free", "file", "dir", "dev"}
NoEnts == [n \in Name \cup {".."} |-> None]
NoPath == [abs |-> TRUE, elems |-> <<>>]

FreeInode == [type |-> "free", nlink |-> 0, ents |-> NoEnts]

\* ip, dp, old: inodes the call has a reference to; put: the argument of iput(),
\* ret: where iput() returns to.  par: nameiparent.  dangling: the last element
\* was ".." in a directory that its parent does not name any more.
Idle == [pc |-> "user", op |-> "none", path |-> <<>>, par |-> FALSE, new |-> NoPath,
         ip |-> None, dp |-> None, old |-> None, put |-> None, ret |-> "user",
         dangling |-> FALSE]

\* An entry of the table that is free, or that iget() has just taken, is not
\* valid and its other fields have no meaning.
FreeEntry == [type |-> "free", nlink |-> 0]

\* All processes are in one directory: after booting in the root directory, later
\* in the one the first process forked them in.
RefsIn(d) == [i \in Inum |-> IF i = d THEN Cardinality(Proc) ELSE 0]
BootMem == [i \in Inum |-> FreeEntry]

Init ==
    /\ \E m \in Image : /\ disk = m.disk /\ durable = m.disk
                        /\ cwd = [p \in Proc |-> m.cwd] /\ ref = RefsIn(m.cwd)
    /\ open = {} /\ valid = [i \in Inum |-> FALSE] /\ mem = BootMem
    /\ lock = [i \in Inum |-> NoProc]
    /\ fd = [p \in Proc |-> None]
    /\ th = [p \in Proc |-> Idle]
    /\ crashed = FALSE /\ calls = 0 /\ reused = {} /\ stray = {}

At(p, l) == th[p].pc = l
Become(p, t) == th' = [th EXCEPT ![p] = t]
Unlock(i) == lock' = [lock EXCEPT ![i] = NoProc]

\* iget() and idup().
Iget(i) == ref' = [ref EXCEPT ![i] = @ + 1] /\ UNCHANGED valid

\* ilock(): waits for the lock, and reads the inode if it must.
Ilock(p, i, l) ==
    /\ lock[i] = NoProc
    /\ lock' = [lock EXCEPT ![i] = p]
    /\ mem' = [mem EXCEPT ![i] =
                  IF valid[i] THEN @ ELSE [type |-> disk[i].type, nlink |-> disk[i].nlink]]
    /\ valid' = [valid EXCEPT ![i] = TRUE]
    /\ Become(p, [th[p] EXCEPT !.pc =
                  IF ~valid[i] /\ disk[i].type = "free" THEN "panic" ELSE l])
    /\ UNCHANGED <<disk, durable, open, ref, cwd, fd, aux>>

\* A change of ip->nlink with its iupdate(), in a disk d and in memory m.
Relink(d, i, k) == [d EXCEPT ![i].nlink = @ + k]

\* The names of i in all directories.
Names(d, i) == {<<j, n>> \in Inum \X Name : d[j].ents[n] = i}

\* History: i gets a name in dp, which may have been removed since it was found.
Named(i, dp) ==
    /\ stray' = stray \cup IF dp # ROOTINO /\ Names(disk, dp) = {} THEN {i} ELSE {}
    /\ UNCHANGED <<crashed, calls, reused>>

\* iput(i) in a call with locals t, then on at r.
Iput(t, i, r) == [t EXCEPT !.pc = "iput", !.put = i, !.ret = r]

\* dirlookup(): the inode number, or None.
Lookup(d, n) == IF n = "." THEN d ELSE disk[d].ents[n]

\* Where a call goes on when nameiparent() or dirlink() failed.
Bad(t) == IF t.old # None THEN "undo" ELSE "end"
-----------------------------------------------------------------------------
(* begin_op(), namex() and end_op().                                       *)

\* iget(ROOTDEV, ROOTINO) or idup(cwd), at the start of namex().
Namex(p, t, path, par) ==
    LET i == IF path.abs THEN ROOTINO ELSE cwd[p] IN
    /\ Iget(i)
    /\ Become(p, [t EXCEPT !.pc = "walk", !.path = path.elems, !.par = par, !.ip = i])

Creates == {"create", "mkdir", "mknod"}

Begin(p, c) ==
    /\ At(p, "user")
    /\ open' = open \cup {p}
    /\ Namex(p, [Idle EXCEPT !.op = c.op, !.new = c.new], c.path,
             c.op \in Creates \cup {"unlink"})
    /\ calls < MAXCALLS /\ calls' = calls + 1
    /\ UNCHANGED <<disk, durable, mem, lock, cwd, fd, crashed, reused, stray>>

\* sys_close(), fileclose(): the descriptor goes before the reference.
Close(p) ==
    /\ At(p, "user") /\ fd[p] # None
    /\ open' = open \cup {p}
    /\ fd' = [fd EXCEPT ![p] = None]
    /\ Become(p, Iput(Idle, fd[p], "end"))
    /\ UNCHANGED <<disk, durable, table, mem, lock, cwd, aux>>

\* The loop of namex(): lock, look up, unlock, put; parent stops one early.
WalkLock(p) ==
    /\ At(p, "walk") /\ th[p].path # <<>>
    /\ Ilock(p, th[p].ip, "look")

WalkFails(p) ==
    LET t == th[p] IN
    /\ At(p, "look")
    /\ \/ mem[t.ip].type # "dir"
       \/ ~(t.par /\ Len(t.path) = 1) /\ Lookup(t.ip, Head(t.path)) = None
    /\ Unlock(t.ip)
    /\ Become(p, Iput([t EXCEPT !.ip = None], t.ip, Bad(t)))
    /\ UNCHANGED <<disk, durable, open, table, mem, cwd, fd, aux>>

WalkParent(p) ==
    LET t == th[p] IN
    /\ At(p, "look") /\ mem[t.ip].type = "dir"
    /\ t.par /\ Len(t.path) = 1
    /\ Unlock(t.ip)
    /\ Become(p, [t EXCEPT !.pc = "parent", !.dp = t.ip, !.ip = None])
    /\ UNCHANGED <<disk, durable, open, table, mem, cwd, fd, aux>>

\* Mutant: namex() does not unlock the directory it leaves.
WalkOnLocked(p) ==
    LET t == th[p]
        n == Head(t.path)
        i == Lookup(t.ip, n)
    IN
    /\ At(p, "look") /\ mem[t.ip].type = "dir"
    /\ ~(t.par /\ Len(t.path) = 1) /\ i # None
    /\ Iget(i)
    /\ Become(p, [Iput(t, t.ip, "walk") EXCEPT
                     !.ip = i, !.path = Tail(t.path),
                     !.dangling = n = ".." /\ \A m \in Name : disk[i].ents[m] # t.ip])
    /\ UNCHANGED <<disk, durable, open, mem, lock, cwd, fd, aux>>

WalkOn(p) ==
    LET t == th[p]
        n == Head(t.path)
        i == Lookup(t.ip, n)
    IN
    /\ At(p, "look") /\ mem[t.ip].type = "dir"
    /\ ~(t.par /\ Len(t.path) = 1) /\ i # None
    /\ Iget(i)
    /\ Unlock(t.ip)
    /\ Become(p, [Iput(t, t.ip, "walk") EXCEPT
                     !.ip = i, !.path = Tail(t.path),
                     !.dangling = n = ".." /\ \A m \in Name : disk[i].ents[m] # t.ip])
    /\ UNCHANGED <<disk, durable, open, mem, cwd, fd, aux>>

\* A path without a name has no parent.
WalkEmpty(p) ==
    LET t == th[p] IN
    /\ At(p, "walk") /\ t.path = <<>> /\ t.par
    /\ Become(p, Iput([t EXCEPT !.ip = None], t.ip, Bad(t)))
    /\ UNCHANGED <<disk, durable, open, table, mem, lock, cwd, fd, aux>>

\* namei() has found the inode, and its caller locks it.
FoundLock(p) ==
    /\ At(p, "walk") /\ th[p].path = <<>> /\ ~th[p].par
    /\ Ilock(p, th[p].ip, "found")

\* end_op(): the last one makes the group of calls durable.
End(p) ==
    /\ At(p, "end")
    /\ open' = open \ {p}
    /\ durable' = IF open' = {} THEN disk ELSE durable
    /\ Become(p, Idle)
    /\ UNCHANGED <<disk, table, mem, lock, cwd, fd, aux>>
-----------------------------------------------------------------------------
(* iput(), the steps between its locks.                                    *)

\* With itable.lock: the last reference to an inode without links frees it.
LastPut(i) == ref[i] = 1 /\ valid[i] /\ mem[i].nlink = 0

IputDrop(p) ==
    LET t == th[p] IN
    /\ \/ At(p, "iput") /\ ~LastPut(t.put)
       \/ At(p, "unref")
    /\ ref' = [ref EXCEPT ![t.put] = @ - 1]
    /\ IF ref[t.put] = 1
       THEN /\ valid' = [valid EXCEPT ![t.put] = FALSE]
            /\ mem' = [mem EXCEPT ![t.put] = FreeEntry]
       ELSE UNCHANGED <<valid, mem>>
    /\ Become(p, [t EXCEPT !.pc = t.ret, !.put = None, !.ret = "user"])
    /\ UNCHANGED <<disk, durable, open, lock, cwd, fd, aux>>

IputLock(p) ==
    LET i == th[p].put IN
    /\ At(p, "iput") /\ LastPut(i)
    /\ lock[i] = NoProc
    /\ lock' = [lock EXCEPT ![i] = p]
    /\ Become(p, [th[p] EXCEPT !.pc = "trunc"])
    /\ UNCHANGED <<disk, durable, open, table, mem, cwd, fd, aux>>

\* itrunc(ip); ip->type = 0; iupdate(ip)
IputFree(p) ==
    LET i == th[p].put IN
    /\ At(p, "trunc")
    /\ disk' = [disk EXCEPT ![i] = [FreeInode EXCEPT !.nlink = mem[i].nlink]]
    /\ mem' = [mem EXCEPT ![i].type = "free"]
    /\ Become(p, [th[p] EXCEPT !.pc = "freed"])
    /\ UNCHANGED <<durable, open, table, lock, cwd, fd, aux>>

\* Mutant: ip->valid stays 1 in a freed inode.
IputInvalidKeeps(p) ==
    LET i == th[p].put IN
    /\ At(p, "freed")
    /\ Unlock(i)
    /\ Become(p, [th[p] EXCEPT !.pc = "unref"])
    /\ UNCHANGED <<disk, durable, open, table, mem, cwd, fd, aux>>

IputInvalid(p) ==
    LET i == th[p].put IN
    /\ At(p, "freed")
    /\ valid' = [valid EXCEPT ![i] = FALSE]
    /\ Unlock(i)
    /\ Become(p, [th[p] EXCEPT !.pc = "unref"])
    /\ UNCHANGED <<disk, durable, open, ref, mem, cwd, fd, aux>>
-----------------------------------------------------------------------------
(* sys_open(), sys_chdir() and the first half of sys_link(): ip is locked. *)

\* filealloc() and fdalloc() succeed.
Open(p) ==
    LET t == th[p] IN
    /\ At(p, "found") /\ t.op \in {"open", "create"}
    /\ fd[p] = None
    /\ fd' = [fd EXCEPT ![p] = t.ip]
    /\ Unlock(t.ip)
    /\ Become(p, [t EXCEPT !.pc = "end", !.ip = None])
    /\ UNCHANGED <<disk, durable, open, table, mem, cwd, aux>>

\* No file structure or descriptor, a directory opened for writing, a bad
\* device; chdir() to something else than a directory, link() of a directory.
FoundFails(p) ==
    LET t == th[p] IN
    /\ At(p, "found")
    /\ \/ t.op \in {"open", "create"}
       \/ t.op = "chdir" /\ mem[t.ip].type # "dir"
       \/ t.op = "link" /\ mem[t.ip].type = "dir"
    /\ Unlock(t.ip)
    /\ Become(p, Iput([t EXCEPT !.ip = None], t.ip, "end"))
    /\ UNCHANGED <<disk, durable, open, table, mem, cwd, fd, aux>>

\* p->cwd is p's own: that it is assigned after the iput() cannot be seen.
Chdir(p) ==
    LET t == th[p] IN
    /\ At(p, "found") /\ t.op = "chdir" /\ mem[t.ip].type = "dir"
    /\ Unlock(t.ip)
    /\ cwd' = [cwd EXCEPT ![p] = t.ip]
    /\ Become(p, Iput([t EXCEPT !.ip = None], cwd[p], "end"))
    /\ UNCHANGED <<disk, durable, open, table, mem, fd, aux>>

\* Mutant: link() forgets ip->nlink++.
LinkOldUncounted(p) ==
    LET t == th[p] IN
    /\ At(p, "found") /\ t.op = "link" /\ mem[t.ip].type # "dir"
    /\ Unlock(t.ip)
    /\ Namex(p, [t EXCEPT !.old = t.ip], t.new, TRUE)
    /\ UNCHANGED <<disk, mem, durable, open, cwd, fd, aux>>

LinkOld(p) ==
    LET t == th[p] IN
    /\ At(p, "found") /\ t.op = "link" /\ mem[t.ip].type # "dir"
    /\ disk' = Relink(disk, t.ip, 1) /\ mem' = Relink(mem, t.ip, 1)
    /\ Unlock(t.ip)
    /\ Namex(p, [t EXCEPT !.old = t.ip], t.new, TRUE)
    /\ UNCHANGED <<durable, open, cwd, fd, aux>>
-----------------------------------------------------------------------------
(* sys_link(), sys_unlink() and create() with the parent dp.               *)

ParentLock(p) == At(p, "parent") /\ Ilock(p, th[p].dp, "in_dp")

\* iunlockput(dp) on the way out.
PutDp(p, t, l) ==
    /\ Unlock(t.dp)
    /\ Become(p, Iput([t EXCEPT !.dp = None], t.dp, l))

BadDp(p) ==
    /\ At(p, "bad_dp")
    /\ PutDp(p, th[p], Bad(th[p]))
    /\ UNCHANGED <<disk, durable, open, table, mem, cwd, fd, aux>>

\* dirlink(): the name exists, and dirlookup()'s reference is put again.
LinkExists(p) ==
    LET t == th[p]
        i == Lookup(t.dp, Head(t.path))
    IN
    /\ At(p, "in_dp") /\ t.op = "link" /\ i # None
    /\ Iget(i)
    /\ Become(p, Iput(t, i, "bad_dp"))
    /\ UNCHANGED <<disk, durable, open, mem, lock, cwd, fd, aux>>

LinkNew(p) ==
    LET t == th[p]
        n == Head(t.path)
    IN
    /\ At(p, "in_dp") /\ t.op = "link" /\ Lookup(t.dp, n) = None
    /\ \/ /\ disk' = [disk EXCEPT ![t.dp].ents[n] = t.old]
          /\ Named(t.old, t.dp)
          /\ PutDp(p, t, "linked")
       \/ PutDp(p, t, "undo") /\ UNCHANGED <<disk, aux>>      \* out of disk blocks
    /\ UNCHANGED <<durable, open, table, mem, cwd, fd>>

Linked(p) ==
    LET t == th[p] IN
    /\ At(p, "linked")
    /\ Become(p, Iput([t EXCEPT !.old = None], t.old, "end"))
    /\ UNCHANGED <<disk, durable, open, table, mem, lock, cwd, fd, aux>>

UndoLock(p) == At(p, "undo") /\ Ilock(p, th[p].old, "undo_in")

LinkUndo(p) ==
    LET t == th[p] IN
    /\ At(p, "undo_in")
    /\ disk' = Relink(disk, t.old, -1) /\ mem' = Relink(mem, t.old, -1)
    /\ Unlock(t.old)
    /\ Become(p, Iput([t EXCEPT !.old = None], t.old, "end"))
    /\ UNCHANGED <<durable, open, table, cwd, fd, aux>>
-----------------------------------------------------------------------------
Unlink(p) ==
    LET t == th[p]
        n == Head(t.path)
        i == IF n = ".." THEN None ELSE Lookup(t.dp, n)
    IN
    /\ At(p, "in_dp") /\ t.op = "unlink"
    /\ \/ /\ n = "." \/ i = None
          /\ PutDp(p, t, "end")
          /\ UNCHANGED table
       \/ /\ n # "." /\ i # None
          /\ Iget(i)
          /\ Become(p, [t EXCEPT !.pc = "unlink", !.ip = i])
          /\ UNCHANGED lock
    /\ UNCHANGED <<disk, durable, open, mem, cwd, fd, aux>>

UnlinkLock(p) == At(p, "unlink") /\ Ilock(p, th[p].ip, "unlink_in")

Isdirempty(i) == \A n \in Name : disk[i].ents[n] = None

UnlinkEntry(p) ==
    LET t == th[p]
        isdir == mem[t.ip].type = "dir"
        k == IF isdir THEN -1 ELSE 0
    IN
    /\ At(p, "unlink_in")
    /\ \/ /\ isdir /\ ~Isdirempty(t.ip)
          /\ Unlock(t.ip)
          /\ Become(p, Iput([t EXCEPT !.ip = None], t.ip, "bad_dp"))
          /\ UNCHANGED <<disk, mem>>
       \/ /\ ~isdir \/ Isdirempty(t.ip)
          /\ disk' = Relink([disk EXCEPT ![t.dp].ents[Head(t.path)] = None], t.dp, k)
          /\ mem' = Relink(mem, t.dp, k)
          /\ PutDp(p, t, "unlinked")
    /\ UNCHANGED <<durable, open, table, cwd, fd, aux>>

Unlinked(p) ==
    LET t == th[p] IN
    /\ At(p, "unlinked")
    /\ disk' = Relink(disk, t.ip, -1) /\ mem' = Relink(mem, t.ip, -1)
    /\ Unlock(t.ip)
    /\ Become(p, Iput([t EXCEPT !.ip = None], t.ip, "end"))
    /\ UNCHANGED <<durable, open, table, cwd, fd, aux>>
-----------------------------------------------------------------------------
NewType(o) == CASE o = "create" -> "file" [] o = "mkdir" -> "dir" [] o = "mknod" -> "dev"

\* The name exists: create() goes from dp to it.
CreateExists(p) ==
    LET t == th[p]
        i == Lookup(t.dp, Head(t.path))
    IN
    /\ At(p, "in_dp") /\ t.op \in Creates /\ i # None
    /\ Iget(i)
    /\ PutDp(p, [t EXCEPT !.ip = i], "exists")
    /\ UNCHANGED <<disk, durable, open, mem, cwd, fd, aux>>

ExistsLock(p) == At(p, "exists") /\ Ilock(p, th[p].ip, "exists_in")

CreateExisting(p) ==
    LET t == th[p] IN
    /\ At(p, "exists_in")
    /\ \/ /\ t.op = "create" /\ mem[t.ip].type \in {"file", "dev"}
          /\ Become(p, [t EXCEPT !.pc = "found"])
          /\ UNCHANGED lock
       \/ /\ t.op # "create" \/ mem[t.ip].type = "dir"
          /\ Unlock(t.ip)
          /\ Become(p, Iput([t EXCEPT !.ip = None], t.ip, "end"))
    /\ UNCHANGED <<disk, durable, open, table, mem, cwd, fd, aux>>

\* ialloc(): a free inode, which of them depends on where the scan has got to.
Ialloc(p) ==
    LET t == th[p] IN
    /\ At(p, "in_dp") /\ t.op \in Creates /\ Lookup(t.dp, Head(t.path)) = None
    /\ \/ \E i \in Inum :
             /\ disk[i].type = "free"
             /\ disk' = [disk EXCEPT ![i] = [FreeInode EXCEPT !.type = NewType(t.op)]]
             /\ Iget(i)
             /\ Become(p, [t EXCEPT !.pc = "new", !.ip = i])
             /\ reused' = reused \cup IF ref[i] > 0 THEN {i} ELSE {}
             /\ stray' = stray \ {i}
             /\ UNCHANGED lock
       \/ /\ \A i \in Inum : disk[i].type # "free"
          /\ PutDp(p, t, "end")
          /\ UNCHANGED <<disk, table, reused, stray>>
    /\ UNCHANGED <<durable, open, mem, cwd, fd, crashed, calls>>

NewLock(p) == At(p, "new") /\ Ilock(p, th[p].ip, "new_in")

\* nlink = 1, "." and "..", the entry in dp, and dp->nlink++ for "..".
CreateLink(p) ==
    LET t == th[p]
        isdir == t.op = "mkdir"
        k == IF isdir THEN 1 ELSE 0
        d == [disk EXCEPT ![t.ip].nlink = 1,
                          ![t.ip].ents[".."] = IF isdir THEN t.dp ELSE None,
                          ![t.dp].ents[Head(t.path)] = t.ip]
    IN
    /\ At(p, "new_in")
    /\ disk' = Relink(d, t.dp, k)
    /\ mem' = Relink([mem EXCEPT ![t.ip].nlink = 1], t.dp, k)
    /\ Named(t.ip, t.dp)
    /\ PutDp(p, t, IF t.op = "create" THEN "found" ELSE "created")
    /\ UNCHANGED <<durable, open, table, cwd, fd>>

\* Mutant: the new inode keeps the link it has no name for.
CreateFailsLinked(p) ==
    LET t == th[p] IN
    /\ At(p, "new_in")
    /\ disk' = [disk EXCEPT ![t.ip].nlink = 1]
    /\ mem' = [mem EXCEPT ![t.ip].nlink = 1]
    /\ Unlock(t.ip)
    /\ Become(p, Iput([t EXCEPT !.ip = None], t.ip, "bad_dp"))
    /\ UNCHANGED <<durable, open, table, cwd, fd, aux>>

\* A dirlink() fails: the new inode goes back, by way of iput().
CreateFails(p) ==
    LET t == th[p] IN
    /\ At(p, "new_in")
    /\ disk' = [disk EXCEPT ![t.ip].nlink = 0]
    /\ mem' = [mem EXCEPT ![t.ip].nlink = 0]
    /\ Unlock(t.ip)
    /\ Become(p, Iput([t EXCEPT !.ip = None], t.ip, "bad_dp"))
    /\ UNCHANGED <<durable, open, table, cwd, fd, aux>>

\* sys_mkdir(), sys_mknod(): iunlockput(ip).
Created(p) ==
    LET t == th[p] IN
    /\ At(p, "created")
    /\ Unlock(t.ip)
    /\ Become(p, Iput([t EXCEPT !.ip = None], t.ip, "end"))
    /\ UNCHANGED <<disk, durable, open, table, mem, cwd, fd, aux>>
-----------------------------------------------------------------------------
\* The power fails; initlog() brings back the last durable state.
Crash ==
    /\ ~crashed
    /\ disk' = durable /\ open' = {}
    /\ ref' = RefsIn(ROOTINO) /\ valid' = [i \in Inum |-> FALSE] /\ mem' = BootMem
    /\ lock' = [i \in Inum |-> NoProc]
    /\ cwd' = [p \in Proc |-> ROOTINO] /\ fd' = [p \in Proc |-> None]
    /\ th' = [p \in Proc |-> Idle]
    /\ crashed' = TRUE
    /\ UNCHANGED <<durable, calls, reused, stray>>

Walk(p) ==
    \/ WalkLock(p) \/ WalkFails(p) \/ WalkParent(p) \/ WalkOn(p) \/ WalkEmpty(p)
    \/ FoundLock(p) \/ End(p)
Put(p) == IputDrop(p) \/ IputLock(p) \/ IputFree(p) \/ IputInvalid(p)
Found(p) == Open(p) \/ FoundFails(p) \/ Chdir(p) \/ LinkOld(p)
Link(p) == LinkExists(p) \/ LinkNew(p) \/ Linked(p) \/ UndoLock(p) \/ LinkUndo(p)
Remove(p) == Unlink(p) \/ UnlinkLock(p) \/ UnlinkEntry(p) \/ Unlinked(p)
Create(p) ==
    \/ CreateExists(p) \/ ExistsLock(p) \/ CreateExisting(p)
    \/ Ialloc(p) \/ NewLock(p) \/ CreateLink(p) \/ CreateFails(p) \/ Created(p)

KernelStep(p) ==
    Walk(p) \/ Put(p) \/ Found(p) \/ ParentLock(p) \/ BadDp(p) \/ Link(p) \/ Remove(p) \/ Create(p)

Next ==
    \/ \E p \in Proc : KernelStep(p) \/ Close(p)
    \/ \E p \in Proc, c \in Call : Begin(p, c)
    \/ Crash

Spec == Init /\ [][Next]_vars
-----------------------------------------------------------------------------
(* Properties.                                                             *)

Label == {"user", "walk", "look", "found", "parent", "in_dp", "bad_dp", "linked", "undo",
          "undo_in", "unlink", "unlink_in", "unlinked", "exists", "exists_in", "new",
          "new_in", "created", "iput", "trunc", "freed", "unref", "end", "panic"}
Ref == Inum \cup {None}
Dinode == [type : Type, nlink : Nat, ents : [Name \cup {".."} -> Ref]]

\* The type of every variable; the first invariant below includes it.
TypeOK ==
    /\ disk \in [Inum -> Dinode] /\ durable \in [Inum -> Dinode]
    /\ open \subseteq Proc
    /\ ref \in [Inum -> Nat] /\ valid \in [Inum -> BOOLEAN]
    /\ mem \in [Inum -> [type : Type, nlink : Nat]]
    /\ lock \in [Inum -> Proc \cup {NoProc}]
    /\ cwd \in [Proc -> Inum] /\ fd \in [Proc -> Ref]
    /\ \A p \in Proc : /\ th[p].pc \in Label /\ th[p].ret \in Label
                       /\ {th[p].ip, th[p].dp, th[p].old, th[p].put} \subseteq Ref
    /\ crashed \in BOOLEAN /\ calls \in 0..MAXCALLS /\ reused \subseteq Inum /\ stray \subseteq Inum

\* The in-memory pointers to entry i: working directories, open files, and the
\* variables of running calls.
Pointers(i) ==
    {<<p, v>> \in Proc \X {"cwd", "fd", "ip", "dp", "old", "put"} :
        i = CASE v = "cwd" -> cwd[p] [] v = "fd" -> fd[p] [] v = "ip" -> th[p].ip
              [] v = "dp" -> th[p].dp [] v = "old" -> th[p].old [] v = "put" -> th[p].put}

\* "ip->ref tracks the number of in-memory pointers to the entry" (fs.c:133), and
\* "the information in an inode table entry is only correct when ip->valid is 1"
\* (fs.c:139): it is then, also when the inode was freed and allocated again
\* while the entry was in use.
RefCounts ==
    /\ TypeOK
    /\ \A i \in Inum :
         /\ ref[i] = Cardinality(Pointers(i))
         /\ valid[i] /\ ref[i] > 0 /\ lock[i] = NoProc =>
              mem[i].type = disk[i].type /\ mem[i].nlink = disk[i].nlink

\* The subdirectories of i.
Subdirs(d, i) == {n \in Name : d[i].ents[n] # None /\ d[d[i].ents[n]].type = "dir"}

\* At every moment of link(), unlink() and create(), so also after a crash, an
\* inode with a name is allocated, and nlink, "the number of links referring to
\* it" (fs.c:111), is not smaller than that number, so that iput() never frees a
\* file that has a name; and directories form a tree: each has one name at most,
\* in the directory that is its "..".  So ilock() finds an inode without a type
\* only behind a ".." of a directory that was removed.
NamesSound ==
    /\ \A i \in Inum \ {ROOTINO} :
         /\ Names(disk, i) # {} => disk[i].type # "free"
         /\ Cardinality(Names(disk, i)) + Cardinality(Subdirs(disk, i)) <= disk[i].nlink
         /\ disk[i].type = "dir" =>
               \A x, y \in Names(disk, i) : x = y /\ disk[i].ents[".."] = x[1]
    /\ \A p \in Proc : At(p, "panic") => th[p].dangling

\* The inode that ilock() waits for in process p.
Wants(p) ==
    CASE At(p, "walk") -> th[p].ip
      [] At(p, "parent") -> th[p].dp
      [] th[p].pc \in {"unlink", "exists", "new"} -> th[p].ip
      [] At(p, "undo") -> th[p].old
      [] OTHER -> None

\* Inode locks are taken in an order that excludes a deadlock: no processes
\* wait for each other, and none for itself; and iput(), which asks for one with
\* itable.lock held, never waits: "ip->ref == 1 means no other process can have
\* ip locked, so this acquiresleep() won't block (or deadlock)" (fs.c:344).
NoLockCycle ==
    /\ \A S \in SUBSET Proc \ {{}} :
         ~\A p \in S : Wants(p) # None /\ lock[Wants(p)] \in S /\ ~At(lock[Wants(p)], "panic")
    /\ \A p \in Proc : At(p, "iput") /\ LastPut(th[p].put) => lock[th[p].put] = NoProc

\* "iput() frees if the reference and link counts have fallen to zero"
\* (fs.c:129): an inode without links and references is free, and when no call
\* is running an inode's links are its names and its subdirectories' "..".
\* Excepted are a crash while it was open, an inode that ialloc() gave out
\* between iput()'s freeing it and its ip->ref-- (fs.c:355), which may leak, and
\* one that create() or link() named in a directory that unlink() had removed
\* meanwhile (sysfile.c:254 does not test dp->nlink): it keeps that link when
\* the directory goes.
NoLeak ==
    \A i \in Inum \ (reused \cup {ROOTINO}) : ~crashed /\ disk[i].type # "free" =>
        /\ ref[i] = 0 => disk[i].nlink > 0
        /\ open = {} /\ i \notin stray =>
              disk[i].nlink = Cardinality(Names(disk, i)) + Cardinality(Subdirs(disk, i))
=============================================================================
