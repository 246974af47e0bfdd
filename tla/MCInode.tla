------------------------------ MODULE MCInode ------------------------------
(* Inode for TLC: the calls processes make, and symmetry.                  *)
EXTENDS Inode, TLC

CONSTANTS a, b

MCName == {a, b}
Abs(e) == [abs |-> TRUE, elems |-> e]
Rel(e) == [abs |-> FALSE, elems |-> e]
Do(o, path) == [op |-> o, path |-> path, new |-> NoPath]

MCCall ==
    {Do(o, Abs(<<a>>)) : o \in {"mkdir", "mknod", "unlink", "open"}}
    \cup {Do(o, Abs(<<a, b>>)) : o \in {"mkdir", "create", "unlink", "chdir"}}
    \cup {Do("unlink", Rel(<<b>>)), Do("mkdir", Rel(<<>>)), Do("open", Rel(<<"..">>)), Do("chdir", Abs(<<>>))}
    \cup {[op |-> "link", path |-> Abs(<<a>>), new |-> Abs(<<b, b>>)]}

\* Disks that mkfs and earlier calls leave: the root directory, and in it
\* nothing, the directory a, a with the directory b in it, or the file a next to
\* the directory b.
Inode(t, n, e) == [type |-> t, nlink |-> n, ents |-> e @@ NoEnts]
Root(n, i, j) == Inode("dir", n, (a :> i @@ b :> j @@ ".." :> ROOTINO))
MCImage ==
    {[cwd |-> 1, disk |-> <<Root(1, None, None), FreeInode, FreeInode>>],
     [cwd |-> 1, disk |-> <<Root(2, 2, None), Inode("dir", 1, (".." :> 1)), FreeInode>>],
     [cwd |-> 3, disk |-> <<Root(2, 2, None), Inode("dir", 2, (b :> 3 @@ ".." :> 1)),
                            Inode("dir", 1, (".." :> 2))>>],
     [cwd |-> 1, disk |-> <<Root(2, 2, 3), Inode("file", 1, NoEnts), Inode("dir", 1, (".." :> 1))>>]}

Symmetry == Permutations(Proc)
=============================================================================
