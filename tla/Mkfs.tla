-------------------------------- MODULE Mkfs --------------------------------
(***************************************************************************)
(* The initial file system (mkfs/mkfs.c).  A function of the program is an *)
(* operator from a state m to the state it leaves: the disk image, and the *)
(* next inode and block to hand out.                                       *)
(***************************************************************************)
EXTENDS Layout, SequencesExt

\* wsect() writes zeros everywhere, then the superblock.
Blank ==
    [disk |-> [b \in Block |->
                 IF b \in inodestart..(bmapstart - 1) THEN [k \in 0..(IPB - 1) |-> FreeDinode]
                 ELSE IF b \in bmapstart..(nmeta - 1) THEN {}
                 ELSE ZeroBlock],
     freeinode |-> 1, freeblock |-> nmeta]

rinode(m, inum) == m.disk[IBLOCK(inum)][inum % IPB]
winode(m, inum, din) == [m EXCEPT !.disk[IBLOCK(inum)][inum % IPB] = din]

ialloc(m, type) ==
    winode([m EXCEPT !.freeinode = @ + 1], m.freeinode, [FreeDinode EXCEPT !.type = type])

\* One unit at offset din.size, with the blocks it needs: m and din change.
AppendUnit(s, unit) ==
    LET din == s.din
        fbn == din.size \div BSIZE
        next == s.m.freeblock
        direct == IF din.addrs[fbn] # 0 THEN s
                  ELSE [s EXCEPT !.m.freeblock = @ + 1, !.din.addrs[fbn] = next]
        table == IF din.addrs[NDIRECT] # 0 THEN s
                 ELSE [s EXCEPT !.m.freeblock = @ + 1, !.din.addrs[NDIRECT] = next]
        ind == table.din.addrs[NDIRECT]
        entry == IF table.m.disk[ind][fbn - NDIRECT] # Unit0 THEN table
                 ELSE [table EXCEPT !.m.freeblock = @ + 1,
                                    !.m.disk[ind][fbn - NDIRECT] = <<table.m.freeblock>>]
        put(t, x) == [t EXCEPT !.m.disk[x][din.size % BSIZE] = unit, !.din.size = @ + 1]
    IN  IF fbn < NDIRECT THEN put(direct, direct.din.addrs[fbn])
        ELSE put(entry, First(entry.m.disk[ind][fbn - NDIRECT]))

iappend(m, inum, units) ==
    LET s == FoldLeft(AppendUnit, [m |-> m, din |-> rinode(m, inum)], units)
    IN  winode(s.m, inum, s.din)

\* The bits of the blocks handed out so far; they fit the first bitmap block.
balloc(m) == [m EXCEPT !.disk[bmapstart] = 0..(m.freeblock - 1)]

AddFile(m, f) ==
    LET inum == m.freeinode
    IN  iappend(iappend(ialloc(m, "file"), ROOTINO, <<Dirent(inum, f.name)>>), inum, f.data)

\* The root's size is rounded up to the end of its last block, or, where it
\* fills that, of the block after it.
FixRoot(m) ==
    winode(m, ROOTINO, [rinode(m, ROOTINO) EXCEPT !.size = ((@ \div BSIZE) + 1) * BSIZE])

\* main() for a sequence of files.
Image(files) ==
    LET root == iappend(ialloc(Blank, "dir"), ROOTINO,
                        <<Dirent(ROOTINO, "."), Dirent(ROOTINO, "..")>>)
    IN  balloc(FixRoot(FoldLeft(AddFile, root, files)))

\* The files that there are inodes for, and blocks by the assertion in balloc().
Fits(files) ==
    /\ Len(files) < NINODES
    /\ LET used == Image(files).freeblock IN used < BPB /\ used <= FSSIZE
=============================================================================
