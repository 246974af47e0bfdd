------------------------------- MODULE Layout -------------------------------
(***************************************************************************)
(* The disk format that mkfs and the kernel share: kernel/fs.h and the     *)
(* layout that mkfs.c computes for the superblock.  A disk is an array of  *)
(* blocks; an inode block is a function to dinodes, a bitmap block the set *)
(* of its bits that are 1, any other block BSIZE units.  A unit stands for *)
(* a byte of a file, a directory entry or a block address: a tuple, <<>>   *)
(* where the disk has zeros.                                               *)
(***************************************************************************)
EXTENDS Integers, Sequences

CONSTANTS FSSIZE,      \* blocks of the disk
          NINODES, LOGSIZE,
          BSIZE,       \* units in a block
          NDIRECT,
          IPB, BPB     \* inodes, bitmap bits in a block

ASSUME LayoutAssumption ==
    /\ {FSSIZE, NINODES, BSIZE, NDIRECT, IPB, BPB} \subseteq Nat \ {0} /\ LOGSIZE \in Nat

nbitmap == (FSSIZE \div BPB) + 1
ninodeblocks == (NINODES \div IPB) + 1
nmeta == 2 + LOGSIZE + ninodeblocks + nbitmap
inodestart == 2 + LOGSIZE
bmapstart == 2 + LOGSIZE + ninodeblocks

IBLOCK(i) == (i \div IPB) + inodestart
BBLOCK(b) == (b \div BPB) + bmapstart

NINDIRECT == BSIZE              \* an address takes a unit
MAXFILE == NDIRECT + NINDIRECT
ROOTINO == 1

Block == 0..(FSSIZE - 1)
Inum == 1..NINODES
Unit0 == <<>>
ZeroBlock == [u \in 0..(BSIZE - 1) |-> Unit0]
FreeDinode == [type |-> "free", size |-> 0, addrs |-> [k \in 0..NDIRECT |-> 0]]

\* What an address unit or the inum of a directory entry holds.
First(u) == IF u = Unit0 THEN 0 ELSE u[1]
Dirent(inum, name) == <<inum, name>>
=============================================================================
