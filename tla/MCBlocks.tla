----------------------------- MODULE MCBlocks -----------------------------
(* Small instances of the blocks of files for TLC. *)
EXTENDS Blocks, TLC

M == INSTANCE Mkfs

\* What mkfs is given: one file, empty, ending inside its direct block or filling
\* it, with room left in the root's last block; or none or two, whose entries
\* fill the root's block exactly, so that the root ends in a hole.
File(n, units) == [name |-> n, data |-> units]

Files == {<<File("a", <<>>)>>, <<File("a", <<<<7>>>>)>>, <<File("a", <<<<7>>, <<8>>>>)>>,
          <<>>, <<File("a", <<<<7>>>>), File("b", <<>>)>>}

ASSUME AllFit == \A f \in Files : M!Fits(f)

MCImages == {M!Image(f).disk : f \in Files}
Symmetry == Permutations(Proc)
MCSources == {<<<<1>>, <<2>>, <<3>>, <<4>>>>, <<<<5>>>>}
=============================================================================
