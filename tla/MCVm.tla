-------------------------------- MODULE MCVm --------------------------------
(* Small instances of the page tables for TLC. *)
EXTENDS Vm, TLC

Seg(vaddr, memsz, filesz, avail, flags) ==
    [type |-> "load", vaddr |-> vaddr, memsz |-> memsz, filesz |-> filesz, avail |-> avail, flags |-> flags]

\* Text and data; overlapping segments; one segment; a truncated file, a header cut
\* short, malformed segments, no segment at all, no program.
MCElf ==
    {[ok |-> TRUE, segs |-> <<Seg(0, 3, 3, 3, {"X"}), Seg(4, 6, 2, 2, {"W"})>>],
     [ok |-> TRUE, segs |-> <<Seg(4, 5, 5, 5, {"W"}), Seg(0, 2, 2, 2, {"X"})>>],
     [ok |-> TRUE, segs |-> <<Seg(0, 14, 1, 1, {"X", "W"})>>],
     [ok |-> TRUE, segs |-> <<Seg(0, 8, 8, 5, {"X"})>>],
     [ok |-> TRUE, segs |-> <<Seg(0, 4, 4, 4, {"X"}), [Seg(4, 0, 0, 0, {}) EXCEPT !.type = "short"]>>],
     [ok |-> TRUE, segs |-> <<Seg(0, 4, 4, 4, {"X"}), Seg(4, UINT64 - 2, 0, 0, {"W"})>>],
     [ok |-> TRUE, segs |-> <<Seg(0, 4, 4, 4, {"X"}), Seg(5, 4, 1, 1, {"W"})>>],
     [ok |-> TRUE, segs |-> <<Seg(0, 2, 4, 4, {"X"})>>],
     [ok |-> TRUE, segs |-> <<[Seg(0, 0, 0, 0, {}) EXCEPT !.type = "note"]>>],
     [ok |-> FALSE, segs |-> <<>>]}

MCArgv == {<<>>, <<0, 1>>, <<3>>, <<4>>, <<0, 0, 0>>, <<1, Unreadable>>}
MCExecs == (MCElf \X {<<1>>}) \cup ({CHOOSE e \in MCElf : Len(e.segs) = 2} \X MCArgv)
MCSbrkN == {-50, -5, 1, 13}
MCAccess == {<<0, 2>>, <<3, 3>>, <<9, 8>>, <<200, 2>>, <<250, 8>>}
=============================================================================
