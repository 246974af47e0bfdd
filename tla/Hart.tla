-------------------------------- MODULE Hart --------------------------------
(***************************************************************************)
(* The registers of a CPU that traps and spin-locks use (kernel/riscv.h,   *)
(* spinlock.c) and what the hardware does to them.  A hart h has the bits  *)
(* SIE, SPIE and SPP of sstatus, sepc, stvec, and noff and intena of its   *)
(* struct cpu.  An address is <<thread, label>>.                           *)
(***************************************************************************)
EXTENDS Integers

Nowhere == <<>>
StartHart == [sie |-> FALSE, spie |-> FALSE, spp |-> "S", sepc |-> Nowhere, stvec |-> "none",
              noff |-> 0, intena |-> FALSE]

intr_on(h) == [h EXCEPT !.sie = TRUE]
intr_off(h) == [h EXCEPT !.sie = FALSE]
w_stvec(h, v) == [h EXCEPT !.stvec = v]

\* What the hardware does when a trap is taken at address pc in mode m.
TrapEntry(h, m, pc) == [h EXCEPT !.spie = h.sie, !.sie = FALSE, !.spp = m, !.sepc = pc]

\* Once its trap is saved in memory, any later trap may overwrite the registers.
Saved(h) == [h EXCEPT !.spie = TRUE, !.spp = "U", !.sepc = Nowhere]

\* The sret instruction; what it leaves in sepc is not read again.
sret(h) == [h EXCEPT !.sie = h.spie, !.spie = TRUE, !.spp = "U", !.sepc = Nowhere]

push_off(h) ==
    [h EXCEPT !.sie = FALSE, !.intena = IF h.noff = 0 THEN h.sie ELSE @, !.noff = @ + 1]

pop_off(h) == [h EXCEPT !.noff = @ - 1, !.sie = @ \/ (h.noff = 1 /\ h.intena), !.intena = @ /\ h.noff > 1]
=============================================================================
