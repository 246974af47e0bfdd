----------------------------- MODULE VirtioDisk -----------------------------
(***************************************************************************)
(* The driver of kernel/virtio_disk.c and the device on the other side of  *)
(* the two rings.  vdisk_lock is explicit: the device, which does not take *)
(* it, runs between any two steps of its holder.  A process works on the   *)
(* one buffer it has locked, so buffers and blocks are named by processes. *)
(***************************************************************************)
EXTENDS Integers, FiniteSets, FiniteSetsExt

CONSTANTS Proc, Value,
          NUM,       \* virtio.h: number of descriptors
          RING,      \* entries of each ring, NUM too in the code: more than
                     \* the NUM \div 3 chains in flight are never in use
          IDXMOD,    \* 2^16 in the device: both ring indices wrap there
          NoProc, Intr   \* nobody; the interrupt handler

ASSUME VirtioAssumption ==
    /\ NUM \in Nat \ {0} /\ RING \in (NUM \div 3)..NUM /\ RING # 0
    /\ IDXMOD \in Nat \ {0} /\ IDXMOD % RING = 0 /\ IDXMOD > NUM \div 3
    /\ {NoProc, Intr} \cap Proc = {} /\ NoProc # Intr

VARIABLES free, desc, ops, info,               \* struct disk
          avail, availIdx, used, usedIdx,      \* the two rings
          used_idx,                            \* "we've looked this far"
          vdisk_lock,
          irq, devIdx, devQ,                   \* the device
          disk, data, bdisk, write,            \* contents; struct buf
          pc, idx                              \* idx[0] of each process

drv  == <<free, desc, ops, info, idx>>
ring == <<avail, availIdx, used, usedIdx, used_idx>>
dev  == <<irq, devIdx, devQ>>
vars == <<drv, ring, dev, vdisk_lock, disk, data, bdisk, write, pc>>

Desc == 0..(NUM - 1)
Entry == 0..(RING - 1)
NoDesc == [addr |-> NoProc, next |-> 0, more |-> FALSE]

Init ==
    /\ free = [i \in Desc |-> TRUE]
    /\ desc = [i \in Desc |-> NoDesc]
    /\ ops = [i \in Desc |-> [out |-> FALSE, sector |-> NoProc]]
    /\ info = [i \in Desc |-> [b |-> NoProc, ok |-> FALSE]]
    /\ idx = [p \in Proc |-> 0]
    /\ avail = [i \in Entry |-> 0] /\ availIdx = 0
    /\ used = [i \in Entry |-> 0] /\ usedIdx = 0 /\ used_idx = 0
    /\ vdisk_lock = NoProc
    /\ irq = FALSE /\ devIdx = 0 /\ devQ = {}
    /\ disk \in {[p \in Proc |-> v] : v \in Value}
    /\ data = disk
    /\ bdisk = [p \in Proc |-> FALSE]
    /\ write = [p \in Proc |-> FALSE]
    /\ pc = [p \in Proc |-> "idle"]

Goto(p, l) == pc' = [pc EXCEPT ![p] = l]
Inc(i) == (i + 1) % IDXMOD

\* wakeup(&disk.free[0]), done by p: everybody else who sleeps for descriptors.
WakeupFree(p, f) == [q \in Proc |->
    IF q # p /\ f[q] = "sleep_free" THEN "alloc" ELSE f[q]]
-----------------------------------------------------------------------------
\* virtio_disk_rw() is called: by bwrite() with new data, or by bread() with a
\* buffer that bget() took from another block, whose data it still holds.
Call(p, w, v) ==
    /\ pc[p] = "idle"
    /\ write' = [write EXCEPT ![p] = w]
    /\ data' = [data EXCEPT ![p] = v]
    /\ Goto(p, "alloc")
    /\ UNCHANGED <<drv, ring, dev, vdisk_lock, disk, bdisk>>

FreeDescs == {i \in Desc : free[i]}

\* Mutant: alloc3_desc() keeps the descriptors it got.
AllocFailsLeaks(p) ==
    /\ pc[p] = "alloc" /\ vdisk_lock = NoProc
    /\ Cardinality(FreeDescs) < 3
    /\ free' = [i \in Desc |-> FALSE]
    /\ Goto(p, "sleep_free")
    /\ UNCHANGED <<desc, ops, info, idx, ring, dev, vdisk_lock, disk, data, bdisk, write>>

\* alloc3_desc() fails: the descriptors it did get are given back, each with
\* a wakeup(&disk.free[0]), and the caller sleeps.
AllocFails(p) ==
    /\ pc[p] = "alloc" /\ vdisk_lock = NoProc
    /\ Cardinality(FreeDescs) < 3
    /\ pc' = LET f == [pc EXCEPT ![p] = "sleep_free"]
             IN  IF FreeDescs = {} THEN f ELSE WakeupFree(p, f)
    /\ desc' = [i \in Desc |-> IF free[i] THEN NoDesc ELSE desc[i]]
    /\ UNCHANGED <<free, ops, info, idx, ring, dev, vdisk_lock, disk, data, bdisk, write>>

\* alloc3_desc() succeeds, the chain is formatted and put in the ring; the
\* device does not see it before avail->idx moves.
Submit(p) ==
    /\ pc[p] = "alloc" /\ vdisk_lock = NoProc
    /\ Cardinality(FreeDescs) >= 3
    /\ LET i0 == Min(FreeDescs)
           i1 == Min(FreeDescs \ {i0})
           i2 == Min(FreeDescs \ {i0, i1})
       IN  /\ free' = [free EXCEPT ![i0] = FALSE, ![i1] = FALSE, ![i2] = FALSE]
           /\ ops' = [ops EXCEPT ![i0] = [out |-> write[p], sector |-> p]]
           /\ desc' = [desc EXCEPT
                 ![i0] = [addr |-> i0, next |-> i1, more |-> TRUE],
                 ![i1] = [addr |-> p,  next |-> i2, more |-> TRUE],
                 ![i2] = [addr |-> i0, next |-> 0,  more |-> FALSE]]
           /\ info' = [info EXCEPT ![i0] = [b |-> p, ok |-> FALSE]]
           /\ idx' = [idx EXCEPT ![p] = i0]
           /\ avail' = [avail EXCEPT ![availIdx % RING] = i0]
    /\ bdisk' = [bdisk EXCEPT ![p] = TRUE]
    /\ vdisk_lock' = p
    /\ Goto(p, "notify")
    /\ UNCHANGED <<availIdx, used, usedIdx, used_idx, dev, disk, data, write>>

\* avail->idx += 1, and sleep(b) since b->disk is still 1 under the lock.
Notify(p) ==
    /\ pc[p] = "notify"
    /\ availIdx' = Inc(availIdx)
    /\ vdisk_lock' = NoProc
    /\ Goto(p, "sleep_b")
    /\ UNCHANGED <<drv, avail, used, usedIdx, used_idx, dev, disk, data, bdisk, write>>

\* The descriptors free_chain(i) walks over.
Chain(i) == LET j == desc[i].next
                k == desc[j].next
            IN  {i} \cup (IF desc[i].more THEN {j} \cup
                             (IF desc[j].more THEN {k} ELSE {}) ELSE {})

\* Mutant: virtio_disk_rw() does not wait for b->disk to become 0.
ReturnEarly(p) ==
    /\ pc[p] \in {"sleep_b", "woken_b"} /\ vdisk_lock = NoProc
    /\ info' = [info EXCEPT ![idx[p]].b = NoProc]
    /\ free' = [i \in Desc |-> free[i] \/ i \in Chain(idx[p])]
    /\ desc' = [i \in Desc |-> IF i \in Chain(idx[p]) THEN NoDesc ELSE desc[i]]
    /\ pc' = WakeupFree(p, [pc EXCEPT ![p] = "idle"])
    /\ idx' = [idx EXCEPT ![p] = 0]
    /\ write' = [write EXCEPT ![p] = FALSE]
    /\ UNCHANGED <<ops, ring, dev, vdisk_lock, disk, data, bdisk>>

\* Woken: b->disk is 0, the chain is freed.
Return(p) ==
    /\ pc[p] = "woken_b" /\ vdisk_lock = NoProc
    /\ ~bdisk[p]
    /\ info' = [info EXCEPT ![idx[p]].b = NoProc]
    /\ free' = [i \in Desc |-> free[i] \/ i \in Chain(idx[p])]
    /\ desc' = [i \in Desc |-> IF i \in Chain(idx[p]) THEN NoDesc ELSE desc[i]]
    /\ pc' = WakeupFree(p, [pc EXCEPT ![p] = "idle"])
    /\ idx' = [idx EXCEPT ![p] = 0]                \* the call's variables
    /\ write' = [write EXCEPT ![p] = FALSE]        \* end with it
    /\ UNCHANGED <<ops, ring, dev, vdisk_lock, disk, data, bdisk>>
-----------------------------------------------------------------------------
(* virtio_disk_intr().                                                     *)

\* The interrupt is acknowledged before the used ring is looked at.
IntrAck ==
    /\ irq /\ vdisk_lock = NoProc
    /\ vdisk_lock' = Intr
    /\ irq' = FALSE
    /\ UNCHANGED <<drv, ring, devIdx, devQ, disk, data, bdisk, write, pc>>

\* One round of the loop: b->disk = 0; wakeup(b).
\* The device reports success: the panic on another status is left out.
IntrEntry ==
    /\ vdisk_lock = Intr /\ used_idx # usedIdx
    /\ LET b == info[used[used_idx % RING]].b
       IN  /\ bdisk' = [bdisk EXCEPT ![b] = FALSE]
           /\ pc' = [pc EXCEPT ![b] = IF @ = "sleep_b" THEN "woken_b" ELSE @]
    /\ used_idx' = Inc(used_idx)
    /\ UNCHANGED <<drv, avail, availIdx, used, usedIdx, dev, vdisk_lock, disk, data, write>>

\* Mutant: the handler looks at one used entry at most.
IntrDoneEarly ==
    /\ vdisk_lock = Intr
    /\ vdisk_lock' = NoProc
    /\ UNCHANGED <<drv, ring, dev, disk, data, bdisk, write, pc>>

IntrDone ==
    /\ vdisk_lock = Intr /\ used_idx = usedIdx
    /\ vdisk_lock' = NoProc
    /\ UNCHANGED <<drv, ring, dev, disk, data, bdisk, write, pc>>
-----------------------------------------------------------------------------
(* The device, as the driver relies on it: it fetches the chains of the    *)
(* avail ring in order, serves them in any order and raises an interrupt.  *)

DevFetch ==
    /\ devIdx # availIdx
    /\ devQ' = devQ \cup {avail[devIdx % RING]}
    /\ devIdx' = Inc(devIdx)
    /\ UNCHANGED <<drv, ring, irq, vdisk_lock, disk, data, bdisk, write, pc>>

DevServe(h) ==
    /\ h \in devQ
    /\ LET i1 == desc[h].next
           b  == desc[i1].addr
           s  == ops[h].sector
       IN  /\ IF ops[h].out
              THEN disk' = [disk EXCEPT ![s] = data[b]] /\ UNCHANGED data
              ELSE data' = [data EXCEPT ![b] = disk[s]] /\ UNCHANGED disk
           /\ info' = [info EXCEPT ![desc[desc[i1].next].addr].ok = TRUE]
    /\ used' = [used EXCEPT ![usedIdx % RING] = h]
    /\ usedIdx' = Inc(usedIdx)
    /\ irq' = TRUE
    /\ devQ' = devQ \ {h}
    /\ UNCHANGED <<free, desc, ops, idx, avail, availIdx, used_idx, devIdx, vdisk_lock,
                   bdisk, write, pc>>
-----------------------------------------------------------------------------
ProcStep(p) == AllocFails(p) \/ Submit(p) \/ Notify(p) \/ Return(p)
Handler == IntrAck \/ IntrEntry \/ IntrDone
Device == DevFetch \/ \E h \in devQ : DevServe(h)

\* The input of a call: where buffer and block are equal a transfer shows nothing.
Differs(p) == Value \ {disk[p]}

Next ==
    \/ \E p \in Proc : ProcStep(p) \/ \E w \in BOOLEAN, v \in Differs(p) : Call(p, w, v)
    \/ Handler
    \/ Device

Spec == Init /\ [][Next]_vars
-----------------------------------------------------------------------------
Label == {"idle", "alloc", "sleep_free", "notify", "sleep_b", "woken_b"}
Descriptor == [addr : Desc \cup Proc \cup {NoProc}, next : Desc, more : BOOLEAN]

\* The type of every variable; the first invariant below includes it.
TypeOK ==
    /\ free \in [Desc -> BOOLEAN] /\ desc \in [Desc -> Descriptor]
    /\ ops \in [Desc -> [out : BOOLEAN, sector : Proc \cup {NoProc}]]
    /\ info \in [Desc -> [b : Proc \cup {NoProc}, ok : BOOLEAN]]
    /\ avail \in [Entry -> Desc] /\ used \in [Entry -> Desc]
    /\ {availIdx, usedIdx, used_idx, devIdx} \subseteq 0..(IDXMOD - 1)
    /\ vdisk_lock \in Proc \cup {NoProc, Intr}
    /\ irq \in BOOLEAN /\ devQ \subseteq Desc
    /\ disk \in [Proc -> Value] /\ data \in [Proc -> Value]
    /\ bdisk \in [Proc -> BOOLEAN] /\ write \in [Proc -> BOOLEAN]
    /\ pc \in [Proc -> Label] /\ idx \in [Proc -> Desc]

InFlight == {p \in Proc : pc[p] \in {"notify", "sleep_b", "woken_b"}}

\* free_desc() (virtio_disk.c:174) never frees a free descriptor: the chains
\* of the requests in flight are disjoint, of three descriptors each, and
\* exactly their descriptors are in use.
ChainsPartition ==
    /\ TypeOK
    /\ {i \in Desc : ~free[i]} = UNION {Chain(idx[p]) : p \in InFlight}
    /\ \A p \in InFlight : Cardinality(Chain(idx[p])) = 3
    /\ \A p, q \in InFlight : p # q => Chain(idx[p]) \cap Chain(idx[q]) = {}

\* The comment at line 299: acknowledging first may at worst make the next
\* interrupt find nothing; no completion is left without an interrupt.  And
\* free_desc() wakes who sleeps for descriptors (virtio_disk.c:181, 232): nobody
\* does while three of them are free.
NoLostInterrupt ==
    /\ used_idx # usedIdx => irq \/ vdisk_lock = Intr
    /\ \A p \in Proc : pc[p] = "sleep_free" => Cardinality(FreeDescs) < 3

Sync == INSTANCE SyncDisk WITH
    req <- [p \in Proc |->
              IF pc[p] = "idle" THEN "none"
              ELSE IF p \in InFlight /\ info[idx[p]].ok THEN "done" ELSE "called"]

\* virtio_disk_rw() transfers the caller's block exactly once before it
\* returns, whichever order the device completes the requests in.
SyncSpec == Sync!Spec
=============================================================================
