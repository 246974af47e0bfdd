---------------------------- MODULE VirtioProofs ----------------------------
(***************************************************************************)
(* Proofs about the disk driver, for any number of processes, descriptors  *)
(* and ring entries: chains are disjoint, no completion and no freed       *)
(* descriptor goes unnoticed, and the driver implements SyncDisk.          *)
(***************************************************************************)
EXTENDS VirtioDisk, FiniteSetTheorems, WellFoundedInduction, TLAPS

-----------------------------------------------------------------------------
(* The inductive invariant.                                                *)

\* The chain of a request: header, buffer and status byte.
J(p) == desc[idx[p]].next
K(p) == desc[J(p)].next
Cells(p) == {idx[p], J(p), K(p)}
ChainOk(p) ==
    /\ idx[p] # J(p) /\ idx[p] # K(p) /\ J(p) # K(p)
    /\ desc[idx[p]].more /\ desc[J(p)].more /\ ~desc[K(p)].more
    /\ desc[J(p)].addr = p /\ desc[K(p)].addr = idx[p]
    /\ ops[idx[p]].out = write[p] /\ ops[idx[p]].sector = p /\ info[idx[p]].b = p

Heads == {idx[p] : p \in InFlight}
ChainInv ==
    /\ \A p \in InFlight : ChainOk(p)
    /\ \A d \in Desc : ~free[d] <=> \E p \in InFlight : d \in Cells(p)
    /\ \A p, q \in InFlight : p # q => Cells(p) \cap Cells(q) = {}
CountInv == 3 * Cardinality(Heads) + Cardinality(FreeDescs) = NUM

\* How far a request is.
Placed(p) ==
    /\ bdisk[p] <=> pc[p] \in {"notify", "sleep_b"}
    /\ pc[p] = "notify" <=> vdisk_lock = p
    /\ pc[p] = "notify" => ~info[idx[p]].ok /\ avail[availIdx % RING] = idx[p]
    /\ pc[p] = "woken_b" => info[idx[p]].ok
PlaceInv == \A p \in Proc : Placed(p)
DevInv == \A h \in devQ : \E p \in Proc : pc[p] = "sleep_b" /\ idx[p] = h /\ ~info[h].ok

\* A ring r has, from index b on, n entries: the descriptors H, each once.
Ahead(a, b) == (a - b) % IDXMOD
Lists(r, b, n, H) ==
    /\ n = Cardinality(H)
    /\ \A k \in 0..(n - 1) : r[(b + k) % RING] \in H
    /\ \A j, k \in 0..(n - 1) : r[(b + j) % RING] = r[(b + k) % RING] => j = k
    /\ \A h \in H : \E k \in 0..(n - 1) : r[(b + k) % RING] = h
Pending(p) == pc[p] = "sleep_b" /\ ~info[idx[p]].ok /\ idx[p] \notin devQ
Served(p) == pc[p] = "sleep_b" /\ info[idx[p]].ok
PendingHeads == {idx[p] : p \in {q \in Proc : Pending(q)}}
ServedHeads == {idx[p] : p \in {q \in Proc : Served(q)}}
AvailInv == Lists(avail, devIdx, Ahead(availIdx, devIdx), PendingHeads)
UsedInv == Lists(used, used_idx, Ahead(usedIdx, used_idx), ServedHeads)

Inv == /\ TypeOK /\ ChainInv /\ CountInv /\ PlaceInv /\ DevInv /\ AvailInv /\ UsedInv /\ NoLostInterrupt

-----------------------------------------------------------------------------
(* Ring indices.                                                           *)

\* A remainder is what is left beyond whole turns.
LEMMA ModUnique ==
    ASSUME NEW m \in Nat \ {0}, NEW q \in Int, NEW r \in 0..(m - 1)
    PROVE  (m * q + r) % m = r
OBVIOUS

\* Division with remainder.
LEMMA ModDef ==
    ASSUME NEW m \in Nat \ {0}, NEW x \in Int
    PROVE  x \div m \in Int /\ x % m \in 0..(m - 1) /\ x = m * (x \div m) + (x % m)
OBVIOUS

\* Sums of turns are turns.
LEMMA Turns ==
    ASSUME NEW m \in Int, NEW a \in Int, NEW b \in Int, NEW r \in Int
    PROVE  (m * a + r) + m * b = m * (a + b) + r /\ m * a - m * b = m * (a - b)
OBVIOUS

\* At most one turn away from 0..m-1.
LEMMA ModNear ==
    ASSUME NEW m \in Nat \ {0}, NEW x \in (-m)..(2 * m - 1)
    PROVE  x % m = IF x < 0 THEN x + m ELSE IF x < m THEN x ELSE x - m
<1>1. CASE x < 0
  <2>1. x = m * (-1) + (x + m) /\ x + m \in 0..(m - 1)
    BY <1>1
  <2> QED BY <1>1, <2>1, ModUnique
<1>2. CASE x >= 0 /\ x < m
  <2>1. x = m * 0 + x /\ x \in 0..(m - 1)
    BY <1>2
  <2> QED BY <1>2, <2>1, ModUnique
<1>3. CASE x >= m
  <2>1. x = m * 1 + (x - m) /\ x - m \in 0..(m - 1)
    BY <1>3
  <2> QED BY <1>3, <2>1, ModUnique
<1> QED BY <1>1, <1>2, <1>3

\* Entries less than a turn apart are different places of a ring.
LEMMA ModDistinct ==
    ASSUME NEW m \in Nat \ {0}, NEW x \in Int, NEW y \in Int, x % m = y % m, x - y < m, y - x < m
    PROVE  x = y
<1> DEFINE a == x \div m  b == y \div m  r == x % m
<1>1. a \in Int /\ r \in 0..(m - 1) /\ x = m * a + r
  BY ModDef, ZenonT(30)
<1>2. b \in Int /\ y = m * b + r
  BY ModDef, ZenonT(30)
<1> HIDE DEF a, b, r
<1> DEFINE d == a - b
<1>3. x - y = m * d /\ d \in Int
  BY <1>1, <1>2, Turns
<1> HIDE DEF d
<1>4. ~(d >= 1) /\ ~(d <= -1)
  BY <1>3
<1> QED BY <1>1, <1>2, <1>3, <1>4

\* A 16-bit index that wraps stays at its place, since RING divides IDXMOD.
LEMMA Wrap ==
    ASSUME NEW x \in Int
    PROVE  (x + IDXMOD) % RING = x % RING
<1> DEFINE a == x \div RING  b == IDXMOD \div RING  r == x % RING
<1>0. RING \in Nat \ {0} /\ IDXMOD \in Nat /\ IDXMOD % RING = 0
  BY VirtioAssumption
<1>1. a \in Int /\ r \in 0..(RING - 1) /\ x = RING * a + r
  BY <1>0, ModDef, ZenonT(30)
<1>2. b \in Int /\ IDXMOD = RING * b
  BY <1>0, ModDef
<1> HIDE DEF a, b, r
<1>3. x + IDXMOD = RING * (a + b) + r
  BY <1>0, <1>1, <1>2, Turns
<1>4. (x + IDXMOD) % RING = r
  BY <1>0, <1>1, <1>2, <1>3, ModUnique
<1> QED BY <1>4, ZenonT(30) DEF r

Index == 0..(IDXMOD - 1)

\* An index that is incremented.
LEMMA IncIs ==
    ASSUME NEW a \in Index
    PROVE  Inc(a) \in Index /\ Inc(a) = IF a + 1 < IDXMOD THEN a + 1 ELSE 0
<1> DEFINE x == a + 1
<1>1. IDXMOD \in Nat \ {0} /\ x \in (-IDXMOD)..(2 * IDXMOD - 1) /\ ~(x < 0)
  BY VirtioAssumption DEF Index
<1> HIDE DEF x
<1>2. x % IDXMOD = IF x < IDXMOD THEN x ELSE x - IDXMOD
  BY <1>1, ModNear, ZenonT(30)
<1> QED BY <1>2, VirtioAssumption DEF Inc, Index, x

\* How far one index is ahead of another.
LEMMA AheadIs ==
    ASSUME NEW a \in Index, NEW b \in Index
    PROVE  /\ Ahead(a, b) = IF a >= b THEN a - b ELSE (a - b) + IDXMOD
           /\ Ahead(a, b) \in Index /\ (Ahead(a, b) = 0 <=> a = b)
<1> DEFINE x == a - b
<1>1. IDXMOD \in Nat \ {0} /\ x \in (-IDXMOD)..(2 * IDXMOD - 1) /\ x < IDXMOD
  BY VirtioAssumption DEF Index
<1> HIDE DEF x
<1>2. x % IDXMOD = IF x < 0 THEN x + IDXMOD ELSE x
  BY <1>1, ModNear, ZenonT(30)
<1> QED BY <1>2, VirtioAssumption DEF Ahead, Index, x

\* The leading index moves.
LEMMA AheadPut ==
    ASSUME NEW a \in Index, NEW b \in Index, Ahead(a, b) + 1 < IDXMOD
    PROVE  Ahead(Inc(a), b) = Ahead(a, b) + 1
<1> DEFINE c == Inc(a)
<1>1. c \in Index /\ c = IF a + 1 < IDXMOD THEN a + 1 ELSE 0
  BY IncIs, ZenonT(30)
<1> HIDE DEF c
<1>2. Ahead(c, b) = IF c >= b THEN c - b ELSE (c - b) + IDXMOD
  BY <1>1, AheadIs, ZenonT(30)
<1>3. Ahead(a, b) = IF a >= b THEN a - b ELSE (a - b) + IDXMOD
  BY AheadIs, ZenonT(30)
<1>4. Ahead(c, b) = Ahead(a, b) + 1
  BY <1>1, <1>2, <1>3, VirtioAssumption DEF Index
<1> QED BY <1>4, ZenonT(30) DEF c

\* The other follows.
LEMMA AheadGet ==
    ASSUME NEW a \in Index, NEW b \in Index, a # b
    PROVE  Ahead(a, Inc(b)) = Ahead(a, b) - 1 /\ Ahead(a, b) \in Nat \ {0}
<1> DEFINE c == Inc(b)
<1>1. c \in Index /\ c = IF b + 1 < IDXMOD THEN b + 1 ELSE 0
  BY IncIs, ZenonT(30)
<1> HIDE DEF c
<1>2. Ahead(a, c) = IF a >= c THEN a - c ELSE (a - c) + IDXMOD
  BY <1>1, AheadIs, ZenonT(30)
<1>3. Ahead(a, b) = IF a >= b THEN a - b ELSE (a - b) + IDXMOD
  BY AheadIs, ZenonT(30)
<1>4. Ahead(a, c) = Ahead(a, b) - 1 /\ Ahead(a, b) \in Nat \ {0}
  BY <1>1, <1>2, <1>3, VirtioAssumption DEF Index
<1> QED BY <1>4, ZenonT(30) DEF c

\* The place at which the next entry goes.
LEMMA NextPlace ==
    ASSUME NEW a \in Index, NEW b \in Index
    PROVE  a % RING = (b + Ahead(a, b)) % RING
<1> DEFINE n == Ahead(a, b)
<1>0. n = IF a >= b THEN a - b ELSE (a - b) + IDXMOD
  BY AheadIs, ZenonT(30)
<1> HIDE DEF n
<1>1. a \in Int /\ (b + n = a \/ b + n = a + IDXMOD)
  BY <1>0, VirtioAssumption DEF Index
<1>2. (a + IDXMOD) % RING = a % RING
  BY <1>1, Wrap, ZenonT(30)
<1>3. (b + n) % RING = a % RING
  BY <1>1, <1>2, ZenonT(30)
<1> QED BY <1>3, ZenonT(30) DEF n

\* Entry k beyond the next one.
LEMMA Shift ==
    ASSUME NEW b \in Index, NEW k \in Nat
    PROVE  (Inc(b) + k) % RING = (b + (k + 1)) % RING
<1> DEFINE c == Inc(b)
           x == c + k
           y == b + (k + 1)
<1>1. x \in Int /\ (y = x \/ y = x + IDXMOD)
  BY IncIs, VirtioAssumption DEF Index
<1> HIDE DEF x, y
<1>2. (x + IDXMOD) % RING = x % RING
  BY <1>1, Wrap, ZenonT(30)
<1>3. x % RING = y % RING
  BY <1>1, <1>2, ZenonT(30)
<1> QED BY <1>3, ZenonT(30) DEF x, y

\* A place of a ring.
LEMMA PlaceOf ==
    ASSUME NEW b \in Index, NEW k \in Nat
    PROVE  (b + k) % RING \in Entry
<1> DEFINE x == b + k
<1>1. x \in Int /\ RING \in Nat \ {0}
  BY VirtioAssumption DEF Index
<1> HIDE DEF x
<1>2. x % RING \in 0..(RING - 1)
  BY <1>1, ModDef, ZenonT(30)
<1> QED BY <1>2, ZenonT(30) DEF Entry, x

-----------------------------------------------------------------------------
(* The entries of a ring.                                                  *)

\* Descriptors are finitely many.
LEMMA Finite ==
    ASSUME NEW H \in SUBSET Desc
    PROVE  IsFiniteSet(H) /\ Cardinality(H) \in Nat
<1>1. IsFiniteSet(Desc)
  BY VirtioAssumption, FS_Interval DEF Desc
<1>2. IsFiniteSet(H)
  BY <1>1, FS_Subset, ZenonT(30)
<1> QED BY <1>2, FS_CardinalityType, ZenonT(30)

\* An entry is written beyond those that wait.
LEMMA ListsWrite ==
    ASSUME NEW r \in [Entry -> Desc], NEW b \in Index, NEW n \in Nat, NEW H \in SUBSET Desc,
           NEW h \in Desc, Lists(r, b, n, H), n < RING
    PROVE  Lists([r EXCEPT ![(b + n) % RING] = h], b, n, H)
<1> DEFINE e == (b + n) % RING
           s == [r EXCEPT ![e] = h]
<1>1. ASSUME NEW k \in 0..(n - 1) PROVE s[(b + k) % RING] = r[(b + k) % RING]
  <2> DEFINE x == b + k
             y == b + n
  <2>1. x \in Int /\ y \in Int /\ x - y < RING /\ y - x < RING /\ x # y /\ RING \in Nat \ {0} /\ k \in Nat
    BY VirtioAssumption DEF Index
  <2>2. x % RING \in Entry
    BY <2>1, PlaceOf, ZenonT(30)
  <2>3. x % RING # y % RING
    <3> HIDE DEF x, y
    <3> QED BY <2>1, ModDistinct, ZenonT(30)
  <2> QED BY <2>2, <2>3, ZenonT(30)
<1> HIDE DEF s, e
<1>2. Lists(s, b, n, H)
  BY <1>1, ZenonT(30) DEF Lists
<1> QED BY <1>2, ZenonT(30) DEF s, e

\* The leading index moves over an entry.
LEMMA ListsPut ==
    ASSUME NEW r, NEW b \in Index, NEW n \in Nat, NEW H \in SUBSET Desc,
           NEW h \in Desc \ H, Lists(r, b, n, H), r[(b + n) % RING] = h
    PROVE  Lists(r, b, n + 1, H \cup {h})
<1>1. n + 1 = Cardinality(H \cup {h})
  <2>1. IsFiniteSet(H) /\ h \notin H
    BY Finite, ZenonT(30)
  <2>2. Cardinality(H \cup {h}) = Cardinality(H) + 1
    BY <2>1, FS_AddElement, ZenonT(30)
  <2> QED BY <2>2, ZenonT(30) DEF Lists
<1>2. ASSUME NEW k \in 0..((n + 1) - 1) PROVE k \in 0..(n - 1) \/ k = n
  OBVIOUS
<1>3. ASSUME NEW k \in 0..((n + 1) - 1) PROVE r[(b + k) % RING] \in H \cup {h}
  BY <1>2, ZenonT(30) DEF Lists
<1>4. ASSUME NEW j \in 0..((n + 1) - 1), NEW k \in 0..((n + 1) - 1), r[(b + j) % RING] = r[(b + k) % RING]
      PROVE  j = k
  <2>1. CASE j \in 0..(n - 1) /\ k \in 0..(n - 1)
    BY <1>4, <2>1, ZenonT(30) DEF Lists
  <2>2. CASE j = n /\ k \in 0..(n - 1)
    BY <1>4, <2>2, ZenonT(30) DEF Lists
  <2>3. CASE k = n /\ j \in 0..(n - 1)
    BY <1>4, <2>3, ZenonT(30) DEF Lists
  <2> QED BY <1>2, <2>1, <2>2, <2>3, ZenonT(30)
<1>5. ASSUME NEW g \in H \cup {h} PROVE \E k \in 0..((n + 1) - 1) : r[(b + k) % RING] = g
  <2>1. CASE g = h
    BY <2>1
  <2>2. CASE g \in H
    <3>1. PICK k \in 0..(n - 1) : r[(b + k) % RING] = g
      BY <2>2, ZenonT(30) DEF Lists
    <3>2. k \in 0..((n + 1) - 1)
      OBVIOUS
    <3> QED BY <3>1, <3>2, ZenonT(30)
  <2> QED BY <2>1, <2>2, ZenonT(30)
<1> QED BY <1>1, <1>3, <1>4, <1>5, ZenonT(30) DEF Lists

\* The other index moves: the first entry is taken.
LEMMA ListsGet ==
    ASSUME NEW r, NEW b \in Index, NEW n \in Nat \ {0}, NEW H \in SUBSET Desc, Lists(r, b, n, H)
    PROVE  /\ r[b % RING] \in H
           /\ Lists(r, Inc(b), n - 1, H \ {r[b % RING]})
<1> DEFINE h == r[b % RING]
<1>0. 0 \in 0..(n - 1) /\ b + 0 = b
  BY DEF Index
<1>1. h \in H
  BY <1>0, ZenonT(30) DEF Lists
<1>2. n - 1 = Cardinality(H \ {h})
  <2>1. IsFiniteSet(H)
    BY Finite, ZenonT(30)
  <2> HIDE DEF h
  <2>2. Cardinality(H \ {h}) = Cardinality(H) - 1
    BY <1>1, <2>1, FS_RemoveElement, ZenonT(30)
  <2> QED BY <2>2, ZenonT(30) DEF Lists
<1>3. ASSUME NEW k \in 0..((n - 1) - 1)
      PROVE  k + 1 \in 0..(n - 1) /\ r[(Inc(b) + k) % RING] = r[(b + (k + 1)) % RING]
  BY Shift
<1>4. ASSUME NEW k \in 0..((n - 1) - 1) PROVE r[(Inc(b) + k) % RING] \in H \ {h}
  <2> DEFINE j == k + 1
  <2>1. j \in 0..(n - 1) /\ j # 0 /\ r[(Inc(b) + k) % RING] = r[(b + j) % RING]
    BY <1>3
  <2> HIDE DEF j
  <2>2. r[(b + j) % RING] \in H /\ r[(b + j) % RING] # r[(b + 0) % RING]
    BY <1>0, <2>1, ZenonT(30) DEF Lists
  <2> QED BY <1>0, <2>1, <2>2, ZenonT(30)
<1>5. ASSUME NEW j \in 0..((n - 1) - 1), NEW k \in 0..((n - 1) - 1),
             r[(Inc(b) + j) % RING] = r[(Inc(b) + k) % RING]
      PROVE  j = k
  <2> DEFINE jj == j + 1
             kk == k + 1
  <2>1. jj \in 0..(n - 1) /\ kk \in 0..(n - 1) /\ r[(b + jj) % RING] = r[(b + kk) % RING]
    BY <1>3, <1>5, ZenonT(30)
  <2> HIDE DEF jj, kk
  <2>2. jj = kk
    BY <2>1, ZenonT(30) DEF Lists
  <2> QED BY <2>2 DEF jj, kk
<1>6. ASSUME NEW g \in H \ {h} PROVE \E k \in 0..((n - 1) - 1) : r[(Inc(b) + k) % RING] = g
  <2>1. PICK j \in 0..(n - 1) : r[(b + j) % RING] = g
    BY ZenonT(30) DEF Lists
  <2>2. j # 0
    BY <1>0, <2>1, ZenonT(30)
  <2> DEFINE k == j - 1
  <2>3. k \in 0..((n - 1) - 1) /\ k + 1 = j
    BY <2>2
  <2> HIDE DEF k
  <2>4. r[(Inc(b) + k) % RING] = g
    BY <1>3, <2>1, <2>3, ZenonT(30)
  <2> QED BY <2>3, <2>4, ZenonT(30)
<1> HIDE DEF h
<1>7. Lists(r, Inc(b), n - 1, H \ {h})
  BY <1>2, <1>4, <1>5, <1>6, ZenonT(30) DEF Lists
<1> QED BY <1>1, <1>7, ZenonT(30) DEF h

-----------------------------------------------------------------------------
(* The steps, with the descriptors they use as parameters.                 *)

\* A minimum by the order of the naturals.
LEMMA LeastIn ==
    ASSUME NEW R, NEW S, S \subseteq Nat,
           \E x \in S : \A y \in S : ~(<<y, x>> \in R),
           \A x, y \in Nat : y < x => <<y, x>> \in R
    PROVE  \E x \in S : \A y \in S : x <= y
<1>1. PICK x \in S : \A y \in S : ~(<<y, x>> \in R)
  OBVIOUS
<1>2. ASSUME NEW y \in S PROVE x <= y
  <2>1. ~(y < x)
    BY <1>1, Zenon
  <2>2. x \in Nat /\ y \in Nat
    OBVIOUS
  <2> QED BY <2>1, <2>2
<1> QED BY <1>2, ZenonT(30)

\* alloc_desc() finds a free descriptor when there is one.
LEMMA Least ==
    ASSUME NEW S \in SUBSET Desc, S # {}
    PROVE  Min(S) \in S
<1>0. S \subseteq Nat
  BY VirtioAssumption DEF Desc
<1>1. \E x \in S : \A y \in S : ~(<<y, x>> \in OpToRel(<, Nat))
  BY <1>0, NatLessThanWellFounded, WFMin, ZenonT(30)
<1>2. \A x, y \in Nat : y < x => <<y, x>> \in OpToRel(<, Nat)
  BY ZenonT(30) DEF OpToRel
<1>3. \E x \in S : \A y \in S : x <= y
  BY <1>0, <1>1, <1>2, LeastIn, ZenonT(30)
<1> QED BY <1>3, ZenonT(30) DEF Min

SubmitAt(p, i, j, k) ==
    /\ pc[p] = "alloc" /\ vdisk_lock = NoProc
    /\ free[i] /\ free[j] /\ free[k] /\ i # j /\ i # k /\ j # k
    /\ Cardinality(FreeDescs) >= 3
    /\ free' = [free EXCEPT ![i] = FALSE, ![j] = FALSE, ![k] = FALSE]
    /\ ops' = [ops EXCEPT ![i] = [out |-> write[p], sector |-> p]]
    /\ desc' = [desc EXCEPT
          ![i] = [addr |-> i, next |-> j, more |-> TRUE],
          ![j] = [addr |-> p, next |-> k, more |-> TRUE],
          ![k] = [addr |-> i, next |-> 0, more |-> FALSE]]
    /\ info' = [info EXCEPT ![i] = [b |-> p, ok |-> FALSE]]
    /\ idx' = [idx EXCEPT ![p] = i]
    /\ avail' = [avail EXCEPT ![availIdx % RING] = i]
    /\ bdisk' = [bdisk EXCEPT ![p] = TRUE]
    /\ vdisk_lock' = p
    /\ pc' = [pc EXCEPT ![p] = "notify"]
    /\ UNCHANGED <<availIdx, used, usedIdx, used_idx, dev, disk, data, write>>

\* alloc3_desc() finds three.
LEMMA IsSubmit ==
    ASSUME TypeOK, NEW p \in Proc, Submit(p)
    PROVE  \E i, j, k \in Desc : SubmitAt(p, i, j, k)
<1> DEFINE S == FreeDescs
           i == Min(S)
           T == S \ {i}
           j == Min(T)
           U == S \ {i, j}
           k == Min(U)
<1>1. S \in SUBSET Desc /\ Cardinality(S) >= 3
  BY ZenonT(30) DEF FreeDescs, Submit
<1>2. i \in S /\ T \in SUBSET Desc /\ IsFiniteSet(T) /\ Cardinality(T) >= 2
  <2> HIDE DEF S
  <2>1. IsFiniteSet(S) /\ Cardinality(S) \in Nat
    BY <1>1, Finite, ZenonT(30)
  <2>2. S # {}
    BY <1>1, FS_EmptySet
  <2>3. i \in S
    BY <1>1, <2>2, Least, ZenonT(30)
  <2> HIDE DEF i
  <2>4. IsFiniteSet(T) /\ Cardinality(T) = Cardinality(S) - 1
    BY <2>1, <2>3, FS_RemoveElement, ZenonT(30)
  <2> QED BY <1>1, <2>1, <2>3, <2>4
<1>3. j \in T /\ U \in SUBSET Desc /\ U # {}
  <2> HIDE DEF S, i
  <2>0. U = T \ {j}
    OBVIOUS
  <2> HIDE DEF T, U
  <2>2. T # {}
    BY <1>2, FS_EmptySet
  <2>3. j \in T
    BY <1>2, <2>2, Least, ZenonT(30)
  <2> HIDE DEF j
  <2>4. IsFiniteSet(U) /\ Cardinality(U) = Cardinality(T) - 1 /\ Cardinality(T) \in Nat
    BY <1>2, <2>0, <2>3, FS_RemoveElement, FS_CardinalityType, ZenonT(30)
  <2>5. U # {}
    BY <1>2, <2>4, FS_EmptySet
  <2> QED BY <1>2, <2>0, <2>3, <2>5, ZenonT(30)
<1>4. k \in U
  <2> HIDE DEF U
  <2> QED BY <1>3, Least, ZenonT(30)
<1> HIDE DEF i, j, k
<1>5. /\ i \in Desc /\ j \in Desc /\ k \in Desc /\ i # j /\ i # k /\ j # k
      /\ free[i] /\ free[j] /\ free[k]
  BY <1>2, <1>3, <1>4, ZenonT(30) DEF FreeDescs
<1>6. SubmitAt(p, i, j, k)
  BY <1>5, ZenonT(30) DEF Submit, SubmitAt, Goto, i, j, k
<1> QED BY <1>5, <1>6, ZenonT(30)

\* free_chain() walks over the three cells of a chain.
LEMMA ChainIs ==
    ASSUME TypeOK, NEW p \in Proc, ChainOk(p)
    PROVE  /\ Chain(idx[p]) = Cells(p)
           /\ idx[p] \in Desc /\ J(p) \in Desc /\ K(p) \in Desc /\ Cells(p) \subseteq Desc
<1>1. idx[p] \in Desc
  BY ZenonT(30) DEF TypeOK
<1>2. J(p) \in Desc
  BY <1>1, ZenonT(30) DEF TypeOK, Descriptor, J
<1>3. K(p) \in Desc
  BY <1>2, ZenonT(30) DEF TypeOK, Descriptor, K
<1>4. Chain(idx[p]) = Cells(p)
  BY ZenonT(30) DEF Chain, Cells, ChainOk, J, K
<1> QED BY <1>1, <1>2, <1>3, <1>4, ZenonT(30) DEF Cells

ReturnOf(p) ==
    /\ pc[p] = "woken_b" /\ vdisk_lock = NoProc
    /\ ~bdisk[p]
    /\ info' = [info EXCEPT ![idx[p]].b = NoProc]
    /\ free' = [d \in Desc |-> free[d] \/ d \in Cells(p)]
    /\ desc' = [d \in Desc |-> IF d \in Cells(p) THEN NoDesc ELSE desc[d]]
    /\ pc' = WakeupFree(p, [pc EXCEPT ![p] = "idle"])
    /\ idx' = [idx EXCEPT ![p] = 0]
    /\ write' = [write EXCEPT ![p] = FALSE]
    /\ UNCHANGED <<ops, ring, dev, vdisk_lock, disk, data, bdisk>>

\* virtio_disk_rw() frees the chain of its request.
LEMMA IsReturn ==
    ASSUME TypeOK, ChainInv, NEW p \in Proc, Return(p)
    PROVE  ReturnOf(p)
<1>1. p \in InFlight
  BY ZenonT(30) DEF Return, InFlight
<1>2. Chain(idx[p]) = Cells(p)
  BY <1>1, ChainIs, ZenonT(30) DEF ChainInv
<1> QED BY <1>2, ZenonT(30) DEF Return, ReturnOf

\* Two requests do not have the same first descriptor.
LEMMA OneOwner ==
    ASSUME ChainInv, NEW p \in InFlight, NEW q \in InFlight, idx[p] = idx[q]
    PROVE  p = q
BY DEF ChainInv, ChainOk

FetchOf(p) ==
    /\ devIdx # availIdx /\ Pending(p) /\ idx[p] = avail[devIdx % RING]
    /\ devQ' = devQ \cup {idx[p]}
    /\ devIdx' = Inc(devIdx)
    /\ UNCHANGED <<drv, ring, irq, vdisk_lock, disk, data, bdisk, write, pc>>
EntryOf(p) ==
    /\ vdisk_lock = Intr /\ used_idx # usedIdx /\ Served(p) /\ idx[p] = used[used_idx % RING]
    /\ bdisk' = [bdisk EXCEPT ![p] = FALSE]
    /\ pc' = [pc EXCEPT ![p] = "woken_b"]
    /\ used_idx' = Inc(used_idx)
    /\ UNCHANGED <<drv, avail, availIdx, used, usedIdx, dev, vdisk_lock, disk, data, write>>
ServeOf(p) ==
    /\ pc[p] = "sleep_b" /\ idx[p] \in devQ /\ ~info[idx[p]].ok
    /\ IF write[p]
       THEN disk' = [disk EXCEPT ![p] = data[p]] /\ UNCHANGED data
       ELSE data' = [data EXCEPT ![p] = disk[p]] /\ UNCHANGED disk
    /\ info' = [info EXCEPT ![idx[p]].ok = TRUE]
    /\ used' = [used EXCEPT ![usedIdx % RING] = idx[p]]
    /\ usedIdx' = Inc(usedIdx)
    /\ irq' = TRUE
    /\ devQ' = devQ \ {idx[p]}
    /\ UNCHANGED <<free, desc, ops, idx, avail, availIdx, used_idx, devIdx, vdisk_lock,
                   bdisk, write, pc>>

\* The heads of requests are descriptors.
LEMMA HeadSets ==
    ASSUME TypeOK
    PROVE  /\ PendingHeads \in SUBSET Desc /\ ServedHeads \in SUBSET Desc /\ Heads \in SUBSET Desc
           /\ PendingHeads \subseteq Heads /\ ServedHeads \subseteq Heads
<1>1. idx \in [Proc -> Desc]
  BY ZenonT(30) DEF TypeOK
<1> QED BY <1>1, ZenonT(30) DEF PendingHeads, ServedHeads, Heads, Pending, Served, InFlight

\* The indices are indices.
LEMMA Indices ==
    ASSUME TypeOK
    PROVE  /\ availIdx \in Index /\ devIdx \in Index /\ usedIdx \in Index /\ used_idx \in Index
           /\ avail \in [Entry -> Desc] /\ used \in [Entry -> Desc]
BY ZenonT(30) DEF TypeOK, Index

\* The device fetches a request that waits for it.
LEMMA IsFetch ==
    ASSUME TypeOK, AvailInv, DevFetch
    PROVE  \E p \in Proc : FetchOf(p)
<1> DEFINE n == Ahead(availIdx, devIdx)
           H == PendingHeads
<1>1. availIdx \in Index /\ devIdx \in Index /\ devIdx # availIdx /\ H \in SUBSET Desc
  BY Indices, HeadSets, ZenonT(30) DEF DevFetch
<1>2. n \in Nat \ {0}
  BY <1>1, AheadGet, ZenonT(30)
<1>3. Lists(avail, devIdx, n, H)
  BY ZenonT(30) DEF AvailInv
<1> HIDE DEF n, H
<1>4. avail[devIdx % RING] \in H
  BY <1>1, <1>2, <1>3, ListsGet, ZenonT(30)
<1>5. PICK p \in Proc : Pending(p) /\ idx[p] = avail[devIdx % RING]
  BY <1>4, ZenonT(30) DEF H, PendingHeads
<1> QED BY <1>5, ZenonT(30) DEF DevFetch, FetchOf

\* The handler finds a request that was served.
LEMMA IsEntry ==
    ASSUME TypeOK, ChainInv, UsedInv, IntrEntry
    PROVE  \E p \in Proc : EntryOf(p)
<1> DEFINE n == Ahead(usedIdx, used_idx)
           H == ServedHeads
<1>1. usedIdx \in Index /\ used_idx \in Index /\ used_idx # usedIdx /\ H \in SUBSET Desc
  BY Indices, HeadSets, ZenonT(30) DEF IntrEntry
<1>2. n \in Nat \ {0}
  BY <1>1, AheadGet, ZenonT(30)
<1>3. Lists(used, used_idx, n, H)
  BY ZenonT(30) DEF UsedInv
<1> HIDE DEF n, H
<1>4. used[used_idx % RING] \in H
  BY <1>1, <1>2, <1>3, ListsGet, ZenonT(30)
<1>5. PICK p \in Proc : Served(p) /\ idx[p] = used[used_idx % RING]
  BY <1>4, ZenonT(30) DEF H, ServedHeads
<1>6. info[used[used_idx % RING]].b = p /\ pc[p] = "sleep_b"
  BY <1>5, ZenonT(30) DEF Served, ChainInv, ChainOk, InFlight
<1>7. pc' = [pc EXCEPT ![p] = "woken_b"] /\ bdisk' = [bdisk EXCEPT ![p] = FALSE]
  BY <1>6, ZenonT(30) DEF IntrEntry
<1> QED BY <1>5, <1>7, ZenonT(30) DEF IntrEntry, EntryOf

\* The device moves the block of the request, and sets its status byte.
LEMMA IsServe ==
    ASSUME TypeOK, ChainInv, DevInv, NEW h \in devQ, DevServe(h)
    PROVE  \E p \in Proc : ServeOf(p)
<1>1. PICK p \in Proc : pc[p] = "sleep_b" /\ idx[p] = h /\ ~info[h].ok
  BY ZenonT(30) DEF DevInv
<1>2. ChainOk(p)
  BY <1>1, ZenonT(30) DEF ChainInv, InFlight
<1>3. /\ desc[desc[h].next].addr = p /\ desc[desc[desc[h].next].next].addr = h
      /\ ops[h].sector = p /\ ops[h].out = write[p]
  BY <1>1, <1>2, ZenonT(30) DEF ChainOk, J, K
<1> QED BY <1>1, <1>3, ZenonT(30) DEF DevServe, ServeOf

-----------------------------------------------------------------------------
(* Every step keeps the invariant.                                         *)

Step ==
    \/ IntrAck \/ IntrDone
    \/ \E p \in Proc :
         \/ AllocFails(p) \/ Notify(p) \/ ReturnOf(p) \/ EntryOf(p) \/ FetchOf(p) \/ ServeOf(p)
         \/ \E w \in BOOLEAN, v \in Value : Call(p, w, v)
         \/ \E i, j, k \in Desc : SubmitAt(p, i, j, k)

\* The parts of TypeOK.
DescType ==
    /\ free \in [Desc -> BOOLEAN] /\ desc \in [Desc -> Descriptor]
    /\ ops \in [Desc -> [out : BOOLEAN, sector : Proc \cup {NoProc}]]
    /\ info \in [Desc -> [b : Proc \cup {NoProc}, ok : BOOLEAN]]
    /\ idx \in [Proc -> Desc]
RingType ==
    /\ avail \in [Entry -> Desc] /\ used \in [Entry -> Desc]
    /\ availIdx \in Index /\ usedIdx \in Index /\ used_idx \in Index /\ devIdx \in Index
    /\ irq \in BOOLEAN /\ devQ \subseteq Desc
BufType ==
    /\ vdisk_lock \in Proc \cup {NoProc, Intr}
    /\ disk \in [Proc -> Value] /\ data \in [Proc -> Value]
    /\ bdisk \in [Proc -> BOOLEAN] /\ write \in [Proc -> BOOLEAN]
    /\ pc \in [Proc -> Label]

\* They make it up.
LEMMA TypeParts ==
    /\ TypeOK <=> DescType /\ RingType /\ BufType
    /\ TypeOK' <=> DescType' /\ RingType' /\ BufType'
BY ZenonT(30) DEF TypeOK, DescType, RingType, BufType, Index

\* Every step does one of these things.
LEMMA Cases ==
    ASSUME Inv, Next
    PROVE  Step
<1>0. TypeOK /\ ChainInv /\ DevInv /\ AvailInv /\ UsedInv
  BY ZenonT(30) DEF Inv
<1>1. ASSUME NEW p \in Proc, ProcStep(p) PROVE Step
  <2>1. CASE Submit(p)
    BY <1>0, <2>1, IsSubmit, ZenonT(30) DEF Step
  <2>2. CASE Return(p)
    BY <1>0, <2>2, IsReturn, ZenonT(30) DEF Step
  <2> QED BY <1>1, <2>1, <2>2, ZenonT(30) DEF ProcStep, Step
<1>2. ASSUME NEW p \in Proc, NEW w \in BOOLEAN, NEW v \in Differs(p), Call(p, w, v) PROVE Step
  BY <1>2, ZenonT(30) DEF Differs, Step
<1>3. CASE Handler
  BY <1>0, <1>3, IsEntry, ZenonT(30) DEF Handler, Step
<1>4. CASE DevFetch
  BY <1>0, <1>4, IsFetch, ZenonT(30) DEF Step
<1>5. ASSUME NEW h \in devQ, DevServe(h) PROVE Step
  BY <1>0, <1>5, IsServe, ZenonT(30) DEF Step
<1> QED BY <1>1, <1>2, <1>3, <1>4, <1>5, ZenonT(30) DEF Next, Device

\* Descriptors.
LEMMA DescStep ==
    ASSUME DescType, BufType, Step
    PROVE  DescType'
<1>1. ASSUME NEW p \in Proc, NEW w \in BOOLEAN, NEW v \in Value, Call(p, w, v) PROVE DescType'
  BY <1>1, ZenonT(30) DEF Call, DescType, drv, dev
<1>2. ASSUME NEW p \in Proc, AllocFails(p) PROVE DescType'
  <2>1. NoDesc \in Descriptor
    BY VirtioAssumption DEF NoDesc, Descriptor, Desc
  <2>2. desc' \in [Desc -> Descriptor]
    BY <1>2, <2>1, ZenonT(30) DEF AllocFails, DescType
  <2> QED BY <1>2, <2>2, ZenonT(30) DEF AllocFails, DescType
<1>3. ASSUME NEW p \in Proc, NEW i \in Desc, NEW j \in Desc, NEW k \in Desc, SubmitAt(p, i, j, k) PROVE DescType'
  <2>1. 0 \in Desc
    BY VirtioAssumption DEF Desc
  <2>2. /\ [addr |-> i, next |-> j, more |-> TRUE] \in Descriptor
        /\ [addr |-> p, next |-> k, more |-> TRUE] \in Descriptor
        /\ [addr |-> i, next |-> 0, more |-> FALSE] \in Descriptor
    BY <2>1, ZenonT(30) DEF Descriptor
  <2>3. desc' \in [Desc -> Descriptor]
    BY <1>3, <2>2, ZenonT(30) DEF SubmitAt, DescType
  <2>4. [out |-> write[p], sector |-> p] \in [out : BOOLEAN, sector : Proc \cup {NoProc}]
    BY ZenonT(30) DEF BufType
  <2>5. ops' \in [Desc -> [out : BOOLEAN, sector : Proc \cup {NoProc}]]
    BY <1>3, <2>4, ZenonT(30) DEF SubmitAt, DescType
  <2>6. [b |-> p, ok |-> FALSE] \in [b : Proc \cup {NoProc}, ok : BOOLEAN]
    OBVIOUS
  <2>7. info' \in [Desc -> [b : Proc \cup {NoProc}, ok : BOOLEAN]]
    BY <1>3, <2>6, ZenonT(30) DEF SubmitAt, DescType
  <2>8. free' \in [Desc -> BOOLEAN] /\ idx' \in [Proc -> Desc]
    BY <1>3, ZenonT(30) DEF SubmitAt, DescType
  <2> QED BY <2>3, <2>5, <2>7, <2>8, ZenonT(30) DEF DescType
<1>4. ASSUME NEW p \in Proc, Notify(p) PROVE DescType'
  BY <1>4, ZenonT(30) DEF Notify, DescType, drv, dev
<1>5. ASSUME NEW p \in Proc, ReturnOf(p) PROVE DescType'
  <2>1. NoDesc \in Descriptor /\ 0 \in Desc
    BY VirtioAssumption DEF NoDesc, Descriptor, Desc
  <2>2. desc' \in [Desc -> Descriptor] /\ idx' \in [Proc -> Desc]
    BY <1>5, <2>1, ZenonT(30) DEF ReturnOf, DescType
  <2>3. info' \in [Desc -> [b : Proc \cup {NoProc}, ok : BOOLEAN]]
    BY <1>5, ZenonT(30) DEF ReturnOf, DescType
  <2>4. free' \in [Desc -> BOOLEAN]
    BY <1>5, ZenonT(30) DEF ReturnOf, DescType
  <2> QED BY <1>5, <2>2, <2>3, <2>4, ZenonT(30) DEF ReturnOf, DescType
<1>6. ASSUME IntrAck PROVE DescType'
  BY <1>6, ZenonT(30) DEF IntrAck, DescType, drv, dev
<1>7. ASSUME NEW p \in Proc, EntryOf(p) PROVE DescType'
  BY <1>7, ZenonT(30) DEF EntryOf, DescType, drv, dev
<1>8. ASSUME IntrDone PROVE DescType'
  BY <1>8, ZenonT(30) DEF IntrDone, DescType, drv, dev
<1>9. ASSUME NEW p \in Proc, FetchOf(p) PROVE DescType'
  BY <1>9, ZenonT(30) DEF FetchOf, DescType, drv, dev
<1>10. ASSUME NEW p \in Proc, ServeOf(p) PROVE DescType'
  <2>0. info' = [info EXCEPT ![idx[p]].ok = TRUE] /\ idx[p] \in Desc
    BY <1>10, ZenonT(30) DEF ServeOf, DescType
  <2>1. info' \in [Desc -> [b : Proc \cup {NoProc}, ok : BOOLEAN]]
    BY <2>0, ZenonT(30) DEF DescType
  <2> QED BY <1>10, <2>1, ZenonT(30) DEF ServeOf, DescType
<1> QED BY <1>1, <1>2, <1>3, <1>4, <1>5, <1>6, <1>7, <1>8, <1>9, <1>10, ZenonT(30) DEF Step

\* Rings.
LEMMA RingStep ==
    ASSUME DescType, RingType, Step
    PROVE  RingType'
<1>1. ASSUME NEW p \in Proc, NEW w \in BOOLEAN, NEW v \in Value, Call(p, w, v) PROVE RingType'
  BY <1>1, ZenonT(30) DEF Call, RingType, ring, dev, drv
<1>2. ASSUME NEW p \in Proc, AllocFails(p) PROVE RingType'
  BY <1>2, ZenonT(30) DEF AllocFails, RingType, ring, dev, drv
<1>3. ASSUME NEW p \in Proc, NEW i \in Desc, NEW j \in Desc, NEW k \in Desc, SubmitAt(p, i, j, k) PROVE RingType'
  BY <1>3, IncIs, ZenonT(30) DEF SubmitAt, RingType, dev, drv, ring, DescType
<1>4. ASSUME NEW p \in Proc, Notify(p) PROVE RingType'
  BY <1>4, IncIs, ZenonT(30) DEF Notify, RingType, dev, drv, ring
<1>5. ASSUME NEW p \in Proc, ReturnOf(p) PROVE RingType'
  BY <1>5, ZenonT(30) DEF ReturnOf, RingType, ring, dev, drv
<1>6. ASSUME IntrAck PROVE RingType'
  BY <1>6, ZenonT(30) DEF IntrAck, RingType, ring, dev, drv
<1>7. ASSUME NEW p \in Proc, EntryOf(p) PROVE RingType'
  BY <1>7, IncIs, ZenonT(30) DEF EntryOf, RingType, dev, drv, ring
<1>8. ASSUME IntrDone PROVE RingType'
  BY <1>8, ZenonT(30) DEF IntrDone, RingType, ring, dev, drv
<1>9. ASSUME NEW p \in Proc, FetchOf(p) PROVE RingType'
  BY <1>9, IncIs, ZenonT(30) DEF FetchOf, RingType, dev, drv, ring, DescType
<1>10. ASSUME NEW p \in Proc, ServeOf(p) PROVE RingType'
  BY <1>10, IncIs, ZenonT(30) DEF ServeOf, RingType, dev, drv, ring, DescType
<1> QED BY <1>1, <1>2, <1>3, <1>4, <1>5, <1>6, <1>7, <1>8, <1>9, <1>10, ZenonT(30) DEF Step

\* Buffers and processes.
LEMMA BufStep ==
    ASSUME BufType, Step
    PROVE  BufType'
<1>1. ASSUME NEW p \in Proc, NEW w \in BOOLEAN, NEW v \in Value, Call(p, w, v) PROVE BufType'
  BY <1>1, ZenonT(30) DEF Call, BufType, Label, Goto, drv, dev, ring
<1>2. ASSUME NEW p \in Proc, AllocFails(p) PROVE BufType'
  <2>1. pc' \in [Proc -> Label]
    BY <1>2, ZenonT(30) DEF AllocFails, BufType, WakeupFree, Label
  <2> QED BY <1>2, <2>1, ZenonT(30) DEF AllocFails, BufType, drv, dev, ring
<1>3. ASSUME NEW p \in Proc, NEW i \in Desc, NEW j \in Desc, NEW k \in Desc, SubmitAt(p, i, j, k) PROVE BufType'
  BY <1>3, ZenonT(30) DEF SubmitAt, BufType, Label, Goto, drv, dev, ring
<1>4. ASSUME NEW p \in Proc, Notify(p) PROVE BufType'
  BY <1>4, ZenonT(30) DEF Notify, BufType, Label, Goto, drv, dev, ring
<1>5. ASSUME NEW p \in Proc, ReturnOf(p) PROVE BufType'
  <2>1. pc' \in [Proc -> Label]
    BY <1>5, ZenonT(30) DEF ReturnOf, BufType, WakeupFree, Label
  <2> QED BY <1>5, <2>1, ZenonT(30) DEF ReturnOf, BufType, drv, dev, ring
<1>6. ASSUME IntrAck PROVE BufType'
  BY <1>6, ZenonT(30) DEF IntrAck, BufType, Label, Goto, drv, dev, ring
<1>7. ASSUME NEW p \in Proc, EntryOf(p) PROVE BufType'
  BY <1>7, ZenonT(30) DEF EntryOf, BufType, Label, Goto, drv, dev, ring
<1>8. ASSUME IntrDone PROVE BufType'
  BY <1>8, ZenonT(30) DEF IntrDone, BufType, Label, Goto, drv, dev, ring
<1>9. ASSUME NEW p \in Proc, FetchOf(p) PROVE BufType'
  BY <1>9, ZenonT(30) DEF FetchOf, BufType, Label, Goto, drv, dev, ring
<1>10. ASSUME NEW p \in Proc, ServeOf(p) PROVE BufType'
  <2>1. disk' \in [Proc -> Value] /\ data' \in [Proc -> Value]
    BY <1>10, ZenonT(30) DEF ServeOf, BufType
  <2> QED BY <1>10, <2>1, ZenonT(30) DEF ServeOf, BufType
<1> QED BY <1>1, <1>2, <1>3, <1>4, <1>5, <1>6, <1>7, <1>8, <1>9, <1>10, ZenonT(30) DEF Step

\* The cells of a request are in use, and descriptors.
LEMMA CellsUsed ==
    ASSUME DescType, ChainInv, NEW p \in Proc, p \in InFlight
    PROVE  /\ idx[p] \in Desc /\ J(p) \in Desc /\ K(p) \in Desc
           /\ ~free[idx[p]] /\ ~free[J(p)] /\ ~free[K(p)]
<1>1. idx[p] \in Desc
  BY ZenonT(30) DEF DescType
<1>2. J(p) \in Desc
  BY <1>1, ZenonT(30) DEF DescType, Descriptor, J
<1>3. K(p) \in Desc
  BY <1>2, ZenonT(30) DEF DescType, Descriptor, K
<1> QED BY <1>1, <1>2, <1>3, ZenonT(30) DEF ChainInv, Cells

\* A request that a step leaves alone keeps its chain.
LEMMA SameChain ==
    ASSUME DescType, ChainInv, NEW p \in Proc, p \in InFlight, idx'[p] = idx[p], write'[p] = write[p],
           ops'[idx[p]] = ops[idx[p]], info'[idx[p]].b = info[idx[p]].b,
           \A d \in Cells(p) : desc'[d] = desc[d]
    PROVE  Cells(p)' = Cells(p) /\ ChainOk(p)'
<1>1. desc'[idx[p]] = desc[idx[p]] /\ desc'[J(p)] = desc[J(p)] /\ desc'[K(p)] = desc[K(p)]
  BY ZenonT(30) DEF Cells
<1>2. J(p)' = J(p)
  BY <1>1, ZenonT(30) DEF J
<1>3. K(p)' = K(p)
  BY <1>1, <1>2, ZenonT(30) DEF K
<1>4. ChainOk(p)
  BY ZenonT(30) DEF ChainInv
<1>5. Cells(p)' = Cells(p)
  BY <1>2, <1>3, ZenonT(30) DEF Cells
<1>6. ChainOk(p)'
  BY <1>1, <1>2, <1>3, <1>4, ZenonT(30) DEF ChainOk
<1> QED BY <1>5, <1>6, ZenonT(30)

\* A step that neither begins nor ends a request.
LEMMA ChainKept ==
    ASSUME DescType, ChainInv, CountInv, InFlight' = InFlight, UNCHANGED <<free, ops, idx>>,
           \A d \in Desc : ~free[d] => desc'[d] = desc[d],
           \A p \in InFlight : write'[p] = write[p],
           \A d \in Desc : info'[d].b = info[d].b
    PROVE  ChainInv' /\ CountInv'
<1>1. ASSUME NEW p \in Proc, p \in InFlight PROVE Cells(p)' = Cells(p) /\ ChainOk(p)'
  <2>1. \A d \in Cells(p) : d \in Desc /\ desc'[d] = desc[d]
    BY <1>1, CellsUsed, ZenonT(30) DEF Cells
  <2>2. /\ idx'[p] = idx[p] /\ write'[p] = write[p] /\ ops'[idx[p]] = ops[idx[p]]
        /\ info'[idx[p]].b = info[idx[p]].b
    BY <1>1, CellsUsed, ZenonT(30)
  <2> QED BY <1>1, <2>1, <2>2, SameChain, ZenonT(30)
<1>2. InFlight \subseteq Proc
  BY ZenonT(30) DEF InFlight
<1>3. ChainInv'
  <2>1. \A p \in InFlight : ChainOk(p)' /\ Cells(p)' = Cells(p)
    BY <1>1, <1>2, ZenonT(30)
  <2>2. ASSUME NEW d \in Desc PROVE ~free'[d] <=> \E p \in InFlight' : d \in Cells(p)'
    <3>1. ~free[d] <=> \E p \in InFlight : d \in Cells(p)
      BY ZenonT(30) DEF ChainInv
    <3> QED BY <2>1, <3>1, ZenonT(30)
  <2>3. ASSUME NEW p \in InFlight', NEW q \in InFlight', p # q PROVE Cells(p)' \cap Cells(q)' = {}
    <3>1. Cells(p) \cap Cells(q) = {}
      BY <2>3, ZenonT(30) DEF ChainInv
    <3> QED BY <2>1, <2>3, <3>1, ZenonT(30)
  <2> QED BY <2>1, <2>2, <2>3, ZenonT(30) DEF ChainInv
<1>4. Heads' = Heads /\ FreeDescs' = FreeDescs
  BY <1>2, ZenonT(30) DEF Heads, FreeDescs
<1> QED BY <1>3, <1>4, ZenonT(30) DEF CountInv

\* alloc3_desc() takes three descriptors that no request has.
LEMMA ChainSubmit ==
    ASSUME DescType, BufType, ChainInv, CountInv, NEW p \in Proc, NEW i \in Desc, NEW j \in Desc,
           NEW k \in Desc, SubmitAt(p, i, j, k)
    PROVE  ChainInv' /\ CountInv'
<1>1. InFlight' = InFlight \cup {p} /\ p \notin InFlight /\ InFlight \subseteq Proc
  BY ZenonT(30) DEF SubmitAt, InFlight, BufType
<1>0. /\ desc \in [Desc -> Descriptor]
      /\ desc' = [desc EXCEPT
            ![i] = [addr |-> i, next |-> j, more |-> TRUE],
            ![j] = [addr |-> p, next |-> k, more |-> TRUE],
            ![k] = [addr |-> i, next |-> 0, more |-> FALSE]]
      /\ i # j /\ i # k /\ j # k
  BY ZenonT(30) DEF SubmitAt, DescType
<1>2. ASSUME NEW q \in Proc, q \in InFlight
      PROVE  /\ Cells(q)' = Cells(q) /\ ChainOk(q)' /\ idx'[q] = idx[q]
             /\ i \notin Cells(q) /\ j \notin Cells(q) /\ k \notin Cells(q)
  <2>1. i \notin Cells(q) /\ j \notin Cells(q) /\ k \notin Cells(q)
    BY <1>2, CellsUsed, ZenonT(30) DEF Cells, SubmitAt
  <2>2. \A d \in Cells(q) : d \in Desc
    BY <1>2, CellsUsed, ZenonT(30) DEF Cells
  <2>3. \A d \in Cells(q) : desc'[d] = desc[d]
    BY <1>0, <2>1, <2>2, ZenonT(30)
  <2>4. idx'[q] = idx[q] /\ write'[q] = write[q]
    BY <1>1, <1>2, ZenonT(30) DEF SubmitAt, DescType
  <2>5. ops'[idx[q]] = ops[idx[q]] /\ info'[idx[q]].b = info[idx[q]].b
    <3>1. idx[q] # i /\ idx[q] \in Desc
      BY <1>2, <2>1, CellsUsed, ZenonT(30) DEF Cells
    <3> QED BY <3>1, ZenonT(30) DEF SubmitAt, DescType
  <2> QED BY <1>2, <2>1, <2>3, <2>4, <2>5, SameChain, ZenonT(30)
<1>3. /\ idx'[p] = i /\ i # j /\ i # k /\ j # k /\ write' = write
      /\ desc'[i] = [addr |-> i, next |-> j, more |-> TRUE]
      /\ desc'[j] = [addr |-> p, next |-> k, more |-> TRUE]
      /\ desc'[k] = [addr |-> i, next |-> 0, more |-> FALSE]
  <2>1. idx'[p] = i /\ write' = write
    BY ZenonT(30) DEF SubmitAt, DescType
  <2> DEFINE x == [addr |-> i, next |-> j, more |-> TRUE]
             y == [addr |-> p, next |-> k, more |-> TRUE]
             z == [addr |-> i, next |-> 0, more |-> FALSE]
  <2>2. desc' = [desc EXCEPT ![i] = x, ![j] = y, ![k] = z]
    BY <1>0, ZenonT(30)
  <2> HIDE DEF x, y, z
  <2>3. desc'[i] = x /\ desc'[j] = y /\ desc'[k] = z
    <3>1. i # j /\ i # k /\ j # k /\ desc \in [Desc -> Descriptor]
      BY <1>0, ZenonT(30)
    <3> QED BY <2>2, <3>1, ZenonT(30)
  <2> QED BY <1>0, <2>1, <2>3, ZenonT(30) DEF x, y, z
<1>4. ops'[i] = [out |-> write[p], sector |-> p] /\ info'[i] = [b |-> p, ok |-> FALSE]
  BY ZenonT(30) DEF SubmitAt, DescType
<1>5. J(p)' = j
  BY <1>3 DEF J
<1>6. K(p)' = k
  BY <1>3, <1>5 DEF K
<1>7. Cells(p)' = {i, j, k}
  BY <1>3, <1>5, <1>6, ZenonT(30) DEF Cells
<1>8. ChainOk(p)'
  <2>1. /\ desc'[i].more /\ desc'[j].more /\ ~desc'[k].more
        /\ desc'[j].addr = p /\ desc'[k].addr = i
        /\ ops'[i].out = write'[p] /\ ops'[i].sector = p /\ info'[i].b = p
    BY <1>3, <1>4
  <2> QED BY <1>3, <1>5, <1>6, <2>1, ZenonT(30) DEF ChainOk
<1>9. ChainInv'
  <2>1. \A q \in InFlight' : ChainOk(q)'
    BY <1>1, <1>2, <1>8, ZenonT(30)
  <2>2. ASSUME NEW d \in Desc PROVE ~free'[d] <=> \E q \in InFlight' : d \in Cells(q)'
    <3>1. free'[d] <=> free[d] /\ d \notin {i, j, k}
      BY ZenonT(30) DEF SubmitAt, DescType
    <3>2. ~free[d] <=> \E q \in InFlight : d \in Cells(q)
      BY ZenonT(30) DEF ChainInv
    <3> QED BY <1>1, <1>2, <1>7, <3>1, <3>2, ZenonT(30)
  <2>3. ASSUME NEW q \in InFlight', NEW r \in InFlight', q # r PROVE Cells(q)' \cap Cells(r)' = {}
    <3>1. CASE q = p
      BY <1>1, <1>2, <1>7, <2>3, <3>1, ZenonT(30)
    <3>2. CASE r = p
      BY <1>1, <1>2, <1>7, <2>3, <3>2, ZenonT(30)
    <3>3. CASE q # p /\ r # p
      <4>1. Cells(q) \cap Cells(r) = {}
        BY <1>1, <2>3, <3>3, ZenonT(30) DEF ChainInv
      <4> QED BY <1>1, <1>2, <3>3, <4>1, ZenonT(30)
    <3> QED BY <3>1, <3>2, <3>3, ZenonT(30)
  <2> QED BY <2>1, <2>2, <2>3, ZenonT(30) DEF ChainInv
<1>10. CountInv'
  <2> DEFINE H == Heads
             F == FreeDescs
             A == F \ {i}
             B == A \ {j}
             C == B \ {k}
  <2>1. Heads' = H \cup {i} /\ i \notin H
    <3>1. \A q \in InFlight : idx'[q] = idx[q] /\ idx[q] # i
      BY <1>1, <1>2, ZenonT(30) DEF Cells
    <3> QED BY <1>1, <1>3, <3>1, ZenonT(30) DEF Heads
  <2>2. FreeDescs' = C
    BY ZenonT(30) DEF FreeDescs, SubmitAt, DescType
  <2>3. i \in F /\ j \in A /\ k \in B
    BY ZenonT(30) DEF SubmitAt, FreeDescs
  <2>4. H \in SUBSET Desc /\ F \in SUBSET Desc
    BY DEF Heads, InFlight, FreeDescs, DescType
  <2> HIDE DEF H, F
  <2>5. IsFiniteSet(H) /\ IsFiniteSet(F) /\ Cardinality(H) \in Nat /\ Cardinality(F) \in Nat
    BY <2>4, Finite, ZenonT(30)
  <2>6. Cardinality(H \cup {i}) = Cardinality(H) + 1
    BY <2>1, <2>5, FS_AddElement, ZenonT(30)
  <2>7. IsFiniteSet(A) /\ Cardinality(A) = Cardinality(F) - 1
    BY <2>3, <2>5, FS_RemoveElement, ZenonT(30)
  <2> HIDE DEF A
  <2>8. IsFiniteSet(B) /\ Cardinality(B) = Cardinality(A) - 1
    BY <2>3, <2>7, FS_RemoveElement, ZenonT(30)
  <2> HIDE DEF B
  <2>9. Cardinality(C) = Cardinality(B) - 1
    BY <2>3, <2>8, FS_RemoveElement, ZenonT(30)
  <2> HIDE DEF C
  <2>10. 3 * Cardinality(H) + Cardinality(F) = NUM
    BY ZenonT(30) DEF CountInv, H, F
  <2>11. 3 * Cardinality(H \cup {i}) + Cardinality(C) = NUM
    BY <2>5, <2>6, <2>7, <2>8, <2>9, <2>10
  <2> QED BY <2>1, <2>2, <2>11, ZenonT(30) DEF CountInv
<1> QED BY <1>9, <1>10, ZenonT(30)

\* free_chain() gives back the three descriptors of the request.
LEMMA ChainReturn ==
    ASSUME DescType, BufType, ChainInv, CountInv, NEW p \in Proc, ReturnOf(p)
    PROVE  ChainInv' /\ CountInv'
<1>1. InFlight' = InFlight \ {p} /\ p \in InFlight /\ InFlight \subseteq Proc
  BY ZenonT(30) DEF ReturnOf, InFlight, BufType, WakeupFree
<1>2. ASSUME NEW q \in Proc, q \in InFlight, q # p
      PROVE  Cells(q)' = Cells(q) /\ ChainOk(q)' /\ Cells(q) \cap Cells(p) = {}
  <2>1. Cells(q) \cap Cells(p) = {}
    BY <1>1, <1>2, ZenonT(30) DEF ChainInv
  <2>2. \A d \in Cells(q) : d \in Desc
    BY <1>2, CellsUsed, ZenonT(30) DEF Cells
  <2>3. \A d \in Cells(q) : desc'[d] = desc[d]
    BY <2>1, <2>2, ZenonT(30) DEF ReturnOf
  <2>4. idx'[q] = idx[q] /\ write'[q] = write[q]
    BY <1>2, ZenonT(30) DEF ReturnOf, DescType, BufType
  <2>5. ops'[idx[q]] = ops[idx[q]] /\ info'[idx[q]].b = info[idx[q]].b
    <3>1. idx[q] # idx[p] /\ idx[q] \in Desc
      BY <1>2, <2>1, <2>2, ZenonT(30) DEF Cells
    <3> QED BY <3>1, ZenonT(30) DEF ReturnOf, DescType
  <2> QED BY <1>2, <2>1, <2>3, <2>4, <2>5, SameChain, ZenonT(30)
<1>3. ChainInv'
  <2>1. \A q \in InFlight' : ChainOk(q)'
    BY <1>1, <1>2, ZenonT(30)
  <2>2. ASSUME NEW d \in Desc PROVE ~free'[d] <=> \E q \in InFlight' : d \in Cells(q)'
    <3>1. free'[d] <=> free[d] \/ d \in Cells(p)
      BY ZenonT(30) DEF ReturnOf
    <3>2. ~free[d] <=> \E q \in InFlight : d \in Cells(q)
      BY ZenonT(30) DEF ChainInv
    <3>3. \A q \in InFlight : q # p => Cells(q)' = Cells(q) /\ ~(d \in Cells(q) /\ d \in Cells(p))
      BY <1>1, <1>2, ZenonT(30)
    <3> QED BY <1>1, <3>1, <3>2, <3>3, ZenonT(30)
  <2>3. ASSUME NEW q \in InFlight', NEW r \in InFlight', q # r PROVE Cells(q)' \cap Cells(r)' = {}
    <3>1. Cells(q) \cap Cells(r) = {}
      BY <1>1, <2>3, ZenonT(30) DEF ChainInv
    <3> QED BY <1>1, <1>2, <3>1, ZenonT(30)
  <2> QED BY <2>1, <2>2, <2>3, ZenonT(30) DEF ChainInv
<1>4. CountInv'
  <2> DEFINE H == Heads
             F == FreeDescs
             i == idx[p]
             j == J(p)
             k == K(p)
             A == F \cup {i}
             B == A \cup {j}
             C == B \cup {k}
  <2>0. i \in Desc /\ j \in Desc /\ k \in Desc /\ i # j /\ i # k /\ j # k /\ ~free[i] /\ ~free[j] /\ ~free[k]
    BY <1>1, CellsUsed, ZenonT(30) DEF ChainInv, ChainOk
  <2>1. Heads' = H \ {i} /\ i \in H
    <3>1. \A q \in InFlight : q # p => idx'[q] = idx[q] /\ idx[q] # i
      BY <1>1, OneOwner, ZenonT(30) DEF ReturnOf, DescType
    <3> QED BY <1>1, <3>1, ZenonT(30) DEF Heads
  <2>2. FreeDescs' = C
    <3>1. \A d \in Desc : free'[d] <=> free[d] \/ d \in {i, j, k}
      BY ZenonT(30) DEF ReturnOf, Cells
    <3> HIDE DEF i, j, k
    <3> QED BY <2>0, <3>1, ZenonT(30) DEF FreeDescs
  <2>3. i \notin F /\ j \notin A /\ k \notin B
    <3> HIDE DEF i, j, k
    <3> QED BY <2>0, ZenonT(30) DEF FreeDescs
  <2>4. H \in SUBSET Desc /\ F \in SUBSET Desc
    BY DEF Heads, InFlight, FreeDescs, DescType
  <2> HIDE DEF H, F, i, j, k
  <2>5. IsFiniteSet(H) /\ IsFiniteSet(F) /\ Cardinality(H) \in Nat /\ Cardinality(F) \in Nat
    BY <2>4, Finite, ZenonT(30)
  <2>6. Cardinality(H \ {i}) = Cardinality(H) - 1
    BY <2>1, <2>5, FS_RemoveElement, ZenonT(30)
  <2>7. IsFiniteSet(A) /\ Cardinality(A) = Cardinality(F) + 1
    BY <2>3, <2>5, FS_AddElement, ZenonT(30)
  <2> HIDE DEF A
  <2>8. IsFiniteSet(B) /\ Cardinality(B) = Cardinality(A) + 1
    BY <2>3, <2>7, FS_AddElement, ZenonT(30)
  <2> HIDE DEF B
  <2>9. Cardinality(C) = Cardinality(B) + 1
    BY <2>3, <2>8, FS_AddElement, ZenonT(30)
  <2> HIDE DEF C
  <2>10. 3 * Cardinality(H) + Cardinality(F) = NUM
    BY ZenonT(30) DEF CountInv, H, F
  <2>11. 3 * Cardinality(H \ {i}) + Cardinality(C) = NUM
    BY <2>5, <2>6, <2>7, <2>8, <2>9, <2>10
  <2> QED BY <2>1, <2>2, <2>11, ZenonT(30) DEF CountInv
<1> QED BY <1>3, <1>4, ZenonT(30)

\* Chains.
LEMMA ChainStep ==
    ASSUME DescType, BufType, ChainInv, CountInv, Step
    PROVE  ChainInv' /\ CountInv'
<1>1. ASSUME NEW p \in Proc, NEW w \in BOOLEAN, NEW v \in Value, Call(p, w, v) PROVE ChainInv' /\ CountInv'
  <2>1. InFlight' = InFlight
    BY <1>1, ZenonT(30) DEF Call, InFlight, Goto, BufType
  <2>2. \A d \in Desc : ~free[d] => desc'[d] = desc[d]
    BY <1>1, ZenonT(30) DEF Call, drv
  <2>3. \A q \in InFlight : write'[q] = write[q]
    BY <1>1, ZenonT(30) DEF Call, InFlight, BufType
  <2>4. \A d \in Desc : info'[d].b = info[d].b
    BY <1>1, ZenonT(30) DEF Call, drv
  <2>5. UNCHANGED <<free, ops, idx>>
    BY <1>1, ZenonT(30) DEF Call, drv
  <2> QED BY <2>1, <2>2, <2>3, <2>4, <2>5, ChainKept, ZenonT(30)
<1>2. ASSUME NEW p \in Proc, AllocFails(p) PROVE ChainInv' /\ CountInv'
  <2>1. InFlight' = InFlight
    BY <1>2, ZenonT(30) DEF AllocFails, InFlight, WakeupFree, BufType
  <2>2. \A d \in Desc : ~free[d] => desc'[d] = desc[d]
    BY <1>2, ZenonT(30) DEF AllocFails, drv
  <2>3. \A q \in InFlight : write'[q] = write[q]
    BY <1>2, ZenonT(30) DEF AllocFails
  <2>4. \A d \in Desc : info'[d].b = info[d].b
    BY <1>2, ZenonT(30) DEF AllocFails, drv
  <2>5. UNCHANGED <<free, ops, idx>>
    BY <1>2, ZenonT(30) DEF AllocFails, drv
  <2> QED BY <2>1, <2>2, <2>3, <2>4, <2>5, ChainKept, ZenonT(30)
<1>3. ASSUME NEW p \in Proc, NEW i \in Desc, NEW j \in Desc, NEW k \in Desc, SubmitAt(p, i, j, k) PROVE ChainInv' /\ CountInv'
  BY <1>3, ChainSubmit, ZenonT(30)
<1>4. ASSUME NEW p \in Proc, Notify(p) PROVE ChainInv' /\ CountInv'
  <2>1. InFlight' = InFlight
    BY <1>4, ZenonT(30) DEF Notify, InFlight, Goto, BufType
  <2>2. \A d \in Desc : ~free[d] => desc'[d] = desc[d]
    BY <1>4, ZenonT(30) DEF Notify, drv
  <2>3. \A q \in InFlight : write'[q] = write[q]
    BY <1>4, ZenonT(30) DEF Notify
  <2>4. \A d \in Desc : info'[d].b = info[d].b
    BY <1>4, ZenonT(30) DEF Notify, drv
  <2>5. UNCHANGED <<free, ops, idx>>
    BY <1>4, ZenonT(30) DEF Notify, drv
  <2> QED BY <2>1, <2>2, <2>3, <2>4, <2>5, ChainKept, ZenonT(30)
<1>5. ASSUME NEW p \in Proc, ReturnOf(p) PROVE ChainInv' /\ CountInv'
  BY <1>5, ChainReturn, ZenonT(30)
<1>6. ASSUME IntrAck PROVE ChainInv' /\ CountInv'
  <2>1. InFlight' = InFlight
    BY <1>6, ZenonT(30) DEF IntrAck, InFlight
  <2>2. \A d \in Desc : ~free[d] => desc'[d] = desc[d]
    BY <1>6, ZenonT(30) DEF IntrAck, drv
  <2>3. \A q \in InFlight : write'[q] = write[q]
    BY <1>6, ZenonT(30) DEF IntrAck
  <2>4. \A d \in Desc : info'[d].b = info[d].b
    BY <1>6, ZenonT(30) DEF IntrAck, drv
  <2>5. UNCHANGED <<free, ops, idx>>
    BY <1>6, ZenonT(30) DEF IntrAck, drv
  <2> QED BY <2>1, <2>2, <2>3, <2>4, <2>5, ChainKept, ZenonT(30)
<1>7. ASSUME NEW p \in Proc, EntryOf(p) PROVE ChainInv' /\ CountInv'
  <2>1. InFlight' = InFlight
    BY <1>7, ZenonT(30) DEF EntryOf, InFlight, Served, BufType
  <2>2. \A d \in Desc : ~free[d] => desc'[d] = desc[d]
    BY <1>7, ZenonT(30) DEF EntryOf, drv
  <2>3. \A q \in InFlight : write'[q] = write[q]
    BY <1>7, ZenonT(30) DEF EntryOf
  <2>4. \A d \in Desc : info'[d].b = info[d].b
    BY <1>7, ZenonT(30) DEF EntryOf, drv
  <2>5. UNCHANGED <<free, ops, idx>>
    BY <1>7, ZenonT(30) DEF EntryOf, drv
  <2> QED BY <2>1, <2>2, <2>3, <2>4, <2>5, ChainKept, ZenonT(30)
<1>8. ASSUME IntrDone PROVE ChainInv' /\ CountInv'
  <2>1. InFlight' = InFlight
    BY <1>8, ZenonT(30) DEF IntrDone, InFlight
  <2>2. \A d \in Desc : ~free[d] => desc'[d] = desc[d]
    BY <1>8, ZenonT(30) DEF IntrDone, drv
  <2>3. \A q \in InFlight : write'[q] = write[q]
    BY <1>8, ZenonT(30) DEF IntrDone
  <2>4. \A d \in Desc : info'[d].b = info[d].b
    BY <1>8, ZenonT(30) DEF IntrDone, drv
  <2>5. UNCHANGED <<free, ops, idx>>
    BY <1>8, ZenonT(30) DEF IntrDone, drv
  <2> QED BY <2>1, <2>2, <2>3, <2>4, <2>5, ChainKept, ZenonT(30)
<1>9. ASSUME NEW p \in Proc, FetchOf(p) PROVE ChainInv' /\ CountInv'
  <2>1. InFlight' = InFlight
    BY <1>9, ZenonT(30) DEF FetchOf, InFlight
  <2>2. \A d \in Desc : ~free[d] => desc'[d] = desc[d]
    BY <1>9, ZenonT(30) DEF FetchOf, drv
  <2>3. \A q \in InFlight : write'[q] = write[q]
    BY <1>9, ZenonT(30) DEF FetchOf
  <2>4. \A d \in Desc : info'[d].b = info[d].b
    BY <1>9, ZenonT(30) DEF FetchOf, drv
  <2>5. UNCHANGED <<free, ops, idx>>
    BY <1>9, ZenonT(30) DEF FetchOf, drv
  <2> QED BY <2>1, <2>2, <2>3, <2>4, <2>5, ChainKept, ZenonT(30)
<1>10. ASSUME NEW p \in Proc, ServeOf(p) PROVE ChainInv' /\ CountInv'
  <2>1. InFlight' = InFlight
    BY <1>10, ZenonT(30) DEF ServeOf, InFlight
  <2>2. \A d \in Desc : ~free[d] => desc'[d] = desc[d]
    BY <1>10, ZenonT(30) DEF ServeOf, drv
  <2>3. \A q \in InFlight : write'[q] = write[q]
    BY <1>10, ZenonT(30) DEF ServeOf
  <2>4. \A d \in Desc : info'[d].b = info[d].b
    <3>1. info' = [info EXCEPT ![idx[p]].ok = TRUE]
      BY <1>10, ZenonT(30) DEF ServeOf
    <3> QED BY <3>1, ZenonT(30) DEF DescType
  <2>5. UNCHANGED <<free, ops, idx>>
    BY <1>10, ZenonT(30) DEF ServeOf, drv
  <2> QED BY <2>1, <2>2, <2>3, <2>4, <2>5, ChainKept, ZenonT(30)
<1> QED BY <1>1, <1>2, <1>3, <1>4, <1>5, <1>6, <1>7, <1>8, <1>9, <1>10, ZenonT(30) DEF Step

\* How far a request is.
LEMMA PlaceStep ==
    ASSUME DescType, RingType, BufType, ChainInv, PlaceInv, Step
    PROVE  PlaceInv'
<1>1. ASSUME NEW p \in Proc, NEW w \in BOOLEAN, NEW v \in Value, Call(p, w, v) PROVE PlaceInv'
  <2> SUFFICES ASSUME NEW q \in Proc PROVE Placed(q)'
    BY ZenonT(30) DEF PlaceInv
  <2>0. Placed(q)
    BY ZenonT(30) DEF PlaceInv
  <2>1. NoProc \notin Proc /\ Intr \notin Proc /\ vdisk_lock' = vdisk_lock /\ idx' = idx /\ info' = info /\ avail' = avail /\ availIdx' = availIdx
    BY <1>1, VirtioAssumption, ZenonT(30) DEF Call, drv, ring
  <2>2. CASE q = p
    <3>1. pc'[q] = "alloc" /\ bdisk' = bdisk
      BY <1>1, <2>2, ZenonT(30) DEF Call, BufType, Goto
    <3> QED BY <1>1, <2>0, <2>1, <2>2, <3>1, ZenonT(30) DEF Placed, Call
  <2>3. CASE q # p
    <3>1. pc'[q] = pc[q] /\ bdisk' = bdisk
      BY <1>1, <2>3, ZenonT(30) DEF Call, BufType, Goto
    <3> QED BY <1>1, <2>0, <2>1, <2>3, <3>1, ZenonT(30) DEF Placed, Call
  <2> QED BY <2>2, <2>3, ZenonT(30)
<1>2. ASSUME NEW p \in Proc, AllocFails(p) PROVE PlaceInv'
  <2> SUFFICES ASSUME NEW q \in Proc PROVE Placed(q)'
    BY ZenonT(30) DEF PlaceInv
  <2>0. Placed(q)
    BY ZenonT(30) DEF PlaceInv
  <2>1. NoProc \notin Proc /\ Intr \notin Proc /\ vdisk_lock' = vdisk_lock /\ idx' = idx /\ info' = info /\ avail' = avail /\ availIdx' = availIdx
    BY <1>2, VirtioAssumption, ZenonT(30) DEF AllocFails, drv, ring
  <2>2. CASE q = p
    <3>1. pc'[q] = "sleep_free" /\ bdisk' = bdisk
      BY <1>2, <2>2, ZenonT(30) DEF AllocFails, BufType, WakeupFree
    <3> QED BY <1>2, <2>0, <2>1, <2>2, <3>1, ZenonT(30) DEF Placed, AllocFails
  <2>3. CASE q # p
    <3>1. (pc'[q] = pc[q] \/ (pc[q] = "sleep_free" /\ pc'[q] = "alloc")) /\ bdisk' = bdisk
      BY <1>2, <2>3, ZenonT(30) DEF AllocFails, BufType, WakeupFree
    <3> QED BY <1>2, <2>0, <2>1, <2>3, <3>1, ZenonT(30) DEF Placed, AllocFails
  <2> QED BY <2>2, <2>3, ZenonT(30)
<1>3. ASSUME NEW p \in Proc, NEW i \in Desc, NEW j \in Desc, NEW k \in Desc, SubmitAt(p, i, j, k) PROVE PlaceInv'
  <2> SUFFICES ASSUME NEW q \in Proc PROVE Placed(q)'
    BY ZenonT(30) DEF PlaceInv
  <2>0. Placed(q)
    BY ZenonT(30) DEF PlaceInv
  <2>1. NoProc \notin Proc /\ availIdx' = availIdx /\ pc[q] # "notify"
    BY <1>3, <2>0, VirtioAssumption, ZenonT(30) DEF SubmitAt, Placed
  <2>2. CASE q = p
    <3>1. pc'[q] = "notify" /\ bdisk'[q] /\ vdisk_lock' = q /\ idx'[q] = i
      BY <1>3, <2>2, ZenonT(30) DEF SubmitAt, BufType, DescType
    <3>2. ~info'[i].ok
      BY <1>3, ZenonT(30) DEF SubmitAt, DescType
    <3>3. availIdx % RING \in Entry
      BY PlaceOf, <2>1 DEF RingType, Index
    <3>4. avail'[availIdx % RING] = i
      BY <1>3, <3>3, ZenonT(30) DEF SubmitAt, RingType
    <3> QED BY <2>1, <3>1, <3>2, <3>4, ZenonT(30) DEF Placed
  <2>3. CASE q # p
    <3>1. pc'[q] = pc[q] /\ bdisk'[q] = bdisk[q] /\ vdisk_lock' # q /\ vdisk_lock = NoProc /\ idx'[q] = idx[q]
      BY <1>3, <2>3, ZenonT(30) DEF SubmitAt, BufType, DescType
    <3>2. pc[q] = "woken_b" => info'[idx[q]].ok
      <4> SUFFICES ASSUME pc[q] = "woken_b" PROVE info'[idx[q]].ok
        OBVIOUS
      <4>1. q \in InFlight
        BY ZenonT(30) DEF InFlight
      <4>2. idx[q] \in Desc /\ idx[q] # i
        BY <1>3, <4>1, CellsUsed, ZenonT(30) DEF SubmitAt
      <4>3. info[idx[q]].ok
        BY <2>0, ZenonT(30) DEF Placed
      <4> QED BY <1>3, <4>2, <4>3, ZenonT(30) DEF SubmitAt, DescType
    <3> QED BY <2>0, <2>1, <3>1, <3>2, ZenonT(30) DEF Placed
  <2> QED BY <2>2, <2>3, ZenonT(30)
<1>4. ASSUME NEW p \in Proc, Notify(p) PROVE PlaceInv'
  <2> SUFFICES ASSUME NEW q \in Proc PROVE Placed(q)'
    BY ZenonT(30) DEF PlaceInv
  <2>0. Placed(q)
    BY ZenonT(30) DEF PlaceInv
  <2>1. NoProc \notin Proc /\ Placed(p) /\ idx' = idx /\ info' = info /\ bdisk' = bdisk /\ vdisk_lock' = NoProc
    BY <1>4, VirtioAssumption, ZenonT(30) DEF Notify, PlaceInv, drv
  <2>2. CASE q = p
    <3>1. pc'[q] = "sleep_b" /\ pc[q] = "notify"
      BY <1>4, <2>2, ZenonT(30) DEF Notify, Goto, BufType
    <3> QED BY <2>0, <2>1, <3>1, ZenonT(30) DEF Placed
  <2>3. CASE q # p
    <3>1. pc'[q] = pc[q] /\ pc[q] # "notify"
      BY <1>4, <2>0, <2>1, <2>3, ZenonT(30) DEF Notify, Goto, BufType, Placed
    <3> QED BY <2>0, <2>1, <3>1, ZenonT(30) DEF Placed
  <2> QED BY <2>2, <2>3, ZenonT(30)
<1>5. ASSUME NEW p \in Proc, ReturnOf(p) PROVE PlaceInv'
  <2> SUFFICES ASSUME NEW q \in Proc PROVE Placed(q)'
    BY ZenonT(30) DEF PlaceInv
  <2>0. Placed(q)
    BY ZenonT(30) DEF PlaceInv
  <2>1. /\ vdisk_lock' = vdisk_lock /\ bdisk' = bdisk /\ avail' = avail /\ availIdx' = availIdx
        /\ \A d \in Desc : info'[d].ok = info[d].ok
    BY <1>5, ZenonT(30) DEF ReturnOf, ring, DescType
  <2>2. CASE q = p
    <3>1. pc'[q] = "idle" /\ pc[q] = "woken_b" /\ ~bdisk[q]
      BY <1>5, <2>2, ZenonT(30) DEF ReturnOf, WakeupFree, BufType
    <3> QED BY <2>0, <2>1, <3>1, ZenonT(30) DEF Placed
  <2>3. CASE q # p
    <3>1. /\ pc'[q] = pc[q] \/ (pc[q] = "sleep_free" /\ pc'[q] = "alloc")
          /\ idx'[q] = idx[q] /\ idx[q] \in Desc
      BY <1>5, <2>3, ZenonT(30) DEF ReturnOf, WakeupFree, BufType, DescType
    <3>2. info'[idx[q]].ok = info[idx[q]].ok
      BY <2>1, <3>1, ZenonT(30)
    <3>3. CASE pc'[q] = pc[q]
      BY <2>0, <2>1, <3>1, <3>2, <3>3, ZenonT(30) DEF Placed
    <3>4. CASE pc[q] = "sleep_free" /\ pc'[q] = "alloc"
      BY <2>0, <2>1, <3>4, ZenonT(30) DEF Placed
    <3> QED BY <3>1, <3>3, <3>4, ZenonT(30)
  <2> QED BY <2>2, <2>3, ZenonT(30)
<1>6. ASSUME IntrAck PROVE PlaceInv'
  <2> SUFFICES ASSUME NEW q \in Proc PROVE Placed(q)'
    BY ZenonT(30) DEF PlaceInv
  <2>0. Placed(q)
    BY ZenonT(30) DEF PlaceInv
  <2>1. NoProc \notin Proc /\ Intr \notin Proc
    BY VirtioAssumption, ZenonT(30)
  <2> QED BY <1>6, <2>0, <2>1, ZenonT(30) DEF IntrAck, Placed, drv, ring, dev
<1>7. ASSUME NEW p \in Proc, EntryOf(p) PROVE PlaceInv'
  <2> SUFFICES ASSUME NEW q \in Proc PROVE Placed(q)'
    BY ZenonT(30) DEF PlaceInv
  <2>0. Placed(q)
    BY ZenonT(30) DEF PlaceInv
  <2>1. NoProc \notin Proc /\ Intr \notin Proc /\ vdisk_lock' = vdisk_lock /\ idx' = idx /\ info' = info /\ avail' = avail /\ availIdx' = availIdx
    BY <1>7, VirtioAssumption, ZenonT(30) DEF EntryOf, drv, ring
  <2>2. CASE q = p
    <3>1. pc'[q] = "woken_b" /\ ~bdisk'[q] /\ info[idx[q]].ok /\ pc[q] = "sleep_b"
      BY <1>7, <2>2, ZenonT(30) DEF EntryOf, BufType, Served
    <3> QED BY <1>7, <2>0, <2>1, <2>2, <3>1, ZenonT(30) DEF Placed, EntryOf
  <2>3. CASE q # p
    <3>1. pc'[q] = pc[q] /\ bdisk'[q] = bdisk[q]
      BY <1>7, <2>3, ZenonT(30) DEF EntryOf, BufType, Served
    <3> QED BY <1>7, <2>0, <2>1, <2>3, <3>1, ZenonT(30) DEF Placed, EntryOf
  <2> QED BY <2>2, <2>3, ZenonT(30)
<1>8. ASSUME IntrDone PROVE PlaceInv'
  <2> SUFFICES ASSUME NEW q \in Proc PROVE Placed(q)'
    BY ZenonT(30) DEF PlaceInv
  <2>0. Placed(q)
    BY ZenonT(30) DEF PlaceInv
  <2>1. NoProc \notin Proc /\ Intr \notin Proc
    BY VirtioAssumption, ZenonT(30)
  <2> QED BY <1>8, <2>0, <2>1, ZenonT(30) DEF IntrDone, Placed, drv, ring, dev
<1>9. ASSUME NEW p \in Proc, FetchOf(p) PROVE PlaceInv'
  <2> SUFFICES ASSUME NEW q \in Proc PROVE Placed(q)'
    BY ZenonT(30) DEF PlaceInv
  <2>0. Placed(q)
    BY ZenonT(30) DEF PlaceInv
  <2> QED BY <1>9, <2>0, ZenonT(30) DEF FetchOf, Placed, drv, ring, dev
<1>10. ASSUME NEW p \in Proc, ServeOf(p) PROVE PlaceInv'
  <2> SUFFICES ASSUME NEW q \in Proc PROVE Placed(q)'
    BY ZenonT(30) DEF PlaceInv
  <2>0. Placed(q)
    BY ZenonT(30) DEF PlaceInv
  <2>1. /\ UNCHANGED <<vdisk_lock, bdisk, avail, availIdx, idx, pc>> /\ pc[p] = "sleep_b"
    BY <1>10, ZenonT(30) DEF ServeOf
  <2>2. pc[q] \in {"notify", "woken_b"} => info'[idx[q]].ok = info[idx[q]].ok
    <3> SUFFICES ASSUME pc[q] \in {"notify", "woken_b"} PROVE info'[idx[q]].ok = info[idx[q]].ok
      OBVIOUS
    <3>1. idx[q] # idx[p] /\ idx[q] \in Desc
      BY <2>1, OneOwner, ZenonT(30) DEF InFlight, DescType
    <3>2. info' = [info EXCEPT ![idx[p]].ok = TRUE]
      BY <1>10, ZenonT(30) DEF ServeOf
    <3> QED BY <3>1, <3>2, ZenonT(30) DEF DescType
  <2> QED BY <2>0, <2>1, <2>2, ZenonT(30) DEF Placed
<1> QED BY <1>1, <1>2, <1>3, <1>4, <1>5, <1>6, <1>7, <1>8, <1>9, <1>10, ZenonT(30) DEF Step

\* What the device has fetched.
LEMMA DevStep ==
    ASSUME DescType, RingType, BufType, ChainInv, PlaceInv, DevInv, Step
    PROVE  DevInv'
<1>1. ASSUME NEW p \in Proc, NEW w \in BOOLEAN, NEW v \in Value, Call(p, w, v) PROVE DevInv'
  <2> SUFFICES ASSUME NEW h \in devQ' PROVE \E q \in Proc : (pc'[q] = "sleep_b" /\ idx'[q] = h /\ ~info'[h].ok)
    BY ZenonT(30) DEF DevInv
  <2>1. h \in devQ /\ UNCHANGED <<idx, info>>
    BY <1>1, ZenonT(30) DEF Call, dev, drv
  <2>2. PICK q \in Proc : pc[q] = "sleep_b" /\ idx[q] = h /\ ~info[h].ok
    BY <2>1, ZenonT(30) DEF DevInv
  <2>3. pc'[q] = "sleep_b"
    BY <1>1, <2>2, ZenonT(30) DEF Call, BufType, Goto
  <2> QED BY <2>1, <2>2, <2>3, ZenonT(30)
<1>2. ASSUME NEW p \in Proc, AllocFails(p) PROVE DevInv'
  <2> SUFFICES ASSUME NEW h \in devQ' PROVE \E q \in Proc : (pc'[q] = "sleep_b" /\ idx'[q] = h /\ ~info'[h].ok)
    BY ZenonT(30) DEF DevInv
  <2>1. h \in devQ /\ UNCHANGED <<idx, info>>
    BY <1>2, ZenonT(30) DEF AllocFails, dev, drv
  <2>2. PICK q \in Proc : pc[q] = "sleep_b" /\ idx[q] = h /\ ~info[h].ok
    BY <2>1, ZenonT(30) DEF DevInv
  <2>3. pc'[q] = "sleep_b"
    BY <1>2, <2>2, ZenonT(30) DEF AllocFails, BufType, WakeupFree
  <2> QED BY <2>1, <2>2, <2>3, ZenonT(30)
<1>3. ASSUME NEW p \in Proc, NEW i \in Desc, NEW j \in Desc, NEW k \in Desc, SubmitAt(p, i, j, k) PROVE DevInv'
  <2> SUFFICES ASSUME NEW h \in devQ' PROVE \E q \in Proc : (pc'[q] = "sleep_b" /\ idx'[q] = h /\ ~info'[h].ok)
    BY ZenonT(30) DEF DevInv
  <2>1. h \in devQ
    BY <1>3, ZenonT(30) DEF SubmitAt, dev
  <2>2. PICK q \in Proc : pc[q] = "sleep_b" /\ idx[q] = h /\ ~info[h].ok
    BY <2>1, ZenonT(30) DEF DevInv
  <2>3. q # p /\ h \in Desc /\ q \in InFlight
    BY <1>3, <2>2, ZenonT(30) DEF SubmitAt, InFlight, DescType, PlaceInv, Placed
  <2>4. pc'[q] = pc[q] /\ idx'[q] = idx[q]
    BY <1>3, <2>3, ZenonT(30) DEF SubmitAt, BufType, DescType
  <2>5. h # i
    BY <1>3, <2>2, <2>3, CellsUsed, ZenonT(30) DEF SubmitAt
  <2>6. info'[h] = info[h]
    BY <1>3, <2>3, <2>5, ZenonT(30) DEF SubmitAt, DescType
  <2> QED BY <2>2, <2>4, <2>6, ZenonT(30)
<1>4. ASSUME NEW p \in Proc, Notify(p) PROVE DevInv'
  <2> SUFFICES ASSUME NEW h \in devQ' PROVE \E q \in Proc : (pc'[q] = "sleep_b" /\ idx'[q] = h /\ ~info'[h].ok)
    BY ZenonT(30) DEF DevInv
  <2>1. h \in devQ /\ UNCHANGED <<idx, info>>
    BY <1>4, ZenonT(30) DEF Notify, dev, drv
  <2>2. PICK q \in Proc : pc[q] = "sleep_b" /\ idx[q] = h /\ ~info[h].ok
    BY <2>1, ZenonT(30) DEF DevInv
  <2>3. pc'[q] = "sleep_b"
    BY <1>4, <2>2, ZenonT(30) DEF Notify, BufType, Goto
  <2> QED BY <2>1, <2>2, <2>3, ZenonT(30)
<1>5. ASSUME NEW p \in Proc, ReturnOf(p) PROVE DevInv'
  <2> SUFFICES ASSUME NEW h \in devQ' PROVE \E q \in Proc : (pc'[q] = "sleep_b" /\ idx'[q] = h /\ ~info'[h].ok)
    BY ZenonT(30) DEF DevInv
  <2>1. h \in devQ
    BY <1>5, ZenonT(30) DEF ReturnOf, dev
  <2>2. PICK q \in Proc : pc[q] = "sleep_b" /\ idx[q] = h /\ ~info[h].ok
    BY <2>1, ZenonT(30) DEF DevInv
  <2>3. q # p /\ h \in Desc /\ q \in InFlight
    BY <1>5, <2>2, ZenonT(30) DEF ReturnOf, InFlight, DescType, PlaceInv, Placed
  <2>4. pc'[q] = "sleep_b" /\ idx'[q] = idx[q]
    BY <1>5, <2>2, <2>3, ZenonT(30) DEF ReturnOf, BufType, DescType, WakeupFree
  <2>6. info'[h].ok = info[h].ok
    BY <1>5, <2>3, ZenonT(30) DEF ReturnOf, DescType
  <2> QED BY <2>2, <2>4, <2>6, ZenonT(30)
<1>6. ASSUME IntrAck PROVE DevInv'
  <2> SUFFICES ASSUME NEW h \in devQ' PROVE \E q \in Proc : (pc'[q] = "sleep_b" /\ idx'[q] = h /\ ~info'[h].ok)
    BY ZenonT(30) DEF DevInv
  <2>1. h \in devQ /\ UNCHANGED <<idx, info>>
    BY <1>6, ZenonT(30) DEF IntrAck, dev, drv
  <2>2. PICK q \in Proc : pc[q] = "sleep_b" /\ idx[q] = h /\ ~info[h].ok
    BY <2>1, ZenonT(30) DEF DevInv
  <2>3. pc' = pc
    BY <1>6, ZenonT(30) DEF IntrAck
  <2> QED BY <2>1, <2>2, <2>3, ZenonT(30)
<1>7. ASSUME NEW p \in Proc, EntryOf(p) PROVE DevInv'
  <2> SUFFICES ASSUME NEW h \in devQ' PROVE \E q \in Proc : (pc'[q] = "sleep_b" /\ idx'[q] = h /\ ~info'[h].ok)
    BY ZenonT(30) DEF DevInv
  <2>1. h \in devQ /\ UNCHANGED <<idx, info>>
    BY <1>7, ZenonT(30) DEF EntryOf, dev, drv
  <2>2. PICK q \in Proc : pc[q] = "sleep_b" /\ idx[q] = h /\ ~info[h].ok
    BY <2>1, ZenonT(30) DEF DevInv
  <2>3. pc'[q] = "sleep_b"
    BY <1>7, <2>2, ZenonT(30) DEF EntryOf, BufType, Served
  <2> QED BY <2>1, <2>2, <2>3, ZenonT(30)
<1>8. ASSUME IntrDone PROVE DevInv'
  <2> SUFFICES ASSUME NEW h \in devQ' PROVE \E q \in Proc : (pc'[q] = "sleep_b" /\ idx'[q] = h /\ ~info'[h].ok)
    BY ZenonT(30) DEF DevInv
  <2>1. h \in devQ /\ UNCHANGED <<idx, info>>
    BY <1>8, ZenonT(30) DEF IntrDone, dev, drv
  <2>2. PICK q \in Proc : pc[q] = "sleep_b" /\ idx[q] = h /\ ~info[h].ok
    BY <2>1, ZenonT(30) DEF DevInv
  <2>3. pc' = pc
    BY <1>8, ZenonT(30) DEF IntrDone
  <2> QED BY <2>1, <2>2, <2>3, ZenonT(30)
<1>9. ASSUME NEW p \in Proc, FetchOf(p) PROVE DevInv'
  <2> SUFFICES ASSUME NEW h \in devQ' PROVE \E q \in Proc : (pc'[q] = "sleep_b" /\ idx'[q] = h /\ ~info'[h].ok)
    BY ZenonT(30) DEF DevInv
  <2>1. UNCHANGED <<idx, info, pc>> /\ devQ' = devQ \cup {idx[p]}
    BY <1>9, ZenonT(30) DEF FetchOf, drv
  <2>2. CASE h \in devQ
    BY <2>1, <2>2, ZenonT(30) DEF DevInv
  <2>3. CASE h = idx[p]
    BY <1>9, <2>1, <2>3, ZenonT(30) DEF FetchOf, Pending
  <2> QED BY <2>1, <2>2, <2>3, ZenonT(30)
<1>10. ASSUME NEW p \in Proc, ServeOf(p) PROVE DevInv'
  <2> SUFFICES ASSUME NEW h \in devQ' PROVE \E q \in Proc : (pc'[q] = "sleep_b" /\ idx'[q] = h /\ ~info'[h].ok)
    BY ZenonT(30) DEF DevInv
  <2>1. UNCHANGED <<idx, pc>> /\ h \in devQ /\ h # idx[p] /\ info' = [info EXCEPT ![idx[p]].ok = TRUE]
    BY <1>10, ZenonT(30) DEF ServeOf
  <2>2. PICK q \in Proc : pc[q] = "sleep_b" /\ idx[q] = h /\ ~info[h].ok
    BY <2>1, ZenonT(30) DEF DevInv
  <2>3. info'[h] = info[h]
    BY <2>1, <2>2, ZenonT(30) DEF DescType
  <2> QED BY <2>1, <2>2, <2>3, ZenonT(30)
<1> QED BY <1>1, <1>2, <1>3, <1>4, <1>5, <1>6, <1>7, <1>8, <1>9, <1>10, ZenonT(30) DEF Step

\* An entry is written at the leading index of a ring.
LEMMA RingWrite ==
    ASSUME NEW r \in [Entry -> Desc], NEW a \in Index, NEW b \in Index, NEW H \in SUBSET Desc,
           NEW h \in Desc, Lists(r, b, Ahead(a, b), H), Ahead(a, b) < RING
    PROVE  Lists([r EXCEPT ![a % RING] = h], b, Ahead(a, b), H)
<1> DEFINE n == Ahead(a, b)
<1>1. n \in Nat
  BY AheadIs, VirtioAssumption DEF Index
<1>2. a % RING = (b + n) % RING
  BY NextPlace, ZenonT(30)
<1> HIDE DEF n
<1>3. Lists(r, b, n, H) /\ n < RING
  BY ZenonT(30) DEF n
<1>4. Lists([r EXCEPT ![(b + n) % RING] = h], b, n, H)
  BY <1>1, <1>3, ListsWrite, ZenonT(30)
<1> QED BY <1>2, <1>4, ZenonT(30) DEF n

\* The leading index moves over that entry.
LEMMA RingPut ==
    ASSUME NEW r, NEW a \in Index, NEW b \in Index, NEW H \in SUBSET Desc, NEW h \in Desc \ H,
           Lists(r, b, Ahead(a, b), H), Ahead(a, b) + 1 < IDXMOD, r[a % RING] = h
    PROVE  Lists(r, b, Ahead(Inc(a), b), H \cup {h})
<1> DEFINE n == Ahead(a, b)
<1>1. n \in Nat
  BY AheadIs, VirtioAssumption DEF Index
<1>2. a % RING = (b + n) % RING
  BY NextPlace, ZenonT(30)
<1>3. Ahead(Inc(a), b) = n + 1
  BY AheadPut, ZenonT(30)
<1> HIDE DEF n
<1>4. Lists(r, b, n, H)
  BY ZenonT(30) DEF n
<1>5. r[(b + n) % RING] = h
  BY <1>2, ZenonT(30)
<1>6. Lists(r, b, n + 1, H \cup {h})
  BY <1>1, <1>4, <1>5, ListsPut, ZenonT(30)
<1> QED BY <1>3, <1>6, ZenonT(30)

\* The first entry of a ring is taken.
LEMMA RingGet ==
    ASSUME NEW r, NEW a \in Index, NEW b \in Index, a # b, NEW H \in SUBSET Desc,
           Lists(r, b, Ahead(a, b), H)
    PROVE  Lists(r, Inc(b), Ahead(a, Inc(b)), H \ {r[b % RING]})
<1> DEFINE n == Ahead(a, b)
<1>1. n \in Nat \ {0} /\ Ahead(a, Inc(b)) = n - 1
  BY AheadGet, ZenonT(30)
<1> HIDE DEF n
<1>4. Lists(r, b, n, H)
  BY ZenonT(30) DEF n
<1>6. Lists(r, Inc(b), n - 1, H \ {r[b % RING]})
  BY <1>1, <1>4, ListsGet, ZenonT(30)
<1> QED BY <1>1, <1>6, ZenonT(30)

\* Every request has three descriptors: there are NUM \div 3 at most.
LEMMA Room ==
    ASSUME DescType, CountInv, NEW H \in SUBSET Heads
    PROVE  /\ Cardinality(H) \in Nat /\ Cardinality(H) <= NUM \div 3
           /\ Cardinality(FreeDescs) >= 3 => Cardinality(H) + 1 <= NUM \div 3
<1> DEFINE n == Cardinality(H)  m == Cardinality(Heads)  f == Cardinality(FreeDescs)
<1>1. Heads \in SUBSET Desc /\ FreeDescs \in SUBSET Desc
  BY DEF Heads, InFlight, DescType, FreeDescs
<1>2. IsFiniteSet(Heads) /\ m \in Nat /\ f \in Nat
  BY <1>1, Finite, ZenonT(30)
<1>3. n \in Nat /\ n <= m
  BY <1>2, FS_Subset, FS_CardinalityType, ZenonT(30)
<1>4. 3 * m + f = NUM
  BY ZenonT(30) DEF CountInv
<1> HIDE DEF n, m, f
<1>5. n <= NUM \div 3 /\ (f >= 3 => n + 1 <= NUM \div 3)
  BY <1>2, <1>3, <1>4, VirtioAssumption
<1> QED BY <1>3, <1>5, ZenonT(30) DEF n, f

\* One more request.
LEMMA RoomFor ==
    ASSUME DescType, CountInv, NEW H \in SUBSET Heads, NEW h \in Heads, h \notin H
    PROVE  Cardinality(H) \in Nat /\ Cardinality(H) + 1 <= NUM \div 3
<1> DEFINE G == H \cup {h}
<1>1. G \in SUBSET Heads /\ H \in SUBSET Desc
  BY DEF Heads, InFlight, DescType
<1>2. IsFiniteSet(H)
  BY <1>1, Finite, ZenonT(30)
<1>3. Cardinality(G) = Cardinality(H) + 1
  BY <1>2, FS_AddElement, ZenonT(30)
<1> HIDE DEF G
<1>4. Cardinality(G) <= NUM \div 3 /\ Cardinality(H) \in Nat
  BY <1>1, Room, ZenonT(30)
<1> QED BY <1>3, <1>4, ZenonT(30)

\* The step is not about request q.
SameSleep(q) ==
    /\ pc'[q] = "sleep_b" <=> pc[q] = "sleep_b"
    /\ pc[q] = "sleep_b" => idx'[q] = idx[q] /\ info'[idx[q]].ok = info[idx[q]].ok

\* Nothing is given to the device or taken from it.
LEMMA HeadsKept ==
    ASSUME \A q \in Proc : SameSleep(q), devQ' = devQ
    PROVE  PendingHeads' = PendingHeads /\ ServedHeads' = ServedHeads
<1>1. ASSUME NEW q \in Proc
      PROVE  /\ Pending(q)' <=> Pending(q)
             /\ Served(q)' <=> Served(q)
             /\ Pending(q) \/ Served(q) => idx'[q] = idx[q]
  BY ZenonT(30) DEF SameSleep, Pending, Served
<1>2. PendingHeads' = PendingHeads
  BY <1>1, ZenonT(30) DEF PendingHeads
<1>3. ServedHeads' = ServedHeads
  BY <1>1, ZenonT(30) DEF ServedHeads
<1> QED BY <1>2, <1>3, ZenonT(30)

\* The avail ring is as it was.
LEMMA AvailKept ==
    ASSUME AvailInv, UNCHANGED <<avail, availIdx, devIdx>>, PendingHeads' = PendingHeads
    PROVE  AvailInv'
BY ZenonT(30) DEF AvailInv

\* The used ring is as it was.
LEMMA UsedKept ==
    ASSUME UsedInv, UNCHANGED <<used, usedIdx, used_idx>>, ServedHeads' = ServedHeads
    PROVE  UsedInv'
BY ZenonT(30) DEF UsedInv

\* The two rings.
LEMMA RingsStep ==
    ASSUME DescType, RingType, BufType, ChainInv, CountInv, PlaceInv, DevInv, AvailInv, UsedInv, Step
    PROVE  AvailInv' /\ UsedInv'
<1>1. ASSUME NEW p \in Proc, NEW w \in BOOLEAN, NEW v \in Value, Call(p, w, v) PROVE AvailInv' /\ UsedInv'
  <2>1. ASSUME NEW q \in Proc PROVE SameSleep(q)
    BY <1>1, ZenonT(30) DEF SameSleep, Call, BufType, DescType, Goto, drv
  <2>2. UNCHANGED <<avail, availIdx, devIdx, used, usedIdx, used_idx, devQ>>
    BY <1>1, ZenonT(30) DEF Call, ring, dev
  <2>3. PendingHeads' = PendingHeads /\ ServedHeads' = ServedHeads
    BY <2>1, <2>2, HeadsKept, ZenonT(30)
  <2> QED BY <2>2, <2>3, AvailKept, UsedKept, ZenonT(30)
<1>2. ASSUME NEW p \in Proc, AllocFails(p) PROVE AvailInv' /\ UsedInv'
  <2>1. ASSUME NEW q \in Proc PROVE SameSleep(q)
    BY <1>2, ZenonT(30) DEF SameSleep, AllocFails, BufType, DescType, WakeupFree
  <2>2. UNCHANGED <<avail, availIdx, devIdx, used, usedIdx, used_idx, devQ>>
    BY <1>2, ZenonT(30) DEF AllocFails, ring, dev
  <2>3. PendingHeads' = PendingHeads /\ ServedHeads' = ServedHeads
    BY <2>1, <2>2, HeadsKept, ZenonT(30)
  <2> QED BY <2>2, <2>3, AvailKept, UsedKept, ZenonT(30)
<1>3. ASSUME NEW p \in Proc, NEW i \in Desc, NEW j \in Desc, NEW k \in Desc, SubmitAt(p, i, j, k) PROVE AvailInv' /\ UsedInv'
  <2>1. ASSUME NEW q \in Proc PROVE SameSleep(q)
    <3>1. pc'[q] = "sleep_b" <=> pc[q] = "sleep_b"
      BY <1>3, ZenonT(30) DEF SubmitAt, BufType
    <3>2. ASSUME pc[q] = "sleep_b" PROVE idx'[q] = idx[q] /\ info'[idx[q]].ok = info[idx[q]].ok
      <4>1. q \in InFlight /\ q # p
        BY <1>3, <3>2, ZenonT(30) DEF SubmitAt, InFlight
      <4>2. idx[q] \in Desc /\ idx[q] # i
        BY <1>3, <4>1, CellsUsed, ZenonT(30) DEF SubmitAt
      <4> QED BY <1>3, <4>1, <4>2, ZenonT(30) DEF SubmitAt, DescType
    <3> QED BY <3>1, <3>2, ZenonT(30) DEF SameSleep
  <2>2. /\ UNCHANGED <<availIdx, devIdx, used, usedIdx, used_idx, devQ>>
        /\ avail' = [avail EXCEPT ![availIdx % RING] = i]
    BY <1>3, ZenonT(30) DEF SubmitAt, dev
  <2>3. PendingHeads' = PendingHeads /\ ServedHeads' = ServedHeads
    BY <2>1, <2>2, HeadsKept, ZenonT(30)
  <2>4. PendingHeads \in SUBSET Heads /\ PendingHeads \in SUBSET Desc
    BY DEF PendingHeads, Pending, Heads, InFlight, DescType
  <2>5. Ahead(availIdx, devIdx) < RING
    <3>1. Cardinality(PendingHeads) \in Nat /\ Cardinality(PendingHeads) + 1 <= NUM \div 3
      BY <1>3, <2>4, Room, ZenonT(30) DEF SubmitAt
    <3>2. Ahead(availIdx, devIdx) = Cardinality(PendingHeads)
      BY ZenonT(30) DEF AvailInv, Lists
    <3> QED BY <3>1, <3>2, VirtioAssumption
  <2>6. Lists(avail', devIdx, Ahead(availIdx, devIdx), PendingHeads)
    BY <2>2, <2>4, <2>5, RingWrite, ZenonT(30) DEF AvailInv, RingType
  <2>7. AvailInv'
    BY <2>2, <2>3, <2>6, ZenonT(30) DEF AvailInv
  <2> QED BY <2>2, <2>3, <2>7, UsedKept, ZenonT(30)
<1>4. ASSUME NEW p \in Proc, Notify(p) PROVE AvailInv' /\ UsedInv'
  <2> DEFINE h == idx[p]
  <2>1. ASSUME NEW q \in Proc, q # p PROVE SameSleep(q)
    BY <1>4, <2>1, ZenonT(30) DEF SameSleep, Notify, BufType, drv, Goto
  <2>2. /\ UNCHANGED <<avail, devIdx, used, usedIdx, used_idx, devQ, idx, info>> /\ availIdx' = Inc(availIdx)
    BY <1>4, ZenonT(30) DEF Notify, dev, drv
  <2>3. /\ pc[p] = "notify" /\ pc'[p] = "sleep_b" /\ ~info[h].ok /\ avail[availIdx % RING] = h
        /\ p \in InFlight /\ h \in Desc
    BY <1>4, ZenonT(30) DEF Notify, Goto, BufType, PlaceInv, Placed, InFlight, DescType
  <2>4. ASSUME NEW q \in Proc, pc[q] = "sleep_b" PROVE idx[q] # h
    <3>1. q \in InFlight /\ q # p
      BY <2>3, <2>4, ZenonT(30) DEF InFlight
    <3> QED BY <2>3, <3>1, OneOwner, ZenonT(30)
  <2>5. h \notin devQ
    BY <2>4, ZenonT(30) DEF DevInv
  <2>6. Pending(p)' /\ ~Pending(p) /\ ~Served(p) /\ ~Served(p)'
    BY <2>2, <2>3, <2>5, ZenonT(30) DEF Pending, Served
  <2>7. ASSUME NEW q \in Proc, q # p PROVE (Pending(q)' <=> Pending(q)) /\ (Served(q)' <=> Served(q))
    <3>1. SameSleep(q)
      BY <2>1, <2>7, ZenonT(30)
    <3> QED BY <2>2, <3>1, ZenonT(30) DEF SameSleep, Pending, Served
  <2>8. PendingHeads' = PendingHeads \cup {h} /\ h \notin PendingHeads
    <3>1. h \notin PendingHeads
      BY <2>4, ZenonT(30) DEF PendingHeads, Pending
    <3>2. PendingHeads' = PendingHeads \cup {h}
      BY <2>2, <2>6, <2>7, ZenonT(30) DEF PendingHeads
    <3> QED BY <3>1, <3>2, ZenonT(30)
  <2>9. ServedHeads' = ServedHeads
    BY <2>2, <2>6, <2>7, ZenonT(30) DEF ServedHeads
  <2>10. /\ PendingHeads \in SUBSET Heads /\ PendingHeads \in SUBSET Desc /\ h \in Heads
         /\ availIdx \in Index /\ devIdx \in Index
    BY <2>3 DEF PendingHeads, Pending, Heads, InFlight, DescType, RingType
  <2> HIDE DEF h
  <2>11. Ahead(availIdx, devIdx) + 1 < IDXMOD
    <3>1. Cardinality(PendingHeads) \in Nat /\ Cardinality(PendingHeads) + 1 <= NUM \div 3
      BY <2>8, <2>10, RoomFor, ZenonT(30)
    <3>2. Ahead(availIdx, devIdx) = Cardinality(PendingHeads)
      BY ZenonT(30) DEF AvailInv, Lists
    <3> QED BY <3>1, <3>2, VirtioAssumption
  <2>12. Lists(avail, devIdx, Ahead(Inc(availIdx), devIdx), PendingHeads \cup {h})
    BY <2>3, <2>8, <2>10, <2>11, RingPut, ZenonT(30) DEF AvailInv
  <2>13. AvailInv'
    BY <2>2, <2>8, <2>12, ZenonT(30) DEF AvailInv
  <2> QED BY <2>2, <2>9, <2>13, UsedKept, ZenonT(30)
<1>5. ASSUME NEW p \in Proc, ReturnOf(p) PROVE AvailInv' /\ UsedInv'
  <2>1. ASSUME NEW q \in Proc PROVE SameSleep(q)
    BY <1>5, ZenonT(30) DEF SameSleep, ReturnOf, BufType, DescType, WakeupFree
  <2>2. UNCHANGED <<avail, availIdx, devIdx, used, usedIdx, used_idx, devQ>>
    BY <1>5, ZenonT(30) DEF ReturnOf, ring, dev
  <2>3. PendingHeads' = PendingHeads /\ ServedHeads' = ServedHeads
    BY <2>1, <2>2, HeadsKept, ZenonT(30)
  <2> QED BY <2>2, <2>3, AvailKept, UsedKept, ZenonT(30)
<1>6. ASSUME IntrAck PROVE AvailInv' /\ UsedInv'
  <2>1. ASSUME NEW q \in Proc PROVE SameSleep(q)
    BY <1>6, ZenonT(30) DEF SameSleep, IntrAck, BufType, DescType, drv
  <2>2. UNCHANGED <<avail, availIdx, devIdx, used, usedIdx, used_idx, devQ>>
    BY <1>6, ZenonT(30) DEF IntrAck, ring, dev
  <2>3. PendingHeads' = PendingHeads /\ ServedHeads' = ServedHeads
    BY <2>1, <2>2, HeadsKept, ZenonT(30)
  <2> QED BY <2>2, <2>3, AvailKept, UsedKept, ZenonT(30)
<1>7. ASSUME NEW p \in Proc, EntryOf(p) PROVE AvailInv' /\ UsedInv'
  <2> DEFINE h == idx[p]
  <2>1. ASSUME NEW q \in Proc, q # p PROVE pc'[q] = pc[q]
    BY <1>7, <2>1, ZenonT(30) DEF EntryOf, BufType
  <2>2. /\ UNCHANGED <<avail, availIdx, devIdx, devQ, used, usedIdx, idx, info>> /\ used_idx' = Inc(used_idx)
        /\ Served(p) /\ h = used[used_idx % RING] /\ usedIdx # used_idx
    BY <1>7, ZenonT(30) DEF EntryOf, drv, dev
  <2>3. pc[p] = "sleep_b" /\ pc'[p] = "woken_b" /\ p \in InFlight
    BY <1>7, ZenonT(30) DEF EntryOf, Served, BufType, InFlight
  <2>4. ASSUME NEW q \in Proc, pc[q] = "sleep_b", q # p PROVE idx[q] # h
    <3>1. q \in InFlight
      BY <2>4, ZenonT(30) DEF InFlight
    <3> QED BY <2>3, <2>4, <3>1, OneOwner, ZenonT(30)
  <2>5. ASSUME NEW q \in Proc PROVE (Pending(q)' <=> Pending(q)) /\ (Served(q)' <=> Served(q) /\ idx[q] # h)
    <3>1. CASE q = p
      BY <2>2, <2>3, <3>1, ZenonT(30) DEF Pending, Served
    <3>2. CASE q # p
      BY <2>1, <2>2, <2>4, <3>2, ZenonT(30) DEF Pending, Served
    <3> QED BY <3>1, <3>2, ZenonT(30)
  <2>6. PendingHeads' = PendingHeads
    BY <2>2, <2>5, ZenonT(30) DEF PendingHeads
  <2>7. ServedHeads' = ServedHeads \ {h}
    BY <2>2, <2>5, ZenonT(30) DEF ServedHeads
  <2>8. ServedHeads \in SUBSET Desc /\ usedIdx \in Index /\ used_idx \in Index
    BY DEF ServedHeads, Served, DescType, RingType
  <2>9. Lists(used, Inc(used_idx), Ahead(usedIdx, Inc(used_idx)), ServedHeads \ {used[used_idx % RING]})
    BY <2>2, <2>8, RingGet, ZenonT(30) DEF UsedInv
  <2> HIDE DEF h
  <2>10. UsedInv'
    BY <2>2, <2>7, <2>9, ZenonT(30) DEF UsedInv
  <2> QED BY <2>2, <2>6, <2>10, AvailKept, ZenonT(30)
<1>8. ASSUME IntrDone PROVE AvailInv' /\ UsedInv'
  <2>1. ASSUME NEW q \in Proc PROVE SameSleep(q)
    BY <1>8, ZenonT(30) DEF SameSleep, IntrDone, BufType, DescType, drv
  <2>2. UNCHANGED <<avail, availIdx, devIdx, used, usedIdx, used_idx, devQ>>
    BY <1>8, ZenonT(30) DEF IntrDone, ring, dev
  <2>3. PendingHeads' = PendingHeads /\ ServedHeads' = ServedHeads
    BY <2>1, <2>2, HeadsKept, ZenonT(30)
  <2> QED BY <2>2, <2>3, AvailKept, UsedKept, ZenonT(30)
<1>9. ASSUME NEW p \in Proc, FetchOf(p) PROVE AvailInv' /\ UsedInv'
  <2> DEFINE h == idx[p]
  <2>2. /\ UNCHANGED <<avail, availIdx, used, usedIdx, used_idx, idx, info, pc>> /\ devIdx' = Inc(devIdx)
        /\ devQ' = devQ \cup {h} /\ Pending(p) /\ h = avail[devIdx % RING] /\ availIdx # devIdx
    BY <1>9, ZenonT(30) DEF FetchOf, drv, ring
  <2>3. ASSUME NEW q \in Proc PROVE (Pending(q)' <=> Pending(q) /\ idx[q] # h) /\ (Served(q)' <=> Served(q))
    BY <2>2, ZenonT(30) DEF Pending, Served
  <2>4. PendingHeads' = PendingHeads \ {h}
    BY <2>2, <2>3, ZenonT(30) DEF PendingHeads
  <2>5. ServedHeads' = ServedHeads
    BY <2>2, <2>3, ZenonT(30) DEF ServedHeads
  <2>6. PendingHeads \in SUBSET Desc /\ availIdx \in Index /\ devIdx \in Index
    BY DEF PendingHeads, Pending, DescType, RingType
  <2>7. Lists(avail, Inc(devIdx), Ahead(availIdx, Inc(devIdx)), PendingHeads \ {avail[devIdx % RING]})
    BY <2>2, <2>6, RingGet, ZenonT(30) DEF AvailInv
  <2> HIDE DEF h
  <2>8. AvailInv'
    BY <2>2, <2>4, <2>7, ZenonT(30) DEF AvailInv
  <2> QED BY <2>2, <2>5, <2>8, UsedKept, ZenonT(30)
<1>10. ASSUME NEW p \in Proc, ServeOf(p) PROVE AvailInv' /\ UsedInv'
  <2> DEFINE h == idx[p]
  <2>2. /\ UNCHANGED <<avail, availIdx, devIdx, used_idx, idx, pc>> /\ usedIdx' = Inc(usedIdx)
        /\ used' = [used EXCEPT ![usedIdx % RING] = h] /\ devQ' = devQ \ {h}
        /\ info' = [info EXCEPT ![h].ok = TRUE] /\ h \in devQ /\ ~info[h].ok /\ pc[p] = "sleep_b"
    BY <1>10, ZenonT(30) DEF ServeOf
  <2>3. p \in InFlight /\ h \in Desc /\ h \in Heads
    BY <2>2, ZenonT(30) DEF InFlight, DescType, Heads
  <2>4. ASSUME NEW q \in Proc, pc[q] = "sleep_b", q # p PROVE idx[q] # h
    <3>1. q \in InFlight
      BY <2>4, ZenonT(30) DEF InFlight
    <3> QED BY <2>3, <2>4, <3>1, OneOwner, ZenonT(30)
  <2>5. \A d \in Desc : info'[d].ok <=> (info[d].ok \/ d = h)
    BY <2>2, <2>3, ZenonT(30) DEF DescType
  <2>6. ASSUME NEW q \in Proc
        PROVE  (Pending(q)' <=> Pending(q)) /\ (Served(q)' <=> Served(q) \/ q = p)
    <3>1. idx[q] \in Desc
      BY ZenonT(30) DEF DescType
    <3>2. CASE q = p
      BY <2>2, <2>3, <2>5, <3>2, ZenonT(30) DEF Pending, Served
    <3>3. CASE q # p
      BY <2>2, <2>4, <2>5, <3>1, <3>3, ZenonT(30) DEF Pending, Served
    <3> QED BY <3>2, <3>3, ZenonT(30)
  <2>7. PendingHeads' = PendingHeads
    BY <2>2, <2>6, ZenonT(30) DEF PendingHeads
  <2>8. ServedHeads' = ServedHeads \cup {h} /\ h \notin ServedHeads
    <3>1. h \notin ServedHeads
      BY <2>2, <2>4, ZenonT(30) DEF ServedHeads, Served
    <3>2. ServedHeads' = ServedHeads \cup {h}
      BY <2>2, <2>6, ZenonT(30) DEF ServedHeads
    <3> QED BY <3>1, <3>2, ZenonT(30)
  <2>9. /\ ServedHeads \in SUBSET Heads /\ ServedHeads \in SUBSET Desc
        /\ usedIdx \in Index /\ used_idx \in Index /\ used \in [Entry -> Desc]
    BY DEF ServedHeads, Served, Heads, InFlight, DescType, RingType
  <2> HIDE DEF h
  <2> DEFINE n == Ahead(usedIdx, used_idx)
  <2>10. n + 1 < IDXMOD /\ n < RING
    <3>1. Cardinality(ServedHeads) \in Nat /\ Cardinality(ServedHeads) + 1 <= NUM \div 3
      BY <2>3, <2>8, <2>9, RoomFor, ZenonT(30)
    <3>2. n = Cardinality(ServedHeads)
      BY ZenonT(30) DEF UsedInv, Lists
    <3> HIDE DEF n
    <3> QED BY <3>1, <3>2, VirtioAssumption
  <2> HIDE DEF n
  <2>11. Lists(used', used_idx, n, ServedHeads)
    BY <2>2, <2>3, <2>9, <2>10, RingWrite, ZenonT(30) DEF UsedInv, n
  <2>12. used'[usedIdx % RING] = h
    <3>1. usedIdx % RING \in Entry
      BY <2>9, PlaceOf DEF Index
    <3> QED BY <2>2, <2>9, <3>1, ZenonT(30)
  <2>13. Lists(used', used_idx, Ahead(Inc(usedIdx), used_idx), ServedHeads \cup {h})
    BY <2>3, <2>8, <2>9, <2>10, <2>11, <2>12, RingPut, ZenonT(30) DEF n
  <2>14. UsedInv'
    BY <2>2, <2>8, <2>13, ZenonT(30) DEF UsedInv
  <2> QED BY <2>2, <2>7, <2>14, AvailKept, ZenonT(30)
<1> QED BY <1>1, <1>2, <1>3, <1>4, <1>5, <1>6, <1>7, <1>8, <1>9, <1>10, ZenonT(30) DEF Step

\* Nobody is left waiting.
LEMMA LostStep ==
    ASSUME DescType, BufType, PlaceInv, NoLostInterrupt, Step
    PROVE  NoLostInterrupt'
<1>1. ASSUME NEW p \in Proc, NEW w \in BOOLEAN, NEW v \in Value, Call(p, w, v) PROVE NoLostInterrupt'
  <2>0. NoProc # Intr /\ Intr \notin Proc
    BY VirtioAssumption, ZenonT(30)
  <2>1. used_idx' # usedIdx' => irq' \/ vdisk_lock' = Intr
    BY <1>1, <2>0, ZenonT(30) DEF Call, NoLostInterrupt, ring, dev
  <2>2. ASSUME NEW q \in Proc, pc'[q] = "sleep_free" PROVE Cardinality(FreeDescs') < 3
    <3>1. pc[q] = "sleep_free"
      BY <1>1, <2>2, ZenonT(30) DEF Call, BufType, Goto
    <3>2. free' = free
      BY <1>1, ZenonT(30) DEF Call, drv
    <3>3. FreeDescs' = FreeDescs
      BY <3>2, ZenonT(30) DEF FreeDescs
    <3> QED BY <3>1, <3>3, ZenonT(30) DEF NoLostInterrupt
  <2> QED BY <2>1, <2>2, ZenonT(30) DEF NoLostInterrupt
<1>2. ASSUME NEW p \in Proc, AllocFails(p) PROVE NoLostInterrupt'
  <2>0. NoProc # Intr /\ Intr \notin Proc
    BY VirtioAssumption, ZenonT(30)
  <2>1. used_idx' # usedIdx' => irq' \/ vdisk_lock' = Intr
    BY <1>2, <2>0, ZenonT(30) DEF AllocFails, NoLostInterrupt, ring, dev
  <2>2. ASSUME NEW q \in Proc, pc'[q] = "sleep_free" PROVE Cardinality(FreeDescs') < 3
    <3>2. free' = free /\ Cardinality(FreeDescs) < 3
      BY <1>2, ZenonT(30) DEF AllocFails
    <3>3. FreeDescs' = FreeDescs
      BY <3>2, ZenonT(30) DEF FreeDescs
    <3> QED BY <3>2, <3>3, ZenonT(30)
  <2> QED BY <2>1, <2>2, ZenonT(30) DEF NoLostInterrupt
<1>3. ASSUME NEW p \in Proc, NEW i \in Desc, NEW j \in Desc, NEW k \in Desc, SubmitAt(p, i, j, k) PROVE NoLostInterrupt'
  <2>0. NoProc # Intr /\ Intr \notin Proc
    BY VirtioAssumption, ZenonT(30)
  <2>1. used_idx' # usedIdx' => irq' \/ vdisk_lock' = Intr
    <3>1. UNCHANGED <<used_idx, usedIdx, irq>> /\ vdisk_lock # Intr
      BY <1>3, <2>0, ZenonT(30) DEF SubmitAt, ring, dev, PlaceInv, Placed
    <3> QED BY <3>1, ZenonT(30) DEF NoLostInterrupt
  <2>2. ASSUME NEW q \in Proc, pc'[q] = "sleep_free" PROVE Cardinality(FreeDescs') < 3
    <3>1. pc[q] = "sleep_free" /\ FreeDescs' \subseteq FreeDescs
      <4>1. pc[q] = "sleep_free"
        BY <1>3, <2>2, ZenonT(30) DEF SubmitAt, BufType
      <4>2. ASSUME NEW d \in Desc, free'[d] PROVE free[d]
        <5>1. /\ free' = [free EXCEPT ![i] = FALSE, ![j] = FALSE, ![k] = FALSE]
              /\ free[i] /\ free[j] /\ free[k] /\ free \in [Desc -> BOOLEAN]
          BY <1>3, ZenonT(30) DEF SubmitAt, DescType
        <5> QED BY <4>2, <5>1, ZenonT(30)
      <4> QED BY <4>1, <4>2, ZenonT(30) DEF FreeDescs
    <3>2. FreeDescs \in SUBSET Desc
      BY ZenonT(30) DEF FreeDescs
    <3>3. IsFiniteSet(FreeDescs) /\ Cardinality(FreeDescs) \in Nat
      BY <3>2, Finite, ZenonT(30)
    <3>4. Cardinality(FreeDescs) < 3
      BY <3>1, ZenonT(30) DEF NoLostInterrupt
    <3>5. Cardinality(FreeDescs') <= Cardinality(FreeDescs) /\ IsFiniteSet(FreeDescs')
      BY <3>1, <3>3, FS_Subset, ZenonT(30)
    <3>6. Cardinality(FreeDescs') \in Nat
      BY <3>5, FS_CardinalityType, ZenonT(30)
    <3> QED BY <3>3, <3>4, <3>5, <3>6
  <2> QED BY <2>1, <2>2, ZenonT(30) DEF NoLostInterrupt
<1>4. ASSUME NEW p \in Proc, Notify(p) PROVE NoLostInterrupt'
  <2>0. NoProc # Intr /\ Intr \notin Proc
    BY VirtioAssumption, ZenonT(30)
  <2>1. used_idx' # usedIdx' => irq' \/ vdisk_lock' = Intr
    <3>1. UNCHANGED <<used_idx, usedIdx, irq>> /\ vdisk_lock # Intr
      BY <1>4, <2>0, ZenonT(30) DEF Notify, ring, dev, PlaceInv, Placed
    <3> QED BY <3>1, ZenonT(30) DEF NoLostInterrupt
  <2>2. ASSUME NEW q \in Proc, pc'[q] = "sleep_free" PROVE Cardinality(FreeDescs') < 3
    <3>1. pc[q] = "sleep_free"
      BY <1>4, <2>2, ZenonT(30) DEF Notify, BufType, Goto
    <3>2. free' = free
      BY <1>4, ZenonT(30) DEF Notify, drv
    <3>3. FreeDescs' = FreeDescs
      BY <3>2, ZenonT(30) DEF FreeDescs
    <3> QED BY <3>1, <3>3, ZenonT(30) DEF NoLostInterrupt
  <2> QED BY <2>1, <2>2, ZenonT(30) DEF NoLostInterrupt
<1>5. ASSUME NEW p \in Proc, ReturnOf(p) PROVE NoLostInterrupt'
  <2>0. NoProc # Intr /\ Intr \notin Proc
    BY VirtioAssumption, ZenonT(30)
  <2>1. used_idx' # usedIdx' => irq' \/ vdisk_lock' = Intr
    BY <1>5, <2>0, ZenonT(30) DEF ReturnOf, NoLostInterrupt, ring, dev
  <2>2. ASSUME NEW q \in Proc, pc'[q] = "sleep_free" PROVE Cardinality(FreeDescs') < 3
    <3>1. pc'[q] # "sleep_free"
      BY <1>5, ZenonT(30) DEF ReturnOf, WakeupFree, BufType
    <3> QED BY <2>2, <3>1, ZenonT(30)
  <2> QED BY <2>1, <2>2, ZenonT(30) DEF NoLostInterrupt
<1>6. ASSUME IntrAck PROVE NoLostInterrupt'
  <2>0. NoProc # Intr /\ Intr \notin Proc
    BY VirtioAssumption, ZenonT(30)
  <2>1. used_idx' # usedIdx' => irq' \/ vdisk_lock' = Intr
    BY <1>6, <2>0, ZenonT(30) DEF IntrAck, NoLostInterrupt, ring, dev
  <2>2. ASSUME NEW q \in Proc, pc'[q] = "sleep_free" PROVE Cardinality(FreeDescs') < 3
    <3>1. pc[q] = "sleep_free"
      BY <1>6, <2>2, ZenonT(30) DEF IntrAck, BufType
    <3>2. free' = free
      BY <1>6, ZenonT(30) DEF IntrAck, drv
    <3>3. FreeDescs' = FreeDescs
      BY <3>2, ZenonT(30) DEF FreeDescs
    <3> QED BY <3>1, <3>3, ZenonT(30) DEF NoLostInterrupt
  <2> QED BY <2>1, <2>2, ZenonT(30) DEF NoLostInterrupt
<1>7. ASSUME NEW p \in Proc, EntryOf(p) PROVE NoLostInterrupt'
  <2>0. NoProc # Intr /\ Intr \notin Proc
    BY VirtioAssumption, ZenonT(30)
  <2>1. used_idx' # usedIdx' => irq' \/ vdisk_lock' = Intr
    BY <1>7, <2>0, ZenonT(30) DEF EntryOf, NoLostInterrupt, ring, dev
  <2>2. ASSUME NEW q \in Proc, pc'[q] = "sleep_free" PROVE Cardinality(FreeDescs') < 3
    <3>1. pc[q] = "sleep_free"
      BY <1>7, <2>2, ZenonT(30) DEF EntryOf, BufType, Served
    <3>2. free' = free
      BY <1>7, ZenonT(30) DEF EntryOf, drv
    <3>3. FreeDescs' = FreeDescs
      BY <3>2, ZenonT(30) DEF FreeDescs
    <3> QED BY <3>1, <3>3, ZenonT(30) DEF NoLostInterrupt
  <2> QED BY <2>1, <2>2, ZenonT(30) DEF NoLostInterrupt
<1>8. ASSUME IntrDone PROVE NoLostInterrupt'
  <2>0. NoProc # Intr /\ Intr \notin Proc
    BY VirtioAssumption, ZenonT(30)
  <2>1. used_idx' # usedIdx' => irq' \/ vdisk_lock' = Intr
    BY <1>8, <2>0, ZenonT(30) DEF IntrDone, NoLostInterrupt, ring, dev
  <2>2. ASSUME NEW q \in Proc, pc'[q] = "sleep_free" PROVE Cardinality(FreeDescs') < 3
    <3>1. pc[q] = "sleep_free"
      BY <1>8, <2>2, ZenonT(30) DEF IntrDone, BufType
    <3>2. free' = free
      BY <1>8, ZenonT(30) DEF IntrDone, drv
    <3>3. FreeDescs' = FreeDescs
      BY <3>2, ZenonT(30) DEF FreeDescs
    <3> QED BY <3>1, <3>3, ZenonT(30) DEF NoLostInterrupt
  <2> QED BY <2>1, <2>2, ZenonT(30) DEF NoLostInterrupt
<1>9. ASSUME NEW p \in Proc, FetchOf(p) PROVE NoLostInterrupt'
  <2>0. NoProc # Intr /\ Intr \notin Proc
    BY VirtioAssumption, ZenonT(30)
  <2>1. used_idx' # usedIdx' => irq' \/ vdisk_lock' = Intr
    BY <1>9, <2>0, ZenonT(30) DEF FetchOf, NoLostInterrupt, ring, dev
  <2>2. ASSUME NEW q \in Proc, pc'[q] = "sleep_free" PROVE Cardinality(FreeDescs') < 3
    <3>1. pc[q] = "sleep_free"
      BY <1>9, <2>2, ZenonT(30) DEF FetchOf, BufType
    <3>2. free' = free
      BY <1>9, ZenonT(30) DEF FetchOf, drv
    <3>3. FreeDescs' = FreeDescs
      BY <3>2, ZenonT(30) DEF FreeDescs
    <3> QED BY <3>1, <3>3, ZenonT(30) DEF NoLostInterrupt
  <2> QED BY <2>1, <2>2, ZenonT(30) DEF NoLostInterrupt
<1>10. ASSUME NEW p \in Proc, ServeOf(p) PROVE NoLostInterrupt'
  <2>0. NoProc # Intr /\ Intr \notin Proc
    BY VirtioAssumption, ZenonT(30)
  <2>1. used_idx' # usedIdx' => irq' \/ vdisk_lock' = Intr
    BY <1>10, <2>0, ZenonT(30) DEF ServeOf, NoLostInterrupt, ring, dev
  <2>2. ASSUME NEW q \in Proc, pc'[q] = "sleep_free" PROVE Cardinality(FreeDescs') < 3
    <3>1. pc[q] = "sleep_free"
      BY <1>10, <2>2, ZenonT(30) DEF ServeOf, BufType
    <3>2. free' = free
      BY <1>10, ZenonT(30) DEF ServeOf, drv
    <3>3. FreeDescs' = FreeDescs
      BY <3>2, ZenonT(30) DEF FreeDescs
    <3> QED BY <3>1, <3>3, ZenonT(30) DEF NoLostInterrupt
  <2> QED BY <2>1, <2>2, ZenonT(30) DEF NoLostInterrupt
<1> QED BY <1>1, <1>2, <1>3, <1>4, <1>5, <1>6, <1>7, <1>8, <1>9, <1>10, ZenonT(30) DEF Step

\* The invariant holds at boot.
LEMMA InvInit ==
    ASSUME Init
    PROVE  Inv
<1>0. /\ 0 \in Desc /\ 0 \in Index /\ NoProc \notin Proc /\ Intr \notin Proc /\ NoDesc \in Descriptor
      /\ NUM \in Nat /\ NUM \div 3 \in Nat
  BY VirtioAssumption DEF Desc, Index, NoDesc, Descriptor
<1>1. DescType
  <2>1. /\ [out |-> FALSE, sector |-> NoProc] \in [out : BOOLEAN, sector : Proc \cup {NoProc}]
        /\ [b |-> NoProc, ok |-> FALSE] \in [b : Proc \cup {NoProc}, ok : BOOLEAN]
    OBVIOUS
  <2> QED BY <1>0, <2>1, ZenonT(30) DEF Init, DescType
<1>2. RingType
  BY <1>0, ZenonT(30) DEF Init, RingType
<1>3. BufType
  BY ZenonT(30) DEF Init, BufType, Label
<1>4. InFlight = {} /\ PendingHeads = {} /\ ServedHeads = {} /\ Heads = {}
  <2>1. \A p \in Proc : pc[p] = "idle"
    BY ZenonT(30) DEF Init
  <2> QED BY <2>1, ZenonT(30) DEF InFlight, PendingHeads, ServedHeads, Heads, Pending, Served
<1>5. ChainInv
  <2>1. \A d \in Desc : free[d]
    BY ZenonT(30) DEF Init
  <2> QED BY <1>4, <2>1, ZenonT(30) DEF ChainInv
<1>6. FreeDescs = 0..(NUM - 1)
  BY ZenonT(30) DEF Init, FreeDescs, Desc
<1>7. CountInv
  <2>1. Cardinality(Heads) = 0
    BY <1>4, FS_EmptySet, ZenonT(30)
  <2>2. Cardinality(0..(NUM - 1)) = NUM
    BY <1>0, FS_Interval
  <2> QED BY <1>0, <1>6, <2>1, <2>2 DEF CountInv
<1>8. PlaceInv
  BY <1>0, ZenonT(30) DEF Init, PlaceInv, Placed
<1>9. DevInv
  BY ZenonT(30) DEF Init, DevInv
<1>10. Ahead(0, 0) = 0
  BY <1>0, AheadIs, ZenonT(30)
<1>11. \A r : Lists(r, 0, 0, {})
  <2>1. Cardinality({}) = 0 /\ 0..(0 - 1) = {}
    BY FS_EmptySet
  <2> QED BY <2>1, ZenonT(30) DEF Lists
<1>12. AvailInv /\ UsedInv
  BY <1>4, <1>10, <1>11, ZenonT(30) DEF Init, AvailInv, UsedInv
<1>13. NoLostInterrupt
  BY ZenonT(30) DEF Init, NoLostInterrupt
<1> QED BY <1>1, <1>2, <1>3, <1>5, <1>7, <1>8, <1>9, <1>12, <1>13, TypeParts, ZenonT(30) DEF Inv

\* A step that changes nothing.
LEMMA InvStutter ==
    ASSUME Inv, UNCHANGED vars
    PROVE  Inv'
<1>0. UNCHANGED <<free, desc, ops, info, idx, avail, availIdx, used, usedIdx, used_idx, irq, devIdx, devQ,
                  vdisk_lock, disk, data, bdisk, write, pc>>
  BY ZenonT(30) DEF vars, drv, ring, dev
<1>1. TypeOK'
  BY <1>0, ZenonT(30) DEF Inv, TypeOK
<1>2. InFlight' = InFlight /\ DescType
  BY <1>0, TypeParts, ZenonT(30) DEF InFlight, Inv
<1>3. ChainInv' /\ CountInv'
  <2>1. /\ \A d \in Desc : ~free[d] => desc'[d] = desc[d]
        /\ \A p \in InFlight : write'[p] = write[p]
        /\ \A d \in Desc : info'[d].b = info[d].b
    BY <1>0, ZenonT(30)
  <2> QED BY <1>0, <1>2, <2>1, ChainKept, ZenonT(30) DEF Inv
<1>4. PlaceInv' /\ DevInv'
  BY <1>0, ZenonT(30) DEF Inv, PlaceInv, Placed, DevInv
<1>5. \A q \in Proc : SameSleep(q)
  BY <1>0, ZenonT(30) DEF SameSleep
<1>6. AvailInv' /\ UsedInv'
  BY <1>0, <1>5, HeadsKept, AvailKept, UsedKept, ZenonT(30) DEF Inv
<1>7. NoLostInterrupt'
  BY <1>0, ZenonT(30) DEF Inv, NoLostInterrupt, FreeDescs
<1> QED BY <1>1, <1>3, <1>4, <1>6, <1>7, ZenonT(30) DEF Inv

\* Every step keeps the invariant.
LEMMA InvStep ==
    ASSUME Inv, [Next]_vars
    PROVE  Inv'
<1>1. CASE Next
  <2>1. Step
    BY <1>1, Cases, ZenonT(30)
  <2>2. /\ DescType /\ RingType /\ BufType /\ ChainInv /\ CountInv /\ PlaceInv /\ DevInv
        /\ AvailInv /\ UsedInv /\ NoLostInterrupt
    BY TypeParts, ZenonT(30) DEF Inv
  <2>3. DescType'
    BY <2>1, <2>2, DescStep, ZenonT(30)
  <2>4. RingType'
    BY <2>1, <2>2, RingStep, ZenonT(30)
  <2>5. BufType'
    BY <2>1, <2>2, BufStep, ZenonT(30)
  <2>6. ChainInv' /\ CountInv'
    BY <2>1, <2>2, ChainStep, ZenonT(30)
  <2>7. PlaceInv'
    BY <2>1, <2>2, PlaceStep, ZenonT(30)
  <2>8. DevInv'
    BY <2>1, <2>2, DevStep, ZenonT(30)
  <2>9. AvailInv' /\ UsedInv'
    BY <2>1, <2>2, RingsStep, ZenonT(30)
  <2>10. NoLostInterrupt'
    BY <2>1, <2>2, LostStep, ZenonT(30)
  <2> QED BY <2>3, <2>4, <2>5, <2>6, <2>7, <2>8, <2>9, <2>10, TypeParts, ZenonT(30) DEF Inv
<1>2. CASE UNCHANGED vars
  BY <1>2, InvStutter, ZenonT(30)
<1> QED BY <1>1, <1>2, ZenonT(30)

-----------------------------------------------------------------------------
(* The theorems.                                                           *)

\* The inductive invariant: chains of three descriptors, disjoint, over exactly
\* the descriptors in use; in each ring, between its two indices, exactly the
\* requests that wait there, each once, however often the 16-bit indices wrap.
THEOREM DriverInvariant == Spec => []Inv
<1>1. Init => Inv
  BY InvInit, ZenonT(30)
<1>2. Inv /\ [Next]_vars => Inv'
  BY InvStep, ZenonT(30)
<1> QED BY <1>1, <1>2, PTL DEF Spec

\* The invariant says what ChainsPartition says, of the chains that
\* free_chain() walks over.
LEMMA ChainsFromInv ==
    ASSUME Inv
    PROVE  ChainsPartition
<1>0. TypeOK /\ ChainInv
  BY ZenonT(30) DEF Inv
<1>1. ASSUME NEW p \in InFlight PROVE Chain(idx[p]) = Cells(p) /\ Cells(p) \subseteq Desc /\ ChainOk(p)
  <2>1. p \in Proc /\ ChainOk(p)
    BY <1>0, ZenonT(30) DEF InFlight, ChainInv
  <2> QED BY <1>0, <2>1, ChainIs, ZenonT(30)
<1>2. {i \in Desc : ~free[i]} = UNION {Chain(idx[p]) : p \in InFlight}
  <2>1. \A d \in Desc : ~free[d] <=> \E p \in InFlight : d \in Cells(p)
    BY <1>0, ZenonT(30) DEF ChainInv
  <2> QED BY <1>1, <2>1, ZenonT(30)
<1>3. ASSUME NEW p \in InFlight PROVE Cardinality(Chain(idx[p])) = 3
  <2> DEFINE i == idx[p]
             j == J(p)
             k == K(p)
  <2>1. i # j /\ i # k /\ j # k
    BY <1>1, ZenonT(30) DEF ChainOk
  <2>2. Chain(idx[p]) = {i, j, k}
    BY <1>1, ZenonT(30) DEF Cells
  <2> HIDE DEF i, j, k
  <2> DEFINE A == {i}
             B == A \cup {j}
             C == B \cup {k}
  <2>3. IsFiniteSet(A) /\ Cardinality(A) = 1 /\ j \notin A
    BY <2>1, FS_Singleton, ZenonT(30)
  <2>4. k \notin B /\ C = {i, j, k}
    BY <2>1, ZenonT(30)
  <2> HIDE DEF A
  <2>5. IsFiniteSet(B) /\ Cardinality(B) = Cardinality(A) + 1
    BY <2>3, FS_AddElement, ZenonT(30)
  <2> HIDE DEF B
  <2>6. Cardinality(C) = Cardinality(B) + 1
    BY <2>4, <2>5, FS_AddElement, ZenonT(30)
  <2> HIDE DEF C
  <2>7. Cardinality(C) = 3
    BY <2>3, <2>5, <2>6
  <2> QED BY <2>2, <2>4, <2>7, ZenonT(30)
<1>4. ASSUME NEW p \in InFlight, NEW q \in InFlight, p # q PROVE Chain(idx[p]) \cap Chain(idx[q]) = {}
  <2>1. Cells(p) \cap Cells(q) = {}
    BY <1>0, <1>4, ZenonT(30) DEF ChainInv
  <2> QED BY <1>1, <2>1, ZenonT(30)
<1> QED BY <1>0, <1>2, <1>3, <1>4, ZenonT(30) DEF ChainsPartition

\* For any number of processes and descriptors: the chains of the requests in
\* flight are disjoint, of three descriptors each, and exactly their
\* descriptors are in use, so free_desc() never frees a free one.
THEOREM ChainsAlwaysPartition == Spec => []ChainsPartition
<1>1. Inv => ChainsPartition
  BY ChainsFromInv, ZenonT(30)
<1> QED BY <1>1, DriverInvariant, PTL

\* No completion in the used ring is left without an interrupt to come or a
\* handler at work, and nobody sleeps for descriptors while three are free.
THEOREM InterruptsNotLost == Spec => []NoLostInterrupt
<1>1. Inv => NoLostInterrupt
  BY ZenonT(30) DEF Inv
<1> QED BY <1>1, DriverInvariant, PTL

-----------------------------------------------------------------------------
(* virtio_disk_rw() as a synchronous transfer.                             *)

\* What the callers see of the requests: the refinement mapping.
Req == [p \in Proc |->
          IF pc[p] = "idle" THEN "none"
          ELSE IF p \in InFlight /\ info[idx[p]].ok THEN "done" ELSE "called"]

\* A function that a step changes in one place at most.
LEMMA OnePlace ==
    ASSUME NEW f, NEW g, f = [q \in Proc |-> f[q]], g = [q \in Proc |-> g[q]], NEW p \in Proc,
           \A q \in Proc : q # p => g[q] = f[q]
    PROVE  g = [f EXCEPT ![p] = g[p]] /\ (g[p] = f[p] => g = f)
OBVIOUS

\* The request of q, before and after a step.
LEMMA ReqIs ==
    ASSUME NEW q \in Proc
    PROVE  /\ pc[q] = "idle" => Req[q] = "none"
           /\ pc[q] \in {"alloc", "sleep_free"} => Req[q] = "called"
           /\ pc[q] \in {"notify", "sleep_b", "woken_b"} =>
                 Req[q] = IF info[idx[q]].ok THEN "done" ELSE "called"
           /\ pc'[q] = "idle" => Req'[q] = "none"
           /\ pc'[q] \in {"alloc", "sleep_free"} => Req'[q] = "called"
           /\ pc'[q] \in {"notify", "sleep_b", "woken_b"} =>
                 Req'[q] = IF info'[idx'[q]].ok THEN "done" ELSE "called"
<1>1. Req[q] = IF pc[q] = "idle" THEN "none"
               ELSE IF q \in InFlight /\ info[idx[q]].ok THEN "done" ELSE "called"
  BY ZenonT(30) DEF Req
<1>2. Req'[q] = IF pc'[q] = "idle" THEN "none"
                ELSE IF q \in InFlight' /\ info'[idx'[q]].ok THEN "done" ELSE "called"
  BY ZenonT(30) DEF Req
<1>3. q \in InFlight <=> pc[q] \in {"notify", "sleep_b", "woken_b"}
  BY ZenonT(30) DEF InFlight
<1>4. q \in InFlight' <=> pc'[q] \in {"notify", "sleep_b", "woken_b"}
  BY ZenonT(30) DEF InFlight
<1> QED BY <1>1, <1>2, <1>3, <1>4, ZenonT(30)

\* A step that the request of q stays out of.
LEMMA ReqKept ==
    ASSUME BufType, NEW q \in Proc,
           pc'[q] = pc[q] \/ (pc[q] = "sleep_free" /\ pc'[q] = "alloc"),
           q \in InFlight => info'[idx'[q]].ok = info[idx[q]].ok
    PROVE  Req'[q] = Req[q]
<1>1. CASE pc[q] = "sleep_free" /\ pc'[q] = "alloc"
  BY <1>1, ReqIs, ZenonT(30)
<1>2. CASE pc'[q] = pc[q]
  <2>1. pc[q] \in Label
    BY ZenonT(30) DEF BufType
  <2>2. CASE pc[q] \in {"notify", "sleep_b", "woken_b"}
    BY <1>2, <2>2, ReqIs, ZenonT(30) DEF InFlight
  <2>3. CASE pc[q] \in {"idle", "alloc", "sleep_free"}
    BY <1>2, <2>3, ReqIs, ZenonT(30)
  <2> QED BY <2>1, <2>2, <2>3, ZenonT(30) DEF Label
<1> QED BY <1>1, <1>2, ZenonT(30)

\* The device serving a request is the transfer; a call and its return are
\* themselves; nothing else is seen.
LEMMA SyncStep ==
    ASSUME DescType, BufType, ChainInv, PlaceInv, Step
    PROVE  Sync!Next \/ UNCHANGED Sync!vars
<1>1. ASSUME NEW p \in Proc, NEW w \in BOOLEAN, NEW v \in Value, Call(p, w, v) PROVE Sync!Next \/ UNCHANGED Sync!vars
  <2>f. Req = [q \in Proc |-> Req[q]] /\ Req' = [q \in Proc |-> Req'[q]]
    BY ZenonT(30) DEF Req
  <2>1. Req[p] = "none" /\ Req'[p] = "called"
    <3>1. pc[p] = "idle" /\ pc'[p] = "alloc"
      BY <1>1, ZenonT(30) DEF Call, Goto, BufType
    <3> QED BY <3>1, ReqIs, ZenonT(30)
  <2>2. ASSUME NEW q \in Proc, q # p PROVE Req'[q] = Req[q]
    <3>1. pc'[q] = pc[q] \/ (pc[q] = "sleep_free" /\ pc'[q] = "alloc")
      BY <1>1, <2>2, ZenonT(30) DEF Call, BufType, Goto
    <3>2. info' = info /\ idx' = idx
      BY <1>1, ZenonT(30) DEF Call, drv
    <3> QED BY <3>1, <3>2, ReqKept, ZenonT(30)
  <2>3. Req' = [Req EXCEPT ![p] = "called"]
    BY <2>f, <2>1, <2>2, OnePlace, ZenonT(30)
  <2>4. Sync!Call(p, w, v)
    BY <1>1, <2>1, <2>3, ZenonT(30) DEF Call, Sync!Call, Req
  <2> QED BY <2>4, ZenonT(30) DEF Sync!Next
<1>2. ASSUME NEW p \in Proc, AllocFails(p) PROVE Sync!Next \/ UNCHANGED Sync!vars
  <2>f. Req = [q \in Proc |-> Req[q]] /\ Req' = [q \in Proc |-> Req'[q]]
    BY ZenonT(30) DEF Req
  <2>8. UNCHANGED <<disk, data, write>>
    BY <1>2, ZenonT(30) DEF AllocFails
  <2>1. Req'[p] = Req[p]
    <3>1. pc[p] = "alloc" /\ pc'[p] = "sleep_free"
      BY <1>2, ZenonT(30) DEF AllocFails, BufType, WakeupFree
    <3> QED BY <3>1, ReqIs, ZenonT(30)
  <2>2. ASSUME NEW q \in Proc, q # p PROVE Req'[q] = Req[q]
    <3>1. pc'[q] = pc[q] \/ (pc[q] = "sleep_free" /\ pc'[q] = "alloc")
      BY <1>2, <2>2, ZenonT(30) DEF AllocFails, BufType, WakeupFree
    <3>2. info' = info /\ idx' = idx
      BY <1>2, ZenonT(30) DEF AllocFails, drv
    <3> QED BY <3>1, <3>2, ReqKept, ZenonT(30)
  <2>9. Req' = Req
    BY <2>f, <2>1, <2>2, OnePlace, ZenonT(30)
  <2> QED BY <2>8, <2>9, ZenonT(30) DEF Sync!vars, Req
<1>3. ASSUME NEW p \in Proc, NEW i \in Desc, NEW j \in Desc, NEW k \in Desc, SubmitAt(p, i, j, k) PROVE Sync!Next \/ UNCHANGED Sync!vars
  <2>f. Req = [q \in Proc |-> Req[q]] /\ Req' = [q \in Proc |-> Req'[q]]
    BY ZenonT(30) DEF Req
  <2>8. UNCHANGED <<disk, data, write>>
    BY <1>3, ZenonT(30) DEF SubmitAt
  <2>1. Req'[p] = Req[p]
    <3>1. pc[p] = "alloc" /\ pc'[p] = "notify" /\ idx'[p] = i /\ ~info'[i].ok
      BY <1>3, ZenonT(30) DEF SubmitAt, BufType, DescType
    <3> QED BY <3>1, ReqIs, ZenonT(30)
  <2>2. ASSUME NEW q \in Proc, q # p PROVE Req'[q] = Req[q]
    <3>1. pc'[q] = pc[q] /\ idx'[q] = idx[q]
      BY <1>3, <2>2, ZenonT(30) DEF SubmitAt, BufType, DescType
    <3>2. ASSUME q \in InFlight PROVE info'[idx[q]] = info[idx[q]]
      <4>1. idx[q] \in Desc /\ idx[q] # i
        BY <1>3, <3>2, CellsUsed, ZenonT(30) DEF SubmitAt
      <4> QED BY <1>3, <4>1, ZenonT(30) DEF SubmitAt, DescType
    <3> QED BY <3>1, <3>2, ReqKept, ZenonT(30)
  <2>9. Req' = Req
    BY <2>f, <2>1, <2>2, OnePlace, ZenonT(30)
  <2> QED BY <2>8, <2>9, ZenonT(30) DEF Sync!vars, Req
<1>4. ASSUME NEW p \in Proc, Notify(p) PROVE Sync!Next \/ UNCHANGED Sync!vars
  <2>f. Req = [q \in Proc |-> Req[q]] /\ Req' = [q \in Proc |-> Req'[q]]
    BY ZenonT(30) DEF Req
  <2>8. UNCHANGED <<disk, data, write>>
    BY <1>4, ZenonT(30) DEF Notify
  <2>1. Req'[p] = Req[p]
    <3>1. pc[p] = "notify" /\ pc'[p] = "sleep_b" /\ info' = info /\ idx' = idx
      BY <1>4, ZenonT(30) DEF Notify, BufType, Goto, drv
    <3> QED BY <3>1, ReqIs, ZenonT(30)
  <2>2. ASSUME NEW q \in Proc, q # p PROVE Req'[q] = Req[q]
    <3>1. pc'[q] = pc[q] \/ (pc[q] = "sleep_free" /\ pc'[q] = "alloc")
      BY <1>4, <2>2, ZenonT(30) DEF Notify, BufType, Goto
    <3>2. info' = info /\ idx' = idx
      BY <1>4, ZenonT(30) DEF Notify, drv
    <3> QED BY <3>1, <3>2, ReqKept, ZenonT(30)
  <2>9. Req' = Req
    BY <2>f, <2>1, <2>2, OnePlace, ZenonT(30)
  <2> QED BY <2>8, <2>9, ZenonT(30) DEF Sync!vars, Req
<1>5. ASSUME NEW p \in Proc, ReturnOf(p) PROVE Sync!Next \/ UNCHANGED Sync!vars
  <2>f. Req = [q \in Proc |-> Req[q]] /\ Req' = [q \in Proc |-> Req'[q]]
    BY ZenonT(30) DEF Req
  <2>1. Req[p] = "done" /\ Req'[p] = "none"
    <3>1. pc[p] = "woken_b" /\ pc'[p] = "idle" /\ info[idx[p]].ok
      BY <1>5, ZenonT(30) DEF ReturnOf, WakeupFree, BufType, PlaceInv, Placed
    <3> QED BY <3>1, ReqIs, ZenonT(30)
  <2>2. ASSUME NEW q \in Proc, q # p PROVE Req'[q] = Req[q]
    <3>1. pc'[q] = pc[q] \/ (pc[q] = "sleep_free" /\ pc'[q] = "alloc")
      BY <1>5, <2>2, ZenonT(30) DEF ReturnOf, BufType, WakeupFree
    <3>2. idx'[q] = idx[q] /\ idx[q] \in Desc
      BY <1>5, <2>2, ZenonT(30) DEF ReturnOf, DescType
    <3>3. info'[idx[q]].ok = info[idx[q]].ok
      BY <1>5, <3>2, ZenonT(30) DEF ReturnOf, DescType
    <3> QED BY <3>1, <3>2, <3>3, ReqKept, ZenonT(30)
  <2>3. Req' = [Req EXCEPT ![p] = "none"]
    BY <2>f, <2>1, <2>2, OnePlace, ZenonT(30)
  <2>4. Sync!Return(p)
    BY <1>5, <2>1, <2>3, ZenonT(30) DEF ReturnOf, Sync!Return, Req
  <2> QED BY <2>4, ZenonT(30) DEF Sync!Next
<1>6. ASSUME IntrAck PROVE Sync!Next \/ UNCHANGED Sync!vars
  <2>8. UNCHANGED <<disk, data, write>>
    BY <1>6, ZenonT(30) DEF IntrAck
  <2>9. Req' = Req
    BY <1>6, ZenonT(30) DEF IntrAck, Req, InFlight, drv
  <2> QED BY <2>8, <2>9, ZenonT(30) DEF Sync!vars, Req
<1>7. ASSUME NEW p \in Proc, EntryOf(p) PROVE Sync!Next \/ UNCHANGED Sync!vars
  <2>f. Req = [q \in Proc |-> Req[q]] /\ Req' = [q \in Proc |-> Req'[q]]
    BY ZenonT(30) DEF Req
  <2>8. UNCHANGED <<disk, data, write>>
    BY <1>7, ZenonT(30) DEF EntryOf
  <2>1. Req'[p] = Req[p]
    <3>1. pc[p] = "sleep_b" /\ pc'[p] = "woken_b" /\ info' = info /\ idx' = idx
      BY <1>7, ZenonT(30) DEF EntryOf, BufType, Served, drv
    <3> QED BY <3>1, ReqIs, ZenonT(30)
  <2>2. ASSUME NEW q \in Proc, q # p PROVE Req'[q] = Req[q]
    <3>1. pc'[q] = pc[q] \/ (pc[q] = "sleep_free" /\ pc'[q] = "alloc")
      BY <1>7, <2>2, ZenonT(30) DEF EntryOf, BufType, Served
    <3>2. info' = info /\ idx' = idx
      BY <1>7, ZenonT(30) DEF EntryOf, drv
    <3> QED BY <3>1, <3>2, ReqKept, ZenonT(30)
  <2>9. Req' = Req
    BY <2>f, <2>1, <2>2, OnePlace, ZenonT(30)
  <2> QED BY <2>8, <2>9, ZenonT(30) DEF Sync!vars, Req
<1>8. ASSUME IntrDone PROVE Sync!Next \/ UNCHANGED Sync!vars
  <2>8. UNCHANGED <<disk, data, write>>
    BY <1>8, ZenonT(30) DEF IntrDone
  <2>9. Req' = Req
    BY <1>8, ZenonT(30) DEF IntrDone, Req, InFlight, drv
  <2> QED BY <2>8, <2>9, ZenonT(30) DEF Sync!vars, Req
<1>9. ASSUME NEW p \in Proc, FetchOf(p) PROVE Sync!Next \/ UNCHANGED Sync!vars
  <2>8. UNCHANGED <<disk, data, write>>
    BY <1>9, ZenonT(30) DEF FetchOf
  <2>9. Req' = Req
    BY <1>9, ZenonT(30) DEF FetchOf, Req, InFlight, drv
  <2> QED BY <2>8, <2>9, ZenonT(30) DEF Sync!vars, Req
<1>10. ASSUME NEW p \in Proc, ServeOf(p) PROVE Sync!Next \/ UNCHANGED Sync!vars
  <2>f. Req = [q \in Proc |-> Req[q]] /\ Req' = [q \in Proc |-> Req'[q]]
    BY ZenonT(30) DEF Req
  <2>0. /\ pc' = pc /\ idx' = idx /\ pc[p] = "sleep_b" /\ ~info[idx[p]].ok /\ idx[p] \in Desc
        /\ info' = [info EXCEPT ![idx[p]].ok = TRUE]
    BY <1>10, ZenonT(30) DEF ServeOf, DescType
  <2>1. Req[p] = "called" /\ Req'[p] = "done"
    <3>1. info'[idx[p]].ok
      BY <2>0, ZenonT(30) DEF DescType
    <3> QED BY <2>0, <3>1, ReqIs, ZenonT(30)
  <2>2. ASSUME NEW q \in Proc, q # p PROVE Req'[q] = Req[q]
    <3>1. ASSUME q \in InFlight PROVE info'[idx[q]] = info[idx[q]]
      <4>1. idx[q] # idx[p] /\ idx[q] \in Desc
        BY <2>0, <2>2, <3>1, OneOwner, ZenonT(30) DEF InFlight, DescType
      <4> QED BY <2>0, <4>1, ZenonT(30) DEF DescType
    <3> QED BY <2>0, <3>1, ReqKept, ZenonT(30)
  <2>3. Req' = [Req EXCEPT ![p] = "done"]
    BY <2>f, <2>1, <2>2, OnePlace, ZenonT(30)
  <2>4. Sync!Transfer(p)
    BY <1>10, <2>1, <2>3, ZenonT(30) DEF ServeOf, Sync!Transfer, Req
  <2> QED BY <2>4, ZenonT(30) DEF Sync!Next
<1> QED BY <1>1, <1>2, <1>3, <1>4, <1>5, <1>6, <1>7, <1>8, <1>9, <1>10, ZenonT(30) DEF Step

\* virtio_disk_rw() is a synchronous transfer: for any number of processes and
\* descriptors, and whatever the order in which the device completes requests,
\* each one has its block moved, in the direction it asked for, exactly once
\* before it returns, and no block or buffer of another.
THEOREM DriverIsSynchronous == Spec => SyncSpec
<1>1. Init => Sync!Init
  <2> SUFFICES ASSUME Init PROVE Sync!Init
    OBVIOUS
  <2>1. disk \in [Proc -> Value] /\ data \in [Proc -> Value] /\ write = [p \in Proc |-> FALSE]
    BY ZenonT(30) DEF Init
  <2>2. \A p \in Proc : pc[p] = "idle"
    BY ZenonT(30) DEF Init
  <2>3. Req = [p \in Proc |-> "none"]
    BY <2>2, ZenonT(30) DEF Req
  <2> QED BY <2>1, <2>3, ZenonT(30) DEF Sync!Init, Req
<1>2. Inv /\ [Next]_vars => [Sync!Next]_(Sync!vars)
  <2> SUFFICES ASSUME Inv, [Next]_vars PROVE Sync!Next \/ UNCHANGED Sync!vars
    OBVIOUS
  <2>1. CASE Next
    <3>1. Step /\ DescType /\ BufType /\ ChainInv /\ PlaceInv
      BY <2>1, Cases, TypeParts, ZenonT(30) DEF Inv
    <3> QED BY <3>1, SyncStep, ZenonT(30)
  <2>2. CASE UNCHANGED vars
    <3>1. UNCHANGED <<disk, data, write, pc, info, idx>>
      BY <2>2, ZenonT(30) DEF vars, drv
    <3>2. Req' = Req
      BY <3>1, ZenonT(30) DEF Req, InFlight
    <3> QED BY <3>1, <3>2, ZenonT(30) DEF Sync!vars, Req
  <2> QED BY <2>1, <2>2, ZenonT(30)
<1> QED BY <1>1, <1>2, DriverInvariant, PTL DEF Spec, SyncSpec, Sync!Spec
=============================================================================
