---------------------------- MODULE BcacheProofs ----------------------------
(***************************************************************************)
(* Proofs about the buffer cache, for any number of processes, buffers and *)
(* blocks: reference counts are exact, and the cache implements BlockStore.*)
(***************************************************************************)
EXTENDS Bcache, FiniteSetTheorems, WellFoundedInduction, TLAPS

-----------------------------------------------------------------------------
(* The inductive invariant.                                                *)

\* Between bget() and the end of brelse(); with the sleep-lock; after bread().
InCall == {"acquiresleep", "asleep", "bread", "use", "bunpin", "brelse"}
HasLock == {"bread", "use", "bunpin"}

\* The list has every buffer once.
ListInv ==
    /\ lru \in Seq(Buf) /\ Len(lru) = Cardinality(Buf) /\ Range(lru) = Buf
    /\ \A j, k \in 1..Len(lru) : lru[j] = lru[k] => j = k

\* No block has two buffers.
OneBuffer == \A i, j \in Buf : blockno[i] \in Block /\ blockno[i] = blockno[j] => i = j

Pin(i) == IF blockno[i] \in pinned THEN 1 ELSE 0
CountInv == \A i \in Buf : refcnt[i] = Cardinality(Users(i)) + Pin(i)

\* A process in a call has a buffer of its block, that stays its block's.
UseInv == \A p \in Proc : pc[p] \in InCall => want[p] \in Block /\ blockno[buf[p]] = want[p]
LockInv == \A i \in Buf, p \in Proc : owner[i] = p <=> buf[p] = i /\ pc[p] \in HasLock
ReadInv == \A p \in Proc : pc[p] \in {"use", "bunpin"} => valid[buf[p]]

\* A logged block is in the cache; one that is not is on the disk.
PinInv == \A b \in pinned : \E i \in Buf : blockno[i] = b /\ valid[i]
CleanInv == \A i \in Buf : valid[i] /\ blockno[i] \in Block /\ blockno[i] \notin pinned =>
                              data[i] = disk[blockno[i]]
UnpinInv == \A p \in Proc : pc[p] = "bunpin" => want[p] \in pinned /\ data[buf[p]] = disk[want[p]]

Inv == /\ TypeOK /\ ListInv /\ OneBuffer /\ CountInv /\ UseInv /\ LockInv /\ ReadInv
       /\ PinInv /\ CleanInv /\ UnpinInv

-----------------------------------------------------------------------------
(* The list of buffers.                                                    *)

\* A maximum, from the minimum of what is left to a bound.
LEMMA GreatestIn ==
    ASSUME NEW R, NEW n \in Nat, NEW S \in SUBSET (1..n), S # {},
           \A T \in SUBSET Nat : T # {} => \E x \in T : \A y \in T : ~(<<y, x>> \in R),
           \A x, y \in Nat : y < x => <<y, x>> \in R
    PROVE  \E x \in S : \A y \in S : x >= y
<1>0. \A k \in S : k \in Nat
  OBVIOUS
<1> DEFINE T == {n - k : k \in S}
<1>1. T \in SUBSET Nat /\ T # {}
  OBVIOUS
<1>2. PICK x \in T : \A y \in T : ~(<<y, x>> \in R)
  BY <1>1, ZenonT(30)
<1>3. PICK k \in S : x = n - k
  OBVIOUS
<1>4. ASSUME NEW j \in S PROVE k >= j
  <2> DEFINE y == n - j
  <2>1. y \in T
    BY ZenonT(30)
  <2>2. y \in Nat /\ x \in Nat
    BY <1>3
  <2>3. ~(y < x)
    <3> HIDE DEF y, T
    <3> QED BY <1>2, <2>1, <2>2, ZenonT(30)
  <2>4. k \in Nat /\ j \in Nat
    BY <1>0, ZenonT(30)
  <2> QED BY <1>3, <2>3, <2>4
<1> QED BY <1>4

\* The second loop of bget() finds an unused buffer when there is one.
LEMMA Greatest ==
    ASSUME NEW n \in Nat, NEW S \in SUBSET (1..n), S # {}
    PROVE  Max(S) \in S
<1>1. \A T \in SUBSET Nat : T # {} => \E x \in T : \A y \in T : ~(<<y, x>> \in OpToRel(<, Nat))
  BY NatLessThanWellFounded, WFMin, ZenonT(30)
<1>2. \A x, y \in Nat : y < x => <<y, x>> \in OpToRel(<, Nat)
  BY DEF OpToRel
<1>3. \E x \in S : \A y \in S : x >= y
  BY <1>1, <1>2, GreatestIn, ZenonT(30)
<1> QED BY <1>3, ZenonT(30) DEF Max

\* binit() links every buffer once.
LEMMA ListOfAll ==
    /\ Linked \in Seq(Buf) /\ Len(Linked) = Cardinality(Buf) /\ Range(Linked) = Buf
    /\ \A j, k \in 1..Len(Linked) : Linked[j] = Linked[k] => j = k
    /\ Head(Linked) \in Buf
<1> DEFINE n == Cardinality(Buf)
           D == 1..n
           s == Linked
<1>1. IsFiniteSet(Buf) /\ n \in Nat /\ ExistsBijection(D, Buf)
  BY BcacheAssumption, FS_CardinalityType
<1>2. s \in Bijection(D, Buf)
  BY <1>1, ZenonT(30) DEF ExistsBijection, Linked
<1> HIDE DEF s, n
<1>3. s \in [D -> Buf] /\ IsInjective(s) /\ \A b \in Buf : \E d \in D : s[d] = b
  BY <1>2, ZenonT(30) DEF Bijection, Injection, Surjection
<1>4. s \in Seq(Buf) /\ Len(s) = n /\ DOMAIN s = D
  BY <1>1, <1>3
<1>5. Range(s) = Buf
  BY <1>3, <1>4 DEF Range
<1>6. \A j, k \in 1..Len(s) : s[j] = s[k] => j = k
  BY <1>3, <1>4 DEF IsInjective
<1>7. Head(s) \in Buf
  <2>1. n # 0
    BY <1>1, BcacheAssumption, FS_EmptySet DEF n
  <2>2. 1 \in D
    BY <1>1, <2>1
  <2> QED BY <1>3, <1>4, <2>2
<1> QED BY <1>4, <1>5, <1>6, <1>7 DEF s, n

\* The length of two lists put together.
LEMMA JoinLength ==
    ASSUME NEW S, NEW s \in Seq(S), NEW t \in Seq(S)
    PROVE  Len(s \o t) = Len(s) + Len(t)
OBVIOUS

\* A sequence with entry k moved to the front.
LEMMA Fronted ==
    ASSUME NEW s \in Seq(Buf), NEW k \in 1..Len(s)
    PROVE  LET t == <<s[k]>> \o (SubSeq(s, 1, k - 1) \o SubSeq(s, k + 1, Len(s)))
           IN  /\ t \in Seq(Buf) /\ Len(t) = Len(s)
               /\ \A j \in 1..Len(s) : t[j] = s[IF j = 1 THEN k ELSE IF j <= k THEN j - 1 ELSE j]
<1> DEFINE a == SubSeq(s, 1, k - 1)
           b == SubSeq(s, k + 1, Len(s))
           r == a \o b
           t == <<s[k]>> \o r
<1>0. k \in Nat /\ k >= 1 /\ k <= Len(s) /\ Len(s) \in Nat /\ s[k] \in Buf
  OBVIOUS
<1>1. a \in Seq(Buf) /\ Len(a) = k - 1 /\ \A j \in 1..(k - 1) : a[j] = s[j]
  BY <1>0
<1>2. b \in Seq(Buf) /\ Len(b) = Len(s) - k /\ \A j \in 1..(Len(s) - k) : b[j] = s[k + j]
  BY <1>0
<1> HIDE DEF a, b
<1>3. /\ r \in Seq(Buf) /\ Len(r) = Len(s) - 1
      /\ \A j \in 1..(Len(s) - 1) : r[j] = IF j < k THEN a[j] ELSE b[j - (k - 1)]
  <2>0. r \in Seq(Buf)
    BY <1>1, <1>2
  <2>1. Len(r) = Len(a) + Len(b)
    BY <1>1, <1>2, JoinLength, ZenonT(30)
  <2>2. \A j \in 1..(Len(a) + Len(b)) : r[j] = IF j <= Len(a) THEN a[j] ELSE b[j - Len(a)]
    BY <1>1, <1>2
  <2>3. Len(a) + Len(b) = Len(s) - 1 /\ \A j \in 1..(Len(s) - 1) : j < k <=> j <= Len(a)
    BY <1>0, <1>1, <1>2
  <2> HIDE DEF r
  <2> QED BY <1>1, <2>0, <2>1, <2>2, <2>3, ZenonT(30)
<1> HIDE DEF r
<1>4. t \in Seq(Buf) /\ Len(t) = Len(s) /\ t[1] = s[k] /\ \A j \in 2..Len(s) : t[j] = r[j - 1]
  BY <1>0, <1>3
<1> HIDE DEF t
<1>5. ASSUME NEW j \in 1..Len(s)
      PROVE  t[j] = s[IF j = 1 THEN k ELSE IF j <= k THEN j - 1 ELSE j]
  <2>1. CASE j = 1
    BY <1>4, <2>1
  <2>2. CASE j # 1 /\ j <= k
    <3>1. j \in 2..Len(s) /\ j - 1 \in 1..(Len(s) - 1) /\ j - 1 < k /\ j - 1 \in 1..(k - 1)
      BY <1>0, <2>2
    <3>2. t[j] = s[j - 1]
      BY <1>1, <1>3, <1>4, <3>1
    <3> QED BY <2>2, <3>2
  <2>3. CASE j > k
    <3>1. /\ j \in 2..Len(s) /\ j - 1 \in 1..(Len(s) - 1) /\ ~(j - 1 < k)
          /\ (j - 1) - (k - 1) \in 1..(Len(s) - k) /\ k + ((j - 1) - (k - 1)) = j
      BY <1>0, <2>3
    <3>2. t[j] = s[j]
      BY <1>2, <1>3, <1>4, <3>1
    <3> QED BY <1>0, <2>3, <3>2
  <2> QED BY <1>0, <2>1, <2>2, <2>3
<1> QED BY <1>4, <1>5, ZenonT(30) DEF t, r, a, b

\* brelse() moves a buffer to the front of the list.
LEMMA MoveToFront ==
    ASSUME ListInv, NEW i \in Buf, lru' = <<i>> \o Unlink(i)
    PROVE  ListInv'
<1> DEFINE k == Place(i)
           From(j) == IF j = 1 THEN k ELSE IF j <= k THEN j - 1 ELSE j
           To(j) == IF j = k THEN 1 ELSE IF j < k THEN j + 1 ELSE j
<1>0. lru \in Seq(Buf) /\ Len(lru) \in Nat /\ DOMAIN lru = 1..Len(lru)
  BY DEF ListInv
<1>1. k \in 1..Len(lru) /\ lru[k] = i
  <2>1. \E j \in DOMAIN lru : lru[j] = i
    BY ZenonT(30) DEF ListInv, Range
  <2> QED BY <1>0, <2>1, ZenonT(30) DEF Place
<1> HIDE DEF k
<1>2. /\ lru' \in Seq(Buf) /\ Len(lru') = Len(lru)
      /\ \A j \in 1..Len(lru) : lru'[j] = lru[From(j)]
  <2>1. lru' = <<lru[k]>> \o (SubSeq(lru, 1, k - 1) \o SubSeq(lru, k + 1, Len(lru)))
    BY <1>1, ZenonT(30) DEF k, Unlink
  <2>2. LET t == <<lru[k]>> \o (SubSeq(lru, 1, k - 1) \o SubSeq(lru, k + 1, Len(lru)))
        IN  /\ t \in Seq(Buf) /\ Len(t) = Len(lru)
            /\ \A j \in 1..Len(lru) : t[j] = lru[From(j)]
    BY <1>0, <1>1, Fronted, ZenonT(30)
  <2> HIDE DEF From
  <2> QED BY <2>1, <2>2, ZenonT(30)
<1>3. \A j \in 1..Len(lru) : From(j) \in 1..Len(lru) /\ To(j) \in 1..Len(lru) /\ From(To(j)) = j
  BY <1>0, <1>1
<1>4. \A j, h \in 1..Len(lru) : From(j) = From(h) => j = h
  BY <1>0, <1>1
<1> HIDE DEF From, To
<1>5. Range(lru') = Buf
  <2>1. DOMAIN lru' = 1..Len(lru)
    BY <1>2
  <2>2. ASSUME NEW x \in Buf PROVE \E j \in 1..Len(lru) : lru'[j] = x
    <3>1. PICK h \in 1..Len(lru) : lru[h] = x
      BY <1>0, ZenonT(30) DEF ListInv, Range
    <3> QED BY <1>2, <1>3, <3>1, ZenonT(30)
  <2>3. \A j \in 1..Len(lru) : lru'[j] \in Buf
    <3>1. \A j \in 1..Len(lru) : lru[j] \in Buf
      BY <1>0
    <3> QED BY <1>2, <1>3, <3>1, ZenonT(30)
  <2> QED BY <2>1, <2>2, <2>3, ZenonT(30) DEF Range
<1>6. \A j, h \in 1..Len(lru') : lru'[j] = lru'[h] => j = h
  <2>1. SUFFICES ASSUME NEW j \in 1..Len(lru), NEW h \in 1..Len(lru), lru'[j] = lru'[h]
                 PROVE  j = h
    BY <1>2, ZenonT(30)
  <2>2. lru[From(j)] = lru[From(h)] /\ From(j) \in 1..Len(lru) /\ From(h) \in 1..Len(lru)
    BY <1>2, <1>3, <2>1, ZenonT(30)
  <2>3. From(j) = From(h)
    BY <2>2, ZenonT(30) DEF ListInv
  <2> QED BY <1>4, <2>3, ZenonT(30)
<1> QED BY <1>2, <1>5, <1>6, ZenonT(30) DEF ListInv

-----------------------------------------------------------------------------
(* The steps, one by one.                                                  *)

\* bget() finds the block, recycles a buffer for it, or panics.
Hit(p, b, i) ==
    /\ pc[p] = "idle" /\ blockno[i] = b
    /\ want' = [want EXCEPT ![p] = b]
    /\ refcnt' = [refcnt EXCEPT ![i] = @ + 1]
    /\ buf' = [buf EXCEPT ![p] = i]
    /\ pc' = [pc EXCEPT ![p] = "acquiresleep"]
    /\ UNCHANGED <<blockno, valid, data, owner, lru, pinned, disk>>

Recycle(p, b, i) ==
    /\ pc[p] = "idle" /\ refcnt[i] = 0 /\ (\A j \in Buf : blockno[j] # b)
    /\ want' = [want EXCEPT ![p] = b]
    /\ blockno' = [blockno EXCEPT ![i] = b]
    /\ valid' = [valid EXCEPT ![i] = FALSE]
    /\ refcnt' = [refcnt EXCEPT ![i] = 1]
    /\ buf' = [buf EXCEPT ![p] = i]
    /\ pc' = [pc EXCEPT ![p] = "acquiresleep"]
    /\ UNCHANGED <<data, owner, lru, pinned, disk>>

GivesUp(p, b) ==
    /\ pc[p] = "idle"
    /\ want' = [want EXCEPT ![p] = b]
    /\ pc' = [pc EXCEPT ![p] = "panic"]
    /\ UNCHANGED <<blockno, valid, refcnt, data, owner, lru, pinned, disk, buf>>

\* acquiresleep() gets the lock, or sleeps.
Locks(p) ==
    /\ pc[p] = "acquiresleep" /\ owner[buf[p]] = NoProc
    /\ owner' = [owner EXCEPT ![buf[p]] = p]
    /\ pc' = [pc EXCEPT ![p] = "bread"]
    /\ UNCHANGED <<blockno, valid, refcnt, data, lru, pinned, disk, buf, want>>

Sleeps(p) ==
    /\ pc[p] = "acquiresleep"
    /\ pc' = [pc EXCEPT ![p] = "asleep"]
    /\ UNCHANGED <<blockno, valid, refcnt, data, owner, lru, pinned, disk, buf, want>>

Act(p) ==
    \/ \E b \in Block, i \in Buf : Hit(p, b, i)
    \/ \E b \in Block, i \in Buf : Recycle(p, b, i)
    \/ \E b \in Block : GivesUp(p, b)
    \/ Locks(p) \/ Sleeps(p) \/ Bread(p)
    \/ \E v \in Value : LogWrite(p, v)
    \/ Bwrite(p) \/ Bunpin(p) \/ ReleaseSleep(p) \/ Brelse(p)

\* Every step of the cache is one of these; bget() recycles an unused buffer.
LEMMA Acts ==
    ASSUME TypeOK, ListInv, Next
    PROVE  \E p \in Proc : Act(p)
<1>1. PICK p \in Proc : \/ Step(p)
                        \/ \E b \in Block : BGet(p, b)
                        \/ \E v \in Value : LogWrite(p, v)
  BY ZenonT(30) DEF Next
<1>2. CASE AcquireSleep(p)
  <2>1. CASE owner[buf[p]] = NoProc
    <3>1. Locks(p)
      BY <1>2, <2>1, ZenonT(30) DEF AcquireSleep, Locks, Goto, bvars
    <3> QED BY <3>1, ZenonT(30) DEF Act
  <2>2. CASE owner[buf[p]] # NoProc
    <3>1. Sleeps(p)
      BY <1>2, <2>2, ZenonT(30) DEF AcquireSleep, Sleeps, Goto, bvars
    <3> QED BY <3>1, ZenonT(30) DEF Act
  <2> QED BY <2>1, <2>2, ZenonT(30)
<1>3. ASSUME NEW b \in Block, BGet(p, b) PROVE Act(p)
  <2>1. ASSUME NEW i \in Hits(b), buf' = [buf EXCEPT ![p] = i], Goto(p, "acquiresleep"),
               refcnt' = [refcnt EXCEPT ![i] = @ + 1], UNCHANGED <<blockno, valid>>
        PROVE  Act(p)
    <3>1. i \in Buf /\ blockno[i] = b
      BY ZenonT(30) DEF Hits
    <3>2. Hit(p, b, i)
      BY <1>3, <2>1, <3>1, ZenonT(30) DEF BGet, Hit, Goto
    <3> QED BY <3>1, <3>2, ZenonT(30) DEF Act
  <2>2. CASE Hits(b) = {} /\ Unused # {}
    <3> DEFINE n == Len(lru)
               k == Max(Unused)
               i == Victim
    <3>1. n \in Nat /\ Unused \in SUBSET (1..n) /\ lru \in Seq(Buf) /\ DOMAIN lru = 1..n
      BY DEF ListInv, Unused
    <3>2. k \in Unused
      BY <2>2, <3>1, Greatest, ZenonT(30)
    <3> HIDE DEF k
    <3>3. refcnt[lru[k]] = 0 /\ k \in 1..n
      BY <3>1, <3>2, ZenonT(30) DEF Unused
    <3>4. i = lru[k]
      BY ZenonT(30) DEF Victim, k
    <3>5. i \in Buf /\ refcnt[i] = 0
      <4> HIDE DEF i
      <4> QED BY <3>1, <3>3, <3>4
    <3>6. \A j \in Buf : blockno[j] # b
      BY <2>2, ZenonT(30) DEF Hits
    <3>7. Recycle(p, b, i)
      BY <1>3, <2>2, <3>5, <3>6, ZenonT(30) DEF BGet, Recycle, Goto
    <3> QED BY <3>5, <3>7, ZenonT(30) DEF Act
  <2>3. CASE Hits(b) = {} /\ Unused = {}
    <3>1. GivesUp(p, b)
      BY <1>3, <2>3, ZenonT(30) DEF BGet, GivesUp, Goto
    <3> QED BY <3>1, ZenonT(30) DEF Act
  <2> QED BY <1>3, <2>1, <2>2, <2>3, ZenonT(30) DEF BGet
<1> QED BY <1>1, <1>2, <1>3, ZenonT(30) DEF Step, Act

-----------------------------------------------------------------------------
(* Who uses a buffer, and its reference count.                             *)

\* A finite number of processes use a buffer.
LEMMA FewUsers ==
    ASSUME NEW i
    PROVE  IsFiniteSet(Users(i)) /\ Cardinality(Users(i)) \in Nat
<1>1. Users(i) \in SUBSET Proc
  BY ZenonT(30) DEF Users
<1>2. IsFiniteSet(Users(i))
  BY <1>1, BcacheAssumption, FS_Subset, ZenonT(30)
<1> QED BY <1>2, FS_CardinalityType, ZenonT(30)

\* A buffer in use has a reference.
LEMMA Counted ==
    ASSUME TypeOK, CountInv, NEW p \in Proc, pc[p] \in InCall
    PROVE  buf[p] \in Buf /\ p \in Users(buf[p]) /\ refcnt[buf[p]] \in Nat \ {0}
<1> DEFINE i == buf[p]
<1>1. i \in Buf /\ p \in Users(i)
  BY DEF TypeOK, Users, InCall
<1> HIDE DEF i
<1>2. IsFiniteSet(Users(i)) /\ Cardinality(Users(i)) \in Nat
  BY FewUsers
<1>3. Cardinality(Users(i)) # 0
  BY <1>1, <1>2, FS_EmptySet, ZenonT(30)
<1>4. refcnt[i] = Cardinality(Users(i)) + Pin(i)
  BY <1>1, ZenonT(30) DEF CountInv
<1>5. refcnt[i] \in Nat \ {0}
  BY <1>2, <1>3, <1>4 DEF Pin
<1> QED BY <1>1, <1>5, ZenonT(30) DEF i

\* An unreferenced buffer is not in use, and its block is not in the log.
LEMMA NotCounted ==
    ASSUME TypeOK, CountInv, NEW i \in Buf, refcnt[i] = 0
    PROVE  /\ Users(i) = {} /\ blockno[i] \notin pinned
           /\ \A q \in Proc : pc[q] \in InCall => buf[q] # i
<1>1. IsFiniteSet(Users(i)) /\ Cardinality(Users(i)) \in Nat
  BY FewUsers
<1>2. refcnt[i] = Cardinality(Users(i)) + Pin(i)
  BY ZenonT(30) DEF CountInv
<1>3. Cardinality(Users(i)) = 0 /\ blockno[i] \notin pinned
  BY <1>1, <1>2 DEF Pin
<1>4. Users(i) = {}
  BY <1>1, <1>3, FS_EmptySet, ZenonT(30)
<1>5. ASSUME NEW q \in Proc, pc[q] \in InCall, buf[q] = i PROVE FALSE
  BY <1>4, <1>5 DEF Users, InCall
<1> QED BY <1>3, <1>4, <1>5

\* A process that has a buffer's lock is alone in its buffer and its block.
LEMMA Alone ==
    ASSUME TypeOK, OneBuffer, UseInv, LockInv,
           NEW p \in Proc, NEW q \in Proc, p # q, pc[p] \in HasLock, pc[q] \in HasLock
    PROVE  buf[p] # buf[q] /\ want[p] # want[q]
<1>1. buf[p] \in Buf /\ buf[q] \in Buf /\ pc[p] \in InCall /\ pc[q] \in InCall
  BY DEF TypeOK, HasLock, InCall
<1>2. owner[buf[p]] = p /\ owner[buf[q]] = q
  BY <1>1, ZenonT(30) DEF LockInv
<1>3. want[p] \in Block /\ blockno[buf[p]] = want[p] /\ blockno[buf[q]] = want[q]
  BY <1>1, ZenonT(30) DEF UseInv
<1>4. buf[p] # buf[q]
  BY <1>2, ZenonT(30)
<1> QED BY <1>1, <1>3, <1>4, ZenonT(30) DEF OneBuffer

-----------------------------------------------------------------------------
(* The invariant is inductive.                                             *)

\* binit() makes it true.
LEMMA InvInit == Init => Inv
<1> SUFFICES ASSUME Init PROVE Inv
  OBVIOUS
<1>1. ListInv /\ Head(lru) \in Buf
  BY ListOfAll, ZenonT(30) DEF Init, ListInv
<1>2. TypeOK
  <2>1. blockno \in [Buf -> Block \cup {NoBlock}] /\ valid \in [Buf -> BOOLEAN] /\ refcnt \in [Buf -> Nat]
    BY DEF Init
  <2>2. data \in [Buf -> Value] /\ disk \in [Block -> Value] /\ pinned \subseteq Block
    BY DEF Init
  <2>3. owner \in [Buf -> Proc \cup {NoProc}] /\ want \in [Proc -> Block \cup {NoBlock}]
    BY DEF Init
  <2>4. pc \in [Proc -> Label] /\ buf \in [Proc -> Buf]
    BY <1>1 DEF Init, Label
  <2> QED BY <1>1, <2>1, <2>2, <2>3, <2>4, ZenonT(30) DEF TypeOK, ListInv
<1>3. \A p \in Proc : pc[p] = "idle"
  BY DEF Init
<1>4. \A i \in Buf : blockno[i] = NoBlock /\ ~valid[i] /\ refcnt[i] = 0 /\ owner[i] = NoProc
  BY DEF Init
<1>5. CountInv
  <2> SUFFICES ASSUME NEW i \in Buf PROVE refcnt[i] = Cardinality(Users(i)) + Pin(i)
    BY ZenonT(30) DEF CountInv
  <2>1. Users(i) = {} /\ Pin(i) = 0
    BY <1>3 DEF Users, Pin, Init
  <2>2. Cardinality(Users(i)) = 0
    BY <2>1, FS_EmptySet
  <2> QED BY <1>4, <2>1, <2>2
<1>6. OneBuffer /\ CleanInv
  BY <1>4, BcacheAssumption DEF OneBuffer, CleanInv
<1>7. UseInv /\ ReadInv /\ UnpinInv
  BY <1>3 DEF UseInv, ReadInv, UnpinInv, InCall
<1>8. LockInv
  BY <1>3, <1>4, BcacheAssumption DEF LockInv, HasLock
<1>9. PinInv
  BY DEF PinInv, Init
<1> QED BY <1>1, <1>2, <1>5, <1>6, <1>7, <1>8, <1>9, ZenonT(30) DEF Inv

\* brelse() alone changes the list.
LEMMA ListStep ==
    ASSUME Inv, NEW p \in Proc, Act(p)
    PROVE  ListInv'
<1>1. CASE Brelse(p)
  <2>1. buf[p] \in Buf
    BY DEF Inv, TypeOK
  <2>2. CASE UNCHANGED lru
    BY <2>2 DEF Inv, ListInv
  <2>3. CASE lru' = <<buf[p]>> \o Unlink(buf[p])
    BY <2>1, <2>3, MoveToFront, ZenonT(30) DEF Inv
  <2> QED BY <1>1, <2>2, <2>3, ZenonT(30) DEF Brelse
<1>2. CASE UNCHANGED lru
  BY <1>2 DEF Inv, ListInv
<1> QED BY <1>1, <1>2, ZenonT(30)
     DEF Act, Hit, Recycle, GivesUp, Locks, Sleeps, Bread, LogWrite, Bwrite, Bunpin,
         ReleaseSleep, bvars

\* The type is kept: a count is decreased only by one who is counted.
LEMMA TypeStep ==
    ASSUME Inv, NEW p \in Proc, Act(p)
    PROVE  TypeOK'
<1>0. TypeOK /\ CountInv /\ ListInv'
  BY ListStep, ZenonT(30) DEF Inv
<1>1. refcnt' \in [Buf -> Nat]
  <2>1. CASE Bunpin(p) \/ Brelse(p)
    <3>1. pc[p] \in InCall
      BY <2>1 DEF Bunpin, Brelse, InCall
    <3>2. buf[p] \in Buf /\ refcnt[buf[p]] \in Nat \ {0}
      BY <1>0, <3>1, Counted, ZenonT(30)
    <3>3. refcnt' = [refcnt EXCEPT ![buf[p]] = @ - 1] /\ refcnt \in [Buf -> Nat]
      BY <1>0, <2>1, ZenonT(30) DEF Bunpin, Brelse, TypeOK
    <3> QED BY <3>2, <3>3
  <2>2. CASE UNCHANGED refcnt
    BY <1>0, <2>2 DEF TypeOK
  <2>3. ASSUME NEW i \in Buf, refcnt' = [refcnt EXCEPT ![i] = @ + 1] \/ refcnt' = [refcnt EXCEPT ![i] = 1]
        PROVE  refcnt' \in [Buf -> Nat]
    <3>1. refcnt \in [Buf -> Nat]
      BY <1>0, ZenonT(30) DEF TypeOK
    <3>2. refcnt[i] + 1 \in Nat
      BY <3>1
    <3>3. CASE refcnt' = [refcnt EXCEPT ![i] = @ + 1]
      BY <3>1, <3>2, <3>3
    <3>4. CASE refcnt' = [refcnt EXCEPT ![i] = 1]
      BY <3>1, <3>4
    <3> QED BY <2>3, <3>3, <3>4, ZenonT(30)
  <2>4. buf[p] \in Buf
    BY <1>0 DEF TypeOK
  <2> QED BY <2>1, <2>2, <2>3, <2>4, ZenonT(30)
       DEF Act, Hit, Recycle, GivesUp, Locks, Sleeps, Bread, LogWrite, Bwrite, ReleaseSleep
<1>2. blockno' \in [Buf -> Block \cup {NoBlock}] /\ valid' \in [Buf -> BOOLEAN]
  <2>1. CASE \E b \in Block, i \in Buf : Recycle(p, b, i)
    BY <1>0, <2>1 DEF Recycle, TypeOK
  <2>2. CASE Bread(p)
    BY <1>0, <2>2 DEF Bread, TypeOK
  <2>3. CASE UNCHANGED <<blockno, valid>>
    BY <1>0, <2>3 DEF TypeOK
  <2> QED BY <2>1, <2>2, <2>3, ZenonT(30)
       DEF Act, Hit, GivesUp, Locks, Sleeps, LogWrite, Bwrite, Bunpin, ReleaseSleep, Brelse, bvars
<1>3. data' \in [Buf -> Value] /\ disk' \in [Block -> Value] /\ pinned' \subseteq Block
  <2>0. data \in [Buf -> Value] /\ disk \in [Block -> Value] /\ pinned \subseteq Block /\ buf[p] \in Buf
    BY <1>0 DEF TypeOK
  <2>1. pc[p] \in InCall => want[p] \in Block /\ blockno[buf[p]] = want[p]
    BY ZenonT(30) DEF Inv, UseInv
  <2>2. CASE Bread(p)
    <3>1. want[p] \in Block /\ blockno[buf[p]] = want[p]
      BY <2>1, <2>2 DEF Bread, InCall
    <3>2. UNCHANGED <<disk, pinned>>
          /\ (data' = data \/ data' = [data EXCEPT ![buf[p]] = disk[want[p]]])
      BY <2>2, <3>1, ZenonT(30) DEF Bread
    <3>3. disk[want[p]] \in Value
      BY <2>0, <3>1
    <3> QED BY <2>0, <3>2, <3>3
  <2>3. ASSUME NEW v \in Value, LogWrite(p, v)
        PROVE  data' \in [Buf -> Value] /\ disk' \in [Block -> Value] /\ pinned' \subseteq Block
    <3>1. want[p] \in Block
      BY <2>1, <2>3 DEF LogWrite, InCall
    <3> QED BY <2>0, <2>3, <3>1 DEF LogWrite
  <2>4. CASE Bwrite(p)
    <3>1. UNCHANGED <<data, pinned>> /\ disk' = [disk EXCEPT ![blockno[buf[p]]] = data[buf[p]]]
      BY <2>4, ZenonT(30) DEF Bwrite, bvars
    <3>2. data[buf[p]] \in Value
      BY <2>0
    <3> QED BY <2>0, <3>1, <3>2, ZenonT(30)
  <2>5. CASE Bunpin(p)
    BY <2>0, <2>5 DEF Bunpin, bvars
  <2>6. CASE UNCHANGED <<data, disk, pinned>>
    BY <2>0, <2>6
  <2> QED BY <2>2, <2>3, <2>4, <2>5, <2>6, ZenonT(30)
       DEF Act, Hit, Recycle, GivesUp, Locks, Sleeps, ReleaseSleep, Brelse, bvars
<1>4. owner' \in [Buf -> Proc \cup {NoProc}]
  <2>1. ASSUME NEW i \in Buf, owner' = [owner EXCEPT ![i] = NoProc] \/ owner' = [owner EXCEPT ![i] = p]
        PROVE  owner' \in [Buf -> Proc \cup {NoProc}]
    <3>1. owner \in [Buf -> Proc \cup {NoProc}]
      BY <1>0, ZenonT(30) DEF TypeOK
    <3> QED BY <2>1, <3>1, ZenonT(30)
  <2>2. CASE UNCHANGED owner
    BY <1>0, <2>2 DEF TypeOK
  <2>3. buf[p] \in Buf
    BY <1>0 DEF TypeOK
  <2> QED BY <2>1, <2>2, <2>3, ZenonT(30)
       DEF Act, Hit, Recycle, GivesUp, Locks, Sleeps, Bread, LogWrite, Bwrite, Bunpin, ReleaseSleep, Brelse
<1>5. buf' \in [Proc -> Buf] /\ want' \in [Proc -> Block \cup {NoBlock}]
  <2>0. buf \in [Proc -> Buf] /\ want \in [Proc -> Block \cup {NoBlock}]
    BY <1>0 DEF TypeOK
  <2>1. ASSUME NEW i \in Buf, NEW b \in Block, want' = [want EXCEPT ![p] = b],
               buf' = [buf EXCEPT ![p] = i] \/ buf' = buf
        PROVE  buf' \in [Proc -> Buf] /\ want' \in [Proc -> Block \cup {NoBlock}]
    BY <2>0, <2>1
  <2>2. CASE UNCHANGED <<buf, want>>
    BY <2>0, <2>2
  <2>3. buf[p] \in Buf
    BY <1>0 DEF TypeOK
  <2> QED BY <2>1, <2>2, <2>3, ZenonT(30)
       DEF Act, Hit, Recycle, GivesUp, Locks, Sleeps, Bread, LogWrite, Bwrite, Bunpin, ReleaseSleep, Brelse
<1>6. pc' \in [Proc -> Label]
  <2>0. pc \in [Proc -> Label]
    BY <1>0 DEF TypeOK
  <2>1. ASSUME NEW l \in Label, pc' = [pc EXCEPT ![p] = l] PROVE pc' \in [Proc -> Label]
    BY <2>0, <2>1
  <2>2. CASE ReleaseSleep(p)
    <3>1. pc' = Wakeup(buf[p], [pc EXCEPT ![p] = "brelse"])
      BY <2>2, ZenonT(30) DEF ReleaseSleep
    <3> QED BY <2>0, <3>1 DEF Wakeup, Label
  <2>3. CASE UNCHANGED pc
    BY <2>0, <2>3
  <2>4. {"acquiresleep", "panic", "bread", "asleep", "use", "bunpin", "idle"} \subseteq Label
    BY DEF Label
  <2> QED BY <2>1, <2>2, <2>3, <2>4, ZenonT(30)
       DEF Act, Hit, Recycle, GivesUp, Locks, Sleeps, Bread, LogWrite, Bwrite, Bunpin, Brelse, Goto
<1> QED BY <1>0, <1>1, <1>2, <1>3, <1>4, <1>5, <1>6, ZenonT(30) DEF TypeOK, ListInv

\* A step of one process leaves the others where they are, or wakes them.
LEMMA Others ==
    ASSUME TypeOK, NEW p \in Proc, Act(p), NEW q \in Proc, q # p
    PROVE  /\ buf'[q] = buf[q] /\ want'[q] = want[q]
           /\ pc'[q] = pc[q] \/ (pc[q] = "asleep" /\ pc'[q] = "acquiresleep")
<1>0. buf \in [Proc -> Buf] /\ want \in [Proc -> Block \cup {NoBlock}] /\ pc \in [Proc -> Label]
  BY ZenonT(30) DEF TypeOK
<1>1. buf'[q] = buf[q]
  <2>1. ASSUME NEW i \in Buf, buf' = [buf EXCEPT ![p] = i] PROVE buf'[q] = buf[q]
    BY <1>0, <2>1
  <2> QED BY <2>1, ZenonT(30)
       DEF Act, Hit, Recycle, GivesUp, Locks, Sleeps, Bread, LogWrite, Bwrite, Bunpin, ReleaseSleep, Brelse
<1>2. want'[q] = want[q]
  <2>1. ASSUME NEW b \in Block, want' = [want EXCEPT ![p] = b] PROVE want'[q] = want[q]
    BY <1>0, <2>1
  <2> QED BY <2>1, ZenonT(30)
       DEF Act, Hit, Recycle, GivesUp, Locks, Sleeps, Bread, LogWrite, Bwrite, Bunpin, ReleaseSleep, Brelse
<1>3. pc'[q] = pc[q] \/ (pc[q] = "asleep" /\ pc'[q] = "acquiresleep")
  <2>1. ASSUME NEW l \in Label, pc' = [pc EXCEPT ![p] = l] PROVE pc'[q] = pc[q]
    BY <1>0, <2>1
  <2>2. CASE ReleaseSleep(p)
    <3>1. pc' = Wakeup(buf[p], [pc EXCEPT ![p] = "brelse"])
      BY <2>2, ZenonT(30) DEF ReleaseSleep
    <3> QED BY <1>0, <3>1 DEF Wakeup
  <2>3. {"acquiresleep", "panic", "bread", "asleep", "use", "bunpin", "idle"} \subseteq Label
    BY DEF Label
  <2> QED BY <2>1, <2>2, <2>3, ZenonT(30)
       DEF Act, Hit, Recycle, GivesUp, Locks, Sleeps, Bread, LogWrite, Bwrite, Bunpin, Brelse, Goto
<1> QED BY <1>1, <1>2, <1>3, ZenonT(30)

\* Where a step takes the process that makes it.
LEMMA Self ==
    ASSUME TypeOK, NEW p \in Proc
    PROVE  /\ \A b \in Block, i \in Buf : Hit(p, b, i) \/ Recycle(p, b, i) =>
                  pc'[p] = "acquiresleep" /\ buf'[p] = i /\ want'[p] = b
           /\ \A b \in Block : GivesUp(p, b) => pc'[p] = "panic"
           /\ Locks(p) => pc'[p] = "bread"
           /\ Sleeps(p) => pc'[p] = "asleep"
           /\ Bread(p) => pc'[p] = "use"
           /\ \A v \in Value : LogWrite(p, v) => pc'[p] = "use"
           /\ Bwrite(p) => pc'[p] = "bunpin"
           /\ Bunpin(p) => pc'[p] = "use"
           /\ ReleaseSleep(p) => pc'[p] = "brelse"
           /\ Brelse(p) => pc'[p] = "idle"
<1>0. buf \in [Proc -> Buf] /\ want \in [Proc -> Block \cup {NoBlock}] /\ pc \in [Proc -> Label]
  BY ZenonT(30) DEF TypeOK
<1>1. \A l : pc' = [pc EXCEPT ![p] = l] => pc'[p] = l
  BY <1>0
<1>2. \A i : buf' = [buf EXCEPT ![p] = i] => buf'[p] = i
  BY <1>0
<1>3. \A b : want' = [want EXCEPT ![p] = b] => want'[p] = b
  BY <1>0
<1>4. ReleaseSleep(p) => pc'[p] = "brelse"
  <2>1. pc' = Wakeup(buf[p], [pc EXCEPT ![p] = "brelse"]) => pc'[p] = "brelse"
    BY <1>0 DEF Wakeup
  <2> QED BY <2>1, ZenonT(30) DEF ReleaseSleep
<1>5. \A b \in Block, i \in Buf : Hit(p, b, i) \/ Recycle(p, b, i) =>
                  pc'[p] = "acquiresleep" /\ buf'[p] = i /\ want'[p] = b
  BY <1>1, <1>2, <1>3, ZenonT(30) DEF Hit, Recycle
<1>6. /\ \A b \in Block : GivesUp(p, b) => pc'[p] = "panic"
      /\ Locks(p) => pc'[p] = "bread"
      /\ Sleeps(p) => pc'[p] = "asleep"
  BY <1>1, ZenonT(30) DEF GivesUp, Locks, Sleeps
<1>7. /\ Bread(p) => pc'[p] = "use"
      /\ Bwrite(p) => pc'[p] = "bunpin"
      /\ Bunpin(p) => pc'[p] = "use"
      /\ Brelse(p) => pc'[p] = "idle"
  BY <1>1, ZenonT(30) DEF Bread, Bwrite, Bunpin, Brelse, Goto
<1>8. \A v \in Value : LogWrite(p, v) => pc'[p] = "use"
  BY ZenonT(30) DEF LogWrite
<1> QED BY <1>4, <1>5, <1>6, <1>7, <1>8, ZenonT(30)

\* A buffer in use is not recycled: it keeps its block, and stays valid.
LEMMA Kept ==
    ASSUME Inv, NEW p \in Proc, Act(p), NEW i \in Buf,
           blockno[i] \in pinned \/ \E q \in Proc : pc[q] \in InCall /\ buf[q] = i
    PROVE  blockno'[i] = blockno[i] /\ (valid[i] => valid'[i])
<1>0. blockno \in [Buf -> Block \cup {NoBlock}] /\ valid \in [Buf -> BOOLEAN]
  BY ZenonT(30) DEF Inv, TypeOK
<1>1. ASSUME NEW b \in Block, NEW j \in Buf, Recycle(p, b, j)
      PROVE  blockno'[i] = blockno[i] /\ valid'[i] = valid[i]
  <2>1. j # i
    BY <1>1, NotCounted, ZenonT(30) DEF Recycle, Inv
  <2>2. blockno' = [blockno EXCEPT ![j] = b] /\ valid' = [valid EXCEPT ![j] = FALSE]
    BY <1>1, ZenonT(30) DEF Recycle
  <2>3. blockno'[i] = blockno[i]
    BY <1>0, <2>1, <2>2
  <2>4. valid'[i] = valid[i]
    BY <1>0, <2>1, <2>2, ZenonT(30)
  <2> QED BY <2>3, <2>4, ZenonT(30)
<1>2. CASE Bread(p)
  <2>1. UNCHANGED blockno /\ valid' = [valid EXCEPT ![buf[p]] = TRUE]
    BY <1>2, ZenonT(30) DEF Bread
  <2> QED BY <1>0, <2>1
<1>3. CASE UNCHANGED <<blockno, valid>>
  BY <1>3
<1> QED BY <1>1, <1>2, <1>3, ZenonT(30)
     DEF Act, Hit, GivesUp, Locks, Sleeps, LogWrite, Bwrite, Bunpin, ReleaseSleep, Brelse, bvars

\* bget() gives a block a second buffer only if it has none.
LEMMA OneBufferStep ==
    ASSUME Inv, NEW p \in Proc, Act(p)
    PROVE  OneBuffer'
<1>1. ASSUME NEW b \in Block, NEW i \in Buf, Recycle(p, b, i) PROVE OneBuffer'
  <2>1. blockno' = [blockno EXCEPT ![i] = b] /\ (\A j \in Buf : blockno[j] # b)
    BY <1>1, ZenonT(30) DEF Recycle
  <2>2. blockno \in [Buf -> Block \cup {NoBlock}]
    BY ZenonT(30) DEF Inv, TypeOK
  <2>3. \A j \in Buf : blockno'[j] = IF j = i THEN b ELSE blockno[j]
    BY <2>1, <2>2
  <2> QED BY <2>1, <2>3, ZenonT(30) DEF OneBuffer, Inv
<1>2. CASE UNCHANGED blockno
  BY <1>2, ZenonT(30) DEF OneBuffer, Inv
<1> QED BY <1>1, <1>2, ZenonT(30)
     DEF Act, Hit, GivesUp, Locks, Sleeps, Bread, LogWrite, Bwrite, Bunpin, ReleaseSleep, Brelse, bvars

\* bget() returns a buffer of its block, and brelse() ends the call.
LEMMA UseStep ==
    ASSUME Inv, NEW p \in Proc, Act(p)
    PROVE  UseInv'
<1> SUFFICES ASSUME NEW q \in Proc, pc'[q] \in InCall
             PROVE  want'[q] \in Block /\ blockno'[buf'[q]] = want'[q]
  BY ZenonT(30) DEF UseInv
<1>0. TypeOK /\ buf[q] \in Buf /\ blockno \in [Buf -> Block \cup {NoBlock}]
  BY DEF Inv, TypeOK
<1>1. CASE pc[q] \in InCall /\ UNCHANGED <<buf[q], want[q]>>
  <2>1. blockno'[buf[q]] = blockno[buf[q]]
    BY <1>0, <1>1, Kept, ZenonT(30)
  <2> QED BY <1>1, <2>1, ZenonT(30) DEF Inv, UseInv
<1>2. CASE q # p
  <2>1. /\ buf'[q] = buf[q] /\ want'[q] = want[q]
        /\ pc'[q] = pc[q] \/ (pc[q] = "asleep" /\ pc'[q] = "acquiresleep")
    BY <1>0, <1>2, Others, ZenonT(30)
  <2>2. pc[q] \in InCall
    BY <2>1 DEF InCall
  <2> QED BY <1>1, <2>1, <2>2, ZenonT(30)
<1>3. ASSUME q = p, NEW b \in Block, NEW i \in Buf, Hit(p, b, i) \/ Recycle(p, b, i)
      PROVE  want'[q] \in Block /\ blockno'[buf'[q]] = want'[q]
  <2>1. buf'[p] = i /\ want'[p] = b
    BY <1>0, <1>3, Self, ZenonT(30)
  <2>2. (blockno' = blockno /\ blockno[i] = b) \/ blockno' = [blockno EXCEPT ![i] = b]
    BY <1>3, ZenonT(30) DEF Hit, Recycle
  <2>3. blockno'[i] = b
    BY <1>0, <2>2
  <2> QED BY <1>3, <2>1, <2>3, ZenonT(30)
<1>4. CASE q = p /\ (Locks(p) \/ Sleeps(p) \/ Bread(p) \/ (\E v \in Value : LogWrite(p, v))
                     \/ Bwrite(p) \/ Bunpin(p) \/ ReleaseSleep(p))
  <2>1. pc[p] \in {"acquiresleep", "bread", "use", "bunpin"} /\ UNCHANGED <<buf, want>>
    BY <1>4, ZenonT(30) DEF Locks, Sleeps, Bread, LogWrite, Bwrite, Bunpin, ReleaseSleep
  <2>2. pc[p] \in InCall
    BY <2>1 DEF InCall
  <2> QED BY <1>1, <1>4, <2>1, <2>2, ZenonT(30)
<1>5. CASE q = p /\ (Brelse(p) \/ \E b \in Block : GivesUp(p, b))
  <2>1. pc'[p] \in {"idle", "panic"}
    BY <1>0, <1>5, Self, ZenonT(30)
  <2> QED BY <1>5, <2>1 DEF InCall
<1> QED BY <1>2, <1>3, <1>4, <1>5, ZenonT(30) DEF Act

\* The owner of a sleep-lock is the process between acquiresleep() and
\* releasesleep() of that buffer.
LEMMA LockStep ==
    ASSUME Inv, NEW p \in Proc, Act(p)
    PROVE  LockInv'
<1> SUFFICES ASSUME NEW j \in Buf, NEW q \in Proc
             PROVE  owner'[j] = q <=> buf'[q] = j /\ pc'[q] \in HasLock
  BY ZenonT(30) DEF LockInv
<1>0. TypeOK /\ buf[p] \in Buf /\ buf[q] \in Buf /\ owner \in [Buf -> Proc \cup {NoProc}] /\ NoProc \notin Proc
  BY BcacheAssumption DEF Inv, TypeOK
<1>1. /\ owner[j] = q <=> buf[q] = j /\ pc[q] \in HasLock
      /\ owner[buf[p]] = p <=> pc[p] \in HasLock
  BY <1>0, ZenonT(30) DEF Inv, LockInv
<1>2. q # p => buf'[q] = buf[q] /\ (pc'[q] \in HasLock <=> pc[q] \in HasLock)
  <2>1. q # p => /\ buf'[q] = buf[q]
                 /\ pc'[q] = pc[q] \/ (pc[q] = "asleep" /\ pc'[q] = "acquiresleep")
    BY <1>0, Others, ZenonT(30)
  <2> QED BY <2>1 DEF HasLock
<1>3. CASE Locks(p)
  <2>1. /\ owner' = [owner EXCEPT ![buf[p]] = p] /\ UNCHANGED buf /\ owner[buf[p]] = NoProc
        /\ pc'[p] = "bread"
    BY <1>0, <1>3, Self, ZenonT(30) DEF Locks
  <2>2. owner'[j] = IF j = buf[p] THEN p ELSE owner[j]
    BY <1>0, <2>1
  <2>3. pc'[p] \in HasLock
    BY <2>1 DEF HasLock
  <2> QED BY <1>0, <1>1, <1>2, <2>1, <2>2, <2>3, ZenonT(30)
<1>4. CASE ReleaseSleep(p)
  <2>1. /\ owner' = [owner EXCEPT ![buf[p]] = NoProc] /\ UNCHANGED buf /\ pc[p] = "use"
        /\ pc'[p] = "brelse"
    BY <1>0, <1>4, Self, ZenonT(30) DEF ReleaseSleep
  <2>2. owner'[j] = IF j = buf[p] THEN NoProc ELSE owner[j]
    BY <1>0, <2>1
  <2>3. pc'[p] \notin HasLock /\ pc[p] \in HasLock
    BY <2>1 DEF HasLock
  <2> QED BY <1>0, <1>1, <1>2, <2>1, <2>2, <2>3, ZenonT(30)
<1>5. CASE Bread(p) \/ (\E v \in Value : LogWrite(p, v)) \/ Bwrite(p) \/ Bunpin(p)
  <2>1. /\ UNCHANGED <<owner, buf>> /\ pc[p] \in {"bread", "use", "bunpin"}
        /\ pc'[p] \in {"bread", "use", "bunpin"}
    BY <1>0, <1>5, Self, ZenonT(30) DEF Bread, LogWrite, Bwrite, Bunpin
  <2> QED BY <1>1, <1>2, <2>1, ZenonT(30) DEF HasLock
<1>6. CASE \/ \E b \in Block, i \in Buf : Hit(p, b, i) \/ Recycle(p, b, i)
           \/ \E b \in Block : GivesUp(p, b)
           \/ Sleeps(p) \/ Brelse(p)
  <2>1. /\ UNCHANGED owner /\ pc[p] \in {"idle", "acquiresleep", "brelse"}
        /\ pc'[p] \in {"acquiresleep", "panic", "asleep", "idle"}
    BY <1>0, <1>6, Self, ZenonT(30) DEF Hit, Recycle, GivesUp, Sleeps, Brelse
  <2>2. pc[p] \notin HasLock /\ pc'[p] \notin HasLock
    BY <2>1 DEF HasLock
  <2> QED BY <1>1, <1>2, <2>1, <2>2, ZenonT(30)
<1> QED BY <1>3, <1>4, <1>5, <1>6, ZenonT(30) DEF Act

\* bread() returns a valid buffer.
LEMMA ReadStep ==
    ASSUME Inv, NEW p \in Proc, Act(p)
    PROVE  ReadInv'
<1> SUFFICES ASSUME NEW q \in Proc, pc'[q] \in {"use", "bunpin"}
             PROVE  valid'[buf'[q]]
  BY ZenonT(30) DEF ReadInv
<1>0. TypeOK /\ buf[q] \in Buf /\ valid \in [Buf -> BOOLEAN]
  BY DEF Inv, TypeOK
<1>1. CASE pc[q] \in {"use", "bunpin"} /\ buf'[q] = buf[q]
  <2>1. pc[q] \in InCall /\ valid[buf[q]]
    BY <1>1 DEF InCall, Inv, ReadInv
  <2> QED BY <1>0, <1>1, <2>1, Kept, ZenonT(30)
<1>2. CASE q # p
  <2>1. /\ buf'[q] = buf[q]
        /\ pc'[q] = pc[q] \/ (pc[q] = "asleep" /\ pc'[q] = "acquiresleep")
    BY <1>0, <1>2, Others, ZenonT(30)
  <2> QED BY <1>1, <2>1
<1>3. CASE q = p /\ Bread(p)
  <2>1. valid' = [valid EXCEPT ![buf[p]] = TRUE] /\ UNCHANGED buf
    BY <1>3, ZenonT(30) DEF Bread
  <2> QED BY <1>0, <1>3, <2>1
<1>4. CASE q = p /\ ((\E v \in Value : LogWrite(p, v)) \/ Bwrite(p) \/ Bunpin(p))
  <2>1. pc[p] \in {"use", "bunpin"} /\ UNCHANGED buf
    BY <1>4, ZenonT(30) DEF LogWrite, Bwrite, Bunpin
  <2> QED BY <1>1, <1>4, <2>1, ZenonT(30)
<1>5. CASE q = p /\ (\/ \E b \in Block, i \in Buf : Hit(p, b, i) \/ Recycle(p, b, i)
                     \/ \E b \in Block : GivesUp(p, b)
                     \/ Locks(p) \/ Sleeps(p) \/ ReleaseSleep(p) \/ Brelse(p))
  <2>1. pc'[p] \in {"acquiresleep", "panic", "bread", "asleep", "brelse", "idle"}
    BY <1>0, <1>5, Self, ZenonT(30)
  <2> QED BY <1>5, <2>1
<1> QED BY <1>2, <1>3, <1>4, <1>5, ZenonT(30) DEF Act

\* A step of one process does not make another a user, or end its use.
LEMMA OtherUsers ==
    ASSUME TypeOK, NEW p \in Proc, Act(p), NEW q \in Proc, q # p, NEW j
    PROVE  q \in Users(j)' <=> q \in Users(j)
<1>1. /\ buf'[q] = buf[q]
      /\ pc'[q] = pc[q] \/ (pc[q] = "asleep" /\ pc'[q] = "acquiresleep")
  BY Others, ZenonT(30)
<1> QED BY <1>1 DEF Users

\* Every step that takes or gives back a reference counts it.
LEMMA CountStep ==
    ASSUME Inv, NEW p \in Proc, Act(p)
    PROVE  CountInv'
<1> SUFFICES ASSUME NEW j \in Buf PROVE refcnt'[j] = Cardinality(Users(j)') + Pin(j)'
  BY ZenonT(30) DEF CountInv
<1> DEFINE c == Cardinality(Users(j))
           cc == Cardinality(Users(j)')
<1>0. /\ TypeOK /\ CountInv /\ OneBuffer /\ buf[p] \in Buf /\ refcnt \in [Buf -> Nat]
      /\ blockno \in [Buf -> Block \cup {NoBlock}] /\ IsFiniteSet(Users(j)) /\ c \in Nat
      /\ refcnt[j] \in Nat
  BY FewUsers DEF Inv, TypeOK
<1>1. refcnt[j] = c + Pin(j) /\ Pin(j) \in {0, 1} /\ Users(j) \subseteq Proc /\ Users(j)' \subseteq Proc
  BY <1>0 DEF CountInv, Pin, Users
<1>2. \A q \in Proc : q # p => (q \in Users(j)' <=> q \in Users(j))
  BY <1>0, OtherUsers, ZenonT(30)
<1>3. (p \in Users(j) <=> p \in Users(j)') => Users(j)' = Users(j)
  BY <1>1, <1>2
<1>4. p \notin Users(j) /\ p \in Users(j)' => cc = c + 1
  <2>1. p \notin Users(j) /\ p \in Users(j)' => Users(j)' = Users(j) \cup {p}
    BY <1>1, <1>2, ZenonT(30)
  <2> QED BY <1>0, <2>1, FS_AddElement, ZenonT(30)
<1>5. p \in Users(j) /\ p \notin Users(j)' => cc = c - 1 /\ c # 0
  <2>1. p \in Users(j) /\ p \notin Users(j)' => Users(j)' = Users(j) \ {p}
    BY <1>1, <1>2, ZenonT(30)
  <2>2. p \in Users(j) => c # 0
    BY <1>0, FS_EmptySet, ZenonT(30)
  <2> QED BY <1>0, <2>1, <2>2, FS_RemoveElement, ZenonT(30)
<1> HIDE DEF c, cc
<1> SUFFICES refcnt'[j] = cc + Pin(j)'
  BY ZenonT(30) DEF cc
<1>6. ASSUME UNCHANGED <<blockno, pinned>> PROVE Pin(j)' = Pin(j)
  BY <1>6, ZenonT(30) DEF Pin
<1>7. /\ p \in Users(j) <=> (pc[p] \notin {"idle", "panic"} /\ buf[p] = j)
      /\ p \in Users(j)' <=> (pc'[p] \notin {"idle", "panic"} /\ buf'[p] = j)
  BY DEF Users
<1>8. ASSUME NEW b \in Block, NEW i \in Buf, Hit(p, b, i)
      PROVE  refcnt'[j] = cc + Pin(j)'
  <2>1. /\ pc[p] = "idle" /\ pc'[p] = "acquiresleep" /\ buf'[p] = i
        /\ refcnt' = [refcnt EXCEPT ![i] = @ + 1] /\ UNCHANGED <<blockno, pinned>>
    BY <1>0, <1>8, Self, ZenonT(30) DEF Hit
  <2>2. p \notin Users(j) /\ (p \in Users(j)' <=> i = j)
    BY <1>7, <2>1
  <2>3. CASE i = j
    <3>1. cc = c + 1 /\ refcnt'[j] = refcnt[j] + 1 /\ Pin(j)' = Pin(j)
      BY <1>0, <1>4, <1>6, <2>1, <2>2, <2>3
    <3> QED BY <1>0, <1>1, <3>1
  <2>4. CASE i # j
    <3>1. cc = c /\ refcnt'[j] = refcnt[j] /\ Pin(j)' = Pin(j)
      BY <1>0, <1>3, <1>6, <2>1, <2>2, <2>4 DEF c, cc
    <3> QED BY <1>1, <3>1
  <2> QED BY <2>3, <2>4, ZenonT(30)
<1>9. ASSUME NEW b \in Block, NEW i \in Buf, Recycle(p, b, i)
      PROVE  refcnt'[j] = cc + Pin(j)'
  <2>1. /\ pc[p] = "idle" /\ pc'[p] = "acquiresleep" /\ buf'[p] = i
        /\ refcnt' = [refcnt EXCEPT ![i] = 1] /\ UNCHANGED pinned
        /\ blockno' = [blockno EXCEPT ![i] = b] /\ \A h \in Buf : blockno[h] # b
    BY <1>0, <1>9, Self, ZenonT(30) DEF Recycle
  <2>2. p \notin Users(j) /\ (p \in Users(j)' <=> i = j)
    BY <1>7, <2>1
  <2>3. Users(i) = {}
    BY <1>0, <1>9, NotCounted, ZenonT(30) DEF Recycle
  <2>4. CASE i = j
    <3>1. c = 0
      BY <2>3, <2>4, FS_EmptySet, ZenonT(30) DEF c
    <3>2. b \notin pinned
      BY <2>1, ZenonT(30) DEF Inv, PinInv
    <3>3. blockno'[j] = b /\ refcnt'[j] = 1
      BY <1>0, <2>1, <2>4
    <3>4. Pin(j)' = 0
      BY <2>1, <3>2, <3>3 DEF Pin
    <3>5. cc = c + 1
      BY <1>4, <2>2, <2>4, ZenonT(30)
    <3> QED BY <3>1, <3>3, <3>4, <3>5
  <2>5. CASE i # j
    <3>1. refcnt'[j] = refcnt[j] /\ blockno'[j] = blockno[j]
      BY <1>0, <2>1, <2>5
    <3>2. cc = c
      BY <1>3, <2>2, <2>5, ZenonT(30) DEF c, cc
    <3>3. Pin(j)' = Pin(j)
      BY <2>1, <3>1 DEF Pin
    <3> QED BY <1>1, <3>1, <3>2, <3>3
  <2> QED BY <2>4, <2>5, ZenonT(30)
<1>10. CASE Brelse(p)
  <2>1. /\ pc[p] = "brelse" /\ pc'[p] = "idle" /\ refcnt' = [refcnt EXCEPT ![buf[p]] = @ - 1]
        /\ UNCHANGED <<blockno, pinned>>
    BY <1>0, <1>10, Self, ZenonT(30) DEF Brelse
  <2>2. p \notin Users(j)' /\ (p \in Users(j) <=> buf[p] = j)
    BY <1>7, <2>1
  <2>3. CASE buf[p] = j
    <3>1. cc = c - 1 /\ refcnt'[j] = refcnt[j] - 1 /\ Pin(j)' = Pin(j)
      BY <1>0, <1>5, <1>6, <2>1, <2>2, <2>3
    <3> QED BY <1>0, <1>1, <3>1
  <2>4. CASE buf[p] # j
    <3>1. cc = c /\ refcnt'[j] = refcnt[j] /\ Pin(j)' = Pin(j)
      BY <1>0, <1>3, <1>6, <2>1, <2>2, <2>4 DEF c, cc
    <3> QED BY <1>1, <3>1
  <2> QED BY <2>3, <2>4, ZenonT(30)
<1>11. ASSUME UNCHANGED buf, pc[p] \in {"idle", "panic"} <=> pc'[p] \in {"idle", "panic"}
       PROVE  cc = c
  <2>1. p \in Users(j) <=> p \in Users(j)'
    BY <1>7, <1>11
  <2> QED BY <1>3, <2>1, ZenonT(30) DEF c, cc
<1>12. CASE \/ \E b \in Block : GivesUp(p, b)
            \/ Locks(p) \/ Sleeps(p) \/ Bread(p) \/ Bwrite(p) \/ ReleaseSleep(p)
  <2>1. /\ UNCHANGED <<buf, refcnt, blockno, pinned>>
        /\ pc[p] \in {"idle", "panic"} <=> pc'[p] \in {"idle", "panic"}
    <3>1. ASSUME NEW b \in Block, GivesUp(p, b)
          PROVE  pc[p] = "idle" /\ pc'[p] = "panic" /\ UNCHANGED <<buf, refcnt, blockno, pinned>>
      BY <1>0, <3>1, Self, ZenonT(30) DEF GivesUp
    <3>2. CASE Locks(p) \/ Sleeps(p) \/ Bread(p) \/ Bwrite(p) \/ ReleaseSleep(p)
      <4>1. /\ UNCHANGED <<buf, refcnt, blockno, pinned>>
            /\ pc[p] \in {"acquiresleep", "bread", "use"}
            /\ pc'[p] \in {"bread", "asleep", "use", "bunpin", "brelse"}
        BY <1>0, <3>2, Self, ZenonT(30) DEF Locks, Sleeps, Bread, Bwrite, ReleaseSleep, bvars
      <4> QED BY <4>1
    <3> QED BY <1>12, <3>1, <3>2
  <2>2. cc = c /\ Pin(j)' = Pin(j) /\ refcnt'[j] = refcnt[j]
    BY <1>6, <1>11, <2>1, ZenonT(30)
  <2> QED BY <1>1, <2>2
<1>13. ASSUME NEW v \in Value, LogWrite(p, v)
       PROVE  refcnt'[j] = cc + Pin(j)'
  <2>1. /\ pc[p] = "use" /\ UNCHANGED <<pc, buf, blockno>> /\ pinned' = pinned \cup {want[p]}
        /\ refcnt' = IF want[p] \in pinned THEN refcnt ELSE [refcnt EXCEPT ![buf[p]] = @ + 1]
    BY <1>13, ZenonT(30) DEF LogWrite
  <2>2. cc = c
    BY <1>11, <2>1
  <2>3. want[p] \in Block /\ blockno[buf[p]] = want[p]
    BY <2>1 DEF Inv, UseInv, InCall
  <2>4. CASE want[p] \in pinned
    <3>1. pinned' = pinned /\ refcnt' = refcnt
      BY <2>1, <2>4, ZenonT(30)
    <3>2. Pin(j)' = Pin(j) /\ refcnt'[j] = refcnt[j]
      BY <1>6, <2>1, <3>1, ZenonT(30)
    <3> QED BY <1>1, <2>2, <3>2
  <2>5. CASE want[p] \notin pinned /\ j = buf[p]
    <3>1. Pin(j) = 0 /\ Pin(j)' = 1
      BY <2>1, <2>3, <2>5, ZenonT(30) DEF Pin
    <3>2. refcnt'[j] = refcnt[j] + 1
      BY <1>0, <2>1, <2>5
    <3> QED BY <1>0, <1>1, <2>2, <3>1, <3>2
  <2>6. CASE want[p] \notin pinned /\ j # buf[p]
    <3>1. blockno[j] # want[p]
      BY <1>0, <2>3, <2>6, ZenonT(30) DEF OneBuffer
    <3>2. Pin(j)' = Pin(j)
      BY <2>1, <3>1, ZenonT(30) DEF Pin
    <3>3. refcnt'[j] = refcnt[j]
      BY <1>0, <2>1, <2>6
    <3> QED BY <1>1, <2>2, <3>2, <3>3
  <2> QED BY <2>4, <2>5, <2>6, ZenonT(30)
<1>14. CASE Bunpin(p)
  <2>1. /\ pc[p] = "bunpin" /\ pc'[p] = "use" /\ UNCHANGED <<buf, blockno>>
        /\ pinned' = pinned \ {want[p]} /\ refcnt' = [refcnt EXCEPT ![buf[p]] = @ - 1]
    BY <1>0, <1>14, Self, ZenonT(30) DEF Bunpin, bvars
  <2>2. cc = c
    BY <1>11, <2>1
  <2>3. want[p] \in Block /\ blockno[buf[p]] = want[p] /\ want[p] \in pinned
    BY <2>1 DEF Inv, UseInv, UnpinInv, InCall
  <2>4. CASE j = buf[p]
    <3>1. Pin(j) = 1 /\ Pin(j)' = 0
      BY <2>1, <2>3, <2>4, ZenonT(30) DEF Pin
    <3>2. refcnt'[j] = refcnt[j] - 1
      BY <1>0, <2>1, <2>4
    <3> QED BY <1>0, <1>1, <2>2, <3>1, <3>2
  <2>5. CASE j # buf[p]
    <3>1. blockno[j] # want[p]
      BY <1>0, <2>3, <2>5, ZenonT(30) DEF OneBuffer
    <3>2. Pin(j)' = Pin(j)
      BY <2>1, <3>1, ZenonT(30) DEF Pin
    <3>3. refcnt'[j] = refcnt[j]
      BY <1>0, <2>1, <2>5
    <3> QED BY <1>1, <2>2, <3>2, <3>3
  <2> QED BY <2>4, <2>5, ZenonT(30)
<1> QED BY <1>8, <1>9, <1>10, <1>12, <1>13, <1>14, ZenonT(30) DEF Act

\* A logged block keeps its buffer: it is pinned.
LEMMA PinStep ==
    ASSUME Inv, NEW p \in Proc, Act(p)
    PROVE  PinInv'
<1> SUFFICES ASSUME NEW b \in pinned' PROVE \E i \in Buf : blockno'[i] = b /\ valid'[i]
  BY ZenonT(30) DEF PinInv
<1>1. CASE b \in pinned
  <2>1. PICK i \in Buf : blockno[i] = b /\ valid[i]
    BY <1>1, ZenonT(30) DEF Inv, PinInv
  <2>2. blockno'[i] = blockno[i] /\ (valid[i] => valid'[i])
    BY <1>1, <2>1, Kept, ZenonT(30)
  <2> QED BY <2>1, <2>2, ZenonT(30)
<1>2. ASSUME NEW v \in Value, LogWrite(p, v), b = want[p]
      PROVE  \E i \in Buf : blockno'[i] = b /\ valid'[i]
  <2>1. pc[p] = "use" /\ UNCHANGED <<blockno, valid>>
    BY <1>2, ZenonT(30) DEF LogWrite
  <2>2. blockno[buf[p]] = want[p] /\ valid[buf[p]] /\ buf[p] \in Buf
    BY <2>1 DEF Inv, UseInv, ReadInv, TypeOK, InCall
  <2> QED BY <1>2, <2>1, <2>2, ZenonT(30)
<1>3. pinned' \subseteq pinned \/ \E v \in Value : LogWrite(p, v) /\ pinned' = pinned \cup {want[p]}
  BY ZenonT(30) DEF Act, Hit, Recycle, GivesUp, Locks, Sleeps, Bread, LogWrite, Bwrite, Bunpin,
                    ReleaseSleep, Brelse
<1> QED BY <1>1, <1>2, <1>3, ZenonT(30)

\* A valid buffer whose block is not in the log has what the disk has.
LEMMA CleanStep ==
    ASSUME Inv, NEW p \in Proc, Act(p)
    PROVE  CleanInv'
<1> SUFFICES ASSUME NEW j \in Buf, valid'[j], blockno'[j] \in Block, blockno'[j] \notin pinned'
             PROVE  data'[j] = disk'[blockno'[j]]
  BY ZenonT(30) DEF CleanInv
<1>0. /\ TypeOK /\ buf[p] \in Buf /\ blockno \in [Buf -> Block \cup {NoBlock}]
      /\ valid \in [Buf -> BOOLEAN] /\ data \in [Buf -> Value] /\ disk \in [Block -> Value]
  BY DEF Inv, TypeOK
<1>1. valid[j] /\ blockno[j] \in Block /\ blockno[j] \notin pinned => data[j] = disk[blockno[j]]
  BY ZenonT(30) DEF Inv, CleanInv
<1>2. pc[p] \in InCall => want[p] \in Block /\ blockno[buf[p]] = want[p]
  BY ZenonT(30) DEF Inv, UseInv
<1>3. ASSUME pc[p] \in InCall, j # buf[p] PROVE blockno[j] # want[p]
  BY <1>0, <1>2, <1>3, ZenonT(30) DEF Inv, OneBuffer
<1>4. ASSUME NEW b \in Block, NEW i \in Buf, Recycle(p, b, i)
      PROVE  data'[j] = disk'[blockno'[j]]
  <2>1. /\ blockno' = [blockno EXCEPT ![i] = b] /\ valid' = [valid EXCEPT ![i] = FALSE]
        /\ UNCHANGED <<data, disk, pinned>>
    BY <1>4, ZenonT(30) DEF Recycle
  <2>2. j # i /\ valid[j]
    BY <1>0, <2>1, ZenonT(30)
  <2>3. \A h \in Buf : h # i => blockno'[h] = blockno[h]
    <3>1. blockno' = [blockno EXCEPT ![i] = b]
      BY <2>1, ZenonT(30)
    <3> QED BY <1>0, <3>1
  <2>4. blockno'[j] = blockno[j]
    BY <2>2, <2>3, ZenonT(30)
  <2>u. UNCHANGED <<data, disk, pinned>>
    BY <2>1, ZenonT(30)
  <2>5. blockno[j] \in Block /\ blockno[j] \notin pinned
    BY <2>4, <2>u, ZenonT(30)
  <2>6. data[j] = disk[blockno[j]]
    BY <1>1, <2>2, <2>5, ZenonT(30)
  <2> QED BY <2>4, <2>6, <2>u, ZenonT(30)
<1>5. CASE Bread(p)
  <2>1. /\ data' = IF valid[buf[p]] THEN data ELSE [data EXCEPT ![buf[p]] = disk[blockno[buf[p]]]]
        /\ valid' = [valid EXCEPT ![buf[p]] = TRUE] /\ UNCHANGED <<blockno, disk, pinned>>
    BY <1>5, ZenonT(30) DEF Bread
  <2>2. CASE valid[j]
    <3>1. data'[j] = data[j]
      BY <1>0, <2>1, <2>2
    <3> QED BY <1>1, <2>1, <2>2, <3>1, ZenonT(30)
  <2>3. CASE ~valid[j]
    <3>1. j = buf[p]
      BY <1>0, <2>1, <2>3, ZenonT(30)
    <3>2. data' = [data EXCEPT ![j] = disk[blockno[j]]]
      BY <2>1, <2>3, <3>1, ZenonT(30)
    <3> QED BY <1>0, <2>1, <3>2
  <2> QED BY <2>2, <2>3, ZenonT(30)
<1>6. ASSUME NEW v \in Value, LogWrite(p, v)
      PROVE  data'[j] = disk'[blockno'[j]]
  <2>1. /\ data' = [data EXCEPT ![buf[p]] = v] /\ pinned' = pinned \cup {want[p]}
        /\ pc[p] \in InCall /\ UNCHANGED <<blockno, valid, disk>>
    BY <1>6 DEF LogWrite, InCall
  <2>2. j # buf[p] /\ blockno[j] \notin pinned
    BY <1>2, <2>1, ZenonT(30)
  <2>3. data'[j] = data[j]
    BY <1>0, <2>1, <2>2
  <2> QED BY <1>1, <2>1, <2>2, <2>3, ZenonT(30)
<1>7. CASE Bwrite(p)
  <2>1. /\ disk' = [disk EXCEPT ![blockno[buf[p]]] = data[buf[p]]] /\ want[p] \in pinned
        /\ pc[p] \in InCall /\ UNCHANGED <<blockno, valid, data, pinned>>
    BY <1>7 DEF Bwrite, InCall, bvars
  <2>2. blockno[j] # blockno[buf[p]]
    BY <1>2, <2>1, ZenonT(30)
  <2>3. disk'[blockno[j]] = disk[blockno[j]]
    BY <1>0, <2>1, <2>2
  <2> QED BY <1>1, <2>1, <2>3, ZenonT(30)
<1>8. CASE Bunpin(p)
  <2>1. /\ pinned' = pinned \ {want[p]} /\ pc[p] = "bunpin" /\ pc[p] \in InCall
        /\ UNCHANGED <<blockno, valid, data, disk>>
    BY <1>8 DEF Bunpin, InCall, bvars
  <2>2. CASE j = buf[p]
    <3>1. data[j] = disk[want[p]]
      BY <2>1, <2>2, ZenonT(30) DEF Inv, UnpinInv
    <3> QED BY <1>2, <2>1, <2>2, <3>1, ZenonT(30)
  <2>3. CASE j # buf[p]
    <3>1. blockno[j] \notin pinned
      BY <1>3, <2>1, <2>3, ZenonT(30)
    <3> QED BY <1>1, <2>1, <3>1, ZenonT(30)
  <2> QED BY <2>2, <2>3, ZenonT(30)
<1>9. CASE UNCHANGED <<blockno, valid, data, disk, pinned>>
  BY <1>1, <1>9, ZenonT(30)
<1> QED BY <1>4, <1>5, <1>6, <1>7, <1>8, <1>9, ZenonT(30)
     DEF Act, Hit, GivesUp, Locks, Sleeps, ReleaseSleep, Brelse, bvars

\* Between bwrite() and bunpin() the block on the disk is the buffer's: its
\* lock keeps everyone else from writing it.
LEMMA UnpinStep ==
    ASSUME Inv, NEW p \in Proc, Act(p)
    PROVE  UnpinInv'
<1> SUFFICES ASSUME NEW q \in Proc, pc'[q] = "bunpin"
             PROVE  want'[q] \in pinned' /\ data'[buf'[q]] = disk'[want'[q]]
  BY ZenonT(30) DEF UnpinInv
<1>0. /\ TypeOK /\ buf[p] \in Buf /\ buf[q] \in Buf /\ OneBuffer /\ UseInv /\ LockInv
      /\ data \in [Buf -> Value] /\ disk \in [Block -> Value]
  BY DEF Inv, TypeOK
<1>1. CASE q # p
  <2>1. buf'[q] = buf[q] /\ want'[q] = want[q] /\ pc[q] = "bunpin"
    BY <1>0, <1>1, Others, ZenonT(30)
  <2>2. want[q] \in pinned /\ data[buf[q]] = disk[want[q]]
    BY <2>1, ZenonT(30) DEF Inv, UnpinInv
  <2>3. pc[p] \in HasLock => buf[p] # buf[q] /\ want[p] # want[q]
    <3>1. pc[q] \in HasLock
      BY <2>1 DEF HasLock
    <3> QED BY <1>0, <1>1, <3>1, Alone, ZenonT(30)
  <2>4. pc[p] \in HasLock => blockno[buf[p]] = want[p]
    BY DEF Inv, UseInv, HasLock, InCall
  <2>5. want[q] \in pinned'
    <3>1. CASE Bunpin(p)
      BY <2>2, <2>3, <3>1 DEF Bunpin, HasLock
    <3> QED BY <2>2, <3>1, ZenonT(30)
         DEF Act, Hit, Recycle, GivesUp, Locks, Sleeps, Bread, LogWrite, Bwrite, ReleaseSleep, Brelse
  <2>6. data'[buf[q]] = data[buf[q]]
    <3>1. ASSUME NEW v, data' = [data EXCEPT ![buf[p]] = v], pc[p] \in {"bread", "use"}
          PROVE  data'[buf[q]] = data[buf[q]]
      <4>1. buf[p] # buf[q]
        BY <2>3, <3>1 DEF HasLock
      <4> QED BY <1>0, <3>1, <4>1
    <3>2. CASE Bread(p)
      BY <3>1, <3>2, ZenonT(30) DEF Bread
    <3>3. ASSUME NEW v \in Value, LogWrite(p, v) PROVE data'[buf[q]] = data[buf[q]]
      BY <3>1, <3>3, ZenonT(30) DEF LogWrite
    <3> QED BY <3>2, <3>3, ZenonT(30)
         DEF Act, Hit, Recycle, GivesUp, Locks, Sleeps, Bwrite, Bunpin, ReleaseSleep, Brelse, bvars
  <2>7. disk'[want[q]] = disk[want[q]]
    <3>1. CASE Bwrite(p)
      <4>1. disk' = [disk EXCEPT ![blockno[buf[p]]] = data[buf[p]]] /\ blockno[buf[p]] # want[q]
        BY <2>3, <2>4, <3>1 DEF Bwrite, HasLock
      <4> QED BY <1>0, <4>1
    <3> QED BY <3>1, ZenonT(30)
         DEF Act, Hit, Recycle, GivesUp, Locks, Sleeps, Bread, LogWrite, Bunpin, ReleaseSleep, Brelse
  <2> QED BY <2>1, <2>2, <2>5, <2>6, <2>7, ZenonT(30)
<1>2. CASE q = p /\ Bwrite(p)
  <2>1. /\ disk' = [disk EXCEPT ![blockno[buf[p]]] = data[buf[p]]] /\ want[p] \in pinned
        /\ pc[p] \in InCall /\ UNCHANGED <<data, pinned, buf, want>>
    BY <1>2 DEF Bwrite, InCall, bvars
  <2>2. want[p] \in Block /\ blockno[buf[p]] = want[p]
    BY <2>1, ZenonT(30) DEF Inv, UseInv
  <2>3. disk'[want[p]] = data[buf[p]]
    BY <1>0, <2>1, <2>2
  <2> QED BY <1>2, <2>1, <2>3, ZenonT(30)
<1>3. CASE q = p /\ ~Bwrite(p)
  <2>1. pc'[p] \in {"acquiresleep", "panic", "bread", "asleep", "use", "brelse", "idle"}
    BY <1>0, <1>3, Self, ZenonT(30) DEF Act
  <2> QED BY <1>3, <2>1
<1> QED BY <1>1, <1>2, <1>3, ZenonT(30)

-----------------------------------------------------------------------------
(* Reference counts.                                                       *)

\* The invariant holds in every reachable state.
THEOREM CacheInvariant == Spec => []Inv
<1>1. Init => Inv
  BY InvInit
<1>2. Inv /\ [Next]_vars => Inv'
  <2> SUFFICES ASSUME Inv, [Next]_vars PROVE Inv'
    OBVIOUS
  <2>1. CASE UNCHANGED vars
    <3>1. TypeOK' /\ ListInv' /\ OneBuffer' /\ UseInv'
      BY <2>1, ZenonT(30) DEF vars, Inv, TypeOK, ListInv, OneBuffer, UseInv
    <3>2. CountInv'
      BY <2>1, ZenonT(30) DEF vars, Inv, CountInv, Users, Pin
    <3>3. LockInv' /\ ReadInv' /\ PinInv' /\ CleanInv' /\ UnpinInv'
      BY <2>1, ZenonT(30) DEF vars, Inv, LockInv, ReadInv, PinInv, CleanInv, UnpinInv
    <3> QED BY <3>1, <3>2, <3>3, ZenonT(30) DEF Inv
  <2>2. CASE Next
    <3>1. PICK p \in Proc : Act(p)
      BY <2>2, Acts, ZenonT(30) DEF Inv
    <3> QED BY <3>1, TypeStep, ListStep, OneBufferStep, CountStep, UseStep, LockStep, ReadStep,
               PinStep, CleanStep, UnpinStep, ZenonT(30) DEF Inv
  <2> QED BY <2>1, <2>2, ZenonT(30)
<1> QED BY <1>1, <1>2, PTL DEF Spec

\* b->refcnt is exact: the processes between bget() and the end of brelse(),
\* and one more for a block in the log.
THEOREM ReferencesAreCounted == Spec => []RefcntCounts
<1>1. Inv => RefcntCounts
  BY ZenonT(30) DEF Inv, RefcntCounts, CountInv, Pin
<1> QED BY <1>1, CacheInvariant, PTL

-----------------------------------------------------------------------------
(* The cache implements BlockStore.                                        *)

\* The buffer of block b, when bread() need not read it.
Found(i, b) == blockno[i] = b /\ valid[i]
Holders == {<<p, want[p]>> : p \in {q \in Proc : pc[q] \in {"use", "bunpin"}}}

\* The contents of a block are in its valid buffer, or on the disk.
LEMMA ContentsAt ==
    ASSUME OneBuffer, NEW b \in Block
    PROVE  /\ \A i \in Buf : Found(i, b) => Contents[b] = data[i]
           /\ (\A i \in Buf : ~Found(i, b)) => Contents[b] = disk[b]
<1>1. Contents[b] = IF \E i \in Hits(b) : valid[i]
                    THEN data[CHOOSE i \in Hits(b) : valid[i]] ELSE disk[b]
  BY ZenonT(30) DEF Contents
<1>2. ASSUME NEW i \in Buf, Found(i, b) PROVE Contents[b] = data[i]
  <2> DEFINE k == CHOOSE h \in Hits(b) : valid[h]
  <2>1. i \in Hits(b) /\ valid[i]
    BY <1>2, ZenonT(30) DEF Hits, Found
  <2>2. k \in Hits(b)
    BY <2>1, ZenonT(30)
  <2> HIDE DEF k
  <2>3. k = i
    BY <2>1, <2>2, ZenonT(30) DEF Hits, OneBuffer
  <2>4. Contents[b] = data[k]
    BY <1>1, <2>1, ZenonT(30) DEF k
  <2> QED BY <2>3, <2>4, ZenonT(30)
<1>3. ASSUME \A i \in Buf : ~Found(i, b) PROVE Contents[b] = disk[b]
  BY <1>1, <1>3, ZenonT(30) DEF Hits, Found
<1> QED BY <1>2, <1>3, ZenonT(30)

\* The same after a step.
LEMMA ContentsNext ==
    ASSUME OneBuffer', NEW b \in Block
    PROVE  /\ \A i \in Buf : Found(i, b)' => Contents'[b] = data'[i]
           /\ (\A i \in Buf : ~Found(i, b)') => Contents'[b] = disk'[b]
<1>1. Contents'[b] = IF \E i \in Hits(b)' : valid'[i]
                     THEN data'[CHOOSE i \in Hits(b)' : valid'[i]] ELSE disk'[b]
  BY ZenonT(30) DEF Contents
<1>2. ASSUME NEW i \in Buf, Found(i, b)' PROVE Contents'[b] = data'[i]
  <2> DEFINE k == CHOOSE h \in Hits(b)' : valid'[h]
  <2>1. i \in Hits(b)' /\ valid'[i]
    BY <1>2, ZenonT(30) DEF Hits, Found
  <2>2. k \in Hits(b)'
    BY <2>1, ZenonT(30)
  <2> HIDE DEF k
  <2>3. k = i
    BY <2>1, <2>2, ZenonT(30) DEF Hits, OneBuffer
  <2>4. Contents'[b] = data'[k]
    BY <1>1, <2>1, ZenonT(30) DEF k
  <2> QED BY <2>3, <2>4, ZenonT(30)
<1>3. ASSUME \A i \in Buf : ~Found(i, b)' PROVE Contents'[b] = disk'[b]
  BY <1>1, <1>3, ZenonT(30) DEF Hits, Found
<1> QED BY <1>2, <1>3, ZenonT(30)

\* Every block has contents.
LEMMA ContentsType ==
    ASSUME TypeOK, OneBuffer
    PROVE  Contents \in [Block -> Value]
<1>1. Contents = [b \in Block |-> Contents[b]]
  BY ZenonT(30) DEF Contents
<1>2. ASSUME NEW b \in Block PROVE Contents[b] \in Value
  <2>1. \A i \in Buf : data[i] \in Value
    BY DEF TypeOK
  <2>2. disk[b] \in Value
    BY DEF TypeOK
  <2> QED BY <2>1, <2>2, ContentsAt, ZenonT(30)
<1> QED BY <1>1, <1>2, ZenonT(30)

\* Only a write changes what a block contains; a recycled buffer takes
\* nothing with it.
LEMMA ContentsStep ==
    ASSUME Inv, NEW p \in Proc, Act(p)
    PROVE  \/ Contents' = Contents /\ ~(\E v \in Value : LogWrite(p, v))
           \/ \E v \in Value : LogWrite(p, v) /\ Contents' = [Contents EXCEPT ![want[p]] = v]
<1>0. /\ TypeOK /\ buf[p] \in Buf /\ blockno \in [Buf -> Block \cup {NoBlock}]
      /\ valid \in [Buf -> BOOLEAN] /\ data \in [Buf -> Value] /\ disk \in [Block -> Value]
      /\ OneBuffer /\ OneBuffer'
  BY OneBufferStep DEF Inv, TypeOK
<1>1. Contents = [b \in Block |-> Contents[b]] /\ Contents' = [b \in Block |-> Contents'[b]]
  BY ZenonT(30) DEF Contents
<1>2. pc[p] \in InCall => want[p] \in Block /\ blockno[buf[p]] = want[p]
  BY ZenonT(30) DEF Inv, UseInv
<1>3. (\A b \in Block : Contents'[b] = Contents[b]) => Contents' = Contents
  BY <1>1, ZenonT(30)
<1>4. ASSUME NEW i \in Buf, NEW b0 \in Block, Recycle(p, b0, i), NEW b \in Block
      PROVE  Contents'[b] = Contents[b]
  <2>1. /\ blockno' = [blockno EXCEPT ![i] = b0] /\ valid' = [valid EXCEPT ![i] = FALSE]
        /\ UNCHANGED <<data, disk, pinned>> /\ refcnt[i] = 0
    BY <1>4, ZenonT(30) DEF Recycle
  <2>2. ~valid'[i] /\ \A h \in Buf : h # i => valid'[h] = valid[h]
    BY <1>0, <2>1, ZenonT(30)
  <2>3. \A h \in Buf : h # i => blockno'[h] = blockno[h]
    <3>1. blockno' = [blockno EXCEPT ![i] = b0]
      BY <2>1, ZenonT(30)
    <3> QED BY <1>0, <3>1
  <2>4. \A h \in Buf : Found(h, b)' <=> (h # i /\ Found(h, b))
    BY <2>2, <2>3, ZenonT(30) DEF Found
  <2>5. CASE Found(i, b)
    <3>1. \A h \in Buf : ~Found(h, b)'
      BY <1>0, <2>4, <2>5, ZenonT(30) DEF Found, OneBuffer
    <3>2. blockno[i] \notin pinned
      BY <1>0, <2>1, NotCounted, ZenonT(30) DEF Inv
    <3>3. data[i] = disk[b]
      BY <2>5, <3>2, ZenonT(30) DEF Found, Inv, CleanInv
    <3>4. Contents[b] = data[i]
      BY <1>0, <2>5, ContentsAt, ZenonT(30)
    <3>5. Contents'[b] = disk'[b]
      BY <1>0, <3>1, ContentsNext, ZenonT(30)
    <3> QED BY <2>1, <3>3, <3>4, <3>5, ZenonT(30)
  <2>6. ASSUME NEW h \in Buf, h # i, Found(h, b) PROVE Contents'[b] = Contents[b]
    <3>1. Contents[b] = data[h]
      BY <1>0, <2>6, ContentsAt, ZenonT(30)
    <3>2. Contents'[b] = data'[h]
      BY <1>0, <2>4, <2>6, ContentsNext, ZenonT(30)
    <3> QED BY <2>1, <3>1, <3>2, ZenonT(30)
  <2>7. CASE \A h \in Buf : ~Found(h, b)
    <3>1. Contents[b] = disk[b]
      BY <1>0, <2>7, ContentsAt, ZenonT(30)
    <3>2. Contents'[b] = disk'[b]
      BY <1>0, <2>4, <2>7, ContentsNext, ZenonT(30)
    <3> QED BY <2>1, <3>1, <3>2, ZenonT(30)
  <2> QED BY <2>5, <2>6, <2>7, ZenonT(30)
<1>5. ASSUME Bread(p), NEW b \in Block PROVE Contents'[b] = Contents[b]
  <2> DEFINE i == buf[p]
  <2>1. /\ data' = IF valid[i] THEN data ELSE [data EXCEPT ![i] = disk[blockno[i]]]
        /\ valid' = [valid EXCEPT ![i] = TRUE] /\ UNCHANGED <<blockno, disk>> /\ pc[p] \in InCall
    BY <1>5 DEF Bread, InCall
  <2>i. i \in Buf
    BY <1>0
  <2> HIDE DEF i
  <2>2. \A h \in Buf : h # i => valid'[h] = valid[h]
    BY <1>0, <2>1, <2>i, ZenonT(30)
  <2>3. valid'[i]
    BY <1>0, <2>1, <2>i, ZenonT(30)
  <2>4. \A h \in Buf : (h # i \/ valid[i]) => data'[h] = data[h]
    <3>1. CASE valid[i]
      BY <2>1, <3>1, ZenonT(30)
    <3>2. CASE ~valid[i]
      <4>1. data' = [data EXCEPT ![i] = disk[blockno[i]]]
        BY <2>1, <3>2, ZenonT(30)
      <4> QED BY <1>0, <3>2, <4>1, ZenonT(30)
    <3> QED BY <3>1, <3>2, ZenonT(30)
  <2>5. CASE blockno[i] = b /\ ~valid[i]
    <3>1. data' = [data EXCEPT ![i] = disk[blockno[i]]]
      BY <2>1, <2>5, ZenonT(30)
    <3>2. data'[i] = disk[b]
      BY <1>0, <2>5, <2>i, <3>1
    <3>3. Contents'[b] = data'[i]
      BY <1>0, <2>1, <2>3, <2>5, <2>i, ContentsNext, ZenonT(30) DEF Found
    <3>4. \A h \in Buf : ~Found(h, b)
      BY <1>0, <2>5, <2>i, ZenonT(30) DEF Found, OneBuffer
    <3>5. Contents[b] = disk[b]
      BY <1>0, <3>4, ContentsAt, ZenonT(30)
    <3> QED BY <3>2, <3>3, <3>5, ZenonT(30)
  <2>6. CASE ~(blockno[i] = b /\ ~valid[i])
    <3>1. \A h \in Buf : Found(h, b)' <=> Found(h, b)
      BY <2>1, <2>2, <2>3, <2>6, ZenonT(30) DEF Found
    <3>2. ASSUME NEW h \in Buf, Found(h, b) PROVE Contents'[b] = Contents[b]
      <4>1. data'[h] = data[h]
        BY <2>4, <3>2, ZenonT(30) DEF Found
      <4>2. Contents'[b] = data'[h]
        BY <1>0, <3>1, <3>2, ContentsNext, ZenonT(30)
      <4>3. Contents[b] = data[h]
        BY <1>0, <3>2, ContentsAt, ZenonT(30)
      <4> QED BY <4>1, <4>2, <4>3, ZenonT(30)
    <3>3. CASE \A h \in Buf : ~Found(h, b)
      <4>1. Contents'[b] = disk'[b]
        BY <1>0, <3>1, <3>3, ContentsNext, ZenonT(30)
      <4>2. Contents[b] = disk[b]
        BY <1>0, <3>3, ContentsAt, ZenonT(30)
      <4> QED BY <2>1, <4>1, <4>2, ZenonT(30)
    <3> QED BY <3>2, <3>3, ZenonT(30)
  <2> QED BY <2>5, <2>6, ZenonT(30)
<1>6. ASSUME NEW v \in Value, LogWrite(p, v)
      PROVE  Contents' = [Contents EXCEPT ![want[p]] = v]
  <2> DEFINE i == buf[p]
  <2>1. /\ data' = [data EXCEPT ![i] = v] /\ UNCHANGED <<blockno, valid, disk>> /\ pc[p] = "use"
    BY <1>6, ZenonT(30) DEF LogWrite
  <2>2. i \in Buf /\ want[p] \in Block /\ Found(i, want[p])
    BY <1>0, <1>2, <2>1 DEF InCall, Found, Inv, ReadInv
  <2> HIDE DEF i
  <2>3. data'[i] = v /\ \A h \in Buf : h # i => data'[h] = data[h]
    BY <1>0, <2>1, <2>2
  <2>4. \A h \in Buf, b \in Block : Found(h, b)' <=> Found(h, b)
    BY <2>1, ZenonT(30) DEF Found
  <2>5. Contents'[want[p]] = v
    BY <1>0, <2>2, <2>3, <2>4, ContentsNext, ZenonT(30)
  <2>6. ASSUME NEW b \in Block, b # want[p] PROVE Contents'[b] = Contents[b]
    <3>1. ASSUME NEW h \in Buf, Found(h, b) PROVE Contents'[b] = Contents[b]
      <4>1. data'[h] = data[h]
        BY <2>2, <2>3, <2>6, <3>1, ZenonT(30) DEF Found
      <4>2. Contents'[b] = data'[h]
        BY <1>0, <2>4, <3>1, ContentsNext, ZenonT(30)
      <4>3. Contents[b] = data[h]
        BY <1>0, <3>1, ContentsAt, ZenonT(30)
      <4> QED BY <4>1, <4>2, <4>3, ZenonT(30)
    <3>2. CASE \A h \in Buf : ~Found(h, b)
      <4>1. Contents'[b] = disk'[b]
        BY <1>0, <2>4, <3>2, ContentsNext, ZenonT(30)
      <4>2. Contents[b] = disk[b]
        BY <1>0, <3>2, ContentsAt, ZenonT(30)
      <4> QED BY <2>1, <4>1, <4>2, ZenonT(30)
    <3> QED BY <3>1, <3>2, ZenonT(30)
  <2>7. [Contents EXCEPT ![want[p]] = v] = [b \in Block |-> IF b = want[p] THEN v ELSE Contents[b]]
    <3> DEFINE c == Contents
    <3>1. c = [b \in Block |-> c[b]]
      BY <1>1, ZenonT(30)
    <3> HIDE DEF c
    <3>2. [c EXCEPT ![want[p]] = v] = [b \in Block |-> IF b = want[p] THEN v ELSE c[b]]
      BY <3>1
    <3> QED BY <3>2, ZenonT(30) DEF c
  <2>8. Contents' = [b \in Block |-> IF b = want[p] THEN v ELSE Contents[b]]
    BY <1>1, <2>5, <2>6, ZenonT(30)
  <2> QED BY <2>7, <2>8, ZenonT(30)
<1>7. ASSUME Bwrite(p), NEW b \in Block PROVE Contents'[b] = Contents[b]
  <2> DEFINE i == buf[p]
  <2>1. /\ disk' = [disk EXCEPT ![blockno[i]] = data[i]] /\ UNCHANGED <<blockno, valid, data>>
        /\ pc[p] = "use"
    BY <1>7, ZenonT(30) DEF Bwrite, bvars
  <2>2. i \in Buf /\ want[p] \in Block /\ Found(i, want[p]) /\ blockno[i] = want[p]
    BY <1>0, <1>2, <2>1 DEF InCall, Found, Inv, ReadInv
  <2> HIDE DEF i
  <2>3. \A h \in Buf : Found(h, b)' <=> Found(h, b)
    BY <2>1, ZenonT(30) DEF Found
  <2>4. ASSUME NEW h \in Buf, Found(h, b) PROVE Contents'[b] = Contents[b]
    <3>1. Contents'[b] = data'[h]
      BY <1>0, <2>3, <2>4, ContentsNext, ZenonT(30)
    <3>2. Contents[b] = data[h]
      BY <1>0, <2>4, ContentsAt, ZenonT(30)
    <3> QED BY <2>1, <3>1, <3>2, ZenonT(30)
  <2>5. CASE \A h \in Buf : ~Found(h, b)
    <3>1. Contents'[b] = disk'[b]
      BY <1>0, <2>3, <2>5, ContentsNext, ZenonT(30)
    <3>2. Contents[b] = disk[b]
      BY <1>0, <2>5, ContentsAt, ZenonT(30)
    <3>3. b # blockno[i]
      BY <2>2, <2>5, ZenonT(30) DEF Found
    <3>4. disk'[b] = disk[b]
      BY <1>0, <2>1, <3>3
    <3> QED BY <3>1, <3>2, <3>4, ZenonT(30)
  <2> QED BY <2>4, <2>5, ZenonT(30)
<1>8. ASSUME UNCHANGED <<blockno, valid, data, disk>> PROVE Contents' = Contents
  BY <1>8, ZenonT(30) DEF Contents, Hits
<1>9. ASSUME ~(\E v \in Value : LogWrite(p, v)) PROVE Contents' = Contents
  BY <1>3, <1>4, <1>5, <1>7, <1>8, <1>9, ZenonT(30)
     DEF Act, Hit, GivesUp, Locks, Sleeps, Bunpin, ReleaseSleep, Brelse, bvars
<1> QED BY <1>6, <1>9, ZenonT(30)

\* Who has which block: bread() returns it, and brelse() gives it up.
LEMMA HoldersStep ==
    ASSUME Inv, NEW p \in Proc, Act(p)
    PROVE  /\ Bread(p) => Holders' = Holders \cup {<<p, want[p]>>}
           /\ ReleaseSleep(p) => Holders' = Holders \ {<<p, want[p]>>}
           /\ ~Bread(p) /\ ~ReleaseSleep(p) => Holders' = Holders
<1> DEFINE U == {"use", "bunpin"}
           In(x) == \E q \in Proc : pc[q] \in U /\ x = <<q, want[q]>>
           Out(x) == \E q \in Proc : pc'[q] \in U /\ x = <<q, want'[q]>>
<1>0. TypeOK
  BY DEF Inv
<1>1. \A x : (x \in Holders <=> In(x)) /\ (x \in Holders' <=> Out(x))
  BY ZenonT(30) DEF Holders
<1>2. \A q \in Proc : q # p => want'[q] = want[q] /\ (pc'[q] \in U <=> pc[q] \in U)
  <2>1. \A q \in Proc : q # p =>
           /\ want'[q] = want[q]
           /\ pc'[q] = pc[q] \/ (pc[q] = "asleep" /\ pc'[q] = "acquiresleep")
    BY <1>0, Others, ZenonT(30)
  <2> QED BY <2>1
<1>3. CASE Bread(p)
  <2>1. pc[p] = "bread" /\ pc'[p] = "use" /\ UNCHANGED want
    BY <1>0, <1>3, Self, ZenonT(30) DEF Bread
  <2>2. pc[p] \notin U /\ pc'[p] \in U /\ want'[p] = want[p]
    BY <2>1
  <2> HIDE DEF U
  <2>3. \A x : Out(x) <=> (In(x) \/ x = <<p, want[p]>>)
    BY <1>2, <2>2, ZenonT(30)
  <2>4. Holders' = Holders \cup {<<p, want[p]>>}
    <3> HIDE DEF In, Out
    <3> QED BY <1>1, <2>3, ZenonT(30)
  <2>5. ~ReleaseSleep(p)
    BY <2>1 DEF ReleaseSleep
  <2> QED BY <1>3, <2>4, <2>5, ZenonT(30)
<1>4. CASE ReleaseSleep(p)
  <2>1. pc[p] = "use" /\ pc'[p] = "brelse" /\ UNCHANGED want
    BY <1>0, <1>4, Self, ZenonT(30) DEF ReleaseSleep
  <2>2. pc'[p] \notin U
    BY <2>1
  <2> HIDE DEF U
  <2>3. ASSUME NEW x PROVE Out(x) <=> (In(x) /\ x # <<p, want[p]>>)
    <3>1. ASSUME NEW q \in Proc, q # p PROVE <<q, want[q]>> # <<p, want[p]>>
      BY <3>1
    <3> QED BY <1>2, <2>2, <3>1, ZenonT(30)
  <2>4. Holders' = Holders \ {<<p, want[p]>>}
    <3> HIDE DEF In, Out
    <3> QED BY <1>1, <2>3, ZenonT(30)
  <2>5. ~Bread(p)
    BY <2>1 DEF Bread
  <2> QED BY <1>4, <2>4, <2>5, ZenonT(30)
<1>5. CASE ~Bread(p) /\ ~ReleaseSleep(p)
  <2>1. (pc'[p] \in U <=> pc[p] \in U) /\ (pc[p] \in U => want'[p] = want[p])
    <3>1. CASE (\E v \in Value : LogWrite(p, v)) \/ Bwrite(p) \/ Bunpin(p)
      <4>1. pc[p] \in U /\ pc'[p] \in U /\ UNCHANGED want
        BY <1>0, <3>1, Self, ZenonT(30) DEF LogWrite, Bwrite, Bunpin
      <4> QED BY <4>1, ZenonT(30)
    <3>2. CASE \/ \E b \in Block, i \in Buf : Hit(p, b, i) \/ Recycle(p, b, i)
               \/ \E b \in Block : GivesUp(p, b)
               \/ Locks(p) \/ Sleeps(p) \/ Brelse(p)
      <4>1. /\ pc[p] \in {"idle", "acquiresleep", "brelse"}
            /\ pc'[p] \in {"acquiresleep", "panic", "bread", "asleep", "idle"}
        BY <1>0, <3>2, Self, ZenonT(30) DEF Hit, Recycle, GivesUp, Locks, Sleeps, Brelse
      <4> QED BY <4>1
    <3> QED BY <1>5, <3>1, <3>2, ZenonT(30) DEF Act
  <2> HIDE DEF U
  <2>2. \A x : Out(x) <=> In(x)
    BY <1>2, <2>1, ZenonT(30)
  <2>3. Holders' = Holders
    <3> HIDE DEF In, Out
    <3> QED BY <1>1, <2>2, ZenonT(30)
  <2> QED BY <1>5, <2>3, ZenonT(30)
<1> QED BY <1>3, <1>4, <1>5, ZenonT(30)

\* Every step of the cache is a step of the store, or none.
LEMMA StoreStep ==
    ASSUME Inv, NEW p \in Proc, Act(p)
    PROVE  Store!Next \/ UNCHANGED <<Contents, Holders>>
<1>b. PICK b : b = want[p]
  OBVIOUS
<1>0. /\ TypeOK /\ OneBuffer /\ UseInv /\ LockInv
      /\ \/ Contents' = Contents /\ ~(\E v \in Value : LogWrite(p, v))
         \/ \E v \in Value : LogWrite(p, v) /\ Contents' = [Contents EXCEPT ![b] = v]
      /\ Bread(p) => Holders' = Holders \cup {<<p, b>>}
      /\ ReleaseSleep(p) => Holders' = Holders \ {<<p, b>>}
      /\ ~Bread(p) /\ ~ReleaseSleep(p) => Holders' = Holders
  BY <1>b, ContentsStep, HoldersStep, ZenonT(30) DEF Inv
<1>1. pc[p] \in InCall => b \in Block
  BY <1>b, ZenonT(30) DEF Inv, UseInv
<1>2. pc[p] = "use" => <<p, b>> \in Holders
  BY <1>b DEF Holders
<1>3. CASE Bread(p)
  <2>1. pc[p] = "bread"
    BY <1>3, ZenonT(30) DEF Bread
  <2>2. b \in Block /\ pc[p] \in HasLock
    BY <1>1, <2>1 DEF InCall, HasLock
  <2>3. ASSUME NEW h \in Holders PROVE h[1] # p /\ h[2] # b
    <3>1. PICK q \in Proc : pc[q] \in {"use", "bunpin"} /\ h = <<q, want[q]>>
      BY ZenonT(30) DEF Holders
    <3>2. q # p /\ pc[q] \in HasLock
      BY <2>1, <3>1 DEF HasLock
    <3>3. want[p] # want[q]
      BY <1>0, <2>2, <3>2, Alone, ZenonT(30)
    <3> QED BY <1>b, <3>1, <3>2, <3>3
  <2>4. Contents' = Contents
    <3>1. \A v \in Value : ~LogWrite(p, v)
      BY <2>1 DEF LogWrite
    <3> QED BY <1>0, <3>1, ZenonT(30)
  <2>5. Store!Acquire(p, b)
    <3>1. Holders' = Holders \cup {<<p, b>>}
      BY <1>0, <1>3, ZenonT(30)
    <3> QED BY <2>3, <2>4, <3>1 DEF Store!Acquire, Holders
  <2>6. Store!Next
    BY <2>2, <2>5, ZenonT(30) DEF Store!Next
  <2> QED BY <2>6, ZenonT(30)
<1>4. CASE ReleaseSleep(p)
  <2>1. pc[p] = "use" /\ UNCHANGED data
    BY <1>4, ZenonT(30) DEF ReleaseSleep, bvars
  <2>2. b \in Block
    BY <1>1, <2>1 DEF InCall
  <2>3. \A v \in Value : ~LogWrite(p, v)
    <3>1. pc'[p] = "brelse"
      BY <1>0, <1>4, Self, ZenonT(30)
    <3>2. \A v \in Value : LogWrite(p, v) => pc'[p] = "use"
      BY <1>0, Self, ZenonT(30)
    <3> QED BY <3>1, <3>2
  <2>4. Store!Release(p, b)
    <3>1. Holders' = Holders \ {<<p, b>>} /\ Contents' = Contents
      BY <1>0, <1>4, <2>3, ZenonT(30)
    <3>2. <<p, b>> \in Holders
      BY <1>2, <2>1, ZenonT(30)
    <3> QED BY <3>1, <3>2 DEF Store!Release, Holders
  <2>5. Store!Next
    BY <2>2, <2>4, ZenonT(30) DEF Store!Next
  <2> QED BY <2>5, ZenonT(30)
<1>5. ASSUME NEW v \in Value, LogWrite(p, v), Contents' = [Contents EXCEPT ![b] = v]
      PROVE  Store!Next
  <2>1. pc[p] = "use"
    BY <1>5, ZenonT(30) DEF LogWrite
  <2>2. b \in Block
    BY <1>1, <2>1 DEF InCall
  <2>3. ~Bread(p) /\ ~ReleaseSleep(p)
    <3>1. pc'[p] = "use"
      BY <1>0, <1>5, Self, ZenonT(30)
    <3>2. ReleaseSleep(p) => pc'[p] = "brelse"
      BY <1>0, Self, ZenonT(30)
    <3> QED BY <2>1, <3>1, <3>2 DEF Bread
  <2>4. Store!Write(p, b, v)
    BY <1>0, <1>2, <1>5, <2>1, <2>3, ZenonT(30) DEF Store!Write, Holders
  <2> QED BY <2>2, <2>4, ZenonT(30) DEF Store!Next
<1> QED BY <1>0, <1>3, <1>4, <1>5, ZenonT(30)

\* bio.c, lines 1-16: the cache implements the block store.  A process has a
\* block alone between bread() and brelse(), finds in it what was last
\* written to it, and no recycled buffer loses a write.
THEOREM CacheIsBlockStore == Spec => StoreSpec
<1>1. Init => Store!Init
  <2> SUFFICES ASSUME Init PROVE Store!Init
    OBVIOUS
  <2>1. Contents \in [Block -> Value]
    BY InvInit, ContentsType, ZenonT(30) DEF Inv
  <2>2. Holders = {}
    BY DEF Init, Holders
  <2> QED BY <2>1, <2>2, ZenonT(30) DEF Store!Init, Holders
<1>2. Inv /\ [Next]_vars => [Store!Next]_(Store!vars)
  <2> SUFFICES ASSUME Inv, [Next]_vars PROVE Store!Next \/ UNCHANGED Store!vars
    BY ZenonT(30)
  <2>1. CASE Next
    <3>1. PICK p \in Proc : Act(p)
      BY <2>1, Acts, ZenonT(30) DEF Inv
    <3>2. Store!Next \/ UNCHANGED <<Contents, Holders>>
      BY <3>1, StoreStep, ZenonT(30)
    <3> QED BY <3>2, ZenonT(30) DEF Store!vars, Holders
  <2>2. CASE UNCHANGED vars
    <3>1. Contents' = Contents
      BY <2>2, ZenonT(30) DEF vars, Contents, Hits
    <3>2. Holders' = Holders
      BY <2>2, ZenonT(30) DEF vars, Holders
    <3> QED BY <3>1, <3>2, ZenonT(30) DEF Store!vars, Holders
  <2> QED BY <2>1, <2>2, ZenonT(30)
<1> QED BY <1>1, <1>2, CacheInvariant, PTL DEF Spec, StoreSpec, Store!Spec
=============================================================================
