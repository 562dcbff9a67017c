-------------------------- MODULE Allocator_proofs --------------------------
(***************************************************************************)
(* The allocators (alloc.c, alloc_slab.c, alloc_block.c, alloc_bump.c) and *)
(* the ticket lock (spinlock.h) for any number of threads below the number *)
(* of ticket values, any arena and any sizes.                              *)
(***************************************************************************)
EXTENDS Allocator, TLAPS, FiniteSetTheorems, WellFoundedInduction

-----------------------------------------------------------------------------
(* The least of a set of numbers, for arguments by the least exception *)

LEMMA Least ==
  ASSUME NEW S, S \subseteq Nat, S # {}
  PROVE  \E x \in S : \A y \in S : x <= y
<1>1. PICK x \in S : \A y \in S : <<y, x>> \notin OpToRel(<, Nat)
  <2>1. IsWellFoundedOn(OpToRel(<, Nat), Nat)
    BY NatLessThanWellFounded, Zenon
  <2> QED
    BY <2>1, WFMin, Zenon
<1>2. \A y \in S : ~(y < x)
  BY <1>1 DEF OpToRel
<1> QED
  BY <1>2

-----------------------------------------------------------------------------
(* The ticket lock *)

\* The threads C stand in line: their tickets tk are those from the number
\* served on, no two alike, and the next ticket comes after them.
Line(C, tk, nx, sv) ==
  /\ nx \in 0 .. W - 1 /\ sv \in 0 .. W - 1
  /\ {tk[t] : t \in C} = {(sv + k) % W : k \in 0 .. Cardinality(C) - 1}
  /\ (nx - sv) % W = Cardinality(C)
  /\ \A t, u \in C : tk[t] = tk[u] => t = u

LEMMA ThreadsFinite ==
  ASSUME NEW C \in SUBSET Threads
  PROVE  /\ IsFiniteSet(C) /\ Cardinality(C) \in 0 .. W - 1
         /\ W \in Nat \ {0}
<1>1. /\ IsFiniteSet(Threads) /\ W \in Nat /\ Cardinality(Threads) < W
      /\ Cardinality(Threads) \in Nat
  BY AllocatorAssumption, FS_CardinalityType
<1>2. IsFiniteSet(C) /\ Cardinality(C) <= Cardinality(Threads)
  BY <1>1, FS_Subset
<1>3. Cardinality(C) \in Nat
  BY <1>2, FS_CardinalityType
<1> QED
  BY <1>1, <1>2, <1>3

\* A counter of W values, incremented.
LEMMA NextTicket ==
  ASSUME NEW x \in 0 .. W - 1, W \in Nat \ {0}
  PROVE  (x + 1) % W = IF x + 1 = W THEN 0 ELSE x + 1
OBVIOUS

\* Where the next ticket is: as far from the one served as the line is long.
LEMMA Distance ==
  ASSUME W \in Nat \ {0}, NEW nx \in 0 .. W - 1, NEW sv \in 0 .. W - 1, NEW n \in 0 .. W - 1
  PROVE  (nx - sv) % W = n <=> (nx = sv + n \/ nx = sv + n - W)
OBVIOUS

\* The k-th ticket from the one served.
LEMMA Kth ==
  ASSUME W \in Nat \ {0}, NEW sv \in 0 .. W - 1, NEW k \in 0 .. W - 1
  PROVE  (sv + k) % W = IF sv + k < W THEN sv + k ELSE sv + k - W
OBVIOUS

\* gmk_spinlock_acquire: a thread joins the line.
LEMMA Joins ==
  ASSUME NEW C \in SUBSET Threads, NEW t \in Threads \ C, NEW tk, NEW tk2, NEW nx, NEW sv,
         Line(C, tk, nx, sv), tk2[t] = nx, \A u \in C : tk2[u] = tk[u]
  PROVE  Line(C \cup {t}, tk2, (nx + 1) % W, sv)
<1> DEFINE D == C \cup {t}
           n == Cardinality(C)
<1>1. D \in SUBSET Threads
  OBVIOUS
<1>2. IsFiniteSet(C) /\ n \in 0 .. W - 1 /\ W \in Nat \ {0} /\ Cardinality(D) \in 0 .. W - 1
  BY <1>1, ThreadsFinite
<1>3. Cardinality(D) = n + 1
  BY <1>2, FS_AddElement
<1>4. /\ nx \in 0 .. W - 1 /\ sv \in 0 .. W - 1
      /\ {tk[u] : u \in C} = {(sv + k) % W : k \in 0 .. n - 1}
      /\ (nx - sv) % W = n
      /\ \A u, w \in C : tk[u] = tk[w] => u = w
  BY DEF Line
<1> HIDE DEF n, D
<1>5. nx = sv + n \/ nx = sv + n - W
  BY <1>2, <1>4, Distance
<1>6. PICK nx2 \in 0 .. W - 1 : nx2 = (nx + 1) % W /\ nx2 = IF nx + 1 = W THEN 0 ELSE nx + 1
  BY <1>2, <1>4, NextTicket
<1>7. n + 1 \in 0 .. W - 1
  BY <1>2, <1>3
<1>8. (nx2 - sv) % W = n + 1
  <2>1. nx2 = sv + (n + 1) \/ nx2 = sv + (n + 1) - W
    BY <1>2, <1>4, <1>5, <1>6
  <2> QED
    BY <1>2, <1>4, <1>7, <2>1, Distance
<1>9. nx = (sv + n) % W
  <2>1. (sv + n) % W = IF sv + n < W THEN sv + n ELSE sv + n - W
    BY <1>2, <1>4, Kth
  <2> QED
    BY <1>2, <1>4, <1>5, <2>1
<1>10. {tk2[u] : u \in D} = {(sv + k) % W : k \in 0 .. n}
  <2>1. {tk2[u] : u \in D} = {tk[u] : u \in C} \cup {nx}
    BY DEF D
  <2>2. 0 .. n = (0 .. n - 1) \cup {n}
    BY <1>2
  <2>3. {(sv + k) % W : k \in 0 .. n} = {(sv + k) % W : k \in 0 .. n - 1} \cup {(sv + n) % W}
    BY <2>2, Zenon
  <2> QED
    BY <1>4, <1>9, <2>1, <2>3
<1>11. \A u \in C : tk[u] # nx
  <2>1. SUFFICES ASSUME NEW u \in C, tk[u] = nx PROVE FALSE
    OBVIOUS
  <2>2. PICK k \in 0 .. n - 1 : tk[u] = (sv + k) % W
    BY <1>4
  <2>3. k \in 0 .. W - 1
    BY <1>2
  <2>4. (sv + k) % W = IF sv + k < W THEN sv + k ELSE sv + k - W
    BY <1>2, <1>4, <2>3, Kth
  <2> QED
    BY <1>2, <1>4, <1>5, <2>1, <2>2, <2>4
<1>12. \A u, w \in D : tk2[u] = tk2[w] => u = w
  BY <1>4, <1>11 DEF D
<1>13. Line(D, tk2, nx2, sv)
  <2>1. Cardinality(D) - 1 = n
    BY <1>2, <1>3
  <2> QED
    BY <1>3, <1>4, <1>6, <1>8, <1>10, <1>12, <2>1 DEF Line
<1> QED
  BY <1>6, <1>13 DEF D

\* gmk_spinlock_release: the thread being served leaves the line.
LEMMA Leaves ==
  ASSUME NEW C \in SUBSET Threads, NEW t \in C, NEW tk, NEW tk2, NEW nx, NEW sv,
         Line(C, tk, nx, sv), tk[t] = sv, \A u \in C \ {t} : tk2[u] = tk[u]
  PROVE  Line(C \ {t}, tk2, nx, (sv + 1) % W)
<1> DEFINE D == C \ {t}
           n == Cardinality(C)
<1>1. D \in SUBSET Threads
  OBVIOUS
<1>2. IsFiniteSet(C) /\ n \in 0 .. W - 1 /\ W \in Nat \ {0} /\ Cardinality(D) \in 0 .. W - 1
  BY <1>1, ThreadsFinite
<1>3. Cardinality(D) = n - 1
  BY <1>2, FS_RemoveElement
<1>4. /\ nx \in 0 .. W - 1 /\ sv \in 0 .. W - 1
      /\ {tk[u] : u \in C} = {(sv + k) % W : k \in 0 .. n - 1}
      /\ (nx - sv) % W = n
      /\ \A u, w \in C : tk[u] = tk[w] => u = w
  BY DEF Line
<1> HIDE DEF n, D
<1>5. nx = sv + n \/ nx = sv + n - W
  BY <1>2, <1>4, Distance
<1>6. PICK sv2 \in 0 .. W - 1 : sv2 = (sv + 1) % W /\ sv2 = IF sv + 1 = W THEN 0 ELSE sv + 1
  BY <1>2, <1>4, NextTicket
<1>7. n - 1 \in 0 .. W - 1
  BY <1>2, <1>3
<1>8. (nx - sv2) % W = n - 1
  <2>1. nx = sv2 + (n - 1) \/ nx = sv2 + (n - 1) - W
    BY <1>2, <1>4, <1>5, <1>6, <1>7
  <2> QED
    BY <1>2, <1>4, <1>6, <1>7, <2>1, Distance
<1>9. ASSUME NEW k \in 0 .. n - 1
      PROVE  (sv + k) % W = IF sv + k < W THEN sv + k ELSE sv + k - W
  <2>1. k \in 0 .. W - 1
    BY <1>2
  <2> QED
    BY <1>2, <1>4, <2>1, Kth
<1>10. ASSUME NEW k \in 0 .. n - 2
       PROVE  (sv2 + k) % W = (sv + (k + 1)) % W /\ k + 1 \in 0 .. n - 1
  <2>1. k \in 0 .. W - 1 /\ k + 1 \in 0 .. n - 1
    BY <1>2
  <2>2. (sv2 + k) % W = IF sv2 + k < W THEN sv2 + k ELSE sv2 + k - W
    BY <1>2, <1>6, <2>1, Kth
  <2>3. (sv + (k + 1)) % W = IF sv + (k + 1) < W THEN sv + (k + 1) ELSE sv + (k + 1) - W
    BY <1>9, <2>1
  <2> QED
    BY <1>2, <1>4, <1>6, <2>1, <2>2, <2>3
<1>11. {tk2[u] : u \in D} = {(sv2 + k) % W : k \in 0 .. n - 2}
  <2>1. ASSUME NEW u \in D PROVE tk2[u] \in {(sv2 + k) % W : k \in 0 .. n - 2}
    <3>1. u \in C /\ u # t /\ tk2[u] = tk[u]
      BY DEF D
    <3>2. PICK k \in 0 .. n - 1 : tk[u] = (sv + k) % W
      BY <1>4, <3>1
    <3>3. k # 0
      <4>1. k = 0 => (sv + k) % W = sv
        BY <1>2, <1>4, <1>9
      <4> QED
        BY <1>4, <3>1, <3>2, <4>1
    <3>4. k - 1 \in 0 .. n - 2 /\ (k - 1) + 1 = k
      BY <1>2, <3>3
    <3>5. (sv2 + (k - 1)) % W = (sv + k) % W
      BY <1>10, <3>4
    <3> QED
      BY <3>1, <3>2, <3>4, <3>5
  <2>2. ASSUME NEW k \in 0 .. n - 2 PROVE (sv2 + k) % W \in {tk2[u] : u \in D}
    <3> DEFINE j == k + 1
    <3>0. j \in 0 .. n - 1 /\ (sv2 + k) % W = (sv + j) % W
      BY <1>10
    <3> HIDE DEF j
    <3>1. PICK u \in C : tk[u] = (sv + j) % W
      BY <1>4, <3>0
    <3>2. u # t
      <4>1. (sv + j) % W # sv
        <5>1. (sv + j) % W = IF sv + j < W THEN sv + j ELSE sv + j - W
          BY <1>9, <3>0
        <5>2. j # 0
          BY <1>2 DEF j
        <5> QED
          BY <1>2, <1>4, <3>0, <5>1, <5>2
      <4> QED
        BY <3>1, <4>1
    <3> QED
      BY <3>0, <3>1, <3>2 DEF D
  <2> QED
    BY <2>1, <2>2
<1>12. \A u, w \in D : tk2[u] = tk2[w] => u = w
  BY <1>4 DEF D
<1>13. Line(D, tk2, nx, sv2)
  <2>1. Cardinality(D) - 1 = n - 2
    BY <1>2, <1>3
  <2> QED
    BY <1>3, <1>4, <1>6, <1>8, <1>11, <1>12, <2>1 DEF Line
<1> QED
  BY <1>6, <1>13 DEF D

-----------------------------------------------------------------------------
(* The layout of the arena *)

LEMMA PartSizes ==
  ASSUME NEW a \in ArenaSizes
  PROVE  /\ a \in Nat /\ TaskSize(a) \in Nat /\ TraceSize(a) \in Nat /\ BumpSize(a) \in Nat
         /\ BlockSize(a) \in Nat /\ BlockBase(a) \in Nat /\ BumpBase(a) \in Nat
         /\ BlockBase(a) = TaskSize(a) + TraceSize(a)
         /\ BumpBase(a) = BlockBase(a) + BlockSize(a)
         /\ BumpBase(a) + BumpSize(a) = a
<1>1. a \in Nat
  BY AllocatorAssumption
<1>2. PICK x \in Int : x = a * 10 /\ x = 10 * a
  BY <1>1
<1>3. PICK y \in Int : y = a * 2 /\ y = 2 * a
  BY <1>1
<1>4. PICK z \in Int : z = a * 20 /\ z = 20 * a
  BY <1>1
<1>5. x \div 100 \in Nat /\ 100 * (x \div 100) <= x
  BY <1>1, <1>2
<1>6. y \div 100 \in Nat /\ 100 * (y \div 100) <= y
  BY <1>1, <1>3
<1>7. z \div 100 \in Nat /\ 100 * (z \div 100) <= z
  BY <1>1, <1>4
<1>8. TaskSize(a) = x \div 100 /\ TraceSize(a) = y \div 100 /\ BumpSize(a) = z \div 100
  BY <1>2, <1>3, <1>4 DEF TaskSize, TraceSize, BumpSize
<1>9. (x \div 100) + (y \div 100) + (z \div 100) <= a
  BY <1>1, <1>2, <1>3, <1>4, <1>5, <1>6, <1>7
<1> QED
  BY <1>1, <1>5, <1>6, <1>7, <1>8, <1>9 DEF BlockSize, BlockBase, BumpBase

\* The bins lie one after the other in the block part.
LEMMA BinOrder ==
  ASSUME NEW a \in ArenaSizes
  PROVE  /\ BinStart(a, 0) = 0 /\ BinStart(a, 12) = BlockSize(a)
         /\ \A i \in 0 .. 12 : BinStart(a, i) \in Nat
         /\ \A i, j \in 0 .. 12 : i <= j => BinStart(a, i) <= BinStart(a, j)
<1> DEFINE S(w) == Share(a, w)
<1>1. PICK B \in Nat : B = BlockSize(a)
  BY PartSizes
<1>2. ASSUME NEW w \in Nat PROVE S(w) \in Nat /\ 60 * S(w) <= B * w
  <2>1. PICK m \in Nat : m = B * w
    BY <1>1
  <2>2. m \div 60 \in Nat /\ 60 * (m \div 60) <= m
    BY <2>1
  <2> QED
    BY <1>1, <2>1, <2>2 DEF Share
<1>3. /\ S(16) \in Nat /\ 60 * S(16) <= B * 16 /\ S(12) \in Nat /\ 60 * S(12) <= B * 12
      /\ S(8) \in Nat /\ 60 * S(8) <= B * 8 /\ S(6) \in Nat /\ 60 * S(6) <= B * 6
      /\ S(4) \in Nat /\ 60 * S(4) <= B * 4 /\ S(2) \in Nat /\ 60 * S(2) <= B * 2
  BY <1>2
<1>4. S(16) + S(12) + S(8) + S(6) + S(4) + 6 * S(2) <= B
  BY <1>1, <1>3
<1> HIDE DEF S
<1>5. /\ BinStart(a, 0) = 0
      /\ BinStart(a, 1) = S(16)
      /\ BinStart(a, 2) = S(16) + S(12)
      /\ BinStart(a, 3) = S(16) + S(12) + S(8)
      /\ BinStart(a, 4) = S(16) + S(12) + S(8) + S(6)
      /\ BinStart(a, 5) = S(16) + S(12) + S(8) + S(6) + S(4)
      /\ BinStart(a, 6) = S(16) + S(12) + S(8) + S(6) + S(4) + 1 * S(2)
      /\ BinStart(a, 7) = S(16) + S(12) + S(8) + S(6) + S(4) + 2 * S(2)
      /\ BinStart(a, 8) = S(16) + S(12) + S(8) + S(6) + S(4) + 3 * S(2)
      /\ BinStart(a, 9) = S(16) + S(12) + S(8) + S(6) + S(4) + 4 * S(2)
      /\ BinStart(a, 10) = S(16) + S(12) + S(8) + S(6) + S(4) + 5 * S(2)
      /\ BinStart(a, 11) = S(16) + S(12) + S(8) + S(6) + S(4) + 6 * S(2)
      /\ BinStart(a, 12) = B
  BY <1>1, <1>3 DEF BinStart, S
<1>6. /\ BinStart(a, 0) <= BinStart(a, 1) /\ BinStart(a, 1) <= BinStart(a, 2)
      /\ BinStart(a, 2) <= BinStart(a, 3) /\ BinStart(a, 3) <= BinStart(a, 4)
      /\ BinStart(a, 4) <= BinStart(a, 5) /\ BinStart(a, 5) <= BinStart(a, 6)
      /\ BinStart(a, 6) <= BinStart(a, 7) /\ BinStart(a, 7) <= BinStart(a, 8)
      /\ BinStart(a, 8) <= BinStart(a, 9) /\ BinStart(a, 9) <= BinStart(a, 10)
      /\ BinStart(a, 10) <= BinStart(a, 11) /\ BinStart(a, 11) <= BinStart(a, 12)
  BY <1>1, <1>3, <1>4, <1>5
<1>7. /\ BinStart(a, 0) \in Nat /\ BinStart(a, 1) \in Nat /\ BinStart(a, 2) \in Nat
      /\ BinStart(a, 3) \in Nat /\ BinStart(a, 4) \in Nat /\ BinStart(a, 5) \in Nat
      /\ BinStart(a, 6) \in Nat /\ BinStart(a, 7) \in Nat /\ BinStart(a, 8) \in Nat
      /\ BinStart(a, 9) \in Nat /\ BinStart(a, 10) \in Nat /\ BinStart(a, 11) \in Nat
      /\ BinStart(a, 12) \in Nat
  BY <1>1, <1>3, <1>5
<1>8. 0 .. 12 = {0, 1, 2, 3, 4, 5, 6, 7, 8, 9, 10, 11, 12}
  OBVIOUS
<1>9. \A i \in 0 .. 12 : BinStart(a, i) \in Nat
  BY <1>7, <1>8
<1>10. \A i, j \in 0 .. 12 : i <= j => BinStart(a, i) <= BinStart(a, j)
  <2>1. SUFFICES ASSUME NEW i \in 0 .. 12, NEW j \in 0 .. 12, i <= j
                 PROVE  BinStart(a, i) <= BinStart(a, j)
    OBVIOUS
  <2> QED
    BY <1>6, <1>7, <1>8, <2>1
<1> QED
  BY <1>1, <1>5, <1>9, <1>10

\* The first byte after a slab's memory.
SlabEnd(a, s) == Base(a, s) + TotalSize(a, s)

LEMMA ObjSizes ==
  /\ \A s \in Slabs : ObjSize(s) \in Nat \ {0}
  /\ ObjSize(Task) = TaskObj /\ \A s \in Bins : ObjSize(s) = BinSize(s)
<1>1. ObjSize(Task) = 48 /\ ObjSize(Trace) = 32
  BY DEF ObjSize, Task, Trace, TaskObj, Align8
<1>2. \A s \in Bins : ObjSize(s) = BinSize(s)
  BY DEF ObjSize, Bins, Task, Trace
<1>3. \A s \in Bins : BinSize(s) \in Nat \ {0}
  BY DEF BinSize, Bins
<1> QED
  BY <1>1, <1>2, <1>3 DEF Slabs, TaskObj

\* A slab's objects and its free list lie in its own part of the arena.
LEMMA SlabFits ==
  ASSUME NEW a \in ArenaSizes, NEW s \in Slabs
  PROVE  /\ Base(a, s) \in Nat /\ Capacity(a, s) \in Nat /\ TotalSize(a, s) \in Nat
         /\ ListBase(a, s) \in Nat
         /\ ListBase(a, s) = Base(a, s) + Capacity(a, s) * ObjSize(s)
         /\ ListBase(a, s) + 4 * Capacity(a, s) <= SlabEnd(a, s)
<1>1. Base(a, s) = BaseOf(a, s) /\ Capacity(a, s) = CapacityOf(a, s)
  BY DEF Base, Capacity, Layout
<1>2. /\ TaskSize(a) \in Nat /\ TraceSize(a) \in Nat /\ BlockBase(a) \in Nat
  BY PartSizes
<1>3. s \in Bins => /\ BinStart(a, s) \in Nat /\ BinStart(a, s + 1) \in Nat
                     /\ BinStart(a, s) <= BinStart(a, s + 1)
  <2>1. s \in Bins => s \in 0 .. 12 /\ s + 1 \in 0 .. 12 /\ s <= s + 1
    BY DEF Bins
  <2> QED
    BY <2>1, BinOrder
<1>4. BaseOf(a, s) \in Nat /\ TotalSize(a, s) \in Nat
  <2>1. CASE s = Task
    BY <1>2, <2>1 DEF BaseOf, TotalSize
  <2>2. CASE s = Trace
    BY <1>2, <2>2 DEF BaseOf, TotalSize, Task, Trace
  <2>3. CASE s \in Bins
    <3>1. s # Task /\ s # Trace
      BY <2>3 DEF Bins, Task, Trace
    <3> QED
      BY <1>2, <1>3, <2>3, <3>1 DEF BaseOf, TotalSize
  <2> QED
    BY <2>1, <2>2, <2>3 DEF Slabs
<1>5. PICK n \in Nat \ {0} : n = ObjSize(s)
  BY ObjSizes
<1>6. PICK T \in Nat : T = TotalSize(a, s)
  BY <1>4
<1>7. PICK c \in Nat : c = T \div (n + 4)
  BY <1>5, <1>6
<1>8. (n + 4) * c <= T
  <2>1. T = (n + 4) * (T \div (n + 4)) + (T % (n + 4)) /\ T % (n + 4) >= 0
    BY <1>5, <1>6
  <2> QED
    BY <1>5, <1>6, <1>7, <2>1
<1>9. Capacity(a, s) = c
  BY <1>1, <1>5, <1>6, <1>7 DEF CapacityOf
<1>10. (n + 4) * c = c * n + 4 * c /\ c * n \in Nat
  BY <1>5, <1>7
<1> QED
  BY <1>1, <1>4, <1>5, <1>6, <1>8, <1>9, <1>10 DEF ListBase, SlabEnd

\* The parts of two slabs are disjoint, below the bump region, and in the parts
\* of the arena by which gmk_free tells them apart.
LEMMA SlabsApart ==
  ASSUME NEW a \in ArenaSizes, NEW s \in Slabs
  PROVE  /\ s = Task => SlabEnd(a, s) = TaskSize(a)
         /\ s # Task => Base(a, s) >= TaskSize(a)
         /\ s = Trace => SlabEnd(a, s) = BlockBase(a)
         /\ s \in Bins => Base(a, s) >= BlockBase(a)
         /\ SlabEnd(a, s) <= BumpBase(a)
         /\ \A r \in Slabs : r # s => \/ SlabEnd(a, s) <= Base(a, r)
                                       \/ SlabEnd(a, r) <= Base(a, s)
<1>1. \A r \in Slabs : Base(a, r) = BaseOf(a, r)
  BY DEF Base, Layout
<1>2. /\ TaskSize(a) \in Nat /\ TraceSize(a) \in Nat /\ BlockBase(a) \in Nat /\ BlockSize(a) \in Nat
      /\ BlockBase(a) = TaskSize(a) + TraceSize(a) /\ BumpBase(a) = BlockBase(a) + BlockSize(a)
  BY PartSizes
<1>3. Base(a, Task) = 0 /\ SlabEnd(a, Task) = TaskSize(a)
  BY <1>1, <1>2 DEF BaseOf, TotalSize, SlabEnd, Slabs, Task, Trace
<1>4. Base(a, Trace) = TaskSize(a) /\ SlabEnd(a, Trace) = BlockBase(a)
  BY <1>1, <1>2 DEF BaseOf, TotalSize, SlabEnd, Slabs, Task, Trace
<1>5. ASSUME NEW r \in Bins
      PROVE  /\ r \in 0 .. 12 /\ r + 1 \in 0 .. 12
             /\ BinStart(a, r) \in Nat /\ BinStart(a, r + 1) \in Nat
             /\ Base(a, r) = BlockBase(a) + BinStart(a, r)
             /\ SlabEnd(a, r) = BlockBase(a) + BinStart(a, r + 1)
             /\ BinStart(a, r + 1) <= BlockSize(a)
  <2>1. r \in Slabs /\ r # Task /\ r # Trace /\ r \in 0 .. 12 /\ r + 1 \in 0 .. 12
        /\ r + 1 <= 12 /\ 12 \in 0 .. 12
    BY DEF Slabs, Bins, Task, Trace
  <2>2. /\ BinStart(a, r) \in Nat /\ BinStart(a, r + 1) \in Nat
        /\ BinStart(a, r + 1) <= BlockSize(a)
    BY <2>1, BinOrder
  <2>3. Base(a, r) = BlockBase(a) + BinStart(a, r)
    BY <1>1, <2>1 DEF BaseOf
  <2>4. TotalSize(a, r) = BinStart(a, r + 1) - BinStart(a, r)
    BY <2>1 DEF TotalSize
  <2> QED
    BY <1>2, <2>1, <2>2, <2>3, <2>4 DEF SlabEnd
<1>6. ASSUME NEW q \in Bins, NEW r \in Bins, q # r
      PROVE  SlabEnd(a, q) <= Base(a, r) \/ SlabEnd(a, r) <= Base(a, q)
  <2>1. CASE q < r
    <3>1. q + 1 <= r
      BY <2>1 DEF Bins
    <3>2. BinStart(a, q + 1) <= BinStart(a, r)
      BY <1>5, <3>1, BinOrder
    <3> QED
      BY <1>2, <1>5, <3>2
  <2>2. CASE r < q
    <3>1. r + 1 <= q
      BY <2>2 DEF Bins
    <3>2. BinStart(a, r + 1) <= BinStart(a, q)
      BY <1>5, <3>1, BinOrder
    <3> QED
      BY <1>2, <1>5, <3>2
  <2> QED
    BY <1>6, <2>1, <2>2 DEF Bins
<1>7. Task \notin Bins /\ Trace \notin Bins /\ Task # Trace
  BY DEF Task, Trace, Bins
<1>8. CASE s = Task
  BY <1>2, <1>3, <1>4, <1>5, <1>7, <1>8 DEF Slabs
<1>9. CASE s = Trace
  BY <1>2, <1>3, <1>4, <1>5, <1>7, <1>9 DEF Slabs
<1>10. CASE s \in Bins
  BY <1>2, <1>3, <1>4, <1>5, <1>6, <1>7, <1>10 DEF Slabs
<1> QED
  BY <1>8, <1>9, <1>10 DEF Slabs

\* bin_index finds a bin whose objects hold the size.
LEMMA BinFits ==
  ASSUME NEW size \in Nat \ {0}, size <= BlockMax
  PROVE  bin_index(size) \in Bins /\ size <= BinSize(bin_index(size))
<1>1. \E i \in Bins : size <= BinSize(i) /\ (i = 0 \/ size > BinSize(i - 1))
  <2>1. size <= 65536
    BY DEF BlockMax
  <2>2. /\ BinSize(0) = 32 /\ BinSize(1) = 64 /\ BinSize(2) = 128 /\ BinSize(3) = 256
        /\ BinSize(4) = 512 /\ BinSize(5) = 1024 /\ BinSize(6) = 2048 /\ BinSize(7) = 4096
        /\ BinSize(8) = 8192 /\ BinSize(9) = 16384 /\ BinSize(10) = 32768 /\ BinSize(11) = 65536
    BY DEF BinSize
  <2>3. CASE size <= 32
    BY <2>2, <2>3 DEF Bins
  <2>4. CASE size > 32 /\ size <= 64
    BY <2>2, <2>4 DEF Bins
  <2>5. CASE size > 64 /\ size <= 128
    BY <2>2, <2>5 DEF Bins
  <2>6. CASE size > 128 /\ size <= 256
    BY <2>2, <2>6 DEF Bins
  <2>7. CASE size > 256 /\ size <= 512
    BY <2>2, <2>7 DEF Bins
  <2>8. CASE size > 512 /\ size <= 1024
    BY <2>2, <2>8 DEF Bins
  <2>9. CASE size > 1024 /\ size <= 2048
    BY <2>2, <2>9 DEF Bins
  <2>10. CASE size > 2048 /\ size <= 4096
    BY <2>2, <2>10 DEF Bins
  <2>11. CASE size > 4096 /\ size <= 8192
    BY <2>2, <2>11 DEF Bins
  <2>12. CASE size > 8192 /\ size <= 16384
    BY <2>2, <2>12 DEF Bins
  <2>13. CASE size > 16384 /\ size <= 32768
    BY <2>2, <2>13 DEF Bins
  <2>14. CASE size > 32768 /\ size <= 65536
    BY <2>2, <2>14 DEF Bins
  <2> QED
    BY <2>1, <2>3, <2>4, <2>5, <2>6, <2>7, <2>8, <2>9, <2>10, <2>11, <2>12, <2>13, <2>14
<1>2. ~(size > BlockMax)
  BY DEF BlockMax
<1> QED
  BY <1>1, <1>2 DEF bin_index

\* The slab that gmk_block_alloc asks for a size, if any.
LEMMA BlockBinFits ==
  ASSUME NEW a, NEW size \in Nat \ {0}, BlockBin(a, size) # None
  PROVE  /\ BlockBin(a, size) \in Bins /\ BlockBin(a, size) \in Slabs
         /\ size <= ObjSize(BlockBin(a, size))
<1>1. bin_index(size) # -1 /\ BlockBin(a, size) = bin_index(size)
  BY DEF BlockBin
<1>2. size <= BlockMax
  BY <1>1 DEF bin_index, BlockMax
<1>3. bin_index(size) \in Bins /\ size <= BinSize(bin_index(size))
  BY <1>2, BinFits
<1> QED
  BY <1>1, <1>3, ObjSizes DEF Slabs

\* Where gmk_slab_alloc puts object i of slab s.
ObjectAt(a, s, i) == Base(a, s) + i * ObjSize(s)

\* gmk_slab_free finds an object's index again.
LEMMA ObjectIn ==
  ASSUME NEW a \in ArenaSizes, NEW s \in Slabs, NEW i \in 0 .. Capacity(a, s) - 1
  PROVE  /\ ObjectAt(a, s, i) \in Nat /\ Base(a, s) <= ObjectAt(a, s, i)
         /\ ObjectAt(a, s, i) + ObjSize(s) <= ListBase(a, s)
         /\ IndexIn(a, s, ObjectAt(a, s, i)) = i /\ Mine(a, s, ObjectAt(a, s, i))
<1>1. PICK n \in Nat \ {0} : n = ObjSize(s)
  BY ObjSizes
<1>2. /\ Base(a, s) \in Nat /\ Capacity(a, s) \in Nat
      /\ ListBase(a, s) = Base(a, s) + Capacity(a, s) * n
  BY <1>1, SlabFits
<1>3. PICK c \in Nat : c = Capacity(a, s) /\ i \in 0 .. c - 1
  BY <1>2
<1>4. PICK d \in Nat : c = i + 1 + d
  <2>1. c - i - 1 \in Nat /\ c = i + 1 + (c - i - 1)
    BY <1>3
  <2> QED
    BY <2>1
<1>5. i \in Nat /\ i * n \in Nat /\ d * n \in Nat /\ c * n = i * n + n + d * n
  <2>1. i \in Nat /\ i * n \in Nat /\ d * n \in Nat
    BY <1>1, <1>3, <1>4
  <2>2. (i + 1 + d) * n = i * n + n + d * n
    BY <1>1, <1>4, <2>1
  <2> QED
    BY <1>4, <2>1, <2>2
<1>6. (i * n) \div n = i
  <2>1. PICK m \in Int : m = i * n
    BY <1>5
  <2>2. m = n * (m \div n) + (m % n) /\ m % n \in 0 .. n - 1 /\ m \div n \in Int
    BY <1>1, <2>1
  <2>3. PICK q \in Int, r \in 0 .. n - 1 : q = m \div n /\ r = m % n /\ m = n * q + r
    BY <2>2
  <2>4. n * (i - q) = r
    <3>1. n * (i - q) = n * i - n * q /\ n * i = i * n /\ n * q \in Int
      BY <1>1, <1>5
    <3> QED
      BY <1>1, <1>5, <2>1, <2>3, <3>1
  <2>5. i - q = 0
    <3>1. PICK k \in Int : k = i - q
      BY <1>1, <1>5
    <3>2. (k >= 1 => n * k >= n) /\ (k <= -1 => n * k <= -n)
      BY <1>1
    <3> QED
      BY <1>1, <2>4, <3>1, <3>2
  <2> QED
    BY <1>5, <2>1, <2>3, <2>5
<1>7. ObjectAt(a, s, i) = Base(a, s) + i * n /\ ObjectAt(a, s, i) - Base(a, s) = i * n
  BY <1>1, <1>2, <1>5 DEF ObjectAt
<1>8. IndexIn(a, s, ObjectAt(a, s, i)) = i
  BY <1>1, <1>6, <1>7 DEF IndexIn
<1> QED
  BY <1>1, <1>2, <1>3, <1>4, <1>5, <1>7, <1>8 DEF Mine

\* gmk_free finds the slab that gmk_alloc took the object from.
LEMMA OwnerFound ==
  ASSUME NEW a \in ArenaSizes, NEW s \in Slabs, NEW i \in 0 .. Capacity(a, s) - 1, NEW size,
         s = Task \/ (s \in Bins /\ s = BlockBin(a, size))
  PROVE  OwnerOf(a, ObjectAt(a, s, i), size) = s
<1> DEFINE p == ObjectAt(a, s, i)
<1>1. /\ p \in Nat /\ Base(a, s) <= p /\ p + ObjSize(s) <= ListBase(a, s)
  BY ObjectIn
<1>2. /\ Base(a, s) \in Nat /\ Capacity(a, s) \in Nat /\ ListBase(a, s) \in Nat
      /\ ListBase(a, s) + 4 * Capacity(a, s) <= SlabEnd(a, s) /\ TotalSize(a, s) \in Nat
  BY SlabFits
<1>3. ObjSize(s) \in Nat \ {0}
  BY ObjSizes
<1>4. SlabEnd(a, s) \in Nat
  BY <1>2 DEF SlabEnd
<1>5. p < SlabEnd(a, s)
  BY <1>1, <1>2, <1>3, <1>4
<1>6. /\ TaskSize(a) \in Nat /\ TraceSize(a) \in Nat /\ BlockBase(a) \in Nat /\ BumpBase(a) \in Nat
      /\ BlockBase(a) = TaskSize(a) + TraceSize(a)
  BY PartSizes
<1>7. CASE s = Task
  <2>1. SlabEnd(a, s) = TaskSize(a)
    BY <1>7, SlabsApart
  <2> QED
    BY <1>1, <1>5, <1>6, <1>7, <2>1 DEF OwnerOf
<1>8. CASE s \in Bins /\ s = BlockBin(a, size)
  <2>1. Base(a, s) >= BlockBase(a) /\ SlabEnd(a, s) <= BumpBase(a)
    BY <1>8, SlabsApart
  <2>2. p >= BlockBase(a) /\ p < BumpBase(a) /\ ~(p < TaskSize(a))
    BY <1>1, <1>2, <1>4, <1>5, <1>6, <2>1
  <2> QED
    BY <1>1, <1>6, <1>8, <2>2 DEF OwnerOf
<1> QED
  BY <1>7, <1>8

\* Two objects share no byte, and neither lies over a free list or in the bump
\* region.
LEMMA ObjectsApart ==
  ASSUME NEW a \in ArenaSizes, NEW s \in Slabs, NEW i \in 0 .. Capacity(a, s) - 1,
         NEW size \in Nat, size <= ObjSize(s)
  PROVE  /\ \A r \in Slabs : \A j \in 0 .. Capacity(a, r) - 1 : \A m \in Nat :
              m <= ObjSize(r) /\ ~(s = r /\ i = j) =>
                \/ ObjectAt(a, s, i) + size <= ObjectAt(a, r, j)
                \/ ObjectAt(a, r, j) + m <= ObjectAt(a, s, i)
         /\ \A r \in Slabs : \/ ObjectAt(a, s, i) + size <= ListBase(a, r)
                              \/ ListBase(a, r) + 4 * Capacity(a, r) <= ObjectAt(a, s, i)
         /\ ObjectAt(a, s, i) + size <= BumpBase(a)
<1> DEFINE p == ObjectAt(a, s, i)
<1>1. ASSUME NEW r \in Slabs, NEW j \in 0 .. Capacity(a, r) - 1
      PROVE  /\ ObjectAt(a, r, j) \in Nat /\ Base(a, r) <= ObjectAt(a, r, j)
             /\ ObjectAt(a, r, j) + ObjSize(r) <= ListBase(a, r)
  BY ObjectIn
<1>2. ASSUME NEW r \in Slabs
      PROVE  /\ Base(a, r) \in Nat /\ Capacity(a, r) \in Nat /\ ListBase(a, r) \in Nat
             /\ ListBase(a, r) + 4 * Capacity(a, r) <= SlabEnd(a, r) /\ SlabEnd(a, r) \in Nat
             /\ ObjSize(r) \in Nat \ {0} /\ SlabEnd(a, r) <= BumpBase(a)
             /\ BumpBase(a) \in Nat /\ Base(a, r) <= ListBase(a, r)
  <2>1. /\ Base(a, r) \in Nat /\ Capacity(a, r) \in Nat /\ ListBase(a, r) \in Nat
        /\ ListBase(a, r) + 4 * Capacity(a, r) <= SlabEnd(a, r) /\ TotalSize(a, r) \in Nat
        /\ ListBase(a, r) = Base(a, r) + Capacity(a, r) * ObjSize(r)
    BY SlabFits
  <2>2. ObjSize(r) \in Nat \ {0}
    BY ObjSizes
  <2>3. Capacity(a, r) * ObjSize(r) \in Nat
    BY <2>1, <2>2
  <2> QED
    BY <2>1, <2>2, <2>3, SlabsApart, PartSizes DEF SlabEnd
<1>3. ASSUME NEW r \in Slabs, r # s
      PROVE  SlabEnd(a, s) <= Base(a, r) \/ SlabEnd(a, r) <= Base(a, s)
  BY <1>3, SlabsApart
<1>4. p \in Nat /\ Base(a, s) <= p /\ p + ObjSize(s) <= ListBase(a, s)
  BY <1>1
<1> HIDE DEF p
<1>5. ASSUME NEW r \in Slabs, NEW j \in 0 .. Capacity(a, r) - 1, NEW m \in Nat,
             m <= ObjSize(r), ~(s = r /\ i = j)
      PROVE  p + size <= ObjectAt(a, r, j) \/ ObjectAt(a, r, j) + m <= p
  <2>1. CASE r # s
    <3>1. /\ ObjectAt(a, r, j) \in Nat /\ Base(a, r) <= ObjectAt(a, r, j)
          /\ ObjectAt(a, r, j) + ObjSize(r) <= ListBase(a, r)
      BY <1>1
    <3>2. p + size <= SlabEnd(a, s) /\ ObjectAt(a, r, j) + m <= SlabEnd(a, r)
      BY <1>2, <1>4, <1>5, <3>1
    <3> QED
      BY <1>2, <1>3, <1>4, <1>5, <2>1, <3>1, <3>2
  <2>2. CASE r = s
    <3>1. PICK n \in Nat \ {0} : n = ObjSize(s)
      BY <1>2
    <3>2. /\ i \in Nat /\ j \in Nat /\ i # j
      BY <1>2, <1>5, <2>2
    <3>3. /\ p = Base(a, s) + i * n /\ ObjectAt(a, r, j) = Base(a, s) + j * n
      BY <2>2, <3>1 DEF p, ObjectAt
    <3>4. i < j => i * n + n <= j * n
      <4>1. SUFFICES ASSUME i < j PROVE i * n + n <= j * n
        OBVIOUS
      <4>2. PICK d \in Nat : j = i + 1 + d
        <5>1. j - i - 1 \in Nat /\ j = i + 1 + (j - i - 1)
          BY <3>2, <4>1
        <5> QED
          BY <5>1
      <4>3. (i + 1 + d) * n = i * n + n + d * n /\ d * n \in Nat /\ i * n \in Nat
        BY <3>1, <3>2
      <4> QED
        BY <3>1, <4>2, <4>3
    <3>5. j < i => j * n + n <= i * n
      <4>1. SUFFICES ASSUME j < i PROVE j * n + n <= i * n
        OBVIOUS
      <4>2. PICK d \in Nat : i = j + 1 + d
        <5>1. i - j - 1 \in Nat /\ i = j + 1 + (i - j - 1)
          BY <3>2, <4>1
        <5> QED
          BY <5>1
      <4>3. (j + 1 + d) * n = j * n + n + d * n /\ d * n \in Nat /\ j * n \in Nat
        BY <3>1, <3>2
      <4> QED
        BY <3>1, <4>2, <4>3
    <3>6. i * n \in Nat /\ j * n \in Nat
      BY <3>1, <3>2
    <3> QED
      BY <1>2, <1>5, <2>2, <3>1, <3>2, <3>3, <3>4, <3>5, <3>6
  <2> QED
    BY <2>1, <2>2
<1>6. ASSUME NEW r \in Slabs
      PROVE  p + size <= ListBase(a, r) \/ ListBase(a, r) + 4 * Capacity(a, r) <= p
  <2>1. CASE r = s
    BY <1>2, <1>4, <2>1
  <2>2. CASE r # s
    BY <1>2, <1>3, <1>4, <2>2
  <2> QED
    BY <2>1, <2>2
<1>7. p + size <= BumpBase(a)
  BY <1>2, <1>4
<1> QED
  BY <1>5, <1>6, <1>7 DEF p

-----------------------------------------------------------------------------
(* The inductive invariant *)

Fields == {"op", "s", "size", "idx", "ticket"}
Slots == {"free_head", "free_list", "alloc_count"}

ShapeInv ==
  /\ arena \in ArenaSizes
  /\ DOMAIN pc = Threads /\ DOMAIN loc = Threads /\ DOMAIN held = Threads
  /\ DOMAIN next = Slabs /\ DOMAIN serving = Slabs /\ DOMAIN slab = Slabs
  /\ \A t \in Threads : DOMAIN loc[t] = Fields
  /\ \A s \in Slabs : DOMAIN slab[s] = Slots

\* The lines before the slabs' locks.
Tickets == [t \in Threads |-> loc[t].ticket]
LockInv ==
  \A s \in Slabs :
    /\ Line(Contenders(s), Tickets, next[s], serving[s])
    /\ \A t \in Contenders(s) : Inside(t) => loc[t].ticket = serving[s]

\* The slab asked for an object suits its size.
Suits(s, size) == \/ s = Task /\ size = TaskObj
                  \/ s \in Bins /\ s = BlockBin(arena, size)

\* What a thread in a call has in its locals.
CallInv(t) ==
  /\ pc[t] \in {"idle", "spin", "unlink", "push", "release", "retry", "rollback"}
  /\ pc[t] \in {"spin", "unlink", "push", "release", "retry"} =>
       /\ loc[t].s \in Slabs /\ loc[t].op \in {"alloc", "free"}
       /\ loc[t].idx \in -1 .. Capacity(arena, loc[t].s) - 1
       /\ loc[t].op = "alloc" => loc[t].size \in Nat \ {0} /\ Suits(loc[t].s, loc[t].size)
       /\ loc[t].op = "free" => loc[t].idx >= 0
  /\ pc[t] = "spin" /\ loc[t].op = "alloc" => loc[t].idx = -1
  /\ pc[t] = "unlink" => /\ loc[t].op = "alloc" /\ loc[t].idx >= 0
                          /\ loc[t].idx = slab[loc[t].s].free_head
  /\ pc[t] = "push" => /\ loc[t].op = "free"
                        /\ slab[loc[t].s].free_list[loc[t].idx] = slab[loc[t].s].free_head
  /\ pc[t] = "retry" => /\ loc[t].op = "alloc" /\ loc[t].idx = -1
                         /\ BlockBin(arena, loc[t].size) # None

\* The objects of slab s that t has: in blocks it holds, and in its hand between
\* the list and its caller.
InHand(t) == \/ loc[t].op = "alloc" /\ pc[t] = "release" /\ loc[t].idx >= 0
             \/ loc[t].op = "free" /\ pc[t] \in {"spin", "push"}
HandOf(t, s) == {i \in {loc[t].idx} : loc[t].s = s /\ InHand(t)}
HeldOf(t, s) == {IndexIn(arena, s, b.ptr) : b \in {c \in held[t] : OwnerOf(arena, c.ptr, c.size) = s}}
Owned(t, s) == HeldOf(t, s) \cup HandOf(t, s)
FreeObjs(s) == {i \in 0 .. Capacity(arena, s) - 1 :
                  i \notin Kept(arena, s) /\ \A t \in Threads : i \notin Owned(t, s)}

\* A block is an object of the slab that gmk_free will find.
BlockOK(b) == LET s == OwnerOf(arena, b.ptr, b.size)
                  i == IndexIn(arena, s, b.ptr)
              IN /\ s \in Slabs /\ i \in 0 .. Capacity(arena, s) - 1
                 /\ b.ptr = ObjectAt(arena, s, i)
                 /\ b.size \in Nat \ {0} /\ b.size <= ObjSize(s)
SamePlace(b, c) == LET s == OwnerOf(arena, b.ptr, b.size)
                   IN /\ OwnerOf(arena, c.ptr, c.size) = s
                      /\ IndexIn(arena, s, b.ptr) = IndexIn(arena, s, c.ptr)

\* No object has two owners.
OwnInv ==
  /\ \A t \in Threads : \A b \in held[t] : BlockOK(b)
  /\ \A t \in Threads : \A b, c \in held[t] : SamePlace(b, c) => b = c
  /\ \A s \in Slabs : \A t \in Threads :
       /\ HeldOf(t, s) \cap HandOf(t, s) = {}
       /\ Owned(t, s) \subseteq 0 .. Capacity(arena, s) - 1
       /\ Owned(t, s) \cap Kept(arena, s) = {}
       /\ \A u \in Threads : u # t => Owned(t, s) \cap Owned(u, s) = {}

\* Nothing smaller than F with the end of the list is closed under the links
\* from h on: they reach all of it.
Whole(F, h, link) ==
  \A C \in SUBSET (F \cup {-1}) :
    h \in C /\ (\A i \in C \ {-1} : link[i] \in C) => C = F \cup {-1}

\* The free list links free objects, each from at most one place, and all of them.
ListInv(s) ==
  LET n == Capacity(arena, s)
      head == slab[s].free_head
      link == slab[s].free_list
  IN /\ head \in FreeObjs(s) \cup {-1}
     /\ link \in [0 .. n - 1 -> -1 .. n - 1]
     /\ \A i \in FreeObjs(s) : link[i] \in FreeObjs(s) \cup {-1}
     /\ \A i \in FreeObjs(s) : link[i] # -1 => link[i] # head
     /\ \A i, j \in FreeObjs(s) : link[i] # -1 /\ link[i] = link[j] => i = j
     /\ Whole(FreeObjs(s), head, link)
     /\ slab[s].alloc_count \in Int
     /\ slab[s].alloc_count + Cardinality(FreeObjs(s)) = n

SlabInv == /\ ShapeInv /\ LockInv /\ OwnInv
           /\ \A t \in Threads : CallInv(t)
           /\ \A s \in Slabs : ListInv(s)

-----------------------------------------------------------------------------
(* Steps of the lock *)

\* Nobody joins or leaves a line; whoever enters is being served.
LEMMA LockKeep ==
  ASSUME ShapeInv, LockInv, UNCHANGED <<next, serving>>, NEW t \in Threads,
         \A u \in Threads : u # t => pc'[u] = pc[u] /\ loc'[u] = loc[u],
         \/ /\ pc[t] \notin {"spin", "unlink", "push", "release"}
            /\ pc'[t] \notin {"spin", "unlink", "push", "release"}
         \/ /\ pc[t] \in {"spin", "unlink", "push", "release"}
            /\ pc'[t] \in {"spin", "unlink", "push", "release"}
            /\ loc'[t].s = loc[t].s /\ loc'[t].ticket = loc[t].ticket
            /\ pc[t] = "spin" => serving[loc[t].s] = loc[t].ticket
  PROVE  LockInv'
<1>1. ASSUME NEW s \in Slabs
      PROVE  /\ Line(Contenders(s), Tickets, next[s], serving[s])'
             /\ \A u \in Contenders(s)' : Inside(u)' => loc'[u].ticket = serving'[s]
  <2>1. Contenders(s)' = Contenders(s)
    BY DEF Contenders, Waiting, Inside
  <2>2. \A u \in Contenders(s) : Tickets'[u] = Tickets[u]
    BY DEF Contenders, Waiting, Inside, Tickets
  <2>3. Line(Contenders(s), Tickets, next[s], serving[s])
    BY DEF LockInv
  <2>4. Line(Contenders(s), Tickets', next[s], serving[s])
    <3>1. {Tickets'[u] : u \in Contenders(s)} = {Tickets[u] : u \in Contenders(s)}
      BY <2>2
    <3> QED
      BY <2>2, <2>3, <3>1 DEF Line
  <2>5. \A u \in Contenders(s)' : Inside(u)' => loc'[u].ticket = serving'[s]
    <3>1. \A u \in Contenders(s) : Inside(u) => loc[u].ticket = serving[s]
      BY DEF LockInv
    <3> QED
      BY <2>1, <3>1 DEF Contenders, Waiting, Inside
  <2> QED
    BY <2>1, <2>4, <2>5
<1> QED
  BY <1>1 DEF LockInv

LEMMA LockTake ==
  ASSUME ShapeInv, LockInv, NEW t \in Threads, pc[t] \notin {"spin", "unlink", "push", "release"},
         NEW call, DOMAIN call = Fields, call.s \in Slabs,
         TakeTicket(t, call), serving' = serving
  PROVE  /\ LockInv' /\ DOMAIN next' = Slabs /\ DOMAIN pc' = Threads /\ DOMAIN loc' = Threads
         /\ pc'[t] = "spin" /\ loc'[t] = [call EXCEPT !.ticket = next[call.s]]
         /\ \A u \in Threads : u # t => pc'[u] = pc[u] /\ loc'[u] = loc[u]
<1>1. /\ DOMAIN next' = Slabs /\ DOMAIN pc' = Threads /\ DOMAIN loc' = Threads
      /\ pc'[t] = "spin" /\ loc'[t] = [call EXCEPT !.ticket = next[call.s]]
      /\ \A u \in Threads : u # t => pc'[u] = pc[u] /\ loc'[u] = loc[u]
  BY DEF TakeTicket, Goto, ShapeInv
<1>2. loc'[t].s = call.s /\ loc'[t].ticket = next[call.s]
  BY <1>1 DEF Fields
<1>3. next'[call.s] = (next[call.s] + 1) % W /\ \A s \in Slabs : s # call.s => next'[s] = next[s]
  BY DEF TakeTicket, ShapeInv
<1>4. ASSUME NEW s \in Slabs
      PROVE  /\ Line(Contenders(s), Tickets, next[s], serving[s])'
             /\ \A u \in Contenders(s)' : Inside(u)' => loc'[u].ticket = serving'[s]
  <2>1. Line(Contenders(s), Tickets, next[s], serving[s])
        /\ \A u \in Contenders(s) : Inside(u) => loc[u].ticket = serving[s]
    BY DEF LockInv
  <2>2. \A u \in Contenders(s) : u # t /\ Tickets'[u] = Tickets[u]
    BY <1>1 DEF Contenders, Waiting, Inside, Tickets
  <2>3. \A u \in Contenders(s)' : Inside(u)' => loc'[u].ticket = serving'[s]
    BY <1>1, <2>1 DEF Contenders, Waiting, Inside
  <2>4. CASE s # call.s
    <3>1. Contenders(s)' = Contenders(s)
      BY <1>1, <1>2, <2>4 DEF Contenders, Waiting, Inside
    <3>2. {Tickets'[u] : u \in Contenders(s)} = {Tickets[u] : u \in Contenders(s)}
      BY <2>2
    <3>3. Line(Contenders(s), Tickets', next[s], serving[s])
      BY <2>1, <2>2, <3>2 DEF Line
    <3> QED
      BY <1>3, <2>3, <2>4, <3>1, <3>3
  <2>5. CASE s = call.s
    <3>1. Contenders(s)' = Contenders(s) \cup {t}
      BY <1>1, <1>2, <2>5 DEF Contenders, Waiting, Inside
    <3>2. Tickets'[t] = next[s] /\ Contenders(s) \in SUBSET Threads /\ t \in Threads \ Contenders(s)
      BY <1>2, <2>2, <2>5 DEF Tickets, Contenders
    <3>3. Line(Contenders(s) \cup {t}, Tickets', (next[s] + 1) % W, serving[s])
      BY <2>1, <2>2, <3>2, Joins, ZenonT(60)
    <3> QED
      BY <1>3, <2>3, <2>5, <3>1, <3>3
  <2> QED
    BY <2>4, <2>5
<1>5. LockInv'
  BY <1>4 DEF LockInv
<1> QED
  BY <1>1, <1>5

LEMMA LockLeave ==
  ASSUME ShapeInv, LockInv, NEW t \in Threads, loc[t].s \in Slabs, Unlock(t), next' = next,
         pc'[t] \notin {"spin", "unlink", "push", "release"},
         \A u \in Threads : u # t => pc'[u] = pc[u] /\ loc'[u] = loc[u]
  PROVE  LockInv' /\ DOMAIN serving' = Slabs
<1> DEFINE r == loc[t].s
<1>1. /\ pc[t] = "release" /\ DOMAIN serving' = Slabs
      /\ serving'[r] = (serving[r] + 1) % W /\ \A s \in Slabs : s # r => serving'[s] = serving[s]
  BY DEF Unlock, ShapeInv
<1>2. ASSUME NEW s \in Slabs
      PROVE  /\ Line(Contenders(s), Tickets, next[s], serving[s])'
             /\ \A u \in Contenders(s)' : Inside(u)' => loc'[u].ticket = serving'[s]
  <2>1. Line(Contenders(s), Tickets, next[s], serving[s])
        /\ \A u \in Contenders(s) : Inside(u) => loc[u].ticket = serving[s]
    BY DEF LockInv
  <2>2. Contenders(s)' = Contenders(s) \ {t}
    BY DEF Contenders, Waiting, Inside
  <2>3. \A u \in Contenders(s) \ {t} : Tickets'[u] = Tickets[u]
    BY DEF Contenders, Tickets
  <2>4. \A u \in Contenders(s)' : Inside(u)' => Inside(u) /\ u \in Contenders(s) /\ loc'[u] = loc[u]
    BY DEF Contenders, Waiting, Inside
  <2>5. CASE s # r
    <3>1. t \notin Contenders(s)
      BY <2>5 DEF Contenders
    <3>2. Contenders(s)' = Contenders(s)
      BY <2>2, <3>1
    <3>3. {Tickets'[u] : u \in Contenders(s)} = {Tickets[u] : u \in Contenders(s)}
      BY <2>3, <3>1
    <3>4. Line(Contenders(s), Tickets', next[s], serving[s])
      BY <2>1, <2>3, <3>1, <3>3 DEF Line
    <3>5. Line(Contenders(s), Tickets, next[s], serving[s])'
      BY <1>1, <2>5, <3>2, <3>4
    <3> QED
      BY <1>1, <2>1, <2>4, <2>5, <3>5
  <2>6. CASE s = r
    <3>1. t \in Contenders(s) /\ Inside(t) /\ Contenders(s) \in SUBSET Threads
      BY <1>1, <2>6 DEF Contenders, Inside
    <3>2. Tickets[t] = serving[s]
      BY <2>1, <3>1 DEF Tickets
    <3>3. Line(Contenders(s) \ {t}, Tickets', next[s], (serving[s] + 1) % W)
      BY <2>1, <2>3, <3>1, <3>2, Leaves, ZenonT(60)
    <3>4. ASSUME NEW u \in Contenders(s)', Inside(u)' PROVE FALSE
      <4>1. u \in Contenders(s) /\ u # t /\ loc[u].ticket = serving[s]
        BY <2>1, <2>2, <2>4, <3>4
      <4>2. Tickets[u] = Tickets[t]
        BY <3>2, <4>1 DEF Tickets, Contenders
      <4> QED
        BY <2>1, <3>1, <4>1, <4>2 DEF Line
    <3> QED
      BY <1>1, <2>2, <2>6, <3>3, <3>4
  <2> QED
    BY <2>5, <2>6
<1> QED
  BY <1>1, <1>2 DEF LockInv

\* Mutual exclusion: whoever is inside, or about to enter, is there alone.
LEMMA Alone ==
  ASSUME LockInv, NEW t \in Threads, NEW u \in Threads, loc[t].s \in Slabs, loc[u].s = loc[t].s,
         pc[u] \in {"unlink", "push", "release"},
         \/ pc[t] \in {"unlink", "push", "release"}
         \/ pc[t] = "spin" /\ serving[loc[t].s] = loc[t].ticket
  PROVE  t = u
<1> DEFINE s == loc[t].s
<1>1. t \in Contenders(s) /\ u \in Contenders(s)
  BY DEF Contenders, Waiting, Inside
<1>2. Tickets[t] = Tickets[u]
  BY <1>1 DEF LockInv, Inside, Tickets
<1> QED
  BY <1>1, <1>2 DEF LockInv, Line

-----------------------------------------------------------------------------
(* Steps of the owners *)

LEMMA ListSame ==
  ASSUME NEW s \in Slabs, ListInv(s), arena' = arena, slab'[s] = slab[s],
         \A u \in Threads : Owned(u, s)' = Owned(u, s)
  PROVE  ListInv(s)'
<1>1. FreeObjs(s)' = FreeObjs(s)
  BY DEF FreeObjs
<1> QED
  BY <1>1 DEF ListInv

\* The hands are as before, and so are the blocks and the lists.
LEMMA OwnQuiet ==
  ASSUME OwnInv, \A s \in Slabs : ListInv(s), UNCHANGED <<arena, slab, held>>,
         \A u \in Threads, s \in Slabs : HandOf(u, s)' = HandOf(u, s)
  PROVE  OwnInv' /\ \A s \in Slabs : ListInv(s)'
<1>1. \A u \in Threads, s \in Slabs : HeldOf(u, s)' = HeldOf(u, s)
  BY DEF HeldOf
<1>2. \A u \in Threads, s \in Slabs : Owned(u, s)' = Owned(u, s)
  BY <1>1 DEF Owned
<1>3. OwnInv'
  BY <1>1, <1>2 DEF OwnInv, BlockOK, SamePlace
<1>4. \A s \in Slabs : ListInv(s)'
  BY <1>2, ListSame
<1> QED
  BY <1>3, <1>4

\* The free objects of a slab are finitely many numbers.
LEMMA FreeFinite ==
  ASSUME ShapeInv, NEW s \in Slabs
  PROVE  /\ IsFiniteSet(FreeObjs(s)) /\ Cardinality(FreeObjs(s)) \in Nat
         /\ Cardinality(FreeObjs(s)) <= Capacity(arena, s) /\ Capacity(arena, s) \in Nat
<1>1. Capacity(arena, s) \in Nat
  BY SlabFits DEF ShapeInv
<1>2. PICK n \in Int : n = Capacity(arena, s) - 1 /\ n + 1 = Capacity(arena, s)
  BY <1>1
<1>3. /\ IsFiniteSet(0 .. n)
      /\ Cardinality(0 .. n) = n + 1
  <2>1. 0 \in Int /\ (IF 0 > n THEN 0 ELSE n - 0 + 1) = n + 1
    BY <1>1, <1>2
  <2> QED
    BY <2>1, FS_Interval
<1>4. FreeObjs(s) \subseteq 0 .. n
  BY <1>2 DEF FreeObjs
<1>5. IsFiniteSet(FreeObjs(s)) /\ Cardinality(FreeObjs(s)) <= n + 1
  BY <1>3, <1>4, FS_Subset
<1>6. Cardinality(FreeObjs(s)) \in Nat
  BY <1>5, FS_CardinalityType
<1> QED
  BY <1>1, <1>2, <1>5, <1>6

\* The objects F form a chain from h: each is the head or the link of at most
\* one other, and the links reach them all.
Chained(F, h, link) ==
  /\ h \in F \cup {-1}
  /\ \A i \in F : link[i] \in F \cup {-1}
  /\ \A i \in F : link[i] # -1 => link[i] # h
  /\ \A i, j \in F : link[i] # -1 /\ link[i] = link[j] => i = j
  /\ Whole(F, h, link)

LEMMA ChainPop ==
  ASSUME NEW F, NEW h \in F, NEW link, Chained(F, h, link), -1 \notin F
  PROVE  Chained(F \ {h}, link[h], link)
<1>1. link[h] \in (F \ {h}) \cup {-1}
  BY DEF Chained
<1>2. \A i \in F \ {h} : link[i] \in (F \ {h}) \cup {-1}
  BY DEF Chained
<1>3. \A i \in F \ {h} : link[i] # -1 => link[i] # link[h]
  BY DEF Chained
<1>4. ASSUME NEW C \in SUBSET ((F \ {h}) \cup {-1}), link[h] \in C,
             \A i \in C \ {-1} : link[i] \in C
      PROVE  C = (F \ {h}) \cup {-1}
  <2>1. C \cup {h} \in SUBSET (F \cup {-1}) /\ h \in C \cup {h}
        /\ \A i \in (C \cup {h}) \ {-1} : link[i] \in C \cup {h}
    BY <1>4
  <2>2. C \cup {h} = F \cup {-1}
    BY <2>1, Zenon DEF Chained, Whole
  <2> QED
    BY <1>4, <2>2
<1>5. Whole(F \ {h}, link[h], link)
  BY <1>4 DEF Whole
<1> QED
  BY <1>1, <1>2, <1>3, <1>5 DEF Chained

LEMMA ChainPush ==
  ASSUME NEW F, NEW h, NEW i, NEW link, Chained(F, h, link), i \notin F, i # -1, link[i] = h
  PROVE  Chained(F \cup {i}, i, link)
<1>1. \A j \in F \cup {i} : link[j] \in F \cup {i, -1}
  BY DEF Chained
<1>2. \A j \in F \cup {i} : link[j] # -1 => link[j] # i
  BY DEF Chained
<1>3. \A j, k \in F \cup {i} : link[j] # -1 /\ link[j] = link[k] => j = k
  BY DEF Chained
<1>4. ASSUME NEW C \in SUBSET ((F \cup {i}) \cup {-1}), i \in C,
             \A j \in C \ {-1} : link[j] \in C
      PROVE  C = (F \cup {i}) \cup {-1}
  <2>1. /\ C \ {i} \in SUBSET (F \cup {-1}) /\ h \in C \ {i}
        /\ \A j \in (C \ {i}) \ {-1} : link[j] \in C \ {i}
    BY <1>4 DEF Chained
  <2>2. C \ {i} = F \cup {-1}
    BY <2>1, Zenon DEF Chained, Whole
  <2> QED
    BY <1>4, <2>2
<1>5. Whole(F \cup {i}, i, link)
  BY <1>4 DEF Whole
<1> QED
  BY <1>1, <1>2, <1>3, <1>5 DEF Chained

\* Links from outside the chain do not matter.
LEMMA WholeSame ==
  ASSUME NEW F, NEW h, NEW link, NEW new, Whole(F, h, link), \A i \in F : new[i] = link[i]
  PROVE  Whole(F, h, new)
<1> SUFFICES ASSUME NEW C \in SUBSET (F \cup {-1}), h \in C, \A i \in C \ {-1} : new[i] \in C
             PROVE  C = F \cup {-1}
  BY DEF Whole
<1>1. \A i \in C \ {-1} : link[i] \in C
  OBVIOUS
<1> QED
  BY <1>1 DEF Whole

\* The numbers k .. e, each linked to the next, the last to the end.
LEMMA WholeRow ==
  ASSUME NEW k \in Nat, NEW e \in Int, e >= k - 1, NEW h, NEW link,
         h = (IF k > e THEN -1 ELSE k),
         \A j \in k .. e : link[j] = IF j = e THEN -1 ELSE j + 1
  PROVE  Whole(k .. e, h, link)
<1> SUFFICES ASSUME NEW C \in SUBSET ((k .. e) \cup {-1}), h \in C,
                    \A j \in C \ {-1} : link[j] \in C
             PROVE  C = (k .. e) \cup {-1}
  BY DEF Whole
<1>1. ASSUME NEW j \in k .. e PROVE j \in C
  <2> DEFINE Out == {l \in k .. e : l \notin C}
  <2> SUFFICES ASSUME Out # {} PROVE FALSE
    BY <1>1
  <2>0. Out \subseteq Nat
    OBVIOUS
  <2>1. PICK x \in Out : \A y \in Out : x <= y
    BY <2>0, Least, Zenon
  <2>2. x # k /\ x \in k .. e /\ x \notin C
    BY <2>1
  <2>3. x - 1 \in k .. e /\ x - 1 \notin Out
    BY <2>1, <2>2
  <2>4. x - 1 \in C \ {-1} /\ link[x - 1] = x
    BY <2>2, <2>3
  <2> QED
    BY <2>2, <2>4
<1>2. -1 \in C
  <2>1. CASE k > e
    BY <2>1
  <2>2. CASE k <= e
    BY <2>2, <1>1
  <2> QED
    BY <2>1, <2>2
<1> QED
  BY <1>1, <1>2

LEMMA ListChain ==
  /\ \A s \in Slabs : ListInv(s) => Chained(FreeObjs(s), slab[s].free_head, slab[s].free_list)
  /\ \A s \in Slabs :
       /\ Chained(FreeObjs(s)', slab'[s].free_head, slab'[s].free_list)
       /\ slab'[s].free_list \in [0 .. Capacity(arena', s) - 1 -> -1 .. Capacity(arena', s) - 1]
       /\ slab'[s].alloc_count \in Int
       /\ slab'[s].alloc_count + Cardinality(FreeObjs(s)') = Capacity(arena', s)
       => ListInv(s)'
<1>1. ASSUME NEW s \in Slabs, ListInv(s)
      PROVE  Chained(FreeObjs(s), slab[s].free_head, slab[s].free_list)
  BY <1>1, Zenon DEF ListInv, Chained
<1>2. ASSUME NEW s \in Slabs, Chained(FreeObjs(s)', slab'[s].free_head, slab'[s].free_list),
             slab'[s].free_list \in [0 .. Capacity(arena', s) - 1 -> -1 .. Capacity(arena', s) - 1],
             slab'[s].alloc_count \in Int,
             slab'[s].alloc_count + Cardinality(FreeObjs(s)') = Capacity(arena', s)
      PROVE  ListInv(s)'
  BY <1>2, Zenon DEF ListInv, Chained
<1> QED
  BY <1>1, <1>2, Zenon

\* gmk_slab_alloc takes the head from the list into its hand.
LEMMA UnlinkOwn ==
  ASSUME ShapeInv, OwnInv, \A s \in Slabs : ListInv(s), NEW t \in Threads, CallInv(t), SlabUnlink(t)
  PROVE  OwnInv' /\ (\A s \in Slabs : ListInv(s)') /\ ShapeInv'
<1>1. PICK r \in Slabs, i \in -1 .. Capacity(arena, loc[t].s) - 1 :
        /\ r = loc[t].s /\ i = loc[t].idx /\ pc[t] = "unlink" /\ loc[t].op = "alloc" /\ i >= 0
        /\ i = slab[r].free_head
  BY DEF SlabUnlink, CallInv
<1>2. UNCHANGED <<arena, loc, held, next, serving>> /\ pc' = [pc EXCEPT ![t] = "release"]
  BY SMTT(60) DEF SlabUnlink, Goto
<1>3. /\ slab' = [slab EXCEPT ![r] = [slab[r] EXCEPT !.free_head = slab[r].free_list[i],
                                                   !.alloc_count = slab[r].alloc_count + 1]]
  BY <1>1 DEF SlabUnlink
<1>4. /\ DOMAIN slab' = Slabs /\ (\A s \in Slabs : s # r => slab'[s] = slab[s])
      /\ DOMAIN slab'[r] = Slots /\ slab'[r].free_head = slab[r].free_list[i]
      /\ slab'[r].free_list = slab[r].free_list /\ slab'[r].alloc_count = slab[r].alloc_count + 1
  BY <1>1, <1>3 DEF ShapeInv, Slots
<1>5. ShapeInv'
  BY <1>2, <1>4 DEF ShapeInv
<1>6. \A u \in Threads, s \in Slabs : HeldOf(u, s)' = HeldOf(u, s)
  BY <1>2 DEF HeldOf
<1>7. /\ HandOf(t, r) = {} /\ HandOf(t, r)' = {i}
      /\ \A u \in Threads, s \in Slabs : u # t \/ s # r => HandOf(u, s)' = HandOf(u, s)
  BY <1>1, <1>2, ZenonT(60) DEF HandOf, InHand, ShapeInv
<1>8. /\ Owned(t, r)' = Owned(t, r) \cup {i}
      /\ \A u \in Threads, s \in Slabs : u # t \/ s # r => Owned(u, s)' = Owned(u, s)
  BY <1>6, <1>7 DEF Owned
<1>9. i \in FreeObjs(r) /\ i # -1
  BY <1>1 DEF ListInv
<1>10. /\ i \in 0 .. Capacity(arena, r) - 1 /\ i \notin Kept(arena, r)
       /\ \A u \in Threads : i \notin Owned(u, r)
  BY <1>9 DEF FreeObjs
<1>11. OwnInv'
  <2>1. \A u \in Threads : \A b \in held'[u] : BlockOK(b)'
    BY <1>2 DEF OwnInv, BlockOK
  <2>2. \A u \in Threads : \A b, c \in held'[u] : SamePlace(b, c)' => b = c
    BY <1>2 DEF OwnInv, SamePlace
  <2>3. ASSUME NEW s \in Slabs, NEW u \in Threads
        PROVE  /\ HeldOf(u, s)' \cap HandOf(u, s)' = {}
               /\ Owned(u, s)' \subseteq 0 .. Capacity(arena, s) - 1
               /\ Owned(u, s)' \cap Kept(arena, s) = {}
               /\ \A w \in Threads : w # u => Owned(u, s)' \cap Owned(w, s)' = {}
    <3>1. /\ HeldOf(u, s) \cap HandOf(u, s) = {}
          /\ Owned(u, s) \subseteq 0 .. Capacity(arena, s) - 1
          /\ Owned(u, s) \cap Kept(arena, s) = {}
          /\ \A w \in Threads : w # u => Owned(u, s) \cap Owned(w, s) = {}
      BY DEF OwnInv
    <3>2. i \notin HeldOf(t, r)
      BY <1>10 DEF Owned
    <3> QED
      BY <1>6, <1>7, <1>8, <1>10, <3>1, <3>2
  <2> QED
    BY <1>2, <2>1, <2>2, <2>3 DEF OwnInv
<1>12. ASSUME NEW s \in Slabs PROVE ListInv(s)'
  <2>1. CASE s # r
    BY <1>2, <1>4, <1>8, <2>1, ListSame
  <2>2. CASE s = r
    <3>1. FreeObjs(r)' = FreeObjs(r) \ {i}
      BY <1>2, <1>8 DEF FreeObjs
    <3>2. IsFiniteSet(FreeObjs(r)) /\ Cardinality(FreeObjs(r)) \in Nat /\ Capacity(arena, r) \in Nat
      BY <1>1, FreeFinite
    <3>3. Cardinality(FreeObjs(r)') = Cardinality(FreeObjs(r)) - 1
      BY <1>9, <3>1, <3>2, FS_RemoveElement, ZenonT(60)
    <3>4. ListInv(r)
      BY <1>1, ZenonT(60)
    <3>5. /\ slab'[r].alloc_count \in Int
          /\ slab'[r].alloc_count + Cardinality(FreeObjs(r)') = Capacity(arena, r)
      <4>1. /\ slab[r].alloc_count \in Int
            /\ slab[r].alloc_count + Cardinality(FreeObjs(r)) = Capacity(arena, r)
        BY <3>4, Zenon DEF ListInv
      <4>2. PICK n \in Int, m \in Nat, c \in Nat :
              n = slab[r].alloc_count /\ m = Cardinality(FreeObjs(r)) /\ c = Capacity(arena, r)
        BY <3>2, <4>1, Zenon
      <4>3. n + m = c
        BY <4>1, <4>2, Zenon
      <4> QED
        BY <1>4, <3>3, <4>2, <4>3
    <3>6. slab[r].free_list \in [0 .. Capacity(arena, r) - 1 -> -1 .. Capacity(arena, r) - 1]
      BY <3>4 DEF ListInv
    <3>7. Chained(FreeObjs(r) \ {i}, slab[r].free_list[i], slab[r].free_list)
      <4>1. -1 \notin FreeObjs(r)
        BY <3>2 DEF FreeObjs
      <4>2. Chained(FreeObjs(r), i, slab[r].free_list)
        BY <1>1, <3>4, ListChain
      <4> QED
        BY <1>9, <4>1, <4>2, ChainPop
    <3>8. Chained(FreeObjs(r)', slab'[r].free_head, slab'[r].free_list)
      BY <1>4, <3>1, <3>7, Zenon
    <3>9. /\ slab'[r].free_list \in [0 .. Capacity(arena', r) - 1 -> -1 .. Capacity(arena', r) - 1]
          /\ slab'[r].alloc_count + Cardinality(FreeObjs(r)') = Capacity(arena', r)
      BY <1>2, <1>4, <3>5, <3>6, Zenon
    <3>10. ListInv(r)'
      BY <3>5, <3>8, <3>9, ListChain, Zenon
    <3> QED
      BY <1>2, <2>2, <3>10
  <2> QED
    BY <2>1, <2>2
<1> QED
  BY <1>5, <1>11, <1>12

\* gmk_slab_free writes the link of an object that it has in its hand.
LEMMA LinkOwn ==
  ASSUME ShapeInv, OwnInv, \A s \in Slabs : ListInv(s), NEW t \in Threads, CallInv(t), SlabLink(t)
  PROVE  /\ OwnInv' /\ (\A s \in Slabs : ListInv(s)') /\ ShapeInv'
         /\ slab'[loc[t].s].free_list[loc[t].idx] = slab'[loc[t].s].free_head
         /\ \A s \in Slabs : s # loc[t].s => slab'[s] = slab[s]
<1>1. PICK r \in Slabs, i \in -1 .. Capacity(arena, loc[t].s) - 1 :
        /\ r = loc[t].s /\ i = loc[t].idx /\ pc[t] = "spin" /\ loc[t].op = "free" /\ i >= 0
  BY DEF SlabLink, Acquired, CallInv
<1>2. UNCHANGED <<arena, loc, held, next, serving>> /\ pc' = [pc EXCEPT ![t] = "push"]
  BY DEF SlabLink, Goto
<1>3. slab' = [slab EXCEPT ![r] = [slab[r] EXCEPT !.free_list =
                 [slab[r].free_list EXCEPT ![i] = slab[r].free_head]]]
  BY <1>1 DEF SlabLink
<1>4. /\ DOMAIN slab' = Slabs /\ (\A s \in Slabs : s # r => slab'[s] = slab[s])
      /\ DOMAIN slab'[r] = Slots /\ slab'[r].free_head = slab[r].free_head
      /\ slab'[r].free_list = [slab[r].free_list EXCEPT ![i] = slab[r].free_head]
      /\ slab'[r].alloc_count = slab[r].alloc_count
  BY <1>1, <1>3 DEF ShapeInv, Slots
<1>5. ShapeInv'
  BY <1>2, <1>4 DEF ShapeInv
<1>6. \A u \in Threads, s \in Slabs : HeldOf(u, s)' = HeldOf(u, s)
  BY <1>2 DEF HeldOf
<1>7. i \in HandOf(t, r) /\ \A u \in Threads, s \in Slabs : HandOf(u, s)' = HandOf(u, s)
  BY <1>1, <1>2 DEF HandOf, InHand, ShapeInv
<1>8. i \in Owned(t, r) /\ \A u \in Threads, s \in Slabs : Owned(u, s)' = Owned(u, s)
  BY <1>6, <1>7 DEF Owned
<1>9. OwnInv'
  <2>1. \A u \in Threads : \A b \in held'[u] : BlockOK(b)'
    BY <1>2 DEF OwnInv, BlockOK
  <2>2. \A u \in Threads : \A b, c \in held'[u] : SamePlace(b, c)' => b = c
    BY <1>2 DEF OwnInv, SamePlace
  <2> QED
    BY <1>2, <1>6, <1>7, <1>8, <2>1, <2>2 DEF OwnInv
<1>10. ListInv(r)
  BY <1>1, ZenonT(60)
<1>11. /\ slab[r].free_list \in [0 .. Capacity(arena, r) - 1 -> -1 .. Capacity(arena, r) - 1]
       /\ slab[r].free_head \in -1 .. Capacity(arena, r) - 1 /\ i \in 0 .. Capacity(arena, r) - 1
  <2>1. Capacity(arena, r) \in Nat
    BY FreeFinite
  <2> QED
    BY <1>1, <1>10, <2>1, SMTT(60) DEF ListInv, FreeObjs
<1>12. ASSUME NEW s \in Slabs PROVE ListInv(s)'
  <2>1. CASE s # r
    BY <1>2, <1>4, <1>8, <2>1, ListSame
  <2>2. CASE s = r
    <3>1. FreeObjs(r)' = FreeObjs(r) /\ i \notin FreeObjs(r)
      BY <1>2, <1>8 DEF FreeObjs
    <3>2. \A j \in FreeObjs(r) : slab'[r].free_list[j] = slab[r].free_list[j]
      <4>1. FreeObjs(r) \subseteq 0 .. Capacity(arena, r) - 1
        BY DEF FreeObjs
      <4> QED
        BY <1>4, <1>11, <3>1, <4>1
    <3>3. slab'[r].free_list \in [0 .. Capacity(arena, r) - 1 -> -1 .. Capacity(arena, r) - 1]
      BY <1>4, <1>11, SMTT(60)
    <3>4. Whole(FreeObjs(r)', slab'[r].free_head, slab'[r].free_list)
      <4>1. Whole(FreeObjs(r), slab[r].free_head, slab[r].free_list)
        BY <1>10 DEF ListInv
      <4>2. Whole(FreeObjs(r), slab[r].free_head, slab'[r].free_list)
        BY <3>2, <4>1, WholeSame
      <4>3. slab'[r].free_head = slab[r].free_head
        BY <1>4, SMTT(60)
      <4> QED
        BY <3>1, <4>2, <4>3
    <3>5. ListInv(r)'
      BY <1>2, <1>4, <1>10, <3>1, <3>2, <3>3, <3>4 DEF ListInv
    <3> QED
      BY <1>2, <2>2, <3>5
  <2> QED
    BY <2>1, <2>2
<1>13. slab'[r].free_list[i] = slab'[r].free_head
  BY <1>4, <1>11
<1> QED
  BY <1>1, <1>4, <1>5, <1>9, <1>12, <1>13

\* gmk_slab_free puts the object from its hand before the head of the list.
LEMMA PushOwn ==
  ASSUME ShapeInv, OwnInv, \A s \in Slabs : ListInv(s), NEW t \in Threads, CallInv(t), SlabPush(t)
  PROVE  OwnInv' /\ (\A s \in Slabs : ListInv(s)') /\ ShapeInv'
<1>1. PICK r \in Slabs, i \in -1 .. Capacity(arena, loc[t].s) - 1 :
        /\ r = loc[t].s /\ i = loc[t].idx /\ pc[t] = "push" /\ loc[t].op = "free" /\ i >= 0
        /\ slab[r].free_list[i] = slab[r].free_head
  BY DEF SlabPush, CallInv
<1>2. UNCHANGED <<arena, loc, held, next, serving>> /\ pc' = [pc EXCEPT ![t] = "release"]
  BY SMTT(60) DEF SlabPush, Goto
<1>3. slab' = [slab EXCEPT ![r] = [slab[r] EXCEPT !.free_head = i,
                                                  !.alloc_count = slab[r].alloc_count - 1]]
  BY <1>1 DEF SlabPush
<1>4. /\ DOMAIN slab' = Slabs /\ (\A s \in Slabs : s # r => slab'[s] = slab[s])
      /\ DOMAIN slab'[r] = Slots /\ slab'[r].free_head = i
      /\ slab'[r].free_list = slab[r].free_list /\ slab'[r].alloc_count = slab[r].alloc_count - 1
  BY <1>1, <1>3 DEF ShapeInv, Slots
<1>5. ShapeInv'
  BY <1>2, <1>4 DEF ShapeInv
<1>6. \A u \in Threads, s \in Slabs : HeldOf(u, s)' = HeldOf(u, s)
  BY <1>2 DEF HeldOf
<1>7. /\ HandOf(t, r) = {i} /\ HandOf(t, r)' = {}
      /\ \A u \in Threads, s \in Slabs : u # t \/ s # r => HandOf(u, s)' = HandOf(u, s)
  BY <1>1, <1>2 DEF HandOf, InHand, ShapeInv
<1>8. /\ Owned(t, r)' = Owned(t, r) \ {i} /\ i \in Owned(t, r)
      /\ \A u \in Threads, s \in Slabs : u # t \/ s # r => Owned(u, s)' = Owned(u, s)
  <2>1. i \notin HeldOf(t, r)
    BY <1>1, <1>7 DEF OwnInv
  <2> QED
    BY <1>6, <1>7, <2>1 DEF Owned
<1>9. /\ i \in 0 .. Capacity(arena, r) - 1 /\ i \notin Kept(arena, r)
      /\ \A u \in Threads : u # t => i \notin Owned(u, r)
  BY <1>8 DEF OwnInv
<1>10. OwnInv'
  <2>1. \A u \in Threads : \A b \in held'[u] : BlockOK(b)'
    BY <1>2 DEF OwnInv, BlockOK
  <2>2. \A u \in Threads : \A b, c \in held'[u] : SamePlace(b, c)' => b = c
    BY <1>2 DEF OwnInv, SamePlace
  <2>3. ASSUME NEW s \in Slabs, NEW u \in Threads
        PROVE  /\ HeldOf(u, s)' \cap HandOf(u, s)' = {}
               /\ Owned(u, s)' \subseteq 0 .. Capacity(arena, s) - 1
               /\ Owned(u, s)' \cap Kept(arena, s) = {}
               /\ \A w \in Threads : w # u => Owned(u, s)' \cap Owned(w, s)' = {}
    <3>1. /\ HeldOf(u, s) \cap HandOf(u, s) = {}
          /\ Owned(u, s) \subseteq 0 .. Capacity(arena, s) - 1
          /\ Owned(u, s) \cap Kept(arena, s) = {}
          /\ \A w \in Threads : w # u => Owned(u, s) \cap Owned(w, s) = {}
      BY DEF OwnInv
    <3> QED
      BY <1>6, <1>7, <1>8, <3>1
  <2> QED
    BY <1>2, <2>1, <2>2, <2>3 DEF OwnInv
<1>11. ASSUME NEW s \in Slabs PROVE ListInv(s)'
  <2>1. CASE s # r
    BY <1>2, <1>4, <1>8, <2>1, ListSame
  <2>2. CASE s = r
    <3>1. FreeObjs(r)' = FreeObjs(r) \cup {i} /\ i \notin FreeObjs(r)
      BY <1>2, <1>8, <1>9 DEF FreeObjs
    <3>2. IsFiniteSet(FreeObjs(r)) /\ Cardinality(FreeObjs(r)) \in Nat /\ Capacity(arena, r) \in Nat
      BY <1>1, FreeFinite
    <3>3. Cardinality(FreeObjs(r)') = Cardinality(FreeObjs(r)) + 1
      BY <3>1, <3>2, FS_AddElement
    <3>4. ListInv(r)
      BY <1>1, ZenonT(60)
    <3>5. /\ slab'[r].alloc_count \in Int
          /\ slab'[r].alloc_count + Cardinality(FreeObjs(r)') = Capacity(arena, r)
      <4>1. /\ slab[r].alloc_count \in Int
            /\ slab[r].alloc_count + Cardinality(FreeObjs(r)) = Capacity(arena, r)
        BY <3>4, Zenon DEF ListInv
      <4>2. PICK n \in Int, m \in Nat, c \in Nat :
              n = slab[r].alloc_count /\ m = Cardinality(FreeObjs(r)) /\ c = Capacity(arena, r)
        BY <3>2, <4>1, Zenon
      <4>3. n + m = c
        BY <4>1, <4>2, Zenon
      <4> QED
        BY <1>4, <3>3, <4>2, <4>3
    <3>6. slab[r].free_list \in [0 .. Capacity(arena, r) - 1 -> -1 .. Capacity(arena, r) - 1]
      BY <3>4 DEF ListInv
    <3>7. Chained(FreeObjs(r)', slab'[r].free_head, slab'[r].free_list)
      <4>1. Chained(FreeObjs(r), slab[r].free_head, slab[r].free_list)
        BY <3>4, ListChain
      <4>2. Chained(FreeObjs(r) \cup {i}, i, slab[r].free_list)
        BY <1>1, <3>1, <4>1, ChainPush
      <4> QED
        BY <1>4, <3>1, <4>2, Zenon
    <3>8. /\ slab'[r].free_list \in [0 .. Capacity(arena', r) - 1 -> -1 .. Capacity(arena', r) - 1]
          /\ slab'[r].alloc_count + Cardinality(FreeObjs(r)') = Capacity(arena', r)
      BY <1>2, <1>4, <3>5, <3>6, Zenon
    <3>9. ListInv(r)'
      BY <3>5, <3>7, <3>8, ListChain, Zenon
    <3> QED
      BY <1>2, <2>2, <3>9
  <2> QED
    BY <2>1, <2>2
<1> QED
  BY <1>5, <1>10, <1>11

\* gmk_alloc returns: the object goes from the thread's hand into a block.
LEMMA DoneOwn ==
  ASSUME ShapeInv, OwnInv, \A s \in Slabs : ListInv(s), NEW t \in Threads, CallInv(t), AllocDone(t)
  PROVE  OwnInv' /\ \A s \in Slabs : ListInv(s)'
<1>1. PICK r \in Slabs, i \in 0 .. Capacity(arena, loc[t].s) - 1, z \in Nat \ {0} :
        /\ r = loc[t].s /\ i = loc[t].idx /\ z = loc[t].size
        /\ pc[t] = "release" /\ loc[t].op = "alloc" /\ Suits(r, z)
  <2>1. pc[t] = "release" /\ loc[t].op = "alloc" /\ loc[t].idx >= 0
    BY DEF AllocDone, Unlock
  <2>2. /\ loc[t].s \in Slabs /\ loc[t].idx \in -1 .. Capacity(arena, loc[t].s) - 1
        /\ loc[t].size \in Nat \ {0} /\ Suits(loc[t].s, loc[t].size)
    BY <2>1 DEF CallInv
  <2> QED
    BY <2>1, <2>2
<1>2. PICK b : /\ b = [ptr |-> ObjectAt(arena, r, i), size |-> z]
               /\ held' = [held EXCEPT ![t] = held[t] \cup {b}]
  BY <1>1 DEF AllocDone, Ptr, ObjectAt
<1>3. UNCHANGED <<arena, slab>> /\ pc' = [pc EXCEPT ![t] = "idle"] /\ loc' = [loc EXCEPT ![t] = NoCall]
  BY DEF AllocDone, Return, Goto
<1>4. arena \in ArenaSizes
  BY DEF ShapeInv
<1>5. /\ OwnerOf(arena, b.ptr, b.size) = r /\ IndexIn(arena, r, b.ptr) = i
      /\ b.ptr = ObjectAt(arena, r, i) /\ b.size = z /\ z <= ObjSize(r)
  <2>1. OwnerOf(arena, ObjectAt(arena, r, i), z) = r
    BY <1>1, <1>4, OwnerFound DEF Suits
  <2>2. IndexIn(arena, r, ObjectAt(arena, r, i)) = i
    BY <1>1, <1>4, ObjectIn
  <2>3. z <= ObjSize(r)
    <3>1. CASE r = Task /\ z = TaskObj
      BY <3>1, ObjSizes DEF TaskObj
    <3>2. CASE r \in Bins /\ r = BlockBin(arena, z)
      <4>1. BlockBin(arena, z) # None
        BY <3>2, AllocatorAssumption DEF Bins
      <4> QED
        BY <3>2, <4>1, BlockBinFits
    <3> QED
      BY <1>1, <3>1, <3>2 DEF Suits
  <2> QED
    BY <1>2, <2>1, <2>2, <2>3
<1>6. BlockOK(b)
  BY <1>1, <1>5 DEF BlockOK
<1>7. held'[t] = held[t] \cup {b} /\ \A u \in Threads : u # t => held'[u] = held[u]
  BY <1>2 DEF ShapeInv
<1>8. /\ HeldOf(t, r)' = HeldOf(t, r) \cup {i}
      /\ \A u \in Threads, s \in Slabs : u # t \/ s # r => HeldOf(u, s)' = HeldOf(u, s)
  <2>1. HeldOf(t, r)' = HeldOf(t, r) \cup {i}
    BY <1>3, <1>5, <1>7 DEF HeldOf
  <2>2. ASSUME NEW s \in Slabs, s # r PROVE HeldOf(t, s)' = HeldOf(t, s)
    BY <1>3, <1>5, <1>7, <2>2 DEF HeldOf
  <2>3. ASSUME NEW s \in Slabs, NEW u \in Threads, u # t PROVE HeldOf(u, s)' = HeldOf(u, s)
    BY <1>3, <1>7, <2>3 DEF HeldOf
  <2> QED
    BY <2>1, <2>2, <2>3
<1>9. /\ HandOf(t, r) = {i} /\ \A s \in Slabs : HandOf(t, s)' = {} /\ (s # r => HandOf(t, s) = {})
      /\ \A u \in Threads, s \in Slabs : u # t => HandOf(u, s)' = HandOf(u, s)
  <2>1. pc'[t] = "idle" /\ \A u \in Threads : u # t => pc'[u] = pc[u] /\ loc'[u] = loc[u]
    BY <1>3 DEF ShapeInv
  <2> QED
    BY <1>1, <2>1 DEF HandOf, InHand
<1>10. \A u \in Threads, s \in Slabs : Owned(u, s)' = Owned(u, s)
  BY <1>8, <1>9 DEF Owned
<1>11. i \notin HeldOf(t, r)
  BY <1>9 DEF OwnInv
<1>12. OwnInv'
  <2>1. \A u \in Threads : \A c \in held'[u] : BlockOK(c)'
    BY <1>3, <1>6, <1>7 DEF OwnInv, BlockOK
  <2>2. ASSUME NEW u \in Threads, NEW c \in held'[u], NEW d \in held'[u], SamePlace(c, d)
        PROVE  c = d
    <3>1. CASE c \in held[u] /\ d \in held[u]
      BY <2>2, <3>1 DEF OwnInv
    <3>2. CASE u = t /\ c = b /\ d \in held[t]
      BY <1>5, <1>11, <2>2, <3>2 DEF SamePlace, HeldOf
    <3>3. CASE u = t /\ d = b /\ c \in held[t]
      BY <1>5, <1>11, <2>2, <3>3 DEF SamePlace, HeldOf
    <3> QED
      BY <1>7, <3>1, <3>2, <3>3
  <2>3. \A c, d : SamePlace(c, d)' <=> SamePlace(c, d)
    BY <1>3 DEF SamePlace
  <2>4. \A s \in Slabs, u \in Threads : HeldOf(u, s)' \cap HandOf(u, s)' = {}
    BY <1>8, <1>9 DEF OwnInv
  <2> QED
    BY <1>3, <1>10, <2>1, <2>2, <2>3, <2>4 DEF OwnInv
<1>13. \A s \in Slabs : ListInv(s)'
  BY <1>3, <1>10, ListSame
<1> QED
  BY <1>12, <1>13

\* gmk_free is called: the object goes from a block into the thread's hand.
LEMMA FreeOwn ==
  ASSUME ShapeInv, OwnInv, \A s \in Slabs : ListInv(s), NEW t \in Threads, pc[t] = "idle",
         NEW b \in held[t], NEW r, NEW i, r = OwnerOf(arena, b.ptr, b.size),
         i = IndexIn(arena, r, b.ptr), held' = [held EXCEPT ![t] = held[t] \ {b}],
         UNCHANGED <<arena, slab>>, pc'[t] = "spin", loc'[t].op = "free", loc'[t].s = r,
         loc'[t].idx = i, \A u \in Threads : u # t => pc'[u] = pc[u] /\ loc'[u] = loc[u]
  PROVE  OwnInv' /\ \A s \in Slabs : ListInv(s)'
<1>1. BlockOK(b)
  BY DEF OwnInv
<1>2. r \in Slabs /\ i \in 0 .. Capacity(arena, r) - 1
  BY <1>1 DEF BlockOK
<1>3. held'[t] = held[t] \ {b} /\ \A u \in Threads : u # t => held'[u] = held[u]
  BY DEF ShapeInv
<1>4. \A c \in held[t] : OwnerOf(arena, c.ptr, c.size) = r /\ IndexIn(arena, r, c.ptr) = i => c = b
  BY DEF OwnInv, SamePlace
<1>5. /\ HeldOf(t, r)' = HeldOf(t, r) \ {i} /\ i \in HeldOf(t, r)
      /\ \A u \in Threads, s \in Slabs : u # t \/ s # r => HeldOf(u, s)' = HeldOf(u, s)
  <2>1. HeldOf(t, r)' = HeldOf(t, r) \ {i} /\ i \in HeldOf(t, r)
    <3>1. ASSUME NEW j, j \in HeldOf(t, r)' PROVE j \in HeldOf(t, r) /\ j # i
      BY <1>3, <1>4, <3>1 DEF HeldOf
    <3>2. ASSUME NEW j, j \in HeldOf(t, r), j # i PROVE j \in HeldOf(t, r)'
      <4>1. PICK c \in held[t] : OwnerOf(arena, c.ptr, c.size) = r /\ j = IndexIn(arena, r, c.ptr)
        BY <3>2 DEF HeldOf
      <4>2. c \in held'[t]
        BY <1>3, <3>2, <4>1
      <4> QED
        BY <4>1, <4>2 DEF HeldOf
    <3> QED
      BY <3>1, <3>2 DEF HeldOf
  <2>2. ASSUME NEW s \in Slabs, s # r PROVE HeldOf(t, s)' = HeldOf(t, s)
    BY <1>3, <2>2 DEF HeldOf
  <2>3. ASSUME NEW s \in Slabs, NEW u \in Threads, u # t PROVE HeldOf(u, s)' = HeldOf(u, s)
    BY <1>3, <2>3 DEF HeldOf
  <2> QED
    BY <2>1, <2>2, <2>3
<1>6. /\ HandOf(t, r)' = {i} /\ \A s \in Slabs : HandOf(t, s) = {} /\ (s # r => HandOf(t, s)' = {})
      /\ \A u \in Threads, s \in Slabs : u # t => HandOf(u, s)' = HandOf(u, s)
  BY DEF HandOf, InHand
<1>7. \A u \in Threads, s \in Slabs : Owned(u, s)' = Owned(u, s)
  BY <1>5, <1>6 DEF Owned
<1>8. OwnInv'
  <2>1. \A u \in Threads : \A c \in held'[u] : BlockOK(c)'
    BY <1>3 DEF OwnInv, BlockOK
  <2>2. \A u \in Threads : \A c, d \in held'[u] : SamePlace(c, d)' => c = d
    BY <1>3 DEF OwnInv, SamePlace
  <2>3. \A s \in Slabs, u \in Threads : HeldOf(u, s)' \cap HandOf(u, s)' = {}
    BY <1>2, <1>5, <1>6 DEF OwnInv
  <2> QED
    BY <1>7, <2>1, <2>2, <2>3 DEF OwnInv
<1>9. \A s \in Slabs : ListInv(s)'
  BY <1>7, ListSame
<1> QED
  BY <1>8, <1>9

-----------------------------------------------------------------------------
(* The steps together *)

\* The locals of a thread that does not step.
LEMMA CallFrame ==
  ASSUME NEW u \in Threads, CallInv(u), arena' = arena, pc'[u] = pc[u], loc'[u] = loc[u],
         pc[u] \in {"unlink", "push"} => slab'[loc[u].s] = slab[loc[u].s]
  PROVE  CallInv(u)'
  BY DEF CallInv, Suits

\* A step of t that touches no object: its hand was and is empty.
LEMMA QuietStep ==
  ASSUME SlabInv, NEW t \in Threads, UNCHANGED <<arena, slab, held>>,
         \A u \in Threads : u # t => pc'[u] = pc[u] /\ loc'[u] = loc[u],
         DOMAIN pc' = Threads, DOMAIN loc' = Threads, DOMAIN loc'[t] = Fields,
         DOMAIN next' = Slabs, DOMAIN serving' = Slabs,
         LockInv', CallInv(t)', \A s \in Slabs : HandOf(t, s) = {} /\ HandOf(t, s)' = {}
  PROVE  SlabInv'
<1>1. ShapeInv'
  BY DEF SlabInv, ShapeInv
<1>2. \A u \in Threads, s \in Slabs : HandOf(u, s)' = HandOf(u, s)
  BY DEF HandOf, InHand
<1>3. OwnInv' /\ \A s \in Slabs : ListInv(s)'
  BY <1>2, OwnQuiet DEF SlabInv
<1>4. \A u \in Threads : CallInv(u)'
  BY CallFrame DEF SlabInv
<1> QED
  BY <1>1, <1>3, <1>4 DEF SlabInv

\* The first access under the lock, for a slab without or with a free object.
LEMMA EnterInv ==
  ASSUME SlabInv, NEW t \in Threads, SlabEmpty(t) \/ SlabPick(t)
  PROVE  SlabInv'
<1>1. ShapeInv /\ LockInv /\ CallInv(t) /\ \A s \in Slabs : ListInv(s)
  BY DEF SlabInv
<1>2. /\ pc[t] = "spin" /\ loc[t].op = "alloc" /\ serving[loc[t].s] = loc[t].ticket
      /\ UNCHANGED <<arena, slab, held, next, serving>>
  BY DEF SlabEmpty, SlabPick, Acquired
<1>3. PICK r \in Slabs : r = loc[t].s
  BY <1>1, <1>2 DEF CallInv
<1>4. DOMAIN pc' = Threads /\ DOMAIN loc' = Threads
      /\ \A u \in Threads : u # t => pc'[u] = pc[u] /\ loc'[u] = loc[u]
  BY <1>1 DEF SlabEmpty, SlabPick, Goto, ShapeInv
<1>5. \/ pc'[t] = "release" /\ loc'[t] = loc[t]
      \/ /\ pc'[t] = "unlink" /\ loc'[t] = [loc[t] EXCEPT !.idx = slab[r].free_head]
         /\ slab[r].free_head >= 0
  BY <1>1, <1>3 DEF SlabEmpty, SlabPick, Goto, ShapeInv
<1>6. /\ DOMAIN loc'[t] = Fields /\ loc'[t].s = r /\ loc'[t].ticket = loc[t].ticket
      /\ loc'[t].op = "alloc" /\ loc'[t].size = loc[t].size
      /\ loc'[t].idx = (IF pc'[t] = "unlink" THEN slab[r].free_head ELSE -1)
  BY <1>1, <1>2, <1>3, <1>5 DEF ShapeInv, Fields, CallInv
<1>7. LockInv'
  BY <1>1, <1>2, <1>3, <1>4, <1>5, <1>6, LockKeep
<1>8. slab[r].free_head \in -1 .. Capacity(arena, r) - 1 /\ Capacity(arena, r) \in Nat
  <2>1. Capacity(arena, r) \in Nat
    BY <1>1, FreeFinite
  <2>2. ListInv(r)
    BY <1>1
  <2> QED
    BY <2>1, <2>2 DEF ListInv, FreeObjs
<1>9. CallInv(t)'
  BY <1>1, <1>2, <1>3, <1>5, <1>6, <1>8 DEF CallInv, Suits
<1>10. \A s \in Slabs : HandOf(t, s) = {} /\ HandOf(t, s)' = {}
  BY <1>2, <1>5, <1>6 DEF HandOf, InHand
<1>11. DOMAIN next' = Slabs /\ DOMAIN serving' = Slabs
  BY <1>1, <1>2 DEF ShapeInv
<1> QED
  BY <1>2, <1>4, <1>6, <1>7, <1>9, <1>10, <1>11, QuietStep

\* The accesses to the list.
LEMMA AccessInv ==
  ASSUME SlabInv, NEW t \in Threads, SlabUnlink(t) \/ SlabLink(t) \/ SlabPush(t)
  PROVE  SlabInv'
<1>1. /\ ShapeInv /\ LockInv /\ OwnInv /\ (\A u \in Threads : CallInv(u))
      /\ \A s \in Slabs : ListInv(s)
  BY DEF SlabInv
<1>2. /\ OwnInv' /\ (\A s \in Slabs : ListInv(s)') /\ ShapeInv'
  BY <1>1, UnlinkOwn, LinkOwn, PushOwn
<1>3. /\ UNCHANGED <<arena, loc, next, serving>>
      /\ \/ pc[t] \in {"unlink", "push"} /\ pc'[t] = "release"
         \/ /\ pc[t] = "spin" /\ pc'[t] = "push" /\ serving[loc[t].s] = loc[t].ticket
            /\ loc[t].op = "free"
      /\ \A u \in Threads : u # t => pc'[u] = pc[u]
  BY <1>1 DEF SlabUnlink, SlabLink, SlabPush, Acquired, Goto, ShapeInv
<1>4. PICK r \in Slabs : r = loc[t].s
  BY <1>1, <1>3 DEF CallInv
<1>5. \A s \in Slabs : s # r => slab'[s] = slab[s]
  BY <1>1, <1>4 DEF SlabUnlink, SlabLink, SlabPush, ShapeInv
<1>6. LockInv'
  BY <1>1, <1>3, LockKeep
<1>7. ASSUME NEW u \in Threads, u # t PROVE CallInv(u)'
  <2>1. pc[u] \in {"unlink", "push"} => loc[u].s # r /\ loc[u].s \in Slabs
    BY <1>1, <1>3, <1>4, <1>7, Alone DEF CallInv
  <2>2. pc[u] \in {"unlink", "push"} => slab'[loc[u].s] = slab[loc[u].s]
    BY <1>5, <2>1
  <2> QED
    BY <1>1, <1>3, <1>7, <2>2, CallFrame
<1>8. CallInv(t)'
  <2>1. SlabLink(t) => slab'[loc[t].s].free_list[loc[t].idx] = slab'[loc[t].s].free_head
    BY <1>1, LinkOwn
  <2>2. pc'[t] = "push" => SlabLink(t)
    BY <1>1 DEF SlabUnlink, SlabLink, SlabPush, Goto, ShapeInv
  <2>3. CallInv(t)
    BY <1>1
  <2> QED
    BY <1>3, <2>1, <2>2, <2>3 DEF CallInv, Suits
<1> QED
  BY <1>2, <1>6, <1>7, <1>8 DEF SlabInv

\* The releases of the lock.
LEMMA ReleaseInv ==
  ASSUME SlabInv, NEW t \in Threads,
         AllocDone(t) \/ AllocFallback(t) \/ AllocFails(t) \/ FreeDone(t)
  PROVE  SlabInv'
<1>1. /\ ShapeInv /\ LockInv /\ OwnInv /\ (\A u \in Threads : CallInv(u))
      /\ \A s \in Slabs : ListInv(s)
  BY DEF SlabInv
<1>2. Unlock(t) /\ pc[t] = "release" /\ UNCHANGED <<arena, slab, next>>
  BY DEF AllocDone, AllocFallback, AllocFails, FreeDone, Unlock
<1>3. \/ Goto(t, "idle") /\ loc' = [loc EXCEPT ![t] = NoCall]
      \/ /\ Goto(t, "retry") /\ loc' = loc /\ loc[t].op = "alloc" /\ loc[t].idx < 0
         /\ BlockBin(arena, loc[t].size) # None
  BY DEF AllocDone, AllocFallback, AllocFails, FreeDone, Return
<1>4. /\ DOMAIN pc' = Threads /\ DOMAIN loc' = Threads /\ DOMAIN loc'[t] = Fields
      /\ pc'[t] \in {"idle", "retry"} /\ (pc'[t] = "retry" => loc'[t] = loc[t] /\ loc[t].op = "alloc"
                       /\ loc[t].idx < 0 /\ BlockBin(arena, loc[t].size) # None)
      /\ \A u \in Threads : u # t => pc'[u] = pc[u] /\ loc'[u] = loc[u]
  <2>1. DOMAIN NoCall = Fields
    BY DEF NoCall, Fields
  <2> QED
    BY <1>1, <1>3, <2>1 DEF Goto, ShapeInv
<1>5. loc[t].s \in Slabs
  BY <1>1, <1>2 DEF CallInv
<1>6. LockInv' /\ DOMAIN serving' = Slabs
  BY <1>1, <1>2, <1>4, <1>5, LockLeave
<1>7. CallInv(t)'
  <2>1. CallInv(t)
    BY <1>1
  <2> QED
    BY <1>2, <1>4, <2>1 DEF CallInv, Suits
<1>8. CASE AllocDone(t)
  <2>1. OwnInv' /\ \A s \in Slabs : ListInv(s)'
    BY <1>1, <1>8, DoneOwn
  <2>2. DOMAIN held' = Threads
    BY <1>1, <1>8 DEF AllocDone, ShapeInv
  <2>3. ShapeInv'
    BY <1>1, <1>2, <1>4, <1>6, <2>2 DEF ShapeInv
  <2>4. \A u \in Threads : CallInv(u)'
    BY <1>1, <1>2, <1>4, <1>7, CallFrame
  <2> QED
    BY <1>6, <2>1, <2>3, <2>4 DEF SlabInv
<1>9. CASE AllocFallback(t) \/ AllocFails(t) \/ FreeDone(t)
  <2>1. held' = held /\ (loc[t].op = "free" \/ (loc[t].op = "alloc" /\ loc[t].idx < 0))
    BY <1>9 DEF AllocFallback, AllocFails, FreeDone
  <2>2. \A s \in Slabs : HandOf(t, s) = {} /\ HandOf(t, s)' = {}
    <3>1. loc[t].idx \in Int
      BY <1>1, <1>2 DEF CallInv
    <3> QED
      BY <1>2, <1>4, <2>1, <3>1 DEF HandOf, InHand
  <2>3. DOMAIN next' = Slabs
    BY <1>1, <1>2 DEF ShapeInv
  <2> QED
    BY <1>2, <1>4, <1>6, <1>7, <2>1, <2>2, <2>3, QuietStep
<1> QED
  BY <1>8, <1>9

\* The calls that take a ticket: gmk_alloc, its second try, and gmk_free.
LEMMA AllocInv ==
  ASSUME SlabInv, NEW t \in Threads, Alloc(t) \/ AllocRetry(t)
  PROVE  SlabInv'
<1>1. /\ ShapeInv /\ LockInv /\ OwnInv /\ (\A u \in Threads : CallInv(u))
      /\ \A s \in Slabs : ListInv(s)
  BY DEF SlabInv
<1>2. UNCHANGED <<arena, slab, serving, held>> /\ pc[t] \in {"idle", "retry"}
  BY Zenon DEF Alloc, AllocRetry
<1>3. DOMAIN serving' = Slabs
  BY <1>1, <1>2 DEF ShapeInv
<1>4. ASSUME NEW r \in Slabs, NEW size \in Nat \ {0}, Suits(r, size), NEW call,
             DOMAIN call = Fields, call.op = "alloc", call.s = r, call.size = size, call.idx = -1,
             TakeTicket(t, call)
      PROVE  SlabInv'
  <2>1. /\ LockInv' /\ DOMAIN next' = Slabs /\ DOMAIN pc' = Threads /\ DOMAIN loc' = Threads
        /\ pc'[t] = "spin" /\ loc'[t] = [call EXCEPT !.ticket = next[call.s]]
        /\ \A u \in Threads : u # t => pc'[u] = pc[u] /\ loc'[u] = loc[u]
    <3>1. pc[t] \notin {"spin", "unlink", "push", "release"} /\ call.s \in Slabs
      BY <1>2, <1>4
    <3> QED
      BY <1>1, <1>2, <1>4, <3>1, LockTake
  <2>2. /\ DOMAIN loc'[t] = Fields /\ loc'[t].op = "alloc" /\ loc'[t].s = r
        /\ loc'[t].size = size /\ loc'[t].idx = -1
    BY <1>4, <2>1 DEF Fields
  <2>3. Capacity(arena, r) \in Nat
    BY <1>1, FreeFinite
  <2>4. CallInv(t)'
    BY <1>2, <1>4, <2>1, <2>2, <2>3 DEF CallInv, Suits
  <2>5. \A s \in Slabs : HandOf(t, s) = {} /\ HandOf(t, s)' = {}
    BY <1>2, <2>1, <2>2 DEF HandOf, InHand
  <2> QED
    BY <1>2, <1>3, <2>1, <2>2, <2>4, <2>5, QuietStep
<1>5. CASE AllocRetry(t)
  <2>1. /\ loc[t].op = "alloc" /\ loc[t].idx = -1 /\ BlockBin(arena, loc[t].size) # None
        /\ loc[t].size \in Nat \ {0} /\ DOMAIN loc[t] = Fields
    BY <1>1, <1>5 DEF AllocRetry, CallInv, ShapeInv
  <2>2. PICK size \in Nat \ {0}, r \in Slabs : /\ size = loc[t].size /\ r = BlockBin(arena, size)
                                             /\ r \in Bins
    BY <2>1, BlockBinFits
  <2>3. PICK call : call = [loc[t] EXCEPT !.s = r] /\ TakeTicket(t, call)
    BY <1>5, <2>2 DEF AllocRetry
  <2>4. /\ DOMAIN call = Fields /\ call.op = "alloc" /\ call.s = r /\ call.size = size /\ call.idx = -1
    BY <2>1, <2>2, <2>3 DEF Fields
  <2>5. Suits(r, size)
    BY <2>2 DEF Suits
  <2> QED
    BY <1>4, <2>3, <2>4, <2>5
<1>6. CASE Alloc(t)
  <2>1. PICK size \in Sizes :
          LET s == FirstSlab(arena, size) IN
          IF s = None THEN UNCHANGED <<next, loc, pc>>
          ELSE TakeTicket(t, [NoCall EXCEPT !.op = "alloc", !.s = s, !.size = size])
    BY <1>6, Zenon DEF Alloc
  <2>2. size \in Nat \ {0}
    BY AllocatorAssumption
  <2>3. CASE FirstSlab(arena, size) = None
    <3>1. UNCHANGED <<next, loc, pc>>
      BY <2>1, <2>3
    <3>2. DOMAIN next' = Slabs /\ DOMAIN pc' = Threads /\ DOMAIN loc' = Threads /\ DOMAIN loc'[t] = Fields
      BY <1>1, <3>1 DEF ShapeInv
    <3>3. LockInv'
      <4>1. pc[t] = "idle"
        BY <1>6, Zenon DEF Alloc
      <4> QED
        BY <1>1, <1>2, <3>1, <4>1, LockKeep
    <3>4. CallInv(t)'
      BY <1>1, <1>2, <3>1, CallFrame
    <3>5. \A s \in Slabs : HandOf(t, s) = {} /\ HandOf(t, s)' = {}
      BY <1>2, <3>1 DEF HandOf, InHand
    <3> QED
      BY <1>2, <1>3, <3>1, <3>2, <3>3, <3>4, <3>5, QuietStep
  <2>4. CASE FirstSlab(arena, size) # None
    <3>1. PICK r : r = FirstSlab(arena, size)
      OBVIOUS
    <3>2. r \in Slabs /\ Suits(r, size)
      <4>1. CASE size = TaskObj
        BY <3>1, <4>1 DEF FirstSlab, Suits, Slabs
      <4>2. CASE size # TaskObj
        <5>1. r = BlockBin(arena, size) /\ r # None
          BY <2>4, <3>1, <4>2 DEF FirstSlab
        <5>2. r \in Bins /\ r \in Slabs
          BY <2>2, <5>1, BlockBinFits
        <5> QED
          BY <5>1, <5>2 DEF Suits
      <4> QED
        BY <4>1, <4>2
    <3>3. PICK call : /\ call = [NoCall EXCEPT !.op = "alloc", !.s = r, !.size = size]
                      /\ TakeTicket(t, call)
      BY <2>1, <2>4, <3>1
    <3>4. /\ DOMAIN call = Fields /\ call.op = "alloc" /\ call.s = r /\ call.size = size
          /\ call.idx = -1
      BY <3>3 DEF NoCall, Fields
    <3> QED
      BY <1>4, <2>2, <3>2, <3>3, <3>4
  <2> QED
    BY <2>3, <2>4
<1> QED
  BY <1>5, <1>6

LEMMA FreeInv ==
  ASSUME SlabInv, NEW t \in Threads, Free(t)
  PROVE  SlabInv'
<1>1. /\ ShapeInv /\ LockInv /\ OwnInv /\ (\A u \in Threads : CallInv(u))
      /\ \A s \in Slabs : ListInv(s)
  BY DEF SlabInv
<1>2. UNCHANGED <<arena, slab, serving>> /\ pc[t] = "idle" /\ arena \in ArenaSizes
  BY <1>1 DEF Free, ShapeInv
<1>3. PICK b \in held[t] :
        LET s == OwnerOf(arena, b.ptr, b.size)
        IN /\ held' = [held EXCEPT ![t] = @ \ {b}]
           /\ IF s # None /\ Mine(arena, s, b.ptr)
              THEN TakeTicket(t, [NoCall EXCEPT !.op = "free", !.s = s,
                                    !.idx = IndexIn(arena, s, b.ptr)])
              ELSE UNCHANGED <<next, loc, pc>>
  BY Zenon DEF Free
<1>4. PICK r : r = OwnerOf(arena, b.ptr, b.size)
  OBVIOUS
<1>5. PICK i : i = IndexIn(arena, r, b.ptr)
  OBVIOUS
<1>6. /\ r \in Slabs /\ i \in 0 .. Capacity(arena, r) - 1 /\ b.ptr = ObjectAt(arena, r, i)
  <2>1. BlockOK(b)
    BY <1>1 DEF OwnInv
  <2> QED
    BY <1>4, <1>5, <2>1 DEF BlockOK
<1>7. r # None /\ Mine(arena, r, b.ptr)
  <2>1. r # None
    BY <1>6, AllocatorAssumption DEF Slabs, Bins, Task, Trace
  <2>2. Mine(arena, r, ObjectAt(arena, r, i))
    BY <1>2, <1>6, ObjectIn
  <2> QED
    BY <1>6, <2>1, <2>2
<1>8. PICK call : /\ call = [NoCall EXCEPT !.op = "free", !.s = r, !.idx = i]
                  /\ TakeTicket(t, call)
  BY <1>3, <1>4, <1>5, <1>7
<1>9. DOMAIN call = Fields /\ call.op = "free" /\ call.s = r /\ call.idx = i
  BY <1>8 DEF NoCall, Fields
<1>10. /\ LockInv' /\ DOMAIN next' = Slabs /\ DOMAIN pc' = Threads /\ DOMAIN loc' = Threads
       /\ pc'[t] = "spin" /\ loc'[t] = [call EXCEPT !.ticket = next[call.s]]
       /\ \A u \in Threads : u # t => pc'[u] = pc[u] /\ loc'[u] = loc[u]
  <2>1. pc[t] \notin {"spin", "unlink", "push", "release"} /\ call.s \in Slabs
    BY <1>2, <1>6, <1>9
  <2> QED
    BY <1>1, <1>2, <1>8, <1>9, <2>1, LockTake
<1>11. DOMAIN loc'[t] = Fields /\ loc'[t].op = "free" /\ loc'[t].s = r /\ loc'[t].idx = i
  BY <1>9, <1>10 DEF Fields
<1>12. held' = [held EXCEPT ![t] = held[t] \ {b}]
  BY <1>3
<1>13. OwnInv' /\ \A s \in Slabs : ListInv(s)'
  BY <1>1, <1>2, <1>4, <1>5, <1>10, <1>11, <1>12, FreeOwn, ZenonT(60)
<1>14. ShapeInv'
  BY <1>1, <1>2, <1>10, <1>11, <1>12 DEF ShapeInv
<1>15. CallInv(t)'
  <2>1. Capacity(arena, r) \in Nat
    BY <1>1, <1>6, FreeFinite
  <2> QED
    BY <1>2, <1>6, <1>10, <1>11, <2>1 DEF CallInv
<1>16. \A u \in Threads : CallInv(u)'
  BY <1>1, <1>2, <1>10, <1>15, CallFrame
<1> QED
  BY <1>10, <1>13, <1>14, <1>16 DEF SlabInv

\* gmk_bump uses no lock and no slab.
LEMMA BumpInvSlab ==
  ASSUME SlabInv, NEW t \in Threads, BumpAdd(t) \/ BumpRollback(t)
  PROVE  SlabInv'
<1>1. ShapeInv /\ LockInv /\ CallInv(t)
  BY DEF SlabInv
<1>2. UNCHANGED <<arena, slab, serving, next, held>> /\ pc[t] \in {"idle", "rollback"}
  BY DEF BumpAdd, BumpRollback
<1>3. /\ DOMAIN pc' = Threads /\ DOMAIN loc' = Threads /\ DOMAIN loc'[t] = Fields
      /\ pc'[t] \in {"idle", "rollback"}
      /\ \A u \in Threads : u # t => pc'[u] = pc[u] /\ loc'[u] = loc[u]
  <2>1. DOMAIN NoCall = Fields
    BY DEF NoCall, Fields
  <2>2. CASE BumpRollback(t)
    BY <1>1, <2>1, <2>2 DEF BumpRollback, Return, Goto, ShapeInv
  <2>3. CASE BumpAdd(t)
    BY <1>1, <1>2, <2>3 DEF BumpAdd, Goto, ShapeInv
  <2> QED
    BY <2>2, <2>3
<1>4. LockInv'
  BY <1>1, <1>2, <1>3, LockKeep
<1>5. CallInv(t)'
  BY <1>3 DEF CallInv
<1>6. \A s \in Slabs : HandOf(t, s) = {} /\ HandOf(t, s)' = {}
  BY <1>2, <1>3 DEF HandOf, InHand
<1>7. DOMAIN next' = Slabs /\ DOMAIN serving' = Slabs
  BY <1>1, <1>2 DEF ShapeInv
<1> QED
  BY <1>2, <1>3, <1>4, <1>5, <1>6, <1>7, QuietStep

LEMMA SlabNext ==
  ASSUME SlabInv, [Next]_vars
  PROVE  SlabInv'
<1>1. CASE BumpReset \/ UNCHANGED vars
  <2>1. UNCHANGED <<arena, slab, serving, next, held, pc, loc>>
    BY <1>1 DEF BumpReset, vars
  <2>2. ShapeInv'
    BY <2>1 DEF SlabInv, ShapeInv
  <2>3. LockInv'
    BY <2>1 DEF SlabInv, LockInv, Contenders, Waiting, Inside, Tickets
  <2>4. \A u \in Threads, s \in Slabs : HandOf(u, s)' = HandOf(u, s)
    BY <2>1 DEF HandOf, InHand
  <2>5. OwnInv' /\ \A s \in Slabs : ListInv(s)'
    BY <2>1, <2>4, OwnQuiet DEF SlabInv
  <2>6. \A u \in Threads : CallInv(u)'
    BY <2>1, CallFrame DEF SlabInv
  <2> QED
    BY <2>2, <2>3, <2>5, <2>6 DEF SlabInv
<1>2. CASE \E t \in Threads : Alloc(t) \/ Free(t) \/ BumpAdd(t) \/ SlabStep(t)
  BY <1>2, AllocInv, FreeInv, BumpInvSlab, EnterInv, AccessInv, ReleaseInv DEF SlabStep
<1> QED
  BY <1>1, <1>2 DEF Next

\* gmk_alloc_init.
LEMMA SlabInit ==
  ASSUME Init
  PROVE  SlabInv
<1>1. ShapeInv
  <2>1. DOMAIN NoCall = Fields
    BY DEF NoCall, Fields
  <2> QED
    BY <2>1 DEF Init, ShapeInv, Slots
<1>2. \A t \in Threads : pc[t] = "idle" /\ held[t] = {}
  BY DEF Init
<1>3. LockInv
  <2>1. ASSUME NEW s \in Slabs PROVE Line(Contenders(s), Tickets, next[s], serving[s])
    <3>1. Contenders(s) = {}
      BY <1>2 DEF Contenders, Waiting, Inside
    <3>2. Cardinality({}) = 0
      BY FS_EmptySet
    <3>3. W \in Nat \ {0}
      BY ThreadsFinite
    <3>4. next[s] = 0 /\ serving[s] = 0 /\ 0 % W = 0 /\ 0 - 0 = 0
      <4>1. 0 % W = 0
        BY <3>3
      <4> QED
        BY <4>1 DEF Init
    <3>5. 0 .. 0 - 1 = {}
      OBVIOUS
    <3> QED
      BY <3>1, <3>2, <3>3, <3>4, <3>5 DEF Line
  <2>2. \A t \in Threads : ~Inside(t)
    BY <1>2 DEF Inside
  <2> QED
    BY <2>1, <2>2 DEF LockInv, Contenders
<1>4. \A t \in Threads : CallInv(t)
  BY <1>2 DEF CallInv
<1>5. \A t \in Threads, s \in Slabs : HeldOf(t, s) = {} /\ HandOf(t, s) = {} /\ Owned(t, s) = {}
  BY <1>2 DEF HeldOf, HandOf, Owned, InHand
<1>6. OwnInv
  BY <1>2, <1>5 DEF OwnInv
<1>7. ASSUME NEW s \in Slabs PROVE ListInv(s)
  <2>1. PICK n \in Nat : n = Capacity(arena, s)
    BY <1>1, FreeFinite
  <2>2. PICK spare \in Nat : spare = IF s = Task THEN SpareTasks ELSE SpareObjs
    BY AllocatorAssumption
  <2>3. PICK m \in Int : m = n - spare - 1
    BY <2>1, <2>2
  <2>4. Kept(arena, s) = 0 .. m
    BY <2>1, <2>2, <2>3 DEF Kept
  <2>5. Cardinality(0 .. m) = IF 0 > m THEN 0 ELSE m - 0 + 1
    BY FS_Interval
  <2>6. PICK k \in Nat : /\ k = Cardinality(Kept(arena, s)) /\ k <= n /\ k >= 0
                        /\ k = (IF 0 > m THEN 0 ELSE m + 1)
    <3>1. m \in Int /\ m + 1 <= n
      BY <2>1, <2>2, <2>3
    <3>2. PICK k \in Nat : k = IF 0 > m THEN 0 ELSE m + 1
      BY <3>1
    <3>3. k <= n /\ k >= 0
      BY <2>1, <3>1, <3>2
    <3>4. k = Cardinality(Kept(arena, s))
      BY <2>4, <2>5, <3>1, <3>2
    <3> QED
      BY <3>2, <3>3, <3>4
  <2>7. PICK e \in Int : e = n - 1
    BY <2>1
  <2>8. FreeObjs(s) = k .. e
    BY <1>5, <2>1, <2>3, <2>4, <2>6, <2>7, SMTT(60) DEF FreeObjs
  <2>9. Cardinality(k .. e) = n - k
    <3>1. Cardinality(k .. e) = IF k > e THEN 0 ELSE e - k + 1
      BY FS_Interval
    <3> QED
      BY <2>1, <2>6, <2>7, <3>1
  <2>10. /\ slab[s].free_head = (IF k = n THEN -1 ELSE k) /\ slab[s].alloc_count = k
         /\ slab[s].free_list = [j \in 0 .. n - 1 |-> IF j = n - 1 THEN -1 ELSE j + 1]
    BY <2>1, <2>6 DEF Init
  <2>11. slab[s].free_list \in [0 .. n - 1 -> -1 .. n - 1]
    BY <2>1, <2>10
  <2>12. \A j \in k .. e : slab[s].free_list[j] = IF j = e THEN -1 ELSE j + 1
    BY <2>1, <2>6, <2>7, <2>10
  <2>13. /\ slab[s].free_head \in (k .. e) \cup {-1}
         /\ \A j \in k .. e : slab[s].free_list[j] \in (k .. e) \cup {-1}
         /\ \A j \in k .. e : slab[s].free_list[j] # -1 => slab[s].free_list[j] # slab[s].free_head
         /\ \A j, l \in k .. e : slab[s].free_list[j] # -1 /\ slab[s].free_list[j] = slab[s].free_list[l] => j = l
    BY <2>1, <2>6, <2>7, <2>10, <2>12, SMTT(60)
  <2>14. slab[s].alloc_count \in Int /\ slab[s].alloc_count + Cardinality(FreeObjs(s)) = n
    BY <2>1, <2>6, <2>8, <2>9, <2>10
  <2>15. Whole(FreeObjs(s), slab[s].free_head, slab[s].free_list)
    <3>1. e >= k - 1 /\ slab[s].free_head = (IF k > e THEN -1 ELSE k)
      BY <2>1, <2>6, <2>7, <2>10
    <3> QED
      BY <2>8, <2>12, <3>1, WholeRow
  <2> QED
    BY <2>1, <2>8, <2>11, <2>13, <2>14, <2>15 DEF ListInv
<1> QED
  BY <1>1, <1>3, <1>4, <1>6, <1>7 DEF SlabInv

-----------------------------------------------------------------------------
(* The bump region *)

Failing == {t \in Threads : pc[t] = "rollback"}

Pieces == [ptr : Nat, size : Nat]

\* The blocks lie one behind the other in the first len bytes from base on.
Placed(bs, base, len) ==
  \A i \in 1 .. Len(bs) :
    /\ bs[i].size > 0 /\ bs[i].ptr >= base /\ bs[i].ptr + bs[i].size <= base + len
    /\ \A j \in 1 .. i - 1 : bs[j].ptr + bs[j].size <= bs[i].ptr

\* As long as the region is not torn, every call that is still to roll back has
\* added the same size to what has been given out for good, and that size
\* does not fit behind it.
BumpState(given) ==
  /\ given \in Nat /\ given <= BumpSize(arena) % Word
  /\ Failing = {} => offset = given
  /\ \A t \in Failing : /\ offset = given + Cardinality(Failing) * loc[t].size
                         /\ given + loc[t].size > BumpSize(arena) % Word
                         /\ loc[t].size > 0
                         /\ \A u \in Failing : loc[u].size = loc[t].size
  /\ Placed(bumped, BumpBase(arena), given)

BumpInv ==
  /\ offset \in 0 .. Word - 1 /\ torn \in BOOLEAN
  /\ bumped \in Seq(Pieces)
  /\ \A t \in Failing : loc[t].size \in Nat
  /\ ~torn => \E given \in Nat : BumpState(given)

LEMMA PieceFields ==
  /\ \A b \in Pieces : b.ptr \in Nat /\ b.size \in Nat
  /\ \A p, n \in Nat : LET b == [ptr |-> p, size |-> n]
                       IN b \in Pieces /\ b.ptr = p /\ b.size = n
BY DEF Pieces

LEMMA PieceSeq ==
  /\ <<>> \in Seq(Pieces)
  /\ \A bs \in Seq(Pieces) :
       /\ Len(bs) \in Nat /\ DOMAIN bs = 1 .. Len(bs)
       /\ \A i \in 1 .. Len(bs) : bs[i] \in Pieces /\ bs[i].ptr \in Nat /\ bs[i].size \in Nat
<1>1. /\ <<>> \in Seq(Pieces)
      /\ \A bs \in Seq(Pieces) :
           /\ Len(bs) \in Nat /\ DOMAIN bs = 1 .. Len(bs)
           /\ \A i \in 1 .. Len(bs) : bs[i] \in Pieces
  OBVIOUS
<1> QED
  BY <1>1, PieceFields, Zenon

LEMMA InWord ==
  ASSUME NEW x \in Int
  PROVE  /\ x % Word \in 0 .. Word - 1
         /\ x \in 0 .. Word - 1 => x % Word = x
<1>1. Word \in Nat \ {0}
  BY AllocatorAssumption
<1> QED
  BY <1>1

\* A size that stays in the word is rounded up.
LEMMA RoundedUp ==
  ASSUME NEW size \in BumpSizes
  PROVE  /\ size \in Nat \ {0} /\ Rounded(size) \in Nat
         /\ size + 7 < Word => Rounded(size) >= size
<1>1. size \in Nat \ {0}
  BY AllocatorAssumption
<1>2. PICK m \in Nat : m = (size + 7) % Word /\ (size + 7 < Word => m = size + 7)
  <2>1. size + 7 \in Int
    BY <1>1
  <2>2. (size + 7) % Word \in 0 .. Word - 1
    BY <2>1, InWord
  <2>3. size + 7 \in 0 .. Word - 1 => (size + 7) % Word = size + 7
    BY <2>1, InWord
  <2>4. Word \in Nat
    BY AllocatorAssumption
  <2> QED
    BY <1>1, <2>2, <2>3, <2>4
<1>3. m \div 8 \in Nat /\ 8 * (m \div 8) >= m - 7
  OBVIOUS
<1> QED
  BY <1>1, <1>2, <1>3 DEF Rounded

LEMMA Region ==
  ASSUME NEW a \in ArenaSizes
  PROVE  /\ BumpSize(a) % Word \in Nat /\ BumpSize(a) % Word <= BumpSize(a)
         /\ BumpSize(a) \in Nat
<1>1. PICK n \in Nat : n = BumpSize(a)
  BY PartSizes
<1>2. Word \in Nat \ {0}
  BY AllocatorAssumption
<1>3. n % Word \in Nat /\ n % Word <= n
  BY <1>2
<1> QED
  BY <1>1, <1>3

LEMMA PlacedNext ==
  ASSUME NEW bs \in Seq(Pieces), NEW base \in Nat, NEW len \in Nat,
         NEW size \in Nat \ {0}, NEW n \in Nat, n >= size, Placed(bs, base, len)
  PROVE  /\ Append(bs, [ptr |-> base + len, size |-> size]) \in Seq(Pieces)
         /\ Placed(Append(bs, [ptr |-> base + len, size |-> size]), base, len + n)
<1>1. PICK b \in Pieces : /\ b = [ptr |-> base + len, size |-> size]
                           /\ b.ptr = base + len /\ b.size = size
  <2>1. base + len \in Nat /\ size \in Nat
    OBVIOUS
  <2> QED
    BY <2>1, PieceFields, ZenonT(60)
<1>2. PICK cs \in Seq(Pieces) : cs = Append(bs, b)
  <2>1. Append(bs, b) \in Seq(Pieces)
    OBVIOUS
  <2> QED
    BY <2>1
<1>3. /\ Len(cs) = Len(bs) + 1 /\ cs[Len(bs) + 1] = b /\ Len(bs) \in Nat
      /\ \A i \in 1 .. Len(bs) : cs[i] = bs[i]
  BY <1>2
<1>4. \A i \in 1 .. Len(bs) : bs[i].ptr \in Nat /\ bs[i].size \in Nat
  BY PieceSeq
<1>5. ASSUME NEW i \in 1 .. Len(bs)
      PROVE  /\ cs[i].size > 0 /\ cs[i].ptr >= base /\ cs[i].ptr + cs[i].size <= base + len
             /\ cs[i].ptr \in Nat /\ cs[i].size \in Nat
             /\ \A j \in 1 .. i - 1 : cs[j].ptr + cs[j].size <= cs[i].ptr
  <2>1. \A j \in 1 .. i - 1 : j \in 1 .. Len(bs)
    BY <1>3
  <2> QED
    BY <1>3, <1>4, <2>1 DEF Placed
<1>6. ASSUME NEW i \in 1 .. Len(bs) + 1
      PROVE  /\ cs[i].size > 0 /\ cs[i].ptr >= base /\ cs[i].ptr + cs[i].size <= base + (len + n)
             /\ \A j \in 1 .. i - 1 : cs[j].ptr + cs[j].size <= cs[i].ptr
  <2>1. CASE i = Len(bs) + 1
    <3>1. cs[i].ptr = base + len /\ cs[i].size = size
      BY <1>1, <1>3, <2>1
    <3>2. \A j \in 1 .. i - 1 : j \in 1 .. Len(bs)
      BY <1>3, <2>1
    <3>3. \A j \in 1 .. i - 1 : cs[j].ptr + cs[j].size <= cs[i].ptr
      BY <1>5, <3>1, <3>2
    <3>4. (base + len) + size <= base + (len + n) /\ base + len >= base
      OBVIOUS
    <3> QED
      BY <3>1, <3>3, <3>4
  <2>2. CASE i \in 1 .. Len(bs)
    <3>0. cs[i].ptr \in Nat /\ cs[i].size \in Nat
      BY <1>5, <2>2, Zenon
    <3>1. PICK e \in Nat : e = cs[i].ptr + cs[i].size
      BY <3>0
    <3>2. e <= base + len
      BY <1>5, <2>2, <3>1
    <3>3. e <= base + (len + n)
      BY <3>2
    <3> QED
      BY <1>5, <2>2, <3>1, <3>3
  <2> QED
    BY <1>3, <2>1, <2>2
<1>7. Placed(cs, base, len + n)
  BY <1>3, <1>6 DEF Placed
<1> QED
  BY <1>1, <1>2, <1>7

LEMMA BumpInitInv ==
  ASSUME Init
  PROVE  BumpInv
<1>1. Failing = {} /\ offset = 0 /\ bumped = <<>> /\ torn = FALSE /\ arena \in ArenaSizes
  BY DEF Init, Failing
<1>2. BumpSize(arena) % Word \in Nat
  BY <1>1, Region
<1>3. BumpState(0)
  BY <1>1, <1>2 DEF BumpState, Placed
<1>4. \E given \in Nat : BumpState(given)
  BY <1>3
<1>5. offset \in 0 .. Word - 1 /\ \A t \in Failing : loc[t].size \in Nat
  BY <1>1, AllocatorAssumption
<1>6. torn \in BOOLEAN /\ bumped \in Seq(Pieces)
  BY <1>1, PieceSeq
<1> QED
  BY <1>1, <1>4, <1>5, <1>6 DEF BumpInv

LEMMA BumpAddInv ==
  ASSUME ShapeInv, BumpInv, NEW t \in Threads, BumpAdd(t)
  PROVE  BumpInv'
<1>1. PICK size \in BumpSizes :
        LET n == Rounded(size) IN
        /\ offset' = (offset + n) % Word
        /\ torn' = (torn \/ size + 7 >= Word \/ offset + n >= Word
                        \/ \E u \in Threads : pc[u] = "rollback" /\ loc[u].size # n)
        /\ IF Fits(arena, offset, n)
           THEN /\ bumped' = Append(bumped, [ptr |-> BumpBase(arena) + offset, size |-> size])
                /\ UNCHANGED <<pc, loc>>
           ELSE /\ Goto(t, "rollback") /\ loc' = [loc EXCEPT ![t].size = n]
                /\ UNCHANGED bumped
  BY DEF BumpAdd
<1>2. PICK n \in Nat : n = Rounded(size) /\ (size + 7 < Word => n >= size)
  BY RoundedUp
<1>3. /\ offset' = (offset + n) % Word
      /\ torn' = (torn \/ size + 7 >= Word \/ offset + n >= Word
                      \/ \E u \in Failing : loc[u].size # n)
  BY <1>1, <1>2 DEF Failing
<1>4. /\ Fits(arena, offset, n) =>
           /\ UNCHANGED <<pc, loc>>
           /\ bumped' = Append(bumped, [ptr |-> BumpBase(arena) + offset, size |-> size])
      /\ ~Fits(arena, offset, n) =>
           /\ pc' = [pc EXCEPT ![t] = "rollback"] /\ loc' = [loc EXCEPT ![t].size = n]
           /\ bumped' = bumped
  BY <1>1, <1>2 DEF Goto
<1>5. /\ pc[t] = "idle" /\ arena' = arena /\ arena \in ArenaSizes
      /\ offset \in 0 .. Word - 1 /\ offset \in Nat /\ size \in Nat \ {0} /\ Word \in Nat
      /\ bumped \in Seq(Pieces)
  BY RoundedUp, AllocatorAssumption DEF BumpAdd, ShapeInv, BumpInv
<1>6. PICK B \in Nat, S \in Nat : B = BumpBase(arena) /\ S = BumpSize(arena) % Word
  BY <1>5, PartSizes, Region
<1>7. /\ Fits(arena, offset, n) => Failing' = Failing
      /\ ~Fits(arena, offset, n) => Failing' = Failing \cup {t}
      /\ t \notin Failing /\ \A u \in Failing : loc'[u].size = loc[u].size
      /\ ~Fits(arena, offset, n) => loc'[t].size = n
  BY <1>4, <1>5 DEF Failing, ShapeInv, Fields
<1>8. \A u \in Failing' : loc'[u].size \in Nat
  BY <1>2, <1>7 DEF BumpInv
<1>9. torn' \in BOOLEAN /\ offset' \in 0 .. Word - 1
  <2>1. torn' \in BOOLEAN
    BY <1>3
  <2>2. offset + n \in Int
    BY <1>5
  <2> QED
    BY <1>3, <2>1, <2>2, InWord
<1>10. bumped' \in Seq(Pieces)
  <2>1. PICK b \in Pieces : b = [ptr |-> BumpBase(arena) + offset, size |-> size]
    <3>1. BumpBase(arena) + offset \in Nat /\ size \in Nat
      BY <1>5, <1>6
    <3> QED
      BY <3>1, PieceFields
  <2>2. Append(bumped, b) \in Seq(Pieces)
    BY <1>5
  <2> QED
    BY <1>4, <1>5, <2>1, <2>2
<1>11. ASSUME ~torn' PROVE \E given \in Nat : BumpState(given)'
  <2>1. /\ ~torn /\ \A u \in Failing : loc[u].size = n
        /\ size + 7 < Word /\ offset + n < Word
    <3>1. PICK p, q \in Int : p = size + 7 /\ q = offset + n
      BY <1>5
    <3>2. ~torn /\ ~(p >= Word) /\ ~(q >= Word) /\ \A u \in Failing : loc[u].size = n
      BY <1>3, <1>11, <3>1, Zenon
    <3> QED
      BY <1>5, <3>1, <3>2
  <2>2. PICK g \in Nat : BumpState(g)
    BY <2>1 DEF BumpInv
  <2>3. n >= size /\ n \in Nat \ {0} /\ (offset + n) % Word = offset + n /\ offset' = offset + n
    <3>1. offset + n \in 0 .. Word - 1
      BY <1>5, <2>1
    <3>2. (offset + n) % Word = offset + n
      BY <3>1, InWord
    <3> QED
      BY <1>2, <1>3, <1>5, <2>1, <3>2
  <2>4. Fits(arena, offset, n) <=> offset + n <= S
    BY <1>6, <2>3 DEF Fits
  <2>5. CASE offset + n <= S
    <3>1. Failing = {}
      <4>1. SUFFICES ASSUME NEW u \in Failing PROVE FALSE
        OBVIOUS
      <4>2. PICK c \in Nat \ {0} : c = Cardinality(Failing)
        <5>1. Failing \in SUBSET Threads
          BY DEF Failing
        <5>2. IsFiniteSet(Failing)
          BY <5>1, ThreadsFinite
        <5>3. Cardinality(Failing) \in Nat /\ (Cardinality(Failing) = 0 <=> Failing = {})
          BY <5>2, FS_EmptySet, FS_CardinalityType
        <5> QED
          BY <4>1, <5>3
      <4>3. offset = g + c * n /\ g + n > S
        BY <1>6, <2>1, <2>2, <4>1, <4>2 DEF BumpState
      <4>4. c * n >= n
        BY <2>3, <4>2
      <4>5. PICK d \in Nat : d = c * n
        BY <4>2
      <4> QED
        BY <1>5, <1>6, <2>5, <4>3, <4>4, <4>5
    <3>2. Failing' = {} /\ offset = g /\ g + n <= S /\ offset' = g + n
      BY <1>6, <1>7, <2>2, <2>3, <2>4, <2>5, <3>1 DEF BumpState
    <3>3. bumped' = Append(bumped, [ptr |-> B + g, size |-> size])
      BY <1>4, <1>6, <2>4, <2>5, <3>2
    <3>4. Placed(bumped, B, g)
      BY <1>6, <2>2 DEF BumpState
    <3>5. Placed(bumped', B, g + n)
      BY <1>5, <2>3, <3>3, <3>4, PlacedNext
    <3>6. BumpState(g + n)'
      BY <1>5, <1>6, <3>2, <3>5 DEF BumpState
    <3>7. g + n \in Nat
      OBVIOUS
    <3> QED
      BY <3>6, <3>7
  <2>6. CASE ~(offset + n <= S)
    <3>1. Failing' = Failing \cup {t} /\ t \notin Failing /\ bumped' = bumped
      BY <1>4, <1>7, <2>4, <2>6
    <3>2. \A u \in Failing' : loc'[u].size = n
      BY <1>7, <2>1, <2>4, <2>6, <3>1
    <3>3. PICK c \in Nat : /\ c = Cardinality(Failing) /\ Cardinality(Failing') = c + 1
                          /\ (c = 0 <=> Failing = {})
      <4>1. Failing \in SUBSET Threads
        BY DEF Failing
      <4>2. IsFiniteSet(Failing)
        BY <4>1, ThreadsFinite
      <4>3. Cardinality(Failing) \in Nat /\ (Cardinality(Failing) = 0 <=> Failing = {})
        BY <4>2, FS_EmptySet, FS_CardinalityType
      <4>4. Cardinality(Failing \cup {t}) = Cardinality(Failing) + 1
        BY <3>1, <4>2, FS_AddElement
      <4> QED
        BY <3>1, <4>3, <4>4
    <3>4. offset = g + c * n /\ g + n > S
      <4>1. CASE Failing = {}
        <5>1. offset = g /\ c = 0
          BY <2>2, <3>3, <4>1 DEF BumpState
        <5> QED
          BY <2>6, <5>1
      <4>2. CASE Failing # {}
        BY <1>6, <2>1, <2>2, <3>3, <4>2 DEF BumpState
      <4> QED
        BY <4>1, <4>2
    <3>5. offset' = g + (c + 1) * n
      <4>1. (c + 1) * n = c * n + n /\ c * n \in Nat
        OBVIOUS
      <4> QED
        BY <2>3, <3>4, <4>1
    <3>6. /\ g <= S /\ Placed(bumped', B, g) /\ Failing' # {}
          /\ \A u \in Failing' : /\ offset' = g + Cardinality(Failing') * loc'[u].size
                                /\ g + loc'[u].size > S /\ loc'[u].size > 0
                                /\ \A v \in Failing' : loc'[v].size = loc'[u].size
      <4>1. g <= S /\ Placed(bumped', B, g)
        BY <1>6, <2>2, <3>1 DEF BumpState
      <4>2. n > 0
        BY <2>3
      <4> QED
        BY <3>1, <3>2, <3>3, <3>4, <3>5, <4>1, <4>2
    <3>7. BumpState(g)'
      BY <1>5, <1>6, <3>6 DEF BumpState
    <3> QED
      BY <3>7
  <2> QED
    BY <2>5, <2>6
<1> QED
  BY <1>8, <1>9, <1>10, <1>11 DEF BumpInv

LEMMA BumpRollbackInv ==
  ASSUME ShapeInv, BumpInv, NEW t \in Threads, BumpRollback(t)
  PROVE  BumpInv'
<1>1. /\ pc[t] = "rollback" /\ offset' = (offset - loc[t].size) % Word /\ arena' = arena
      /\ bumped' = bumped /\ torn' = torn
      /\ pc' = [pc EXCEPT ![t] = "idle"] /\ loc' = [loc EXCEPT ![t] = NoCall]
  BY DEF BumpRollback, Return, Goto
<1>2. /\ t \in Failing /\ Failing' = Failing \ {t}
      /\ \A u \in Failing' : loc'[u].size = loc[u].size
  BY <1>1 DEF Failing, ShapeInv
<1>3. PICK n \in Nat : n = loc[t].size
  BY <1>2 DEF BumpInv
<1>4. /\ offset' \in 0 .. Word - 1 /\ torn' \in BOOLEAN
      /\ bumped' \in Seq(Pieces)
  <2>1. offset - n \in Int
    BY <1>3 DEF BumpInv
  <2>2. (offset - n) % Word \in 0 .. Word - 1
    BY <2>1, InWord
  <2> QED
    BY <1>1, <1>3, <2>2 DEF BumpInv
<1>5. \A u \in Failing' : loc'[u].size \in Nat
  BY <1>2 DEF BumpInv
<1>6. ASSUME ~torn' PROVE \E given \in Nat : BumpState(given)'
  <2>1. PICK g \in Nat : BumpState(g)
    BY <1>1, <1>6 DEF BumpInv
  <2>2. PICK S \in Nat : S = BumpSize(arena) % Word
    <3>1. arena \in ArenaSizes
      BY DEF ShapeInv
    <3> QED
      BY <3>1, Region
  <2>3. PICK c \in Nat \ {0} : /\ c = Cardinality(Failing) /\ Cardinality(Failing') = c - 1
                               /\ (c = 1 => Failing' = {})
    <3>1. Failing \in SUBSET Threads
      BY DEF Failing
    <3>2. IsFiniteSet(Failing)
      BY <3>1, ThreadsFinite
    <3>3. Cardinality(Failing) \in Nat /\ (Cardinality(Failing) = 0 <=> Failing = {})
      BY <3>2, FS_EmptySet, FS_CardinalityType
    <3>4. Cardinality(Failing \ {t}) = Cardinality(Failing) - 1 /\ IsFiniteSet(Failing \ {t})
      BY <1>2, <3>2, FS_RemoveElement
    <3>5. Cardinality(Failing \ {t}) = 0 <=> Failing \ {t} = {}
      BY <3>4, FS_EmptySet
    <3> QED
      BY <1>2, <3>3, <3>4, <3>5
  <2>4. /\ offset = g + c * n /\ g + n > S /\ g <= S /\ n > 0
        /\ \A u \in Failing : loc[u].size = n
    BY <1>2, <1>3, <2>1, <2>2, <2>3 DEF BumpState
  <2>5. offset' = g + (c - 1) * n
    <3>1. (c - 1) * n = c * n - n /\ (c - 1) * n \in Nat
      OBVIOUS
    <3>2. offset - n \in Nat /\ offset - n = g + (c - 1) * n /\ offset \in 0 .. Word - 1
      BY <2>4, <3>1 DEF BumpInv
    <3>3. offset - n \in 0 .. Word - 1
      BY <3>2, AllocatorAssumption
    <3>4. (offset - n) % Word = offset - n
      BY <3>2, <3>3, InWord
    <3> QED
      BY <1>1, <1>3, <3>2, <3>4
  <2>6. \A u \in Failing' : loc'[u].size = n
    BY <1>2, <2>4
  <2>7. Failing' = {} => offset' = g
    <3>1. Failing' = {} => c - 1 = 0
      BY <2>3, FS_EmptySet
    <3>2. 0 * n = 0
      OBVIOUS
    <3> QED
      BY <2>5, <3>1, <3>2
  <2>8. Placed(bumped', BumpBase(arena'), g)
    BY <1>1, <2>1 DEF BumpState
  <2>9. BumpState(g)'
    BY <1>1, <2>2, <2>3, <2>4, <2>5, <2>6, <2>7, <2>8 DEF BumpState
  <2> QED
    BY <2>9
<1> QED
  BY <1>4, <1>5, <1>6 DEF BumpInv

LEMMA BumpResetInv ==
  ASSUME ShapeInv, BumpReset
  PROVE  BumpInv'
<1>1. /\ Failing' = {} /\ offset' = 0 /\ bumped' = <<>> /\ torn' = FALSE
      /\ arena' = arena /\ arena \in ArenaSizes
  BY DEF BumpReset, Failing, ShapeInv
<1>2. BumpSize(arena) % Word \in Nat
  BY <1>1, Region
<1>3. BumpState(0)'
  BY <1>1, <1>2 DEF BumpState, Placed
<1>4. \E given \in Nat : BumpState(given)'
  BY <1>3
<1>5. offset' \in 0 .. Word - 1 /\ \A t \in Failing' : loc'[t].size \in Nat
  BY <1>1, AllocatorAssumption
<1>6. torn' \in BOOLEAN /\ bumped' \in Seq(Pieces)
  BY <1>1, PieceSeq
<1> QED
  BY <1>1, <1>4, <1>5, <1>6 DEF BumpInv

\* What neither touches the region nor a call that is to roll back.
LEMMA BumpKept ==
  ASSUME BumpInv, UNCHANGED <<arena, offset, bumped, torn>>, Failing' = Failing,
         \A t \in Failing : loc'[t].size = loc[t].size
  PROVE  BumpInv'
<1>1. ASSUME NEW g \in Nat, BumpState(g) PROVE BumpState(g)'
  BY <1>1 DEF BumpState
<1>2. /\ offset' \in 0 .. Word - 1 /\ torn' \in BOOLEAN
      /\ bumped' \in Seq(Pieces)
      /\ \A t \in Failing' : loc'[t].size \in Nat
  BY DEF BumpInv
<1>3. ~torn' => \E g \in Nat : BumpState(g)'
  BY <1>1 DEF BumpInv
<1> QED
  BY <1>2, <1>3 DEF BumpInv

\* A step of gmk_alloc or gmk_free leaves the bump region alone.
LEMMA BumpFrame ==
  ASSUME ShapeInv, NEW t \in Threads,
         Alloc(t) \/ Free(t) \/ (SlabStep(t) /\ ~BumpRollback(t))
  PROVE  /\ Failing' = Failing /\ \A u \in Failing : loc'[u].size = loc[u].size
         /\ UNCHANGED <<arena, offset, bumped, torn>>
<1>1. CASE Alloc(t) \/ Free(t)
  <2>1. pc[t] = "idle" /\ UNCHANGED <<arena, offset, bumped, torn>>
    BY <1>1, Zenon DEF Alloc, Free, bump
  <2>2. UNCHANGED <<pc, loc>> \/ \E call : TakeTicket(t, call)
    BY <1>1, Zenon DEF Alloc, Free
  <2>3. pc'[t] # "rollback" /\ \A u \in Threads \ {t} : pc'[u] = pc[u] /\ loc'[u] = loc[u]
    BY <2>1, <2>2 DEF TakeTicket, Goto, ShapeInv
  <2> QED
    BY <2>1, <2>3 DEF Failing
<1>2. CASE SlabStep(t) /\ ~BumpRollback(t)
  <2>1. pc[t] # "rollback" /\ UNCHANGED <<arena, offset, bumped, torn>>
    <3>1. pc[t] \in {"spin", "unlink", "push", "release", "retry"}
      BY <1>2, Zenon DEF SlabStep, SlabEmpty, SlabPick, SlabUnlink, SlabLink, SlabPush, AllocDone,
           AllocFallback, AllocRetry, AllocFails, FreeDone, Acquired, Unlock
    <3>2. UNCHANGED <<arena, bump>>
      <4>1. CASE SlabEmpty(t)
        BY <4>1, Zenon DEF SlabEmpty
      <4>2. CASE SlabPick(t)
        BY <4>2, Zenon DEF SlabPick
      <4>3. CASE SlabUnlink(t)
        BY <4>3, Zenon DEF SlabUnlink
      <4>4. CASE SlabLink(t)
        BY <4>4, Zenon DEF SlabLink
      <4>5. CASE SlabPush(t)
        BY <4>5, Zenon DEF SlabPush
      <4>6. CASE AllocDone(t)
        BY <4>6, Zenon DEF AllocDone
      <4>7. CASE AllocFallback(t)
        BY <4>7, Zenon DEF AllocFallback
      <4>8. CASE AllocRetry(t)
        BY <4>8, Zenon DEF AllocRetry
      <4>9. CASE AllocFails(t)
        BY <4>9, Zenon DEF AllocFails
      <4>10. CASE FreeDone(t)
        BY <4>10, ZenonT(60) DEF FreeDone
      <4> QED
        BY <1>2, <4>1, <4>2, <4>3, <4>4, <4>5, <4>6, <4>7, <4>8, <4>9, <4>10, Zenon
           DEF SlabStep
    <3> QED
      BY <3>1, <3>2 DEF bump
  <2>2. \E l \in {"idle", "spin", "unlink", "push", "release", "retry"} : Goto(t, l)
    BY <1>2 DEF SlabStep, SlabEmpty, SlabPick, SlabUnlink, SlabLink, SlabPush, AllocDone,
         AllocFallback, AllocRetry, AllocFails, FreeDone, TakeTicket, Return
  <2>3. loc' = loc \/ (\E v : loc' = [loc EXCEPT ![t] = v]) \/ \E i : loc' = [loc EXCEPT ![t].idx = i]
    BY <1>2, Zenon DEF SlabStep, SlabEmpty, SlabPick, SlabUnlink, SlabLink, SlabPush, AllocDone,
         AllocFallback, AllocRetry, AllocFails, FreeDone, TakeTicket, Return
  <2>4. pc'[t] # "rollback" /\ \A u \in Threads \ {t} : pc'[u] = pc[u] /\ loc'[u] = loc[u]
    BY <2>2, <2>3 DEF Goto, ShapeInv
  <2>5. \A u \in Threads : (pc'[u] = "rollback") <=> (pc[u] = "rollback")
    BY <2>1, <2>4, Zenon
  <2>6. Failing' = Failing
    BY <2>5 DEF Failing
  <2>7. Failing \subseteq Threads \ {t}
    BY <2>1 DEF Failing
  <2>8. \A u \in Failing : loc'[u].size = loc[u].size
    BY <2>4, <2>7
  <2> QED
    BY <2>1, <2>6, <2>8
<1> QED
  BY <1>1, <1>2

LEMMA BumpNext ==
  ASSUME ShapeInv, BumpInv, [Next]_vars
  PROVE  BumpInv'
<1>1. ASSUME NEW t \in Threads, Alloc(t) \/ Free(t) \/ (SlabStep(t) /\ ~BumpRollback(t))
      PROVE  BumpInv'
  BY <1>1, BumpFrame, BumpKept
<1>2. CASE UNCHANGED vars
  BY <1>2, BumpKept DEF vars, Failing
<1> QED
  BY <1>1, <1>2, BumpAddInv, BumpRollbackInv, BumpResetInv DEF Next

-----------------------------------------------------------------------------
(* The shape of the other variables *)

\* Locks, program counters and the locals that every call has.
Places == {"idle", "spin", "unlink", "push", "release", "retry", "rollback"}
WordsInv ==
  /\ next \in [Slabs -> 0 .. W - 1] /\ serving \in [Slabs -> 0 .. W - 1]
  /\ pc \in [Threads -> Places]
  /\ \A t \in Threads : loc[t].s \in Slabs \cup {None} /\ loc[t].ticket \in 0 .. W - 1

LEMMA Successor ==
  ASSUME NEW x \in 0 .. W - 1
  PROVE  (x + 1) % W \in 0 .. W - 1
<1>1. W \in Nat \ {0}
  BY ThreadsFinite
<1> QED
  BY <1>1

LEMMA WordsTake ==
  ASSUME ShapeInv, WordsInv, NEW t \in Threads, NEW call, DOMAIN call = Fields,
         TakeTicket(t, call), serving' = serving, CallInv(t)'
  PROVE  WordsInv'
<1>1. pc' \in [Threads -> Places] /\ pc'[t] = "spin"
  BY DEF TakeTicket, Goto, WordsInv, Places
<1>2. next' \in [Slabs -> 0 .. W - 1]
  BY Successor DEF TakeTicket, WordsInv
<1>3. loc'[t] = [call EXCEPT !.ticket = next[call.s]] /\ \A u \in Threads \ {t} : loc'[u] = loc[u]
  BY DEF TakeTicket, ShapeInv
<1>4. loc'[t].s = call.s /\ loc'[t].ticket = next[call.s]
  BY <1>3 DEF Fields
<1>5. loc'[t].s \in Slabs
  BY <1>1 DEF CallInv
<1>6. loc'[t].ticket \in 0 .. W - 1
  BY <1>4, <1>5 DEF WordsInv
<1> QED
  BY <1>1, <1>2, <1>3, <1>5, <1>6 DEF WordsInv

\* A step that leaves the tickets alone and keeps or ends its call.
LEMMA WordsKeep ==
  ASSUME ShapeInv, WordsInv, NEW t \in Threads, next' = next, serving' \in [Slabs -> 0 .. W - 1],
         NEW l \in Places, pc' = pc \/ Goto(t, l),
         \/ loc' = loc
         \/ \E i : loc' = [loc EXCEPT ![t].idx = i]
         \/ \E n : loc' = [loc EXCEPT ![t].size = n]
         \/ loc' = [loc EXCEPT ![t] = NoCall]
  PROVE  WordsInv'
<1>1. pc' \in [Threads -> Places]
  BY DEF Goto, WordsInv
<1>2. 0 \in 0 .. W - 1
  BY ThreadsFinite
<1>3. ASSUME NEW u \in Threads
      PROVE  loc'[u].s \in Slabs \cup {None} /\ loc'[u].ticket \in 0 .. W - 1
  BY <1>2 DEF WordsInv, ShapeInv, Fields, NoCall
<1> QED
  BY <1>1, <1>3 DEF WordsInv

LEMMA WordsNext ==
  ASSUME SlabInv, SlabInv', WordsInv, [Next]_vars
  PROVE  WordsInv'
<1>0. /\ ShapeInv /\ \A t \in Threads : CallInv(t)'
      /\ serving \in [Slabs -> 0 .. W - 1]
  BY DEF SlabInv, WordsInv
<1>1. ASSUME NEW t \in Threads, Alloc(t) PROVE WordsInv'
  <2>1. DOMAIN NoCall = Fields
    BY DEF NoCall, Fields
  <2>2. CASE UNCHANGED <<next, loc, pc>>
    BY <1>1, <2>2 DEF Alloc, WordsInv
  <2>3. ASSUME NEW call, DOMAIN call = Fields, TakeTicket(t, call) PROVE WordsInv'
    BY <1>0, <1>1, <2>3, WordsTake DEF Alloc
  <2> QED
    BY <1>1, <2>1, <2>2, <2>3 DEF Alloc
<1>2. ASSUME NEW t \in Threads, Free(t) PROVE WordsInv'
  <2>1. DOMAIN NoCall = Fields
    BY DEF NoCall, Fields
  <2>2. CASE UNCHANGED <<next, loc, pc>>
    BY <1>2, <2>2 DEF Free, WordsInv
  <2>3. ASSUME NEW call, DOMAIN call = Fields, TakeTicket(t, call) PROVE WordsInv'
    BY <1>0, <1>2, <2>3, WordsTake DEF Free
  <2> QED
    BY <1>2, <2>1, <2>2, <2>3 DEF Free
<1>3. ASSUME NEW t \in Threads, AllocRetry(t) PROVE WordsInv'
  <2>1. PICK call : DOMAIN call = Fields /\ TakeTicket(t, call)
    BY <1>0, <1>3 DEF AllocRetry, ShapeInv
  <2> QED
    BY <1>0, <1>3, <2>1, WordsTake DEF AllocRetry
<1>4. ASSUME NEW t \in Threads,
             SlabEmpty(t) \/ SlabPick(t) \/ SlabUnlink(t) \/ SlabLink(t) \/ SlabPush(t)
      PROVE  WordsInv'
  <2>1. next' = next /\ serving' = serving
    BY <1>4, SMTT(60) DEF SlabEmpty, SlabPick, SlabUnlink, SlabLink, SlabPush
  <2>2. \E l \in Places : Goto(t, l)
    BY <1>4, SMTT(60) DEF SlabEmpty, SlabPick, SlabUnlink, SlabLink, SlabPush, Places
  <2>3. loc' = loc \/ \E i : loc' = [loc EXCEPT ![t].idx = i]
    BY <1>4 DEF SlabEmpty, SlabPick, SlabUnlink, SlabLink, SlabPush
  <2> QED
    BY <1>0, <2>1, <2>2, <2>3, WordsKeep, SMTT(60)
<1>5. ASSUME NEW t \in Threads, AllocDone(t) \/ AllocFallback(t) \/ AllocFails(t) \/ FreeDone(t)
      PROVE  WordsInv'
  <2>1. next' = next /\ Unlock(t)
    BY <1>5 DEF AllocDone, AllocFallback, AllocFails, FreeDone
  <2>2. serving' \in [Slabs -> 0 .. W - 1]
    BY <1>0, <2>1, Successor DEF Unlock
  <2>3. \E l \in Places : Goto(t, l)
    BY <1>5 DEF AllocDone, AllocFallback, AllocFails, FreeDone, Return, Places
  <2>4. loc' = loc \/ loc' = [loc EXCEPT ![t] = NoCall]
    BY <1>5 DEF AllocDone, AllocFallback, AllocFails, FreeDone, Return
  <2> QED
    BY <1>0, <2>1, <2>2, <2>3, <2>4, WordsKeep
<1>6. ASSUME NEW t \in Threads, BumpAdd(t) \/ BumpRollback(t) PROVE WordsInv'
  <2>1. next' = next /\ serving' = serving
    BY <1>6 DEF BumpAdd, BumpRollback
  <2>2. "idle" \in Places /\ (pc' = pc \/ \E l \in Places : Goto(t, l))
    BY <1>6 DEF BumpAdd, BumpRollback, Return, Places
  <2>3. \/ loc' = loc \/ loc' = [loc EXCEPT ![t] = NoCall]
        \/ \E n : loc' = [loc EXCEPT ![t].size = n]
    BY <1>6 DEF BumpAdd, BumpRollback, Return
  <2> QED
    BY <1>0, <2>1, <2>2, <2>3, WordsKeep
<1>7. CASE BumpReset \/ UNCHANGED vars
  BY <1>7 DEF BumpReset, vars, WordsInv
<1> QED
  BY <1>1, <1>2, <1>3, <1>4, <1>5, <1>6, <1>7 DEF Next, SlabStep

LEMMA WordsInit ==
  ASSUME Init
  PROVE  WordsInv
<1>1. 0 \in 0 .. W - 1
  BY ThreadsFinite
<1> QED
  BY <1>1 DEF Init, WordsInv, Places, NoCall

-----------------------------------------------------------------------------
(* The theorems *)

IndInv == SlabInv /\ BumpInv /\ WordsInv

\* The inductive invariant holds in every state of the allocators, with gmk_alloc,
\* gmk_free, gmk_bump_alloc and gmk_bump_reset of all threads interleaved at
\* every access to shared memory.
THEOREM Invariance == Spec => []IndInv
<1>1. Init => IndInv
  BY SlabInit, BumpInitInv, WordsInit DEF IndInv
<1>2. IndInv /\ [Next]_vars => IndInv'
  BY SlabNext, BumpNext, WordsNext DEF IndInv, SlabInv
<1> QED
  BY <1>1, <1>2, PTL DEF Spec

\* The lock of a slab (gmk_spinlock_acquire and _release): the waiting and the one
\* inside hold exactly the tickets from the one served up to the next, whatever
\* the number of threads, also when the ticket counter wraps round.
THEOREM LockOrder == Spec => []TicketsInOrder
<1>1. IndInv => TicketsInOrder
  <2>1. SUFFICES ASSUME LockInv, NEW s \in Slabs
        PROVE  /\ {loc[t].ticket : t \in Contenders(s)} =
                    {(serving[s] + k) % W : k \in 0 .. Cardinality(Contenders(s)) - 1}
               /\ (next[s] - serving[s]) % W = Cardinality(Contenders(s))
               /\ \A t \in Contenders(s) : Inside(t) => loc[t].ticket = serving[s]
    BY DEF IndInv, SlabInv, TicketsInOrder
  <2>2. {Tickets[t] : t \in Contenders(s)} = {loc[t].ticket : t \in Contenders(s)}
    BY DEF Tickets, Contenders
  <2> QED
    BY <2>1, <2>2 DEF LockInv, Line
<1> QED
  BY <1>1, Invariance, PTL

\* Mutual exclusion: no two threads are in the critical sections of
\* gmk_slab_alloc and gmk_slab_free of the same slab at once.
Exclusive == \A t, u \in Threads : Inside(t) /\ Inside(u) /\ loc[t].s = loc[u].s => t = u
THEOREM MutualExclusion == Spec => []Exclusive
<1>1. IndInv => Exclusive
  <2>1. SUFFICES ASSUME LockInv, NEW t \in Threads, NEW u \in Threads, CallInv(t),
                        Inside(t), Inside(u), loc[t].s = loc[u].s
                 PROVE  t = u
    BY DEF IndInv, SlabInv, Exclusive
  <2>2. loc[t].s \in Slabs
    BY <2>1 DEF CallInv, Inside
  <2> QED
    BY <2>1, <2>2, Alone DEF Inside
<1> QED
  BY <1>1, Invariance, PTL

\* Two blocks that gmk_alloc returned are different objects.
LEMMA BlocksApart ==
  ASSUME SlabInv, NEW t \in Threads, NEW u \in Threads, NEW b \in held[t], NEW c \in held[u],
         ~(t = u /\ b = c)
  PROVE  b.ptr + b.size <= c.ptr \/ c.ptr + c.size <= b.ptr
<1>1. arena \in ArenaSizes /\ OwnInv
  BY DEF SlabInv, ShapeInv
<1>2. PICK s, i : /\ s = OwnerOf(arena, b.ptr, b.size) /\ i = IndexIn(arena, s, b.ptr)
                  /\ s \in Slabs /\ i \in 0 .. Capacity(arena, s) - 1
                  /\ b.ptr = ObjectAt(arena, s, i) /\ b.size \in Nat /\ b.size <= ObjSize(s)
  BY <1>1 DEF OwnInv, BlockOK
<1>3. PICK r, j : /\ r = OwnerOf(arena, c.ptr, c.size) /\ j = IndexIn(arena, r, c.ptr)
                  /\ r \in Slabs /\ j \in 0 .. Capacity(arena, r) - 1
                  /\ c.ptr = ObjectAt(arena, r, j) /\ c.size \in Nat /\ c.size <= ObjSize(r)
  BY <1>1 DEF OwnInv, BlockOK
<1>4. ~(s = r /\ i = j)
  <2>1. SUFFICES ASSUME s = r, i = j PROVE FALSE
    OBVIOUS
  <2>2. CASE t = u
    <3>1. SamePlace(b, c)
      BY <1>2, <1>3, <2>1 DEF SamePlace
    <3> QED
      BY <1>1, <2>2, <3>1 DEF OwnInv
  <2>3. CASE t # u
    <3>1. i \in Owned(t, s) /\ i \in Owned(u, s)
      BY <1>2, <1>3, <2>1 DEF Owned, HeldOf
    <3>2. Owned(t, s) \cap Owned(u, s) = {}
      BY <1>1, <1>2, <2>3 DEF OwnInv
    <3> QED
      BY <3>1, <3>2
  <2> QED
    BY <2>2, <2>3
<1> QED
  BY <1>1, <1>2, <1>3, <1>4, ObjectsApart

\* A block lies over no free list and below the bump region.
LEMMA BlockPlace ==
  ASSUME SlabInv, NEW t \in Threads, NEW b \in held[t]
  PROVE  /\ b.ptr \in Nat /\ b.size \in Nat \ {0} /\ b.ptr + b.size <= BumpBase(arena)
         /\ \A r \in Slabs : \/ b.ptr + b.size <= ListBase(arena, r)
                              \/ ListBase(arena, r) + 4 * Capacity(arena, r) <= b.ptr
<1>1. arena \in ArenaSizes /\ OwnInv
  BY DEF SlabInv, ShapeInv
<1>2. PICK s, i : /\ s \in Slabs /\ i \in 0 .. Capacity(arena, s) - 1
                  /\ b.ptr = ObjectAt(arena, s, i)
                  /\ b.size \in Nat \ {0} /\ b.size <= ObjSize(s)
  BY <1>1 DEF OwnInv, BlockOK
<1>3. ObjectAt(arena, s, i) \in Nat
  BY <1>1, <1>2, ObjectIn
<1>4. b.size \in Nat
  BY <1>2
<1> QED
  BY <1>1, <1>2, <1>3, <1>4, ObjectsApart

\* What gmk_bump has not torn lies in the bump region, below the offset, one block
\* behind the other.
LEMMA BumpPlace ==
  ASSUME ShapeInv, BumpInv, ~torn, NEW i \in DOMAIN bumped
  PROVE  /\ bumped[i].ptr >= BumpBase(arena) /\ End(bumped[i]) <= arena
         /\ End(bumped[i]) <= BumpBase(arena) + offset
         /\ \A j \in 1 .. i - 1 : End(bumped[j]) <= bumped[i].ptr
<1>1. PICK g \in Nat : BumpState(g)
  BY DEF BumpInv
<1>2. PICK B \in Nat, S \in Nat : B = BumpBase(arena) /\ S = BumpSize(arena) /\ B + S = arena
  BY PartSizes DEF ShapeInv
<1>3. g <= S
  <2>1. PICK m \in Nat : m = BumpSize(arena) % Word /\ m <= S
    BY <1>2, Region DEF ShapeInv
  <2> QED
    BY <1>1, <2>1 DEF BumpState
<1>4. /\ i \in 1 .. Len(bumped) /\ bumped[i].ptr \in Nat /\ bumped[i].size \in Nat
      /\ \A j \in 1 .. i - 1 : bumped[j].ptr \in Nat /\ bumped[j].size \in Nat
  <2>1. bumped \in Seq(Pieces)
    BY DEF BumpInv
  <2>2. i \in 1 .. Len(bumped) /\ Len(bumped) \in Nat
    BY <2>1, PieceSeq
  <2>3. \A j \in 1 .. i - 1 : j \in 1 .. Len(bumped)
    BY <2>2
  <2> QED
    BY <2>1, <2>2, <2>3, PieceSeq
<1>5. /\ bumped[i].ptr >= B /\ bumped[i].ptr + bumped[i].size <= B + g
      /\ \A j \in 1 .. i - 1 : bumped[j].ptr + bumped[j].size <= bumped[i].ptr
  BY <1>1, <1>2, <1>4 DEF BumpState, Placed
<1>6. offset \in Int /\ g <= offset
  <2>1. CASE Failing = {}
    BY <1>1, <2>1 DEF BumpState
  <2>2. ASSUME NEW t \in Failing PROVE offset \in Int /\ g <= offset
    <3>1. PICK n \in Nat : n = loc[t].size
      BY DEF BumpInv
    <3>2. Failing \in SUBSET Threads
      BY DEF Failing
    <3>3. PICK c \in Nat : c = Cardinality(Failing)
      BY <3>2, ThreadsFinite
    <3>4. offset = g + c * n
      BY <1>1, <3>1, <3>3 DEF BumpState
    <3>5. c * n \in Nat
      OBVIOUS
    <3> QED
      BY <3>4, <3>5
  <2> QED
    BY <2>1, <2>2
<1>7. bumped[i].ptr + bumped[i].size <= arena /\ bumped[i].ptr + bumped[i].size <= B + offset
  <2>1. PICK e \in Nat : e = bumped[i].ptr + bumped[i].size
    BY <1>4
  <2>2. e <= B + g
    BY <1>5, <2>1
  <2>3. e <= B + S /\ e <= B + offset
    BY <1>2, <1>3, <1>6, <2>2
  <2> QED
    BY <1>2, <2>1, <2>3
<1> QED
  BY <1>2, <1>5, <1>7 DEF End

\* The bump region: as long as the calls that fail together ask for one size and
\* no sum leaves its word, every block of gmk_bump_alloc lies in the region, below
\* the offset and behind all earlier ones, for every arena size, any sizes and
\* any number of threads, however their fetch-and-adds and roll-backs interleave.
THEOREM BumpBlocks == Spec => []BumpApart
<1>1. IndInv => BumpApart
  BY BumpPlace DEF IndInv, SlabInv, BumpApart
<1> QED
  BY <1>1, Invariance, PTL

\* No byte of gmk_alloc has two owners: its blocks and the slabs' free lists are
\* apart and in front of the bump region, and no block is held twice, for every
\* arena size, any sizes and any number of threads.
THEOREM Disjoint == Spec => []BlocksDisjoint
<1>1. IndInv => BlocksDisjoint
  <2>1. SUFFICES ASSUME IndInv PROVE BlocksDisjoint
    OBVIOUS
  <2>2. SlabInv /\ ShapeInv /\ arena \in ArenaSizes
    BY <2>1 DEF IndInv, SlabInv, ShapeInv
  <2>3. PICK B \in Nat : B = BumpBase(arena)
    BY <2>2, PartSizes
  <2>4. ASSUME NEW y \in Lists
        PROVE  y[1] \in Nat /\ y[2] \in Nat /\ y[1] + y[2] <= B
    <3>1. PICK r \in Slabs : y = <<ListBase(arena, r), 4 * Capacity(arena, r)>>
      BY DEF Lists
    <3>2. /\ ListBase(arena, r) \in Nat /\ Capacity(arena, r) \in Nat
          /\ ListBase(arena, r) + 4 * Capacity(arena, r) <= SlabEnd(arena, r)
          /\ SlabEnd(arena, r) \in Nat
      BY <2>2, SlabFits DEF SlabEnd
    <3>3. SlabEnd(arena, r) <= B
      BY <2>2, <2>3, SlabsApart
    <3>4. y[1] = ListBase(arena, r) /\ y[2] = 4 * Capacity(arena, r)
      BY <3>1
    <3> QED
      BY <2>3, <3>2, <3>3, <3>4
  <2>5. ASSUME NEW x \in Blocks
        PROVE  \E t \in Threads : \E b \in held[t] : x = <<b.ptr, b.size>>
    BY DEF Blocks
  <2>6. ASSUME NEW x \in Blocks
        PROVE  /\ x[1] \in Nat /\ x[2] \in Nat \ {0} /\ x[1] + x[2] <= B
               /\ \A y \in Lists : Apart(x, y)
               /\ \A y \in Blocks : x # y => Apart(x, y)
    <3>1. PICK t \in Threads : \E b \in held[t] : x = <<b.ptr, b.size>>
      BY <2>5
    <3>2. PICK b \in held[t] : x = <<b.ptr, b.size>>
      BY <3>1
    <3>3. x[1] = b.ptr /\ x[2] = b.size
      BY <3>2
    <3>4. /\ b.ptr \in Nat /\ b.size \in Nat \ {0} /\ b.ptr + b.size <= B
          /\ \A r \in Slabs : \/ b.ptr + b.size <= ListBase(arena, r)
                              \/ ListBase(arena, r) + 4 * Capacity(arena, r) <= b.ptr
      BY <2>2, <2>3, BlockPlace
    <3>5. ASSUME NEW y \in Lists PROVE Apart(x, y)
      <4>1. PICK r \in Slabs : y = <<ListBase(arena, r), 4 * Capacity(arena, r)>>
        BY DEF Lists
      <4>2. y[1] = ListBase(arena, r) /\ y[2] = 4 * Capacity(arena, r)
        BY <4>1
      <4> QED
        BY <3>3, <3>4, <4>2 DEF Apart
    <3>6. ASSUME NEW y \in Blocks, x # y PROVE Apart(x, y)
      <4>1. PICK u \in Threads : \E c \in held[u] : y = <<c.ptr, c.size>>
        BY <2>5
      <4>2. PICK c \in held[u] : y = <<c.ptr, c.size>>
        BY <4>1
      <4>3. y[1] = c.ptr /\ y[2] = c.size /\ b # c
        BY <3>2, <3>6, <4>2
      <4>4. b.ptr + b.size <= c.ptr \/ c.ptr + c.size <= b.ptr
        BY <2>2, <4>3, BlocksApart
      <4> QED
        BY <3>3, <4>3, <4>4 DEF Apart
    <3> QED
      BY <3>3, <3>4, <3>5, <3>6
  <2>7. \A x \in Blocks \cup Lists : x[1] >= 0 /\ x[1] + x[2] <= BumpBase(arena)
    BY <2>3, <2>4, <2>6
  <2>8. ASSUME NEW t \in Threads, NEW u \in Threads, t # u PROVE held[t] \cap held[u] = {}
    <3>1. SUFFICES ASSUME NEW b \in held[t], b \in held[u] PROVE FALSE
      OBVIOUS
    <3>2. b.ptr + b.size <= b.ptr
      BY <2>2, <2>8, <3>1, BlocksApart
    <3>3. b.ptr \in Nat /\ b.size \in Nat \ {0}
      BY <2>2, BlockPlace
    <3> QED
      BY <3>2, <3>3
  <2>9. \A x \in Blocks, y \in Blocks \cup Lists : x # y => Apart(x, y)
    BY <2>6
  <2> QED
    BY <2>7, <2>8, <2>9 DEF BlocksDisjoint
<1> QED
  BY <1>1, Invariance, PTL

\* alloc_count of a slab never passes its capacity.
LEMMA Counting ==
  ASSUME ShapeInv, NEW s \in Slabs, ListInv(s)
  PROVE  /\ slab[s].alloc_count = Capacity(arena, s) - Cardinality(FreeObjs(s))
         /\ slab[s].alloc_count \in 0 .. Capacity(arena, s)
<1>1. /\ Cardinality(FreeObjs(s)) \in Nat
      /\ Cardinality(FreeObjs(s)) <= Capacity(arena, s) /\ Capacity(arena, s) \in Nat
  BY FreeFinite
<1>2. /\ slab[s].alloc_count \in Int
      /\ slab[s].alloc_count + Cardinality(FreeObjs(s)) = Capacity(arena, s)
  BY DEF ListInv
<1> QED
  BY <1>1, <1>2

\* Every variable stays in its range: head and links of a free list are objects
\* or the end, alloc_count neither drifts below 0 nor passes the capacity,
\* tickets and the bump offset stay in their words.
THEOREM TypeCorrect == Spec => []TypeOK
<1>1. IndInv => TypeOK
  <2>1. SUFFICES ASSUME IndInv PROVE TypeOK
    OBVIOUS
  <2>2. ShapeInv /\ WordsInv /\ BumpInv
    BY <2>1 DEF IndInv, SlabInv
  <2>3. ASSUME NEW s \in Slabs
        PROVE  LET n == Capacity(arena, s) IN
               /\ slab[s].free_head \in -1 .. n - 1
               /\ slab[s].free_list \in [0 .. n - 1 -> -1 .. n - 1]
               /\ slab[s].alloc_count \in 0 .. n
    <3>1. ListInv(s)
      BY <2>1 DEF IndInv, SlabInv
    <3>2. slab[s].alloc_count \in 0 .. Capacity(arena, s)
      BY <2>2, <3>1, Counting
    <3>3. Capacity(arena, s) \in Nat /\ FreeObjs(s) \subseteq 0 .. Capacity(arena, s) - 1
      BY <2>2, FreeFinite DEF FreeObjs
    <3>4. slab[s].free_head \in -1 .. Capacity(arena, s) - 1
      BY <3>1, <3>3 DEF ListInv
    <3> QED
      BY <3>1, <3>2, <3>4 DEF ListInv
  <2>4. offset \in 0 .. Word - 1
    BY <2>2 DEF BumpInv
  <2>5. torn \in BOOLEAN
    BY <2>2 DEF BumpInv
  <2> QED
    BY <2>2, <2>3, <2>4, <2>5 DEF TypeOK, ShapeInv, WordsInv, Places
<1> QED
  BY <1>1, Invariance, PTL

\* The objects given out are the ones that are not free.
LEMMA GivenFree ==
  ASSUME ShapeInv, OwnInv, NEW s \in Slabs
  PROVE  LET all == 0 .. Capacity(arena, s) - 1
         IN GivenOut(s) \subseteq all /\ all \ GivenOut(s) = FreeObjs(s)
<1>1. PICK n \in Nat : n = Capacity(arena, s)
  BY FreeFinite
<1>2. Kept(arena, s) \subseteq 0 .. n - 1
  BY <1>1, AllocatorAssumption DEF Kept
<1>3. \A t \in Threads : Owned(t, s) \subseteq 0 .. n - 1
  BY <1>1 DEF OwnInv
<1>4. GivenOut(s) = Kept(arena, s) \cup UNION {Owned(t, s) : t \in Threads}
  BY DEF GivenOut, Owned, HeldOf, HandOf, InHand
<1>5. GivenOut(s) \subseteq 0 .. n - 1
  BY <1>2, <1>3, <1>4
<1>6. (0 .. n - 1) \ GivenOut(s) = FreeObjs(s)
  BY <1>1, <1>4 DEF FreeObjs
<1> QED
  BY <1>1, <1>5, <1>6

LEMMA ListsExact ==
  ASSUME IndInv
  PROVE  FreeListsExact
<1>1. SUFFICES ASSUME NEW s \in Slabs
      PROVE  LET given == GivenOut(s)
                 chain == ((0 .. Capacity(arena, s) - 1) \ given) \cup {-1}
             IN /\ Linked(s, chain)
                /\ \A C \in SUBSET chain : Linked(s, C) => C = chain
                /\ slab[s].alloc_count = Cardinality(given)
  BY DEF FreeListsExact
<1>2. ShapeInv /\ OwnInv /\ ListInv(s)
  BY DEF IndInv, SlabInv
<1>3. PICK n \in Nat : n = Capacity(arena, s)
  BY <1>2, FreeFinite
<1>4. GivenOut(s) \subseteq 0 .. n - 1 /\ (0 .. n - 1) \ GivenOut(s) = FreeObjs(s)
  BY <1>2, <1>3, GivenFree
<1>5. Linked(s, FreeObjs(s) \cup {-1})
  BY <1>2 DEF ListInv, Linked
<1>6. ASSUME NEW C \in SUBSET (FreeObjs(s) \cup {-1}), Linked(s, C)
      PROVE  C = FreeObjs(s) \cup {-1}
  <2>1. Whole(FreeObjs(s), slab[s].free_head, slab[s].free_list)
    BY <1>2 DEF ListInv
  <2> QED
    BY <1>6, <2>1, Zenon DEF Whole, Linked
<1>7. slab[s].alloc_count = Cardinality(GivenOut(s))
  <2>1. PICK A, G : A = 0 .. n - 1 /\ G = GivenOut(s)
    OBVIOUS
  <2>2. IsFiniteSet(A) /\ Cardinality(A) = n
    <3>1. n - 1 \in Int /\ (IF 0 > n - 1 THEN 0 ELSE (n - 1) - 0 + 1) = n
      OBVIOUS
    <3> QED
      BY <2>1, <3>1, FS_Interval
  <2>3. IsFiniteSet(G) /\ Cardinality(G) \in Nat
    BY <1>4, <2>1, <2>2, FS_Subset, FS_CardinalityType
  <2>4. Cardinality(FreeObjs(s)) = n - Cardinality(G)
    <3>1. A \cap G = G /\ A \ G = FreeObjs(s)
      BY <1>4, <2>1
    <3>2. Cardinality(A \ G) = Cardinality(A) - Cardinality(A \cap G)
      BY <2>2, FS_Difference
    <3> QED
      BY <2>2, <3>1, <3>2, Zenon
  <2>5. slab[s].alloc_count = n - Cardinality(FreeObjs(s))
    BY <1>2, <1>3, Counting
  <2> QED
    BY <2>1, <2>3, <2>4, <2>5
<1> QED
  BY <1>3, <1>4, <1>5, <1>6, <1>7

\* Every object of a slab is on its free list or with exactly one owner, the list
\* ends and its links reach all of it, alloc_count is the number of objects
\* given out, and no byte of a block has two owners: for every arena, all sizes and any
\* number of threads, at every step of gmk_slab_alloc and gmk_slab_free.
THEOREM Intact == Spec => []MemoryIntact
<1>1. IndInv => FreeListsExact
  BY ListsExact
<1> QED
  BY <1>1, Invariance, Disjoint, PTL DEF MemoryIntact
=============================================================================
