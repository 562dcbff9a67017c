-------------------------- MODULE MpmcRing_proofs --------------------------
(***************************************************************************)
(* For any number of threads, any capacity that is at least 2 and divides  *)
(* W, any starting position and any number of operations, provided that    *)
(* fewer than about W / 2 claims happen during one call: the ring never    *)
(* holds more than Cap elements, no two threads touch the same cell, and   *)
(* there is no ABA problem.                                                *)
(***************************************************************************)
EXTENDS MpmcRing, TLAPS

\* The ring is not the degenerate one of capacity 1, and no call stalls for
\* half a turn of the counters.
Sized == Cap >= 2 /\ 2 * (Window + Cap) <= W

-----------------------------------------------------------------------------
(* Cells and words *)

\* Every integer has a quotient and a remainder by a positive n.
LEMMA DivMod ==
  ASSUME NEW n \in Nat \ {0}, NEW a \in Int
  PROVE  /\ a % n \in 0 .. n - 1
         /\ \E q \in Int : a = n * q + (a % n)
<1>1. a = n * (a \div n) + (a % n) /\ a \div n \in Int
  OBVIOUS
<1>2. a % n \in 0 .. n - 1
  OBVIOUS
<1> QED
  BY <1>1, <1>2

\* Numbers less than n apart are told apart by their remainders.
LEMMA ModInjective ==
  ASSUME NEW n \in Nat \ {0}, NEW a \in Int, NEW b \in Int,
         a % n = b % n, a - b < n, b - a < n
  PROVE  a = b
<1>1. PICK k \in Int : a - b = n * k
  <2>1. a = n * (a \div n) + (a % n) /\ b = n * (b \div n) + (b % n)
    OBVIOUS
  <2>2. a - b = n * ((a \div n) - (b \div n)) /\ (a \div n) - (b \div n) \in Int
    BY <2>1
  <2> QED
    BY <2>2
<1>2. k >= 1 => n * k >= n
  OBVIOUS
<1>3. k <= -1 => n * k <= -n
  OBVIOUS
<1> QED
  BY <1>1, <1>2, <1>3

\* The remainder is the only r in 0 .. n - 1 that differs by a multiple of n.
LEMMA ModUnique ==
  ASSUME NEW n \in Nat \ {0}, NEW a \in Int, NEW q \in Int, NEW r \in 0 .. n - 1,
         a = n * q + r
  PROVE  a % n = r
OBVIOUS

\* Going round once does not change the remainder.
LEMMA ModShift ==
  ASSUME NEW n \in Nat \ {0}, NEW a \in Int
  PROVE  (a + n) % n = a % n
<1>1. PICK q \in Int, m \in 0 .. n - 1 : m = a % n /\ a = n * q + m
  BY DivMod
<1>2. a + n = n * (q + 1) + m /\ a + n \in Int /\ q + 1 \in Int
  BY <1>1
<1>3. (a + n) % n = m
  BY <1>2, ModUnique, Zenon
<1> QED
  BY <1>1, <1>3

\* A position has a cell; positions less than Cap apart have different ones;
\* the position one lap earlier has the same one.
LEMMA CellFacts ==
  /\ \A p \in Int : Cell(p) \in Cells
  /\ \A p, q \in Int : Cell(p) = Cell(q) /\ p - q < Cap /\ q - p < Cap => p = q
  /\ \A p \in Int : Cell(p - Cap) = Cell(p)
<1> USE RingAssumption
<1>1. ASSUME NEW p \in Int PROVE Cell(p) \in Cells
  BY DivMod DEF Cell, Cells
<1>2. ASSUME NEW p \in Int, NEW q \in Int, Cell(p) = Cell(q),
             p - q < Cap, q - p < Cap
      PROVE  p = q
  BY <1>2, ModInjective DEF Cell
<1>3. ASSUME NEW p \in Int PROVE Cell(p - Cap) = Cell(p)
  <2>1. ((p - Cap) + Cap) % Cap = (p - Cap) % Cap
    BY ModShift, p - Cap \in Int
  <2> QED
    BY <2>1 DEF Cell
<1> QED
  BY <1>1, <1>2, <1>3

\* The code's comparisons of nearby counters are right in spite of the wrap.
LEMMA DiffExact ==
  ASSUME NEW a \in Int, NEW b \in Int, W > 0, 2 * (a - b) < W, -W <= 2 * (a - b)
  PROVE  Diff(a, b) = a - b
<1>1. (a - b) % W = IF a - b >= 0 THEN a - b ELSE (a - b) + W
  BY RingAssumption
<1> QED
  BY <1>1, RingAssumption DEF Diff

LEMMA WordExact ==
  ASSUME NEW a \in Int, NEW b \in Int, SameWord(a, b), a - b < W, b - a < W
  PROVE  a = b
  BY ModInjective, RingAssumption DEF SameWord

-----------------------------------------------------------------------------
(* The inductive invariant *)

LEMMA InitInv ==
  ASSUME Sized, Init
  PROVE  IndInv
<1> USE RingAssumption DEF Sized
<1>1. \A i \in Cells : (i - Start) % Cap \in 0 .. Cap - 1
  BY DivMod DEF Cells
<1>2. TypeOK
  BY <1>1 DEF Init, TypeOK, PCs
<1>3. FullRefused
  BY DEF Init, FullRefused
<1>4. ASSUME NEW p \in tail - Cap .. tail - 1
      PROVE  Released(p)
  <2> p \in Int
    BY DEF Init
  <2>1. PICK q \in Int : p = Cap * q + (p % Cap)
    BY DivMod
  <2>2. Cell(p) - Start = Cap * (-1 - q) + (p + Cap - Start)
    BY <2>1 DEF Cell, Init
  <2>3. p + Cap - Start \in 0 .. Cap - 1
    BY DEF Init
  <2>4. (Cell(p) - Start) % Cap = p + Cap - Start
    BY <2>2, <2>3, ModUnique, -1 - q \in Int, Cell(p) - Start \in Int, CellFacts
       DEF Cells
  <2>5. seq[Cell(p)] = Start + ((Cell(p) - Start) % Cap)
    BY CellFacts DEF Init
  <2> QED
    BY <2>3, <2>4, <2>5 DEF Released, Init
<1>5. SlotInv
  BY <1>4 DEF SlotInv, Init, PushHold, PopHold
<1>6. CellExclusive
  BY DEF CellExclusive, Holds, Init, PushHold, PopHold
<1>7. LoopInv
  BY Zenon DEF LoopInv, Init, PushLoop, PopLoop
<1> QED
  BY <1>2, <1>3, <1>5, <1>6, <1>7 DEF IndInv

\* The cells do not notice a step that moves no counter, stores no sequence
\* number and neither starts nor ends a thread's hold on its cell.
LEMMA SlotFrame ==
  ASSUME SlotInv, CellExclusive, UNCHANGED <<head, tail, seq>>,
         \A u \in Threads : /\ pc'[u] \in PushHold <=> pc[u] \in PushHold
                            /\ pc'[u] \in PopHold <=> pc[u] \in PopHold
                            /\ Holds(u) => pos'[u] = pos[u]
  PROVE  SlotInv' /\ CellExclusive'
<1>1. ASSUME NEW p \in tail - Cap .. tail - 1
      PROVE  Reserved(p)' \/ Published(p)' \/ Draining(p)' \/ Released(p)'
  <2>1. Reserved(p) => Reserved(p)'
    BY DEF Reserved, Holds
  <2>2. Draining(p) => Draining(p)'
    BY DEF Draining, Holds
  <2> QED
    BY <2>1, <2>2 DEF SlotInv, Published, Released
<1>2. SlotInv'
  BY <1>1 DEF SlotInv, Holds
<1>3. CellExclusive'
  BY DEF CellExclusive, Holds
<1> QED
  BY <1>2, <1>3

\* A holder's position is among the last Cap ones.
LEMMA HoldRange ==
  ASSUME IndInv, NEW t \in Threads, Holds(t)
  PROVE  /\ pos[t] \in Nat /\ tail - Cap <= pos[t] /\ pos[t] < tail
         /\ Cell(pos[t]) \in Cells
<1> USE RingAssumption
<1>1. pos[t] \in Nat /\ head \in Nat /\ tail \in Nat
  BY DEF IndInv, TypeOK
<1>2. tail - Cap <= pos[t] /\ pos[t] < tail
  BY <1>1 DEF IndInv, SlotInv, FullRefused, Holds
<1> QED
  BY <1>1, <1>2, CellFacts

\* push: what the claim needs to know of the cell it takes.
LEMMA TailCell ==
  ASSUME Sized, IndInv
  PROVE  /\ seq[Cell(tail)] \in tail - Cap .. tail
         /\ head = tail => seq[Cell(tail)] > tail - Cap
         /\ seq[Cell(tail)] = tail =>
              /\ tail < head + Cap
              /\ \A u \in Threads : Holds(u) => Cell(pos[u]) # Cell(tail)
<1> USE RingAssumption DEF Sized
<1>1. tail \in Nat /\ head \in Nat
  BY DEF IndInv, TypeOK
<1>2. Cell(tail - Cap) = Cell(tail)
  BY <1>1, CellFacts
<1>3. \/ Reserved(tail - Cap) \/ Published(tail - Cap)
      \/ Draining(tail - Cap) \/ Released(tail - Cap)
  BY <1>1 DEF IndInv, SlotInv
<1>4. seq[Cell(tail)] \in tail - Cap .. tail
  BY <1>1, <1>2, <1>3 DEF Reserved, Published, Draining, Released
<1>4a. ASSUME head = tail PROVE seq[Cell(tail)] > tail - Cap
  BY <1>1, <1>2, <1>3, <1>4a DEF Reserved, Published, Draining, Released
<1>5. ASSUME seq[Cell(tail)] = tail PROVE tail < head + Cap
  BY <1>1, <1>2, <1>3, <1>5 DEF Reserved, Published, Draining, Released
<1>6. ASSUME seq[Cell(tail)] = tail, NEW u \in Threads, Holds(u)
      PROVE  Cell(pos[u]) # Cell(tail)
  <2> SUFFICES ASSUME Cell(pos[u]) = Cell(tail) PROVE FALSE
    OBVIOUS
  <2>1. pos[u] \in Nat /\ tail - Cap <= pos[u] /\ pos[u] < tail
    BY <1>6, HoldRange
  <2>2. pos[u] = tail - Cap
    BY <1>1, <1>2, <2>1, CellFacts
  <2> QED
    BY <1>1, <1>6, <2>2 DEF Holds, IndInv, SlotInv
<1> QED
  BY <1>4, <1>4a, <1>5, <1>6

\* pop: what the claim needs to know of the cell it takes.
LEMMA HeadCell ==
  ASSUME Sized, IndInv
  PROVE  /\ seq[Cell(head)] \in head + 1 - Cap .. head + 1
         /\ seq[Cell(head)] = head + 1 =>
              /\ head < tail
              /\ \A u \in Threads : Holds(u) => Cell(pos[u]) # Cell(head)
<1> USE RingAssumption DEF Sized
<1>1. tail \in Nat /\ head \in Nat /\ head <= tail /\ tail <= head + Cap
  BY DEF IndInv, TypeOK, FullRefused
<1>2. CASE head = tail
  BY <1>1, <1>2, TailCell
<1>3. CASE head < tail
  <2>1. Reserved(head) \/ Published(head)
    BY <1>1, <1>3 DEF IndInv, SlotInv, Draining, Released
  <2>2. seq[Cell(head)] \in head .. head + 1
    BY <1>1, <2>1 DEF Reserved, Published
  <2>3. ASSUME seq[Cell(head)] = head + 1, NEW u \in Threads, Holds(u),
               Cell(pos[u]) = Cell(head)
        PROVE  FALSE
    <3>1. pos[u] \in Nat /\ tail - Cap <= pos[u] /\ pos[u] < tail
      BY <1>1, <2>3 DEF IndInv, TypeOK, SlotInv, Holds
    <3>2. pos[u] = head
      BY <1>1, <1>3, <2>3, <3>1, CellFacts
    <3> QED
      BY <1>1, <2>3, <3>2 DEF IndInv, SlotInv, Holds
  <2> QED
    BY <1>1, <1>3, <2>2, <2>3
<1> QED
  BY <1>1, <1>2, <1>3

-----------------------------------------------------------------------------
(* One lemma per group of actions *)

\* Steps of the two loops: the thread only looks, and moves its own variables.
LEMMA LookInv ==
  ASSUME Sized, IndInv, NEW t \in Threads,
         \/ \E v \in Values : PushCall(t, v)
         \/ PushReady(t) \/ PushFull(t) \/ PushLost(t)
         \/ PushReload(t) \/ PushCasFails(t)
         \/ PopCall(t) \/ PopReady(t) \/ PopEmpty(t) \/ PopLost(t)
         \/ PopReload(t) \/ PopCasFails(t)
  PROVE  IndInv'
<1> USE RingAssumption DEF Sized
<1> USE DEF PushLoop, PopLoop, PushHold, PopHold
<1>1. UNCHANGED shared
  BY DEF PushCall, PushReady, PushFull, PushLost, PushReload, PushCasFails,
         PopCall, PopReady, PopEmpty, PopLost, PopReload, PopCasFails,
         LoadTail, LoadHead
<1>2. UNCHANGED <<head, tail, seq, data>>
  BY <1>1 DEF shared
<1>3. head \in Nat /\ tail \in Nat /\ pc \in [Threads -> PCs]
      /\ pos \in [Threads -> Nat] /\ val \in [Threads -> Values \cup {None}]
  BY DEF IndInv, TypeOK
<1>4. \E l \in {"idle"} \cup PushLoop \cup PopLoop : pc' = [pc EXCEPT ![t] = l]
  BY DEF PushCall, PushReady, PushFull, PushLost, PushReload, PushCasFails,
         PopCall, PopReady, PopEmpty, PopLost, PopReload, PopCasFails,
         LoadTail, LoadHead, Goto, Return
<1>5. \E n \in Nat : pos' = [pos EXCEPT ![t] = n]
  <2>1. pos = [pos EXCEPT ![t] = pos[t]] /\ pos[t] \in Nat
    BY <1>3
  <2> QED
    BY <1>3, <2>1
       DEF PushCall, PushReady, PushFull, PushLost, PushReload, PushCasFails,
           PopCall, PopReady, PopEmpty, PopLost, PopReload, PopCasFails,
           LoadTail, LoadHead, Return
<1>6. val' \in [Threads -> Values \cup {None}]
  BY <1>3
     DEF PushCall, PushReady, PushFull, PushLost, PushReload, PushCasFails,
         PopCall, PopReady, PopEmpty, PopLost, PopReload, PopCasFails,
         LoadTail, LoadHead, Return
<1>7. pc[t] \notin PushHold \cup PopHold
  BY DEF PushCall, PushReady, PushFull, PushLost, PushReload, PushCasFails,
         PopCall, PopReady, PopEmpty, PopLost, PopReload, PopCasFails
<1>8. TypeOK' /\ FullRefused'
  <2>1. PICK l \in PCs : pc' = [pc EXCEPT ![t] = l]
    BY <1>4 DEF PCs
  <2>2. pc' \in [Threads -> PCs] /\ pos' \in [Threads -> Nat]
    BY <1>3, <1>5, <2>1
  <2>3. TypeOK /\ FullRefused
    BY DEF IndInv
  <2> QED
    BY <1>2, <1>6, <2>2, <2>3, Zenon DEF TypeOK, FullRefused
<1>9. SlotInv' /\ CellExclusive'
  <2>1. \A u \in Threads : /\ pc'[u] \in PushHold <=> pc[u] \in PushHold
                           /\ pc'[u] \in PopHold <=> pc[u] \in PopHold
                           /\ Holds(u) => pos'[u] = pos[u]
    BY <1>3, <1>4, <1>5, <1>7 DEF Holds
  <2> QED
    BY <1>2, <2>1, SlotFrame DEF IndInv
<1>10. ASSUME pc'[t] \in PushLoop
       PROVE  tail - Window <= pos'[t] /\ pos'[t] <= tail
  BY <1>3, <1>10
     DEF PushCall, PushReady, PushFull, PushLost, PushReload, PushCasFails,
         PopCall, PopReady, PopEmpty, PopLost, PopReload, PopCasFails,
         LoadTail, LoadHead, Goto, Return, IndInv, LoopInv
<1>11. ASSUME pc'[t] \in PopLoop
       PROVE  head - Window <= pos'[t] /\ pos'[t] <= head
  BY <1>3, <1>11
     DEF PushCall, PushReady, PushFull, PushLost, PushReload, PushCasFails,
         PopCall, PopReady, PopEmpty, PopLost, PopReload, PopCasFails,
         LoadTail, LoadHead, Goto, Return, IndInv, LoopInv
<1>12. ASSUME pc'[t] = "push_cas", pos'[t] = tail
       PROVE  seq[Cell(tail)] = tail
  <2>1. PushReady(t)
    <3>1. \/ PushReady(t)
          \/ \E l \in {"idle", "push_check", "push_reload", "pop_check", "pop_cas", "pop_reload"} :
               Goto(t, l)
      BY DEF PushCall, PushFull, PushLost, PushReload, PushCasFails, PopCall, PopReady,
             PopEmpty, PopLost, PopReload, PopCasFails, LoadTail, LoadHead, Return
    <3> QED
      BY <1>3, <1>12, <3>1 DEF Goto
  <2>2. Diff(seq[Cell(tail)], tail) = 0
    BY <1>12, <2>1 DEF PushReady, PushDiff
  <2>3. seq[Cell(tail)] \in tail - Cap .. tail
    BY TailCell
  <2>4. 2 * (seq[Cell(tail)] - tail) < W /\ -W <= 2 * (seq[Cell(tail)] - tail)
    BY <1>3, <2>3
  <2>5. Diff(seq[Cell(tail)], tail) = seq[Cell(tail)] - tail
    BY <1>3, <2>3, <2>4, DiffExact
  <2> QED
    BY <1>3, <2>2, <2>3, <2>5
<1>13. ASSUME pc'[t] = "pop_cas", pos'[t] = head
       PROVE  seq[Cell(head)] = head + 1
  <2>1. PopReady(t)
    <3>1. \/ PopReady(t)
          \/ \E l \in {"idle", "push_check", "push_reload", "push_cas", "pop_check", "pop_reload"} :
               Goto(t, l)
      BY DEF PushCall, PushReady, PushFull, PushLost, PushReload, PushCasFails, PopCall,
             PopEmpty, PopLost, PopReload, PopCasFails, LoadTail, LoadHead, Return
    <3> QED
      BY <1>3, <1>13, <3>1 DEF Goto
  <2>2. Diff(seq[Cell(head)], head + 1) = 0
    BY <1>13, <2>1 DEF PopReady, PopDiff
  <2>3. seq[Cell(head)] \in head + 1 - Cap .. head + 1
    BY HeadCell
  <2>4. 2 * (seq[Cell(head)] - (head + 1)) < W /\ -W <= 2 * (seq[Cell(head)] - (head + 1))
    BY <1>3, <2>3
  <2> QED
    BY <1>3, <2>2, <2>3, <2>4, DiffExact
<1>14. \A u \in Threads \ {t} : pc'[u] = pc[u] /\ pos'[u] = pos[u]
  BY <1>3, <1>4, <1>5
<1>15. LoopInv'
  BY <1>2, <1>10, <1>11, <1>12, <1>13, <1>14 DEF IndInv, LoopInv
<1> QED
  BY <1>8, <1>9, <1>15 DEF IndInv

\* memcpy changes no counter and no sequence number.
LEMMA CopyInv ==
  ASSUME Sized, IndInv, NEW t \in Threads, PushWrite(t) \/ PopRead(t)
  PROVE  IndInv'
<1> USE RingAssumption DEF Sized
<1> USE DEF PushLoop, PopLoop, PushHold, PopHold
<1>1. TypeOK
  BY DEF IndInv
<1>2. Cell(pos[t]) \in Cells
  BY <1>1, CellFacts DEF TypeOK
<1>3. TypeOK' /\ FullRefused'
  BY <1>1, <1>2
     DEF PushWrite, PopRead, Goto, shared, IndInv, TypeOK, FullRefused, PCs
<1>4. UNCHANGED <<head, tail, seq, pos>>
  BY DEF PushWrite, PopRead, shared
<1>5. \A u \in Threads : /\ pc'[u] \in PushHold <=> pc[u] \in PushHold
                         /\ pc'[u] \in PopHold <=> pc[u] \in PopHold
                         /\ pc'[u] \in PushLoop => pc'[u] = pc[u]
                         /\ pc'[u] \in PopLoop => pc'[u] = pc[u]
  BY <1>1 DEF PushWrite, PopRead, Goto, TypeOK
<1>6. SlotInv' /\ CellExclusive'
  BY <1>4, <1>5, SlotFrame DEF IndInv
<1>7. LoopInv'
  BY <1>4, <1>5 DEF IndInv, LoopInv
<1> QED
  BY <1>3, <1>6, <1>7 DEF IndInv

\* The claim of a cell to write: position tail enters the last Cap positions
\* as Reserved, and tail - Cap, which was Released, leaves them.
LEMMA PushClaimInv ==
  ASSUME Sized, IndInv, NEW t \in Threads, PushClaim(t)
  PROVE  IndInv' /\ seq[Cell(pos[t])] = pos[t]
<1> USE RingAssumption DEF Sized
<1> USE DEF PushLoop, PopLoop, PushHold, PopHold
<1>1. TypeOK /\ head <= tail /\ tail <= head + Cap
  BY DEF IndInv, FullRefused
<1>2. head \in Nat /\ tail \in Nat /\ pc \in [Threads -> PCs]
      /\ pos \in [Threads -> Nat]
  BY <1>1 DEF TypeOK
<1>3. pos[t] = tail
  <2>1. tail - Window <= pos[t] /\ pos[t] <= tail
    BY DEF PushClaim, IndInv, LoopInv
  <2> QED
    BY <1>2, <2>1, WordExact DEF PushClaim
<1>4. seq[Cell(tail)] = tail
  BY <1>3 DEF PushClaim, IndInv, LoopInv
<1>5. /\ tail < head + Cap
      /\ \A u \in Threads : Holds(u) => Cell(pos[u]) # Cell(tail)
  BY <1>4, TailCell
<1>6. /\ tail' = tail + 1 /\ UNCHANGED <<head, seq, data, pos, val>>
      /\ pc' = [pc EXCEPT ![t] = "push_write"] /\ pc[t] = "push_cas"
  BY DEF PushClaim, Goto
<1>7. TypeOK' /\ FullRefused'
  BY <1>1, <1>5, <1>6 DEF TypeOK, FullRefused, PCs
<1>8. \A u \in Threads \ {t} : pc'[u] = pc[u]
  BY <1>2, <1>6
<1>9. pc'[t] = "push_write"
  BY <1>2, <1>6
<1>10. ASSUME NEW p \in tail' - Cap .. tail' - 1
       PROVE  Reserved(p)' \/ Published(p)' \/ Draining(p)' \/ Released(p)'
  <2>1. CASE p = tail
    BY <1>1, <1>2, <1>3, <1>4, <1>6, <1>9, <2>1 DEF Reserved
  <2>2. CASE p # tail
    <3>1. Reserved(p) \/ Published(p) \/ Draining(p) \/ Released(p)
      BY <1>2, <1>6, <2>2 DEF IndInv, SlotInv
    <3>2. Reserved(p) => Reserved(p)'
      BY <1>6, <1>8 DEF Reserved
    <3>3. Draining(p) => Draining(p)'
      BY <1>6, <1>8 DEF Draining
    <3> QED
      BY <1>6, <3>1, <3>2, <3>3 DEF Published, Released
  <2> QED
    BY <2>1, <2>2
<1>11. ASSUME NEW u \in Threads, pc'[u] \in PopHold PROVE tail' - Cap <= pos'[u]
  <2>1. pc[u] \in PopHold /\ tail - Cap <= pos[u]
    BY <1>8, <1>9, <1>11 DEF IndInv, SlotInv
  <2>2. pos[u] # tail - Cap
    BY <1>2, <1>5, <2>1, CellFacts DEF Holds
  <2> QED
    BY <1>2, <1>6, <2>1, <2>2
<1>12. SlotInv'
  <2>1. ASSUME NEW u \in Threads
        PROVE  /\ (pc[u] \in PushHold)' =>
                     /\ (head <= pos[u])' /\ (pos[u] < tail)'
                     /\ (seq[Cell(pos[u])] = pos[u])'
               /\ (pc[u] \in PopHold)' =>
                     /\ (tail - Cap <= pos[u])' /\ (pos[u] < head)'
                     /\ (seq[Cell(pos[u])] = pos[u] + 1)'
    <3>1. CASE u = t
      BY <1>1, <1>2, <1>3, <1>4, <1>6, <1>9, <3>1
    <3>2. CASE u # t
      BY <1>2, <1>6, <1>8, <1>11, <3>2 DEF IndInv, SlotInv
    <3> QED
      BY <3>1, <3>2
  <2> QED
    BY <1>10, <2>1 DEF SlotInv
<1>13. CellExclusive'
  <2>1. ASSUME NEW u \in Threads \ {t}, Holds(u)'
        PROVE  Holds(u) /\ Cell(pos[u]) # Cell(pos[t])
    BY <1>3, <1>5, <1>8, <2>1 DEF Holds
  <2> QED
    BY <1>6, <1>8, <2>1 DEF IndInv, CellExclusive, Holds
<1>14. LoopInv'
  <2>1. \A u \in Threads : pc[u] \in PushLoop => tail + 1 - pos[u] <= Window
    BY DEF PushClaim
  <2> QED
    BY <1>2, <1>6, <1>8, <1>9, <2>1 DEF IndInv, LoopInv
<1> QED
  BY <1>3, <1>4, <1>7, <1>12, <1>13, <1>14 DEF IndInv

\* The claim of a cell to read: position head goes from Published to Draining.
LEMMA PopClaimInv ==
  ASSUME Sized, IndInv, NEW t \in Threads, PopClaim(t)
  PROVE  IndInv' /\ seq[Cell(pos[t])] = pos[t] + 1
<1> USE RingAssumption DEF Sized
<1> USE DEF PushLoop, PopLoop, PushHold, PopHold
<1>1. TypeOK /\ head <= tail /\ tail <= head + Cap
  BY DEF IndInv, FullRefused
<1>2. head \in Nat /\ tail \in Nat /\ pc \in [Threads -> PCs]
      /\ pos \in [Threads -> Nat]
  BY <1>1 DEF TypeOK
<1>3. pos[t] = head
  <2>1. head - Window <= pos[t] /\ pos[t] <= head
    BY DEF PopClaim, IndInv, LoopInv
  <2> QED
    BY <1>2, <2>1, WordExact DEF PopClaim
<1>4. seq[Cell(head)] = head + 1
  BY <1>3 DEF PopClaim, IndInv, LoopInv
<1>5. /\ head < tail
      /\ \A u \in Threads : Holds(u) => Cell(pos[u]) # Cell(head)
  BY <1>4, HeadCell
<1>6. /\ head' = head + 1 /\ UNCHANGED <<tail, seq, data, pos, val>>
      /\ pc' = [pc EXCEPT ![t] = "pop_read"] /\ pc[t] = "pop_cas"
  BY DEF PopClaim, Goto
<1>7. TypeOK' /\ FullRefused'
  BY <1>1, <1>5, <1>6 DEF TypeOK, FullRefused, PCs
<1>8. \A u \in Threads \ {t} : pc'[u] = pc[u]
  BY <1>2, <1>6
<1>9. pc'[t] = "pop_read"
  BY <1>2, <1>6
<1>10. ASSUME NEW p \in tail' - Cap .. tail' - 1
       PROVE  Reserved(p)' \/ Published(p)' \/ Draining(p)' \/ Released(p)'
  <2>1. CASE p = head
    BY <1>2, <1>3, <1>4, <1>6, <1>9, <2>1 DEF Draining
  <2>2. CASE p # head
    <3>1. Reserved(p) \/ Published(p) \/ Draining(p) \/ Released(p)
      BY <1>2, <1>6 DEF IndInv, SlotInv
    <3>2. Reserved(p) => Reserved(p)'
      BY <1>2, <1>6, <1>8, <2>2 DEF Reserved
    <3>3. Draining(p) => Draining(p)'
      BY <1>2, <1>6, <1>8 DEF Draining
    <3> QED
      BY <1>2, <1>6, <2>2, <3>1, <3>2, <3>3 DEF Published, Released
  <2> QED
    BY <2>1, <2>2
<1>11. ASSUME NEW u \in Threads, pc'[u] \in PushHold PROVE head' <= pos'[u]
  <2>1. pc[u] \in PushHold /\ head <= pos[u]
    BY <1>8, <1>9, <1>11 DEF IndInv, SlotInv
  <2>2. pos[u] # head
    BY <1>5, <2>1 DEF Holds
  <2> QED
    BY <1>2, <1>6, <2>1, <2>2
<1>12. SlotInv'
  <2>1. ASSUME NEW u \in Threads
        PROVE  /\ (pc[u] \in PushHold)' =>
                     /\ (head <= pos[u])' /\ (pos[u] < tail)'
                     /\ (seq[Cell(pos[u])] = pos[u])'
               /\ (pc[u] \in PopHold)' =>
                     /\ (tail - Cap <= pos[u])' /\ (pos[u] < head)'
                     /\ (seq[Cell(pos[u])] = pos[u] + 1)'
    <3>1. CASE u = t
      BY <1>1, <1>2, <1>3, <1>4, <1>6, <1>9, <3>1
    <3>2. CASE u # t
      BY <1>2, <1>6, <1>8, <1>11, <3>2 DEF IndInv, SlotInv
    <3> QED
      BY <3>1, <3>2
  <2> QED
    BY <1>10, <2>1 DEF SlotInv
<1>13. CellExclusive'
  <2>1. ASSUME NEW u \in Threads \ {t}, Holds(u)'
        PROVE  Holds(u) /\ Cell(pos[u]) # Cell(pos[t])
    BY <1>3, <1>5, <1>8, <2>1 DEF Holds
  <2> QED
    BY <1>6, <1>8, <2>1 DEF IndInv, CellExclusive, Holds
<1>14. LoopInv'
  <2>1. \A u \in Threads : pc[u] \in PopLoop => head + 1 - pos[u] <= Window
    BY DEF PopClaim
  <2> QED
    BY <1>2, <1>6, <1>8, <1>9, <2>1 DEF IndInv, LoopInv
<1> QED
  BY <1>3, <1>4, <1>7, <1>12, <1>13, <1>14 DEF IndInv

\* The store of tail + 1: position pos[t] goes from Reserved to Published.
LEMMA PushPublishInv ==
  ASSUME Sized, IndInv, NEW t \in Threads, PushPublish(t)
  PROVE  IndInv'
<1> USE RingAssumption DEF Sized
<1> USE DEF PushLoop, PopLoop, PushHold, PopHold
<1>1. TypeOK /\ FullRefused /\ Holds(t)
  BY DEF IndInv, PushPublish, Holds
<1>2. head \in Nat /\ tail \in Nat /\ pc \in [Threads -> PCs]
      /\ pos \in [Threads -> Nat] /\ seq \in [Cells -> Nat]
      /\ head <= tail /\ tail <= head + Cap
  BY <1>1 DEF TypeOK, FullRefused
<1>3. /\ pos[t] \in Nat /\ head <= pos[t] /\ pos[t] < tail
      /\ seq[Cell(pos[t])] = pos[t] /\ Cell(pos[t]) \in Cells
  BY <1>1, HoldRange DEF IndInv, SlotInv, PushPublish
<1>4. /\ UNCHANGED <<head, tail, data>>
      /\ seq' = [seq EXCEPT ![Cell(pos[t])] = pos[t] + 1]
      /\ pc' = [pc EXCEPT ![t] = "idle"]
      /\ pos' = [pos EXCEPT ![t] = Start]
      /\ val' = [val EXCEPT ![t] = None]
  BY DEF PushPublish, Return, Goto
<1>5. TypeOK' /\ FullRefused'
  BY <1>1, <1>3, <1>4 DEF TypeOK, FullRefused, PCs
<1>6. /\ pc'[t] = "idle" /\ seq'[Cell(pos[t])] = pos[t] + 1
      /\ \A u \in Threads \ {t} : pc'[u] = pc[u] /\ pos'[u] = pos[u]
      /\ \A i \in Cells \ {Cell(pos[t])} : seq'[i] = seq[i]
  BY <1>2, <1>3, <1>4
<1>7. ASSUME NEW p \in tail' - Cap .. tail' - 1
      PROVE  Reserved(p)' \/ Published(p)' \/ Draining(p)' \/ Released(p)'
  <2>1. CASE p = pos[t]
    BY <1>3, <1>4, <1>6, <2>1 DEF Published
  <2>2. CASE p # pos[t]
    <3>1. p \in Int /\ Cell(p) \in Cells /\ Cell(p) # Cell(pos[t])
      BY <1>2, <1>3, <1>4, <2>2, CellFacts, SMTT(60)
    <3>2. seq'[Cell(p)] = seq[Cell(p)]
      BY <1>6, <3>1
    <3>3. Reserved(p) => Reserved(p)'
      BY <1>4, <1>6, <2>2, <3>2 DEF Reserved
    <3>4. Draining(p) => Draining(p)'
      BY <1>4, <1>6, <2>2, <3>2 DEF Draining
    <3> QED
      BY <1>4, <3>2, <3>3, <3>4 DEF IndInv, SlotInv, Published, Released
  <2> QED
    BY <2>1, <2>2
<1>8. ASSUME NEW u \in Threads, Holds(u)'
      PROVE  /\ Holds(u) /\ pc'[u] = pc[u] /\ pos'[u] = pos[u]
             /\ seq'[Cell(pos[u])] = seq[Cell(pos[u])]
  <2>1. u # t /\ Holds(u) /\ pc'[u] = pc[u] /\ pos'[u] = pos[u]
    BY <1>6, <1>8 DEF Holds
  <2>2. Cell(pos[u]) # Cell(pos[t]) /\ Cell(pos[u]) \in Cells
    BY <1>1, <2>1, HoldRange DEF IndInv, CellExclusive
  <2> QED
    BY <1>6, <2>1, <2>2
<1>9. SlotInv'
  BY <1>4, <1>7, <1>8 DEF IndInv, SlotInv, Holds
<1>10. CellExclusive'
  BY <1>8 DEF IndInv, CellExclusive, Holds
<1>11. seq[Cell(tail)] = tail => seq'[Cell(tail)] = tail
  <2>1. Cell(tail) \in Cells
    BY <1>2, CellFacts
  <2> QED
    BY <1>2, <1>3, <1>6, <2>1
<1>12. seq[Cell(head)] = head + 1 => seq'[Cell(head)] = head + 1
  <2>1. Cell(head) \in Cells
    BY <1>2, CellFacts
  <2>2. Cell(head) = Cell(pos[t]) => head = pos[t]
    BY <1>2, <1>3, CellFacts
  <2> QED
    BY <1>2, <1>3, <1>6, <2>1, <2>2
<1>13. LoopInv'
  BY <1>4, <1>6, <1>11, <1>12 DEF IndInv, LoopInv
<1> QED
  BY <1>5, <1>9, <1>10, <1>13 DEF IndInv

\* The store of head + cap: position pos[t] goes from Draining to Released.
LEMMA PopReleaseInv ==
  ASSUME Sized, IndInv, NEW t \in Threads, PopRelease(t)
  PROVE  IndInv'
<1> USE RingAssumption DEF Sized
<1> USE DEF PushLoop, PopLoop, PushHold, PopHold
<1>1. TypeOK /\ FullRefused /\ Holds(t)
  BY DEF IndInv, PopRelease, Holds
<1>2. head \in Nat /\ tail \in Nat /\ pc \in [Threads -> PCs]
      /\ pos \in [Threads -> Nat] /\ seq \in [Cells -> Nat]
      /\ head <= tail /\ tail <= head + Cap
  BY <1>1 DEF TypeOK, FullRefused
<1>3. /\ pos[t] \in Nat /\ tail - Cap <= pos[t] /\ pos[t] < head
      /\ seq[Cell(pos[t])] = pos[t] + 1 /\ Cell(pos[t]) \in Cells
  BY <1>1, HoldRange DEF IndInv, SlotInv, PopRelease
<1>4. /\ UNCHANGED <<head, tail, data>>
      /\ seq' = [seq EXCEPT ![Cell(pos[t])] = pos[t] + Cap]
      /\ pc' = [pc EXCEPT ![t] = "idle"]
      /\ pos' = [pos EXCEPT ![t] = Start]
      /\ val' = [val EXCEPT ![t] = None]
  BY DEF PopRelease, Return, Goto
<1>5. TypeOK' /\ FullRefused'
  BY <1>1, <1>3, <1>4 DEF TypeOK, FullRefused, PCs
<1>6. /\ pc'[t] = "idle" /\ seq'[Cell(pos[t])] = pos[t] + Cap
      /\ \A u \in Threads \ {t} : pc'[u] = pc[u] /\ pos'[u] = pos[u]
      /\ \A i \in Cells \ {Cell(pos[t])} : seq'[i] = seq[i]
  BY <1>2, <1>3, <1>4
<1>7. ASSUME NEW p \in tail' - Cap .. tail' - 1
      PROVE  Reserved(p)' \/ Published(p)' \/ Draining(p)' \/ Released(p)'
  <2>1. CASE p = pos[t]
    BY <1>3, <1>4, <1>6, <2>1 DEF Released
  <2>2. CASE p # pos[t]
    <3>1. p \in Int /\ Cell(p) \in Cells /\ Cell(p) # Cell(pos[t])
      BY <1>2, <1>3, <1>4, <2>2, CellFacts, SMTT(60)
    <3>2. seq'[Cell(p)] = seq[Cell(p)]
      BY <1>6, <3>1
    <3>3. Reserved(p) => Reserved(p)'
      BY <1>4, <1>6, <2>2, <3>2 DEF Reserved
    <3>4. Draining(p) => Draining(p)'
      BY <1>4, <1>6, <2>2, <3>2 DEF Draining
    <3> QED
      BY <1>4, <3>2, <3>3, <3>4 DEF IndInv, SlotInv, Published, Released
  <2> QED
    BY <2>1, <2>2
<1>8. ASSUME NEW u \in Threads, Holds(u)'
      PROVE  /\ Holds(u) /\ pc'[u] = pc[u] /\ pos'[u] = pos[u]
             /\ seq'[Cell(pos[u])] = seq[Cell(pos[u])]
  <2>1. u # t /\ Holds(u) /\ pc'[u] = pc[u] /\ pos'[u] = pos[u]
    BY <1>6, <1>8 DEF Holds
  <2>2. Cell(pos[u]) # Cell(pos[t]) /\ Cell(pos[u]) \in Cells
    BY <1>1, <2>1, HoldRange DEF IndInv, CellExclusive
  <2> QED
    BY <1>6, <2>1, <2>2
<1>9. SlotInv'
  BY <1>4, <1>7, <1>8 DEF IndInv, SlotInv, Holds
<1>10. CellExclusive'
  BY <1>8 DEF IndInv, CellExclusive, Holds
<1>11. seq[Cell(tail)] = tail => seq'[Cell(tail)] = tail
  <2>1. Cell(tail) \in Cells /\ Cell(tail - Cap) = Cell(tail)
    BY <1>2, CellFacts
  <2>2. Cell(tail) = Cell(pos[t]) => pos[t] = tail - Cap
    <3>1. /\ pos[t] \in Int /\ tail - Cap \in Int
          /\ pos[t] - (tail - Cap) < Cap /\ (tail - Cap) - pos[t] < Cap
      BY <1>2, <1>3
    <3> QED
      BY <2>1, <3>1, CellFacts, Zenon
  <2> QED
    BY <1>2, <1>3, <1>6, <2>1, <2>2
<1>12. seq[Cell(head)] = head + 1 => seq'[Cell(head)] = head + 1
  <2>1. Cell(head) \in Cells
    BY <1>2, CellFacts
  <2> QED
    BY <1>2, <1>3, <1>6, <2>1
<1>13. LoopInv'
  BY <1>4, <1>6, <1>11, <1>12 DEF IndInv, LoopInv
<1> QED
  BY <1>5, <1>9, <1>10, <1>13 DEF IndInv

-----------------------------------------------------------------------------
(* The theorems *)

LEMMA NextInv ==
  ASSUME Sized, IndInv, [Next]_vars
  PROVE  IndInv'
<1>1. CASE UNCHANGED vars
  BY <1>1 DEF vars, IndInv, TypeOK, FullRefused, SlotInv, CellExclusive, LoopInv,
              Reserved, Published, Draining, Released, Holds
<1>2. ASSUME NEW t \in Threads,
             \/ \E v \in Values : PushCall(t, v)
             \/ PopCall(t) \/ PushStep(t) \/ PopStep(t)
      PROVE  IndInv'
  BY <1>2, LookInv, CopyInv, PushClaimInv, PopClaimInv, PushPublishInv,
     PopReleaseInv
     DEF PushStep, PopStep
<1> QED
  BY <1>1, <1>2 DEF Next

\* The counters, cells and threads of ring_mpmc.c always satisfy the inductive
\* invariant.
THEOREM Invariance ==
  ASSUME Sized
  PROVE  Spec => []IndInv
<1>1. Init => IndInv
  BY InitInv
<1>2. IndInv /\ [Next]_vars => IndInv'
  BY NextInv
<1> QED
  BY <1>1, <1>2, PTL DEF Spec

\* The variables of ring_mpmc.c keep their types.
THEOREM TypeCorrect ==
  ASSUME Sized
  PROVE  Spec => []TypeOK
<1>1. IndInv => TypeOK
  BY DEF IndInv
<1> QED
  BY <1>1, Invariance, PTL

\* gmk_ring_mpmc_push succeeds only when fewer than cap elements are in the
\* ring, gmk_ring_mpmc_pop only when there is one.
THEOREM NeverOverfull ==
  ASSUME Sized
  PROVE  Spec => []FullRefused
<1>1. IndInv => FullRefused
  BY DEF IndInv
<1> QED
  BY <1>1, Invariance, PTL

\* The memcpy of gmk_ring_mpmc_push and gmk_ring_mpmc_pop never races: between
\* its claim and its store to c->seq a thread has the cell to itself.
THEOREM DataRaceFree ==
  ASSUME Sized
  PROVE  Spec => []CellExclusive
<1>1. IndInv => CellExclusive
  BY DEF IndInv
<1> QED
  BY <1>1, Invariance, PTL

\* "No ABA problem": a compare-and-swap that succeeds finds the cell as it was
\* when its sequence number was checked.
THEOREM ABAFree ==
  ASSUME Sized
  PROVE  Spec => NoABA
<1>1. IndInv => [\A t \in Threads :
                    /\ PushClaim(t) => seq[Cell(pos[t])] = pos[t]
                    /\ PopClaim(t) => seq[Cell(pos[t])] = pos[t] + 1]_vars
  BY PushClaimInv, PopClaimInv
<1> QED
  BY <1>1, Invariance, PTL DEF NoABA

\* Each of the last cap positions of ring_mpmc.c is in one of the four stages
\* of its cell, and a thread that holds a cell is at a position that waits
\* for it.
THEOREM StagesExact ==
  ASSUME Sized
  PROVE  Spec => []SlotInv
<1>1. IndInv => SlotInv
  BY DEF IndInv
<1> QED
  BY <1>1, Invariance, PTL

-----------------------------------------------------------------------------
(* The refinement of BoundedQueue *)

\* Among the Cap positions before n there is one of the cell of p, at or after
\* p if p is before n.
LEMMA LastLap ==
  ASSUME NEW p \in Int, NEW n \in Int, p < n
  PROVE  \E q \in n - Cap .. n - 1 : Cell(q) = Cell(p) /\ p <= q /\ (p < q => p + Cap <= q)
<1> USE RingAssumption
<1>1. PICK m \in Nat : m = n - 1 - p
  OBVIOUS
<1>2. /\ m % Cap \in 0 .. Cap - 1
      /\ \E k \in Int : m = Cap * k + (m % Cap)
  BY DivMod, m \in Int, Cap \in Nat \ {0}, Zenon
<1>3. PICK k \in Int, r \in 0 .. Cap - 1 : m = Cap * k + r
  BY <1>2
<1>4. k >= 0
  <2>1. k <= -1 => Cap * k <= -Cap
    OBVIOUS
  <2> QED
    BY <1>3, <2>1
<1>5. k >= 1 => Cap * k >= Cap
  BY <1>4
<1>6. k = 0 => Cap * k = 0
  OBVIOUS
<1>7. PICK j \in Int : p = Cap * j + (p % Cap)
  BY DivMod
<1>8. PICK c \in 0 .. Cap - 1 : c = p % Cap
  BY DivMod
<1> DEFINE q == p + Cap * k
<1>9. q \in Int /\ q = Cap * (j + k) + c /\ j + k \in Int
  BY <1>7, <1>8
<1>10. q % Cap = c
  BY <1>9, ModUnique, Zenon
<1>11. q \in n - Cap .. n - 1 /\ p <= q /\ (p < q => p + Cap <= q)
  BY <1>1, <1>3, <1>4, <1>5, <1>6
<1> QED
  BY <1>8, <1>10, <1>11 DEF Cell

\* What push finds in the cell of a position that it has read from r->tail: a
\* number below the position only if the position is still tail.
LEMMA PushSees ==
  ASSUME Sized, IndInv, NEW t \in Threads, pc[t] \in PushLoop
  PROVE  /\ PushDiff(t) = seq[Cell(pos[t])] - pos[t]
         /\ PushDiff(t) < 0 => pos[t] = tail
<1> USE RingAssumption DEF Sized
<1>1. /\ tail \in Nat /\ head \in Nat /\ pos[t] \in Nat /\ head <= tail
      /\ seq \in [Cells -> Nat]
  BY DEF IndInv, TypeOK
<1>2. tail - Window <= pos[t] /\ pos[t] <= tail
  BY DEF IndInv, LoopInv
<1>3. CASE pos[t] = tail
  <2>1. seq[Cell(tail)] \in tail - Cap .. tail
    BY TailCell
  <2>2. Diff(seq[Cell(tail)], tail) = seq[Cell(tail)] - tail
    BY <1>1, <2>1, DiffExact
  <2> QED
    BY <1>3, <2>2 DEF PushDiff
<1>4. CASE pos[t] < tail
  <2>1. PICK q \in tail - Cap .. tail - 1 :
          Cell(q) = Cell(pos[t]) /\ pos[t] <= q
    <3>1. pos[t] \in Int /\ tail \in Int /\ pos[t] < tail
      BY <1>1, <1>4
    <3> QED
      BY <3>1, LastLap, Zenon
  <2>2. seq[Cell(pos[t])] \in q .. q + Cap
    BY <1>1, <2>1 DEF IndInv, SlotInv, Reserved, Published, Draining, Released
  <2>3. /\ seq[Cell(pos[t])] \in Int
        /\ 2 * (seq[Cell(pos[t])] - pos[t]) < W /\ seq[Cell(pos[t])] >= pos[t]
    BY <1>1, <1>2, <2>1, <2>2
  <2>4. Diff(seq[Cell(pos[t])], pos[t]) = seq[Cell(pos[t])] - pos[t]
    BY <1>1, <2>3, DiffExact
  <2> QED
    BY <1>1, <2>3, <2>4 DEF PushDiff
<1> QED
  BY <1>1, <1>2, <1>3, <1>4

\* The same for pop and r->head.
LEMMA PopSees ==
  ASSUME Sized, IndInv, NEW t \in Threads, pc[t] \in PopLoop
  PROVE  /\ PopDiff(t) = seq[Cell(pos[t])] - (pos[t] + 1)
         /\ PopDiff(t) < 0 => pos[t] = head
<1> USE RingAssumption DEF Sized
<1>1. /\ tail \in Nat /\ head \in Nat /\ pos[t] \in Nat /\ head <= tail
      /\ tail <= head + Cap /\ seq \in [Cells -> Nat]
  BY DEF IndInv, TypeOK, FullRefused
<1>2. head - Window <= pos[t] /\ pos[t] <= head
  BY DEF IndInv, LoopInv
<1>3. CASE pos[t] = head
  <2>1. seq[Cell(head)] \in head + 1 - Cap .. head + 1
    BY HeadCell
  <2>2. /\ seq[Cell(head)] \in Int /\ head + 1 \in Int
        /\ 2 * (seq[Cell(head)] - (head + 1)) < W
        /\ -W <= 2 * (seq[Cell(head)] - (head + 1))
    BY <1>1, <2>1
  <2>3. Diff(seq[Cell(head)], head + 1) = seq[Cell(head)] - (head + 1)
    BY <2>2, DiffExact
  <2> QED
    BY <1>3, <2>3 DEF PopDiff
<1>4. CASE pos[t] < head
  <2>1. PICK q \in tail - Cap .. tail - 1 :
          Cell(q) = Cell(pos[t]) /\ pos[t] <= q /\ (pos[t] < q => pos[t] + Cap <= q)
    <3>1. pos[t] \in Int /\ tail \in Int /\ pos[t] < tail
      BY <1>1, <1>4
    <3> QED
      BY <3>1, LastLap, Zenon
  <2>2. Reserved(q) \/ Published(q) \/ Draining(q) \/ Released(q)
    BY DEF IndInv, SlotInv
  <2>3. /\ seq[Cell(pos[t])] \in Int
        /\ pos[t] + 1 <= seq[Cell(pos[t])] /\ seq[Cell(pos[t])] <= head + Cap
    BY <1>1, <1>4, <2>1, <2>2 DEF Reserved, Published, Draining, Released
  <2>4. /\ pos[t] + 1 \in Int
        /\ 2 * (seq[Cell(pos[t])] - (pos[t] + 1)) < W
        /\ -W <= 2 * (seq[Cell(pos[t])] - (pos[t] + 1))
    BY <1>1, <1>2, <2>3
  <2>5. Diff(seq[Cell(pos[t])], pos[t] + 1) = seq[Cell(pos[t])] - (pos[t] + 1)
    BY <2>3, <2>4, DiffExact
  <2> QED
    BY <1>1, <2>3, <2>5 DEF PopDiff
<1> QED
  BY <1>1, <1>2, <1>3, <1>4

\* "Full" is answered only when the ring is full or a pop is under way.
LEMMA FullAnswer ==
  ASSUME Sized, IndInv, NEW t \in Threads, PushFull(t)
  PROVE  tail - head = Cap \/ \E u \in Threads : pc[u] \in PopHold
<1> USE RingAssumption DEF Sized
<1>1. /\ tail \in Nat /\ head \in Nat /\ pos[t] \in Nat /\ seq \in [Cells -> Nat]
      /\ head <= tail /\ tail <= head + Cap
  BY DEF IndInv, TypeOK, FullRefused
<1>2. pc[t] \in PushLoop /\ PushDiff(t) < 0
  BY DEF PushFull, PushLoop
<1>3. pos[t] = tail /\ seq[Cell(tail)] < tail
  <2>1. pos[t] = tail /\ PushDiff(t) = seq[Cell(pos[t])] - pos[t]
    BY <1>2, PushSees
  <2>2. Cell(tail) \in Cells
    BY <1>1, CellFacts
  <2> QED
    BY <1>1, <1>2, <2>1, <2>2
<1>4. Cell(tail - Cap) = Cell(tail)
  BY <1>1, CellFacts
<1>5. \/ Reserved(tail - Cap) \/ Published(tail - Cap)
      \/ Draining(tail - Cap) \/ Released(tail - Cap)
  BY <1>1 DEF IndInv, SlotInv
<1> QED
  BY <1>1, <1>3, <1>4, <1>5 DEF Reserved, Published, Draining, Released

\* "Empty" is answered only when the ring is empty or a push is under way.
LEMMA EmptyAnswer ==
  ASSUME Sized, IndInv, NEW t \in Threads, PopEmpty(t)
  PROVE  tail = head \/ \E u \in Threads : pc[u] \in PushHold
<1> USE RingAssumption DEF Sized
<1>1. /\ tail \in Nat /\ head \in Nat /\ pos[t] \in Nat /\ seq \in [Cells -> Nat]
      /\ head <= tail /\ tail <= head + Cap
  BY DEF IndInv, TypeOK, FullRefused
<1>2. pc[t] \in PopLoop /\ PopDiff(t) < 0
  BY DEF PopEmpty, PopLoop
<1>3. pos[t] = head /\ seq[Cell(head)] < head + 1
  <2>1. pos[t] = head /\ PopDiff(t) = seq[Cell(pos[t])] - (pos[t] + 1)
    BY <1>2, PopSees
  <2>2. Cell(head) \in Cells
    BY <1>1, CellFacts
  <2> QED
    BY <1>1, <1>2, <2>1, <2>2
<1>4. CASE head < tail
  <2>1. Reserved(head) \/ Published(head)
    BY <1>1, <1>4 DEF IndInv, SlotInv, Draining, Released
  <2> QED
    BY <1>1, <1>3, <2>1 DEF Reserved, Published
<1> QED
  BY <1>1, <1>4

\* Content is a sequence with one element per position from head to tail.
LEMMA ContentSeq ==
  ASSUME IndInv
  PROVE  /\ head \in Nat /\ tail \in Nat /\ tail - head \in Nat /\ tail - head <= Cap
         /\ Content \in Seq(Values \cup {None}) /\ Len(Content) = tail - head
<1>1. /\ head \in Nat /\ tail \in Nat /\ head <= tail /\ tail <= head + Cap
      /\ data \in [Cells -> Values \cup {None}] /\ val \in [Threads -> Values \cup {None}]
  BY DEF IndInv, TypeOK, FullRefused
<1>2. tail - head \in Nat /\ tail - head <= Cap
  BY <1>1, RingAssumption
<1>3. ASSUME NEW p \in Int PROVE Elem(p) \in Values \cup {None}
  <2>1. CASE Writers(p) # {}
    <3>1. (CHOOSE t \in Writers(p) : TRUE) \in Threads
      BY <2>1 DEF Writers
    <3> QED
      BY <1>1, <2>1, <3>1 DEF Elem
  <2>2. CASE Writers(p) = {}
    BY <1>1, <2>2, CellFacts DEF Elem
  <2> QED
    BY <2>1, <2>2
<1>4. Content \in [1 .. tail - head -> Values \cup {None}]
  BY <1>1, <1>3 DEF Content
<1> QED
  BY <1>1, <1>2, <1>4

\* An element whose writers and cell stay is the same.
LEMMA ElemFrame ==
  ASSUME NEW p \in Int, Writers(p)' = Writers(p), \A u \in Writers(p) : val'[u] = val[u],
         data'[Cell(p)] = data[Cell(p)]
  PROVE  Elem(p)' = Elem(p)
<1>1. CASE Writers(p) # {}
  <2>1. (CHOOSE t \in Writers(p) : TRUE) \in Writers(p)
    BY <1>1
  <2>2. Elem(p)' = val'[CHOOSE t \in Writers(p) : TRUE]
    BY <1>1 DEF Elem
  <2> QED
    BY <1>1, <2>1, <2>2 DEF Elem
<1>2. CASE Writers(p) = {}
  BY <1>2 DEF Elem
<1> QED
  BY <1>1, <1>2

\* A thread about to copy its element in is the only one at its position.
LEMMA ElemWriter ==
  ASSUME IndInv, NEW t \in Threads, pc[t] = "push_write"
  PROVE  Writers(pos[t]) = {t} /\ Elem(pos[t]) = val[t]
<1>1. Writers(pos[t]) = {t}
  BY DEF Writers, IndInv, CellExclusive, Holds, PushHold
<1>2. (CHOOSE u \in {t} : TRUE) = t
  OBVIOUS
<1> QED
  BY <1>1, <1>2 DEF Elem

\* A step of t moves only t's abstract operation and argument, if the cells
\* that the others read stay.
LEMMA AbstractFrame ==
  ASSUME IndInv, NEW t \in Threads,
         \A u \in Threads \ {t} : /\ pc'[u] = pc[u] /\ pos'[u] = pos[u]
                                 /\ val'[u] = val[u],
         \A u \in Threads \ {t} :
            pc[u] = "pop_read" => data'[Cell(pos[u])] = data[Cell(pos[u])]
  PROVE  /\ [u \in Threads |-> OpOf(u)]' =
              [[u \in Threads |-> OpOf(u)] EXCEPT ![t] = OpOf(t)']
         /\ [u \in Threads |-> ArgOf(u)]' =
              [[u \in Threads |-> ArgOf(u)] EXCEPT ![t] = ArgOf(t)']
<1>1. ASSUME NEW u \in Threads \ {t} PROVE OpOf(u)' = OpOf(u)
  BY DEF OpOf
<1>2. ASSUME NEW u \in Threads \ {t} PROVE ArgOf(u)' = ArgOf(u)
  BY DEF ArgOf
<1> QED
  BY <1>1, <1>2

\* The queue does not notice a step of a thread that is not copying in.
LEMMA QuietStep ==
  ASSUME IndInv, NEW t \in Threads, UNCHANGED <<head, tail, data>>,
         \A u \in Threads \ {t} : /\ pc'[u] = pc[u] /\ pos'[u] = pos[u]
                                 /\ val'[u] = val[u],
         pc[t] # "push_write", pc'[t] # "push_write"
  PROVE  Content' = Content
<1>1. ASSUME NEW p \in Int PROVE Elem(p)' = Elem(p)
  <2>1. Writers(p)' = Writers(p) /\ \A u \in Writers(p) : val'[u] = val[u]
    BY DEF Writers
  <2> QED
    BY <2>1, ElemFrame
<1>2. \A i \in 1 .. tail - head : head + i - 1 \in Int
  BY ContentSeq
<1> QED
  BY <1>1, <1>2 DEF Content

\* Steps that the caller of the ring does not see.
LEMMA SilentStep ==
  ASSUME Sized, IndInv, NEW t \in Threads,
         \/ PushReady(t) \/ PushLost(t) \/ PushReload(t) \/ PushCasFails(t)
         \/ PopReady(t) \/ PopLost(t) \/ PopReload(t) \/ PopCasFails(t)
         \/ PushWrite(t) \/ PopRead(t)
  PROVE  UNCHANGED BQ!bqVars
<1> USE RingAssumption
<1>1. /\ head \in Nat /\ tail \in Nat /\ pc \in [Threads -> PCs]
      /\ pos \in [Threads -> Nat] /\ val \in [Threads -> Values \cup {None}]
      /\ data \in [Cells -> Values \cup {None}] /\ tail <= head + Cap
  BY DEF IndInv, TypeOK, FullRefused
<1>2. /\ UNCHANGED <<head, tail>>
      /\ \A u \in Threads \ {t} : pc'[u] = pc[u] /\ pos'[u] = pos[u] /\ val'[u] = val[u]
  BY <1>1 DEF PushReady, PushLost, PushReload, PushCasFails, PopReady, PopLost,
              PopReload, PopCasFails, PushWrite, PopRead, LoadTail, LoadHead, Goto, shared
<1>3. OpOf(t)' = OpOf(t)
  BY <1>1 DEF PushReady, PushLost, PushReload, PushCasFails, PopReady, PopLost,
              PopReload, PopCasFails, PushWrite, PopRead, LoadTail, LoadHead, Goto,
              OpOf, PushLoop, PushHold, PopLoop, PopHold
<1>4. ArgOf(t)' = ArgOf(t)
  BY <1>1 DEF PushReady, PushLost, PushReload, PushCasFails, PopReady, PopLost,
              PopReload, PopCasFails, PushWrite, PopRead, LoadTail, LoadHead, Goto,
              ArgOf, shared
<1>5. CASE PushWrite(t)
  <2>1. /\ pc[t] = "push_write" /\ UNCHANGED <<pos, val>>
        /\ data' = [data EXCEPT ![Cell(pos[t])] = val[t]]
        /\ pc' = [pc EXCEPT ![t] = "push_publish"] /\ Cell(pos[t]) \in Cells
    BY <1>1, <1>5, CellFacts DEF PushWrite, Goto
  <2>2. head <= pos[t] /\ pos[t] < tail
    BY <2>1 DEF IndInv, SlotInv, PushHold
  <2>3. ASSUME NEW p \in head .. tail - 1 PROVE Elem(p)' = Elem(p)
    <3>1. CASE p = pos[t]
      <4>1. Writers(pos[t]) = {t} /\ Elem(pos[t]) = val[t]
        BY <2>1, ElemWriter
      <4>2. Writers(p)' = {}
        BY <1>1, <2>1, <3>1, <4>1 DEF Writers
      <4>3. data'[Cell(pos[t])] = val[t]
        BY <1>1, <2>1
      <4> QED
        BY <3>1, <4>1, <4>2, <4>3 DEF Elem
    <3>2. CASE p # pos[t]
      <4>1. Cell(p) \in Cells /\ Cell(p) # Cell(pos[t]) /\ p \in Int
        BY <1>1, <2>2, <3>2, CellFacts
      <4>2. Writers(p)' = Writers(p)
        BY <1>1, <2>1, <3>2 DEF Writers
      <4>3. data'[Cell(p)] = data[Cell(p)]
        BY <1>1, <2>1, <4>1
      <4> QED
        BY <2>1, <4>1, <4>2, <4>3, ElemFrame
    <3> QED
      BY <3>1, <3>2
  <2>4. \A i \in 1 .. tail - head : head + i - 1 \in head .. tail - 1
    BY <1>1
  <2>5. Content' = Content
    BY <1>2, <2>3, <2>4 DEF Content
  <2>6. ASSUME NEW u \in Threads \ {t}, pc[u] = "pop_read"
        PROVE  data'[Cell(pos[u])] = data[Cell(pos[u])]
    <3>1. Cell(pos[u]) # Cell(pos[t]) /\ Cell(pos[u]) \in Cells
      BY <1>1, <2>1, <2>6, CellFacts
         DEF IndInv, CellExclusive, Holds, PushHold, PopHold
    <3> QED
      BY <1>1, <2>1, <3>1
  <2>7. UNCHANGED <<[u \in Threads |-> OpOf(u)], [u \in Threads |-> ArgOf(u)]>>
    BY <1>2, <1>3, <1>4, <2>6, AbstractFrame, ZenonT(60)
  <2> QED
    BY <2>5, <2>7 DEF BQ!bqVars
<1>6. CASE ~PushWrite(t)
  <2>1. data' = data /\ pc[t] # "push_write" /\ pc'[t] # "push_write"
    BY <1>1, <1>6 DEF PushReady, PushLost, PushReload, PushCasFails, PopReady, PopLost,
                      PopReload, PopCasFails, PopRead, LoadTail, LoadHead, Goto, shared
  <2>2. Content' = Content
    BY <1>2, <2>1, QuietStep
  <2>3. UNCHANGED <<[u \in Threads |-> OpOf(u)], [u \in Threads |-> ArgOf(u)]>>
    BY <1>2, <1>3, <1>4, <2>1, AbstractFrame, ZenonT(60)
  <2> QED
    BY <2>2, <2>3 DEF BQ!bqVars
<1> QED
  BY <1>5, <1>6

\* Calls and returns move t's operation and leave the queue alone.
LEMMA CallStep ==
  ASSUME Sized, IndInv, NEW t \in Threads,
         \/ \E v \in Values : PushCall(t, v)
         \/ PushFull(t) \/ PushPublish(t)
         \/ PopCall(t) \/ PopEmpty(t) \/ PopRelease(t)
  PROVE  BQ!BQNext
<1> USE RingAssumption
<1> USE DEF PushLoop, PushHold, PopLoop, PopHold
<1>1. /\ pc \in [Threads -> PCs]
      /\ pos \in [Threads -> Nat] /\ val \in [Threads -> Values \cup {None}]
  BY DEF IndInv, TypeOK
<1>2. /\ UNCHANGED <<head, tail, data>>
      /\ \A u \in Threads \ {t} : pc'[u] = pc[u] /\ pos'[u] = pos[u] /\ val'[u] = val[u]
      /\ pc[t] # "push_write" /\ pc'[t] # "push_write"
  BY <1>1 DEF PushCall, PushFull, PushPublish, PopCall, PopEmpty, PopRelease, LoadTail,
              LoadHead, Goto, Return, shared
<1>3. Content' = Content
  BY <1>2, QuietStep
<1> DEFINE O == [u \in Threads |-> OpOf(u)]
           A == [u \in Threads |-> ArgOf(u)]
<1>4. /\ O' = [O EXCEPT ![t] = OpOf(t)'] /\ A' = [A EXCEPT ![t] = ArgOf(t)']
      /\ O[t] = OpOf(t) /\ A[t] = ArgOf(t)
  BY <1>2, AbstractFrame
<1> HIDE DEF O, A
<1>5. ASSUME NEW v \in Values, PushCall(t, v) PROVE BQ!BQNext
  <2>1. OpOf(t) = "idle" /\ OpOf(t)' = "push" /\ ArgOf(t)' = v
    BY <1>1, <1>5 DEF PushCall, LoadTail, Goto, OpOf, ArgOf
  <2>2. BQ!CallPush(t, v)
    BY <1>3, <1>4, <2>1 DEF BQ!CallPush, O, A
  <2> QED
    BY <2>2 DEF BQ!BQNext
<1>6. CASE PushFull(t)
  <2>1. OpOf(t) = "push" /\ OpOf(t)' = "idle" /\ ArgOf(t)' = None
    BY <1>1, <1>6 DEF PushFull, Return, Goto, OpOf, ArgOf
  <2>2. Len(Content) = Cap \/ \E u \in Threads : O[u] = "popped"
    <3>1. \A u \in Threads : pc[u] \in PopHold => O[u] = "popped"
      BY DEF O, OpOf
    <3> QED
      BY <1>6, <3>1, FullAnswer, ContentSeq
  <2>3. BQ!ReturnFull(t)
    BY <1>3, <1>4, <2>1, <2>2 DEF BQ!ReturnFull, BQ!Return, O, A
  <2> QED
    BY <2>3 DEF BQ!BQNext
<1>7. CASE PushPublish(t) \/ PopRelease(t)
  <2>1. OpOf(t) \in {"pushed", "popped"} /\ OpOf(t)' = "idle" /\ ArgOf(t)' = None
    BY <1>1, <1>7 DEF PushPublish, PopRelease, Return, Goto, OpOf, ArgOf
  <2>2. BQ!ReturnOk(t)
    BY <1>3, <1>4, <2>1 DEF BQ!ReturnOk, BQ!Return, O, A
  <2> QED
    BY <2>2 DEF BQ!BQNext
<1>8. CASE PopCall(t)
  <2>1. OpOf(t) = "idle" /\ OpOf(t)' = "pop" /\ ArgOf(t)' = ArgOf(t)
    BY <1>1, <1>8 DEF PopCall, LoadHead, Goto, OpOf, ArgOf, shared
  <2>2. A' = A
    BY <1>4, <2>1 DEF A
  <2>3. BQ!CallPop(t)
    BY <1>3, <1>4, <2>1, <2>2 DEF BQ!CallPop, O, A
  <2> QED
    BY <2>3 DEF BQ!BQNext
<1>9. CASE PopEmpty(t)
  <2>1. OpOf(t) = "pop" /\ OpOf(t)' = "idle" /\ ArgOf(t)' = None
    BY <1>1, <1>9 DEF PopEmpty, Return, Goto, OpOf, ArgOf
  <2>2. Content = << >> \/ \E u \in Threads : O[u] = "pushed"
    <3>1. \A u \in Threads : pc[u] \in PushHold => O[u] = "pushed"
      BY DEF O, OpOf
    <3>2. tail = head => Content = << >>
      BY ContentSeq
    <3> QED
      BY <1>9, <3>1, <3>2, EmptyAnswer
  <2>3. BQ!ReturnEmpty(t)
    BY <1>3, <1>4, <2>1, <2>2 DEF BQ!ReturnEmpty, BQ!Return, O, A
  <2> QED
    BY <2>3 DEF BQ!BQNext
<1> QED
  BY <1>5, <1>6, <1>7, <1>8, <1>9

\* push takes effect when it claims tail.
LEMMA EnqueueStep ==
  ASSUME Sized, IndInv, NEW t \in Threads, PushClaim(t)
  PROVE  BQ!BQNext
<1> USE RingAssumption
<1>1. /\ head \in Nat /\ tail \in Nat /\ head <= tail /\ pc \in [Threads -> PCs]
      /\ pos \in [Threads -> Nat]
  BY DEF IndInv, TypeOK
<1>2. pos[t] = tail /\ seq[Cell(tail)] = tail
  <2>1. tail - Window <= pos[t] /\ pos[t] <= tail
    BY DEF PushClaim, IndInv, LoopInv, PushLoop
  <2>2. pos[t] = tail
    BY <1>1, <2>1, WordExact DEF PushClaim, Sized
  <2> QED
    BY <2>2 DEF PushClaim, IndInv, LoopInv
<1>3. tail < head + Cap
  BY <1>2, TailCell
<1>4. /\ tail' = tail + 1 /\ UNCHANGED <<head, data, pos, val>>
      /\ pc' = [pc EXCEPT ![t] = "push_write"] /\ pc[t] = "push_cas"
  BY DEF PushClaim, Goto
<1>5. PICK n \in Nat : n = tail
  BY <1>1
<1>6. Elem(n)' = val[t]
  <2>1. Writers(n)' = {t}
    <3>1. pc'[t] = "push_write" /\ \A u \in Threads \ {t} : pc'[u] = pc[u]
      BY <1>1, <1>4
    <3>2. \A u \in Threads : pc[u] = "push_write" => pos[u] # n
      BY <1>1, <1>5 DEF IndInv, SlotInv, PushHold
    <3> QED
      BY <1>2, <1>4, <1>5, <3>1, <3>2 DEF Writers
  <2>2. (CHOOSE u \in {t} : TRUE) = t
    OBVIOUS
  <2> QED
    BY <1>4, <2>1, <2>2 DEF Elem
<1>7. ASSUME NEW p \in head .. tail - 1 PROVE Elem(p)' = Elem(p)
  <2>1. p \in Int /\ p # pos[t]
    BY <1>1, <1>2
  <2>2. Writers(p)' = Writers(p)
    BY <1>1, <1>4, <2>1 DEF Writers
  <2> QED
    BY <1>4, <2>1, <2>2, ElemFrame
<1>8. /\ tail - head \in Nat /\ Len(Content) = tail - head
      /\ Content \in Seq(Values \cup {None})
  BY ContentSeq
<1>9. Content' = Append(Content, val[t])
  <2>1. tail' - head' = (tail - head) + 1
    BY <1>1, <1>4
  <2>2. Content' = [i \in 1 .. (tail - head) + 1 |-> Elem(head + i - 1)']
    BY <1>4, <2>1 DEF Content
  <2>3. Append(Content, val[t]) =
          [i \in 1 .. (tail - head) + 1 |->
             IF i = (tail - head) + 1 THEN val[t] ELSE Content[i]]
    BY <1>8
  <2>4. ASSUME NEW i \in 1 .. (tail - head) + 1
        PROVE  Elem(head + i - 1)' = IF i = (tail - head) + 1 THEN val[t] ELSE Content[i]
    <3>1. PICK p \in Int : p = head + i - 1
      BY <1>1
    <3>2. Elem(head + i - 1)' = Elem(p)'
      BY <1>4, <3>1
    <3>3. CASE i = (tail - head) + 1
      BY <1>1, <1>5, <1>6, <3>1, <3>2, <3>3
    <3>4. CASE i # (tail - head) + 1
      <4>1. p \in head .. tail - 1 /\ i \in 1 .. tail - head
        BY <1>1, <3>1, <3>4
      <4> QED
        BY <1>7, <3>1, <3>2, <3>4, <4>1 DEF Content
    <3> QED
      BY <3>3, <3>4
  <2> QED
    BY <2>2, <2>3, <2>4
<1>10. /\ OpOf(t) = "push" /\ OpOf(t)' = "pushed" /\ ArgOf(t) = val[t]
       /\ ArgOf(t)' = val[t]
  <2>1. pc'[t] = "push_write"
    BY <1>1, <1>4
  <2>2. OpOf(t) = "push" /\ OpOf(t)' = "pushed"
    BY <1>4, <2>1 DEF OpOf, PushLoop, PushHold, PopLoop, PopHold
  <2> QED
    BY <1>4, <2>1, <2>2 DEF ArgOf
<1> DEFINE O == [u \in Threads |-> OpOf(u)]
           A == [u \in Threads |-> ArgOf(u)]
<1>11. /\ O' = [O EXCEPT ![t] = OpOf(t)'] /\ A' = [A EXCEPT ![t] = ArgOf(t)']
       /\ O[t] = OpOf(t) /\ A[t] = ArgOf(t)
  BY <1>1, <1>4, AbstractFrame
<1>12. A' = A
  BY <1>10, <1>11
<1>13. Len(Content) < Cap
  BY <1>1, <1>3, <1>8
<1> HIDE DEF O, A
<1>14. BQ!Enqueue(t)
  BY <1>9, <1>10, <1>11, <1>12, <1>13 DEF BQ!Enqueue, O, A
<1> QED
  BY <1>14 DEF BQ!BQNext

\* pop takes effect when it claims head.
LEMMA DequeueStep ==
  ASSUME Sized, IndInv, NEW t \in Threads, PopClaim(t)
  PROVE  BQ!BQNext
<1> USE RingAssumption
<1>1. /\ head \in Nat /\ tail \in Nat /\ head <= tail /\ pc \in [Threads -> PCs]
      /\ pos \in [Threads -> Nat]
  BY DEF IndInv, TypeOK
<1>2. pos[t] = head /\ seq[Cell(head)] = head + 1
  <2>1. head - Window <= pos[t] /\ pos[t] <= head
    BY DEF PopClaim, IndInv, LoopInv, PopLoop
  <2>2. pos[t] = head
    BY <1>1, <2>1, WordExact DEF PopClaim, Sized
  <2> QED
    BY <2>2 DEF PopClaim, IndInv, LoopInv
<1>3. head < tail
  BY <1>2, HeadCell
<1>4. /\ head' = head + 1 /\ UNCHANGED <<tail, data, pos, val>>
      /\ pc' = [pc EXCEPT ![t] = "pop_read"] /\ pc[t] = "pop_cas"
  BY DEF PopClaim, Goto
<1>5. Elem(head) = data[Cell(head)]
  <2>1. Writers(head) = {}
    <3>1. ASSUME NEW u \in Threads, pc[u] = "push_write" PROVE pos[u] # head
      BY <1>1, <1>2, <3>1 DEF IndInv, SlotInv, PushHold
    <3> QED
      BY <3>1 DEF Writers
  <2> QED
    BY <2>1 DEF Elem
<1>6. ASSUME NEW p \in Int PROVE Elem(p)' = Elem(p)
  <2>1. Writers(p)' = Writers(p)
    BY <1>1, <1>4 DEF Writers
  <2> QED
    BY <1>4, <2>1, ElemFrame
<1>7. /\ tail - head \in Nat /\ Len(Content) = tail - head
      /\ Content \in Seq(Values \cup {None})
  BY ContentSeq
<1>8. Content # << >> /\ Content' = Tail(Content)
  <2>1. tail' - head' = (tail - head) - 1
    BY <1>1, <1>4
  <2>2. Content' = [i \in 1 .. (tail - head) - 1 |-> Elem(head + i - 1)']
    BY <1>4, <2>1 DEF Content
  <2>3. Tail(Content) = [i \in 1 .. (tail - head) - 1 |-> Content[i + 1]]
    <3>1. /\ Tail(Content) \in Seq(Values \cup {None})
          /\ Len(Tail(Content)) = (tail - head) - 1
          /\ \A i \in 1 .. (tail - head) - 1 : Tail(Content)[i] = Content[i + 1]
      BY <1>1, <1>3, <1>7
    <3>2. ASSUME NEW s \in Seq(Values \cup {None})
          PROVE  s \in [1 .. Len(s) -> Values \cup {None}]
      OBVIOUS
    <3>3. Tail(Content) \in [1 .. (tail - head) - 1 -> Values \cup {None}]
      BY <3>1, <3>2
    <3> QED
      BY <3>1, <3>3
  <2>4. ASSUME NEW i \in 1 .. (tail - head) - 1
        PROVE  Elem(head + i - 1)' = Content[i + 1]
    <3>1. PICK p \in Int : p = head + (i + 1) - 1
      BY <1>1
    <3>2. head' + i - 1 = p /\ i + 1 \in 1 .. tail - head
      BY <1>1, <1>4, <3>1
    <3>3. Elem(head + i - 1)' = Elem(p)'
      BY <3>2
    <3> QED
      BY <1>6, <3>1, <3>2, <3>3 DEF Content
  <2>5. Content # << >>
    BY <1>1, <1>3, <1>7
  <2> QED
    BY <2>2, <2>3, <2>4, <2>5
<1>9. Head(Content) = data[Cell(head)]
  <2>1. 1 \in 1 .. tail - head /\ head + 1 - 1 = head
    BY <1>1, <1>3
  <2>2. Content[1] = data[Cell(head)]
    BY <1>5, <2>1 DEF Content
  <2> QED
    BY <1>7, <2>2
<1>10. /\ OpOf(t) = "pop" /\ OpOf(t)' = "popped" /\ ArgOf(t)' = data[Cell(head)]
  BY <1>1, <1>2, <1>4 DEF OpOf, ArgOf, PushLoop, PushHold, PopLoop, PopHold
<1> DEFINE O == [u \in Threads |-> OpOf(u)]
           A == [u \in Threads |-> ArgOf(u)]
<1>11. /\ O' = [O EXCEPT ![t] = OpOf(t)'] /\ A' = [A EXCEPT ![t] = ArgOf(t)']
       /\ O[t] = OpOf(t) /\ A[t] = ArgOf(t)
  BY <1>1, <1>4, AbstractFrame
<1> HIDE DEF O, A
<1>12. BQ!Dequeue(t)
  BY <1>8, <1>9, <1>10, <1>11 DEF BQ!Dequeue, O, A
<1> QED
  BY <1>12 DEF BQ!BQNext

\* gmk_ring_mpmc_push and gmk_ring_mpmc_pop are linearizable: every step of
\* their code is a step of the FIFO queue BoundedQueue or invisible, for any
\* number of threads.
THEOREM Refinement ==
  ASSUME Sized
  PROVE  Spec => ImplementsQueue
<1>1. Init => BQ!BQInit
  <2> SUFFICES ASSUME Init PROVE BQ!BQInit
    OBVIOUS
  <2>1. Content = << >>
    BY InitInv, ContentSeq DEF Init
  <2>2. \A t \in Threads : OpOf(t) = "idle" /\ ArgOf(t) = None
    BY Zenon DEF Init, OpOf, ArgOf, PushLoop, PushHold, PopLoop, PopHold
  <2> QED
    BY <2>1, <2>2, Zenon DEF BQ!BQInit
<1>2. IndInv /\ [Next]_vars => [BQ!BQNext]_(BQ!bqVars)
  <2>1. ASSUME IndInv, Next PROVE BQ!BQNext \/ UNCHANGED BQ!bqVars
    BY <2>1, SilentStep, CallStep, EnqueueStep, DequeueStep DEF Next, PushStep, PopStep
  <2>2. ASSUME UNCHANGED vars PROVE UNCHANGED BQ!bqVars
    BY <2>2 DEF vars, BQ!bqVars, Content, Elem, Writers, OpOf, ArgOf
  <2> QED
    BY <2>1, <2>2
<1> QED
  BY <1>1, <1>2, Invariance, PTL DEF Spec, ImplementsQueue, BQ!BQSpec
=============================================================================
