------------------------- MODULE LocalQueue_proofs -------------------------
(***************************************************************************)
(* The local queue of a worker, for any capacity, any number of tasks and  *)
(* any starting position, when at most one thread pushes; that thread may  *)
(* be the worker itself, whose handlers yield.                             *)
(***************************************************************************)
EXTENDS LocalQueue, TLAPS

\* What the ring of ring_spsc.c is written for.  (The run lq_two_producers
\* shows what happens without it.)
OneProducer == \A t, u \in Producers : t = u

-----------------------------------------------------------------------------
(* The inductive invariant *)

Room == {"push_copy", "yield_copy", "push_store", "yield_store"}
Counted == {"push_tail", "push_check", "push_copy", "push_store"}
AtTail == {"count", "push_check", "yield_check"} \cup Room
Pushing == AtTail \cup {"push_tail", "pushed"}
PopPCs == {"pop_check", "pop_copy", "pop_store"}

Taken(x) == \E i \in 1 .. Len(taken) : taken[i] = x
InRing(x) == \E p \in head .. tail - 1 : buf[Slot(p)] = x

\* What a thread in the middle of a call relies on: the producer's copy of
\* tail is exact, and the room or the reserve it found is still there; the
\* consumer's copy of head is exact, and the task it found still there.
ThreadInv(t) ==
  /\ pc[t] = "idle" => val[t] = None
  /\ pc[t] \in Pushing => t \in Producers /\ val[t] \in Tasks
  /\ pc[t] \in AtTail => pos[t] = tail
  /\ pc[t] \in Counted => tail - head < Watermark
  /\ pc[t] \in Room => tail - head < Cap
  /\ pc[t] \in {"push_store", "yield_store"} => buf[Slot(tail)] = val[t]
  /\ pc[t] = "pushed" => Taken(val[t]) \/ InRing(val[t])
  /\ pc[t] \in PopPCs => t = Consumer /\ pos[t] = head
  /\ pc[t] \in {"pop_check", "pop_copy"} => val[t] = None
  /\ pc[t] \in {"pop_copy", "pop_store"} => head < tail
  /\ pc[t] = "pop_store" => val[t] = buf[Slot(head)]

RingInv == /\ tail <= head + Cap
           /\ \A p \in head .. tail - 1 : buf[Slot(p)] \in Tasks

IndInv == /\ TypeOK /\ RingInv /\ NoTaskLost
          /\ \A t \in Threads : ThreadInv(t)

\* Numbers less than n apart are told apart by their remainders.
LEMMA ModInjective ==
  ASSUME NEW n \in Nat \ {0}, NEW a \in Int, NEW b \in Int,
         a % n = b % n, a - b < n, b - a < n
  PROVE  a = b
<1>1. PICK k \in Int : a - b = n * k
  <2>1. a = n * (a \div n) + (a % n) /\ b = n * (b \div n) + (b % n)
    OBVIOUS
  <2>2. a - b = n * ((a \div n) - (b \div n)) /\ (a \div n) - (b \div n) \in Int
    BY <2>1
  <2> QED
    BY <2>2
<1>2. k >= 1 => n * k >= n
  OBVIOUS
<1>3. k <= -1 => n * k <= -n
  OBVIOUS
<1> QED
  BY <1>1, <1>2, <1>3

\* A position has a slot; positions less than Cap apart have different ones.
LEMMA SlotFacts ==
  /\ \A p \in Int : Slot(p) \in 0 .. Cap - 1
  /\ \A p, q \in Int : Slot(p) = Slot(q) /\ p - q < Cap /\ q - p < Cap => p = q
<1> USE LQAssumption
<1>1. ASSUME NEW p \in Int PROVE Slot(p) \in 0 .. Cap - 1
  BY DEF Slot
<1>2. ASSUME NEW p \in Int, NEW q \in Int, Slot(p) = Slot(q), p - q < Cap, q - p < Cap
      PROVE  p = q
  BY <1>2, ModInjective DEF Slot
<1> QED
  BY <1>1, <1>2

\* tail - head in uint32_t is the number of tasks in the ring.
LEMMA FillExact ==
  ASSUME NEW a \in Int, NEW b \in Int, b <= a, a <= b + Cap
  PROVE  Fill(a, b) = a - b
<1>1. a - b \in Int /\ -W <= a - b /\ a - b < W /\ a - b >= 0 /\ W \in Nat \ {0}
  BY LQAssumption
<1>2. (a - b) % W = a - b
  BY <1>1
<1> QED
  BY <1>2 DEF Fill

LEMMA InitInv ==
  ASSUME Init
  PROVE  IndInv
<1> USE LQAssumption
<1>1. TypeOK
  BY DEF Init, TypeOK, PCs
<1>2. RingInv /\ NoTaskLost
  BY DEF Init, RingInv, NoTaskLost
<1>3. \A t \in Threads : ThreadInv(t)
  BY DEF Init, ThreadInv, Pushing, AtTail, Counted, Room, PopPCs
<1> QED
  BY <1>1, <1>2, <1>3 DEF IndInv

\* A step of t that does not write the ring leaves the other threads alone.
LEMMA Frame ==
  ASSUME IndInv, UNCHANGED <<ring, accepted, taken>>, TypeOK', NEW t \in Threads,
         \A u \in Threads \ {t} : /\ pc'[u] = pc[u] /\ pos'[u] = pos[u]
                                 /\ val'[u] = val[u],
         ThreadInv(t)'
  PROVE  IndInv'
<1>1. UNCHANGED <<head, tail, buf, accepted, taken>>
  BY DEF ring
<1>2. RingInv' /\ NoTaskLost'
  BY <1>1 DEF IndInv, RingInv, NoTaskLost
<1>3. ASSUME NEW u \in Threads \ {t} PROVE ThreadInv(u)'
  BY <1>1 DEF IndInv, ThreadInv, Taken, InRing
<1> QED
  BY <1>2, <1>3 DEF IndInv

\* Calls, loads, checks and failures: t only looks at the ring.
LEMMA LookInv ==
  ASSUME IndInv, NEW t \in Threads,
         \/ LqPush(t) \/ LqPushYield(t) \/ PastWatermark(t) \/ BelowWatermark(t)
         \/ PushTail(t) \/ PushFull(t) \/ PushRoom(t)
         \/ LqPop(t) \/ PopEmpty(t) \/ PopSome(t) \/ PopCopy(t)
  PROVE  IndInv'
<1> USE LQAssumption
<1> USE DEF Goto, Load, Return, ghosts
<1>1. /\ head \in Nat /\ tail \in Nat /\ head <= tail /\ tail <= head + Cap
      /\ pc \in [Threads -> PCs] /\ pos \in [Threads -> Nat]
      /\ val \in [Threads -> Tasks \cup {None}] /\ calls \in Nat
      /\ buf \in [0 .. Cap - 1 -> Tasks \cup {None}]
  BY DEF IndInv, TypeOK, RingInv
<1>2. Slot(head) \in 0 .. Cap - 1 /\ Slot(pos[t]) \in 0 .. Cap - 1
  BY <1>1, SlotFacts
<1>3. UNCHANGED <<ring, accepted, taken>>
  BY DEF LqPush, LqPushYield, NewTask, PastWatermark, BelowWatermark, PushTail,
         PushFull, PushRoom, LqPop, PopEmpty, PopSome, PopCopy
<1>4. ThreadInv(t) /\ TypeOK /\ RingInv
  BY DEF IndInv
<1>5. Fill(tail, head) = tail - head
  BY <1>1, FillExact
<1> USE DEF Pushing, AtTail, Counted, Room, PopPCs, PCs
<1>6. CASE LqPush(t) \/ LqPushYield(t)
  <2>1. \E l \in {"count", "yield_check"} :
           /\ pc' = [pc EXCEPT ![t] = l] /\ pos' = [pos EXCEPT ![t] = tail]
           /\ val' = [val EXCEPT ![t] = calls + 1] /\ t \in Producers
           /\ calls' = calls + 1 /\ calls < MaxPush
    BY <1>6 DEF LqPush, LqPushYield, NewTask, Producers
  <2>2. calls + 1 \in Tasks
    BY <1>1, <2>1 DEF Tasks
  <2>3. TypeOK'
    BY <1>1, <1>3, <1>4, <2>1, <2>2 DEF TypeOK, ring
  <2>4. ThreadInv(t)'
    BY <1>1, <1>3, <2>1, <2>2 DEF ThreadInv, ring
  <2> QED
    BY <1>1, <1>3, <2>1, <2>3, <2>4, Frame
<1>7. CASE PastWatermark(t) \/ PushFull(t) \/ PopEmpty(t)
  <2>1. /\ pc' = [pc EXCEPT ![t] = "idle"] /\ pos' = [pos EXCEPT ![t] = Start]
        /\ val' = [val EXCEPT ![t] = None] /\ calls' = calls
    BY <1>7 DEF PastWatermark, PushFull, PopEmpty
  <2>2. TypeOK'
    BY <1>1, <1>3, <1>4, <2>1 DEF TypeOK, ring
  <2>3. ThreadInv(t)'
    BY <1>1, <2>1 DEF ThreadInv
  <2> QED
    BY <1>1, <1>3, <2>1, <2>2, <2>3, Frame
<1>8. CASE BelowWatermark(t) \/ PushTail(t) \/ PushRoom(t) \/ LqPop(t) \/ PopSome(t)
  <2>1. /\ \E l \in PCs : pc' = [pc EXCEPT ![t] = l]
        /\ \E n \in Nat : pos' = [pos EXCEPT ![t] = n]
        /\ UNCHANGED <<val, calls>>
    <3>1. pos = [pos EXCEPT ![t] = pos[t]] /\ pos[t] \in Nat
      BY <1>1
    <3> QED
      BY <1>1, <1>8, <3>1 DEF BelowWatermark, PushTail, PushRoom, LqPop, PopSome
  <2>2. TypeOK'
    BY <1>1, <1>3, <1>4, <2>1 DEF TypeOK, ring
  <2>3. ThreadInv(t)'
    <3>1. CASE BelowWatermark(t)
      BY <1>1, <1>3, <1>4, <1>5, <3>1 DEF ThreadInv, ring, BelowWatermark
    <3>2. CASE PushTail(t)
      BY <1>1, <1>3, <1>4, <3>2 DEF ThreadInv, ring, PushTail
    <3>3. CASE PushRoom(t)
      BY <1>1, <1>3, <1>4, <1>5, <3>3 DEF ThreadInv, ring, PushRoom, Checking
    <3>4. CASE LqPop(t)
      BY <1>1, <1>3, <1>4, <3>4 DEF ThreadInv, ring, LqPop
    <3>5. CASE PopSome(t)
      BY <1>1, <1>3, <1>4, <1>5, <3>5 DEF ThreadInv, ring, PopSome
    <3> QED
      BY <1>8, <3>1, <3>2, <3>3, <3>4, <3>5
  <2> QED
    BY <1>1, <1>3, <2>1, <2>2, <2>3, Frame
<1>9. CASE PopCopy(t)
  <2>1. /\ pc[t] = "pop_copy" /\ pc' = [pc EXCEPT ![t] = "pop_store"]
        /\ val' = [val EXCEPT ![t] = buf[Slot(pos[t])]]
        /\ UNCHANGED <<pos, calls>>
    BY <1>9 DEF PopCopy
  <2>2. TypeOK'
    BY <1>1, <1>2, <1>3, <1>4, <2>1 DEF TypeOK, ring
  <2>3. ThreadInv(t)'
    BY <1>1, <1>3, <1>4, <2>1 DEF ThreadInv, ring
  <2> QED
    BY <1>1, <1>3, <2>1, <2>2, <2>3, Frame
<1> QED
  BY <1>6, <1>7, <1>8, <1>9

\* The memcpy into the slot at tail, which no task in the ring occupies.
LEMMA PushCopyInv ==
  ASSUME OneProducer, IndInv, NEW t \in Threads, PushCopy(t)
  PROVE  IndInv'
<1> USE LQAssumption
<1> USE DEF Pushing, AtTail, Counted, Room, PopPCs, PCs
<1>1. /\ head \in Nat /\ tail \in Nat /\ head <= tail /\ tail <= head + Cap
      /\ pc \in [Threads -> PCs] /\ pos \in [Threads -> Nat]
      /\ val \in [Threads -> Tasks \cup {None}]
      /\ buf \in [0 .. Cap - 1 -> Tasks \cup {None}]
  BY DEF IndInv, TypeOK, RingInv
<1>2. ThreadInv(t) /\ TypeOK /\ RingInv /\ NoTaskLost
  BY DEF IndInv
<1>3. /\ pos[t] = tail /\ val[t] \in Tasks /\ t \in Producers /\ tail < head + Cap
      /\ buf' = [buf EXCEPT ![Slot(tail)] = val[t]]
      /\ UNCHANGED <<head, tail, pos, val, calls, accepted, taken>>
      /\ pc[t] \in {"push_copy", "yield_copy"}
      /\ pc' = [pc EXCEPT ![t] = IF pc[t] = "push_copy" THEN "push_store"
                                                      ELSE "yield_store"]
  <2>1. pc[t] \in {"push_copy", "yield_copy"}
    BY DEF PushCopy
  <2>2. pos[t] = tail /\ val[t] \in Tasks /\ t \in Producers /\ tail < head + Cap
    BY <1>1, <1>2, <2>1 DEF ThreadInv
  <2> QED
    BY <2>1, <2>2 DEF PushCopy, Goto, ghosts
<1>4. Slot(tail) \in 0 .. Cap - 1
  BY <1>1, SlotFacts
<1>5. buf'[Slot(tail)] = val[t]
  BY <1>1, <1>3, <1>4
<1>6. ASSUME NEW p \in head .. tail - 1 PROVE buf'[Slot(p)] = buf[Slot(p)]
  <2>1. p \in Int /\ Slot(p) \in 0 .. Cap - 1 /\ Slot(p) # Slot(tail)
    BY <1>1, <1>3, SlotFacts, SMTT(60)
  <2> QED
    BY <1>1, <1>3, <2>1
<1>7. TypeOK'
  BY <1>1, <1>2, <1>3, <1>4 DEF TypeOK
<1>8. RingInv' /\ NoTaskLost'
  BY <1>2, <1>3, <1>6 DEF RingInv, NoTaskLost
<1>9. ThreadInv(t)'
  BY <1>1, <1>2, <1>3, <1>5 DEF ThreadInv
<1>10. ASSUME NEW u \in Threads \ {t} PROVE ThreadInv(u)'
  <2>1. pc'[u] = pc[u] /\ pos'[u] = pos[u] /\ val'[u] = val[u] /\ ThreadInv(u)
    BY <1>1, <1>3 DEF IndInv
  <2>2. pc[u] \notin Pushing
    BY <1>3, <2>1 DEF ThreadInv, OneProducer
  <2>3. head < tail => buf'[Slot(head)] = buf[Slot(head)]
    BY <1>1, <1>6
  <2> QED
    BY <1>1, <1>3, <2>1, <2>2, <2>3 DEF ThreadInv
<1> QED
  BY <1>7, <1>8, <1>9, <1>10 DEF IndInv

\* The store of tail publishes the task.
LEMMA PushStoreInv ==
  ASSUME OneProducer, IndInv, NEW t \in Threads, PushStore(t)
  PROVE  IndInv' /\ tail' = tail + 1
         /\ (pc[t] = "push_store" => tail' - head <= Watermark)
<1> USE LQAssumption
<1> USE DEF Pushing, AtTail, Counted, Room, PopPCs, PCs
<1>1. /\ head \in Nat /\ tail \in Nat /\ head <= tail
      /\ pc \in [Threads -> PCs] /\ pos \in [Threads -> Nat]
      /\ val \in [Threads -> Tasks \cup {None}]
  BY DEF IndInv, TypeOK
<1>2. ThreadInv(t) /\ TypeOK /\ RingInv /\ NoTaskLost
  BY DEF IndInv
<1>3. /\ pos[t] = tail /\ val[t] \in Tasks /\ t \in Producers /\ tail < head + Cap
      /\ tail' = tail + 1 /\ buf[Slot(tail)] = val[t]
      /\ UNCHANGED <<head, buf, pos, val, calls, accepted, taken>>
      /\ pc' = [pc EXCEPT ![t] = "pushed"]
  BY <1>1, <1>2 DEF ThreadInv, PushStore, Goto, ghosts
<1>4. TypeOK'
  BY <1>1, <1>2, <1>3 DEF TypeOK
<1>5. RingInv'
  <2>1. ASSUME NEW p \in head .. tail PROVE buf[Slot(p)] \in Tasks
    <3>1. CASE p = tail
      BY <1>3, <3>1
    <3>2. CASE p # tail
      BY <1>1, <1>2, <3>2 DEF RingInv
    <3> QED
      BY <3>1, <3>2
  <2> QED
    BY <1>1, <1>3, <2>1 DEF RingInv
<1>6. ASSUME NEW x, InRing(x) PROVE InRing(x)'
  BY <1>1, <1>3, <1>6 DEF InRing
<1>7. NoTaskLost'
  BY <1>2, <1>3, <1>6, SMTT(60) DEF NoTaskLost, InRing
<1>8. InRing(val[t])'
  BY <1>1, <1>3 DEF InRing
<1>9. ThreadInv(t)'
  BY <1>1, <1>2, <1>3, <1>8 DEF ThreadInv
<1>10. ASSUME NEW u \in Threads \ {t} PROVE ThreadInv(u)'
  <2>1. pc'[u] = pc[u] /\ pos'[u] = pos[u] /\ val'[u] = val[u] /\ ThreadInv(u)
    BY <1>1, <1>3 DEF IndInv
  <2>2. pc[u] \notin Pushing
    BY <1>3, <2>1 DEF ThreadInv, OneProducer
  <2> QED
    BY <1>1, <1>3, <2>1, <2>2 DEF ThreadInv
<1>11. pc[t] = "push_store" => tail' - head <= Watermark
  <2>1. Watermark \in Int
    BY DEF Watermark
  <2> QED
    BY <1>1, <1>2, <1>3, <2>1 DEF ThreadInv
<1> QED
  BY <1>3, <1>4, <1>5, <1>7, <1>9, <1>10, <1>11 DEF IndInv

LEMMA PushReturnInv ==
  ASSUME IndInv, NEW t \in Threads, PushReturn(t)
  PROVE  IndInv'
<1> USE LQAssumption
<1> USE DEF Pushing, AtTail, Counted, Room, PopPCs, PCs
<1>1. /\ pc \in [Threads -> PCs] /\ pos \in [Threads -> Nat]
      /\ val \in [Threads -> Tasks \cup {None}]
  BY DEF IndInv, TypeOK
<1>2. ThreadInv(t) /\ TypeOK /\ RingInv /\ NoTaskLost
  BY DEF IndInv
<1>3. /\ UNCHANGED <<head, tail, buf, calls, taken>>
      /\ accepted' = accepted \cup {val[t]} /\ pc[t] = "pushed"
      /\ pc' = [pc EXCEPT ![t] = "idle"] /\ pos' = [pos EXCEPT ![t] = Start]
      /\ val' = [val EXCEPT ![t] = None]
  BY DEF PushReturn, Return, Goto, ring
<1>4. val[t] \in Tasks /\ (Taken(val[t]) \/ InRing(val[t]))
  BY <1>2, <1>3 DEF ThreadInv
<1>5. TypeOK' /\ RingInv'
  BY <1>1, <1>2, <1>3, <1>4 DEF TypeOK, RingInv
<1>6. NoTaskLost'
  BY <1>2, <1>3, <1>4 DEF NoTaskLost, Taken, InRing
<1>7. ThreadInv(t)'
  BY <1>1, <1>3 DEF ThreadInv
<1>8. ASSUME NEW u \in Threads \ {t} PROVE ThreadInv(u)'
  <2>1. pc'[u] = pc[u] /\ pos'[u] = pos[u] /\ val'[u] = val[u] /\ ThreadInv(u)
    BY <1>1, <1>3 DEF IndInv
  <2> QED
    BY <1>3, <2>1 DEF ThreadInv, Taken, InRing
<1> QED
  BY <1>5, <1>6, <1>7, <1>8 DEF IndInv

\* The store of head: the task at head has been taken.
LEMMA PopStoreInv ==
  ASSUME IndInv, NEW t \in Threads, PopStore(t)
  PROVE  IndInv'
<1> USE LQAssumption
<1> USE DEF Pushing, AtTail, Counted, Room, PopPCs, PCs
<1>1. /\ head \in Nat /\ tail \in Nat /\ head <= tail
      /\ pc \in [Threads -> PCs] /\ pos \in [Threads -> Nat]
      /\ val \in [Threads -> Tasks \cup {None}] /\ taken \in Seq(Tasks)
  BY DEF IndInv, TypeOK
<1>2. ThreadInv(t) /\ TypeOK /\ RingInv /\ NoTaskLost
  BY DEF IndInv
<1>3. /\ pos[t] = head /\ head < tail /\ val[t] = buf[Slot(head)] /\ t = Consumer
      /\ head' = head + 1 /\ taken' = Append(taken, val[t])
      /\ UNCHANGED <<tail, buf, calls, accepted>>
      /\ pc' = [pc EXCEPT ![t] = "idle"] /\ pos' = [pos EXCEPT ![t] = Start]
      /\ val' = [val EXCEPT ![t] = None]
  BY <1>1, <1>2 DEF ThreadInv, PopStore, Return, Goto
<1>4. val[t] \in Tasks
  <2>1. head \in head .. tail - 1
    BY <1>1, <1>3
  <2> QED
    BY <1>2, <1>3, <2>1 DEF RingInv
<1>5a. taken' \in Seq(Tasks) /\ Len(taken') = Len(taken) + 1
       /\ taken'[Len(taken) + 1] = val[t]
       /\ \A i \in 1 .. Len(taken) : taken'[i] = taken[i]
  BY <1>1, <1>3, <1>4
<1>5. TypeOK' /\ RingInv'
  <2>1. TypeOK'
    BY <1>1, <1>2, <1>3, <1>5a DEF TypeOK
  <2>2. RingInv'
    BY <1>1, <1>2, <1>3, SMTT(60) DEF RingInv
  <2> QED
    BY <2>1, <2>2
<1>6. ASSUME NEW x, Taken(x) \/ InRing(x) PROVE Taken(x)' \/ InRing(x)'
  <2>1. \E i \in 1 .. Len(taken') : taken'[i] = val[t]
    BY <1>1, <1>5a
  <2>2. CASE Taken(x)
    BY <1>1, <1>5a, <2>2 DEF Taken
  <2>3. ASSUME NEW p \in head .. tail - 1, buf[Slot(p)] = x
        PROVE  Taken(x)' \/ InRing(x)'
    <3>1. CASE p = head
      <4>1. x = val[t]
        BY <1>3, <2>3, <3>1
      <4> QED
        BY <2>1, <4>1 DEF Taken
    <3>2. CASE p # head
      BY <1>1, <1>3, <2>3, <3>2 DEF InRing
    <3> QED
      BY <3>1, <3>2
  <2> QED
    BY <1>6, <2>2, <2>3 DEF InRing
<1>7. NoTaskLost'
  BY <1>2, <1>3, <1>6 DEF NoTaskLost, Taken, InRing
<1>8. ThreadInv(t)'
  BY <1>1, <1>3 DEF ThreadInv
<1>9. ASSUME NEW u \in Threads \ {t} PROVE ThreadInv(u)'
  <2>1. pc'[u] = pc[u] /\ pos'[u] = pos[u] /\ val'[u] = val[u] /\ ThreadInv(u)
    BY <1>1, <1>3 DEF IndInv
  <2>2. pc[u] \notin PopPCs
    BY <1>3, <2>1 DEF ThreadInv
  <2>3. Watermark \in Int
    BY DEF Watermark
  <2> QED
    BY <1>1, <1>3, <1>6, <2>1, <2>2, <2>3 DEF ThreadInv
<1> QED
  BY <1>5, <1>7, <1>8, <1>9 DEF IndInv

LEMMA NextInv ==
  ASSUME OneProducer, IndInv, [Next]_vars
  PROVE  IndInv'
<1>1. CASE UNCHANGED vars
  BY <1>1 DEF vars, IndInv, TypeOK, RingInv, NoTaskLost, ThreadInv, Taken, InRing
<1>2. CASE Next
  BY <1>2, LookInv, PushCopyInv, PushStoreInv, PushReturnInv, PopStoreInv DEF Next
<1> QED
  BY <1>1, <1>2

-----------------------------------------------------------------------------
(* The theorems *)

\* The positions, slots and threads of ring_spsc.c always satisfy the
\* inductive invariant.
THEOREM Invariance ==
  ASSUME OneProducer
  PROVE  Spec => []IndInv
<1>1. Init => IndInv
  BY InitInv
<1>2. IndInv /\ [Next]_vars => IndInv'
  BY NextInv
<1> QED
  BY <1>1, <1>2, PTL DEF Spec

\* The variables of ring_spsc.c keep their types: head never passes tail, and
\* only tasks are ever popped.
THEOREM TypeCorrect ==
  ASSUME OneProducer
  PROVE  Spec => []TypeOK
<1>1. IndInv => TypeOK
  BY DEF IndInv
<1> QED
  BY <1>1, Invariance, PTL

\* gmk_lq_push and gmk_lq_push_yield lose no task they have accepted.
THEOREM TasksKept ==
  ASSUME OneProducer
  PROVE  Spec => []NoTaskLost
<1>1. IndInv => NoTaskLost
  BY DEF IndInv
<1> QED
  BY <1>1, Invariance, PTL

\* A task stored by gmk_lq_push leaves the yield reserve free.
THEOREM ReserveKept ==
  ASSUME OneProducer
  PROVE  Spec => YieldReserveKept
<1>1. IndInv => [\A t \in Producers :
                    pc[t] = "push_store" /\ PushStore(t) => tail' - head <= Watermark]_vars
  BY PushStoreInv DEF Threads
<1> QED
  BY <1>1, Invariance, PTL DEF YieldReserveKept

-----------------------------------------------------------------------------
(* The refinement of BoundedQueue *)

\* Content is a sequence of the tasks from First on.
LEMMA ContentSeq ==
  ASSUME IndInv
  PROVE  /\ First \in Nat /\ head <= First /\ First <= tail /\ tail - First <= Cap
         /\ tail \in Nat /\ tail - First \in Nat
         /\ Content \in Seq(Tasks) /\ Len(Content) = tail - First
<1>1. /\ head \in Nat /\ tail \in Nat /\ head <= tail /\ tail <= head + Cap
  BY DEF IndInv, TypeOK, RingInv
<1>2. Popping => head < tail
  BY DEF IndInv, ThreadInv, Popping, Threads
<1>3. First \in Nat /\ head <= First /\ First <= tail /\ tail - First <= Cap
      /\ tail - First \in Nat
  BY <1>1, <1>2, LQAssumption DEF First
<1>4. ASSUME NEW i \in 1 .. tail - First PROVE buf[Slot(First + i - 1)] \in Tasks
  <2>1. First + i - 1 \in head .. tail - 1
    BY <1>1, <1>3
  <2> QED
    BY <2>1 DEF IndInv, RingInv
<1>5. Content \in [1 .. tail - First -> Tasks]
  BY <1>4 DEF Content
<1>6. Content \in Seq(Tasks) /\ Len(Content) = tail - First
  BY <1>3, <1>5
<1> QED
  BY <1>1, <1>3, <1>6

\* A step of t moves only t's abstract operation and argument, if the slots
\* that the others look at stay.
LEMMA AbstractFrame ==
  ASSUME IndInv, NEW t \in Threads,
         \A u \in Threads \ {t} : /\ pc'[u] = pc[u] /\ pos'[u] = pos[u]
                                 /\ val'[u] = val[u],
         \A u \in Threads \ {t} : pc[u] = "pop_copy" => buf'[Slot(head)] = buf[Slot(head)]
  PROVE  /\ [u \in Threads |-> OpOf(u)]' =
              [[u \in Threads |-> OpOf(u)] EXCEPT ![t] = OpOf(t)']
         /\ [u \in Threads |-> ArgOf(u)]' =
              [[u \in Threads |-> ArgOf(u)] EXCEPT ![t] = ArgOf(t)']
<1>1. ASSUME NEW u \in Threads \ {t} PROVE OpOf(u)' = OpOf(u)
  BY DEF OpOf
<1>2. ASSUME NEW u \in Threads \ {t} PROVE ArgOf(u)' = ArgOf(u)
  <2>1. pc[u] = "pop_copy" => pos[u] = head
    BY DEF IndInv, ThreadInv, PopPCs
  <2> QED
    BY <2>1 DEF ArgOf
<1> QED
  BY <1>1, <1>2

\* Steps that the caller of the ring does not see.
LEMMA SilentStep ==
  ASSUME OneProducer, IndInv, NEW t \in Threads,
         \/ LqPush(t) \/ PastWatermark(t) \/ BelowWatermark(t)
         \/ PushRoom(t) \/ PushCopy(t) \/ PopCopy(t)
  PROVE  UNCHANGED BQ!bqVars
<1> USE LQAssumption
<1>1. /\ head \in Nat /\ tail \in Nat /\ head <= tail
      /\ pc \in [Threads -> PCs] /\ pos \in [Threads -> Nat]
      /\ val \in [Threads -> Tasks \cup {None}] /\ ThreadInv(t)
      /\ buf \in [0 .. Cap - 1 -> Tasks \cup {None}]
  BY DEF IndInv, TypeOK
<1>2. head' = head /\ tail' = tail
  BY DEF LqPush, NewTask, PastWatermark, BelowWatermark, PushRoom, PushCopy, PopCopy,
         ring
<1>3. \A u \in Threads \ {t} : /\ pc'[u] = pc[u] /\ pos'[u] = pos[u]
                              /\ val'[u] = val[u]
  BY <1>1 DEF LqPush, NewTask, PastWatermark, BelowWatermark, PushRoom, PushCopy,
              PopCopy, Goto, Load, Return
<1>4. \A q \in head .. tail - 1 : buf'[Slot(q)] = buf[Slot(q)]
  <2>1. CASE PushCopy(t)
    <3>1. pos[t] = tail /\ tail - head < Cap
      BY <1>1, <2>1 DEF PushCopy, ThreadInv, AtTail, Room
    <3>2. ASSUME NEW q \in head .. tail - 1 PROVE Slot(q) # Slot(tail) /\ q \in Int
      BY <1>1, <3>1, SlotFacts
    <3> QED
      BY <1>1, <2>1, <3>1, <3>2 DEF PushCopy
  <2>2. CASE ~PushCopy(t)
    BY <2>2 DEF LqPush, NewTask, PastWatermark, BelowWatermark, PushRoom, PopCopy, ring
  <2> QED
    BY <2>1, <2>2
<1>5. OpOf(t)' = OpOf(t) /\ (Popping' <=> Popping)
  <2>1. OpOf(t)' = OpOf(t) /\ (pc'[t] \in {"pop_copy", "pop_store"} <=>
                                pc[t] \in {"pop_copy", "pop_store"})
    BY <1>1 DEF OpOf, LqPush, NewTask, PastWatermark, BelowWatermark, PushRoom,
                PushCopy, PopCopy, Goto, Return, Checking
  <2> QED
    BY <1>3, <2>1 DEF Popping, Threads
<1>6. ArgOf(t)' = ArgOf(t)
  <2>1. CASE LqPush(t) \/ PastWatermark(t) \/ BelowWatermark(t)
    BY <1>1, <2>1 DEF ArgOf, LqPush, NewTask, PastWatermark, BelowWatermark, Goto,
                      Return, ThreadInv
  <2>2. CASE PushRoom(t) \/ PushCopy(t) \/ PopCopy(t)
    BY <1>1, <2>2 DEF ArgOf, PushRoom, PushCopy, PopCopy, Goto, Checking
  <2> QED
    BY <2>1, <2>2
<1>7. First' = First
  BY <1>2, <1>5 DEF First
<1>8. Content' = Content
  <2>1. First \in Nat /\ head <= First
    BY ContentSeq
  <2>2. \A i \in 1 .. tail - First : First + i - 1 \in head .. tail - 1
    BY <1>1, <2>1
  <2> QED
    BY <1>2, <1>4, <1>7, <2>2 DEF Content
<1>9. \A u \in Threads \ {t} : pc[u] = "pop_copy" => buf'[Slot(head)] = buf[Slot(head)]
  <2>1. \A u \in Threads \ {t} : pc[u] = "pop_copy" => head \in head .. tail - 1
    BY <1>1 DEF IndInv, ThreadInv
  <2> QED
    BY <1>4, <2>1
<1>10. UNCHANGED <<[u \in Threads |-> OpOf(u)], [u \in Threads |-> ArgOf(u)]>>
  BY <1>3, <1>5, <1>6, <1>9, AbstractFrame, ZenonT(60)
<1> QED
  BY <1>8, <1>10 DEF BQ!bqVars

\* Calls and returns move t's operation and leave the queue alone.
LEMMA CallStep ==
  ASSUME IndInv, NEW t \in Threads,
         \/ LqPushYield(t) \/ PushTail(t) \/ PushFull(t) \/ PushReturn(t)
         \/ LqPop(t) \/ PopEmpty(t) \/ PopStore(t)
  PROVE  BQ!BQNext
<1> USE LQAssumption
<1>1. /\ head \in Nat /\ tail \in Nat /\ head <= tail /\ tail <= head + Cap
      /\ pc \in [Threads -> PCs] /\ pos \in [Threads -> Nat]
      /\ val \in [Threads -> Tasks \cup {None}] /\ ThreadInv(t) /\ calls \in Nat
  BY DEF IndInv, TypeOK, RingInv
<1>2. UNCHANGED <<tail, buf>>
  BY DEF LqPushYield, NewTask, PushTail, PushFull, PushReturn, LqPop, PopEmpty,
         PopStore, ring
<1>3. \A u \in Threads \ {t} : /\ pc'[u] = pc[u] /\ pos'[u] = pos[u]
                              /\ val'[u] = val[u]
  BY <1>1 DEF LqPushYield, NewTask, PushTail, PushFull, PushReturn, LqPop, PopEmpty,
              PopStore, Goto, Load, Return
<1>4. First' = First
  <2>1. CASE PopStore(t)
    <3>1. t = Consumer /\ pos[t] = head /\ pc[t] = "pop_store"
      BY <1>1, <2>1 DEF PopStore, ThreadInv, PopPCs
    <3>2. head' = head + 1 /\ pc'[t] = "idle"
      BY <1>1, <2>1, <3>1 DEF PopStore, Return, Goto
    <3> QED
      BY <3>1, <3>2 DEF First, Popping
  <2>2. CASE ~PopStore(t)
    <3>1. head' = head
      BY <2>2 DEF LqPushYield, NewTask, PushTail, PushFull, PushReturn, LqPop, PopEmpty,
                  ring
    <3>2. {pc[t], pc'[t]} \cap {"pop_copy", "pop_store"} = {}
      BY <1>1, <2>2 DEF LqPushYield, NewTask, PushTail, PushFull, PushReturn, LqPop,
                        PopEmpty, Goto, Return, Checking
    <3> QED
      BY <1>3, <3>1, <3>2 DEF First, Popping, Threads
  <2> QED
    BY <2>1, <2>2
<1>5. Content' = Content
  BY <1>2, <1>4 DEF Content
<1> DEFINE O == [u \in Threads |-> OpOf(u)]
           A == [u \in Threads |-> ArgOf(u)]
<1>6. /\ O' = [O EXCEPT ![t] = OpOf(t)'] /\ A' = [A EXCEPT ![t] = ArgOf(t)']
      /\ O[t] = OpOf(t) /\ A[t] = ArgOf(t)
  BY <1>2, <1>3, AbstractFrame
<1> HIDE DEF O, A
<1>7. CASE LqPushYield(t)
  <2>1. /\ OpOf(t) = "idle" /\ OpOf(t)' = "push"
        /\ ArgOf(t)' = calls + 1 /\ calls + 1 \in Tasks
    BY <1>1, <1>7 DEF LqPushYield, NewTask, Goto, OpOf, ArgOf, Tasks
  <2>2. BQ!CallPush(t, calls + 1)
    BY <1>5, <1>6, <2>1 DEF BQ!CallPush, O, A
  <2> QED
    BY <2>1, <2>2 DEF BQ!BQNext
<1>8. CASE PushTail(t)
  <2>1. /\ OpOf(t) = "idle" /\ OpOf(t)' = "push"
        /\ ArgOf(t)' = val[t] /\ val[t] \in Tasks
    BY <1>1, <1>8 DEF PushTail, Goto, OpOf, ArgOf, ThreadInv, Pushing, AtTail
  <2>2. BQ!CallPush(t, val[t])
    BY <1>5, <1>6, <2>1 DEF BQ!CallPush, O, A
  <2> QED
    BY <2>1, <2>2 DEF BQ!BQNext
<1>9. CASE PushFull(t)
  <2>1. OpOf(t) = "push" /\ OpOf(t)' = "idle" /\ ArgOf(t)' = None
    BY <1>1, <1>9 DEF PushFull, Checking, Return, Goto, OpOf, ArgOf
  <2>2. tail - head = Cap
    <3>1. pos[t] = tail
      BY <1>1, <1>9 DEF PushFull, Checking, ThreadInv, AtTail
    <3>2. Fill(tail, head) = tail - head
      BY <1>1, FillExact
    <3> QED
      BY <1>1, <1>9, <3>1, <3>2 DEF PushFull
  <2>3. Len(Content) = Cap \/ \E u \in Threads : O[u] = "popped"
    <3>1. CASE Popping
      <4>1. Consumer \in Threads /\ OpOf(Consumer) = "popped"
        BY <3>1 DEF Popping, Threads, OpOf
      <4> QED
        BY <4>1 DEF O
    <3>2. CASE ~Popping
      BY <2>2, <3>2, ContentSeq DEF First
    <3> QED
      BY <3>1, <3>2
  <2>4. BQ!ReturnFull(t)
    BY <1>5, <1>6, <2>1, <2>3 DEF BQ!ReturnFull, BQ!Return, O, A
  <2> QED
    BY <2>4 DEF BQ!BQNext
<1>10. CASE PushReturn(t) \/ PopStore(t)
  <2>1. OpOf(t) \in {"pushed", "popped"} /\ OpOf(t)' = "idle" /\ ArgOf(t)' = None
    BY <1>1, <1>10 DEF PushReturn, PopStore, Return, Goto, OpOf, ArgOf
  <2>2. BQ!ReturnOk(t)
    BY <1>5, <1>6, <2>1 DEF BQ!ReturnOk, BQ!Return, O, A
  <2> QED
    BY <2>2 DEF BQ!BQNext
<1>11. CASE LqPop(t)
  <2>1. OpOf(t) = "idle" /\ OpOf(t)' = "pop" /\ ArgOf(t)' = ArgOf(t)
    BY <1>1, <1>11 DEF LqPop, Goto, OpOf, ArgOf
  <2>2. A' = A
    BY <1>6, <2>1 DEF A
  <2>3. BQ!CallPop(t)
    BY <1>5, <1>6, <2>1, <2>2 DEF BQ!CallPop, O, A
  <2> QED
    BY <2>3 DEF BQ!BQNext
<1>12. CASE PopEmpty(t)
  <2>1. OpOf(t) = "pop" /\ OpOf(t)' = "idle" /\ ArgOf(t)' = None
    BY <1>1, <1>12 DEF PopEmpty, Return, Goto, OpOf, ArgOf
  <2>2. t = Consumer /\ pos[t] = head /\ pc[t] = "pop_check"
    BY <1>1, <1>12 DEF PopEmpty, ThreadInv, PopPCs
  <2>3. tail = head
    BY <1>1, <1>12, <2>2, FillExact DEF PopEmpty
  <2>4. First = head
    BY <2>2 DEF First, Popping
  <2>5. Content = << >>
    BY <2>3, <2>4, ContentSeq
  <2>6. BQ!ReturnEmpty(t)
    BY <1>5, <1>6, <2>1, <2>5 DEF BQ!ReturnEmpty, BQ!Return, O, A
  <2> QED
    BY <2>6 DEF BQ!BQNext
<1> QED
  BY <1>7, <1>8, <1>9, <1>10, <1>11, <1>12

\* push takes effect when it stores tail.
LEMMA EnqueueStep ==
  ASSUME OneProducer, IndInv, NEW t \in Threads, PushStore(t)
  PROVE  BQ!BQNext
<1> USE LQAssumption
<1>1. /\ head \in Nat /\ tail \in Nat /\ head <= tail
      /\ pc \in [Threads -> PCs] /\ ThreadInv(t)
  BY DEF IndInv, TypeOK
<1>2. /\ pos[t] = tail /\ tail - head < Cap /\ buf[Slot(tail)] = val[t]
      /\ tail' = tail + 1 /\ UNCHANGED <<head, buf, pos, val>>
      /\ pc' = [pc EXCEPT ![t] = "pushed"] /\ val[t] \in Tasks
      /\ pc[t] \in {"push_store", "yield_store"}
  BY <1>1 DEF PushStore, Goto, ThreadInv, AtTail, Room, Pushing
<1>3. /\ OpOf(t) = "push" /\ OpOf(t)' = "pushed" /\ ArgOf(t) = val[t]
      /\ ArgOf(t)' = val[t]
  BY <1>1, <1>2 DEF OpOf, ArgOf
<1>4. First' = First
  <2>1. Popping' <=> Popping
    BY <1>1, <1>2 DEF Popping, Threads
  <2> QED
    BY <1>2, <2>1 DEF First
<1>5. /\ First \in Nat /\ head <= First /\ First <= tail /\ tail - First \in Nat
      /\ Content \in Seq(Tasks) /\ Len(Content) = tail - First
  BY ContentSeq
<1>6. Content' = Append(Content, val[t])
  <2>1. Content' = [i \in 1 .. (tail - First) + 1 |-> buf[Slot(First + i - 1)]]
    BY <1>1, <1>2, <1>4, <1>5 DEF Content
  <2>2. First + ((tail - First) + 1) - 1 = tail
    BY <1>1, <1>5
  <2>3. Append(Content, val[t]) =
          [i \in 1 .. (tail - First) + 1 |->
             IF i = (tail - First) + 1 THEN val[t] ELSE Content[i]]
    BY <1>5
  <2>4. ASSUME NEW i \in 1 .. (tail - First) + 1
        PROVE  buf[Slot(First + i - 1)] =
                 IF i = (tail - First) + 1 THEN val[t] ELSE Content[i]
    BY <1>2, <1>5, <2>2, SMTT(60) DEF Content
  <2> QED
    BY <2>1, <2>3, <2>4
<1>7. Len(Content) < Cap
  BY <1>1, <1>2, <1>5
<1> DEFINE O == [u \in Threads |-> OpOf(u)]
           A == [u \in Threads |-> ArgOf(u)]
<1>8. /\ O' = [O EXCEPT ![t] = OpOf(t)'] /\ A' = [A EXCEPT ![t] = ArgOf(t)']
      /\ O[t] = OpOf(t) /\ A[t] = ArgOf(t)
  BY <1>1, <1>2, AbstractFrame
<1>9. A' = A
  BY <1>3, <1>8
<1> HIDE DEF O, A
<1>10. BQ!Enqueue(t)
  BY <1>3, <1>6, <1>7, <1>8, <1>9 DEF BQ!Enqueue, O, A
<1> QED
  BY <1>10 DEF BQ!BQNext

\* pop takes effect when it finds the ring not empty.
LEMMA DequeueStep ==
  ASSUME IndInv, NEW t \in Threads, PopSome(t)
  PROVE  BQ!BQNext
<1> USE LQAssumption
<1>1. /\ head \in Nat /\ tail \in Nat /\ head <= tail /\ tail <= head + Cap
      /\ pc \in [Threads -> PCs] /\ ThreadInv(t)
  BY DEF IndInv, TypeOK, RingInv
<1>2. /\ t = Consumer /\ pos[t] = head /\ pc[t] = "pop_check"
      /\ pc' = [pc EXCEPT ![t] = "pop_copy"]
      /\ UNCHANGED <<head, tail, buf, pos, val>>
  BY <1>1 DEF PopSome, Goto, ThreadInv, PopPCs, ring
<1>3. head < tail
  BY <1>1, <1>2, FillExact DEF PopSome
<1>4. First = head /\ First' = head + 1
  BY <1>1, <1>2 DEF First, Popping
<1>5. Content \in Seq(Tasks) /\ Len(Content) = tail - head
  BY <1>4, ContentSeq
<1>6. Content # << >> /\ Content' = Tail(Content)
  <2>1. Content' = [i \in 1 .. tail - (head + 1) |-> buf[Slot((head + 1) + i - 1)]]
    BY <1>2, <1>4 DEF Content
  <2>2. Tail(Content) = [i \in 1 .. (tail - head) - 1 |-> Content[i + 1]]
    <3>1. /\ Tail(Content) \in Seq(Tasks) /\ Len(Tail(Content)) = (tail - head) - 1
          /\ \A i \in 1 .. (tail - head) - 1 : Tail(Content)[i] = Content[i + 1]
      BY <1>1, <1>3, <1>5
    <3>2. ASSUME NEW s \in Seq(Tasks) PROVE s \in [1 .. Len(s) -> Tasks]
      OBVIOUS
    <3>3. Tail(Content) \in [1 .. (tail - head) - 1 -> Tasks]
      BY <3>1, <3>2
    <3> QED
      BY <3>1, <3>3
  <2>3. ASSUME NEW i \in 1 .. (tail - head) - 1
        PROVE  Content[i + 1] = buf[Slot((head + 1) + i - 1)]
    <3>1. i + 1 \in 1 .. tail - head /\ head + (i + 1) - 1 = (head + 1) + i - 1
      BY <1>1
    <3> QED
      BY <1>4, <3>1 DEF Content
  <2>4. (tail - head) - 1 = tail - (head + 1)
    BY <1>1
  <2>5. Content # << >>
    BY <1>1, <1>3, <1>5
  <2> QED
    BY <2>1, <2>2, <2>3, <2>4, <2>5
<1>7. Head(Content) = buf[Slot(head)]
  <2>1. 1 \in 1 .. tail - head /\ head + 1 - 1 = head
    BY <1>1, <1>3
  <2>2. Content[1] = buf[Slot(head)]
    BY <1>4, <2>1 DEF Content
  <2> QED
    BY <1>5, <2>2
<1>8. /\ OpOf(t) = "pop" /\ OpOf(t)' = "popped" /\ ArgOf(t)' = buf[Slot(head)]
  BY <1>1, <1>2 DEF OpOf, ArgOf
<1> DEFINE O == [u \in Threads |-> OpOf(u)]
           A == [u \in Threads |-> ArgOf(u)]
<1>9. /\ O' = [O EXCEPT ![t] = OpOf(t)'] /\ A' = [A EXCEPT ![t] = ArgOf(t)']
      /\ O[t] = OpOf(t) /\ A[t] = ArgOf(t)
  BY <1>1, <1>2, AbstractFrame
<1> HIDE DEF O, A
<1>10. BQ!Dequeue(t)
  BY <1>6, <1>7, <1>8, <1>9 DEF BQ!Dequeue, O, A
<1> QED
  BY <1>10 DEF BQ!BQNext

\* The local queue (sched_lq.c on ring_spsc.c) is a FIFO queue of at most Cap
\* tasks: every step of its code is a step of BoundedQueue or invisible.
THEOREM Refinement ==
  ASSUME OneProducer
  PROVE  Spec => ImplementsQueue
<1>1. Init => BQ!BQInit
  <2> SUFFICES ASSUME Init PROVE BQ!BQInit
    OBVIOUS
  <2>1. First = Start /\ tail = Start
    BY DEF Init, First, Popping, Threads
  <2>2. Content = << >>
    BY <2>1, InitInv, ContentSeq, LQAssumption
  <2>3. \A t \in Threads : OpOf(t) = "idle" /\ ArgOf(t) = None
    BY DEF Init, OpOf, ArgOf
  <2> QED
    BY <2>2, <2>3 DEF BQ!BQInit
<1>2. IndInv /\ [Next]_vars => [BQ!BQNext]_(BQ!bqVars)
  <2>1. ASSUME IndInv, Next PROVE BQ!BQNext \/ UNCHANGED BQ!bqVars
    BY <2>1, SilentStep, CallStep, EnqueueStep, DequeueStep DEF Next
  <2>2. ASSUME UNCHANGED vars PROVE UNCHANGED BQ!bqVars
    BY <2>2 DEF vars, BQ!bqVars, Content, First, Popping, OpOf, ArgOf
  <2> QED
    BY <2>1, <2>2
<1> QED
  BY <1>1, <1>2, Invariance, PTL DEF Spec, ImplementsQueue, BQ!BQSpec
=============================================================================
