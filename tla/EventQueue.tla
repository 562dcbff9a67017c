----------------------------- MODULE EventQueue -----------------------------
(***************************************************************************)
(* src/sched_evq.c: the event queue, a bounded binary min-heap whose       *)
(* operations run under evq->lock and are therefore single steps here.     *)
(*                                                                         *)
(* The array is a sequence, so index i of the code is i + 1.  An entry     *)
(* keeps, beside the key the heap compares, the tick and the priority of   *)
(* its task and the number of the push that made it.  The shifts of        *)
(* evq_key are parameters (16 and 32 in the code) so that the sequence     *)
(* number reaches the bits of the priority within a short run.             *)
(***************************************************************************)
EXTENDS Integers, Sequences, FiniteSets, Bitwise

CONSTANTS Cap,         \* evq->cap
          Ticks,       \* values of meta0 and of the current tick
          Prios,       \* values of GMK_PRIORITY(flags)
          PrioShift,   \* 16
          TickShift,   \* 32: the width of next_seq
          MaxPush      \* BOUND: number of successful pushes

VARIABLES heap,        \* evq->heap[0 .. count - 1]
          next_seq,    \* evq->next_seq
          popped       \* numbers of the pushes popped so far

vars == <<heap, next_seq, popped>>

evq_key(tick, prio, seq) ==
  ((tick * 2^TickShift) | (prio * 2^PrioShift)) | (seq % 2^TickShift)

Swap(h, i, j) == [h EXCEPT ![i] = h[j], ![j] = h[i]]

RECURSIVE heap_sift_up(_, _)
heap_sift_up(h, i) ==
  LET parent == i \div 2
  IN  IF i > 1 /\ h[i].key < h[parent].key
      THEN heap_sift_up(Swap(h, i, parent), parent)
      ELSE h

\* MUTANT: never looks at the last entry.
SmallerButLast(h, i, j) == IF j < Len(h) /\ h[j].key < h[i].key THEN j ELSE i

\* The smaller of i and j, i if they are equal or j is outside the heap.
Smaller(h, i, j) == IF j <= Len(h) /\ h[j].key < h[i].key THEN j ELSE i

RECURSIVE heap_sift_down(_, _)
heap_sift_down(h, i) ==
  LET smallest == Smaller(h, Smaller(h, i, 2 * i), 2 * i + 1)
  IN  IF smallest # i
      THEN heap_sift_down(Swap(h, i, smallest), smallest)
      ELSE h

\* MUTANT: the root stays and the last entry goes.
RemoveLast(h) == heap_sift_down(SubSeq(h, 1, Len(h) - 1), 1)

\* The last entry moves to the root.
RemoveRoot(h) ==
  LET n == Len(h) - 1
  IN  IF n = 0 THEN <<>>
      ELSE heap_sift_down([SubSeq(h, 1, n) EXCEPT ![1] = h[n + 1]], 1)

Init == heap = <<>> /\ next_seq = 0 /\ popped = {}

\* MUTANT: writes one entry past the end.
PushPastEnd(tick, prio) ==
  /\ Len(heap) <= Cap /\ next_seq < MaxPush
  /\ next_seq' = next_seq + 1
  /\ heap' = LET e == [key |-> evq_key(tick, prio, next_seq),
                       tick |-> tick, prio |-> prio, nth |-> next_seq]
             IN  heap_sift_up(Append(heap, e), Len(heap) + 1)
  /\ UNCHANGED popped

Push(tick, prio) ==
  /\ Len(heap) < Cap /\ next_seq < MaxPush
  /\ next_seq' = next_seq + 1
  /\ heap' = LET e == [key |-> evq_key(tick, prio, next_seq),
                       tick |-> tick, prio |-> prio, nth |-> next_seq]
             IN  heap_sift_up(Append(heap, e), Len(heap) + 1)
  /\ UNCHANGED popped

PushFull == Len(heap) >= Cap /\ UNCHANGED vars

\* entry_tick is read back from the key.
RootTick == heap[1].key \div 2^TickShift

PopDue(current) ==
  /\ heap # <<>> /\ RootTick <= current
  /\ heap' = RemoveRoot(heap)
  /\ popped' = popped \cup {heap[1].nth}
  /\ UNCHANGED next_seq

PopRefused(current) ==
  /\ heap # <<>> => RootTick > current
  /\ UNCHANGED vars

Next == \/ \E tick \in Ticks, prio \in Prios : Push(tick, prio)
        \/ PushFull
        \/ \E current \in Ticks : PopDue(current) \/ PopRefused(current)

Spec == Init /\ [][Next]_vars

-----------------------------------------------------------------------------
(* Properties *)

Entries == [key : Nat, tick : Ticks, prio : Prios, nth : Nat]

TypeOK == /\ heap \in Seq(Entries) /\ Len(heap) <= Cap
          /\ next_seq \in 0 .. MaxPush
          /\ popped \subseteq 0 .. next_seq - 1

\* Every event pushed is in the heap once or has been popped, never both: the
\* swaps of the two sifts and the move of the last entry lose none.
Conserved ==
  LET queued == {heap[i].nth : i \in DOMAIN heap}
  IN  /\ Cardinality(queued) = Len(heap)
      /\ queued \cap popped = {}
      /\ queued \cup popped = 0 .. next_seq - 1

\* e fires before f: earlier tick, then higher priority (lower number), then
\* earlier push.
Before(e, f) == \/ e.tick < f.tick
                \/ e.tick = f.tick /\ e.prio < f.prio
                \/ e.tick = f.tick /\ e.prio = f.prio /\ e.nth < f.nth

\* The numbers of the events whose sequence bits above the field are the same.
Window(e) == e.nth \div 2^PrioShift

\* The root, the only entry that gmk_evq_pop_due looks at, has the earliest
\* tick, however many events have been pushed: no due event waits behind one
\* that is not due.  Among events of its tick it is the one to fire first as
\* far as evq_key can tell: by priority and then by push while the sequence
\* number fits its 16 bits, by push among events of one priority whose numbers
\* agree above them.
DueFirst ==
  \A i \in DOMAIN heap \ {1} :
    LET e == heap[1]  f == heap[i]
    IN  /\ e.tick <= f.tick
        /\ Window(e) = Window(f) /\ (Window(e) = 0 \/ e.prio = f.prio)
             => Before(e, f)

\* The order that the layout of the key promises, "(meta0 as tick << 32) |
\* (priority << 16) | seq": the root is the event that should fire first.
\* Not so once next_seq, which evq_key does not mask, has left its 16 bits.
RootIsFirst == \A i \in DOMAIN heap : i # 1 => Before(heap[1], heap[i])
=============================================================================
