------------------------------ MODULE MpmcRing ------------------------------
(***************************************************************************)
(* src/ring_mpmc.c: the bounded multi-producer multi-consumer ring with a  *)
(* sequence number per cell that carries the ready queues, the channel     *)
(* rings and the yield overflow ring.                                      *)
(*                                                                         *)
(* One action per access to shared memory.  Every thread may push and pop, *)
(* as the workers do, and may stall between any two accesses for as long   *)
(* as it likes.                                                            *)
(*                                                                         *)
(* head, tail, the cells' seq and the threads' local copies of them are    *)
(* uint32_t in the code.  Here they are the unbounded positions those      *)
(* counters stand for, and every comparison the code makes is made on the  *)
(* positions modulo W (W is 2^32), so that what the code can and cannot    *)
(* tell apart after a wrap-around is kept.  The subtraction of two int32_t *)
(* that overflows wraps in the build (gcc -O2 tests the sign of subl).     *)
(***************************************************************************)
EXTENDS Integers, Sequences

CONSTANTS Threads,   \* threads that call push and pop
          Values,    \* elements
          None,      \* not an element: an unwritten cell, no argument
          Cap,       \* r->cap
          W,         \* number of values of a uint32_t
          Window,    \* claims of one counter that may happen during one call
          Start,     \* elements that went through the ring before
          MaxPush    \* BOUND: push is not called after this many claims

ASSUME RingAssumption ==
  /\ Cap \in Nat \ {0} /\ W \in Nat \ {0} /\ W % Cap = 0
  /\ Window \in Nat /\ Start \in Nat /\ MaxPush \in Nat
  /\ None \notin Values

VARIABLES head,      \* r->head
          tail,      \* r->tail
          seq,       \* seq[i]: sequence number of cell i
          data,      \* data[i]: contents of cell i
          pc,        \* pc[t]: the access thread t makes next
          pos,       \* pos[t]: the local variable tail of push, head of pop
          val        \* val[t]: *elem of the call in progress

shared == <<head, tail, seq, data>>
vars == <<head, tail, seq, data, pc, pos, val>>

PushLoop == {"push_check", "push_cas", "push_reload"}
PushHold == {"push_write", "push_publish"}
PopLoop  == {"pop_check", "pop_cas", "pop_reload"}
PopHold  == {"pop_read", "pop_release"}
PCs == {"idle"} \cup PushLoop \cup PushHold \cup PopLoop \cup PopHold

Cells == 0 .. Cap - 1

\* cell_at(r, p & r->mask): Cap divides W, so the wrapped p gives the same cell.
Cell(p) == p % Cap

\* (int32_t)a - (int32_t)b, which wraps.
Diff(a, b) == LET d == (a - b) % W IN IF 2 * d < W THEN d ELSE d - W

\* MUTANT: counters only as wide as a cell index.
SameCell(a, b) == a % Cap = b % Cap

\* What compare-and-swap compares.
SameWord(a, b) == a % W = b % W

\* The ring as gmk_ring_mpmc_init leaves it when Start = 0, or as it is when
\* Start elements have gone through it and nobody is in a call.
Init == /\ head = Start /\ tail = Start
        /\ seq = [i \in Cells |-> Start + ((i - Start) % Cap)]
        /\ data = [i \in Cells |-> None]
        /\ pc = [t \in Threads |-> "idle"]
        /\ pos = [t \in Threads |-> Start]
        /\ val = [t \in Threads |-> None]

Goto(t, l) == pc' = [pc EXCEPT ![t] = l]

Return(t) == /\ Goto(t, "idle")
             /\ val' = [val EXCEPT ![t] = None]
             /\ pos' = [pos EXCEPT ![t] = Start]   \* dead until the next call

-----------------------------------------------------------------------------
(* gmk_ring_mpmc_push *)

LoadTail(t) == /\ pos' = [pos EXCEPT ![t] = tail]
               /\ Goto(t, "push_check")
               /\ UNCHANGED shared

PushCall(t, v) == /\ pc[t] = "idle"
                  /\ tail < Start + MaxPush
                  /\ val' = [val EXCEPT ![t] = v]
                  /\ LoadTail(t)

PushDiff(t) == Diff(seq[Cell(pos[t])], pos[t])

\* MUTANT: takes a cell that is still in use.
PushReadyLax(t) == /\ pc[t] = "push_check" /\ PushDiff(t) <= 0
                   /\ Goto(t, "push_cas")
                   /\ UNCHANGED <<shared, pos, val>>

PushReady(t) == /\ pc[t] = "push_check" /\ PushDiff(t) = 0
                /\ Goto(t, "push_cas")
                /\ UNCHANGED <<shared, pos, val>>

PushFull(t) == /\ pc[t] = "push_check" /\ PushDiff(t) < 0
               /\ Return(t)
               /\ UNCHANGED shared

PushLost(t) == /\ pc[t] = "push_check" /\ PushDiff(t) > 0
               /\ Goto(t, "push_reload")
               /\ UNCHANGED <<shared, pos, val>>

\* MUTANT: tries again with the tail it already had.
PushNoReload(t) == /\ pc[t] = "push_reload" /\ Goto(t, "push_check")
                   /\ UNCHANGED <<shared, pos, val>>

PushReload(t) == pc[t] = "push_reload" /\ LoadTail(t) /\ UNCHANGED val

\* MUTANT: publishes the cell before the element is in it.
PushClaimPublish(t) == /\ pc[t] = "push_cas" /\ SameWord(tail, pos[t])
                       /\ tail' = tail + 1
                       /\ seq' = [seq EXCEPT ![Cell(pos[t])] = pos[t] + 1]
                       /\ Goto(t, "push_write")
                       /\ UNCHANGED <<head, data, pos, val>>

\* No call sees more than Window claims of its counter: with 32-bit counters,
\* a stall of some 2^31 operations is outside what the ring is built for.
PushClaim(t) == /\ pc[t] = "push_cas" /\ SameWord(tail, pos[t])
                /\ \A u \in Threads :
                      pc[u] \in PushLoop => tail + 1 - pos[u] <= Window
                /\ tail' = tail + 1
                /\ Goto(t, "push_write")
                /\ UNCHANGED <<head, seq, data, pos, val>>

\* The weak compare-and-swap may also fail when the two are equal.
PushCasFails(t) == pc[t] = "push_cas" /\ LoadTail(t) /\ UNCHANGED val

PushWrite(t) == /\ pc[t] = "push_write"
                /\ data' = [data EXCEPT ![Cell(pos[t])] = val[t]]
                /\ Goto(t, "push_publish")
                /\ UNCHANGED <<head, tail, seq, pos, val>>

PushPublish(t) == /\ pc[t] = "push_publish"
                  /\ seq' = [seq EXCEPT ![Cell(pos[t])] = pos[t] + 1]
                  /\ Return(t)
                  /\ UNCHANGED <<head, tail, data>>

-----------------------------------------------------------------------------
(* gmk_ring_mpmc_pop *)

LoadHead(t) == /\ pos' = [pos EXCEPT ![t] = head]
               /\ Goto(t, "pop_check")
               /\ UNCHANGED <<shared, val>>

PopCall(t) == pc[t] = "idle" /\ LoadHead(t)

\* MUTANT: compares with head instead of head + 1.
PopDiffHead(t) == Diff(seq[Cell(pos[t])], pos[t])

PopDiff(t) == Diff(seq[Cell(pos[t])], pos[t] + 1)

PopReady(t) == /\ pc[t] = "pop_check" /\ PopDiff(t) = 0
               /\ Goto(t, "pop_cas")
               /\ UNCHANGED <<shared, pos, val>>

PopEmpty(t) == /\ pc[t] = "pop_check" /\ PopDiff(t) < 0
               /\ Return(t)
               /\ UNCHANGED shared

PopLost(t) == /\ pc[t] = "pop_check" /\ PopDiff(t) > 0
              /\ Goto(t, "pop_reload")
              /\ UNCHANGED <<shared, pos, val>>

PopReload(t) == pc[t] = "pop_reload" /\ LoadHead(t)

PopClaim(t) == /\ pc[t] = "pop_cas" /\ SameWord(head, pos[t])
               /\ \A u \in Threads :
                     pc[u] \in PopLoop => head + 1 - pos[u] <= Window
               /\ head' = head + 1
               /\ Goto(t, "pop_read")
               /\ UNCHANGED <<tail, seq, data, pos, val>>

PopCasFails(t) == pc[t] = "pop_cas" /\ LoadHead(t)

PopRead(t) == /\ pc[t] = "pop_read"
              /\ val' = [val EXCEPT ![t] = data[Cell(pos[t])]]
              /\ Goto(t, "pop_release")
              /\ UNCHANGED <<shared, pos>>

\* MUTANT: gives the cell back with the number of the lap that ends.
PopReleaseSame(t) == /\ pc[t] = "pop_release"
                     /\ seq' = [seq EXCEPT ![Cell(pos[t])] = pos[t]]
                     /\ Return(t)
                     /\ UNCHANGED <<head, tail, data>>

PopRelease(t) == /\ pc[t] = "pop_release"
                 /\ seq' = [seq EXCEPT ![Cell(pos[t])] = pos[t] + Cap]
                 /\ Return(t)
                 /\ UNCHANGED <<head, tail, data>>

-----------------------------------------------------------------------------

PushStep(t) == \/ PushReady(t) \/ PushFull(t) \/ PushLost(t) \/ PushReload(t)
               \/ PushClaim(t) \/ PushCasFails(t)
               \/ PushWrite(t) \/ PushPublish(t)

PopStep(t) == \/ PopReady(t) \/ PopEmpty(t) \/ PopLost(t) \/ PopReload(t)
              \/ PopClaim(t) \/ PopCasFails(t)
              \/ PopRead(t) \/ PopRelease(t)

Next == \E t \in Threads : \/ \E v \in Values : PushCall(t, v)
                           \/ PopCall(t)
                           \/ PushStep(t) \/ PopStep(t)

Spec == Init /\ [][Next]_vars

-----------------------------------------------------------------------------
(* Properties *)

Holds(t) == pc[t] \in PushHold \cup PopHold

TypeOK == /\ tail \in Nat /\ head \in 0 .. tail
          /\ seq \in [Cells -> Nat]
          /\ data \in [Cells -> Values \cup {None}]
          /\ pc \in [Threads -> PCs]
          /\ pos \in [Threads -> Nat]
          /\ val \in [Threads -> Values \cup {None}]

\* "Returns 0 on success, -1 if full" and "-1 if empty" (ring_mpmc.h): push
\* claims no cell while Cap elements are in the ring, pop none beyond tail.
FullRefused == head <= tail /\ tail <= head + Cap

\* A position goes through its cell in four stages; seq tells which.
Reserved(p)  == seq[Cell(p)] = p /\ p >= head
                /\ \E t \in Threads : pc[t] \in PushHold /\ pos[t] = p
Published(p) == seq[Cell(p)] = p + 1 /\ p >= head
Draining(p)  == seq[Cell(p)] = p + 1 /\ p < head
                /\ \E t \in Threads : pc[t] \in PopHold /\ pos[t] = p
Released(p)  == seq[Cell(p)] = p + Cap /\ p < head

\* The last Cap positions that push has claimed are each in one of the four
\* stages, and a thread between its claim and its store to c->seq (lines
\* 102-103, 133-134) is at a position whose cell has waited for it.
SlotInv ==
  /\ \A p \in tail - Cap .. tail - 1 :
        Reserved(p) \/ Published(p) \/ Draining(p) \/ Released(p)
  /\ \A t \in Threads :
        /\ pc[t] \in PushHold => /\ head <= pos[t] /\ pos[t] < tail
                                 /\ seq[Cell(pos[t])] = pos[t]
        /\ pc[t] \in PopHold => /\ tail - Cap <= pos[t] /\ pos[t] < head
                                /\ seq[Cell(pos[t])] = pos[t] + 1

\* Two threads are never both between claim and store on the same cell: the
\* memcpy of lines 102 and 133 races with no other access to c->data.
CellExclusive ==
  \A t, u \in Threads :
    t # u /\ Holds(t) /\ Holds(u) => Cell(pos[t]) # Cell(pos[u])

\* What a thread in its loop knows: its copy of the counter is at most Window
\* behind, and if it is up to date the sequence number it saw is still there.
LoopInv ==
  \A t \in Threads :
    /\ pc[t] \in PushLoop => tail - Window <= pos[t] /\ pos[t] <= tail
    /\ pc[t] \in PopLoop => head - Window <= pos[t] /\ pos[t] <= head
    /\ pc[t] = "push_cas" /\ pos[t] = tail => seq[Cell(tail)] = tail
    /\ pc[t] = "pop_cas" /\ pos[t] = head => seq[Cell(head)] = head + 1

\* The inductive invariant.
IndInv == TypeOK /\ FullRefused /\ SlotInv /\ CellExclusive /\ LoopInv

\* "No ABA problem" (ring_mpmc.h): the compare-and-swap reads only the counter,
\* yet when it succeeds the cell still has the sequence number seen before it.
NoABA ==
  [][\A t \in Threads : /\ PushClaim(t) => seq[Cell(pos[t])] = pos[t]
                        /\ PopClaim(t) => seq[Cell(pos[t])] = pos[t] + 1]_vars

\* The element at position p: still with its producer, or in its cell.
Writers(p) == {t \in Threads : pc[t] = "push_write" /\ pos[t] = p}
Elem(p) == IF Writers(p) # {} THEN val[CHOOSE t \in Writers(p) : TRUE]
           ELSE data[Cell(p)]

\* The queue a caller sees: push takes effect when it claims tail, pop when it
\* claims head.
Content == [i \in 1 .. tail - head |-> Elem(head + i - 1)]
OpOf(t) == CASE pc[t] \in PushLoop -> "push"
             [] pc[t] \in PushHold -> "pushed"
             [] pc[t] \in PopLoop  -> "pop"
             [] pc[t] \in PopHold  -> "popped"
             [] OTHER -> "idle"
ArgOf(t) == IF pc[t] = "pop_read" THEN data[Cell(pos[t])] ELSE val[t]
BQ == INSTANCE BoundedQueue WITH
        queue <- Content,
        op    <- [t \in Threads |-> OpOf(t)],
        arg   <- [t \in Threads |-> ArgOf(t)]

\* Every element pushed is popped once, in FIFO order and unchanged, and "full"
\* and "empty" are answered only when BoundedQueue allows them.
ImplementsQueue == BQ!BQSpec

\* Fairness of the threads that keep running: a thread takes its next step, and
\* the weak compare-and-swap does not fail for ever on an unchanged counter.
\* Nothing is assumed of the other threads, which may stop anywhere for ever.
CONSTANT Running
Fairness ==
  \A t \in Running : /\ WF_vars(PushStep(t)) /\ WF_vars(PopStep(t))
                     /\ SF_vars(PushClaim(t)) /\ SF_vars(PopClaim(t))

FairSpec == Spec /\ Fairness

\* A stalled thread blocks no other: whoever keeps running returns from every
\* call (in the bounded runs the other threads claim finitely often).
NonBlocking == \A t \in Running : pc[t] # "idle" ~> pc[t] = "idle"
=============================================================================
