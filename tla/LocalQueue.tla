----------------------------- MODULE LocalQueue -----------------------------
(***************************************************************************)
(* src/sched_lq.c on src/ring_spsc.c: a worker's local queue.  gmk_lq_push *)
(* first counts and stays below the yield watermark; gmk_lq_push_yield     *)
(* goes straight to the ring and may fill it.                              *)
(*                                                                         *)
(* One action per access to shared memory.  The Consumer pops.  Who pushes *)
(* is a parameter: the ring is written for one producer, but a channel     *)
(* calls gmk_lq_push from whatever thread emits on it, and the handlers    *)
(* that run on the worker call gmk_lq_push_yield.                          *)
(*                                                                         *)
(* head and tail are positions; the code compares them as uint32_t, that   *)
(* is, modulo W.  Tasks are numbered in the order of the calls.            *)
(***************************************************************************)
EXTENDS Integers, Sequences

CONSTANTS Pushers,     \* threads that call gmk_lq_push
          Yielders,    \* threads that call gmk_lq_push_yield
          Consumer,    \* the thread of the worker that owns the queue
          Cap,         \* lq->cap
          W,           \* number of values of a uint32_t
          Start,       \* tasks that went through the ring before
          MaxPush,     \* BOUND: number of calls of push
          None         \* no task

ASSUME LQAssumption ==
  /\ Cap \in Nat \ {0} /\ W \in Nat \ {0} /\ W % Cap = 0 /\ Cap < W
  /\ Start \in Nat /\ MaxPush \in Nat

VARIABLES head, tail,   \* r->head, r->tail
          buf,          \* buf[i]: element i of r->buf
          pc,           \* pc[t]: the access t makes next
          pos,          \* pos[t]: the local variable tail of push, head of pop
          val,          \* val[t]: the task t pushes or has popped
          calls,        \* number of push calls made
          accepted,     \* tasks whose push returned 0
          taken         \* tasks popped, in order

ring == <<head, tail, buf>>
ghosts == <<calls, accepted, taken>>
vars == <<head, tail, buf, pc, pos, val, calls, accepted, taken>>

Producers == Pushers \cup Yielders
Threads == Producers \cup {Consumer}
Tasks == 1 .. MaxPush
Slot(p) == p % Cap

\* GMK_LQ_YIELD_RESERVE_PCT is 25.
Watermark == Cap - ((Cap * 25) \div 100)

\* tail - head in uint32_t.
Fill(t, h) == (t - h) % W

\* gmk_lq_init, or the empty queue after Start tasks.
Init == /\ head = Start /\ tail = Start
        /\ buf = [i \in 0 .. Cap - 1 |-> None]
        /\ pc = [t \in Threads |-> "idle"]
        /\ pos = [t \in Threads |-> Start]
        /\ val = [t \in Threads |-> None]
        /\ calls = 0 /\ accepted = {} /\ taken = <<>>

Goto(t, l) == pc' = [pc EXCEPT ![t] = l]
Load(t, p) == pos' = [pos EXCEPT ![t] = p]

Return(t) == /\ Goto(t, "idle")
             /\ val' = [val EXCEPT ![t] = None]
             /\ pos' = [pos EXCEPT ![t] = Start]   \* dead until the next call

-----------------------------------------------------------------------------
(* gmk_lq_push and gmk_lq_push_yield *)

NewTask(t) == /\ pc[t] = "idle" /\ calls < MaxPush
              /\ calls' = calls + 1
              /\ val' = [val EXCEPT ![t] = calls + 1]
              /\ UNCHANGED <<ring, accepted, taken>>

\* gmk_lq_push starts with gmk_ring_spsc_count.
LqPush(t) == /\ t \in Pushers
             /\ NewTask(t) /\ Load(t, tail) /\ Goto(t, "count")

LqPushYield(t) == /\ t \in Yielders
                  /\ NewTask(t) /\ Load(t, tail) /\ Goto(t, "yield_check")

PastWatermark(t) == /\ pc[t] = "count"
                    /\ Fill(pos[t], head) >= Watermark
                    /\ Return(t)
                    /\ UNCHANGED <<ring, ghosts>>

\* MUTANT: lets one push too many past the watermark.
AtWatermark(t) == /\ pc[t] = "count"
                  /\ Fill(pos[t], head) <= Watermark
                  /\ Goto(t, "push_tail")
                  /\ UNCHANGED <<ring, ghosts, pos, val>>

BelowWatermark(t) == /\ pc[t] = "count"
                     /\ Fill(pos[t], head) < Watermark
                     /\ Goto(t, "push_tail")
                     /\ UNCHANGED <<ring, ghosts, pos, val>>

PushTail(t) == /\ pc[t] = "push_tail"
               /\ Load(t, tail) /\ Goto(t, "push_check")
               /\ UNCHANGED <<ring, ghosts, val>>

Checking(t) == pc[t] \in {"push_check", "yield_check"}

\* MUTANT: keeps one slot free.
PushFullEarly(t) == /\ Checking(t)
                    /\ Fill(pos[t], head) >= Cap - 1
                    /\ Return(t)
                    /\ UNCHANGED <<ring, ghosts>>

PushFull(t) == /\ Checking(t)
               /\ Fill(pos[t], head) >= Cap
               /\ Return(t)
               /\ UNCHANGED <<ring, ghosts>>

\* MUTANT: goes round over the oldest task.
PushRoomLate(t) == /\ Checking(t)
                   /\ Fill(pos[t], head) <= Cap
                   /\ Goto(t, IF pc[t] = "push_check" THEN "push_copy"
                                                      ELSE "yield_copy")
                   /\ UNCHANGED <<ring, ghosts, pos, val>>

PushRoom(t) == /\ Checking(t)
               /\ Fill(pos[t], head) < Cap
               /\ Goto(t, IF pc[t] = "push_check" THEN "push_copy"
                                                  ELSE "yield_copy")
               /\ UNCHANGED <<ring, ghosts, pos, val>>

PushCopy(t) == /\ pc[t] \in {"push_copy", "yield_copy"}
               /\ buf' = [buf EXCEPT ![Slot(pos[t])] = val[t]]
               /\ Goto(t, IF pc[t] = "push_copy" THEN "push_store"
                                                 ELSE "yield_store")
               /\ UNCHANGED <<head, tail, ghosts, pos, val>>

PushStore(t) == /\ pc[t] \in {"push_store", "yield_store"}
                /\ tail' = pos[t] + 1
                /\ Goto(t, "pushed")
                /\ UNCHANGED <<head, buf, ghosts, pos, val>>

PushReturn(t) == /\ pc[t] = "pushed"
                 /\ accepted' = accepted \cup {val[t]}
                 /\ Return(t)
                 /\ UNCHANGED <<ring, calls, taken>>

-----------------------------------------------------------------------------
(* gmk_lq_pop *)

LqPop(t) == /\ t = Consumer /\ pc[t] = "idle"
            /\ Load(t, head) /\ Goto(t, "pop_check")
            /\ UNCHANGED <<ring, ghosts, val>>

PopEmpty(t) == /\ pc[t] = "pop_check"
               /\ Fill(tail, pos[t]) = 0
               /\ Return(t)
               /\ UNCHANGED <<ring, ghosts>>

\* MUTANT: does not look whether there is a task.
PopAnyway(t) == /\ pc[t] = "pop_check"
                /\ Goto(t, "pop_copy")
                /\ UNCHANGED <<ring, ghosts, pos, val>>

PopSome(t) == /\ pc[t] = "pop_check"
              /\ Fill(tail, pos[t]) # 0
              /\ Goto(t, "pop_copy")
              /\ UNCHANGED <<ring, ghosts, pos, val>>

PopCopy(t) == /\ pc[t] = "pop_copy"
              /\ val' = [val EXCEPT ![t] = buf[Slot(pos[t])]]
              /\ Goto(t, "pop_store")
              /\ UNCHANGED <<ring, ghosts, pos>>

PopStore(t) == /\ pc[t] = "pop_store"
               /\ head' = pos[t] + 1
               /\ taken' = Append(taken, val[t])
               /\ Return(t)
               /\ UNCHANGED <<tail, buf, calls, accepted>>

-----------------------------------------------------------------------------

Next == \E t \in Threads :
          \/ LqPush(t) \/ LqPushYield(t)
          \/ PastWatermark(t) \/ BelowWatermark(t) \/ PushTail(t)
          \/ PushFull(t) \/ PushRoom(t) \/ PushCopy(t) \/ PushStore(t)
          \/ PushReturn(t)
          \/ LqPop(t) \/ PopEmpty(t) \/ PopSome(t) \/ PopCopy(t) \/ PopStore(t)

Spec == Init /\ [][Next]_vars

-----------------------------------------------------------------------------
(* Properties *)

PCs == {"idle", "count", "push_tail", "push_check", "yield_check", "push_copy",
        "yield_copy", "push_store", "yield_store", "pop_check", "pop_copy",
        "pop_store", "pushed"}

TypeOK == /\ tail \in Nat /\ head \in 0 .. tail
          /\ buf \in [0 .. Cap - 1 -> Tasks \cup {None}]
          /\ pc \in [Threads -> PCs]
          /\ pos \in [Threads -> Nat]
          /\ val \in [Threads -> Tasks \cup {None}]
          /\ calls \in Nat /\ accepted \subseteq Tasks
          /\ taken \in Seq(Tasks)

\* A task whose push returned 0 has been popped or is still in the ring.
NoTaskLost ==
  \A x \in accepted : \/ \E i \in 1 .. Len(taken) : taken[i] = x
                      \/ \E p \in head .. tail - 1 : buf[Slot(p)] = x

\* "Normal enqueue cannot fill past the watermark": whatever the consumer does
\* between gmk_lq_push's count and its store, the reserve stays for yields.
YieldReserveKept ==
  [][\A t \in Producers :
        pc[t] = "push_store" /\ PushStore(t) => tail' - head <= Watermark]_vars

\* The queue a caller of the ring sees: push takes effect when it stores tail,
\* pop when it finds the ring not empty.  gmk_lq_push enters the ring once its
\* own count has let it through.
Popping == pc[Consumer] \in {"pop_copy", "pop_store"}
First == IF Popping THEN head + 1 ELSE head
Content == [i \in 1 .. tail - First |-> buf[Slot(First + i - 1)]]
OpOf(t) == CASE pc[t] \in {"push_check", "yield_check", "push_copy",
                          "yield_copy", "push_store", "yield_store"} -> "push"
             [] pc[t] = "pushed" -> "pushed"
             [] pc[t] = "pop_check" -> "pop"
             [] pc[t] \in {"pop_copy", "pop_store"} -> "popped"
             [] OTHER -> "idle"
ArgOf(t) == CASE pc[t] \in {"count", "push_tail"} -> None
              [] pc[t] = "pop_copy" -> buf[Slot(pos[t])]
              [] OTHER -> val[t]
BQ == INSTANCE BoundedQueue WITH
        Values <- Tasks,
        queue  <- Content,
        op     <- [t \in Threads |-> OpOf(t)],
        arg    <- [t \in Threads |-> ArgOf(t)]

\* Under one producer the local queue is a FIFO queue that loses, repeats and
\* alters no task, and answers "full" and "empty" only as BoundedQueue allows.
ImplementsQueue == BQ!BQSpec
=============================================================================
