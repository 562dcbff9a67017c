---------------------------- MODULE BoundedQueue ----------------------------
(***************************************************************************)
(* What gmk_ring_mpmc_push and gmk_ring_mpmc_pop promise their callers     *)
(* (include/ggmk/ring_mpmc.h): a FIFO queue of at most Cap elements whose  *)
(* operations take effect at one instant between their call and their     *)
(* return.  The contract is weaker than a plain queue at its two ends,     *)
(* and says exactly by how much:                                           *)
(*                                                                         *)
(*   - push may answer "full" although the queue is not, but only while    *)
(*     some other thread's pop has taken its element and not yet returned; *)
(*   - pop may answer "empty" although the queue is not, but only while    *)
(*     some other thread's push has taken its place and not yet returned.  *)
(*                                                                         *)
(* So when no call is in progress the two answers are exact.               *)
(***************************************************************************)
EXTENDS Integers, Sequences

CONSTANTS Threads, Values, Cap, None

VARIABLES queue,   \* the elements, oldest first
          op,      \* op[t]: how far the call of thread t has got
          arg      \* arg[t]: the element t pushes, or the one it popped

bqVars == <<queue, op, arg>>

Ops == {"idle", "push", "pushed", "pop", "popped"}

BQTypeOK == /\ queue \in Seq(Values) /\ Len(queue) <= Cap
            /\ op \in [Threads -> Ops]
            /\ arg \in [Threads -> Values \cup {None}]

BQInit == /\ queue = <<>>
          /\ op = [t \in Threads |-> "idle"]
          /\ arg = [t \in Threads |-> None]

-----------------------------------------------------------------------------

CallPush(t, v) == /\ op[t] = "idle"
                  /\ op' = [op EXCEPT ![t] = "push"]
                  /\ arg' = [arg EXCEPT ![t] = v]
                  /\ UNCHANGED queue

Enqueue(t) == /\ op[t] = "push"
              /\ Len(queue) < Cap
              /\ queue' = Append(queue, arg[t])
              /\ op' = [op EXCEPT ![t] = "pushed"]
              /\ UNCHANGED arg

CallPop(t) == /\ op[t] = "idle"
              /\ op' = [op EXCEPT ![t] = "pop"]
              /\ UNCHANGED <<queue, arg>>

Dequeue(t) == /\ op[t] = "pop"
              /\ queue # <<>>
              /\ queue' = Tail(queue)
              /\ arg' = [arg EXCEPT ![t] = Head(queue)]
              /\ op' = [op EXCEPT ![t] = "popped"]

Return(t) == /\ op' = [op EXCEPT ![t] = "idle"]
             /\ arg' = [arg EXCEPT ![t] = None]
             /\ UNCHANGED queue

ReturnOk(t) == op[t] \in {"pushed", "popped"} /\ Return(t)

ReturnFull(t) == /\ op[t] = "push"
                 /\ Len(queue) = Cap \/ \E u \in Threads : op[u] = "popped"
                 /\ Return(t)

ReturnEmpty(t) == /\ op[t] = "pop"
                  /\ queue = <<>> \/ \E u \in Threads : op[u] = "pushed"
                  /\ Return(t)

BQNext == \E t \in Threads :
             \/ \E v \in Values : CallPush(t, v)
             \/ CallPop(t)
             \/ Enqueue(t) \/ Dequeue(t)
             \/ ReturnOk(t) \/ ReturnFull(t) \/ ReturnEmpty(t)

BQSpec == BQInit /\ [][BQNext]_bqVars
=============================================================================
