------------------------------ MODULE Channel ------------------------------
(***************************************************************************)
(* src/chan.c with the payload reference counts of src/alloc.c and the     *)
(* release after a handler of src/worker.c.                                *)
(*                                                                         *)
(* A message is a task with a payload of its own that carries              *)
(* GMK_TF_PAYLOAD_RC, and is emitted by a thread of its own, named like    *)
(* it.  The channels are open from the start; Dead is "sys.dropped".       *)
(* Threads in Drainers call gmk_chan_drain from outside.                   *)
(*                                                                         *)
(* One action per operation on a ring, on the scheduler, on a reference    *)
(* count or under a channel's lock.  The scheduler is a bag of copies with *)
(* QueueCap places: which queue a copy waits in (module Scheduler) makes   *)
(* no difference here, that there may be no room for it does.  Nothing     *)
(* ever clears a subscriber's active flag, so subscribers are a number.    *)
(***************************************************************************)
EXTENDS Integers, Sequences, FiniteSets

CONSTANTS Msgs,        \* messages, and the threads that emit them
          Critical,    \* the messages of priority GMK_PRIO_CRITICAL
          Drainers,    \* threads that call gmk_chan_drain
          Chans,       \* the channels
          Dead,        \* GMK_CHAN_SYS_DROPPED
          P2P,         \* channels of mode GMK_CHAN_P2P, the others fan out
          Lossless,    \* channels of guarantee GMK_CHAN_LOSSLESS
          MaxSubs,     \* GMK_MAX_CHAN_SUBS
          RingCap,     \* ch->ring_cap
          Reserve,     \* GMK_CHAN_PRIORITY_RESERVE_PCT
          QueueCap,    \* places in the scheduler's queues
          W,           \* number of values of a uint32_t
          None         \* no message, no channel

ASSUME ChannelAssumption ==
  /\ Critical \subseteq Msgs /\ Msgs \cap Drainers = {} /\ None \notin Msgs
  /\ Dead \in Chans /\ P2P \cup Lossless \subseteq Chans \ {Dead}
  /\ MaxSubs \in Nat \ {0} /\ RingCap \in Nat \ {0} /\ QueueCap \in Nat
  /\ Reserve \in 0 .. 100 /\ W \in Nat /\ RingCap < W

VARIABLES open,     \* open[c]: ch->open
          subs,     \* subs[c]: ch->n_subs
          ring,     \* ring[c]: messages in ch->ring
          popped,   \* popped[c]: the ring's head
          ready,    \* ready[m]: copies of m in the scheduler's queues
          busy,     \* busy[m]: copies of m whose handler is running
          rc,       \* rc[m]: hdr->refcount, 0 when the payload is freed
          pc,       \* pc[t]: where thread t is
          at,       \* at[t]: the channel of its call
          seen,     \* seen[t]: the tail that emit's count has read
          task,     \* task[t]: what gmk_chan_drain has popped
          left,     \* left[t]: copies of it still to hand out
          snap,     \* snap[t]: its copy of n_subs
          leaked    \* leaked[m]: references no copy stands for any more

registry == <<open, subs>>
rings == <<ring, popped>>
sched == <<ready, busy>>
locals == <<at, seen, task, left, snap>>
vars == <<open, subs, ring, popped, ready, busy, rc, pc, at, seen, task, left,
          snap, leaked>>

Threads == Msgs \cup Drainers

\* The state after gmk_chan_reg_init and gmk_chan_open, with a payload made by
\* gmk_payload_alloc for every message.
Init == /\ open = [c \in Chans |-> TRUE] /\ subs = [c \in Chans |-> 0]
        /\ ring = [c \in Chans |-> <<>>] /\ popped = [c \in Chans |-> 0]
        /\ ready = [m \in Msgs |-> 0] /\ busy = [m \in Msgs |-> 0]
        /\ rc = [m \in Msgs |-> 1] /\ leaked = [m \in Msgs |-> 0]
        /\ pc = [t \in Threads |-> "idle"]
        /\ at = [t \in Threads |-> None] /\ task = [t \in Threads |-> None]
        /\ seen = [t \in Threads |-> 0] /\ left = [t \in Threads |-> 0]
        /\ snap = [t \in Threads |-> 0]

Goto(t, l) == pc' = [pc EXCEPT ![t] = l]

\* End of a call: its local variables are gone.
Leave(t, l) == /\ Goto(t, l)
               /\ at' = [at EXCEPT ![t] = None]
               /\ task' = [task EXCEPT ![t] = None]
               /\ seen' = [seen EXCEPT ![t] = 0]
               /\ left' = [left EXCEPT ![t] = 0]
               /\ snap' = [snap EXCEPT ![t] = 0]

Waiting == UNION {{m} \X (1 .. ready[m]) : m \in Msgs}
Queued == Cardinality(Waiting)

\* _gmk_enqueue: the local queue, else the ready queue, else an error.
HasRoom == Queued < QueueCap
Enqueue(m) == ready' = [ready EXCEPT ![m] = @ + 1]

\* gmk_payload_release: the last reference frees.
Release(m) == rc' = [rc EXCEPT ![m] = @ - 1]

-----------------------------------------------------------------------------
(* gmk_chan_emit, by the thread of message m *)

\* Look at open, then read the tail of the ring for gmk_ring_mpmc_count.
Emit(m, c) ==
  /\ pc[m] = "idle" /\ open[c]
  /\ at' = [at EXCEPT ![m] = c]
  /\ seen' = [seen EXCEPT ![m] = popped[c] + Len(ring[c])]
  /\ Goto(m, "count")
  /\ UNCHANGED <<registry, rings, sched, rc, task, left, snap, leaked>>

EmitClosed(m, c) ==
  /\ pc[m] = "idle" /\ ~open[c]
  /\ Leave(m, "refused")
  /\ UNCHANGED <<registry, rings, sched, rc, leaked>>

\* gmk_ring_mpmc_count reads head after tail and subtracts in uint32_t.
Backlog(m) == (seen[m] - popped[at[m]]) % W
Threshold == RingCap - (RingCap * Reserve) \div 100

EmitBackpressure(m) ==
  /\ pc[m] = "count" /\ Backlog(m) >= Threshold /\ m \notin Critical
  /\ Leave(m, "refused")
  /\ UNCHANGED <<registry, rings, sched, rc, leaked>>

EmitAdmitted(m) ==
  /\ pc[m] = "count"
  /\ Backlog(m) < Threshold \/ m \in Critical
  /\ Goto(m, IF at[m] \in P2P THEN "lookup" ELSE "push")
  /\ UNCHANGED <<registry, rings, sched, rc, locals, leaked>>

\* Fast path: has the channel a subscriber (under ch->lock)?
EmitLookup(m) ==
  /\ pc[m] = "lookup"
  /\ Goto(m, IF subs[at[m]] = 1 THEN "direct" ELSE "push")
  /\ UNCHANGED <<registry, rings, sched, rc, locals, leaked>>

EmitDirect(m) ==
  /\ pc[m] = "direct"
  /\ \/ HasRoom /\ Enqueue(m) /\ Leave(m, "sent")
     \/ ~HasRoom /\ Goto(m, "push") /\ UNCHANGED <<ready, locals>>
  /\ UNCHANGED <<registry, rings, busy, rc, leaked>>

\* MUTANT: takes the ring for one place larger than it is.
EmitPushLate(m) ==
  /\ pc[m] = "push" /\ Len(ring[at[m]]) <= RingCap
  /\ ring' = [ring EXCEPT ![at[m]] = Append(@, m)]
  /\ IF at[m] \in P2P THEN Goto(m, "after") /\ UNCHANGED locals
                      ELSE Leave(m, "sent")
  /\ UNCHANGED <<registry, popped, sched, rc, leaked>>

EmitPush(m) ==
  /\ pc[m] = "push" /\ Len(ring[at[m]]) < RingCap
  /\ ring' = [ring EXCEPT ![at[m]] = Append(@, m)]
  /\ IF at[m] \in P2P THEN Goto(m, "after") /\ UNCHANGED locals
                      ELSE Leave(m, "sent")
  /\ UNCHANGED <<registry, popped, sched, rc, leaked>>

EmitFull(m) ==
  /\ pc[m] = "push" /\ Len(ring[at[m]]) >= RingCap
  /\ Leave(m, "refused")
  /\ UNCHANGED <<registry, rings, sched, rc, leaked>>

\* "For P2P with subscriber, drain immediately": one message, whichever is first.
EmitDrain(m) ==
  /\ pc[m] = "after"
  /\ \/ /\ subs[at[m]] > 0
        /\ snap' = [snap EXCEPT ![m] = subs[at[m]]]
        /\ Goto(m, "pop") /\ UNCHANGED <<at, seen, task, left>>
     \/ subs[at[m]] = 0 /\ Leave(m, "sent")
  /\ UNCHANGED <<registry, rings, sched, rc, leaked>>

-----------------------------------------------------------------------------
(* gmk_chan_drain, by an emitter with limit 1 or by a drainer without limit *)

\* The list of subscribers is copied once, under ch->lock.
DrainCall(d, c) ==
  /\ pc[d] = "idle" /\ subs[c] > 0
  /\ at' = [at EXCEPT ![d] = c]
  /\ snap' = [snap EXCEPT ![d] = subs[c]]
  /\ Goto(d, "pop")
  /\ UNCHANGED <<registry, rings, sched, rc, seen, task, left, leaked>>

DrainReturn(t) == Leave(t, IF t \in Drainers THEN "idle" ELSE "sent")

DrainEmpty(t) ==
  /\ pc[t] = "pop" /\ ring[at[t]] = <<>>
  /\ DrainReturn(t)
  /\ UNCHANGED <<registry, rings, sched, rc, leaked>>

\* MUTANT: one reference for every subscriber, and the original one.
RetainAll(m, n) == rc' = [rc EXCEPT ![m] = @ + n]

\* One reference for every subscriber but the first; only this thread has the
\* message, so that the n - 1 calls of gmk_payload_retain are one step.
Retain(m, n) == rc' = [rc EXCEPT ![m] = @ + n - 1]

DrainPop(t) ==
  LET c == at[t]
      m == Head(ring[c])
      n == IF c \in P2P THEN 1 ELSE snap[t]
  IN  /\ pc[t] = "pop" /\ ring[c] # <<>>
      /\ ring' = [ring EXCEPT ![c] = Tail(@)]
      /\ popped' = [popped EXCEPT ![c] = @ + 1]
      /\ task' = [task EXCEPT ![t] = m]
      /\ left' = [left EXCEPT ![t] = n]
      /\ Retain(m, n)
      /\ Goto(t, "route")
      /\ UNCHANGED <<registry, sched, at, seen, snap, leaked>>

\* One copy is dealt with; after the last one an emitter is done and a drainer
\* goes on with the next message and the same snapshot.
NextCopy(t) ==
  IF left[t] > 1
  THEN /\ left' = [left EXCEPT ![t] = @ - 1] /\ Goto(t, "route")
       /\ UNCHANGED <<at, seen, task, snap>>
  ELSE IF t \in Drainers
       THEN /\ left' = [left EXCEPT ![t] = 0] /\ Goto(t, "pop")
            /\ task' = [task EXCEPT ![t] = None]
            /\ UNCHANGED <<at, seen, snap>>
       ELSE Leave(t, "sent")

DrainRoute(t) ==
  /\ pc[t] = "route" /\ HasRoom
  /\ Enqueue(task[t])
  /\ NextCopy(t)
  /\ UNCHANGED <<registry, rings, busy, rc, leaked>>

DrainNoRoom(t) ==
  /\ pc[t] = "route" /\ ~HasRoom
  /\ Goto(t, IF at[t] \in P2P \cup Lossless THEN "dead" ELSE "unref")
  /\ UNCHANGED <<registry, rings, sched, rc, locals, leaked>>

\* MUTANT: gives the reference back although the dead letter needs it.
DeadLetterUnref(t) ==
  LET fits == Len(ring[Dead]) < RingCap
  IN  /\ pc[t] = "dead"
      /\ ring' = IF fits THEN [ring EXCEPT ![Dead] = Append(@, task[t])] ELSE ring
      /\ Goto(t, "unref") /\ UNCHANGED <<locals, leaked>>
      /\ UNCHANGED <<registry, popped, sched, rc>>

\* route_to_dead_letter, whose push may fail unnoticed.  Only the fan-out branch
\* goes on to release the copy's reference.
DeadLetter(t) ==
  LET fits == Len(ring[Dead]) < RingCap
  IN  /\ pc[t] = "dead"
      /\ ring' = IF fits THEN [ring EXCEPT ![Dead] = Append(@, task[t])] ELSE ring
      /\ IF at[t] \in P2P
         THEN /\ NextCopy(t)
              /\ leaked' = IF fits THEN leaked
                           ELSE [leaked EXCEPT ![task[t]] = @ + 1]
         ELSE Goto(t, "unref") /\ UNCHANGED <<locals, leaked>>
      /\ UNCHANGED <<registry, popped, sched, rc>>

Unref(t) ==
  /\ pc[t] = "unref"
  /\ Release(task[t])
  /\ NextCopy(t)
  /\ UNCHANGED <<registry, rings, sched, leaked>>

-----------------------------------------------------------------------------
(* gmk_chan_sub and gmk_chan_close *)

\* gmk_chan_sub looks at open before it takes the lock: the channel may have been
\* closed since, so that Sub has no guard on it.
Sub(c) ==
  /\ subs[c] < (IF c \in P2P THEN 1 ELSE MaxSubs)
  /\ subs' = [subs EXCEPT ![c] = @ + 1]
  /\ UNCHANGED <<open, rings, sched, rc, pc, locals, leaked>>

Close(c) ==
  /\ c # Dead /\ open[c]
  /\ open' = [open EXCEPT ![c] = FALSE]
  /\ UNCHANGED <<subs, rings, sched, rc, pc, locals, leaked>>

-----------------------------------------------------------------------------
(* Workers: worker_dispatch_task for one copy of m *)

Take(m) ==
  /\ ready[m] > 0
  /\ ready' = [ready EXCEPT ![m] = @ - 1]
  /\ busy' = [busy EXCEPT ![m] = @ + 1]
  /\ UNCHANGED <<registry, rings, rc, pc, locals, leaked>>

\* GMK_OK or a failure.
HandlerDone(m) ==
  /\ busy[m] > 0
  /\ busy' = [busy EXCEPT ![m] = @ - 1]
  /\ Release(m)
  /\ UNCHANGED <<registry, rings, ready, pc, locals, leaked>>

\* GMK_RETRY: the result of _gmk_enqueue is ignored, the reference kept.
HandlerRetry(m) ==
  /\ busy[m] > 0
  /\ busy' = [busy EXCEPT ![m] = @ - 1]
  /\ \/ HasRoom /\ Enqueue(m) /\ UNCHANGED leaked
     \/ ~HasRoom /\ leaked' = [leaked EXCEPT ![m] = @ + 1] /\ UNCHANGED ready
  /\ UNCHANGED <<registry, rings, rc, pc, locals>>

\* gmk_yield_impl: a second copy is queued, without a reference of its own; the
\* handler then ends with GMK_OK.  BOUND: one such copy of a message at a time.
HandlerYields(m) ==
  /\ busy[m] > 0 /\ ready[m] + busy[m] <= rc[m] /\ HasRoom
  /\ Enqueue(m)
  /\ UNCHANGED <<registry, rings, busy, rc, pc, locals, leaked>>

-----------------------------------------------------------------------------

EmitStep(m) == \/ EmitBackpressure(m) \/ EmitAdmitted(m)
               \/ EmitLookup(m) \/ EmitDirect(m)
               \/ EmitPush(m) \/ EmitFull(m) \/ EmitDrain(m)

DrainStep(t) == \/ DrainEmpty(t) \/ DrainPop(t) \/ DrainRoute(t)
                \/ DrainNoRoom(t) \/ DeadLetter(t) \/ Unref(t)

Next == \/ \E m \in Msgs, c \in Chans : Emit(m, c) \/ EmitClosed(m, c)
        \/ \E m \in Msgs : \/ EmitStep(m)
                           \/ Take(m) \/ HandlerDone(m) \/ HandlerRetry(m)
        \/ \E d \in Drainers, c \in Chans : DrainCall(d, c)
        \/ \E t \in Threads : DrainStep(t)
        \/ \E c \in Chans : Sub(c) \/ Close(c)

\* Handlers that keep nothing of a message beyond their return ...
Spec == Init /\ [][Next]_vars

\* ... and handlers that may yield.
NextYield == Next \/ \E m \in Msgs : HandlerYields(m)
SpecYield == Init /\ [][NextYield]_vars

-----------------------------------------------------------------------------
(* Properties *)

PCs == {"idle", "count", "lookup", "direct", "push", "after", "pop", "route",
        "dead", "unref", "sent", "refused"}

TypeOK ==
  /\ open \in [Chans -> BOOLEAN] /\ subs \in [Chans -> 0 .. MaxSubs]
  /\ ring \in [Chans -> Seq(Msgs)] /\ \A c \in Chans : Len(ring[c]) <= RingCap
  /\ popped \in [Chans -> Nat]
  /\ ready \in [Msgs -> Nat] /\ Queued <= QueueCap
  /\ busy \in [Msgs -> Nat] /\ rc \in [Msgs -> Nat] /\ leaked \in [Msgs -> Nat]
  /\ pc \in [Threads -> PCs] /\ at \in [Threads -> Chans \cup {None}]
  /\ task \in [Threads -> Msgs \cup {None}]
  /\ seen \in [Threads -> Nat] /\ left \in [Threads -> 0 .. MaxSubs]
  /\ snap \in [Threads -> 0 .. MaxSubs]

\* The emitter has not handed the message over, or got it back.
Owned(m) == pc[m] \in {"idle", "count", "lookup", "direct", "push", "refused"}

\* The cells of rings that hold m.
Cells(m) == UNION {{c} \X {i \in DOMAIN ring[c] : ring[c][i] = m} : c \in Chans}
InRings(m) == Cardinality(Cells(m))

\* The thread, if any, that is handing out m.
Pending(m) == LET ts == {t \in Threads : task[t] = m}
              IN  IF ts = {} THEN 0 ELSE left[CHOOSE t \in ts : TRUE]

\* The copies of m that somebody will still look at.
Copies(m) == (IF Owned(m) THEN 1 ELSE 0) + InRings(m) + Pending(m)
             + ready[m] + busy[m]

\* One reference for every copy, whatever the interleaving of emitters, drains,
\* late subscribers, failed deliveries and handlers; the only references too
\* many are those of copies that an ignored error has lost.
RefsExact == \A m \in Msgs : rc[m] = Copies(m) + leaked[m]

\* "so the payload lives until all handlers complete" (chan.c): while a copy of
\* m can still reach a handler, the payload of m has not been freed.
PayloadAlive == \A m \in Msgs : Copies(m) > 0 => rc[m] > 0

\* A freed payload is neither retained nor released again.
FreedOnce == [][\A m \in Msgs : rc[m] = 0 => rc'[m] = 0]_vars
=============================================================================
