------------------------------ MODULE Scheduler ------------------------------
(***************************************************************************)
(* The scheduler at work: gmk_submit (boot.c), _gmk_enqueue and _gmk_yield *)
(* (enqueue.c), the weighted ready queue (sched_rq.c), and the workers'    *)
(* gather-dispatch-park loop with its start and stop (worker.c).           *)
(*                                                                         *)
(* One action per operation on a queue or access to a shared flag.  The    *)
(* queues are FIFO sequences: MpmcRing and LocalQueue show that the rings  *)
(* behave so.  A handler is a choice among what handlers may do: finish    *)
(* (whether it succeeds or fails the task is gone), yield and then finish, *)
(* or ask for a retry.  The event queue holds timer tasks armed before the *)
(* start; EventQueue shows that it serves the first of those due.          *)
(***************************************************************************)
EXTENDS Integers, Sequences, FiniteSets

CONSTANTS Workers,      \* 0 .. n_workers - 1
          Prios,        \* 0 .. GMK_PRIORITY_COUNT - 1
          Weight,       \* Weight[p]: GMK_WEIGHT_P0 ..
          Submitted,    \* tasks that reach the kernel through gmk_submit
          Timers,       \* tasks in the event queue
          Prio,         \* Prio[t]: GMK_PRIORITY(flags) of a task
          Retriers,     \* tasks whose handler may return GMK_RETRY
          Yielders,     \* tasks whose handler may call gmk_yield
          RqCap, LqCap, LqMark, OvfCap,   \* capacities, yield watermark
          DrainLimit,   \* GMK_EVQ_DRAIN_LIMIT
          MaxYields,    \* GMK_DEFAULT_MAX_YIELDS
          None          \* no task

Tasks == Submitted \cup Timers

ASSUME SchedAssumption ==
  /\ Workers # {} /\ Workers \subseteq Nat
  /\ Prios # {} /\ Prios \subseteq Nat
  /\ Weight \in [Prios -> Nat \ {0}] /\ Prio \in [Tasks -> Prios]
  /\ {RqCap, LqCap, LqMark, OvfCap, DrainLimit, MaxYields} \subseteq Nat
  /\ LqMark <= LqCap
  /\ Submitted \cap Timers = {} /\ None \notin Tasks

VARIABLES rq,         \* rq[p]: ready queue of priority p
          counter,    \* counter[p]: rq->pop_counters[p], not atomic
          lq,         \* lq[w]: local queue of worker w
          ovf,        \* s->overflow
          evq,        \* tasks in the event queue
          due,        \* workers whose w->tick has reached the timers
          wpc,        \* wpc[w]: where worker w is in gmk_worker_loop
          hand,       \* hand[w]: its local variable task
          yielded,    \* yielded[w]: the handler it runs has yielded
          scan,       \* scan[w]: prio of gmk_rq_pop, or evq_drained
          count,      \* count[w]: pop counter read and not yet incremented
          running,    \* running[w]: w->running
          parked,     \* parked[w]: w->parked
          spc,        \* spc[t]: where the thread that submits t is
          probe,      \* probe[t]: index of the worker its wake loop looks at
          halt,       \* how far gmk_halt has got
          yields,     \* yields[t]: task->yield_count
          ran,        \* submitted tasks a handler has run for
          finished,   \* tasks whose handler is done with them
          dropped     \* tasks that an ignored error code has lost

queues == <<rq, lq, ovf, evq>>
local == <<hand, yielded, scan, count>>
flags == <<running, parked, halt>>
submits == <<spc, probe>>
fates == <<yields, ran, finished, dropped>>
vars == <<rq, counter, lq, ovf, evq, due, wpc, hand, yielded, scan, count,
          running, parked, spc, probe, halt, yields, ran, finished, dropped>>

First(S) == CHOOSE x \in S : \A y \in S : x <= y
After(S, x) == {y \in S : y > x}

\* gmk_sched_init and gmk_worker_pool_start, with the timers armed.
Init ==
  /\ rq = [p \in Prios |-> <<>>] /\ counter = [p \in Prios |-> 0]
  /\ lq = [w \in Workers |-> <<>>] /\ ovf = <<>>
  /\ evq = Timers /\ due = {}
  /\ wpc = [w \in Workers |-> "top"] /\ hand = [w \in Workers |-> None]
  /\ yielded = [w \in Workers |-> FALSE]
  /\ scan = [w \in Workers |-> 0] /\ count = [w \in Workers |-> 0]
  /\ running = [w \in Workers |-> TRUE] /\ parked = [w \in Workers |-> FALSE]
  /\ spc = [t \in Submitted |-> "new"] /\ probe = [t \in Submitted |-> 0]
  /\ halt = "no"
  /\ yields = [t \in Tasks |-> 0]
  /\ ran = {} /\ finished = {} /\ dropped = {}

Goto(w, l) == wpc' = [wpc EXCEPT ![w] = l]

-----------------------------------------------------------------------------
(* Enqueueing: each operator says what becomes of the queues and of t *)

\* MUTANT: one task past the end.
RqFullLate(t) == Len(rq[Prio[t]]) > RqCap

\* gmk_rq_push.
RqFull(t) == Len(rq[Prio[t]]) >= RqCap
RqPush(t) == rq' = [rq EXCEPT ![Prio[t]] = Append(@, t)]

\* The result is ignored by the caller: a task that does not fit is lost.
RqPushOrDrop(t) ==
  \/ ~RqFull(t) /\ RqPush(t) /\ UNCHANGED dropped
  \/ RqFull(t) /\ dropped' = dropped \cup {t} /\ UNCHANGED rq

\* _gmk_enqueue(s, t, w): local queue below its watermark, else ready queue.
EnqueueOrDrop(t, w) ==
  \/ /\ Len(lq[w]) < LqMark
     /\ lq' = [lq EXCEPT ![w] = Append(@, t)]
     /\ UNCHANGED <<rq, dropped>>
  \/ /\ Len(lq[w]) >= LqMark
     /\ RqPushOrDrop(t) /\ UNCHANGED lq

\* MUTANT: a yield into the local queue goes on to the overflow ring.
YieldTwice(t, w) ==
  LET n == yields[t] + 1
      inLq == n <= MaxYields /\ Len(lq[w]) < LqCap
      inOvf == n <= MaxYields /\ Len(ovf) < OvfCap
  IN  /\ yields' = [yields EXCEPT ![t] = n]
      /\ lq' = IF inLq THEN [lq EXCEPT ![w] = Append(@, t)] ELSE lq
      /\ ovf' = IF inOvf THEN Append(ovf, t) ELSE ovf
      /\ dropped' = IF inLq \/ inOvf THEN dropped ELSE dropped \cup {t}

\* MUTANT: compares the count before the increment.
YieldOnceMore(t, w) ==
  LET n == yields[t] + 1
      inLq == yields[t] <= MaxYields /\ Len(lq[w]) < LqCap
      inOvf == yields[t] <= MaxYields /\ ~inLq /\ Len(ovf) < OvfCap
  IN  /\ yields' = [yields EXCEPT ![t] = n]
      /\ lq' = IF inLq THEN [lq EXCEPT ![w] = Append(@, t)] ELSE lq
      /\ ovf' = IF inOvf THEN Append(ovf, t) ELSE ovf
      /\ dropped' = IF inLq \/ inOvf THEN dropped ELSE dropped \cup {t}

\* _gmk_yield(s, t, w): local queue up to its capacity, else overflow ring.
YieldOrDrop(t, w) ==
  LET n == yields[t] + 1
      inLq == n <= MaxYields /\ Len(lq[w]) < LqCap
      inOvf == n <= MaxYields /\ ~inLq /\ Len(ovf) < OvfCap
  IN  /\ yields' = [yields EXCEPT ![t] = n]
      /\ lq' = IF inLq THEN [lq EXCEPT ![w] = Append(@, t)] ELSE lq
      /\ ovf' = IF inOvf THEN Append(ovf, t) ELSE ovf
      /\ dropped' = IF inLq \/ inOvf THEN dropped ELSE dropped \cup {t}

-----------------------------------------------------------------------------
(* gmk_submit, called for t by a thread of its own *)

\* k->running is read here and nowhere later in the call.
SubmitCheck(t) ==
  /\ spc[t] = "new"
  /\ spc' = [spc EXCEPT ![t] = IF halt = "no" THEN "push" ELSE "rejected"]
  /\ UNCHANGED <<queues, counter, due, wpc, local, flags, probe, fates>>

SubmitPush(t) ==
  /\ spc[t] = "push" /\ ~RqFull(t)
  /\ RqPush(t)
  /\ spc' = [spc EXCEPT ![t] = "look"]
  /\ probe' = [probe EXCEPT ![t] = First(Workers)]
  /\ UNCHANGED <<counter, lq, ovf, evq, due, wpc, local, flags, fates>>

SubmitFull(t) ==
  /\ spc[t] = "push" /\ RqFull(t)
  /\ spc' = [spc EXCEPT ![t] = "rejected"]
  /\ UNCHANGED <<queues, counter, due, wpc, local, flags, probe, fates>>

\* Wake the first worker seen parked.
SubmitLook(t) ==
  /\ spc[t] = "look"
  /\ \/ /\ parked[probe[t]]
        /\ spc' = [spc EXCEPT ![t] = "wake"] /\ UNCHANGED probe
     \/ /\ ~parked[probe[t]] /\ After(Workers, probe[t]) # {}
        /\ probe' = [probe EXCEPT ![t] = First(After(Workers, @))]
        /\ UNCHANGED spc
     \/ /\ ~parked[probe[t]] /\ After(Workers, probe[t]) = {}
        /\ spc' = [spc EXCEPT ![t] = "accepted"]
        /\ probe' = [probe EXCEPT ![t] = 0]
  /\ UNCHANGED <<queues, counter, due, wpc, local, flags, fates>>

\* gmk_worker_wake: gmk_hal_park_wake signals the condition variable, which
\* nobody remembers unless the worker is waiting on it.
Signal(w) == IF parked[w] /\ wpc[w] = "waiting" THEN Goto(w, "unpark")
                                                ELSE UNCHANGED wpc

SubmitWake(t) ==
  /\ spc[t] = "wake"
  /\ Signal(probe[t])
  /\ spc' = [spc EXCEPT ![t] = "accepted"]
  /\ probe' = [probe EXCEPT ![t] = 0]
  /\ UNCHANGED <<queues, counter, due, local, flags, fates>>

-----------------------------------------------------------------------------
(* gmk_worker_loop *)

Stop(w) == /\ wpc[w] = "top" /\ ~running[w]
           /\ Goto(w, "stopped")
           /\ UNCHANGED <<queues, counter, due, local, flags, submits, fates>>

\* worker_dispatch_task up to the call of the handler.
Dispatch(w, t) == /\ hand' = [hand EXCEPT ![w] = t]
                  /\ ran' = ran \cup ({t} \cap Submitted)

\* Nobody else touches the local queue, so the load of w->running and the pop
\* are one step.
PopLq(w) ==
  /\ wpc[w] = "top" /\ running[w]
  /\ \/ /\ lq[w] # <<>>
        /\ lq' = [lq EXCEPT ![w] = Tail(@)]
        /\ Dispatch(w, Head(lq[w])) /\ Goto(w, "run")
     \/ /\ lq[w] = <<>>
        /\ Goto(w, "ovf") /\ UNCHANGED <<lq, hand, ran>>
  /\ UNCHANGED <<rq, ovf, evq, counter, due, yielded, scan, count, flags,
                 submits, yields, finished, dropped>>

PopOvf(w) ==
  /\ wpc[w] = "ovf"
  /\ \/ /\ ovf # <<>>
        /\ ovf' = Tail(ovf)
        /\ Dispatch(w, Head(ovf)) /\ Goto(w, "run")
        /\ UNCHANGED scan
     \/ /\ ovf = <<>>
        /\ Goto(w, "rq1") /\ scan' = [scan EXCEPT ![w] = First(Prios)]
        /\ UNCHANGED <<ovf, hand, ran>>
  /\ UNCHANGED <<rq, lq, evq, counter, due, yielded, count, flags, submits,
                 yields, finished, dropped>>

\* MUTANT: strict priority, no weights.
RqTakeStrict(w) ==
  LET p == scan[w]
  IN  /\ wpc[w] \in {"rq1", "rq2"} /\ rq[p] # <<>>
      /\ rq' = [rq EXCEPT ![p] = Tail(@)]
      /\ hand' = [hand EXCEPT ![w] = Head(rq[p])]
      /\ count' = [count EXCEPT ![w] = counter[p]]
      /\ Goto(w, "rqcount")
      /\ UNCHANGED <<lq, ovf, evq, counter, due, yielded, scan, flags, submits,
                     fates>>

\* gmk_rq_pop, one priority of the first or of the second pass.
RqTake(w) ==
  LET p == scan[w]
  IN  /\ wpc[w] \in {"rq1", "rq2"} /\ rq[p] # <<>>
      /\ wpc[w] = "rq1" => counter[p] < Weight[p]
      /\ rq' = [rq EXCEPT ![p] = Tail(@)]
      /\ hand' = [hand EXCEPT ![w] = Head(rq[p])]
      /\ count' = [count EXCEPT ![w] = counter[p]]
      /\ Goto(w, "rqcount")
      /\ UNCHANGED <<lq, ovf, evq, counter, due, yielded, scan, flags, submits,
                     fates>>

Passed(w) == \/ rq[scan[w]] = <<>>
             \/ wpc[w] = "rq1" /\ counter[scan[w]] >= Weight[scan[w]]

RqSkip(w) ==
  /\ wpc[w] \in {"rq1", "rq2"} /\ Passed(w) /\ After(Prios, scan[w]) # {}
  /\ scan' = [scan EXCEPT ![w] = First(After(Prios, @))]
  /\ UNCHANGED <<queues, counter, due, wpc, hand, yielded, count, flags, submits,
                 fates>>

\* The end of the first pass resets the counters, the end of the second gives up.
RqReset(w) ==
  /\ wpc[w] = "rq1" /\ Passed(w) /\ After(Prios, scan[w]) = {}
  /\ counter' = [p \in Prios |-> 0]
  /\ scan' = [scan EXCEPT ![w] = First(Prios)]
  /\ Goto(w, "rq2")
  /\ UNCHANGED <<queues, due, hand, yielded, count, flags, submits, fates>>

RqEmpty(w) ==
  /\ wpc[w] = "rq2" /\ Passed(w) /\ After(Prios, scan[w]) = {}
  /\ scan' = [scan EXCEPT ![w] = 0]
  /\ Goto(w, "evq")
  /\ UNCHANGED <<queues, counter, due, hand, yielded, count, flags, submits,
                 fates>>

\* The code only asks whether a counter is below its weight: a counter that
\* lost resets make grow past it stays at the weight.
Incremented(p, n) == IF n < Weight[p] THEN n + 1 ELSE n

\* pop_counters[prio]++ is not atomic: what it writes may be stale.
RqCount(w) == /\ wpc[w] = "rqcount"
              /\ counter' = [counter EXCEPT ![scan[w]] = Incremented(scan[w], count[w])]
              /\ count' = [count EXCEPT ![w] = 0]
              /\ scan' = [scan EXCEPT ![w] = 0]
              /\ Dispatch(w, hand[w]) /\ Goto(w, "run")
              /\ UNCHANGED <<queues, due, yielded, flags, submits, yields,
                             finished, dropped>>

\* One round of the event-queue loop: gmk_evq_pop_due, then _gmk_enqueue.
DrainPop(w) ==
  /\ wpc[w] = "evq" /\ scan[w] < DrainLimit /\ w \in due
  /\ \E t \in evq : /\ \A u \in evq : Prio[t] <= Prio[u]
                    /\ evq' = evq \ {t}
                    /\ hand' = [hand EXCEPT ![w] = t]
  /\ scan' = [scan EXCEPT ![w] = @ + 1]
  /\ Goto(w, "drain")
  /\ UNCHANGED <<rq, lq, ovf, counter, due, yielded, count, flags, submits,
                 fates>>

DrainPush(w) ==
  /\ wpc[w] = "drain"
  /\ EnqueueOrDrop(hand[w], w)
  /\ hand' = [hand EXCEPT ![w] = None]
  /\ Goto(w, "evq")
  /\ UNCHANGED <<ovf, evq, counter, due, yielded, scan, count, flags, submits,
                 yields, ran, finished>>

NothingDue(w) == scan[w] >= DrainLimit \/ w \notin due \/ evq = {}

DrainEnd(w) == /\ wpc[w] = "evq" /\ NothingDue(w) /\ scan[w] > 0
               /\ Goto(w, "top")
               /\ scan' = [scan EXCEPT ![w] = 0]
               /\ UNCHANGED <<queues, counter, due, hand, yielded, count, flags,
                              submits, fates>>

\* Nothing found anywhere.  The ready queue was looked at some steps ago.
Park(w) == /\ wpc[w] = "evq" /\ NothingDue(w) /\ scan[w] = 0
           /\ parked' = [parked EXCEPT ![w] = TRUE]
           /\ Goto(w, "recheck")
           /\ UNCHANGED <<queues, counter, due, local, running, halt, submits,
                          fates>>

Recheck(w) == /\ wpc[w] = "recheck"
              /\ Goto(w, IF running[w] THEN "wait" ELSE "unpark")
              /\ UNCHANGED <<queues, counter, due, local, flags, submits, fates>>

\* gmk_hal_park_wait reaches pthread_cond_timedwait without another look at
\* running or at the queues: a signal sent before this step is lost.
Wait(w) == /\ wpc[w] = "wait"
           /\ Goto(w, "waiting")
           /\ UNCHANGED <<queues, counter, due, local, flags, submits, fates>>

\* MUTANT: waits until it is woken.
NoTimeout(w) == FALSE /\ UNCHANGED vars

\* pthread_cond_timedwait gives up after 1 ms (and may wake for no reason).
Timeout(w) == /\ wpc[w] = "waiting"
              /\ Goto(w, "unpark")
              /\ UNCHANGED <<queues, counter, due, local, flags, submits, fates>>

Unpark(w) == /\ wpc[w] = "unpark"
             /\ parked' = [parked EXCEPT ![w] = FALSE]
             /\ Goto(w, "top")
             /\ UNCHANGED <<queues, counter, due, local, running, halt, submits,
                            fates>>

-----------------------------------------------------------------------------
(* Handlers, and what worker_dispatch_task does with their answer *)

DoneWith(w) == /\ Goto(w, "top")
               /\ hand' = [hand EXCEPT ![w] = None]
               /\ yielded' = [yielded EXCEPT ![w] = FALSE]

Finish(w) ==
  /\ wpc[w] = "run"
  /\ DoneWith(w)
  /\ finished' = IF yielded[w] THEN finished ELSE finished \cup {hand[w]}
  /\ UNCHANGED <<queues, counter, due, scan, count, flags, submits, yields, ran,
                 dropped>>

Yield(w) ==
  /\ wpc[w] = "run" /\ hand[w] \in Yielders /\ ~yielded[w]
  /\ YieldOrDrop(hand[w], w)
  /\ yielded' = [yielded EXCEPT ![w] = TRUE]
  /\ UNCHANGED <<rq, evq, counter, due, wpc, hand, scan, count, flags, submits,
                 ran, finished>>

Retry(w) ==
  /\ wpc[w] = "run" /\ hand[w] \in Retriers /\ ~yielded[w]
  /\ RqPushOrDrop(hand[w])
  /\ DoneWith(w)
  /\ UNCHANGED <<lq, ovf, evq, counter, due, scan, count, flags, submits, yields,
                 ran, finished>>

-----------------------------------------------------------------------------
(* gmk_tick_advance, and gmk_halt up to the end of gmk_worker_pool_stop *)

\* The loop of gmk_tick_advance reaches worker w.
Tick(w) == /\ w \notin due /\ \A v \in Workers : v < w => v \in due
           /\ due' = due \cup {w}
           /\ UNCHANGED <<queues, counter, wpc, local, flags, submits, fates>>

\* gmk_halt clears k->running first.
Close == /\ halt = "no" /\ halt' = "closed"
         /\ UNCHANGED <<queues, counter, due, wpc, local, running, parked,
                        submits, fates>>

StopFlags == /\ halt = "closed" /\ halt' = "wake"
             /\ running' = [w \in Workers |-> FALSE]
             /\ UNCHANGED <<queues, counter, due, wpc, local, parked, submits,
                            fates>>

\* gmk_worker_wake_all.
StopWake == /\ halt = "wake" /\ halt' = "join"
            /\ wpc' = [w \in Workers |-> IF parked[w] /\ wpc[w] = "waiting"
                                         THEN "unpark" ELSE wpc[w]]
            /\ UNCHANGED <<queues, counter, due, local, running, parked, submits,
                           fates>>

StopJoin == /\ halt = "join" /\ \A w \in Workers : wpc[w] = "stopped"
            /\ halt' = "done"
            /\ UNCHANGED <<queues, counter, due, wpc, local, running, parked,
                           submits, fates>>

-----------------------------------------------------------------------------

Gather(w) == \/ Stop(w) \/ PopLq(w) \/ PopOvf(w)
             \/ RqTake(w) \/ RqSkip(w) \/ RqReset(w) \/ RqEmpty(w) \/ RqCount(w)
             \/ DrainPop(w) \/ DrainPush(w) \/ DrainEnd(w)
             \/ Park(w) \/ Recheck(w) \/ Wait(w) \/ Unpark(w)

Handler(w) == Finish(w) \/ Yield(w) \/ Retry(w)

SubmitStep(t) == \/ SubmitPush(t) \/ SubmitFull(t)
                 \/ SubmitLook(t) \/ SubmitWake(t)

Done == halt = "done" /\ UNCHANGED vars

Next == \/ \E w \in Workers : Gather(w) \/ Timeout(w) \/ Handler(w) \/ Tick(w)
        \/ \E t \in Submitted : SubmitCheck(t) \/ SubmitStep(t)
        \/ Close \/ StopFlags \/ StopWake \/ StopJoin \/ Done

Spec == Init /\ [][Next]_vars

-----------------------------------------------------------------------------
(* Properties *)

WPCs == {"top", "ovf", "rq1", "rq2", "rqcount", "evq", "drain", "run", "recheck",
         "wait", "waiting", "unpark", "stopped"}

TypeOK ==
  /\ rq \in [Prios -> Seq(Tasks)] /\ \A p \in Prios : Len(rq[p]) <= RqCap
  /\ lq \in [Workers -> Seq(Tasks)] /\ \A w \in Workers : Len(lq[w]) <= LqCap
  /\ ovf \in Seq(Tasks) /\ Len(ovf) <= OvfCap
  /\ evq \subseteq Timers /\ due \subseteq Workers
  /\ counter \in [Prios -> Nat] /\ count \in [Workers -> Nat]
  /\ scan \in [Workers -> Nat]
  /\ wpc \in [Workers -> WPCs] /\ hand \in [Workers -> Tasks \cup {None}]
  /\ yielded \in [Workers -> BOOLEAN]
  /\ running \in [Workers -> BOOLEAN] /\ parked \in [Workers -> BOOLEAN]
  /\ spc \in [Submitted -> {"new", "push", "look", "wake", "accepted", "rejected"}]
  /\ probe \in [Submitted -> Nat]
  /\ halt \in {"no", "closed", "wake", "join", "done"}
  /\ yields \in [Tasks -> Nat]
  /\ ran \cup finished \cup dropped \subseteq Tasks

Entered(t) == t \in Timers \/ spc[t] \in {"look", "wake", "accepted"}

\* Where t is: in a queue, or with a worker whose handler has not given it back.
Positions(q, t) == {i \in DOMAIN q : q[i] = t}
Places(t) ==
  LET inRq == UNION {{<<p, i>> : i \in Positions(rq[p], t)} : p \in Prios}
      inLq == UNION {{<<w, i>> : i \in Positions(lq[w], t)} : w \in Workers}
      held == {w \in Workers : hand[w] = t /\ ~yielded[w]}
  IN  Cardinality(inRq) + Cardinality(inLq) + Cardinality(Positions(ovf, t))
      + Cardinality(held) + Cardinality(evq \cap {t})

\* Every task that entered the kernel is in exactly one place until its handler
\* is done with it or an ignored error code loses it, and nowhere afterwards:
\* no path through enqueue, yield, retry, timer and dispatch copies a task.
OnePlace ==
  \A t \in Tasks :
    /\ Places(t) = IF Entered(t) /\ t \notin finished \cup dropped THEN 1 ELSE 0
    /\ ~(t \in finished /\ t \in dropped)

\* The circuit breaker: no handler runs for a task that has used up its yields.
\* (gmk_yield_impl returns nothing: such a task is lost, not rescheduled.)
BreakerHolds == \A w \in Workers : wpc[w] = "run" /\ ~yielded[w]
                                   => yields[hand[w]] <= MaxYields

\* Threads keep running, handlers return, the 1 ms wait of a parked worker ends.
\* Nothing is assumed of gmk_submit's callers, of the clock or of gmk_halt.
Fairness ==
  /\ \A w \in Workers : /\ WF_vars(Gather(w))
                        /\ WF_vars(Handler(w))
                        /\ WF_vars(Timeout(w))
  /\ \A t \in Submitted : WF_vars(SubmitStep(t))
  /\ WF_vars(StopFlags \/ StopWake \/ StopJoin)

FairSpec == Spec /\ Fairness

\* A submitted task is run whatever its priority and however often others retry,
\* and although the wake-up of gmk_submit may miss a worker about to park.
EveryTaskRuns ==
  \A t \in Submitted :
    spc[t] \in {"look", "wake", "accepted"} ~> t \in ran \/ halt # "no"

\* gmk_halt does not wait for ever for a worker to stop.
StopTerminates == halt # "no" ~> halt = "done"
=============================================================================
