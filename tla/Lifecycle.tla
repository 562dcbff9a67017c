------------------------------ MODULE Lifecycle ------------------------------
(***************************************************************************)
(* gmk_boot and gmk_halt (src/boot.c), the inits and destroys they call,   *)
(* the module registry (src/module.c) and the life of the worker threads   *)
(* (src/worker.c) on the Linux HAL.                                        *)
(*                                                                         *)
(* The main thread boots, every allocation may fail, and the goto chain    *)
(* releases what is there; gmk_halt ends with the same releases.  Workers  *)
(* dispatch from the moment their thread exists.  Tasks are reduced to     *)
(* their type: any type may be next.  An application thread resets the     *)
(* poison of a type whenever the kernel runs.                              *)
(***************************************************************************)
EXTENDS Integers, Sequences, FiniteSets, SequencesExt

CONSTANTS NTenants,     \* cfg.n_tenants
          NWorkers,     \* cfg.n_workers
          MaxHandlers,  \* GMK_MAX_HANDLERS
          MaxModules,   \* GMK_MAX_MODULES
          Threshold,    \* GMK_POISON_THRESHOLD
          ModLists,     \* lists of modules to boot with: a module is the
                        \* sequence of its handlers' types
          TaskTypes,    \* types of the tasks submitted
          MaxFails,     \* BOUND: failures counted for a type
          MaxResets     \* BOUND: calls of gmk_module_reset_poison

ASSUME LifecycleAssumption ==
  /\ {NTenants, NWorkers, MaxHandlers, MaxModules, Threshold} \subseteq Nat \ {0}
  /\ MaxFails \in Nat /\ MaxResets \in Nat /\ TaskTypes \subseteq Nat
  /\ ModLists \subseteq Seq(Seq(Nat))

Workers == 1 .. NWorkers
Types == 0 .. MaxHandlers - 1

VARIABLES mods,      \* modules_arr
          pc, at,    \* main thread: the stage it is in and how far it got
          res,       \* res[r]: "none", "live", "freed" or "twice" (freed)
          dispatch,  \* dispatch[type]: the module that handles it, 0 for NULL
          inited,    \* modules whose init answered OK, in order
          finied,    \* modules whose fini was called, in order
          running,   \* running[w]: w->running
          wpc,       \* wpc[w]: where worker w is
          wtype,     \* wtype[w]: type of its task
          fail_counts, poisoned,
          rpc, rtype, resets   \* the resetting thread

registry == <<dispatch, inited, finied>>
poison == <<fail_counts, poisoned, rpc, rtype, resets>>
workers == <<running, wpc, wtype>>
vars == <<mods, pc, at, res, registry, workers, poison>>

-----------------------------------------------------------------------------
(* What the stages allocate, and what a failure inside one gives back *)

Rq == [i \in 1 .. 4 |-> <<"rq", i>>]
Lq == [i \in Workers |-> <<"lq", i>>]
Lqs == <<"lqs", 0>>
Evq == <<"evq", 0>>
Overflow == <<"overflow", 0>>
TraceRing == [i \in 1 .. NTenants |-> <<"trace", i>>]
Arena == <<"arena", 0>>
Dropped == <<"chan", 0>>                  \* the ring of sys.dropped
ChanRing(i) == <<"chan", i>>              \* of a channel that module i opens
Pool == <<"pool", 0>>

\* The allocations of a stage, in order.
Order(stage) == CASE stage = "alloc" -> <<Arena>>
                  [] stage = "trace" -> TraceRing
                  [] stage = "sched" -> Rq \o <<Lqs>> \o Lq \o <<Evq, Overflow>>
                  [] stage = "chan" -> <<Dropped>>
                  [] stage = "pool" -> <<Pool>>
                  [] OTHER -> <<>>

ChanRings == {<<"chan", i>> : i \in 0 .. MaxModules}
Resources == (UNION {ToSet(Order(s)) : s \in {"alloc", "trace", "sched", "pool"}})
               \cup ChanRings

\* MUTANT: a failing local queue forgets the array of the queues.
UndoNoArray(r) ==
  CASE r[1] = "rq" -> {Rq[j] : j \in 1 .. r[2] - 1}
    [] r[1] = "lqs" -> ToSet(Rq)
    [] r[1] = "lq" -> {Lq[j] : j \in 1 .. r[2] - 1} \cup ToSet(Rq)
    [] r[1] = "evq" -> ToSet(Lq) \cup {Lqs} \cup ToSet(Rq)
    [] r[1] = "overflow" -> {Evq} \cup ToSet(Lq) \cup {Lqs} \cup ToSet(Rq)
    [] r[1] = "trace" -> {TraceRing[j] : j \in 1 .. r[2] - 1}
    [] OTHER -> {}

\* What gmk_rq_init, gmk_sched_init and gmk_trace_init release when the
\* allocation of r fails.
Undo(r) ==
  CASE r[1] = "rq" -> {Rq[j] : j \in 1 .. r[2] - 1}
    [] r[1] = "lqs" -> ToSet(Rq)
    [] r[1] = "lq" -> {Lq[j] : j \in 1 .. r[2] - 1} \cup {Lqs} \cup ToSet(Rq)
    [] r[1] = "evq" -> ToSet(Lq) \cup {Lqs} \cup ToSet(Rq)
    [] r[1] = "overflow" -> {Evq} \cup ToSet(Lq) \cup {Lqs} \cup ToSet(Rq)
    [] r[1] = "trace" -> {TraceRing[j] : j \in 1 .. r[2] - 1}
    [] OTHER -> {}

Get(r) == res' = [res EXCEPT ![r] = "live"]

\* Destroying what was never allocated does nothing: gmk_boot clears it all.
Drop(R) == res' = [r \in Resources |->
                    IF r \notin R \/ res[r] = "none" THEN res[r]
                    ELSE IF res[r] = "live" THEN "freed" ELSE "twice"]

Init == /\ mods \in ModLists
        /\ pc = "alloc" /\ at = 1
        /\ res = [r \in Resources |-> "none"]
        /\ dispatch = [ty \in Types |-> 0]
        /\ inited = <<>> /\ finied = <<>>
        /\ running = [w \in Workers |-> FALSE]
        /\ wpc = [w \in Workers |-> "none"]
        /\ wtype = [w \in Workers |-> 0]
        /\ fail_counts = [ty \in Types |-> 0]
        /\ poisoned = [ty \in Types |-> FALSE]
        /\ rpc = 0 /\ rtype = 0 /\ resets = 0

Goto(label) == pc' = label /\ at' = 1
Stay == pc' = pc /\ at' = at + 1

-----------------------------------------------------------------------------
(* gmk_boot *)

\* Without modules the loops over them have nothing to do.
OverModules(label, after) == IF mods = <<>> THEN after ELSE label

\* The stage after this one, and the label its failure jumps to.  (Metrics
\* and the module registry allocate nothing and cannot fail here.)
Following == [alloc |-> "trace", trace |-> "sched", sched |-> "chan",
              chan |-> OverModules("register", "pool"), pool |-> "start"]
OnFailure == [alloc |-> "dead", trace |-> "fail_trace", sched |-> "fail_sched",
              chan |-> "fail_chan", pool |-> OverModules("fail_pool", "fail_mod")]

Allocate == /\ pc \in DOMAIN Following
            /\ Get(Order(pc)[at])
            /\ IF at = Len(Order(pc)) THEN Goto(Following[pc]) ELSE Stay
            /\ UNCHANGED <<mods, registry, workers, poison>>

AllocateFails == /\ pc \in DOMAIN Following
                 /\ Drop(Undo(Order(pc)[at]))
                 /\ Goto(OnFailure[pc])
                 /\ UNCHANGED <<mods, registry, workers, poison>>

\* How many handlers of a module gmk_module_register puts into the table: it
\* stops at the first whose type is out of range or taken.
Accepted(hs) ==
  LET bad == {i \in DOMAIN hs : \/ hs[i] \notin Types
                                \/ dispatch[hs[i]] # 0
                                \/ \E j \in 1 .. i - 1 : hs[j] = hs[i]}
  IN IF bad = {} THEN Len(hs) ELSE Min(bad) - 1

Register == /\ pc = "register"
            /\ LET hs == mods[at]
                   n == IF at > MaxModules THEN 0 ELSE Accepted(hs)
               IN /\ dispatch' = [ty \in Types |->
                       IF ty \in {hs[i] : i \in 1 .. n} THEN at ELSE dispatch[ty]]
                  /\ IF n < Len(hs) \/ at > MaxModules THEN Goto("fail_mod")
                     ELSE IF at = Len(mods) THEN Goto("init") ELSE Stay
            /\ UNCHANGED <<mods, res, inited, finied, workers, poison>>

\* A module's init may open a channel (gmk_chan_open), and may fail.
\* MUTANT: one module too many is initialised.
InitModulePast == /\ pc = "init"
                  /\ inited' = Append(inited, at)
                  /\ IF at > Len(mods) THEN Goto("pool") ELSE Stay
                  /\ UNCHANGED <<mods, res, dispatch, finied, workers, poison>>

InitModule == /\ pc = "init"
              /\ Get(ChanRing(at)) \/ UNCHANGED res
              /\ \/ /\ inited' = Append(inited, at)
                    /\ IF at = Len(mods) THEN Goto("pool") ELSE Stay
                 \/ Goto("fail_mod") /\ UNCHANGED inited
              /\ UNCHANGED <<mods, dispatch, finied, workers, poison>>

\* gmk_worker_pool_start creates the threads one by one.
StartWorker == /\ pc = "start"
               /\ running' = [running EXCEPT ![at] = TRUE]
               /\ wpc' = [wpc EXCEPT ![at] = "top"]
               /\ IF at = NWorkers THEN Goto("up") ELSE Stay
               /\ UNCHANGED <<mods, res, registry, wtype, poison>>

\* A thread that cannot be created: those before it are stopped and joined.
StartFails == /\ pc = "start"
              /\ running' = [running EXCEPT ![at] = TRUE]
              /\ IF at = 1 THEN Goto("fail_start")
                 ELSE pc' = "abort" /\ at' = 1
              /\ UNCHANGED <<mods, res, registry, wpc, wtype, poison>>

\* MUTANT: waits for workers that were not told to stop.
AbortStopForgets == /\ pc = "abort" /\ wpc[at] # "none"
                    /\ pc' = "abort_join"
                    /\ UNCHANGED <<mods, at, res, registry, running, wpc, wtype, poison>>

AbortStop == /\ pc = "abort" /\ wpc[at] # "none"
             /\ running' = [running EXCEPT ![at] = FALSE]
             /\ pc' = "abort_join"
             /\ UNCHANGED <<mods, at, res, registry, wpc, wtype, poison>>

AbortJoin == /\ pc = "abort_join" /\ wpc[at] = "gone"
             /\ IF at < NWorkers /\ wpc[at + 1] # "none"
                THEN pc' = "abort" /\ at' = at + 1
                ELSE Goto("fail_start")
             /\ UNCHANGED <<mods, res, registry, workers, poison>>

-----------------------------------------------------------------------------
(* gmk_halt; it ends like the goto chain of gmk_boot *)

Halt == /\ pc = "up" /\ Goto("stop")
        /\ UNCHANGED <<mods, res, registry, workers, poison>>

HaltStop == /\ pc = "stop"
            /\ running' = [running EXCEPT ![at] = FALSE]
            /\ IF at = NWorkers THEN Goto("join") ELSE Stay
            /\ UNCHANGED <<mods, res, registry, wpc, wtype, poison>>

\* MUTANT: goes on when the first worker has ended.
JoinFirst == /\ pc = "join" /\ wpc[at] = "gone"
             /\ Goto("fail_start")
             /\ UNCHANGED <<mods, res, registry, workers, poison>>

HaltJoin == /\ pc = "join" /\ wpc[at] = "gone"
            /\ IF at = NWorkers THEN Goto("fail_start") ELSE Stay
            /\ UNCHANGED <<mods, res, registry, workers, poison>>

\* gmk_worker_pool_destroy, gmk_chan_reg_destroy, gmk_sched_destroy,
\* gmk_trace_destroy, gmk_alloc_destroy: label, what it releases, next label.
Releases == [fail_start |-> {Pool}, fail_mod |-> ChanRings,
             fail_chan |-> ToSet(Order("sched")), fail_sched |-> {},
             fail_metrics |-> ToSet(TraceRing), fail_trace |-> {Arena}]
FallsTo == [fail_start |-> OverModules("fail_pool", "fail_mod"), fail_mod |-> "fail_chan",
            fail_chan |-> "fail_sched", fail_sched |-> "fail_metrics",
            fail_metrics |-> "fail_trace", fail_trace |-> "dead"]

Release == /\ pc \in DOMAIN Releases
           /\ Drop(Releases[pc]) /\ Goto(FallsTo[pc])
           /\ UNCHANGED <<mods, registry, workers, poison>>

\* gmk_module_fini_all, from the last module to the first.
FiniModule == /\ pc = "fail_pool"
              /\ finied' = Append(finied, Len(mods) - at + 1)
              /\ IF at = Len(mods) THEN Goto("fail_mod") ELSE Stay
              /\ UNCHANGED <<mods, res, dispatch, inited, workers, poison>>

MainStep == \/ Allocate \/ AllocateFails \/ Register \/ InitModule
            \/ StartWorker \/ StartFails \/ AbortStop \/ AbortJoin
            \/ HaltStop \/ HaltJoin \/ Release \/ FiniModule

-----------------------------------------------------------------------------
(* gmk_worker_loop, gmk_module_dispatch and gmk_module_record_fail *)

\* (The type of the task is forgotten with it.)
WGoto(w, l) == /\ wpc' = [wpc EXCEPT ![w] = l]
               /\ wtype' = IF l = "top" THEN [wtype EXCEPT ![w] = 0] ELSE wtype

WorkerExit(w) == /\ wpc[w] = "top" /\ ~running[w]
                 /\ WGoto(w, "gone")
                 /\ UNCHANGED <<mods, pc, at, res, registry, running, poison>>

\* A task of some type is next: without a handler, or with a poisoned one, the
\* dispatch fails, otherwise the handler runs.
WorkerTake(w) ==
  /\ wpc[w] = "top" /\ running[w]
  /\ \E ty \in TaskTypes :
       /\ ty \in Types => fail_counts[ty] < MaxFails
       /\ wtype' = [wtype EXCEPT ![w] = ty]
       /\ wpc' = [wpc EXCEPT ![w] =
                   IF ty \notin Types THEN "failed"
                   ELSE IF dispatch[ty] = 0 \/ poisoned[ty] THEN "failed"
                   ELSE "handler"]
  /\ UNCHANGED <<mods, pc, at, res, registry, running, poison>>

\* The handler answers GMK_OK or GMK_RETRY, or something else.
HandlerReturns(w) == /\ wpc[w] = "handler"
                     /\ WGoto(w, "top") \/ WGoto(w, "failed")
                     /\ UNCHANGED <<mods, pc, at, res, registry, running, poison>>

\* gmk_module_record_fail ignores a type that is out of range, ...
FailUnknown(w) == /\ wpc[w] = "failed" /\ wtype[w] \notin Types
                  /\ WGoto(w, "top")
                  /\ UNCHANGED <<mods, pc, at, res, registry, running, poison>>

\* ... adds one to the count, ...
CountFail(w) ==
  LET ty == wtype[w] IN
  /\ wpc[w] = "failed" /\ ty \in Types
  /\ fail_counts' = [fail_counts EXCEPT ![ty] = @ + 1]
  /\ WGoto(w, IF fail_counts[ty] + 1 >= Threshold THEN "check" ELSE "top")
  /\ UNCHANGED <<mods, pc, at, res, registry, running, poisoned, rpc, rtype, resets>>

\* ... and at the threshold looks at the flag, ...
CheckPoison(w) == /\ wpc[w] = "check"
                  /\ WGoto(w, IF poisoned[wtype[w]] THEN "top" ELSE "poison")
                  /\ UNCHANGED <<mods, pc, at, res, registry, running, poison>>

\* ... and sets it.
SetPoison(w) == /\ wpc[w] = "poison"
                /\ poisoned' = [poisoned EXCEPT ![wtype[w]] = TRUE]
                /\ WGoto(w, "top")
                /\ UNCHANGED <<mods, pc, at, res, registry, running,
                               fail_counts, rpc, rtype, resets>>

WorkerStep(w) == \/ WorkerExit(w) \/ WorkerTake(w) \/ HandlerReturns(w)
                 \/ FailUnknown(w) \/ CountFail(w) \/ CheckPoison(w) \/ SetPoison(w)

-----------------------------------------------------------------------------
(* gmk_module_reset_poison *)

\* MUTANT: clears the count first.
ResetOrderSwapped == <<"count", "flag">>

\* The two stores, in their order.
ResetOrder == <<"flag", "count">>

ResetStep ==
  /\ IF rpc = 0
     THEN /\ pc = "up" /\ resets < MaxResets
          /\ resets' = resets + 1
          /\ rtype' \in Types
     ELSE UNCHANGED <<rtype, resets>>
  /\ rpc' = (rpc + 1) % 2
  /\ IF ResetOrder[rpc + 1] = "flag"
     THEN poisoned' = [poisoned EXCEPT ![rtype'] = FALSE] /\ UNCHANGED fail_counts
     ELSE fail_counts' = [fail_counts EXCEPT ![rtype'] = 0] /\ UNCHANGED poisoned
  /\ UNCHANGED <<mods, pc, at, res, registry, workers>>

Next == \/ MainStep \/ Halt \/ ResetStep
        \/ \E w \in Workers : WorkerStep(w)

\* The threads are scheduled and handlers return.
Fairness == /\ WF_vars(MainStep) /\ WF_vars(ResetStep)
            /\ \A w \in Workers : WF_vars(WorkerStep(w))
Spec == Init /\ [][Next]_vars /\ Fairness

-----------------------------------------------------------------------------
TypeOK == /\ mods \in ModLists /\ at \in Nat \ {0}
          /\ pc \in DOMAIN Following \cup DOMAIN Releases \cup
               {"register", "init", "start", "up", "abort", "abort_join", "stop",
                "join", "fail_pool", "dead"}
          /\ res \in [Resources -> {"none", "live", "freed", "twice"}]
          /\ dispatch \in [Types -> 0 .. Len(mods)]
          /\ ToSet(inited) \cup ToSet(finied) \subseteq DOMAIN mods
          /\ running \in [Workers -> BOOLEAN]
          /\ wpc \in [Workers -> {"none", "top", "handler", "failed", "check", "poison", "gone"}]
          /\ wtype \in [Workers -> TaskTypes \cup {0}]
          /\ fail_counts \in [Types -> 0 .. MaxFails + NWorkers]
          /\ poisoned \in [Types -> BOOLEAN]
          /\ rpc \in 0 .. 1 /\ rtype \in Types /\ resets \in 0 .. MaxResets

\* However far gmk_boot got before it failed, and after gmk_halt: nothing it
\* allocated is left, nothing was released twice, no worker is left, and the
\* modules were finalised once each in reverse order - all of them, or none
\* when one of them refused to start.
CleanExit ==
  /\ \A r \in Resources : res[r] # "twice"
  /\ pc = "dead" => /\ \A r \in Resources : res[r] # "live"
                    /\ \A w \in Workers : wpc[w] \in {"none", "gone"}
                    /\ finied = IF Len(inited) = Len(mods) THEN Reverse(inited) ELSE <<>>

\* As long as a worker's thread exists, everything a handler can reach is
\* there: the queues, the trace, the arena, the worker records and the open
\* channels are allocated, and every module is initialised and not finalised.
WorkersCovered ==
  (\E w \in Workers : wpc[w] \notin {"none", "gone"}) =>
    /\ \A r \in Resources \ ChanRings : res[r] = "live"
    /\ \A r \in ChanRings : res[r] # "freed"
    /\ Len(inited) = Len(mods) /\ finied = <<>>

\* A type that failed often enough is poisoned once the recording is over, in
\* whatever order failures on several workers and resets meet: a reset may
\* keep a type poisoned, but never leaves one with its count at the threshold
\* unflagged.
PoisonNotMissed ==
  (rpc = 0 /\ \A w \in Workers : wpc[w] \notin {"check", "poison"}) =>
    \A ty \in Types : fail_counts[ty] >= Threshold => poisoned[ty]

\* gmk_boot returns, with a running kernel or without, and so does gmk_halt.
CallsReturn == (pc \notin {"up", "dead"}) ~> (pc \in {"up", "dead"})
=============================================================================
