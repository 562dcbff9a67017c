--------------------------- MODULE Scheduler_proofs ---------------------------
(***************************************************************************)
(* Proofs about Scheduler: its types, that a task is never in two places   *)
(* nor lost without a trace, and that the circuit breaker of _gmk_yield    *)
(* holds, for any number of workers, tasks and priorities.                 *)
(*                                                                         *)
(* Whether a task is in one place is a statement about sets: every queue,  *)
(* every worker and the event queue is a place that holds a set of tasks,  *)
(* these sets are disjoint, and together they are the tasks that live.     *)
(* Every action then puts one task somewhere, moves one or takes one away. *)
(***************************************************************************)
EXTENDS Scheduler, SequenceTheorems, FiniteSetTheorems, WellFoundedInduction, TLAPS

-----------------------------------------------------------------------------
(* The smallest of a set: gmk_rq_pop's and gmk_submit's loops *)

LEMMA Least ==
  ASSUME NEW S, S \subseteq Nat, S # {}
  PROVE  \E x \in S : \A y \in S : x <= y
<1>1. PICK x \in S : \A y \in S : <<y, x>> \notin OpToRel(<, Nat)
  <2>1. IsWellFoundedOn(OpToRel(<, Nat), Nat)
    BY NatLessThanWellFounded, Zenon
  <2> QED
    BY <2>1, WFMin, Zenon
<1>2. \A y \in S : ~(y < x)
  BY <1>1 DEF OpToRel
<1> QED
  BY <1>2

LEMMA FirstIn ==
  ASSUME NEW S, S \subseteq Nat, S # {}
  PROVE  First(S) \in S
BY Least DEF First

LEMMA NextIn ==
  ASSUME NEW S, S \subseteq Nat, NEW x, After(S, x) # {}
  PROVE  First(After(S, x)) \in S
<1>1. After(S, x) \subseteq S
  BY DEF After
<1> QED
  BY <1>1, FirstIn

-----------------------------------------------------------------------------
(* What a queue holds *)

Members(q) == {q[i] : i \in DOMAIN q}
NoDup(q) == \A i, j \in DOMAIN q : q[i] = q[j] => i = j

LEMMA EmptyQueue == Members(<<>>) = {} /\ NoDup(<<>>)
<1>1. DOMAIN <<>> = {}
  OBVIOUS
<1> QED
  BY <1>1 DEF Members, NoDup

LEMMA Pushed ==
  ASSUME NEW q \in Seq(Tasks), NEW t \in Tasks, t \notin Members(q), NoDup(q)
  PROVE  /\ Append(q, t) \in Seq(Tasks) /\ Len(Append(q, t)) = Len(q) + 1
         /\ Members(Append(q, t)) = Members(q) \cup {t}
         /\ NoDup(Append(q, t))
<1>1. /\ Append(q, t) \in Seq(Tasks) /\ Len(Append(q, t)) = Len(q) + 1 /\ Len(q) \in Nat
      /\ DOMAIN q = 1 .. Len(q) /\ DOMAIN Append(q, t) = 1 .. Len(q) + 1
      /\ \A i \in 1 .. Len(q) : Append(q, t)[i] = q[i]
      /\ Append(q, t)[Len(q) + 1] = t
  OBVIOUS
<1>2. Members(Append(q, t)) = Members(q) \cup {t}
  BY <1>1 DEF Members
<1>3. NoDup(Append(q, t))
  <2> SUFFICES ASSUME NEW i \in 1 .. Len(q) + 1, NEW j \in 1 .. Len(q) + 1,
                      Append(q, t)[i] = Append(q, t)[j]
               PROVE  i = j
    BY <1>1 DEF NoDup
  <2>1. CASE i \in 1 .. Len(q) /\ j \in 1 .. Len(q)
    BY <2>1, <1>1 DEF NoDup
  <2>2. CASE i = Len(q) + 1 /\ j \in 1 .. Len(q)
    BY <2>2, <1>1 DEF Members
  <2>3. CASE j = Len(q) + 1 /\ i \in 1 .. Len(q)
    BY <2>3, <1>1 DEF Members
  <2>4. CASE i = Len(q) + 1 /\ j = Len(q) + 1
    BY <2>4
  <2> QED
    BY <2>1, <2>2, <2>3, <2>4, <1>1
<1> QED
  BY <1>1, <1>2, <1>3

LEMMA Popped ==
  ASSUME NEW q \in Seq(Tasks), q # <<>>, NoDup(q)
  PROVE  /\ Head(q) \in Members(q) /\ Head(q) \in Tasks
         /\ Tail(q) \in Seq(Tasks) /\ Len(Tail(q)) = Len(q) - 1
         /\ Members(Tail(q)) = Members(q) \ {Head(q)}
         /\ NoDup(Tail(q))
<1>1. /\ Head(q) \in Tasks /\ Tail(q) \in Seq(Tasks) /\ Len(Tail(q)) = Len(q) - 1
      /\ \A i \in 1 .. Len(Tail(q)) : Tail(q)[i] = q[i + 1]
  BY HeadTailProperties
<1>2. /\ Len(q) \in Nat \ {0} /\ DOMAIN q = 1 .. Len(q)
      /\ DOMAIN Tail(q) = 1 .. Len(q) - 1 /\ Head(q) = q[1]
  OBVIOUS
<1>3. Head(q) \in Members(q)
  BY <1>2 DEF Members
<1>4. ASSUME NEW x \in Members(Tail(q))
      PROVE  x \in Members(q) \ {Head(q)}
  <2>1. PICK i \in 1 .. Len(q) - 1 : x = q[i + 1]
    BY <1>4, <1>1, <1>2 DEF Members
  <2>2. i + 1 \in DOMAIN q /\ i + 1 # 1 /\ 1 \in DOMAIN q
    BY <1>2
  <2> QED
    BY <2>1, <2>2, <1>2 DEF Members, NoDup
<1>5. ASSUME NEW x \in Members(q), x # Head(q)
      PROVE  x \in Members(Tail(q))
  <2>1. PICK i \in 1 .. Len(q) : x = q[i]
    BY <1>5, <1>2 DEF Members
  <2>2. i # 1
    BY <2>1, <1>5, <1>2
  <2>3. i - 1 \in 1 .. Len(q) - 1 /\ Tail(q)[i - 1] = q[i]
    BY <2>2, <1>1, <1>2
  <2> QED
    BY <2>1, <2>3, <1>2 DEF Members
<1>6. NoDup(Tail(q))
  <2> SUFFICES ASSUME NEW i \in 1 .. Len(q) - 1, NEW j \in 1 .. Len(q) - 1,
                      Tail(q)[i] = Tail(q)[j]
               PROVE  i = j
    BY <1>2 DEF NoDup
  <2>1. i + 1 \in DOMAIN q /\ j + 1 \in DOMAIN q /\ q[i + 1] = q[j + 1]
    BY <1>1, <1>2
  <2>2. i + 1 = j + 1
    BY <2>1 DEF NoDup
  <2> QED
    BY <2>2
<1> QED
  BY <1>1, <1>3, <1>4, <1>5, <1>6

-----------------------------------------------------------------------------
(* Places and the tasks they hold *)

Locs == ({"rq"} \X Prios) \cup ({"lq"} \X Workers) \cup ({"hand"} \X Workers)
        \cup {<<"ovf", 0>>, <<"evq", 0>>}

\* The task a worker answers for.
Held(w) == IF yielded[w] \/ hand[w] = None THEN {} ELSE {hand[w]}

Bag == [l \in Locs |-> IF l[1] = "rq" THEN Members(rq[l[2]])
                       ELSE IF l[1] = "lq" THEN Members(lq[l[2]])
                       ELSE IF l[1] = "hand" THEN Held(l[2])
                       ELSE IF l[1] = "ovf" THEN Members(ovf) ELSE evq]

Alive == {t \in Tasks : Entered(t) /\ t \notin finished \cup dropped}

\* b spreads the tasks A over the places, each to one of them.
Spread(b, A) ==
  /\ \A l \in Locs : b[l] \subseteq Tasks
  /\ \A l, m \in Locs : l # m => b[l] \cap b[m] = {}
  /\ \A t \in Tasks : t \in A <=> \E l \in Locs : t \in b[l]

Moved(b, c, t, l, m) ==
  /\ l # m /\ t \in b[l]
  /\ c[l] = b[l] \ {t} /\ c[m] = b[m] \cup {t}
  /\ \A k \in Locs \ {l, m} : c[k] = b[k]

Removed(b, c, t, l) == /\ t \in b[l] /\ c[l] = b[l] \ {t}
                       /\ \A k \in Locs \ {l} : c[k] = b[k]

Added(b, c, t, l) == /\ c[l] = b[l] \cup {t}
                     /\ \A k \in Locs \ {l} : c[k] = b[k]

LEMMA MoveOne ==
  ASSUME NEW b, NEW c, NEW A, NEW l \in Locs, NEW m \in Locs, NEW t,
         Spread(b, A), Moved(b, c, t, l, m)
  PROVE  Spread(c, A)
<1>1. t \in Tasks /\ t \in A
  BY DEF Spread, Moved
<1>2. \A k \in Locs : c[k] = (b[k] \ {t}) \cup (IF k = m THEN {t} ELSE {})
  BY DEF Spread, Moved
<1>3. \A k \in Locs : c[k] \subseteq Tasks
  BY <1>1, <1>2 DEF Spread
<1>4. \A k, n \in Locs : k # n => c[k] \cap c[n] = {}
  BY <1>1, <1>2 DEF Spread
<1>5. \A u \in Tasks : u \in A <=> \E k \in Locs : u \in c[k]
  BY <1>1, <1>2 DEF Spread
<1> QED
  BY <1>3, <1>4, <1>5 DEF Spread

LEMMA LoseOne ==
  ASSUME NEW b, NEW c, NEW A, NEW l \in Locs, NEW t,
         Spread(b, A), Removed(b, c, t, l)
  PROVE  Spread(c, A \ {t})
<1>1. \A k \in Locs : c[k] = b[k] \ {t}
  BY DEF Spread, Removed
<1> QED
  BY <1>1 DEF Spread

LEMMA GainOne ==
  ASSUME NEW b, NEW c, NEW A, NEW l \in Locs, NEW t \in Tasks,
         Spread(b, A), t \notin A, Added(b, c, t, l)
  PROVE  Spread(c, A \cup {t})
<1>1. \A k \in Locs : t \notin b[k]
  BY DEF Spread
<1> QED
  BY <1>1 DEF Spread, Added

LEMMA KeepAll ==
  ASSUME NEW b, NEW c, NEW A, NEW B,
         Spread(b, A), \A u \in Tasks : u \in B <=> u \in A,
         \A k \in Locs : c[k] = b[k]
  PROVE  Spread(c, B)
BY DEF Spread

LEMMA Located ==
  /\ \A p \in Prios : <<"rq", p>> \in Locs /\ Bag[<<"rq", p>>] = Members(rq[p])
  /\ \A w \in Workers : <<"lq", w>> \in Locs /\ Bag[<<"lq", w>>] = Members(lq[w])
  /\ \A w \in Workers : <<"hand", w>> \in Locs /\ Bag[<<"hand", w>>] = Held(w)
  /\ <<"ovf", 0>> \in Locs /\ Bag[<<"ovf", 0>>] = Members(ovf)
  /\ <<"evq", 0>> \in Locs /\ Bag[<<"evq", 0>>] = evq
BY DEF Locs, Bag

LEMMA LocatedNext ==
  /\ \A p \in Prios : <<"rq", p>> \in Locs /\ Bag'[<<"rq", p>>] = Members(rq[p])'
  /\ \A w \in Workers : <<"lq", w>> \in Locs /\ Bag'[<<"lq", w>>] = Members(lq[w])'
  /\ \A w \in Workers : <<"hand", w>> \in Locs /\ Bag'[<<"hand", w>>] = Held(w)'
  /\ <<"ovf", 0>> \in Locs /\ Bag'[<<"ovf", 0>>] = Members(ovf)'
  /\ <<"evq", 0>> \in Locs /\ Bag'[<<"evq", 0>>] = evq'
BY DEF Locs, Bag

LEMMA LocCases ==
  ASSUME NEW k \in Locs
  PROVE  \/ \E p \in Prios : k = <<"rq", p>>
         \/ \E w \in Workers : k = <<"lq", w>>
         \/ \E w \in Workers : k = <<"hand", w>>
         \/ k = <<"ovf", 0>> \/ k = <<"evq", 0>>
BY DEF Locs

\* A place that an action does not name keeps what it holds.
LEMMA Elsewhere ==
  ASSUME NEW L,
         \A p \in Prios : <<"rq", p>> \notin L => rq'[p] = rq[p],
         \A w \in Workers : <<"lq", w>> \notin L => lq'[w] = lq[w],
         \A w \in Workers : <<"hand", w>> \notin L => Held(w)' = Held(w),
         <<"ovf", 0>> \notin L => ovf' = ovf,
         <<"evq", 0>> \notin L => evq' = evq
  PROVE  \A k \in Locs \ L : Bag'[k] = Bag[k]
<1> SUFFICES ASSUME NEW k \in Locs, k \notin L PROVE Bag'[k] = Bag[k]
  OBVIOUS
<1>1. ASSUME NEW p \in Prios, k = <<"rq", p>> PROVE Bag'[k] = Bag[k]
  <2>1. Members(rq[p])' = Members(rq[p])
    BY <1>1
  <2> QED
    BY <1>1, <2>1, Located, LocatedNext
<1>2. ASSUME NEW w \in Workers, k = <<"lq", w>> PROVE Bag'[k] = Bag[k]
  <2>1. Members(lq[w])' = Members(lq[w])
    BY <1>2
  <2> QED
    BY <1>2, <2>1, Located, LocatedNext
<1>3. CASE \E w \in Workers : k = <<"hand", w>>
  BY <1>3, Located, LocatedNext
<1>4. CASE k = <<"ovf", 0>>
  BY <1>4, Located, LocatedNext DEF Members
<1>5. CASE k = <<"evq", 0>>
  BY <1>5, Located, LocatedNext
<1> QED
  BY <1>1, <1>2, <1>3, <1>4, <1>5, LocCases

-----------------------------------------------------------------------------
(* The inductive invariant *)

\* A worker has a task in hand exactly between a pop and the end of its
\* handling; the indices it uses are those of queues and workers.
CtlInv ==
  /\ \A w \in Workers : /\ hand[w] # None <=> wpc[w] \in {"rqcount", "drain", "run"}
                        /\ yielded[w] => wpc[w] = "run"
                        /\ wpc[w] \in {"rq1", "rq2", "rqcount"} => scan[w] \in Prios
  /\ \A t \in Submitted : spc[t] \in {"look", "wake"} => probe[t] \in Workers

NoDups == /\ \A p \in Prios : NoDup(rq[p])
          /\ \A w \in Workers : NoDup(lq[w])
          /\ NoDup(ovf)

\* The places share the living tasks among them; a dead task has lived.
OneInv ==
  /\ NoDups
  /\ Spread(Bag, Alive)
  /\ finished \cap dropped = {}
  /\ \A t \in finished \cup dropped : Entered(t)

\* Only a task that the breaker has dropped has used up its yields.
BreakInv == \A t \in Tasks : t \notin finished \cup dropped => yields[t] <= MaxYields

IndInv == TypeOK /\ CtlInv /\ OneInv /\ BreakInv

\* The types in two halves: what the moves of tasks change, and the rest.
TaskType ==
  /\ rq \in [Prios -> Seq(Tasks)] /\ \A p \in Prios : Len(rq[p]) <= RqCap
  /\ lq \in [Workers -> Seq(Tasks)] /\ \A w \in Workers : Len(lq[w]) <= LqCap
  /\ ovf \in Seq(Tasks) /\ Len(ovf) <= OvfCap
  /\ evq \subseteq Timers
  /\ yields \in [Tasks -> Nat]
  /\ finished \cup dropped \subseteq Tasks

CtlType ==
  /\ due \subseteq Workers
  /\ counter \in [Prios -> Nat] /\ count \in [Workers -> Nat]
  /\ scan \in [Workers -> Nat]
  /\ wpc \in [Workers -> WPCs] /\ hand \in [Workers -> Tasks \cup {None}]
  /\ yielded \in [Workers -> BOOLEAN]
  /\ running \in [Workers -> BOOLEAN] /\ parked \in [Workers -> BOOLEAN]
  /\ spc \in [Submitted -> {"new", "push", "look", "wake", "accepted", "rejected"}]
  /\ probe \in [Submitted -> Nat]
  /\ halt \in {"no", "closed", "wake", "join", "done"}
  /\ ran \subseteq Tasks

LEMMA TypeHalves == /\ TypeOK <=> TaskType /\ CtlType
                    /\ TypeOK' <=> TaskType' /\ CtlType'
<1>1. TypeOK <=> TaskType /\ CtlType
  BY DEF TypeOK, TaskType, CtlType
<1>2. TypeOK' <=> TaskType' /\ CtlType'
  BY DEF TypeOK, TaskType, CtlType
<1> QED
  BY <1>1, <1>2

LEMMA InitInv == Init => IndInv
<1> SUFFICES ASSUME Init PROVE IndInv
  OBVIOUS
<1> USE SchedAssumption
<1>1. TypeOK
  BY DEF Init, TypeOK, WPCs, Tasks
<1>2. CtlInv
  BY DEF Init, CtlInv
<1>3. NoDups
  BY EmptyQueue DEF Init, NoDups
<1>4. Alive = Timers
  BY DEF Init, Alive, Entered, Tasks
<1>5. /\ \A p \in Prios : Bag[<<"rq", p>>] = {}
      /\ \A w \in Workers : Bag[<<"lq", w>>] = {}
      /\ \A w \in Workers : Bag[<<"hand", w>>] = {}
      /\ Bag[<<"ovf", 0>>] = {} /\ Bag[<<"evq", 0>>] = Timers
  BY Located, EmptyQueue DEF Init, Held
<1>6. \A k \in Locs : Bag[k] = IF k = <<"evq", 0>> THEN Timers ELSE {}
  <2>1. ASSUME NEW k \in Locs, k # <<"evq", 0>> PROVE Bag[k] = {}
    BY <1>5, <2>1, LocCases, Zenon
  <2> QED
    BY <1>5, <2>1
<1>7. Spread(Bag, Alive)
  <2>1. <<"evq", 0>> \in Locs
    BY DEF Locs
  <2> QED
    BY <1>4, <1>6, <2>1 DEF Spread, Tasks
<1>8. BreakInv
  BY DEF Init, BreakInv
<1> QED
  BY <1>1, <1>2, <1>3, <1>7, <1>8 DEF Init, IndInv, OneInv

-----------------------------------------------------------------------------
(* Steps that move no task *)

LEMMA Quiet ==
  ASSUME TaskType, OneInv, BreakInv,
         UNCHANGED <<rq, lq, ovf, evq, hand, yielded, yields, finished, dropped>>,
         \A t \in Tasks : Entered(t)' <=> Entered(t)
  PROVE  TaskType' /\ OneInv' /\ BreakInv'
<1>1. TaskType'
  BY DEF TaskType
<1>2. NoDups'
  BY DEF OneInv, NoDups, NoDup
<1>3. \A k \in Locs : Bag'[k] = Bag[k]
  BY Elsewhere DEF Held
<1>4. \A u \in Tasks : u \in Alive' <=> u \in Alive
  BY DEF Alive
<1>5. Spread(Bag', Alive')
  BY <1>3, <1>4, KeepAll DEF OneInv
<1>6. BreakInv'
  BY DEF BreakInv
<1>7. \A t \in (finished \cup dropped)' : Entered(t)'
  BY DEF OneInv, TaskType
<1> QED
  BY <1>1, <1>2, <1>5, <1>6, <1>7 DEF OneInv

LEMMA QuietStep ==
  ASSUME IndInv, CtlType', CtlInv',
         UNCHANGED <<rq, lq, ovf, evq, hand, yielded, yields, finished, dropped>>,
         UNCHANGED spc \/ \A t \in Tasks : Entered(t)' <=> Entered(t)
  PROVE  IndInv'
<1>1. \A t \in Tasks : Entered(t)' <=> Entered(t)
  BY DEF Entered
<1> QED
  BY <1>1, Quiet, TypeHalves DEF IndInv

\* gmk_submit but for the push.
LEMMA SubmitQuiet ==
  ASSUME IndInv, NEW t \in Submitted,
         SubmitCheck(t) \/ SubmitFull(t) \/ SubmitLook(t) \/ SubmitWake(t)
  PROVE  IndInv'
<1> USE SchedAssumption
<1>0. CtlType /\ CtlInv
  BY TypeHalves DEF IndInv
<1>1. CASE SubmitCheck(t)
  <2>1. CtlType' /\ CtlInv'
    BY <1>0, <1>1 DEF SubmitCheck, CtlType, CtlInv, local, flags, fates
  <2>2. \A u \in Tasks : Entered(u)' <=> Entered(u)
    BY <1>0, <1>1 DEF SubmitCheck, Entered, CtlType, Tasks
  <2> QED
    BY <2>1, <2>2, <1>1, QuietStep DEF SubmitCheck, queues, local, fates
<1>2. CASE SubmitFull(t)
  <2>1. CtlType' /\ CtlInv'
    BY <1>0, <1>2 DEF SubmitFull, CtlType, CtlInv, local, flags, fates
  <2>2. \A u \in Tasks : Entered(u)' <=> Entered(u)
    BY <1>0, <1>2 DEF SubmitFull, Entered, CtlType, Tasks
  <2> QED
    BY <2>1, <2>2, <1>2, QuietStep DEF SubmitFull, queues, local, fates
<1>3. CASE SubmitLook(t)
  <2>0. /\ UNCHANGED <<queues, counter, due, wpc, local, flags, fates>>
        /\ probe[t] \in Workers
        /\ \/ spc' = [spc EXCEPT ![t] = "wake"] /\ UNCHANGED probe
           \/ /\ After(Workers, probe[t]) # {}
              /\ probe' = [probe EXCEPT ![t] = First(After(Workers, probe[t]))]
              /\ UNCHANGED spc
           \/ /\ spc' = [spc EXCEPT ![t] = "accepted"]
              /\ probe' = [probe EXCEPT ![t] = 0]
    BY <1>0, <1>3 DEF SubmitLook, CtlType, CtlInv
  <2>a. PICK v \in Workers : After(Workers, probe[t]) # {} => v = First(After(Workers, probe[t]))
    <3>1. After(Workers, probe[t]) # {} => First(After(Workers, probe[t])) \in Workers
      BY NextIn
    <3> QED
      BY <2>0, <3>1
  <2>b. \/ spc' = [spc EXCEPT ![t] = "wake"] /\ UNCHANGED probe
        \/ probe' = [probe EXCEPT ![t] = v] /\ UNCHANGED spc
        \/ /\ spc' = [spc EXCEPT ![t] = "accepted"]
           /\ probe' = [probe EXCEPT ![t] = 0]
    BY <2>0, <2>a
  <2>1. CtlType' /\ CtlInv'
    BY <1>0, <2>0, <2>b DEF CtlType, CtlInv, local, flags, fates
  <2>2. \A u \in Tasks : Entered(u)' <=> Entered(u)
    BY <1>0, <1>3 DEF SubmitLook, Entered, CtlType, Tasks
  <2> QED
    BY <2>1, <2>2, <1>3, QuietStep DEF SubmitLook, queues, local, fates
<1>4. CASE SubmitWake(t)
  <2>a. probe[t] \in Workers
    BY <1>0, <1>4 DEF SubmitWake, CtlInv
  <2>0. PICK w \in Workers :
          wpc' = wpc \/ (wpc[w] = "waiting" /\ wpc' = [wpc EXCEPT ![w] = "unpark"])
    BY <2>a, <1>4, Zenon DEF SubmitWake, Signal, Goto
  <2>1. CtlType' /\ CtlInv'
    <3>1. CtlType'
      BY <1>0, <1>4, <2>0 DEF SubmitWake, CtlType, WPCs, local, flags, fates
    <3>2. CtlInv'
      BY <1>0, <1>4, <2>0 DEF SubmitWake, CtlType, CtlInv, local
    <3> QED
      BY <3>1, <3>2
  <2>2. \A u \in Tasks : Entered(u)' <=> Entered(u)
    BY <1>0, <1>4 DEF SubmitWake, Entered, CtlType, Tasks
  <2> QED
    BY <2>1, <2>2, <1>4, QuietStep DEF SubmitWake, queues, local, fates
<1> QED
  BY <1>1, <1>2, <1>3, <1>4

\* The loop where it finds nothing, parks and wakes.
LEMMA LoopQuiet ==
  ASSUME IndInv, NEW w \in Workers,
         \/ Stop(w) \/ RqSkip(w) \/ RqReset(w) \/ RqEmpty(w) \/ RqCount(w)
         \/ DrainEnd(w) \/ Park(w) \/ Recheck(w) \/ Wait(w) \/ Timeout(w) \/ Unpark(w)
  PROVE  IndInv'
<1> USE SchedAssumption
<1>0. CtlType /\ CtlInv
  BY TypeHalves DEF IndInv
<1>f. First(Prios) \in Prios
  BY FirstIn
<1>1. CASE Stop(w)
  <2>1. CtlType' /\ CtlInv'
    BY <1>0, <1>1 DEF Stop, Goto, CtlType, CtlInv, WPCs, local, flags, submits, fates
  <2> QED
    BY <2>1, <1>1, QuietStep DEF Stop, queues, local, fates, submits
<1>2. CASE RqSkip(w)
  <2>0. First(After(Prios, scan[w])) \in Prios
    BY <1>2, NextIn DEF RqSkip
  <2>1. CtlType' /\ CtlInv'
    BY <1>0, <1>2, <2>0 DEF RqSkip, CtlType, CtlInv, flags, submits, fates
  <2> QED
    BY <2>1, <1>2, QuietStep DEF RqSkip, queues, fates, submits
<1>3. CASE RqReset(w)
  <2>1. CtlType' /\ CtlInv'
    BY <1>0, <1>3, <1>f DEF RqReset, Goto, CtlType, CtlInv, WPCs, flags, submits, fates
  <2> QED
    BY <2>1, <1>3, QuietStep DEF RqReset, queues, fates, submits
<1>4. CASE RqEmpty(w)
  <2>1. CtlType' /\ CtlInv'
    BY <1>0, <1>4 DEF RqEmpty, Goto, CtlType, CtlInv, WPCs, flags, submits, fates
  <2> QED
    BY <2>1, <1>4, QuietStep DEF RqEmpty, queues, fates, submits
<1>5. CASE RqCount(w)
  <2>0. hand' = hand /\ ran' \subseteq Tasks
    BY <1>0, <1>5 DEF RqCount, Dispatch, CtlType, Tasks
  <2>1. counter' \in [Prios -> Nat]
    BY <1>0, <1>5 DEF RqCount, Incremented, CtlType, CtlInv
  <2>2. CtlType' /\ CtlInv'
    BY <1>0, <1>5, <2>0, <2>1
    DEF RqCount, Goto, CtlType, CtlInv, WPCs, flags, submits
  <2> QED
    BY <2>0, <2>2, <1>5, QuietStep DEF RqCount, queues, submits
<1>6. CASE DrainEnd(w)
  <2>1. CtlType' /\ CtlInv'
    BY <1>0, <1>6 DEF DrainEnd, Goto, CtlType, CtlInv, WPCs, flags, submits, fates
  <2> QED
    BY <2>1, <1>6, QuietStep DEF DrainEnd, queues, fates, submits
<1>7. CASE Park(w)
  <2>1. CtlType' /\ CtlInv'
    BY <1>0, <1>7 DEF Park, Goto, CtlType, CtlInv, WPCs, local, submits, fates
  <2> QED
    BY <2>1, <1>7, QuietStep DEF Park, queues, local, fates, submits
<1>8. CASE Recheck(w)
  <2>1. CtlType' /\ CtlInv'
    BY <1>0, <1>8 DEF Recheck, Goto, CtlType, CtlInv, WPCs, local, flags, submits, fates
  <2> QED
    BY <2>1, <1>8, QuietStep DEF Recheck, queues, local, fates, submits
<1>9. CASE Wait(w)
  <2>1. CtlType' /\ CtlInv'
    BY <1>0, <1>9 DEF Wait, Goto, CtlType, CtlInv, WPCs, local, flags, submits, fates
  <2> QED
    BY <2>1, <1>9, QuietStep DEF Wait, queues, local, fates, submits
<1>10. CASE Timeout(w)
  <2>1. CtlType' /\ CtlInv'
    BY <1>0, <1>10 DEF Timeout, Goto, CtlType, CtlInv, WPCs, local, flags, submits, fates
  <2> QED
    BY <2>1, <1>10, QuietStep DEF Timeout, queues, local, fates, submits
<1>11. CASE Unpark(w)
  <2>1. CtlType' /\ CtlInv'
    BY <1>0, <1>11 DEF Unpark, Goto, CtlType, CtlInv, WPCs, local, submits, fates
  <2> QED
    BY <2>1, <1>11, QuietStep DEF Unpark, queues, local, fates, submits
<1> QED
  BY <1>1, <1>2, <1>3, <1>4, <1>5, <1>6, <1>7, <1>8, <1>9, <1>10, <1>11

\* The clock, gmk_halt and stuttering.
LEMMA HaltQuiet ==
  ASSUME IndInv,
         \/ \E w \in Workers : Tick(w)
         \/ Close \/ StopFlags \/ StopWake \/ StopJoin \/ UNCHANGED vars
  PROVE  IndInv'
<1>0. CtlType /\ CtlInv
  BY TypeHalves DEF IndInv
<1>1. ASSUME NEW w \in Workers, Tick(w) PROVE IndInv'
  <2>1. CtlType' /\ CtlInv'
    BY <1>0, <1>1 DEF Tick, CtlType, CtlInv, local, flags, submits, fates
  <2> QED
    BY <2>1, <1>1, QuietStep DEF Tick, queues, local, fates, submits
<1>2. CASE Close
  <2>1. CtlType' /\ CtlInv'
    BY <1>0, <1>2 DEF Close, CtlType, CtlInv, local, submits, fates
  <2> QED
    BY <2>1, <1>2, QuietStep DEF Close, queues, local, fates, submits
<1>3. CASE StopFlags
  <2>1. CtlType' /\ CtlInv'
    BY <1>0, <1>3 DEF StopFlags, CtlType, CtlInv, local, submits, fates
  <2> QED
    BY <2>1, <1>3, QuietStep DEF StopFlags, queues, local, fates, submits
<1>4. CASE StopWake
  <2>1. CtlType' /\ CtlInv'
    BY <1>0, <1>4 DEF StopWake, CtlType, CtlInv, WPCs, local, submits, fates
  <2> QED
    BY <2>1, <1>4, QuietStep DEF StopWake, queues, local, fates, submits
<1>5. CASE StopJoin
  <2>1. CtlType' /\ CtlInv'
    BY <1>0, <1>5 DEF StopJoin, CtlType, CtlInv, local, submits, fates
  <2> QED
    BY <2>1, <1>5, QuietStep DEF StopJoin, queues, local, fates, submits
<1>6. CASE UNCHANGED vars
  <2>1. CtlType' /\ CtlInv'
    BY <1>0, <1>6 DEF vars, CtlType, CtlInv
  <2> QED
    BY <2>1, <1>6, QuietStep DEF vars
<1> QED
  BY <1>1, <1>2, <1>3, <1>4, <1>5, <1>6

-----------------------------------------------------------------------------
(* Steps that move one task *)

\* A worker takes t from the place l into its hand.
LEMMA Grab ==
  ASSUME IndInv, NEW w \in Workers, NEW l \in Locs, NEW t, t \in Bag[l],
         l # <<"hand", w>>, hand[w] = None, ~yielded[w],
         hand' = [hand EXCEPT ![w] = t],
         UNCHANGED <<yielded, yields, finished, dropped, spc>>,
         NoDups', Bag'[l] = Bag[l] \ {t},
         \A k \in Locs \ {l, <<"hand", w>>} : Bag'[k] = Bag[k]
  PROVE  OneInv' /\ BreakInv' /\ t \in Tasks
<1>1. t \in Tasks /\ t # None
  BY SchedAssumption DEF IndInv, OneInv, Spread
<1>2. hand \in [Workers -> Tasks \cup {None}]
  BY DEF IndInv, TypeOK
<1>3. Held(w) = {} /\ Held(w)' = {t}
  BY <1>1, <1>2 DEF Held
<1>4. <<"hand", w>> \in Locs /\ Bag'[<<"hand", w>>] = Bag[<<"hand", w>>] \cup {t}
  BY <1>3, Located, LocatedNext
<1>5. \A u \in Tasks : Entered(u)' <=> Entered(u)
  BY DEF Entered
<1>6. Alive' = Alive
  BY <1>5 DEF Alive
<1>7. Spread(Bag', Alive')
  <2>1. Spread(Bag, Alive)
    BY DEF IndInv, OneInv
  <2>2. Moved(Bag, Bag', t, l, <<"hand", w>>)
    BY <1>4 DEF Moved
  <2> QED
    BY <1>4, <1>6, <2>1, <2>2, MoveOne, Zenon
<1>8. \A u \in (finished \cup dropped)' : Entered(u)'
  BY <1>5 DEF IndInv, OneInv, TypeOK
<1>9. BreakInv'
  BY DEF IndInv, BreakInv
<1> QED
  BY <1>1, <1>7, <1>8, <1>9 DEF IndInv, OneInv

\* A worker puts the task in its hand into the place m.
LEMMA Put ==
  ASSUME IndInv, NEW w \in Workers, NEW m \in Locs, m # <<"hand", w>>,
         hand[w] # None, ~yielded[w], Held(w)' = {},
         UNCHANGED <<finished, dropped, spc>>,
         NoDups', Bag'[m] = Bag[m] \cup {hand[w]},
         \A k \in Locs \ {m, <<"hand", w>>} : Bag'[k] = Bag[k]
  PROVE  OneInv'
<1>1. Held(w) = {hand[w]}
  BY DEF Held
<1>2. /\ <<"hand", w>> \in Locs /\ hand[w] \in Bag[<<"hand", w>>]
      /\ Bag'[<<"hand", w>>] = Bag[<<"hand", w>>] \ {hand[w]}
  BY <1>1, Located, LocatedNext
<1>3. \A u \in Tasks : Entered(u)' <=> Entered(u)
  BY DEF Entered
<1>4. Alive' = Alive
  BY <1>3 DEF Alive
<1>5. Spread(Bag', Alive')
  <2>1. Spread(Bag, Alive)
    BY DEF IndInv, OneInv
  <2>2. Moved(Bag, Bag', hand[w], <<"hand", w>>, m)
    BY <1>2 DEF Moved
  <2> QED
    BY <1>2, <1>4, <2>1, <2>2, MoveOne, Zenon
<1>6. \A u \in (finished \cup dropped)' : Entered(u)'
  BY <1>3 DEF IndInv, OneInv, TypeOK
<1> QED
  BY <1>5, <1>6 DEF IndInv, OneInv

\* The task in a worker's hand comes to its end.
LEMMA Lose ==
  ASSUME IndInv, NEW w \in Workers,
         hand[w] # None, ~yielded[w], Held(w)' = {}, UNCHANGED spc,
         \/ finished' = finished \cup {hand[w]} /\ UNCHANGED dropped
         \/ dropped' = dropped \cup {hand[w]} /\ UNCHANGED finished,
         NoDups', \A k \in Locs \ {<<"hand", w>>} : Bag'[k] = Bag[k]
  PROVE  OneInv'
<1>1. Held(w) = {hand[w]} /\ hand[w] \in Tasks
  BY DEF Held, IndInv, TypeOK
<1>2. /\ <<"hand", w>> \in Locs /\ hand[w] \in Bag[<<"hand", w>>]
      /\ Bag'[<<"hand", w>>] = Bag[<<"hand", w>>] \ {hand[w]}
  BY <1>1, Located, LocatedNext
<1>3. \A u \in Tasks : Entered(u)' <=> Entered(u)
  BY DEF Entered
<1>4. hand[w] \in Alive
  BY <1>1, <1>2 DEF IndInv, OneInv, Spread
<1>5. Alive' = Alive \ {hand[w]}
  BY <1>3 DEF Alive
<1>6. Spread(Bag', Alive')
  <2>1. Spread(Bag, Alive)
    BY DEF IndInv, OneInv
  <2>2. Removed(Bag, Bag', hand[w], <<"hand", w>>)
    BY <1>2 DEF Removed
  <2>3. Spread(Bag', Alive \ {hand[w]})
    BY <1>2, <2>1, <2>2, LoseOne, Zenon
  <2> QED
    BY <1>5, <2>3
<1>7. \A u \in (finished \cup dropped)' : Entered(u)'
  BY <1>1, <1>3, <1>4, ZenonT(60) DEF IndInv, OneInv, TypeOK, Alive
<1>8. (finished \cap dropped)' = {}
  BY <1>4 DEF IndInv, OneInv, Alive
<1> QED
  BY <1>6, <1>7, <1>8 DEF IndInv, OneInv

\* gmk_submit's push.
LEMMA SubmitPushInv ==
  ASSUME IndInv, NEW t \in Submitted, SubmitPush(t)
  PROVE  IndInv'
<1> USE SchedAssumption
<1>0. CtlType /\ CtlInv /\ TaskType /\ OneInv
  BY TypeHalves DEF IndInv
<1>1. PICK p \in Prios : p = Prio[t]
  BY DEF Tasks
<1>2. /\ Len(rq[p]) < RqCap /\ rq' = [rq EXCEPT ![p] = Append(rq[p], t)]
      /\ spc[t] = "push" /\ spc' = [spc EXCEPT ![t] = "look"]
      /\ UNCHANGED <<counter, lq, ovf, evq, due, wpc, hand, yielded, scan, count,
                     running, parked, halt, yields, ran, finished, dropped>>
  <2>1. Len(rq[p]) \in Nat
    BY <1>0 DEF TaskType
  <2> QED
    BY <1>1, <2>1 DEF SubmitPush, RqFull, RqPush, local, flags, fates
<1>3. t \in Tasks /\ ~Entered(t) /\ t \notin Alive /\ t \notin finished \cup dropped
  BY <1>0, <1>2 DEF Entered, Alive, Tasks, OneInv
<1>4. t \notin Bag[<<"rq", p>>]
  BY <1>0, <1>3, Located DEF OneInv, Spread
<1>5. /\ rq[p] \in Seq(Tasks) /\ t \notin Members(rq[p]) /\ NoDup(rq[p])
  BY <1>0, <1>4, Located DEF TaskType, OneInv, NoDups
<1>6. /\ rq'[p] \in Seq(Tasks) /\ Len(rq'[p]) <= RqCap
      /\ Members(rq'[p]) = Members(rq[p]) \cup {t} /\ NoDup(rq'[p])
      /\ \A q \in Prios \ {p} : rq'[q] = rq[q]
      /\ rq' \in [Prios -> Seq(Tasks)]
  <2>1. /\ Append(rq[p], t) \in Seq(Tasks) /\ Len(Append(rq[p], t)) = Len(rq[p]) + 1
        /\ Members(Append(rq[p], t)) = Members(rq[p]) \cup {t} /\ NoDup(Append(rq[p], t))
    BY <1>3, <1>5, Pushed
  <2>2. /\ rq'[p] = Append(rq[p], t) /\ \A q \in Prios \ {p} : rq'[q] = rq[q]
    BY <1>0, <1>2 DEF TaskType
  <2>3. rq' \in [Prios -> Seq(Tasks)]
    BY <1>0, <1>2, <2>1 DEF TaskType
  <2>4. Len(rq[p]) + 1 <= RqCap
    BY <1>2, <1>5
  <2> QED
    BY <2>1, <2>2, <2>3, <2>4
<1>7. TaskType'
  BY <1>0, <1>2, <1>6 DEF TaskType
<1>8. First(Workers) \in Workers
  BY FirstIn
<1>9. CtlType' /\ CtlInv'
  BY <1>0, <1>2, <1>8 DEF SubmitPush, CtlType, CtlInv
<1>10. NoDups'
  BY <1>0, <1>2, <1>6 DEF OneInv, NoDups
<1>11. \A u \in Tasks : Entered(u)' <=> Entered(u) \/ u = t
  BY <1>0, <1>2, <1>3 DEF Entered, CtlType, Tasks
<1>12. Alive' = Alive \cup {t}
  BY <1>2, <1>3, <1>11 DEF Alive
<1>13. /\ <<"rq", p>> \in Locs /\ Bag'[<<"rq", p>>] = Bag[<<"rq", p>>] \cup {t}
       /\ \A k \in Locs \ {<<"rq", p>>} : Bag'[k] = Bag[k]
  <2>1. \A q \in Prios : <<"rq", q>> \notin {<<"rq", p>>} => rq'[q] = rq[q]
    BY <1>6
  <2>2. \A k \in Locs \ {<<"rq", p>>} : Bag'[k] = Bag[k]
    BY <1>2, <2>1, Elsewhere DEF Held
  <2> QED
    BY <1>6, <2>2, Located, LocatedNext
<1>14. Spread(Bag', Alive')
  <2>1. Spread(Bag, Alive)
    BY <1>0 DEF OneInv
  <2>2. Added(Bag, Bag', t, <<"rq", p>>)
    BY <1>13 DEF Added
  <2>3. Spread(Bag', Alive \cup {t})
    BY <1>3, <1>13, <2>1, <2>2, GainOne, Zenon
  <2> QED
    BY <1>12, <2>3
<1>15. \A u \in (finished \cup dropped)' : Entered(u)'
  BY <1>0, <1>2, <1>11 DEF OneInv, TaskType
<1>16. BreakInv'
  BY <1>2 DEF IndInv, BreakInv
<1> QED
  BY <1>0, <1>2, <1>7, <1>9, <1>10, <1>14, <1>15, <1>16, TypeHalves DEF IndInv, OneInv

\* The three places of gmk_worker_loop that pop a task, and the timer's.
LEMMA PopLqInv ==
  ASSUME IndInv, NEW w \in Workers, PopLq(w)
  PROVE  IndInv'
<1> USE SchedAssumption
<1>0. CtlType /\ CtlInv /\ TaskType /\ OneInv
  BY TypeHalves DEF IndInv
<1>1. CASE lq[w] = <<>>
  <2>0. /\ wpc[w] = "top" /\ wpc' = [wpc EXCEPT ![w] = "ovf"]
        /\ UNCHANGED <<hand, yielded, scan, count, running, parked, halt, due, counter,
                       spc, probe, ran>>
    BY <1>1 DEF PopLq, Goto, flags, submits
  <2>1. CtlType' /\ CtlInv'
    BY <1>0, <2>0 DEF CtlType, CtlInv, WPCs
  <2> QED
    BY <1>1, <2>1, QuietStep DEF PopLq, submits
<1>2. CASE lq[w] # <<>>
  <2>1. PICK t : t = Head(lq[w])
    OBVIOUS
  <2>2. /\ wpc[w] = "top" /\ wpc' = [wpc EXCEPT ![w] = "run"]
        /\ lq' = [lq EXCEPT ![w] = Tail(lq[w])] /\ hand' = [hand EXCEPT ![w] = t]
        /\ ran' = ran \cup ({t} \cap Submitted)
        /\ UNCHANGED <<rq, ovf, evq, counter, due, yielded, scan, count, running,
                       parked, halt, spc, probe, yields, finished, dropped>>
    BY <1>2, <2>1 DEF PopLq, Dispatch, Goto, flags, submits
  <2>3. hand[w] = None /\ ~yielded[w]
    BY <1>0, <2>2 DEF CtlInv
  <2>4. lq[w] \in Seq(Tasks) /\ NoDup(lq[w]) /\ Len(lq[w]) <= LqCap
    BY <1>0 DEF TaskType, OneInv, NoDups
  <2>5. /\ t \in Members(lq[w]) /\ t \in Tasks
        /\ Tail(lq[w]) \in Seq(Tasks) /\ Len(Tail(lq[w])) = Len(lq[w]) - 1
        /\ Members(Tail(lq[w])) = Members(lq[w]) \ {t} /\ NoDup(Tail(lq[w]))
    BY <1>2, <2>1, <2>4, Popped
  <2>6. /\ lq'[w] = Tail(lq[w]) /\ (\A v \in Workers \ {w} : lq'[v] = lq[v])
        /\ lq' \in [Workers -> Seq(Tasks)]
    BY <1>0, <2>2, <2>5 DEF TaskType
  <2>7. Len(lq'[w]) <= LqCap
    BY <2>4, <2>5, <2>6, SMTT(60)
  <2>8. TaskType' /\ NoDups'
    BY <1>0, <2>2, <2>5, <2>6, <2>7 DEF TaskType, OneInv, NoDups
  <2>9. CtlType' /\ CtlInv'
    BY <1>0, <2>2, <2>5 DEF CtlType, CtlInv, WPCs, Tasks
  <2>10. \A k \in Locs \ {<<"lq", w>>, <<"hand", w>>} : Bag'[k] = Bag[k]
    <3>1. \A v \in Workers : /\ <<"lq", v>> \notin {<<"lq", w>>, <<"hand", w>>} => lq'[v] = lq[v]
                             /\ <<"hand", v>> \notin {<<"lq", w>>, <<"hand", w>>}
                                  => Held(v)' = Held(v)
      BY <1>0, <2>2, <2>6 DEF CtlType, Held
    <3> QED
      BY <2>2, <3>1, Elsewhere
  <2>11. /\ <<"lq", w>> \in Locs /\ t \in Bag[<<"lq", w>>] /\ <<"lq", w>> # <<"hand", w>>
         /\ Bag'[<<"lq", w>>] = Bag[<<"lq", w>>] \ {t}
    BY <2>5, <2>6, Located, LocatedNext, ZenonT(60)
  <2>12. OneInv' /\ BreakInv'
    BY <2>2, <2>3, <2>8, <2>10, <2>11, Grab
  <2> QED
    BY <2>8, <2>9, <2>12, TypeHalves DEF IndInv
<1> QED
  BY <1>1, <1>2

LEMMA PopOvfInv ==
  ASSUME IndInv, NEW w \in Workers, PopOvf(w)
  PROVE  IndInv'
<1> USE SchedAssumption
<1>0. CtlType /\ CtlInv /\ TaskType /\ OneInv
  BY TypeHalves DEF IndInv
<1>1. CASE ovf = <<>>
  <2>0. First(Prios) \in Prios
    BY FirstIn
  <2>a. /\ wpc[w] = "ovf" /\ wpc' = [wpc EXCEPT ![w] = "rq1"]
        /\ scan' = [scan EXCEPT ![w] = First(Prios)]
        /\ UNCHANGED <<counter, due, hand, yielded, count, running, parked, halt, spc,
                       probe, ran>>
    BY <1>1 DEF PopOvf, Goto, flags, submits
  <2>1. CtlType' /\ CtlInv'
    BY <1>0, <2>0, <2>a DEF CtlType, CtlInv, WPCs
  <2> QED
    BY <1>1, <2>1, QuietStep DEF PopOvf, submits
<1>2. CASE ovf # <<>>
  <2>1. PICK t : t = Head(ovf)
    OBVIOUS
  <2>2. /\ wpc[w] = "ovf" /\ wpc' = [wpc EXCEPT ![w] = "run"]
        /\ ovf' = Tail(ovf) /\ hand' = [hand EXCEPT ![w] = t]
        /\ ran' = ran \cup ({t} \cap Submitted)
        /\ UNCHANGED <<rq, lq, evq, counter, due, yielded, scan, count, running,
                       parked, halt, spc, probe, yields, finished, dropped>>
    BY <1>2, <2>1 DEF PopOvf, Dispatch, Goto, flags, submits
  <2>3. hand[w] = None /\ ~yielded[w]
    BY <1>0, <2>2 DEF CtlInv
  <2>4. ovf \in Seq(Tasks) /\ NoDup(ovf) /\ Len(ovf) <= OvfCap
    BY <1>0 DEF TaskType, OneInv, NoDups
  <2>5. /\ t \in Members(ovf) /\ t \in Tasks
        /\ ovf' \in Seq(Tasks) /\ Len(ovf') = Len(ovf) - 1
        /\ Members(ovf') = Members(ovf) \ {t} /\ NoDup(ovf')
    BY <1>2, <2>1, <2>2, <2>4, Popped
  <2>7. Len(ovf') <= OvfCap
    BY <2>4, <2>5
  <2>8. TaskType' /\ NoDups'
    BY <1>0, <2>2, <2>5, <2>7 DEF TaskType, OneInv, NoDups
  <2>9. CtlType' /\ CtlInv'
    BY <1>0, <2>2, <2>5 DEF CtlType, CtlInv, WPCs, Tasks
  <2>10. \A k \in Locs \ {<<"ovf", 0>>, <<"hand", w>>} : Bag'[k] = Bag[k]
    <3>1. \A v \in Workers : <<"hand", v>> \notin {<<"ovf", 0>>, <<"hand", w>>}
                               => Held(v)' = Held(v)
      BY <1>0, <2>2 DEF CtlType, Held
    <3> QED
      BY <2>2, <3>1, Elsewhere
  <2>11. /\ <<"ovf", 0>> \in Locs /\ t \in Bag[<<"ovf", 0>>] /\ <<"ovf", 0>> # <<"hand", w>>
         /\ Bag'[<<"ovf", 0>>] = Bag[<<"ovf", 0>>] \ {t}
    BY <2>5, Located, LocatedNext
  <2>12. OneInv' /\ BreakInv'
    BY <2>2, <2>3, <2>8, <2>10, <2>11, Grab
  <2> QED
    BY <2>8, <2>9, <2>12, TypeHalves DEF IndInv
<1> QED
  BY <1>1, <1>2

LEMMA RqTakeInv ==
  ASSUME IndInv, NEW w \in Workers, RqTake(w)
  PROVE  IndInv'
<1> USE SchedAssumption
<1>0. CtlType /\ CtlInv /\ TaskType /\ OneInv
  BY TypeHalves DEF IndInv
<1>1. PICK p \in Prios : p = scan[w]
  BY <1>0 DEF RqTake, CtlInv
<1>2. PICK t : t = Head(rq[p])
  OBVIOUS
<1>3. /\ wpc[w] \in {"rq1", "rq2"} /\ wpc' = [wpc EXCEPT ![w] = "rqcount"] /\ rq[p] # <<>>
      /\ rq' = [rq EXCEPT ![p] = Tail(rq[p])] /\ hand' = [hand EXCEPT ![w] = t]
      /\ count' = [count EXCEPT ![w] = counter[p]]
      /\ UNCHANGED <<lq, ovf, evq, counter, due, yielded, scan, running,
                     parked, halt, spc, probe, yields, ran, finished, dropped>>
  BY <1>1, <1>2 DEF RqTake, Goto, flags, submits, fates
<1>4. hand[w] = None /\ ~yielded[w]
  BY <1>0, <1>3 DEF CtlInv
<1>5. rq[p] \in Seq(Tasks) /\ NoDup(rq[p]) /\ Len(rq[p]) <= RqCap
  BY <1>0 DEF TaskType, OneInv, NoDups
<1>6. /\ t \in Members(rq[p]) /\ t \in Tasks
      /\ Tail(rq[p]) \in Seq(Tasks) /\ Len(Tail(rq[p])) = Len(rq[p]) - 1
      /\ Members(Tail(rq[p])) = Members(rq[p]) \ {t} /\ NoDup(Tail(rq[p]))
  BY <1>2, <1>3, <1>5, Popped
<1>7. /\ rq'[p] = Tail(rq[p]) /\ (\A q \in Prios \ {p} : rq'[q] = rq[q])
      /\ rq' \in [Prios -> Seq(Tasks)]
  BY <1>0, <1>3, <1>6 DEF TaskType
<1>8. Len(rq'[p]) <= RqCap
  BY <1>5, <1>6, <1>7
<1>9. TaskType' /\ NoDups'
  BY <1>0, <1>3, <1>6, <1>7, <1>8 DEF TaskType, OneInv, NoDups
<1>10. CtlType' /\ CtlInv'
  BY <1>0, <1>1, <1>3, <1>6, ZenonT(60) DEF CtlType, CtlInv, WPCs
<1>11. \A k \in Locs \ {<<"rq", p>>, <<"hand", w>>} : Bag'[k] = Bag[k]
  <2>1. \A v \in Workers : <<"hand", v>> \notin {<<"rq", p>>, <<"hand", w>>}
                             => Held(v)' = Held(v)
    BY <1>0, <1>3 DEF CtlType, Held
  <2>2. \A q \in Prios : <<"rq", q>> \notin {<<"rq", p>>, <<"hand", w>>} => rq'[q] = rq[q]
    BY <1>7
  <2> QED
    BY <1>3, <2>1, <2>2, Elsewhere
<1>12. /\ <<"rq", p>> \in Locs /\ t \in Bag[<<"rq", p>>] /\ <<"rq", p>> # <<"hand", w>>
       /\ Bag'[<<"rq", p>>] = Bag[<<"rq", p>>] \ {t}
  BY <1>6, <1>7, Located, LocatedNext, ZenonT(60)
<1>13. OneInv' /\ BreakInv'
  BY <1>3, <1>4, <1>9, <1>11, <1>12, Grab
<1> QED
  BY <1>9, <1>10, <1>13, TypeHalves DEF IndInv

LEMMA DrainPopInv ==
  ASSUME IndInv, NEW w \in Workers, DrainPop(w)
  PROVE  IndInv'
<1> USE SchedAssumption
<1>0. CtlType /\ CtlInv /\ TaskType /\ OneInv
  BY TypeHalves DEF IndInv
<1>1. PICK t \in evq : evq' = evq \ {t} /\ hand' = [hand EXCEPT ![w] = t]
  BY DEF DrainPop
<1>2. /\ wpc[w] = "evq" /\ wpc' = [wpc EXCEPT ![w] = "drain"]
      /\ scan' = [scan EXCEPT ![w] = scan[w] + 1]
      /\ UNCHANGED <<rq, lq, ovf, counter, due, yielded, count, running,
                     parked, halt, spc, probe, yields, ran, finished, dropped>>
  BY DEF DrainPop, Goto, flags, submits, fates
<1>3. hand[w] = None /\ ~yielded[w] /\ t \in Tasks
  BY <1>0, <1>2 DEF CtlInv, TaskType, Tasks
<1>4. TaskType' /\ NoDups'
  BY <1>0, <1>1, <1>2 DEF TaskType, OneInv, NoDups
<1>5. CtlType' /\ CtlInv'
  BY <1>0, <1>1, <1>2, <1>3 DEF CtlType, CtlInv, WPCs
<1>6. \A k \in Locs \ {<<"evq", 0>>, <<"hand", w>>} : Bag'[k] = Bag[k]
  <2>1. \A v \in Workers : <<"hand", v>> \notin {<<"evq", 0>>, <<"hand", w>>}
                             => Held(v)' = Held(v)
    BY <1>0, <1>1, <1>2 DEF CtlType, Held
  <2> QED
    BY <1>2, <2>1, Elsewhere
<1>7. /\ <<"evq", 0>> \in Locs /\ t \in Bag[<<"evq", 0>>] /\ <<"evq", 0>> # <<"hand", w>>
      /\ Bag'[<<"evq", 0>>] = Bag[<<"evq", 0>>] \ {t}
  BY <1>1, Located, LocatedNext
<1>8. OneInv' /\ BreakInv'
  BY <1>1, <1>2, <1>3, <1>4, <1>6, <1>7, Grab
<1> QED
  BY <1>4, <1>5, <1>8, TypeHalves DEF IndInv

\* _gmk_enqueue and gmk_rq_push of a task that a worker has in its hand.
LEMMA RqPushMoves ==
  ASSUME TaskType, OneInv, NEW w \in Workers, hand[w] \in Tasks, ~yielded[w],
         ~RqFull(hand[w]), RqPush(hand[w]), UNCHANGED <<lq, ovf>>
  PROVE  /\ NoDups' /\ rq' \in [Prios -> Seq(Tasks)] /\ \A q \in Prios : Len(rq'[q]) <= RqCap
         /\ \E p \in Prios : /\ Members(rq'[p]) = Members(rq[p]) \cup {hand[w]}
                             /\ \A q \in Prios : q # p => rq'[q] = rq[q]
<1> USE SchedAssumption
<1>1. PICK t \in Tasks, p \in Prios : t = hand[w] /\ p = Prio[t]
  OBVIOUS
<1>2. t \in Bag[<<"hand", w>>] /\ <<"hand", w>> \in Locs
  BY <1>1, Located DEF Held
<1>3. t \notin Bag[<<"rq", p>>] /\ <<"rq", p>> # <<"hand", w>> /\ <<"rq", p>> \in Locs
  <2>1. <<"rq", p>> # <<"hand", w>> /\ <<"rq", p>> \in Locs
    BY Located
  <2> QED
    BY <1>2, <2>1 DEF OneInv, Spread
<1>4. /\ rq[p] \in Seq(Tasks) /\ t \notin Members(rq[p]) /\ NoDup(rq[p])
      /\ Len(rq[p]) \in Nat /\ Len(rq[p]) <= RqCap
  BY <1>3, Located, SMTT(60) DEF TaskType, OneInv, NoDups
<1>5. /\ Append(rq[p], t) \in Seq(Tasks) /\ Len(Append(rq[p], t)) = Len(rq[p]) + 1
      /\ Members(Append(rq[p], t)) = Members(rq[p]) \cup {t} /\ NoDup(Append(rq[p], t))
  BY <1>4, Pushed
<1>6. rq' = [rq EXCEPT ![p] = Append(rq[p], t)] /\ Len(rq[p]) + 1 <= RqCap
  BY <1>1, <1>4 DEF RqPush, RqFull
<1>7. /\ rq'[p] = Append(rq[p], t) /\ (\A q \in Prios : q # p => rq'[q] = rq[q])
      /\ rq' \in [Prios -> Seq(Tasks)]
  BY <1>5, <1>6 DEF TaskType
<1>8. \A q \in Prios : Len(rq'[q]) <= RqCap
  BY <1>5, <1>6, <1>7 DEF TaskType
<1>9. NoDups'
  BY <1>5, <1>7 DEF OneInv, NoDups
<1> QED
  BY <1>1, <1>5, <1>7, <1>8, <1>9

LEMMA LqPushMoves ==
  ASSUME TaskType, OneInv, NEW w \in Workers, hand[w] \in Tasks, ~yielded[w],
         Len(lq[w]) < LqCap, lq' = [lq EXCEPT ![w] = Append(@, hand[w])], UNCHANGED <<rq, ovf>>
  PROVE  /\ NoDups' /\ lq' \in [Workers -> Seq(Tasks)] /\ \A v \in Workers : Len(lq'[v]) <= LqCap
         /\ Members(lq'[w]) = Members(lq[w]) \cup {hand[w]}
         /\ \A v \in Workers : v # w => lq'[v] = lq[v]
<1> USE SchedAssumption
<1>1. PICK t \in Tasks : t = hand[w]
  OBVIOUS
<1>2. t \in Bag[<<"hand", w>>] /\ <<"hand", w>> \in Locs
  BY <1>1, Located DEF Held
<1>3. t \notin Bag[<<"lq", w>>] /\ <<"lq", w>> # <<"hand", w>> /\ <<"lq", w>> \in Locs
  <2>1. <<"lq", w>> # <<"hand", w>> /\ <<"lq", w>> \in Locs
    BY Located
  <2> QED
    BY <1>2, <2>1 DEF OneInv, Spread
<1>4. /\ lq[w] \in Seq(Tasks) /\ t \notin Members(lq[w]) /\ NoDup(lq[w]) /\ Len(lq[w]) \in Nat
  BY <1>3, Located DEF TaskType, OneInv, NoDups
<1>5. /\ Append(lq[w], t) \in Seq(Tasks) /\ Len(Append(lq[w], t)) = Len(lq[w]) + 1
      /\ Members(Append(lq[w], t)) = Members(lq[w]) \cup {t} /\ NoDup(Append(lq[w], t))
  BY <1>4, Pushed
<1>6. lq' = [lq EXCEPT ![w] = Append(lq[w], t)] /\ Len(lq[w]) + 1 <= LqCap
  BY <1>1, <1>4
<1>7. /\ lq'[w] = Append(lq[w], t) /\ (\A v \in Workers : v # w => lq'[v] = lq[v])
      /\ lq' \in [Workers -> Seq(Tasks)]
  BY <1>5, <1>6 DEF TaskType
<1>8. \A v \in Workers : Len(lq'[v]) <= LqCap
  BY <1>5, <1>6, <1>7 DEF TaskType
<1>9. NoDups'
  BY <1>5, <1>7 DEF OneInv, NoDups
<1> QED
  BY <1>1, <1>5, <1>7, <1>8, <1>9

LEMMA OvfPushMoves ==
  ASSUME TaskType, OneInv, NEW w \in Workers, hand[w] \in Tasks, ~yielded[w],
         Len(ovf) < OvfCap, ovf' = Append(ovf, hand[w]), UNCHANGED <<rq, lq>>
  PROVE  /\ NoDups' /\ ovf' \in Seq(Tasks) /\ Len(ovf') <= OvfCap
         /\ Members(ovf') = Members(ovf) \cup {hand[w]}
<1> USE SchedAssumption
<1>1. hand[w] \in Bag[<<"hand", w>>] /\ <<"hand", w>> \in Locs
  BY Located DEF Held
<1>2. hand[w] \notin Bag[<<"ovf", 0>>]
  <2>1. <<"ovf", 0>> # <<"hand", w>> /\ <<"ovf", 0>> \in Locs
    BY Located
  <2> QED
    BY <1>1, <2>1 DEF OneInv, Spread
<1>3. /\ ovf \in Seq(Tasks) /\ hand[w] \notin Members(ovf) /\ NoDup(ovf) /\ Len(ovf) \in Nat
  BY <1>2, Located DEF TaskType, OneInv, NoDups
<1>4. /\ ovf' \in Seq(Tasks) /\ Len(ovf') = Len(ovf) + 1
      /\ Members(ovf') = Members(ovf) \cup {hand[w]} /\ NoDup(ovf')
  BY <1>3, Pushed
<1>5. Len(ovf') <= OvfCap
  BY <1>3, <1>4
<1>6. NoDups'
  BY <1>4 DEF OneInv, NoDups
<1> QED
  BY <1>4, <1>5, <1>6

\* The places but for one worker's hand and one other.
LEMMA RqPutInv ==
  ASSUME IndInv, NEW w \in Workers, hand[w] # None, ~yielded[w],
         Held(w)' = {}, \A v \in Workers : v # w => Held(v)' = Held(v),
         RqPushOrDrop(hand[w]), UNCHANGED <<lq, ovf, evq, yields, finished, spc>>
  PROVE  TaskType' /\ OneInv' /\ BreakInv'
<1>0. CtlType /\ CtlInv /\ TaskType /\ OneInv /\ BreakInv /\ hand[w] \in Tasks
  BY TypeHalves DEF IndInv, CtlType
<1>1. CASE ~RqFull(hand[w]) /\ RqPush(hand[w]) /\ UNCHANGED dropped
  <2>1. /\ NoDups' /\ rq' \in [Prios -> Seq(Tasks)] /\ \A q \in Prios : Len(rq'[q]) <= RqCap
        /\ \E p \in Prios : /\ Members(rq'[p]) = Members(rq[p]) \cup {hand[w]}
                            /\ \A q \in Prios : q # p => rq'[q] = rq[q]
    BY <1>0, <1>1, RqPushMoves
  <2>2. PICK p \in Prios : /\ Members(rq'[p]) = Members(rq[p]) \cup {hand[w]}
                           /\ \A q \in Prios : q # p => rq'[q] = rq[q]
    BY <2>1
  <2>3. TaskType' /\ BreakInv'
    BY <1>0, <1>1, <2>1 DEF TaskType, BreakInv
  <2>4. \A k \in Locs \ {<<"rq", p>>, <<"hand", w>>} : Bag'[k] = Bag[k]
    <3>1. \A q \in Prios : <<"rq", q>> \notin {<<"rq", p>>, <<"hand", w>>} => rq'[q] = rq[q]
      BY <2>2
    <3>2. \A v \in Workers : <<"hand", v>> \notin {<<"rq", p>>, <<"hand", w>>}
                               => Held(v)' = Held(v)
      OBVIOUS
    <3> QED
      BY <3>1, <3>2, Elsewhere
  <2>5. /\ <<"rq", p>> \in Locs /\ <<"rq", p>> # <<"hand", w>>
        /\ Bag'[<<"rq", p>>] = Bag[<<"rq", p>>] \cup {hand[w]}
    BY <2>2, Located, LocatedNext
  <2> QED
    BY <1>1, <2>1, <2>3, <2>4, <2>5, Put
<1>2. CASE RqFull(hand[w]) /\ dropped' = dropped \cup {hand[w]} /\ UNCHANGED rq
  <2>1. TaskType' /\ BreakInv' /\ NoDups'
    BY <1>0, <1>2 DEF TaskType, BreakInv, OneInv, NoDups
  <2>2. \A k \in Locs \ {<<"hand", w>>} : Bag'[k] = Bag[k]
    <3>1. \A v \in Workers : <<"hand", v>> \notin {<<"hand", w>>} => Held(v)' = Held(v)
      OBVIOUS
    <3> QED
      BY <1>2, <3>1, Elsewhere
  <2> QED
    BY <1>2, <2>1, <2>2, Lose
<1> QED
  BY <1>1, <1>2 DEF RqPushOrDrop

LEMMA LqPutInv ==
  ASSUME IndInv, NEW w \in Workers, hand[w] # None, ~yielded[w],
         Held(w)' = {}, \A v \in Workers : v # w => Held(v)' = Held(v),
         Len(lq[w]) < LqCap, lq' = [lq EXCEPT ![w] = Append(@, hand[w])],
         yields' \in [Tasks -> Nat], UNCHANGED <<rq, ovf, evq, finished, dropped, spc>>
  PROVE  TaskType' /\ OneInv'
<1>0. CtlType /\ CtlInv /\ TaskType /\ OneInv /\ hand[w] \in Tasks
  BY TypeHalves DEF IndInv, CtlType
<1>1. /\ NoDups' /\ lq' \in [Workers -> Seq(Tasks)] /\ \A v \in Workers : Len(lq'[v]) <= LqCap
      /\ Members(lq'[w]) = Members(lq[w]) \cup {hand[w]}
      /\ \A v \in Workers : v # w => lq'[v] = lq[v]
  BY <1>0, LqPushMoves
<1>2. TaskType'
  BY <1>0, <1>1 DEF TaskType
<1>3. \A k \in Locs \ {<<"lq", w>>, <<"hand", w>>} : Bag'[k] = Bag[k]
  <2>1. \A v \in Workers : /\ <<"lq", v>> \notin {<<"lq", w>>, <<"hand", w>>} => lq'[v] = lq[v]
                           /\ <<"hand", v>> \notin {<<"lq", w>>, <<"hand", w>>}
                                => Held(v)' = Held(v)
    BY <1>1
  <2> QED
    BY <2>1, Elsewhere
<1>4. /\ <<"lq", w>> \in Locs /\ <<"lq", w>> # <<"hand", w>>
      /\ Bag'[<<"lq", w>>] = Bag[<<"lq", w>>] \cup {hand[w]}
  BY <1>1, Located, LocatedNext
<1> QED
  BY <1>1, <1>2, <1>3, <1>4, Put

LEMMA DrainPushInv ==
  ASSUME IndInv, NEW w \in Workers, DrainPush(w)
  PROVE  IndInv'
<1> USE SchedAssumption
<1>0. CtlType /\ CtlInv /\ TaskType /\ OneInv
  BY TypeHalves DEF IndInv
<1>1. /\ wpc[w] = "drain" /\ wpc' = [wpc EXCEPT ![w] = "evq"]
      /\ hand' = [hand EXCEPT ![w] = None] /\ EnqueueOrDrop(hand[w], w)
      /\ UNCHANGED <<ovf, evq, counter, due, yielded, scan, count, running, parked, halt,
                     spc, probe, yields, ran, finished>>
  BY DEF DrainPush, Goto, flags, submits
<1>2. hand[w] # None /\ ~yielded[w] /\ hand[w] \in Tasks
  BY <1>0, <1>1 DEF CtlInv, CtlType
<1>3. CtlType' /\ CtlInv'
  BY <1>0, <1>1 DEF CtlType, CtlInv, WPCs
<1>4. Held(w)' = {} /\ \A v \in Workers : v # w => Held(v)' = Held(v)
  BY <1>0, <1>1 DEF CtlType, Held
<1>5. CASE Len(lq[w]) < LqMark
  <2>1. Len(lq[w]) \in Nat
    BY <1>0 DEF TaskType
  <2>2. /\ Len(lq[w]) < LqCap /\ lq' = [lq EXCEPT ![w] = Append(@, hand[w])]
        /\ UNCHANGED <<rq, dropped>>
    BY <1>1, <1>5, <2>1 DEF EnqueueOrDrop
  <2>3. yields' \in [Tasks -> Nat] /\ BreakInv'
    BY <1>0, <1>1, <2>2 DEF TaskType, IndInv, BreakInv
  <2>4. TaskType' /\ OneInv'
    BY <1>1, <1>2, <1>4, <2>2, <2>3, LqPutInv
  <2> QED
    BY <1>3, <2>3, <2>4, TypeHalves DEF IndInv
<1>6. CASE ~(Len(lq[w]) < LqMark)
  <2>1. RqPushOrDrop(hand[w]) /\ UNCHANGED lq
    BY <1>1, <1>6 DEF EnqueueOrDrop
  <2>2. TaskType' /\ OneInv' /\ BreakInv'
    BY <1>1, <1>2, <1>4, <2>1, RqPutInv
  <2> QED
    BY <1>3, <2>2, TypeHalves DEF IndInv
<1> QED
  BY <1>5, <1>6

LEMMA RetryInv ==
  ASSUME IndInv, NEW w \in Workers, Retry(w)
  PROVE  IndInv'
<1> USE SchedAssumption
<1>0. CtlType /\ CtlInv /\ TaskType /\ OneInv
  BY TypeHalves DEF IndInv
<1>1. /\ wpc[w] = "run" /\ wpc' = [wpc EXCEPT ![w] = "top"] /\ ~yielded[w]
      /\ hand' = [hand EXCEPT ![w] = None] /\ RqPushOrDrop(hand[w])
      /\ yielded' = [yielded EXCEPT ![w] = FALSE]
      /\ UNCHANGED <<lq, ovf, evq, counter, due, scan, count, running, parked, halt,
                     spc, probe, yields, ran, finished>>
  BY DEF Retry, DoneWith, Goto, flags, submits
<1>2. hand[w] # None
  BY <1>0, <1>1 DEF CtlInv
<1>3. CtlType' /\ CtlInv'
  BY <1>0, <1>1 DEF CtlType, CtlInv, WPCs
<1>4. Held(w)' = {} /\ \A v \in Workers : v # w => Held(v)' = Held(v)
  BY <1>0, <1>1 DEF CtlType, Held
<1>5. TaskType' /\ OneInv' /\ BreakInv'
  BY <1>1, <1>2, <1>4, RqPutInv
<1> QED
  BY <1>3, <1>5, TypeHalves DEF IndInv

\* A handler that has yielded its task leaves it where it is.
LEMMA FinishInv ==
  ASSUME IndInv, NEW w \in Workers, Finish(w)
  PROVE  IndInv'
<1> USE SchedAssumption
<1>0. CtlType /\ CtlInv /\ TaskType /\ OneInv /\ BreakInv
  BY TypeHalves DEF IndInv
<1>1. /\ wpc[w] = "run" /\ wpc' = [wpc EXCEPT ![w] = "top"]
      /\ hand' = [hand EXCEPT ![w] = None]
      /\ finished' = IF yielded[w] THEN finished ELSE finished \cup {hand[w]}
      /\ yielded' = [yielded EXCEPT ![w] = FALSE]
      /\ UNCHANGED <<rq, lq, ovf, evq, counter, due, scan, count, running, parked, halt,
                     spc, probe, yields, ran, dropped>>
  BY DEF Finish, DoneWith, Goto, flags, submits, queues
<1>2. hand[w] # None /\ hand[w] \in Tasks
  BY <1>0, <1>1 DEF CtlInv, CtlType
<1>3. CtlType' /\ CtlInv'
  BY <1>0, <1>1 DEF CtlType, CtlInv, WPCs
<1>4. Held(w)' = {} /\ \A v \in Workers : v # w => Held(v)' = Held(v)
  BY <1>0, <1>1 DEF CtlType, Held
<1>5. NoDups'
  BY <1>0, <1>1 DEF OneInv, NoDups
<1>6. TaskType'
  BY <1>0, <1>1, <1>2 DEF TaskType
<1>7. BreakInv'
  BY <1>0, <1>1 DEF BreakInv
<1>8. \A k \in Locs \ {<<"hand", w>>} : Bag'[k] = Bag[k]
  <2>1. \A v \in Workers : <<"hand", v>> \notin {<<"hand", w>>} => Held(v)' = Held(v)
    BY <1>4
  <2> QED
    BY <1>1, <2>1, Elsewhere
<1>9. CASE ~yielded[w]
  <2>1. OneInv'
    BY <1>1, <1>2, <1>4, <1>5, <1>8, <1>9, Lose
  <2> QED
    BY <1>3, <1>6, <1>7, <2>1, TypeHalves DEF IndInv
<1>10. CASE yielded[w]
  <2>1. Held(w)' = Held(w)
    BY <1>4, <1>10 DEF Held
  <2>2. \A k \in Locs : Bag'[k] = Bag[k]
    BY <1>8, <2>1, Located, LocatedNext
  <2>3. (\A u \in Tasks : Entered(u)' <=> Entered(u)) /\ finished' = finished
    BY <1>1, <1>10 DEF Entered
  <2>4. \A u \in Tasks : u \in Alive' <=> u \in Alive
    BY <1>1, <2>3 DEF Alive
  <2>5. Spread(Bag', Alive')
    BY <1>0, <2>2, <2>4, KeepAll DEF OneInv
  <2>6. \A u \in (finished \cup dropped)' : Entered(u)'
    BY <1>0, <1>1, <2>3 DEF OneInv, TaskType
  <2>7. OneInv'
    BY <1>0, <1>1, <1>5, <2>3, <2>5, <2>6 DEF OneInv
  <2> QED
    BY <1>3, <1>6, <1>7, <2>7, TypeHalves DEF IndInv
<1> QED
  BY <1>9, <1>10

\* The breaker: a task goes back into a queue only while its count is small.
LEMMA YieldInv ==
  ASSUME IndInv, NEW w \in Workers, Yield(w)
  PROVE  IndInv'
<1> USE SchedAssumption
<1>0. CtlType /\ CtlInv /\ TaskType /\ OneInv /\ BreakInv
  BY TypeHalves DEF IndInv
<1>1. /\ wpc[w] = "run" /\ ~yielded[w] /\ yielded' = [yielded EXCEPT ![w] = TRUE]
      /\ YieldOrDrop(hand[w], w)
      /\ UNCHANGED <<rq, evq, counter, due, wpc, hand, scan, count, running, parked, halt,
                     spc, probe, ran, finished>>
  BY DEF Yield, flags, submits
<1>2. hand[w] # None /\ hand[w] \in Tasks
  BY <1>0, <1>1 DEF CtlInv, CtlType
<1>3. PICK n \in Nat : n = yields[hand[w]] + 1
  BY <1>0, <1>2, SMTT(60) DEF TaskType
<1>4. Len(lq[w]) \in Nat /\ Len(ovf) \in Nat
  BY <1>0 DEF TaskType
<1>5. yields' = [yields EXCEPT ![hand[w]] = n] /\ yields' \in [Tasks -> Nat]
  BY <1>0, <1>1, <1>2, <1>3 DEF YieldOrDrop, TaskType
<1>6. CtlType' /\ CtlInv'
  BY <1>0, <1>1 DEF CtlType, CtlInv
<1>7. Held(w)' = {} /\ \A v \in Workers : v # w => Held(v)' = Held(v)
  BY <1>0, <1>1 DEF CtlType, Held
<1>8. \/ /\ n <= MaxYields /\ Len(lq[w]) < LqCap /\ UNCHANGED <<ovf, dropped>>
         /\ lq' = [lq EXCEPT ![w] = Append(@, hand[w])]
      \/ /\ n <= MaxYields /\ Len(ovf) < OvfCap /\ UNCHANGED <<lq, dropped>>
         /\ ovf' = Append(ovf, hand[w])
      \/ dropped' = dropped \cup {hand[w]} /\ UNCHANGED <<lq, ovf>>
  BY <1>1, <1>3 DEF YieldOrDrop
<1>9. n <= MaxYields \/ hand[w] \in dropped' => BreakInv'
  BY <1>0, <1>1, <1>2, <1>5, <1>8 DEF BreakInv, TaskType
<1>10. CASE /\ n <= MaxYields /\ Len(lq[w]) < LqCap /\ UNCHANGED <<ovf, dropped>>
            /\ lq' = [lq EXCEPT ![w] = Append(@, hand[w])]
  <2>1. TaskType' /\ OneInv'
    BY <1>1, <1>2, <1>5, <1>7, <1>10, LqPutInv
  <2> QED
    BY <1>6, <1>9, <1>10, <2>1, TypeHalves DEF IndInv
<1>11. CASE /\ n <= MaxYields /\ Len(ovf) < OvfCap /\ UNCHANGED <<lq, dropped>>
            /\ ovf' = Append(ovf, hand[w])
  <2>1. /\ NoDups' /\ ovf' \in Seq(Tasks) /\ Len(ovf') <= OvfCap
        /\ Members(ovf') = Members(ovf) \cup {hand[w]}
    BY <1>0, <1>1, <1>2, <1>11, OvfPushMoves
  <2>2. TaskType'
    BY <1>0, <1>1, <1>5, <1>11, <2>1 DEF TaskType
  <2>3. \A k \in Locs \ {<<"ovf", 0>>, <<"hand", w>>} : Bag'[k] = Bag[k]
    <3>1. \A v \in Workers : <<"hand", v>> \notin {<<"ovf", 0>>, <<"hand", w>>}
                               => Held(v)' = Held(v)
      BY <1>7
    <3> QED
      BY <1>1, <1>11, <3>1, Elsewhere
  <2>4. /\ <<"ovf", 0>> \in Locs /\ <<"ovf", 0>> # <<"hand", w>>
        /\ Bag'[<<"ovf", 0>>] = Bag[<<"ovf", 0>>] \cup {hand[w]}
    BY <2>1, Located, LocatedNext
  <2>5. OneInv'
    BY <1>1, <1>2, <1>7, <1>11, <2>1, <2>3, <2>4, Put
  <2> QED
    BY <1>6, <1>9, <1>11, <2>2, <2>5, TypeHalves DEF IndInv
<1>12. CASE dropped' = dropped \cup {hand[w]} /\ UNCHANGED <<lq, ovf>>
  <2>1. NoDups' /\ TaskType'
    BY <1>0, <1>1, <1>2, <1>5, <1>12 DEF OneInv, NoDups, TaskType
  <2>2. \A k \in Locs \ {<<"hand", w>>} : Bag'[k] = Bag[k]
    <3>1. \A v \in Workers : <<"hand", v>> \notin {<<"hand", w>>} => Held(v)' = Held(v)
      BY <1>7
    <3> QED
      BY <1>1, <1>12, <3>1, Elsewhere
  <2>3. OneInv'
    BY <1>1, <1>2, <1>7, <1>12, <2>1, <2>2, Lose
  <2>4. BreakInv'
    BY <1>9, <1>12
  <2> QED
    BY <1>6, <2>1, <2>3, <2>4, TypeHalves DEF IndInv
<1> QED
  BY <1>8, <1>10, <1>11, <1>12

-----------------------------------------------------------------------------
(* The theorems *)

LEMMA NextInv == IndInv /\ [Next]_vars => IndInv'
<1> SUFFICES ASSUME IndInv, [Next]_vars PROVE IndInv'
  OBVIOUS
<1>1. ASSUME NEW w \in Workers, Gather(w) PROVE IndInv'
  BY <1>1, LoopQuiet, PopLqInv, PopOvfInv, RqTakeInv, DrainPopInv, DrainPushInv DEF Gather
<1>2. ASSUME NEW w \in Workers, Timeout(w) PROVE IndInv'
  BY <1>2, LoopQuiet
<1>3. ASSUME NEW w \in Workers, Handler(w) PROVE IndInv'
  BY <1>3, FinishInv, YieldInv, RetryInv DEF Handler
<1>4. ASSUME NEW t \in Submitted, SubmitCheck(t) \/ SubmitStep(t) PROVE IndInv'
  BY <1>4, SubmitQuiet, SubmitPushInv DEF SubmitStep
<1>5. CASE \/ \E w \in Workers : Tick(w)
           \/ Close \/ StopFlags \/ StopWake \/ StopJoin \/ UNCHANGED vars
  BY <1>5, HaltQuiet
<1> QED
  BY <1>1, <1>2, <1>3, <1>4, <1>5 DEF Next, Done

\* The inductive invariant holds in every state of gmk_submit, the workers' loops,
\* the clock and gmk_halt, interleaved at every queue operation and flag.
THEOREM Invariance == Spec => []IndInv
<1>1. Init => IndInv
  BY InitInv
<1>2. IndInv /\ [Next]_vars => IndInv'
  BY NextInv
<1> QED
  BY <1>1, <1>2, PTL DEF Spec

\* Type correctness: in particular no queue ever passes its capacity, whoever
\* pushes into it.
THEOREM TypeCorrect == Spec => []TypeOK
<1>1. IndInv => TypeOK
  BY DEF IndInv
<1> QED
  BY <1>1, Invariance, PTL

\* The circuit breaker of _gmk_yield: no handler runs for a task that has used up
\* its yields, on whatever worker and through whatever queue it comes.
THEOREM Breaker == Spec => []BreakerHolds
<1>1. IndInv => BreakerHolds
  <2> SUFFICES ASSUME IndInv, NEW w \in Workers, wpc[w] = "run", ~yielded[w]
               PROVE  yields[hand[w]] <= MaxYields
    BY DEF BreakerHolds
  <2>1. hand[w] # None /\ hand[w] \in Tasks
    BY DEF IndInv, CtlInv, TypeOK
  <2>2. hand[w] \in Bag[<<"hand", w>>] /\ <<"hand", w>> \in Locs
    BY <2>1, Located DEF Held
  <2>3. hand[w] \in Alive
    BY <2>1, <2>2 DEF IndInv, OneInv, Spread
  <2> QED
    BY <2>3 DEF IndInv, BreakInv, Alive
<1> QED
  BY <1>1, Invariance, PTL

LEMMA PositionsCount ==
  ASSUME NEW q, NEW t, NoDup(q)
  PROVE  /\ t \notin Members(q) => Positions(q, t) = {}
         /\ t \in Members(q) => \E i : Positions(q, t) = {i}
BY DEF Positions, Members, NoDup

LEMMA CountNoneOne ==
  /\ Cardinality({}) = 0
  /\ \A x : Cardinality({x}) = 1
BY FS_EmptySet, FS_Singleton

\* A family of queues of which at most one holds t, once.
Spots(I, f, t) == UNION {{<<i, j>> : j \in Positions(f[i], t)} : i \in I}

LEMMA SpotsNone ==
  ASSUME NEW I, NEW f, NEW t, \A i \in I : NoDup(f[i]), \A i \in I : t \notin Members(f[i])
  PROVE  Cardinality(Spots(I, f, t)) = 0
<1>1. \A i \in I : Positions(f[i], t) = {}
  BY PositionsCount
<1>2. Spots(I, f, t) = {}
  BY <1>1 DEF Spots
<1> QED
  BY <1>2, CountNoneOne

LEMMA SpotsOne ==
  ASSUME NEW I, NEW f, NEW t, NEW k \in I, \A i \in I : NoDup(f[i]), t \in Members(f[k]),
         \A i \in I : i # k => t \notin Members(f[i])
  PROVE  Cardinality(Spots(I, f, t)) = 1
<1>1. \A i \in I : i # k => Positions(f[i], t) = {}
  BY PositionsCount
<1>2. PICK j : Positions(f[k], t) = {j}
  BY PositionsCount
<1>3. Spots(I, f, t) = {<<k, j>>}
  BY <1>1, <1>2 DEF Spots
<1> QED
  BY <1>3, CountNoneOne

LEMMA PlacesSum ==
  ASSUME NEW t
  PROVE  Places(t) = Cardinality(Spots(Prios, rq, t)) + Cardinality(Spots(Workers, lq, t))
                     + Cardinality(Positions(ovf, t))
                     + Cardinality({w \in Workers : hand[w] = t /\ ~yielded[w]})
                     + Cardinality(evq \cap {t})
BY DEF Places, Spots

\* Conservation of tasks: whatever workers, submitters and timers do at the same
\* time, a task that was accepted is in exactly one queue, hand or timer until it
\* is finished or dropped, and in none after.
THEOREM Conservation == Spec => []OnePlace
<1>1. IndInv => OnePlace
  <2> SUFFICES ASSUME IndInv, NEW t \in Tasks
               PROVE  /\ Places(t) = IF Entered(t) /\ t \notin finished \cup dropped
                                     THEN 1 ELSE 0
                      /\ ~(t \in finished /\ t \in dropped)
    BY DEF OnePlace
  <2>0. /\ t # None /\ Spread(Bag, Alive) /\ finished \cap dropped = {}
        /\ (\A p \in Prios : NoDup(rq[p])) /\ (\A w \in Workers : NoDup(lq[w])) /\ NoDup(ovf)
    BY SchedAssumption DEF IndInv, OneInv, NoDups
  <2>1. PICK held : held = {w \in Workers : hand[w] = t /\ ~yielded[w]}
    OBVIOUS
  <2>2. Places(t) = Cardinality(Spots(Prios, rq, t)) + Cardinality(Spots(Workers, lq, t))
                    + Cardinality(Positions(ovf, t)) + Cardinality(held)
                    + Cardinality(evq \cap {t})
    BY <2>1, PlacesSum, Zenon
  <2>3. /\ t \notin Members(ovf) => Cardinality(Positions(ovf, t)) = 0
        /\ t \in Members(ovf) => Cardinality(Positions(ovf, t)) = 1
    BY <2>0, PositionsCount, CountNoneOne, Zenon
  <2>4. ASSUME \A w \in Workers : t \notin Held(w) PROVE Cardinality(held) = 0
    <3>1. held = {}
      BY <2>0, <2>1, <2>4 DEF Held
    <3> QED
      BY <3>1, CountNoneOne
  <2>5. ASSUME NEW k \in Workers, t \in Held(k), \A w \in Workers : w # k => t \notin Held(w)
        PROVE  Cardinality(held) = 1
    <3>1. held = {k}
      BY <2>0, <2>1, <2>5 DEF Held
    <3> QED
      BY <3>1, CountNoneOne
  <2>6. /\ t \notin evq => Cardinality(evq \cap {t}) = 0
        /\ t \in evq => Cardinality(evq \cap {t}) = 1
    <3>1. (t \notin evq => evq \cap {t} = {}) /\ (t \in evq => evq \cap {t} = {t})
      OBVIOUS
    <3> QED
      BY <3>1, CountNoneOne, Zenon
  <2>7. CASE t \notin Alive
    <3>1. \A l \in Locs : t \notin Bag[l]
      BY <2>0, <2>7 DEF Spread
    <3>2. /\ (\A p \in Prios : t \notin Members(rq[p]))
          /\ (\A w \in Workers : t \notin Members(lq[w]) /\ t \notin Held(w))
          /\ t \notin Members(ovf) /\ t \notin evq
      BY <3>1, Located, Zenon
    <3>3. Cardinality(Spots(Prios, rq, t)) = 0 /\ Cardinality(Spots(Workers, lq, t)) = 0
      BY <2>0, <3>2, SpotsNone, Zenon
    <3>4. Places(t) = 0
      BY <2>2, <2>3, <2>4, <2>6, <3>2, <3>3
    <3> QED
      BY <2>0, <2>7, <3>4 DEF Alive
  <2>8. CASE t \in Alive
    <3>1. PICK l \in Locs : t \in Bag[l] /\ \A m \in Locs : m # l => t \notin Bag[m]
      BY <2>0, <2>8 DEF Spread
    <3>2. ASSUME NEW k \in Prios, l = <<"rq", k>> PROVE Places(t) = 1
      <4>1. /\ \A p \in Prios : (p # k => <<"rq", p>> # l)
            /\ \A w \in Workers : <<"lq", w>> # l /\ <<"hand", w>> # l
            /\ <<"ovf", 0>> # l /\ <<"evq", 0>> # l
        BY <3>2
      <4>2. /\ \A p \in Prios : (p # k => t \notin Members(rq[p]))
            /\ \A w \in Workers : t \notin Members(lq[w]) /\ t \notin Held(w)
            /\ t \notin Members(ovf) /\ t \notin evq
            /\ t \in Members(rq[k])
        BY <3>1, <3>2, <4>1, Located, Zenon
      <4>3. Cardinality(Spots(Prios, rq, t)) = 1
        BY <2>0, <4>2, SpotsOne, Zenon
      <4>4. Cardinality(Spots(Workers, lq, t)) = 0
        BY <2>0, <4>2, SpotsNone, Zenon
      <4>5. Cardinality(held) = 0
        BY <2>4, <4>2, Zenon
      <4> QED
        BY <2>2, <2>3, <2>6, <4>2, <4>3, <4>4, <4>5
    <3>3. ASSUME NEW k \in Workers, l = <<"lq", k>> PROVE Places(t) = 1
      <4>1. /\ \A p \in Prios : <<"rq", p>> # l
            /\ \A w \in Workers : (w # k => <<"lq", w>> # l) /\ <<"hand", w>> # l
            /\ <<"ovf", 0>> # l /\ <<"evq", 0>> # l
        BY <3>3
      <4>2. /\ \A p \in Prios : t \notin Members(rq[p])
            /\ \A w \in Workers : (w # k => t \notin Members(lq[w])) /\ t \notin Held(w)
            /\ t \notin Members(ovf) /\ t \notin evq
            /\ t \in Members(lq[k])
        BY <3>1, <3>3, <4>1, Located, Zenon
      <4>3. Cardinality(Spots(Prios, rq, t)) = 0
        BY <2>0, <4>2, SpotsNone, Zenon
      <4>4. Cardinality(Spots(Workers, lq, t)) = 1
        BY <2>0, <4>2, SpotsOne, Zenon
      <4>5. Cardinality(held) = 0
        BY <2>4, <4>2, Zenon
      <4> QED
        BY <2>2, <2>3, <2>6, <4>2, <4>3, <4>4, <4>5
    <3>4. ASSUME NEW k \in Workers, l = <<"hand", k>> PROVE Places(t) = 1
      <4>1. /\ \A p \in Prios : <<"rq", p>> # l
            /\ \A w \in Workers : <<"lq", w>> # l /\ (w # k => <<"hand", w>> # l)
            /\ <<"ovf", 0>> # l /\ <<"evq", 0>> # l
        BY <3>4
      <4>2. /\ \A p \in Prios : t \notin Members(rq[p])
            /\ \A w \in Workers : t \notin Members(lq[w]) /\ (w # k => t \notin Held(w))
            /\ t \notin Members(ovf) /\ t \notin evq
            /\ t \in Held(k)
        BY <3>1, <3>4, <4>1, Located, Zenon
      <4>3. Cardinality(Spots(Prios, rq, t)) = 0
        BY <2>0, <4>2, SpotsNone, Zenon
      <4>4. Cardinality(Spots(Workers, lq, t)) = 0
        BY <2>0, <4>2, SpotsNone, Zenon
      <4>5. Cardinality(held) = 1
        BY <2>5, <4>2, Zenon
      <4> QED
        BY <2>2, <2>3, <2>6, <4>2, <4>3, <4>4, <4>5
    <3>5. ASSUME l = <<"ovf", 0>> PROVE Places(t) = 1
      <4>1. /\ \A p \in Prios : <<"rq", p>> # l
            /\ \A w \in Workers : <<"lq", w>> # l /\ <<"hand", w>> # l
            /\ <<"evq", 0>> # l
        BY <3>5
      <4>2. /\ \A p \in Prios : t \notin Members(rq[p])
            /\ \A w \in Workers : t \notin Members(lq[w]) /\ t \notin Held(w)
            /\ t \notin evq
            /\ t \in Members(ovf)
        BY <3>1, <3>5, <4>1, Located, Zenon
      <4>3. Cardinality(Spots(Prios, rq, t)) = 0
        BY <2>0, <4>2, SpotsNone, Zenon
      <4>4. Cardinality(Spots(Workers, lq, t)) = 0
        BY <2>0, <4>2, SpotsNone, Zenon
      <4>5. Cardinality(held) = 0
        BY <2>4, <4>2, Zenon
      <4> QED
        BY <2>2, <2>3, <2>6, <4>2, <4>3, <4>4, <4>5
    <3>6. ASSUME l = <<"evq", 0>> PROVE Places(t) = 1
      <4>1. /\ \A p \in Prios : <<"rq", p>> # l
            /\ \A w \in Workers : <<"lq", w>> # l /\ <<"hand", w>> # l
            /\ <<"ovf", 0>> # l
        BY <3>6
      <4>2. /\ \A p \in Prios : t \notin Members(rq[p])
            /\ \A w \in Workers : t \notin Members(lq[w]) /\ t \notin Held(w)
            /\ t \notin Members(ovf)
            /\ t \in evq
        BY <3>1, <3>6, <4>1, Located, Zenon
      <4>3. Cardinality(Spots(Prios, rq, t)) = 0
        BY <2>0, <4>2, SpotsNone, Zenon
      <4>4. Cardinality(Spots(Workers, lq, t)) = 0
        BY <2>0, <4>2, SpotsNone, Zenon
      <4>5. Cardinality(held) = 0
        BY <2>4, <4>2, Zenon
      <4> QED
        BY <2>2, <2>3, <2>6, <4>2, <4>3, <4>4, <4>5
    <3>7. Places(t) = 1
      BY <3>2, <3>3, <3>4, <3>5, <3>6, LocCases, Zenon
    <3> QED
      BY <2>0, <2>8, <3>7 DEF Alive
  <2> QED
    BY <2>7, <2>8
<1> QED
  BY <1>1, Invariance, PTL
=============================================================================
