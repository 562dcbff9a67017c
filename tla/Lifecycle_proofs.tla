-------------------------- MODULE Lifecycle_proofs --------------------------
(***************************************************************************)
(* gmk_boot, gmk_halt and the worker threads (boot.c, module.c, worker.c)  *)
(* for any number of workers, tenants, modules and handlers.               *)
(***************************************************************************)
EXTENDS Lifecycle, SequenceTheorems, FiniteSetTheorems, TLAPS

-----------------------------------------------------------------------------
(* The allocations of a stage *)

Stages == {"alloc", "trace", "sched", "chan", "pool"}

\* The stage that allocates a resource.  (Modules open channels later.)
StageOf(r) == CASE r[1] = "arena" -> "alloc"
                [] r[1] = "trace" -> "trace"
                [] r[1] \in {"rq", "lqs", "lq", "evq", "overflow"} -> "sched"
                [] r[1] = "chan" -> "chan"
                [] r[1] = "pool" -> "pool"

LEMMA Sizes ==
  /\ NTenants \in Nat \ {0} /\ NWorkers \in Nat \ {0} /\ MaxHandlers \in Nat \ {0}
  /\ MaxModules \in Nat \ {0} /\ Threshold \in Nat \ {0} /\ 0 \in Types
BY LifecycleAssumption DEF Types

\* gmk_sched_init: four ready queues, the array of the local queues, the local
\* queues, the event queue and the overflow bucket.
LEMMA SchedOrder ==
  /\ Len(Order("sched")) = NWorkers + 7 /\ DOMAIN Order("sched") = 1 .. NWorkers + 7
  /\ \A i \in 1 .. 4 : Order("sched")[i] = <<"rq", i>>
  /\ Order("sched")[5] = <<"lqs", 0>>
  /\ \A i \in Workers : Order("sched")[i + 5] = <<"lq", i>>
  /\ Order("sched")[NWorkers + 6] = <<"evq", 0>>
  /\ Order("sched")[NWorkers + 7] = <<"overflow", 0>>
<1> DEFINE R == {Rq[i] : i \in 1 .. 4} \cup {Lq[i] : i \in Workers} \cup {Lqs, Evq, Overflow}
           a == Rq \o <<Lqs>>
           b == a \o Lq
           e == <<Evq, Overflow>>
           c == b \o e
<1>1. NWorkers \in Nat
  BY Sizes
<1>2. /\ Rq \in [1 .. 4 -> R] /\ Lq \in [1 .. NWorkers -> R] /\ Lqs \in R /\ Evq \in R
      /\ Overflow \in R
  <2>1. DOMAIN Rq = 1 .. 4 /\ DOMAIN Lq = 1 .. NWorkers
    BY DEF Rq, Lq, Workers
  <2>2. Rq = [i \in 1 .. 4 |-> Rq[i]] /\ Lq = [i \in 1 .. NWorkers |-> Lq[i]]
    BY <2>1 DEF Rq, Lq, Workers
  <2>3. (\A i \in 1 .. 4 : Rq[i] \in R) /\ (\A i \in 1 .. NWorkers : Lq[i] \in R)
    BY DEF Workers
  <2>4. Rq \in [1 .. 4 -> R]
    BY <2>2, <2>3, Zenon
  <2>5. Lq \in [1 .. NWorkers -> R]
    BY <2>2, <2>3, Zenon
  <2> QED
    BY <2>4, <2>5
<1>3. /\ \A i \in 1 .. 4 : Rq[i] = <<"rq", i>>
      /\ \A i \in Workers : Lq[i] = <<"lq", i>>
      /\ Lqs = <<"lqs", 0>> /\ Evq = <<"evq", 0>> /\ Overflow = <<"overflow", 0>>
  BY DEF Rq, Lq, Lqs, Evq, Overflow
<1> HIDE DEF R
<1>4. Rq \in Seq(R) /\ Len(Rq) = 4
  <2>1. ASSUME NEW n \in Nat, NEW f \in [1 .. n -> R] PROVE f \in Seq(R) /\ Len(f) = n
    OBVIOUS
  <2>2. 4 \in Nat
    OBVIOUS
  <2> QED
    BY <1>2, <2>1, <2>2, Zenon
<1>5. Lq \in Seq(R) /\ Len(Lq) = NWorkers
  BY <1>1, <1>2
<1>6. <<Lqs>> \in Seq(R) /\ Len(<<Lqs>>) = 1 /\ <<Lqs>>[1] = Lqs
  BY <1>2
<1>7. e \in Seq(R) /\ Len(e) = 2 /\ e[1] = Evq /\ e[2] = Overflow
  BY <1>2
<1> HIDE DEF e
<1>8. /\ a \in Seq(R) /\ Len(a) = 5
      /\ \A i \in 1 .. 5 : a[i] = IF i <= 4 THEN Rq[i] ELSE <<Lqs>>[i - 4]
  <2>1. /\ Rq \o <<Lqs>> \in Seq(R) /\ Len(Rq \o <<Lqs>>) = Len(Rq) + Len(<<Lqs>>)
        /\ \A i \in 1 .. Len(Rq) + Len(<<Lqs>>) :
             (Rq \o <<Lqs>>)[i] = IF i <= Len(Rq) THEN Rq[i] ELSE <<Lqs>>[i - Len(Rq)]
    BY <1>4, <1>6, ConcatProperties, Zenon
  <2>2. Len(Rq) + Len(<<Lqs>>) = 5
    BY <1>4, <1>6
  <2> QED
    BY <1>4, <2>1, <2>2, Zenon
<1> HIDE DEF a
<1>9. /\ b \in Seq(R) /\ Len(b) = NWorkers + 5
      /\ \A i \in 1 .. NWorkers + 5 : b[i] = IF i <= 5 THEN a[i] ELSE Lq[i - 5]
  <2>1. /\ a \o Lq \in Seq(R) /\ Len(a \o Lq) = Len(a) + Len(Lq)
        /\ \A i \in 1 .. Len(a) + Len(Lq) :
             (a \o Lq)[i] = IF i <= Len(a) THEN a[i] ELSE Lq[i - Len(a)]
    BY <1>5, <1>8, ConcatProperties, Zenon
  <2>2. Len(a) + Len(Lq) = NWorkers + 5
    BY <1>1, <1>5, <1>8
  <2> QED
    BY <1>8, <2>1, <2>2, Zenon
<1> HIDE DEF b
<1>10. /\ c \in Seq(R) /\ Len(c) = NWorkers + 7
       /\ \A i \in 1 .. NWorkers + 7 :
            c[i] = IF i <= NWorkers + 5 THEN b[i] ELSE e[i - (NWorkers + 5)]
  <2>1. /\ b \o e \in Seq(R) /\ Len(b \o e) = Len(b) + Len(e)
        /\ \A i \in 1 .. Len(b) + Len(e) :
             (b \o e)[i] = IF i <= Len(b) THEN b[i] ELSE e[i - Len(b)]
    BY <1>7, <1>9, ConcatProperties, Zenon
  <2>2. Len(b) + Len(e) = NWorkers + 7
    BY <1>1, <1>7, <1>9
  <2> QED
    BY <1>9, <2>1, <2>2, Zenon
<1>11. Order("sched") = c
  BY DEF Order, a, b, e
<1> HIDE DEF c
<1>12. DOMAIN c = 1 .. NWorkers + 7
  BY <1>10
<1>13. ASSUME NEW i \in 1 .. 4 PROVE c[i] = <<"rq", i>>
  <2>1. /\ i \in 1 .. 5 /\ i \in 1 .. NWorkers + 5 /\ i \in 1 .. NWorkers + 7
        /\ i <= 4 /\ i <= 5 /\ i <= NWorkers + 5
    BY <1>1
  <2>2. c[i] = Rq[i]
    BY <1>8, <1>9, <1>10, <2>1
  <2> QED
    BY <1>3, <2>2
<1>14. c[5] = <<"lqs", 0>>
  BY <1>1, <1>3, <1>6, <1>8, <1>9, <1>10
<1>15. ASSUME NEW i \in Workers PROVE c[i + 5] = <<"lq", i>>
  <2>1. /\ i + 5 \in 1 .. NWorkers + 7 /\ i + 5 \in 1 .. NWorkers + 5 /\ ~(i + 5 <= 5)
        /\ (i + 5) - 5 = i /\ i + 5 <= NWorkers + 5
    BY <1>1 DEF Workers
  <2>2. c[i + 5] = Lq[i]
    BY <1>9, <1>10, <2>1
  <2> QED
    BY <1>3, <2>2
<1>16. c[NWorkers + 6] = <<"evq", 0>> /\ c[NWorkers + 7] = <<"overflow", 0>>
  <2>1. /\ NWorkers + 6 \in 1 .. NWorkers + 7 /\ NWorkers + 7 \in 1 .. NWorkers + 7
        /\ ~(NWorkers + 6 <= NWorkers + 5) /\ ~(NWorkers + 7 <= NWorkers + 5)
        /\ 1 = (NWorkers + 6) - (NWorkers + 5) /\ 2 = (NWorkers + 7) - (NWorkers + 5)
    BY <1>1
  <2>2. ASSUME NEW k \in 1 .. NWorkers + 7, ~(k <= NWorkers + 5),
               NEW j, j = k - (NWorkers + 5)
        PROVE  c[k] = e[j]
    BY <1>10, <2>2, Zenon
  <2>3. c[NWorkers + 6] = e[1]
    BY <2>1, <2>2, Zenon
  <2>4. c[NWorkers + 7] = e[2]
    BY <2>1, <2>2, Zenon
  <2> QED
    BY <1>3, <1>7, <2>3, <2>4
<1> QED
  BY <1>10, <1>11, <1>12, <1>13, <1>14, <1>15, <1>16

\* The other stages.
LEMMA OtherOrders ==
  /\ Len(Order("alloc")) = 1 /\ Order("alloc")[1] = <<"arena", 0>>
  /\ Len(Order("chan")) = 1 /\ Order("chan")[1] = <<"chan", 0>>
  /\ Len(Order("pool")) = 1 /\ Order("pool")[1] = <<"pool", 0>>
  /\ Len(Order("trace")) = NTenants /\ \A i \in 1 .. NTenants : Order("trace")[i] = <<"trace", i>>
  /\ DOMAIN Order("alloc") = 1 .. 1 /\ DOMAIN Order("chan") = 1 .. 1
  /\ DOMAIN Order("pool") = 1 .. 1 /\ DOMAIN Order("trace") = 1 .. NTenants
<1>1. NTenants \in Nat
  BY Sizes
<1>2. /\ Order("alloc") = <<Arena>> /\ Order("chan") = <<Dropped>> /\ Order("pool") = <<Pool>>
      /\ Order("trace") = TraceRing
  BY DEF Order
<1> QED
  BY <1>1, <1>2 DEF Arena, Dropped, Pool, TraceRing

\* A stage allocates nothing twice.
LEMMA OrderInjective ==
  ASSUME NEW st \in Stages, NEW i \in 1 .. Len(Order(st)), NEW j \in 1 .. Len(Order(st)),
         Order(st)[i] = Order(st)[j]
  PROVE  i = j
<1>1. CASE st # "sched"
  BY <1>1, OtherOrders DEF Stages
<1>2. CASE st = "sched"
  <2>1. NWorkers \in Nat
    BY Sizes
  <2>2. ASSUME NEW k \in 1 .. NWorkers + 7
        PROVE  \/ k \in 1 .. 4 /\ Order(st)[k] = <<"rq", k>>
               \/ k = 5 /\ Order(st)[k] = <<"lqs", 0>>
               \/ k - 5 \in Workers /\ Order(st)[k] = <<"lq", k - 5>>
               \/ k = NWorkers + 6 /\ Order(st)[k] = <<"evq", 0>>
               \/ k = NWorkers + 7 /\ Order(st)[k] = <<"overflow", 0>>
    <3>1. k \in 1 .. 4 \/ k = 5 \/ k - 5 \in Workers \/ k = NWorkers + 6 \/ k = NWorkers + 7
      BY <2>1 DEF Workers
    <3>2. k - 5 \in Workers => Order(st)[(k - 5) + 5] = <<"lq", k - 5>>
      BY <1>2, SchedOrder
    <3>3. (k - 5) + 5 = k
      BY <2>1
    <3> QED
      BY <1>2, <3>1, <3>2, <3>3, SchedOrder
  <2>3. i \in 1 .. NWorkers + 7 /\ j \in 1 .. NWorkers + 7
    BY <1>2, SchedOrder
  <2> QED
    BY <2>1, <2>2, <2>3 DEF Workers
<1> QED
  BY <1>1, <1>2

\* When an allocation of a stage fails, its init releases exactly what it has
\* allocated before.
LEMMA UndoExact ==
  ASSUME NEW st \in Stages, NEW i \in 1 .. Len(Order(st))
  PROVE  Undo(Order(st)[i]) = {Order(st)[j] : j \in 1 .. i - 1}
<1>1. NWorkers \in Nat \ {0} /\ NTenants \in Nat \ {0}
  BY Sizes
<1>2. CASE st \in {"alloc", "chan", "pool"}
  <2>1. i = 1 /\ Order(st)[i][1] \in {"arena", "chan", "pool"}
    <3>1. Len(Order(st)) = 1
      BY <1>2, OtherOrders
    <3>2. i = 1
      BY <3>1
    <3>3. Order(st)[1] \in {<<"arena", 0>>, <<"chan", 0>>, <<"pool", 0>>}
      BY <1>2, OtherOrders
    <3> QED
      BY <3>2, <3>3
  <2>2. Undo(Order(st)[i]) = {}
    BY <2>1 DEF Undo
  <2>3. 1 .. i - 1 = {}
    BY <2>1
  <2> QED
    BY <2>2, <2>3
<1>3. CASE st = "trace"
  <2>1. i \in 1 .. NTenants /\ Order(st)[i] = <<"trace", i>>
    BY <1>3, OtherOrders
  <2>2. Order(st)[i][1] = "trace" /\ Order(st)[i][2] = i
    BY <2>1
  <2>3. Undo(Order(st)[i]) = {TraceRing[j] : j \in 1 .. i - 1}
    BY <2>2 DEF Undo
  <2>4. Order(st) = TraceRing
    BY <1>3 DEF Order
  <2> QED
    BY <2>3, <2>4
<1>4. CASE st = "sched"
  <2> DEFINE q == Order("sched")
             P(m) == {q[j] : j \in 1 .. m}
  <2>1. /\ i \in 1 .. NWorkers + 7
        /\ \A j \in 1 .. 4 : q[j] = Rq[j]
        /\ q[5] = Lqs
        /\ \A j \in Workers : q[j + 5] = Lq[j]
        /\ q[NWorkers + 6] = Evq /\ q[NWorkers + 7] = Overflow
        /\ \A j \in 1 .. 4 : Rq[j] = <<"rq", j>>
        /\ \A j \in Workers : Lq[j] = <<"lq", j>>
    BY <1>4, SchedOrder DEF Rq, Lq, Lqs, Evq, Overflow
  <2> HIDE DEF q
  <2>2. \A m \in 0 .. 4 : P(m) = {Rq[j] : j \in 1 .. m}
    BY <2>1
  <2>3. ToSet(Rq) = P(4)
    <3>1. DOMAIN Rq = 1 .. 4
      BY DEF Rq
    <3>2. ToSet(Rq) = {Rq[j] : j \in 1 .. 4}
      BY <3>1, Zenon DEF ToSet
    <3>3. 4 \in 0 .. 4
      OBVIOUS
    <3> QED
      BY <2>2, <3>2, <3>3, Zenon
  <2>4. P(5) = P(4) \cup {Lqs}
    <3>1. 1 .. 5 = (1 .. 4) \cup {5}
      OBVIOUS
    <3>2. P(5) = P(4) \cup {q[5]}
      BY <3>1, Zenon
    <3> QED
      BY <2>1, <3>2
  <2>5. ASSUME NEW m \in 0 .. NWorkers PROVE P(m + 5) = P(5) \cup {Lq[j] : j \in 1 .. m}
    <3>1. ASSUME NEW x \in P(m + 5) PROVE x \in P(5) \cup {Lq[j] : j \in 1 .. m}
      <4>1. PICK j \in 1 .. m + 5 : x = q[j]
        OBVIOUS
      <4>2. CASE j <= 5
        BY <1>1, <4>1, <4>2
      <4>3. CASE ~(j <= 5)
        <5>1. j - 5 \in 1 .. m /\ j - 5 \in Workers /\ (j - 5) + 5 = j
          BY <1>1, <4>3 DEF Workers
        <5>2. q[(j - 5) + 5] = Lq[j - 5]
          BY <2>1, <5>1
        <5> QED
          BY <4>1, <5>1, <5>2
      <4> QED
        BY <4>2, <4>3
    <3>2. ASSUME NEW x \in P(5) PROVE x \in P(m + 5)
      BY <1>1
    <3>3. ASSUME NEW j \in 1 .. m PROVE Lq[j] \in P(m + 5)
      <4>1. j \in Workers /\ j + 5 \in 1 .. m + 5
        BY <1>1 DEF Workers
      <4> QED
        BY <2>1, <4>1
    <3> QED
      BY <3>1, <3>2, <3>3
  <2>6. P(NWorkers + 5) = P(5) \cup ToSet(Lq)
    <3>1. DOMAIN Lq = 1 .. NWorkers
      BY DEF Lq, Workers
    <3>2. ToSet(Lq) = {Lq[j] : j \in 1 .. NWorkers}
      BY <3>1, Zenon DEF ToSet
    <3>3. NWorkers \in 0 .. NWorkers
      BY <1>1
    <3> QED
      BY <2>5, <3>2, <3>3
  <2>7. P(NWorkers + 6) = P(NWorkers + 5) \cup {Evq}
    <3>1. 1 .. NWorkers + 6 = (1 .. NWorkers + 5) \cup {NWorkers + 6}
      BY <1>1
    <3>2. P(NWorkers + 6) = P(NWorkers + 5) \cup {q[NWorkers + 6]}
      BY <3>1, Zenon
    <3> QED
      BY <2>1, <3>2
  <2> HIDE DEF P
  <2>8. i \in 1 .. 4 \/ i = 5 \/ i - 5 \in Workers \/ i = NWorkers + 6 \/ i = NWorkers + 7
    BY <1>1, <2>1, SMTT(60) DEF Workers
  <2>9. CASE i \in 1 .. 4
    <3>1. q[i][1] = "rq" /\ q[i][2] = i
      BY <2>1, <2>9
    <3>2. Undo(q[i]) = {Rq[j] : j \in 1 .. i - 1}
      BY <3>1 DEF Undo
    <3>3. i - 1 \in 0 .. 4
      BY <2>9
    <3> QED
      BY <1>4, <2>2, <3>2, <3>3 DEF P, q
  <2>10. CASE i = 5
    <3>1. q[i][1] = "lqs"
      BY <2>1, <2>10 DEF Lqs
    <3>2. Undo(q[i]) = P(4) /\ i - 1 = 4
      BY <2>3, <2>10, <3>1 DEF Undo
    <3> QED
      BY <1>4, <3>2 DEF P, q
  <2>11. CASE i - 5 \in Workers
    <3>1. PICK k \in Workers : k = i - 5 /\ k + 5 = i /\ k - 1 \in 0 .. NWorkers /\ i - 1 = (k - 1) + 5
      BY <1>1, <2>1, <2>11 DEF Workers
    <3>2. q[i] = <<"lq", k>>
      BY <2>1, <3>1, SMTT(60)
    <3>3. q[i][1] = "lq" /\ q[i][2] = k
      BY <3>2
    <3>4. Undo(q[i]) = {Lq[j] : j \in 1 .. k - 1} \cup {Lqs} \cup ToSet(Rq)
      BY <3>3 DEF Undo
    <3>5. P((k - 1) + 5) = P(5) \cup {Lq[j] : j \in 1 .. k - 1}
      BY <2>5, <3>1
    <3>6. Undo(q[i]) = P((k - 1) + 5)
      BY <2>3, <2>4, <3>4, <3>5, Zenon
    <3>7. Undo(q[i]) = P(i - 1)
      BY <3>1, <3>6
    <3> QED
      BY <1>4, <3>7 DEF P, q
  <2>12. CASE i = NWorkers + 6
    <3>1. q[i][1] = "evq"
      BY <2>1, <2>12 DEF Evq
    <3>2. Undo(q[i]) = ToSet(Lq) \cup {Lqs} \cup ToSet(Rq)
      BY <3>1 DEF Undo
    <3>3. Undo(q[i]) = P(NWorkers + 5)
      BY <2>3, <2>4, <2>6, <3>2, Zenon
    <3>4. i - 1 = NWorkers + 5
      BY <1>1, <2>12
    <3> QED
      BY <1>4, <3>3, <3>4 DEF P, q
  <2>13. CASE i = NWorkers + 7
    <3>1. q[i][1] = "overflow"
      BY <2>1, <2>13 DEF Overflow
    <3>2. Undo(q[i]) = {Evq} \cup ToSet(Lq) \cup {Lqs} \cup ToSet(Rq)
      BY <3>1 DEF Undo
    <3>3. Undo(q[i]) = P(NWorkers + 6)
      BY <2>3, <2>4, <2>6, <2>7, <3>2, Zenon
    <3>4. i - 1 = NWorkers + 6
      BY <1>1, <2>13
    <3> QED
      BY <1>4, <3>3, <3>4 DEF P, q
  <2> QED
    BY <2>8, <2>9, <2>10, <2>11, <2>12, <2>13
<1> QED
  BY <1>2, <1>3, <1>4 DEF Stages

\* Every resource belongs to one stage.
LEMMA Groups ==
  /\ \A st \in Stages : /\ Len(Order(st)) \in Nat \ {0}
                        /\ \A i \in 1 .. Len(Order(st)) : Order(st)[i] \in Resources
                                                           /\ StageOf(Order(st)[i]) = st
  /\ \A st \in Stages \ {"chan"} : /\ ToSet(Order(st)) = {Order(st)[i] : i \in 1 .. Len(Order(st))}
                                   /\ ToSet(Order(st)) = {r \in Resources : StageOf(r) = st}
  /\ ChanRings = {r \in Resources : StageOf(r) = "chan"}
  /\ \A r \in Resources : StageOf(r) \in Stages
<1>1. NWorkers \in Nat \ {0} /\ NTenants \in Nat \ {0} /\ MaxModules \in Nat
  BY Sizes
<1>2. ASSUME NEW st \in Stages
      PROVE  Len(Order(st)) \in Nat \ {0} /\ DOMAIN Order(st) = 1 .. Len(Order(st))
  BY <1>1, SchedOrder, OtherOrders DEF Stages
<1>3. ASSUME NEW st \in Stages, NEW i \in 1 .. Len(Order(st))
      PROVE  StageOf(Order(st)[i]) = st
  <2>1. CASE st = "sched"
    <3>1. i \in 1 .. 4 \/ i = 5 \/ i - 5 \in Workers \/ i = NWorkers + 6 \/ i = NWorkers + 7
      BY <1>1, <2>1, SchedOrder DEF Workers
    <3>2. i - 5 \in Workers => Order(st)[(i - 5) + 5] = <<"lq", i - 5>> /\ (i - 5) + 5 = i
      BY <1>1, <2>1, SchedOrder, SMTT(60)
    <3>3. \E k : Order(st)[i] \in {<<"rq", k>>, <<"lqs", k>>, <<"lq", k>>, <<"evq", k>>, <<"overflow", k>>}
      BY <2>1, <3>1, <3>2, SchedOrder
    <3>4. Order(st)[i][1] \in {"rq", "lqs", "lq", "evq", "overflow"}
      BY <3>3
    <3> QED
      BY <2>1, <3>4 DEF StageOf
  <2>2. CASE st # "sched"
    <3>1. \/ st = "alloc" /\ Order(st)[i] = <<"arena", 0>>
          \/ st = "chan" /\ Order(st)[i] = <<"chan", 0>>
          \/ st = "pool" /\ Order(st)[i] = <<"pool", 0>>
          \/ st = "trace" /\ Order(st)[i] = <<"trace", i>>
      BY <1>1, <2>2, OtherOrders DEF Stages
    <3>2. \/ st = "alloc" /\ Order(st)[i][1] = "arena"
          \/ st = "chan" /\ Order(st)[i][1] = "chan"
          \/ st = "pool" /\ Order(st)[i][1] = "pool"
          \/ st = "trace" /\ Order(st)[i][1] = "trace"
      BY <3>1
    <3> QED
      BY <3>2 DEF StageOf
  <2> QED
    BY <2>1, <2>2
<1>4. ASSUME NEW r \in ChanRings PROVE StageOf(r) = "chan"
  <2>1. PICK i \in 0 .. MaxModules : r = <<"chan", i>>
    BY DEF ChanRings
  <2>2. r[1] = "chan"
    BY <2>1
  <2> QED
    BY <2>2 DEF StageOf
<1>5. ASSUME NEW st \in Stages
      PROVE  ToSet(Order(st)) = {Order(st)[i] : i \in 1 .. Len(Order(st))}
  BY <1>2, Zenon DEF ToSet
<1>6. ASSUME NEW st \in Stages, NEW i \in 1 .. Len(Order(st)) PROVE Order(st)[i] \in Resources
  <2>1. CASE st = "chan"
    <3>1. Order(st)[i] = <<"chan", 0>> /\ 0 \in 0 .. MaxModules
      BY <1>1, <2>1, OtherOrders
    <3> QED
      BY <3>1 DEF ChanRings, Resources
  <2>2. CASE st # "chan"
    <3>1. Order(st)[i] \in ToSet(Order(st))
      BY <1>5
    <3>2. st \in {"alloc", "trace", "sched", "pool"}
      BY <2>2 DEF Stages
    <3> QED
      BY <3>1, <3>2, Zenon DEF Resources
  <2> QED
    BY <2>1, <2>2
<1>7. ASSUME NEW r \in Resources
      PROVE  r \in ChanRings \/ \E st \in Stages \ {"chan"} : r \in ToSet(Order(st))
  <2>1. r \in ChanRings \/ \E st \in {"alloc", "trace", "sched", "pool"} : r \in ToSet(Order(st))
    BY Zenon DEF Resources
  <2> QED
    BY <2>1 DEF Stages
<1>8. ASSUME NEW st \in Stages, NEW r \in ToSet(Order(st)) PROVE StageOf(r) = st /\ r \in Resources
  BY <1>3, <1>5, <1>6
<1>9. \A r \in ChanRings : r \in Resources
  BY DEF Resources
<1>10. ChanRings = {r \in Resources : StageOf(r) = "chan"}
  BY <1>4, <1>7, <1>8, <1>9
<1>11. ASSUME NEW st \in Stages \ {"chan"}
       PROVE  ToSet(Order(st)) = {r \in Resources : StageOf(r) = st}
  BY <1>4, <1>7, <1>8
<1>12. \A r \in Resources : StageOf(r) \in Stages
  BY <1>4, <1>7, <1>8 DEF Stages
<1> QED
  BY <1>2, <1>3, <1>5, <1>6, <1>10, <1>11, <1>12

-----------------------------------------------------------------------------
(* The inductive invariant *)

WithWorkers == {"start", "up", "stop", "join", "abort", "abort_join", "fail_start"}
Unwinding == {"fail_pool", "fail_mod", "fail_chan", "fail_sched", "fail_metrics", "fail_trace", "dead"}
Labels == Stages \cup {"register", "init"} \cup WithWorkers \cup Unwinding

\* Before these labels nothing of a stage is there; from these on it is gone.
Early(g) == CASE g = "alloc" -> {}
              [] g = "trace" -> {"alloc"}
              [] g = "sched" -> {"alloc", "trace"}
              [] g = "chan" -> {"alloc", "trace", "sched"}
              [] g = "pool" -> {"alloc", "trace", "sched", "chan", "register", "init"}
Late(g) == CASE g = "alloc" -> {"dead"}
             [] g = "trace" -> {"dead", "fail_trace"}
             [] g = "sched" -> {"dead", "fail_trace", "fail_metrics", "fail_sched"}
             [] g = "chan" -> {"dead", "fail_trace", "fail_metrics", "fail_sched", "fail_chan"}
             [] g = "pool" -> Unwinding

\* Where the main thread is.
PlaceInv ==
  /\ mods \in ModLists /\ pc \in Labels /\ at \in Nat \ {0}
  /\ pc \in Stages => at <= Len(Order(pc))
  /\ pc \in {"register", "init", "fail_pool"} => at <= Len(mods)
  /\ pc \in {"start", "stop", "join", "abort", "abort_join"} => at <= NWorkers

\* What is allocated there.
ResOK(r) ==
  LET g == StageOf(r) IN
  /\ pc \in Early(g) => res[r] = "none"
  /\ pc = g => res[r] = IF r \in {Order(g)[j] : j \in 1 .. at - 1} THEN "live" ELSE "none"
  /\ pc \in ((Labels \ Early(g)) \ Late(g)) \ {g} =>
       res[r] \in IF g = "chan" THEN {"none", "live"} ELSE {"live"}
  /\ pc \in Late(g) => res[r] \in {"none", "freed"}
ResInv == /\ res \in [Resources -> {"none", "live", "freed", "twice"}]
          /\ \A r \in Resources : ResOK(r)

\* ResOK with the stage of r named.
LEMMA ResCases ==
  ASSUME PlaceInv, NEW r \in Resources, NEW g \in Stages, g = StageOf(r)
  PROVE  /\ ResOK(r) <=>
              /\ pc \in Early(g) => res[r] = "none"
              /\ pc = g => res[r] = IF r \in {Order(g)[j] : j \in 1 .. at - 1} THEN "live" ELSE "none"
              /\ pc \notin Early(g) /\ pc \notin Late(g) /\ pc # g =>
                   (res[r] = "live" \/ (g = "chan" /\ res[r] = "none"))
              /\ pc \in Late(g) => res[r] = "none" \/ res[r] = "freed"
<1>1. pc \in Labels
  BY DEF PlaceInv
<1> QED
  BY <1>1 DEF ResOK

LEMMA ResCasesNext ==
  ASSUME PlaceInv', NEW r \in Resources, NEW g \in Stages, g = StageOf(r)
  PROVE  /\ ResOK(r)' <=>
              /\ pc' \in Early(g) => res'[r] = "none"
              /\ pc' = g => res'[r] = IF r \in {Order(g)[j] : j \in 1 .. at' - 1} THEN "live" ELSE "none"
              /\ pc' \notin Early(g) /\ pc' \notin Late(g) /\ pc' # g =>
                   (res'[r] = "live" \/ (g = "chan" /\ res'[r] = "none"))
              /\ pc' \in Late(g) => res'[r] = "none" \/ res'[r] = "freed"
<1>1. pc' \in Labels
  BY DEF PlaceInv
<1> QED
  BY <1>1 DEF ResOK

LEMMA AllocateRes ==
  ASSUME PlaceInv, ResInv, PlaceInv', Allocate
  PROVE  ResInv'
<1>1. PICK st \in Stages : st = pc
  BY DEF Allocate, Following, Stages
<1>2. at \in 1 .. Len(Order(st)) /\ Len(Order(st)) \in Nat \ {0}
  BY <1>1, Groups DEF PlaceInv
<1>3. PICK q \in Resources : q = Order(st)[at] /\ StageOf(q) = st
  BY <1>2, Groups
<1>4. res' = [res EXCEPT ![q] = "live"] /\ DOMAIN res = Resources
  BY <1>1, <1>3 DEF Allocate, Get, ResInv
<1>5. \/ at # Len(Order(st)) /\ pc' = st /\ at' = at + 1
      \/ at = Len(Order(st)) /\ pc' = Following[st] /\ at' = 1
  BY <1>1 DEF Allocate, Goto, Stay
<1>6. /\ st = "alloc" => Following[st] = "trace"
      /\ st = "trace" => Following[st] = "sched"
      /\ st = "sched" => Following[st] = "chan"
      /\ st = "chan" => Following[st] \in {"register", "pool"}
      /\ st = "pool" => Following[st] = "start"
  BY DEF Following, OverModules
<1>7. ASSUME NEW r \in Resources PROVE ResOK(r)'
  <2>1. PICK g \in Stages : g = StageOf(r)
    BY Groups
  <2>2. ResOK(r)
    BY DEF ResInv
  <2>3. CASE g = st
    <3>1. res[r] = IF r \in {Order(g)[j] : j \in 1 .. at - 1} THEN "live" ELSE "none"
      BY <1>1, <2>1, <2>2, <2>3, ResCases
    <3>2. {Order(g)[j] : j \in 1 .. at} = {Order(g)[j] : j \in 1 .. at - 1} \cup {q}
      <4>1. 1 .. at = (1 .. at - 1) \cup {at}
        BY <1>2
      <4> QED
        BY <1>3, <2>3, <4>1, Zenon
    <3>3. res'[r] = IF r \in {Order(g)[j] : j \in 1 .. at} THEN "live" ELSE "none"
      BY <1>4, <3>1, <3>2
    <3>4. CASE pc' = st /\ at' = at + 1
      <4>1. at' - 1 = at
        BY <1>2, <3>4
      <4>2. pc' \notin Early(g) /\ pc' \notin Late(g)
        BY <2>3, <3>4 DEF Early, Late, Stages, Unwinding
      <4>3. res'[r] = IF r \in {Order(g)[j] : j \in 1 .. at' - 1} THEN "live" ELSE "none"
        BY <3>3, <4>1
      <4> QED
        BY <2>1, <2>3, <3>4, <4>2, <4>3, ResCasesNext
    <3>5. CASE at = Len(Order(st)) /\ pc' = Following[st]
      <4>1. pc' \notin Early(g) /\ pc' \notin Late(g) /\ pc' # g
        BY <1>6, <2>3, <3>5 DEF Early, Late, Stages, Unwinding
      <4>2. g # "chan" => r \in {Order(g)[j] : j \in 1 .. at}
        BY <2>1, <2>3, <3>5, Groups, ZenonT(60)
      <4>3. res'[r] = "live" \/ (g = "chan" /\ res'[r] = "none")
        BY <3>3, <4>2
      <4> QED
        BY <2>1, <4>1, <4>3, ResCasesNext
    <3> QED
      BY <1>5, <3>4, <3>5
  <2>4. CASE g # st
    <3>1. res'[r] = res[r]
      BY <1>3, <1>4, <2>1, <2>4
    <3>2. CASE pc' = st
      <4>1. pc' = pc /\ pc' # g
        BY <1>1, <2>4, <3>2
      <4> QED
        BY <2>1, <2>2, <3>1, <4>1, ResCases, ResCasesNext
    <3>3. CASE pc' = Following[st] /\ at' = 1
      <4>1. 1 .. at' - 1 = {}
        BY <3>3
      <4>2. {Order(g)[j] : j \in 1 .. at' - 1} = {}
        BY <4>1
      <4>3. /\ pc' \in Early(g) => pc \in Early(g)
            /\ pc' = g => pc \in Early(g)
            /\ pc' \notin Early(g) /\ pc' # g => pc \notin Early(g) /\ pc \notin Late(g) /\ pc # g
            /\ pc' \notin Late(g)
        BY <1>1, <1>6, <2>4, <3>3 DEF Early, Late, Stages, Unwinding
      <4> QED
        BY <2>1, <2>2, <3>1, <4>2, <4>3, ResCases, ResCasesNext
    <3> QED
      BY <1>5, <3>2, <3>3
  <2> QED
    BY <2>3, <2>4
<1>8. res' \in [Resources -> {"none", "live", "freed", "twice"}]
  BY <1>4 DEF ResInv
<1> QED
  BY <1>7, <1>8 DEF ResInv

\* A label whose place in the life of every stage allows what the last one had.
Onward(from, to) ==
  \A g \in Stages :
    /\ to \in Early(g) \/ to = g => from \in Early(g)
    /\ to \notin Early(g) /\ to # g /\ to \notin Late(g) =>
         from \notin Early(g) /\ from # g /\ from \notin Late(g)
    /\ to \in Late(g) => from \in Late(g) \/ from \in Early(g)

LEMMA OnwardKeeps ==
  ASSUME PlaceInv, PlaceInv', NEW r \in Resources, ResOK(r), res'[r] = res[r], at' = 1 \/ pc' \notin Stages,
         Onward(pc, pc')
  PROVE  ResOK(r)'
<1>1. PICK g \in Stages : g = StageOf(r)
  BY Groups
<1>2. pc' = g => {Order(g)[j] : j \in 1 .. at' - 1} = {}
  <2>1. SUFFICES ASSUME pc' = g PROVE {Order(g)[j] : j \in 1 .. at' - 1} = {}
    OBVIOUS
  <2>2. 1 .. at' - 1 = {}
    BY <2>1
  <2> QED
    BY <2>2
<1> QED
  BY <1>1, <1>2, ResCases, ResCasesNext DEF Onward

\* Steps that allocate and release nothing.
LEMMA QuietRes ==
  ASSUME PlaceInv, PlaceInv', ResInv, res' = res, at' = 1 \/ pc' \notin Stages,
         Onward(pc, pc')
  PROVE  ResInv'
BY OnwardKeeps DEF ResInv

LEMMA AllocateFailsRes ==
  ASSUME PlaceInv, ResInv, PlaceInv', AllocateFails
  PROVE  ResInv'
<1>1. PICK st \in Stages : st = pc
  BY DEF AllocateFails, Following, Stages
<1>2. at \in 1 .. Len(Order(st)) /\ Len(Order(st)) \in Nat \ {0}
  BY <1>1, Groups DEF PlaceInv
<1>3. PICK U : U = {Order(st)[j] : j \in 1 .. at - 1} /\ U = Undo(Order(st)[at])
  BY <1>2, UndoExact
<1>4. res' = [r \in Resources |-> IF r \notin U \/ res[r] = "none" THEN res[r]
                                  ELSE IF res[r] = "live" THEN "freed" ELSE "twice"]
  BY <1>1, <1>3 DEF AllocateFails, Drop
<1>5. /\ st = "alloc" => pc' = "dead"
      /\ st = "trace" => pc' = "fail_trace"
      /\ st = "sched" => pc' = "fail_sched"
      /\ st = "chan" => pc' = "fail_chan"
      /\ st = "pool" => pc' \in {"fail_pool", "fail_mod"}
  BY <1>1 DEF AllocateFails, OnFailure, OverModules, Goto
<1>6. \A r \in U : StageOf(r) = st
  BY <1>2, <1>3, Groups
<1>7. ASSUME NEW r \in Resources PROVE ResOK(r)'
  <2>1. PICK g \in Stages : g = StageOf(r)
    BY Groups
  <2>2. ResOK(r)
    BY DEF ResInv
  <2>3. CASE g = st
    <3>1. res[r] = IF r \in U THEN "live" ELSE "none"
      BY <1>1, <1>3, <2>1, <2>2, <2>3, ResCases, ZenonT(60)
    <3>2. res'[r] = "none" \/ res'[r] = "freed"
      BY <1>4, <3>1
    <3>3. pc' \in Late(g) /\ pc' \notin Early(g) /\ pc' # g
      BY <1>5, <2>3 DEF Early, Late, Stages, Unwinding
    <3> QED
      BY <2>1, <3>2, <3>3, ResCasesNext
  <2>4. CASE g # st
    <3>1. res'[r] = res[r]
      BY <1>4, <1>6, <2>1, <2>4
    <3>2. /\ pc' \notin Early(g) /\ pc' # g
          /\ pc' \notin Late(g) => pc \notin Early(g) /\ pc # g /\ pc \notin Late(g)
          /\ pc' \in Late(g) => pc \in Early(g)
      BY <1>1, <1>5, <2>4 DEF Early, Late, Stages, Unwinding
    <3> QED
      BY <2>1, <2>2, <3>1, <3>2, ResCases, ResCasesNext
  <2> QED
    BY <2>3, <2>4
<1>8. res' \in [Resources -> {"none", "live", "freed", "twice"}]
  BY <1>4 DEF ResInv
<1> QED
  BY <1>7, <1>8 DEF ResInv

\* A module's init may open a channel.
LEMMA InitModuleRes ==
  ASSUME PlaceInv, ResInv, PlaceInv', InitModule
  PROVE  ResInv'
<1>1. pc = "init" /\ (res' = res \/ res' = [res EXCEPT ![ChanRing(at)] = "live"])
      /\ ((pc' \in {"pool", "fail_mod"} /\ at' = 1) \/ pc' = "init")
  BY DEF InitModule, Get, Goto, Stay
<1>2. Onward(pc, pc') /\ (at' = 1 \/ pc' \notin Stages)
  BY <1>1 DEF Onward, Early, Late, Stages, Unwinding
<1>3. DOMAIN res = Resources
  BY DEF ResInv
<1>4. ASSUME NEW r \in Resources PROVE ResOK(r)'
  <2>1. ResOK(r)
    BY DEF ResInv
  <2>2. CASE res'[r] = res[r]
    BY <1>2, <2>1, <2>2, OnwardKeeps
  <2>3. CASE r = ChanRing(at) /\ res'[r] = "live"
    <3>1. r[1] = "chan"
      BY <2>3 DEF ChanRing
    <3>2. StageOf(r) = "chan" /\ "chan" \in Stages
      BY <3>1 DEF StageOf, Stages
    <3>3. /\ pc' \notin Early("chan") /\ pc' \notin Late("chan") /\ pc' # "chan"
      BY <1>1 DEF Early, Late
    <3> QED
      BY <2>3, <3>2, <3>3, ResCasesNext
  <2> QED
    BY <1>1, <1>3, <2>2, <2>3
<1>5. res' \in [Resources -> {"none", "live", "freed", "twice"}]
  BY <1>1 DEF ResInv
<1> QED
  BY <1>4, <1>5 DEF ResInv

LEMMA ReleaseRes ==
  ASSUME PlaceInv, ResInv, PlaceInv', Release
  PROVE  ResInv'
<1>1. PICK R : /\ R = Releases[pc]
               /\ res' = [r \in Resources |-> IF r \notin R \/ res[r] = "none" THEN res[r]
                                              ELSE IF res[r] = "live" THEN "freed" ELSE "twice"]
  BY DEF Release, Drop
<1>2. res' \in [Resources -> {"none", "live", "freed", "twice"}]
  BY <1>1 DEF ResInv
<1>3. \/ pc = "fail_start" /\ pc' \in {"fail_pool", "fail_mod"} /\ R = {Pool}
      \/ pc = "fail_mod" /\ pc' = "fail_chan" /\ R = ChanRings
      \/ pc = "fail_chan" /\ pc' = "fail_sched" /\ R = ToSet(Order("sched"))
      \/ pc = "fail_sched" /\ pc' = "fail_metrics" /\ R = {}
      \/ pc = "fail_metrics" /\ pc' = "fail_trace" /\ R = ToSet(TraceRing)
      \/ pc = "fail_trace" /\ pc' = "dead" /\ R = {Arena}
  BY <1>1 DEF Release, Releases, FallsTo, OverModules, Goto
<1>4. {Pool} = ToSet(Order("pool")) /\ ToSet(TraceRing) = ToSet(Order("trace"))
      /\ {Arena} = ToSet(Order("alloc"))
  <2>1. Order("pool") = <<Pool>> /\ Order("trace") = TraceRing /\ Order("alloc") = <<Arena>>
    BY DEF Order
  <2> QED
    BY <2>1 DEF ToSet
<1>5. \A r \in Resources :
        /\ r \in ToSet(Order("pool")) <=> StageOf(r) = "pool"
        /\ r \in ToSet(Order("trace")) <=> StageOf(r) = "trace"
        /\ r \in ToSet(Order("alloc")) <=> StageOf(r) = "alloc"
        /\ r \in ToSet(Order("sched")) <=> StageOf(r) = "sched"
        /\ r \in ChanRings <=> StageOf(r) = "chan"
  BY Groups DEF Stages
<1>6. ASSUME NEW r \in Resources PROVE ResOK(r)'
  <2>1. PICK g \in Stages : g = StageOf(r)
    BY Groups
  <2>2. ResOK(r)
    BY DEF ResInv
  <2>3. CASE r \notin R
    <3>1. res'[r] = res[r]
      BY <1>1, <2>3
    <3>2. /\ pc' \notin Early(g) /\ pc' # g
          /\ pc' \notin Late(g) => pc \notin Early(g) /\ pc # g /\ pc \notin Late(g)
          /\ pc' \in Late(g) => pc \in Late(g)
      BY <1>3, <1>4, <1>5, <2>1, <2>3 DEF Early, Late, Stages, Unwinding
    <3> QED
      BY <2>1, <2>2, <3>1, <3>2, ResCases, ResCasesNext
  <2>4. CASE r \in R
    <3>1. /\ pc' \notin Early(g) /\ pc' # g /\ pc' \in Late(g)
          /\ pc \notin Early(g) /\ pc # g /\ pc \notin Late(g)
      BY <1>3, <1>4, <1>5, <2>1, <2>4 DEF Early, Late, Stages, Unwinding
    <3>2. res[r] = "live" \/ res[r] = "none"
      BY <2>1, <2>2, <3>1, ResCases
    <3>3. res'[r] = IF res[r] = "none" THEN res[r] ELSE IF res[r] = "live" THEN "freed" ELSE "twice"
      BY <1>1, <2>4
    <3>4. res'[r] = "none" \/ res'[r] = "freed"
      BY <3>2, <3>3
    <3> QED
      BY <2>1, <3>1, <3>4, ResCasesNext
  <2> QED
    BY <2>3, <2>4
<1> QED
  BY <1>2, <1>6 DEF ResInv

\* The main thread's place.
LEMMA PlaceNext ==
  ASSUME PlaceInv, MainStep \/ Halt
  PROVE  PlaceInv'
<1> DEFINE L == Len(mods)
<1>1. /\ mods \in ModLists /\ pc \in Labels /\ at \in Nat \ {0} /\ mods' = mods
  BY DEF PlaceInv, MainStep, Halt, Allocate, AllocateFails, Register, InitModule, StartWorker,
       StartFails, AbortStop, AbortJoin, HaltStop, HaltJoin, Release, FiniModule
<1>2. L \in Nat /\ (mods # <<>> => L >= 1)
  <2>1. mods \in Seq(Seq(Nat))
    BY <1>1, LifecycleAssumption
  <2> QED
    BY <2>1
<1>3. NWorkers \in Nat \ {0} /\ \A st \in Stages : Len(Order(st)) \in Nat \ {0}
  BY Sizes, Groups
<1> HIDE DEF L
<1>4. SUFFICES /\ pc' \in Labels /\ at' \in Nat \ {0}
               /\ pc' \in Stages => at' <= Len(Order(pc'))
               /\ pc' \in {"register", "init", "fail_pool"} => at' <= L
               /\ pc' \in {"start", "stop", "join", "abort", "abort_join"} => at' <= NWorkers
  BY <1>1 DEF PlaceInv, L
<1>5. CASE Allocate
  <2>1. PICK st \in Stages : st = pc
    BY <1>5 DEF Allocate, Following, Stages
  <2>2. at \in Nat \ {0} /\ at <= Len(Order(st))
    BY <2>1 DEF PlaceInv
  <2>3. \/ at # Len(Order(st)) /\ pc' = st /\ at' = at + 1
        \/ at = Len(Order(st)) /\ pc' = Following[st] /\ at' = 1
    BY <1>5, <2>1 DEF Allocate, Goto, Stay
  <2>4. CASE at # Len(Order(st)) /\ pc' = st /\ at' = at + 1
    <3>1. at + 1 <= Len(Order(st)) /\ at + 1 \in Nat \ {0}
      BY <1>3, <2>2, <2>4
    <3> QED
      BY <2>4, <3>1 DEF Labels, Stages
  <2>5. CASE pc' = Following[st] /\ at' = 1
    <3>1. \/ Following[st] \in Stages \cup {"start"}
          \/ Following[st] = "register" /\ mods # <<>>
      BY DEF Following, OverModules, Stages
    <3> QED
      BY <1>2, <1>3, <2>5, <3>1 DEF Labels, Stages, WithWorkers
  <2> QED
    BY <2>3, <2>4, <2>5
<1>6. CASE AllocateFails
  <2>1. pc' \in {"dead", "fail_trace", "fail_sched", "fail_chan", "fail_mod"} \cup {x \in {"fail_pool"} : mods # <<>>}
        /\ at' = 1
    BY <1>6 DEF AllocateFails, OnFailure, OverModules, Goto, Following
  <2> QED
    BY <1>2, <2>1 DEF Labels, Stages, Unwinding
<1>7. CASE Register
  <2>1. at <= L /\ pc = "register"
    BY <1>7 DEF Register, PlaceInv, L
  <2>2. \/ pc' = "fail_mod" /\ at' = 1
        \/ at = L /\ pc' = "init" /\ at' = 1
        \/ at # L /\ pc' = pc /\ at' = at + 1
    BY <1>7 DEF Register, Goto, Stay, L
  <2> QED
    BY <1>1, <1>2, <2>1, <2>2 DEF Labels, Stages, Unwinding
<1>8. CASE InitModule
  <2>1. at <= L /\ pc = "init"
    BY <1>8 DEF InitModule, PlaceInv, L
  <2>2. \/ pc' = "fail_mod" /\ at' = 1
        \/ at = L /\ pc' = "pool" /\ at' = 1
        \/ at # L /\ pc' = pc /\ at' = at + 1
    BY <1>8 DEF InitModule, Goto, Stay, L
  <2> QED
    BY <1>1, <1>2, <1>3, <2>1, <2>2 DEF Labels, Stages, Unwinding
<1>9. CASE StartWorker \/ HaltStop \/ HaltJoin
  <2>1. at <= NWorkers /\ pc \in {"start", "stop", "join"}
    BY <1>9 DEF StartWorker, HaltStop, HaltJoin, PlaceInv
  <2>2. \/ at = NWorkers /\ pc' \in {"up", "join", "fail_start"} /\ at' = 1
        \/ at # NWorkers /\ pc' = pc /\ at' = at + 1
    BY <1>9 DEF StartWorker, HaltStop, HaltJoin, Goto, Stay
  <2> QED
    BY <1>1, <1>3, <2>1, <2>2 DEF Labels, Stages, WithWorkers
<1>10. CASE StartFails \/ Halt
  <2>1. pc' \in {"fail_start", "abort", "stop"} /\ at' = 1
    BY <1>10 DEF StartFails, Halt, Goto
  <2> QED
    BY <1>3, <2>1 DEF Labels, Stages, WithWorkers
<1>11. CASE AbortStop
  <2>1. pc = "abort" /\ pc' = "abort_join" /\ at' = at
    BY <1>11 DEF AbortStop
  <2> QED
    BY <1>1, <2>1 DEF Labels, Stages, WithWorkers, PlaceInv
<1>12. CASE AbortJoin
  <2>1. \/ pc' = "abort" /\ at' = at + 1 /\ at < NWorkers
        \/ pc' = "fail_start" /\ at' = 1
    BY <1>12 DEF AbortJoin, Goto
  <2> QED
    BY <1>1, <1>3, <2>1 DEF Labels, Stages, WithWorkers
<1>13. CASE Release
  <2>1. pc' \in {"fail_mod", "fail_chan", "fail_sched", "fail_metrics", "fail_trace", "dead"}
                 \cup {x \in {"fail_pool"} : mods # <<>>} /\ at' = 1
    BY <1>13 DEF Release, Releases, FallsTo, OverModules, Goto
  <2> QED
    BY <1>2, <2>1 DEF Labels, Stages, Unwinding
<1>14. CASE FiniModule
  <2>1. at <= L /\ pc = "fail_pool"
    BY <1>14 DEF FiniModule, PlaceInv, L
  <2>2. \/ pc' = "fail_mod" /\ at' = 1
        \/ at # L /\ pc' = pc /\ at' = at + 1
    BY <1>14 DEF FiniModule, Goto, Stay, L
  <2> QED
    BY <1>1, <1>2, <2>1, <2>2 DEF Labels, Stages, Unwinding
<1> QED
  BY <1>5, <1>6, <1>7, <1>8, <1>9, <1>10, <1>11, <1>12, <1>13, <1>14 DEF MainStep

LEMMA ResNext ==
  ASSUME PlaceInv, ResInv, MainStep \/ Halt
  PROVE  ResInv'
<1>1. PlaceInv'
  BY PlaceNext
<1>2. CASE Register
  <2>1. pc = "register" /\ pc' \in {"register", "init", "fail_mod"} /\ res' = res
    BY <1>2 DEF Register, Goto, Stay
  <2>2. Onward(pc, pc') /\ pc' \notin Stages
    BY <2>1 DEF Onward, Early, Late, Stages, Unwinding
  <2> QED
    BY <1>1, <2>1, <2>2, QuietRes
<1>3. CASE FiniModule
  <2>1. pc = "fail_pool" /\ pc' \in {"fail_pool", "fail_mod"} /\ res' = res
    BY <1>3 DEF FiniModule, Goto, Stay
  <2>2. Onward(pc, pc') /\ pc' \notin Stages
    BY <2>1 DEF Onward, Early, Late, Stages, Unwinding
  <2> QED
    BY <1>1, <2>1, <2>2, QuietRes
<1>4. CASE StartWorker \/ StartFails \/ AbortStop \/ AbortJoin \/ HaltStop \/ HaltJoin \/ Halt
  <2>1. pc \in WithWorkers /\ pc' \in WithWorkers /\ res' = res
    BY <1>4 DEF StartWorker, StartFails, AbortStop, AbortJoin, HaltStop, HaltJoin, Halt, Goto,
         Stay, WithWorkers
  <2>2. Onward(pc, pc') /\ pc' \notin Stages
    BY <2>1 DEF Onward, Early, Late, Stages, Unwinding, WithWorkers
  <2> QED
    BY <1>1, <2>1, <2>2, QuietRes
<1> QED
  BY <1>1, <1>2, <1>3, <1>4, AllocateRes, AllocateFailsRes, InitModuleRes, ReleaseRes DEF MainStep

-----------------------------------------------------------------------------
(* The modules, initialised in order and finalised in reverse *)

Up(n) == [i \in 1 .. n |-> i]
Down(n, top) == [i \in 1 .. n |-> top - i + 1]

SeqInv ==
  /\ pc \in {"alloc", "trace", "sched", "chan", "register"} => inited = <<>> /\ finied = <<>>
  /\ pc = "init" => inited = Up(at - 1) /\ finied = <<>>
  /\ pc \in {"pool"} \cup WithWorkers => inited = Up(Len(mods)) /\ finied = <<>>
  /\ pc = "fail_pool" => inited = Up(Len(mods)) /\ finied = Down(at - 1, Len(mods))
  /\ pc \in Unwinding \ {"fail_pool"} =>
       \/ inited = Up(Len(mods)) /\ finied = Down(Len(mods), Len(mods))
       \/ \E k \in 0 .. Len(mods) - 1 : inited = Up(k) /\ finied = <<>>

LEMMA UpDown ==
  /\ Up(0) = <<>> /\ \A top : Down(0, top) = <<>>
  /\ \A n \in Nat : Up(n) \in Seq(Nat) /\ Len(Up(n)) = n /\ Append(Up(n), n + 1) = Up(n + 1)
  /\ \A top, n \in Nat : Append(Down(n, top), top - n) = Down(n + 1, top)
  /\ \A n \in Nat : Reverse(Up(n)) = Down(n, n)
<1>1. Up(0) = <<>> /\ \A top : Down(0, top) = <<>>
  BY DEF Up, Down
<1>2. ASSUME NEW n \in Nat PROVE Up(n) \in Seq(Nat) /\ Len(Up(n)) = n
  BY DEF Up
<1>3. ASSUME NEW n \in Nat PROVE Append(Up(n), n + 1) = Up(n + 1)
  BY DEF Up
<1>4. ASSUME NEW n \in Nat, NEW top \in Nat PROVE Append(Down(n, top), top - n) = Down(n + 1, top)
  BY DEF Down
<1>5. ASSUME NEW n \in Nat PROVE Reverse(Up(n)) = Down(n, n)
  BY <1>2 DEF Up, Down, Reverse
<1> QED
  BY <1>1, <1>2, <1>3, <1>4, <1>5

LEMMA SeqNext ==
  ASSUME PlaceInv, SeqInv, MainStep \/ Halt
  PROVE  SeqInv'
<1> DEFINE L == Len(mods)
<1>1. mods' = mods /\ mods \in Seq(Seq(Nat)) /\ at \in Nat \ {0} /\ pc \in Labels
  BY LifecycleAssumption DEF PlaceInv, MainStep, Halt, Allocate, AllocateFails, Register,
       InitModule, StartWorker, StartFails, AbortStop, AbortJoin, HaltStop, HaltJoin, Release, FiniModule
<1>2. L \in Nat /\ (mods = <<>> => L = 0) /\ (mods # <<>> => L >= 1)
  BY <1>1
<1>3. L = 0 => Up(L) = <<>> /\ Down(L, L) = <<>>
  BY UpDown
<1>4. CASE Allocate
  <2>1. /\ UNCHANGED <<inited, finied>>
        /\ pc \in Stages /\ (pc' = pc \/ pc' = Following[pc])
    BY <1>4 DEF Allocate, registry, Goto, Stay, Following, Stages
  <2>2. CASE pc = "pool"
    <3>1. pc' \in {"pool", "start"}
      BY <2>1, <2>2 DEF Following
    <3> QED
      BY <1>1, <2>1, <2>2, <3>1 DEF SeqInv, WithWorkers, Unwinding
  <2>3. CASE pc # "pool"
    <3>1. inited = <<>> /\ finied = <<>>
      BY <2>1, <2>3 DEF SeqInv, Stages
    <3>2. pc' \in {"alloc", "trace", "sched", "chan", "register"} \/ (pc' = "pool" /\ mods = <<>>)
      BY <2>1, <2>3 DEF Following, OverModules, Stages
    <3> QED
      BY <1>1, <1>2, <1>3, <2>1, <3>1, <3>2 DEF SeqInv, WithWorkers, Unwinding
  <2> QED
    BY <2>2, <2>3
<1>5. CASE AllocateFails
  <2>1. /\ UNCHANGED <<inited, finied>> /\ at' = 1
        /\ pc \in Stages /\ pc' = OnFailure[pc]
    BY <1>5 DEF AllocateFails, registry, Goto, Following, Stages
  <2>2. CASE pc = "pool"
    <3>1. pc' = "fail_pool" \/ (pc' = "fail_mod" /\ mods = <<>>)
      BY <2>1, <2>2 DEF OnFailure, OverModules
    <3>2. inited = Up(L) /\ finied = <<>>
      BY <2>2 DEF SeqInv
    <3>3. at' - 1 = 0 /\ Down(0, L) = <<>>
      BY <2>1, UpDown
    <3> QED
      BY <1>1, <1>2, <1>3, <2>1, <3>1, <3>2, <3>3 DEF SeqInv, WithWorkers, Unwinding
  <2>3. CASE pc # "pool"
    <3>1. inited = <<>> /\ finied = <<>>
      BY <2>1, <2>3 DEF SeqInv, Stages
    <3>2. pc' \in {"dead", "fail_trace", "fail_sched", "fail_chan"}
      BY <2>1, <2>3 DEF OnFailure, Stages
    <3>3. inited = Up(0) /\ (L = 0 \/ 0 \in 0 .. L - 1)
      BY <1>2, <3>1, UpDown
    <3> QED
      BY <1>1, <1>3, <2>1, <3>1, <3>2, <3>3 DEF SeqInv, WithWorkers, Unwinding
  <2> QED
    BY <2>2, <2>3
<1>6. CASE Register
  <2>1. /\ pc = "register" /\ UNCHANGED <<inited, finied>> /\ inited = <<>> /\ finied = <<>>
        /\ at <= L
        /\ (pc' = "register" \/ (pc' = "init" /\ at' = 1) \/ pc' = "fail_mod")
    BY <1>6 DEF Register, Goto, Stay, SeqInv, PlaceInv
  <2>2. inited = Up(0) /\ 0 \in 0 .. L - 1 /\ 1 - 1 = 0
    BY <1>1, <1>2, <2>1, UpDown
  <2> QED
    BY <1>1, <2>1, <2>2 DEF SeqInv, WithWorkers, Unwinding
<1>7. CASE InitModule
  <2>1. /\ pc = "init" /\ inited = Up(at - 1) /\ finied = <<>> /\ finied' = finied /\ at <= L
    BY <1>7 DEF InitModule, SeqInv, PlaceInv
  <2>2. \/ inited' = Append(inited, at) /\ at = L /\ pc' = "pool"
        \/ inited' = Append(inited, at) /\ pc' = "init" /\ at' = at + 1
        \/ inited' = inited /\ pc' = "fail_mod"
    BY <1>7 DEF InitModule, Goto, Stay
  <2>3. at - 1 \in Nat /\ (at - 1) + 1 = at /\ (at + 1) - 1 = at /\ at - 1 \in 0 .. L - 1
    BY <1>1, <1>2, <2>1
  <2>4. Append(inited, at) = Up(at)
    BY <2>1, <2>3, UpDown
  <2> QED
    BY <1>1, <2>1, <2>2, <2>3, <2>4 DEF SeqInv, WithWorkers, Unwinding
<1>8. CASE StartWorker \/ StartFails \/ AbortStop \/ AbortJoin \/ HaltStop \/ HaltJoin \/ Halt
  <2>1. pc \in WithWorkers /\ pc' \in WithWorkers /\ UNCHANGED <<inited, finied>>
    BY <1>8 DEF StartWorker, StartFails, AbortStop, AbortJoin, HaltStop, HaltJoin, Halt, Goto,
         Stay, WithWorkers, registry
  <2> QED
    BY <1>1, <2>1 DEF SeqInv, WithWorkers, Unwinding
<1>9. CASE Release
  <2>1. UNCHANGED <<inited, finied>> /\ at' = 1
    BY <1>9 DEF Release, Goto, registry
  <2>2. \/ pc = "fail_start" /\ (pc' = "fail_pool" \/ (pc' = "fail_mod" /\ mods = <<>>))
        \/ pc \in Unwinding \ {"fail_pool"} /\ pc' \in Unwinding \ {"fail_pool"}
    BY <1>9 DEF Release, Releases, FallsTo, OverModules, Goto, Unwinding
  <2>3. CASE pc = "fail_start"
    <3>1. inited = Up(L) /\ finied = <<>>
      BY <2>3 DEF SeqInv, WithWorkers
    <3>2. at' - 1 = 0 /\ Down(0, L) = <<>>
      BY <2>1, UpDown
    <3> QED
      BY <1>1, <1>2, <1>3, <2>1, <2>2, <2>3, <3>1, <3>2 DEF SeqInv, WithWorkers, Unwinding
  <2>4. CASE pc \in Unwinding \ {"fail_pool"} /\ pc' \in Unwinding \ {"fail_pool"}
    BY <1>1, <2>1, <2>4 DEF SeqInv, WithWorkers, Unwinding
  <2> QED
    BY <2>2, <2>3, <2>4
<1>10. CASE FiniModule
  <2>1. /\ pc = "fail_pool" /\ inited = Up(L) /\ finied = Down(at - 1, L) /\ inited' = inited
        /\ finied' = Append(finied, L - at + 1) /\ at <= L
    BY <1>10 DEF FiniModule, SeqInv, PlaceInv
  <2>2. \/ at = L /\ pc' = "fail_mod"
        \/ pc' = "fail_pool" /\ at' = at + 1
    BY <1>10 DEF FiniModule, Goto, Stay
  <2>3. /\ at - 1 \in Nat /\ (at - 1) + 1 = at /\ (at + 1) - 1 = at /\ L - at + 1 = L - (at - 1)
    BY <1>1, <1>2, <2>1
  <2>4. finied' = Down(at, L)
    BY <1>2, <2>1, <2>3, UpDown
  <2> QED
    BY <1>1, <2>1, <2>2, <2>3, <2>4 DEF SeqInv, WithWorkers, Unwinding
<1> QED
  BY <1>4, <1>5, <1>6, <1>7, <1>8, <1>9, <1>10 DEF MainStep

-----------------------------------------------------------------------------
(* The worker threads *)

WorkInv ==
  /\ DOMAIN wpc = Workers
  /\ pc \in Stages \cup {"register", "init"} => \A w \in Workers : wpc[w] = "none"
  /\ pc = "start" => \A w \in Workers : w >= at <=> wpc[w] = "none"
  /\ pc \in {"up", "stop", "join"} => \A w \in Workers : wpc[w] # "none"
  /\ pc \in {"join", "abort", "abort_join"} => \A w \in Workers : w < at => wpc[w] = "gone"
  /\ pc \in {"abort", "abort_join"} => /\ wpc[at] # "none"
                                       /\ \A v, w \in Workers : v < w /\ wpc[v] = "none" => wpc[w] = "none"
  /\ pc \in Unwinding \cup {"fail_start"} => \A w \in Workers : wpc[w] \in {"none", "gone"}

LEMMA WorkMain ==
  ASSUME PlaceInv, WorkInv, MainStep \/ Halt
  PROVE  WorkInv'
<1>1. at \in Nat \ {0} /\ pc \in Labels /\ NWorkers \in Nat \ {0} /\ DOMAIN wpc = Workers
      /\ Workers = 1 .. NWorkers
  BY Sizes DEF PlaceInv, WorkInv, Workers
<1>2. CASE Allocate \/ AllocateFails
  <2>1. pc \in Stages /\ wpc' = wpc
    BY <1>2 DEF Allocate, AllocateFails, Following, Stages, workers
  <2>2. pc' \in Stages \cup {"register"} \cup Unwinding \/ (pc' = "start" /\ at' = 1)
    BY <1>2 DEF Allocate, AllocateFails, Following, OnFailure, OverModules, Goto, Stay, Stages, Unwinding
  <2>3. \A w \in Workers : wpc[w] = "none"
    BY <2>1 DEF WorkInv
  <2>4. \A w \in Workers : w >= 1
    BY <1>1
  <2> QED
    BY <1>1, <2>1, <2>2, <2>3, <2>4 DEF WorkInv, Stages, Unwinding
<1>3. CASE Register \/ InitModule
  <2>1. pc \in {"register", "init"} /\ wpc' = wpc /\ pc' \in {"register", "init", "fail_mod", "pool"}
    BY <1>3 DEF Register, InitModule, Goto, Stay, workers
  <2>2. \A w \in Workers : wpc[w] = "none"
    BY <2>1 DEF WorkInv
  <2> QED
    BY <1>1, <2>1, <2>2 DEF WorkInv, Stages, Unwinding
<1>4. CASE StartWorker
  <2>1. /\ pc = "start" /\ wpc' = [wpc EXCEPT ![at] = "top"] /\ at \in Workers
        /\ ((at = NWorkers /\ pc' = "up") \/ (pc' = "start" /\ at' = at + 1))
    BY <1>1, <1>4 DEF StartWorker, Goto, Stay, PlaceInv
  <2>2. \A w \in Workers : w >= at <=> wpc[w] = "none"
    BY <2>1 DEF WorkInv
  <2>3. \A w \in Workers : w >= at + 1 <=> wpc'[w] = "none"
    BY <1>1, <2>1, <2>2
  <2>4. at = NWorkers => \A w \in Workers : wpc'[w] # "none"
    BY <1>1, <2>3
  <2> QED
    BY <1>1, <2>1, <2>3, <2>4 DEF WorkInv, Stages, Unwinding
<1>5. CASE StartFails
  <2>1. /\ pc = "start" /\ wpc' = wpc /\ at' = 1
        /\ ((at = 1 /\ pc' = "fail_start") \/ (at # 1 /\ pc' = "abort"))
    BY <1>5 DEF StartFails, Goto
  <2>2. \A w \in Workers : w >= at <=> wpc[w] = "none"
    BY <2>1 DEF WorkInv
  <2>3. at = 1 => \A w \in Workers : wpc[w] = "none"
    BY <1>1, <2>2
  <2>4. at # 1 => wpc[1] # "none"
    BY <1>1, <2>2
  <2>5. \A v, w \in Workers : v < w /\ wpc[v] = "none" => wpc[w] = "none"
    BY <1>1, <2>2
  <2>6. \A w \in Workers : ~(w < 1)
    BY <1>1
  <2> QED
    BY <1>1, <2>1, <2>3, <2>4, <2>5, <2>6 DEF WorkInv, Stages, Unwinding
<1>6. CASE AbortStop
  <2>1. pc = "abort" /\ wpc' = wpc /\ at' = at /\ pc' = "abort_join"
    BY <1>6 DEF AbortStop
  <2> QED
    BY <1>1, <2>1 DEF WorkInv, Stages, Unwinding
<1>7. CASE AbortJoin
  <2>1. /\ pc = "abort_join" /\ wpc' = wpc /\ wpc[at] = "gone"
        /\ \/ pc' = "abort" /\ at' = at + 1 /\ at < NWorkers /\ wpc[at + 1] # "none"
           \/ pc' = "fail_start" /\ (at < NWorkers => wpc[at + 1] = "none")
    BY <1>7 DEF AbortJoin, Goto, workers
  <2>2. /\ \A w \in Workers : w < at => wpc[w] = "gone"
        /\ \A v, w \in Workers : v < w /\ wpc[v] = "none" => wpc[w] = "none"
        /\ at <= NWorkers
    BY <2>1 DEF WorkInv, PlaceInv
  <2>3. \A w \in Workers : w < at + 1 => wpc[w] = "gone"
    BY <1>1, <2>1, <2>2
  <2>4. CASE pc' = "abort" /\ at' = at + 1 /\ wpc[at + 1] # "none"
    BY <1>1, <2>1, <2>2, <2>3, <2>4 DEF WorkInv, Stages, Unwinding
  <2>5. CASE pc' = "fail_start" /\ (at < NWorkers => wpc[at + 1] = "none")
    <3>1. ASSUME NEW w \in Workers PROVE wpc[w] \in {"none", "gone"}
      <4>1. CASE w < at + 1
        BY <2>3, <4>1
      <4>2. CASE w = at + 1
        BY <1>1, <2>5, <4>2
      <4>3. CASE w > at + 1
        <5>1. at + 1 \in Workers /\ at < NWorkers
          BY <1>1, <4>3
        <5> QED
          BY <1>1, <2>2, <2>5, <4>3, <5>1
      <4> QED
        BY <1>1, <4>1, <4>2, <4>3
    <3> QED
      BY <1>1, <2>1, <2>5, <3>1 DEF WorkInv, Stages, Unwinding
  <2> QED
    BY <2>1, <2>4, <2>5
<1>8. CASE HaltStop \/ Halt
  <2>1. /\ pc \in {"up", "stop"} /\ wpc' = wpc
        /\ (pc' = "stop" \/ (pc' = "join" /\ at' = 1))
    BY <1>8 DEF HaltStop, Halt, Goto, Stay, workers
  <2>2. \A w \in Workers : ~(w < 1)
    BY <1>1
  <2> QED
    BY <1>1, <2>1, <2>2 DEF WorkInv, Stages, Unwinding
<1>9. CASE HaltJoin
  <2>1. /\ pc = "join" /\ wpc' = wpc /\ wpc[at] = "gone"
        /\ ((at = NWorkers /\ pc' = "fail_start") \/ (pc' = "join" /\ at' = at + 1))
    BY <1>9 DEF HaltJoin, Goto, Stay, workers
  <2>2. /\ \A w \in Workers : w < at => wpc[w] = "gone"
        /\ \A w \in Workers : wpc[w] # "none"
    BY <2>1 DEF WorkInv
  <2>3. \A w \in Workers : w < at + 1 => wpc[w] = "gone"
    BY <1>1, <2>1, <2>2
  <2>4. at = NWorkers => \A w \in Workers : wpc[w] = "gone"
    BY <1>1, <2>3
  <2> QED
    BY <1>1, <2>1, <2>2, <2>3, <2>4 DEF WorkInv, Stages, Unwinding
<1>10. CASE Release \/ FiniModule
  <2>1. pc \in Unwinding \cup {"fail_start"} /\ pc' \in Unwinding /\ wpc' = wpc
    BY <1>10 DEF Release, FiniModule, Releases, FallsTo, OverModules, Goto, Stay, Unwinding, workers
  <2> QED
    BY <1>1, <2>1 DEF WorkInv, Stages, Unwinding
<1> QED
  BY <1>2, <1>3, <1>4, <1>5, <1>6, <1>7, <1>8, <1>9, <1>10 DEF MainStep

\* A worker moves only while its thread exists, and it does not come back.
LEMMA WorkStep ==
  ASSUME PlaceInv, WorkInv, NEW w \in Workers, wpc[w] \notin {"none", "gone"},
         UNCHANGED <<pc, at>>, DOMAIN wpc' = Workers, wpc'[w] # "none",
         \A v \in Workers \ {w} : wpc'[v] = wpc[v]
  PROVE  WorkInv'
<1>1. pc \notin Stages \cup {"register", "init"} /\ pc \notin Unwinding \cup {"fail_start"}
  BY DEF WorkInv
<1>2. pc = "start" => \A v \in Workers : v >= at <=> wpc'[v] = "none"
  BY DEF WorkInv
<1>3. pc \in {"up", "stop", "join"} => \A v \in Workers : wpc'[v] # "none"
  BY DEF WorkInv
<1>4. pc \in {"join", "abort", "abort_join"} => \A v \in Workers : v < at => wpc'[v] = "gone"
  BY DEF WorkInv
<1>5. pc \in {"abort", "abort_join"} =>
        /\ wpc'[at] # "none"
        /\ \A u, v \in Workers : u < v /\ wpc'[u] = "none" => wpc'[v] = "none"
  <2>1. SUFFICES ASSUME pc \in {"abort", "abort_join"}
        PROVE  /\ wpc'[at] # "none"
               /\ \A u, v \in Workers : u < v /\ wpc'[u] = "none" => wpc'[v] = "none"
    OBVIOUS
  <2>2. at \in Workers
    BY <2>1, Sizes DEF PlaceInv, Workers
  <2>3. \A v \in Workers : wpc[v] = "none" <=> wpc'[v] = "none"
    OBVIOUS
  <2> QED
    BY <2>1, <2>2, <2>3 DEF WorkInv
<1> QED
  BY <1>1, <1>2, <1>3, <1>4, <1>5 DEF WorkInv

-----------------------------------------------------------------------------
(* Failures and poison *)

WLabels == {"none", "top", "handler", "failed", "check", "poison", "gone"}

\* Workers that may still count a failure of the type.
InFlight(ty) == {w \in Workers : wpc[w] \in {"handler", "failed"} /\ wtype[w] = ty}

DataInv ==
  /\ dispatch \in [Types -> 0 .. Len(mods)]
  /\ running \in [Workers -> BOOLEAN]
  /\ wpc \in [Workers -> WLabels] /\ wtype \in [Workers -> TaskTypes \cup {0}]
  /\ fail_counts \in [Types -> Nat] /\ poisoned \in [Types -> BOOLEAN]
  /\ rpc \in 0 .. 1 /\ rtype \in Types /\ resets \in 0 .. MaxResets

CountInv ==
  \A ty \in Types : fail_counts[ty] + Cardinality(InFlight(ty)) <= MaxFails + NWorkers

\* A type at the threshold is flagged, or somebody is about to flag it, or a reset
\* has cleared the flag and will clear the count.
PoisonInv ==
  \A ty \in Types : fail_counts[ty] >= Threshold =>
    \/ poisoned[ty] = TRUE
    \/ \E w \in Workers : wpc[w] \in {"check", "poison"} /\ wtype[w] = ty
    \/ rpc = 1 /\ rtype = ty

LEMMA FlightSize ==
  ASSUME NEW S \in SUBSET Workers
  PROVE  IsFiniteSet(S) /\ Cardinality(S) \in Nat /\ Cardinality(S) <= NWorkers
<1>1. NWorkers \in Nat \ {0}
  BY Sizes
<1>2. IsFiniteSet(1 .. NWorkers) /\ Cardinality(1 .. NWorkers) = NWorkers
  <2>1. 1 \in Int /\ NWorkers \in Int /\ ~(1 > NWorkers) /\ NWorkers - 1 + 1 = NWorkers
    BY <1>1
  <2> QED
    BY <2>1, FS_Interval
<1>3. IsFiniteSet(S) /\ Cardinality(S) <= NWorkers
  BY <1>2, FS_Subset, ZenonT(60) DEF Workers
<1> QED
  BY <1>3, FS_CardinalityType

\* Steps after which no more workers can count a failure of a type, and the
\* counts are no higher.
LEMMA CountKept ==
  ASSUME CountInv, DataInv, DataInv', \A ty \in Types : fail_counts'[ty] <= fail_counts[ty],
         \A ty \in Types : InFlight(ty)' \subseteq InFlight(ty)
  PROVE  CountInv'
<1>1. SUFFICES ASSUME NEW ty \in Types
      PROVE  fail_counts'[ty] + Cardinality(InFlight(ty)') <= MaxFails + NWorkers
  BY DEF CountInv
<1>2. InFlight(ty) \in SUBSET Workers /\ InFlight(ty)' \in SUBSET Workers
  BY DEF InFlight
<1>3. IsFiniteSet(InFlight(ty)) /\ Cardinality(InFlight(ty)) \in Nat
      /\ Cardinality(InFlight(ty)') \in Nat
  BY <1>2, FlightSize
<1>4. Cardinality(InFlight(ty)') <= Cardinality(InFlight(ty))
  BY <1>3, FS_Subset
<1>5. fail_counts[ty] \in Nat /\ fail_counts'[ty] \in Nat /\ fail_counts'[ty] <= fail_counts[ty]
      /\ MaxFails \in Nat /\ NWorkers \in Nat
  BY LifecycleAssumption, Sizes DEF DataInv
<1>6. fail_counts[ty] + Cardinality(InFlight(ty)) <= MaxFails + NWorkers
  BY DEF CountInv
<1> QED
  BY <1>3, <1>4, <1>5, <1>6

\* The main thread.
LEMMA DataMain ==
  ASSUME PlaceInv, WorkInv, DataInv, CountInv, PoisonInv, MainStep \/ Halt
  PROVE  DataInv' /\ CountInv' /\ PoisonInv'
<1>1. /\ UNCHANGED poison /\ UNCHANGED wtype /\ mods' = mods
  BY DEF MainStep, Halt, Allocate, AllocateFails, Register, InitModule, StartWorker, StartFails,
       AbortStop, AbortJoin, HaltStop, HaltJoin, Release, FiniModule, workers, poison
<1>2. \/ wpc' = wpc
      \/ /\ at \in Workers /\ wpc[at] = "none" /\ wpc' = [wpc EXCEPT ![at] = "top"]
  <2>1. CASE StartWorker
    <3>1. pc = "start" /\ wpc' = [wpc EXCEPT ![at] = "top"]
      BY <2>1 DEF StartWorker
    <3>2. at \in Workers
      BY <3>1, Sizes DEF PlaceInv, Workers
    <3>3. at >= at
      BY DEF PlaceInv
    <3> QED
      BY <3>1, <3>2, <3>3 DEF WorkInv
  <2>2. CASE ~StartWorker
    BY <2>2 DEF MainStep, Halt, Allocate, AllocateFails, Register, InitModule, StartFails,
       AbortStop, AbortJoin, HaltStop, HaltJoin, Release, FiniModule, workers
  <2> QED
    BY <2>1, <2>2
<1>3. running' \in [Workers -> BOOLEAN]
  <2>1. running' = running \/ \E b \in BOOLEAN : running' = [running EXCEPT ![at] = b]
    BY DEF MainStep, Halt, Allocate, AllocateFails, Register, InitModule, StartWorker, StartFails,
       AbortStop, AbortJoin, HaltStop, HaltJoin, Release, FiniModule, workers
  <2> QED
    BY <2>1 DEF DataInv
<1>4. dispatch' \in [Types -> 0 .. Len(mods)]
  <2>1. CASE Register
    <3>1. PICK X : dispatch' = [ty \in Types |-> IF ty \in X THEN at ELSE dispatch[ty]]
      BY <2>1 DEF Register
    <3>2. at \in 0 .. Len(mods)
      <4>1. mods \in Seq(Seq(Nat))
        BY LifecycleAssumption DEF PlaceInv
      <4> QED
        BY <2>1, <4>1 DEF Register, PlaceInv
    <3> QED
      BY <3>1, <3>2 DEF DataInv
  <2>2. CASE ~Register
    <3>1. dispatch' = dispatch
      BY <2>2 DEF MainStep, Halt, Allocate, AllocateFails, InitModule, StartWorker, StartFails,
         AbortStop, AbortJoin, HaltStop, HaltJoin, Release, FiniModule, registry
    <3> QED
      BY <3>1 DEF DataInv
  <2> QED
    BY <2>1, <2>2
<1>5. wpc' \in [Workers -> WLabels]
  BY <1>2 DEF DataInv, WLabels
<1>6. DataInv'
  BY <1>1, <1>3, <1>4, <1>5 DEF DataInv, poison
<1>7. \A w \in Workers : wpc'[w] = wpc[w] \/ (wpc[w] = "none" /\ wpc'[w] = "top")
  BY <1>2 DEF DataInv
<1>8. CountInv'
  <2>1. \A ty \in Types : InFlight(ty)' \subseteq InFlight(ty)
    BY <1>1, <1>7 DEF InFlight
  <2>2. \A ty \in Types : fail_counts'[ty] <= fail_counts[ty]
    BY <1>1 DEF poison, DataInv
  <2> QED
    BY <1>6, <2>1, <2>2, CountKept
<1>9. PoisonInv'
  BY <1>1, <1>7 DEF PoisonInv, poison
<1> QED
  BY <1>6, <1>8, <1>9

\* gmk_module_reset_poison.
LEMMA DataReset ==
  ASSUME DataInv, CountInv, PoisonInv, ResetStep
  PROVE  DataInv' /\ CountInv' /\ PoisonInv'
<1>1. UNCHANGED <<mods, dispatch, running, wpc, wtype>>
  BY DEF ResetStep, registry, workers
<1>2. \/ /\ rpc = 0 /\ rpc' = 1 /\ resets < MaxResets /\ resets' = resets + 1 /\ rtype' \in Types
         /\ poisoned' = [poisoned EXCEPT ![rtype'] = FALSE] /\ fail_counts' = fail_counts
      \/ /\ rpc = 1 /\ rpc' = 0 /\ resets' = resets /\ rtype' = rtype
         /\ poisoned' = poisoned /\ fail_counts' = [fail_counts EXCEPT ![rtype'] = 0]
  <2>1. rpc = 0 \/ rpc = 1
    BY DEF DataInv
  <2>2. ResetOrder[1] = "flag" /\ ResetOrder[2] = "count"
    BY DEF ResetOrder
  <2>3. (0 + 1) % 2 = 1 /\ (1 + 1) % 2 = 0 /\ 0 + 1 = 1 /\ 1 + 1 = 2
    OBVIOUS
  <2>4. CASE rpc = 0
    <3>1. ResetOrder[rpc + 1] = "flag"
      BY <2>2, <2>4
    <3> QED
      BY <2>3, <2>4, <3>1 DEF ResetStep
  <2>5. CASE rpc = 1
    <3>1. ResetOrder[rpc + 1] = "count"
      BY <2>2, <2>5
    <3> QED
      BY <2>3, <2>5, <3>1 DEF ResetStep
  <2> QED
    BY <2>1, <2>4, <2>5
<1>3. MaxResets \in Nat
  BY LifecycleAssumption
<1>4. DataInv'
  <2>1. poisoned' \in [Types -> BOOLEAN]
    BY <1>2 DEF DataInv
  <2>2. fail_counts' \in [Types -> Nat]
    BY <1>2 DEF DataInv
  <2>3. rpc' \in 0 .. 1 /\ rtype' \in Types /\ resets' \in 0 .. MaxResets
    BY <1>2, <1>3 DEF DataInv
  <2> QED
    BY <1>1, <2>1, <2>2, <2>3 DEF DataInv
<1>5. CountInv'
  <2>1. \A ty \in Types : InFlight(ty)' \subseteq InFlight(ty)
    BY <1>1 DEF InFlight
  <2>2. ASSUME NEW ty \in Types PROVE fail_counts'[ty] <= fail_counts[ty]
    <3>1. fail_counts[ty] \in Nat /\ DOMAIN fail_counts = Types
      BY DEF DataInv
    <3>2. fail_counts'[ty] = fail_counts[ty] \/ fail_counts'[ty] = 0
      BY <1>2, <3>1
    <3> QED
      BY <3>1, <3>2
  <2> QED
    BY <1>4, <2>1, <2>2, CountKept
<1>6. PoisonInv'
  <2>1. Threshold \in Nat \ {0}
    BY Sizes
  <2>2. CASE rpc = 0
    BY <1>1, <1>2, <2>2 DEF PoisonInv, DataInv
  <2>3. CASE rpc = 1
    <3>1. SUFFICES ASSUME NEW ty \in Types, fail_counts'[ty] >= Threshold
          PROVE  poisoned'[ty] = TRUE
                   \/ \E w \in Workers : wpc'[w] \in {"check", "poison"} /\ wtype'[w] = ty
      BY DEF PoisonInv
    <3>2. ty # rtype
      BY <1>2, <2>1, <2>3, <3>1 DEF DataInv
    <3>3. fail_counts[ty] >= Threshold
      BY <1>2, <2>3, <3>1, <3>2 DEF DataInv
    <3> QED
      BY <1>1, <1>2, <2>3, <3>2, <3>3 DEF PoisonInv
  <2> QED
    BY <1>2, <2>2, <2>3
<1> QED
  BY <1>4, <1>5, <1>6

\* What the steps of a worker do.
WorkerTypes(w) ==
  \/ /\ wpc[w] = "top" /\ wpc' = [wpc EXCEPT ![w] = "gone"] /\ wtype' = wtype
     /\ UNCHANGED <<fail_counts, poisoned>>
  \/ /\ wpc[w] = "top" /\ UNCHANGED <<fail_counts, poisoned>>
     /\ \E ty \in TaskTypes : /\ ty \in Types => fail_counts[ty] < MaxFails
                              /\ wtype' = [wtype EXCEPT ![w] = ty]
                              /\ \E l \in {"handler", "failed"} : wpc' = [wpc EXCEPT ![w] = l]
  \/ /\ wpc[w] = "handler" /\ wpc' = [wpc EXCEPT ![w] = "failed"] /\ wtype' = wtype
     /\ UNCHANGED <<fail_counts, poisoned>>
  \/ /\ wpc[w] \in {"handler", "failed"} /\ wpc' = [wpc EXCEPT ![w] = "top"]
     /\ wtype' = [wtype EXCEPT ![w] = 0] /\ UNCHANGED <<fail_counts, poisoned>>
  \/ /\ wpc[w] = "failed" /\ wtype[w] \in Types
     /\ fail_counts' = [fail_counts EXCEPT ![wtype[w]] = @ + 1] /\ poisoned' = poisoned
     /\ \/ /\ fail_counts[wtype[w]] + 1 >= Threshold
           /\ wpc' = [wpc EXCEPT ![w] = "check"] /\ wtype' = wtype
        \/ /\ ~(fail_counts[wtype[w]] + 1 >= Threshold)
           /\ wpc' = [wpc EXCEPT ![w] = "top"] /\ wtype' = [wtype EXCEPT ![w] = 0]
  \/ /\ wpc[w] = "check" /\ UNCHANGED <<fail_counts, poisoned>>
     /\ \/ /\ poisoned[wtype[w]] = TRUE
           /\ wpc' = [wpc EXCEPT ![w] = "top"] /\ wtype' = [wtype EXCEPT ![w] = 0]
        \/ wpc' = [wpc EXCEPT ![w] = "poison"] /\ wtype' = wtype
  \/ /\ wpc[w] = "poison" /\ poisoned' = [poisoned EXCEPT ![wtype[w]] = TRUE]
     /\ fail_counts' = fail_counts
     /\ wpc' = [wpc EXCEPT ![w] = "top"] /\ wtype' = [wtype EXCEPT ![w] = 0]

\* A worker past the threshold has a type of the table.
PastInv == \A w \in Workers : wpc[w] \in {"check", "poison"} => wtype[w] \in Types

LEMMA WorkerEffect ==
  ASSUME NEW w \in Workers, WorkerStep(w), DataInv, PastInv
  PROVE  /\ UNCHANGED <<mods, pc, at, res, dispatch, inited, finied, running, rpc, rtype, resets>>
         /\ WorkerTypes(w)
<1>1. /\ UNCHANGED <<mods, pc, at, res, dispatch, inited, finied, running, rpc, rtype, resets>>
  BY DEF WorkerStep, WorkerExit, WorkerTake, HandlerReturns, FailUnknown, CountFail, CheckPoison,
       SetPoison, registry, poison
<1> SUFFICES WorkerTypes(w)
  BY <1>1
<1>2. CASE WorkerExit(w)
  BY <1>2 DEF WorkerExit, WGoto, WorkerTypes, poison
<1>3. CASE WorkerTake(w)
  <2>1. PICK ty \in TaskTypes :
          /\ ty \in Types => fail_counts[ty] < MaxFails
          /\ wtype' = [wtype EXCEPT ![w] = ty]
          /\ wpc' = [wpc EXCEPT ![w] =
                   IF ty \notin Types THEN "failed"
                   ELSE IF dispatch[ty] = 0 \/ poisoned[ty] THEN "failed"
                   ELSE "handler"]
    BY <1>3 DEF WorkerTake
  <2>2. PICK l \in {"handler", "failed"} : wpc' = [wpc EXCEPT ![w] = l]
    BY <2>1
  <2>3. wpc[w] = "top" /\ UNCHANGED <<fail_counts, poisoned>>
    BY <1>3 DEF WorkerTake, poison
  <2> QED
    BY <2>1, <2>2, <2>3 DEF WorkerTypes
<1>4. CASE HandlerReturns(w)
  BY <1>4 DEF HandlerReturns, WGoto, WorkerTypes, poison
<1>5. CASE FailUnknown(w)
  BY <1>5 DEF FailUnknown, WGoto, WorkerTypes, poison
<1>6. CASE CountFail(w)
  BY <1>6 DEF CountFail, WGoto, WorkerTypes
<1>7. CASE CheckPoison(w)
  <2>1. poisoned[wtype[w]] \in BOOLEAN /\ wpc[w] = "check" /\ UNCHANGED <<fail_counts, poisoned>>
    BY <1>7 DEF CheckPoison, PastInv, DataInv, poison
  <2>2. \/ /\ poisoned[wtype[w]] = TRUE
           /\ wpc' = [wpc EXCEPT ![w] = "top"] /\ wtype' = [wtype EXCEPT ![w] = 0]
        \/ wpc' = [wpc EXCEPT ![w] = "poison"] /\ wtype' = wtype
    BY <1>7, <2>1 DEF CheckPoison, WGoto
  <2> QED
    BY <2>1, <2>2 DEF WorkerTypes
<1>8. CASE SetPoison(w)
  BY <1>8 DEF SetPoison, WGoto, WorkerTypes
<1> QED
  BY <1>2, <1>3, <1>4, <1>5, <1>6, <1>7, <1>8 DEF WorkerStep

LEMMA DataWorker ==
  ASSUME DataInv, CountInv, PoisonInv, PastInv, NEW w \in Workers, WorkerStep(w)
  PROVE  DataInv' /\ CountInv' /\ PoisonInv' /\ PastInv'
<1>1. /\ UNCHANGED <<mods, dispatch, running, rpc, rtype, resets>> /\ WorkerTypes(w)
  BY WorkerEffect
<1>2. /\ DOMAIN wpc = Workers /\ DOMAIN wtype = Workers /\ DOMAIN fail_counts = Types
      /\ DOMAIN poisoned = Types /\ Threshold \in Nat \ {0} /\ MaxFails \in Nat /\ NWorkers \in Nat
      /\ \A ty \in Types : fail_counts[ty] \in Nat
  BY Sizes, LifecycleAssumption DEF DataInv
<1>3. /\ \A v \in Workers \ {w} : wpc'[v] = wpc[v] /\ wtype'[v] = wtype[v]
      /\ DOMAIN wpc' = Workers
  BY <1>1, <1>2 DEF WorkerTypes
<1>4. DataInv'
  <2>1. wpc' \in [Workers -> WLabels]
    BY <1>1, ZenonT(60) DEF DataInv, WorkerTypes, WLabels
  <2>2. wtype' \in [Workers -> TaskTypes \cup {0}]
    BY <1>1 DEF DataInv, WorkerTypes
  <2>3. fail_counts' \in [Types -> Nat]
    BY <1>1 DEF DataInv, WorkerTypes
  <2>4. poisoned' \in [Types -> BOOLEAN]
    BY <1>1 DEF DataInv, WorkerTypes
  <2> QED
    BY <1>1, <2>1, <2>2, <2>3, <2>4 DEF DataInv
<1>5. PastInv'
  <2>1. wpc'[w] \in {"check", "poison"} => wtype'[w] \in Types
    BY <1>1, <1>2 DEF WorkerTypes, PastInv
  <2> QED
    BY <1>3, <2>1 DEF PastInv
<1>6. PoisonInv'
  <2>1. SUFFICES ASSUME NEW ty \in Types, fail_counts'[ty] >= Threshold
        PROVE  \/ poisoned'[ty] = TRUE
               \/ \E v \in Workers : wpc'[v] \in {"check", "poison"} /\ wtype'[v] = ty
               \/ rpc' = 1 /\ rtype' = ty
    BY DEF PoisonInv
  <2>2. poisoned[ty] = TRUE => poisoned'[ty] = TRUE
    BY <1>1, <1>2 DEF WorkerTypes
  <2>3. CASE fail_counts'[ty] = fail_counts[ty]
    <3>1. CASE poisoned[ty] = TRUE
      BY <2>2, <3>1
    <3>2. CASE rpc = 1 /\ rtype = ty
      BY <1>1, <3>2
    <3>3. ASSUME NEW v \in Workers, wpc[v] \in {"check", "poison"}, wtype[v] = ty
          PROVE  \/ poisoned'[ty] = TRUE
                 \/ \E u \in Workers : wpc'[u] \in {"check", "poison"} /\ wtype'[u] = ty
      <4>1. CASE v # w
        BY <1>3, <3>3, <4>1
      <4>2. CASE v = w
        BY <1>1, <1>2, <3>3, <4>2 DEF WorkerTypes
      <4> QED
        BY <4>1, <4>2
    <3> QED
      BY <2>1, <2>3, <3>1, <3>2, <3>3 DEF PoisonInv
  <2>4. CASE fail_counts'[ty] # fail_counts[ty]
    <3>1. /\ wtype[w] = ty /\ fail_counts'[ty] = fail_counts[ty] + 1
          /\ \/ wpc' = [wpc EXCEPT ![w] = "check"] /\ wtype' = wtype
             \/ ~(fail_counts[ty] + 1 >= Threshold)
      BY <1>1, <1>2, <2>4 DEF WorkerTypes
    <3>2. wpc'[w] = "check" /\ wtype'[w] = ty
      BY <1>2, <2>1, <3>1
    <3> QED
      BY <3>2
  <2> QED
    BY <2>3, <2>4
<1>7. CountInv'
  <2>1. SUFFICES ASSUME NEW ty \in Types
        PROVE  fail_counts'[ty] + Cardinality(InFlight(ty)') <= MaxFails + NWorkers
    BY DEF CountInv
  <2>2. /\ InFlight(ty) \in SUBSET Workers /\ InFlight(ty)' \in SUBSET Workers
    BY DEF InFlight
  <2>3. /\ IsFiniteSet(InFlight(ty)) /\ Cardinality(InFlight(ty)) \in Nat
        /\ Cardinality(InFlight(ty)') \in Nat /\ Cardinality(InFlight(ty)') <= NWorkers
    BY <2>2, FlightSize
  <2>4. fail_counts[ty] + Cardinality(InFlight(ty)) <= MaxFails + NWorkers /\ fail_counts[ty] \in Nat
    BY <1>2 DEF CountInv
  <2>5. CASE fail_counts'[ty] = fail_counts[ty] /\ fail_counts[ty] < MaxFails
    BY <1>2, <2>3, <2>4, <2>5
  <2>6. CASE fail_counts'[ty] = fail_counts[ty] /\ InFlight(ty)' \subseteq InFlight(ty)
    <3>1. Cardinality(InFlight(ty)') <= Cardinality(InFlight(ty))
      BY <2>3, <2>6, FS_Subset
    <3> QED
      BY <1>2, <2>3, <2>4, <2>6, <3>1
  <2>7. CASE /\ fail_counts'[ty] = fail_counts[ty] + 1 /\ w \in InFlight(ty)
             /\ InFlight(ty)' = InFlight(ty) \ {w}
    <3>1. Cardinality(InFlight(ty) \ {w}) = Cardinality(InFlight(ty)) - 1
      BY <2>3, <2>7, FS_RemoveElement
    <3> QED
      BY <1>2, <2>3, <2>4, <2>7, <3>1
  <2>8. InFlight(ty)' \ {w} = InFlight(ty) \ {w}
    BY <1>3 DEF InFlight
  <2>9. /\ w \in InFlight(ty) <=> wpc[w] \in {"handler", "failed"} /\ wtype[w] = ty
        /\ w \in InFlight(ty)' <=> wpc'[w] \in {"handler", "failed"} /\ wtype'[w] = ty
    BY DEF InFlight
  <2>10. \/ fail_counts'[ty] = fail_counts[ty] /\ fail_counts[ty] < MaxFails
         \/ fail_counts'[ty] = fail_counts[ty] /\ (w \in InFlight(ty)' => w \in InFlight(ty))
         \/ /\ fail_counts'[ty] = fail_counts[ty] + 1 /\ w \in InFlight(ty)
            /\ w \notin InFlight(ty)'
    BY <1>1, <1>2, <2>9 DEF WorkerTypes
  <2> QED
    BY <2>5, <2>6, <2>7, <2>8, <2>10
<1> QED
  BY <1>4, <1>5, <1>6, <1>7

-----------------------------------------------------------------------------
(* The theorems *)

IndInv == PlaceInv /\ ResInv /\ SeqInv /\ WorkInv /\ DataInv /\ PastInv /\ CountInv /\ PoisonInv

LEMMA InitInv ==
  ASSUME Init
  PROVE  IndInv
<1>1. PlaceInv
  <2>1. Len(Order("alloc")) = 1 /\ "alloc" \in Stages /\ "alloc" \in Labels
    BY OtherOrders DEF Stages, Labels
  <2>2. mods \in ModLists /\ pc = "alloc" /\ at = 1
    BY DEF Init
  <2>3. at <= Len(Order(pc)) /\ at \in Nat \ {0}
    BY <2>1, <2>2
  <2> QED
    BY <2>1, <2>2, <2>3 DEF PlaceInv
<1>2. ResInv
  <2>1. ASSUME NEW r \in Resources PROVE ResOK(r)
    <3>1. PICK g \in Stages : g = StageOf(r)
      BY Groups
    <3>2. res[r] = "none" /\ pc = "alloc" /\ at = 1
      BY DEF Init
    <3>3. pc \notin Late(g) /\ (pc \notin Early(g) => pc = g)
      BY <3>2 DEF Early, Late, Stages, Unwinding
    <3>4. 1 .. at - 1 = {}
      BY <3>2
    <3>5. {Order(g)[j] : j \in 1 .. at - 1} = {}
      BY <3>4
    <3> QED
      BY <1>1, <3>1, <3>2, <3>3, <3>5, ResCases
  <2> QED
    BY <2>1 DEF ResInv, Init
<1>3. SeqInv
  BY DEF Init, SeqInv, WithWorkers, Unwinding
<1>4. WorkInv
  BY DEF Init, WorkInv, Unwinding
<1>5. DataInv
  <2>1. mods \in Seq(Seq(Nat)) /\ MaxResets \in Nat
    BY LifecycleAssumption DEF Init
  <2>2. Len(mods) \in Nat
    BY <2>1
  <2> QED
    BY <2>1, <2>2, Sizes DEF Init, DataInv, WLabels
<1>6. PastInv
  BY DEF Init, PastInv
<1>7. CountInv
  <2>1. ASSUME NEW ty \in Types PROVE InFlight(ty) = {} /\ fail_counts[ty] = 0
    BY DEF Init, InFlight
  <2>2. Cardinality({}) = 0 /\ MaxFails \in Nat /\ NWorkers \in Nat
    BY FS_EmptySet, LifecycleAssumption, Sizes
  <2> QED
    BY <2>1, <2>2 DEF CountInv
<1>8. PoisonInv
  BY Sizes DEF Init, PoisonInv
<1> QED
  BY <1>1, <1>2, <1>3, <1>4, <1>5, <1>6, <1>7, <1>8 DEF IndInv

LEMMA NextInv ==
  ASSUME IndInv, [Next]_vars
  PROVE  IndInv'
<1>1. PlaceInv /\ ResInv /\ SeqInv /\ WorkInv /\ DataInv /\ PastInv /\ CountInv /\ PoisonInv
  BY DEF IndInv
<1>2. CASE MainStep \/ Halt
  <2>1. PlaceInv' /\ ResInv' /\ SeqInv' /\ WorkInv'
    BY <1>1, <1>2, PlaceNext, ResNext, SeqNext, WorkMain
  <2>2. DataInv' /\ CountInv' /\ PoisonInv'
    BY <1>1, <1>2, DataMain
  <2>3. PastInv'
    <3>1. UNCHANGED wtype
      BY <1>2 DEF MainStep, Halt, Allocate, AllocateFails, Register, InitModule, StartWorker,
           StartFails, AbortStop, AbortJoin, HaltStop, HaltJoin, Release, FiniModule, workers
    <3>2. wpc' = wpc \/ wpc' = [wpc EXCEPT ![at] = "top"]
      BY <1>2 DEF MainStep, Halt, Allocate, AllocateFails, Register, InitModule, StartWorker,
           StartFails, AbortStop, AbortJoin, HaltStop, HaltJoin, Release, FiniModule, workers
    <3> QED
      BY <1>1, <3>1, <3>2 DEF PastInv, DataInv
  <2> QED
    BY <2>1, <2>2, <2>3 DEF IndInv
<1>3. CASE ResetStep
  <2>1. UNCHANGED <<mods, pc, at, res, inited, finied, wpc, wtype>>
    BY <1>3 DEF ResetStep, registry, workers
  <2>2. PlaceInv' /\ SeqInv' /\ WorkInv' /\ PastInv'
    BY <1>1, <2>1 DEF PlaceInv, SeqInv, WorkInv, PastInv
  <2>3. ResInv'
    BY <1>1, <2>1 DEF ResInv, ResOK
  <2> QED
    BY <1>1, <1>3, <2>2, <2>3, DataReset DEF IndInv
<1>4. ASSUME NEW w \in Workers, WorkerStep(w) PROVE IndInv'
  <2>1. /\ UNCHANGED <<mods, pc, at, res, dispatch, inited, finied, running, rpc, rtype, resets>>
        /\ WorkerTypes(w)
    BY <1>1, <1>4, WorkerEffect
  <2>2. PlaceInv' /\ SeqInv'
    BY <1>1, <2>1 DEF PlaceInv, SeqInv
  <2>3. ResInv'
    BY <1>1, <2>1 DEF ResInv, ResOK
  <2>4. WorkInv'
    <3>1. DOMAIN wpc = Workers
      BY <1>1 DEF WorkInv
    <3>2. /\ wpc[w] \notin {"none", "gone"} /\ DOMAIN wpc' = Workers /\ wpc'[w] # "none"
          /\ \A v \in Workers \ {w} : wpc'[v] = wpc[v]
      BY <2>1, <3>1 DEF WorkerTypes
    <3> QED
      BY <1>1, <2>1, <3>2, WorkStep
  <2> QED
    BY <1>1, <1>4, <2>2, <2>3, <2>4, DataWorker DEF IndInv
<1>5. CASE UNCHANGED vars
  <2>1. UNCHANGED <<mods, pc, at, res, dispatch, inited, finied, running, wpc, wtype,
                    fail_counts, poisoned, rpc, rtype, resets>>
    BY <1>5 DEF vars, registry, workers, poison
  <2>2. PlaceInv' /\ SeqInv' /\ WorkInv' /\ PastInv' /\ DataInv' /\ PoisonInv'
    BY <1>1, <2>1 DEF PlaceInv, SeqInv, WorkInv, PastInv, DataInv, PoisonInv
  <2>3. ResInv' /\ CountInv'
    BY <1>1, <2>1 DEF ResInv, ResOK, CountInv, InFlight
  <2> QED
    BY <2>2, <2>3 DEF IndInv
<1> QED
  BY <1>2, <1>3, <1>4, <1>5 DEF Next

\* The inductive invariant holds in every state of gmk_boot, gmk_halt, the workers
\* and gmk_module_reset_poison, however many workers, tenants and modules.
THEOREM Invariance == Spec => []IndInv
<1>1. Init => IndInv
  BY InitInv
<1>2. IndInv /\ [Next]_vars => IndInv'
  BY NextInv
<1> QED
  BY <1>1, <1>2, PTL DEF Spec

LEMMA Statuses ==
  ASSUME IndInv, NEW r \in Resources
  PROVE  res[r] \in {"none", "live", "freed"}
<1>1. PICK g \in Stages : g = StageOf(r)
  BY Groups
<1>2. PlaceInv /\ ResOK(r)
  BY DEF IndInv, ResInv
<1> QED
  BY <1>1, <1>2, ResCases

\* The two sequences of the module registry, told apart by the label.
LEMMA Sequences2 ==
  ASSUME IndInv
  PROVE  /\ \E k \in 0 .. Len(mods) : inited = Up(k)
         /\ \E k \in 0 .. Len(mods) : finied = Down(k, Len(mods))
         /\ Len(mods) \in Nat /\ DOMAIN mods = 1 .. Len(mods)
<1>1. PlaceInv /\ SeqInv
  BY DEF IndInv
<1>2. mods \in Seq(Seq(Nat)) /\ at \in Nat \ {0} /\ pc \in Labels
  BY <1>1, LifecycleAssumption DEF PlaceInv
<1>3. Len(mods) \in Nat /\ DOMAIN mods = 1 .. Len(mods)
  <2>1. PICK S : mods \in Seq(S)
    BY <1>2, Zenon
  <2> QED
    BY <2>1
<1>4. PICK L \in Nat : L = Len(mods)
  BY <1>3, Zenon
<1>5. 0 \in 0 .. L /\ L \in 0 .. L /\ <<>> = Up(0) /\ <<>> = Down(0, L)
  <2>1. Up(0) = <<>> /\ Down(0, L) = <<>>
    BY UpDown, Zenon
  <2>2. 0 \in 0 .. L /\ L \in 0 .. L
    OBVIOUS
  <2> QED
    BY <2>1, <2>2, Zenon
<1>6. pc \in {"init", "fail_pool"} => at - 1 \in 0 .. L
  BY <1>1, <1>2, <1>4 DEF PlaceInv
<1>7. \A k \in 0 .. L - 1 : k \in 0 .. L
  BY <1>4
<1>8. pc \in {"alloc", "trace", "sched", "chan", "register"} \/ pc = "init" \/ pc = "pool"
      \/ pc \in WithWorkers \/ pc = "fail_pool" \/ pc \in Unwinding \ {"fail_pool"}
  BY <1>2 DEF Labels, Stages
<1>9. \E k \in 0 .. L : inited = Up(k)
  BY <1>1, <1>4, <1>5, <1>6, <1>7, <1>8 DEF SeqInv
<1>10. \E k \in 0 .. L : finied = Down(k, L)
  BY <1>1, <1>4, <1>5, <1>6, <1>7, <1>8 DEF SeqInv
<1> QED
  BY <1>3, <1>4, <1>9, <1>10

\* Type correctness: every label, index, count and resource state stays in its
\* range; in particular no failure count passes the bound that the number of
\* workers adds to it.
THEOREM TypeCorrect == Spec => []TypeOK
<1>1. IndInv => TypeOK
  <2>1. SUFFICES ASSUME IndInv PROVE TypeOK
    OBVIOUS
  <2>2. PlaceInv /\ ResInv /\ DataInv /\ CountInv
    BY <2>1 DEF IndInv
  <2>3. pc \in DOMAIN Following \cup DOMAIN Releases \cup
               {"register", "init", "start", "up", "abort", "abort_join", "stop",
                "join", "fail_pool", "dead"}
    <3>1. /\ DOMAIN Following = {"alloc", "trace", "sched", "chan", "pool"}
          /\ DOMAIN Releases = {"fail_start", "fail_mod", "fail_chan", "fail_sched",
                                "fail_metrics", "fail_trace"}
      BY DEF Following, Releases
    <3>2. pc \in Labels
      BY <2>2 DEF PlaceInv
    <3> QED
      BY <3>1, <3>2 DEF Labels, Stages, WithWorkers, Unwinding
  <2>4. res \in [Resources -> {"none", "live", "freed", "twice"}]
    BY <2>2 DEF ResInv
  <2>5. ToSet(inited) \cup ToSet(finied) \subseteq DOMAIN mods
    <3>1. PICK k \in 0 .. Len(mods) : inited = Up(k)
      BY <2>1, Sequences2
    <3>2. PICK l \in 0 .. Len(mods) : finied = Down(l, Len(mods))
      BY <2>1, Sequences2
    <3>3. Len(mods) \in Nat /\ DOMAIN mods = 1 .. Len(mods)
      BY <2>1, Sequences2
    <3>4. ToSet(inited) \subseteq 1 .. Len(mods)
      BY <3>1, <3>3 DEF ToSet, Up
    <3>5. ToSet(finied) \subseteq 1 .. Len(mods)
      BY <3>2, <3>3 DEF ToSet, Down
    <3> QED
      BY <3>3, <3>4, <3>5
  <2>6. fail_counts \in [Types -> 0 .. MaxFails + NWorkers]
    <3>1. fail_counts \in [Types -> Nat]
      BY <2>2 DEF DataInv
    <3>2. ASSUME NEW ty \in Types PROVE fail_counts[ty] \in 0 .. MaxFails + NWorkers
      <4>1. InFlight(ty) \in SUBSET Workers
        BY DEF InFlight
      <4>2. Cardinality(InFlight(ty)) \in Nat
        BY <4>1, FlightSize
      <4>3. fail_counts[ty] + Cardinality(InFlight(ty)) <= MaxFails + NWorkers
            /\ fail_counts[ty] \in Nat /\ MaxFails \in Nat /\ NWorkers \in Nat
        BY <2>2, <3>1, Sizes, LifecycleAssumption DEF CountInv
      <4> QED
        BY <4>2, <4>3
    <3> QED
      BY <3>1, <3>2
  <2> QED
    BY <2>2, <2>3, <2>4, <2>5, <2>6 DEF TypeOK, PlaceInv, DataInv, WLabels
<1> QED
  BY <1>1, Invariance, PTL

\* gmk_boot and gmk_halt leave nothing behind: wherever the boot fails, and after
\* a halt, all that was allocated is released once, no worker is left, and the
\* modules were finalised in reverse order, all of them or none.
THEOREM NoLeak == Spec => []CleanExit
<1>1. IndInv => CleanExit
  <2>1. SUFFICES ASSUME IndInv PROVE CleanExit
    OBVIOUS
  <2>2. PlaceInv /\ ResInv /\ SeqInv /\ WorkInv
    BY <2>1 DEF IndInv
  <2>3. \A r \in Resources : res[r] # "twice"
    BY <2>1, Statuses
  <2>4. ASSUME pc = "dead", NEW r \in Resources PROVE res[r] # "live"
    <3>1. PICK g \in Stages : g = StageOf(r)
      BY Groups
    <3>2. ResOK(r) /\ pc \in Late(g)
      BY <2>2, <2>4 DEF ResInv, Late, Stages, Unwinding
    <3> QED
      BY <2>2, <3>1, <3>2, ResCases
  <2>5. ASSUME pc = "dead", NEW w \in Workers PROVE wpc[w] \in {"none", "gone"}
    BY <2>2, <2>5 DEF WorkInv, Unwinding
  <2>6. ASSUME pc = "dead"
        PROVE  finied = IF Len(inited) = Len(mods) THEN Reverse(inited) ELSE <<>>
    <3>1. PICK L \in Nat : L = Len(mods)
      BY <2>1, Sequences2, Zenon
    <3>2. \/ inited = Up(L) /\ finied = Down(L, L)
          \/ \E k \in 0 .. L - 1 : inited = Up(k) /\ finied = <<>>
      BY <2>2, <2>6, <3>1 DEF SeqInv, Unwinding
    <3>3. CASE inited = Up(L) /\ finied = Down(L, L)
      BY <3>1, <3>3, UpDown
    <3>4. ASSUME NEW k \in 0 .. L - 1, inited = Up(k), finied = <<>>
          PROVE  Len(inited) # L /\ finied = <<>>
      <4>1. k \in Nat /\ k # L
        BY <3>1
      <4>2. Len(Up(k)) = k
        BY <4>1, UpDown
      <4> QED
        BY <3>4, <4>1, <4>2
    <3>5. CASE \E k \in 0 .. L - 1 : inited = Up(k) /\ finied = <<>>
      BY <3>1, <3>4, <3>5, Zenon
    <3> QED
      BY <3>2, <3>3, <3>5, Zenon
  <2> QED
    BY <2>3, <2>4, <2>5, <2>6 DEF CleanExit
<1> QED
  BY <1>1, Invariance, PTL

\* No worker outlives what it uses: while a worker's thread exists, everything that
\* gmk_boot allocated is there and every module is initialised.
THEOREM Covered == Spec => []WorkersCovered
<1>1. IndInv => WorkersCovered
  <2>1. SUFFICES ASSUME IndInv, NEW w \in Workers, wpc[w] \notin {"none", "gone"}
        PROVE  /\ \A r \in Resources \ ChanRings : res[r] = "live"
               /\ \A r \in ChanRings : res[r] # "freed"
               /\ Len(inited) = Len(mods) /\ finied = <<>>
    BY DEF WorkersCovered
  <2>2. PlaceInv /\ ResInv /\ SeqInv /\ WorkInv
    BY <2>1 DEF IndInv
  <2>3. pc \in WithWorkers \ {"fail_start"}
    BY <2>1, <2>2 DEF PlaceInv, WorkInv, Labels, WithWorkers
  <2>4. ASSUME NEW r \in Resources
        PROVE  res[r] = "live" \/ (r \in ChanRings /\ res[r] = "none")
    <3>1. PICK g \in Stages : g = StageOf(r)
      BY Groups
    <3>2. ResOK(r) /\ pc \notin Late(g) /\ pc \notin Early(g) /\ pc # g
      BY <2>2, <2>3 DEF ResInv, Late, Early, Stages, Unwinding, WithWorkers
    <3>3. res[r] = "live" \/ (g = "chan" /\ res[r] = "none")
      BY <2>2, <3>1, <3>2, ResCases
    <3> QED
      BY <3>1, <3>3, Groups
  <2>5. \A r \in ChanRings : r \in Resources
    BY Groups
  <2>6. inited = Up(Len(mods)) /\ finied = <<>> /\ Len(mods) \in Nat
    BY <2>1, <2>2, <2>3, Sequences2 DEF SeqInv
  <2>7. Len(inited) = Len(mods)
    BY <2>6, UpDown
  <2> QED
    BY <2>4, <2>5, <2>6, <2>7
<1> QED
  BY <1>1, Invariance, PTL

\* gmk_module_record_fail and gmk_module_reset_poison: however failures on any
\* number of workers and a reset interleave, no type is left at the threshold
\* without its flag once they are over.
THEOREM PoisonSeen == Spec => []PoisonNotMissed
<1>1. IndInv => PoisonNotMissed
  <2>1. SUFFICES ASSUME PoisonInv, DataInv, rpc = 0,
                        \A w \in Workers : wpc[w] \notin {"check", "poison"},
                        NEW ty \in Types, fail_counts[ty] >= Threshold
                 PROVE  poisoned[ty]
    BY DEF IndInv, PoisonNotMissed
  <2>2. poisoned[ty] = TRUE
    BY <2>1 DEF PoisonInv
  <2> QED
    BY <2>2
<1> QED
  BY <1>1, Invariance, PTL
=============================================================================
