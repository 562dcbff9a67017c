--------------------------- MODULE Channel_proofs ---------------------------
(***************************************************************************)
(* Proofs about Channel: its types and its reference counts, for any       *)
(* number of messages, channels and drains, with one restriction: no       *)
(* fan-out channel is lossless, where the count is wrong (the run          *)
(* chan_dead_letter shows how).                                            *)
(*                                                                         *)
(* A message is in one place at a time: with its emitter, in one cell of   *)
(* one ring, in the hands of one drain, or handed over.  The place says    *)
(* how many references there must be besides those of the copies in the    *)
(* scheduler, and every action touches a single message.                   *)
(***************************************************************************)
EXTENDS Channel, SequenceTheorems, FiniteSetTheorems, TLAPS

\* gmk_chan_open is never called with GMK_CHAN_FANOUT and GMK_CHAN_LOSSLESS.
NoLosslessFanOut == Lossless \subseteq P2P

-----------------------------------------------------------------------------
(* Where a message is in a ring *)

Never(q, u) == \A i \in DOMAIN q : q[i] # u
Once(q, u) == \E i \in DOMAIN q : q[i] = u /\ \A j \in DOMAIN q : q[j] = u => j = i

LEMMA EmptyRing == \A u : Never(<<>>, u)
<1>1. DOMAIN <<>> = {}
  OBVIOUS
<1> QED
  BY <1>1 DEF Never

LEMMA NotBoth ==
  ASSUME NEW q, NEW u, Once(q, u)
  PROVE  ~Never(q, u)
BY DEF Never, Once

LEMMA Pushed ==
  ASSUME NEW q \in Seq(Msgs), NEW m \in Msgs
  PROVE  /\ Append(q, m) \in Seq(Msgs) /\ Len(Append(q, m)) = Len(q) + 1
         /\ Never(q, m) => Once(Append(q, m), m)
         /\ \A u : u # m => /\ Once(Append(q, m), u) <=> Once(q, u)
                            /\ Never(Append(q, m), u) <=> Never(q, u)
<1> DEFINE a == Append(q, m)
<1>1. /\ a \in Seq(Msgs) /\ Len(a) = Len(q) + 1 /\ Len(q) \in Nat
      /\ DOMAIN q = 1 .. Len(q) /\ DOMAIN a = 1 .. Len(q) + 1
      /\ \A i \in 1 .. Len(q) : a[i] = q[i]
      /\ a[Len(q) + 1] = m
  OBVIOUS
<1>2. /\ \A i \in DOMAIN q : i \in DOMAIN a /\ a[i] = q[i]
      /\ Len(q) + 1 \in DOMAIN a
      /\ \A i \in DOMAIN a : i \in DOMAIN q \/ i = Len(q) + 1
  BY <1>1
<1> HIDE DEF a
<1>3. Never(q, m) => Once(a, m)
  BY <1>1, <1>2 DEF Never, Once
<1>4. ASSUME NEW u, u # m
      PROVE  /\ Once(a, u) <=> Once(q, u)
             /\ Never(a, u) <=> Never(q, u)
  <2>1. \A i \in DOMAIN a : a[i] = u => i \in DOMAIN q /\ q[i] = u
    BY <1>1, <1>2, <1>4
  <2> QED
    BY <1>2, <2>1 DEF Never, Once
<1> QED
  BY <1>1, <1>3, <1>4 DEF a

LEMMA Popped ==
  ASSUME NEW q \in Seq(Msgs), q # <<>>
  PROVE  /\ Head(q) \in Msgs /\ ~Never(q, Head(q))
         /\ Tail(q) \in Seq(Msgs) /\ Len(Tail(q)) = Len(q) - 1
         /\ Once(q, Head(q)) => Never(Tail(q), Head(q))
         /\ \A u : u # Head(q) => /\ Once(Tail(q), u) <=> Once(q, u)
                                  /\ Never(Tail(q), u) <=> Never(q, u)
<1>1. PICK r : r = Tail(q)
  OBVIOUS
<1>2. PICK h : h = Head(q)
  OBVIOUS
<1>3. /\ h \in Msgs /\ r \in Seq(Msgs) /\ Len(r) = Len(q) - 1
      /\ \A i \in 1 .. Len(r) : r[i] = q[i + 1]
  BY <1>1, <1>2, HeadTailProperties
<1>4. /\ Len(q) \in Nat \ {0} /\ DOMAIN q = 1 .. Len(q)
      /\ DOMAIN r = 1 .. Len(q) - 1 /\ h = q[1]
  BY <1>1, <1>2
<1>5. /\ 1 \in DOMAIN q
      /\ \A i \in DOMAIN r : i + 1 \in DOMAIN q /\ i + 1 # 1 /\ r[i] = q[i + 1]
      /\ \A i \in DOMAIN q : i # 1 => /\ i - 1 \in DOMAIN r /\ r[i - 1] = q[i]
                                      /\ (i - 1) + 1 = i
      /\ \A i, j \in DOMAIN r : i + 1 = j + 1 => i = j
  BY <1>3, <1>4
<1>6. ~Never(q, h)
  BY <1>4, <1>5 DEF Never
<1>7. Once(q, h) => Never(r, h)
  BY <1>4, <1>5, SMTT(60) DEF Once, Never
<1>8. ASSUME NEW u, u # h
      PROVE  /\ Once(r, u) <=> Once(q, u)
             /\ Never(r, u) <=> Never(q, u)
  <2>1. ASSUME Once(r, u) PROVE Once(q, u)
    <3>1. PICK i \in DOMAIN r : r[i] = u /\ \A j \in DOMAIN r : r[j] = u => j = i
      BY <2>1 DEF Once
    <3>2. ASSUME NEW j \in DOMAIN q, q[j] = u PROVE j = i + 1
      <4>1. j # 1
        BY <3>2, <1>4, <1>8
      <4>2. j - 1 \in DOMAIN r /\ r[j - 1] = u
        BY <4>1, <3>2, <1>5
      <4>3. j - 1 = i
        BY <4>2, <3>1
      <4> QED
        BY <4>1, <4>3, <1>5
    <3> QED
      BY <3>1, <3>2, <1>5 DEF Once
  <2>2. ASSUME Once(q, u) PROVE Once(r, u)
    <3>1. PICK i \in DOMAIN q : q[i] = u /\ \A j \in DOMAIN q : q[j] = u => j = i
      BY <2>2 DEF Once
    <3>2. i # 1
      BY <3>1, <1>4, <1>8
    <3>3. i - 1 \in DOMAIN r /\ r[i - 1] = u
      BY <3>1, <3>2, <1>5
    <3>4. ASSUME NEW j \in DOMAIN r, r[j] = u PROVE j = i - 1
      <4>1. j + 1 = i
        BY <3>1, <3>4, <1>5
      <4> QED
        BY <4>1, <1>4
    <3> QED
      BY <3>3, <3>4 DEF Once
  <2>3. ASSUME Never(r, u), NEW i \in DOMAIN q PROVE q[i] # u
    <3>1. CASE i = 1
      BY <3>1, <1>4, <1>8
    <3>2. CASE i # 1
      BY <3>2, <2>3, <1>5 DEF Never
    <3> QED
      BY <3>1, <3>2
  <2>4. Never(q, u) => Never(r, u)
    BY <1>5 DEF Never
  <2> QED
    BY <2>1, <2>2, <2>3, <2>4 DEF Never
<1> QED
  BY <1>1, <1>2, <1>3, <1>6, <1>7, <1>8

-----------------------------------------------------------------------------
(* The scheduler's queues *)

LEMMA QueuePut ==
  ASSUME NEW m \in Msgs, ready \in [Msgs -> Nat], IsFiniteSet(Waiting), Queued \in Nat,
         ready' = [ready EXCEPT ![m] = @ + 1]
  PROVE  /\ ready' \in [Msgs -> Nat] /\ ready'[m] = ready[m] + 1
         /\ \A u \in Msgs \ {m} : ready'[u] = ready[u]
         /\ IsFiniteSet(Waiting') /\ Queued' = Queued + 1
<1>1. /\ ready' \in [Msgs -> Nat] /\ ready'[m] = ready[m] + 1 /\ ready[m] \in Nat
      /\ \A u \in Msgs \ {m} : ready'[u] = ready[u]
  OBVIOUS
<1>2. PICK x : x = <<m, ready[m] + 1>>
  OBVIOUS
<1>3. x \notin Waiting
  BY <1>1, <1>2 DEF Waiting
<1>4. Waiting' = Waiting \cup {x}
  <2>1. ASSUME NEW u \in Msgs, NEW i PROVE <<u, i>> \in Waiting' <=> <<u, i>> \in Waiting \cup {x}
    BY <1>1, <1>2 DEF Waiting
  <2>2. \A y \in Waiting \cup Waiting' : \E u \in Msgs : \E i : y = <<u, i>>
    BY DEF Waiting
  <2> QED
    BY <2>1, <2>2, <1>2
<1>5. IsFiniteSet(Waiting') /\ Cardinality(Waiting') = Cardinality(Waiting) + 1
  BY <1>3, <1>4, FS_AddElement
<1> QED
  BY <1>1, <1>5 DEF Queued

LEMMA QueueGet ==
  ASSUME NEW m \in Msgs, ready \in [Msgs -> Nat], IsFiniteSet(Waiting), ready[m] > 0,
         ready' = [ready EXCEPT ![m] = @ - 1]
  PROVE  /\ ready' \in [Msgs -> Nat] /\ ready'[m] = ready[m] - 1
         /\ \A u \in Msgs \ {m} : ready'[u] = ready[u]
         /\ IsFiniteSet(Waiting') /\ Queued' = Queued - 1
<1>1. /\ ready' \in [Msgs -> Nat] /\ ready'[m] = ready[m] - 1 /\ ready[m] \in Nat
      /\ \A u \in Msgs \ {m} : ready'[u] = ready[u]
  OBVIOUS
<1>2. PICK x : x = <<m, ready[m]>>
  OBVIOUS
<1>3. x \in Waiting
  BY <1>1, <1>2 DEF Waiting
<1>4. Waiting' = Waiting \ {x}
  <2>1. ASSUME NEW u \in Msgs, NEW i PROVE <<u, i>> \in Waiting' <=> <<u, i>> \in Waiting \ {x}
    BY <1>1, <1>2 DEF Waiting
  <2>2. \A y \in Waiting \cup Waiting' : \E u \in Msgs : \E i : y = <<u, i>>
    BY DEF Waiting
  <2> QED
    BY <2>1, <2>2, <1>2
<1>5. IsFiniteSet(Waiting') /\ Cardinality(Waiting') = Cardinality(Waiting) - 1
  BY <1>3, <1>4, FS_RemoveElement
<1> QED
  BY <1>1, <1>5 DEF Queued

-----------------------------------------------------------------------------
(* The inductive invariant *)

\* References to u that no copy in the scheduler, no running handler and no
\* lost copy accounts for.
Refs(u) == rc[u] - ready[u] - busy[u] - leaked[u]

NoHand(u) == \A t \in Threads : task[t] # u
NoRing(u) == \A c \in Chans : Never(ring[c], u)

WithEmitter(u) == Owned(u) /\ NoRing(u) /\ NoHand(u) /\ Refs(u) = 1
InRing(u) == /\ ~Owned(u) /\ NoHand(u) /\ Refs(u) = 1
             /\ \E c \in Chans : /\ Once(ring[c], u)
                                 /\ \A e \in Chans \ {c} : Never(ring[e], u)
InHand(u) == /\ ~Owned(u) /\ NoRing(u)
             /\ \E t \in Threads : /\ task[t] = u /\ Refs(u) = left[t]
                                   /\ \A v \in Threads \ {t} : task[v] # u
Gone(u) == ~Owned(u) /\ NoRing(u) /\ NoHand(u) /\ Refs(u) = 0

\* Message u is in one place, with the references that go with it.
Placed(u) == WithEmitter(u) \/ InRing(u) \/ InHand(u) \/ Gone(u)
PlaceInv == \A u \in Msgs : Placed(u)

\* What a thread's local variables hold: a drain has copies to hand out exactly
\* while it has a message, one if the channel is point-to-point, and only then
\* may it be about to write a dead letter.
CtlInv ==
  \A t \in Threads :
    /\ pc[t] \notin {"idle", "sent", "refused"} => at[t] \in Chans
    /\ pc[t] \in {"pop", "route", "dead", "unref"} => snap[t] > 0
    /\ task[t] # None <=> pc[t] \in {"route", "dead", "unref"}
    /\ task[t] # None => left[t] > 0 /\ (at[t] \in P2P => left[t] = 1)
    /\ pc[t] = "dead" => at[t] \in P2P

\* The types in three parts: the locals and registry, the rings, the counters.
CtlType ==
  /\ open \in [Chans -> BOOLEAN] /\ subs \in [Chans -> 0 .. MaxSubs]
  /\ popped \in [Chans -> Nat]
  /\ pc \in [Threads -> PCs] /\ at \in [Threads -> Chans \cup {None}]
  /\ task \in [Threads -> Msgs \cup {None}]
  /\ seen \in [Threads -> Nat] /\ left \in [Threads -> 0 .. MaxSubs]
  /\ snap \in [Threads -> 0 .. MaxSubs]
RingType == ring \in [Chans -> Seq(Msgs)] /\ \A c \in Chans : Len(ring[c]) <= RingCap
CountType == busy \in [Msgs -> Nat] /\ rc \in [Msgs -> Nat] /\ leaked \in [Msgs -> Nat]
QueueType == ready \in [Msgs -> Nat] /\ Queued <= QueueCap
QueueInv == QueueType /\ IsFiniteSet(Waiting)

IndInv == CtlType /\ RingType /\ CountType /\ QueueInv /\ CtlInv /\ PlaceInv

LEMMA TypeParts == TypeOK <=> CtlType /\ RingType /\ CountType /\ QueueType
BY DEF TypeOK, CtlType, RingType, CountType, QueueType

LEMMA InitInv == Init => IndInv
<1> SUFFICES ASSUME Init PROVE IndInv
  OBVIOUS
<1> USE ChannelAssumption
<1>1. CtlType /\ RingType /\ CountType
  BY DEF Init, CtlType, RingType, CountType, PCs
<1>2. CtlInv
  BY DEF Init, CtlInv
<1>3. Waiting = {}
  BY DEF Init, Waiting
<1>4. QueueInv
  BY <1>3, FS_EmptySet DEF Init, QueueInv, QueueType, Queued
<1>5. ASSUME NEW u \in Msgs PROVE WithEmitter(u)
  <2>1. NoRing(u)
    BY EmptyRing DEF Init, NoRing
  <2>2. Owned(u) /\ NoHand(u) /\ Refs(u) = 1
    BY DEF Init, Owned, NoHand, Refs, Threads
  <2> QED
    BY <2>1, <2>2 DEF WithEmitter
<1> QED
  BY <1>1, <1>2, <1>4, <1>5 DEF IndInv, PlaceInv, Placed

-----------------------------------------------------------------------------
(* What an action leaves alone *)

\* Nothing that Placed(u) looks at has changed.
LEMMA Unmoved ==
  ASSUME NEW u \in Msgs, Placed(u),
         Owned(u)' <=> Owned(u), Refs(u)' = Refs(u),
         \A c \in Chans : /\ Once(ring[c], u)' <=> Once(ring[c], u)
                          /\ Never(ring[c], u)' <=> Never(ring[c], u),
         \A t \in Threads : /\ task'[t] = u <=> task[t] = u
                            /\ task[t] = u => left'[t] = left[t]
  PROVE  Placed(u)'
<1>1. (NoRing(u)' <=> NoRing(u)) /\ (NoHand(u)' <=> NoHand(u))
  BY DEF NoRing, NoHand
<1>2. WithEmitter(u) => WithEmitter(u)'
  BY <1>1 DEF WithEmitter
<1>3. Gone(u) => Gone(u)'
  BY <1>1 DEF Gone
<1>4. InRing(u) => InRing(u)'
  BY <1>1 DEF InRing
<1>5. InHand(u) => InHand(u)'
  BY <1>1 DEF InHand
<1> QED
  BY <1>2, <1>3, <1>4, <1>5 DEF Placed

LEMMA Quiet ==
  ASSUME PlaceInv, RingType, RingType', UNCHANGED ring,
         \A u \in Msgs : (Owned(u)' <=> Owned(u)) /\ Refs(u)' = Refs(u),
         \A t \in Threads : task'[t] = task[t] /\ (task[t] # None => left'[t] = left[t])
  PROVE  PlaceInv'
<1> SUFFICES ASSUME NEW u \in Msgs PROVE Placed(u)'
  BY DEF PlaceInv
<1>1. u # None
  BY ChannelAssumption
<1>2. \A c \in Chans : /\ Once(ring[c], u)' <=> Once(ring[c], u)
                       /\ Never(ring[c], u)' <=> Never(ring[c], u)
  BY DEF Once, Never
<1>3. \A t \in Threads : /\ task'[t] = u <=> task[t] = u
                         /\ task[t] = u => left'[t] = left[t]
  BY <1>1
<1> QED
  BY <1>2, <1>3, Unmoved DEF PlaceInv

\* Only message m is moved: the others stay where they are.
LEMMA Others ==
  ASSUME NEW m \in Msgs, PlaceInv, Placed(m)',
         \A u \in Msgs \ {m} : (Owned(u)' <=> Owned(u)) /\ Refs(u)' = Refs(u),
         \A c \in Chans : \A u \in Msgs \ {m} :
            /\ Once(ring[c], u)' <=> Once(ring[c], u)
            /\ Never(ring[c], u)' <=> Never(ring[c], u),
         \A t \in Threads : \/ task'[t] = task[t] /\ (task[t] \notin {m, None} => left'[t] = left[t])
                            \/ task[t] \in {m, None} /\ task'[t] \in {m, None}
  PROVE  PlaceInv'
<1> SUFFICES ASSUME NEW u \in Msgs, u # m PROVE Placed(u)'
  BY DEF PlaceInv
<1>1. u # None
  BY ChannelAssumption
<1>2. \A t \in Threads : /\ task'[t] = u <=> task[t] = u
                         /\ task[t] = u => left'[t] = left[t]
  BY <1>1
<1> QED
  BY <1>2, Unmoved DEF PlaceInv

\* The rings are as they were, for whatever is asked of them.
LEMMA SameRings ==
  ASSUME UNCHANGED ring
  PROVE  \A u : /\ \A c \in Chans : /\ Once(ring[c], u)' <=> Once(ring[c], u)
                                    /\ Never(ring[c], u)' <=> Never(ring[c], u)
                /\ NoRing(u)' <=> NoRing(u)
BY DEF Once, Never, NoRing

-----------------------------------------------------------------------------
(* Steps that move no message *)

\* A step of thread t that changes its place in the code and local variables
\* and neither takes nor gives a message.
LEMMA QuietLocal ==
  ASSUME IndInv, NEW t \in Threads, NEW l \in PCs, CtlType', CtlInv',
         pc' = [pc EXCEPT ![t] = l], task' = [task EXCEPT ![t] = task[t]],
         t \in Msgs => (Owned(t)' <=> Owned(t)),
         \A v \in Threads : task[v] # None => left'[v] = left[v],
         UNCHANGED <<ring, ready, busy, rc, leaked>>
  PROVE  IndInv'
<1>1. RingType' /\ CountType'
  BY DEF IndInv, RingType, CountType
<1>2. QueueInv'
  BY DEF IndInv, QueueInv, QueueType, Queued, Waiting
<1>3. \A v \in Threads : task'[v] = task[v]
  BY DEF IndInv, CtlType
<1>4. \A u \in Msgs : Owned(u)' <=> Owned(u)
  BY DEF IndInv, CtlType, Owned, Threads
<1>5. \A u \in Msgs : Refs(u)' = Refs(u)
  BY DEF Refs
<1>6. PlaceInv'
  BY <1>1, <1>3, <1>4, <1>5, Quiet DEF IndInv
<1> QED
  BY <1>1, <1>2, <1>6 DEF IndInv

\* A thread that has no message in hand leaves its call.
LEMMA LeaveInv ==
  ASSUME IndInv, NEW t \in Threads, NEW l \in {"idle", "sent", "refused"},
         task[t] = None, t \in Msgs => (Owned(t) <=> l # "sent"),
         Leave(t, l), UNCHANGED <<registry, rings, sched, rc, leaked>>
  PROVE  IndInv'
<1>1. /\ pc' = [pc EXCEPT ![t] = l] /\ at' = [at EXCEPT ![t] = None]
      /\ task' = [task EXCEPT ![t] = None] /\ seen' = [seen EXCEPT ![t] = 0]
      /\ left' = [left EXCEPT ![t] = 0] /\ snap' = [snap EXCEPT ![t] = 0]
      /\ UNCHANGED <<open, subs, ring, popped, ready, busy, rc, leaked>>
  BY DEF Leave, Goto, registry, rings, sched
<1>2. l \in PCs
  BY DEF PCs
<1>3. CtlType'
  BY <1>1, <1>2, ChannelAssumption DEF IndInv, CtlType
<1>4. CtlInv'
  BY <1>1, <1>3 DEF IndInv, CtlInv, CtlType
<1>5. t \in Msgs => (Owned(t)' <=> Owned(t))
  BY <1>1 DEF IndInv, CtlType, Owned
<1>6. \A v \in Threads : task[v] # None => left'[v] = left[v]
  BY <1>1 DEF IndInv, CtlType
<1> QED
  BY <1>1, <1>2, <1>3, <1>4, <1>5, <1>6, QuietLocal

LEMMA GoInv ==
  ASSUME IndInv, NEW t \in Threads, NEW l \in PCs, Goto(t, l),
         UNCHANGED <<registry, rings, sched, rc, locals, leaked>>,
         pc[t] \notin {"idle", "sent", "refused"},
         pc[t] \in {"pop", "route", "dead", "unref"} <=> l \in {"pop", "route", "dead", "unref"},
         task[t] # None <=> l \in {"route", "dead", "unref"},
         l = "dead" => at[t] \in P2P,
         t \in Msgs => (Owned(t) <=> l \in {"count", "lookup", "direct", "push", "idle", "refused"})
  PROVE  IndInv'
<1>1. /\ pc' = [pc EXCEPT ![t] = l]
      /\ UNCHANGED <<open, subs, ring, popped, ready, busy, rc, leaked, at, seen, task, left, snap>>
  BY DEF Goto, registry, rings, sched, locals
<1>3. CtlType'
  BY <1>1 DEF IndInv, CtlType
<1>4. CtlInv'
  BY <1>1, <1>3 DEF IndInv, CtlInv, CtlType
<1>5. t \in Msgs => (Owned(t)' <=> Owned(t))
  BY <1>1 DEF IndInv, CtlType, Owned
<1>6. task' = [task EXCEPT ![t] = task[t]]
  BY <1>1 DEF IndInv, CtlType
<1> QED
  BY <1>1, <1>3, <1>4, <1>5, <1>6, QuietLocal

\* gmk_chan_emit up to the push, and its errors.
LEMMA EmitQuietInv ==
  ASSUME IndInv, NEW m \in Msgs,
         \/ \E c \in Chans : Emit(m, c) \/ EmitClosed(m, c)
         \/ EmitBackpressure(m) \/ EmitAdmitted(m) \/ EmitLookup(m)
         \/ EmitFull(m) \/ EmitDrain(m) \/ (EmitDirect(m) /\ ~HasRoom)
  PROVE  IndInv'
<1>0. m \in Threads
  BY DEF Threads
<1>1. ASSUME NEW c \in Chans, Emit(m, c) PROVE IndInv'
  <2>1. /\ pc[m] = "idle" /\ pc' = [pc EXCEPT ![m] = "count"]
        /\ at' = [at EXCEPT ![m] = c]
        /\ seen' = [seen EXCEPT ![m] = popped[c] + Len(ring[c])]
        /\ UNCHANGED <<open, subs, ring, popped, ready, busy, rc, leaked, task, left, snap>>
    BY <1>1 DEF Emit, Goto, registry, rings, sched
  <2>2. popped[c] + Len(ring[c]) \in Nat
    <3>1. ring[c] \in Seq(Msgs) /\ popped[c] \in Nat
      BY DEF IndInv, RingType, CtlType
    <3> QED
      BY <3>1
  <2>3. CtlType'
    BY <1>0, <2>1, <2>2 DEF IndInv, CtlType, PCs
  <2>4. CtlInv'
    BY <1>0, <2>1, <2>3 DEF IndInv, CtlInv, CtlType
  <2>5. Owned(m)' <=> Owned(m)
    BY <1>0, <2>1 DEF IndInv, CtlType, Owned
  <2>6. task' = [task EXCEPT ![m] = task[m]]
    BY <2>1 DEF IndInv, CtlType
  <2>7. "count" \in PCs
    BY DEF PCs
  <2> QED
    BY <1>0, <2>1, <2>3, <2>4, <2>5, <2>6, <2>7, QuietLocal
<1>2. ASSUME pc[m] \in {"idle", "count", "push"}, Leave(m, "refused"),
             UNCHANGED <<registry, rings, sched, rc, leaked>>
      PROVE  IndInv'
  BY <1>0, <1>2, LeaveInv DEF IndInv, CtlInv, Owned
<1>3. CASE EmitAdmitted(m)
  <2>1. PICK l \in {"lookup", "push"} : Goto(m, l)
    BY <1>3 DEF EmitAdmitted
  <2> QED
    BY <1>0, <1>3, <2>1, GoInv DEF EmitAdmitted, IndInv, CtlInv, Owned, PCs
<1>4. CASE EmitLookup(m)
  <2>1. PICK l \in {"direct", "push"} : Goto(m, l)
    BY <1>4 DEF EmitLookup
  <2> QED
    BY <1>0, <1>4, <2>1, GoInv DEF EmitLookup, IndInv, CtlInv, Owned, PCs
<1>5. CASE EmitDirect(m) /\ ~HasRoom
  <2>1. pc[m] = "direct" /\ Goto(m, "push") /\ UNCHANGED <<registry, rings, sched, rc, locals, leaked>>
    BY <1>5 DEF EmitDirect, sched
  <2> QED
    BY <1>0, <2>1, GoInv DEF IndInv, CtlInv, Owned, PCs
<1>6. CASE EmitDrain(m) /\ subs[at[m]] > 0
  <2>1. /\ pc[m] = "after" /\ pc' = [pc EXCEPT ![m] = "pop"]
        /\ snap' = [snap EXCEPT ![m] = subs[at[m]]]
        /\ UNCHANGED <<open, subs, ring, popped, ready, busy, rc, leaked, at, task, left, seen>>
    BY <1>6 DEF EmitDrain, Leave, Goto, registry, rings, sched
  <2>2. at[m] \in Chans /\ subs[at[m]] \in 0 .. MaxSubs
    BY <1>0, <2>1 DEF IndInv, CtlInv, CtlType
  <2>3. CtlType'
    BY <1>0, <2>1, <2>2 DEF IndInv, CtlType, PCs
  <2>4. CtlInv'
    BY <1>0, <1>6, <2>1, <2>2, <2>3 DEF IndInv, CtlInv, CtlType
  <2>5. Owned(m)' <=> Owned(m)
    BY <1>0, <2>1 DEF IndInv, CtlType, Owned
  <2>6. task' = [task EXCEPT ![m] = task[m]]
    BY <2>1 DEF IndInv, CtlType
  <2>7. "pop" \in PCs
    BY DEF PCs
  <2> QED
    BY <1>0, <2>1, <2>3, <2>4, <2>5, <2>6, <2>7, QuietLocal
<1>7. CASE EmitDrain(m) /\ ~(subs[at[m]] > 0)
  <2>1. pc[m] = "after" /\ Leave(m, "sent") /\ UNCHANGED <<registry, rings, sched, rc, leaked>>
    BY <1>7 DEF EmitDrain
  <2> QED
    BY <1>0, <2>1, LeaveInv DEF IndInv, CtlInv, Owned
<1> QED
  BY <1>1, <1>2, <1>3, <1>4, <1>5, <1>6, <1>7
     DEF EmitClosed, EmitBackpressure, EmitFull

\* gmk_chan_drain before it pops, on an empty ring and with full queues.
LEMMA DrainQuietInv ==
  ASSUME NoLosslessFanOut, IndInv, NEW t \in Threads,
         \/ t \in Drainers /\ \E c \in Chans : DrainCall(t, c)
         \/ DrainEmpty(t) \/ DrainNoRoom(t)
  PROVE  IndInv'
<1>1. ASSUME NEW c \in Chans, DrainCall(t, c), t \in Drainers PROVE IndInv'
  <2>1. /\ pc[t] = "idle" /\ pc' = [pc EXCEPT ![t] = "pop"] /\ subs[c] > 0
        /\ at' = [at EXCEPT ![t] = c] /\ snap' = [snap EXCEPT ![t] = subs[c]]
        /\ UNCHANGED <<open, subs, ring, popped, ready, busy, rc, leaked, task, left, seen>>
    BY <1>1 DEF DrainCall, Goto, registry, rings, sched
  <2>3. CtlType'
    BY <2>1 DEF IndInv, CtlType, PCs
  <2>4. CtlInv'
    BY <2>1, <2>3 DEF IndInv, CtlInv, CtlType
  <2>5. t \notin Msgs
    BY <1>1, ChannelAssumption
  <2>6. task' = [task EXCEPT ![t] = task[t]]
    BY <2>1 DEF IndInv, CtlType
  <2>7. "pop" \in PCs
    BY DEF PCs
  <2> QED
    BY <2>1, <2>3, <2>4, <2>5, <2>6, <2>7, QuietLocal
<1>2. CASE DrainEmpty(t)
  <2>1. PICK l \in {"idle", "sent"} : Leave(t, l) /\ (t \in Msgs => l = "sent")
    BY <1>2, ChannelAssumption DEF DrainEmpty, DrainReturn
  <2>2. task[t] = None /\ (t \in Msgs => ~Owned(t))
    BY <1>2 DEF DrainEmpty, IndInv, CtlInv, Owned
  <2> QED
    BY <1>2, <2>1, <2>2, LeaveInv DEF DrainEmpty
<1>3. CASE DrainNoRoom(t)
  <2>1. PICK l \in {"dead", "unref"} : Goto(t, l) /\ (l = "dead" => at[t] \in P2P)
    BY <1>3 DEF DrainNoRoom, NoLosslessFanOut
  <2> QED
    BY <1>3, <2>1, GoInv DEF DrainNoRoom, IndInv, CtlInv, Owned, PCs
<1> QED
  BY <1>1, <1>2, <1>3

\* gmk_chan_sub and gmk_chan_close.
LEMMA RegistryInv ==
  ASSUME IndInv, NEW c \in Chans, Sub(c) \/ Close(c)
  PROVE  IndInv'
<1>1. UNCHANGED <<ring, popped, ready, busy, rc, leaked, pc, at, task, left, seen, snap>>
  BY DEF Sub, Close, rings, sched, locals
<1>2. CtlType'
  <2>1. subs' \in [Chans -> 0 .. MaxSubs] /\ open' \in [Chans -> BOOLEAN]
    <3>1. subs[c] \in 0 .. MaxSubs /\ open \in [Chans -> BOOLEAN] /\ subs \in [Chans -> 0 .. MaxSubs]
      BY DEF IndInv, CtlType
    <3>2. ASSUME Sub(c) PROVE subs[c] + 1 \in 0 .. MaxSubs
      BY <3>1, <3>2, ChannelAssumption DEF Sub
    <3> QED
      BY <3>1, <3>2 DEF Sub, Close
  <2> QED
    BY <1>1, <2>1 DEF IndInv, CtlType
<1>3. CtlInv'
  BY <1>1 DEF IndInv, CtlInv
<1>4. RingType' /\ CountType'
  BY <1>1 DEF IndInv, RingType, CountType
<1>5. QueueInv'
  BY <1>1 DEF IndInv, QueueInv, QueueType, Queued, Waiting
<1>6. \A u \in Msgs : (Owned(u)' <=> Owned(u)) /\ Refs(u)' = Refs(u)
  BY <1>1 DEF Owned, Refs
<1>7. PlaceInv'
  BY <1>1, <1>4, <1>6, Quiet DEF IndInv
<1> QED
  BY <1>2, <1>3, <1>4, <1>5, <1>7 DEF IndInv

\* The references to m that copies in the scheduler stand for are there.
LEMMA RefsType ==
  ASSUME CountType, QueueInv, PlaceInv, CtlType, CtlInv, NEW m \in Msgs
  PROVE  /\ rc[m] \in Nat /\ ready[m] \in Nat /\ busy[m] \in Nat /\ leaked[m] \in Nat
         /\ Refs(m) \in Nat
<1>1. rc[m] \in Nat /\ ready[m] \in Nat /\ busy[m] \in Nat /\ leaked[m] \in Nat
  BY DEF CountType, QueueInv, QueueType
<1>2. Placed(m)
  BY DEF PlaceInv
<1>3. InHand(m) => Refs(m) \in Nat
  BY DEF InHand, CtlType
<1> QED
  BY <1>1, <1>2, <1>3 DEF Placed, WithEmitter, InRing, Gone

LEMMA RoomFor ==
  ASSUME QueueInv, HasRoom, NEW m \in Msgs, Enqueue(m)
  PROVE  /\ QueueInv' /\ ready'[m] = ready[m] + 1
         /\ \A u \in Msgs \ {m} : ready'[u] = ready[u]
<1>1. Queued \in Nat
  BY FS_CardinalityType DEF QueueInv, Queued
<1>2. /\ ready' \in [Msgs -> Nat] /\ ready'[m] = ready[m] + 1
      /\ \A u \in Msgs \ {m} : ready'[u] = ready[u]
      /\ IsFiniteSet(Waiting') /\ Queued' = Queued + 1
  BY <1>1, QueuePut DEF QueueInv, QueueType, Enqueue
<1>3. Queued' <= QueueCap
  BY <1>1, <1>2, ChannelAssumption DEF HasRoom
<1> QED
  BY <1>2, <1>3 DEF QueueInv, QueueType

\* The queues are as they were.
LEMMA SameQueue ==
  ASSUME QueueInv, UNCHANGED ready
  PROVE  QueueInv'
BY DEF QueueInv, QueueType, Queued, Waiting

\* A worker's steps, which leave everything but the counters alone.
LEMMA WorkerStep ==
  ASSUME IndInv, NEW m \in Msgs, CountType', QueueInv', Refs(m)' = Refs(m),
         \A u \in Msgs \ {m} : Refs(u)' = Refs(u),
         UNCHANGED <<registry, rings, pc, locals>>
  PROVE  IndInv'
<1>1. UNCHANGED <<open, subs, ring, popped, pc, at, task, left, seen, snap>>
  BY DEF registry, rings, locals
<1>2. CtlType' /\ CtlInv' /\ RingType'
  BY <1>1 DEF IndInv, CtlType, CtlInv, RingType
<1>3. \A u \in Msgs : (Owned(u)' <=> Owned(u)) /\ Refs(u)' = Refs(u)
  BY <1>1 DEF Owned
<1>4. PlaceInv'
  BY <1>1, <1>2, <1>3, Quiet DEF IndInv
<1> QED
  BY <1>2, <1>4 DEF IndInv

LEMMA WorkerInv ==
  ASSUME IndInv, NEW m \in Msgs, Take(m) \/ HandlerDone(m) \/ HandlerRetry(m)
  PROVE  IndInv'
<1>0. \A u \in Msgs : /\ rc[u] \in Nat /\ ready[u] \in Nat /\ busy[u] \in Nat
                      /\ leaked[u] \in Nat /\ Refs(u) \in Nat
  BY RefsType DEF IndInv
<1>1. CASE Take(m)
  <2>1. /\ ready' = [ready EXCEPT ![m] = @ - 1] /\ ready[m] > 0
        /\ busy' = [busy EXCEPT ![m] = @ + 1] /\ UNCHANGED <<rc, leaked>>
    BY <1>1 DEF Take
  <2>2. CountType' /\ busy'[m] = busy[m] + 1 /\ \A u \in Msgs \ {m} : busy'[u] = busy[u]
    BY <1>0, <2>1 DEF IndInv, CountType
  <2>3. /\ IsFiniteSet(Waiting') /\ Queued' = Queued - 1 /\ ready' \in [Msgs -> Nat]
        /\ ready'[m] = ready[m] - 1 /\ \A u \in Msgs \ {m} : ready'[u] = ready[u]
    BY <2>1, QueueGet DEF IndInv, QueueInv, QueueType
  <2>4. Queued \in Nat /\ Queued <= QueueCap
    BY FS_CardinalityType DEF IndInv, QueueInv, QueueType, Queued
  <2>5. QueueInv'
    BY <2>3, <2>4, ChannelAssumption DEF QueueInv, QueueType
  <2>6. Refs(m)' = Refs(m) /\ \A u \in Msgs \ {m} : Refs(u)' = Refs(u)
    BY <1>0, <2>1, <2>2, <2>3 DEF Refs
  <2> QED
    BY <1>1, <2>2, <2>5, <2>6, WorkerStep DEF Take
<1>2. CASE HandlerDone(m)
  <2>1. /\ busy[m] > 0 /\ busy' = [busy EXCEPT ![m] = @ - 1]
        /\ rc' = [rc EXCEPT ![m] = @ - 1] /\ UNCHANGED <<ready, leaked>>
    BY <1>2 DEF HandlerDone, Release
  <2>2. rc[m] >= 1
    BY <1>0, <2>1 DEF Refs
  <2>3. /\ CountType' /\ busy'[m] = busy[m] - 1 /\ rc'[m] = rc[m] - 1
        /\ \A u \in Msgs \ {m} : busy'[u] = busy[u] /\ rc'[u] = rc[u]
    BY <1>0, <2>1, <2>2 DEF IndInv, CountType
  <2>4. Refs(m)' = Refs(m) /\ \A u \in Msgs \ {m} : Refs(u)' = Refs(u)
    BY <1>0, <2>1, <2>3 DEF Refs
  <2> QED
    BY <1>2, <2>1, <2>3, <2>4, WorkerStep, SameQueue DEF HandlerDone, IndInv
<1>3. CASE HandlerRetry(m) /\ HasRoom
  <2>1. /\ busy[m] > 0 /\ busy' = [busy EXCEPT ![m] = @ - 1]
        /\ Enqueue(m) /\ UNCHANGED <<rc, leaked>>
    BY <1>3 DEF HandlerRetry
  <2>2. CountType' /\ busy'[m] = busy[m] - 1 /\ \A u \in Msgs \ {m} : busy'[u] = busy[u]
    BY <1>0, <2>1 DEF IndInv, CountType
  <2>3. /\ QueueInv' /\ ready'[m] = ready[m] + 1
        /\ \A u \in Msgs \ {m} : ready'[u] = ready[u]
    BY <1>3, <2>1, RoomFor DEF IndInv
  <2>4. Refs(m)' = Refs(m) /\ \A u \in Msgs \ {m} : Refs(u)' = Refs(u)
    BY <1>0, <2>1, <2>2, <2>3 DEF Refs
  <2> QED
    BY <1>3, <2>2, <2>3, <2>4, WorkerStep DEF HandlerRetry
<1>4. CASE HandlerRetry(m) /\ ~HasRoom
  <2>1. /\ busy[m] > 0 /\ busy' = [busy EXCEPT ![m] = @ - 1]
        /\ leaked' = [leaked EXCEPT ![m] = @ + 1] /\ UNCHANGED <<rc, ready>>
    BY <1>4 DEF HandlerRetry
  <2>2. /\ CountType' /\ busy'[m] = busy[m] - 1 /\ leaked'[m] = leaked[m] + 1
        /\ \A u \in Msgs \ {m} : busy'[u] = busy[u] /\ leaked'[u] = leaked[u]
    BY <1>0, <2>1 DEF IndInv, CountType
  <2>4. Refs(m)' = Refs(m) /\ \A u \in Msgs \ {m} : Refs(u)' = Refs(u)
    BY <1>0, <2>1, <2>2 DEF Refs
  <2> QED
    BY <1>4, <2>1, <2>2, <2>4, WorkerStep, SameQueue DEF HandlerRetry, IndInv
<1> QED
  BY <1>1, <1>2, <1>3, <1>4

-----------------------------------------------------------------------------
(* Steps that hand a message on *)

\* gmk_chan_emit, fast path: the emitter's message becomes a copy in the queues.
LEMMA EmitDirectInv ==
  ASSUME IndInv, NEW m \in Msgs, EmitDirect(m), HasRoom
  PROVE  IndInv'
<1>0. m \in Threads /\ m # None
  BY ChannelAssumption DEF Threads
<1>1. /\ pc[m] = "direct" /\ Enqueue(m)
      /\ pc' = [pc EXCEPT ![m] = "sent"] /\ at' = [at EXCEPT ![m] = None]
      /\ task' = [task EXCEPT ![m] = None] /\ seen' = [seen EXCEPT ![m] = 0]
      /\ left' = [left EXCEPT ![m] = 0] /\ snap' = [snap EXCEPT ![m] = 0]
      /\ UNCHANGED <<open, subs, ring, popped, busy, rc, leaked>>
  BY DEF EmitDirect, Leave, Goto, registry, rings
<1>2. CtlType'
  BY <1>0, <1>1, ChannelAssumption DEF IndInv, CtlType, PCs
<1>3. CtlInv'
  BY <1>0, <1>1, <1>2 DEF IndInv, CtlInv, CtlType
<1>4. RingType' /\ CountType'
  BY <1>1 DEF IndInv, RingType, CountType
<1>5. /\ QueueInv' /\ ready'[m] = ready[m] + 1
      /\ \A u \in Msgs \ {m} : ready'[u] = ready[u]
  BY <1>1, RoomFor DEF IndInv
<1>6. \A u \in Msgs : rc[u] \in Nat /\ ready[u] \in Nat /\ busy[u] \in Nat /\ leaked[u] \in Nat
  BY RefsType DEF IndInv
<1>7. Refs(m)' = Refs(m) - 1 /\ \A u \in Msgs \ {m} : Refs(u)' = Refs(u)
  BY <1>1, <1>5, <1>6 DEF Refs
<1>8. /\ Owned(m) /\ ~Owned(m)' /\ task[m] = None
      /\ \A u \in Msgs \ {m} : Owned(u)' <=> Owned(u)
  BY <1>0, <1>1 DEF IndInv, CtlType, CtlInv, Owned, Threads
<1>9. \A t \in Threads : task'[t] = task[t] /\ (task[t] # None => left'[t] = left[t])
  BY <1>1, <1>8 DEF IndInv, CtlType
<1>10. WithEmitter(m)
  BY <1>8 DEF IndInv, PlaceInv, Placed, InRing, InHand, Gone
<1>11. NoRing(m)' /\ NoHand(m)'
  BY <1>1, <1>9, <1>10, SameRings DEF WithEmitter, NoHand
<1>12. Placed(m)'
  BY <1>7, <1>8, <1>10, <1>11 DEF WithEmitter, Gone, Placed
<1>13. \A c \in Chans : \A u \in Msgs \ {m} :
            /\ Once(ring[c], u)' <=> Once(ring[c], u)
            /\ Never(ring[c], u)' <=> Never(ring[c], u)
  BY <1>1, SameRings
<1>14. PlaceInv'
  BY <1>7, <1>8, <1>9, <1>12, <1>13, Others DEF IndInv
<1> QED
  BY <1>2, <1>3, <1>4, <1>5, <1>14 DEF IndInv

\* gmk_ring_mpmc_push of gmk_chan_emit: from the emitter into the ring.
LEMMA EmitPushInv ==
  ASSUME IndInv, NEW m \in Msgs, EmitPush(m)
  PROVE  IndInv'
<1>0. m \in Threads /\ m # None
  BY ChannelAssumption DEF Threads
<1>1. PICK c \in Chans : c = at[m]
  BY <1>0 DEF EmitPush, IndInv, CtlInv
<1>2. ring[c] \in Seq(Msgs) /\ Len(ring[c]) < RingCap /\ Len(ring[c]) \in Nat
  BY <1>1 DEF EmitPush, IndInv, RingType
<1>3. /\ pc[m] = "push" /\ ring' = [ring EXCEPT ![c] = Append(ring[c], m)]
      /\ UNCHANGED <<open, subs, popped, ready, busy, rc, leaked>>
  BY <1>1 DEF EmitPush, registry, sched
<1>4. /\ CtlType' /\ CtlInv' /\ ~Owned(m)'
      /\ \A u \in Msgs \ {m} : Owned(u)' <=> Owned(u)
      /\ \A t \in Threads : task'[t] = task[t] /\ (task[t] # None => left'[t] = left[t])
  <2>1. CASE c \in P2P
    <3>1. pc' = [pc EXCEPT ![m] = "after"] /\ UNCHANGED <<at, seen, task, left, snap>>
      BY <1>1, <2>1 DEF EmitPush, Goto, locals
    <3>2. CtlType'
      BY <1>0, <1>3, <3>1 DEF IndInv, CtlType, PCs
    <3> QED
      BY <1>0, <1>3, <3>1, <3>2 DEF IndInv, CtlType, CtlInv, Owned, Threads
  <2>2. CASE c \notin P2P
    <3>1. /\ pc' = [pc EXCEPT ![m] = "sent"] /\ at' = [at EXCEPT ![m] = None]
          /\ task' = [task EXCEPT ![m] = None] /\ seen' = [seen EXCEPT ![m] = 0]
          /\ left' = [left EXCEPT ![m] = 0] /\ snap' = [snap EXCEPT ![m] = 0]
      BY <1>1, <2>2 DEF EmitPush, Goto, Leave
    <3>2. CtlType'
      BY <1>0, <1>3, <3>1, ChannelAssumption DEF IndInv, CtlType, PCs
    <3>3. CtlInv'
      BY <1>0, <1>3, <3>1, <3>2 DEF IndInv, CtlType, CtlInv
    <3>4. task[m] = None
      BY <1>0, <1>3 DEF IndInv, CtlInv
    <3> QED
      BY <1>0, <1>3, <3>1, <3>2, <3>3, <3>4 DEF IndInv, CtlType, Owned, Threads
  <2> QED
    BY <2>1, <2>2
<1>5. CountType' /\ QueueInv' /\ \A u \in Msgs : Refs(u)' = Refs(u)
  BY <1>3, SameQueue DEF IndInv, CountType, Refs
<1>6. /\ Append(ring[c], m) \in Seq(Msgs) /\ Len(Append(ring[c], m)) = Len(ring[c]) + 1
      /\ Never(ring[c], m) => Once(Append(ring[c], m), m)
      /\ \A u : u # m => /\ Once(Append(ring[c], m), u) <=> Once(ring[c], u)
                         /\ Never(Append(ring[c], m), u) <=> Never(ring[c], u)
  BY <1>2, Pushed
<1>7. ring'[c] = Append(ring[c], m) /\ \A e \in Chans \ {c} : ring'[e] = ring[e]
  BY <1>3 DEF IndInv, RingType
<1>8. RingType'
  <2>1. Len(Append(ring[c], m)) <= RingCap
    BY <1>2, <1>6, ChannelAssumption
  <2> QED
    BY <1>3, <1>6, <1>7, <2>1 DEF IndInv, RingType
<1>9. WithEmitter(m)
  BY <1>3 DEF IndInv, PlaceInv, Placed, InRing, InHand, Gone, Owned
<1>10. /\ Once(ring[c], m)' /\ \A e \in Chans \ {c} : Never(ring[e], m)'
  BY <1>6, <1>7, <1>9 DEF WithEmitter, NoRing
<1>11. Placed(m)'
  BY <1>4, <1>5, <1>9, <1>10 DEF WithEmitter, InRing, Placed, NoHand
<1>12. \A e \in Chans : \A u \in Msgs \ {m} :
            /\ Once(ring[e], u)' <=> Once(ring[e], u)
            /\ Never(ring[e], u)' <=> Never(ring[e], u)
  BY <1>6, <1>7
<1>13. PlaceInv'
  BY <1>4, <1>5, <1>11, <1>12, Others DEF IndInv
<1> QED
  BY <1>4, <1>5, <1>8, <1>13 DEF IndInv

\* gmk_chan_drain takes a message from the ring and makes its references as many
\* as the copies it will hand out.
LEMMA DrainPopInv ==
  ASSUME IndInv, NEW t \in Threads, DrainPop(t)
  PROVE  IndInv' /\ \E c \in Chans : ring[c] # <<>> /\ Refs(Head(ring[c])) = 1
                     /\ Head(ring[c]) \in Msgs
                     /\ \A u \in Msgs \ {Head(ring[c])} : rc'[u] = rc[u]
<1>1. PICK c \in Chans : c = at[t]
  BY DEF DrainPop, IndInv, CtlInv
<1>2. ring[c] \in Seq(Msgs) /\ ring[c] # <<>> /\ Len(ring[c]) <= RingCap
  BY <1>1 DEF DrainPop, IndInv, RingType
<1>3. PICK m : m = Head(ring[c])
  OBVIOUS
<1>4. PICK n : n = IF c \in P2P THEN 1 ELSE snap[t]
  OBVIOUS
<1>5. /\ pc[t] = "pop" /\ pc' = [pc EXCEPT ![t] = "route"]
      /\ ring' = [ring EXCEPT ![c] = Tail(ring[c])]
      /\ popped' = [popped EXCEPT ![c] = @ + 1]
      /\ task' = [task EXCEPT ![t] = m] /\ left' = [left EXCEPT ![t] = n]
      /\ rc' = [rc EXCEPT ![m] = @ + n - 1]
      /\ UNCHANGED <<open, subs, ready, busy, leaked, at, seen, snap>>
  BY <1>1, <1>3, <1>4 DEF DrainPop, Goto, Retain, registry, sched
<1>6. n \in 1 .. MaxSubs /\ (c \in P2P => n = 1)
  <2>1. snap[t] \in 0 .. MaxSubs /\ snap[t] > 0
    BY <1>5 DEF IndInv, CtlInv, CtlType
  <2> QED
    BY <1>4, <2>1, ChannelAssumption
<1>7. /\ m \in Msgs /\ ~Never(ring[c], m)
      /\ Tail(ring[c]) \in Seq(Msgs) /\ Len(Tail(ring[c])) = Len(ring[c]) - 1
      /\ Once(ring[c], m) => Never(Tail(ring[c]), m)
      /\ \A u : u # m => /\ Once(Tail(ring[c]), u) <=> Once(ring[c], u)
                         /\ Never(Tail(ring[c]), u) <=> Never(ring[c], u)
  BY <1>2, <1>3, Popped
<1>8. ring'[c] = Tail(ring[c]) /\ \A e \in Chans \ {c} : ring'[e] = ring[e]
  BY <1>5 DEF IndInv, RingType
<1>9. RingType'
  <2>1. Len(Tail(ring[c])) <= RingCap
    BY <1>2, <1>7, ChannelAssumption
  <2> QED
    BY <1>5, <1>7, <1>8, <2>1 DEF IndInv, RingType
<1>10. \A u \in Msgs : /\ rc[u] \in Nat /\ ready[u] \in Nat /\ busy[u] \in Nat
                       /\ leaked[u] \in Nat
  BY RefsType DEF IndInv
<1>11. InRing(m)
  BY <1>7 DEF IndInv, PlaceInv, Placed, WithEmitter, InHand, Gone, NoRing
<1>12. rc[m] + n - 1 \in Nat /\ m # None
  BY <1>6, <1>7, <1>10, ChannelAssumption
<1>13. /\ CountType' /\ rc'[m] = rc[m] + n - 1 /\ \A u \in Msgs \ {m} : rc'[u] = rc[u]
  BY <1>5, <1>7, <1>12 DEF IndInv, CountType
<1>14. QueueInv'
  BY <1>5, SameQueue DEF IndInv
<1>15. Refs(m) = 1 /\ Refs(m)' = n /\ \A u \in Msgs \ {m} : Refs(u)' = Refs(u)
  <2>1. Refs(m) = 1
    BY <1>11 DEF InRing
  <2>2. n \in Nat /\ rc[m] \in Nat /\ ready[m] \in Nat /\ busy[m] \in Nat /\ leaked[m] \in Nat
    BY <1>6, <1>7, <1>10, ChannelAssumption
  <2>3. Refs(m)' = n
    BY <1>5, <1>13, <2>1, <2>2, SMTT(60) DEF Refs
  <2>4. \A u \in Msgs \ {m} : Refs(u)' = Refs(u)
    BY <1>5, <1>13 DEF Refs
  <2> QED
    BY <2>1, <2>3, <2>4
<1>16. CtlType'
  BY <1>5, <1>6, <1>7, SMTT(60) DEF IndInv, CtlType, PCs
<1>17. CtlInv'
  BY <1>1, <1>5, <1>6, <1>12, <1>16, SMTT(60) DEF IndInv, CtlInv, CtlType
<1>18. task'[t] = m /\ left'[t] = n /\ task[t] = None
       /\ \A v \in Threads \ {t} : task'[v] = task[v] /\ left'[v] = left[v]
  BY <1>5 DEF IndInv, CtlInv, CtlType
<1>19. \A u \in Msgs : Owned(u)' <=> Owned(u)
  BY <1>5 DEF IndInv, CtlType, Owned, Threads
<1>20. Once(ring[c], m) /\ \A e \in Chans \ {c} : Never(ring[e], m)
  BY <1>7, <1>11 DEF InRing
<1>21. NoRing(m)'
  BY <1>7, <1>8, <1>20 DEF NoRing
<1>22. Placed(m)'
  <2>1. ~Owned(m)' /\ \A v \in Threads \ {t} : task'[v] # m
    BY <1>7, <1>11, <1>18, <1>19 DEF InRing, NoHand
  <2>2. InHand(m)'
    BY <1>15, <1>18, <1>21, <2>1 DEF InHand
  <2> QED
    BY <2>2 DEF Placed
<1>23. \A e \in Chans : \A u \in Msgs \ {m} :
            /\ Once(ring[e], u)' <=> Once(ring[e], u)
            /\ Never(ring[e], u)' <=> Never(ring[e], u)
  BY <1>7, <1>8
<1>24. \A v \in Threads : \/ task'[v] = task[v] /\ (task[v] \notin {m, None} => left'[v] = left[v])
                          \/ task[v] \in {m, None} /\ task'[v] \in {m, None}
  BY <1>18
<1>25. PlaceInv'
  BY <1>7, <1>15, <1>19, <1>22, <1>23, <1>24, Others DEF IndInv
<1> QED
  BY <1>2, <1>3, <1>7, <1>9, <1>13, <1>14, <1>15, <1>16, <1>17, <1>25 DEF IndInv

\* What the end of one copy does to the thread that hands out a message.
LEMMA NextCopyStep ==
  ASSUME IndInv, NEW t \in Threads, pc[t] \in {"route", "dead", "unref"}, NextCopy(t),
         UNCHANGED <<registry, popped>>
  PROVE  /\ CtlType' /\ CtlInv'
         /\ \A u \in Msgs : Owned(u)' <=> Owned(u)
         /\ \A v \in Threads \ {t} : task'[v] = task[v] /\ left'[v] = left[v]
         /\ \/ left[t] > 1 /\ task'[t] = task[t] /\ left'[t] = left[t] - 1
            \/ left[t] = 1 /\ task'[t] = None
<1>1. /\ left[t] \in 1 .. MaxSubs /\ task[t] # None /\ at[t] \in Chans
      /\ (at[t] \in P2P => left[t] = 1) /\ UNCHANGED <<open, subs>> /\ snap[t] > 0
  BY ChannelAssumption DEF IndInv, CtlInv, CtlType, registry
<1>2. CASE left[t] > 1
  <2>1. /\ left' = [left EXCEPT ![t] = left[t] - 1] /\ pc' = [pc EXCEPT ![t] = "route"]
        /\ UNCHANGED <<at, seen, task, snap>>
    BY <1>2 DEF NextCopy, Goto
  <2>2. CtlType'
    <3>1. left[t] - 1 \in 0 .. MaxSubs
      BY <1>1, <1>2, ChannelAssumption
    <3> QED
      BY <1>1, <2>1, <3>1 DEF IndInv, CtlType, PCs
  <2>3. CtlInv'
    BY <1>1, <1>2, <2>1, <2>2 DEF IndInv, CtlInv, CtlType
  <2>4. \A u \in Msgs : Owned(u)' <=> Owned(u)
    BY <2>1 DEF IndInv, CtlType, Owned, Threads
  <2> QED
    BY <1>2, <2>1, <2>2, <2>3, <2>4 DEF IndInv, CtlType
<1>3. CASE ~(left[t] > 1) /\ t \in Drainers
  <2>1. /\ left' = [left EXCEPT ![t] = 0] /\ pc' = [pc EXCEPT ![t] = "pop"]
        /\ task' = [task EXCEPT ![t] = None] /\ UNCHANGED <<at, seen, snap>>
    BY <1>3 DEF NextCopy, Goto
  <2>2. CtlType'
    BY <1>1, <2>1, ChannelAssumption DEF IndInv, CtlType, PCs
  <2>3. CtlInv'
    BY <1>1, <2>1, <2>2 DEF IndInv, CtlInv, CtlType
  <2>4. \A u \in Msgs : Owned(u)' <=> Owned(u)
    BY <2>1 DEF IndInv, CtlType, Owned, Threads
  <2> QED
    BY <1>1, <1>3, <2>1, <2>2, <2>3, <2>4 DEF IndInv, CtlType
<1>4. CASE ~(left[t] > 1) /\ t \notin Drainers
  <2>1. /\ pc' = [pc EXCEPT ![t] = "sent"] /\ at' = [at EXCEPT ![t] = None]
        /\ task' = [task EXCEPT ![t] = None] /\ seen' = [seen EXCEPT ![t] = 0]
        /\ left' = [left EXCEPT ![t] = 0] /\ snap' = [snap EXCEPT ![t] = 0]
    BY <1>4 DEF NextCopy, Leave, Goto
  <2>2. CtlType'
    BY <1>1, <2>1, ChannelAssumption DEF IndInv, CtlType, PCs
  <2>3. CtlInv'
    BY <1>1, <2>1, <2>2 DEF IndInv, CtlInv, CtlType
  <2>4. \A u \in Msgs : Owned(u)' <=> Owned(u)
    BY <2>1 DEF IndInv, CtlType, Owned, Threads
  <2> QED
    BY <1>1, <1>4, <2>1, <2>2, <2>3, <2>4 DEF IndInv, CtlType
<1> QED
  BY <1>2, <1>3, <1>4

\* The message of a thread that hands out copies is in its hands only.
LEMMA Holder ==
  ASSUME IndInv, NEW t \in Threads, pc[t] \in {"route", "dead", "unref"}
  PROVE  /\ task[t] \in Msgs /\ task[t] # None /\ ~Owned(task[t]) /\ NoRing(task[t])
         /\ Refs(task[t]) = left[t] /\ left[t] \in Nat \ {0}
         /\ \A v \in Threads \ {t} : task[v] # task[t]
<1>1. task[t] \in Msgs /\ task[t] # None /\ left[t] \in Nat \ {0}
  BY DEF IndInv, CtlInv, CtlType
<1>2. InHand(task[t])
  BY <1>1 DEF IndInv, PlaceInv, Placed, WithEmitter, InRing, Gone, NoHand
<1> QED
  BY <1>1, <1>2 DEF InHand

\* One copy less to hand out, and one reference less that is the drain's.
LEMMA CopyDone ==
  ASSUME IndInv, NEW t \in Threads, pc[t] \in {"route", "dead", "unref"}, NextCopy(t),
         UNCHANGED <<registry, rings>>, CountType', QueueInv',
         NEW m \in Msgs, m = task[t], Refs(m)' = Refs(m) - 1,
         \A u \in Msgs \ {m} : Refs(u)' = Refs(u)
  PROVE  IndInv'
<1>0. UNCHANGED ring /\ UNCHANGED popped
  BY DEF rings
<1>2. /\ m # None /\ ~Owned(m) /\ NoRing(m) /\ Refs(m) = left[t] /\ left[t] \in Nat \ {0}
      /\ \A v \in Threads \ {t} : task[v] # m
  BY Holder
<1>3. /\ CtlType' /\ CtlInv'
      /\ \A u \in Msgs : Owned(u)' <=> Owned(u)
      /\ \A v \in Threads \ {t} : task'[v] = task[v] /\ left'[v] = left[v]
      /\ \/ left[t] > 1 /\ task'[t] = m /\ left'[t] = left[t] - 1
         \/ left[t] = 1 /\ task'[t] = None
  BY <1>0, NextCopyStep
<1>5. RingType' /\ NoRing(m)'
  BY <1>0, <1>2, SameRings DEF IndInv, RingType
<1>6. Placed(m)'
  <2>1. CASE left[t] > 1 /\ task'[t] = m /\ left'[t] = left[t] - 1
    <3>1. InHand(m)'
      BY <1>2, <1>3, <1>5, <2>1 DEF InHand
    <3> QED
      BY <3>1 DEF Placed
  <2>2. CASE left[t] = 1 /\ task'[t] = None
    <3>1. NoHand(m)'
      BY <1>2, <1>3, <2>2 DEF NoHand
    <3>2. Gone(m)'
      BY <1>2, <1>3, <1>5, <2>2, <3>1 DEF Gone
    <3> QED
      BY <3>2 DEF Placed
  <2> QED
    BY <1>3, <2>1, <2>2
<1>7. \A c \in Chans : \A u \in Msgs \ {m} :
            /\ Once(ring[c], u)' <=> Once(ring[c], u)
            /\ Never(ring[c], u)' <=> Never(ring[c], u)
  BY <1>0, SameRings
<1>8. \A v \in Threads : \/ task'[v] = task[v] /\ (task[v] \notin {m, None} => left'[v] = left[v])
                         \/ task[v] \in {m, None} /\ task'[v] \in {m, None}
  BY <1>3
<1>9. PlaceInv'
  BY <1>3, <1>6, <1>7, <1>8, Others DEF IndInv
<1> QED
  BY <1>3, <1>5, <1>9 DEF IndInv

\* A copy is routed, or dropped with its reference, or lost.
LEMMA DrainRouteInv ==
  ASSUME IndInv, NEW t \in Threads, DrainRoute(t)
  PROVE  IndInv'
<1>1. /\ pc[t] = "route" /\ NextCopy(t) /\ HasRoom /\ Enqueue(task[t])
      /\ UNCHANGED <<registry, rings>> /\ UNCHANGED <<busy, rc, leaked>>
  BY DEF DrainRoute
<1>2. PICK m \in Msgs : m = task[t]
  BY <1>1, Holder
<1>3. /\ QueueInv' /\ ready'[m] = ready[m] + 1
      /\ \A u \in Msgs \ {m} : ready'[u] = ready[u]
  BY <1>1, <1>2, RoomFor DEF IndInv
<1>4. rc[m] \in Nat /\ ready[m] \in Nat /\ busy[m] \in Nat /\ leaked[m] \in Nat
  BY RefsType DEF IndInv
<1>5. Refs(m)' = Refs(m) - 1 /\ \A u \in Msgs \ {m} : Refs(u)' = Refs(u)
  BY <1>1, <1>3, <1>4 DEF Refs
<1>6. CountType'
  BY <1>1 DEF IndInv, CountType
<1> QED
  BY <1>1, <1>2, <1>3, <1>5, <1>6, CopyDone

LEMMA UnrefInv ==
  ASSUME IndInv, NEW t \in Threads, Unref(t)
  PROVE  IndInv'
<1>1. /\ pc[t] = "unref" /\ NextCopy(t) /\ rc' = [rc EXCEPT ![task[t]] = @ - 1]
      /\ UNCHANGED <<registry, rings>> /\ UNCHANGED <<ready, busy, leaked>>
  BY DEF Unref, Release, sched
<1>2. PICK m \in Msgs : m = task[t] /\ Refs(m) \in Nat \ {0}
  BY <1>1, Holder
<1>3. rc[m] \in Nat /\ ready[m] \in Nat /\ busy[m] \in Nat /\ leaked[m] \in Nat
  BY RefsType DEF IndInv
<1>4. rc[m] - 1 \in Nat
  BY <1>2, <1>3 DEF Refs
<1>5. CountType' /\ rc'[m] = rc[m] - 1 /\ \A u \in Msgs \ {m} : rc'[u] = rc[u]
  BY <1>1, <1>2, <1>4 DEF IndInv, CountType
<1>6. Refs(m)' = Refs(m) - 1 /\ \A u \in Msgs \ {m} : Refs(u)' = Refs(u)
  BY <1>1, <1>3, <1>5 DEF Refs
<1>7. QueueInv'
  BY <1>1, SameQueue DEF IndInv
<1> QED
  BY <1>1, <1>2, <1>5, <1>6, <1>7, CopyDone

\* route_to_dead_letter of a point-to-point channel: the one copy goes into the
\* ring of "sys.dropped", or its reference is leaked.
LEMMA DeadLetterInv ==
  ASSUME IndInv, NEW t \in Threads, DeadLetter(t)
  PROVE  IndInv'
<1>1. /\ pc[t] = "dead" /\ at[t] \in P2P /\ NextCopy(t) /\ left[t] = 1
      /\ UNCHANGED <<registry, popped, ready, busy, rc>> /\ Dead \in Chans
  BY ChannelAssumption DEF DeadLetter, IndInv, CtlInv, sched
<1>2. PICK m \in Msgs : m = task[t]
  BY <1>1, Holder
<1>3. /\ m # None /\ ~Owned(m) /\ NoRing(m) /\ Refs(m) = 1
      /\ \A v \in Threads \ {t} : task[v] # m
  BY <1>1, <1>2, Holder
<1>4. rc[m] \in Nat /\ ready[m] \in Nat /\ busy[m] \in Nat /\ leaked[m] \in Nat
  BY RefsType DEF IndInv
<1>5. QueueInv'
  BY <1>1, SameQueue DEF IndInv
<1>6. CASE Len(ring[Dead]) < RingCap
  <2>1. ring' = [ring EXCEPT ![Dead] = Append(ring[Dead], m)] /\ UNCHANGED leaked
    BY <1>1, <1>2, <1>6 DEF DeadLetter
  <2>2. ring[Dead] \in Seq(Msgs) /\ Len(ring[Dead]) \in Nat
    BY <1>1 DEF IndInv, RingType
  <2>3. /\ Append(ring[Dead], m) \in Seq(Msgs)
        /\ Len(Append(ring[Dead], m)) = Len(ring[Dead]) + 1
        /\ Never(ring[Dead], m) => Once(Append(ring[Dead], m), m)
        /\ \A u : u # m => /\ Once(Append(ring[Dead], m), u) <=> Once(ring[Dead], u)
                           /\ Never(Append(ring[Dead], m), u) <=> Never(ring[Dead], u)
    BY <2>2, Pushed
  <2>4. /\ ring'[Dead] = Append(ring[Dead], m)
        /\ \A e \in Chans \ {Dead} : ring'[e] = ring[e]
    BY <1>1, <2>1 DEF IndInv, RingType
  <2>5. RingType'
    <3>1. Len(Append(ring[Dead], m)) <= RingCap
      BY <1>6, <2>2, <2>3, ChannelAssumption
    <3> QED
      BY <2>1, <2>3, <2>4, <3>1 DEF IndInv, RingType
  <2>6. /\ CtlType' /\ CtlInv'
        /\ \A u \in Msgs : Owned(u)' <=> Owned(u)
        /\ \A v \in Threads \ {t} : task'[v] = task[v] /\ left'[v] = left[v]
        /\ task'[t] = None
    BY <1>1, NextCopyStep
  <2>7. CountType' /\ \A u \in Msgs : Refs(u)' = Refs(u)
    BY <1>1, <2>1 DEF IndInv, CountType, Refs
  <2>8. Placed(m)'
    <3>1. Once(ring[Dead], m)' /\ \A e \in Chans \ {Dead} : Never(ring[e], m)'
      BY <1>1, <1>3, <2>3, <2>4 DEF NoRing
    <3>2. NoHand(m)'
      BY <1>3, <2>6 DEF NoHand
    <3>3. InRing(m)'
      BY <1>1, <1>3, <2>6, <2>7, <3>1, <3>2 DEF InRing
    <3> QED
      BY <3>3 DEF Placed
  <2>9. \A c \in Chans : \A u \in Msgs \ {m} :
            /\ Once(ring[c], u)' <=> Once(ring[c], u)
            /\ Never(ring[c], u)' <=> Never(ring[c], u)
    BY <2>3, <2>4
  <2>10. \A v \in Threads : \/ task'[v] = task[v] /\ (task[v] \notin {m, None} => left'[v] = left[v])
                            \/ task[v] \in {m, None} /\ task'[v] \in {m, None}
    BY <1>2, <2>6
  <2>11. PlaceInv'
    BY <2>6, <2>7, <2>8, <2>9, <2>10, Others DEF IndInv
  <2> QED
    BY <1>5, <2>5, <2>6, <2>7, <2>11 DEF IndInv
<1>7. CASE ~(Len(ring[Dead]) < RingCap)
  <2>1. UNCHANGED ring /\ leaked' = [leaked EXCEPT ![m] = @ + 1]
    BY <1>1, <1>2, <1>7 DEF DeadLetter
  <2>2. /\ CountType' /\ leaked'[m] = leaked[m] + 1
        /\ \A u \in Msgs \ {m} : leaked'[u] = leaked[u]
    BY <1>1, <1>4, <2>1 DEF IndInv, CountType
  <2>3. Refs(m)' = Refs(m) - 1 /\ \A u \in Msgs \ {m} : Refs(u)' = Refs(u)
    <3>1. UNCHANGED <<ready, busy, rc>>
      BY <1>1
    <3>2. Refs(m)' = Refs(m) - 1
      BY <1>4, <2>2, <3>1 DEF Refs
    <3> QED
      BY <2>2, <3>1, <3>2 DEF Refs
  <2>4. UNCHANGED <<registry, rings>>
    BY <1>1, <2>1 DEF rings
  <2> QED
    BY <1>1, <1>2, <1>5, <2>2, <2>3, <2>4, CopyDone
<1> QED
  BY <1>6, <1>7

-----------------------------------------------------------------------------
(* The invariant is kept *)

LEMMA NextInv ==
  ASSUME NoLosslessFanOut, IndInv, [Next]_vars
  PROVE  IndInv'
<1>1. ASSUME NEW m \in Msgs, NEW c \in Chans, Emit(m, c) \/ EmitClosed(m, c)
      PROVE  IndInv'
  BY <1>1, EmitQuietInv
<1>2. ASSUME NEW m \in Msgs, EmitStep(m)
      PROVE  IndInv'
  BY <1>2, EmitQuietInv, EmitDirectInv, EmitPushInv DEF EmitStep
<1>3. ASSUME NEW m \in Msgs, Take(m) \/ HandlerDone(m) \/ HandlerRetry(m)
      PROVE  IndInv'
  BY <1>3, WorkerInv
<1>4. ASSUME NEW d \in Drainers, NEW c \in Chans, DrainCall(d, c)
      PROVE  IndInv'
  BY <1>4, DrainQuietInv DEF Threads
<1>5. ASSUME NEW t \in Threads, DrainStep(t)
      PROVE  IndInv'
  BY <1>5, DrainQuietInv, DrainPopInv, DrainRouteInv, DeadLetterInv, UnrefInv DEF DrainStep
<1>6. ASSUME NEW c \in Chans, Sub(c) \/ Close(c)
      PROVE  IndInv'
  BY <1>6, RegistryInv
<1>7. CASE UNCHANGED vars
  <2>1. UNCHANGED <<open, subs, ring, popped, ready, busy, rc, pc, at, seen, task, left, snap,
                    leaked>>
    BY <1>7 DEF vars
  <2>2. CtlType' /\ RingType' /\ CountType' /\ CtlInv'
    BY <2>1 DEF IndInv, CtlType, RingType, CountType, CtlInv
  <2>3. \A u \in Msgs : (Owned(u)' <=> Owned(u)) /\ Refs(u)' = Refs(u)
    BY <2>1 DEF Owned, Refs
  <2>4. PlaceInv' /\ QueueInv'
    BY <2>1, <2>2, <2>3, Quiet, SameQueue DEF IndInv
  <2> QED
    BY <2>2, <2>4 DEF IndInv
<1> QED
  BY <1>1, <1>2, <1>3, <1>4, <1>5, <1>6, <1>7 DEF Next

\* The reference counts of gmk_payload_alloc, gmk_payload_retain and
\* gmk_payload_release follow the messages through emit, drain, dead letters and
\* handlers, for any number of messages, channels, subscribers and drains.
THEOREM Invariance ==
  ASSUME NoLosslessFanOut
  PROVE  Spec => []IndInv
<1>1. Init => IndInv
  BY InitInv
<1>2. IndInv /\ [Next]_vars => IndInv'
  BY NextInv
<1> QED
  BY <1>1, <1>2, PTL DEF Spec

\* Types of chan.c's variables: no ring holds more than ring_cap messages and the
\* queues no more than their places, whichever emitters and drains meet.
THEOREM TypeCorrect ==
  ASSUME NoLosslessFanOut
  PROVE  Spec => []TypeOK
<1>1. IndInv => TypeOK
  BY TypeParts DEF IndInv, QueueInv
<1> QED
  BY <1>1, Invariance, PTL

\* The number of cells and of copies to hand out, for a message in its place.
LEMMA NoCells ==
  ASSUME NEW m, NoRing(m)
  PROVE  InRings(m) = 0
<1>1. Cells(m) = {}
  BY DEF Cells, NoRing, Never
<1> QED
  BY <1>1, FS_EmptySet DEF InRings

LEMMA OneCell ==
  ASSUME NEW m, NEW c \in Chans, Once(ring[c], m), \A e \in Chans \ {c} : Never(ring[e], m)
  PROVE  InRings(m) = 1
<1>1. PICK i \in DOMAIN ring[c] : ring[c][i] = m /\ \A j \in DOMAIN ring[c] : ring[c][j] = m => j = i
  BY DEF Once
<1>2. Cells(m) = {<<c, i>>}
  <2>1. <<c, i>> \in Cells(m)
    BY <1>1 DEF Cells
  <2>2. ASSUME NEW x \in Cells(m) PROVE x = <<c, i>>
    <3>1. PICK e \in Chans : x \in {e} \X {j \in DOMAIN ring[e] : ring[e][j] = m}
      BY <2>2 DEF Cells
    <3>2. e = c
      BY <3>1 DEF Never
    <3> QED
      BY <3>1, <3>2, <1>1
  <2> QED
    BY <2>1, <2>2
<1> QED
  BY <1>2, FS_Singleton DEF InRings

LEMMA NonePending ==
  ASSUME NEW m, NoHand(m)
  PROVE  Pending(m) = 0
BY DEF Pending, NoHand

LEMMA OnePending ==
  ASSUME NEW m, NEW t \in Threads, task[t] = m, \A v \in Threads \ {t} : task[v] # m
  PROVE  Pending(m) = left[t]
<1>1. {v \in Threads : task[v] = m} = {t}
  OBVIOUS
<1> QED
  BY <1>1 DEF Pending

LEMMA Counted ==
  ASSUME IndInv, NEW m \in Msgs
  PROVE  /\ (IF Owned(m) THEN 1 ELSE 0) + InRings(m) + Pending(m) = Refs(m)
         /\ rc[m] = Copies(m) + leaked[m] /\ Copies(m) \in Nat /\ leaked[m] \in Nat
<1>1. /\ rc[m] \in Nat /\ ready[m] \in Nat /\ busy[m] \in Nat /\ leaked[m] \in Nat
      /\ Refs(m) \in Nat
  BY RefsType DEF IndInv
<1>2. PICK x : x = (IF Owned(m) THEN 1 ELSE 0) + InRings(m) + Pending(m)
  OBVIOUS
<1>3. x = Refs(m)
  <2>1. CASE WithEmitter(m)
    BY <1>2, <2>1, NoCells, NonePending DEF WithEmitter
  <2>2. CASE InRing(m)
    BY <1>2, <2>2, OneCell, NonePending DEF InRing
  <2>3. CASE InHand(m)
    <3>1. InRings(m) = 0 /\ Pending(m) = Refs(m) /\ ~Owned(m)
      BY <2>3, NoCells, OnePending DEF InHand
    <3> QED
      BY <1>1, <1>2, <3>1
  <2>4. CASE Gone(m)
    BY <1>2, <2>4, NoCells, NonePending DEF Gone
  <2> QED
    BY <2>1, <2>2, <2>3, <2>4 DEF IndInv, PlaceInv, Placed
<1>4. Copies(m) = x + ready[m] + busy[m]
  BY <1>2 DEF Copies
<1> QED
  BY <1>1, <1>2, <1>3, <1>4 DEF Refs

\* One reference for every copy: gmk_payload_retain in gmk_chan_drain and the
\* releases of drain and worker keep the count exact in every interleaving.
THEOREM RefCounts ==
  ASSUME NoLosslessFanOut
  PROVE  Spec => []RefsExact
<1>1. IndInv => RefsExact
  BY Counted DEF RefsExact
<1> QED
  BY <1>1, Invariance, PTL

\* "the payload lives until all handlers complete" (chan.c): nobody can be given
\* a copy whose payload has been freed.
THEOREM Alive ==
  ASSUME NoLosslessFanOut
  PROVE  Spec => []PayloadAlive
<1>1. IndInv => PayloadAlive
  <2> SUFFICES ASSUME IndInv, NEW m \in Msgs, Copies(m) > 0 PROVE rc[m] > 0
    BY DEF PayloadAlive
  <2>1. rc[m] = Copies(m) + leaked[m] /\ Copies(m) \in Nat /\ leaked[m] \in Nat
    BY Counted
  <2> QED
    BY <2>1
<1> QED
  BY <1>1, Invariance, PTL

\* gmk_payload_retain and gmk_payload_release are never called on a payload that
\* gmk_payload_release has freed.
LEMMA FreedStep ==
  ASSUME IndInv, [Next]_vars, NEW m \in Msgs, rc[m] = 0
  PROVE  rc'[m] = 0
<1>0. \A u \in Msgs : /\ rc[u] \in Nat /\ ready[u] \in Nat /\ busy[u] \in Nat
                      /\ leaked[u] \in Nat /\ Refs(u) \in Nat
  BY RefsType DEF IndInv
<1>1. Refs(m) = 0 /\ busy[m] = 0
  <2>1. /\ ready[m] \in Nat /\ busy[m] \in Nat /\ leaked[m] \in Nat /\ Refs(m) \in Nat
    BY <1>0
  <2>2. Refs(m) = 0 - ready[m] - busy[m] - leaked[m]
    BY DEF Refs
  <2> QED
    BY <2>1, <2>2, SMTT(60)
<1>2. ASSUME NEW u \in Msgs, HandlerDone(u) PROVE rc'[m] = 0
  BY <1>1, <1>2 DEF HandlerDone, Release, IndInv, CountType
<1>3. ASSUME NEW t \in Threads, Unref(t) PROVE rc'[m] = 0
  <2>1. Refs(task[t]) = left[t] /\ left[t] \in Nat \ {0} /\ task[t] \in Msgs
    BY <1>3, Holder DEF Unref
  <2>2. task[t] # m
    BY <1>1, <2>1
  <2> QED
    BY <1>3, <2>1, <2>2 DEF Unref, Release, IndInv, CountType
<1>4. ASSUME NEW t \in Threads, DrainPop(t) PROVE rc'[m] = 0
  BY <1>1, <1>4, DrainPopInv
<1>5. ASSUME UNCHANGED rc PROVE rc'[m] = 0
  BY <1>5
<1>6. ASSUME NEW u \in Msgs, NEW c \in Chans, Emit(u, c) \/ EmitClosed(u, c) PROVE UNCHANGED rc
  BY <1>6 DEF Emit, EmitClosed
<1>7. ASSUME NEW u \in Msgs, EmitStep(u) PROVE UNCHANGED rc
  BY <1>7 DEF EmitStep, EmitBackpressure, EmitAdmitted, EmitLookup, EmitDirect, EmitPush,
              EmitFull, EmitDrain
<1>8. ASSUME NEW u \in Msgs, Take(u) \/ HandlerRetry(u) PROVE UNCHANGED rc
  BY <1>8 DEF Take, HandlerRetry
<1>9. ASSUME NEW t \in Threads,
             \/ \E c \in Chans : DrainCall(t, c)
             \/ DrainEmpty(t) \/ DrainRoute(t) \/ DrainNoRoom(t) \/ DeadLetter(t)
      PROVE  UNCHANGED rc
  BY <1>9 DEF DrainCall, DrainEmpty, DrainRoute, DrainNoRoom, DeadLetter
<1>10. ASSUME NEW c \in Chans, Sub(c) \/ Close(c) PROVE UNCHANGED rc
  BY <1>10 DEF Sub, Close
<1>11. CASE UNCHANGED vars
  BY <1>11, <1>5 DEF vars
<1>12. CASE Next
  <2>1. ASSUME NEW t \in Threads, DrainStep(t) PROVE rc'[m] = 0
    BY <2>1, <1>3, <1>4, <1>5, <1>9 DEF DrainStep
  <2>2. ASSUME NEW d \in Drainers, NEW c \in Chans, DrainCall(d, c) PROVE rc'[m] = 0
    BY <2>2, <1>5, <1>9 DEF Threads
  <2> QED
    BY <1>12, <1>2, <1>5, <1>6, <1>7, <1>8, <1>10, <2>1, <2>2 DEF Next
<1> QED
  BY <1>11, <1>12

\* A freed payload stays freed: it is neither retained nor released again.
THEOREM NoRevival ==
  ASSUME NoLosslessFanOut
  PROVE  Spec => FreedOnce
<1>1. IndInv /\ [Next]_vars => [\A m \in Msgs : rc[m] = 0 => rc'[m] = 0]_vars
  BY FreedStep
<1> QED
  BY <1>1, Invariance, PTL DEF Spec, FreedOnce
=============================================================================
