------------------------------ MODULE Allocator ------------------------------
(***************************************************************************)
(* src/alloc.c and the allocators it routes to: the task and trace slabs   *)
(* and the twelve bins of the block allocator (all alloc_slab.c, each with *)
(* its own ticket lock of arch/spinlock.h), and the lock-free bump region. *)
(*                                                                         *)
(* Memory is addressed by offsets in the arena, and the layout is computed *)
(* as gmk_alloc_init computes it.  One action per access to shared memory: *)
(* the slab's critical sections are several steps, so that only the lock   *)
(* keeps them apart.  A thread frees what it allocated, once, with the     *)
(* size it asked for, as gmk_payload_release does.                         *)
(*                                                                         *)
(* Statistics (high_water, total_alloc_bytes, total_alloc_fails) are left  *)
(* out: nothing reads them to decide.                                      *)
(***************************************************************************)
EXTENDS Integers, FiniteSets, Sequences

CONSTANTS Threads,     \* threads that allocate and free
          ArenaSizes,  \* the arena sizes to try
          Sizes,       \* sizes asked of gmk_alloc
          BumpSizes,   \* sizes asked of gmk_bump
          SpareTasks,  \* objects of the task slab not taken for good at boot
          SpareObjs,   \* and of every other slab
          MaxHeld,     \* BOUND: blocks a thread holds
          MaxBumps,    \* BOUND: blocks that gmk_bump returns between resets
          W,           \* number of values of a ticket
          Word,        \* number of values of the bump offset: 2^32
          None         \* no slab

ASSUME AllocatorAssumption ==
  /\ IsFiniteSet(Threads) /\ W \in Nat /\ Cardinality(Threads) < W
  /\ ArenaSizes \subseteq Nat /\ \A a \in ArenaSizes : a >= 4096
  /\ Word \in Nat \ {0} /\ Word % 8 = 0
  /\ Sizes \subseteq Nat \ {0} /\ BumpSizes \subseteq 1 .. Word - 1
  /\ SpareTasks \in Nat /\ SpareObjs \in Nat
  /\ MaxHeld \in Nat /\ MaxBumps \in Nat
  /\ None \notin Nat

VARIABLES arena,     \* a->arena.size
          slab,      \* slab[s]: its free_head, free_list and alloc_count
          next,      \* next[s], serving[s]: the slab's ticket lock
          serving,
          offset,    \* a->bump.offset
          pc,        \* pc[t]: the access t makes next
          loc,       \* loc[t]: locals of t's call
          held,      \* held[t]: blocks t got from gmk_alloc, with their sizes
          bumped,    \* blocks that gmk_bump returned since the last reset,
                     \* with the sizes asked for, in the order of the calls
          torn       \* history: since then a gmk_bump began while a failed one
                     \* of another size was still to roll back, or a sum of
                     \* gmk_bump_alloc left its 32 bits

bump == <<offset, bumped, torn>>
vars == <<arena, slab, next, serving, offset, pc, loc, held, bumped, torn>>

-----------------------------------------------------------------------------
(* The layout of the arena *)

Bins == 0 .. 11
Task == 12
Trace == 13
Slabs == Bins \cup {Task, Trace}

TaskObj == 48
BlockMax == 65536

Align8(n) == 8 * ((n + 7) \div 8)

\* The shares that gmk_alloc_init gives to the parts, and where they start.
TaskSize(a) == (a * 10) \div 100
TraceSize(a) == (a * 2) \div 100
BumpSize(a) == (a * 20) \div 100
BlockSize(a) == a - TaskSize(a) - TraceSize(a) - BumpSize(a)
BlockBase(a) == TaskSize(a) + TraceSize(a)
BumpBase(a) == BlockBase(a) + BlockSize(a)

\* gmk_block_init: the weights of the bins are 16, 12, 8, 6, 4 and then 2, of 60
\* in all; a bin gets its weight's share of the block part, the last one the
\* rest.  (The rounded shares never exceed what remains.)
Share(a, weight) == (BlockSize(a) * weight) \div 60
BinStart(a, i) ==
  CASE i = 0 -> 0
    [] i = 1 -> Share(a, 16)
    [] i = 2 -> Share(a, 16) + Share(a, 12)
    [] i = 3 -> Share(a, 16) + Share(a, 12) + Share(a, 8)
    [] i = 4 -> Share(a, 16) + Share(a, 12) + Share(a, 8) + Share(a, 6)
    [] i \in 5 .. 11 -> Share(a, 16) + Share(a, 12) + Share(a, 8) + Share(a, 6)
                         + Share(a, 4) + (i - 5) * Share(a, 2)
    [] i = 12 -> BlockSize(a)

\* GMK_BLOCK_MIN_SIZE << i
BinSize(i) == CASE i = 0 -> 32 [] i = 1 -> 64 [] i = 2 -> 128 [] i = 3 -> 256
                [] i = 4 -> 512 [] i = 5 -> 1024 [] i = 6 -> 2048 [] i = 7 -> 4096
                [] i = 8 -> 8192 [] i = 9 -> 16384 [] i = 10 -> 32768 [] i = 11 -> 65536

\* base, total_size and obj_size of the slabs.
BaseOf(a, s) == CASE s = Task -> 0
                  [] s = Trace -> TaskSize(a)
                  [] OTHER -> BlockBase(a) + BinStart(a, s)
TotalSize(a, s) == CASE s = Task -> TaskSize(a)
                     [] s = Trace -> TraceSize(a)
                     [] OTHER -> BinStart(a, s + 1) - BinStart(a, s)
ObjSize(s) == CASE s = Task -> Align8(TaskObj)
                [] s = Trace -> 32
                [] OTHER -> BinSize(s)

\* capacity: objects, with four bytes of free list each; 0 is an empty bin.
CapacityOf(a, s) == TotalSize(a, s) \div (ObjSize(s) + 4)

\* The slabs as gmk_alloc_init leaves them, for every arena size.
Layout == [a \in ArenaSizes |-> [s \in Slabs |->
             [base |-> BaseOf(a, s), capacity |-> CapacityOf(a, s)]]]
Base(a, s) == Layout[a][s].base
Capacity(a, s) == Layout[a][s].capacity

\* Where the slab's free_list starts.
ListBase(a, s) == Base(a, s) + Capacity(a, s) * ObjSize(s)

\* bin_index: the smallest bin whose objects hold the size, -1 beyond the last.
bin_index(size) ==
  IF size > BlockMax THEN -1
  ELSE CHOOSE i \in Bins : size <= BinSize(i) /\ (i = 0 \/ size > BinSize(i - 1))

-----------------------------------------------------------------------------
NoCall == [op |-> None, s |-> None, size |-> 0, idx |-> -1, ticket |-> 0]

\* gmk_alloc_init, and all but a few objects of each slab taken
\* for good.
Kept(a, s) == 0 .. Capacity(a, s) - (IF s = Task THEN SpareTasks ELSE SpareObjs) - 1
Init == /\ arena \in ArenaSizes
        /\ slab = [s \in Slabs |->
                    LET n == Capacity(arena, s)
                        kept == Cardinality(Kept(arena, s))
                    IN [free_head |-> IF kept = n THEN -1 ELSE kept,
                        free_list |-> [i \in 0 .. n - 1 |->
                                         IF i = n - 1 THEN -1 ELSE i + 1],
                        alloc_count |-> kept]]
        /\ next = [s \in Slabs |-> 0] /\ serving = [s \in Slabs |-> 0]
        /\ offset = 0
        /\ pc = [t \in Threads |-> "idle"]
        /\ loc = [t \in Threads |-> NoCall]
        /\ held = [t \in Threads |-> {}]
        /\ bumped = <<>> /\ torn = FALSE

Goto(t, l) == pc' = [pc EXCEPT ![t] = l]
Return(t) == Goto(t, "idle") /\ loc' = [loc EXCEPT ![t] = NoCall]

-----------------------------------------------------------------------------
(* gmk_slab_alloc and gmk_slab_free under gmk_spinlock_acquire and _release *)

\* MUTANT: a lock that hands out the number being served.
TakeServing(t, call) ==
  /\ loc' = [loc EXCEPT ![t] = [call EXCEPT !.ticket = serving[call.s]]]
  /\ next' = [next EXCEPT ![call.s] = (@ + 1) % W]
  /\ Goto(t, "spin")

\* The fetch-and-add that starts gmk_spinlock_acquire.
TakeTicket(t, call) ==
  /\ loc' = [loc EXCEPT ![t] = [call EXCEPT !.ticket = next[call.s]]]
  /\ next' = [next EXCEPT ![call.s] = (@ + 1) % W]
  /\ Goto(t, "spin")

\* The end of the spinning; the first access under the lock is in the same step.
Acquired(t, op) == /\ pc[t] = "spin" /\ loc[t].op = op
                   /\ serving[loc[t].s] = loc[t].ticket

\* gmk_slab_alloc reads free_head ...
SlabEmpty(t) == /\ Acquired(t, "alloc") /\ slab[loc[t].s].free_head < 0
                /\ Goto(t, "release")
                /\ UNCHANGED <<arena, slab, next, serving, bump, loc, held>>

SlabPick(t) == /\ Acquired(t, "alloc") /\ slab[loc[t].s].free_head >= 0
               /\ loc' = [loc EXCEPT ![t].idx = slab[loc[t].s].free_head]
               /\ Goto(t, "unlink")
               /\ UNCHANGED <<arena, slab, next, serving, bump, held>>

\* ... and moves it to the next free object.
SlabUnlink(t) == /\ pc[t] = "unlink"
                 /\ LET s == loc[t].s IN
                    slab' = [slab EXCEPT ![s].free_head = slab[s].free_list[loc[t].idx],
                                         ![s].alloc_count = @ + 1]
                 /\ Goto(t, "release")
                 /\ UNCHANGED <<arena, next, serving, bump, loc, held>>

\* gmk_slab_free links the object before the head ...
SlabLink(t) == /\ Acquired(t, "free")
               /\ LET s == loc[t].s IN
                  slab' = [slab EXCEPT ![s].free_list[loc[t].idx] = slab[s].free_head]
               /\ Goto(t, "push")
               /\ UNCHANGED <<arena, next, serving, bump, loc, held>>

\* MUTANT: forgets to count the object as free.
SlabPushUncounted(t) == /\ pc[t] = "push"
                        /\ slab' = [slab EXCEPT ![loc[t].s].free_head = loc[t].idx]
                        /\ Goto(t, "release")
                        /\ UNCHANGED <<arena, next, serving, bump, loc, held>>

\* ... and makes it the head.
SlabPush(t) == /\ pc[t] = "push"
               /\ LET s == loc[t].s IN
                  slab' = [slab EXCEPT ![s].free_head = loc[t].idx,
                                       ![s].alloc_count = @ - 1]
               /\ Goto(t, "release")
               /\ UNCHANGED <<arena, next, serving, bump, loc, held>>

\* MUTANT: a waiter is forgotten when the lock wraps round.
UnlockStuck(t) ==
  /\ pc[t] = "release"
  /\ serving' = [serving EXCEPT ![loc[t].s] = IF @ + 1 = W THEN @ ELSE @ + 1]

Unlock(t) == /\ pc[t] = "release"
             /\ serving' = [serving EXCEPT ![loc[t].s] = (@ + 1) % W]

-----------------------------------------------------------------------------
(* gmk_alloc and gmk_free *)

Ptr(t) == Base(arena, loc[t].s) + loc[t].idx * ObjSize(loc[t].s)

\* The slab where gmk_alloc looks first; None where it finds none to ask.
BlockBin(a, size) ==
  IF bin_index(size) = -1 THEN None
  ELSE IF Capacity(a, bin_index(size)) = 0 THEN None ELSE bin_index(size)
FirstSlab(a, size) == IF size = TaskObj THEN Task ELSE BlockBin(a, size)

Alloc(t) == /\ pc[t] = "idle" /\ Cardinality(held[t]) < MaxHeld
            /\ \E size \in Sizes :
                 LET s == FirstSlab(arena, size) IN
                 IF s = None THEN UNCHANGED <<next, loc, pc>>
                 ELSE TakeTicket(t, [NoCall EXCEPT !.op = "alloc", !.s = s, !.size = size])
            /\ UNCHANGED <<arena, slab, serving, bump, held>>

\* The release at the end of a successful gmk_slab_alloc, and gmk_alloc's return.
AllocDone(t) == /\ loc[t].op = "alloc" /\ loc[t].idx >= 0
                /\ Unlock(t) /\ Return(t)
                /\ held' = [held EXCEPT ![t] = @ \cup {[ptr |-> Ptr(t), size |-> loc[t].size]}]
                /\ UNCHANGED <<arena, slab, next, bump>>

\* The task slab is full: gmk_alloc turns to the block allocator.
AllocFallback(t) == /\ loc[t].op = "alloc" /\ loc[t].idx < 0 /\ loc[t].s = Task
                    /\ Unlock(t)
                    /\ IF BlockBin(arena, loc[t].size) = None THEN Return(t)
                       ELSE Goto(t, "retry") /\ UNCHANGED loc
                    /\ UNCHANGED <<arena, slab, next, bump, held>>

AllocRetry(t) == /\ pc[t] = "retry"
                 /\ TakeTicket(t, [loc[t] EXCEPT !.s = BlockBin(arena, loc[t].size)])
                 /\ UNCHANGED <<arena, slab, serving, bump, held>>

AllocFails(t) == /\ loc[t].op = "alloc" /\ loc[t].idx < 0 /\ loc[t].s # Task
                 /\ Unlock(t) /\ Return(t)
                 /\ UNCHANGED <<arena, slab, next, bump, held>>

\* MUTANT: a free goes to the slab that the size suggests.
OwnerBySize(a, ptr, size) == FirstSlab(a, size)

\* gmk_free finds the part of the arena that holds the pointer; in the block
\* part the size names the bin.
OwnerOf(a, ptr, size) ==
  CASE ptr < TaskSize(a) -> Task
    [] ptr >= TaskSize(a) /\ ptr < BlockBase(a) -> Trace
    [] ptr >= BlockBase(a) /\ ptr < BumpBase(a) -> BlockBin(a, size)
    [] OTHER -> None

\* gmk_slab_free ignores a pointer before its first or past its last object.
IndexIn(a, s, ptr) == (ptr - Base(a, s)) \div ObjSize(s)
Mine(a, s, ptr) == ptr >= Base(a, s) /\ IndexIn(a, s, ptr) < Capacity(a, s)

Free(t) == /\ pc[t] = "idle"
           /\ \E b \in held[t] :
                LET s == OwnerOf(arena, b.ptr, b.size)
                IN /\ held' = [held EXCEPT ![t] = @ \ {b}]
                   /\ IF s # None /\ Mine(arena, s, b.ptr)
                      THEN TakeTicket(t, [NoCall EXCEPT !.op = "free", !.s = s,
                                            !.idx = IndexIn(arena, s, b.ptr)])
                      ELSE UNCHANGED <<next, loc, pc>>
           /\ UNCHANGED <<arena, slab, serving, bump>>

FreeDone(t) == /\ loc[t].op = "free" /\ Unlock(t) /\ Return(t)
               /\ UNCHANGED <<arena, slab, next, bump, held>>

-----------------------------------------------------------------------------
(* gmk_bump_alloc: fetch-and-add, then roll back what does not fit *)

\* (size + 7u) & ~7u: in 32 bits, so that a size near 2^32 becomes 0.
Rounded(size) == 8 * (((size + 7) % Word) \div 8)

\* MUTANT: forgets the size.
FitsStart(a, off, n) == off <= BumpSize(a) % Word

Fits(a, off, n) == (off + n) % Word <= BumpSize(a) % Word

BumpAdd(t) ==
  /\ pc[t] = "idle" /\ Len(bumped) < MaxBumps
  /\ \E size \in BumpSizes :
       LET n == Rounded(size) IN
       /\ offset' = (offset + n) % Word
       /\ torn' = (torn \/ size + 7 >= Word \/ offset + n >= Word
                       \/ \E u \in Threads : pc[u] = "rollback" /\ loc[u].size # n)
       /\ IF Fits(arena, offset, n)
          THEN /\ bumped' = Append(bumped, [ptr |-> BumpBase(arena) + offset, size |-> size])
               /\ UNCHANGED <<pc, loc>>
          ELSE /\ Goto(t, "rollback") /\ loc' = [loc EXCEPT ![t].size = n]
               /\ UNCHANGED bumped
  /\ UNCHANGED <<arena, slab, next, serving, held>>

BumpRollback(t) == /\ pc[t] = "rollback"
                   /\ offset' = (offset - loc[t].size) % Word
                   /\ Return(t)
                   /\ UNCHANGED <<arena, slab, next, serving, held, bumped, torn>>

\* gmk_bump_reset, called when no gmk_bump is in progress: what it returned
\* before is given up.
BumpReset == /\ \A t \in Threads : pc[t] # "rollback"
             /\ offset' = 0 /\ bumped' = <<>> /\ torn' = FALSE
             /\ UNCHANGED <<arena, slab, next, serving, pc, loc, held>>

-----------------------------------------------------------------------------
SlabStep(t) == \/ SlabEmpty(t) \/ SlabPick(t) \/ SlabUnlink(t)
               \/ SlabLink(t) \/ SlabPush(t)
               \/ AllocDone(t) \/ AllocFallback(t) \/ AllocRetry(t)
               \/ AllocFails(t) \/ FreeDone(t) \/ BumpRollback(t)

Next == \/ \E t \in Threads : Alloc(t) \/ Free(t) \/ BumpAdd(t) \/ SlabStep(t)
        \/ BumpReset

\* A CPU goes on with the call it is in.
Fairness == \A t \in Threads : WF_vars(SlabStep(t))
Spec == Init /\ [][Next]_vars /\ Fairness

-----------------------------------------------------------------------------
TypeOK == /\ arena \in ArenaSizes
          /\ \A s \in Slabs : LET n == Capacity(arena, s) IN
               /\ slab[s].free_head \in -1 .. n - 1
               /\ slab[s].free_list \in [0 .. n - 1 -> -1 .. n - 1]
               /\ slab[s].alloc_count \in 0 .. n
          /\ next \in [Slabs -> 0 .. W - 1] /\ serving \in [Slabs -> 0 .. W - 1]
          /\ offset \in 0 .. Word - 1 /\ torn \in BOOLEAN
          /\ pc \in [Threads -> {"idle", "spin", "unlink", "push", "release",
                                 "retry", "rollback"}]
          /\ \A t \in Threads : loc[t].s \in Slabs \cup {None} /\ loc[t].ticket \in 0 .. W - 1

Inside(t) == pc[t] \in {"unlink", "push", "release"}
Waiting(t) == pc[t] = "spin"
Contenders(s) == {t \in Threads : loc[t].s = s /\ (Waiting(t) \/ Inside(t))}

\* The ticket lock of a slab: the contenders hold exactly the tickets from
\* serving up to next, one each, also when the numbers wrap, and the thread
\* inside the critical section is the one being served.
TicketsInOrder ==
  \A s \in Slabs :
    /\ {loc[t].ticket : t \in Contenders(s)} =
         {(serving[s] + k) % W : k \in 0 .. Cardinality(Contenders(s)) - 1}
    /\ (next[s] - serving[s]) % W = Cardinality(Contenders(s))
    /\ \A t \in Contenders(s) : Inside(t) => loc[t].ticket = serving[s]

\* C is closed under the links of a slab from its free_head on.
Linked(s, C) == /\ slab[s].free_head \in C
                /\ \A i \in C \ {-1} : slab[s].free_list[i] \in C

\* The objects given out: to blocks, or between the list and a caller.
GivenOut(s) ==
  Kept(arena, s)
    \cup (UNION {{IndexIn(arena, s, b.ptr) : b \in
                    {c \in held[t] : OwnerOf(arena, c.ptr, c.size) = s}} : t \in Threads})
    \cup {loc[t].idx : t \in {u \in Threads :
             loc[u].s = s /\ \/ loc[u].op = "alloc" /\ pc[u] = "release" /\ loc[u].idx >= 0
                             \/ loc[u].op = "free" /\ pc[u] \in {"spin", "push"}}}

\* Every object of a slab is either on its free list or given out, never both
\* and never neither: concurrent gmk_alloc and gmk_free lose no object and
\* put none on the list twice, the list ends, and alloc_count is the number
\* given out.  (What the links reach is the smallest set closed under them.)
FreeListsExact ==
  \A s \in Slabs :
    LET given == GivenOut(s)
        chain == ((0 .. Capacity(arena, s) - 1) \ given) \cup {-1}
    IN /\ Linked(s, chain)
       /\ \A C \in SUBSET chain : Linked(s, C) => C = chain
       /\ slab[s].alloc_count = Cardinality(given)

\* The bytes that belong to somebody: blocks of the callers and the slabs'
\* free lists.
Blocks == {<<b.ptr, b.size>> : b \in UNION {held[t] : t \in Threads}}
Lists == {<<ListBase(arena, s), 4 * Capacity(arena, s)>> : s \in Slabs}
Apart(x, y) == x[1] + x[2] <= y[1] \/ y[1] + y[2] <= x[1]

\* No two blocks that gmk_alloc gave out share a byte, none lies over a slab's
\* free list, and all are in front of the bump region.
BlocksDisjoint ==
  /\ \A x \in Blocks, y \in Blocks \cup Lists : x # y => Apart(x, y)
  /\ \A x \in Blocks \cup Lists : x[1] >= 0 /\ x[1] + x[2] <= BumpBase(arena)
  /\ \A t, u \in Threads : t # u => held[t] \cap held[u] = {}

\* What gmk_alloc and gmk_free promise: every object of a slab is in its free
\* list or with one owner, and no byte has two owners.
MemoryIntact == FreeListsExact /\ BlocksDisjoint

End(b) == b.ptr + b.size

\* What gmk_bump promises and keeps as long as the calls that fail together
\* ask for one size and no sum leaves its 32 bits: a block lies in the bump
\* region, below the offset, and behind all that were returned before it, also
\* while failed calls have moved the offset and are still to take it back.
BumpApart ==
  ~torn => \A i \in DOMAIN bumped :
             /\ bumped[i].ptr >= BumpBase(arena) /\ End(bumped[i]) <= arena
             /\ End(bumped[i]) <= BumpBase(arena) + offset
             /\ \A j \in 1 .. i - 1 : End(bumped[j]) <= bumped[i].ptr

\* PRD.md asks of all runtime allocations to be "Safe under high contention": no
\* two live blocks of gmk_bump share a byte.  Not so when calls of different sizes
\* fail together, since each takes back its own size from wherever the offset
\* is by then.
BumpDisjoint ==
  \A i, j \in DOMAIN bumped :
    i < j => Apart(<<bumped[i].ptr, bumped[i].size>>, <<bumped[j].ptr, bumped[j].size>>)

\* Whoever took a ticket gets the lock.
LockGranted == \A t \in Threads : Waiting(t) ~> Inside(t)
=============================================================================
