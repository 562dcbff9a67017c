# GGMK: a TLA+ model of the microkernel's core

GGMK ("everything is a task") is a small kernel written in C: tasks are put into
queues, worker threads take them out and run the handler registered for their
type, handlers yield, retry, or emit further tasks on channels.  The same core
runs hosted (pthreads) and on bare x86_64.  This directory models that core, the
memory management and the block driver of the bare-metal kernel in TLA+, checks
them with TLC on small instances and proves the safety of the rings, the
scheduler, channels, allocators, start and stop, the frame bitmap, TLB shootdown
and the block driver with TLAPS for instances of any size.  `PROJECT.json` lists components, runs, the source lines behind every
definition, hazards and theorems; paths below are relative to the repository.

## 1. The system

| component | state | operations | interacts with |
|---|---|---|---|
| MPMC ring (`src/ring_mpmc.c`) | `head`, `tail`, cells with a sequence number | init, push, pop, count | under the ready queues, channels and the overflow ring |
| SPSC ring, local queue (`src/ring_spsc.c`, `src/sched_lq.c`) | `head`, `tail`, buffer, yield watermark | push, push for a yield, pop, count | one per worker; pushed by emitters and by the worker's handlers |
| Event queue (`src/sched_evq.c`) | min-heap keyed by (tick, priority, sequence) | push, pop the first due | under a lock; drained by idle workers |
| Ready queue, enqueue, yield (`src/sched_rq.c`, `src/enqueue.c`, `src/sched.c`) | four MPMC rings, pop counters, overflow ring | weighted pop, enqueue, yield | called by everyone |
| Workers (`src/worker.c`, `hal/*/park.c`) | `running`, `parked`, `tick` per worker | loop: gather, dispatch, park; start, stop, wake | take from all queues |
| Kernel (`src/boot.c`) | `running`, `tick` | boot, halt, submit, advance the tick | starts and stops everything |
| Channels (`src/chan.c`) | registry of rings, subscribers, open flags | open, emit, subscribe, close, drain | enqueue to the scheduler, share payloads |
| Modules (`src/module.c`) | dispatch table, failure counts, poison flags | register, init/fini all, dispatch, record failure | called by workers |
| Allocators (`src/alloc*.c`) | arena, free lists, bump offset, payload counts | alloc, free, retain, release | handlers, channels, workers |
| Trace, metrics (`src/trace.c`, `src/metrics.c`) | per-tenant rings and counters | write, read, increment | everyone, as observers |
| x86_64 (`arch/x86_64`) | page tables, frame bitmap, interrupt tables | map, unmap, shoot down TLBs, start CPUs | under the bare-metal HAL |
| virtio (`drivers/virtio`) | descriptor ring, used index | read and write blocks | polled by its caller |

What is hard in it: lock-free rings whose 32-bit counters wrap; queues whose
documented producers are not the ones that push; pop counters shared without
atomics; wake-ups sent to a worker that has not gone to sleep yet; error codes
that the caller ignores, so that a full queue loses a task; halting while tasks
are submitted; boot sequences that fail half-way while workers already run;
free lists and bump offsets shared by threads; CPUs that must drop a translation
before a frame is reused; time-outs against late completions.

What makes each component correct:

- a ring is a FIFO queue that neither loses, repeats nor alters elements, answers
  "full" and "empty" truthfully, and never lets two threads at the same cell;
- the local queue keeps a reserve for yields;
- the event queue hands out due events in order of tick, priority and arrival;
- the scheduler runs each task it accepted, once at a time, and loses none except
  where an error code says so; halting terminates;
- a channel delivers to every subscriber, and a payload lives exactly as long as
  somebody refers to it;
- an allocator never hands out the same memory twice and loses none;
- modules are initialised before they are used and finalised once, in reverse;
  a boot that fails, and a halt, leave nothing behind;
- a physical frame has one owner, and once it is freed no CPU reaches it;
- a sector reads back as written, and a block command returns.

## 2. Modules

| module | what it is |
|---|---|
| `BoundedQueue` | what a ring promises: an abstract bounded FIFO queue with calls, effects and returns |
| `MpmcRing` | `src/ring_mpmc.c`, one action per shared access |
| `LocalQueue` | `src/sched_lq.c` over `src/ring_spsc.c`, one action per shared access |
| `EventQueue` | `src/sched_evq.c`, one action per operation (they hold `evq->lock`) |
| `Scheduler` | submit, enqueue, yield, weighted pop, worker loop, tick, halt, composed |
| `Channel` | `src/chan.c`, the payload counts of `src/alloc.c` and their release in `src/worker.c` |
| `Allocator` | `src/alloc.c`, slabs, block bins, bump region, and the ticket lock `include/ggmk/arch/spinlock.h` |
| `Lifecycle` | `gmk_boot`, `gmk_halt`, the inits and destroys they call, the module registry, the life of the workers |
| `Vmm` | bare metal: frame bitmap, page tables, heap, TLB shootdown, start of the other CPUs |
| `VirtioBlk` | PCI scan, virtio block driver, the commands that use it, and the device (external) |
| `*_proofs` | the inductive invariant of the module of that name and the theorems that follow from it (section 4) |
| `MC*` and `*.cfg` | instances for TLC |

Definitions named after a defect and marked MUTANT are wrong variants of the
definition that follows them; no specification uses them.  They document which
mistake each property catches.

### MpmcRing

`head`, `tail`, `seq`, `data` are the ring's fields; `pc`, `pos`, `val` are each
thread's place in the code, its local copy of a counter and its element.  Push is
`PushCall` (load tail), `PushReady` / `PushFull` / `PushLost` (load `c->seq`,
compare), `PushClaim` / `PushCasFails` (the weak compare-and-swap, which may fail
without a reason), `PushReload`, `PushWrite` (memcpy), `PushPublish` (store seq);
pop is the mirror image.  Counters are kept as the unbounded positions they stand
for; every comparison is made modulo `W` as the code makes it in 32 bits, so the
model confuses exactly the values the code confuses.  `(int32_t)a - (int32_t)b`
overflows for far apart values; the build (gcc, -O2) computes it with a wrapping
subtraction and tests the sign, and so does `Diff`.

With wrapping counters no such ring is correct without a limit on how long one
thread may stall: `Window` bounds how many claims of its counter may happen while
a thread is in its loop.  The proof needs `2 * (Window + Cap) <= W`: with 32 bits
and the largest capacity in use (4096) a stall of up to two thousand million
operations.

Memory is sequentially consistent in the model.  The code's acquire loads and
release stores of `c->seq` order the accesses to `c->data`; that these suffice on
a weaker machine than x86 is not checked.

### LocalQueue

Same style.  `gmk_lq_push` is two looks at the ring: the count against the
watermark and then the push itself.  Who produces is a constant, because the code
does not keep to the one producer the ring is written for.  `calls`, `accepted`,
`taken` record what callers were told.

### EventQueue

The heap as a sequence of records with the `key` the code compares and, beside
it, what the key is meant to encode (`tick`, `prio`, `nth`).  The two shift
widths are constants: with the code's 16 and 32 the sequence number reaches the
priority after 65536 pushes, which the runs reach with fields of two bits and
priorities as in the code.  `DueFirst` is the order that survives this (never a
due event behind one that is not, and priority and arrival as far as the key can
tell); `RootIsFirst` is the order that the comments promise, which the code does
not keep (section 3).

### Scheduler

Queues are sequences here; that a ring behaves like one is what `MpmcRing` and
`LocalQueue` establish.  One step is one operation on a queue or one access to a
shared flag.  The increment of a pop counter is a read (at the pop) and a later
write, since the code's `++` is not atomic; the reset of all counters is one step.
A counter that lost resets have pushed past its weight is kept at the weight: the
code only asks whether it is below.

A worker goes round `top` (running flag and local queue), `ovf`, `rq1` and `rq2`
(first and second pass of `gmk_rq_pop`), `rqcount`, `evq` and `drain` (event
queue), `recheck`, `wait`, `waiting`, `unpark` (parking) and `run` (a handler).  A
signal to a worker that is not `waiting` is lost, as with a condition variable.
Handlers are a choice: finish (with success or failure: the task is gone either
way), yield once and then finish, or ask for a retry.  A handler that yields and
also asks for a retry would queue its task twice; it breaks the handlers' rules
and is not modelled.  Tasks that an ignored error code loses are collected in
`dropped`, so that properties can tell a known loss from an unknown one.

The rings' two spurious answers (see `BoundedQueue`: "empty" while a push is in
progress, "full" while a pop is) are not repeated in `Scheduler`; for the worker
loop they only mean another round.

### Channel

Emit, subscribe, close and drain of open channels, and the dispatcher's release
of a payload.  One step is one operation on a ring, on the scheduler, on a
reference count, or one critical section under a channel's lock.  The emitter
first reads the tail, then the head (`gmk_ring_mpmc_count` inside
`gmk_chan_emit`), looks for a subscriber, enqueues or pushes, and drains one
message of a point-to-point channel; whichever message is first in the ring, so
that one emitter may hand out another's.  A drain copies the number of
subscribers once and uses it for all its messages (nothing in the code ever
clears a subscriber's `active` flag).  The scheduler is a bag with `QueueCap`
places, because only the lack of room matters to a channel.

`rc[m]` is the reference count in the payload's header.  References that an
ignored error has orphaned (a retry without room, a point-to-point message that
does not fit in the dead-letter ring either) are counted in `leaked`, so that
`RefsExact` says that these are the only leaks.  In `Spec` handlers finish or
retry.  `SpecYield` adds handlers that yield (`HandlerYields`): `gmk_yield_impl`
queues a copy of the task with the same `payload_ptr` and nobody retains it, while
the dispatcher releases the reference when the handler returns `GMK_OK`.  With it
`PayloadAlive` fails (section 3), so the other properties, and the theorems, are
about `Spec`.

### Allocator

Addresses are offsets in the arena and the layout is computed as
`gmk_alloc_init` and `gmk_block_init` compute it, so that `gmk_free`'s routing
by address meets the real boundaries.  `slab[s]` has `free_head`, `free_list`
and `alloc_count`; `next[s]` and `serving[s]` are its ticket lock, with numbers
modulo `W`.  A thread takes a ticket, waits, and makes the accesses of the
critical section one by one.  A block is taken from the one bin that its size
names, as in the code; a failed task allocation turns to the blocks.  The bump
region is lock-free: fetch-add, and on overflow a subtraction (`BumpRollback`)
that other calls can meet half-way.  To keep the instance small all objects but
a few of each slab are taken at boot; what remains is the end of each free list.

Sizes, sums and the comparison with the size of the region are made modulo `Word`,
as `gmk_bump_alloc` makes them in 32 bits: a size near the end of the word rounds
to 0 or wraps, and the call succeeds.  `bumped` lists what `gmk_bump` returned
since the last reset, with the size asked for.

`torn` records that, since the last reset, a bump call began while a failed one
of another size had still to roll back, or that a sum wrapped.  Nothing is taken
out of `bumped` then; the flag only says where the promise ends.  `BumpApart` is
the promise up to there: blocks lie in the region, below the offset and each behind
all earlier ones, also while the offset stands beyond them.  `BumpDisjoint` is the
promise without the limit, which the code does not keep (section 3): two calls
of 900 and 400 bytes fail together, the larger takes back its size first, a third
call gets a block, and the second roll-back puts the offset back to the start of
that block, so the next call returns it again.  `gmk_bump_reset` is called between
calls; beside one it would have the same effect.

`MemoryIntact` is about `gmk_alloc` and `gmk_free` and has no such limit.
`FreeListsExact`, its half about slabs, says that the free objects and the end of
the list are closed under the links from `free_head` on and that nothing smaller
is: so the links reach every free object, nothing else, and end.

### Lifecycle

The main thread goes through the stages of `gmk_boot`; each allocation of a stage
is a step and may fail (`AllocateFails`, with what the failing init gives back
itself in `Undo`, and the label of the goto chain in `OnFailure` and `FallsTo`).
`res[r]` follows each allocation from `none` to `live` to `freed`, and to `twice`
if it is released again.  Workers exist from `StartWorker` on and dispatch tasks
of any type in `TaskTypes` until they see `running` false; failing handlers count
and poison in three separate accesses, and another thread resets the poison
between them.  Tasks themselves are `Scheduler`'s.

### Vmm

CPU 0, the BSP, makes the calls; the kernel has no lock around bitmap, page
tables or the shootdown variables, and in the repository nobody else calls them.
An AP works (and may cache any translation that the page tables have), parks,
and takes the IPI while parked: `sti; hlt; cli` is the only place with interrupts
on.  `SendIpi` reaches the CPUs whose LAPIC is enabled; the others drop it.
`paging_map` records in `mapping` which pages it has to map to which frames; then
`AllocTable` makes one missing table at a time, in the order the code does, and
`SetEntry` sets the page's entry, or leaves it alone below a huge page.  Until its
entry is set the frame belongs to `mapping`, also when a table cannot be made and
the kernel panics.  `kfree` and `vmm_unmap` are loops of
`FreePage` (unmap, free the frame) and the five steps of `vmm_tlb_shootdown`.
A machine is a number of CPUs, the place of the BSP in Limine's list of them, a
memory map and a set of huge pages.  An AP looks for its worker by its LAPIC id among
the first `n_workers` entries of that list, where the BSP has its place too
(`Position`, `HasWorker`): with the BSP not first, the AP whose place comes after
the workers finds none and halts.
The caller does not `kfree` an object that shares a page with a live one: the
code unmaps the whole page.  `vmm_map` is given device memory above RAM or a
block the caller owns, because `vmm_unmap` frees whatever was mapped.
`MachineAssumption` is what the boot loader promises (a memory map with entries,
of which the usable ones do not overlap, and no huge page in the heap's range) and
three limits that the code relies on without a test:

- the memory map ends below `MAX_PAGES` pages: with more, `total_pages` is cut
  to `MAX_PAGES` and the loop of `pmm.c:47`, which runs to `total_pages / 64`
  inclusive, writes one word past `bitmap`;
- there are no more CPUs than `GMK_MAX_WORKERS`: with more, `smp.c:79` writes past
  `ap_contexts`;
- the device lies above the memory map: memory-mapped registers inside it, as those
  below 4 GB are, would be freed to the bitmap by `vmm_unmap` (`vmm.c:86`).  No
  caller in the repository unmaps a device.

What the two writes hit is for the linker to say, so they are excluded and listed
as a hazard instead of modelled.  `RoomAssumption` keeps requests so small that
`heap_next` does not pass the end of the 64-bit address space: `vmm_map` and
`kmalloc` compare only with the heap's end, and a request of about 1.75 GB wraps
and passes that test.

`lost` are frames that were marked used and returned as address 0, which every
caller takes for a failure; `gaveUp` says that `kmain` counted an AP that was not
ready.  Both are in the properties to say exactly how far the damage goes.
`CountedReady` says what `vmm.h` asks of the caller of `vmm_set_cpu_count`; `kmain`
does not keep to it (section 3).

### VirtioBlk

`virtio_blk_do_io` step by step beside a device that fetches a header, moves the
data with a status, and moves the used index, in its own time or never.  All
requests share the one DMA page, so what a late device does to the next request
is in the model.  The head is stored in the avail ring (`PushRing`) and then the
index moves (`PushIndex`), so that the device can look in between.  Until a first
time-out every entry of the ring holds the same head, because the same three
descriptors go round, and a device that looked at the wrong moment would find
that head all the same: no property tells the two orders apart before that.
Ring indices are modulo `W`.  Initialisation is one step with
its failures in `NoDisk`; `devices` is the table the bus scan builds.  A sector's
512 bytes are one value, which the read-back of `blkwrite` and of the smoke test
compare.  `stranded` is history: the descriptors of requests that timed out.
`RingIntact` holds with them, `ReadsBack` only while there are none, because
afterwards a late answer can be taken for that of a later request.

## 3. Runs

| run | instance | shows |
|---|---|---|
| `mpmc` | 3 threads, 2 cells, 2 pushes, counters crossing a wrap (Start 31, W 32) | `FullRefused`, `SlotInv`, `CellExclusive`, `NoABA`; the ring implements `BoundedQueue`; one thread that keeps running is never blocked by the others |
| `lq` | 1 producer, the worker, 4 slots, 9 pushes across a wrap | `NoTaskLost`, `YieldReserveKept`, implements `BoundedQueue` |
| `lq_two_producers` | an emitter and the worker's handlers | **violated** `NoTaskLost`: an accepted task is overwritten |
| `evq` | heap of 5, 6 pushes, 2 ticks, 3 priorities, a sequence field of 2 bits | `Conserved`, `DueFirst` |
| `sched` | 2 workers, 2 submitters, 1 timer, 1 retrying and 1 yielding task, queues of one slot, halt at any time | `OnePlace`, `BreakerHolds` |
| `sched_live` | the same with 1 worker and 2 priorities, fairness | `EveryTaskRuns`, `StopTerminates` |
| `chan` | 2 messages, 1 drainer, a point-to-point, a lossy fan-out and the dead-letter channel, up to 2 subscribers, rings and scheduler of one place | `RefsExact`, `FreedOnce` |
| `chan_dead_letter` | the same with a lossless fan-out channel | **violated** `PayloadAlive`: a dead letter refers to a freed payload |
| `alloc` | 2 threads, an arena of 4096 bytes, tasks, a block size, one too large, 2 bump sizes, tickets modulo 3 | `TicketsInOrder`, `MemoryIntact`, `BumpApart`, `LockGranted` |
| `boot` | 3 workers, 2 tenants, six lists of modules (none, good, clashing, out of range, too many, with a gap), 2 resets | `CleanExit`, `WorkersCovered`, `PoisonNotMissed`, `CallsReturn` |
| `vmm` | up to 3 CPUs, the BSP first or not, three memory maps, a heap of 2 pages, page tables preset, missing and huge | `FramesExact`, `NoStaleTranslation`, `FreeReturns` |
| `vblk` | queues of 0, 2, 4 and 8 descriptors, 4 buses, indices modulo 8 | `RingIntact`, `ReadsBack`, `CommandReturns` |

Four more instances are kept for what a comment or a document promises and the
code does not keep.  TLC finds each property violated within seconds:

| instance | property | what the trace shows |
|---|---|---|
| `MCEventQueueSeq.cfg` of `MCEventQueue`, as `evq` | `RootIsFirst`: the order of "(tick << 32) \| (priority << 16) \| seq" (`src/sched_evq.c:4`, `include/ggmk/sched.h:45`) | the number has left its field and is or-ed into the priority: a later event of the same tick and priority is the root |
| `MCChannelYield.cfg` of `MCChannel`, handlers that yield, rings and scheduler of two places | `PayloadAlive`: "no use-after-free and no leaks, even under partial delivery" (`PRD.md:587`) with handlers that yield and return `GMK_OK` (`PRD.md:393`) | the handler yields and ends, the count is 0 and the yielded task is still queued (`src/worker.c:32`) |
| `MCAllocatorBumpTorn.cfg` of `MCAllocator`, bump sizes 400 and 900 | `BumpDisjoint`: allocations are "Safe under high contention" (`PRD.md:197`) | two calls return the same block (`src/alloc_bump.c:25`) |
| `MCVmmCount.cfg` of `MCVmm`, 2 CPUs, the BSP first or second | `CountedReady`: "call after APs are verified ready" (`arch/x86_64/vmm.h:19`) | the wait has run out and the AP that has not reported is counted (`kmain.c:191`) |

What the models also show, without an instance of their own:

- a ring of capacity 1, which `gmk_ring_mpmc_init` accepts, cannot tell a
  published cell from a free one: with one cell and one thread `FullRefused`
  fails.  The kernel creates no such ring;
- due events are looked for only when no queue has a task: a task that retries
  for ever keeps a due event waiting.

Bounds.  Two cells are the smallest ring that works, and make every thread meet
every other at a cell; three threads let one stall while two others pass each
other.  Two pushes with `Start = 31`, `W = 32` put the wrap in the middle of the
run.  Nine pushes take the local queue twice round its four slots.  Six events on
a heap of five reach three levels and the full heap, and the last two leave the
sequence field.  One slot per queue in
`Scheduler` makes every full-queue path happen with three tasks; one retrying and
one yielding task are enough for every path of the dispatcher.  In `Channel` one
place in each ring and one in the scheduler let two messages meet every full
ring, dead letters and lost retries; two subscribers are the fewest that share a
payload.  `RefsExact` and `FreedOnce` are checked without lossless fan-out
channels: with one they fail for the reason `chan_dead_letter` shows.

In `Allocator` two objects left in the task slab and one in every bin make two
threads meet at the last object, at the empty list and on the way to the next
bin; sizes 48, 300 and 70000 are a task, a block and too much; two threads and
three ticket numbers wrap after three calls.  A bump of 500 fits once, so that two
calls can fail together, and 65530 wraps at the rounding in words of 16 bits.
`MaxBumps` bounds the blocks between two resets.  In `Lifecycle` three workers let one thread creation fail
with two at work.  In `Vmm` the frames are just not enough for all that can be
asked, memory maps have edges inside a page, are as long as the bitmap takes or start at
address 0; two heap pages share a page table and an object can straddle them;
three CPUs make two acknowledge.  In `VirtioBlk` queues of 2 are always refused,
of 4 stop after one time-out and of 8 after two, so that a late completion meets
a later request; eight requests take the indices round.

The runs `boot`, `vmm` and `vblk` allow the system to stop: a kernel that is dead, has
panicked, or whose device is silent does nothing more.

Fairness.  `MpmcRing`: a thread in `Running` keeps taking steps, and its weak
compare-and-swap does not fail for ever when it is enabled again and again;
nothing is assumed of the others.  With other threads claiming without end a
lock-free push may lose every race; the run bounds their claims.  `Scheduler`:
threads run, handlers return, and a wait ends after its 1 ms limit
(`pthread_cond_timedwait`), which is what makes up for lost wake-ups: without
`Timeout` both liveness properties fail.  The callers of submit, the clock and
the decision to halt are not fair.  `Allocator`: a thread inside a call goes on.
`Lifecycle`: the main thread goes on, a worker ends its handler and comes back to
the `running` flag (its wait ends after 1 ms); nobody has to call `gmk_halt`.
`Vmm`: the BSP's loop goes on, a CPU that was woken gets through its start, a
worker parks again and again (while the BSP is in the loop nobody submits; a
handler that yields for ever would break this), and a parked CPU takes a pending
interrupt.  `VirtioBlk`: the CPU goes on, the polling loop is bounded; nothing is
assumed of the device.

## 4. Proofs

| module | theorem | statement | needs |
|---|---|---|---|
| `MpmcRing_proofs` | `TypeCorrect`, `NeverOverfull`, `DataRaceFree`, `StagesExact` | `TypeOK`, `FullRefused`, `CellExclusive`, `SlotInv` | `Sized` |
| | `ABAFree` | the action property `NoABA` | `Sized` |
| | `Refinement` | the ring implements `BoundedQueue` (`ImplementsQueue`) | `Sized` |
| `LocalQueue_proofs` | `TypeCorrect`, `TasksKept` | `TypeOK`, `NoTaskLost` | `OneProducer` |
| | `ReserveKept` | the action property `YieldReserveKept` | `OneProducer` |
| | `Refinement` | the local queue implements `BoundedQueue` | `OneProducer` |
| `Scheduler_proofs` | `TypeCorrect`, `Breaker`, `Conservation` | `TypeOK`, `BreakerHolds`, `OnePlace` | |
| `Channel_proofs` | `TypeCorrect`, `RefCounts` | `TypeOK`, `RefsExact` | `NoLosslessFanOut` |
| | `Alive`, `NoRevival` | `PayloadAlive`, the action property `FreedOnce` | `NoLosslessFanOut` |
| `Allocator_proofs` | `TypeCorrect`, `LockOrder`, `MutualExclusion` | `TypeOK`, `TicketsInOrder`, one thread in a slab's critical section | |
| | `Disjoint`, `Intact` | `BlocksDisjoint`; with `FreeListsExact`, `MemoryIntact` | |
| | `BumpBlocks` | `BumpApart` | |
| `Lifecycle_proofs` | `TypeCorrect`, `NoLeak`, `Covered`, `PoisonSeen` | `TypeOK`, `CleanExit`, `WorkersCovered`, `PoisonNotMissed` | |
| `Vmm_proofs` | `Types`, `NoStale`, `Frames` | `TypeOK`, `NoStaleTranslation`, `FramesExact` | |
| `VirtioBlk_proofs` | `TypeCorrect`, `RingKeptIntact`, `ReadBackHolds` | `TypeOK`, `RingIntact`, `ReadsBack` | |

Each of these modules also has `Invariance`, `Spec => []IndInv`, from which the
rest follows (in `Vmm_proofs` beside it `MemoryInvariance`).  All constants are
arbitrary but for the named assumptions of the module (`RingAssumption`,
`LQAssumption`, `MachineAssumption`, `RoomAssumption`, ...), which TLC evaluates on every run: any number of threads, workers, CPUs, tasks, messages and
modules, any capacities, sizes and arenas.  Three hypotheses are not assumptions
on constants of the code but the limits within which the code is right:

- `Sized`: a capacity of at least 2 and `2 * (Window + Cap) <= W`.  With one cell
  the ring is not correct (section 3), and a thread that stalls for longer than
  half the word size can be fooled by any ring of this kind;
- `OneProducer`: what `ring_spsc.c` is written for.  `lq_two_producers` shows what
  happens without it;
- `NoLosslessFanOut`: every lossless channel is point-to-point.
  `chan_dead_letter` shows what happens without it.

Two more limits are in the statements themselves: the theorems of `Channel_proofs` are
about `Spec`, whose handlers do not yield a task with a payload, and `BumpApart`
ends where `torn` begins.

The arguments:

**MpmcRing.**  `FullRefused` and `CellExclusive` are not inductive.  `SlotInv` says
in which of four stages each of the last `Cap` positions is (reserved, published,
draining, released) and ties every thread between claim and store to its
position.  `LoopInv` says what a thread in its loop still knows: its copy of the
counter is at most `Window` old, and if it is not old at all then the sequence
number it has seen is still in the cell, so a compare-and-swap that looks only at
the counter is safe.  Equality modulo `W` of two positions less than `W` apart is
equality (`ModInjective`).  In the
refinement an element is in the abstract queue from the compare-and-swap of its
push to that of its pop; every action is a lemma of its own, most of them that
the abstract state stays as it is.

**LocalQueue.**  `ThreadInv` says that the producer's copy of `tail` and the
consumer's of `head` are exact, and that the room, the reserve or the task found
by a check is still there at the store: only the other side moves, and it only
makes more of it.  Slots of positions less than `Cap` apart differ.

**Scheduler.**  `OnePlace` counts; the invariant distributes.  `Bag` maps every
place (each ready queue, local queue and hand, the overflow ring, the event
queue) to the set of tasks in it, and `Spread` says that these sets are disjoint
and make up the living tasks; with `NoDup` for each queue.  All actions are then
one of five moves (a task arrives, moves from one place to another, leaves,
changes place among the queues of an enqueue, or nothing happens), each proved
once about an arbitrary `Bag`.  Counting comes last, and the circuit breaker is
`BreakInv`: only a dropped task has used up its yields.

**Channel.**  Each message is `Placed`: with its emitter, in exactly one ring, in
the hand of one thread with as many references as it has still to hand out, or
nowhere, each with the references that belong to it.  A lossless fan-out channel
would add a fifth place (a dead letter without a reference), which is why it is
excluded.  `FreedOnce` follows because whoever retains or releases holds one.

**Allocator.**  `Line` describes the threads before a ticket lock by their tickets
modulo `W`; joining and leaving at the front keep it because there are fewer
threads than tickets.  Mutual exclusion makes the unlocked steps of a critical
section safe: what `CallInv` knows of `free_head` is still true at the next
access.  `OwnInv` gives each object at most one owner (a block held or a hand
between list and caller); `ListInv` that the links connect exactly the free
objects, each reached from one place, and all of them (`Whole`).  The layout
lemmas show that slabs, bins and bump region are apart for every arena of at
least 4096 bytes and that `gmk_free` finds the slab a pointer came from.  For the
bump region `BumpState(given)` fixes the offset, as long as it is not `torn`, as
the end of what was given out for good plus the same size for each call still to
roll back; a call that begins meanwhile asks for that size and cannot fit, so a block
is returned only when the offset is `given`, and the blocks follow each other below
it.

**Lifecycle.**  `ResInv` says for every label of `gmk_boot` and of its `goto` chain
which stages' allocations are not yet made, live or released; `SeqInv` gives
`inited` and `finied` in closed form; `WorkInv` which workers can exist.  For the
poison flag: a type at the threshold is flagged, or a worker is about to flag it,
or a reset that cleared the flag is about to clear the count.

**Vmm.**  A CPU counts as done with the shootdown under way when it has no IPI
pending, is not in the handler and does not have the old translation; the
acknowledgements counted are at most the CPUs done, so when their number reaches
that of the other CPUs, all of them are.

`FramesExact` is a statement about owners: disjoint sets of usable frames that make
up, with the memory that is not RAM, the bitmap.  `Exact` says this of any set of
owners, and four lemmas say how it is kept: an owner of free frames arrives
(`AddOwner`), one leaves (`DropOwner`), one hands its frames over to others
(`SplitOwner`), the frames lost as address 0 grow (`GrowOwner`); a fifth adds an
owner of memory the bitmap does not know (`AddForeign`, a device).  Every action is
one of these or leaves the owners alone: a page fault gives a frame to `mapping`,
`SetEntry` passes it on from there to the page, `vmm_map` splits a block into the
pages it maps.  That the run `pmm_alloc_pages` finds was free and that
`pmm_free_pages` counts what it clears are `AllocEffect` and `FreeEffect`, that
`pmm_init` counts right `CountedExact`, where overlapping entries would count
twice.  Beside it the invariant needs `OwnInv` (blocks lie within the bitmap, an entry
is a frame, only the boot loader makes huge pages), `WorkInv` (objects, mappings and
the pages of the loop lie within the heap) and the shootdown's `HeapInv`: no page
beyond `heap_next` has a frame, so `vmm_map` never overwrites an entry and loses its
frame.  `CountInv` bounds the acknowledgements, and the APs that are ready by those
that were woken.

**VirtioBlk.**  `Chained` says that the links from a head lead through a set of
descriptors, once each, and end; its lemmas take one from the front or put one
there, and `Take3` and `Give3` are what `virtio_blk_do_io` does.  `ChainInv` is that
statement about the descriptors that neither the call under way (`MineInv`) nor a
request that timed out has.  `IdxInv` says that until the first time-out at most
one request is with the device, and in which of three positions the four indices
then are, modulo `W`.  On it rests `DataInv`: the DMA page belongs to that one
request, so the header the device works on is the driver's, and a status of ok
means that page and sector agree.  The queue size fits the 16-bit register it is
read from, so the end mark 0xFFFF is never a descriptor.

Induction over data is replaced where it can be by the least counterexample
(`Least`, from the well-foundedness of the natural numbers): a scan over
priorities or workers, the free list of a fresh slab, and the descriptor chain of
a fresh queue.

Only model-checked:

- liveness (`NonBlocking` of the ring, `EveryTaskRuns`, `StopTerminates`,
  `LockGranted`, `CallsReturn`, `FreeReturns`, `CommandReturns`): fairness and
  ENABLED are outside the prover's reach;
- the event queue (`TypeOK`, `Conserved`, `DueFirst`): the sifts are recursive
  and what they do to a heap of any size needs induction over them.

## 5. What is not modelled, and what is left

Not modelled:

- metrics and statistics (`src/metrics.c`, `high_water`, byte counts): counters
  that nothing reads to decide anything; trace events, token bucket and sampling
  for the same reason;
- the serial port, `kprintf`, line editing and the monitor commands that only
  print; `memops.c`, which is the C library's functions;
- descriptor tables, APIC and PIT registers, timer calibration, port addresses,
  bits of page-table entries: hardware programming without control to check;
- `paging_walk`, `pmm_find_contiguous` (read-only), the bump pointer of
  `boot_alloc.c` (sequential, never frees) beyond the frames it takes;
- several CPUs inside `pmm.c`, `paging.c`, `vmm_tlb_shootdown` or the block
  driver at once: nothing in the repository does this, and without locks it would
  not work;
- two threads in `gmk_chan_open` or `gmk_tick_advance`, `gmk_bump_reset` beside a
  bump call, two frees of one block;
- the writes past `bitmap` and `ap_contexts`, the wrap of `heap_next` and the unmapping
  of a device inside the memory map (see `Vmm` in section 2);
- weaker memory than sequential consistency, and the parts of `PRD.md` and
  `USERLAND.md` that have no code.

Every safety invariant and action property that a passing run checks is also a theorem,
but for those of the event queue.  A proof about it would first take the sifts
apart, one step per exchange under the queue's lock, with the heap order broken at
one place only as the inductive invariant.
