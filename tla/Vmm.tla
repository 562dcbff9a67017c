--------------------------------- MODULE Vmm ---------------------------------
(***************************************************************************)
(* Memory of the bare-metal kernel: the frame bitmap (arch/x86_64/pmm.c),  *)
(* the page tables (paging.c), the kernel heap with demand paging and TLB  *)
(* shootdown (vmm.c, idt.c, lapic.c), and the bring-up of the other CPUs   *)
(* that shootdown counts on (smp.c, kmain.c, entry.c).                     *)
(*                                                                         *)
(* CPU 0 is the BSP: it alone allocates, frees and faults, since pmm.c and *)
(* paging.c take no lock.  The APs read mapped pages, park and answer the  *)
(* IPI; they take interrupts only while parked.  Page tables have the      *)
(* levels and the paths the constants give.  Addresses of the heap and of  *)
(* the memory map are counted in units, PageUnits of them to a page.       *)
(***************************************************************************)
EXTENDS Integers, Sequences, FiniteSets, FiniteSetsExt, SequencesExt

CONSTANTS Machines,    \* [cpus, bsp, memmap, huge]: CPUs, position of the BSP in
                       \* Limine's list of them, Limine's memory map, tables it
                       \* has as huge pages
          MaxWorkers,  \* GMK_MAX_WORKERS
          MaxPages,    \* MAX_PAGES
          PageUnits,   \* units of address in a page
          BootPages,   \* frames of the boot allocator
          HeapPages,   \* pages between VMM_HEAP_BASE and VMM_HEAP_END
          Room,        \* units from VMM_HEAP_BASE to the end of 64-bit addresses
          LapicPage,   \* the HHDM page of the LAPIC, outside the heap
          LapicFrame,  \* its physical page
          Path(_),     \* tables on the way to a page, from the top
          Preset,      \* the tables that Limine has set up
          Sizes,       \* sizes passed to kmalloc
          Runs,        \* numbers of pages passed to gmk_hal_page_alloc
          Device,      \* [start, n]: physical pages of a device, above RAM
          MaxHeld      \* BOUND: blocks held from gmk_hal_page_alloc

ASSUME VmmAssumption ==
  /\ {MaxPages, PageUnits, BootPages, HeapPages, MaxWorkers} \subseteq Nat \ {0}
  /\ LapicPage \in Nat /\ LapicPage >= HeapPages
  /\ Sizes \subseteq Nat \ {0} /\ Runs \subseteq Nat \ {0} /\ MaxHeld \in Nat
  /\ \A m \in Machines : m.cpus \in Nat \ {0}
  /\ Device.start \in Nat /\ Device.n \in Nat \ {0}

\* Requests small enough that heap_next, an address of 64 bits, does not pass the
\* end of the address space before the heap's end is compared: the code has no
\* other guard (1.75 GB lie between the two).
ASSUME RoomAssumption ==
  /\ \A s \in Sizes : HeapPages * PageUnits + s < Room
  /\ \A n \in Runs \cup {Device.n} : (HeapPages + 1 + n) * PageUnits < Room

ASSUME PathAssumption ==
  \A v \in 0 .. HeapPages - 1 \cup {LapicPage} : DOMAIN Path(v) \subseteq Nat

\* The memory map has entries, its usable ones do not overlap (the boot protocol
\* promises it), and the device lies above all of them.  It ends below MAX_PAGES
\* pages, and ap_contexts has an entry for every CPU: with more of either,
\* pmm_init and smp_start_aps write past their arrays.  No huge page covers the
\* heap: Limine maps the kernel and the HHDM, not the heap's range.
ASSUME MachineAssumption ==
  \A m \in Machines :
    /\ m.cpus <= MaxWorkers /\ m.bsp \in 0 .. m.cpus - 1
    /\ \A e \in m.memmap : e.base + e.len < MaxPages * PageUnits
    /\ m.memmap # {}
    /\ \A e \in m.memmap : /\ e.base \in Nat /\ e.len \in Nat /\ e.usable \in BOOLEAN
                           /\ e.base + e.len <= Device.start * PageUnits
    /\ \A e, f \in m.memmap :
         e.usable /\ f.usable /\ e # f => e.base + e.len <= f.base \/ f.base + f.len <= e.base
    /\ \A v \in 0 .. HeapPages - 1 : ToSet(Path(v)) \cap m.huge = {}

None == -1        \* an entry that is not present
Limine == -2      \* a table from the boot loader
Huge == -3        \* a present entry with PTE_PS

HeapEnd == HeapPages * PageUnits
Pages == 0 .. HeapPages - 1
Tables == UNION {ToSet(Path(v)) : v \in Pages \cup {LapicPage}}
CeilDiv(a) == (a + PageUnits - 1) \div PageUnits
\* Pages that the units addr .. addr + size - 1 touch.
Span(addr, size) == addr \div PageUnits .. CeilDiv(addr + size) - 1

VARIABLES machine,                 \* the machine booted
          used, free_pages,        \* bitmap and counter of pmm.c
          tables, pte,             \* table -> its frame; page -> its frame
          heap_next,
          mapping,                 \* pages that paging_map has still to map -> frames
          total_cpus, shoot_addr, shoot_ack,      \* of vmm.c
          smp, woken, ready,       \* bring-up: its stage, APs woken, ap_ready_count
          bpc, todo, unmapping,    \* BSP: where it is, pages still to free, for
                                   \* vmm_unmap or for kfree
          apc, irr, tlb,           \* per CPU: state, pending TLB IPI, translations
          objs, maps, held,        \* live results of kmalloc, vmm_map, page_alloc
          lost, gaveUp             \* history: frames handed out as address 0;
                                   \* kmain stopped waiting for the APs

frames == <<used, free_pages, held, lost>>
space == <<tables, pte, heap_next, mapping, objs, maps>>
shoot == <<shoot_addr, shoot_ack, irr>>
boot == <<machine, total_cpus, smp, woken, ready, gaveUp>>
vars == <<frames, space, shoot, boot, bpc, todo, unmapping, apc, tlb>>

CPUs == 0 .. machine.cpus - 1
APs == CPUs \ {0}
WholePages(e) == CeilDiv(e.base) .. (e.base + e.len) \div PageUnits - 1

-----------------------------------------------------------------------------
(* pmm.c *)

TotalPages == LET top == Max({e.base + e.len : e \in machine.memmap}) \div PageUnits
              IN IF top > MaxPages THEN MaxPages ELSE top
Tracked == 0 .. TotalPages - 1          \* the frames that have a bit
\* The frames that pmm_init clears in the bitmap: whole pages of usable entries.
Usable == (UNION {WholePages(e) : e \in {x \in machine.memmap : x.usable}}) \cap Tracked
\* free_pages as pmm_init counts it, entry by entry.
Counted == Cardinality({x \in machine.memmap \X Tracked :
                          x[1].usable /\ x[2] \in WholePages(x[1])})

\* pmm_alloc_pages on a state p = [used, free]: the first run of n clear bits.
\* The answer's start is None for "return 0".
pmm_alloc_pages(p, n) ==
  LET fits == {s \in 0 .. TotalPages - n : s .. s + n - 1 \cap p.used = {}}
  IN IF p.free < n \/ fits = {} THEN [start |-> None, used |-> p.used, free |-> p.free]
     ELSE [start |-> Min(fits), free |-> p.free - n,
           used |-> p.used \cup (Min(fits) .. Min(fits) + n - 1)]

pmm_free_pages(p, start, n) ==
  LET S == (start .. start + n - 1 \cap Tracked) \cap p.used
  IN [used |-> p.used \ S, free |-> p.free + Cardinality(S)]

Pmm == [used |-> used, free |-> free_pages]
SetPmm(p) == used' = p.used /\ free_pages' = p.free
\* Callers take address 0 for a failure.
Failed(a) == a.start \in {None, 0}
LostTo(a, n) == IF a.start = 0 THEN lost \cup (0 .. n - 1) ELSE lost

-----------------------------------------------------------------------------
(* paging.c *)

\* Levels of the walk to page v that are read: it ends at a huge page.
Reached(v) == {i \in DOMAIN Path(v) : \A j \in 1 .. i : tables[Path(v)[j]] # Huge}
Covered(v) == \E i \in DOMAIN Path(v) : tables[Path(v)[i]] = Huge      \* by a huge page
Missing(v) == {i \in Reached(v) : tables[Path(v)[i]] = None}

\* paging_map of every page v of DOMAIN phys, in ascending order, to the frame phys[v].
paging_map(phys) == bpc' = "map" /\ mapping' = phys

NextPage == Min(DOMAIN mapping)

\* paging_alloc_table, for the first table that is missing on the way.
AllocTable ==
  /\ bpc = "map" /\ Missing(NextPage) # {}
  /\ LET a == pmm_alloc_pages(Pmm, 1)
     IN /\ SetPmm(a) /\ lost' = LostTo(a, 1)
        /\ IF Failed(a) THEN bpc' = "panic" /\ UNCHANGED tables
           ELSE /\ tables' = [tables EXCEPT ![Path(NextPage)[Min(Missing(NextPage))]] = a.start]
                /\ UNCHANGED bpc
  /\ UNCHANGED <<held, pte, heap_next, mapping, objs, maps, shoot, boot, todo, unmapping,
                 apc, tlb>>

\* The page table entry, and the invalidation on this CPU.
SetEntry ==
  /\ bpc = "map" /\ Missing(NextPage) = {}
  /\ LET v == NextPage
     IN /\ IF Covered(v) THEN UNCHANGED <<pte, tlb>>
           ELSE /\ pte' = [pte EXCEPT ![v] = mapping[v]]
                /\ tlb' = [tlb EXCEPT ![0] = [w \in Pages |-> IF w = v THEN None ELSE @[w]]]
        /\ mapping' = Restrict(mapping, DOMAIN mapping \ {v})
        /\ bpc' = IF DOMAIN mapping' = {} THEN "idle" ELSE "map"
  /\ UNCHANGED <<frames, tables, heap_next, objs, maps, shoot, boot, todo, unmapping, apc>>

\* paging_unmap: the frame that page v had, None where it returns 0.
Mapped(v) == IF Covered(v) \/ \E i \in DOMAIN Path(v) : tables[Path(v)[i]] = None
             THEN None ELSE pte[v]

-----------------------------------------------------------------------------
(* entry.c: _kstart *)

Init == /\ machine \in Machines
        /\ used = Tracked \ Usable
        /\ free_pages = Counted
        /\ tables = [t \in Tables |-> IF t \in machine.huge THEN Huge
                                      ELSE IF t \in Preset THEN Limine ELSE None]
        /\ pte = [v \in Pages \cup {LapicPage} |-> None]
        /\ heap_next = 0 /\ mapping = [v \in {} |-> None]
        /\ total_cpus = 1 /\ shoot_addr = None /\ shoot_ack = 0
        /\ smp = "none" /\ woken = 0 /\ ready = 0 /\ gaveUp = FALSE
        /\ bpc = "boot_alloc" /\ todo = {} /\ unmapping = FALSE
        /\ apc = [c \in CPUs |-> IF c = 0 THEN "bsp" ELSE "off"]
        /\ irr = {}
        /\ tlb = [c \in CPUs |-> [v \in Pages |-> None]]
        /\ objs = {} /\ maps = {} /\ held = {} /\ lost = {}

\* The boot allocator's region, never given back.
BootAlloc == /\ bpc = "boot_alloc"
             /\ LET a == pmm_alloc_pages(Pmm, BootPages)
                IN /\ SetPmm(a) /\ lost' = LostTo(a, BootPages)
                   /\ IF Failed(a) THEN bpc' = "panic" /\ UNCHANGED held
                      ELSE /\ bpc' = "map_mmio"
                           /\ held' = {[start |-> a.start, n |-> BootPages, boot |-> TRUE]}
             /\ UNCHANGED <<space, shoot, boot, todo, unmapping, apc, tlb>>

\* map_mmio of the LAPIC's page.
MapMmio == /\ bpc = "map_mmio"
           /\ paging_map([v \in {LapicPage} |-> LapicFrame])
           /\ UNCHANGED <<frames, tables, pte, heap_next, objs, maps, shoot, boot, todo,
                          unmapping, apc, tlb>>

-----------------------------------------------------------------------------
(* The BSP's calls: before it starts the APs, and after *)

Calling == bpc = "idle" /\ smp \in {"none", "up"}

\* gmk_hal_page_alloc and gmk_hal_page_free (hal/x86_baremetal/mem.c)
PageAlloc(n) == /\ Calling /\ Cardinality(held) <= MaxHeld
                /\ LET a == pmm_alloc_pages(Pmm, n)
                   IN /\ SetPmm(a) /\ lost' = LostTo(a, n)
                      /\ held' = IF Failed(a) THEN held
                                 ELSE held \cup {[start |-> a.start, n |-> n, boot |-> FALSE]}
                /\ UNCHANGED <<space, shoot, boot, bpc, todo, unmapping, apc, tlb>>

PageFree(b) == /\ Calling /\ ~b.boot
               /\ SetPmm(pmm_free_pages(Pmm, b.start, b.n))
               /\ held' = held \ {b}
               /\ UNCHANGED <<lost, space, shoot, boot, bpc, todo, unmapping, apc, tlb>>

kmalloc(size) == /\ Calling
                 /\ heap_next' = heap_next + size
                 /\ IF heap_next' > HeapEnd THEN bpc' = "panic" /\ UNCHANGED objs
                    ELSE /\ objs' = objs \cup {[addr |-> heap_next, size |-> size]}
                         /\ UNCHANGED bpc
                 /\ UNCHANGED <<frames, tables, pte, mapping, maps, shoot, boot, todo, unmapping,
                                apc, tlb>>

\* Of a device's pages, or of a block the caller owns and hands over.
vmm_map(b) == /\ Calling /\ b \in {Device} \cup {h \in held : ~h.boot}
              /\ LET first == CeilDiv(heap_next)
                     P == first .. first + b.n - 1
                 IN /\ heap_next' = (first + b.n) * PageUnits
                    /\ IF heap_next' > HeapEnd
                       THEN bpc' = "panic" /\ UNCHANGED <<mapping, maps, held>>
                       ELSE /\ paging_map([v \in P |-> b.start + (v - first)])
                            /\ maps' = maps \cup {[first |-> first, n |-> b.n]}
                            /\ held' = held \ {b}
              /\ UNCHANGED <<used, free_pages, lost, tables, pte, objs, shoot, boot, todo,
                             unmapping, apc, tlb>>

\* The BSP touches a page of an object that has no frame: isr_handler calls
\* vmm_demand_page, and the access is made again.
PageFault(o, v) ==
  /\ Calling /\ v \in Span(o.addr, o.size) /\ pte[v] = None /\ ~Covered(v)
  /\ LET a == pmm_alloc_pages(Pmm, 1)
     IN /\ SetPmm(a) /\ lost' = LostTo(a, 1)
        /\ IF Failed(a) THEN bpc' = "panic" /\ UNCHANGED mapping
           ELSE paging_map([w \in {v} |-> a.start])
  /\ UNCHANGED <<held, tables, pte, heap_next, objs, maps, shoot, boot, todo, unmapping,
                 apc, tlb>>

\* kfree unmaps whole pages: the caller shares none of them with a live object.
kfree(o) == /\ Calling
            /\ \A x \in objs \ {o} : Span(x.addr, x.size) \cap Span(o.addr, o.size) = {}
            /\ objs' = objs \ {o}
            /\ todo' = Span(o.addr, o.size)
            /\ bpc' = "free" /\ unmapping' = FALSE
            /\ UNCHANGED <<frames, tables, pte, heap_next, mapping, maps, shoot, boot, apc, tlb>>

vmm_unmap(m) == /\ Calling
                /\ maps' = maps \ {m}
                /\ todo' = m.first .. m.first + m.n - 1
                /\ bpc' = "free" /\ unmapping' = TRUE
                /\ UNCHANGED <<frames, tables, pte, heap_next, mapping, objs, shoot, boot, apc, tlb>>

\* MUTANT: the frame goes back although the page had none.
FreePageZero ==
  /\ bpc = "free" /\ todo # {}
  /\ LET v == Min(todo)  f == Mapped(v)
     IN /\ SetPmm(pmm_free_pages(Pmm, IF f = None THEN 0 ELSE f, 1))
        /\ pte' = IF f = None THEN pte ELSE [pte EXCEPT ![v] = None]
        /\ tlb' = IF f = None THEN tlb ELSE [tlb EXCEPT ![0][v] = None]
        /\ IF total_cpus > 1 /\ (unmapping \/ f # None)
           THEN bpc' = "post" /\ UNCHANGED todo
           ELSE todo' = todo \ {v} /\ UNCHANGED bpc
  /\ UNCHANGED <<held, lost, tables, heap_next, mapping, objs, maps, shoot, boot,
                 unmapping, apc>>

\* One page of kfree's or vmm_unmap's loop: unmap, free the frame, and shoot
\* the translation down where there are other CPUs.
FreePage ==
  /\ bpc = "free" /\ todo # {}
  /\ LET v == Min(todo)  f == Mapped(v)
     IN /\ IF f = None THEN UNCHANGED <<used, free_pages, pte, tlb>>
           ELSE /\ SetPmm(pmm_free_pages(Pmm, f, 1))
                /\ pte' = [pte EXCEPT ![v] = None]
                /\ tlb' = [tlb EXCEPT ![0][v] = None]
        /\ IF total_cpus > 1 /\ (unmapping \/ f # None)
           THEN bpc' = "post" /\ UNCHANGED todo
           ELSE todo' = todo \ {v} /\ UNCHANGED bpc
  /\ UNCHANGED <<held, lost, tables, heap_next, mapping, objs, maps, shoot, boot,
                 unmapping, apc>>

Freed == /\ bpc = "free" /\ todo = {} /\ bpc' = "idle"
         /\ UNCHANGED <<frames, space, shoot, boot, todo, unmapping, apc, tlb>>

-----------------------------------------------------------------------------
(* vmm_tlb_shootdown *)

PostAddr == /\ bpc = "post" /\ bpc' = "reset"
            /\ shoot_addr' = Min(todo)
            /\ UNCHANGED <<frames, space, shoot_ack, irr, boot, todo, unmapping, apc, tlb>>

\* MUTANT: the acknowledgements of the last shootdown still count.
ResetAckNot == /\ bpc = "reset" /\ bpc' = "send"
               /\ UNCHANGED <<frames, space, shoot, boot, todo, unmapping, apc, tlb>>

ResetAck == /\ bpc = "reset" /\ bpc' = "send"
            /\ shoot_ack' = 0
            /\ UNCHANGED <<frames, space, shoot_addr, irr, boot, todo, unmapping, apc, tlb>>

\* An IPI to all but self; a LAPIC that is not enabled yet drops it.
SendIpi == /\ bpc = "send" /\ bpc' = "spin"
           /\ irr' = irr \cup {c \in APs : apc[c] \notin {"off", "woken"}}
           /\ UNCHANGED <<frames, space, shoot_addr, shoot_ack, boot, todo, unmapping,
                          apc, tlb>>

SpinDone == /\ bpc = "spin" /\ shoot_ack >= total_cpus - 1
            /\ bpc' = "free" /\ todo' = todo \ {Min(todo)}
            /\ shoot_addr' = None
            /\ UNCHANGED <<frames, space, shoot_ack, irr, boot, unmapping, apc, tlb>>

-----------------------------------------------------------------------------
(* Bring-up (kmain, smp_start_aps) *)

StartSmp == /\ Calling /\ smp = "none" /\ machine.cpus > 1
            /\ smp' = "starting" /\ ready' = 0
            /\ UNCHANGED <<frames, space, shoot, machine, total_cpus, woken, gaveUp, bpc,
                           todo, unmapping, apc, tlb>>

WakeAp == /\ smp = "starting"
          /\ woken' = woken + 1
          /\ apc' = [apc EXCEPT ![woken + 1] = "woken"]
          /\ smp' = IF woken + 1 = machine.cpus - 1 THEN "waiting" ELSE smp
          /\ UNCHANGED <<frames, space, shoot, machine, total_cpus, ready, gaveUp, bpc,
                         todo, unmapping, tlb>>

\* MUTANT: the BSP counts itself twice.
SetCpuCountMore(n) == total_cpus' = n + 1

SetCpuCount(n) == total_cpus' = n

\* All APs are ready, or the loop has run out; kmain counts every CPU either way.
WaitEnds == /\ smp = "waiting"
            /\ smp' = "up"
            /\ gaveUp' = (ready < machine.cpus - 1)
            /\ SetCpuCount(machine.cpus)
            /\ UNCHANGED <<frames, space, shoot, machine, woken, ready, bpc, todo,
                           unmapping, apc, tlb>>

-----------------------------------------------------------------------------
(* The other CPUs *)

ApStep(c, from, to) == /\ apc[c] = from
                       /\ apc' = [apc EXCEPT ![c] = to]

\* ap_trampoline: from lapic_init on, an IPI stays pending.
LapicInit(c) == /\ ApStep(c, "woken", "entry")
                /\ UNCHANGED <<frames, space, shoot, boot, bpc, todo, unmapping, tlb>>

\* Where Limine's list, which has the BSP too, holds the c-th of the other CPUs.
Position(c) == IF c <= machine.bsp THEN c - 1 ELSE c
n_workers == Min({machine.cpus, MaxWorkers})
\* Worker i gets the LAPIC id of the i-th CPU of that list, worker 0 the BSP's:
\* unless the BSP is first in the list, the CPU that is first has no worker.
HasWorker(c) == Position(c) \in 1 .. n_workers - 1

\* ap_worker_entry: a CPU that finds no worker of its own halts for good.
EnterWorker(c) == /\ IF HasWorker(c)
                     THEN ApStep(c, "entry", "busy") /\ ready' = ready + 1
                     ELSE ApStep(c, "entry", "halted") /\ UNCHANGED ready
                  /\ UNCHANGED <<frames, space, shoot, machine, total_cpus, smp, woken,
                                 gaveUp, bpc, todo, unmapping, tlb>>

\* gmk_hal_park_wait: sti; hlt; cli.  A pending IPI is taken before the cli.
Park(c) == /\ ApStep(c, "busy", "parked")
           /\ UNCHANGED <<frames, space, shoot, boot, bpc, todo, unmapping, tlb>>

Unpark(c) == /\ c \notin irr /\ ApStep(c, "parked", "busy")
             /\ UNCHANGED <<frames, space, shoot, boot, bpc, todo, unmapping, tlb>>

\* vmm_tlb_shootdown_handler: the invalidation, then the acknowledgement.
TakeIpi(c) == /\ c \in irr /\ ApStep(c, "parked", "isr")
              /\ irr' = irr \ {c}
              /\ tlb' = IF shoot_addr = None THEN tlb
                        ELSE [tlb EXCEPT ![c][shoot_addr] = None]
              /\ UNCHANGED <<frames, space, shoot_addr, shoot_ack, boot, bpc, todo, unmapping>>

\* MUTANT: a plain store instead of the fetch-add.
AckStore(c) == /\ ApStep(c, "isr", "parked")
               /\ shoot_ack' = 1
               /\ UNCHANGED <<frames, space, shoot_addr, irr, boot, bpc, todo, unmapping, tlb>>

Ack(c) == /\ ApStep(c, "isr", "parked")
          /\ shoot_ack' = shoot_ack + 1
          /\ UNCHANGED <<frames, space, shoot_addr, irr, boot, bpc, todo, unmapping, tlb>>

\* A CPU at work caches the translation of a mapped page whenever it likes.
Translate(c, v) == /\ bpc # "panic" /\ (apc[c] = "busy" \/ (c = 0 /\ Calling))
                   /\ pte[v] # None /\ tlb[c][v] # pte[v]
                   /\ tlb' = [tlb EXCEPT ![c][v] = pte[v]]
                   /\ UNCHANGED <<frames, space, shoot, boot, bpc, todo, unmapping, apc>>

Bsp == \/ BootAlloc \/ MapMmio \/ AllocTable \/ SetEntry \/ FreePage \/ Freed
       \/ PostAddr \/ ResetAck \/ SendIpi \/ SpinDone
       \/ StartSmp \/ WakeAp \/ WaitEnds
Call == \/ \E n \in Runs : PageAlloc(n)
        \/ \E b \in held : PageFree(b)
        \/ \E s \in Sizes : kmalloc(s)
        \/ \E b \in held \cup {Device} : vmm_map(b)
        \/ \E o \in objs : kfree(o) \/ \E v \in Pages : PageFault(o, v)
        \/ \E m \in maps : vmm_unmap(m)
Ap(c) == \/ LapicInit(c) \/ EnterWorker(c) \/ Park(c) \/ Unpark(c)
         \/ TakeIpi(c) \/ Ack(c)

Next == \/ Bsp \/ Call
        \/ \E c \in CPUs : Ap(c) \/ \E v \in Pages : Translate(c, v)

\* A loop of the BSP goes on; a started CPU gets through its start; a worker
\* runs out of work and parks (only the BSP submits, and it is in the loop);
\* an interrupt that is pending while parked is taken, and its handler ends.
AllAPs == 1 .. Max({m.cpus : m \in Machines}) - 1
Fairness ==
  /\ WF_vars(AllocTable \/ SetEntry \/ FreePage \/ Freed \/ PostAddr \/ ResetAck \/ SendIpi \/ SpinDone)
  /\ \A c \in AllAPs :
       WF_vars(c \in APs /\ (LapicInit(c) \/ EnterWorker(c) \/ Park(c) \/ TakeIpi(c) \/ Ack(c)))

Spec == Init /\ [][Next]_vars /\ Fairness

-----------------------------------------------------------------------------
(* Properties *)

\* State of the right shape; vmm.c counts the BSP alone, or every CPU.
TypeOK ==
  /\ used \subseteq Tracked /\ free_pages \in 0 .. TotalPages
  /\ DOMAIN tables = Tables /\ DOMAIN pte = Pages \cup {LapicPage}
  /\ heap_next \in Nat
  /\ total_cpus = (IF smp = "up" THEN machine.cpus ELSE 1)
  /\ shoot_addr \in Pages \cup {None} /\ shoot_ack \in 0 .. machine.cpus - 1
  /\ ready \in 0 .. woken /\ woken \in 0 .. machine.cpus - 1
  /\ irr \subseteq APs
  /\ bpc \in {"boot_alloc", "map_mmio", "idle", "map", "free", "post", "reset", "send",
              "spin", "panic"}
  /\ DOMAIN mapping \subseteq DOMAIN pte /\ (bpc = "map" => DOMAIN mapping # {})
  /\ todo \subseteq Pages
  /\ \A b \in held : b.start \in Tracked

\* The bitmap (pmm.c) marks exactly the frames that something owns: memory that
\* is not RAM, a block of gmk_hal_page_alloc, a page table, a page of the heap,
\* one that paging_map is about to set, or a run that was handed out as address 0
\* and so taken for a failure; no frame has two owners, none of those owners has
\* other memory, and free_pages counts the rest.
Run(b) == b.start .. b.start + b.n - 1
Owner(w, i, S) == [what |-> w, id |-> i, set |-> S]
Owners == {Owner("block", b, Run(b)) : b \in held}
  \cup {Owner("table", t, {tables[t]}) : t \in {x \in Tables : tables[x] >= 0}}
  \cup {Owner("page", v, {pte[v]}) : v \in {x \in Pages : pte[x] # None}}
  \cup {Owner("mapping", v, {mapping[v]}) : v \in Pages \cap DOMAIN mapping}
  \cup {Owner("lost", 0, lost)}

FramesExact ==
  /\ used = (Tracked \ Usable) \cup ((UNION {o.set : o \in Owners}) \cap Tracked)
  /\ \A o \in Owners : o.set \cap Tracked \subseteq Usable
  /\ \A o, q \in Owners : o # q => o.set \cap q.set \cap Tracked = {}
  /\ free_pages = TotalPages - Cardinality(used)
  /\ lost # {} => 0 \in lost

\* No CPU keeps a translation that the page tables do not have, but for the
\* page that kfree or vmm_unmap is shooting down: when they return, nobody
\* reaches the frame they gave back (vmm_tlb_shootdown and its handler).
NoStaleTranslation ==
  \A c \in CPUs : \A v \in Pages :
    tlb[c][v] \in {None, pte[v]}
      \/ (bpc \in {"post", "reset", "send", "spin"} /\ v = Min(todo))

\* The shootdown counts no CPU that has not reported ready: what vmm.h asks of
\* the caller of vmm_set_cpu_count.  kmain counts every CPU of the machine, also
\* when its wait ran out.
CountedReady == total_cpus - 1 <= ready

\* kfree and vmm_unmap return, unless kmain had given up on an AP: such an AP
\* may have dropped the IPI, or halted with interrupts off.
FreeReturns == (bpc = "free" /\ ~gaveUp) ~> (bpc = "idle")
=============================================================================
