----------------------------- MODULE Vmm_proofs -----------------------------
(***************************************************************************)
(* Memory of the bare-metal kernel (pmm.c, paging.c, vmm.c, smp.c) for any *)
(* number of CPUs, any memory map, any page tables and any sequence of     *)
(* calls: no CPU keeps a translation that the page tables no longer have,  *)
(* and the frame bitmap marks exactly the frames that something owns.      *)
(***************************************************************************)
EXTENDS Vmm, TLAPS, FiniteSetTheorems, WellFoundedInduction

-----------------------------------------------------------------------------
(* The inductive invariant *)

Clean(c, v) == tlb[c][v] \in {None, pte[v]}
ShootPCs == {"post", "reset", "send", "spin"}

\* Bring-up: vmm.c counts the BSP alone until kmain has waited for the others;
\* before that they are off, and while they start the BSP makes no call.
BootInv ==
  /\ machine \in Machines
  /\ smp \in {"none", "starting", "waiting", "up"}
  /\ total_cpus = (IF smp = "up" THEN machine.cpus ELSE 1)
  /\ smp # "none" => machine.cpus > 1
  /\ smp \in {"starting", "waiting"} => bpc = "idle"
  /\ woken \in Nat
  /\ DOMAIN apc = CPUs /\ apc[0] = "bsp"
  /\ smp = "none" => \A c \in APs : apc[c] = "off" /\ \A v \in Pages : tlb[c][v] = None

\* The heap is handed out upwards: nothing is mapped beyond heap_next, and what
\* paging_map is about to map has no frame yet.
MapSet ==
  /\ \A v \in DOMAIN mapping : /\ v \in Pages \cup {LapicPage}
                               /\ v \in Pages => pte[v] = None /\ v * PageUnits < heap_next
  /\ bpc = "map" => DOMAIN mapping # {}
  /\ bpc \notin {"map", "panic"} => DOMAIN mapping = {}

HeapInv ==
  /\ heap_next \in Nat
  /\ DOMAIN pte = Pages \cup {LapicPage}
  /\ \A v \in Pages : pte[v] # None => v * PageUnits < heap_next
  /\ \A o \in objs : /\ o.addr \in Nat /\ o.size \in Nat
                     /\ o.addr + o.size <= heap_next
  /\ \A b \in held : b.n \in Nat \ {0}
  /\ MapSet

\* A CPU is done with the shootdown under way once it has no IPI pending, is
\* not in the handler, and does not have the page's old translation.
Done == {c \in APs : /\ c \notin irr /\ apc[c] # "isr"
                     /\ Min(todo) \in Pages => Clean(c, Min(todo))}

\* An IPI is pending, or its handler running, only while the BSP waits, and the
\* BSP has counted no CPU that is not done.
ShootInv ==
  /\ irr \subseteq APs /\ shoot_ack \in Nat
  /\ bpc # "spin" => irr = {} /\ \A c \in APs : apc[c] # "isr"
  /\ bpc \in ShootPCs => smp = "up"
  /\ bpc \in {"reset", "send", "spin"} => shoot_addr = Min(todo)
  /\ \A c \in APs : apc[c] = "isr" =>
       c \notin irr /\ (Min(todo) \in Pages => Clean(c, Min(todo)))
  /\ bpc = "send" => shoot_ack = 0
  /\ bpc = "spin" => shoot_ack <= Cardinality(Done)

\* Translations are those of the page tables, but for the page being shot down
\* on the other CPUs.
TlbInv ==
  /\ DOMAIN tlb = CPUs /\ \A c \in CPUs : DOMAIN tlb[c] = Pages
  /\ \A v \in Pages : Clean(0, v)
  /\ \A c \in CPUs, v \in Pages : Clean(c, v) \/ (bpc \in ShootPCs /\ v = Min(todo))

IndInv == BootInv /\ HeapInv /\ ShootInv /\ TlbInv

-----------------------------------------------------------------------------
(* CPUs and pages *)

LEMMA CpuFacts ==
  ASSUME BootInv
  PROVE  /\ machine.cpus \in Nat \ {0} /\ 0 \in CPUs /\ 0 \notin APs /\ APs \subseteq CPUs
         /\ IsFiniteSet(APs) /\ Cardinality(APs) = machine.cpus - 1
<1>1. machine.cpus \in Nat \ {0}
  BY VmmAssumption DEF BootInv
<1>2. APs = 1 .. machine.cpus - 1
  BY <1>1 DEF APs, CPUs
<1>3. IsFiniteSet(1 .. machine.cpus - 1) /\ Cardinality(1 .. machine.cpus - 1) = machine.cpus - 1
  <2>1. /\ 1 \in Int /\ machine.cpus - 1 \in Int
        /\ (IF 1 > machine.cpus - 1 THEN 0 ELSE (machine.cpus - 1) - 1 + 1) = machine.cpus - 1
    BY <1>1
  <2> QED
    BY <2>1, FS_Interval
<1>4. 0 \in CPUs /\ 0 \notin APs /\ APs \subseteq CPUs
  BY <1>1 DEF CPUs, APs
<1> QED
  BY <1>1, <1>2, <1>3, <1>4

\* The CPUs that are done are counted by a number, and more of them by a
\* number at least as large.
LEMMA DoneFinite ==
  ASSUME BootInv, NEW S \in SUBSET APs
  PROVE  /\ IsFiniteSet(S) /\ Cardinality(S) \in Nat
         /\ Cardinality(S) <= machine.cpus - 1
         /\ Cardinality(S) = machine.cpus - 1 => S = APs
         /\ \A T \in SUBSET S : Cardinality(T) <= Cardinality(S)
<1>1. IsFiniteSet(APs) /\ Cardinality(APs) = machine.cpus - 1
  BY CpuFacts
<1>2. IsFiniteSet(S) /\ Cardinality(S) <= Cardinality(APs)
      /\ (Cardinality(S) = Cardinality(APs) => S = APs)
  BY <1>1, FS_Subset
<1>3. ASSUME NEW T \in SUBSET S PROVE Cardinality(T) <= Cardinality(S)
  BY <1>2, FS_Subset
<1>4. Cardinality(S) \in Nat
  BY <1>2, FS_CardinalityType
<1> QED
  BY <1>1, <1>2, <1>3, <1>4

\* A page within an object starts before the object's end.
LEMMA SpanBelow ==
  ASSUME NEW a \in Nat, NEW n \in Nat, NEW v \in Span(a, n)
  PROVE  v \in Int /\ v * PageUnits < a + n
<1>1. PageUnits \in Nat \ {0}
  BY VmmAssumption
<1>2. PICK m \in Int : m = a + n + PageUnits - 1
  BY <1>1
<1>3. PICK q \in Int : q = m \div PageUnits
  BY <1>1
<1>4. PageUnits * q <= m
  <2>1. m = PageUnits * (m \div PageUnits) + (m % PageUnits) /\ m % PageUnits >= 0
    BY <1>1
  <2> QED
    BY <1>1, <1>3, <2>1
<1>5. v \in Int /\ v <= q - 1
  <2>1. a \div PageUnits \in Int
    BY <1>1
  <2> QED
    BY <1>2, <1>3, <2>1 DEF Span, CeilDiv
<1>6. v * PageUnits <= (q - 1) * PageUnits
  BY <1>1, <1>5
<1>7. (q - 1) * PageUnits = PageUnits * q - PageUnits
  BY <1>1
<1> QED
  BY <1>1, <1>2, <1>4, <1>5, <1>6, <1>7

\* The first whole page after an address starts at or after it.
LEMMA CeilAbove ==
  ASSUME NEW a \in Nat
  PROVE  CeilDiv(a) \in Nat /\ a <= CeilDiv(a) * PageUnits
<1>1. PageUnits \in Nat \ {0}
  BY VmmAssumption
<1>2. PICK m \in Nat : m = a + PageUnits - 1
  BY <1>1
<1>3. PICK q \in Nat : q = m \div PageUnits
  BY <1>1
<1>4. m < PageUnits * q + PageUnits
  <2>1. m = PageUnits * (m \div PageUnits) + (m % PageUnits) /\ m % PageUnits < PageUnits
    BY <1>1
  <2> QED
    BY <1>1, <1>3, <2>1
<1>5. q * PageUnits = PageUnits * q
  BY <1>1
<1> QED
  BY <1>1, <1>2, <1>3, <1>4, <1>5 DEF CeilDiv

\* The smallest of a set of numbers is one of them.
LEMMA Least ==
  ASSUME NEW S, S \subseteq Nat, S # {}
  PROVE  Min(S) \in S /\ \A y \in S : Min(S) <= y
<1>1. PICK x \in S : \A y \in S : <<y, x>> \notin OpToRel(<, Nat)
  <2>1. IsWellFoundedOn(OpToRel(<, Nat), Nat)
    BY NatLessThanWellFounded, Zenon
  <2> QED
    BY <2>1, WFMin, Zenon
<1>2. \A y \in S : ~(y < x)
  BY <1>1 DEF OpToRel
<1>3. \A y \in S : x <= y
  BY <1>2
<1> QED
  BY <1>3 DEF Min

\* A page below the end of the heap, and the other way round.
LEMMA PageBelow ==
  ASSUME NEW a \in Int, NEW b \in Int
  PROVE  a * PageUnits <= b * PageUnits <=> a <= b
<1>1. PageUnits \in Nat \ {0}
  BY VmmAssumption
<1>2. PICK d \in Int : d = b - a
  OBVIOUS
<1>3. b * PageUnits = a * PageUnits + d * PageUnits
  <2>1. b = a + d
    BY <1>2
  <2>2. (a + d) * PageUnits = a * PageUnits + d * PageUnits
    BY <1>1
  <2> QED
    BY <2>1, <2>2
<1>4. d * PageUnits \in Int /\ a * PageUnits \in Int /\ b * PageUnits \in Int
  BY <1>1
<1>5. d >= 0 => d * PageUnits >= 0
  BY <1>1
<1>6. d < 0 => d * PageUnits < 0
  BY <1>1
<1> QED
  BY <1>2, <1>3, <1>4, <1>5, <1>6

-----------------------------------------------------------------------------
(* The BSP *)

LEMMA InitInv ==
  ASSUME Init
  PROVE  IndInv
<1>1. BootInv
  <2>1. machine.cpus \in Nat \ {0}
    BY VmmAssumption DEF Init
  <2> QED
    BY <2>1 DEF Init, BootInv, CPUs, APs
<1>2. HeapInv
  BY VmmAssumption DEF Init, HeapInv, MapSet, Pages, None
<1>3. ShootInv
  BY <1>1, CpuFacts DEF Init, ShootInv, ShootPCs, APs
<1>4. TlbInv
  BY <1>1, CpuFacts DEF Init, TlbInv, Clean
<1> QED
  BY <1>1, <1>2, <1>3, <1>4 DEF IndInv

\* A step of the BSP outside the shootdown that maps at most pages which had
\* no frame, and reads at most its own translations.
LEMMA BspFrame ==
  ASSUME IndInv, HeapInv',
         UNCHANGED <<machine, total_cpus, smp, woken, apc, irr, shoot_ack>>,
         bpc \notin ShootPCs, bpc' \notin ShootPCs, smp \notin {"starting", "waiting"},
         \A v \in Pages : pte'[v] = pte[v] \/ pte[v] = None,
         DOMAIN tlb' = CPUs, \A c \in CPUs : DOMAIN tlb'[c] = Pages,
         \A c \in APs : tlb'[c] = tlb[c],
         \A c \in CPUs : \A v \in Pages : tlb'[c][v] \in {tlb[c][v], None, pte'[v]}
  PROVE  IndInv'
<1>1. BootInv /\ HeapInv /\ ShootInv /\ TlbInv
  BY DEF IndInv
<1>2. 0 \in CPUs /\ 0 \notin APs /\ APs \subseteq CPUs
  BY <1>1, CpuFacts
<1>3. CPUs' = CPUs /\ APs' = APs
  BY DEF CPUs, APs
<1>4. BootInv'
  BY <1>1, <1>2, <1>3 DEF BootInv
<1>5. ShootInv'
  BY <1>1, <1>3 DEF ShootInv, ShootPCs
<1>6. ASSUME NEW c \in CPUs, NEW v \in Pages PROVE Clean(c, v)'
  <2>1. tlb[c][v] \in {None, pte[v]}
    BY <1>1 DEF TlbInv, Clean
  <2> QED
    BY <2>1 DEF Clean
<1>7. TlbInv'
  BY <1>2, <1>3, <1>6 DEF TlbInv
<1> QED
  BY <1>4, <1>5, <1>7 DEF IndInv

\* The same for a step that reads no translation.
LEMMA QuietFrame ==
  ASSUME IndInv, HeapInv',
         UNCHANGED <<machine, total_cpus, smp, woken, apc, irr, shoot_ack, tlb>>,
         bpc \notin ShootPCs, bpc' \notin ShootPCs, smp \notin {"starting", "waiting"},
         \A v \in Pages : pte'[v] = pte[v] \/ pte[v] = None
  PROVE  IndInv'
<1>1. DOMAIN tlb' = CPUs
  BY DEF IndInv, TlbInv
<1>2. \A c \in CPUs : DOMAIN tlb'[c] = Pages
  BY DEF IndInv, TlbInv
<1>3. \A c \in APs : tlb'[c] = tlb[c]
  OBVIOUS
<1>4. \A c \in CPUs : \A v \in Pages : tlb'[c][v] \in {tlb[c][v], None, pte'[v]}
  OBVIOUS
<1> QED
  BY <1>1, <1>2, <1>3, <1>4, BspFrame

\* The page that paging_map is at is one of those it has still to map.
LEMMA NextPageIn ==
  ASSUME HeapInv, bpc = "map"
  PROVE  NextPage \in DOMAIN mapping /\ NextPage \in Pages \cup {LapicPage}
<1>1. DOMAIN mapping # {} /\ \A v \in DOMAIN mapping : v \in Pages \cup {LapicPage}
  BY DEF HeapInv, MapSet
<1>2. Pages \cup {LapicPage} \subseteq Nat
  BY VmmAssumption DEF Pages
<1>3. DOMAIN mapping \subseteq Nat
  BY <1>1, <1>2
<1>4. NextPage \in DOMAIN mapping
  BY <1>1, <1>3, Least DEF NextPage
<1> QED
  BY <1>1, <1>4

\* The boot allocator's region and blocks of pages: the address space stays.
LEMMA BlockInv ==
  ASSUME IndInv,
         \/ BootAlloc \/ Freed
         \/ \E n \in Runs : PageAlloc(n)
         \/ \E b \in held : PageFree(b)
         \/ \E o \in objs : kfree(o)
         \/ \E m \in maps : vmm_unmap(m)
  PROVE  IndInv'
<1>1. BootInv /\ HeapInv /\ ShootInv /\ TlbInv
  BY DEF IndInv
<1>2. BootPages \in Nat \ {0} /\ Runs \subseteq Nat \ {0}
  BY VmmAssumption
<1>3. /\ UNCHANGED <<machine, total_cpus, smp, woken, apc, irr, shoot_ack>>
      /\ bpc \notin ShootPCs /\ smp \notin {"starting", "waiting"}
  BY <1>1 DEF BootAlloc, Freed, PageAlloc, PageFree, kfree, vmm_unmap, Calling, boot, shoot,
              ShootPCs, BootInv
<1>4. CASE BootAlloc \/ Freed \/ \E n \in Runs : PageAlloc(n)
  <2>1. /\ UNCHANGED <<pte, tlb, heap_next, objs, mapping>> /\ bpc' \notin ShootPCs \cup {"map"}
        /\ bpc \notin {"map", "panic"}
    BY <1>4 DEF BootAlloc, Freed, PageAlloc, space, Calling, ShootPCs
  <2>2. \A b \in held' : b.n \in Nat \ {0}
    BY <1>1, <1>2, <1>4 DEF BootAlloc, Freed, PageAlloc, frames, HeapInv, MapSet
  <2>3. HeapInv'
    BY <1>1, <2>1, <2>2 DEF HeapInv, MapSet
  <2> QED
    BY <1>3, QuietFrame, <2>1, <2>3
<1>5. CASE (\E b \in held : PageFree(b)) \/ (\E o \in objs : kfree(o))
           \/ (\E m \in maps : vmm_unmap(m))
  <2>1. /\ UNCHANGED <<pte, tlb, heap_next, mapping>> /\ bpc' \notin ShootPCs \cup {"map"}
        /\ objs' \subseteq objs /\ held' \subseteq held /\ bpc = "idle"
    BY <1>5 DEF PageFree, kfree, vmm_unmap, frames, space, Calling, ShootPCs
  <2>2. HeapInv'
    BY <1>1, <2>1 DEF HeapInv, MapSet
  <2> QED
    BY <1>3, QuietFrame, <2>1, <2>2
<1> QED
  BY <1>4, <1>5

\* An object of kmalloc lies at the end of the heap.
LEMMA KmallocInv ==
  ASSUME IndInv, NEW s \in Sizes, kmalloc(s)
  PROVE  IndInv'
<1>1. BootInv /\ HeapInv /\ ShootInv /\ TlbInv
  BY DEF IndInv
<1>2. heap_next \in Nat /\ PageUnits \in Nat \ {0} /\ s \in Nat
  BY <1>1, VmmAssumption DEF HeapInv, MapSet
<1>3. /\ UNCHANGED <<machine, total_cpus, smp, woken, apc, irr, shoot_ack, pte, tlb, held, mapping>>
      /\ bpc = "idle" /\ smp \notin {"starting", "waiting"}
      /\ bpc' \in {"idle", "panic"} /\ heap_next' = heap_next + s
      /\ (objs' = objs \/ objs' = objs \cup {[addr |-> heap_next, size |-> s]})
  BY DEF kmalloc, frames, Calling, boot, shoot
<1>4. bpc \notin ShootPCs /\ bpc' \notin ShootPCs
  BY <1>3 DEF ShootPCs
<1>5. \A v \in Pages : v * PageUnits \in Int
  BY <1>2 DEF Pages
<1>6. \A v \in Pages : pte'[v] # None => v * PageUnits < heap_next'
  BY <1>1, <1>2, <1>3, <1>5 DEF HeapInv, MapSet
<1>7. \A o \in objs' : o.addr \in Nat /\ o.size \in Nat /\ o.addr + o.size <= heap_next'
  BY <1>1, <1>2, <1>3 DEF HeapInv, MapSet
<1>8. DOMAIN mapping = {}
  BY <1>1, <1>3 DEF HeapInv, MapSet
<1>9. HeapInv'
  BY <1>1, <1>2, <1>3, <1>6, <1>7, <1>8 DEF HeapInv, MapSet
<1> QED
  BY <1>3, <1>4, QuietFrame, <1>9

\* map_mmio and vmm_demand_page hand one page to paging_map.
LEMMA FaultInv ==
  ASSUME IndInv, MapMmio \/ \E o \in objs, v \in Pages : PageFault(o, v)
  PROVE  IndInv'
<1>1. BootInv /\ HeapInv /\ ShootInv /\ TlbInv
  BY DEF IndInv
<1>2. /\ UNCHANGED <<machine, total_cpus, smp, woken, apc, irr, shoot_ack, tlb, pte, heap_next, objs,
                     held>>
      /\ bpc \in {"idle", "map_mmio"} /\ smp \notin {"starting", "waiting"}
      /\ bpc' \in {"map", "panic"}
  BY <1>1, ZenonT(60) DEF MapMmio, PageFault, paging_map, boot, shoot, frames, Calling, BootInv
<1>3. \/ bpc' = "panic" /\ mapping' = mapping
      \/ \E v \in Pages \cup {LapicPage} :
            /\ bpc' = "map" /\ DOMAIN mapping' = {v}
            /\ v \in Pages => pte[v] = None /\ v * PageUnits < heap_next
  <2>1. CASE MapMmio
    <3>1. LapicPage \notin Pages
      BY VmmAssumption DEF Pages
    <3>2. bpc' = "map" /\ DOMAIN mapping' = {LapicPage}
      BY <2>1 DEF MapMmio, paging_map
    <3> QED
      BY <3>1, <3>2
  <2>2. ASSUME NEW o \in objs, NEW v \in Pages, PageFault(o, v)
        PROVE  \/ bpc' = "panic" /\ mapping' = mapping
               \/ /\ bpc' = "map" /\ DOMAIN mapping' = {v}
                  /\ pte[v] = None /\ v * PageUnits < heap_next
    <3>1. /\ o.addr \in Nat /\ o.size \in Nat /\ o.addr + o.size <= heap_next /\ heap_next \in Nat
      BY <1>1 DEF HeapInv, MapSet
    <3>2. v \in Int /\ v * PageUnits < o.addr + o.size
      BY <2>2, <3>1, SpanBelow DEF PageFault
    <3>3. v * PageUnits < heap_next
      <4>1. v * PageUnits \in Int
        BY <3>2, VmmAssumption
      <4> QED
        BY <3>1, <3>2, <4>1
    <3>4. pte[v] = None
      BY <2>2 DEF PageFault
    <3>5. (bpc' = "panic" /\ mapping' = mapping) \/ (bpc' = "map" /\ DOMAIN mapping' = {v})
      BY <2>2 DEF PageFault, paging_map
    <3> QED
      BY <3>3, <3>4, <3>5
  <2> QED
    BY <2>1, <2>2
<1>4. bpc \notin ShootPCs /\ bpc' \notin ShootPCs
  BY <1>2 DEF ShootPCs
<1>5. DOMAIN mapping = {}
  BY <1>1, <1>2 DEF HeapInv, MapSet
<1>6. HeapInv'
  BY <1>1, <1>2, <1>3, <1>5 DEF HeapInv, MapSet
<1> QED
  BY <1>2, <1>4, <1>6, QuietFrame

\* vmm_map takes whole pages at the end of the heap.
LEMMA VmmMapInv ==
  ASSUME IndInv, NEW b \in held \cup {Device}, vmm_map(b)
  PROVE  IndInv'
<1> DEFINE first == CeilDiv(heap_next)
           P == first .. first + b.n - 1
<1>1. BootInv /\ HeapInv /\ ShootInv /\ TlbInv
  BY DEF IndInv
<1>2. /\ heap_next \in Nat /\ PageUnits \in Nat \ {0} /\ b.n \in Nat \ {0} /\ first \in Nat
      /\ heap_next <= first * PageUnits
  <2>1. heap_next \in Nat /\ PageUnits \in Nat \ {0}
    BY <1>1, VmmAssumption DEF HeapInv, MapSet
  <2>2. b.n \in Nat \ {0}
    BY <1>1, VmmAssumption DEF HeapInv, MapSet
  <2> QED
    BY <2>1, <2>2, CeilAbove
<1>3. /\ UNCHANGED <<machine, total_cpus, smp, woken, apc, irr, shoot_ack, tlb, pte, objs>>
      /\ bpc = "idle" /\ smp \notin {"starting", "waiting"} /\ held' \subseteq held
      /\ heap_next' = (first + b.n) * PageUnits
      /\ \/ bpc' = "panic" /\ mapping' = mapping
         \/ bpc' = "map" /\ DOMAIN mapping' = P /\ ~(heap_next' > HeapEnd)
  BY DEF vmm_map, paging_map, Calling, boot, shoot
<1>4. bpc \notin ShootPCs /\ bpc' \notin ShootPCs
  BY <1>3 DEF ShootPCs
<1>5. DOMAIN mapping = {}
  BY <1>1, <1>3 DEF HeapInv, MapSet
<1>6. heap_next' \in Nat /\ heap_next <= heap_next'
  <2>1. first * PageUnits <= (first + b.n) * PageUnits
    BY <1>2, PageBelow
  <2>2. (first + b.n) * PageUnits \in Nat /\ first * PageUnits \in Nat
    BY <1>2
  <2> QED
    BY <1>2, <1>3, <2>1, <2>2
<1>7. \A v \in Pages : v * PageUnits \in Int
  BY <1>2 DEF Pages
<1>8. \A v \in Pages : pte'[v] # None => v * PageUnits < heap_next'
  BY <1>1, <1>2, <1>3, <1>6, <1>7 DEF HeapInv, MapSet
<1>9. \A o \in objs' : o.addr \in Nat /\ o.size \in Nat /\ o.addr + o.size <= heap_next'
  BY <1>1, <1>2, <1>3, <1>6, SMTT(60) DEF HeapInv, MapSet
<1>10. ASSUME bpc' = "map", NEW v \in P
       PROVE  v \in Pages /\ pte[v] = None /\ v * PageUnits < heap_next'
  <2>1. DOMAIN mapping' = P /\ ~(heap_next' > HeapEnd)
    BY <1>3, <1>10
  <2>2. v \in Nat /\ first <= v /\ v + 1 <= first + b.n
    BY <1>2
  <2>3. v \in Pages
    <3>1. HeapPages \in Nat /\ HeapEnd \in Int
      BY <1>2, VmmAssumption DEF HeapEnd
    <3>2. (first + b.n) * PageUnits <= HeapPages * PageUnits
      BY <1>3, <1>6, <2>1, <3>1 DEF HeapEnd
    <3>3. first + b.n <= HeapPages
      BY <1>2, <3>1, <3>2, PageBelow
    <3> QED
      BY <1>2, <2>2, <3>1, <3>3 DEF Pages
  <2>4. first * PageUnits <= v * PageUnits /\ v * PageUnits \in Int /\ first * PageUnits \in Int
    BY <1>2, <2>2, PageBelow
  <2>5. pte[v] = None
    BY <1>1, <1>2, <2>3, <2>4 DEF HeapInv, MapSet
  <2>6. ~((first + b.n) * PageUnits <= v * PageUnits)
    BY <1>2, <2>2, PageBelow
  <2>7. v * PageUnits < heap_next'
    BY <1>3, <1>6, <2>4, <2>6
  <2> QED
    BY <2>3, <2>5, <2>7
<1>11. P # {}
  <2>1. first \in P
    BY <1>2
  <2> QED
    BY <2>1
<1>12. /\ \A v \in DOMAIN mapping' : /\ v \in Pages \cup {LapicPage}
                                     /\ v \in Pages => pte'[v] = None /\ v * PageUnits < heap_next'
       /\ bpc' = "map" => DOMAIN mapping' # {}
       /\ bpc' \in {"map", "panic"}
  BY <1>3, <1>5, <1>10, <1>11
<1>13. DOMAIN pte' = Pages \cup {LapicPage} /\ \A x \in held' : x.n \in Nat \ {0}
  BY <1>1, <1>3 DEF HeapInv, MapSet
<1>14. HeapInv'
  BY <1>6, <1>8, <1>9, <1>12, <1>13 DEF HeapInv, MapSet
<1> QED
  BY <1>3, <1>4, <1>14, QuietFrame

\* paging_map: a table for the way to a page, and then its entry.
LEMMA MapInv ==
  ASSUME IndInv, AllocTable \/ SetEntry
  PROVE  IndInv'
<1>1. BootInv /\ HeapInv /\ ShootInv /\ TlbInv
  BY DEF IndInv
<1>2. /\ UNCHANGED <<machine, total_cpus, smp, woken, apc, irr, shoot_ack, heap_next, objs, held>>
      /\ bpc = "map" /\ bpc' \in {"map", "idle", "panic"}
  BY DEF AllocTable, SetEntry, boot, shoot, frames
<1>3. smp \notin {"starting", "waiting"} /\ bpc \notin ShootPCs /\ bpc' \notin ShootPCs
  BY <1>1, <1>2 DEF BootInv, ShootPCs
<1>4. NextPage \in DOMAIN mapping /\ NextPage \in Pages \cup {LapicPage}
  BY <1>1, <1>2, NextPageIn
<1>5. /\ 0 \in CPUs /\ 0 \notin APs /\ APs \subseteq CPUs /\ DOMAIN tlb = CPUs
      /\ \A c \in CPUs : DOMAIN tlb[c] = Pages
  BY <1>1, CpuFacts DEF TlbInv
<1>6. CASE AllocTable
  <2>1. UNCHANGED <<mapping, pte, tlb>> /\ bpc' \in {"map", "panic"}
    BY <1>2, <1>6 DEF AllocTable
  <2>2. HeapInv'
    BY <1>1, <1>2, <2>1 DEF HeapInv, MapSet
  <2> QED
    BY <1>2, <1>3, <2>1, <2>2, QuietFrame
<1>7. CASE SetEntry
  <2>1. DOMAIN mapping' = DOMAIN mapping \ {NextPage}
    BY <1>7 DEF SetEntry, Restrict
  <2>2. bpc' = IF DOMAIN mapping' = {} THEN "idle" ELSE "map"
    BY <1>7 DEF SetEntry
  <2>3. \/ UNCHANGED <<pte, tlb>>
        \/ /\ pte' = [pte EXCEPT ![NextPage] = mapping[NextPage]]
           /\ tlb' = [tlb EXCEPT ![0] =
                        [w \in Pages |-> IF w = NextPage THEN None ELSE tlb[0][w]]]
    BY <1>7 DEF SetEntry
  <2>4. DOMAIN pte' = DOMAIN pte /\ \A v \in Pages : v # NextPage => pte'[v] = pte[v]
    BY <1>1, <2>3 DEF HeapInv, MapSet
  <2>5. NextPage \in Pages => pte[NextPage] = None /\ NextPage * PageUnits < heap_next
    BY <1>1, <1>4 DEF HeapInv, MapSet
  <2>6. HeapInv'
    <3>1. \A v \in Pages : pte'[v] # None => v * PageUnits < heap_next
      BY <1>1, <2>4, <2>5 DEF HeapInv, MapSet
    <3>2. \A v \in DOMAIN mapping' : /\ v \in Pages \cup {LapicPage}
                                     /\ v \in Pages => pte'[v] = None /\ v * PageUnits < heap_next
      <4>1. ASSUME NEW v \in DOMAIN mapping'
            PROVE  v \in DOMAIN mapping /\ v # NextPage
        BY <2>1
      <4>2. \A v \in DOMAIN mapping : /\ v \in Pages \cup {LapicPage}
                                      /\ v \in Pages => pte[v] = None /\ v * PageUnits < heap_next
        BY <1>1, Zenon DEF HeapInv, MapSet
      <4> QED
        BY <2>4, <4>1, <4>2, Zenon
    <3>3. (bpc' = "map" => DOMAIN mapping' # {}) /\ (bpc' \notin {"map", "panic"} => DOMAIN mapping' = {})
      BY <2>2
    <3> QED
      BY <1>1, <1>2, <2>4, <3>1, <3>2, <3>3 DEF HeapInv, MapSet
  <2>7. /\ DOMAIN tlb' = CPUs /\ \A c \in CPUs : DOMAIN tlb'[c] = Pages
    BY <1>5, <2>3
  <2>8. \A c \in APs : tlb'[c] = tlb[c]
    BY <1>5, <2>3
  <2>9. \A c \in CPUs : \A v \in Pages : tlb'[c][v] \in {tlb[c][v], None, pte'[v]}
    BY <1>5, <2>3
  <2>10. \A v \in Pages : pte'[v] = pte[v] \/ pte[v] = None
    BY <2>4, <2>5
  <2> QED
    BY <1>2, <1>3, <2>6, <2>7, <2>8, <2>9, <2>10, BspFrame, Zenon
<1> QED
  BY <1>6, <1>7

\* One page of the loop.  With one CPU the others are off and have no
\* translations; with more, the page's are shot down next.
LEMMA FreePageInv ==
  ASSUME IndInv, FreePage
  PROVE  IndInv'
<1> DEFINE h == Min(todo)
<1>1. BootInv /\ HeapInv /\ ShootInv /\ TlbInv
  BY DEF IndInv
<1>2. 0 \in CPUs /\ 0 \notin APs /\ APs \subseteq CPUs /\ APs = CPUs \ {0} /\ machine.cpus \in Nat \ {0}
  BY <1>1, CpuFacts DEF APs
<1>3. /\ UNCHANGED <<machine, total_cpus, smp, woken, apc, irr, shoot_ack, heap_next, objs, mapping, held>>
      /\ bpc = "free"
  BY DEF FreePage, boot, shoot
<1>4. CPUs' = CPUs /\ APs' = APs
  BY <1>3 DEF CPUs, APs
<1>5. \/ UNCHANGED <<pte, tlb>>
      \/ /\ pte' = [pte EXCEPT ![h] = None]
         /\ tlb' = [tlb EXCEPT ![0] = [tlb[0] EXCEPT ![h] = None]]
         /\ (total_cpus > 1 => bpc' = "post" /\ todo' = todo)
  BY DEF FreePage
<1>6. \/ bpc' = "post" /\ todo' = todo /\ total_cpus > 1
      \/ bpc' = "free"
  BY <1>3 DEF FreePage
<1>7. BootInv'
  <2>1. smp = "none" => \A c \in APs : \A v \in Pages : tlb'[c][v] = None
    <3>1. \A c \in APs : tlb'[c] = tlb[c]
      BY <1>1, <1>2, <1>5 DEF TlbInv
    <3> QED
      BY <1>1, <3>1 DEF BootInv
  <2>2. smp \notin {"starting", "waiting"}
    BY <1>1, <1>3 DEF BootInv
  <2> QED
    BY <1>1, <1>2, <1>3, <1>4, <2>1, <2>2 DEF BootInv
<1>8. HeapInv'
  <2>1. DOMAIN pte' = DOMAIN pte /\ \A v \in Pages : pte'[v] # None => pte[v] # None
    BY <1>1, <1>5 DEF HeapInv, MapSet
  <2>2. bpc' \notin {"map", "panic"}
    BY <1>6
  <2> QED
    BY <1>1, <1>3, <2>1, <2>2 DEF HeapInv, MapSet
<1>9. ShootInv'
  <2>1. bpc' \in ShootPCs => smp = "up"
    BY <1>1, <1>6 DEF BootInv, ShootPCs
  <2>2. irr = {} /\ \A c \in APs : apc[c] # "isr"
    BY <1>1, <1>3 DEF ShootInv
  <2>3. bpc' \in {"post", "free"}
    BY <1>6
  <2>4. irr' \subseteq APs' /\ shoot_ack' \in Nat
    BY <1>1, <1>3, <1>4 DEF ShootInv
  <2> QED
    BY <1>3, <1>4, <2>1, <2>2, <2>3, <2>4 DEF ShootInv
<1>10. DOMAIN tlb' = CPUs /\ \A c \in CPUs : DOMAIN tlb'[c] = Pages
  BY <1>1, <1>2, <1>5 DEF TlbInv
<1>11. \A v \in Pages : Clean(0, v)'
  <2>1. \A v \in Pages : tlb[0][v] \in {None, pte[v]}
    BY <1>1 DEF TlbInv, Clean
  <2>2. DOMAIN pte = Pages \cup {LapicPage} /\ DOMAIN tlb = CPUs /\ DOMAIN tlb[0] = Pages
    BY <1>1, <1>2 DEF HeapInv, MapSet, TlbInv
  <2>3. \A v \in Pages : tlb'[0][v] \in {None, pte'[v]}
    <3>1. CASE UNCHANGED <<pte, tlb>>
      BY <2>1, <3>1
    <3>2. CASE /\ pte' = [pte EXCEPT ![h] = None]
               /\ tlb' = [tlb EXCEPT ![0] = [tlb[0] EXCEPT ![h] = None]]
      <4>1. tlb'[0] = [tlb[0] EXCEPT ![h] = None]
        BY <1>2, <2>2, <3>2
      <4> QED
        BY <2>1, <2>2, <3>2, <4>1
    <3> QED
      BY <1>5, <3>1, <3>2
  <2> QED
    BY <2>3 DEF Clean
<1>12. ASSUME NEW c \in CPUs, NEW v \in Pages
       PROVE  Clean(c, v)' \/ (bpc' \in ShootPCs /\ v = Min(todo)')
  <2>1. tlb[c][v] \in {None, pte[v]}
    BY <1>1, <1>3 DEF TlbInv, Clean, ShootPCs
  <2>2. CASE c = 0
    BY <1>11, <2>2
  <2>3. CASE UNCHANGED <<pte, tlb>>
    BY <2>1, <2>3 DEF Clean
  <2>4. CASE /\ c \in APs
             /\ pte' = [pte EXCEPT ![h] = None]
             /\ tlb' = [tlb EXCEPT ![0] = [tlb[0] EXCEPT ![h] = None]]
             /\ (total_cpus > 1 => bpc' = "post" /\ todo' = todo)
    <3>1. tlb'[c] = tlb[c]
      BY <1>1, <1>2, <2>4 DEF TlbInv
    <3>2. CASE v # h
      <4>1. pte'[v] = pte[v]
        BY <1>1, <2>4, <3>2 DEF HeapInv, MapSet
      <4> QED
        BY <2>1, <3>1, <4>1 DEF Clean
    <3>3. CASE v = h /\ total_cpus > 1
      BY <2>4, <3>3 DEF ShootPCs
    <3>4. CASE ~(total_cpus > 1)
      <4>1. smp = "none"
        <5>1. smp # "up"
          BY <1>1, <1>2, <3>4 DEF BootInv
        <5> QED
          BY <1>1, <1>3, <5>1 DEF BootInv
      <4>2. tlb[c][v] = None
        BY <1>1, <2>4, <4>1 DEF BootInv
      <4> QED
        BY <3>1, <4>2 DEF Clean
    <3> QED
      BY <3>2, <3>3, <3>4
  <2> QED
    BY <1>2, <1>5, <2>2, <2>3, <2>4
<1>13. TlbInv'
  BY <1>4, <1>10, <1>11, <1>12 DEF TlbInv
<1> QED
  BY <1>7, <1>8, <1>9, <1>13 DEF IndInv


\* The shootdown: the address, the counter, the IPI.
LEMMA PostInv ==
  ASSUME IndInv, PostAddr \/ ResetAck \/ SendIpi
  PROVE  IndInv'
<1>1. BootInv /\ HeapInv /\ ShootInv /\ TlbInv
  BY DEF IndInv
<1>2. /\ UNCHANGED <<machine, total_cpus, smp, woken, apc, tlb, pte, heap_next, objs, mapping, held, todo>>
      /\ bpc \in ShootPCs \ {"spin"} /\ bpc' \in ShootPCs
  BY DEF PostAddr, ResetAck, SendIpi, boot, space, frames, ShootPCs
<1>3. CPUs' = CPUs /\ APs' = APs
  BY <1>2 DEF CPUs, APs
<1>4. smp = "up" /\ irr = {} /\ \A c \in APs : apc[c] # "isr"
  BY <1>1, <1>2 DEF ShootInv
<1>5. BootInv'
  BY <1>1, <1>2, <1>3, <1>4 DEF BootInv
<1>6. HeapInv'
  BY <1>1, <1>2 DEF HeapInv, MapSet, ShootPCs
<1>7. TlbInv'
  <2>1. \A c, v : Clean(c, v)' <=> Clean(c, v)
    BY <1>2 DEF Clean
  <2> QED
    BY <1>1, <1>2, <1>3, <2>1 DEF TlbInv
<1>8. /\ irr' \subseteq APs /\ shoot_ack' \in Nat
      /\ bpc' # "spin" => irr' = {}
      /\ bpc' \in {"reset", "send", "spin"} => shoot_addr' = Min(todo)
      /\ bpc' \in {"send", "spin"} => shoot_ack' = 0
  BY <1>1, <1>4 DEF PostAddr, ResetAck, SendIpi, ShootInv, shoot
<1>9. Cardinality(Done)' \in Nat
  <2>1. Done' \in SUBSET APs
    BY <1>3 DEF Done
  <2> QED
    BY <1>1, <2>1, DoneFinite
<1>10. ShootInv'
  BY <1>2, <1>3, <1>4, <1>8, <1>9 DEF ShootInv
<1> QED
  BY <1>5, <1>6, <1>7, <1>10 DEF IndInv

\* The wait ends only when every other CPU is done: as many have acknowledged
\* as there are.
LEMMA SpinInv ==
  ASSUME IndInv, SpinDone
  PROVE  IndInv'
<1>1. BootInv /\ HeapInv /\ ShootInv /\ TlbInv
  BY DEF IndInv
<1>2. /\ UNCHANGED <<machine, total_cpus, smp, woken, apc, irr, shoot_ack, tlb, pte, heap_next,
                     objs, mapping, held>>
      /\ bpc = "spin" /\ bpc' = "free" /\ shoot_ack >= total_cpus - 1
  BY DEF SpinDone, boot, space, frames
<1>3. CPUs' = CPUs /\ APs' = APs
  BY <1>2 DEF CPUs, APs
<1>4. smp = "up" /\ total_cpus = machine.cpus /\ machine.cpus \in Nat \ {0}
  BY <1>1, <1>2, CpuFacts DEF ShootInv, ShootPCs, BootInv
<1>5. Done = APs
  <2>1. Done \in SUBSET APs
    BY DEF Done
  <2>2. /\ Cardinality(Done) \in Nat /\ Cardinality(Done) <= machine.cpus - 1
        /\ (Cardinality(Done) = machine.cpus - 1 => Done = APs)
    BY <1>1, <2>1, DoneFinite
  <2>3. shoot_ack \in Nat /\ shoot_ack <= Cardinality(Done)
    BY <1>1, <1>2 DEF ShootInv
  <2> QED
    BY <1>2, <1>4, <2>2, <2>3
<1>6. \A c \in APs : c \notin irr /\ apc[c] # "isr" /\ (Min(todo) \in Pages => Clean(c, Min(todo)))
  BY <1>5 DEF Done
<1>7. BootInv'
  BY <1>1, <1>2, <1>3, <1>4 DEF BootInv
<1>8. HeapInv'
  BY <1>1, <1>2 DEF HeapInv, MapSet
<1>9. ShootInv'
  <2>1. irr = {} /\ shoot_ack \in Nat
    BY <1>1, <1>6 DEF ShootInv
  <2> QED
    BY <1>2, <1>3, <1>6, <2>1 DEF ShootInv, ShootPCs
<1>10. TlbInv'
  <2>1. \A c, v : Clean(c, v)' <=> Clean(c, v)
    BY <1>2 DEF Clean
  <2>2. ASSUME NEW c \in CPUs, NEW v \in Pages PROVE Clean(c, v)
    <3>1. c = 0 \/ c \in APs
      BY DEF APs
    <3> QED
      BY <1>1, <1>6, <3>1 DEF TlbInv
  <2> QED
    BY <1>1, <1>2, <1>3, <2>1, <2>2 DEF TlbInv
<1> QED
  BY <1>7, <1>8, <1>9, <1>10 DEF IndInv

\* Bring-up: the BSP makes no call, so no shootdown is under way.
LEMMA SmpInv ==
  ASSUME IndInv, StartSmp \/ WakeAp \/ WaitEnds
  PROVE  IndInv'
<1>1. BootInv /\ HeapInv /\ ShootInv /\ TlbInv
  BY DEF IndInv
<1>2. /\ UNCHANGED <<machine, irr, shoot_ack, tlb, pte, heap_next, objs, mapping, held, bpc, todo>>
      /\ bpc = "idle"
  BY <1>1 DEF StartSmp, WakeAp, WaitEnds, shoot, space, frames, Calling, BootInv
<1>3. CPUs' = CPUs /\ APs' = APs
  BY <1>2 DEF CPUs, APs
<1>4. /\ woken' \in Nat
      /\ \/ apc' = apc
         \/ apc' = [apc EXCEPT ![woken + 1] = "woken"]
  BY <1>1 DEF StartSmp, WakeAp, WaitEnds, BootInv
<1>5. DOMAIN apc' = CPUs /\ apc'[0] = "bsp" /\ \A c \in CPUs : apc'[c] # "isr" \/ apc'[c] = apc[c]
  <2>1. woken + 1 # 0 /\ 0 \in CPUs
    BY <1>1, CpuFacts DEF BootInv
  <2> QED
    BY <1>1, <1>4, <2>1 DEF BootInv
<1>6. /\ smp' \in {"starting", "waiting", "up"} /\ machine.cpus > 1
      /\ total_cpus' = (IF smp' = "up" THEN machine.cpus ELSE 1)
  BY <1>1 DEF StartSmp, WakeAp, WaitEnds, SetCpuCount, BootInv
<1>7. BootInv'
  <2>1. smp' \in {"none", "starting", "waiting", "up"} /\ smp' # "none"
    BY <1>6
  <2> QED
    BY <1>1, <1>2, <1>3, <1>4, <1>5, <1>6, <2>1 DEF BootInv
<1>8. HeapInv'
  BY <1>1, <1>2 DEF HeapInv, MapSet
<1>9. ShootInv'
  <2>1. irr = {} /\ \A c \in APs : apc[c] # "isr"
    BY <1>1, <1>2 DEF ShootInv
  <2>2. \A c \in APs : apc'[c] # "isr"
    BY <1>5, <2>1 DEF APs
  <2>3. irr' \subseteq APs' /\ shoot_ack' \in Nat
    BY <1>1, <1>2, <1>3 DEF ShootInv
  <2> QED
    BY <1>2, <1>3, <2>1, <2>2, <2>3 DEF ShootInv, ShootPCs
<1>10. TlbInv'
  <2>1. \A c, v : Clean(c, v)' <=> Clean(c, v)
    BY <1>2 DEF Clean
  <2> QED
    BY <1>1, <1>2, <1>3, <2>1 DEF TlbInv
<1> QED
  BY <1>7, <1>8, <1>9, <1>10 DEF IndInv


-----------------------------------------------------------------------------
(* The other CPUs *)

\* A step of another CPU: what it leaves alone, and what is then left to show.
LEMMA ApFrame ==
  ASSUME IndInv, NEW c \in APs, NEW from \in {"woken", "entry", "busy", "parked", "isr"},
         apc[c] = from,
         UNCHANGED <<machine, total_cpus, smp, woken, pte, heap_next, objs, mapping, held, bpc, todo,
                     shoot_addr>>,
         DOMAIN apc' = CPUs, \A d \in CPUs : d # c => apc'[d] = apc[d],
         DOMAIN tlb' = CPUs, \A d \in CPUs : DOMAIN tlb'[d] = Pages,
         \A d \in CPUs : d # c => tlb'[d] = tlb[d],
         \A v \in Pages : tlb'[c][v] \in {tlb[c][v], None, pte[v]}
  PROVE  /\ BootInv' /\ HeapInv' /\ TlbInv' /\ CPUs' = CPUs /\ APs' = APs
         /\ \A d \in CPUs, v \in Pages : Clean(d, v) => Clean(d, v)'
<1>1. BootInv /\ HeapInv /\ ShootInv /\ TlbInv
  BY DEF IndInv
<1>2. 0 \in CPUs /\ 0 \notin APs /\ c # 0 /\ c \in CPUs
  BY <1>1, CpuFacts
<1>3. CPUs' = CPUs /\ APs' = APs
  BY DEF CPUs, APs
<1>4. BootInv'
  <2>1. smp # "none"
    BY <1>1 DEF BootInv
  <2> QED
    BY <1>1, <1>2, <1>3, <2>1 DEF BootInv
<1>5. HeapInv'
  BY <1>1 DEF HeapInv, MapSet
<1>6. ASSUME NEW d \in CPUs, NEW v \in Pages, Clean(d, v) PROVE Clean(d, v)'
  <2>1. tlb'[d][v] \in {tlb[d][v], None, pte[v]}
    BY <1>6
  <2> QED
    BY <1>6, <2>1 DEF Clean
<1>7. TlbInv'
  BY <1>1, <1>2, <1>3, <1>6 DEF TlbInv
<1> QED
  BY <1>3, <1>4, <1>5, <1>6, <1>7

\* More CPUs are done, and no more acknowledgements counted than they.
LEMMA MoreDone ==
  ASSUME BootInv, APs' = APs, Done \subseteq Done',
         NEW n \in Nat, n <= Cardinality(Done)
  PROVE  n <= Cardinality(Done)'
<1>1. Done' \in SUBSET APs /\ Done \in SUBSET Done' /\ Done \in SUBSET APs
  BY DEF Done
<1>2. Cardinality(Done) \in Nat /\ Cardinality(Done') \in Nat /\ Cardinality(Done) <= Cardinality(Done')
  BY <1>1, DoneFinite
<1> QED
  BY <1>2

LEMMA ApInv ==
  ASSUME IndInv, NEW c \in CPUs, LapicInit(c) \/ EnterWorker(c) \/ Park(c) \/ Unpark(c)
  PROVE  IndInv'
<1>1. BootInv /\ HeapInv /\ ShootInv /\ TlbInv
  BY DEF IndInv
<1>2. PICK from \in {"woken", "entry", "busy", "parked"}, to \in {"entry", "busy", "halted", "parked"} :
        apc[c] = from /\ apc' = [apc EXCEPT ![c] = to]
  BY DEF LapicInit, EnterWorker, Park, Unpark, ApStep
<1>3. UNCHANGED <<machine, total_cpus, smp, woken, pte, heap_next, objs, mapping, held, bpc, todo, shoot_addr,
                  shoot_ack, irr, tlb>>
  BY DEF LapicInit, EnterWorker, Park, Unpark, boot, space, frames, shoot
<1>4. c \in APs
  BY <1>1, <1>2 DEF BootInv, APs
<1>5. DOMAIN apc' = CPUs /\ (\A d \in CPUs : d # c => apc'[d] = apc[d]) /\ apc'[c] = to
  BY <1>1, <1>2 DEF BootInv
<1>6. DOMAIN tlb' = CPUs /\ (\A d \in CPUs : DOMAIN tlb'[d] = Pages)
  BY <1>1, <1>3 DEF TlbInv
<1>7. /\ BootInv' /\ HeapInv' /\ TlbInv' /\ CPUs' = CPUs /\ APs' = APs
  BY <1>2, <1>3, <1>4, <1>5, <1>6, ApFrame
<1>8. \A d \in APs : (apc'[d] = "isr" <=> apc[d] = "isr")
  BY <1>2, <1>5 DEF APs
<1>9. \A d, v : Clean(d, v)' <=> Clean(d, v)
  BY <1>3 DEF Clean
<1>10. Done' = Done
  BY <1>3, <1>7, <1>8, <1>9 DEF Done
<1>11. ShootInv'
  BY <1>1, <1>3, <1>7, <1>8, <1>9, <1>10 DEF ShootInv
<1> QED
  BY <1>7, <1>11 DEF IndInv

\* The handler invalidates the page being shot down.
LEMMA TakeIpiInv ==
  ASSUME IndInv, NEW c \in CPUs, TakeIpi(c)
  PROVE  IndInv'
<1> DEFINE h == Min(todo)
<1>1. BootInv /\ HeapInv /\ ShootInv /\ TlbInv
  BY DEF IndInv
<1>2. /\ apc[c] = "parked" /\ apc' = [apc EXCEPT ![c] = "isr"] /\ c \in irr /\ irr' = irr \ {c}
      /\ UNCHANGED <<machine, total_cpus, smp, woken, pte, heap_next, objs, mapping, held, bpc, todo,
                     shoot_addr, shoot_ack>>
  BY DEF TakeIpi, ApStep, boot, space, frames
<1>3. bpc = "spin" /\ shoot_addr = h
  BY <1>1, <1>2 DEF ShootInv
<1>4. c \in APs /\ c \in CPUs /\ DOMAIN tlb = CPUs /\ (\A d \in CPUs : DOMAIN tlb[d] = Pages)
  BY <1>1, <1>2 DEF ShootInv, TlbInv
<1>5. \/ h = None /\ tlb' = tlb
      \/ tlb' = [tlb EXCEPT ![c] = [tlb[c] EXCEPT ![h] = None]]
  BY <1>3 DEF TakeIpi
<1>6. /\ DOMAIN tlb' = CPUs /\ (\A d \in CPUs : DOMAIN tlb'[d] = Pages)
      /\ (\A d \in CPUs : d # c => tlb'[d] = tlb[d])
  BY <1>4, <1>5
<1>7. \A v \in Pages : tlb'[c][v] \in {tlb[c][v], None, pte[v]}
  BY <1>4, <1>5
<1>8. h \in Pages => tlb'[c][h] = None
  <2>1. None \notin Pages
    BY VmmAssumption DEF None, Pages
  <2> QED
    BY <1>4, <1>5, <2>1
<1>9. DOMAIN apc' = CPUs /\ (\A d \in CPUs : d # c => apc'[d] = apc[d]) /\ apc'[c] = "isr"
  BY <1>1, <1>2 DEF BootInv
<1>10. /\ BootInv' /\ HeapInv' /\ TlbInv' /\ CPUs' = CPUs /\ APs' = APs
       /\ \A d \in CPUs, v \in Pages : Clean(d, v) => Clean(d, v)'
  BY <1>2, <1>4, <1>6, <1>7, <1>9, ApFrame
<1>11. APs \subseteq CPUs
  BY DEF APs
<1>12. Done \subseteq Done'
  BY <1>2, <1>9, <1>10, <1>11 DEF Done
<1>13. \A d \in APs : apc'[d] = "isr" => d \notin irr' /\ (h \in Pages => Clean(d, h)')
  <2>1. h \in Pages => Clean(c, h)'
    BY <1>2, <1>8 DEF Clean
  <2> QED
    BY <1>1, <1>2, <1>9, <1>10, <1>11, <2>1 DEF ShootInv
<1>14. shoot_ack' \in Nat /\ shoot_ack' <= Cardinality(Done)'
  BY <1>1, <1>2, <1>3, <1>10, <1>12, MoreDone DEF ShootInv
<1>15. ShootInv'
  BY <1>1, <1>2, <1>3, <1>10, <1>13, <1>14 DEF ShootInv, ShootPCs
<1> QED
  BY <1>10, <1>15 DEF IndInv

\* The acknowledgement: one more is counted, and one more CPU is done.
LEMMA AckInv ==
  ASSUME IndInv, NEW c \in CPUs, Ack(c)
  PROVE  IndInv'
<1>1. BootInv /\ HeapInv /\ ShootInv /\ TlbInv
  BY DEF IndInv
<1>2. /\ apc[c] = "isr" /\ apc' = [apc EXCEPT ![c] = "parked"] /\ shoot_ack' = shoot_ack + 1
      /\ UNCHANGED <<machine, total_cpus, smp, woken, pte, heap_next, objs, mapping, held, bpc, todo,
                     shoot_addr, irr, tlb>>
  BY DEF Ack, ApStep, boot, space, frames
<1>3. c \in APs
  BY <1>1, <1>2 DEF BootInv, APs
<1>4. /\ bpc = "spin" /\ c \notin irr
      /\ (Min(todo) \in Pages => Clean(c, Min(todo)))
  BY <1>1, <1>2, <1>3 DEF ShootInv
<1>5. DOMAIN apc' = CPUs /\ (\A d \in CPUs : d # c => apc'[d] = apc[d]) /\ apc'[c] = "parked"
  BY <1>1, <1>2 DEF BootInv
<1>6. DOMAIN tlb' = CPUs /\ (\A d \in CPUs : DOMAIN tlb'[d] = Pages)
  BY <1>1, <1>2 DEF TlbInv
<1>7. /\ BootInv' /\ HeapInv' /\ TlbInv' /\ CPUs' = CPUs /\ APs' = APs
  BY <1>2, <1>3, <1>5, <1>6, ApFrame
<1>8. \A d, v : Clean(d, v)' <=> Clean(d, v)
  BY <1>2 DEF Clean
<1>9. Done' = Done \cup {c} /\ c \notin Done
  <2>1. APs \subseteq CPUs
    BY DEF APs
  <2> QED
    BY <1>2, <1>3, <1>4, <1>5, <1>7, <1>8, <2>1 DEF Done
<1>10. Cardinality(Done)' = Cardinality(Done) + 1 /\ Cardinality(Done) \in Nat
  <2>1. Done \in SUBSET APs
    BY DEF Done
  <2>2. IsFiniteSet(Done) /\ Cardinality(Done) \in Nat
    BY <1>1, <2>1, DoneFinite
  <2>3. Cardinality(Done \cup {c}) = Cardinality(Done) + 1
    BY <1>9, <2>2, FS_AddElement
  <2> QED
    BY <1>9, <2>2, <2>3
<1>11. shoot_ack' \in Nat /\ shoot_ack' <= Cardinality(Done)'
  BY <1>1, <1>2, <1>4, <1>10 DEF ShootInv
<1>12. \A d \in APs : apc'[d] = "isr" => apc[d] = "isr"
  BY <1>5 DEF APs
<1>13. ShootInv'
  BY <1>1, <1>2, <1>4, <1>7, <1>8, <1>11, <1>12 DEF ShootInv, ShootPCs
<1> QED
  BY <1>7, <1>13 DEF IndInv

\* A translation that a CPU caches is the page tables'.
LEMMA TranslateInv ==
  ASSUME IndInv, NEW c \in CPUs, NEW v \in Pages, Translate(c, v)
  PROVE  IndInv'
<1>1. BootInv /\ HeapInv /\ ShootInv /\ TlbInv
  BY DEF IndInv
<1>2. /\ (apc[c] = "busy" \/ (c = 0 /\ bpc = "idle" /\ smp \notin {"starting", "waiting"}))
      /\ tlb' = [tlb EXCEPT ![c] = [tlb[c] EXCEPT ![v] = pte[v]]]
      /\ UNCHANGED <<machine, total_cpus, smp, woken, pte, heap_next, objs, mapping, held, bpc, todo,
                     shoot_addr, shoot_ack, irr, apc>>
  BY DEF Translate, Calling, boot, space, frames, shoot
<1>0. CASE apc[c] # "busy"
  <2>1. c = 0 /\ bpc \notin ShootPCs /\ bpc' \notin ShootPCs /\ smp \notin {"starting", "waiting"}
    BY <1>0, <1>2 DEF ShootPCs
  <2>2. 0 \notin APs /\ DOMAIN tlb = CPUs /\ (\A d \in CPUs : DOMAIN tlb[d] = Pages)
    BY <1>1, CpuFacts DEF TlbInv
  <2>3. DOMAIN tlb' = CPUs /\ (\A d \in CPUs : DOMAIN tlb'[d] = Pages)
    BY <1>2, <2>2
  <2>4. \A d \in APs : tlb'[d] = tlb[d]
    BY <1>2, <2>1, <2>2 DEF APs
  <2>5. \A d \in CPUs : \A w \in Pages : tlb'[d][w] \in {tlb[d][w], None, pte'[w]}
    BY <1>2, <2>2
  <2>6. HeapInv'
    BY <1>1, <1>2 DEF HeapInv, MapSet
  <2>7. \A w \in Pages : pte'[w] = pte[w] \/ pte[w] = None
    BY <1>2
  <2> QED
    BY <1>2, <2>1, <2>3, <2>4, <2>5, <2>6, <2>7, BspFrame, Zenon
<1> SUFFICES ASSUME apc[c] = "busy" PROVE IndInv'
  BY <1>0
<1>3. c \in APs
  BY <1>1 DEF BootInv, APs
<1>4. /\ DOMAIN tlb' = CPUs /\ (\A d \in CPUs : DOMAIN tlb'[d] = Pages)
      /\ (\A d \in CPUs : d # c => tlb'[d] = tlb[d])
      /\ \A w \in Pages : tlb'[c][w] \in {tlb[c][w], None, pte[w]}
  BY <1>1, <1>2 DEF TlbInv
<1>5. DOMAIN apc' = CPUs /\ \A d \in CPUs : d # c => apc'[d] = apc[d]
  BY <1>1, <1>2 DEF BootInv
<1>6. /\ BootInv' /\ HeapInv' /\ TlbInv' /\ CPUs' = CPUs /\ APs' = APs
      /\ \A d \in CPUs, w \in Pages : Clean(d, w) => Clean(d, w)'
  BY <1>2, <1>3, <1>4, <1>5, ApFrame
<1>7. APs \subseteq CPUs
  BY DEF APs
<1>8. Done \subseteq Done'
  BY <1>2, <1>6, <1>7 DEF Done
<1>9. bpc = "spin" => shoot_ack' <= Cardinality(Done)'
  BY <1>1, <1>2, <1>6, <1>8, MoreDone DEF ShootInv
<1>10. ShootInv'
  BY <1>1, <1>2, <1>6, <1>7, <1>9 DEF ShootInv
<1> QED
  BY <1>6, <1>10 DEF IndInv

-----------------------------------------------------------------------------
(* Theorems about the shootdown *)

LEMMA NextInv ==
  ASSUME IndInv, [Next]_vars
  PROVE  IndInv'
<1>1. CASE UNCHANGED vars
  <2>1. UNCHANGED <<machine, total_cpus, smp, woken, pte, heap_next, objs, mapping, held, bpc, todo,
                    shoot_addr, shoot_ack, irr, apc, tlb>>
    BY <1>1 DEF vars, boot, space, frames, shoot
  <2>2. CPUs' = CPUs /\ APs' = APs /\ \A d, v : Clean(d, v)' <=> Clean(d, v)
    BY <2>1 DEF CPUs, APs, Clean
  <2>3. Done' = Done
    BY <2>1, <2>2 DEF Done
  <2>4. BootInv' /\ HeapInv'
    BY <2>1, <2>2 DEF IndInv, BootInv, HeapInv, MapSet
  <2>5. ShootInv' /\ TlbInv'
    BY <2>1, <2>2, <2>3 DEF IndInv, ShootInv, TlbInv
  <2> QED
    BY <2>4, <2>5 DEF IndInv
<1>2. CASE Bsp \/ Call
  <2>1. CASE Bsp
    BY <2>1, BlockInv, FaultInv, MapInv, FreePageInv, PostInv, SpinInv, SmpInv DEF Bsp
  <2>2. CASE Call
    BY <2>2, BlockInv, KmallocInv, VmmMapInv, FaultInv DEF Call
  <2> QED
    BY <1>2, <2>1, <2>2
<1>3. CASE \E c \in CPUs : Ap(c) \/ \E v \in Pages : Translate(c, v)
  BY <1>3, ApInv, TakeIpiInv, AckInv, TranslateInv DEF Ap
<1> QED
  BY <1>1, <1>2, <1>3 DEF Next

\* Every reachable state of vmm.c and smp.c satisfies the inductive invariant:
\* in particular an IPI or its handler outlives no shootdown, and the BSP never
\* counts an acknowledgement of a CPU that still has the old translation.
THEOREM Invariance == Spec => []IndInv
<1>1. Init => IndInv
  BY InitInv
<1>2. IndInv /\ [Next]_vars => IndInv'
  BY NextInv
<1> QED
  BY <1>1, <1>2, PTL DEF Spec

\* vmm_tlb_shootdown: no CPU keeps a translation that the page tables do not
\* have, but for the page being shot down, for any number of CPUs.
THEOREM NoStale == Spec => []NoStaleTranslation
<1>1. IndInv => NoStaleTranslation
  BY DEF IndInv, TlbInv, Clean, ShootPCs, NoStaleTranslation
<1> QED
  BY <1>1, Invariance, PTL

-----------------------------------------------------------------------------
(* The memory map and the bitmap (pmm.c) *)

\* The largest of a bounded set of numbers is one of them.
LEMMA Greatest ==
  ASSUME NEW S, S \subseteq Nat, S # {}, NEW B \in Nat, \A x \in S : x <= B
  PROVE  Max(S) \in S
<1>1. PICK T : T = {B - x : x \in S}
  OBVIOUS
<1>2. T \subseteq Nat /\ T # {}
  <2>1. \A x \in S : B - x \in Nat
    OBVIOUS
  <2> QED
    BY <1>1, <2>1
<1>3. PICK d \in T : \A y \in T : d <= y
  BY <1>2, Least
<1>4. PICK x \in S : d = B - x
  BY <1>1, <1>3
<1>5. \A y \in S : x >= y
  <2>1. ASSUME NEW y \in S PROVE x >= y
    <3>1. B - y \in T
      BY <1>1
    <3>2. B - x <= B - y
      BY <1>3, <1>4, <3>1
    <3> QED
      BY <3>2
  <2> QED
    BY <2>1
<1> QED
  BY <1>5 DEF Max

\* Rounding down to whole pages.
LEMMA FloorBelow ==
  ASSUME NEW a \in Nat
  PROVE  a \div PageUnits \in Nat /\ (a \div PageUnits) * PageUnits <= a
<1>1. PageUnits \in Nat \ {0}
  BY VmmAssumption
<1>2. PICK q \in Nat : q = a \div PageUnits
  BY <1>1
<1>3. a = PageUnits * (a \div PageUnits) + (a % PageUnits) /\ a % PageUnits >= 0 /\ a % PageUnits \in Int
  BY <1>1
<1>4. q * PageUnits = PageUnits * q /\ PageUnits * q \in Int
  BY <1>1
<1> QED
  BY <1>2, <1>3, <1>4

\* The bitmap has a bit for no page of the device.
LEMMA TotalFacts ==
  ASSUME machine \in Machines
  PROVE  TotalPages \in Nat /\ TotalPages <= Device.start
<1> DEFINE S == {e.base + e.len : e \in machine.memmap}
<1>1. /\ MaxPages \in Nat /\ PageUnits \in Nat \ {0} /\ Device.start \in Nat
  BY VmmAssumption
<1>2. /\ machine.memmap # {}
      /\ \A e \in machine.memmap : /\ e.base \in Nat /\ e.len \in Nat
                                   /\ e.base + e.len <= Device.start * PageUnits
  BY MachineAssumption
<1>3. Device.start * PageUnits \in Nat
  BY <1>1
<1>4. S \subseteq Nat /\ S # {} /\ \A x \in S : x <= Device.start * PageUnits
  BY <1>2
<1>5. Max(S) \in S
  BY <1>3, <1>4, Greatest
<1>6. PICK m \in Nat : m = Max(S) /\ m <= Device.start * PageUnits
  BY <1>4, <1>5
<1>7. PICK q \in Nat : q = m \div PageUnits /\ q * PageUnits <= m
  BY <1>6, FloorBelow
<1>8. q <= Device.start
  <2>1. q * PageUnits <= Device.start * PageUnits
    BY <1>1, <1>3, <1>6, <1>7, SMTT(60)
  <2> QED
    BY <1>1, <1>7, <2>1, PageBelow
<1>9. TotalPages = IF q > MaxPages THEN MaxPages ELSE q
  BY <1>6, <1>7 DEF TotalPages
<1> QED
  BY <1>1, <1>7, <1>8, <1>9

\* A whole page of an entry lies inside it.
LEMMA WholePageIn ==
  ASSUME NEW e, e.base \in Nat, e.len \in Nat, NEW p \in WholePages(e)
  PROVE  p \in Nat /\ e.base <= p * PageUnits /\ (p + 1) * PageUnits <= e.base + e.len
<1>1. PageUnits \in Nat \ {0}
  BY VmmAssumption
<1>2. PICK c \in Nat : c = CeilDiv(e.base) /\ e.base <= c * PageUnits
  BY CeilAbove
<1>3. e.base + e.len \in Nat
  OBVIOUS
<1>4. PICK q \in Nat : q = (e.base + e.len) \div PageUnits /\ q * PageUnits <= e.base + e.len
  BY <1>3, FloorBelow
<1>5. p \in Nat /\ c <= p /\ p + 1 <= q
  BY <1>2, <1>4 DEF WholePages
<1>6. c * PageUnits <= p * PageUnits /\ (p + 1) * PageUnits <= q * PageUnits
  BY <1>5, <1>2, <1>4, PageBelow
<1>7. {c * PageUnits, p * PageUnits, q * PageUnits, (p + 1) * PageUnits} \subseteq Int
  BY <1>1, <1>2, <1>4, <1>5
<1> QED
  BY <1>2, <1>3, <1>4, <1>5, <1>6, <1>7

\* A page belongs to one usable entry, so that the entries' pages together are
\* as many as pmm_init counts.
LEMMA CountedExact ==
  ASSUME machine \in Machines
  PROVE  Counted = Cardinality(Usable) /\ Usable \subseteq Tracked /\ IsFiniteSet(Tracked)
         /\ Cardinality(Tracked) = TotalPages
<1> DEFINE E == {e \in machine.memmap : e.usable}
           In == {x \in machine.memmap \X Tracked : x[1].usable /\ x[2] \in WholePages(x[1])}
<1>1. \A e \in machine.memmap : e.base \in Nat /\ e.len \in Nat
  BY MachineAssumption
<1>2. ASSUME NEW e \in E, NEW f \in E, NEW p \in WholePages(e), p \in WholePages(f)
      PROVE  e = f
  <2>1. /\ p \in Nat /\ e.base <= p * PageUnits /\ (p + 1) * PageUnits <= e.base + e.len
        /\ f.base <= p * PageUnits /\ (p + 1) * PageUnits <= f.base + f.len
    BY <1>1, <1>2, WholePageIn
  <2>2. /\ p * PageUnits \in Int /\ (p + 1) * PageUnits \in Int
        /\ ~((p + 1) * PageUnits <= p * PageUnits)
    BY <2>1, VmmAssumption, PageBelow
  <2>3. e # f => e.base + e.len <= f.base \/ f.base + f.len <= e.base
    BY MachineAssumption
  <2>4. e.base \in Nat /\ e.len \in Nat /\ f.base \in Nat /\ f.len \in Nat
    BY <1>1
  <2> QED
    BY <2>1, <2>2, <2>3, <2>4
<1>3. Usable \subseteq Tracked /\ \A p : p \in Usable <=> p \in Tracked /\ \E e \in E : p \in WholePages(e)
  BY DEF Usable
<1>4. IsFiniteSet(Tracked) /\ Cardinality(Tracked) = TotalPages
  <2>1. TotalPages \in Nat
    BY TotalFacts
  <2>2. /\ 0 \in Int /\ TotalPages - 1 \in Int
        /\ (IF 0 > TotalPages - 1 THEN 0 ELSE (TotalPages - 1) - 0 + 1) = TotalPages
    BY <2>1
  <2> QED
    BY <2>2, FS_Interval DEF Tracked
<1>5. IsFiniteSet(Usable)
  BY <1>3, <1>4, FS_Subset
<1>6. ExistsBijection(Usable, In)
  <2> DEFINE Of(p) == CHOOSE e \in E : p \in WholePages(e)
             g == [p \in Usable |-> <<Of(p), p>>]
  <2>1. \A p \in Usable : Of(p) \in E /\ p \in WholePages(Of(p))
    BY <1>3
  <2>2. \A p \in Usable : g[p] \in In
    BY <1>3, <2>1
  <2>3. g \in [Usable -> In]
    BY <2>2
  <2>4. \A a, b \in Usable : g[a] = g[b] => a = b
    OBVIOUS
  <2>5. ASSUME NEW x \in In PROVE \E p \in Usable : g[p] = x
    <3>1. x[1] \in E /\ x[2] \in Tracked /\ x[2] \in WholePages(x[1]) /\ x = <<x[1], x[2]>>
      OBVIOUS
    <3>2. x[2] \in Usable
      BY <1>3, <3>1
    <3>3. Of(x[2]) = x[1]
      BY <1>2, <2>1, <3>1, <3>2
    <3> QED
      BY <3>1, <3>2, <3>3
  <2>6. g \in Bijection(Usable, In)
    BY <2>3, <2>4, <2>5 DEF Bijection, Injection, Surjection, IsInjective
  <2> QED
    BY <2>6 DEF ExistsBijection
<1>7. Cardinality(In) = Cardinality(Usable)
  BY <1>5, <1>6, FS_Bijection
<1> QED
  BY <1>3, <1>4, <1>7 DEF Counted

\* pmm_alloc_pages takes a run of frames whose bits are clear, or nothing.
LEMMA AllocEffect ==
  ASSUME machine \in Machines, NEW U, U \subseteq Tracked, NEW n \in Nat \ {0},
         NEW r, r = TotalPages - Cardinality(U),
         NEW a, a = pmm_alloc_pages([used |-> U, free |-> r], n)
  PROVE  \/ a.start = None /\ a.used = U /\ a.free = r
         \/ /\ a.start \in Nat /\ a.start + n <= TotalPages
            /\ (a.start .. a.start + n - 1) \cap U = {}
            /\ a.used = U \cup (a.start .. a.start + n - 1)
            /\ a.free = TotalPages - Cardinality(a.used)
<1> DEFINE fits == {s \in 0 .. TotalPages - n : s .. s + n - 1 \cap U = {}}
<1>1. TotalPages \in Nat /\ IsFiniteSet(Tracked)
  BY TotalFacts, CountedExact
<1>2. CASE r < n \/ fits = {}
  BY <1>2 DEF pmm_alloc_pages
<1>3. CASE ~(r < n \/ fits = {})
  <2>1. /\ a.start = Min(fits) /\ a.free = r - n
        /\ a.used = U \cup (Min(fits) .. Min(fits) + n - 1)
    BY <1>3 DEF pmm_alloc_pages
  <2>2. Min(fits) \in fits
    BY <1>1, <1>3, Least
  <2>3. PICK s \in Nat : s = Min(fits) /\ s + n <= TotalPages /\ (s .. s + n - 1) \cap U = {}
    <3>1. PICK s \in fits : s = Min(fits)
      BY <2>2
    <3>2. s \in Nat /\ s + n <= TotalPages
      BY <1>1, <3>1
    <3>3. (s .. s + n - 1) \cap U = {}
      BY <3>1
    <3> QED
      BY <3>1, <3>2, <3>3
  <2>4. IsFiniteSet(U) /\ Cardinality(U) \in Nat
    BY <1>1, FS_Subset, FS_CardinalityType
  <2>5. IsFiniteSet(s .. s + n - 1) /\ Cardinality(s .. s + n - 1) = n
    <3>1. /\ s \in Int /\ s + n - 1 \in Int
          /\ (IF s > s + n - 1 THEN 0 ELSE (s + n - 1) - s + 1) = n
      BY <2>3
    <3> QED
      BY <3>1, FS_Interval
  <2>6. Cardinality(U \cap (s .. s + n - 1)) = 0
    <3>1. U \cap (s .. s + n - 1) = {}
      BY <2>3
    <3> QED
      BY <3>1, FS_EmptySet
  <2>7. Cardinality(U \cup (s .. s + n - 1)) = Cardinality(U) + n
    <3>1. Cardinality(U \cup (s .. s + n - 1)) =
            Cardinality(U) + Cardinality(s .. s + n - 1) - Cardinality(U \cap (s .. s + n - 1))
      BY <2>4, <2>5, FS_Union
    <3> QED
      BY <2>4, <2>5, <2>6, <3>1
  <2>8. a.start = s /\ a.used = U \cup (s .. s + n - 1)
    BY <2>1, <2>3
  <2>9. a.free = TotalPages - Cardinality(a.used)
    <3>1. PICK c \in Nat : c = Cardinality(U)
      BY <2>4
    <3>2. Cardinality(a.used) = c + n
      BY <2>7, <2>8, <3>1
    <3>3. a.free = (TotalPages - c) - n
      BY <2>1, <3>1
    <3> QED
      BY <1>1, <3>1, <3>2, <3>3
  <2> QED
    BY <2>3, <2>8, <2>9
<1> QED
  BY <1>2, <1>3

\* pmm_free_pages clears the bits of a run, and counts those that were set.
LEMMA FreeEffect ==
  ASSUME machine \in Machines, NEW U, U \subseteq Tracked, NEW start \in Nat, NEW n \in Nat,
         NEW r, r = TotalPages - Cardinality(U),
         NEW a, a = pmm_free_pages([used |-> U, free |-> r], start, n)
  PROVE  /\ a.used = U \ ((start .. start + n - 1) \cap Tracked)
         /\ a.free = TotalPages - Cardinality(a.used)
<1> DEFINE S == (start .. start + n - 1 \cap Tracked) \cap U
<1>1. TotalPages \in Nat /\ IsFiniteSet(Tracked)
  BY TotalFacts, CountedExact
<1>2. a.used = U \ S /\ a.free = r + Cardinality(S)
  BY DEF pmm_free_pages
<1>3. U \ S = U \ ((start .. start + n - 1) \cap Tracked)
  OBVIOUS
<1>4. IsFiniteSet(U) /\ Cardinality(U) \in Nat
  BY <1>1, FS_Subset, FS_CardinalityType
<1>5. Cardinality(U \ S) = Cardinality(U) - Cardinality(U \cap S)
  BY <1>4, FS_Difference
<1>6. U \cap S = S
  OBVIOUS
<1>7. Cardinality(S) \in Nat
  BY <1>4, <1>6, FS_Intersection, FS_CardinalityType
<1>8. PICK k \in Nat : k = Cardinality(S) /\ Cardinality(U \ S) = Cardinality(U) - k
  BY <1>5, <1>6, <1>7
<1>9. a.free = TotalPages - Cardinality(a.used)
  <2>1. PICK c \in Nat : c = Cardinality(U)
    BY <1>4
  <2>2. Cardinality(a.used) = c - k
    BY <1>2, <1>8, <2>1
  <2>3. a.free = (TotalPages - c) + k
    BY <1>2, <1>8, <2>1
  <2> QED
    BY <1>1, <1>8, <2>1, <2>2, <2>3
<1> QED
  BY <1>2, <1>3, <1>9

-----------------------------------------------------------------------------
(* Owners of frames: R has bits, U of it is usable, X is marked used, O own *)

Exact(R, U, X, O) ==
  /\ X = (R \ U) \cup ((UNION {o.set : o \in O}) \cap R)
  /\ \A o \in O : o.set \cap R \subseteq U
  /\ \A o, q \in O : o # q => o.set \cap q.set \cap R = {}

\* A new owner of frames whose bits were clear.
LEMMA AddOwner ==
  ASSUME NEW R, NEW U, NEW X, NEW O, Exact(R, U, X, O), U \subseteq R,
         NEW w, w.set \subseteq R, w.set \cap X = {}
  PROVE  Exact(R, U, X \cup w.set, O \cup {w})
<1>1. X = (R \ U) \cup ((UNION {o.set : o \in O}) \cap R)
  BY DEF Exact
<1>2. w.set \subseteq U /\ \A o \in O : o.set \cap w.set \cap R = {}
  BY <1>1
<1>3. X \cup w.set = (R \ U) \cup ((UNION {o.set : o \in O \cup {w}}) \cap R)
  BY <1>1
<1>4. \A o \in O \cup {w} : o.set \cap R \subseteq U
  BY <1>2 DEF Exact
<1>5. \A o, q \in O \cup {w} : o # q => o.set \cap q.set \cap R = {}
  BY <1>2 DEF Exact
<1> QED
  BY <1>3, <1>4, <1>5 DEF Exact

\* An owner gives its frames back.
LEMMA DropOwner ==
  ASSUME NEW R, NEW U, NEW X, NEW O, Exact(R, U, X, O), NEW w \in O
  PROVE  Exact(R, U, X \ (w.set \cap R), O \ {w})
<1>1. /\ X = (R \ U) \cup ((UNION {o.set : o \in O}) \cap R)
      /\ w.set \cap R \subseteq U
      /\ \A o \in O \ {w} : o.set \cap w.set \cap R = {}
  BY DEF Exact
<1>2. X \ (w.set \cap R) = (R \ U) \cup ((UNION {o.set : o \in O \ {w}}) \cap R)
  BY <1>1
<1> QED
  BY <1>2 DEF Exact

\* The frames of an owner go over to others.
LEMMA SplitOwner ==
  ASSUME NEW R, NEW U, NEW X, NEW O, Exact(R, U, X, O), NEW w \in O,
         NEW N, (UNION {o.set : o \in N}) \cap R = w.set \cap R,
         \A o, q \in N : o # q => o.set \cap q.set \cap R = {}
  PROVE  Exact(R, U, X, (O \ {w}) \cup N)
<1>1. /\ X = (R \ U) \cup ((UNION {o.set : o \in O}) \cap R)
      /\ w.set \cap R \subseteq U
      /\ \A o \in O \ {w} : o.set \cap w.set \cap R = {}
  BY DEF Exact
<1>2. \A o \in N : o.set \cap R \subseteq w.set
  OBVIOUS
<1>3. X = (R \ U) \cup ((UNION {o.set : o \in (O \ {w}) \cup N}) \cap R)
  <2>1. (UNION {o.set : o \in (O \ {w}) \cup N}) \cap R = (UNION {o.set : o \in O}) \cap R
    <3>1. (UNION {o.set : o \in (O \ {w}) \cup N}) =
            (UNION {o.set : o \in O \ {w}}) \cup (UNION {o.set : o \in N})
      OBVIOUS
    <3>2. UNION {o.set : o \in O} = (UNION {o.set : o \in O \ {w}}) \cup w.set
      OBVIOUS
    <3> QED
      BY <3>1, <3>2
  <2> QED
    BY <1>1, <2>1
<1>4. \A o \in (O \ {w}) \cup N : o.set \cap R \subseteq U
  BY <1>1, <1>2 DEF Exact
<1>5. \A o, q \in (O \ {w}) \cup N : o # q => o.set \cap q.set \cap R = {}
  BY <1>1, <1>2 DEF Exact
<1> QED
  BY <1>3, <1>4, <1>5 DEF Exact

\* An owner takes more frames whose bits were clear.
LEMMA GrowOwner ==
  ASSUME NEW R, NEW U, NEW X, NEW O, Exact(R, U, X, O), U \subseteq R,
         NEW w \in O, NEW S, S \subseteq R, S \cap X = {},
         NEW z, z.set = w.set \cup S
  PROVE  Exact(R, U, X \cup S, (O \ {w}) \cup {z})
<1>1. /\ X = (R \ U) \cup ((UNION {o.set : o \in O}) \cap R)
      /\ w.set \cap R \subseteq U
      /\ \A o \in O \ {w} : o.set \cap w.set \cap R = {}
  BY DEF Exact
<1>2. S \subseteq U /\ \A o \in O : o.set \cap S = {}
  BY <1>1
<1>3. X \cup S = (R \ U) \cup ((UNION {o.set : o \in (O \ {w}) \cup {z}}) \cap R)
  <2>1. UNION {o.set : o \in (O \ {w}) \cup {z}} = (UNION {o.set : o \in O}) \cup S
    <3>1. UNION {o.set : o \in (O \ {w}) \cup {z}} = (UNION {o.set : o \in O \ {w}}) \cup z.set
      OBVIOUS
    <3>2. UNION {o.set : o \in O} = (UNION {o.set : o \in O \ {w}}) \cup w.set
      OBVIOUS
    <3> QED
      BY <3>1, <3>2
  <2> QED
    BY <1>1, <2>1
<1>4. \A o \in (O \ {w}) \cup {z} : o.set \cap R \subseteq U
  BY <1>1, <1>2 DEF Exact
<1>5. \A o, q \in (O \ {w}) \cup {z} : o # q => o.set \cap q.set \cap R = {}
  BY <1>1, <1>2 DEF Exact
<1> QED
  BY <1>3, <1>4, <1>5 DEF Exact

\* Frames without a bit have no part in it.
LEMMA AddForeign ==
  ASSUME NEW R, NEW U, NEW X, NEW O, Exact(R, U, X, O),
         NEW N, \A o \in N : o.set \cap R = {}
  PROVE  Exact(R, U, X, O \cup N)
<1>1. X = (R \ U) \cup ((UNION {o.set : o \in O \cup N}) \cap R)
  BY DEF Exact
<1>2. \A o \in O \cup N : o.set \cap R \subseteq U
  BY DEF Exact
<1>3. \A o, q \in O \cup N : o # q => o.set \cap q.set \cap R = {}
  BY DEF Exact
<1> QED
  BY <1>1, <1>2, <1>3 DEF Exact

-----------------------------------------------------------------------------
(* The owners, kind by kind *)

BlockOwners(H) == {Owner("block", b, Run(b)) : b \in H}
TableOwners(T) == {Owner("table", t, {T[t]}) : t \in {x \in Tables : T[x] >= 0}}
PageOwners(Q) == {Owner("page", v, {Q[v]}) : v \in {x \in Pages : Q[x] # None}}
MapOwners(M) == {Owner("mapping", v, {M[v]}) : v \in Pages \cap DOMAIN M}
Lost(L) == Owner("lost", 0, L)

\* The owners that can lose what they have.
Holders == BlockOwners(held) \cup TableOwners(tables) \cup PageOwners(pte) \cup MapOwners(mapping)

LEMMA OwnerFields ==
  ASSUME NEW w, NEW i, NEW S
  PROVE  Owner(w, i, S).what = w /\ Owner(w, i, S).id = i /\ Owner(w, i, S).set = S
BY DEF Owner

LEMMA Kinds ==
  /\ \A H : \A o \in BlockOwners(H) : o.what = "block"
  /\ \A T : \A o \in TableOwners(T) : o.what = "table"
  /\ \A Q : \A o \in PageOwners(Q) : o.what = "page"
  /\ \A M : \A o \in MapOwners(M) : o.what = "mapping"
<1>1. \A H : \A o \in BlockOwners(H) : o.what = "block"
  BY DEF BlockOwners, Owner
<1>2. \A T : \A o \in TableOwners(T) : o.what = "table"
  BY DEF TableOwners, Owner
<1>3. \A Q : \A o \in PageOwners(Q) : o.what = "page"
  BY DEF PageOwners, Owner
<1>4. \A M : \A o \in MapOwners(M) : o.what = "mapping"
  BY DEF MapOwners, Owner
<1> QED
  BY <1>1, <1>2, <1>3, <1>4

LEMMA OwnersAre ==
  /\ Owners = Holders \cup {Lost(lost)} /\ Lost(lost) \notin Holders
  /\ Owners' = Holders' \cup {Lost(lost')}
<1>1. Owners = Holders \cup {Lost(lost)} /\ Owners' = Holders' \cup {Lost(lost')}
  BY DEF Owners, Holders, BlockOwners, TableOwners, PageOwners, MapOwners, Lost
<1>2. Lost(lost).what = "lost"
  BY OwnerFields DEF Lost
<1>3. \A o \in Holders : o.what # "lost"
  BY Kinds DEF Holders
<1> QED
  BY <1>1, <1>2, <1>3

LEMMA BlockAdd ==
  ASSUME NEW H, NEW b
  PROVE  BlockOwners(H \cup {b}) = BlockOwners(H) \cup {Owner("block", b, Run(b))}
BY DEF BlockOwners

LEMMA BlockDrop ==
  ASSUME NEW H, NEW b \in H
  PROVE  /\ BlockOwners(H \ {b}) = BlockOwners(H) \ {Owner("block", b, Run(b))}
         /\ Owner("block", b, Run(b)) \in BlockOwners(H)
<1>1. \A c \in H : Owner("block", c, Run(c)) = Owner("block", b, Run(b)) => c = b
  BY OwnerFields
<1>2. Owner("block", b, Run(b)) \in BlockOwners(H)
  BY DEF BlockOwners
<1>3. BlockOwners(H \ {b}) = BlockOwners(H) \ {Owner("block", b, Run(b))}
  BY <1>1 DEF BlockOwners
<1> QED
  BY <1>2, <1>3

LEMMA TableAdd ==
  ASSUME NEW T, NEW t \in Tables, T[t] = None, NEW f \in Nat,
         NEW T2, T2[t] = f, \A x \in Tables : x # t => T2[x] = T[x]
  PROVE  TableOwners(T2) = TableOwners(T) \cup {Owner("table", t, {f})}
<1>1. T2[t] = f /\ T2[t] >= 0 /\ ~(T[t] >= 0) /\ \A x \in Tables : x # t => T2[x] = T[x]
  BY DEF None
<1>2. PICK A, B : A = {x \in Tables : T[x] >= 0} /\ B = {x \in Tables : T2[x] >= 0}
  OBVIOUS
<1>3. B = A \cup {t} /\ t \notin A
  BY <1>1, <1>2
<1>4. \A x \in A : T2[x] = T[x]
  BY <1>1, <1>2, <1>3
<1>5. {Owner("table", x, {T2[x]}) : x \in A \cup {t}} =
        {Owner("table", x, {T[x]}) : x \in A} \cup {Owner("table", t, {f})}
  BY <1>1, <1>4
<1> QED
  BY <1>2, <1>3, <1>5 DEF TableOwners

LEMMA PageAdd ==
  ASSUME NEW Q, NEW v \in Pages, Q[v] = None, NEW f \in Nat,
         NEW Q2, Q2[v] = f, \A x \in Pages : x # v => Q2[x] = Q[x]
  PROVE  PageOwners(Q2) = PageOwners(Q) \cup {Owner("page", v, {f})}
<1>1. Q2[v] = f /\ Q2[v] # None /\ \A x \in Pages : x # v => Q2[x] = Q[x]
  BY DEF None
<1>2. PICK A, B : A = {x \in Pages : Q[x] # None} /\ B = {x \in Pages : Q2[x] # None}
  OBVIOUS
<1>3. B = A \cup {v} /\ v \notin A
  BY <1>1, <1>2
<1>4. \A x \in A : Q2[x] = Q[x]
  BY <1>1, <1>2, <1>3
<1>5. {Owner("page", x, {Q2[x]}) : x \in A \cup {v}} =
        {Owner("page", x, {Q[x]}) : x \in A} \cup {Owner("page", v, {f})}
  BY <1>1, <1>4
<1> QED
  BY <1>2, <1>3, <1>5 DEF PageOwners

LEMMA PageDrop ==
  ASSUME NEW Q, Pages \subseteq DOMAIN Q, NEW v \in Pages, Q[v] # None,
         NEW Q2, Q2 = [Q EXCEPT ![v] = None]
  PROVE  /\ PageOwners(Q2) = PageOwners(Q) \ {Owner("page", v, {Q[v]})}
         /\ Owner("page", v, {Q[v]}) \in PageOwners(Q)
<1>1. Q2[v] = None /\ \A x \in Pages : x # v => Q2[x] = Q[x]
  OBVIOUS
<1>2. PICK A, B : A = {x \in Pages : Q[x] # None} /\ B = {x \in Pages : Q2[x] # None}
  OBVIOUS
<1>3. B = A \ {v} /\ v \in A
  BY <1>1, <1>2
<1>4. \A x \in B : Q2[x] = Q[x]
  BY <1>1, <1>2, <1>3
<1>5. \A x \in A : Owner("page", x, {Q[x]}) = Owner("page", v, {Q[v]}) => x = v
  BY OwnerFields
<1>6. {Owner("page", x, {Q2[x]}) : x \in B} = {Owner("page", x, {Q[x]}) : x \in B}
  BY <1>4
<1>7. {Owner("page", x, {Q[x]}) : x \in A \ {v}} =
        {Owner("page", x, {Q[x]}) : x \in A} \ {Owner("page", v, {Q[v]})}
  BY <1>5
<1> QED
  BY <1>2, <1>3, <1>6, <1>7 DEF PageOwners

LEMMA MapDrop ==
  ASSUME NEW M, NEW v \in DOMAIN M, v \in Pages
  PROVE  /\ MapOwners(Restrict(M, DOMAIN M \ {v})) = MapOwners(M) \ {Owner("mapping", v, {M[v]})}
         /\ Owner("mapping", v, {M[v]}) \in MapOwners(M)
<1>1. PICK K : K = Restrict(M, DOMAIN M \ {v})
  OBVIOUS
<1>2. DOMAIN K = DOMAIN M \ {v} /\ \A x \in DOMAIN K : K[x] = M[x]
  BY <1>1 DEF Restrict
<1>3. PICK A : A = Pages \cap DOMAIN M
  OBVIOUS
<1>4. Pages \cap DOMAIN K = A \ {v} /\ v \in A
  BY <1>2, <1>3
<1>5. {Owner("mapping", x, {K[x]}) : x \in A \ {v}} = {Owner("mapping", x, {M[x]}) : x \in A \ {v}}
  BY <1>2, <1>3
<1>6. \A x \in A : Owner("mapping", x, {M[x]}) = Owner("mapping", v, {M[v]}) => x = v
  BY OwnerFields
<1>7. {Owner("mapping", x, {M[x]}) : x \in A \ {v}} =
        {Owner("mapping", x, {M[x]}) : x \in A} \ {Owner("mapping", v, {M[v]})}
  BY <1>6
<1> QED
  BY <1>1, <1>3, <1>4, <1>5, <1>7, ZenonT(60) DEF MapOwners

\* A page outside the heap is nobody's.
LEMMA MapForeign ==
  ASSUME NEW M, NEW v, v \notin Pages
  PROVE  MapOwners(Restrict(M, DOMAIN M \ {v})) = MapOwners(M)
<1>1. PICK K : K = Restrict(M, DOMAIN M \ {v})
  OBVIOUS
<1>2. DOMAIN K = DOMAIN M \ {v} /\ \A x \in DOMAIN K : K[x] = M[x]
  BY <1>1 DEF Restrict
<1>3. Pages \cap DOMAIN K = Pages \cap DOMAIN M
  BY <1>2
<1>4. \A x \in Pages \cap DOMAIN M : K[x] = M[x]
  BY <1>2, <1>3
<1>5. MapOwners(K) = MapOwners(M)
  BY <1>3, <1>4 DEF MapOwners
<1> QED
  BY <1>1, <1>5

-----------------------------------------------------------------------------
(* Every frame has its owner *)

\* What stands by FramesExact to make it inductive: blocks lie within the bitmap,
\* entries and pending mappings are frames, and no huge page covers the heap.
OwnInv ==
  /\ bpc = "boot_alloc" => held = {}
  /\ \A b \in held : b.start \in Nat /\ b.start + b.n <= TotalPages
  /\ DOMAIN tables = Tables
  /\ \A t \in Tables : tables[t] = Huge => t \in machine.huge
  /\ \A v \in Pages : pte[v] \in Nat \cup {None}
  /\ \A v \in Pages \cap DOMAIN mapping : mapping[v] \in Nat

FrameInv == FramesExact /\ OwnInv

LEMMA SameMachine ==
  ASSUME UNCHANGED machine
  PROVE  TotalPages' = TotalPages /\ Tracked' = Tracked /\ Usable' = Usable
BY DEF TotalPages, Tracked, Usable

LEMMA ExactIs ==
  FramesExact <=> /\ Exact(Tracked, Usable, used, Owners)
                  /\ free_pages = TotalPages - Cardinality(used)
                  /\ (lost # {} => 0 \in lost)
BY DEF FramesExact, Exact

LEMMA ExactNext ==
  ASSUME TotalPages' = TotalPages, Tracked' = Tracked, Usable' = Usable,
         Exact(Tracked, Usable, used', Owners'),
         free_pages' = TotalPages - Cardinality(used'), lost' # {} => 0 \in lost'
  PROVE  FramesExact'
BY DEF FramesExact, Exact

LEMMA UsedTracked ==
  ASSUME FramesExact
  PROVE  used \subseteq Tracked
BY DEF FramesExact

LEMMA InitFrames ==
  ASSUME Init
  PROVE  FrameInv
<1>1. machine \in Machines /\ used = Tracked \ Usable /\ free_pages = Counted
      /\ held = {} /\ lost = {}
  BY DEF Init
<1>2. Counted = Cardinality(Usable) /\ Usable \subseteq Tracked /\ IsFiniteSet(Tracked)
      /\ Cardinality(Tracked) = TotalPages /\ TotalPages \in Nat
  BY <1>1, CountedExact, TotalFacts
<1>3. /\ DOMAIN tables = Tables
      /\ \A t \in Tables : tables[t] \in {Huge, Limine, None} /\ (tables[t] = Huge => t \in machine.huge)
  BY DEF Init, Huge, Limine, None
<1>4. DOMAIN mapping = {} /\ \A v \in Pages : pte[v] = None
  BY DEF Init
<1>5. OwnInv
  BY <1>1, <1>3, <1>4 DEF OwnInv
<1>6. Owners = {Lost({})}
  <2>1. BlockOwners(held) = {}
    BY <1>1 DEF BlockOwners
  <2>2. TableOwners(tables) = {}
    <3>1. \A t \in Tables : ~(tables[t] >= 0)
      BY <1>3 DEF Huge, Limine, None
    <3> QED
      BY <3>1 DEF TableOwners
  <2>3. PageOwners(pte) = {}
    BY <1>4 DEF PageOwners
  <2>4. MapOwners(mapping) = {}
    BY <1>4 DEF MapOwners
  <2> QED
    BY <1>1, <2>1, <2>2, <2>3, <2>4, OwnersAre DEF Holders
<1>7. \A o \in Owners : o.set = {}
  BY <1>6, OwnerFields DEF Lost
<1>8. Exact(Tracked, Usable, used, Owners)
  BY <1>1, <1>7 DEF Exact
<1>9. free_pages = TotalPages - Cardinality(used)
  <2>1. IsFiniteSet(Usable) /\ Cardinality(Usable) \in Nat
    BY <1>2, FS_Subset, FS_CardinalityType
  <2>2. Tracked \cap Usable = Usable
    BY <1>2
  <2>3. Cardinality(Tracked \ Usable) = Cardinality(Tracked) - Cardinality(Tracked \cap Usable)
    BY <1>2, FS_Difference
  <2>4. PICK c \in Nat : c = Cardinality(Usable)
    BY <2>1
  <2>5. Cardinality(used) = TotalPages - c /\ free_pages = c
    BY <1>1, <1>2, <2>2, <2>3, <2>4
  <2> QED
    BY <1>2, <2>4, <2>5
<1> QED
  BY <1>1, <1>5, <1>8, <1>9, ExactIs DEF FrameInv

\* pmm_alloc_pages on behalf of somebody who takes address 0 for a failure.
LEMMA AllocStep ==
  ASSUME machine \in Machines, UNCHANGED machine, FramesExact, NEW n \in Nat \ {0},
         NEW a, a = pmm_alloc_pages(Pmm, n), SetPmm(a), lost' = LostTo(a, n),
         Failed(a) => Holders' = Holders,
         NEW w, ~Failed(a) => w.set = a.start .. a.start + n - 1 /\ Holders' = Holders \cup {w}
  PROVE  /\ FramesExact'
         /\ ~Failed(a) => a.start \in Nat /\ a.start + n <= TotalPages
<1>1. /\ Exact(Tracked, Usable, used, Owners) /\ free_pages = TotalPages - Cardinality(used)
      /\ (lost # {} => 0 \in lost)
  BY ExactIs
<1>2. used \subseteq Tracked /\ Usable \subseteq Tracked /\ TotalPages \in Nat
  BY UsedTracked, CountedExact, TotalFacts
<1>3. TotalPages' = TotalPages /\ Tracked' = Tracked /\ Usable' = Usable
  BY SameMachine
<1>4. /\ Owners = Holders \cup {Lost(lost)} /\ Lost(lost) \notin Holders
      /\ Owners' = Holders' \cup {Lost(lost')}
  BY OwnersAre
<1>5. used' = a.used /\ free_pages' = a.free
  BY DEF SetPmm
<1>6. \/ a.start = None /\ a.used = used /\ a.free = free_pages
      \/ /\ a.start \in Nat /\ a.start + n <= TotalPages
         /\ (a.start .. a.start + n - 1) \cap used = {}
         /\ a.used = used \cup (a.start .. a.start + n - 1)
         /\ a.free = TotalPages - Cardinality(a.used)
  BY <1>1, <1>2, AllocEffect DEF Pmm
<1>7. CASE a.start = None
  <2>1. Failed(a) /\ lost' = lost
    BY <1>7 DEF Failed, LostTo, None
  <2>2. used' = used /\ free_pages' = free_pages
    BY <1>5, <1>6, <1>7 DEF None
  <2>3. Owners' = Owners
    BY <1>4, <2>1
  <2> QED
    BY <1>1, <1>3, <2>1, <2>2, <2>3, ExactNext
<1>8. CASE a.start \in Nat
  <2>1. PICK S : S = a.start .. a.start + n - 1
    OBVIOUS
  <2>2. /\ S \cap used = {} /\ used' = used \cup S /\ free_pages' = TotalPages - Cardinality(used')
        /\ a.start + n <= TotalPages
    BY <1>5, <1>6, <1>8, <2>1 DEF None
  <2>3. S \subseteq Tracked
    BY <1>2, <1>8, <2>1, <2>2 DEF Tracked
  <2>4. CASE a.start = 0
    <3>1. Failed(a) /\ lost' = lost \cup S /\ 0 \in S
      BY <2>1, <2>4 DEF Failed, LostTo
    <3>2. Lost(lost) \in Owners /\ Lost(lost').set = Lost(lost).set \cup S
      BY <1>4, <3>1, OwnerFields DEF Lost
    <3>3. Owners' = (Owners \ {Lost(lost)}) \cup {Lost(lost')}
      BY <1>4, <3>1
    <3>4. Exact(Tracked, Usable, used \cup S, (Owners \ {Lost(lost)}) \cup {Lost(lost')})
      BY <1>1, <1>2, <2>2, <2>3, <3>2, GrowOwner
    <3>5. 0 \in lost'
      BY <3>1
    <3> QED
      BY <1>3, <2>2, <2>4, <3>1, <3>3, <3>4, <3>5, ExactNext
  <2>5. CASE a.start # 0
    <3>1. ~Failed(a) /\ lost' = lost
      BY <1>8, <2>5 DEF Failed, LostTo, None
    <3>2. w.set = S /\ Owners' = Owners \cup {w}
      BY <1>4, <2>1, <3>1
    <3>3. Exact(Tracked, Usable, used \cup w.set, Owners \cup {w})
      BY <1>1, <1>2, <2>2, <2>3, <3>2, AddOwner
    <3> QED
      BY <1>1, <1>3, <1>8, <2>2, <3>1, <3>2, <3>3, ExactNext
  <2> QED
    BY <2>4, <2>5
<1> QED
  BY <1>6, <1>7, <1>8

\* pmm_free_pages of what one owner has.
LEMMA FreeStep ==
  ASSUME machine \in Machines, UNCHANGED <<machine, lost>>, FramesExact,
         NEW f \in Nat, NEW n \in Nat, SetPmm(pmm_free_pages(Pmm, f, n)),
         NEW w \in Holders, w.set = f .. f + n - 1, Holders' = Holders \ {w}
  PROVE  FramesExact'
<1>1. /\ Exact(Tracked, Usable, used, Owners) /\ free_pages = TotalPages - Cardinality(used)
      /\ (lost # {} => 0 \in lost)
  BY ExactIs
<1>2. used \subseteq Tracked
  BY UsedTracked
<1>3. TotalPages' = TotalPages /\ Tracked' = Tracked /\ Usable' = Usable
  BY SameMachine
<1>4. w \in Owners /\ Owners' = Owners \ {w}
  BY OwnersAre
<1>5. used' = used \ (w.set \cap Tracked) /\ free_pages' = TotalPages - Cardinality(used')
  <2>1. PICK a : a = pmm_free_pages(Pmm, f, n)
    OBVIOUS
  <2>2. a.used = used \ ((f .. f + n - 1) \cap Tracked) /\ a.free = TotalPages - Cardinality(a.used)
    BY <1>1, <1>2, <2>1, FreeEffect DEF Pmm
  <2>3. used' = a.used /\ free_pages' = a.free
    BY <2>1 DEF SetPmm
  <2> QED
    BY <2>2, <2>3
<1>6. Exact(Tracked, Usable, used \ (w.set \cap Tracked), Owners \ {w})
  BY <1>1, <1>4, DropOwner
<1> QED
  BY <1>1, <1>3, <1>4, <1>5, <1>6, ExactNext

LEMMA HoldersNext ==
  Holders' = BlockOwners(held') \cup TableOwners(tables') \cup PageOwners(pte')
               \cup MapOwners(mapping')
BY DEF Holders

\* A step that hands no frame over.
LEMMA FramesSame ==
  ASSUME FrameInv, UNCHANGED <<machine, used, free_pages, lost, held, tables, pte>>,
         MapOwners(mapping') = MapOwners(mapping),
         \A v \in Pages \cap DOMAIN mapping' : mapping'[v] \in Nat,
         bpc' # "boot_alloc" \/ bpc' = bpc
  PROVE  FrameInv'
<1>1. FramesExact /\ OwnInv
  BY DEF FrameInv
<1>2. TotalPages' = TotalPages /\ Tracked' = Tracked /\ Usable' = Usable
  BY SameMachine
<1>3. Holders' = Holders
  BY HoldersNext DEF Holders
<1>4. Owners' = Owners
  BY <1>3, OwnersAre
<1>5. FramesExact'
  BY <1>1, <1>2, <1>4, ExactIs, ExactNext
<1>6. OwnInv'
  BY <1>1, <1>2 DEF OwnInv
<1> QED
  BY <1>5, <1>6 DEF FrameInv

\* The boot allocator's region, and gmk_hal_page_alloc.
LEMMA BlockAllocFrames ==
  ASSUME machine \in Machines, FrameInv, BootAlloc \/ \E n \in Runs : PageAlloc(n)
  PROVE  FrameInv'
<1>1. FramesExact /\ OwnInv
  BY DEF FrameInv
<1>2. PICK n, boots, a, b :
        /\ n \in Nat \ {0} /\ boots \in BOOLEAN
        /\ a = pmm_alloc_pages(Pmm, n) /\ SetPmm(a) /\ lost' = LostTo(a, n)
        /\ b = [start |-> a.start, n |-> n, boot |-> boots]
        /\ IF Failed(a) THEN held' = held ELSE held' = held \cup {b}
        /\ UNCHANGED <<machine, tables, pte, mapping>>
        /\ bpc' # "boot_alloc"
  <2>1. CASE BootAlloc
    <3>1. held = {}
      BY <1>1, <2>1 DEF OwnInv, BootAlloc
    <3>2. UNCHANGED <<machine, tables, pte, mapping>> /\ bpc' # "boot_alloc"
      BY <2>1 DEF BootAlloc, space, boot
    <3>3. PICK a : a = pmm_alloc_pages(Pmm, BootPages)
      OBVIOUS
    <3>4. /\ SetPmm(a) /\ lost' = LostTo(a, BootPages)
          /\ IF Failed(a) THEN held' = held
             ELSE held' = {[start |-> a.start, n |-> BootPages, boot |-> TRUE]}
      BY <2>1, <3>3 DEF BootAlloc
    <3>5. BootPages \in Nat \ {0}
      BY VmmAssumption
    <3> QED
      BY <3>1, <3>2, <3>3, <3>4, <3>5
  <2>2. ASSUME NEW n \in Runs, PageAlloc(n) 
        PROVE  \E a : /\ a = pmm_alloc_pages(Pmm, n) /\ SetPmm(a) /\ lost' = LostTo(a, n)
                      /\ IF Failed(a) THEN held' = held
                         ELSE held' = held \cup {[start |-> a.start, n |-> n, boot |-> FALSE]}
                      /\ UNCHANGED <<machine, tables, pte, mapping>> /\ bpc' # "boot_alloc"
    <3>1. UNCHANGED <<machine, tables, pte, mapping>> /\ bpc' # "boot_alloc"
      BY <2>2 DEF PageAlloc, Calling, space, boot
    <3>2. PICK a : a = pmm_alloc_pages(Pmm, n)
      OBVIOUS
    <3>3. /\ SetPmm(a) /\ lost' = LostTo(a, n)
          /\ IF Failed(a) THEN held' = held
             ELSE held' = held \cup {[start |-> a.start, n |-> n, boot |-> FALSE]}
      BY <2>2, <3>2 DEF PageAlloc
    <3> QED
      BY <3>1, <3>2, <3>3
  <2>3. Runs \subseteq Nat \ {0}
    BY VmmAssumption
  <2> QED
    BY <2>1, <2>2, <2>3
<1>3. PICK w : w = Owner("block", b, Run(b))
  OBVIOUS
<1>4. w.set = a.start .. a.start + n - 1
  BY <1>2, <1>3, OwnerFields DEF Run
<1>5. IF Failed(a) THEN Holders' = Holders ELSE Holders' = Holders \cup {w}
  BY <1>2, <1>3, HoldersNext, BlockAdd DEF Holders
<1>6. FramesExact' /\ (~Failed(a) => a.start \in Nat /\ a.start + n <= TotalPages)
  BY <1>1, <1>2, <1>4, <1>5, AllocStep
<1>7. TotalPages' = TotalPages
  BY <1>2, SameMachine
<1>8. \A x \in held' : x.start \in Nat /\ x.start + x.n <= TotalPages
  BY <1>1, <1>2, <1>6 DEF OwnInv
<1>9. OwnInv'
  BY <1>1, <1>2, <1>7, <1>8 DEF OwnInv
<1> QED
  BY <1>6, <1>9 DEF FrameInv

\* gmk_hal_page_free of a block that is held.
LEMMA PageFreeFrames ==
  ASSUME IndInv, FrameInv, NEW b \in held, PageFree(b)
  PROVE  FrameInv'
<1>1. FramesExact /\ OwnInv /\ machine \in Machines
  BY DEF FrameInv, IndInv, BootInv
<1>2. b.start \in Nat /\ b.n \in Nat
  BY <1>1 DEF OwnInv, IndInv, HeapInv
<1>3. /\ SetPmm(pmm_free_pages(Pmm, b.start, b.n)) /\ held' = held \ {b}
      /\ UNCHANGED <<machine, lost, tables, pte, mapping>> /\ bpc' # "boot_alloc"
  BY DEF PageFree, space, boot, Calling
<1>4. PICK w : w = Owner("block", b, Run(b))
  OBVIOUS
<1>5. w.set = b.start .. b.start + b.n - 1 /\ w.what = "block"
  BY <1>4, OwnerFields DEF Run
<1>6. BlockOwners(held') = BlockOwners(held) \ {w} /\ w \in BlockOwners(held)
  BY <1>3, <1>4, BlockDrop
<1>7. w \in Holders /\ Holders' = Holders \ {w}
  <2>1. w \notin TableOwners(tables) /\ w \notin PageOwners(pte) /\ w \notin MapOwners(mapping)
    BY <1>5, Kinds
  <2> QED
    BY <1>3, <1>6, <2>1, HoldersNext DEF Holders
<1>8. FramesExact'
  BY <1>1, <1>2, <1>3, <1>5, <1>7, FreeStep
<1>9. TotalPages' = TotalPages
  BY <1>3, SameMachine
<1>10. OwnInv'
  BY <1>1, <1>3, <1>9 DEF OwnInv
<1> QED
  BY <1>8, <1>10 DEF FrameInv

\* Pages up to the end of the heap are pages of the heap.
LEMMA HeapSpan ==
  ASSUME NEW first \in Nat, NEW n \in Nat, ~((first + n) * PageUnits > HeapEnd)
  PROVE  first .. first + n - 1 \subseteq Pages
<1>1. HeapPages \in Nat /\ PageUnits \in Nat
  BY VmmAssumption
<1>2. (first + n) * PageUnits \in Int /\ HeapPages * PageUnits \in Int
  BY <1>1
<1>3. (first + n) * PageUnits <= HeapPages * PageUnits
  BY <1>2 DEF HeapEnd
<1>4. first + n <= HeapPages
  BY <1>1, <1>3, PageBelow
<1> QED
  BY <1>1, <1>4 DEF Pages

Taken(O) == UNION {o.set : o \in O}

\* M maps n pages of the heap from first on to as many frames from start on.
MapsRun(M, first, n, start) ==
  /\ DOMAIN M = first .. first + n - 1 /\ DOMAIN M \subseteq Pages
  /\ \A v \in DOMAIN M : M[v] = start + (v - first)

\* The frames of a run, page by page.
LEMMA MapRun ==
  ASSUME NEW first \in Nat, NEW n \in Nat, NEW start \in Nat,
         NEW M, MapsRun(M, first, n, start)
  PROVE  /\ \A v \in DOMAIN M : M[v] \in Nat /\ M[v] >= start
         /\ Taken(MapOwners(M)) = start .. start + n - 1
         /\ \A o, q \in MapOwners(M) : o # q => o.set \cap q.set = {}
<1>1. \A v \in DOMAIN M : v \in Nat /\ v >= first /\ v <= first + n - 1 /\ M[v] = start + (v - first)
  BY DEF MapsRun
<1>2. \A v \in DOMAIN M : M[v] \in Nat /\ M[v] >= start
  BY <1>1
<1>3. Pages \cap DOMAIN M = DOMAIN M /\ DOMAIN M = first .. first + n - 1
  BY DEF MapsRun
<1>4. MapOwners(M) = {Owner("mapping", v, {M[v]}) : v \in DOMAIN M}
  BY <1>3 DEF MapOwners
<1>5. ASSUME NEW x PROVE x \in UNION {o.set : o \in MapOwners(M)} <=> \E v \in DOMAIN M : x = M[v]
  <2>1. \A v \in DOMAIN M : Owner("mapping", v, {M[v]}).set = {M[v]}
    BY OwnerFields
  <2>2. ASSUME NEW v \in DOMAIN M, x = M[v] PROVE \E o \in MapOwners(M) : x \in o.set
    <3>1. Owner("mapping", v, {M[v]}) \in MapOwners(M)
      BY <1>4
    <3> QED
      BY <2>1, <2>2, <3>1
  <2>3. ASSUME NEW o \in MapOwners(M), x \in o.set PROVE \E v \in DOMAIN M : x = M[v]
    <3>1. PICK v \in DOMAIN M : o = Owner("mapping", v, {M[v]})
      BY <1>4
    <3>2. o.set = {M[v]}
      BY <2>1, <3>1
    <3> QED
      BY <2>3, <3>2
  <2> QED
    BY <2>2, <2>3
<1>6. ASSUME NEW x PROVE x \in start .. start + n - 1 <=> \E v \in DOMAIN M : x = M[v]
  <2>1. ASSUME x \in start .. start + n - 1 PROVE \E v \in DOMAIN M : x = M[v]
    <3>1. PICK v \in Nat : v = first + (x - start) /\ v >= first /\ v <= first + n - 1
      BY <2>1
    <3>2. v \in DOMAIN M
      BY <1>3, <3>1
    <3>3. M[v] = x
      BY <1>1, <2>1, <3>1, <3>2
    <3> QED
      BY <3>2, <3>3
  <2>2. ASSUME NEW v \in DOMAIN M, x = M[v] PROVE x \in start .. start + n - 1
    BY <1>1, <2>2
  <2> QED
    BY <2>1, <2>2
<1>7. UNION {o.set : o \in MapOwners(M)} = start .. start + n - 1
  BY <1>5, <1>6
<1>8. ASSUME NEW v \in DOMAIN M, NEW u \in DOMAIN M, v # u PROVE M[v] # M[u]
  BY <1>1, <1>8
<1>9. ASSUME NEW o \in MapOwners(M), NEW q \in MapOwners(M), o # q PROVE o.set \cap q.set = {}
  <2>1. PICK v \in DOMAIN M : o = Owner("mapping", v, {M[v]})
    BY <1>4
  <2>2. PICK u \in DOMAIN M : q = Owner("mapping", u, {M[u]})
    BY <1>4
  <2>3. o.set = {M[v]} /\ q.set = {M[u]}
    BY <2>1, <2>2, OwnerFields
  <2>4. v # u
    BY <1>9, <2>1, <2>2
  <2> QED
    BY <1>8, <2>3, <2>4
<1> QED
  BY <1>2, <1>7, <1>9 DEF Taken

\* vmm_map: the block's frames are the pages' from now on; those of a device
\* have no bit.
LEMMA VmmMapFrames ==
  ASSUME IndInv, FrameInv, NEW b \in held \cup {Device}, vmm_map(b)
  PROVE  FrameInv'
<1>1. FramesExact /\ OwnInv /\ machine \in Machines /\ HeapInv
  BY DEF FrameInv, IndInv, BootInv
<1>2. TotalPages \in Nat /\ TotalPages <= Device.start
  BY <1>1, TotalFacts
<1>3. b.start \in Nat /\ b.n \in Nat \ {0}
  BY <1>1, VmmAssumption DEF OwnInv, HeapInv
<1>4. PICK first \in Nat : first = CeilDiv(heap_next)
  BY <1>1, CeilAbove DEF HeapInv
<1>5. /\ UNCHANGED <<machine, used, free_pages, lost, tables, pte>>
      /\ bpc = "idle" /\ bpc' # "boot_alloc"
  BY DEF vmm_map, paging_map, Calling, boot
<1>6. DOMAIN mapping = {} /\ MapOwners(mapping) = {}
  BY <1>1, <1>5 DEF HeapInv, MapSet, MapOwners
<1>7. CASE heap_next' > HeapEnd
  <2>1. mapping' = mapping /\ held' = held
    BY <1>7 DEF vmm_map
  <2> QED
    BY <1>1, <1>5, <1>6, <2>1, FramesSame
<1>8. CASE ~(heap_next' > HeapEnd)
  <2>1. /\ heap_next' = (first + b.n) * PageUnits
        /\ mapping' = [v \in first .. first + b.n - 1 |-> b.start + (v - first)]
        /\ held' = held \ {b}
    BY <1>4, <1>8 DEF vmm_map, paging_map
  <2>2. first .. first + b.n - 1 \subseteq Pages
    BY <1>3, <1>8, <2>1, HeapSpan
  <2>3. PICK N : N = MapOwners(mapping')
    OBVIOUS
  <2>4. /\ \A v \in DOMAIN mapping' : mapping'[v] \in Nat /\ mapping'[v] >= b.start
        /\ UNION {o.set : o \in N} = b.start .. b.start + b.n - 1
        /\ \A o, q \in N : o # q => o.set \cap q.set = {}
    <3>1. PICK start, n, M : /\ start \in Nat /\ n \in Nat
                             /\ start = b.start /\ n = b.n /\ M = mapping'
      BY <1>3
    <3>2. MapsRun(M, first, n, start)
      BY <2>1, <2>2, <3>1 DEF MapsRun
    <3>3. /\ \A v \in DOMAIN M : M[v] \in Nat /\ M[v] >= start
          /\ Taken(MapOwners(M)) = start .. start + n - 1
          /\ \A o, q \in MapOwners(M) : o # q => o.set \cap q.set = {}
      <4>1. start \in Nat /\ n \in Nat
        BY <3>1
      <4> QED
        BY <3>2, <4>1, MapRun
    <3> QED
      BY <2>3, <3>1, <3>3 DEF Taken
  <2>5. TotalPages' = TotalPages /\ Tracked' = Tracked /\ Usable' = Usable
    BY <1>5, SameMachine
  <2>6. OwnInv'
    BY <1>1, <1>5, <2>1, <2>4, <2>5 DEF OwnInv
  <2>7. Exact(Tracked, Usable, used, Owners)
    BY <1>1, ExactIs
  <2>8. Exact(Tracked, Usable, used', Owners')
    <3>1. CASE b \in held
      <4>1. PICK w : w = Owner("block", b, Run(b))
        OBVIOUS
      <4>2. w.set = b.start .. b.start + b.n - 1 /\ w.what = "block"
        BY <4>1, OwnerFields DEF Run
      <4>3. BlockOwners(held') = BlockOwners(held) \ {w} /\ w \in BlockOwners(held)
        BY <2>1, <3>1, <4>1, BlockDrop
      <4>4. w \notin TableOwners(tables) /\ w \notin PageOwners(pte)
        BY <4>2, Kinds
      <4>5. w \in Holders /\ Holders' = (Holders \ {w}) \cup N
        BY <1>5, <1>6, <2>3, <4>3, <4>4, HoldersNext DEF Holders
      <4>6. w # Lost(lost) /\ w \in Owners /\ Owners' = (Owners \ {w}) \cup N
        BY <1>5, <4>5, OwnersAre
      <4>7. (UNION {o.set : o \in N}) \cap Tracked = w.set \cap Tracked
        BY <2>4, <4>2
      <4>8. \A o, q \in N : o # q => o.set \cap q.set \cap Tracked = {}
        BY <2>4
      <4>9. Exact(Tracked, Usable, used, (Owners \ {w}) \cup N)
        BY <2>7, <4>6, <4>7, <4>8, SplitOwner
      <4> QED
        BY <1>5, <4>6, <4>9
    <3>2. CASE b \notin held
      <4>1. b = Device /\ held' = held
        BY <2>1, <3>2
      <4>2. Holders' = Holders \cup N
        BY <1>5, <1>6, <2>3, <4>1, HoldersNext DEF Holders
      <4>3. Owners' = Owners \cup N
        BY <1>5, <4>2, OwnersAre
      <4>4. ASSUME NEW o \in N PROVE o.set \cap Tracked = {}
        <5>1. \A f \in b.start .. b.start + b.n - 1 : f \notin Tracked
          BY <1>2, <1>3, <4>1 DEF Tracked
        <5>2. o.set \subseteq b.start .. b.start + b.n - 1
          BY <2>4
        <5> QED
          BY <5>1, <5>2
      <4>5. Exact(Tracked, Usable, used, Owners \cup N)
        BY <2>7, <4>4, AddForeign
      <4> QED
        BY <1>5, <4>3, <4>5
    <3> QED
      BY <3>1, <3>2
  <2>9. FramesExact'
    BY <1>1, <1>5, <2>5, <2>8, ExactIs, ExactNext
  <2> QED
    BY <2>6, <2>9 DEF FrameInv
<1> QED
  BY <1>7, <1>8

\* map_mmio maps no page of the heap; vmm_demand_page has a frame for one.
LEMMA MmioFrames ==
  ASSUME IndInv, FrameInv, MapMmio
  PROVE  FrameInv'
<1>1. /\ UNCHANGED <<machine, used, free_pages, lost, held, tables, pte>>
      /\ bpc = "map_mmio" /\ bpc' = "map" /\ DOMAIN mapping' = {LapicPage}
  BY DEF MapMmio, paging_map, frames, boot
<1>2. DOMAIN mapping = {}
  BY <1>1 DEF IndInv, HeapInv, MapSet
<1>3. LapicPage \notin Pages
  BY VmmAssumption DEF Pages
<1>4. MapOwners(mapping) = {} /\ MapOwners(mapping') = {}
  BY <1>1, <1>2, <1>3 DEF MapOwners
<1> QED
  BY <1>1, <1>3, <1>4, FramesSame

LEMMA FaultFrames ==
  ASSUME IndInv, FrameInv, NEW o \in objs, NEW v \in Pages, PageFault(o, v)
  PROVE  FrameInv'
<1>1. FramesExact /\ OwnInv /\ machine \in Machines /\ HeapInv
  BY DEF FrameInv, IndInv, BootInv
<1>2. PICK a : a = pmm_alloc_pages(Pmm, 1)
  OBVIOUS
<1>3. /\ SetPmm(a) /\ lost' = LostTo(a, 1)
      /\ UNCHANGED <<machine, held, tables, pte>> /\ bpc = "idle" /\ bpc' # "boot_alloc"
      /\ IF Failed(a) THEN mapping' = mapping ELSE mapping' = [w \in {v} |-> a.start]
  BY <1>2 DEF PageFault, paging_map, Calling, boot
<1>4. DOMAIN mapping = {} /\ MapOwners(mapping) = {}
  BY <1>1, <1>3 DEF HeapInv, MapSet, MapOwners
<1>5. PICK w : w = Owner("mapping", v, {a.start})
  OBVIOUS
<1>6. ~Failed(a) => MapOwners(mapping') = {w}
  <2>1. ASSUME ~Failed(a) PROVE Pages \cap DOMAIN mapping' = {v} /\ mapping'[v] = a.start
    BY <1>3, <2>1
  <2> QED
    BY <1>5, <2>1 DEF MapOwners
<1>7. IF Failed(a) THEN Holders' = Holders ELSE Holders' = Holders \cup {w}
  BY <1>3, <1>4, <1>6, HoldersNext DEF Holders
<1>8. ~Failed(a) => w.set = a.start .. a.start + 1 - 1
  <2>1. w.set = {a.start}
    BY <1>5, OwnerFields
  <2>2. ~Failed(a) => a.start \in Nat
    BY <1>1, <1>2, AllocEffect, UsedTracked, ExactIs DEF Failed, Pmm, None
  <2> QED
    BY <2>1, <2>2
<1>9. FramesExact' /\ (~Failed(a) => a.start \in Nat)
  <2>1. 1 \in Nat \ {0}
    OBVIOUS
  <2> QED
    BY <1>1, <1>2, <1>3, <1>7, <1>8, <2>1, AllocStep
<1>10. \A u \in Pages \cap DOMAIN mapping' : mapping'[u] \in Nat
  BY <1>3, <1>4, <1>9
<1>11. TotalPages' = TotalPages
  BY <1>3, SameMachine
<1>12. OwnInv'
  BY <1>1, <1>3, <1>10, <1>11 DEF OwnInv
<1> QED
  BY <1>9, <1>12 DEF FrameInv

\* paging_alloc_table: a frame for a table that was missing.
LEMMA AllocTableFrames ==
  ASSUME IndInv, FrameInv, AllocTable
  PROVE  FrameInv'
<1>1. FramesExact /\ OwnInv /\ machine \in Machines /\ HeapInv
  BY DEF FrameInv, IndInv, BootInv
<1>2. PICK a : a = pmm_alloc_pages(Pmm, 1)
  OBVIOUS
<1>3. PICK t : t = Path(NextPage)[Min(Missing(NextPage))]
  OBVIOUS
<1>4. /\ SetPmm(a) /\ lost' = LostTo(a, 1)
      /\ UNCHANGED <<machine, held, mapping, pte>> /\ bpc = "map" /\ bpc' # "boot_alloc"
      /\ IF Failed(a) THEN tables' = tables ELSE tables' = [tables EXCEPT ![t] = a.start]
  BY <1>2, <1>3 DEF AllocTable, boot
<1>5. t \in Tables /\ tables[t] = None
  <2>1. NextPage \in Pages \cup {LapicPage}
    BY <1>1, <1>4, NextPageIn
  <2>2. DOMAIN Path(NextPage) \subseteq Nat
    BY <2>1, PathAssumption DEF Pages
  <2>3. Missing(NextPage) \subseteq DOMAIN Path(NextPage) /\ Missing(NextPage) # {}
    BY DEF AllocTable, Missing, Reached
  <2>4. Min(Missing(NextPage)) \in Missing(NextPage)
    BY <2>2, <2>3, Least
  <2>5. tables[t] = None
    BY <1>3, <2>4 DEF Missing
  <2>6. t \in ToSet(Path(NextPage))
    BY <1>3, <2>3, <2>4 DEF ToSet
  <2> QED
    BY <2>1, <2>5, <2>6 DEF Tables
<1>6. PICK w : w = Owner("table", t, {a.start})
  OBVIOUS
<1>7. ~Failed(a) => a.start \in Nat
  BY <1>1, <1>2, AllocEffect, UsedTracked, ExactIs DEF Failed, Pmm, None
<1>8. ~Failed(a) => TableOwners(tables') = TableOwners(tables) \cup {w}
  <2>1. DOMAIN tables = Tables
    BY <1>1 DEF OwnInv
  <2>2. SUFFICES ASSUME ~Failed(a) PROVE TableOwners(tables') = TableOwners(tables) \cup {w}
    OBVIOUS
  <2>3. PICK f \in Nat : f = a.start
    BY <1>7, <2>2
  <2>4. tables'[t] = f /\ \A x \in Tables : x # t => tables'[x] = tables[x]
    BY <1>4, <1>5, <2>1, <2>2, <2>3
  <2> QED
    BY <1>5, <1>6, <2>3, <2>4, TableAdd
<1>9. IF Failed(a) THEN Holders' = Holders ELSE Holders' = Holders \cup {w}
  BY <1>4, <1>8, HoldersNext DEF Holders
<1>10. ~Failed(a) => w.set = a.start .. a.start + 1 - 1
  <2>1. w.set = {a.start}
    BY <1>6, OwnerFields
  <2> QED
    BY <1>7, <2>1
<1>11. FramesExact'
  <2>1. 1 \in Nat \ {0}
    OBVIOUS
  <2> QED
    BY <1>1, <1>2, <1>4, <1>9, <1>10, <2>1, AllocStep
<1>12. DOMAIN tables' = Tables /\ \A x \in Tables : tables'[x] = Huge => tables[x] = Huge
  <2>1. DOMAIN tables = Tables
    BY <1>1 DEF OwnInv
  <2>2. ~Failed(a) => a.start # Huge
    BY <1>7 DEF Huge
  <2> QED
    BY <1>4, <2>1, <2>2
<1>13. TotalPages' = TotalPages
  BY <1>4, SameMachine
<1>14. OwnInv'
  BY <1>1, <1>4, <1>12, <1>13 DEF OwnInv
<1> QED
  BY <1>11, <1>14 DEF FrameInv

\* The page table entry: the frame that waited for it is the page's now.
LEMMA SetEntryFrames ==
  ASSUME IndInv, FrameInv, SetEntry
  PROVE  FrameInv'
<1>1. FramesExact /\ OwnInv /\ machine \in Machines /\ HeapInv
  BY DEF FrameInv, IndInv, BootInv
<1>2. PICK v : v = NextPage
  OBVIOUS
<1>3. /\ UNCHANGED <<machine, used, free_pages, lost, held, tables>>
      /\ bpc = "map" /\ bpc' # "boot_alloc"
      /\ mapping' = Restrict(mapping, DOMAIN mapping \ {v})
      /\ IF Covered(v) THEN pte' = pte ELSE pte' = [pte EXCEPT ![v] = mapping[v]]
  BY <1>2 DEF SetEntry, frames, boot
<1>4. v \in DOMAIN mapping /\ v \in Pages \cup {LapicPage}
  BY <1>1, <1>2, <1>3, NextPageIn
<1>5. DOMAIN mapping' = DOMAIN mapping \ {v} /\ \A x \in DOMAIN mapping' : mapping'[x] = mapping[x]
  BY <1>3 DEF Restrict
<1>6. Pages \subseteq DOMAIN pte
  BY <1>1 DEF HeapInv
<1>7. TotalPages' = TotalPages /\ Tracked' = Tracked /\ Usable' = Usable
  BY <1>3, SameMachine
<1>8. CASE v \notin Pages
  <2>1. \A x \in Pages : pte'[x] = pte[x]
    BY <1>3, <1>6, <1>8
  <2>2. PageOwners(pte') = PageOwners(pte)
    BY <2>1 DEF PageOwners
  <2>3. MapOwners(mapping') = MapOwners(mapping)
    BY <1>3, <1>8, MapForeign
  <2>4. Holders' = Holders
    BY <1>3, <2>2, <2>3, HoldersNext DEF Holders
  <2>5. Owners' = Owners
    BY <1>3, <2>4, OwnersAre
  <2>6. FramesExact'
    BY <1>1, <1>3, <1>7, <2>5, ExactIs, ExactNext
  <2>7. OwnInv'
    BY <1>1, <1>3, <1>5, <1>7, <2>1 DEF OwnInv
  <2> QED
    BY <2>6, <2>7 DEF FrameInv
<1>9. CASE v \in Pages
  <2>1. ~Covered(v)
    <3>1. ToSet(Path(v)) \cap machine.huge = {}
      BY <1>1, <1>9, MachineAssumption DEF Pages
    <3>2. \A i \in DOMAIN Path(v) : Path(v)[i] \in ToSet(Path(v)) /\ Path(v)[i] \in Tables
      BY <1>9 DEF ToSet, Tables
    <3>3. \A x \in Tables : tables[x] = Huge => x \in machine.huge
      BY <1>1 DEF OwnInv
    <3> QED
      BY <3>1, <3>2, <3>3 DEF Covered
  <2>2. pte' = [pte EXCEPT ![v] = mapping[v]]
    BY <1>3, <2>1
  <2>3. pte[v] = None /\ mapping[v] \in Nat
    BY <1>1, <1>4, <1>9 DEF HeapInv, MapSet, OwnInv
  <2>4. PICK w, z : w = Owner("mapping", v, {mapping[v]}) /\ z = Owner("page", v, {mapping[v]})
    OBVIOUS
  <2>5. w.set = {mapping[v]} /\ z.set = {mapping[v]} /\ w.what = "mapping" /\ z.what = "page"
    BY <2>4, OwnerFields
  <2>6. PageOwners(pte') = PageOwners(pte) \cup {z}
    <3>1. PICK f \in Nat : f = mapping[v]
      BY <2>3
    <3>2. pte'[v] = f /\ \A x \in Pages : x # v => pte'[x] = pte[x]
      BY <1>6, <1>9, <2>2, <3>1
    <3> QED
      BY <1>9, <2>3, <2>4, <3>1, <3>2, PageAdd
  <2>7. MapOwners(mapping') = MapOwners(mapping) \ {w} /\ w \in MapOwners(mapping)
    BY <1>3, <1>4, <1>9, <2>4, MapDrop
  <2>8. w \notin BlockOwners(held) /\ w \notin TableOwners(tables) /\ w \notin PageOwners(pte)
    BY <2>5, Kinds
  <2>9. w \in Holders /\ Holders' = (Holders \ {w}) \cup {z}
    BY <1>3, <2>6, <2>7, <2>8, HoldersNext DEF Holders
  <2>10. w \in Owners /\ Owners' = (Owners \ {w}) \cup {z}
    BY <1>3, <2>9, OwnersAre
  <2>11. Exact(Tracked, Usable, used, (Owners \ {w}) \cup {z})
    <3>1. (UNION {o.set : o \in {z}}) \cap Tracked = w.set \cap Tracked
      BY <2>5
    <3>2. \A o, q \in {z} : o # q => o.set \cap q.set \cap Tracked = {}
      OBVIOUS
    <3> QED
      BY <1>1, <2>10, <3>1, <3>2, ExactIs, SplitOwner
  <2>12. FramesExact'
    BY <1>1, <1>3, <1>7, <2>10, <2>11, ExactIs, ExactNext
  <2>13. \A x \in Pages : pte'[x] \in Nat \cup {None}
    BY <1>1, <1>6, <2>2, <2>3 DEF OwnInv
  <2>14. OwnInv'
    BY <1>1, <1>3, <1>5, <1>7, <2>13 DEF OwnInv
  <2> QED
    BY <2>12, <2>14 DEF FrameInv
<1> QED
  BY <1>8, <1>9

-----------------------------------------------------------------------------
(* What kfree and vmm_unmap are given *)

\* Objects, mappings and the pages of the loop lie within the heap.
WorkInv ==
  /\ \A o \in objs : o.addr + o.size <= HeapEnd
  /\ \A m \in maps : m.first .. m.first + m.n - 1 \subseteq Pages
  /\ todo \subseteq Pages
  /\ bpc \in ShootPCs => todo # {}
  /\ shoot_addr \in Pages \cup {None}

LEMMA SpanIn ==
  ASSUME NEW a \in Nat, NEW n \in Nat, a + n <= HeapEnd
  PROVE  Span(a, n) \subseteq Pages
<1>1. HeapPages \in Nat /\ PageUnits \in Nat \ {0}
  BY VmmAssumption
<1>2. ASSUME NEW v \in Span(a, n) PROVE v \in Pages
  <2>1. v \in Int /\ v * PageUnits < a + n
    BY SpanBelow
  <2>2. v >= 0
    <3>1. a \div PageUnits \in Nat
      BY FloorBelow
    <3>2. v >= a \div PageUnits
      <4>1. CeilDiv(a + n) \in Nat
        BY CeilAbove
      <4> QED
        BY <3>1, <4>1 DEF Span
    <3> QED
      BY <2>1, <3>1, <3>2
  <2>3. ~(HeapPages * PageUnits <= v * PageUnits)
    <3>1. HeapPages * PageUnits \in Int /\ v * PageUnits \in Int
      BY <1>1, <2>1
    <3> QED
      BY <2>1, <3>1 DEF HeapEnd
  <2>4. v < HeapPages
    BY <1>1, <2>1, <2>3, PageBelow
  <2> QED
    BY <1>1, <2>1, <2>2, <2>4 DEF Pages
<1> QED
  BY <1>2

LEMMA PagesNat == Pages \subseteq Nat
BY VmmAssumption DEF Pages

\* The loop is at one of its pages.
LEMMA LoopPage ==
  ASSUME WorkInv, todo # {}
  PROVE  Min(todo) \in todo /\ Min(todo) \in Pages
<1>1. todo \subseteq Nat /\ todo \subseteq Pages
  BY PagesNat DEF WorkInv
<1> QED
  BY <1>1, Least

\* A step that gives the loop no page and the heap no object.
LEMMA WorkSame ==
  ASSUME WorkInv, objs' \subseteq objs, maps' \subseteq maps, todo' \subseteq todo,
         bpc' \notin ShootPCs \/ (bpc \in ShootPCs /\ todo' = todo),
         shoot_addr' \in Pages \cup {None}
  PROVE  WorkInv'
BY DEF WorkInv, ShootPCs

LEMMA CallWork ==
  ASSUME IndInv, WorkInv, Call
  PROVE  WorkInv'
<1>1. HeapInv
  BY DEF IndInv
<1>2. shoot_addr' = shoot_addr /\ bpc = "idle"
  BY DEF Call, PageAlloc, PageFree, kmalloc, vmm_map, kfree, PageFault, vmm_unmap, shoot, Calling
<1>3. CASE \/ \E n \in Runs : PageAlloc(n)
           \/ \E b \in held : PageFree(b)
           \/ \E o \in objs, v \in Pages : PageFault(o, v)
  <2>1. UNCHANGED <<objs, maps, todo>> /\ bpc' \notin ShootPCs
    BY <1>2, <1>3 DEF PageAlloc, PageFree, PageFault, paging_map, space, ShootPCs
  <2>2. shoot_addr' \in Pages \cup {None}
    BY <1>2 DEF WorkInv
  <2> QED
    BY <2>1, <2>2, WorkSame
<1>4. ASSUME NEW s \in Sizes, kmalloc(s) PROVE WorkInv'
  <2>1. /\ UNCHANGED <<maps, todo>> /\ bpc' \notin ShootPCs
        /\ \/ objs' = objs
           \/ /\ ~(heap_next + s > HeapEnd)
              /\ objs' = objs \cup {[addr |-> heap_next, size |-> s]}
    BY <1>2, <1>4 DEF kmalloc, ShootPCs
  <2>2. heap_next \in Nat /\ s \in Nat /\ HeapEnd \in Int
    BY <1>1, VmmAssumption DEF HeapInv, HeapEnd
  <2>3. \A o \in objs' : o.addr + o.size <= HeapEnd
    BY <2>1, <2>2 DEF WorkInv
  <2> QED
    BY <1>2, <2>1, <2>3 DEF WorkInv
<1>5. ASSUME NEW b \in held \cup {Device}, vmm_map(b) PROVE WorkInv'
  <2>1. PICK first \in Nat : first = CeilDiv(heap_next)
    BY <1>1, CeilAbove DEF HeapInv
  <2>2. b.n \in Nat
    BY <1>1, VmmAssumption DEF HeapInv
  <2>3. /\ UNCHANGED <<objs, todo>> /\ bpc' \notin ShootPCs
        /\ \/ maps' = maps
           \/ /\ ~((first + b.n) * PageUnits > HeapEnd)
              /\ maps' = maps \cup {[first |-> first, n |-> b.n]}
    BY <1>5, <2>1 DEF vmm_map, paging_map, ShootPCs
  <2>4. \A m \in maps' : m.first .. m.first + m.n - 1 \subseteq Pages
    <3>1. CASE maps' = maps
      BY <3>1 DEF WorkInv
    <3>2. CASE /\ ~((first + b.n) * PageUnits > HeapEnd)
               /\ maps' = maps \cup {[first |-> first, n |-> b.n]}
      <4>1. first .. first + b.n - 1 \subseteq Pages
        BY <2>2, <3>2, HeapSpan
      <4> QED
        BY <3>2, <4>1 DEF WorkInv
    <3> QED
      BY <2>3, <3>1, <3>2
  <2> QED
    BY <1>2, <2>3, <2>4 DEF WorkInv
<1>6. ASSUME NEW o \in objs, kfree(o) PROVE WorkInv'
  <2>1. /\ objs' \subseteq objs /\ maps' = maps /\ todo' = Span(o.addr, o.size)
        /\ bpc' \notin ShootPCs
    BY <1>6 DEF kfree, ShootPCs
  <2>2. Span(o.addr, o.size) \subseteq Pages
    BY <1>1, SpanIn DEF HeapInv, WorkInv
  <2> QED
    BY <1>2, <2>1, <2>2 DEF WorkInv
<1>7. ASSUME NEW m \in maps, vmm_unmap(m) PROVE WorkInv'
  <2>1. /\ objs' = objs /\ maps' \subseteq maps /\ todo' = m.first .. m.first + m.n - 1
        /\ bpc' \notin ShootPCs
    BY <1>7 DEF vmm_unmap, ShootPCs
  <2>2. m.first .. m.first + m.n - 1 \subseteq Pages
    BY DEF WorkInv
  <2> QED
    BY <1>2, <2>1, <2>2 DEF WorkInv
<1> QED
  BY <1>3, <1>4, <1>5, <1>6, <1>7 DEF Call

LEMMA BspWork ==
  ASSUME IndInv, WorkInv, Bsp
  PROVE  WorkInv'
<1>1. shoot_addr \in Pages \cup {None} /\ (bpc \in ShootPCs => todo # {})
  BY DEF WorkInv
<1>2. CASE BootAlloc \/ MapMmio \/ AllocTable \/ SetEntry
  <2>1. UNCHANGED <<objs, maps, todo, shoot_addr>> /\ bpc' \notin ShootPCs
    BY <1>2 DEF BootAlloc, MapMmio, AllocTable, SetEntry, paging_map, space, shoot, ShootPCs
  <2> QED
    BY <1>1, <2>1, WorkSame
<1>3. CASE FreePage
  <2>1. /\ UNCHANGED <<objs, maps, shoot_addr>> /\ todo # {}
        /\ \/ bpc' = "post" /\ todo' = todo
           \/ bpc' = "free" /\ todo' \subseteq todo
    BY <1>3 DEF FreePage, shoot
  <2> QED
    BY <1>1, <2>1 DEF WorkInv, ShootPCs
<1>4. CASE Freed
  <2>1. UNCHANGED <<objs, maps, todo, shoot_addr>> /\ bpc' \notin ShootPCs
    BY <1>4 DEF Freed, space, shoot, ShootPCs
  <2> QED
    BY <1>1, <2>1, WorkSame
<1>5. CASE PostAddr \/ ResetAck \/ SendIpi
  <2>1. /\ UNCHANGED <<objs, maps, todo>> /\ bpc \in ShootPCs
        /\ (shoot_addr' = shoot_addr \/ shoot_addr' = Min(todo))
    BY <1>5 DEF PostAddr, ResetAck, SendIpi, space, ShootPCs
  <2>2. Min(todo) \in Pages
    BY <1>1, <2>1, LoopPage
  <2> QED
    BY <1>1, <2>1, <2>2, WorkSame
<1>6. CASE SpinDone
  <2>1. /\ UNCHANGED <<objs, maps>> /\ bpc' \notin ShootPCs /\ todo' \subseteq todo
        /\ shoot_addr' = None
    BY <1>6 DEF SpinDone, space, ShootPCs
  <2> QED
    BY <2>1, WorkSame
<1>7. CASE StartSmp \/ WakeAp \/ WaitEnds
  <2>1. UNCHANGED <<objs, maps, todo, shoot_addr, bpc>>
    BY <1>7 DEF StartSmp, WakeAp, WaitEnds, space, shoot
  <2> QED
    BY <1>1, <2>1, WorkSame
<1> QED
  BY <1>2, <1>3, <1>4, <1>5, <1>6, <1>7 DEF Bsp

LEMMA ApWork ==
  ASSUME WorkInv, NEW c \in CPUs, Ap(c) \/ \E v \in Pages : Translate(c, v)
  PROVE  WorkInv'
<1>1. UNCHANGED <<objs, maps, todo, shoot_addr, bpc>>
  BY DEF Ap, LapicInit, EnterWorker, Park, Unpark, TakeIpi, Ack, Translate, space, shoot
<1>2. shoot_addr' \in Pages \cup {None}
  BY <1>1 DEF WorkInv
<1> QED
  BY <1>1, <1>2, WorkSame

LEMMA InitWork ==
  ASSUME Init
  PROVE  WorkInv
<1>1. objs = {} /\ maps = {} /\ todo = {} /\ bpc = "boot_alloc" /\ shoot_addr = None
  BY DEF Init
<1> QED
  BY <1>1 DEF WorkInv, ShootPCs

-----------------------------------------------------------------------------
(* Frames, the other steps *)

\* One page of the loop gives back the frame that its entry has.
LEMMA FreePageFrames ==
  ASSUME IndInv, FrameInv, WorkInv, FreePage
  PROVE  FrameInv'
<1>1. FramesExact /\ OwnInv /\ machine \in Machines /\ DOMAIN pte = Pages \cup {LapicPage}
  BY DEF FrameInv, IndInv, BootInv, HeapInv
<1>2. PICK v : v = Min(todo)
  OBVIOUS
<1>3. v \in Pages
  BY <1>2, LoopPage DEF FreePage
<1>4. /\ UNCHANGED <<machine, lost, held, tables, mapping>>
      /\ bpc' # "boot_alloc"
  BY DEF FreePage, boot
<1>5. PICK f : f = Mapped(v)
  OBVIOUS
<1>6. IF f = None THEN UNCHANGED <<used, free_pages, pte>>
      ELSE SetPmm(pmm_free_pages(Pmm, f, 1)) /\ pte' = [pte EXCEPT ![v] = None]
  BY <1>2, <1>5 DEF FreePage
<1>7. f = None \/ f = pte[v]
  BY <1>5 DEF Mapped
<1>8. CASE f = None
  <2>1. UNCHANGED <<used, free_pages, pte>>
    BY <1>6, <1>8
  <2>2. \A x \in Pages \cap DOMAIN mapping' : mapping'[x] \in Nat
    BY <1>1, <1>4 DEF OwnInv
  <2> QED
    BY <1>4, <2>1, <2>2, FramesSame
<1>9. CASE f # None
  <2>1. f = pte[v] /\ pte[v] # None /\ f \in Nat
    BY <1>1, <1>3, <1>7, <1>9 DEF OwnInv
  <2>2. SetPmm(pmm_free_pages(Pmm, f, 1)) /\ pte' = [pte EXCEPT ![v] = None]
    BY <1>6, <1>9
  <2>3. PICK w : w = Owner("page", v, {pte[v]})
    OBVIOUS
  <2>4. w.set = f .. f + 1 - 1 /\ w.what = "page"
    <3>1. w.set = {pte[v]} /\ w.what = "page"
      BY <2>3, OwnerFields
    <3>2. f .. f + 1 - 1 = {f}
      BY <2>1
    <3> QED
      BY <2>1, <3>1, <3>2
  <2>5. PageOwners(pte') = PageOwners(pte) \ {w} /\ w \in PageOwners(pte)
    BY <1>1, <1>3, <2>1, <2>2, <2>3, PageDrop
  <2>6. w \in Holders /\ Holders' = Holders \ {w}
    <3>1. w \notin TableOwners(tables) /\ w \notin BlockOwners(held) /\ w \notin MapOwners(mapping)
      BY <2>4, Kinds
    <3> QED
      BY <1>4, <2>5, <3>1, HoldersNext DEF Holders
  <2>7. FramesExact'
    BY <1>1, <1>4, <2>1, <2>2, <2>4, <2>6, FreeStep
  <2>8. TotalPages' = TotalPages
    BY <1>4, SameMachine
  <2>9. \A x \in Pages : pte'[x] \in Nat \cup {None}
    BY <1>1, <2>2 DEF OwnInv
  <2>10. OwnInv'
    BY <1>1, <1>4, <2>8, <2>9 DEF OwnInv
  <2> QED
    BY <2>7, <2>10 DEF FrameInv
<1> QED
  BY <1>8, <1>9

\* The other steps hand no frame over.
LEMMA QuietFrames ==
  ASSUME FrameInv, UNCHANGED <<machine, used, free_pages, lost, held, tables, pte, mapping>>,
         bpc' # "boot_alloc" \/ bpc' = bpc
  PROVE  FrameInv'
<1>1. \A x \in Pages \cap DOMAIN mapping' : mapping'[x] \in Nat
  BY DEF FrameInv, OwnInv
<1> QED
  BY <1>1, FramesSame

LEMMA OtherCallFrames ==
  ASSUME FrameInv,
         \/ \E s \in Sizes : kmalloc(s)
         \/ \E o \in objs : kfree(o)
         \/ \E m \in maps : vmm_unmap(m)
  PROVE  FrameInv'
<1>1. CASE \E s \in Sizes : kmalloc(s)
  <2>1. /\ UNCHANGED <<machine, used, free_pages, lost, held, tables, pte, mapping>>
        /\ bpc' # "boot_alloc"
    BY <1>1 DEF kmalloc, frames, boot, Calling
  <2> QED
    BY <2>1, QuietFrames
<1>2. CASE \E o \in objs : kfree(o)
  <2>1. /\ UNCHANGED <<machine, used, free_pages, lost, held, tables, pte, mapping>>
        /\ bpc' # "boot_alloc"
    BY <1>2 DEF kfree, frames, boot
  <2> QED
    BY <2>1, QuietFrames
<1>3. CASE \E m \in maps : vmm_unmap(m)
  <2>1. /\ UNCHANGED <<machine, used, free_pages, lost, held, tables, pte, mapping>>
        /\ bpc' # "boot_alloc"
    BY <1>3 DEF vmm_unmap, frames, boot
  <2> QED
    BY <2>1, QuietFrames
<1> QED
  BY <1>1, <1>2, <1>3

LEMMA OtherBspFrames ==
  ASSUME FrameInv,
         Freed \/ PostAddr \/ ResetAck \/ SendIpi \/ SpinDone \/ StartSmp \/ WakeAp \/ WaitEnds
  PROVE  FrameInv'
<1>1. CASE Freed \/ PostAddr \/ ResetAck \/ SendIpi \/ SpinDone
  <2>1. UNCHANGED <<machine, used, free_pages, lost, held, tables, pte, mapping>>
    BY <1>1 DEF Freed, PostAddr, ResetAck, SendIpi, SpinDone, frames, space, boot
  <2>2. bpc' # "boot_alloc"
    BY <1>1 DEF Freed, PostAddr, ResetAck, SendIpi, SpinDone
  <2> QED
    BY <2>1, <2>2, QuietFrames
<1>2. CASE StartSmp \/ WakeAp \/ WaitEnds
  <2>1. UNCHANGED <<machine, used, free_pages, lost, held, tables, pte, mapping, bpc>>
    BY <1>2 DEF StartSmp, WakeAp, WaitEnds, frames, space
  <2> QED
    BY <2>1, QuietFrames
<1> QED
  BY <1>1, <1>2

LEMMA ApFrames ==
  ASSUME FrameInv, NEW c \in CPUs, Ap(c) \/ \E v \in Pages : Translate(c, v)
  PROVE  FrameInv'
<1>1. CASE Ap(c)
  <2>1. UNCHANGED <<machine, used, free_pages, lost, held, tables, pte, mapping, bpc>>
    BY <1>1 DEF Ap, LapicInit, EnterWorker, Park, Unpark, TakeIpi, Ack, frames, space, boot
  <2> QED
    BY <2>1, QuietFrames
<1>2. CASE \E v \in Pages : Translate(c, v)
  <2>1. UNCHANGED <<machine, used, free_pages, lost, held, tables, pte, mapping, bpc>>
    BY <1>2 DEF Translate, frames, space, boot
  <2> QED
    BY <2>1, QuietFrames
<1> QED
  BY <1>1, <1>2

LEMMA NextFrames ==
  ASSUME IndInv, FrameInv, WorkInv, [Next]_vars
  PROVE  FrameInv' /\ WorkInv'
<1>1. machine \in Machines
  BY DEF IndInv, BootInv
<1>2. CASE UNCHANGED vars
  <2>1. UNCHANGED <<machine, used, free_pages, lost, held, tables, pte, mapping, bpc,
                    objs, maps, todo, shoot_addr>>
    BY <1>2 DEF vars, frames, space, boot, shoot
  <2>2. FrameInv'
    BY <2>1, QuietFrames
  <2>3. WorkInv'
    BY <2>1 DEF WorkInv
  <2> QED
    BY <2>2, <2>3
<1>3. CASE Bsp
  <2>1. FrameInv'
    BY <1>1, <1>3, BlockAllocFrames, MmioFrames, AllocTableFrames, SetEntryFrames,
       FreePageFrames, OtherBspFrames DEF Bsp
  <2> QED
    BY <1>3, <2>1, BspWork
<1>4. CASE Call
  <2>1. FrameInv'
    BY <1>1, <1>4, BlockAllocFrames, PageFreeFrames, VmmMapFrames, FaultFrames,
       OtherCallFrames DEF Call
  <2> QED
    BY <1>4, <2>1, CallWork
<1>5. CASE \E c \in CPUs : Ap(c) \/ \E v \in Pages : Translate(c, v)
  BY <1>5, ApFrames, ApWork
<1> QED
  BY <1>2, <1>3, <1>4, <1>5 DEF Next

-----------------------------------------------------------------------------
(* Counters of the bring-up and of the shootdown *)

\* The APs that ap_worker_entry has let in, or halted.
Entered == {c \in APs : apc[c] \notin {"off", "woken", "entry"}}

\* The APs beyond those woken are off, and no more of them are ready than have
\* entered their worker; as many acknowledgements are counted as there are APs.
CountInv ==
  /\ bpc \in {"boot_alloc", "map_mmio", "idle", "map", "free", "panic"} \cup ShootPCs
  /\ shoot_ack <= machine.cpus - 1
  /\ woken <= machine.cpus - 1
  /\ smp = "none" => woken = 0
  /\ smp = "starting" => woken < machine.cpus - 1
  /\ \A c \in APs : c > woken => apc[c] = "off"
  /\ ready \in Nat /\ ready <= Cardinality(Entered)

LEMMA InitCount ==
  ASSUME Init
  PROVE  CountInv
<1>1. /\ machine \in Machines /\ bpc = "boot_alloc" /\ shoot_ack = 0 /\ woken = 0 /\ ready = 0
      /\ smp = "none" /\ apc = [c \in CPUs |-> IF c = 0 THEN "bsp" ELSE "off"]
  BY DEF Init
<1>2. machine.cpus \in Nat \ {0}
  BY <1>1, VmmAssumption
<1>3. \A c \in APs : apc[c] = "off"
  BY <1>1 DEF APs
<1>4. Entered = {}
  BY <1>3 DEF Entered
<1>5. Cardinality(Entered) = 0
  BY <1>4, FS_EmptySet
<1> QED
  BY <1>1, <1>2, <1>3, <1>5 DEF CountInv

\* A step of the BSP that is not one of the bring-up.
LEMMA CallCount ==
  ASSUME BootInv, CountInv, UNCHANGED <<machine, smp, woken, ready, apc>>,
         bpc' \in {"boot_alloc", "map_mmio", "idle", "map", "free", "panic"} \cup ShootPCs,
         shoot_ack' = shoot_ack \/ shoot_ack' = 0
  PROVE  CountInv'
<1>1. machine.cpus \in Nat \ {0}
  BY CpuFacts
<1>2. APs' = APs
  BY DEF APs, CPUs
<1>3. Entered' = Entered
  BY <1>2 DEF Entered
<1>4. shoot_ack' <= machine.cpus - 1
  BY <1>1 DEF CountInv
<1>5. \A c \in APs : c > woken => apc'[c] = "off"
  BY DEF CountInv
<1> QED
  BY <1>2, <1>3, <1>4, <1>5 DEF CountInv

LEMMA BspCount ==
  ASSUME BootInv, CountInv, Call \/ (Bsp /\ ~(StartSmp \/ WakeAp \/ WaitEnds))
  PROVE  CountInv'
<1> DEFINE PCs == {"boot_alloc", "map_mmio", "idle", "map", "free", "panic"} \cup ShootPCs
<1>1. bpc \in PCs
  BY DEF CountInv
<1>2. CASE Call
  <2>1. UNCHANGED <<machine, smp, woken, ready, apc, shoot_ack>>
    BY <1>2 DEF Call, PageAlloc, PageFree, kmalloc, vmm_map, kfree, PageFault, vmm_unmap,
                boot, shoot
  <2>2. bpc' \in PCs
    BY <1>1, <1>2 DEF Call, PageAlloc, PageFree, kmalloc, vmm_map, kfree, PageFault, vmm_unmap,
                paging_map
  <2> QED
    BY <2>1, <2>2, CallCount, SMTT(60)
<1>3. CASE BootAlloc \/ MapMmio \/ AllocTable \/ SetEntry \/ FreePage \/ Freed
  <2>1. UNCHANGED <<machine, smp, woken, ready, apc, shoot_ack>>
    BY <1>3 DEF BootAlloc, MapMmio, AllocTable, SetEntry, FreePage, Freed, boot, shoot
  <2>2. bpc' \in PCs
    BY <1>1, <1>3 DEF BootAlloc, MapMmio, AllocTable, SetEntry, FreePage, Freed, paging_map, ShootPCs
  <2> QED
    BY <2>1, <2>2, CallCount, SMTT(60)
<1>4. CASE PostAddr \/ ResetAck \/ SendIpi \/ SpinDone
  <2>1. UNCHANGED <<machine, smp, woken, ready, apc>> /\ (shoot_ack' = shoot_ack \/ shoot_ack' = 0)
    BY <1>4 DEF PostAddr, ResetAck, SendIpi, SpinDone, boot
  <2>2. bpc' \in PCs
    BY <1>4 DEF PostAddr, ResetAck, SendIpi, SpinDone, ShootPCs
  <2> QED
    BY <2>1, <2>2, CallCount
<1> QED
  BY <1>2, <1>3, <1>4 DEF Bsp

\* kmain and smp_start_aps: the CPUs are woken in their order.
LEMMA SmpCount ==
  ASSUME BootInv, CountInv, StartSmp \/ WakeAp \/ WaitEnds
  PROVE  CountInv'
<1>1. machine.cpus \in Nat \ {0} /\ woken \in Nat /\ DOMAIN apc = CPUs /\ APs = 1 .. machine.cpus - 1
  <2>1. machine.cpus \in Nat \ {0}
    BY CpuFacts
  <2> QED
    BY <2>1 DEF APs, CPUs, BootInv
<1>2. UNCHANGED <<machine, bpc, shoot_ack>>
  BY DEF StartSmp, WakeAp, WaitEnds, boot, shoot
<1>3. APs' = APs /\ CPUs' = CPUs
  BY <1>2 DEF APs, CPUs
<1>4. CASE StartSmp
  <2>1. /\ smp = "none" /\ machine.cpus > 1 /\ smp' = "starting" /\ ready' = 0
        /\ UNCHANGED <<woken, apc>>
    BY <1>4 DEF StartSmp
  <2>2. Entered' \in SUBSET APs
    BY <1>3 DEF Entered
  <2>3. Cardinality(Entered') \in Nat
    BY <2>2, DoneFinite
  <2>4. woken' < machine.cpus - 1 /\ woken' <= machine.cpus - 1 /\ ready' <= Cardinality(Entered')
    BY <1>1, <2>1, <2>3 DEF CountInv
  <2> QED
    BY <1>2, <1>3, <2>1, <2>4 DEF CountInv
<1>5. CASE WakeAp
  <2>1. /\ smp = "starting" /\ woken' = woken + 1 /\ apc' = [apc EXCEPT ![woken + 1] = "woken"]
        /\ smp' = (IF woken + 1 = machine.cpus - 1 THEN "waiting" ELSE "starting")
        /\ ready' = ready
    BY <1>5 DEF WakeAp
  <2>2. woken < machine.cpus - 1
    BY <2>1 DEF CountInv
  <2>3. woken + 1 \in APs /\ APs \subseteq CPUs
    BY <1>1, <2>2 DEF APs
  <2>4. apc[woken + 1] = "off"
    BY <1>1, <2>3 DEF CountInv
  <2>5. apc'[woken + 1] = "woken" /\ \A c \in APs : c # woken + 1 => apc'[c] = apc[c]
    BY <1>1, <2>1, <2>3
  <2>6. Entered' = Entered
    <3>1. \A c \in APs : apc'[c] \in {"off", "woken", "entry"} <=> apc[c] \in {"off", "woken", "entry"}
      BY <2>4, <2>5
    <3> QED
      BY <1>3, <3>1 DEF Entered
  <2>7. \A c \in APs : c > woken' => apc'[c] = "off"
    BY <1>1, <2>1, <2>5 DEF CountInv
  <2>8. woken' <= machine.cpus - 1 /\ (smp' = "starting" => woken' < machine.cpus - 1) /\ smp' # "none"
    BY <1>1, <2>1, <2>2
  <2> QED
    BY <1>2, <1>3, <2>1, <2>6, <2>7, <2>8 DEF CountInv
<1>6. CASE WaitEnds
  <2>1. smp' = "up" /\ UNCHANGED <<woken, ready, apc>>
    BY <1>6 DEF WaitEnds
  <2>2. Entered' = Entered
    BY <1>3, <2>1 DEF Entered
  <2> QED
    BY <1>2, <1>3, <2>1, <2>2 DEF CountInv
<1> QED
  BY <1>4, <1>5, <1>6

\* A step of an AP: it counts itself ready when it enters, and acknowledges
\* what it has done.
LEMMA ApCount ==
  ASSUME IndInv, CountInv, IndInv', NEW c \in CPUs, Ap(c) \/ \E v \in Pages : Translate(c, v)
  PROVE  CountInv'
<1>1. BootInv /\ ShootInv /\ machine.cpus \in Nat \ {0} /\ woken \in Nat /\ DOMAIN apc = CPUs
  BY CpuFacts DEF IndInv, BootInv
<1>2. UNCHANGED <<machine, smp, woken, bpc>>
  BY DEF Ap, LapicInit, EnterWorker, Park, Unpark, TakeIpi, Ack, Translate, boot
<1>3. APs' = APs /\ CPUs' = CPUs
  BY <1>2 DEF APs, CPUs
<1>4. shoot_ack' <= machine.cpus - 1
  <2>1. CASE Ack(c)
    <3>1. c \in APs /\ apc[c] = "isr"
      BY <1>1, <2>1 DEF Ack, ApStep, BootInv, APs
    <3>2. bpc' = "spin"
      BY <1>1, <1>2, <3>1 DEF ShootInv
    <3>3. shoot_ack' \in Nat /\ shoot_ack' <= Cardinality(Done')
      BY <3>2 DEF IndInv, ShootInv
    <3>4. Done' \in SUBSET APs
      BY <1>3 DEF Done
    <3>5. Cardinality(Done') \in Nat /\ Cardinality(Done') <= machine.cpus - 1
      BY <1>1, <3>4, DoneFinite
    <3> QED
      BY <1>1, <3>3, <3>5
  <2>2. CASE ~Ack(c)
    <3>1. shoot_ack' = shoot_ack
      BY <2>2 DEF Ap, LapicInit, EnterWorker, Park, Unpark, TakeIpi, Translate, shoot
    <3> QED
      BY <3>1 DEF CountInv
  <2> QED
    BY <2>1, <2>2
<1>5. CASE apc' = apc /\ ready' = ready
  <2>1. Entered' = Entered
    BY <1>3, <1>5 DEF Entered
  <2> QED
    BY <1>2, <1>3, <1>4, <1>5, <2>1 DEF CountInv
<1>6. CASE EnterWorker(c) \/ LapicInit(c) \/ Park(c) \/ Unpark(c) \/ TakeIpi(c) \/ Ack(c)
  <2>1. PICK from \in {"woken", "entry", "busy", "parked", "isr"},
             to \in {"entry", "busy", "halted", "parked", "isr"} :
          apc[c] = from /\ apc' = [apc EXCEPT ![c] = to]
    BY <1>6 DEF LapicInit, EnterWorker, Park, Unpark, TakeIpi, Ack, ApStep
  <2>2. /\ from = "woken" => to = "entry" /\ ready' = ready
        /\ from = "entry" => to \in {"busy", "halted"} /\ (ready' = ready + 1 \/ ready' = ready)
        /\ from \in {"busy", "parked", "isr"} => to \in {"busy", "parked", "isr"} /\ ready' = ready
    <3>1. apc'[c] = to
      BY <1>1, <2>1
    <3> QED
      BY <1>1, <1>6, <2>1, <3>1 DEF LapicInit, EnterWorker, Park, Unpark, TakeIpi, Ack, ApStep, boot
  <2>3. c \in APs
    BY <1>1, <2>1 DEF BootInv, APs
  <2>4. apc'[c] = to /\ \A d \in APs : d # c => apc'[d] = apc[d]
    BY <1>1, <2>1 DEF APs
  <2>5. \A d \in APs : d > woken => apc'[d] = "off"
    BY <2>1, <2>3, <2>4 DEF CountInv
  <2>6. IsFiniteSet(Entered) /\ Cardinality(Entered) \in Nat
    <3>1. Entered \in SUBSET APs
      BY DEF Entered
    <3> QED
      BY <1>1, <3>1, DoneFinite
  <2>7. ready' \in Nat /\ ready' <= Cardinality(Entered')
    <3>1. CASE from = "entry"
      <4>1. c \notin Entered /\ Entered' = Entered \cup {c}
        BY <1>3, <2>1, <2>2, <2>3, <2>4, <3>1 DEF Entered
      <4>2. Cardinality(Entered') = Cardinality(Entered) + 1
        BY <2>6, <4>1, FS_AddElement
      <4> QED
        BY <2>2, <2>6, <3>1, <4>2 DEF CountInv
    <3>2. CASE from # "entry"
      <4>1. \A d \in APs : apc'[d] \in {"off", "woken", "entry"} <=> apc[d] \in {"off", "woken", "entry"}
        BY <2>1, <2>2, <2>4, <3>2
      <4>2. Entered' = Entered /\ ready' = ready
        BY <1>3, <2>1, <2>2, <3>2, <4>1 DEF Entered
      <4> QED
        BY <4>2 DEF CountInv
    <3> QED
      BY <3>1, <3>2
  <2> QED
    BY <1>2, <1>3, <1>4, <2>5, <2>7 DEF CountInv
<1>7. CASE \E v \in Pages : Translate(c, v)
  <2>1. apc' = apc /\ ready' = ready
    BY <1>7 DEF Translate, boot
  <2> QED
    BY <1>5, <2>1
<1> QED
  BY <1>6, <1>7 DEF Ap

LEMMA NextCount ==
  ASSUME IndInv, IndInv', CountInv, [Next]_vars
  PROVE  CountInv'
<1>1. BootInv
  BY DEF IndInv
<1>2. CASE UNCHANGED vars
  <2>1. UNCHANGED <<machine, smp, woken, ready, apc, bpc, shoot_ack>>
    BY <1>2 DEF vars, boot, shoot
  <2> QED
    BY <1>1, <2>1, CallCount DEF CountInv
<1>3. CASE Bsp \/ Call
  BY <1>1, <1>3, BspCount, SmpCount
<1>4. CASE \E c \in CPUs : Ap(c) \/ \E v \in Pages : Translate(c, v)
  BY <1>4, ApCount
<1> QED
  BY <1>2, <1>3, <1>4 DEF Next

-----------------------------------------------------------------------------
(* Theorems about the memory *)

\* In every reachable state the frames have their owners, the heap's objects
\* and mappings lie within it, and the counters count what they say.
THEOREM MemoryInvariance == Spec => [](FrameInv /\ WorkInv /\ CountInv)
<1>1. Init => FrameInv /\ WorkInv /\ CountInv
  BY InitFrames, InitWork, InitCount
<1>2. /\ IndInv /\ IndInv' /\ FrameInv /\ WorkInv /\ CountInv /\ [Next]_vars
      => (FrameInv /\ WorkInv /\ CountInv)'
  BY NextFrames, NextCount
<1> QED
  BY <1>1, <1>2, Invariance, PTL DEF Spec

\* pmm.c: the bitmap marks exactly what something owns, no frame has two
\* owners, and free_pages counts the rest, for any memory map, any number of
\* pages and any sequence of calls, through every failure and panic.
THEOREM Frames == Spec => []FramesExact
<1>1. FrameInv => FramesExact
  BY DEF FrameInv
<1> QED
  BY <1>1, MemoryInvariance, PTL

\* State of the right shape: in particular the acknowledgements of a shootdown
\* never exceed the number of APs, no more APs are ready than were woken, and
\* blocks and pages lie within the bitmap and the heap.
THEOREM Types == Spec => []TypeOK
<1>1. IndInv /\ FrameInv /\ WorkInv /\ CountInv => TypeOK
  <2> SUFFICES ASSUME IndInv, FrameInv, WorkInv, CountInv
               PROVE  TypeOK
    OBVIOUS
  <2>1. BootInv /\ HeapInv /\ ShootInv /\ FramesExact /\ OwnInv /\ machine \in Machines
    BY DEF IndInv, FrameInv, BootInv
  <2>2. TotalPages \in Nat /\ used \subseteq Tracked
    BY <2>1, TotalFacts, UsedTracked
  <2>3. free_pages \in 0 .. TotalPages
    <3>1. IsFiniteSet(Tracked) /\ Cardinality(Tracked) = TotalPages
      <4>1. 0 \in Int /\ TotalPages - 1 \in Int
            /\ (IF 0 > TotalPages - 1 THEN 0 ELSE (TotalPages - 1) - 0 + 1) = TotalPages
        BY <2>2
      <4> QED
        BY <4>1, FS_Interval DEF Tracked
    <3>2. Cardinality(used) \in Nat /\ Cardinality(used) <= TotalPages
      BY <2>2, <3>1, FS_Subset, FS_CardinalityType
    <3>3. free_pages = TotalPages - Cardinality(used)
      BY <2>1 DEF FramesExact
    <3> QED
      BY <2>2, <3>2, <3>3
  <2>4. woken \in 0 .. machine.cpus - 1 /\ shoot_ack \in 0 .. machine.cpus - 1
    <3>1. machine.cpus \in Nat \ {0}
      BY <2>1, CpuFacts
    <3> QED
      BY <2>1, <3>1 DEF BootInv, ShootInv, CountInv
  <2>5. ready \in 0 .. woken
    <3>1. Entered \subseteq 1 .. woken
      BY <2>1, CpuFacts DEF Entered, CountInv, BootInv, APs, CPUs
    <3>2. IsFiniteSet(1 .. woken) /\ Cardinality(1 .. woken) = woken
      <4>1. 1 \in Int /\ woken \in Int /\ (IF 1 > woken THEN 0 ELSE woken - 1 + 1) = woken
        BY <2>4
      <4> QED
        BY <4>1, FS_Interval
    <3>3. Cardinality(Entered) \in Nat /\ Cardinality(Entered) <= woken
      BY <3>1, <3>2, FS_Subset, FS_CardinalityType, ZenonT(60)
    <3> QED
      BY <2>4, <3>3 DEF CountInv
  <2>6. \A b \in held : b.start \in Tracked
    <3>1. ASSUME NEW b \in held PROVE b.start \in Tracked
      <4>1. b.n \in Nat \ {0} /\ b.start \in Nat /\ b.start + b.n <= TotalPages
        BY <2>1 DEF HeapInv, OwnInv
      <4> QED
        BY <2>2, <4>1 DEF Tracked
    <3> QED
      BY <3>1
  <2>7. DOMAIN mapping \subseteq DOMAIN pte /\ (bpc = "map" => DOMAIN mapping # {})
    BY <2>1 DEF HeapInv, MapSet
  <2>8. bpc \in {"boot_alloc", "map_mmio", "idle", "map", "free", "post", "reset", "send",
                 "spin", "panic"}
    BY DEF CountInv, ShootPCs
  <2>9. /\ DOMAIN tables = Tables /\ DOMAIN pte = Pages \cup {LapicPage} /\ heap_next \in Nat
        /\ total_cpus = (IF smp = "up" THEN machine.cpus ELSE 1)
        /\ shoot_addr \in Pages \cup {None} /\ irr \subseteq APs /\ todo \subseteq Pages
    BY <2>1 DEF HeapInv, OwnInv, BootInv, WorkInv, ShootInv
  <2> QED
    BY <2>2, <2>3, <2>4, <2>5, <2>6, <2>7, <2>8, <2>9 DEF TypeOK
<1> QED
  BY <1>1, Invariance, MemoryInvariance, PTL
=============================================================================
