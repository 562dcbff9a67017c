-------------------------- MODULE VirtioBlk_proofs --------------------------
(***************************************************************************)
(* The virtio block driver (virtio_blk.c, virtio_pci.c) against a device   *)
(* that answers late, with errors or never, for every queue size, disk and *)
(* number of requests.                                                     *)
(***************************************************************************)
EXTENDS VirtioBlk, TLAPS, FiniteSetTheorems, WellFoundedInduction

-----------------------------------------------------------------------------
(* Chains of descriptors *)

\* Nothing smaller than F with the end is closed under the links from h on.
Whole(F, h, link) ==
  \A C \in SUBSET (F \cup {End}) :
    h \in C /\ (\A d \in C \ {End} : link[d] \in C) => C = F \cup {End}

\* The links from h lead through all of F, once each, and end.
Chained(F, h, link) ==
  /\ h \in F \cup {End}
  /\ \A d \in F : link[d] \in F \cup {End}
  /\ \A d \in F : link[d] # End => link[d] # h
  /\ \A d, e \in F : link[d] # End /\ link[d] = link[e] => d = e
  /\ Whole(F, h, link)

LEMMA ChainHead ==
  ASSUME NEW F, NEW h, NEW link, Chained(F, h, link), NEW x \in F, End \notin F
  PROVE  h \in F
<1> SUFFICES ASSUME h = End PROVE FALSE
  BY DEF Chained
<1>1. {End} \in SUBSET (F \cup {End}) /\ \A d \in {End} \ {End} : link[d] \in {End}
  OBVIOUS
<1>2. {End} = F \cup {End}
  BY <1>1, Zenon DEF Chained, Whole
<1> QED
  BY <1>2

LEMMA ChainPop ==
  ASSUME NEW F, NEW h \in F, NEW link, Chained(F, h, link), End \notin F
  PROVE  Chained(F \ {h}, link[h], link)
<1>1. link[h] \in (F \ {h}) \cup {End}
  BY DEF Chained
<1>2. \A d \in F \ {h} : link[d] \in (F \ {h}) \cup {End}
  BY DEF Chained
<1>3. \A d \in F \ {h} : link[d] # End => link[d] # link[h]
  BY DEF Chained
<1>4. ASSUME NEW C \in SUBSET ((F \ {h}) \cup {End}), link[h] \in C,
             \A d \in C \ {End} : link[d] \in C
      PROVE  C = (F \ {h}) \cup {End}
  <2>1. C \cup {h} \in SUBSET (F \cup {End}) /\ h \in C \cup {h}
        /\ \A d \in (C \cup {h}) \ {End} : link[d] \in C \cup {h}
    BY <1>4
  <2>2. C \cup {h} = F \cup {End}
    BY <2>1, Zenon DEF Chained, Whole
  <2> QED
    BY <1>4, <2>2
<1>5. Whole(F \ {h}, link[h], link)
  BY <1>4 DEF Whole
<1> QED
  BY <1>1, <1>2, <1>3, <1>5 DEF Chained

LEMMA ChainPush ==
  ASSUME NEW F, NEW h, NEW d, NEW link, Chained(F, h, link), d \notin F, d # End, link[d] = h
  PROVE  Chained(F \cup {d}, d, link)
<1>1. \A e \in F \cup {d} : link[e] \in (F \cup {d}) \cup {End}
  BY DEF Chained
<1>2. \A e \in F \cup {d} : link[e] # End => link[e] # d
  BY DEF Chained
<1>3. \A e, f \in F \cup {d} : link[e] # End /\ link[e] = link[f] => e = f
  BY DEF Chained
<1>4. ASSUME NEW C \in SUBSET ((F \cup {d}) \cup {End}), d \in C,
             \A e \in C \ {End} : link[e] \in C
      PROVE  C = (F \cup {d}) \cup {End}
  <2>1. /\ C \ {d} \in SUBSET (F \cup {End}) /\ h \in C \ {d}
        /\ \A e \in (C \ {d}) \ {End} : link[e] \in C \ {d}
    BY <1>4 DEF Chained
  <2>2. C \ {d} = F \cup {End}
    BY <2>1, Zenon DEF Chained, Whole
  <2> QED
    BY <1>4, <2>2
<1>5. Whole(F \cup {d}, d, link)
  BY <1>4 DEF Whole
<1> QED
  BY <1>1, <1>2, <1>3, <1>5 DEF Chained

\* Links from outside the chain do not matter.
LEMMA ChainSame ==
  ASSUME NEW F, NEW h, NEW link, NEW new, Chained(F, h, link), \A d \in F : new[d] = link[d]
  PROVE  Chained(F, h, new)
<1>1. ASSUME NEW C \in SUBSET (F \cup {End}), h \in C, \A d \in C \ {End} : new[d] \in C
      PROVE  C = F \cup {End}
  <2>1. \A d \in C \ {End} : link[d] \in C
    BY <1>1
  <2> QED
    BY <1>1, <2>1 DEF Chained, Whole
<1>2. Whole(F, h, new)
  BY <1>1 DEF Whole
<1> QED
  BY <1>2 DEF Chained

\* virtio_blk_do_io takes three descriptors from the chain ...
LEMMA Take3 ==
  ASSUME NEW F, NEW link, NEW a, NEW b, NEW c, Chained(F, a, link), End \notin F,
         IsFiniteSet(F), Cardinality(F) >= 3, b = link[a], c = link[b]
  PROVE  /\ a \in F /\ b \in F \ {a} /\ c \in (F \ {a}) \ {b}
         /\ Chained(F \ {a, b, c}, link[c], link)
         /\ IsFiniteSet(F \ {a, b, c}) /\ Cardinality(F \ {a, b, c}) = Cardinality(F) - 3
<1>1. Cardinality(F) \in Nat /\ Cardinality({}) = 0
  BY FS_CardinalityType, FS_EmptySet
<1>2. PICK x : x \in F
  BY <1>1
<1>3. a \in F
  BY <1>2, ChainHead
<1>4. PICK G : G = F \ {a}
  OBVIOUS
<1>5. Chained(G, b, link) /\ End \notin G
  BY <1>3, <1>4, ChainPop
<1>6. IsFiniteSet(G) /\ Cardinality(G) = Cardinality(F) - 1
  BY <1>3, <1>4, FS_RemoveElement
<1>7. PICK y : y \in G
  BY <1>1, <1>6
<1>8. b \in G
  BY <1>5, <1>7, ChainHead
<1>9. PICK H : H = G \ {b}
  OBVIOUS
<1>10. Chained(H, c, link) /\ End \notin H
  BY <1>5, <1>8, <1>9, ChainPop
<1>11. IsFiniteSet(H) /\ Cardinality(H) = Cardinality(G) - 1
  BY <1>6, <1>8, <1>9, FS_RemoveElement
<1>12. PICK z : z \in H
  BY <1>1, <1>6, <1>11
<1>13. c \in H
  BY <1>10, <1>12, ChainHead
<1>14. Chained(H \ {c}, link[c], link)
  BY <1>10, <1>13, ChainPop
<1>15. IsFiniteSet(H \ {c}) /\ Cardinality(H \ {c}) = Cardinality(H) - 1
  BY <1>11, <1>13, FS_RemoveElement
<1>16. H \ {c} = F \ {a, b, c}
  BY <1>4, <1>9
<1>17. Cardinality(H \ {c}) = Cardinality(F) - 3
  BY <1>1, <1>6, <1>11, <1>15
<1> QED
  BY <1>3, <1>4, <1>8, <1>9, <1>13, <1>14, <1>15, <1>16, <1>17

\* ... and puts them back before its head.
LEMMA Give3 ==
  ASSUME NEW F, NEW h, NEW link, NEW a, NEW b, NEW c, Chained(F, h, link),
         IsFiniteSet(F), a \notin F, b \notin F, c \notin F, a # End, b # End, c # End,
         a # b, a # c, b # c,
         link[c] = h, link[b] = c, link[a] = b
  PROVE  /\ Chained(F \cup {a, b, c}, a, link)
         /\ IsFiniteSet(F \cup {a, b, c}) /\ Cardinality(F \cup {a, b, c}) = Cardinality(F) + 3
<1>1. Cardinality(F) \in Nat
  BY FS_CardinalityType
<1>2. PICK G : G = F \cup {c}
  OBVIOUS
<1>3. Chained(G, c, link)
  BY <1>2, ChainPush
<1>4. IsFiniteSet(G) /\ Cardinality(G) = Cardinality(F) + 1
  BY <1>2, FS_AddElement
<1>5. PICK H : H = G \cup {b}
  OBVIOUS
<1>6. b \notin G
  BY <1>2
<1>7. Chained(H, b, link)
  BY <1>3, <1>5, <1>6, ChainPush
<1>8. IsFiniteSet(H) /\ Cardinality(H) = Cardinality(G) + 1
  BY <1>4, <1>5, <1>6, FS_AddElement
<1>9. a \notin H
  BY <1>2, <1>5
<1>10. Chained(H \cup {a}, a, link)
  BY <1>7, <1>9, ChainPush
<1>11. IsFiniteSet(H \cup {a}) /\ Cardinality(H \cup {a}) = Cardinality(H) + 1
  BY <1>8, <1>9, FS_AddElement
<1>12. H \cup {a} = F \cup {a, b, c}
  BY <1>2, <1>5
<1>13. Cardinality(H \cup {a}) = Cardinality(F) + 3
  BY <1>1, <1>4, <1>8, <1>11
<1> QED
  BY <1>10, <1>11, <1>12, <1>13

\* The least of a set of numbers, for an argument by the least exception.
LEMMA Least ==
  ASSUME NEW S, S \subseteq Nat, S # {}
  PROVE  \E x \in S : \A y \in S : x <= y
<1>1. PICK x \in S : \A y \in S : <<y, x>> \notin OpToRel(<, Nat)
  <2>1. IsWellFoundedOn(OpToRel(<, Nat), Nat)
    BY NatLessThanWellFounded, Zenon
  <2> QED
    BY <2>1, WFMin, Zenon
<1>2. \A y \in S : ~(y < x)
  BY <1>1 DEF OpToRel
<1> QED
  BY <1>2

\* The chain that virtio_pci_setup_queue makes.
LEMMA ChainRow ==
  ASSUME NEW n \in Nat \ {0}, End \notin 0 .. n - 1, NEW link,
         \A d \in 0 .. n - 1 : link[d] = IF d = n - 1 THEN End ELSE d + 1
  PROVE  Chained(0 .. n - 1, 0, link)
<1>1. ASSUME NEW C \in SUBSET ((0 .. n - 1) \cup {End}), 0 \in C,
             \A d \in C \ {End} : link[d] \in C
      PROVE  C = (0 .. n - 1) \cup {End}
  <2>1. ASSUME NEW d \in 0 .. n - 1 PROVE d \in C
    <3> DEFINE Out == {e \in 0 .. n - 1 : e \notin C}
    <3> SUFFICES ASSUME Out # {} PROVE FALSE
      BY <2>1
    <3>0. Out \subseteq Nat
      OBVIOUS
    <3>1. PICK x \in Out : \A y \in Out : x <= y
      BY <3>0, Least, Zenon
    <3>2. x # 0 /\ x \in 0 .. n - 1 /\ x \notin C
      BY <1>1, <3>1
    <3>3. x - 1 \in 0 .. n - 1 /\ x - 1 \notin Out
      BY <3>1, <3>2
    <3>4. x - 1 \in C \ {End} /\ link[x - 1] = x
      BY <3>2, <3>3
    <3> QED
      BY <1>1, <3>2, <3>4
  <2>2. n - 1 \in C \ {End} /\ link[n - 1] = End
    BY <2>1
  <2> QED
    BY <1>1, <2>1, <2>2
<1>2. Whole(0 .. n - 1, 0, link)
  BY <1>1 DEF Whole
<1>3. \A d \in 0 .. n - 1 : link[d] \in (0 .. n - 1) \cup {End} /\ (link[d] # End => link[d] # 0)
  OBVIOUS
<1>4. \A d, e \in 0 .. n - 1 : link[d] # End /\ link[d] = link[e] => d = e
  OBVIOUS
<1> QED
  BY <1>2, <1>3, <1>4 DEF Chained

-----------------------------------------------------------------------------
(* The inductive invariant *)

PCs == {"kmain", "booted", "idle", "begin", "push", "index", "notify", "poll", "check"}
OwnChain == {"push", "index", "notify", "poll"}
Given == {"notify", "poll"}
Word == 0 .. W - 1

ShapeInv ==
  /\ machine \in Machines /\ pc \in PCs /\ phase \in {T_IN, T_OUT}
  /\ DOMAIN next = Descs /\ \A d \in Descs : next[d] \in Descs \cup {End}
  /\ DOMAIN avail_ring = Descs /\ DOMAIN disk = Sectors
  /\ DOMAIN report = {T_OUT, T_IN}
  /\ last_used_idx \in Word /\ avail_idx \in Word /\ used_idx \in Word /\ dev_idx \in Word
  /\ status \in {"ok", "error", "unset"}

\* A disk is used only after virtio_blk_init found one.
BootInv ==
  /\ Requesting \/ blk_capacity # 0 \/ has_page => dev_status = "driver_ok"
  /\ pc = "kmain" => dev_status = "reset" /\ report[T_IN] = "none"
  /\ dev_status = "driver_ok" => Num > 0
  /\ dev_status # "driver_ok" => num_free = 0 /\ free_head = 0 /\ mine = <<>> /\ stranded = {}

\* The call under way has a chain of three descriptors from Prepare to Reap or
\* TimeOut, and its links stay as Prepare made them.
MineInv ==
  /\ pc \notin OwnChain => mine = <<>>
  /\ pc \in OwnChain =>
       \E a, b, c \in Descs \ stranded :
         /\ mine = <<a, b, c>> /\ a # b /\ a # c /\ b # c
         /\ next[a] = b /\ next[b] = c
  /\ stranded \subseteq Descs

ChainInv == dev_status = "driver_ok" => /\ Chained(Free, free_head, next)
                                        /\ num_free = Cardinality(Free)

\* Until a request times out, at most one is with the device, and driver and
\* device agree on where it is.
IdxInv ==
  ~lapsed =>
    /\ pc = "kmain" => last_used_idx = 0
    /\ pc \notin Given => /\ avail_idx = last_used_idx /\ used_idx = last_used_idx
                          /\ dev_idx = last_used_idx /\ serving = "no"
    /\ pc = "index" => avail_ring[last_used_idx % Num] = mine[1]
    /\ pc \in Given =>
         /\ avail_idx = (last_used_idx + 1) % W
         /\ avail_ring[last_used_idx % Num] = mine[1]
         /\ \/ dev_idx = last_used_idx /\ used_idx = last_used_idx /\ serving = "no"
            \/ dev_idx = avail_idx /\ used_idx = last_used_idx /\ serving # "no"
            \/ dev_idx = avail_idx /\ used_idx = avail_idx /\ serving = "no"

\* Until then the one DMA page belongs to that request: what the device reads is
\* what the driver wrote, and a status of ok says that page and sector agree.
DataInv ==
  ~lapsed =>
    /\ pc \in OwnChain \cup {"check"} =>
         /\ header = [type |-> phase, sector |-> cmd.sector]
         /\ phase = T_OUT => data = cmd.byte
         /\ status = "ok" => cmd.sector \in Sectors /\ disk[cmd.sector] = data
    /\ serving # "no" => job = header
    /\ Requesting /\ phase = T_OUT => report[T_IN] # "ok"
    /\ Requesting /\ phase = T_IN /\ report[T_OUT] = "ok" =>
         cmd.sector \in Sectors /\ disk[cmd.sector] = cmd.byte
    /\ ReadsBack

IndInv == ShapeInv /\ BootInv /\ MineInv /\ ChainInv /\ IdxInv /\ DataInv

LEMMA Kinds == T_OUT = "write" /\ T_IN = "read" /\ T_OUT # T_IN
BY DEF T_OUT, T_IN

LEMMA Consts ==
  /\ W \in Nat /\ W > 0 /\ End \in Nat
  /\ \A m \in Machines : m.num \in Nat /\ m.num <= End /\ m.cap \in Nat
<1>1. End \in Nat
  BY DEF End
<1> QED
  BY <1>1, VirtioAssumption

LEMMA Sizes ==
  ASSUME machine \in Machines
  PROVE  /\ Num \in Nat /\ Descs = 0 .. Num - 1 /\ End \notin Descs
         /\ IsFiniteSet(Descs) /\ Cardinality(Descs) = Num
<1>1. Num \in Nat /\ Num <= End /\ End \in Nat
  BY Consts DEF Num
<1>2. IsFiniteSet(0 .. Num - 1) /\ Cardinality(0 .. Num - 1) = Num
  <2>1. 0 \in Int /\ Num - 1 \in Int /\ (IF 0 > Num - 1 THEN 0 ELSE (Num - 1) - 0 + 1) = Num
    BY <1>1
  <2> QED
    BY <2>1, FS_Interval
<1> QED
  BY <1>1, <1>2 DEF Descs

LEMMA Triple ==
  /\ ToSet(<<>>) = {}
  /\ \A a, b, c : ToSet(<<a, b, c>>) = {a, b, c} /\ <<a, b, c>>[1] = a
                  /\ <<a, b, c>>[2] = b /\ <<a, b, c>>[3] = c
BY DEF ToSet

LEMMA FreeFacts ==
  ASSUME machine \in Machines
  PROVE  IsFiniteSet(Free) /\ Cardinality(Free) \in 0 .. Num /\ End \notin Free /\ Free \subseteq Descs
<1>1. Free \subseteq Descs
  BY DEF Free
<1>2. IsFiniteSet(Free) /\ Cardinality(Free) <= Num
  BY <1>1, Sizes, FS_Subset
<1>3. Cardinality(Free) \in Nat
  BY <1>2, FS_CardinalityType
<1> QED
  BY <1>1, <1>2, <1>3, Sizes

LEMMA Turn ==
  ASSUME NEW x \in Word
  PROVE  (x + 1) % W \in Word
BY Consts DEF Word

-----------------------------------------------------------------------------
(* Three descriptors leave the free chain, and come back *)

LEMMA Taken ==
  ASSUME ShapeInv, BootInv, MineInv, ChainInv, Prepare
  PROVE  \E a, b, c \in Free :
           /\ mine = <<>> /\ mine' = <<a, b, c>> /\ a # b /\ a # c /\ b # c
           /\ next' = [next EXCEPT ![a] = b, ![b] = c, ![c] = 0]
           /\ free_head' = next[c] /\ num_free' = Cardinality(Free \ {a, b, c})
           /\ Chained(Free \ {a, b, c}, next[c], next)
<1>1. machine \in Machines /\ dev_status = "driver_ok" /\ mine = <<>>
  BY DEF ShapeInv, BootInv, MineInv, OwnChain, Prepare, Requesting
<1>2. Chained(Free, free_head, next) /\ num_free = Cardinality(Free) /\ num_free >= 3
  BY <1>1 DEF ChainInv, Prepare
<1>3. PICK a, b, c : a = free_head /\ b = next[a] /\ c = next[b]
  OBVIOUS
<1>4. IsFiniteSet(Free) /\ End \notin Free
  BY <1>1, FreeFacts
<1>5. /\ a \in Free /\ b \in Free \ {a} /\ c \in (Free \ {a}) \ {b}
      /\ Chained(Free \ {a, b, c}, next[c], next)
      /\ Cardinality(Free \ {a, b, c}) = Cardinality(Free) - 3
  BY <1>2, <1>3, <1>4, Take3
<1>6. /\ mine' = <<a, b, c>> /\ free_head' = next[c] /\ num_free' = num_free - 3
      /\ next' = [next EXCEPT ![a] = b, ![b] = c, ![c] = 0]
  BY <1>3 DEF Prepare
<1> QED
  BY <1>1, <1>2, <1>5, <1>6

LEMMA GivenBack ==
  ASSUME ShapeInv, BootInv, MineInv, Reap
  PROVE  \E a, b, c \in Descs \ stranded :
           /\ mine = <<a, b, c>> /\ mine' = <<>> /\ a # b /\ a # c /\ b # c
           /\ dev_status = "driver_ok"
           /\ next' = [next EXCEPT ![c] = free_head, ![b] = c, ![a] = b]
           /\ free_head' = a /\ num_free' = num_free + 3
<1>1. pc = "poll" /\ dev_status = "driver_ok"
  BY DEF BootInv, Reap, Requesting
<1>2. PICK a, b, c \in Descs \ stranded : mine = <<a, b, c>> /\ a # b /\ a # c /\ b # c
  BY <1>1 DEF MineInv, OwnChain
<1>3. /\ mine' = <<>> /\ free_head' = a /\ num_free' = num_free + 3
      /\ next' = [next EXCEPT ![c] = free_head, ![b] = c, ![a] = b]
  BY <1>2 DEF Reap
<1> QED
  BY <1>1, <1>2, <1>3

-----------------------------------------------------------------------------
(* Shape and boot *)

LEMMA SameMachine ==
  ASSUME [Next]_vars
  PROVE  machine' = machine /\ Num' = Num /\ Descs' = Descs /\ Sectors' = Sectors
<1>1. machine' = machine
  BY DEF Next, vars, NoDisk, virtio_blk_init, CliRun, DoIo, Device, Refuse, Prepare, PushRing, PushIndex,
         virtio_pci_notify, TimeOut, Reap, Check, Return, DeviceFetch, DeviceMove, DeviceUsed,
         DeviceSleep, cmd_blkread, cmd_blkwrite, Command
<1> QED
  BY <1>1 DEF Num, Descs, Sectors

\* What a step other than the two that take and return descriptors, and the
\* initialisation, does to the queue: nothing but push a head or give up.
LEMMA Elsewhere ==
  ASSUME [Next]_vars, ~virtio_blk_init, ~Prepare, ~Reap
  PROVE  next' = next /\ free_head' = free_head /\ num_free' = num_free
         /\ last_used_idx' = last_used_idx
BY DEF Next, vars, queue, device, NoDisk, CliRun, DoIo, Device, Refuse, PushRing, PushIndex, virtio_pci_notify,
       TimeOut, Check, Return, DeviceFetch, DeviceMove, DeviceUsed, DeviceSleep, cmd_blkread,
       cmd_blkwrite, Command

LEMMA ShapeNext ==
  ASSUME ShapeInv, BootInv, MineInv, ChainInv, [Next]_vars
  PROVE  ShapeInv'
<1>1. machine' = machine /\ Num' = Num /\ Descs' = Descs /\ Sectors' = Sectors
  BY SameMachine
<1>2. machine \in Machines /\ Num \in Nat /\ Descs = 0 .. Num - 1
  BY Sizes DEF ShapeInv
<1>3. pc' \in PCs /\ phase' \in {T_IN, T_OUT} /\ DOMAIN report' = {T_OUT, T_IN}
  BY Kinds, ZenonT(60) DEF ShapeInv, Next, vars, user, NoDisk, virtio_blk_init, CliRun, DoIo, Device, Refuse,
         Prepare, PushRing, PushIndex, virtio_pci_notify, TimeOut, Reap, Check, Return, DeviceFetch, DeviceMove,
         DeviceUsed, DeviceSleep, cmd_blkread, cmd_blkwrite, Command, PCs
<1>4. DOMAIN next' = Descs /\ \A d \in Descs : next'[d] \in Descs \cup {End}
  <2>1. CASE virtio_blk_init
    <3>1. next' = [d \in Descs |-> IF d = Num - 1 THEN End ELSE d + 1]
      BY <2>1 DEF virtio_blk_init, FreeChain
    <3> QED
      BY <1>2, <3>1
  <2>2. CASE Prepare
    <3>1. PICK a, b, c \in Free : next' = [next EXCEPT ![a] = b, ![b] = c, ![c] = 0]
      BY <2>2, Taken
    <3>2. a \in Descs /\ b \in Descs /\ c \in Descs /\ 0 \in Descs
      BY <1>2 DEF Free
    <3> QED
      BY <3>1, <3>2 DEF ShapeInv
  <2>3. CASE Reap
    <3>1. PICK a, b, c \in Descs \ stranded :
            /\ next' = [next EXCEPT ![c] = free_head, ![b] = c, ![a] = b]
            /\ dev_status = "driver_ok"
      BY <2>3, GivenBack
    <3>2. free_head \in Descs \cup {End}
      BY <3>1 DEF ChainInv, Chained, Free
    <3> QED
      BY <3>1, <3>2 DEF ShapeInv
  <2>4. CASE ~virtio_blk_init /\ ~Prepare /\ ~Reap
    BY <2>4, Elsewhere DEF ShapeInv
  <2> QED
    BY <2>1, <2>2, <2>3, <2>4
<1>5. DOMAIN avail_ring' = Descs /\ DOMAIN disk' = Sectors
  BY DEF ShapeInv, Next, vars, queue, device, NoDisk, virtio_blk_init, CliRun, DoIo, Device, Refuse,
         Prepare, PushRing, PushIndex, virtio_pci_notify, TimeOut, Reap, Check, Return, DeviceFetch, DeviceMove,
         DeviceUsed, DeviceSleep, cmd_blkread, cmd_blkwrite, Command
<1>6. last_used_idx' \in Word
  <2>1. 0 \in Word
    BY Consts DEF Word
  <2>2. CASE virtio_blk_init
    BY <2>1, <2>2 DEF virtio_blk_init
  <2>3. CASE Reap
    BY <2>3, Turn DEF Reap, ShapeInv
  <2>4. CASE ~virtio_blk_init /\ ~Reap
    BY <2>4, Elsewhere DEF ShapeInv, Prepare
  <2> QED
    BY <2>2, <2>3, <2>4
<1>7. avail_idx' \in Word
  <2>1. CASE PushIndex
    BY <2>1, Turn DEF PushIndex, ShapeInv
  <2>2. CASE ~PushIndex
    BY <2>2 DEF ShapeInv, Next, vars, queue, NoDisk, virtio_blk_init, CliRun, DoIo, Device,
         Refuse, Prepare, PushRing, virtio_pci_notify, TimeOut, Reap, Check, Return, DeviceFetch,
         DeviceMove, DeviceUsed, DeviceSleep, cmd_blkread, cmd_blkwrite, Command
  <2> QED
    BY <2>1, <2>2
<1>8. used_idx' \in Word /\ dev_idx' \in Word
  <2>1. CASE DeviceFetch \/ DeviceUsed
    BY <2>1, Turn DEF DeviceFetch, DeviceUsed, ShapeInv
  <2>2. CASE ~DeviceFetch /\ ~DeviceUsed
    BY <2>2 DEF ShapeInv, Next, vars, device, NoDisk, virtio_blk_init, CliRun, DoIo, Device,
         Refuse, Prepare, PushRing, PushIndex, virtio_pci_notify, TimeOut, Reap, Check, Return, DeviceMove,
         DeviceSleep, cmd_blkread, cmd_blkwrite, Command
  <2> QED
    BY <2>1, <2>2
<1>9. status' \in {"ok", "error", "unset"}
  BY DEF ShapeInv, Next, vars, dma, NoDisk, virtio_blk_init, CliRun, DoIo, Device,
         Refuse, Prepare, PushRing, PushIndex, virtio_pci_notify, TimeOut, Reap, Check, Return, DeviceFetch,
         DeviceMove, DeviceUsed, DeviceSleep, cmd_blkread, cmd_blkwrite, Command
<1>10. Word' = Word
  BY DEF Word
<1> QED
  BY <1>1, <1>2, <1>3, <1>4, <1>5, <1>6, <1>7, <1>8, <1>9, <1>10 DEF ShapeInv

LEMMA BootNext ==
  ASSUME ShapeInv, BootInv, MineInv, [Next]_vars
  PROVE  BootInv'
<1>1. Num' = Num
  BY SameMachine
<1>2. CASE NoDisk
  BY <1>1, <1>2 DEF BootInv, NoDisk, Requesting, user, queue
<1>3. CASE virtio_blk_init
  BY <1>1, <1>3 DEF BootInv, virtio_blk_init, Requesting
<1>4. CASE CliRun
  <2>1. has_page' => blk_capacity # 0
    <3>1. ~(0 > 0)
      OBVIOUS
    <3>2. has_page' \in IF blk_capacity > 0 THEN BOOLEAN ELSE {FALSE}
      BY <1>4 DEF CliRun
    <3> QED
      BY <3>1, <3>2, Zenon
  <2> QED
    BY <1>1, <1>4, <2>1 DEF BootInv, CliRun, Requesting, queue, device
<1>5. CASE DoIo
  <2>1. Requesting /\ dev_status = "driver_ok" /\ dev_status' = dev_status /\ Num > 0
    BY <1>5 DEF BootInv, DoIo, Refuse, Prepare, PushRing, PushIndex, virtio_pci_notify, TimeOut, Reap, Check,
         Requesting, device
  <2>2. pc' # "kmain"
    BY <1>5 DEF DoIo, Refuse, Prepare, PushRing, PushIndex, virtio_pci_notify, TimeOut, Reap, Check, Return
  <2> QED
    BY <1>1, <2>1, <2>2 DEF BootInv
<1>6. CASE Device
  BY <1>1, <1>6 DEF BootInv, Device, DeviceFetch, DeviceMove, DeviceUsed, DeviceSleep, Requesting,
         user, queue
<1>7. ASSUME NEW s, NEW b, cmd_blkread(s) \/ cmd_blkwrite(s, b)
      PROVE  BootInv'
  BY <1>1, <1>7 DEF BootInv, cmd_blkread, cmd_blkwrite, Command, Requesting, queue, device
<1>8. CASE UNCHANGED vars
  BY <1>1, <1>8 DEF BootInv, vars, Requesting, user, queue, device
<1> QED
  BY <1>2, <1>3, <1>4, <1>5, <1>6, <1>7, <1>8 DEF Next

LEMMA MineNext ==
  ASSUME ShapeInv, BootInv, MineInv, ChainInv, [Next]_vars
  PROVE  MineInv'
<1>1. Descs' = Descs
  BY SameMachine
<1>2. CASE Prepare
  <2>1. PICK a, b, c \in Free :
          /\ mine' = <<a, b, c>> /\ a # b /\ a # c /\ b # c
          /\ next' = [next EXCEPT ![a] = b, ![b] = c, ![c] = 0]
    BY <1>2, Taken
  <2>2. pc' = "push" /\ stranded' = stranded
    BY <1>2 DEF Prepare
  <2>3. a \in Descs \ stranded /\ b \in Descs \ stranded /\ c \in Descs \ stranded
    BY DEF Free
  <2>4. next'[a] = b /\ next'[b] = c
    BY <2>1, <2>3 DEF ShapeInv
  <2> QED
    BY <1>1, <2>1, <2>2, <2>3, <2>4 DEF MineInv, OwnChain
<1>3. CASE Reap
  <2>1. mine' = <<>> /\ pc' = "check" /\ stranded' = stranded
    BY <1>3 DEF Reap
  <2> QED
    BY <1>1, <2>1 DEF MineInv, OwnChain
<1>4. CASE TimeOut
  <2>1. PICK a, b, c \in Descs \ stranded : mine = <<a, b, c>>
    BY <1>4 DEF MineInv, OwnChain, TimeOut
  <2>2. ToSet(mine) = {a, b, c}
    BY <2>1, Triple
  <2>3. mine' = <<>> /\ pc' \notin OwnChain /\ stranded' = stranded \cup ToSet(mine)
    BY <1>4 DEF TimeOut, Return, OwnChain
  <2> QED
    BY <1>1, <2>2, <2>3 DEF MineInv
<1>5. CASE PushRing \/ PushIndex \/ virtio_pci_notify
  BY <1>1, <1>5 DEF MineInv, PushRing, PushIndex, virtio_pci_notify, OwnChain, queue
<1>6. CASE Refuse \/ Check
  <2>1. pc \notin OwnChain /\ pc' \notin OwnChain /\ mine' = mine /\ stranded' = stranded
    BY <1>6 DEF Refuse, Check, Return, OwnChain, queue
  <2> QED
    BY <1>1, <2>1 DEF MineInv
<1>7. CASE Device \/ UNCHANGED vars
  BY <1>1, <1>7 DEF MineInv, Device, DeviceFetch, DeviceMove, DeviceUsed, DeviceSleep, queue, vars
<1>8. CASE NoDisk \/ virtio_blk_init \/ CliRun
  <2>1. pc \notin OwnChain /\ pc' \notin OwnChain /\ mine' = mine /\ stranded' = stranded
    BY <1>8 DEF NoDisk, virtio_blk_init, CliRun, OwnChain, queue
  <2> QED
    BY <1>1, <2>1 DEF MineInv
<1>9. ASSUME NEW s, NEW b, cmd_blkread(s) \/ cmd_blkwrite(s, b)
      PROVE  MineInv'
  <2>1. pc \notin OwnChain /\ pc' \notin OwnChain /\ mine' = mine /\ stranded' = stranded
    BY <1>9 DEF cmd_blkread, cmd_blkwrite, Command, OwnChain, queue
  <2> QED
    BY <1>1, <2>1 DEF MineInv
<1> QED
  BY <1>2, <1>3, <1>4, <1>5, <1>6, <1>7, <1>8, <1>9 DEF Next, DoIo

-----------------------------------------------------------------------------
(* The free chain *)

LEMMA ChainNext ==
  ASSUME ShapeInv, BootInv, MineInv, ChainInv, [Next]_vars
  PROVE  ChainInv'
<1>1. machine \in Machines /\ Descs' = Descs /\ Num' = Num
  BY SameMachine DEF ShapeInv
<1>2. CASE virtio_blk_init
  <2>1. mine = <<>> /\ stranded = {} /\ mine' = mine /\ stranded' = stranded /\ Num > 0
    BY <1>2 DEF virtio_blk_init, BootInv
  <2>2. Free' = Descs
    BY <1>1, <2>1, Triple DEF Free
  <2>3. free_head' = 0 /\ num_free' = Num
        /\ next' = [d \in Descs |-> IF d = Num - 1 THEN End ELSE d + 1]
    BY <1>2 DEF virtio_blk_init, FreeChain
  <2>4. Num \in Nat \ {0} /\ Descs = 0 .. Num - 1 /\ End \notin Descs /\ Cardinality(Descs) = Num
    BY <1>1, <2>1, Sizes
  <2>5. Chained(0 .. Num - 1, 0, next')
    <3>1. \A d \in 0 .. Num - 1 : next'[d] = IF d = Num - 1 THEN End ELSE d + 1
      BY <2>3, <2>4
    <3> QED
      BY <2>4, <3>1, ChainRow
  <2>6. Chained(Free', free_head', next')
    BY <2>2, <2>3, <2>4, <2>5
  <2>7. (Chained(Free, free_head, next))'
    BY <2>6 DEF Chained, Whole
  <2> QED
    BY <2>2, <2>3, <2>4, <2>7 DEF ChainInv
<1>3. CASE Prepare
  <2>1. PICK a, b, c \in Free :
          /\ mine = <<>> /\ mine' = <<a, b, c>>
          /\ next' = [next EXCEPT ![a] = b, ![b] = c, ![c] = 0]
          /\ free_head' = next[c] /\ num_free' = Cardinality(Free \ {a, b, c})
          /\ Chained(Free \ {a, b, c}, next[c], next)
    BY <1>3, Taken
  <2>2. Free' = Free \ {a, b, c}
    <3>1. stranded' = stranded
      BY <1>3 DEF Prepare
    <3> QED
      BY <1>1, <2>1, <3>1, Triple DEF Free
  <2>3. \A d \in Free \ {a, b, c} : next'[d] = next[d]
    BY <2>1 DEF ShapeInv, Free
  <2>4. Chained(Free \ {a, b, c}, next[c], next')
    BY <2>1, <2>3, ChainSame
  <2>5. (Chained(Free, free_head, next))'
    BY <2>1, <2>2, <2>4 DEF Chained, Whole
  <2> QED
    BY <2>1, <2>2, <2>5 DEF ChainInv
<1>4. CASE Reap
  <2>1. PICK a, b, c \in Descs \ stranded :
           /\ mine = <<a, b, c>> /\ mine' = <<>> /\ a # b /\ a # c /\ b # c
           /\ dev_status = "driver_ok"
           /\ next' = [next EXCEPT ![c] = free_head, ![b] = c, ![a] = b]
           /\ free_head' = a /\ num_free' = num_free + 3
    BY <1>4, GivenBack
  <2>2. Free = (Descs \ {a, b, c}) \ stranded
    BY <2>1, Triple DEF Free
  <2>3. Free' = Free \cup {a, b, c}
    <3>1. stranded' = stranded
      BY <1>4 DEF Reap
    <3> QED
      BY <1>1, <2>1, <2>2, <3>1, Triple DEF Free
  <2>4. IsFiniteSet(Free) /\ End \notin Descs
    BY <1>1, FreeFacts, Sizes
  <2>5. Chained(Free, free_head, next) /\ num_free = Cardinality(Free)
    BY <2>1 DEF ChainInv
  <2>6. \A d \in Free : next'[d] = next[d]
    BY <2>1, <2>2 DEF ShapeInv
  <2>7. next'[c] = free_head /\ next'[b] = c /\ next'[a] = b
    BY <2>1 DEF ShapeInv
  <2>8. Chained(Free, free_head, next')
    BY <2>5, <2>6, ChainSame
  <2>9. a \notin Free /\ b \notin Free /\ c \notin Free /\ a # End /\ b # End /\ c # End
    BY <2>2, <2>4
  <2>10. Chained(Free \cup {a, b, c}, a, next')
         /\ Cardinality(Free \cup {a, b, c}) = Cardinality(Free) + 3
    <3>1. a # b /\ a # c /\ b # c
      BY <2>1
    <3>2. IsFiniteSet(Free)
      BY <2>4
    <3> HIDE <2>1
    <3> QED
      BY <2>7, <2>8, <2>9, <3>1, <3>2, Give3
  <2>11. (Chained(Free, free_head, next))'
    BY <2>1, <2>3, <2>10 DEF Chained, Whole
  <2> QED
    BY <2>1, <2>3, <2>5, <2>10, <2>11 DEF ChainInv
<1>5. CASE ~virtio_blk_init /\ ~Prepare /\ ~Reap
  <2>1. next' = next /\ free_head' = free_head /\ num_free' = num_free
    BY <1>5, Elsewhere
  <2>2. Free' = Free
    <3>1. CASE TimeOut
      <4>1. stranded' = stranded \cup ToSet(mine) /\ mine' = <<>>
        BY <3>1 DEF TimeOut
      <4> QED
        BY <1>1, <4>1, Triple DEF Free
    <3>2. CASE ~TimeOut
      <4>1. mine' = mine /\ stranded' = stranded
        BY <1>5, <3>2 DEF Next, vars, queue, device, NoDisk, CliRun, DoIo, Device, Refuse, PushRing, PushIndex,
             virtio_pci_notify, Check, Return, DeviceFetch, DeviceMove, DeviceUsed,
             DeviceSleep, cmd_blkread, cmd_blkwrite, Command
      <4> QED
        BY <1>1, <4>1 DEF Free
    <3> QED
      BY <3>1, <3>2
  <2>3. dev_status' = "driver_ok" => dev_status = "driver_ok"
    BY <1>5 DEF Next, vars, device, NoDisk, CliRun, DoIo, Device, Refuse, PushRing, PushIndex,
             virtio_pci_notify, TimeOut, Check, Return, DeviceFetch, DeviceMove, DeviceUsed,
             DeviceSleep, cmd_blkread, cmd_blkwrite, Command
  <2> QED
    BY <2>1, <2>2, <2>3 DEF ChainInv, Chained, Whole
<1> QED
  BY <1>2, <1>3, <1>4, <1>5

-----------------------------------------------------------------------------
(* One request at a time *)

\* As long as no request timed out, none has just timed out.
LEMMA NotLapsed ==
  ASSUME MineInv, [Next]_vars, ~lapsed'
  PROVE  ~lapsed /\ ~TimeOut
<1>1. CASE TimeOut
  <2>1. PICK a, b, c \in Descs \ stranded : mine = <<a, b, c>>
    BY <1>1 DEF MineInv, OwnChain, TimeOut
  <2>2. a \in ToSet(mine)
    BY <2>1, Triple
  <2>3. a \in stranded'
    BY <1>1, <2>2 DEF TimeOut
  <2> QED
    BY <2>3 DEF lapsed
<1>2. CASE ~TimeOut
  <2>1. stranded' = stranded
    BY <1>2 DEF Next, vars, NoDisk, virtio_blk_init, CliRun, DoIo, Device, Refuse, Prepare, PushRing, PushIndex,
         virtio_pci_notify, Reap, Check, Return, DeviceFetch, DeviceMove, DeviceUsed,
         DeviceSleep, cmd_blkread, cmd_blkwrite, Command
  <2> QED
    BY <1>2, <2>1 DEF lapsed
<1> QED
  BY <1>1, <1>2

LEMMA IdxNext ==
  ASSUME ShapeInv, BootInv, MineInv, IdxInv, [Next]_vars
  PROVE  IdxInv'
<1> SUFFICES ASSUME ~lapsed' PROVE IdxInv'
  BY DEF IdxInv
<1>1. ~lapsed /\ ~TimeOut
  BY NotLapsed
<1>2. Num' = Num
  BY SameMachine
<1>3. CASE PushRing
  <2>1. pc = "push" /\ pc' = "index" /\ mine' = mine /\ last_used_idx' = last_used_idx
        /\ used_idx' = used_idx /\ dev_idx' = dev_idx /\ serving' = serving
        /\ avail_idx' = avail_idx
    BY <1>3 DEF PushRing, device
  <2>2. /\ avail_idx = last_used_idx /\ used_idx = last_used_idx
        /\ dev_idx = last_used_idx /\ serving = "no"
    BY <1>1, <2>1 DEF IdxInv, Given
  <2>3. avail_ring' = [avail_ring EXCEPT ![last_used_idx % Num] = mine[1]]
    BY <1>3, <2>2 DEF PushRing
  <2>4. last_used_idx % Num \in Descs
    <3>1. Num \in Nat /\ Num > 0
      BY <2>1, Sizes DEF ShapeInv, BootInv, Requesting
    <3>2. last_used_idx \in Nat
      BY Consts DEF ShapeInv, Word
    <3> QED
      BY <3>1, <3>2 DEF Descs
  <2>5. avail_ring'[last_used_idx % Num] = mine[1]
    BY <2>3, <2>4 DEF ShapeInv
  <2> QED
    BY <1>2, <2>1, <2>2, <2>5 DEF IdxInv, Given
<1>3a. CASE PushIndex
  <2>1. pc = "index" /\ pc' = "notify" /\ mine' = mine /\ last_used_idx' = last_used_idx
        /\ used_idx' = used_idx /\ dev_idx' = dev_idx /\ serving' = serving
        /\ avail_ring' = avail_ring /\ avail_idx' = (avail_idx + 1) % W
    BY <1>3a DEF PushIndex, device
  <2>2. /\ avail_idx = last_used_idx /\ used_idx = last_used_idx
        /\ dev_idx = last_used_idx /\ serving = "no"
        /\ avail_ring[last_used_idx % Num] = mine[1]
    BY <1>1, <2>1 DEF IdxInv, Given
  <2> QED
    BY <1>2, <2>1, <2>2 DEF IdxInv, Given
<1>4. CASE Reap
  <2>1. pc = "poll" /\ pc' = "check" /\ used_idx # last_used_idx /\ used_idx' = used_idx
        /\ dev_idx' = dev_idx /\ serving' = serving /\ avail_idx' = avail_idx
        /\ last_used_idx' = (last_used_idx + 1) % W
    BY <1>4 DEF Reap, device
  <2>2. avail_idx = (last_used_idx + 1) % W /\ dev_idx = avail_idx /\ used_idx = avail_idx
        /\ serving = "no"
    BY <1>1, <2>1 DEF IdxInv, Given
  <2> QED
    BY <2>1, <2>2 DEF IdxInv, Given
<1>5. CASE virtio_pci_notify
  BY <1>1, <1>2, <1>5 DEF virtio_pci_notify, IdxInv, Given, queue
<1>6. CASE DeviceFetch
  <2>1. pc' = pc /\ mine' = mine /\ last_used_idx' = last_used_idx /\ used_idx' = used_idx
        /\ avail_idx' = avail_idx /\ avail_ring' = avail_ring
        /\ dev_idx # avail_idx /\ dev_idx' = (dev_idx + 1) % W /\ serving' = "fetched"
    BY <1>6 DEF DeviceFetch, queue
  <2>2. pc \in Given /\ dev_idx = last_used_idx /\ used_idx = last_used_idx
    BY <1>1, <2>1 DEF IdxInv
  <2> QED
    BY <1>1, <1>2, <2>1, <2>2 DEF IdxInv
<1>7. CASE DeviceMove
  <2>1. pc' = pc /\ mine' = mine /\ last_used_idx' = last_used_idx /\ used_idx' = used_idx
        /\ avail_idx' = avail_idx /\ avail_ring' = avail_ring
        /\ dev_idx' = dev_idx /\ serving # "no" /\ serving' # "no"
    BY <1>7 DEF DeviceMove, queue
  <2> QED
    BY <1>1, <1>2, <2>1 DEF IdxInv
<1>8. CASE DeviceUsed
  <2>1. pc' = pc /\ mine' = mine /\ last_used_idx' = last_used_idx
        /\ used_idx' = (used_idx + 1) % W
        /\ avail_idx' = avail_idx /\ avail_ring' = avail_ring
        /\ dev_idx' = dev_idx /\ serving # "no" /\ serving' = "no"
    BY <1>8 DEF DeviceUsed, queue
  <2> QED
    BY <1>1, <1>2, <2>1 DEF IdxInv
<1>9. CASE virtio_blk_init
  <2>1. pc = "kmain" /\ pc' = "begin" /\ last_used_idx' = 0 /\ used_idx' = used_idx
        /\ dev_idx' = dev_idx /\ serving' = serving /\ avail_idx' = avail_idx
    BY <1>9 DEF virtio_blk_init
  <2> QED
    BY <1>1, <2>1 DEF IdxInv, Given
<1>10. CASE DeviceSleep \/ UNCHANGED vars
  BY <1>1, <1>2, <1>10 DEF DeviceSleep, vars, queue, device, IdxInv
<1>11. ASSUME NEW s, NEW b,
              \/ NoDisk \/ CliRun \/ Refuse \/ Prepare \/ Check
              \/ cmd_blkread(s) \/ cmd_blkwrite(s, b)
       PROVE  IdxInv'
  <2>1. /\ pc \notin Given /\ pc' \notin Given /\ pc' \notin {"kmain", "index"} /\ last_used_idx' = last_used_idx
        /\ avail_idx' = avail_idx /\ used_idx' = used_idx
        /\ dev_idx' = dev_idx /\ serving' = serving
    BY <1>11 DEF NoDisk, CliRun, Refuse, Prepare, Check, Return, cmd_blkread, cmd_blkwrite, Command,
         queue, device, Given
  <2> QED
    BY <1>1, <2>1 DEF IdxInv
<1> QED
  BY <1>1, <1>3, <1>3a, <1>4, <1>5, <1>6, <1>7, <1>8, <1>9, <1>10, <1>11 DEF Next, DoIo, Device

-----------------------------------------------------------------------------
(* What is read is what is there *)

LEMMA DataNext ==
  ASSUME ShapeInv, BootInv, MineInv, IdxInv, DataInv, [Next]_vars
  PROVE  DataInv'
<1> SUFFICES ASSUME ~lapsed' PROVE DataInv'
  BY DEF DataInv
<1> USE DEF T_IN, T_OUT
<1>1. ~lapsed /\ ~TimeOut
  BY NotLapsed
<1>2. Sectors' = Sectors
  BY SameMachine
<1>3. pc \notin Given => serving = "no"
  BY <1>1 DEF IdxInv
<1>4. CASE Prepare
  <2>1. pc = "begin" /\ pc' = "push" /\ status' = "unset" /\ disk' = disk /\ cmd' = cmd
        /\ phase' = phase /\ report' = report /\ serving' = serving
        /\ header' = [type |-> phase, sector |-> cmd.sector]
        /\ (phase = T_OUT => data' = cmd.byte)
    BY <1>4 DEF Prepare, user, device
  <2>2. serving = "no"
    BY <1>3, <2>1 DEF Given
  <2> QED
    BY <1>1, <1>2, <2>1, <2>2 DEF DataInv, Requesting, ReadsBack, OwnChain
<1>5. CASE PushRing \/ PushIndex \/ virtio_pci_notify \/ Reap
  <2>1. /\ pc \in OwnChain /\ pc' \in OwnChain \cup {"check"} /\ disk' = disk /\ cmd' = cmd
        /\ phase' = phase /\ report' = report /\ serving' = serving /\ header' = header
        /\ data' = data /\ status' = status /\ job' = job
    BY <1>5 DEF PushRing, PushIndex, virtio_pci_notify, Reap, user, device, dma, OwnChain
  <2> QED
    BY <1>1, <1>2, <2>1 DEF DataInv, Requesting, ReadsBack, OwnChain
<1>6. CASE Check
  <2>1. /\ pc = "check" /\ disk' = disk /\ cmd' = cmd /\ serving' = serving /\ status' = status
        /\ scratch' = IF phase = T_IN /\ status = "ok" THEN data ELSE scratch
    BY <1>6 DEF Check, Return, device, dma
  <2>2. PICK rc : rc = IF status = "ok" THEN "ok" ELSE "io_error"
    OBVIOUS
  <2>3. Return(rc)
    BY <1>6, <2>2 DEF Check
  <2>4. report' = [report EXCEPT ![phase] = rc] /\ DOMAIN report = {T_OUT, T_IN}
    BY <2>3 DEF Return, ShapeInv
  <2>5. serving' = "no"
    BY <1>3, <2>1 DEF Given
  <2>6. CASE phase = T_OUT /\ (rc = "ok" \/ cmd.kind = "smoke")
    <3>1. pc' = "begin" /\ phase' = T_IN
      BY <2>3, <2>6 DEF Return
    <3>2. report'[T_OUT] = rc
      BY <2>4, <2>6
    <3>3. rc = "ok" => cmd.sector \in Sectors /\ disk[cmd.sector] = cmd.byte
      BY <1>1, <2>1, <2>2, <2>6 DEF DataInv
    <3> QED
      BY <1>2, <2>1, <2>5, <3>1, <3>2, <3>3 DEF DataInv, Requesting, ReadsBack, OwnChain
  <2>7. CASE ~(phase = T_OUT /\ (rc = "ok" \/ cmd.kind = "smoke"))
    <3>1. pc' \in {"booted", "idle"} /\ phase' = phase
      BY <2>3, <2>7 DEF Return
    <3>2. ASSUME report'.read = "ok"
          PROVE  /\ cmd.sector \in Sectors /\ scratch' = disk[cmd.sector]
                 /\ report'.write = "ok" => scratch' = cmd.byte
      <4>1. phase = T_IN
        <5>1. CASE phase = T_OUT
          <6>1. report'.read = report[T_IN]
            BY <2>4, <5>1
          <6>2. report[T_IN] # "ok"
            BY <1>1, <2>1, <5>1 DEF DataInv, Requesting
          <6> QED
            BY <3>2, <6>1, <6>2
        <5> QED
          BY <5>1 DEF ShapeInv
      <4>2. report'.read = rc /\ report'.write = report[T_OUT]
        BY <2>4, <4>1
      <4>3. status = "ok"
        BY <2>2, <3>2, <4>2
      <4>4. cmd.sector \in Sectors /\ disk[cmd.sector] = data /\ scratch' = data
        BY <1>1, <2>1, <4>1, <4>3 DEF DataInv
      <4>5. report[T_OUT] = "ok" => disk[cmd.sector] = cmd.byte
        BY <1>1, <2>1, <4>1 DEF DataInv, Requesting
      <4> QED
        BY <4>2, <4>4, <4>5
    <3>3. ReadsBack'
      BY <1>2, <2>1, <3>2 DEF ReadsBack
    <3> QED
      BY <2>5, <3>1, <3>3 DEF DataInv, Requesting, OwnChain
  <2> QED
    BY <2>6, <2>7
<1>7. CASE Refuse
  <2>1. /\ pc = "begin" /\ disk' = disk /\ cmd' = cmd /\ serving' = serving
        /\ Return("refused")
    BY <1>7 DEF Refuse, Return, device
  <2>2. report' = [report EXCEPT ![phase] = "refused"] /\ DOMAIN report = {T_OUT, T_IN}
    BY <2>1 DEF Return, ShapeInv
  <2>3. serving' = "no"
    BY <1>3, <2>1 DEF Given
  <2>4. \/ pc' = "begin" /\ phase' = T_IN /\ phase = T_OUT
        \/ pc' \in {"booted", "idle"}
    BY <2>1 DEF Return
  <2>5. phase = T_OUT => report'[T_OUT] = "refused" /\ report'[T_IN] = report[T_IN]
    BY <2>2
  <2>6. phase = T_IN => report'[T_IN] = "refused"
    BY <2>2
  <2>7. phase = T_OUT => report[T_IN] # "ok"
    BY <1>1, <2>1 DEF DataInv, Requesting
  <2>8. report'[T_IN] # "ok"
    BY <2>5, <2>6, <2>7 DEF ShapeInv
  <2>9. ReadsBack'
    BY <2>8 DEF ReadsBack
  <2> QED
    BY <2>3, <2>4, <2>5, <2>9 DEF DataInv, Requesting, OwnChain
<1>8. CASE DeviceFetch
  <2>1. /\ pc' = pc /\ disk' = disk /\ cmd' = cmd /\ phase' = phase /\ report' = report
        /\ header' = header /\ data' = data /\ status' = status /\ job' = header
        /\ scratch' = scratch
    BY <1>8 DEF DeviceFetch, user, dma
  <2> QED
    BY <1>1, <1>2, <2>1 DEF DataInv, Requesting, ReadsBack
<1>9. CASE DeviceMove
  <2>1. /\ pc' = pc /\ cmd' = cmd /\ phase' = phase /\ report' = report
        /\ header' = header /\ job' = job /\ serving # "no" /\ pc \in Given
    BY <1>3, <1>9 DEF DeviceMove, user
  <2>2. /\ header = [type |-> phase, sector |-> cmd.sector] /\ job = header
        /\ phase = T_OUT => data = cmd.byte
    BY <1>1, <2>1 DEF DataInv, Given, OwnChain
  <2>3. job.type = phase /\ job.sector = cmd.sector
    BY <2>2
  <2>4. phase = T_OUT => data' = data
    BY <1>9, <2>3 DEF DeviceMove
  <2>5. phase = T_IN => disk' = disk
    BY <1>9, <2>3 DEF DeviceMove
  <2>6. ASSUME status' = "ok"
        PROVE  cmd.sector \in Sectors /\ disk'[cmd.sector] = data'
    <3>1. cmd.sector \in Sectors
      BY <1>9, <2>3, <2>6 DEF DeviceMove
    <3>2. CASE phase = T_OUT
      <4>1. disk' = [disk EXCEPT ![cmd.sector] = data]
        BY <1>9, <2>3, <2>6, <3>1, <3>2 DEF DeviceMove
      <4> QED
        BY <2>4, <3>1, <3>2, <4>1 DEF ShapeInv
    <3>3. CASE phase = T_IN
      <4>1. data' = disk[cmd.sector]
        BY <1>9, <2>3, <2>6, <3>3 DEF DeviceMove
      <4> QED
        BY <2>5, <3>1, <3>3, <4>1
    <3> QED
      BY <3>2, <3>3 DEF ShapeInv
  <2>7. ReadsBack'
    BY <2>1 DEF ReadsBack, Given
  <2>8. Requesting' /\ Requesting
    BY <2>1 DEF Requesting, Given
  <2>9. phase = T_OUT => report[T_IN] # "ok"
    BY <1>1, <2>8 DEF DataInv
  <2>10. phase = T_IN /\ report[T_OUT] = "ok" => cmd.sector \in Sectors /\ disk[cmd.sector] = cmd.byte
    BY <1>1, <2>8 DEF DataInv
  <2> QED
    BY <1>2, <2>1, <2>2, <2>4, <2>5, <2>6, <2>7, <2>9, <2>10 DEF DataInv
<1>10. CASE DeviceUsed
  <2>1. /\ pc' = pc /\ disk' = disk /\ cmd' = cmd /\ phase' = phase /\ report' = report
        /\ header' = header /\ data' = data /\ status' = status /\ serving' = "no"
        /\ scratch' = scratch
    BY <1>10 DEF DeviceUsed, user, dma
  <2> QED
    BY <1>1, <1>2, <2>1 DEF DataInv, Requesting, ReadsBack
<1>11. CASE DeviceSleep \/ UNCHANGED vars
  BY <1>1, <1>2, <1>11 DEF DeviceSleep, vars, user, dma, device, DataInv, Requesting, ReadsBack
<1>12. CASE virtio_blk_init
  <2>1. pc = "kmain" /\ pc' = "begin" /\ report' = report /\ serving' = serving /\ phase' = T_OUT
    BY <1>12 DEF virtio_blk_init
  <2>2. serving' = "no" /\ report'[T_IN] # "ok"
    BY <1>3, <2>1 DEF Given, BootInv
  <2> QED
    BY <2>1, <2>2 DEF DataInv, Requesting, ReadsBack, OwnChain
<1>13. CASE NoDisk
  <2>1. pc = "kmain" /\ pc' = "booted" /\ report' = report /\ serving' = serving
    BY <1>13 DEF NoDisk, user
  <2>2. serving' = "no" /\ report'[T_IN] # "ok"
    BY <1>3, <2>1 DEF Given, BootInv
  <2> QED
    BY <2>1, <2>2 DEF DataInv, Requesting, ReadsBack, OwnChain
<1>14. CASE CliRun
  <2>1. pc = "booted" /\ pc' = "idle" /\ report' = report /\ serving' = serving /\ disk' = disk
        /\ cmd' = cmd /\ scratch' = scratch
    BY <1>14 DEF CliRun, device
  <2>2. serving' = "no"
    BY <1>3, <2>1 DEF Given
  <2> QED
    BY <1>1, <1>2, <2>1, <2>2 DEF DataInv, Requesting, ReadsBack, OwnChain
<1>15. ASSUME NEW s, NEW b, cmd_blkread(s) \/ cmd_blkwrite(s, b)
       PROVE  DataInv'
  <2>1. /\ pc = "idle" /\ pc' = "begin" /\ report' = [write |-> "none", read |-> "none"]
        /\ serving' = serving
    BY <1>15 DEF cmd_blkread, cmd_blkwrite, Command, device
  <2>2. serving' = "no"
    BY <1>3, <2>1 DEF Given
  <2> QED
    BY <2>1, <2>2 DEF DataInv, Requesting, ReadsBack, OwnChain
<1> QED
  BY <1>1, <1>4, <1>5, <1>6, <1>7, <1>8, <1>9, <1>10, <1>11, <1>12, <1>13, <1>14, <1>15
     DEF Next, DoIo, Device

-----------------------------------------------------------------------------
(* The theorems *)

LEMMA InitInv ==
  ASSUME Init PROVE IndInv
<1>1. machine \in Machines
  BY DEF Init
<1>2. ShapeInv
  <2>1. 0 \in Word
    BY Consts DEF Word
  <2>2. \A d \in Descs : 0 \in Descs
    BY <1>1, Sizes
  <2> QED
    BY <2>1, <2>2 DEF Init, ShapeInv, PCs, T_IN, T_OUT
<1>3. ~Requesting /\ blk_capacity = 0 /\ ~has_page /\ dev_status = "reset" /\ report[T_IN] = "none"
  BY DEF Init, Requesting, T_IN
<1>4. BootInv
  <2>1. num_free = 0 /\ free_head = 0 /\ mine = <<>> /\ stranded = {}
    BY DEF Init
  <2> QED
    BY <1>3, <2>1 DEF BootInv
<1>5. MineInv
  BY DEF Init, MineInv, OwnChain
<1>6. ChainInv
  BY <1>3 DEF ChainInv
<1>7. IdxInv
  BY DEF Init, IdxInv, Given
<1>8. DataInv
  <2>1. pc = "kmain" /\ serving = "no"
    BY DEF Init
  <2> QED
    BY <1>3, <2>1 DEF DataInv, ReadsBack, OwnChain
<1> QED
  BY <1>2, <1>4, <1>5, <1>6, <1>7, <1>8 DEF IndInv

\* The free chain, the indices of driver and device, and the one DMA page agree
\* in every reachable state, whatever the device does and however long it takes
\* (virtio_blk_do_io).
THEOREM Invariance == Spec => []IndInv
<1>1. Init => IndInv
  BY InitInv
<1>2. IndInv /\ [Next]_vars => IndInv'
  BY ShapeNext, BootNext, MineNext, ChainNext, IdxNext, DataNext DEF IndInv
<1> QED
  BY <1>1, <1>2, PTL DEF Spec

\* Indices stay in the word, links in the table, and only a device that
\* virtio_blk_init has made ready is asked anything.
THEOREM TypeCorrect == Spec => []TypeOK
<1>1. IndInv => TypeOK
  <2> SUFFICES ASSUME IndInv PROVE TypeOK
    OBVIOUS
  <2>1. machine \in Machines /\ Num \in Nat
    BY Sizes DEF IndInv, ShapeInv
  <2>2. {last_used_idx, avail_idx, used_idx, dev_idx} \subseteq 0 .. W - 1
    BY DEF IndInv, ShapeInv, Word
  <2>3. num_free \in 0 .. Num /\ free_head \in Descs \cup {End, 0}
    <3>1. CASE dev_status = "driver_ok"
      BY <2>1, <3>1, FreeFacts DEF IndInv, ChainInv, Chained
    <3>2. CASE dev_status # "driver_ok"
      BY <2>1, <3>2 DEF IndInv, BootInv
    <3> QED
      BY <3>1, <3>2
  <2>4. Requesting => dev_status = "driver_ok"
    BY DEF IndInv, BootInv
  <2> QED
    BY <2>2, <2>3, <2>4 DEF IndInv, ShapeInv, MineInv, TypeOK
<1> QED
  BY <1>1, Invariance, PTL

\* The one request that can be with the device while none has timed out.
LEMMA OneRequest ==
  ASSUME IndInv, ~lapsed, NEW h \in Owned
  PROVE  pc \in OwnChain /\ h = mine[1]
<1>1. PICK n, u, x : n = (avail_idx - used_idx) % W /\ u = used_idx /\ x = avail_idx
  OBVIOUS
<1>2. u \in 0 .. W - 1 /\ x \in 0 .. W - 1 /\ W \in Nat /\ W > 0 /\ n = (x - u) % W
  BY <1>1, Consts DEF IndInv, ShapeInv, Word
<1>3. PICK i \in 0 .. n - 1 : h = avail_ring[(used_idx + i) % Num]
  BY <1>1 DEF Owned
<1>4. x # u
  <2>1. CASE x = u
    BY <1>2, <1>3, <2>1
  <2> QED
    BY <2>1
<1>5. pc \in Given /\ avail_idx = (last_used_idx + 1) % W /\ used_idx = last_used_idx
      /\ avail_ring[last_used_idx % Num] = mine[1]
  BY <1>1, <1>4 DEF IndInv, IdxInv
<1>6. x = (u + 1) % W
  BY <1>1, <1>5
<1>7. n <= 1
  <2>1. CASE u + 1 < W
    BY <1>2, <1>6, <2>1
  <2>2. CASE u + 1 = W
    BY <1>2, <1>6, <2>2
  <2> QED
    BY <1>2, <2>1, <2>2
<1>8. i = 0 /\ used_idx + i = last_used_idx
  BY <1>1, <1>2, <1>3, <1>5, <1>7
<1> QED
  BY <1>3, <1>5, <1>8 DEF Given, OwnChain

\* The free chain holds exactly the descriptors that nobody has, in one line from
\* free_head to 0xFFFF, num_free counts them, and the device never works on one
\* of them unless a request timed out (virtio_blk_do_io, virtio_pci_setup_queue).
THEOREM RingKeptIntact == Spec => []RingIntact
<1>1. IndInv => RingIntact
  <2> SUFFICES ASSUME IndInv, dev_status = "driver_ok" PROVE RingIntact
    BY DEF RingIntact
  <2>1. Chained(Free, free_head, next) /\ num_free = Cardinality(Free)
    BY DEF IndInv, ChainInv
  <2>2. machine \in Machines /\ End \notin Free
    BY FreeFacts DEF IndInv, ShapeInv
  <2>3. Linked(Free \cup {End})
    BY <2>1 DEF Linked, Chained
  <2>4. ASSUME NEW C \in SUBSET (Free \cup {End}), Linked(C)
        PROVE  C = Free \cup {End}
    BY <2>1, <2>4, Zenon DEF Linked, Chained, Whole
  <2>5. ASSUME ~lapsed, NEW h \in Owned
        PROVE  Chain(h) \cap Free = {}
    <3>1. pc \in OwnChain /\ h = mine[1]
      BY <2>5, OneRequest
    <3>2. PICK a, b, c \in Descs \ stranded : mine = <<a, b, c>> /\ next[a] = b /\ next[b] = c
      BY <3>1 DEF IndInv, MineInv
    <3>3. h = a /\ ToSet(mine) = {a, b, c}
      BY <3>1, <3>2, Triple
    <3>4. Chain(h) = {a, b, c}
      BY <3>2, <3>3 DEF Chain
    <3> QED
      BY <3>3, <3>4 DEF Free
  <2> QED
    BY <2>1, <2>3, <2>4, <2>5 DEF RingIntact
<1> QED
  BY <1>1, Invariance, PTL

\* Unless a request timed out, a read that succeeds returns what the sector
\* holds, and blkwrite's verification of a write that succeeded does not fail.
THEOREM ReadBackHolds == Spec => []ReadsBack
<1>1. IndInv => ReadsBack
  BY DEF IndInv, DataInv, ReadsBack
<1> QED
  BY <1>1, Invariance, PTL
=============================================================================
