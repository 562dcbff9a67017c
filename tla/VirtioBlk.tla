------------------------------ MODULE VirtioBlk ------------------------------
(***************************************************************************)
(* The legacy virtio block driver (drivers/virtio/virtio_blk.c,            *)
(* virtio_pci.c, virtio.h), the bus scan that finds its device             *)
(* (arch/x86_64/pci.c), and its users: the smoke test of kmain.c and the   *)
(* blkread and blkwrite commands of cli.c.                                 *)
(*                                                                         *)
(* One CPU drives the queue.  The device is external: it works on its own  *)
(* time, may answer with an error, late or never.  All requests share one  *)
(* header, one data buffer and one status byte.  A sector's 512 bytes are  *)
(* one value; 16-bit ring indices are counted modulo W.                    *)
(***************************************************************************)
EXTENDS Integers, Sequences, FiniteSets, SequencesExt

CONSTANTS Machines,     \* [bus, io, num, cap]: PCI slots, whether BAR0 is I/O
                        \* space, queue size and capacity of the block device
          MaxDevices,   \* PCI_MAX_DEVICES
          BlkId,        \* vendor and device id 1AF4:1001
          W,            \* 2^16 in the code, a multiple of every queue size
          Pattern,      \* what the smoke test writes
          Bytes         \* what blkwrite writes

End == 65535            \* 0xFFFF, the end of the free chain

ASSUME VirtioAssumption ==
  /\ W \in Nat \ {0} /\ MaxDevices \in Nat \ {0}
  /\ \A m \in Machines : m.num \in 0 .. End /\ m.cap \in Nat
                           /\ (m.num > 0 => W % m.num = 0)

T_OUT == "write"          \* VIRTIO_BLK_T_OUT
T_IN == "read"            \* VIRTIO_BLK_T_IN

VARIABLES machine,
          pc, cmd, phase,         \* where the CPU is, its command, the request
          report,                 \* report[phase]: what virtio_blk_do_io returned
          scratch,                \* the buffer that the last read filled
          has_page,               \* blk_scratch is set
          blk_capacity,
          next,                   \* requestq.desc[i].next
          free_head, num_free, last_used_idx,
          avail_ring, avail_idx, used_idx,
          mine,                   \* the descriptors d0, d1, d2 of this call
          header, data, status,   \* the DMA page
          dev_status, kicked, dev_idx, serving, job, disk,   \* device (external)
          stranded                \* history: descriptors of requests that timed out

queue == <<next, free_head, num_free, last_used_idx, avail_ring, avail_idx, mine>>
dma == <<header, data, status>>
device == <<dev_status, kicked, dev_idx, serving, job, disk, used_idx>>
user == <<cmd, phase, report, scratch, has_page>>
vars == <<machine, pc, user, blk_capacity, queue, dma, device, stranded>>

Num == machine.num
Descs == 0 .. Num - 1
Sectors == 0 .. machine.cap - 1

-----------------------------------------------------------------------------
(* Finding the device, and virtio_blk_init *)

\* A slot is the sequence of the ids of its functions, 0 for one that does not
\* answer; functions past the first are looked at on a multi-function device.
Functions(slot) == IF slot.ids[1] = 0 THEN <<>>
                   ELSE SelectSeq(IF slot.multi THEN slot.ids ELSE <<slot.ids[1]>>,
                                  LAMBDA id : id # 0)

\* pci_init: the table of devices, cut off when it is full.
devices == LET all == FlattenSeq([i \in DOMAIN machine.bus |-> Functions(machine.bus[i])])
           IN SubSeq(all, 1, IF Len(all) < MaxDevices THEN Len(all) ELSE MaxDevices)

pci_find_device(id) == id \in ToSet(devices)

Init == /\ machine \in Machines
        /\ pc = "kmain"
        /\ cmd = [kind |-> "none", sector |-> 0, byte |-> 0] /\ phase = T_IN
        /\ report = [write |-> "none", read |-> "none"]
        /\ scratch = 0 /\ has_page = FALSE /\ blk_capacity = 0
        /\ next = [d \in Descs |-> 0] /\ free_head = 0 /\ num_free = 0
        /\ last_used_idx = 0 /\ used_idx = 0 /\ mine = <<>>
        /\ avail_ring = [i \in Descs |-> 0] /\ avail_idx = 0
        /\ header = [type |-> T_IN, sector |-> 0] /\ data = 0 /\ status = "ok"
        /\ dev_status = "reset" /\ kicked = FALSE /\ dev_idx = 0 /\ serving = "no"
        /\ job = header
        /\ disk = [s \in Sectors |-> 0]
        /\ stranded = {}

\* No device, no page for the buffers or the rings, a BAR that is not I/O space
\* or a queue of size 0: the CPU goes on without a disk.
NoDisk == /\ pc = "kmain"
          /\ pc' = "booted"
          /\ dev_status' \in IF pci_find_device(BlkId) /\ machine.io
                             THEN {"reset", "driver"} ELSE {"reset"}
          /\ UNCHANGED <<machine, user, blk_capacity, queue, dma, kicked, dev_idx, serving,
                         job, disk, used_idx, stranded>>

\* virtio_pci_setup_queue: the chain of free descriptors.
FreeChain == [d \in Descs |-> IF d = Num - 1 THEN End ELSE d + 1]

virtio_blk_init ==
  /\ pc = "kmain" /\ pci_find_device(BlkId) /\ machine.io /\ Num > 0
  /\ dev_status' = "driver_ok"
  /\ next' = FreeChain /\ free_head' = 0 /\ num_free' = Num /\ last_used_idx' = 0
  /\ blk_capacity' = machine.cap
  /\ cmd' = [kind |-> "smoke", sector |-> 0, byte |-> Pattern]
  /\ phase' = T_OUT /\ pc' = "begin"
  /\ UNCHANGED <<machine, report, scratch, has_page, avail_ring, avail_idx, mine, dma,
                 kicked, dev_idx, serving, job, disk, used_idx, stranded>>

-----------------------------------------------------------------------------
(* The commands *)

\* cli_run takes a page for the commands if there is a disk; it may get none.
CliRun == /\ pc = "booted" /\ pc' = "idle"
          /\ has_page' \in IF blk_capacity > 0 THEN BOOLEAN ELSE {FALSE}
          /\ UNCHANGED <<machine, cmd, phase, report, scratch, blk_capacity, queue, dma,
                         device, stranded>>

Command(c, first) == /\ pc = "idle" /\ has_page /\ c.sector < blk_capacity
                     /\ cmd' = c /\ phase' = first
                     /\ report' = [write |-> "none", read |-> "none"]
                     /\ pc' = "begin"
                     /\ UNCHANGED <<machine, scratch, has_page, blk_capacity, queue, dma,
                                    device, stranded>>

cmd_blkread(s) == Command([kind |-> "blkread", sector |-> s, byte |-> 0], T_IN)
cmd_blkwrite(s, b) == Command([kind |-> "blkwrite", sector |-> s, byte |-> b], T_OUT)

\* virtio_blk_do_io returns: a written sector is read back, by blkwrite if the
\* write succeeded, by the smoke test always.
Return(rc) ==
  /\ report' = [report EXCEPT ![phase] = rc]
  /\ IF phase = T_OUT /\ (rc = "ok" \/ cmd.kind = "smoke")
     THEN pc' = "begin" /\ phase' = T_IN
     ELSE pc' = (IF cmd.kind = "smoke" THEN "booted" ELSE "idle") /\ UNCHANGED phase
  /\ UNCHANGED <<machine, cmd, has_page, blk_capacity>>

-----------------------------------------------------------------------------
(* virtio_blk_do_io *)

Refuse == /\ pc = "begin" /\ num_free < 3
          /\ Return("refused")
          /\ UNCHANGED <<scratch, queue, dma, device, stranded>>

\* Header, data and status byte are set, and three descriptors taken.
Prepare == /\ pc = "begin" /\ num_free >= 3 /\ pc' = "push"
           /\ header' = [type |-> phase, sector |-> cmd.sector]
           /\ data' = IF phase = T_OUT THEN cmd.byte ELSE data
           /\ status' = "unset"
           /\ LET d0 == free_head  d1 == next[d0]  d2 == next[d1]
              IN /\ mine' = <<d0, d1, d2>>
                 /\ free_head' = next[d2]
                 /\ num_free' = num_free - 3
                 /\ next' = [next EXCEPT ![d0] = d1, ![d1] = d2, ![d2] = 0]
           /\ UNCHANGED <<machine, user, blk_capacity, last_used_idx, avail_ring, avail_idx,
                          device, stranded>>

\* The head goes into the avail ring ...
PushRing == /\ pc = "push" /\ pc' = "index"
            /\ avail_ring' = [avail_ring EXCEPT ![avail_idx % Num] = mine[1]]
            /\ UNCHANGED <<machine, user, blk_capacity, next, free_head, num_free,
                           last_used_idx, avail_idx, mine, dma, device, stranded>>

\* MUTANT: an index wider than the ring's.
PushIndexWide == /\ pc = "index" /\ pc' = "notify"
                 /\ avail_idx' = avail_idx + 1
                 /\ UNCHANGED <<machine, user, blk_capacity, next, free_head, num_free,
                                last_used_idx, avail_ring, mine, dma, device, stranded>>

\* ... and then its index moves on, which a device that is awake may see at once.
PushIndex == /\ pc = "index" /\ pc' = "notify"
             /\ avail_idx' = (avail_idx + 1) % W
             /\ UNCHANGED <<machine, user, blk_capacity, next, free_head, num_free,
                            last_used_idx, avail_ring, mine, dma, device, stranded>>

\* A port write: the device looks at the avail ring again.
virtio_pci_notify == /\ pc = "notify" /\ pc' = "poll"
                     /\ kicked' = TRUE
                     /\ UNCHANGED <<machine, user, blk_capacity, queue, dma, dev_status,
                                    dev_idx, serving, job, disk, used_idx, stranded>>

\* MUTANT: the wait has no bound.
TimeOutNever == FALSE /\ UNCHANGED vars

\* The bounded loop ends with nothing new in the used ring: the descriptors
\* stay with the device.
TimeOut == /\ pc = "poll" /\ used_idx = last_used_idx
           /\ Return("timeout")
           /\ stranded' = stranded \cup ToSet(mine) /\ mine' = <<>>
           /\ UNCHANGED <<scratch, next, free_head, num_free, last_used_idx, avail_ring,
                          avail_idx, dma, device>>

\* MUTANT: the loop looks at the avail index.
ReapEarly == /\ pc = "poll" /\ avail_idx # last_used_idx /\ pc' = "check"
             /\ last_used_idx' = (last_used_idx + 1) % W
             /\ next' = [next EXCEPT ![mine[3]] = free_head, ![mine[2]] = mine[3],
                                     ![mine[1]] = mine[2]]
             /\ free_head' = mine[1] /\ num_free' = num_free + 3 /\ mine' = <<>>
             /\ UNCHANGED <<machine, user, blk_capacity, avail_ring, avail_idx, dma, device,
                            stranded>>

\* Something was used, whatever it was: the descriptors go back to the chain.
Reap == /\ pc = "poll" /\ used_idx # last_used_idx /\ pc' = "check"
        /\ last_used_idx' = (last_used_idx + 1) % W
        /\ next' = [next EXCEPT ![mine[3]] = free_head, ![mine[2]] = mine[3],
                                ![mine[1]] = mine[2]]
        /\ free_head' = mine[1] /\ num_free' = num_free + 3 /\ mine' = <<>>
        /\ UNCHANGED <<machine, user, blk_capacity, avail_ring, avail_idx, dma, device,
                       stranded>>

\* MUTANT: the status byte is not looked at.
CheckNot == /\ pc = "check"
            /\ scratch' = IF phase = T_IN THEN data ELSE scratch
            /\ Return("ok")
            /\ UNCHANGED <<queue, dma, device, stranded>>

Check == /\ pc = "check"
         /\ scratch' = IF phase = T_IN /\ status = "ok" THEN data ELSE scratch
         /\ Return(IF status = "ok" THEN "ok" ELSE "io_error")
         /\ UNCHANGED <<queue, dma, device, stranded>>

-----------------------------------------------------------------------------
(* The device, external *)

\* It takes the next chain of the avail ring and reads the header.
DeviceFetch ==
  /\ dev_status = "driver_ok" /\ kicked /\ serving = "no" /\ dev_idx # avail_idx
  /\ serving' = "fetched" /\ job' = header /\ dev_idx' = (dev_idx + 1) % W
  /\ UNCHANGED <<machine, pc, user, blk_capacity, queue, dma, dev_status, kicked, disk,
                 used_idx, stranded>>

\* It moves the data and sets the status byte.  A write that fails may have
\* reached the disk or not.
DeviceMove ==
  /\ serving = "fetched" /\ serving' = "moved"
  /\ status' \in IF job.sector \in Sectors THEN {"ok", "error"} ELSE {"error"}
  /\ IF job.type = T_OUT /\ job.sector \in Sectors
     THEN \/ disk' = [disk EXCEPT ![job.sector] = data]
          \/ status' = "error" /\ UNCHANGED disk
     ELSE UNCHANGED disk
  /\ data' = IF job.type = T_IN /\ status' = "ok" THEN disk[job.sector] ELSE data
  /\ UNCHANGED <<machine, pc, user, blk_capacity, queue, header, dev_status, kicked,
                 dev_idx, job, used_idx, stranded>>

DeviceUsed == /\ serving = "moved" /\ serving' = "no"
              /\ job' = [type |-> T_IN, sector |-> 0]
              /\ used_idx' = (used_idx + 1) % W
              /\ UNCHANGED <<machine, pc, user, blk_capacity, queue, dma, dev_status, kicked,
                             dev_idx, disk, stranded>>

\* With nothing left it waits for the next notification.
DeviceSleep == /\ kicked /\ serving = "no" /\ dev_idx = avail_idx
               /\ kicked' = FALSE
               /\ UNCHANGED <<machine, pc, user, blk_capacity, queue, dma, dev_status,
                              dev_idx, serving, job, disk, used_idx, stranded>>

-----------------------------------------------------------------------------

DoIo == Refuse \/ Prepare \/ PushRing \/ PushIndex \/ virtio_pci_notify \/ TimeOut \/ Reap \/ Check
Device == DeviceFetch \/ DeviceMove \/ DeviceUsed \/ DeviceSleep
Next == \/ NoDisk \/ virtio_blk_init \/ CliRun \/ DoIo \/ Device
        \/ \E s \in Sectors : cmd_blkread(s) \/ \E b \in Bytes : cmd_blkwrite(s, b)

\* The CPU goes on; of the device nothing is assumed.
Spec == Init /\ [][Next]_vars /\ WF_vars(DoIo)

-----------------------------------------------------------------------------
(* Properties *)

Requesting == pc \in {"begin", "push", "index", "notify", "poll", "check"}

\* State of the right shape; a request is only made of a device that is driver_ok, and
\* the indices stay in the word.
TypeOK == /\ {last_used_idx, avail_idx, used_idx, dev_idx} \subseteq 0 .. W - 1
          /\ num_free \in 0 .. Num /\ free_head \in Descs \cup {End, 0}
          /\ \A d \in Descs : next[d] \in Descs \cup {End}
          /\ status \in {"ok", "error", "unset"} /\ phase \in {T_IN, T_OUT}
          /\ Requesting => dev_status = "driver_ok"
          /\ stranded \subseteq Descs

\* A request timed out.
lapsed == stranded # {}

\* C is closed under the links from free_head on.
Linked(C) == free_head \in C /\ \A d \in C \ {End} : next[d] \in C

\* What neither the call under way nor a request that timed out has.
Free == (Descs \ ToSet(mine)) \ stranded

\* Heads of the chains that the device has been given and has not used yet.
Owned == LET n == (avail_idx - used_idx) % W
         IN {avail_ring[(used_idx + i) % Num] : i \in 0 .. n - 1}
Chain(h) == {h, next[h], next[next[h]]}

\* The links from free_head reach every free descriptor, no other, and end (what
\* they reach is the smallest set closed under them); num_free is their number;
\* and, as long as no request timed out, the device never works on a descriptor
\* that is free (virtio_blk_do_io).
RingIntact ==
  dev_status = "driver_ok" =>
    LET chain == Free \cup {End} IN
    /\ Linked(chain)
    /\ \A C \in SUBSET chain : Linked(C) => C = chain
    /\ num_free = Cardinality(Free)
    /\ ~lapsed => \A h \in Owned : Chain(h) \cap Free = {}

\* As long as no request timed out, a read that succeeds returns what the sector
\* holds, and a write that succeeds is read back: "verify" does not fail.
ReadsBack ==
  (pc \in {"idle", "booted"} /\ report.read = "ok" /\ ~lapsed) =>
    /\ cmd.sector \in Sectors /\ scratch = disk[cmd.sector]
    /\ report.write = "ok" => scratch = cmd.byte

\* A command returns, whatever the device does or fails to do.
CommandReturns == Requesting ~> ~Requesting
=============================================================================
