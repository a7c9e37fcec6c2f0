-------------------------------- MODULE Sbull --------------------------------
(***************************************************************************)
(* The block driver src/sbull/sbull.c: loading, with every allocation that *)
(* can fail, unloading, open and release, and the request function, which  *)
(* blk-mq calls on any CPU without a lock.                                 *)
(*                                                                         *)
(* Of the block layer: requests are whole kernel sectors inside the        *)
(* capacity, made of segments, and only a task that has the device open    *)
(* issues them (the last close writes everything back); an open device     *)
(* keeps the module.  memcpy of one segment is one step: what two          *)
(* overlapping copies leave is claimed by no property.  timer.expires and  *)
(* media_change, which nothing reads or sets, are left out.                *)
(***************************************************************************)
EXTENDS Integers, FiniteSets, SequencesExt

CONSTANTS Tasks,               (* processes that use the disks             *)
          ndevices,
          Params,              (* sbull_major, nsectors and hardsect_size, *)
                               (* as the module is loaded                  *)
          KERNEL_SECTOR_SIZE,
          UINT,                (* 2^32: how many values an unsigned int has *)
          Requests,            (* the requests the tasks cause             *)
          Junk,                (* what fresh vmalloc memory holds          *)
          SPAN                 (* see Span, at the end                     *)

(* bufs: the segments of the request, each a sequence of bytes.            *)
Request(dir, sector, bufs) == [dir |-> dir, sector |-> sector, bufs |-> bufs]

Byte == 0 .. 255

RequestSet == [dir : {"read", "write"}, sector : Nat, bufs : Seq(Seq(Byte))]

Devs == 0 .. ndevices - 1

Bytes(r) == Len(FlattenSeq(r.bufs))

ASSUME DeviceAssumption  == ndevices \in Nat \ {0} /\ SPAN \in Nat \ {0}
ASSUME WidthAssumption   == KERNEL_SECTOR_SIZE \in Nat \ {0} /\ UINT \in Nat \ {0}
ASSUME ParamAssumption   ==
  Params \subseteq [sbull_major : Nat, nsectors : Nat, hardsect_size : Nat]
ASSUME RequestAssumption ==
  /\ Requests \subseteq RequestSet
  /\ \A r \in Requests : r.bufs # <<>> /\ Bytes(r) % KERNEL_SECTOR_SIZE = 0
ASSUME DataAssumption    == Junk \in Byte /\ IsFiniteSet(Tasks)

VARIABLES
  param,      (* the module's parameters                                   *)
  loader,     (* where the task in sbull_init or sbull_exit is             *)
  which,      (* the device it is at                                       *)
  major,      (* "sbull" is a registered block driver                      *)
  failed,     (* the allocations that have failed: <<call, device>>        *)
  dev,        (* Devices[]: size, data (NULL, held, freed, freed twice),   *)
              (* users, and whether queue, gd and tag_set.tags are there   *)
  data,       (* the bytes at dev->data                                    *)
  pc,         (* idle, transfer, end, oops: a task in the request function *)
  disk,       (* the device a task has open, or NoDisk                     *)
  rq,         (* its request                                               *)
  seg,        (* the next segment of it                                    *)
  pos,        (* do_simple_request's pos                                   *)
  nr_bytes,
  clean,      (* no write has overlapped the request since it was started  *)
  last        (* the writes whose bytes should still be on a device        *)

module == <<param, loader, which, major, failed, dev>>
call   == <<pc, disk, rq, seg, pos, nr_bytes, clean>>
vars   == <<param, loader, which, major, failed, dev, data,
            pc, disk, rq, seg, pos, nr_bytes, clean, last>>

NoDisk    == ndevices
NoRequest == Request("read", 0, <<>>)

Blank == [size |-> 0, data |-> "NULL", users |-> 0,
          queue |-> FALSE, gd |-> FALSE, tags |-> FALSE]

Init == /\ param \in Params
        /\ loader = "register" /\ which = 0
        /\ major = FALSE /\ failed = {}
        /\ dev = [d \in Devs |-> Blank]
        /\ data = [d \in Devs |-> <<>>]
        /\ pc = [t \in Tasks |-> "idle"]
        /\ disk = [t \in Tasks |-> NoDisk]
        /\ rq = [t \in Tasks |-> NoRequest]
        /\ seg = [t \in Tasks |-> 1]
        /\ pos = [t \in Tasks |-> 0] /\ nr_bytes = [t \in Tasks |-> 0]
        /\ clean = [t \in Tasks |-> FALSE]
        /\ last = [d \in Devs |-> {}]

Goto(from, to) == loader = from /\ loader' = to

Fails(what) == failed' = failed \cup {<<what, which>>}

-----------------------------------------------------------------------------
(* sbull_init: a major number, the array of devices, then each device.     *)
(* register_blkdev returns the number it has found; for one that it was    *)
(* given it returns 0 when all is well, and sbull_init takes that for an   *)
(* error.                                                                  *)
Register ==
  /\ \/ Goto("register", "kmalloc") /\ param.sbull_major = 0 /\ major' = TRUE
     \/ Goto("register", "absent") /\ param.sbull_major # 0 /\ major' = TRUE
     \/ Goto("register", "absent") /\ UNCHANGED major
  /\ UNCHANGED <<param, which, failed, dev, data, call, last>>

(* The error path unregisters a driver named sbd, which is not the one     *)
(* that was registered.                                                    *)
Kmalloc ==
  /\ \/ Goto("kmalloc", "vmalloc") /\ UNCHANGED failed
     \/ Goto("kmalloc", "absent") /\ Fails("kmalloc")
  /\ UNCHANGED <<param, which, major, dev, data, call, last>>

(* The rest of sbull_init's loop, after setup_device(which) has returned.  *)
NextDevice == IF which + 1 < ndevices
              THEN loader' = "vmalloc" /\ which' = which + 1
              ELSE loader' = "live" /\ which' = 0

(* dev->size is an unsigned int.                                           *)
Size == (param.nsectors * param.hardsect_size) % UINT

(* Mutant: sectors are rounded up. *)
CapacityUp == param.nsectors * ((param.hardsect_size + KERNEL_SECTOR_SIZE - 1)
                                  \div KERNEL_SECTOR_SIZE)

(* What set_capacity is told, in kernel sectors.                           *)
Capacity == param.nsectors * (param.hardsect_size \div KERNEL_SECTOR_SIZE)

SetupData ==
  /\ loader = "vmalloc"
  /\ \/ /\ dev' = [dev EXCEPT ![which] = [Blank EXCEPT !.size = Size, !.data = "held"]]
        /\ data' = [data EXCEPT ![which] = [i \in 1 .. Size |-> Junk]]
        /\ loader' = "queue" /\ UNCHANGED <<which, failed>>
     \/ /\ dev' = [dev EXCEPT ![which] = [Blank EXCEPT !.size = Size]]
        /\ Fails("vmalloc") /\ NextDevice
        /\ UNCHANGED data
  /\ UNCHANGED <<param, major, call, last>>

(* vfree, which leaves dev->data as it is.                                 *)
Freed(p) == CASE p = "held"  -> "freed"
              [] p = "freed" -> "twice"
              [] OTHER       -> p

(* If the tag set or the queue cannot be had, the switch is left with      *)
(* dev->queue NULL, and the next statement writes through it: the loader   *)
(* dies and the module stays.                                              *)
SetupQueue ==
  /\ \/ /\ Goto("queue", "disk")
        /\ dev' = [dev EXCEPT ![which].tags = TRUE, ![which].queue = TRUE]
        /\ UNCHANGED failed
     \/ Goto("queue", "oops") /\ Fails("tags") /\ UNCHANGED dev
     \/ Goto("queue", "oops") /\ Fails("queue") /\ dev' = [dev EXCEPT ![which].tags = TRUE]
  /\ UNCHANGED <<param, which, major, data, call, last>>

(* The disk, and with add_disk the device is open to everybody; or         *)
(* out_vfree.                                                              *)
SetupDisk ==
  /\ loader = "disk"
  /\ \/ dev' = [dev EXCEPT ![which].gd = TRUE] /\ UNCHANGED failed
     \/ dev' = [dev EXCEPT ![which].data = Freed(@)] /\ Fails("disk")
  /\ NextDevice
  /\ UNCHANGED <<param, major, data, call, last>>

(* Mutant: sbull_ops has no owner. *)
ExitBusy == Goto("live", "exit")
            /\ UNCHANGED <<param, which, major, failed, dev, data, call, last>>

(* rmmod: refused while a device is open, since sbull_ops has an owner.    *)
Exit == /\ Goto("live", "exit")
        /\ \A t \in Tasks : disk[t] = NoDisk
        /\ UNCHANGED <<param, which, major, failed, dev, data, call, last>>

(* Mutant: a device without a disk is skipped. *)
ExitDeviceOfDisk ==
  /\ loader = "exit"
  /\ dev' = [dev EXCEPT ![which] =
               IF @.gd THEN [@ EXCEPT !.gd = FALSE, !.queue = FALSE,
                                      !.data = Freed(@), !.tags = FALSE]
                       ELSE @]
  /\ IF which + 1 < ndevices THEN which' = which + 1 /\ UNCHANGED <<loader, major>>
     ELSE which' = 0 /\ loader' = "absent" /\ major' = FALSE
  /\ UNCHANGED <<param, failed, data, call, last>>

(* sbull_exit: each device gives back what its pointers say it has, then   *)
(* the driver is unregistered.                                             *)
ExitDevice ==
  /\ loader = "exit"
  /\ dev' = [dev EXCEPT ![which].gd = FALSE, ![which].queue = FALSE,
                        ![which].data = Freed(@), ![which].tags = FALSE]
  /\ IF which + 1 < ndevices THEN which' = which + 1 /\ UNCHANGED <<loader, major>>
     ELSE which' = 0 /\ loader' = "absent" /\ major' = FALSE
  /\ UNCHANGED <<param, failed, data, call, last>>

-----------------------------------------------------------------------------
(* sbull_open; also while later devices are still being set up.  With no   *)
(* user yet it asks sbull_media_changed, which always says no.             *)
Open(t) ==
  /\ disk[t] = NoDisk /\ loader # "exit"
  /\ \E d \in Devs :
        /\ dev[d].gd
        /\ disk' = [disk EXCEPT ![t] = d]
        /\ dev' = [dev EXCEPT ![d].users = @ + 1]
  /\ UNCHANGED <<param, loader, which, major, failed, data, pc, rq, seg, pos,
                 nr_bytes, clean, last>>

Release(t) ==
  /\ disk[t] # NoDisk /\ pc[t] = "idle"
  /\ dev' = [dev EXCEPT ![disk[t]].users = @ - 1]
  /\ disk' = [disk EXCEPT ![t] = NoDisk]
  /\ UNCHANGED <<param, loader, which, major, failed, data, pc, rq, seg, pos,
                 nr_bytes, clean, last>>

InFlight(t) == pc[t] \in {"transfer", "end"}

(* The sector numbers a request covers, if one sector covers SPAN numbers. *)
(* The kernel counts in sectors: SPAN = 1.  The driver takes the number    *)
(* for a byte offset, and its sectors are KERNEL_SECTOR_SIZE apart.        *)
Span(r) == r.sector .. r.sector + SPAN * (Bytes(r) \div KERNEL_SECTOR_SIZE) - 1

Disturbs(r, q) == r.dir = "write" /\ Span(r) \cap Span(q) # {}

(* _queue_rq, up to the loop of do_simple_request.  clean and last record  *)
(* what the request disturbs, and what disturbs it.                        *)
QueueRq(t) ==
  /\ disk[t] # NoDisk /\ pc[t] = "idle"
  /\ \E r \in Requests :
        /\ r.sector + Bytes(r) \div KERNEL_SECTOR_SIZE <= Capacity
        /\ rq' = [rq EXCEPT ![t] = r]
        /\ pos' = [pos EXCEPT ![t] = r.sector]
        /\ LET others == {u \in Tasks \ {t} : InFlight(u) /\ disk[u] = disk[t]}
           IN  clean' = [u \in Tasks |->
                           CASE u = t -> \A o \in others : ~Disturbs(rq[o], r)
                             [] u \in others -> clean[u] /\ ~Disturbs(r, rq[u])
                             [] OTHER -> clean[u]]
        /\ last' = [last EXCEPT ![disk[t]] = {w \in @ : ~Disturbs(r, w)}]
  /\ pc' = [pc EXCEPT ![t] = "transfer"]
  /\ seg' = [seg EXCEPT ![t] = 1] /\ nr_bytes' = [nr_bytes EXCEPT ![t] = 0]
  /\ UNCHANGED <<module, data, disk>>

(* b_len, clipped to the end of the device; a transfer that starts beyond  *)
(* the end gets a negative, that is, a huge length.                        *)
Length(t) == LET b_len == Len(rq[t].bufs[seg[t]])
                 size  == dev[disk[t]].size
             IN  IF pos[t] + b_len > size THEN size - pos[t] ELSE b_len

(* Mutant: pos stays where the request starts. *)
TransferInPlace(t) ==
  LET n == Length(t)
      d == disk[t]
      b == rq[t].bufs[seg[t]]
  IN  /\ pc[t] = "transfer" /\ n >= 0
      /\ \/ /\ rq[t].dir = "write"
            /\ data' = [data EXCEPT ![d] =
                          [i \in DOMAIN @ |-> IF i \in pos[t] + 1 .. pos[t] + n
                                              THEN b[i - pos[t]] ELSE @[i]]]
            /\ UNCHANGED rq
         \/ /\ rq[t].dir = "read"
            /\ rq' = [rq EXCEPT ![t].bufs[seg[t]] =
                        [i \in DOMAIN b |-> IF i <= n THEN data[d][pos[t] + i] ELSE b[i]]]
            /\ UNCHANGED data
      /\ nr_bytes' = [nr_bytes EXCEPT ![t] = @ + n]
      /\ seg' = [seg EXCEPT ![t] = @ + 1]
      /\ pc' = [pc EXCEPT ![t] = IF seg[t] = Len(rq[t].bufs) THEN "end" ELSE "transfer"]
      /\ UNCHANGED <<module, disk, pos, clean, last>>

(* One segment of the loop.                                                *)
Transfer(t) ==
  LET n == Length(t)
      d == disk[t]
      b == rq[t].bufs[seg[t]]
  IN  /\ pc[t] = "transfer" /\ n >= 0
      /\ \/ /\ rq[t].dir = "write"
            /\ data' = [data EXCEPT ![d] =
                          [i \in DOMAIN @ |-> IF i \in pos[t] + 1 .. pos[t] + n
                                              THEN b[i - pos[t]] ELSE @[i]]]
            /\ UNCHANGED rq
         \/ /\ rq[t].dir = "read"
            /\ rq' = [rq EXCEPT ![t].bufs[seg[t]] =
                        [i \in DOMAIN b |-> IF i <= n THEN data[d][pos[t] + i] ELSE b[i]]]
            /\ UNCHANGED data
      /\ pos' = [pos EXCEPT ![t] = @ + n]
      /\ nr_bytes' = [nr_bytes EXCEPT ![t] = @ + n]
      /\ seg' = [seg EXCEPT ![t] = @ + 1]
      /\ pc' = [pc EXCEPT ![t] = IF seg[t] = Len(rq[t].bufs) THEN "end" ELSE "transfer"]
      /\ UNCHANGED <<module, disk, clean, last>>

(* The huge length.                                                        *)
Overrun(t) == /\ pc[t] = "transfer" /\ Length(t) < 0
              /\ pc' = [pc EXCEPT ![t] = "oops"]
              /\ UNCHANGED <<module, data, disk, rq, seg, pos, nr_bytes, clean, last>>

(* blk_update_request says whether bytes remain; then BUG.  The locals of  *)
(* a call that is over are reset.                                          *)
EndRq(t) ==
  /\ pc[t] = "end"
  /\ \/ /\ nr_bytes[t] = Bytes(rq[t])
        /\ pc' = [pc EXCEPT ![t] = "idle"] /\ rq' = [rq EXCEPT ![t] = NoRequest]
        /\ seg' = [seg EXCEPT ![t] = 1] /\ clean' = [clean EXCEPT ![t] = FALSE]
        /\ pos' = [pos EXCEPT ![t] = 0] /\ nr_bytes' = [nr_bytes EXCEPT ![t] = 0]
        /\ last' = [last EXCEPT ![disk[t]] =
                      IF rq[t].dir = "write" /\ clean[t] THEN @ \cup {rq[t]} ELSE @]
     \/ /\ nr_bytes[t] < Bytes(rq[t])
        /\ pc' = [pc EXCEPT ![t] = "oops"]
        /\ UNCHANGED <<rq, seg, pos, nr_bytes, clean, last>>
  /\ UNCHANGED <<module, data, disk>>

-----------------------------------------------------------------------------
LoadStep == Register \/ Kmalloc \/ SetupData \/ SetupQueue \/ SetupDisk \/ ExitDevice

RqStep(t) == Transfer(t) \/ Overrun(t) \/ EndRq(t)

Next == \/ LoadStep \/ Exit
        \/ \E t \in Tasks : Open(t) \/ Release(t) \/ QueueRq(t) \/ RqStep(t)

Spec == Init /\ [][Next]_vars

-----------------------------------------------------------------------------
Device == [size : 0 .. UINT - 1, data : {"NULL", "held", "freed", "twice"},
           users : Nat, queue : BOOLEAN, gd : BOOLEAN, tags : BOOLEAN]

ModuleTypes == /\ param \in Params
               /\ loader \in {"register", "kmalloc", "vmalloc", "queue", "disk",
                              "oops", "live", "exit", "absent"}
               /\ which \in Devs /\ major \in BOOLEAN
               /\ failed \subseteq {"kmalloc", "vmalloc", "tags", "queue", "disk"} \X Devs
               /\ dev \in [Devs -> Device] /\ data \in [Devs -> Seq(Byte)]

CallTypes == /\ pc \in [Tasks -> {"idle", "transfer", "end", "oops"}]
             /\ disk \in [Tasks -> Devs \cup {NoDisk}]
             /\ rq \in [Tasks -> RequestSet] /\ seg \in [Tasks -> Nat \ {0}]
             /\ pos \in [Tasks -> Nat] /\ nr_bytes \in [Tasks -> Nat]
             /\ clean \in [Tasks -> BOOLEAN]

TypeOK == /\ ModuleTypes /\ CallTypes
          /\ last \in [Devs -> SUBSET Requests]
          /\ \A d \in Devs : /\ dev[d].users = Cardinality({t \in Tasks : disk[t] = d})
                             /\ Len(data[d]) \in {0, dev[d].size}
          /\ \A t \in Tasks : InFlight(t) => nr_bytes[t] = pos[t] - rq[t].sector

(* Every request that the block layer lets through lies inside the data    *)
(* array, so that none is clipped and ends in BUG, and none starts beyond  *)
(* the end: what set_capacity is told fits what vmalloc was asked for,     *)
(* unless the product of the parameters wraps around in dev->size.         *)
RequestsFit == param.nsectors * param.hardsect_size < UINT
                 => \A t \in Tasks : pc[t] # "oops"

(* A sector reads back as it was last written, by any task, whatever other *)
(* requests are in flight, unless one of them overlaps it or has           *)
(* overwritten it since.  How far a request reaches is a matter of SPAN:   *)
(* in the kernel's sectors this fails, in the driver's bytes it holds.     *)
ReadBack ==
  \A t \in Tasks : pc[t] = "end" /\ rq[t].dir = "read" /\ clean[t]
    => \A w \in last[disk[t]] :
         w.sector = rq[t].sector /\ Bytes(rq[t]) <= Bytes(w)
           => IsPrefix(FlattenSeq(rq[t].bufs), FlattenSeq(w.bufs))

(* Whatever failed while the module was loaded, when it is gone, or could  *)
(* not be loaded, nothing it allocated or registered is left, except that  *)
(* a failed kmalloc, and a major number given as a parameter, leave the    *)
(* driver registered; and the data of a device is freed once, unless its   *)
(* gendisk could not be allocated: out_vfree does not clear the pointer,   *)
(* and exit frees again.                                                   *)
GivenBackOnce ==
  /\ loader = "absent"
       => /\ major => param.sbull_major # 0 \/ <<"kmalloc", 0>> \in failed
          /\ \A d \in Devs : /\ ~dev[d].queue /\ ~dev[d].gd /\ ~dev[d].tags
                             /\ dev[d].data # "held"
  /\ \A d \in Devs : dev[d].data = "twice" => <<"disk", d>> \in failed

(* The data that a request is copied to or from is allocated, and its      *)
(* queue exists: no failure of another device, and no unloading, takes a   *)
(* device away under its requests.                                         *)
DataUnderRequests == \A t \in Tasks : InFlight(t)
                       => LET d == dev[disk[t]] IN d.data = "held" /\ d.queue /\ d.gd
=============================================================================
