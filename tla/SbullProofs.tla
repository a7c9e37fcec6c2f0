----------------------------- MODULE SbullProofs -----------------------------
(***************************************************************************)
(* Theorems about Sbull, for any number of disks, tasks and requests, any  *)
(* sector size and any parameters of the module.                           *)
(***************************************************************************)
EXTENDS Sbull, FiniteSetTheorems, WellFoundedInduction, TLAPS

(* The devices that the loader has not come to yet.                        *)
Untouched(d) == \/ loader \in {"register", "kmalloc"}
                \/ loader = "vmalloc" /\ d >= which
                \/ loader \in {"queue", "disk", "oops"} /\ d > which

(* Those that exit has been through.                                       *)
GivenBack(d) == loader = "exit" /\ d < which

(* What a device has at every stage of load and unload.                    *)
DeviceStage(d) ==
  /\ Untouched(d) => dev[d] = Blank /\ data[d] = <<>>
  /\ loader \in {"queue", "disk"} /\ d = which
       => dev[d].data = "held" /\ ~dev[d].gd
  /\ loader = "disk" /\ d = which => dev[d].queue
  /\ dev[d].gd => dev[d].queue /\ dev[d].data = "held"
  /\ dev[d].data = "held" => dev[d].size = Size /\ Len(data[d]) = Size
  /\ GivenBack(d) \/ loader = "absent"
       => ~dev[d].queue /\ ~dev[d].gd /\ ~dev[d].tags /\ dev[d].data # "held"
  /\ dev[d].data = "freed" => \/ <<"disk", d>> \in failed
                              \/ GivenBack(d) \/ loader = "absent"
  /\ dev[d].data = "twice" => <<"disk", d>> \in failed

(* The driver's registration.                                              *)
MajorInv ==
  /\ loader = "register" => ~major
  /\ loader \in {"register", "kmalloc", "live", "absent"} => which = 0
  /\ loader = "absent" /\ major => param.sbull_major # 0 \/ <<"kmalloc", 0>> \in failed

(* A task issues requests only while it has a disk open, the disk it has   *)
(* open exists, and exit waits for everybody.                              *)
UseInv ==
  /\ \A t \in Tasks : disk[t] # NoDisk => dev[disk[t]].gd
  /\ \A t \in Tasks : pc[t] # "idle" => disk[t] # NoDisk
  /\ loader = "exit" => \A t \in Tasks : disk[t] = NoDisk

(* The call is at a segment of its request; a write's request stays as it  *)
(* was issued.                                                             *)
SegmentInv ==
  \A t \in Tasks : /\ pc[t] = "transfer" => seg[t] \in 1 .. Len(rq[t].bufs)
                   /\ InFlight(t) /\ rq[t].dir = "write" => rq[t] \in Requests

Inv == TypeOK /\ (\A d \in Devs : DeviceStage(d)) /\ MajorInv /\ UseInv /\ SegmentInv

-----------------------------------------------------------------------------
(* The constants. *)
LEMMA DevsBasics == /\ ndevices \in Nat \ {0} /\ NoDisk \notin Devs
                    /\ \A d \in Devs : d \in Nat /\ d < ndevices
                    /\ 0 \in Devs /\ \A d \in Devs : d + 1 < ndevices => d + 1 \in Devs
  BY DeviceAssumption DEF Devs, NoDisk

LEMMA SizeType == ASSUME param \in Params PROVE Size \in 0 .. UINT - 1
<1>1. param.nsectors \in Nat /\ param.hardsect_size \in Nat
  BY ParamAssumption
<1>2. param.nsectors * param.hardsect_size \in Nat
  BY <1>1
<1>3. \A n \in Nat : n % UINT \in 0 .. UINT - 1
  BY WidthAssumption
<1> QED BY <1>2, <1>3 DEF Size

LEMMA SameSize == ASSUME param' = param PROVE Size' = Size
  BY DEF Size

LEMMA BlankType == Blank \in Device
<1>1. 0 \in 0 .. UINT - 1 /\ 0 \in Nat
  BY WidthAssumption
<1> QED BY <1>1, Zenon DEF Blank, Device

LEMMA BlankFields == /\ Blank.size = 0 /\ Blank.data = "NULL" /\ Blank.users = 0
                     /\ ~Blank.queue /\ ~Blank.gd /\ ~Blank.tags
  BY DEF Blank

LEMMA EmptyRequest == NoRequest \in RequestSet
<1>1. <<>> \in Seq(Seq(Byte))
  OBVIOUS
<1> QED BY <1>1 DEF NoRequest, Request, RequestSet

LEMMA NoUsers == ASSUME NEW d, \A t \in Tasks : disk[t] # d
                 PROVE  Cardinality({t \in Tasks : disk[t] = d}) = 0
<1>1. {t \in Tasks : disk[t] = d} = {}
  OBVIOUS
<1> QED BY <1>1, FS_EmptySet

LEMMA InitInv == Init => Inv
<1> SUFFICES ASSUME Init PROVE Inv
  OBVIOUS
<1>1. ModuleTypes
  <2>1. data \in [Devs -> Seq(Byte)]
    BY DEF Init
  <2> QED BY <2>1, DevsBasics, BlankType, Zenon DEF Init, ModuleTypes
<1>2. CallTypes
  BY EmptyRequest DEF Init, CallTypes
<1>3. \A d \in Devs : dev[d].users = Cardinality({t \in Tasks : disk[t] = d})
  BY NoUsers, DevsBasics DEF Init, Blank
<1>4. \A d \in Devs : Len(data[d]) \in {0, dev[d].size}
  BY DEF Init, Blank
<1>5. TypeOK
  BY <1>1, <1>2, <1>3, <1>4 DEF Init, TypeOK, InFlight
<1>6. \A d \in Devs : DeviceStage(d)
  BY DevsBasics DEF Init, DeviceStage, Blank, GivenBack
<1>7. MajorInv /\ UseInv /\ SegmentInv
  BY DEF Init, MajorInv, UseInv, SegmentInv, InFlight
<1> QED BY <1>5, <1>6, <1>7 DEF Inv

-----------------------------------------------------------------------------
(* What a step of the loader must establish when it leaves the tasks, and  *)
(* what they have open, alone.                                             *)
LEMMA LoaderFrame ==
  ASSUME Inv, UNCHANGED <<call, last, param>>, ModuleTypes',
         \A d \in Devs : /\ dev'[d].users = dev[d].users
                         /\ Len(data'[d]) \in {0, dev'[d].size}
                         /\ dev[d].gd /\ ~dev'[d].gd => \A t \in Tasks : disk[t] # d,
         loader' = "exit" => \A t \in Tasks : disk[t] = NoDisk
  PROVE  TypeOK' /\ UseInv' /\ SegmentInv'
<1>1. pc' = pc /\ disk' = disk /\ rq' = rq /\ seg' = seg /\ pos' = pos
      /\ nr_bytes' = nr_bytes /\ clean' = clean /\ last' = last
  BY DEF call
<1>2. TypeOK /\ UseInv /\ SegmentInv
  BY DEF Inv
<1>3. CallTypes' /\ last' \in [Devs -> SUBSET Requests]
  BY <1>1, <1>2, Zenon DEF TypeOK, CallTypes
<1>4. \A d \in Devs : dev[d].users = Cardinality({t \in Tasks : disk[t] = d})
  BY <1>2, Zenon DEF TypeOK
<1>5. \A d \in Devs : dev'[d].users = Cardinality({t \in Tasks : disk'[t] = d})
  BY <1>1, <1>4
<1>6. \A t \in Tasks : InFlight(t)' => nr_bytes'[t] = pos'[t] - rq'[t].sector
  <2>1. \A t \in Tasks : InFlight(t) => nr_bytes[t] = pos[t] - rq[t].sector
    BY <1>2, Zenon DEF TypeOK
  <2> QED BY <1>1, <2>1 DEF InFlight
<1>7. TypeOK'
  BY <1>3, <1>5, <1>6, Zenon DEF TypeOK
<1>8. UseInv'
  <2>1. \A t \in Tasks : disk[t] # NoDisk => disk[t] \in Devs
    BY <1>2 DEF TypeOK, CallTypes
  <2>2. \A t \in Tasks : disk[t] # NoDisk => dev'[disk[t]].gd
    BY <1>2, <2>1, Zenon DEF UseInv
  <2> QED BY <1>1, <1>2, <2>2, DevsBasics, Zenon DEF UseInv, NoDisk
<1>9. SegmentInv'
  BY <1>1, <1>2, Zenon DEF SegmentInv, InFlight
<1> QED BY <1>7, <1>8, <1>9

LEMMA RegisterStep == ASSUME Inv, Register \/ Kmalloc PROVE Inv'
<1> USE DEF Inv
<1>1. UNCHANGED <<param, which, dev, data, call, last>>
  BY DEF Register, Kmalloc
<1>2. /\ loader \in {"register", "kmalloc"} /\ loader' \in {"kmalloc", "vmalloc", "absent"}
      /\ loader' = "kmalloc" => loader = "register"
      /\ loader' = "vmalloc" => loader = "kmalloc"
  BY DEF Register, Kmalloc, Goto
<1>3. which = 0 /\ \A d \in Devs : dev[d] = Blank /\ data[d] = <<>>
  BY <1>2 DEF MajorInv, DeviceStage, Untouched
<1>4. ModuleTypes'
  <2>1. major' \in BOOLEAN
    BY DEF Register, Kmalloc, TypeOK, ModuleTypes
  <2>2. failed' \subseteq {"kmalloc", "vmalloc", "tags", "queue", "disk"} \X Devs
    BY DEF Register, Kmalloc, Fails, TypeOK, ModuleTypes
  <2>3. loader' \in {"register", "kmalloc", "vmalloc", "queue", "disk",
                     "oops", "live", "exit", "absent"}
    BY <1>2
  <2> QED BY <1>1, <2>1, <2>2, <2>3, Zenon DEF TypeOK, ModuleTypes
<1>5. TypeOK' /\ UseInv' /\ SegmentInv'
  BY <1>1, <1>2, <1>3, <1>4, LoaderFrame DEF Blank
<1>6. ASSUME NEW d \in Devs PROVE DeviceStage(d)'
  <2>1. dev'[d] = Blank /\ data'[d] = <<>>
    BY <1>1, <1>3
  <2>2. loader' # "exit" /\ loader' \notin {"queue", "disk"}
    BY <1>2
  <2> QED BY <2>1, <2>2, BlankFields DEF DeviceStage, GivenBack
<1>7. MajorInv'
  BY <1>1, <1>2, <1>3 DEF Register, Kmalloc, Goto, Fails, MajorInv, TypeOK, ModuleTypes
<1> QED BY <1>5, <1>6, <1>7

LEMMA SetupDataStep == ASSUME Inv, SetupData PROVE Inv'
<1> USE DEF Inv
<1> DEFINE Fresh(p) == [Blank EXCEPT !.size = Size, !.data = p]
<1>1. /\ loader = "vmalloc" /\ which \in Devs /\ dev[which] = Blank /\ data[which] = <<>>
      /\ \A t \in Tasks : disk[t] # which
  <2>1. loader = "vmalloc" /\ which \in Devs
    BY DEF SetupData, TypeOK, ModuleTypes
  <2>2. which \in Nat /\ DeviceStage(which)
    BY <2>1, DevsBasics
  <2>3. dev[which] = Blank /\ data[which] = <<>>
    BY <2>1, <2>2 DEF DeviceStage, Untouched
  <2> QED BY <2>1, <2>3, BlankFields, DevsBasics DEF UseInv
<1>0. \A d \in Devs : Len(data[d]) \in {0, dev[d].size}
  BY Zenon DEF TypeOK
<1>2. /\ Fresh("held") \in Device /\ Fresh("NULL") \in Device
      /\ Fresh("held").users = 0 /\ Fresh("held").size = Size /\ Fresh("held").data = "held"
      /\ Fresh("NULL").users = 0 /\ Fresh("NULL").size = Size /\ Fresh("NULL").data = "NULL"
      /\ ~Fresh("held").gd /\ ~Fresh("held").queue /\ ~Fresh("NULL").gd /\ ~Fresh("NULL").queue
      /\ Fresh("NULL") = [Blank EXCEPT !.size = Size]
  BY SizeType, BlankType DEF TypeOK, ModuleTypes, Blank, Device
<1>3. /\ [i \in 1 .. Size |-> Junk] \in Seq(Byte)
      /\ Len([i \in 1 .. Size |-> Junk]) = Size
  BY SizeType, DataAssumption DEF TypeOK, ModuleTypes
<1> HIDE DEF Fresh
<1>4. CASE /\ dev' = [dev EXCEPT ![which] = Fresh("held")]
           /\ data' = [data EXCEPT ![which] = [i \in 1 .. Size |-> Junk]]
           /\ loader' = "queue" /\ UNCHANGED <<which, failed>>
  <2>1. UNCHANGED <<param, major, call, last>>
    BY DEF SetupData
  <2>2. \A d \in Devs : /\ dev'[d] = IF d = which THEN Fresh("held") ELSE dev[d]
                        /\ data'[d] = IF d = which THEN [i \in 1 .. Size |-> Junk] ELSE data[d]
    BY <1>4 DEF TypeOK, ModuleTypes
  <2>3. ModuleTypes'
    BY <1>2, <1>3, <1>4, <2>1 DEF TypeOK, ModuleTypes
  <2>4. \A d \in Devs : /\ dev'[d].users = dev[d].users
                        /\ Len(data'[d]) \in {0, dev'[d].size}
                        /\ dev[d].gd /\ ~dev'[d].gd => \A t \in Tasks : disk[t] # d
    BY <2>2, <1>1, <1>2, <1>3, <1>0, BlankFields
  <2>5. TypeOK' /\ UseInv' /\ SegmentInv'
    BY <1>4, <2>1, <2>3, <2>4, LoaderFrame
  <2>6. ASSUME NEW d \in Devs PROVE DeviceStage(d)'
    <3>1. CASE d = which
      <4>1. dev'[d] = Fresh("held") /\ Len(data'[d]) = Size /\ d \in Nat
        BY <3>1, <1>3, <2>2, DevsBasics
      <4> QED BY SameSize, <2>1, <3>1, <4>1, <1>2, <1>4 DEF DeviceStage, Untouched, GivenBack
    <3>2. CASE d # which
      <4>1. DeviceStage(d)
        OBVIOUS
      <4> QED BY SameSize, <2>1, <4>1, <3>2, <1>1, <1>4, <2>2, DevsBasics DEF DeviceStage, Untouched, GivenBack
    <3> QED BY <3>1, <3>2
  <2>7. MajorInv'
    BY <1>1, <1>4, <2>1 DEF MajorInv
  <2> QED BY <2>5, <2>6, <2>7
<1>5. CASE /\ dev' = [dev EXCEPT ![which] = Fresh("NULL")]
           /\ Fails("vmalloc") /\ NextDevice /\ UNCHANGED data
  <2>1. UNCHANGED <<param, major, call, last>>
    BY DEF SetupData
  <2>2. \A d \in Devs : dev'[d] = IF d = which THEN Fresh("NULL") ELSE dev[d]
    BY <1>5 DEF TypeOK, ModuleTypes
  <2>3. \/ which + 1 \in Devs /\ loader' = "vmalloc" /\ which' = which + 1
        \/ which + 1 = ndevices /\ loader' = "live" /\ which' = 0
    BY <1>1, <1>5, DevsBasics DEF NextDevice, Devs
  <2>4. ModuleTypes'
    BY <1>1, <1>2, <1>5, <2>1, <2>3, DevsBasics DEF Fails, TypeOK, ModuleTypes
  <2>5. \A d \in Devs : /\ dev'[d].users = dev[d].users
                        /\ Len(data'[d]) \in {0, dev'[d].size}
                        /\ dev[d].gd /\ ~dev'[d].gd => \A t \in Tasks : disk[t] # d
    BY <2>2, <1>1, <1>2, <1>5, <1>0, BlankFields
  <2>6. TypeOK' /\ UseInv' /\ SegmentInv'
    BY <1>5, <2>1, <2>3, <2>4, <2>5, LoaderFrame
  <2>7. failed \subseteq failed'
    BY <1>5 DEF Fails
  <2>8. ASSUME NEW d \in Devs PROVE DeviceStage(d)'
    <3>1. CASE d = which
      BY <3>1, <1>1, <1>2, <1>5, <2>2, <2>3, DevsBasics DEF DeviceStage, Untouched, GivenBack
    <3>2. CASE d # which
      <4>1. DeviceStage(d)
        OBVIOUS
      <4> QED BY SameSize, <2>1, <4>1, <3>2, <1>1, <1>5, <2>2, <2>3, <2>7, DevsBasics
              DEF DeviceStage, Untouched, GivenBack
    <3> QED BY <3>1, <3>2
  <2>9. MajorInv'
    BY <1>1, <2>1, <2>3 DEF MajorInv
  <2> QED BY <2>6, <2>8, <2>9
<1> QED BY <1>2, <1>4, <1>5 DEF SetupData, Fresh

LEMMA SetupQueueStep == ASSUME Inv, SetupQueue PROVE Inv'
<1> USE DEF Inv
<1> DEFINE D == dev[which]
           E(q) == [D EXCEPT !.tags = TRUE, !.queue = q]
<1>1. /\ loader = "queue" /\ which \in Devs /\ which \in Nat /\ DeviceStage(which)
      /\ D \in Device /\ D.data = "held" /\ ~D.gd
  <2>1. loader = "queue" /\ which \in Devs
    BY DEF SetupQueue, Goto, TypeOK, ModuleTypes
  <2> QED BY <2>1, DevsBasics DEF DeviceStage, TypeOK, ModuleTypes
<1>2. UNCHANGED <<param, which, major, data, call, last>>
  BY DEF SetupQueue
<1>a. D.gd = FALSE /\ D.queue \in BOOLEAN
  BY <1>1 DEF Device
<1>b. /\ loader' \in {"disk", "oops"} /\ failed \subseteq failed'
      /\ failed' \subseteq {"kmalloc", "vmalloc", "tags", "queue", "disk"} \X Devs
  BY <1>1 DEF SetupQueue, Goto, Fails, TypeOK, ModuleTypes
<1>c. \/ dev' = [dev EXCEPT ![which] = E(TRUE)]
      \/ loader' = "oops" /\ dev' = [dev EXCEPT ![which] = D]
      \/ loader' = "oops" /\ dev' = [dev EXCEPT ![which] = E(D.queue)]
  BY <1>1, <1>a DEF SetupQueue, Goto, TypeOK, ModuleTypes, Device
<1>d. ASSUME NEW q \in BOOLEAN
      PROVE  /\ E(q) \in Device /\ E(q).data = "held" /\ ~E(q).gd /\ E(q).queue = q
             /\ E(q).users = D.users /\ E(q).size = D.size
  <2>1. E(q) \in Device
    BY <1>1 DEF Device
  <2>2. /\ E(q).data = D.data /\ E(q).gd = D.gd /\ E(q).queue = q
        /\ E(q).users = D.users /\ E(q).size = D.size
    BY <1>1 DEF Device
  <2> QED BY <2>1, <2>2, <1>1
<1> HIDE DEF E
<1>3. PICK e \in Device :
        /\ dev' = [dev EXCEPT ![which] = e]
        /\ e.data = "held" /\ ~e.gd /\ e.users = D.users /\ e.size = D.size
        /\ loader' = "disk" => e.queue
  <2>1. CASE dev' = [dev EXCEPT ![which] = E(TRUE)]
    BY <2>1, <1>d
  <2>2. CASE loader' = "oops" /\ dev' = [dev EXCEPT ![which] = D]
    BY <2>2, <1>1
  <2>3. CASE loader' = "oops" /\ dev' = [dev EXCEPT ![which] = E(D.queue)]
    BY <2>3, <1>a, <1>d
  <2> QED BY <2>1, <2>2, <2>3, <1>c
<1>4. \A d \in Devs : dev'[d] = IF d = which THEN e ELSE dev[d]
  BY <1>3 DEF TypeOK, ModuleTypes
<1>5. ModuleTypes'
  <2>1. dev' \in [Devs -> Device]
    BY <1>1, <1>3 DEF TypeOK, ModuleTypes
  <2>2. loader' \in {"register", "kmalloc", "vmalloc", "queue", "disk",
                     "oops", "live", "exit", "absent"}
    BY <1>b
  <2> QED BY <1>2, <1>b, <2>1, <2>2, Zenon DEF TypeOK, ModuleTypes
<1>6. \A d \in Devs : Len(data[d]) \in {0, dev[d].size}
  BY Zenon DEF TypeOK
<1>7. TypeOK' /\ UseInv' /\ SegmentInv'
  <2>1. \A d \in Devs : /\ dev'[d].users = dev[d].users
                        /\ Len(data'[d]) \in {0, dev'[d].size}
                        /\ dev[d].gd /\ ~dev'[d].gd => \A t \in Tasks : disk[t] # d
    BY <1>1, <1>2, <1>3, <1>4, <1>6
  <2> QED BY <2>1, <1>2, <1>b, <1>5, LoaderFrame
<1>8. ASSUME NEW d \in Devs PROVE DeviceStage(d)'
  <2>0. d \in Nat /\ DeviceStage(d)
    BY DevsBasics
  <2>1. CASE d = which
    <3>1. dev'[d] = e
      BY <2>1, <1>4
    <3>2. Len(data'[d]) = e.size
      BY <1>1, <1>2, <1>3, <2>1 DEF DeviceStage
    <3> QED BY SameSize, <2>0, <2>1, <3>1, <3>2, <1>1, <1>2, <1>3, <1>b DEF DeviceStage, Untouched, GivenBack
  <2>2. CASE d # which
    BY SameSize, <2>0, <2>2, <1>1, <1>2, <1>4, <1>b DEF DeviceStage, Untouched, GivenBack
  <2> QED BY <2>1, <2>2
<1>9. MajorInv'
  BY <1>b DEF MajorInv
<1> QED BY <1>7, <1>8, <1>9

(* How the loader goes on to the next device.                              *)
LEMMA NextDeviceCases ==
  ASSUME NextDevice, which \in Devs
  PROVE  /\ loader' \in {"vmalloc", "live"} /\ which' \in Devs
         /\ \/ which + 1 \in Devs /\ loader' = "vmalloc" /\ which' = which + 1
            \/ which + 1 = ndevices /\ loader' = "live" /\ which' = 0
<1>1. which \in Nat /\ which < ndevices /\ ndevices \in Nat /\ 0 \in Devs
  BY DevsBasics
<1>2. which + 1 < ndevices => which + 1 \in Devs
  BY DevsBasics
<1> QED BY <1>1, <1>2 DEF NextDevice

(* The types of a step that gives one device new fields.                   *)
LEMMA OneDevice ==
  ASSUME Inv, which \in Devs, NEW e \in Device, dev' = [dev EXCEPT ![which] = e],
         e.users = dev[which].users, e.size = dev[which].size,
         UNCHANGED <<param, data, call, last>>, major' \in BOOLEAN, which' \in Devs,
         loader' \in {"vmalloc", "queue", "disk", "oops", "live", "exit", "absent"},
         failed' \subseteq {"kmalloc", "vmalloc", "tags", "queue", "disk"} \X Devs,
         e.gd \/ ~dev[which].gd \/ loader = "exit",
         loader' = "exit" => loader = "exit"
  PROVE  /\ TypeOK' /\ UseInv' /\ SegmentInv'
         /\ \A d \in Devs : dev'[d] = IF d = which THEN e ELSE dev[d]
<1>1. TypeOK /\ UseInv
  BY DEF Inv
<1>2. ModuleTypes'
  <2>1. dev' \in [Devs -> Device]
    BY <1>1 DEF TypeOK, ModuleTypes
  <2>2. loader' \in {"register", "kmalloc", "vmalloc", "queue", "disk",
                     "oops", "live", "exit", "absent"}
    OBVIOUS
  <2> QED BY <1>1, <2>1, <2>2, Zenon DEF TypeOK, ModuleTypes
<1>3. \A d \in Devs : dev'[d] = IF d = which THEN e ELSE dev[d]
  BY <1>1 DEF TypeOK, ModuleTypes
<1>4. \A d \in Devs : Len(data[d]) \in {0, dev[d].size}
  BY <1>1, Zenon DEF TypeOK
<1>5. loader = "exit" => \A t \in Tasks : disk[t] = NoDisk
  BY <1>1 DEF UseInv
<1>6. \A d \in Devs : /\ dev'[d].users = dev[d].users
                      /\ Len(data'[d]) \in {0, dev'[d].size}
                      /\ dev[d].gd /\ ~dev'[d].gd => \A t \in Tasks : disk[t] # d
  BY <1>3, <1>4, <1>5, DevsBasics
<1> QED BY <1>2, <1>3, <1>5, <1>6, LoaderFrame

LEMMA SetupDiskStep == ASSUME Inv, SetupDisk PROVE Inv'
<1> USE DEF Inv
<1> DEFINE D == dev[which]
<1>1. /\ loader = "disk" /\ which \in Devs /\ which \in Nat /\ DeviceStage(which)
      /\ D \in Device /\ D.data = "held" /\ ~D.gd /\ D.queue
      /\ Len(data[which]) = D.size
  <2>1. loader = "disk" /\ which \in Devs
    BY DEF SetupDisk, TypeOK, ModuleTypes
  <2> QED BY <2>1, DevsBasics DEF DeviceStage, TypeOK, ModuleTypes
<1>2. UNCHANGED <<param, major, data, call, last>>
  BY DEF SetupDisk
<1>3. /\ loader' \in {"vmalloc", "live"} /\ which' \in Devs
      /\ \/ which + 1 \in Devs /\ loader' = "vmalloc" /\ which' = which + 1
         \/ which + 1 = ndevices /\ loader' = "live" /\ which' = 0
  BY <1>1, NextDeviceCases DEF SetupDisk
<1>4. /\ failed \subseteq failed'
      /\ failed' \subseteq {"kmalloc", "vmalloc", "tags", "queue", "disk"} \X Devs
  BY <1>1 DEF SetupDisk, Fails, TypeOK, ModuleTypes
<1>5. PICK e \in Device :
        /\ dev' = [dev EXCEPT ![which] = e]
        /\ e.users = D.users /\ e.size = D.size
        /\ \/ e.gd /\ e.queue /\ e.data = "held"
           \/ ~e.gd /\ e.data = "freed" /\ <<"disk", which>> \in failed'
  <2>1. CASE dev' = [dev EXCEPT ![which].gd = TRUE]
    <3> DEFINE E == [D EXCEPT !.gd = TRUE]
    <3>1. dev' = [dev EXCEPT ![which] = E]
      BY <2>1, <1>1 DEF TypeOK, ModuleTypes
    <3>2. E \in Device
      BY <1>1 DEF Device
    <3>3. E.users = D.users /\ E.size = D.size /\ E.gd /\ E.queue /\ E.data = "held"
      BY <1>1 DEF Device
    <3> QED BY <3>1, <3>2, <3>3
  <2>2. CASE dev' = [dev EXCEPT ![which].data = Freed(@)] /\ Fails("disk")
    <3> DEFINE E == [D EXCEPT !.data = "freed"]
    <3>1. dev' = [dev EXCEPT ![which] = E]
      BY <2>2, <1>1 DEF TypeOK, ModuleTypes, Freed
    <3>2. E \in Device
      BY <1>1 DEF Device
    <3>3. E.users = D.users /\ E.size = D.size /\ ~E.gd /\ E.data = "freed"
      BY <1>1 DEF Device
    <3>4. <<"disk", which>> \in failed'
      BY <2>2 DEF Fails
    <3> QED BY <3>1, <3>2, <3>3, <3>4
  <2> QED BY <2>1, <2>2 DEF SetupDisk
<1>6. major' \in BOOLEAN
  BY <1>2 DEF TypeOK, ModuleTypes
<1>7. /\ TypeOK' /\ UseInv' /\ SegmentInv'
      /\ \A d \in Devs : dev'[d] = IF d = which THEN e ELSE dev[d]
  BY <1>1, <1>2, <1>3, <1>4, <1>5, <1>6, OneDevice
<1>8. ASSUME NEW d \in Devs PROVE DeviceStage(d)'
  <2>0. d \in Nat /\ d < ndevices /\ ndevices \in Nat /\ DeviceStage(d)
    BY DevsBasics
  <2>1. CASE d = which
    <3>1. dev'[d] = e
      BY <2>1, <1>7
    <3> QED BY SameSize, <2>0, <2>1, <3>1, <1>1, <1>2, <1>3, <1>5 DEF DeviceStage, Untouched, GivenBack
  <2>2. CASE d # which
    <3>1. dev'[d] = dev[d]
      BY <2>2, <1>7
    <3> QED BY SameSize, <2>0, <2>2, <3>1, <1>1, <1>2, <1>3, <1>4 DEF DeviceStage, Untouched, GivenBack
  <2> QED BY <2>1, <2>2
<1>9. MajorInv'
  BY <1>3 DEF MajorInv
<1> QED BY <1>7, <1>8, <1>9

LEMMA ExitStep == ASSUME Inv, Exit PROVE Inv'
<1> USE DEF Inv
<1>1. /\ loader = "live" /\ loader' = "exit" /\ \A t \in Tasks : disk[t] = NoDisk
      /\ UNCHANGED <<param, which, major, failed, dev, data, call, last>>
  BY DEF Exit, Goto
<1>2. which = 0
  BY <1>1 DEF MajorInv
<1>3. ModuleTypes'
  <2>1. loader' \in {"register", "kmalloc", "vmalloc", "queue", "disk",
                     "oops", "live", "exit", "absent"}
    BY <1>1
  <2> QED BY <1>1, <2>1, Zenon DEF TypeOK, ModuleTypes
<1>4. \A d \in Devs : Len(data[d]) \in {0, dev[d].size}
  BY Zenon DEF TypeOK
<1>5. TypeOK' /\ UseInv' /\ SegmentInv'
  BY <1>1, <1>3, <1>4, LoaderFrame
<1>6. ASSUME NEW d \in Devs PROVE DeviceStage(d)'
  BY SameSize, <1>1, <1>2, DevsBasics DEF DeviceStage, Untouched, GivenBack
<1>7. MajorInv'
  BY <1>1 DEF MajorInv
<1> QED BY <1>5, <1>6, <1>7

LEMMA ExitDeviceStep == ASSUME Inv, ExitDevice PROVE Inv'
<1> USE DEF Inv
<1> DEFINE D == dev[which]
           E == [D EXCEPT !.gd = FALSE, !.queue = FALSE, !.data = Freed(D.data), !.tags = FALSE]
<1>1. /\ loader = "exit" /\ which \in Devs /\ which \in Nat /\ which < ndevices
      /\ ndevices \in Nat /\ DeviceStage(which) /\ D \in Device
      /\ UNCHANGED <<param, failed, data, call, last>>
  BY DevsBasics DEF ExitDevice, TypeOK, ModuleTypes
<1>2. \/ which' = which + 1 /\ which + 1 \in Devs /\ loader' = "exit" /\ major' = major
      \/ which' = 0 /\ which + 1 = ndevices /\ loader' = "absent" /\ major' = FALSE
  BY <1>1, DevsBasics DEF ExitDevice
<1>3. D.data = "freed" => <<"disk", which>> \in failed
  BY <1>1 DEF DeviceStage, GivenBack
<1>4. /\ E \in Device /\ E.users = D.users /\ E.size = D.size
      /\ ~E.gd /\ ~E.queue /\ ~E.tags /\ E.data = Freed(D.data)
  <2>1. Freed(D.data) \in {"NULL", "held", "freed", "twice"}
    BY <1>1 DEF Freed, Device
  <2>2. E \in Device
    BY <1>1, <2>1 DEF Device
  <2> QED BY <1>1, <2>2 DEF Device
<1>5. dev' = [dev EXCEPT ![which] = E]
  BY <1>1 DEF ExitDevice, TypeOK, ModuleTypes
<1> HIDE DEF E
<1>6. E.data # "held" /\ (E.data = "twice" => <<"disk", which>> \in failed)
  BY <1>1, <1>3, <1>4 DEF Freed, DeviceStage, Device
<1>7. /\ TypeOK' /\ UseInv' /\ SegmentInv'
      /\ \A d \in Devs : dev'[d] = IF d = which THEN E ELSE dev[d]
  <2>1. major' \in BOOLEAN /\ which' \in Devs
    BY <1>2, DevsBasics DEF TypeOK, ModuleTypes
  <2>2. failed' \subseteq {"kmalloc", "vmalloc", "tags", "queue", "disk"} \X Devs
    BY <1>1 DEF TypeOK, ModuleTypes
  <2> QED BY <1>1, <1>2, <1>4, <1>5, <2>1, <2>2, OneDevice
<1>8. ASSUME NEW d \in Devs PROVE DeviceStage(d)'
  <2>0. d \in Nat /\ d < ndevices /\ DeviceStage(d)
    BY DevsBasics
  <2>1. CASE d = which
    <3>1. dev'[d] = E
      BY <2>1, <1>7
    <3> QED BY <2>0, <2>1, <3>1, <1>1, <1>2, <1>4, <1>6 DEF DeviceStage, Untouched, GivenBack
  <2>2. CASE d # which
    <3>1. dev'[d] = dev[d]
      BY <2>2, <1>7
    <3> QED BY SameSize, <2>0, <2>2, <3>1, <1>1, <1>2 DEF DeviceStage, Untouched, GivenBack
  <2> QED BY <2>1, <2>2
<1>9. MajorInv'
  BY <1>1, <1>2 DEF MajorInv
<1> QED BY <1>7, <1>8, <1>9

-----------------------------------------------------------------------------
(* Open and release, which count users.                                    *)
Users(f, d) == {t \in Tasks : f[t] = d}
Count(f, d) == Cardinality(Users(f, d))

LEMMA OneMore ==
  ASSUME NEW S, IsFiniteSet(S), NEW x, x \notin S, NEW T, T = S \cup {x}
  PROVE  Cardinality(T) = Cardinality(S) + 1 /\ Cardinality(S) \in Nat
  BY FS_AddElement, FS_CardinalityType

LEMMA UserComes ==
  ASSUME NEW f \in [Tasks -> Devs \cup {NoDisk}], NEW t \in Tasks,
         NEW to \in Devs \cup {NoDisk}, f[t] # to, NEW g, g = [f EXCEPT ![t] = to]
  PROVE  Count(g, to) = Count(f, to) + 1
<1>1. IsFiniteSet(Users(f, to))
  BY FS_Subset, DataAssumption DEF Users
<1>2. Users(g, to) = Users(f, to) \cup {t} /\ t \notin Users(f, to)
  BY DEF Users
<1> QED BY <1>1, <1>2, OneMore, Zenon DEF Count

LEMMA UserGoes ==
  ASSUME NEW f \in [Tasks -> Devs \cup {NoDisk}], NEW t \in Tasks,
         NEW to \in Devs \cup {NoDisk}, f[t] # to, NEW g, g = [f EXCEPT ![t] = to]
  PROVE  Count(f, f[t]) = Count(g, f[t]) + 1 /\ Count(g, f[t]) \in Nat
<1>1. IsFiniteSet(Users(g, f[t]))
  BY FS_Subset, DataAssumption DEF Users
<1>2. Users(f, f[t]) = Users(g, f[t]) \cup {t} /\ t \notin Users(g, f[t])
  BY DEF Users
<1> QED BY <1>1, <1>2, OneMore, Zenon DEF Count

(* Only the users of one device and the disk of one task change.           *)
LEMMA UserFrame ==
  ASSUME Inv, NEW t \in Tasks, NEW d \in Devs, NEW to \in Devs \cup {NoDisk}, NEW n \in Nat,
         UNCHANGED <<param, loader, which, major, failed, data, pc, rq, seg, pos,
                     nr_bytes, clean, last>>,
         disk' = [disk EXCEPT ![t] = to],
         NEW e \in Device, e = [dev[d] EXCEPT !.users = n], dev' = [dev EXCEPT ![d] = e],
         \A c \in Devs : dev'[c].users = Count(disk', c),
         dev[d].gd, loader # "exit" \/ to = NoDisk,
         to # NoDisk => dev[to].gd, to = NoDisk => pc[t] = "idle"
  PROVE  Inv'
<1> USE DEF Inv
<1>1. /\ d \in Nat /\ dev[d] \in Device
  BY DevsBasics DEF TypeOK, ModuleTypes, Device
<1>2. ModuleTypes'
  <2>1. dev' \in [Devs -> Device]
    BY <1>1 DEF TypeOK, ModuleTypes
  <2> QED BY <2>1, Zenon DEF TypeOK, ModuleTypes
<1>3. CallTypes' /\ last' \in [Devs -> SUBSET Requests]
  <2>1. disk' \in [Tasks -> Devs \cup {NoDisk}]
    BY DEF TypeOK, CallTypes
  <2> QED BY <2>1, Zenon DEF TypeOK, CallTypes
<1>4. \A c \in Devs : /\ dev'[c].size = dev[c].size /\ dev'[c].data = dev[c].data
                      /\ dev'[c].queue = dev[c].queue /\ dev'[c].gd = dev[c].gd
                      /\ dev'[c].tags = dev[c].tags /\ (c # d => dev'[c] = dev[c])
  BY <1>1 DEF TypeOK, ModuleTypes, Device
<1>5. TypeOK'
  <2>1. \A c \in Devs : Len(data[c]) \in {0, dev[c].size}
    BY Zenon DEF TypeOK
  <2>2. \A c \in Devs : Len(data'[c]) \in {0, dev'[c].size}
    BY <2>1, <1>4
  <2>3. \A c \in Devs : dev'[c].users = Cardinality({u \in Tasks : disk'[u] = c})
    BY Zenon DEF Users, Count
  <2>4. \A u \in Tasks : InFlight(u)' => nr_bytes'[u] = pos'[u] - rq'[u].sector
    <3>1. \A u \in Tasks : InFlight(u) => nr_bytes[u] = pos[u] - rq[u].sector
      BY Zenon DEF TypeOK
    <3> QED BY <3>1 DEF InFlight
  <2> QED BY <1>2, <1>3, <2>2, <2>3, <2>4, Zenon DEF TypeOK
<1>6. ASSUME NEW c \in Devs PROVE DeviceStage(c)'
  <2>1. dev[c] = Blank => dev'[c] = dev[c]
    BY <1>4, BlankFields
  <2> QED BY SameSize, <1>4, <2>1 DEF DeviceStage, Untouched, GivenBack
<1>7. UseInv'
  <2>1. \A u \in Tasks : disk'[u] = IF u = t THEN to ELSE disk[u]
    BY DEF TypeOK, CallTypes
  <2>2. \A u \in Tasks : disk[u] # NoDisk => disk[u] \in Devs
    BY DEF TypeOK, CallTypes
  <2> QED BY <1>4, <2>1, <2>2 DEF UseInv, NoDisk
<1>8. MajorInv' /\ SegmentInv'
  BY DEF MajorInv, SegmentInv, InFlight
<1> QED BY <1>5, <1>6, <1>7, <1>8

LEMMA OpenStep == ASSUME Inv, NEW t \in Tasks, Open(t) PROVE Inv'
<1> USE DEF Inv
<1>1. PICK d \in Devs : /\ dev[d].gd /\ disk' = [disk EXCEPT ![t] = d]
                        /\ dev' = [dev EXCEPT ![d].users = @ + 1]
  BY DEF Open
<1>2. /\ disk[t] = NoDisk /\ loader # "exit" /\ d # NoDisk
      /\ UNCHANGED <<param, loader, which, major, failed, data, pc, rq, seg, pos,
                     nr_bytes, clean, last>>
  BY DevsBasics DEF Open
<1>3. /\ dev[d].users \in Nat /\ [dev[d] EXCEPT !.users = dev[d].users + 1] \in Device
      /\ dev' = [dev EXCEPT ![d] = [dev[d] EXCEPT !.users = dev[d].users + 1]]
  <2>1. dev[d] \in Device /\ dev[d].users \in Nat /\ dev \in [Devs -> Device]
    BY DEF TypeOK, ModuleTypes, Device
  <2>2. [dev[d] EXCEPT !.users = dev[d].users + 1] \in Device
    BY <2>1 DEF Device
  <2>3. dev' = [dev EXCEPT ![d] = [dev[d] EXCEPT !.users = dev[d].users + 1]]
    BY <1>1, <2>1
  <2> QED BY <2>1, <2>2, <2>3
<1>4. \A c \in Devs : dev[c].users = Count(disk, c)
  BY Zenon DEF TypeOK, Users, Count
<1>5. \A c \in Devs : dev'[c].users = Count(disk', c)
  <2>1. \A c \in Devs : dev'[c].users = IF c = d THEN dev[d].users + 1 ELSE dev[c].users
    BY <1>1 DEF TypeOK, ModuleTypes, Device
  <2>2. disk \in [Tasks -> Devs \cup {NoDisk}]
    BY DEF TypeOK, CallTypes
  <2>3. d \in Devs \cup {NoDisk} /\ disk[t] # d
    BY <1>2
  <2>4. /\ Count(disk', d) = Count(disk, d) + 1
        /\ \A c \in Devs : c # d /\ c # disk[t] => Count(disk', c) = Count(disk, c)
    <3>1. Count(disk', d) = Count(disk, d) + 1
      BY <1>1, <2>2, <2>3, UserComes
    <3>2. ASSUME NEW c \in Devs, c # d, c # disk[t] PROVE Count(disk', c) = Count(disk, c)
      <4>1. disk' = [disk EXCEPT ![t] = d]
        BY <1>1
      <4>2. Users(disk', c) = Users(disk, c)
        BY <2>2, <3>2, <4>1 DEF Users
      <4> QED BY <4>2, Zenon DEF Count
    <3> QED BY <3>1, <3>2
  <2> QED BY <1>2, <1>4, <2>1, <2>4, DevsBasics
<1>6. dev[d].users + 1 \in Nat /\ d \in Devs \cup {NoDisk}
  BY <1>3
<1>7. PICK n \in Nat : n = dev[d].users + 1
  BY <1>6
<1>8. PICK e \in Device : /\ e = [dev[d] EXCEPT !.users = n]
                          /\ dev' = [dev EXCEPT ![d] = e]
  BY <1>3, <1>7, Zenon
<1>9. PICK to \in Devs \cup {NoDisk} : to = d
  BY <1>6
<1>10. /\ disk' = [disk EXCEPT ![t] = to] /\ dev[d].gd
       /\ (loader # "exit" \/ to = NoDisk) /\ (to # NoDisk => dev[to].gd)
       /\ to # NoDisk
  BY <1>1, <1>2, <1>9, Zenon
<1> HIDE DEF Inv
<1> QED BY <1>2, <1>5, <1>8, <1>10, UserFrame, Zenon

LEMMA ReleaseStep == ASSUME Inv, NEW t \in Tasks, Release(t) PROVE Inv'
<1> USE DEF Inv
<1> DEFINE d == disk[t]
<1>1. /\ d \in Devs /\ dev[d].gd /\ pc[t] = "idle" /\ d # NoDisk
      /\ disk' = [disk EXCEPT ![t] = NoDisk]
      /\ dev' = [dev EXCEPT ![d].users = @ - 1]
      /\ UNCHANGED <<param, loader, which, major, failed, data, pc, rq, seg, pos,
                     nr_bytes, clean, last>>
  BY DEF Release, TypeOK, CallTypes, UseInv
<1>2. disk \in [Tasks -> Devs \cup {NoDisk}]
  BY DEF TypeOK, CallTypes
<1>3. \A c \in Devs : dev[c].users = Count(disk, c)
  BY Zenon DEF TypeOK, Users, Count
<1>4. /\ Count(disk, d) = Count(disk', d) + 1 /\ Count(disk', d) \in Nat
      /\ \A c \in Devs : c # NoDisk /\ c # d => Count(disk', c) = Count(disk, c)
  <2>1. NoDisk \in Devs \cup {NoDisk} /\ disk[t] # NoDisk
    BY <1>1
  <2>2. Count(disk, d) = Count(disk', d) + 1 /\ Count(disk', d) \in Nat
    BY <1>1, <1>2, <2>1, UserGoes
  <2>3. \A c \in Devs : c # NoDisk /\ c # d => Count(disk', c) = Count(disk, c)
    <3>1. ASSUME NEW c \in Devs, c # NoDisk, c # d PROVE Count(disk', c) = Count(disk, c)
      <4>1. disk' = [disk EXCEPT ![t] = NoDisk]
        BY <1>1
      <4>2. Users(disk', c) = Users(disk, c)
        BY <1>2, <3>1, <4>1 DEF Users
      <4> QED BY <4>2, Zenon DEF Count
    <3> QED BY <3>1
  <2> QED BY <2>2, <2>3
<1>5. dev[d].users - 1 \in Nat
  BY <1>1, <1>3, <1>4
<1>6. /\ dev' = [dev EXCEPT ![d] = [dev[d] EXCEPT !.users = dev[d].users - 1]]
      /\ [dev[d] EXCEPT !.users = dev[d].users - 1] \in Device
  BY <1>1, <1>5 DEF TypeOK, ModuleTypes, Device
<1>7. \A c \in Devs : dev'[c].users = Count(disk', c)
  <2>1. \A c \in Devs : dev'[c].users = IF c = d THEN dev[d].users - 1 ELSE dev[c].users
    BY <1>1 DEF TypeOK, ModuleTypes, Device
  <2> QED BY <1>3, <1>4, <2>1, DevsBasics
<1>8. PICK n \in Nat : n = dev[d].users - 1
  BY <1>5
<1>9. PICK e \in Device : /\ e = [dev[d] EXCEPT !.users = n]
                          /\ dev' = [dev EXCEPT ![d] = e]
  BY <1>6, <1>8, Zenon
<1> NoDisk \in Devs \cup {NoDisk}
  OBVIOUS
<1> HIDE DEF Inv, d
<1> QED BY <1>1, <1>7, <1>8, <1>9, UserFrame, Zenon

-----------------------------------------------------------------------------
(* The request function.                                                   *)
LEMMA RequestFrame ==
  ASSUME Inv, UNCHANGED <<module, disk>>, data' \in [Devs -> Seq(Byte)],
         \A d \in Devs : Len(data'[d]) = Len(data[d]),
         CallTypes', last' \in [Devs -> SUBSET Requests], SegmentInv',
         \A t \in Tasks : InFlight(t)' => nr_bytes'[t] = pos'[t] - rq'[t].sector,
         \A t \in Tasks : pc'[t] # "idle" => disk[t] # NoDisk
  PROVE  Inv'
<1> USE DEF Inv
<1>1. /\ param' = param /\ loader' = loader /\ which' = which /\ major' = major
      /\ failed' = failed /\ dev' = dev /\ disk' = disk
  BY DEF module
<1>2. ModuleTypes'
  BY <1>1, Zenon DEF TypeOK, ModuleTypes
<1>3. TypeOK'
  <2>1. \A d \in Devs : dev'[d].users = Cardinality({u \in Tasks : disk'[u] = d})
    <3>1. \A d \in Devs : dev[d].users = Cardinality({u \in Tasks : disk[u] = d})
      BY Zenon DEF TypeOK
    <3> QED BY <1>1, <3>1
  <2>2. \A d \in Devs : Len(data[d]) \in {0, dev[d].size}
    BY Zenon DEF TypeOK
  <2>3. \A d \in Devs : Len(data'[d]) \in {0, dev'[d].size}
    BY <1>1, <2>2
  <2> QED BY <1>2, <2>1, <2>3, Zenon DEF TypeOK
<1>4. ASSUME NEW d \in Devs PROVE DeviceStage(d)'
  <2>1. data[d] = <<>> => data'[d] = <<>>
    <3>1. data'[d] \in Seq(Byte) /\ data[d] \in Seq(Byte) /\ Len(data'[d]) = Len(data[d])
      BY DEF TypeOK, ModuleTypes
    <3> QED BY <3>1
  <2> QED BY SameSize, <1>1, <2>1 DEF DeviceStage, Untouched, GivenBack
<1>5. UseInv' /\ MajorInv'
  BY <1>1, Zenon DEF UseInv, MajorInv
<1> QED BY <1>3, <1>4, <1>5

(* A request that is being served has its data.                            *)
LEMMA ServedData ==
  ASSUME Inv, NEW t \in Tasks, pc[t] # "idle"
  PROVE  /\ disk[t] \in Devs /\ dev[disk[t]].data = "held"
         /\ dev[disk[t]].queue /\ dev[disk[t]].gd
         /\ data[disk[t]] \in Seq(Byte) /\ Len(data[disk[t]]) = dev[disk[t]].size
         /\ dev[disk[t]].size \in Nat
<1> USE DEF Inv
<1>1. disk[t] \in Devs /\ dev[disk[t]].gd
  BY DEF UseInv, TypeOK, CallTypes
<1>2. /\ dev[disk[t]].data = "held" /\ dev[disk[t]].queue
      /\ Len(data[disk[t]]) = dev[disk[t]].size
  BY <1>1 DEF DeviceStage
<1>3. data[disk[t]] \in Seq(Byte) /\ dev[disk[t]] \in Device
  BY <1>1 DEF TypeOK, ModuleTypes
<1>4. dev[disk[t]].size \in Nat
  BY <1>3, WidthAssumption DEF Device
<1> QED BY <1>1, <1>2, <1>3, <1>4

LEMMA QueueRqStep == ASSUME Inv, NEW t \in Tasks, QueueRq(t) PROVE Inv'
<1> USE DEF Inv
<1> DEFINE others == {u \in Tasks \ {t} : InFlight(u) /\ disk[u] = disk[t]}
<1>1. PICK r \in Requests :
        /\ rq' = [rq EXCEPT ![t] = r] /\ pos' = [pos EXCEPT ![t] = r.sector]
        /\ clean' = [u \in Tasks |->
                       CASE u = t -> \A o \in others : ~Disturbs(rq[o], r)
                         [] u \in others -> clean[u] /\ ~Disturbs(r, rq[u])
                         [] OTHER -> clean[u]]
        /\ last' = [last EXCEPT ![disk[t]] = {w \in @ : ~Disturbs(r, w)}]
  BY DEF QueueRq
<1>2. /\ disk[t] # NoDisk /\ pc[t] = "idle" /\ UNCHANGED <<module, data, disk>>
      /\ pc' = [pc EXCEPT ![t] = "transfer"] /\ seg' = [seg EXCEPT ![t] = 1]
      /\ nr_bytes' = [nr_bytes EXCEPT ![t] = 0]
  BY DEF QueueRq
<1>3. /\ r \in RequestSet /\ r.sector \in Nat /\ r.bufs \in Seq(Seq(Byte))
      /\ Len(r.bufs) \in Nat \ {0}
  BY RequestAssumption DEF RequestSet
<1>4. clean' \in [Tasks -> BOOLEAN]
  <2>1. ASSUME NEW u \in Tasks PROVE clean'[u] \in BOOLEAN
    <3> HIDE DEF others
    <3>0. clean[u] \in BOOLEAN
      BY DEF TypeOK, CallTypes
    <3>1. CASE u = t /\ u \notin others
      BY <1>1, <3>1
    <3>2. CASE u # t /\ u \in others
      BY <1>1, <3>0, <3>2
    <3>3. CASE u # t /\ u \notin others
      BY <1>1, <3>0, <3>3
    <3>4. t \notin others
      BY DEF others
    <3> QED BY <3>1, <3>2, <3>3, <3>4
  <2> QED BY <1>1, <2>1
<1>5. CallTypes'
  <2>1. rq' \in [Tasks -> RequestSet] /\ pos' \in [Tasks -> Nat]
    BY <1>1, <1>3 DEF TypeOK, CallTypes
  <2>2. /\ pc' \in [Tasks -> {"idle", "transfer", "end", "oops"}]
        /\ seg' \in [Tasks -> Nat \ {0}] /\ nr_bytes' \in [Tasks -> Nat]
        /\ disk' = disk
    BY <1>2 DEF TypeOK, CallTypes
  <2> QED BY <1>4, <2>1, <2>2, Zenon DEF TypeOK, CallTypes
<1>6. last' \in [Devs -> SUBSET Requests]
  BY <1>1, <1>2 DEF TypeOK, CallTypes
<1>7. \A u \in Tasks : u # t => /\ pc'[u] = pc[u] /\ rq'[u] = rq[u] /\ seg'[u] = seg[u]
                                /\ pos'[u] = pos[u] /\ nr_bytes'[u] = nr_bytes[u]
  BY <1>1, <1>2 DEF TypeOK, CallTypes
<1>8. /\ pc'[t] = "transfer" /\ rq'[t] = r /\ seg'[t] = 1 /\ pos'[t] = r.sector
      /\ nr_bytes'[t] = 0
  BY <1>1, <1>2 DEF TypeOK, CallTypes
<1>9. SegmentInv'
  BY <1>3, <1>7, <1>8 DEF SegmentInv, InFlight
<1>10. \A u \in Tasks : InFlight(u)' => nr_bytes'[u] = pos'[u] - rq'[u].sector
  <2>1. \A u \in Tasks : InFlight(u) => nr_bytes[u] = pos[u] - rq[u].sector
    BY Zenon DEF TypeOK
  <2> QED BY <1>3, <1>7, <1>8, <2>1 DEF InFlight
<1>11. \A u \in Tasks : pc'[u] # "idle" => disk[u] # NoDisk
  BY <1>2, <1>7, <1>8 DEF UseInv
<1>12. data' = data /\ data \in [Devs -> Seq(Byte)]
  BY <1>2 DEF TypeOK, ModuleTypes
<1> QED BY <1>2, <1>5, <1>6, <1>9, <1>10, <1>11, <1>12, RequestFrame

LEMMA OverrunStep == ASSUME Inv, NEW t \in Tasks, Overrun(t) PROVE Inv'
<1> USE DEF Inv
<1>1. /\ pc[t] = "transfer" /\ pc' = [pc EXCEPT ![t] = "oops"]
      /\ UNCHANGED <<module, data, disk, rq, seg, pos, nr_bytes, clean, last>>
  BY DEF Overrun
<1>2. CallTypes'
  <2>1. pc' \in [Tasks -> {"idle", "transfer", "end", "oops"}]
    BY <1>1 DEF TypeOK, CallTypes
  <2> QED BY <1>1, <2>1, Zenon DEF TypeOK, CallTypes
<1>3. \A u \in Tasks : pc'[u] = IF u = t THEN "oops" ELSE pc[u]
  BY <1>1 DEF TypeOK, CallTypes
<1>4. SegmentInv'
  BY <1>1, <1>3 DEF SegmentInv, InFlight
<1>5. \A u \in Tasks : InFlight(u)' => nr_bytes'[u] = pos'[u] - rq'[u].sector
  <2>1. \A u \in Tasks : InFlight(u) => nr_bytes[u] = pos[u] - rq[u].sector
    BY Zenon DEF TypeOK
  <2> QED BY <1>1, <1>3, <2>1 DEF InFlight
<1>6. \A u \in Tasks : pc'[u] # "idle" => disk[u] # NoDisk
  BY <1>1, <1>3 DEF UseInv
<1>7. data' = data /\ data \in [Devs -> Seq(Byte)] /\ last' \in [Devs -> SUBSET Requests]
  BY <1>1 DEF TypeOK, ModuleTypes
<1> QED BY <1>1, <1>2, <1>4, <1>5, <1>6, <1>7, RequestFrame

(* The segment that a call is at, and how much of it is copied.            *)
LEMMA SegmentFacts ==
  ASSUME Inv, NEW t \in Tasks, pc[t] = "transfer"
  PROVE  LET b == rq[t].bufs[seg[t]] IN
         /\ rq[t] \in RequestSet /\ rq[t].bufs \in Seq(Seq(Byte))
         /\ seg[t] \in 1 .. Len(rq[t].bufs) /\ seg[t] \in Nat /\ Len(rq[t].bufs) \in Nat
         /\ pos[t] \in Nat /\ nr_bytes[t] \in Nat
         /\ b \in Seq(Byte) /\ Len(b) \in Nat /\ DOMAIN b = 1 .. Len(b)
         /\ Length(t) \in Int
         /\ Length(t) >= 0 => /\ Length(t) \in 0 .. Len(b)
                              /\ pos[t] + Length(t) <= Len(data[disk[t]])
                              /\ \/ Length(t) = Len(b)
                                 \/ pos[t] + Length(t) = Len(data[disk[t]])
         /\ Length(t) < 0 => pos[t] + Len(b) > Len(data[disk[t]])
<1> DEFINE b == rq[t].bufs[seg[t]]
<1> USE DEF Inv
<1>1. /\ rq[t] \in RequestSet /\ pos[t] \in Nat /\ nr_bytes[t] \in Nat
      /\ seg[t] \in 1 .. Len(rq[t].bufs)
  BY DEF TypeOK, CallTypes, SegmentInv
<1>2. rq[t].bufs \in Seq(Seq(Byte))
  BY <1>1 DEF RequestSet
<1>3. Len(rq[t].bufs) \in Nat /\ seg[t] \in Nat
  BY <1>1, <1>2
<1>4. b \in Seq(Byte)
  BY <1>1, <1>2
<1>5. Len(b) \in Nat /\ DOMAIN b = 1 .. Len(b)
  BY <1>4
<1>6. dev[disk[t]].size \in Nat /\ Len(data[disk[t]]) = dev[disk[t]].size
  BY ServedData
<1>7. Length(t) = IF pos[t] + Len(b) > dev[disk[t]].size
                  THEN dev[disk[t]].size - pos[t] ELSE Len(b)
  BY DEF Length
<1> HIDE DEF b
<1>8. /\ Length(t) \in Int
      /\ Length(t) >= 0 => /\ Length(t) \in 0 .. Len(b)
                           /\ pos[t] + Length(t) <= Len(data[disk[t]])
                           /\ \/ Length(t) = Len(b)
                              \/ pos[t] + Length(t) = Len(data[disk[t]])
      /\ Length(t) < 0 => pos[t] + Len(b) > Len(data[disk[t]])
  BY <1>1, <1>5, <1>6, <1>7
<1> QED BY <1>1, <1>2, <1>3, <1>4, <1>5, <1>8, Zenon DEF b

LEMMA ByteString == ASSUME NEW m \in Nat, NEW f \in [1 .. m -> Byte]
                    PROVE  f \in Seq(Byte) /\ Len(f) = m
  OBVIOUS

(* One copied segment: what it changes.                                    *)
LEMMA TransferFacts ==
  ASSUME Inv, NEW t \in Tasks, Transfer(t)
  PROVE  LET n == Length(t)
             d == disk[t]
             b == rq[t].bufs[seg[t]]
         IN  /\ pc[t] = "transfer" /\ n \in Nat
             /\ pc' = [pc EXCEPT ![t] = IF seg[t] = Len(rq[t].bufs) THEN "end" ELSE "transfer"]
             /\ pos' = [pos EXCEPT ![t] = @ + n] /\ nr_bytes' = [nr_bytes EXCEPT ![t] = @ + n]
             /\ seg' = [seg EXCEPT ![t] = @ + 1]
             /\ UNCHANGED <<module, disk, clean, last>>
             /\ \A u \in Tasks : u # t => rq'[u] = rq[u]
             /\ rq'[t].dir = rq[t].dir /\ rq'[t].sector = rq[t].sector
             /\ Len(rq'[t].bufs) = Len(rq[t].bufs)
             /\ rq' \in [Tasks -> RequestSet] /\ data' \in [Devs -> Seq(Byte)]
             /\ \A c \in Devs : Len(data'[c]) = Len(data[c]) /\ (c # d => data'[c] = data[c])
             /\ rq[t].dir = "write" =>
                  /\ rq' = rq
                  /\ \A i \in 1 .. Len(data[d]) :
                       data'[d][i] = IF i \in pos[t] + 1 .. pos[t] + n
                                     THEN b[i - pos[t]] ELSE data[d][i]
             /\ rq[t].dir = "read" =>
                  /\ data' = data
                  /\ \A k \in 1 .. Len(rq[t].bufs) :
                       /\ Len(rq'[t].bufs[k]) = Len(rq[t].bufs[k])
                       /\ k # seg[t] => rq'[t].bufs[k] = rq[t].bufs[k]
                  /\ \A i \in 1 .. n : rq'[t].bufs[seg[t]][i] = data[d][pos[t] + i]
<1> DEFINE n == Length(t)
           d == disk[t]
           b == rq[t].bufs[seg[t]]
           R == rq[t]
           got == [i \in 1 .. Len(b) |-> IF i <= n THEN data[d][pos[t] + i] ELSE b[i]]
           put == [i \in 1 .. Len(data[d]) |-> IF i \in pos[t] + 1 .. pos[t] + n
                                              THEN b[i - pos[t]] ELSE data[d][i]]
<1> USE DEF Inv
<1>1. /\ pc[t] = "transfer" /\ n >= 0
      /\ pc' = [pc EXCEPT ![t] = IF seg[t] = Len(rq[t].bufs) THEN "end" ELSE "transfer"]
      /\ pos' = [pos EXCEPT ![t] = @ + n] /\ nr_bytes' = [nr_bytes EXCEPT ![t] = @ + n]
      /\ seg' = [seg EXCEPT ![t] = @ + 1]
      /\ UNCHANGED <<module, disk, clean, last>>
  BY DEF Transfer
<1>2. /\ R \in RequestSet /\ R.bufs \in Seq(Seq(Byte)) /\ Len(R.bufs) \in Nat
      /\ seg[t] \in 1 .. Len(R.bufs) /\ pos[t] \in Nat
      /\ b \in Seq(Byte) /\ Len(b) \in Nat /\ DOMAIN b = 1 .. Len(b)
      /\ n \in 0 .. Len(b) /\ pos[t] + n <= Len(data[d])
  BY <1>1, SegmentFacts
<1>3. d \in Devs /\ data[d] \in Seq(Byte) /\ Len(data[d]) \in Nat
      /\ DOMAIN data[d] = 1 .. Len(data[d])
  BY <1>1, ServedData
<1>4. data \in [Devs -> Seq(Byte)] /\ rq \in [Tasks -> RequestSet]
  BY DEF TypeOK, ModuleTypes, CallTypes
<1>b. /\ \A i \in 1 .. Len(b) : b[i] \in Byte
      /\ \A i \in 1 .. Len(data[d]) : data[d][i] \in Byte
  BY <1>2, <1>3
<1>5. CASE R.dir = "write"
  <2>1. data' = [data EXCEPT ![d] = put] /\ rq' = rq
    BY <1>3, <1>5 DEF Transfer
  <2>2. put \in Seq(Byte) /\ Len(put) = Len(data[d])
    <3>1. ASSUME NEW i \in 1 .. Len(data[d])
          PROVE  (IF i \in pos[t] + 1 .. pos[t] + n THEN b[i - pos[t]] ELSE data[d][i]) \in Byte
      <4>1. i \in pos[t] + 1 .. pos[t] + n => i - pos[t] \in 1 .. Len(b)
        <5>1. /\ i \in Int /\ pos[t] \in Nat /\ Len(b) \in Nat
              /\ n \in Nat /\ n <= Len(b)
          BY <1>2, <1>3
        <5> HIDE DEF n, b
        <5> QED BY <5>1
      <4> QED BY <1>b, <4>1
    <3>2. put \in [1 .. Len(data[d]) -> Byte]
      BY <3>1
    <3> QED BY <1>3, <3>2, ByteString, Zenon
  <2> HIDE DEF put
  <2>3. /\ data' \in [Devs -> Seq(Byte)]
        /\ \A c \in Devs : Len(data'[c]) = Len(data[c]) /\ (c # d => data'[c] = data[c])
    BY <1>3, <1>4, <2>1, <2>2
  <2>4. data'[d] = put
    BY <1>3, <1>4, <2>1
  <2>5. \A i \in 1 .. Len(data[d]) :
          data'[d][i] = IF i \in pos[t] + 1 .. pos[t] + n THEN b[i - pos[t]] ELSE data[d][i]
    BY <2>4 DEF put
  <2> QED BY <1>1, <1>2, <1>4, <1>5, <2>1, <2>3, <2>5
<1>6. CASE R.dir = "read"
  <2>1. rq' = [rq EXCEPT ![t].bufs[seg[t]] = got] /\ data' = data
    BY <1>2, <1>6 DEF Transfer
  <2>2. got \in Seq(Byte) /\ Len(got) = Len(b)
    <3>1. ASSUME NEW i \in 1 .. Len(b)
          PROVE  (IF i <= n THEN data[d][pos[t] + i] ELSE b[i]) \in Byte
      <4>1. i <= n => pos[t] + i \in 1 .. Len(data[d])
        BY <1>2, <1>3
      <4> QED BY <1>b, <4>1
    <3>2. got \in [1 .. Len(b) -> Byte]
      BY <3>1
    <3> QED BY <1>2, <3>2, ByteString, Zenon
  <2>3. \A i \in 1 .. n : got[i] = data[d][pos[t] + i]
    BY <1>2
  <2> HIDE DEF got
  <2> DEFINE bufs == [R.bufs EXCEPT ![seg[t]] = got]
  <2>4. rq' = [rq EXCEPT ![t] = [R EXCEPT !.bufs = bufs]]
    BY <1>4, <2>1 DEF RequestSet
  <2>5. bufs \in Seq(Seq(Byte)) /\ Len(bufs) = Len(R.bufs)
    BY <1>2, <2>2
  <2>6. \A k \in 1 .. Len(R.bufs) : bufs[k] = IF k = seg[t] THEN got ELSE R.bufs[k]
    BY <1>2
  <2> HIDE DEF bufs
  <2>7. [R EXCEPT !.bufs = bufs] \in RequestSet
    BY <1>2, <2>5 DEF RequestSet
  <2>8. /\ rq' \in [Tasks -> RequestSet] /\ rq'[t] = [R EXCEPT !.bufs = bufs]
        /\ \A u \in Tasks : u # t => rq'[u] = rq[u]
    BY <1>4, <2>4, <2>7
  <2>9. rq'[t].dir = R.dir /\ rq'[t].sector = R.sector /\ rq'[t].bufs = bufs
    BY <1>2, <2>8 DEF RequestSet
  <2>10. \A k \in 1 .. Len(R.bufs) : /\ Len(rq'[t].bufs[k]) = Len(R.bufs[k])
                                     /\ k # seg[t] => rq'[t].bufs[k] = R.bufs[k]
    BY <2>2, <2>6, <2>9
  <2>11. rq'[t].bufs[seg[t]] = got
    BY <1>2, <2>6, <2>9
  <2>12. \A i \in 1 .. n : rq'[t].bufs[seg[t]][i] = data[d][pos[t] + i]
    BY <2>3, <2>11
  <2> QED BY <1>1, <1>2, <1>4, <1>6, <2>1, <2>5, <2>8, <2>9, <2>10, <2>12
<1> QED BY <1>2, <1>5, <1>6 DEF RequestSet

LEMMA TransferStep == ASSUME Inv, NEW t \in Tasks, Transfer(t) PROVE Inv'
<1> USE DEF Inv
<1> DEFINE n == Length(t)
<1>1. /\ pc[t] = "transfer" /\ n \in Nat
      /\ pc' = [pc EXCEPT ![t] = IF seg[t] = Len(rq[t].bufs) THEN "end" ELSE "transfer"]
      /\ pos' = [pos EXCEPT ![t] = @ + n] /\ nr_bytes' = [nr_bytes EXCEPT ![t] = @ + n]
      /\ seg' = [seg EXCEPT ![t] = @ + 1]
      /\ UNCHANGED <<module, disk, clean, last>>
      /\ \A u \in Tasks : u # t => rq'[u] = rq[u]
      /\ rq'[t].dir = rq[t].dir /\ rq'[t].sector = rq[t].sector
      /\ Len(rq'[t].bufs) = Len(rq[t].bufs)
      /\ rq' \in [Tasks -> RequestSet] /\ data' \in [Devs -> Seq(Byte)]
      /\ \A c \in Devs : Len(data'[c]) = Len(data[c])
      /\ rq[t].dir = "write" => rq' = rq
  BY TransferFacts
<1>2. /\ seg[t] \in 1 .. Len(rq[t].bufs) /\ Len(rq[t].bufs) \in Nat /\ seg[t] \in Nat
      /\ pos[t] \in Nat /\ nr_bytes[t] \in Nat /\ rq[t].sector \in Nat
  BY <1>1, SegmentFacts DEF RequestSet
<1> HIDE DEF n
<1>3. CallTypes'
  <2>1. /\ pc' \in [Tasks -> {"idle", "transfer", "end", "oops"}]
        /\ seg' \in [Tasks -> Nat \ {0}]
    BY <1>1, <1>2 DEF TypeOK, CallTypes
  <2>2. nr_bytes' \in [Tasks -> Nat] /\ pos' \in [Tasks -> Nat]
    BY <1>1, <1>2 DEF TypeOK, CallTypes
  <2> QED BY <1>1, <2>1, <2>2, Zenon DEF TypeOK, CallTypes
<1>4. \A u \in Tasks : u # t => /\ pc'[u] = pc[u] /\ rq'[u] = rq[u] /\ seg'[u] = seg[u]
                                /\ pos'[u] = pos[u] /\ nr_bytes'[u] = nr_bytes[u]
  BY <1>1 DEF TypeOK, CallTypes
<1>5. /\ pc'[t] = IF seg[t] = Len(rq[t].bufs) THEN "end" ELSE "transfer"
      /\ seg'[t] = seg[t] + 1 /\ pos'[t] = pos[t] + n /\ nr_bytes'[t] = nr_bytes[t] + n
  BY <1>1 DEF TypeOK, CallTypes
<1>6. SegmentInv'
  <2>1. ASSUME NEW u \in Tasks, u # t
        PROVE  /\ pc'[u] = "transfer" => seg'[u] \in 1 .. Len(rq'[u].bufs)
               /\ InFlight(u)' /\ rq'[u].dir = "write" => rq'[u] \in Requests
    BY <1>4, <2>1 DEF SegmentInv, InFlight
  <2>2. pc'[t] = "transfer" => seg'[t] \in 1 .. Len(rq'[t].bufs)
    BY <1>1, <1>2, <1>5
  <2>3. rq'[t].dir = "write" => rq'[t] \in Requests
    BY <1>1 DEF SegmentInv, InFlight
  <2> QED BY <2>1, <2>2, <2>3 DEF SegmentInv
<1>7. \A u \in Tasks : InFlight(u)' => nr_bytes'[u] = pos'[u] - rq'[u].sector
  <2>1. \A u \in Tasks : InFlight(u) => nr_bytes[u] = pos[u] - rq[u].sector
    BY Zenon DEF TypeOK
  <2>2. ASSUME NEW u \in Tasks, u # t, InFlight(u)' PROVE nr_bytes'[u] = pos'[u] - rq'[u].sector
    BY <1>4, <2>1, <2>2 DEF InFlight
  <2>3. nr_bytes'[t] = pos'[t] - rq'[t].sector
    BY <1>1, <1>2, <1>5, <2>1 DEF InFlight
  <2> QED BY <2>2, <2>3
<1>8. \A u \in Tasks : pc'[u] # "idle" => disk[u] # NoDisk
  BY <1>1, <1>4 DEF UseInv
<1>9. last' \in [Devs -> SUBSET Requests]
  BY <1>1, Zenon DEF TypeOK
<1> QED BY <1>1, <1>3, <1>6, <1>7, <1>8, <1>9, RequestFrame

LEMMA EndRqStep == ASSUME Inv, NEW t \in Tasks, EndRq(t) PROVE Inv'
<1> USE DEF Inv
<1>1. pc[t] = "end" /\ UNCHANGED <<module, data, disk>>
  BY DEF EndRq
<1>2. data' = data /\ data \in [Devs -> Seq(Byte)]
  BY <1>1 DEF TypeOK, ModuleTypes
<1>3. \A u \in Tasks : InFlight(u) => nr_bytes[u] = pos[u] - rq[u].sector
  BY Zenon DEF TypeOK
<1>4. CASE /\ pc' = [pc EXCEPT ![t] = "idle"] /\ rq' = [rq EXCEPT ![t] = NoRequest]
           /\ seg' = [seg EXCEPT ![t] = 1] /\ clean' = [clean EXCEPT ![t] = FALSE]
           /\ pos' = [pos EXCEPT ![t] = 0] /\ nr_bytes' = [nr_bytes EXCEPT ![t] = 0]
           /\ last' = [last EXCEPT ![disk[t]] =
                         IF rq[t].dir = "write" /\ clean[t] THEN @ \cup {rq[t]} ELSE @]
  <2>1. CallTypes'
    <3>1. clean' \in [Tasks -> BOOLEAN]
      BY <1>4 DEF TypeOK, CallTypes
    <3>2. /\ pc' \in [Tasks -> {"idle", "transfer", "end", "oops"}]
          /\ seg' \in [Tasks -> Nat \ {0}] /\ nr_bytes' \in [Tasks -> Nat]
          /\ pos' \in [Tasks -> Nat] /\ rq' \in [Tasks -> RequestSet]
      BY <1>4, EmptyRequest DEF TypeOK, CallTypes
    <3> QED BY <1>1, <3>1, <3>2, Zenon DEF TypeOK, CallTypes
  <2>2. last' \in [Devs -> SUBSET Requests]
    <3>1. disk[t] \in Devs /\ (rq[t].dir = "write" => rq[t] \in Requests)
      BY <1>1, ServedData DEF SegmentInv, InFlight
    <3>2. last \in [Devs -> SUBSET Requests]
      BY Zenon DEF TypeOK
    <3>3. (IF rq[t].dir = "write" /\ clean[t] THEN last[disk[t]] \cup {rq[t]} ELSE last[disk[t]])
            \in SUBSET Requests
      BY <3>1, <3>2
    <3> QED BY <1>4, <3>2, <3>3
  <2>3. /\ pc'[t] = "idle"
        /\ \A u \in Tasks : u # t => /\ pc'[u] = pc[u] /\ rq'[u] = rq[u] /\ seg'[u] = seg[u]
                                     /\ pos'[u] = pos[u] /\ nr_bytes'[u] = nr_bytes[u]
    BY <1>4 DEF TypeOK, CallTypes
  <2>4. SegmentInv'
    BY <2>3 DEF SegmentInv, InFlight
  <2>5. \A u \in Tasks : InFlight(u)' => nr_bytes'[u] = pos'[u] - rq'[u].sector
    BY <1>3, <2>3 DEF InFlight
  <2>6. \A u \in Tasks : pc'[u] # "idle" => disk[u] # NoDisk
    BY <2>3 DEF UseInv
  <2> QED BY <1>1, <1>2, <2>1, <2>2, <2>4, <2>5, <2>6, RequestFrame
<1>5. CASE /\ pc' = [pc EXCEPT ![t] = "oops"]
           /\ UNCHANGED <<rq, seg, pos, nr_bytes, clean, last>>
  <2>1. CallTypes' /\ last' \in [Devs -> SUBSET Requests]
    <3>1. pc' \in [Tasks -> {"idle", "transfer", "end", "oops"}]
      BY <1>5 DEF TypeOK, CallTypes
    <3> QED BY <1>1, <1>5, <3>1, Zenon DEF TypeOK, CallTypes
  <2>2. pc'[t] = "oops" /\ \A u \in Tasks : u # t => pc'[u] = pc[u]
    BY <1>5 DEF TypeOK, CallTypes
  <2>3. SegmentInv'
    BY <1>5, <2>2 DEF SegmentInv, InFlight
  <2>4. \A u \in Tasks : InFlight(u)' => nr_bytes'[u] = pos'[u] - rq'[u].sector
    BY <1>3, <1>5, <2>2 DEF InFlight
  <2>5. \A u \in Tasks : pc'[u] # "idle" => disk[u] # NoDisk
    BY <1>1, <2>2 DEF UseInv
  <2> QED BY <1>1, <1>2, <2>1, <2>3, <2>4, <2>5, RequestFrame
<1> QED BY <1>4, <1>5 DEF EndRq

-----------------------------------------------------------------------------
(* The inductive invariant: types, stages of the devices, calls in flight. *)
THEOREM Invariance == Spec => []Inv
<1>1. Inv /\ [Next]_vars => Inv'
  <2> SUFFICES ASSUME Inv, [Next]_vars PROVE Inv'
    OBVIOUS
  <2>1. CASE LoadStep \/ Exit
    BY <2>1, RegisterStep, SetupDataStep, SetupQueueStep, SetupDiskStep, ExitStep,
       ExitDeviceStep DEF LoadStep
  <2>2. CASE \E t \in Tasks : Open(t) \/ Release(t) \/ QueueRq(t) \/ RqStep(t)
    BY <2>2, OpenStep, ReleaseStep, QueueRqStep, TransferStep, OverrunStep, EndRqStep
       DEF RqStep
  <2>3. CASE UNCHANGED vars
    <3>1. /\ UNCHANGED <<module, data, disk>> /\ pc' = pc /\ rq' = rq /\ seg' = seg
          /\ pos' = pos /\ nr_bytes' = nr_bytes /\ clean' = clean /\ last' = last
          /\ disk' = disk /\ data' = data
      BY <2>3 DEF vars, module
    <3>2. CallTypes' /\ last' \in [Devs -> SUBSET Requests]
      BY <3>1, Zenon DEF Inv, TypeOK, CallTypes
    <3>3. SegmentInv' /\ data' \in [Devs -> Seq(Byte)]
      BY <3>1, Zenon DEF Inv, TypeOK, ModuleTypes, SegmentInv, InFlight
    <3>4. \A t \in Tasks : InFlight(t)' => nr_bytes'[t] = pos'[t] - rq'[t].sector
      BY <3>1, Zenon DEF Inv, TypeOK, InFlight
    <3>5. \A t \in Tasks : pc'[t] # "idle" => disk[t] # NoDisk
      BY <3>1 DEF Inv, UseInv
    <3> QED BY <3>1, <3>2, <3>3, <3>4, <3>5, RequestFrame
  <2> QED BY <2>1, <2>2, <2>3 DEF Next
<1> QED BY <1>1, InitInv, PTL DEF Spec

(* Every variable has its type, a device counts the tasks that have it     *)
(* open, its data have its size, and nr_bytes says how far a call has got. *)
THEOREM TypeCorrect == Spec => []TypeOK
<1>1. Inv => TypeOK
  BY DEF Inv
<1> QED BY <1>1, Invariance, PTL

(* sbull_exit and the error paths of sbull_init give everything back, once,*)
(* except a driver registered under a given major number or before a       *)
(* failed kmalloc, and the data of a disk that could not be had.           *)
THEOREM UnloadSafety == Spec => []GivenBackOnce
<1>1. Inv => GivenBackOnce
  BY DEF Inv, GivenBackOnce, DeviceStage, MajorInv
<1> QED BY <1>1, Invariance, PTL

(* A call of the request function has the data and the queue of its disk.  *)
THEOREM RequestSafety == Spec => []DataUnderRequests
<1>1. Inv => DataUnderRequests
  BY ServedData DEF DataUnderRequests, InFlight
<1> QED BY <1>1, Invariance, PTL
-----------------------------------------------------------------------------
(* The segments of a request, put together: lemmas about FlattenSeq.  Its  *)
(* recursive function exists, and what it is for a sequence follows, by    *)
(* looking at the least number of segments for which it would fail.        *)
LEMMA LeastNat ==
  ASSUME NEW T, T \subseteq Nat, T # {}
  PROVE  \E m \in T : \A k \in T : m <= k
<1>1. ASSUME NEW R, IsWellFoundedOn(R, Nat)
      PROVE  \E m \in T : \A k \in T : ~ (<<k, m>> \in R)
  BY <1>1, WFMin, Zenon
<1>2. IsWellFoundedOn({ss \in Nat \X Nat : ss[1] < ss[2]}, Nat)
  BY NatLessThanWellFounded, Zenon DEF OpToRel
<1>3. PICK m \in T : \A k \in T : ~ (<<k, m>> \in {ss \in Nat \X Nat : ss[1] < ss[2]})
  BY <1>1, <1>2, Zenon
<1>4. ASSUME NEW k \in T PROVE m <= k
  <2>1. ~ (<<k, m>> \in {ss \in Nat \X Nat : ss[1] < ss[2]})
    BY <1>3
  <2>2. k \in Nat /\ m \in Nat
    OBVIOUS
  <2> QED BY <2>1, <2>2
<1> QED BY <1>4

Whole(s, n, g) == /\ DOMAIN g = 1 .. n /\ g[1] = s[1]
                  /\ \A i \in 2 .. n : g[i] = g[i - 1] \o s[i]

LEMMA WholeStep ==
  ASSUME NEW s, NEW n \in Nat \ {0}, NEW g, Whole(s, n, g)
  PROVE  \E h : Whole(s, n + 1, h)
<1> DEFINE h == [i \in 1 .. n + 1 |-> IF i = n + 1 THEN g[n] \o s[n + 1] ELSE g[i]]
<1>1. DOMAIN h = 1 .. n + 1 /\ h[1] = s[1]
  BY DEF Whole
<1>2. ASSUME NEW i \in 2 .. n + 1 PROVE h[i] = h[i - 1] \o s[i]
  <2>1. i - 1 \in 1 .. n + 1 /\ i - 1 # n + 1
    OBVIOUS
  <2>2. h[i - 1] = g[i - 1]
    BY <2>1
  <2>3. CASE i = n + 1
    <3>1. i \in 1 .. n + 1 /\ i - 1 = n
      BY <2>3
    <3>2. h[i] = g[n] \o s[n + 1]
      BY <2>3, <3>1
    <3> QED BY <2>2, <2>3, <3>1, <3>2
  <2>4. CASE i # n + 1
    <3>1. h[i] = g[i] /\ i \in 2 .. n
      BY <2>4
    <3> QED BY <2>2, <3>1 DEF Whole
  <2> QED BY <2>3, <2>4
<1> HIDE DEF h
<1> QED BY <1>1, <1>2 DEF Whole

LEMMA WholeExists == ASSUME NEW s, NEW n \in Nat \ {0} PROVE \E g : Whole(s, n, g)
<1> DEFINE T == {k \in Nat \ {0} : ~ \E g : Whole(s, k, g)}
<1>1. T \in SUBSET Nat
  OBVIOUS
<1>2. SUFFICES ASSUME T # {} PROVE FALSE
  OBVIOUS
<1>3. PICK m \in T : \A k \in T : m <= k
  BY <1>1, <1>2, LeastNat
<1>4. m \in Nat \ {0} /\ ~ \E g : Whole(s, m, g)
  OBVIOUS
<1>5. m # 1
  <2>1. Whole(s, 1, [i \in 1 .. 1 |-> s[1]])
    BY DEF Whole
  <2> QED BY <1>4, <2>1
<1>6. m - 1 \in Nat \ {0} /\ ~ (m <= m - 1)
  BY <1>4, <1>5
<1>7. PICK g : Whole(s, m - 1, g)
  BY <1>3, <1>6
<1>8. \E h : Whole(s, (m - 1) + 1, h)
  BY <1>6, <1>7, WholeStep
<1>9. (m - 1) + 1 = m
  BY <1>4
<1> QED BY <1>4, <1>8, <1>9

(* The parts of a request: the bytes of its first k segments, which is how *)
(* FlattenSeq is defined.                                                  *)
IsParts(s, f) == f = [i \in 1 .. Len(s) |-> IF i = 1 THEN s[i] ELSE f[i - 1] \o s[i]]
Parts(s) == CHOOSE f : IsParts(s, f)
Part(s, k) == IF k = 0 THEN <<>> ELSE Parts(s)[k]

LEMMA PartsAre ==
  ASSUME NEW s, Len(s) \in Nat \ {0}
  PROVE  IsParts(s, Parts(s)) /\ FlattenSeq(s) = Part(s, Len(s))
<1>1. PICK g : Whole(s, Len(s), g)
  BY WholeExists
<1> DEFINE f == [i \in 1 .. Len(s) |-> g[i]]
<1>2. IsParts(s, f)
  <2>1. ASSUME NEW i \in 1 .. Len(s)
        PROVE  f[i] = IF i = 1 THEN s[i] ELSE f[i - 1] \o s[i]
    <3>1. CASE i = 1
      BY <1>1, <3>1 DEF Whole
    <3>2. CASE i # 1
      <4>1. i \in 2 .. Len(s) /\ i - 1 \in 1 .. Len(s)
        BY <3>2
      <4>2. f[i] = g[i] /\ f[i - 1] = g[i - 1]
        BY <4>1
      <4> QED BY <1>1, <3>2, <4>1, <4>2 DEF Whole
    <3> QED BY <3>1, <3>2
  <2> QED BY <2>1 DEF IsParts
<1>3. IsParts(s, Parts(s))
  <2> HIDE DEF f
  <2> QED BY <1>2, Zenon DEF Parts
<1>4. FlattenSeq(s) = Parts(s)[Len(s)]
  BY Zenon DEF FlattenSeq, Parts, IsParts
<1>5. Len(s) # 0
  OBVIOUS
<1> QED BY <1>3, <1>4, <1>5, Zenon DEF Part

LEMMA PartStep ==
  ASSUME NEW s \in Seq(Seq(Byte)), NEW k \in 1 .. Len(s), Part(s, k - 1) \in Seq(Byte)
  PROVE  Part(s, k) \in Seq(Byte) /\ Part(s, k) = Part(s, k - 1) \o s[k]
<1>1. Len(s) \in Nat \ {0} /\ s[k] \in Seq(Byte) /\ k # 0
  OBVIOUS
<1>2. \A i \in 1 .. Len(s) : Parts(s)[i] = IF i = 1 THEN s[i] ELSE Parts(s)[i - 1] \o s[i]
  BY <1>1, PartsAre, ZenonT(30) DEF IsParts
<1>3. Part(s, k) = Part(s, k - 1) \o s[k]
  <2>1. CASE k = 1
    <3>1. Part(s, k) = s[k] /\ Part(s, k - 1) = <<>>
      BY <1>1, <1>2, <2>1 DEF Part
    <3>2. <<>> \o s[k] = s[k]
      BY <1>1
    <3> QED BY <3>1, <3>2
  <2>2. CASE k # 1
    <3>1. Part(s, k) = Parts(s)[k] /\ Part(s, k - 1) = Parts(s)[k - 1]
      BY <1>1, <2>2 DEF Part
    <3> QED BY <1>2, <2>2, <3>1, Zenon
  <2> QED BY <2>1, <2>2
<1> QED BY <1>1, <1>3

LEMMA PartType == ASSUME NEW s \in Seq(Seq(Byte)) PROVE \A k \in 0 .. Len(s) : Part(s, k) \in Seq(Byte)
<1> DEFINE T == {k \in 0 .. Len(s) : Part(s, k) \notin Seq(Byte)}
<1>1. SUFFICES ASSUME T # {} PROVE FALSE
  OBVIOUS
<1>2. T \subseteq Nat
  OBVIOUS
<1>3. PICK m \in T : \A k \in T : m <= k
  BY <1>1, <1>2, LeastNat, Zenon
<1>4. m \in 0 .. Len(s) /\ Part(s, m) \notin Seq(Byte) /\ Len(s) \in Nat
  OBVIOUS
<1>5. m # 0
  BY <1>4 DEF Part
<1>6. m \in 1 .. Len(s) /\ m - 1 \in 0 .. Len(s) /\ ~ (m <= m - 1)
  BY <1>4, <1>5
<1>7. Part(s, m - 1) \in Seq(Byte)
  BY <1>3, <1>6
<1> QED BY <1>4, <1>6, <1>7, PartStep

LEMMA PartIs ==
  ASSUME NEW s \in Seq(Seq(Byte)), NEW k \in 1 .. Len(s)
  PROVE  LET p == Part(s, k - 1) IN
         /\ p \in Seq(Byte) /\ Len(p) \in Nat
         /\ Part(s, k) \in Seq(Byte) /\ s[k] \in Seq(Byte) /\ Len(s[k]) \in Nat
         /\ Len(Part(s, k)) = Len(p) + Len(s[k])
         /\ \A i \in 1 .. Len(p) : Part(s, k)[i] = p[i]
         /\ \A i \in 1 .. Len(s[k]) : Part(s, k)[Len(p) + i] = s[k][i]
<1> DEFINE p == Part(s, k - 1)
<1>1. k - 1 \in 0 .. Len(s) /\ s[k] \in Seq(Byte)
  OBVIOUS
<1>2. p \in Seq(Byte)
  BY <1>1, PartType
<1>3. Part(s, k) \in Seq(Byte) /\ Part(s, k) = p \o s[k]
  BY <1>2, PartStep
<1> HIDE DEF p
<1>4. /\ Len(p) \in Nat /\ Len(s[k]) \in Nat
      /\ Len(Part(s, k)) = Len(p) + Len(s[k])
  BY <1>1, <1>2, <1>3
<1>5. \A i \in 1 .. Len(p) : Part(s, k)[i] = p[i]
  BY <1>1, <1>2, <1>3
<1>6. \A i \in 1 .. Len(s[k]) : Part(s, k)[Len(p) + i] = s[k][i]
  BY <1>1, <1>2, <1>3
<1> QED BY <1>1, <1>2, <1>3, <1>4, <1>5, <1>6, Zenon DEF p

(* A part is a prefix of the later ones.                                   *)
LEMMA PartPrefix ==
  ASSUME NEW s \in Seq(Seq(Byte)), NEW k \in 0 .. Len(s)
  PROVE  \A m \in k .. Len(s) : /\ Len(Part(s, k)) <= Len(Part(s, m))
                                /\ \A i \in 1 .. Len(Part(s, k)) : Part(s, m)[i] = Part(s, k)[i]
<1> DEFINE P(m) == /\ Len(Part(s, k)) <= Len(Part(s, m))
                   /\ \A i \in 1 .. Len(Part(s, k)) : Part(s, m)[i] = Part(s, k)[i]
           T == {m \in k .. Len(s) : ~ P(m)}
<1>0. Part(s, k) \in Seq(Byte) /\ Len(Part(s, k)) \in Nat /\ Len(s) \in Nat
  BY PartType
<1>1. SUFFICES ASSUME T # {} PROVE FALSE
  OBVIOUS
<1>2. T \subseteq Nat
  OBVIOUS
<1>3. PICK m \in T : \A j \in T : m <= j
  BY <1>1, <1>2, LeastNat, Zenon
<1>4. m \in k .. Len(s) /\ ~ P(m)
  OBVIOUS
<1>5. m # k
  BY <1>0, <1>4
<1>6. m \in 1 .. Len(s) /\ m - 1 \in k .. Len(s) /\ ~ (m <= m - 1)
  BY <1>0, <1>4, <1>5
<1>7. P(m - 1)
  BY <1>3, <1>6
<1>8. /\ Len(Part(s, m - 1)) \in Nat /\ Len(s[m]) \in Nat
      /\ Len(Part(s, m)) = Len(Part(s, m - 1)) + Len(s[m])
      /\ \A i \in 1 .. Len(Part(s, m - 1)) : Part(s, m)[i] = Part(s, m - 1)[i]
  BY <1>6, PartIs, Zenon
<1>9. P(m)
  <2>1. Len(Part(s, k)) <= Len(Part(s, m - 1))
    BY <1>7
  <2>2. Len(Part(s, k)) <= Len(Part(s, m))
    <3>1. ASSUME NEW a \in Nat, NEW b \in Nat, NEW c \in Nat, NEW e, e = b + c, a <= b PROVE a <= e
      BY <3>1
    <3> QED BY <1>0, <1>8, <2>1, <3>1, Zenon
  <2>3. ASSUME NEW i \in 1 .. Len(Part(s, k)) PROVE Part(s, m)[i] = Part(s, k)[i]
    <3>1. i \in 1 .. Len(Part(s, m - 1))
      BY <1>0, <1>8, <2>1
    <3> QED BY <1>7, <1>8, <3>1
  <2> QED BY <2>2, <2>3
<1> QED BY <1>4, <1>9

(* What a request holds, and where.                                        *)
LEMMA FlattenFacts ==
  ASSUME NEW s \in Seq(Seq(Byte)), s # <<>>
  PROVE  LET all == FlattenSeq(s) IN
         /\ all = Part(s, Len(s)) /\ all \in Seq(Byte) /\ Len(all) \in Nat
         /\ \A k \in 0 .. Len(s) : /\ Len(Part(s, k)) <= Len(all) /\ Len(Part(s, k)) \in Nat
                                   /\ \A i \in 1 .. Len(Part(s, k)) : all[i] = Part(s, k)[i]
<1>1. Len(s) \in Nat \ {0}
  OBVIOUS
<1>2. FlattenSeq(s) = Part(s, Len(s))
  BY <1>1, PartsAre
<1>3. \A k \in 0 .. Len(s) : Part(s, k) \in Seq(Byte) /\ Len(Part(s, k)) \in Nat
  BY PartType
<1>4. ASSUME NEW k \in 0 .. Len(s)
      PROVE  /\ Len(Part(s, k)) <= Len(Part(s, Len(s)))
             /\ \A i \in 1 .. Len(Part(s, k)) : Part(s, Len(s))[i] = Part(s, k)[i]
  <2>1. Len(s) \in k .. Len(s)
    BY <1>1
  <2> QED BY <2>1, PartPrefix, Zenon
<1>5. Len(s) \in 0 .. Len(s)
  BY <1>1
<1> QED BY <1>2, <1>3, <1>4, <1>5, Zenon

(* Two requests whose segments have the same lengths, or the same bytes up *)
(* to some segment.                                                        *)
LEMMA SameLengths ==
  ASSUME NEW s \in Seq(Seq(Byte)), NEW r \in Seq(Seq(Byte)), Len(s) = Len(r),
         \A k \in 1 .. Len(s) : Len(s[k]) = Len(r[k])
  PROVE  \A k \in 0 .. Len(s) : Len(Part(s, k)) = Len(Part(r, k))
<1> DEFINE T == {k \in 0 .. Len(s) : Len(Part(s, k)) # Len(Part(r, k))}
<1>1. SUFFICES ASSUME T # {} PROVE FALSE
  OBVIOUS
<1>2. T \subseteq Nat
  OBVIOUS
<1>3. PICK m \in T : \A j \in T : m <= j
  BY <1>1, <1>2, LeastNat, Zenon
<1>4. m \in 0 .. Len(s) /\ Len(Part(s, m)) # Len(Part(r, m)) /\ Len(s) \in Nat
  OBVIOUS
<1>5. m # 0
  BY <1>4 DEF Part
<1>6. m \in 1 .. Len(s) /\ m \in 1 .. Len(r) /\ m - 1 \in 0 .. Len(s) /\ ~ (m <= m - 1)
  BY <1>4, <1>5
<1>7. Len(Part(s, m - 1)) = Len(Part(r, m - 1))
  BY <1>3, <1>6
<1>8. /\ Len(Part(s, m)) = Len(Part(s, m - 1)) + Len(s[m])
      /\ Len(Part(r, m)) = Len(Part(r, m - 1)) + Len(r[m])
  BY <1>6, PartIs, Zenon
<1> QED BY <1>4, <1>6, <1>7, <1>8

LEMMA SameParts ==
  ASSUME NEW s \in Seq(Seq(Byte)), NEW r \in Seq(Seq(Byte)), Len(s) = Len(r),
         NEW n \in 0 .. Len(s), \A k \in 1 .. n : s[k] = r[k]
  PROVE  Part(s, n) = Part(r, n)
<1> DEFINE T == {k \in 0 .. n : Part(s, k) # Part(r, k)}
<1>1. SUFFICES ASSUME T # {} PROVE FALSE
  <2>1. n \in 0 .. n
    OBVIOUS
  <2> QED BY <2>1
<1>2. T \subseteq Nat
  OBVIOUS
<1>3. PICK m \in T : \A j \in T : m <= j
  BY <1>1, <1>2, LeastNat, Zenon
<1>4. m \in 0 .. n /\ Part(s, m) # Part(r, m) /\ Len(s) \in Nat /\ n \in Nat /\ n <= Len(s)
  OBVIOUS
<1>5. m # 0
  BY <1>4 DEF Part
<1>6. /\ m \in 1 .. Len(s) /\ m \in 1 .. Len(r) /\ m - 1 \in 0 .. n /\ m - 1 \in 0 .. Len(s)
      /\ m - 1 \in 0 .. Len(r) /\ ~ (m <= m - 1) /\ m \in 1 .. n
  BY <1>4, <1>5
<1>7. Part(s, m - 1) = Part(r, m - 1)
  BY <1>3, <1>6
<1>8. /\ Part(s, m) = Part(s, m - 1) \o s[m] /\ Part(r, m) = Part(r, m - 1) \o r[m]
  BY <1>6, PartType, PartStep
<1> QED BY <1>4, <1>6, <1>7, <1>8

-----------------------------------------------------------------------------
(* How far a call has got: at the end of the segments before seg, or cut   *)
(* short at the end of the device.                                         *)
Flow(t) ==
  InFlight(t) =>
    /\ rq[t].bufs # <<>> /\ Bytes(rq[t]) % KERNEL_SECTOR_SIZE = 0
    /\ pc[t] = "end" => seg[t] = Len(rq[t].bufs) + 1
    /\ \/ nr_bytes[t] = Len(Part(rq[t].bufs, seg[t] - 1))
       \/ /\ nr_bytes[t] < Len(Part(rq[t].bufs, seg[t] - 1))
          /\ pos[t] >= Len(data[disk[t]])
    /\ nr_bytes[t] > 0 \/ pc[t] = "end" => pos[t] <= Len(data[disk[t]])

(* Unless its size wraps around, a request ends before its device.         *)
Fit(t) == param.nsectors * param.hardsect_size < UINT
            => /\ pc[t] # "oops"
               /\ InFlight(t) => rq[t].sector + Bytes(rq[t]) <= Len(data[disk[t]])

FlowInv == \A t \in Tasks : Flow(t) /\ Fit(t)

LEMMA FlowFrame ==
  ASSUME NEW t, Flow(t), Fit(t), param' = param,
         pc'[t] = pc[t], rq'[t] = rq[t], seg'[t] = seg[t], pos'[t] = pos[t],
         nr_bytes'[t] = nr_bytes[t],
         InFlight(t) => disk'[t] = disk[t] /\ Len(data'[disk[t]]) = Len(data[disk[t]])
  PROVE  Flow(t)' /\ Fit(t)'
  BY DEF Flow, Fit, InFlight

(* A disk holds what its capacity promises.                                *)
LEMMA CapacityFits ==
  ASSUME NEW n \in Nat, NEW h \in Nat, NEW k \in Nat \ {0}, NEW first \in Nat, NEW b \in Nat,
         b % k = 0, first + b \div k <= n * (h \div k)
  PROVE  first + b <= n * h
<1> DEFINE q == h \div k
           s == b \div k
<1>1. q \in Nat /\ s \in Nat /\ k * q <= h /\ b = k * s
  BY Z3
<1> HIDE DEF q, s
<1>2. first + s <= n * q
  BY DEF q, s
<1>3. n * q \in Nat /\ k * first \in Nat /\ k * s \in Nat /\ k * (n * q) \in Nat
  BY <1>1, Z3
<1>4. k * (first + s) <= k * (n * q)
  BY <1>1, <1>2, <1>3, Z3
<1>5. first + k * s <= k * (first + s)
  BY <1>1, Z3
<1>6. k * (n * q) <= n * h
  <2>1. k * (n * q) = n * (k * q)
    BY <1>1, Z3
  <2>2. n * (k * q) <= n * h
    BY <1>1, Z3
  <2> QED BY <2>1, <2>2
<1>7. k * (first + s) \in Nat /\ n * h \in Nat
  BY <1>1, Z3
<1> QED BY <1>1, <1>3, <1>4, <1>5, <1>6, <1>7

LEMMA RequestFacts ==
  ASSUME NEW r \in Requests
  PROVE  /\ r \in RequestSet /\ r.sector \in Nat /\ r.bufs \in Seq(Seq(Byte)) /\ r.bufs # <<>>
         /\ Bytes(r) \in Nat /\ Bytes(r) % KERNEL_SECTOR_SIZE = 0
<1>1. /\ r \in RequestSet /\ r.sector \in Nat /\ r.bufs \in Seq(Seq(Byte)) /\ r.bufs # <<>>
      /\ Bytes(r) % KERNEL_SECTOR_SIZE = 0
  BY RequestAssumption DEF RequestSet
<1>2. Bytes(r) \in Nat
  BY <1>1, FlattenFacts, Zenon DEF Bytes
<1> QED BY <1>1, <1>2

(* The size of a disk whose size has not wrapped around.                   *)
LEMMA WholeSize ==
  ASSUME Inv, NEW t \in Tasks, disk[t] # NoDisk, param.nsectors * param.hardsect_size < UINT
  PROVE  /\ disk[t] \in Devs /\ Len(data[disk[t]]) = param.nsectors * param.hardsect_size
         /\ param.nsectors \in Nat /\ param.hardsect_size \in Nat
<1> USE DEF Inv
<1>1. disk[t] \in Devs /\ dev[disk[t]].gd
  BY DEF UseInv, TypeOK, CallTypes
<1>2. Len(data[disk[t]]) = Size
  BY <1>1 DEF DeviceStage
<1>3. param.nsectors \in Nat /\ param.hardsect_size \in Nat
  BY ParamAssumption DEF TypeOK, ModuleTypes
<1>4. param.nsectors * param.hardsect_size \in Nat
  BY <1>3
<1>5. \A n \in Nat : n < UINT => n % UINT = n
  BY WidthAssumption
<1>6. Size = param.nsectors * param.hardsect_size
  BY <1>4, <1>5 DEF Size
<1> QED BY <1>1, <1>2, <1>3, <1>6

LEMMA FlowQueueRq ==
  ASSUME Inv, FlowInv, NEW t \in Tasks, QueueRq(t)
  PROVE  FlowInv'
<1> USE DEF FlowInv
<1>1. PICK r \in Requests : /\ r.sector + Bytes(r) \div KERNEL_SECTOR_SIZE <= Capacity
                            /\ rq' = [rq EXCEPT ![t] = r] /\ pos' = [pos EXCEPT ![t] = r.sector]
  BY DEF QueueRq
<1>2. /\ disk[t] # NoDisk /\ pc[t] = "idle" /\ UNCHANGED <<module, data, disk>>
      /\ pc' = [pc EXCEPT ![t] = "transfer"] /\ seg' = [seg EXCEPT ![t] = 1]
      /\ nr_bytes' = [nr_bytes EXCEPT ![t] = 0]
  BY DEF QueueRq
<1>3. /\ pc'[t] = "transfer" /\ rq'[t] = r /\ seg'[t] = 1 /\ nr_bytes'[t] = 0
      /\ \A u \in Tasks : u # t => /\ pc'[u] = pc[u] /\ rq'[u] = rq[u] /\ seg'[u] = seg[u]
                                   /\ pos'[u] = pos[u] /\ nr_bytes'[u] = nr_bytes[u]
  BY <1>1, <1>2 DEF Inv, TypeOK, CallTypes
<1>4. param' = param /\ disk' = disk /\ data' = data
  BY <1>2 DEF module
<1>5. ASSUME NEW u \in Tasks, u # t PROVE Flow(u)' /\ Fit(u)'
  BY <1>3, <1>4, <1>5, FlowFrame
<1>6. /\ r.bufs # <<>> /\ Bytes(r) \in Nat /\ Bytes(r) % KERNEL_SECTOR_SIZE = 0
      /\ r.sector \in Nat
  BY RequestFacts
<1>7. Flow(t)'
  <2>1. Len(Part(r.bufs, 0)) = 0
    BY DEF Part
  <2> QED BY <1>3, <1>6, <2>1 DEF Flow
<1>8. Fit(t)'
  <2>1. SUFFICES ASSUME param.nsectors * param.hardsect_size < UINT
                 PROVE  r.sector + Bytes(r) <= Len(data[disk[t]])
    BY <1>3, <1>4 DEF Fit
  <2>2. /\ Len(data[disk[t]]) = param.nsectors * param.hardsect_size
        /\ param.nsectors \in Nat /\ param.hardsect_size \in Nat
    BY <1>2, <2>1, WholeSize
  <2>3. r.sector + Bytes(r) <= param.nsectors * param.hardsect_size
    BY <1>1, <1>6, <2>2, CapacityFits, WidthAssumption DEF Capacity
  <2> QED BY <2>2, <2>3
<1> QED BY <1>5, <1>7, <1>8

(* A request is cut short only at the end of the device.                   *)
LEMMA InsideRequest ==
  ASSUME Inv, FlowInv, NEW t \in Tasks, pc[t] = "transfer"
  PROVE  LET s == rq[t].bufs
             k == seg[t]
             p == Len(Part(s, k - 1))
         IN  /\ s \in Seq(Seq(Byte)) /\ s # <<>> /\ k \in 1 .. Len(s)
             /\ p \in Nat /\ Len(s[k]) \in Nat /\ Bytes(rq[t]) \in Nat
             /\ Len(Part(s, k)) = p + Len(s[k])
             /\ p + Len(s[k]) <= Bytes(rq[t]) /\ nr_bytes[t] <= p
             /\ nr_bytes[t] + Len(s[k]) <= Bytes(rq[t])
             /\ pos[t] = rq[t].sector + nr_bytes[t]
             /\ rq[t].sector \in Nat /\ nr_bytes[t] \in Nat /\ pos[t] \in Nat
             /\ disk[t] \in Devs /\ Len(data[disk[t]]) \in Nat
<1> DEFINE s == rq[t].bufs
           k == seg[t]
           p == Len(Part(s, k - 1))
<1>1. /\ s \in Seq(Seq(Byte)) /\ k \in 1 .. Len(s) /\ nr_bytes[t] \in Nat /\ pos[t] \in Nat
      /\ rq[t].sector \in Nat
  BY SegmentFacts DEF RequestSet
<1>2. s # <<>>
  BY DEF FlowInv, Flow, InFlight
<1>3. p \in Nat /\ Len(s[k]) \in Nat /\ Len(Part(s, k)) = p + Len(s[k])
  BY <1>1, PartIs, Zenon
<1>4. k \in 0 .. Len(s)
  BY <1>1
<1>5. Bytes(rq[t]) \in Nat /\ Len(Part(s, k)) <= Bytes(rq[t])
  <2>1. /\ Len(FlattenSeq(s)) \in Nat
        /\ \A j \in 0 .. Len(s) : Len(Part(s, j)) <= Len(FlattenSeq(s))
    BY <1>1, <1>2, FlattenFacts, Zenon
  <2> QED BY <1>4, <2>1, Zenon DEF Bytes
<1>6. nr_bytes[t] <= p
  <2>1. nr_bytes[t] = p \/ nr_bytes[t] < p
    BY DEF FlowInv, Flow, InFlight
  <2> HIDE DEF p
  <2> QED BY <1>1, <1>3, <2>1
<1>7. pos[t] = rq[t].sector + nr_bytes[t]
  <2>1. nr_bytes[t] = pos[t] - rq[t].sector
    BY Zenon DEF Inv, TypeOK, InFlight
  <2> QED BY <1>1, <2>1
<1>8. disk[t] \in Devs /\ Len(data[disk[t]]) \in Nat
  BY ServedData
<1>9. p + Len(s[k]) <= Bytes(rq[t])
  BY <1>3, <1>5
<1>10. nr_bytes[t] + Len(s[k]) <= Bytes(rq[t])
  <2> HIDE DEF p, s, k
  <2> QED BY <1>1, <1>3, <1>5, <1>6, <1>9
<1> QED BY <1>1, <1>2, <1>3, <1>5, <1>6, <1>7, <1>8, <1>9, <1>10, Zenon

LEMMA FlowOverrun ==
  ASSUME Inv, FlowInv, NEW t \in Tasks, Overrun(t)
  PROVE  FlowInv'
<1>1. /\ pc[t] = "transfer" /\ Length(t) < 0 /\ pc' = [pc EXCEPT ![t] = "oops"]
      /\ UNCHANGED <<module, data, disk, rq, seg, pos, nr_bytes, clean, last>>
  BY DEF Overrun
<1>2. pc'[t] = "oops" /\ \A u \in Tasks : u # t => pc'[u] = pc[u]
  BY <1>1 DEF Inv, TypeOK, CallTypes
<1>3. param' = param
  BY <1>1 DEF module
<1>4. ASSUME NEW u \in Tasks, u # t PROVE Flow(u)' /\ Fit(u)'
  BY <1>1, <1>2, <1>3, <1>4, FlowFrame DEF FlowInv
<1>5. Flow(t)'
  BY <1>2 DEF Flow, InFlight
<1>6. ASSUME param.nsectors * param.hardsect_size < UINT PROVE FALSE
  <2>1. rq[t].sector + Bytes(rq[t]) <= Len(data[disk[t]])
    BY <1>1, <1>6 DEF FlowInv, Fit, InFlight
  <2>2. pos[t] + Len(rq[t].bufs[seg[t]]) > Len(data[disk[t]])
    BY <1>1, SegmentFacts
  <2>3. /\ pos[t] = rq[t].sector + nr_bytes[t]
        /\ nr_bytes[t] + Len(rq[t].bufs[seg[t]]) <= Bytes(rq[t])
        /\ rq[t].sector \in Nat /\ nr_bytes[t] \in Nat /\ Bytes(rq[t]) \in Nat
        /\ Len(rq[t].bufs[seg[t]]) \in Nat /\ Len(data[disk[t]]) \in Nat
    BY <1>1, InsideRequest, Zenon
  <2>4. ASSUME NEW first \in Nat, NEW n \in Nat, NEW b \in Nat, NEW l \in Nat, NEW size \in Nat,
               n + l <= b, first + b <= size
        PROVE  ~ ((first + n) + l > size)
    BY <2>4
  <2>5. (rq[t].sector + nr_bytes[t]) + Len(rq[t].bufs[seg[t]]) > Len(data[disk[t]])
    BY <2>2, <2>3, Zenon
  <2> QED BY <2>1, <2>3, <2>4, <2>5, Zenon
<1>7. Fit(t)'
  BY <1>3, <1>6 DEF Fit
<1> QED BY <1>4, <1>5, <1>7 DEF FlowInv

LEMMA FlowEndRq ==
  ASSUME Inv, FlowInv, NEW t \in Tasks, EndRq(t)
  PROVE  FlowInv'
<1>1. pc[t] = "end" /\ UNCHANGED <<module, data, disk>>
  BY DEF EndRq
<1>2. param' = param /\ disk' = disk /\ data' = data
  BY <1>1 DEF module
<1>3. \A u \in Tasks : u # t => /\ pc'[u] = pc[u] /\ rq'[u] = rq[u] /\ seg'[u] = seg[u]
                                /\ pos'[u] = pos[u] /\ nr_bytes'[u] = nr_bytes[u]
  BY DEF EndRq, Inv, TypeOK, CallTypes
<1>4. ASSUME NEW u \in Tasks, u # t PROVE Flow(u)' /\ Fit(u)'
  BY <1>2, <1>3, <1>4, FlowFrame DEF FlowInv
<1>5. \/ pc'[t] = "idle"
      \/ pc'[t] = "oops" /\ nr_bytes[t] < Bytes(rq[t])
  BY DEF EndRq, Inv, TypeOK, CallTypes
<1>6. Flow(t)'
  BY <1>5 DEF Flow, InFlight
<1>7. ASSUME param.nsectors * param.hardsect_size < UINT, nr_bytes[t] < Bytes(rq[t]) PROVE FALSE
  <2>1. rq[t].sector + Bytes(rq[t]) <= Len(data[disk[t]])
    BY <1>1, <1>7 DEF FlowInv, Fit, InFlight
  <2>2. /\ rq[t].bufs # <<>> /\ seg[t] = Len(rq[t].bufs) + 1
        /\ \/ nr_bytes[t] = Len(Part(rq[t].bufs, seg[t] - 1))
           \/ pos[t] >= Len(data[disk[t]])
    BY <1>1 DEF FlowInv, Flow, InFlight
  <2>3. /\ rq[t].bufs \in Seq(Seq(Byte)) /\ rq[t].sector \in Nat /\ nr_bytes[t] \in Nat
        /\ pos[t] \in Nat
    BY DEF Inv, TypeOK, CallTypes, RequestSet
  <2>4. Bytes(rq[t]) = Len(Part(rq[t].bufs, Len(rq[t].bufs))) /\ Bytes(rq[t]) \in Nat
    BY <2>2, <2>3, FlattenFacts, Zenon DEF Bytes
  <2>5. nr_bytes[t] = pos[t] - rq[t].sector
    BY <1>1, Zenon DEF Inv, TypeOK, InFlight
  <2>6. Len(data[disk[t]]) \in Nat /\ Len(rq[t].bufs) \in Nat
    BY <1>1, <2>3, ServedData
  <2>7. seg[t] - 1 = Len(rq[t].bufs)
    BY <2>2, <2>6
  <2> QED BY <1>7, <2>1, <2>2, <2>3, <2>4, <2>5, <2>6, <2>7
<1>8. Fit(t)'
  BY <1>2, <1>5, <1>7 DEF Fit, InFlight
<1> QED BY <1>4, <1>6, <1>8 DEF FlowInv

(* A copy changes no length, and no segment but one.                       *)
LEMMA TransferParts ==
  ASSUME Inv, FlowInv, NEW t \in Tasks, Transfer(t)
  PROVE  LET s == rq[t].bufs
             r == rq'[t].bufs
         IN  /\ r \in Seq(Seq(Byte)) /\ r # <<>> /\ Len(r) = Len(s)
             /\ \A j \in 0 .. Len(s) : Len(Part(r, j)) = Len(Part(s, j))
             /\ Bytes(rq'[t]) = Bytes(rq[t])
             /\ Part(r, seg[t] - 1) = Part(s, seg[t] - 1)
<1> DEFINE s == rq[t].bufs
           r == rq'[t].bufs
           k == seg[t]
<1>1. pc[t] = "transfer" /\ Len(r) = Len(s) /\ rq'[t] \in RequestSet
  BY TransferFacts
<1>2. /\ s \in Seq(Seq(Byte)) /\ s # <<>> /\ k \in 1 .. Len(s)
  BY <1>1, InsideRequest, Zenon
<1>3. r \in Seq(Seq(Byte)) /\ r # <<>>
  BY <1>1, <1>2 DEF RequestSet
<1>4. /\ \A j \in 1 .. Len(s) : Len(r[j]) = Len(s[j])
      /\ \A j \in 1 .. k - 1 : r[j] = s[j]
  <2>1. CASE rq[t].dir = "write"
    BY <2>1, TransferFacts
  <2>2. CASE rq[t].dir = "read"
    <3>1. \A j \in 1 .. Len(s) : Len(r[j]) = Len(s[j]) /\ (j # k => r[j] = s[j])
      BY <2>2, TransferFacts
    <3>2. \A j \in 1 .. k - 1 : j \in 1 .. Len(s) /\ j # k
      BY <1>2
    <3> QED BY <3>1, <3>2
  <2> QED BY <1>2, <2>1, <2>2, SegmentFacts, <1>1 DEF RequestSet
<1>5. \A j \in 0 .. Len(s) : Len(Part(r, j)) = Len(Part(s, j))
  BY <1>1, <1>2, <1>3, <1>4, SameLengths, Zenon
<1>6. Part(r, k - 1) = Part(s, k - 1)
  <2>1. k - 1 \in 0 .. Len(s)
    BY <1>2
  <2> QED BY <1>1, <1>2, <1>3, <1>4, <2>1, SameParts, Zenon
<1>7. Bytes(rq'[t]) = Bytes(rq[t])
  <2>1. FlattenSeq(s) = Part(s, Len(s)) /\ FlattenSeq(r) = Part(r, Len(r))
    BY <1>2, <1>3, FlattenFacts, Zenon
  <2>2. Len(s) \in 0 .. Len(s)
    BY <1>2
  <2>3. Len(FlattenSeq(r)) = Len(FlattenSeq(s))
    BY <1>1, <1>5, <2>1, <2>2
  <2> QED BY <2>3, Zenon DEF Bytes
<1> QED BY <1>1, <1>3, <1>5, <1>6, <1>7, Zenon

LEMMA FlowTransfer ==
  ASSUME Inv, FlowInv, NEW t \in Tasks, Transfer(t)
  PROVE  /\ FlowInv'
         /\ nr_bytes'[t] > nr_bytes[t]
              => nr_bytes[t] = Len(Part(rq[t].bufs, seg[t] - 1))
<1> DEFINE n == Length(t)
           s == rq[t].bufs
           k == seg[t]
           p == Len(Part(s, k - 1))
           L == Len(s[k])
           D == Len(data[disk[t]])
<1>1. /\ pc[t] = "transfer" /\ n \in Nat
      /\ pc' = [pc EXCEPT ![t] = IF k = Len(s) THEN "end" ELSE "transfer"]
      /\ pos' = [pos EXCEPT ![t] = @ + n] /\ nr_bytes' = [nr_bytes EXCEPT ![t] = @ + n]
      /\ seg' = [seg EXCEPT ![t] = @ + 1]
      /\ UNCHANGED <<module, disk, clean, last>>
      /\ \A u \in Tasks : u # t => rq'[u] = rq[u]
      /\ rq'[t].sector = rq[t].sector
      /\ \A c \in Devs : Len(data'[c]) = Len(data[c])
  BY TransferFacts
<1>2. /\ k \in 1 .. Len(s) /\ Len(s) \in Nat /\ s # <<>>
      /\ p \in Nat /\ L \in Nat /\ Len(Part(s, k)) = p + L
      /\ rq[t].sector \in Nat /\ nr_bytes[t] \in Nat /\ pos[t] \in Nat
      /\ disk[t] \in Devs /\ D \in Nat
  BY <1>1, InsideRequest, SegmentFacts, Zenon
<1>3. /\ n <= L /\ pos[t] + n <= D /\ (n = L \/ pos[t] + n = D)
  <2>1. n \in 0 .. L /\ pos[t] + n <= D /\ (n = L \/ pos[t] + n = D)
    BY <1>1, SegmentFacts
  <2> QED BY <1>2, <2>1
<1>4. /\ Bytes(rq[t]) % KERNEL_SECTOR_SIZE = 0
      /\ nr_bytes[t] = p \/ (nr_bytes[t] < p /\ pos[t] >= D)
  BY <1>1 DEF FlowInv, Flow, InFlight
<1>5. /\ pc'[t] = IF k = Len(s) THEN "end" ELSE "transfer"
      /\ seg'[t] = k + 1 /\ pos'[t] = pos[t] + n /\ nr_bytes'[t] = nr_bytes[t] + n
      /\ \A u \in Tasks : u # t => /\ pc'[u] = pc[u] /\ seg'[u] = seg[u]
                                   /\ pos'[u] = pos[u] /\ nr_bytes'[u] = nr_bytes[u]
  BY <1>1 DEF Inv, TypeOK, CallTypes
<1>6. param' = param /\ disk' = disk
  BY <1>1 DEF module
<1>7. /\ Len(rq'[t].bufs) = Len(s) /\ rq'[t].bufs # <<>> /\ Bytes(rq'[t]) = Bytes(rq[t])
      /\ Len(Part(rq'[t].bufs, k)) = p + L
  <2>1. k \in 0 .. Len(s)
    BY <1>2
  <2> QED BY <1>2, <2>1, TransferParts, Zenon
<1> HIDE DEF n, p, L, D, s, k
<1>8. n > 0 => nr_bytes[t] = p
  BY <1>1, <1>2, <1>3, <1>4
<1>9. /\ (nr_bytes[t] + n = p + L) \/ (nr_bytes[t] + n < p + L /\ pos[t] + n >= D)
      /\ pos[t] + n <= D
  BY <1>1, <1>2, <1>3, <1>4
<1>10. Len(data'[disk'[t]]) = D
  BY <1>1, <1>2, <1>6 DEF D
<1>11. Flow(t)'
  <2>1. pc'[t] = "end" => seg'[t] = Len(rq'[t].bufs) + 1
    BY <1>5, <1>7
  <2>2. seg'[t] - 1 = k
    BY <1>2, <1>5
  <2>3. \/ nr_bytes'[t] = Len(Part(rq'[t].bufs, seg'[t] - 1))
        \/ /\ nr_bytes'[t] < Len(Part(rq'[t].bufs, seg'[t] - 1))
           /\ pos'[t] >= Len(data'[disk'[t]])
    BY <1>5, <1>7, <1>9, <1>10, <2>2
  <2>4. pos'[t] <= Len(data'[disk'[t]])
    BY <1>5, <1>9, <1>10
  <2> QED BY <1>4, <1>7, <2>1, <2>3, <2>4, Zenon DEF Flow
<1>12. Fit(t)'
  <2>1. Fit(t)
    BY DEF FlowInv
  <2>2. InFlight(t) /\ pc'[t] # "oops"
    BY <1>1, <1>5 DEF InFlight
  <2> QED BY <1>1, <1>6, <1>7, <1>10, <2>1, <2>2 DEF Fit, D
<1>13. ASSUME NEW u \in Tasks, u # t PROVE Flow(u)' /\ Fit(u)'
  <2>1. InFlight(u) => disk[u] \in Devs
    BY ServedData DEF InFlight
  <2>2. InFlight(u) => disk'[u] = disk[u] /\ Len(data'[disk[u]]) = Len(data[disk[u]])
    BY <1>1, <1>6, <2>1
  <2>3. Flow(u) /\ Fit(u) /\ rq'[u] = rq[u]
    BY <1>1, <1>13 DEF FlowInv
  <2> QED BY <1>5, <1>6, <1>13, <2>2, <2>3, FlowFrame
<1>14. FlowInv'
  BY <1>11, <1>12, <1>13 DEF FlowInv
<1>15. nr_bytes'[t] > nr_bytes[t] => nr_bytes[t] = p
  BY <1>1, <1>2, <1>5, <1>8
<1> QED BY <1>14, <1>15, Zenon DEF p, s, k
(* The steps that leave the calls alone, and the bytes of every device     *)
(* that has been set up.                                                   *)
Quiet == /\ UNCHANGED <<param, pc, rq, seg, pos, nr_bytes, clean, last>>
         /\ \A t \in Tasks : pc[t] # "idle" => disk'[t] = disk[t]
         /\ \A d \in Devs : dev[d].data # "NULL" => /\ dev'[d].data # "NULL"
                                                    /\ data'[d] = data[d]

LEMMA LoadQuiet == ASSUME Inv, LoadStep \/ Exit PROVE Quiet
<1> USE DEF Inv
<1>1. UNCHANGED <<param, pc, disk, rq, seg, pos, nr_bytes, clean, last>>
  BY DEF LoadStep, Register, Kmalloc, SetupData, SetupQueue, SetupDisk, Exit, ExitDevice, call
<1>2. dev \in [Devs -> Device] /\ data \in [Devs -> Seq(Byte)] /\ which \in Devs
  BY DEF TypeOK, ModuleTypes
<1>3. ASSUME NEW d \in Devs, dev[d].data # "NULL"
      PROVE  dev'[d].data # "NULL" /\ data'[d] = data[d]
  <2>1. CASE UNCHANGED <<dev, data>>
    BY <1>3, <2>1
  <2>2. CASE SetupData
    <3>1. DeviceStage(which) /\ loader = "vmalloc" /\ which \in Nat
      BY <1>2, <2>2, DevsBasics DEF SetupData
    <3>2. dev[which].data = "NULL"
      BY <3>1 DEF DeviceStage, Untouched, Blank
    <3> QED BY <1>2, <1>3, <2>2, <3>2 DEF SetupData
  <2>3. CASE SetupQueue
    BY <1>2, <1>3, <2>3 DEF SetupQueue, Device
  <2>4. CASE SetupDisk
    <3>1. /\ UNCHANGED data
          /\ \/ dev' = [dev EXCEPT ![which].gd = TRUE]
             \/ dev' = [dev EXCEPT ![which].data = Freed(dev[which].data)]
      BY <2>4, Zenon DEF SetupDisk
    <3>2. Freed(dev[which].data) = "NULL" => dev[which].data = "NULL"
      BY Zenon DEF Freed
    <3>3. CASE dev' = [dev EXCEPT ![which].gd = TRUE]
      BY <1>2, <1>3, <3>1, <3>3 DEF Device
    <3>4. CASE dev' = [dev EXCEPT ![which].data = Freed(dev[which].data)]
      BY <1>2, <1>3, <3>1, <3>2, <3>4 DEF Device
    <3> QED BY <3>1, <3>3, <3>4
  <2>5. CASE ExitDevice
    BY <1>2, <1>3, <2>5 DEF ExitDevice, Device, Freed
  <2> QED BY <2>1, <2>2, <2>3, <2>4, <2>5 DEF LoadStep, Register, Kmalloc, Exit
<1> QED BY <1>1, <1>3 DEF Quiet

LEMMA UserQuiet == ASSUME Inv, NEW t \in Tasks, Open(t) \/ Release(t) PROVE Quiet
<1> USE DEF Inv
<1>1. UNCHANGED <<param, data, pc, rq, seg, pos, nr_bytes, clean, last>>
  BY DEF Open, Release
<1>2. pc[t] = "idle"
  BY DEF Open, Release, UseInv
<1>3. \A u \in Tasks : u # t => disk'[u] = disk[u]
  BY DEF Open, Release, TypeOK, CallTypes
<1>4. \A d \in Devs : dev'[d].data = dev[d].data
  <2>1. dev \in [Devs -> Device] /\ disk \in [Tasks -> Devs \cup {NoDisk}]
    BY DEF TypeOK, ModuleTypes, CallTypes
  <2>2. PICK d \in Devs, n \in Int : dev' = [dev EXCEPT ![d].users = n]
    <3>1. \A d \in Devs : dev[d].users + 1 \in Int /\ dev[d].users - 1 \in Int
      BY <2>1 DEF Device
    <3> QED BY <2>1, <3>1 DEF Open, Release
  <2> QED BY <2>1, <2>2 DEF Device
<1> QED BY <1>1, <1>2, <1>3, <1>4 DEF Quiet

LEMMA FlowQuiet == ASSUME Inv, FlowInv, Quiet PROVE FlowInv'
<1> SUFFICES ASSUME NEW t \in Tasks PROVE Flow(t)' /\ Fit(t)'
  BY DEF FlowInv
<1>1. InFlight(t) => pc[t] # "idle" /\ disk[t] \in Devs /\ dev[disk[t]].data # "NULL"
  BY ServedData DEF InFlight
<1>2. InFlight(t) => disk'[t] = disk[t] /\ Len(data'[disk[t]]) = Len(data[disk[t]])
  BY <1>1 DEF Quiet
<1>3. Flow(t) /\ Fit(t)
  BY DEF FlowInv
<1> QED BY <1>2, <1>3, FlowFrame DEF Quiet

LEMMA FlowStep == ASSUME Inv, FlowInv, [Next]_vars PROVE FlowInv'
<1>1. CASE LoadStep \/ Exit
  BY <1>1, LoadQuiet, FlowQuiet
<1>2. CASE \E t \in Tasks : Open(t) \/ Release(t) \/ QueueRq(t) \/ RqStep(t)
  BY <1>2, UserQuiet, FlowQuiet, FlowQueueRq, FlowTransfer, FlowOverrun, FlowEndRq DEF RqStep
<1>3. CASE UNCHANGED vars
  BY <1>3, FlowQuiet DEF vars, Quiet
<1> QED BY <1>1, <1>2, <1>3 DEF Next

LEMMA FlowHolds == Spec => []FlowInv
<1>1. Init => FlowInv
  BY DEF Init, FlowInv, Flow, Fit, InFlight
<1> QED BY <1>1, FlowStep, Invariance, PTL DEF Spec

(* A request that set_capacity lets through lies inside the data, however  *)
(* the parameters are chosen, unless their product wraps around.           *)
THEOREM RequestsInside == Spec => []RequestsFit
<1>1. FlowInv => RequestsFit
  BY DEF FlowInv, Fit, RequestsFit
<1> QED BY <1>1, FlowHolds, PTL
-----------------------------------------------------------------------------
(* Reading back.  A write that disturbs no request in flight shares no     *)
(* byte with it when a sector covers at least as many numbers as it has    *)
(* bytes; so the bytes of undisturbed requests, and of the last writes,    *)
(* are those of the device.                                                *)
Undisturbed ==
  \A t, u \in Tasks : t # u /\ InFlight(t) /\ InFlight(u) /\ disk[t] = disk[u] /\ clean[t]
                        => ~Disturbs(rq[u], rq[t])

Holds(r, n, d) == \A i \in 1 .. n : FlattenSeq(r.bufs)[i] = data[d][r.sector + i]

Copied(t) == InFlight(t) /\ clean[t] => Holds(rq[t], nr_bytes[t], disk[t])

Kept(d) ==
  \A w \in last[d] : /\ dev[d].data # "NULL" /\ w.sector + Bytes(w) <= Len(data[d])
                     /\ Holds(w, Bytes(w), d)
                     /\ \A u \in Tasks : InFlight(u) /\ disk[u] = d => ~Disturbs(rq[u], w)

DataInv == Undisturbed /\ (\A t \in Tasks : Copied(t)) /\ (\A d \in Devs : Kept(d))

WholeSectors(r) == r.sector \in Nat /\ Bytes(r) \in Nat /\ Bytes(r) % KERNEL_SECTOR_SIZE = 0

LEMMA SpanCovers ==
  ASSUME SPAN >= KERNEL_SECTOR_SIZE, NEW r, WholeSectors(r), NEW i \in 1 .. Bytes(r)
  PROVE  r.sector + i - 1 \in Span(r)
<1> DEFINE s == Bytes(r) \div KERNEL_SECTOR_SIZE
           k == KERNEL_SECTOR_SIZE
           b == Bytes(r)
           first == r.sector
<1>1. k \in Nat \ {0} /\ SPAN \in Nat /\ b \in Nat /\ first \in Nat /\ b % k = 0 /\ SPAN >= k
  BY WidthAssumption, DeviceAssumption DEF WholeSectors
<1>2. i \in 1 .. b /\ Span(r) = first .. first + SPAN * s - 1
  BY DEF Span
<1>3. \A x \in Nat, y \in Nat \ {0} : x % y = 0 => x = y * (x \div y) /\ x \div y \in Nat
  BY Z3
<1>4. b = k * s /\ s \in Nat
  BY <1>1, <1>3
<1> HIDE DEF s, k, b, first
<1>5. SPAN * s >= k * s /\ SPAN * s \in Nat
  BY <1>1, <1>4, Z3
<1>6. first + i - 1 \in first .. first + SPAN * s - 1
  <2>1. ASSUME NEW x \in Nat, x >= b PROVE first + i - 1 \in first .. first + x - 1
    BY <1>1, <1>2, <2>1
  <2> QED BY <1>4, <1>5, <2>1
<1> QED BY <1>2, <1>6 DEF first

LEMMA Apart ==
  ASSUME SPAN >= KERNEL_SECTOR_SIZE, NEW r, WholeSectors(r), NEW q, WholeSectors(q),
         r.dir = "write", ~Disturbs(r, q),
         NEW i \in 1 .. Bytes(r), NEW j \in 1 .. Bytes(q)
  PROVE  r.sector + i # q.sector + j
<1>1. r.sector + i - 1 \in Span(r) /\ q.sector + j - 1 \in Span(q)
  BY SpanCovers
<1>2. Span(r) \cap Span(q) = {}
  BY DEF Disturbs
<1>3. SUFFICES ASSUME r.sector + i = q.sector + j PROVE FALSE
  OBVIOUS
<1>4. r.sector + i - 1 = q.sector + j - 1
  BY <1>3 DEF WholeSectors
<1> HIDE DEF Span
<1> QED BY <1>1, <1>2, <1>4, Zenon

LEMMA ServedWhole ==
  ASSUME Inv, FlowInv, NEW t \in Tasks, InFlight(t)
  PROVE  WholeSectors(rq[t]) /\ nr_bytes[t] <= Bytes(rq[t]) /\ nr_bytes[t] \in Nat
<1>1. /\ rq[t].bufs \in Seq(Seq(Byte)) /\ rq[t].sector \in Nat /\ nr_bytes[t] \in Nat
      /\ seg[t] \in Nat \ {0} /\ Len(rq[t].bufs) \in Nat
  BY DEF Inv, TypeOK, CallTypes, RequestSet
<1>2. /\ rq[t].bufs # <<>> /\ Bytes(rq[t]) % KERNEL_SECTOR_SIZE = 0
      /\ pc[t] = "end" => seg[t] = Len(rq[t].bufs) + 1
      /\ \/ nr_bytes[t] = Len(Part(rq[t].bufs, seg[t] - 1))
         \/ nr_bytes[t] < Len(Part(rq[t].bufs, seg[t] - 1))
  BY DEF FlowInv, Flow
<1>3. /\ Bytes(rq[t]) \in Nat
      /\ \A k \in 0 .. Len(rq[t].bufs) : /\ Len(Part(rq[t].bufs, k)) <= Bytes(rq[t])
                                         /\ Len(Part(rq[t].bufs, k)) \in Nat
  BY <1>1, <1>2, FlattenFacts, Zenon DEF Bytes
<1>4. seg[t] - 1 \in 0 .. Len(rq[t].bufs)
  <2>1. pc[t] = "transfer" => seg[t] \in 1 .. Len(rq[t].bufs)
    BY DEF Inv, SegmentInv
  <2> QED BY <1>1, <1>2, <2>1 DEF InFlight
<1>5. nr_bytes[t] <= Bytes(rq[t])
  BY <1>1, <1>2, <1>3, <1>4
<1> QED BY <1>1, <1>2, <1>3, <1>5 DEF WholeSectors

LEMMA WriteWhole ==
  ASSUME NEW w \in Requests PROVE WholeSectors(w)
  BY RequestFacts DEF WholeSectors

LEMMA DataQuiet == ASSUME Inv, DataInv, Quiet PROVE DataInv'
<1>1. /\ pc' = pc /\ rq' = rq /\ nr_bytes' = nr_bytes /\ clean' = clean /\ last' = last
      /\ \A t \in Tasks : InFlight(t)' <=> InFlight(t)
      /\ \A t \in Tasks : InFlight(t) => disk'[t] = disk[t]
  BY DEF Quiet, InFlight
<1>2. Undisturbed'
  BY <1>1 DEF DataInv, Undisturbed, Disturbs, Span, Bytes
<1>3. ASSUME NEW t \in Tasks PROVE Copied(t)'
  <2>1. InFlight(t) => data'[disk[t]] = data[disk[t]]
    BY ServedData DEF Quiet, InFlight
  <2> QED BY <1>1, <2>1 DEF DataInv, Copied, Holds
<1>4. ASSUME NEW d \in Devs PROVE Kept(d)'
  <2>1. ASSUME NEW w \in last[d]
        PROVE  /\ dev'[d].data # "NULL" /\ w.sector + Bytes(w) <= Len(data'[d])
               /\ Holds(w, Bytes(w), d)'
               /\ \A u \in Tasks : InFlight(u)' /\ disk'[u] = d => ~Disturbs(rq[u], w)
    <3>1. /\ dev[d].data # "NULL" /\ w.sector + Bytes(w) <= Len(data[d])
          /\ Holds(w, Bytes(w), d)
          /\ \A u \in Tasks : InFlight(u) /\ disk[u] = d => ~Disturbs(rq[u], w)
      BY DEF DataInv, Kept
    <3>2. dev'[d].data # "NULL" /\ data'[d] = data[d]
      BY <3>1 DEF Quiet
    <3> QED BY <1>1, <3>1, <3>2 DEF Holds
  <2> QED BY <1>1, <2>1 DEF Kept
<1> QED BY <1>2, <1>3, <1>4 DEF DataInv

LEMMA DataQueueRq ==
  ASSUME Inv, DataInv, NEW t \in Tasks, QueueRq(t)
  PROVE  DataInv'
<1> DEFINE others == {u \in Tasks \ {t} : InFlight(u) /\ disk[u] = disk[t]}
<1>1. PICK r \in Requests :
        /\ rq' = [rq EXCEPT ![t] = r]
        /\ clean' = [u \in Tasks |-> CASE u = t -> \A o \in others : ~Disturbs(rq[o], r)
                                       [] u \in others -> clean[u] /\ ~Disturbs(r, rq[u])
                                       [] OTHER -> clean[u]]
        /\ last' = [last EXCEPT ![disk[t]] = {w \in @ : ~Disturbs(r, w)}]
  BY DEF QueueRq
<1>2. /\ disk[t] # NoDisk /\ pc[t] = "idle" /\ UNCHANGED <<module, data, disk>>
      /\ pc' = [pc EXCEPT ![t] = "transfer"] /\ nr_bytes' = [nr_bytes EXCEPT ![t] = 0]
  BY DEF QueueRq
<1>3. dev' = dev /\ disk' = disk /\ data' = data
  BY <1>2 DEF module
<1>4. /\ InFlight(t)' /\ rq'[t] = r /\ nr_bytes'[t] = 0
      /\ \A u \in Tasks : u # t => /\ InFlight(u)' <=> InFlight(u)
                                   /\ rq'[u] = rq[u] /\ nr_bytes'[u] = nr_bytes[u]
  BY <1>1, <1>2 DEF Inv, TypeOK, CallTypes, InFlight
<1>5. /\ clean'[t] => \A o \in others : ~Disturbs(rq[o], r)
      /\ \A u \in Tasks : u # t /\ clean'[u]
           => clean[u] /\ (u \in others => ~Disturbs(r, rq[u]))
  <2>1. clean'[t] = (\A o \in others : ~Disturbs(rq[o], r))
    BY <1>1, Zenon
  <2>2. ASSUME NEW u \in Tasks, u # t, clean'[u]
        PROVE  clean[u] /\ (u \in others => ~Disturbs(r, rq[u]))
    <3>1. CASE u \in others
      <4>1. clean'[u] = (clean[u] /\ ~Disturbs(r, rq[u]))
        BY <1>1, <2>2, <3>1
      <4> QED BY <2>2, <4>1
    <3>2. CASE u \notin others
      <4>1. clean'[u] = clean[u]
        BY <1>1, <2>2, <3>2
      <4> QED BY <2>2, <3>2, <4>1
    <3> QED BY <3>1, <3>2
  <2> QED BY <2>1, <2>2
<1>6. Undisturbed'
  <2>1. SUFFICES ASSUME NEW u \in Tasks, NEW o \in Tasks, u # o, InFlight(u)', InFlight(o)',
                        disk[u] = disk[o], clean'[u]
                 PROVE  ~Disturbs(rq'[o], rq'[u])
    BY <1>3 DEF Undisturbed, Disturbs, Span, Bytes
  <2>2. CASE u = t
    <3>1. o \in others /\ rq'[o] = rq[o]
      BY <1>4, <2>1, <2>2
    <3> QED BY <1>4, <1>5, <2>1, <2>2, <3>1
  <2>3. CASE o = t
    <3>1. u \in others /\ rq'[u] = rq[u]
      BY <1>4, <2>1, <2>3
    <3> QED BY <1>4, <1>5, <2>1, <2>3, <3>1
  <2>4. CASE u # t /\ o # t
    BY <1>4, <1>5, <2>1, <2>4 DEF DataInv, Undisturbed
  <2> QED BY <2>2, <2>3, <2>4
<1>7. ASSUME NEW u \in Tasks PROVE Copied(u)'
  <2>1. CASE u = t
    BY <1>4, <2>1 DEF Copied, Holds
  <2>2. CASE u # t
    BY <1>3, <1>4, <1>5, <2>2 DEF DataInv, Copied, Holds
  <2> QED BY <2>1, <2>2
<1>8. ASSUME NEW d \in Devs PROVE Kept(d)'
  <2>1. last'[d] \subseteq last[d] /\ (d = disk[t] => \A w \in last'[d] : ~Disturbs(r, w))
    BY <1>1 DEF Inv, TypeOK
  <2>2. ASSUME NEW w \in last'[d]
        PROVE  /\ dev[d].data # "NULL" /\ w.sector + Bytes(w) <= Len(data[d])
               /\ Holds(w, Bytes(w), d)
               /\ \A u \in Tasks : InFlight(u)' /\ disk[u] = d => ~Disturbs(rq'[u], w)
    BY <1>4, <2>1 DEF DataInv, Kept
  <2> QED BY <1>3, <2>2 DEF Kept, Holds
<1> QED BY <1>6, <1>7, <1>8 DEF DataInv

LEMMA DataOverrun ==
  ASSUME Inv, DataInv, NEW t \in Tasks, Overrun(t)
  PROVE  DataInv'
<1>1. /\ pc' = [pc EXCEPT ![t] = "oops"]
      /\ UNCHANGED <<module, data, disk, rq, seg, pos, nr_bytes, clean, last>>
  BY DEF Overrun
<1>2. dev' = dev /\ \A u \in Tasks : InFlight(u)' => InFlight(u)
  BY <1>1 DEF module, Inv, TypeOK, CallTypes, InFlight
<1>3. Undisturbed'
  BY <1>1, <1>2 DEF DataInv, Undisturbed, Disturbs, Span, Bytes
<1>4. \A u \in Tasks : Copied(u)'
  BY <1>1, <1>2 DEF DataInv, Copied, Holds
<1>5. \A d \in Devs : Kept(d)'
  BY <1>1, <1>2 DEF DataInv, Kept, Holds
<1> QED BY <1>3, <1>4, <1>5 DEF DataInv

(* A write that is over, and clean, joins the last writes.                 *)
LEMMA DataEndRq ==
  ASSUME Inv, FlowInv, DataInv, NEW t \in Tasks, EndRq(t)
  PROVE  DataInv'
<1>1. pc[t] = "end" /\ InFlight(t) /\ UNCHANGED <<module, data, disk>>
  BY DEF EndRq, InFlight
<1>2. dev' = dev /\ disk' = disk /\ data' = data
  BY <1>1 DEF module
<1>3. /\ ~InFlight(t)'
      /\ \A u \in Tasks : u # t => /\ InFlight(u)' <=> InFlight(u)
                                   /\ rq'[u] = rq[u] /\ nr_bytes'[u] = nr_bytes[u]
                                   /\ clean'[u] = clean[u]
  BY DEF EndRq, Inv, TypeOK, CallTypes, InFlight
<1>4. Undisturbed'
  <2>1. \A u \in Tasks : InFlight(u)' => u # t
    BY <1>3
  <2> QED BY <1>2, <1>3, <2>1 DEF DataInv, Undisturbed, Disturbs, Span, Bytes
<1>5. ASSUME NEW u \in Tasks PROVE Copied(u)'
  <2>1. CASE u = t
    BY <1>3, <2>1 DEF Copied
  <2>2. CASE u # t
    BY <1>2, <1>3, <2>2 DEF DataInv, Copied, Holds
  <2> QED BY <2>1, <2>2
<1>6. ASSUME NEW d \in Devs PROVE Kept(d)'
  <2>1. \A w \in last'[d] :
          \/ w \in last[d]
          \/ /\ w = rq[t] /\ d = disk[t] /\ w.dir = "write" /\ clean[t]
             /\ nr_bytes[t] = Bytes(w)
    BY DEF EndRq, Inv, TypeOK
  <2>2. ASSUME NEW w \in last'[d]
        PROVE  /\ dev[d].data # "NULL" /\ w.sector + Bytes(w) <= Len(data[d])
               /\ Holds(w, Bytes(w), d)
               /\ \A u \in Tasks : InFlight(u)' /\ disk[u] = d => ~Disturbs(rq'[u], w)
    <3>1. CASE w \in last[d]
      BY <1>3, <3>1 DEF DataInv, Kept
    <3>2. CASE w = rq[t] /\ d = disk[t] /\ clean[t] /\ nr_bytes[t] = Bytes(w)
      <4>1. dev[d].data # "NULL"
        BY <1>1, <3>2, ServedData
      <4>2. w.sector + Bytes(w) <= Len(data[d])
        <5>1. pos[t] <= Len(data[disk[t]])
          BY <1>1 DEF FlowInv, Flow
        <5>2. nr_bytes[t] = pos[t] - rq[t].sector
          BY <1>1, Zenon DEF Inv, TypeOK
        <5>3. pos[t] \in Nat /\ rq[t].sector \in Nat
          BY DEF Inv, TypeOK, CallTypes, RequestSet
        <5> QED BY <3>2, <5>1, <5>2, <5>3
      <4>3. Holds(w, Bytes(w), d)
        BY <1>1, <3>2 DEF DataInv, Copied
      <4>4. \A u \in Tasks : InFlight(u)' /\ disk[u] = d => ~Disturbs(rq'[u], w)
        BY <1>1, <1>3, <3>2 DEF DataInv, Undisturbed
      <4> QED BY <4>1, <4>2, <4>3, <4>4
    <3> QED BY <2>1, <3>1, <3>2
  <2> QED BY <1>2, <2>2 DEF Kept, Holds
<1> QED BY <1>4, <1>5, <1>6 DEF DataInv

(* After a copy, the bytes up to nr_bytes are those of the device: the     *)
(* ones before, in segments that the copy leaves alone, and the new ones.  *)
LEMMA CopiedMore ==
  ASSUME Inv, FlowInv, NEW t \in Tasks, Transfer(t), Copied(t)
  PROVE  Copied(t)'
<1> DEFINE n == Length(t)
           d == disk[t]
           k == seg[t]
           b == rq[t].bufs[k]
           c == rq'[t].bufs[k]
           p == Part(rq[t].bufs, k - 1)
           nr == nr_bytes[t]
           at == rq[t].sector
           old == FlattenSeq(rq[t].bufs)
           new == FlattenSeq(rq'[t].bufs)
<1>1. /\ pc[t] = "transfer" /\ n \in Nat
      /\ nr_bytes' = [nr_bytes EXCEPT ![t] = @ + n]
      /\ UNCHANGED <<module, disk, clean, last>>
      /\ rq'[t].sector = at /\ Len(rq'[t].bufs) = Len(rq[t].bufs)
  BY TransferFacts
<1>2. /\ rq[t].bufs \in Seq(Seq(Byte)) /\ rq[t].bufs # <<>> /\ k \in 1 .. Len(rq[t].bufs)
      /\ Len(p) \in Nat /\ Len(b) \in Nat /\ nr <= Len(p)
      /\ pos[t] = at + nr /\ at \in Nat /\ nr \in Nat /\ pos[t] \in Nat
  BY <1>1, InsideRequest, Zenon
<1>3. n <= Len(b) /\ pos[t] + n <= Len(data[d])
  <2>1. n \in 0 .. Len(b) /\ pos[t] + n <= Len(data[d])
    BY <1>1, SegmentFacts
  <2> QED BY <1>2, <2>1
<1>4. /\ rq'[t].bufs \in Seq(Seq(Byte)) /\ rq'[t].bufs # <<>>
      /\ Part(rq'[t].bufs, k - 1) = p
  BY TransferParts, Zenon
<1>5. nr_bytes'[t] = nr + n /\ disk'[t] = d /\ clean'[t] = clean[t] /\ InFlight(t)
  BY <1>1 DEF module, Inv, TypeOK, CallTypes, InFlight
<1>6. n > 0 => nr = Len(p)
  <2>1. nr_bytes'[t] > nr => nr = Len(p)
    BY FlowTransfer
  <2> QED BY <1>1, <1>2, <1>5, <2>1
<1>a. k - 1 \in 0 .. Len(rq[t].bufs) /\ k - 1 \in 0 .. Len(rq'[t].bufs)
      /\ k \in 0 .. Len(rq'[t].bufs) /\ k \in 1 .. Len(rq'[t].bufs)
  BY <1>1, <1>2, SMTT(30)
<1>7. /\ \A i \in 1 .. Len(p) : old[i] = p[i]
      /\ \A i \in 1 .. Len(p) : new[i] = p[i]
  BY <1>1, <1>2, <1>4, <1>a, FlattenFacts, ZenonT(30)
<1>8. Len(c) = Len(b) /\ \A i \in 1 .. n : c[i] = data'[d][pos[t] + i]
  <2>1. CASE rq[t].dir = "write"
    <3>1. /\ rq' = rq
          /\ \A i \in 1 .. Len(data[d]) :
               data'[d][i] = IF i \in pos[t] + 1 .. pos[t] + n THEN b[i - pos[t]] ELSE data[d][i]
      BY <2>1, TransferFacts
    <3>2. ASSUME NEW i \in 1 .. n PROVE c[i] = data'[d][pos[t] + i]
      <4> HIDE DEF n, b, nr, at
      <4>1. /\ pos[t] + i \in 1 .. Len(data[d]) /\ pos[t] + i \in pos[t] + 1 .. pos[t] + n
            /\ (pos[t] + i) - pos[t] = i
        <5>1. Len(data[d]) \in Nat /\ n \in Nat
          BY <1>1, ServedData
        <5>2. ASSUME NEW a \in Nat, NEW m \in Nat, NEW l \in Nat, NEW j \in 1 .. m, a + m <= l
              PROVE  a + j \in 1 .. l /\ a + j \in a + 1 .. a + m /\ (a + j) - a = j
          BY <5>2
        <5>3. pos[t] \in Nat /\ pos[t] + n <= Len(data[d])
          BY <1>2, <1>3
        <5> HIDE DEF d
        <5> QED BY <5>1, <5>2, <5>3
      <4>2. data'[d][pos[t] + i] = b[(pos[t] + i) - pos[t]]
        BY <3>1, <4>1
      <4>3. c[i] = b[i]
        BY <3>1 DEF b
      <4> QED BY <4>1, <4>2, <4>3
    <3> QED BY <3>1, <3>2
  <2>2. CASE rq[t].dir = "read"
    <3>1. /\ data' = data /\ Len(c) = Len(b)
          /\ \A i \in 1 .. n : c[i] = data[d][pos[t] + i]
      BY <1>2, <2>2, TransferFacts
    <3> QED BY <3>1
  <2>3. rq[t].dir \in {"read", "write"}
    BY DEF Inv, TypeOK, CallTypes, RequestSet
  <2> QED BY <2>1, <2>2, <2>3
<1>9. \A i \in 1 .. Len(c) : new[Len(p) + i] = c[i]
  <2>1. /\ \A i \in 1 .. Len(c) : Part(rq'[t].bufs, k)[Len(p) + i] = c[i]
        /\ Len(Part(rq'[t].bufs, k)) = Len(p) + Len(c)
    <3>1. LET q == Part(rq'[t].bufs, k - 1)
          IN  /\ Len(Part(rq'[t].bufs, k)) = Len(q) + Len(c)
              /\ \A i \in 1 .. Len(c) : Part(rq'[t].bufs, k)[Len(q) + i] = c[i]
      BY <1>4, <1>a, PartIs, Zenon
    <3> QED BY <1>4, <3>1, Zenon
  <2>2. \A i \in 1 .. Len(Part(rq'[t].bufs, k)) : new[i] = Part(rq'[t].bufs, k)[i]
    BY <1>4, <1>a, FlattenFacts, Zenon
  <2>3. ASSUME NEW i \in 1 .. Len(c) PROVE Len(p) + i \in 1 .. Len(p) + Len(c)
    <3> HIDE DEF p, c, b
    <3> QED BY <1>2, <1>8
  <2> QED BY <2>1, <2>2, <2>3
<1>10. ASSUME clean[t], NEW i \in 1 .. nr + n PROVE new[i] = data'[d][at + i]
  <2> HIDE DEF n, p, nr, at, new, old, c, b, d, k
  <2>1. CASE i <= nr
    <3>1. i \in 1 .. nr /\ i \in 1 .. Len(p)
      BY <1>1, <1>2, <2>1
    <3>2. old[i] = data[d][at + i]
      BY <1>5, <1>10, <3>1 DEF Copied, Holds, nr, old, at, d
    <3>3. data'[d][at + i] = data[d][at + i]
      <4>1. CASE rq[t].dir = "write"
        <5>1. \A j \in 1 .. Len(data[d]) : j \notin pos[t] + 1 .. pos[t] + n
                                             => data'[d][j] = data[d][j]
          BY <4>1, TransferFacts DEF n, d
        <5>2. at + i \in 1 .. Len(data[d]) /\ at + i \notin pos[t] + 1 .. pos[t] + n
          <6>1. Len(data[d]) \in Nat
            BY <1>1, ServedData DEF d
          <6> QED BY <6>1, <1>1, <1>2, <1>3, <2>1
        <5> QED BY <5>1, <5>2
      <4>2. CASE rq[t].dir = "read"
        BY <4>2, TransferFacts
      <4>3. rq[t].dir \in {"read", "write"}
        BY DEF Inv, TypeOK, CallTypes, RequestSet
      <4> QED BY <4>1, <4>2, <4>3
    <3> QED BY <1>7, <3>1, <3>2, <3>3
  <2>2. CASE i > nr
    <3>1. n > 0 /\ i - nr \in 1 .. n /\ i - nr \in 1 .. Len(c) /\ nr = Len(p)
      BY <1>1, <1>2, <1>3, <1>6, <1>8, <2>2
    <3>2. new[Len(p) + (i - nr)] = c[i - nr] /\ c[i - nr] = data'[d][pos[t] + (i - nr)]
      BY <1>8, <1>9, <3>1
    <3>3. Len(p) + (i - nr) = i /\ pos[t] + (i - nr) = at + i
      BY <1>2, <3>1
    <3> QED BY <3>2, <3>3
  <2> QED BY <1>1, <1>2, <2>1, <2>2
<1> QED BY <1>1, <1>5, <1>10 DEF Copied, Holds

(* The bytes that a copy writes belong to its request.                     *)
LEMMA Written ==
  ASSUME Inv, FlowInv, NEW t \in Tasks, Transfer(t), NEW c \in Devs,
         NEW x \in 1 .. Len(data[c]), data'[c][x] # data[c][x]
  PROVE  /\ c = disk[t] /\ rq[t].dir = "write"
         /\ \E i \in 1 .. Bytes(rq[t]) : x = rq[t].sector + i
<1> DEFINE n == Length(t)
<1>1. /\ pc[t] = "transfer" /\ n \in Nat /\ rq[t].dir \in {"read", "write"}
      /\ c # disk[t] => data'[c] = data[c]
      /\ rq[t].dir = "read" => data' = data
  <2>1. pc[t] = "transfer" /\ n \in Nat
    BY TransferFacts
  <2>2. /\ c # disk[t] => data'[c] = data[c]
        /\ rq[t].dir = "read" => data' = data
    BY TransferFacts
  <2>3. rq[t].dir \in {"read", "write"}
    BY DEF Inv, TypeOK, CallTypes, RequestSet
  <2> QED BY <2>1, <2>2, <2>3
<1>2. c = disk[t] /\ rq[t].dir = "write"
  BY <1>1
<1>3. x \in pos[t] + 1 .. pos[t] + n
  BY <1>2, TransferFacts
<1>4. /\ nr_bytes[t] + Len(rq[t].bufs[seg[t]]) <= Bytes(rq[t])
      /\ pos[t] = rq[t].sector + nr_bytes[t] /\ Len(rq[t].bufs[seg[t]]) \in Nat
      /\ Bytes(rq[t]) \in Nat /\ rq[t].sector \in Nat /\ nr_bytes[t] \in Nat
  BY <1>1, InsideRequest, Zenon
<1>5. n \in 0 .. Len(rq[t].bufs[seg[t]])
  BY <1>1, SegmentFacts
<1>6. x - rq[t].sector \in 1 .. Bytes(rq[t]) /\ x = rq[t].sector + (x - rq[t].sector)
  <2>1. ASSUME NEW at \in Nat, NEW nr \in Nat, NEW l \in Nat, NEW all \in Nat, nr + l <= all,
               n \in 0 .. l, x \in (at + nr) + 1 .. (at + nr) + n
        PROVE  x - at \in 1 .. all /\ x = at + (x - at)
    BY <2>1
  <2>2. x \in (rq[t].sector + nr_bytes[t]) + 1 .. (rq[t].sector + nr_bytes[t]) + n
    BY <1>3, <1>4
  <2> QED BY <1>4, <1>5, <2>1, <2>2, Zenon
<1> QED BY <1>2, <1>6

LEMMA DataTransfer ==
  ASSUME SPAN >= KERNEL_SECTOR_SIZE, Inv, FlowInv, DataInv, NEW t \in Tasks, Transfer(t)
  PROVE  DataInv'
<1>1. /\ pc[t] = "transfer"
      /\ UNCHANGED <<module, disk, clean, last>>
      /\ \A u \in Tasks : u # t => rq'[u] = rq[u]
      /\ rq'[t].sector = rq[t].sector /\ rq'[t].dir = rq[t].dir
      /\ \A c \in Devs : Len(data'[c]) = Len(data[c])
      /\ pc' = [pc EXCEPT ![t] = IF seg[t] = Len(rq[t].bufs) THEN "end" ELSE "transfer"]
      /\ nr_bytes' = [nr_bytes EXCEPT ![t] = @ + Length(t)]
  BY TransferFacts
<1>2. dev' = dev /\ disk' = disk /\ clean' = clean /\ last' = last
  BY <1>1 DEF module
<1>3. /\ \A u \in Tasks : InFlight(u)' <=> InFlight(u)
      /\ \A u \in Tasks : u # t => nr_bytes'[u] = nr_bytes[u]
      /\ InFlight(t)
  BY <1>1 DEF Inv, TypeOK, CallTypes, InFlight
<1>4. \A u \in Tasks : Bytes(rq'[u]) = Bytes(rq[u])
  <2>1. Bytes(rq'[t]) = Bytes(rq[t])
    BY TransferParts, Zenon
  <2> QED BY <1>1, <2>1
<1>5. \A u \in Tasks : Span(rq'[u]) = Span(rq[u]) /\ rq'[u].dir = rq[u].dir
  BY <1>1, <1>4 DEF Span
<1>6. Undisturbed'
  BY <1>2, <1>3, <1>5 DEF DataInv, Undisturbed, Disturbs
<1>7. WholeSectors(rq[t])
  BY <1>3, ServedWhole
<1>8. ASSUME NEW u \in Tasks PROVE Copied(u)'
  <2>1. CASE u = t
    BY <2>1, CopiedMore DEF DataInv
  <2>2. CASE u # t
    <3>1. SUFFICES ASSUME InFlight(u), clean[u], NEW i \in 1 .. nr_bytes[u]
                   PROVE  data'[disk[u]][rq[u].sector + i] = data[disk[u]][rq[u].sector + i]
      BY <1>1, <1>2, <1>3, <2>2 DEF DataInv, Copied, Holds
    <3>2. /\ WholeSectors(rq[u]) /\ i \in 1 .. Bytes(rq[u])
      BY <3>1, ServedWhole DEF WholeSectors
    <3>3. disk[u] \in Devs /\ rq[u].sector + i \in 1 .. Len(data[disk[u]])
      <4>1. disk[u] \in Devs /\ Len(data[disk[u]]) \in Nat
        BY <3>1, ServedData DEF InFlight
      <4>2. pos[u] <= Len(data[disk[u]])
        <5>1. nr_bytes[u] > 0
          BY <3>1, ServedWhole
        <5> QED BY <3>1, <5>1 DEF FlowInv, Flow
      <4>3. nr_bytes[u] = pos[u] - rq[u].sector
        BY <3>1, Zenon DEF Inv, TypeOK
      <4>4. pos[u] \in Nat /\ rq[u].sector \in Nat /\ nr_bytes[u] \in Nat
        BY DEF Inv, TypeOK, CallTypes, RequestSet
      <4> QED BY <3>1, <4>1, <4>2, <4>3, <4>4
    <3>4. SUFFICES ASSUME data'[disk[u]][rq[u].sector + i] # data[disk[u]][rq[u].sector + i]
                   PROVE  FALSE
      OBVIOUS
    <3>5. /\ disk[u] = disk[t] /\ rq[t].dir = "write"
          /\ \E j \in 1 .. Bytes(rq[t]) : rq[u].sector + i = rq[t].sector + j
      BY <3>3, <3>4, Written, Zenon
    <3>6. ~Disturbs(rq[t], rq[u])
      BY <1>3, <2>2, <3>1, <3>5 DEF DataInv, Undisturbed
    <3> QED BY <1>7, <3>2, <3>5, <3>6, Apart
  <2> QED BY <2>1, <2>2
<1>9. ASSUME NEW d \in Devs PROVE Kept(d)'
  <2>1. ASSUME NEW w \in last[d]
        PROVE  /\ dev[d].data # "NULL" /\ w.sector + Bytes(w) <= Len(data'[d])
               /\ \A i \in 1 .. Bytes(w) : FlattenSeq(w.bufs)[i] = data'[d][w.sector + i]
               /\ \A u \in Tasks : InFlight(u) /\ disk[u] = d => ~Disturbs(rq'[u], w)
    <3>1. /\ dev[d].data # "NULL" /\ w.sector + Bytes(w) <= Len(data[d])
          /\ \A i \in 1 .. Bytes(w) : FlattenSeq(w.bufs)[i] = data[d][w.sector + i]
          /\ \A u \in Tasks : InFlight(u) /\ disk[u] = d => ~Disturbs(rq[u], w)
      BY DEF DataInv, Kept, Holds
    <3>2. WholeSectors(w) /\ w.sector \in Nat /\ Bytes(w) \in Nat
      BY WriteWhole DEF Inv, TypeOK, WholeSectors
    <3>3. ASSUME NEW i \in 1 .. Bytes(w)
          PROVE  data'[d][w.sector + i] = data[d][w.sector + i]
      <4>1. w.sector + i \in 1 .. Len(data[d])
        <5>1. Len(data[d]) \in Nat
          BY DEF Inv, TypeOK, ModuleTypes
        <5> QED BY <3>1, <3>2, <5>1
      <4>2. SUFFICES ASSUME data'[d][w.sector + i] # data[d][w.sector + i] PROVE FALSE
        OBVIOUS
      <4>3. /\ d = disk[t] /\ rq[t].dir = "write"
            /\ \E j \in 1 .. Bytes(rq[t]) : w.sector + i = rq[t].sector + j
        BY <4>1, <4>2, Written, ZenonT(30)
      <4> QED BY <1>3, <1>7, <3>1, <3>2, <4>3, Apart
    <3>4. \A u \in Tasks : InFlight(u) /\ disk[u] = d => ~Disturbs(rq'[u], w)
      BY <1>5, <3>1 DEF Disturbs
    <3> QED BY <1>1, <3>1, <3>3, <3>4
  <2> QED BY <1>2, <1>3, <2>1 DEF Kept, Holds
<1> QED BY <1>6, <1>8, <1>9 DEF DataInv

LEMMA DataStep ==
  ASSUME SPAN >= KERNEL_SECTOR_SIZE, Inv, FlowInv, DataInv, [Next]_vars
  PROVE  DataInv'
<1>1. CASE LoadStep \/ Exit
  BY <1>1, LoadQuiet, DataQuiet
<1>2. CASE \E t \in Tasks : Open(t) \/ Release(t) \/ QueueRq(t) \/ RqStep(t)
  BY <1>2, UserQuiet, DataQuiet, DataQueueRq, DataTransfer, DataOverrun, DataEndRq DEF RqStep
<1>3. CASE UNCHANGED vars
  BY <1>3, DataQuiet DEF vars, Quiet
<1> QED BY <1>1, <1>2, <1>3 DEF Next

(* A read that is over and undisturbed has all its bytes, if a write that  *)
(* should still be there covers it.                                        *)
LEMMA ReadIsWritten ==
  ASSUME Inv, FlowInv, DataInv, NEW t \in Tasks, pc[t] = "end", clean[t],
         NEW w \in last[disk[t]], w.sector = rq[t].sector, Bytes(rq[t]) <= Bytes(w)
  PROVE  IsPrefix(FlattenSeq(rq[t].bufs), FlattenSeq(w.bufs))
<1> DEFINE r == rq[t]
           d == disk[t]
           mine == FlattenSeq(r.bufs)
           its == FlattenSeq(w.bufs)
<1>1. InFlight(t) /\ d \in Devs /\ Len(data[d]) \in Nat
  BY ServedData DEF InFlight
<1>2. w \in Requests
  BY <1>1 DEF Inv, TypeOK
<1>3. /\ r.bufs \in Seq(Seq(Byte)) /\ r.sector \in Nat /\ nr_bytes[t] \in Nat
      /\ pos[t] \in Nat /\ Len(r.bufs) \in Nat
  BY DEF Inv, TypeOK, CallTypes, RequestSet
<1>4. /\ r.bufs # <<>> /\ seg[t] = Len(r.bufs) + 1
      /\ \/ nr_bytes[t] = Len(Part(r.bufs, seg[t] - 1))
         \/ pos[t] >= Len(data[d])
  BY <1>1 DEF FlowInv, Flow
<1>5. mine \in Seq(Byte) /\ Len(mine) \in Nat /\ mine = Part(r.bufs, Len(r.bufs))
  BY <1>3, <1>4, FlattenFacts, Zenon
<1>6. its \in Seq(Byte) /\ Len(its) \in Nat
  BY <1>2, RequestFacts, FlattenFacts, Zenon
<1>7. Len(mine) = Bytes(r) /\ Len(its) = Bytes(w) /\ Bytes(r) <= Bytes(w)
  BY DEF Bytes
<1>8. /\ w.sector + Bytes(w) <= Len(data[d])
      /\ \A i \in 1 .. Bytes(w) : its[i] = data[d][w.sector + i]
  BY <1>1 DEF DataInv, Kept, Holds
<1>9. nr_bytes[t] = Bytes(r)
  <2>1. nr_bytes[t] = pos[t] - r.sector
    BY <1>1, Zenon DEF Inv, TypeOK
  <2>2. nr_bytes[t] <= Bytes(r)
    BY <1>1, ServedWhole
  <2>3. seg[t] - 1 = Len(r.bufs)
    BY <1>3, <1>4
  <2>4. nr_bytes[t] = Bytes(r) \/ pos[t] >= Len(data[d])
    BY <1>4, <1>5, <1>7, <2>3
  <2> QED BY <1>1, <1>3, <1>5, <1>6, <1>7, <1>8, <2>1, <2>2, <2>4, SMTT(30)
<1>10. \A i \in 1 .. Bytes(r) : mine[i] = data[d][r.sector + i]
  BY <1>1, <1>9 DEF DataInv, Copied, Holds
<1> HIDE DEF mine, its, r, d
<1>11. Len(mine) <= Len(its) /\ \A i \in 1 .. Len(mine) : mine[i] = its[i]
  <2>1. ASSUME NEW i \in 1 .. Len(mine) PROVE mine[i] = its[i]
    <3>1. i \in 1 .. Bytes(r) /\ i \in 1 .. Bytes(w)
      BY <1>5, <1>6, <1>7
    <3> QED BY <1>8, <1>10, <3>1 DEF r
  <2> QED BY <1>7, <2>1
<1>12. SubSeq(mine, 1, Len(mine)) = SubSeq(its, 1, Len(mine))
  BY <1>5, <1>6, <1>11
<1> QED BY <1>11, <1>12 DEF IsPrefix, mine, its, r

(* What is read is what was written last, as long as nothing that overlaps *)
(* it is in flight or came later: if sectors are as far apart as the bytes *)
(* they hold, which the driver, taking sector numbers for byte offsets,    *)
(* does not ensure.                                                        *)
THEOREM ReadsBack ==
  ASSUME SPAN >= KERNEL_SECTOR_SIZE
  PROVE  Spec => []ReadBack
<1>1. Init => DataInv
  BY DEF Init, DataInv, Undisturbed, Copied, Kept, InFlight
<1>2. Inv /\ FlowInv /\ DataInv /\ [Next]_vars => DataInv'
  BY DataStep
<1>3. Inv /\ FlowInv /\ DataInv => ReadBack
  BY ReadIsWritten DEF ReadBack
<1> QED BY <1>1, <1>2, <1>3, Invariance, FlowHolds, PTL DEF Spec
=============================================================================
