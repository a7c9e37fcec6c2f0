---------------------------- MODULE CharDevProofs ----------------------------
(***************************************************************************)
(* Theorems about CharDev, for any finite number of tasks and any number   *)
(* of loads.                                                               *)
(***************************************************************************)
EXTENDS CharDev, FiniteSetTheorems, TLAPS

Opened == {t \in Tasks : HasOpen(t)}
InUse  == {t \in Tasks : pc[t] # "out"}

(* The minors are the driver's from registration to unregistration, except *)
(* that a failed kmalloc gives back only the first.                        *)
RegionInv ==
  /\ phase # "absent" => region = Minors
  /\ phase = "absent" /\ region # {} => driver = "globalmem" /\ starved /\ region = {1}

(* What each stage of init and exit finds.                                 *)
StageInv ==
  /\ phase \in {"absent", "kmalloc", "going", "freed"} => cdevs = {}
  /\ phase = "cdev" => next \in Minors /\ (next = 0 => cdevs = {})
  /\ phase \in {"absent", "kmalloc", "freed"} => mem # "held"
  /\ phase \in {"cdev", "init", "live", "going", "stuck"} => mem = "held"
  /\ phase \in {"live", "going", "freed", "stuck"} => inited = Parts

(* Nobody has the device open before setup_cdev or after the structures    *)
(* are freed; there is an open file only where there is memory.            *)
OpenInv ==
  /\ phase \in {"absent", "kmalloc", "freed"} => Opened = {}
  /\ phase = "cdev" /\ next = 0 => Opened = {}
  /\ \A t \in Opened : minor[t] \in region

(* The count covers the open files, unless unload has reset it under them: *)
(* this is what keeps the module.                                          *)
CountInv ==
  /\ refcnt <= Cardinality(InUse) + 1
  /\ ~robbed => /\ \A t \in Tasks : pc[t] # "stale"
                /\ phase # "stuck"
                /\ phase \in {"absent", "kmalloc", "going", "freed"} => Opened = {}
                /\ phase \in {"kmalloc", "cdev", "init", "live"}
                     => Cardinality(Opened) < refcnt

Inv == TypeOK /\ RegionInv /\ StageInv /\ OpenInv /\ CountInv

-----------------------------------------------------------------------------
(* The two sets of tasks are finite, and so are their sizes. *)
LEMMA TaskSets ==
  /\ IsFiniteSet(Opened) /\ Cardinality(Opened) \in Nat
  /\ IsFiniteSet(InUse) /\ Cardinality(InUse) \in Nat
  /\ Cardinality(InUse) <= Cardinality(Tasks) /\ Cardinality(Tasks) \in Nat
<1>1. Opened \in SUBSET Tasks /\ InUse \in SUBSET Tasks
  BY DEF Opened, InUse
<1> QED BY <1>1, TasksAssumption, FS_Subset, FS_CardinalityType

(* A task more in a set counts one more, a task less one less. *)
LEMMA OneMore ==
  ASSUME NEW S, NEW x, IsFiniteSet(S), x \notin S
  PROVE  Cardinality(S \cup {x}) = Cardinality(S) + 1
  BY FS_AddElement

LEMMA OneLess ==
  ASSUME NEW S, NEW x, IsFiniteSet(S), x \in S
  PROVE  Cardinality(S \ {x}) = Cardinality(S) - 1
  BY FS_RemoveElement

LEMMA InitInv == Init => Inv
<1> SUFFICES ASSUME Init PROVE Inv
  OBVIOUS
<1>1. Opened = {} /\ InUse = {} /\ Cardinality(InUse) = 0
  BY FS_EmptySet DEF Init, Opened, InUse, HasOpen
<1>2. 0 \in 0 .. 2 /\ 0 \in 0 .. Cardinality(Tasks) + 1 /\ 0 \in 0 .. MAX_LOADS
  BY TaskSets, LoadAssumption
<1>3. minor \in [Tasks -> Minors]
  BY DEF Init, Minors
<1>4. TypeOK
  BY <1>2, <1>3, Zenon DEF Init, TypeOK, KernelTypes, TaskTypes
<1>5. RegionInv /\ StageInv
  BY DEF Init, RegionInv, StageInv
<1>6. OpenInv /\ CountInv
  BY <1>1 DEF Init, OpenInv, CountInv
<1> QED BY <1>4, <1>5, <1>6 DEF Inv

-----------------------------------------------------------------------------
(* The steps of init and exit leave the tasks alone, all but ExitFree. *)
LEMMA KernelStep ==
  ASSUME Inv, Register \/ Kmalloc \/ SetupCdev \/ Finish \/ Exit \/ Unregister
  PROVE  Inv'
<1> USE DEF Inv
<1>1. /\ UNCHANGED <<pc, minor, robbed, driver>>
      /\ Opened' = Opened /\ InUse' = InUse /\ Minors' = Minors /\ Parts' = Parts
  BY DEF Register, Kmalloc, SetupCdev, Finish, Exit, Unregister, tasks, Opened, InUse,
         HasOpen, Minors, Parts
<1>2. Minors \in {{0}, {0, 1}} /\ (driver # "globalmem" => Minors = {0})
  BY DEF Minors
<1>3. CASE Register
  <2>0. region' \subseteq {0, 1} /\ cdevs' \subseteq region' /\ inited' \subseteq Parts'
    BY <1>3, <1>1, <1>2, LoadAssumption DEF Register, Goto, TypeOK, KernelTypes, RegionInv, StageInv
  <2>1. KernelTypes'
    BY <2>0, <1>3, <1>1, <1>2, LoadAssumption DEF Register, Goto, TypeOK, KernelTypes, RegionInv, StageInv
  <2>2. TaskTypes'
    BY <1>3, <1>1, TaskSets DEF Register, Goto, TypeOK, TaskTypes
  <2>3. TypeOK'
    BY <2>1, <2>2, <1>3, <1>1, Zenon DEF Register, TypeOK
  <2>4. RegionInv' /\ StageInv'
    BY <1>3, <1>1, <1>2 DEF Register, Goto, TypeOK, KernelTypes, RegionInv, StageInv, Parts
  <2>5. OpenInv' /\ CountInv'
    BY <1>3, <1>1, TaskSets, FS_EmptySet
       DEF Register, Goto, TypeOK, KernelTypes, TaskTypes, RegionInv, StageInv, OpenInv, CountInv
  <2> QED BY <2>3, <2>4, <2>5
<1>4. CASE Kmalloc
  <2>0. region' \subseteq {0, 1} /\ cdevs' \subseteq region' /\ inited' \subseteq Parts'
    BY <1>4, <1>1, <1>2 DEF Kmalloc, Goto, TypeOK, KernelTypes, RegionInv, StageInv
  <2>1. KernelTypes'
    BY <2>0, <1>4, <1>1, <1>2 DEF Kmalloc, Goto, TypeOK, KernelTypes, RegionInv, StageInv
  <2>2. TaskTypes'
    BY <1>4, <1>1, TaskSets DEF Kmalloc, Goto, TypeOK, TaskTypes
  <2>3. TypeOK'
    BY <2>1, <2>2, <1>4, <1>1, Zenon DEF Kmalloc, TypeOK
  <2>4. RegionInv' /\ StageInv'
    BY <1>4, <1>1, <1>2 DEF Kmalloc, Goto, TypeOK, KernelTypes, RegionInv, StageInv, Parts
  <2>5. OpenInv' /\ CountInv'
    BY <1>4, <1>1, TaskSets, FS_EmptySet
       DEF Kmalloc, Goto, TypeOK, KernelTypes, TaskTypes, RegionInv, StageInv, OpenInv, CountInv
  <2> QED BY <2>3, <2>4, <2>5
<1>5. CASE SetupCdev
  <2>0. region' \subseteq {0, 1} /\ cdevs' \subseteq region' /\ inited' \subseteq Parts'
    BY <1>5, <1>1, <1>2 DEF SetupCdev, Goto, TypeOK, KernelTypes, RegionInv, StageInv
  <2>1. KernelTypes'
    BY <2>0, <1>5, <1>1, <1>2 DEF SetupCdev, Goto, TypeOK, KernelTypes, RegionInv, StageInv
  <2>2. TaskTypes'
    BY <1>5, <1>1, TaskSets DEF SetupCdev, Goto, TypeOK, TaskTypes
  <2>3. TypeOK'
    BY <2>1, <2>2, <1>5, <1>1, Zenon DEF SetupCdev, TypeOK
  <2>4. RegionInv' /\ StageInv'
    BY <1>5, <1>1, <1>2 DEF SetupCdev, Goto, TypeOK, KernelTypes, RegionInv, StageInv, Parts
  <2>5. OpenInv' /\ CountInv'
    BY <1>5, <1>1, TaskSets, FS_EmptySet
       DEF SetupCdev, Goto, TypeOK, KernelTypes, TaskTypes, RegionInv, StageInv, OpenInv, CountInv
  <2> QED BY <2>3, <2>4, <2>5
<1>6. CASE Finish
  <2>0. region' \subseteq {0, 1} /\ cdevs' \subseteq region' /\ inited' \subseteq Parts'
    BY <1>6, <1>1 DEF Finish, TypeOK, KernelTypes
  <2>1. KernelTypes'
    BY <2>0, <1>6, <1>1, <1>2 DEF Finish, Goto, TypeOK, KernelTypes, RegionInv, StageInv
  <2>2. TaskTypes'
    BY <1>6, <1>1, TaskSets DEF Finish, Goto, TypeOK, TaskTypes
  <2>3. TypeOK'
    BY <2>1, <2>2, <1>6, <1>1, Zenon DEF Finish, TypeOK
  <2>4. RegionInv' /\ StageInv'
    BY <1>6, <1>1, <1>2 DEF Finish, Goto, TypeOK, KernelTypes, RegionInv, StageInv, Parts
  <2>5. OpenInv' /\ CountInv'
    BY <1>6, <1>1, TaskSets, FS_EmptySet
       DEF Finish, Goto, TypeOK, KernelTypes, TaskTypes, RegionInv, StageInv, OpenInv, CountInv
  <2> QED BY <2>3, <2>4, <2>5
<1>7. CASE Exit
  <2>0. region' \subseteq {0, 1} /\ cdevs' \subseteq region' /\ inited' \subseteq Parts'
    BY <1>7, <1>1, <1>2 DEF Exit, Goto, TypeOK, KernelTypes, RegionInv, StageInv
  <2>1. KernelTypes'
    BY <2>0, <1>7, <1>1, <1>2 DEF Exit, Goto, TypeOK, KernelTypes, RegionInv, StageInv
  <2>2. TaskTypes'
    BY <1>7, <1>1, TaskSets DEF Exit, Goto, TypeOK, TaskTypes
  <2>3. TypeOK'
    BY <2>1, <2>2, <1>7, <1>1, Zenon DEF Exit, TypeOK
  <2>4. RegionInv' /\ StageInv'
    BY <1>7, <1>1, <1>2 DEF Exit, Goto, TypeOK, KernelTypes, RegionInv, StageInv, Parts
  <2>5. OpenInv' /\ CountInv'
    BY <1>7, <1>1, TaskSets, FS_EmptySet
       DEF Exit, Goto, TypeOK, KernelTypes, TaskTypes, RegionInv, StageInv, OpenInv, CountInv
  <2> QED BY <2>3, <2>4, <2>5
<1>8. CASE Unregister
  <2>0. region' \subseteq {0, 1} /\ cdevs' \subseteq region' /\ inited' \subseteq Parts'
    BY <1>8, <1>1, <1>2 DEF Unregister, Goto, TypeOK, KernelTypes, RegionInv, StageInv
  <2>1. KernelTypes'
    BY <2>0, <1>8, <1>1, <1>2 DEF Unregister, Goto, TypeOK, KernelTypes, RegionInv, StageInv
  <2>2. TaskTypes'
    BY <1>8, <1>1, TaskSets DEF Unregister, Goto, TypeOK, TaskTypes
  <2>3. TypeOK'
    BY <2>1, <2>2, <1>8, <1>1, Zenon DEF Unregister, TypeOK
  <2>4. RegionInv' /\ StageInv'
    BY <1>8, <1>1, <1>2 DEF Unregister, Goto, TypeOK, KernelTypes, RegionInv, StageInv, Parts
  <2>5. OpenInv' /\ CountInv'
    BY <1>8, <1>1, TaskSets, FS_EmptySet
       DEF Unregister, Goto, TypeOK, KernelTypes, TaskTypes, RegionInv, StageInv, OpenInv, CountInv
  <2> QED BY <2>3, <2>4, <2>5
<1> QED BY <1>3, <1>4, <1>5, <1>6, <1>7, <1>8

(* The structures go, and whoever has the device open is left with them. *)
LEMMA ExitFreeStep ==
  ASSUME Inv, ExitFree
  PROVE  Inv'
<1> USE DEF Inv
<1>1. /\ pc' \in [Tasks -> {"out", "open", "dying", "stale", "dead"}]
      /\ \A t \in Tasks : /\ pc'[t] \notin {"open", "dying"}
                          /\ pc'[t] = "out" <=> pc[t] = "out"
                          /\ pc[t] \notin {"open", "dying"} => pc'[t] = pc[t]
  <2>1. \A t \in Tasks : pc[t] \in {"out", "open", "dying", "stale", "dead"}
    BY DEF TypeOK, TaskTypes
  <2>2. pc' = [t \in Tasks |-> IF pc[t] \in {"open", "dying"} THEN "stale" ELSE pc[t]]
    BY DEF ExitFree, HasOpen
  <2> QED BY <2>1, <2>2
<1>2. Opened' = {} /\ InUse' = InUse /\ Minors' = Minors /\ Parts' = Parts
  BY <1>1 DEF ExitFree, Opened, HasOpen, InUse, Minors, Parts
<1>3. UNCHANGED <<driver, loads, region, next, cdevs, inited, refcnt, minor>>
      /\ phase = "going" /\ phase' = "freed" /\ mem' = "freed"
  BY DEF ExitFree, Goto
<1>4. KernelTypes' /\ TaskTypes'
  BY <1>1, <1>2, <1>3 DEF TypeOK, KernelTypes, TaskTypes
<1>5. TypeOK'
  BY <1>4, Zenon DEF ExitFree, TypeOK
<1>6. RegionInv' /\ StageInv' /\ OpenInv'
  BY <1>2, <1>3 DEF RegionInv, StageInv, OpenInv
<1>7. ~robbed => \A t \in Tasks : pc'[t] = pc[t]
  <2>1. ~robbed => Opened = {}
    BY <1>3 DEF CountInv
  <2> QED BY <2>1, <1>1 DEF Opened, HasOpen
<1>8. CountInv'
  BY <1>2, <1>3, <1>7 DEF ExitFree, CountInv
<1> QED BY <1>5, <1>6, <1>8

(* unload resets the count; if it harms nobody, nobody had the device open. *)
LEMMA UnloadStep ==
  ASSUME Inv, Unload
  PROVE  Inv'
<1> USE DEF Inv
<1>1. /\ UNCHANGED <<pc, minor, driver, phase, loads, region, mem, next, cdevs, inited, starved>>
      /\ phase = "live" /\ refcnt' = 1
      /\ Opened' = Opened /\ InUse' = InUse /\ Minors' = Minors /\ Parts' = Parts
  BY DEF Unload, kernel, Opened, HasOpen, InUse, Minors, Parts
<1>2. robbed' = (robbed \/ Opened # {})
  BY DEF Unload, Opened
<1>3. KernelTypes' /\ TaskTypes'
  BY <1>1, TaskSets DEF TypeOK, KernelTypes, TaskTypes
<1>4. TypeOK'
  BY <1>1, <1>2, <1>3, Zenon DEF TypeOK
<1>5. RegionInv' /\ StageInv' /\ OpenInv'
  BY <1>1 DEF RegionInv, StageInv, OpenInv
<1>6. ~robbed' => ~robbed /\ Cardinality(Opened) = 0
  BY <1>2, FS_EmptySet
<1>7. CountInv'
  BY <1>1, <1>6, TaskSets DEF CountInv
<1> QED BY <1>4, <1>5, <1>7

-----------------------------------------------------------------------------
(* A step of a task changes what it has open, and the count. *)
LEMMA TaskStep ==
  ASSUME Inv, NEW t \in Tasks, Open(t) \/ Call(t) \/ Close(t) \/ Bury(t) \/ CallStale(t)
  PROVE  Inv'
<1> USE DEF Inv
<1>1. /\ UNCHANGED <<driver, phase, loads, region, mem, next, cdevs, inited, starved, robbed>>
      /\ Minors' = Minors /\ Parts' = Parts
  BY DEF Open, Call, Close, Bury, CallStale, kernel, Minors, Parts
<1>2. RegionInv' /\ StageInv'
  BY <1>1 DEF RegionInv, StageInv
<1>3. KernelTypes' /\ starved' \in BOOLEAN /\ robbed' \in BOOLEAN
  BY <1>1 DEF TypeOK, KernelTypes
<1> SUFFICES TaskTypes' /\ OpenInv' /\ CountInv'
  BY <1>2, <1>3, Zenon DEF TypeOK
<1>4. CASE Open(t)
  <2>1. PICK m \in cdevs : minor' = [minor EXCEPT ![t] = m]
    BY <1>4 DEF Open
  <2>2. /\ pc[t] = "out" /\ pc' = [pc EXCEPT ![t] = "open"]
        /\ refcnt > 0 /\ refcnt' = refcnt + 1
    BY <1>4 DEF Open
  <2>3. /\ Opened' = Opened \cup {t} /\ t \notin Opened
        /\ InUse' = InUse \cup {t} /\ t \notin InUse
    BY <2>2 DEF Opened, HasOpen, InUse, TypeOK, TaskTypes
  <2>4. /\ Cardinality(Opened') = Cardinality(Opened) + 1
        /\ Cardinality(InUse') = Cardinality(InUse) + 1
    BY <2>3, TaskSets, OneMore
  <2>5. Cardinality(InUse') <= Cardinality(Tasks)
    <3>1. InUse' \in SUBSET Tasks
      BY DEF InUse
    <3> QED BY <3>1, TasksAssumption, FS_Subset
  <2>6. phase \notin {"absent", "kmalloc", "going", "freed"} /\ ~(phase = "cdev" /\ next = 0)
    BY <2>1 DEF StageInv
  <2>7. m \in Minors /\ m \in region
    BY <2>1, <2>6 DEF TypeOK, KernelTypes, RegionInv
  <2>8. TaskTypes'
    BY <2>1, <2>2, <2>4, <2>5, <2>7, <1>1, TaskSets DEF TypeOK, TaskTypes, CountInv
  <2>9. OpenInv'
    BY <2>1, <2>3, <2>6, <2>7, <1>1 DEF OpenInv, TypeOK, TaskTypes, Opened, HasOpen
  <2>10. CountInv'
    BY <2>2, <2>4, <2>6, <1>1, TaskSets DEF CountInv, TypeOK, TaskTypes
  <2> QED BY <2>8, <2>9, <2>10
<1>5. CASE Call(t)
  <2>1. /\ UNCHANGED <<minor, refcnt>> /\ pc[t] = "open"
        /\ pc' \in {pc, [pc EXCEPT ![t] = "dying"]}
    BY <1>5 DEF Call
  <2>2. Opened' = Opened /\ InUse' = InUse
    BY <2>1 DEF Opened, HasOpen, InUse, TypeOK, TaskTypes
  <2> QED BY <2>1, <2>2, <1>1 DEF TypeOK, TaskTypes, OpenInv, CountInv
<1>6. CASE Drop(t) /\ HasOpen(t)
  <2>1. /\ pc[t] \in {"open", "dying"} /\ pc' = [pc EXCEPT ![t] = "out"]
        /\ minor' = [minor EXCEPT ![t] = 0]
        /\ refcnt' = IF refcnt > 0 THEN refcnt - 1 ELSE 0
    BY <1>6 DEF Drop, HasOpen
  <2>2. /\ Opened' = Opened \ {t} /\ t \in Opened
        /\ InUse' = InUse \ {t} /\ t \in InUse
    BY <2>1 DEF Opened, HasOpen, InUse, TypeOK, TaskTypes
  <2>3. /\ Cardinality(Opened') = Cardinality(Opened) - 1
        /\ Cardinality(InUse') = Cardinality(InUse) - 1
    BY <2>2, TaskSets, OneLess
  <2>4. 0 \in Minors
    BY DEF Minors
  <2>5. TaskTypes'
    BY <2>1, <2>4, <1>1, TaskSets DEF TypeOK, TaskTypes
  <2>6. OpenInv'
    BY <2>1, <2>2, <1>1 DEF OpenInv, TypeOK, TaskTypes, Opened
  <2>7. CountInv'
    BY <2>1, <2>2, <2>3, <1>1, TaskSets DEF CountInv, TypeOK, TaskTypes
  <2> QED BY <2>5, <2>6, <2>7
<1>8. CASE Bury(t) /\ ~Drop(t)
  <2>1. /\ UNCHANGED <<minor, refcnt>> /\ pc[t] = "dying"
        /\ pc' = [pc EXCEPT ![t] = "dead"]
    BY <1>8 DEF Bury
  <2>2. InUse' = InUse /\ Opened' = Opened \ {t} /\ t \in Opened
    BY <2>1 DEF Opened, HasOpen, InUse, TypeOK, TaskTypes
  <2>3. Cardinality(Opened') = Cardinality(Opened) - 1
    BY <2>2, TaskSets, OneLess
  <2>4. TaskTypes' /\ OpenInv'
    BY <2>1, <2>2, <1>1 DEF TypeOK, TaskTypes, OpenInv
  <2>5. CountInv'
    BY <2>1, <2>2, <2>3, <1>1, TaskSets DEF TypeOK, TaskTypes, CountInv
  <2> QED BY <2>4, <2>5
<1>7. CASE CallStale(t)
  <2>1. /\ UNCHANGED <<minor, refcnt>> /\ pc[t] = "stale"
        /\ pc' = [pc EXCEPT ![t] = "dead"]
    BY <1>7 DEF CallStale
  <2>2. Opened' = Opened /\ InUse' = InUse
    BY <2>1 DEF Opened, HasOpen, InUse, TypeOK, TaskTypes
  <2> QED BY <2>1, <2>2, <1>1 DEF TypeOK, TaskTypes, OpenInv, CountInv
<1> QED BY <1>4, <1>5, <1>6, <1>7, <1>8 DEF Close, Bury, HasOpen

LEMMA InvStep == Inv /\ [Next]_vars => Inv'
<1> SUFFICES ASSUME Inv, [Next]_vars PROVE Inv'
  OBVIOUS
<1>1. CASE UNCHANGED vars
  <2>1. Opened' = Opened /\ InUse' = InUse /\ Minors' = Minors /\ Parts' = Parts
    BY <1>1 DEF vars, Opened, HasOpen, InUse, Minors, Parts
  <2>2. KernelTypes' /\ TaskTypes'
    BY <1>1, <2>1 DEF vars, Inv, TypeOK, KernelTypes, TaskTypes
  <2>3. TypeOK'
    BY <1>1, <2>2, Zenon DEF vars, Inv, TypeOK
  <2> QED BY <1>1, <2>1, <2>3 DEF vars, Inv, RegionInv, StageInv, OpenInv, CountInv
<1> QED
  BY <1>1, KernelStep, ExitFreeStep, UnloadStep, TaskStep DEF Next

(* The inductive invariant: types, stages of the load, openers and counts. *)
THEOREM Invariance == Spec => []Inv
  BY InitInv, InvStep, PTL DEF Spec

-----------------------------------------------------------------------------
(* Every variable keeps its type, however often the module is loaded; the  *)
(* count never exceeds the number of tasks and one.                        *)
THEOREM TypeCorrect == Spec => []TypeOK
<1>1. Inv => TypeOK
  BY DEF Inv
<1> QED BY <1>1, Invariance, PTL

(* A failed load and an unload leave nothing behind, but for globalmem's   *)
(* second minor.                                                           *)
THEOREM LoadsCleanUp == Spec => []NothingLeft
<1>1. Inv => NothingLeft
  BY DEF Inv, RegionInv, StageInv, NothingLeft
<1> QED BY <1>1, Invariance, PTL

(* The structures live as long as a task has the device open, unless       *)
(* unload has been run while it was.                                       *)
THEOREM MemorySafety == Spec => []MemoryUnderCalls
<1>1. Inv => MemoryUnderCalls
  BY DEF Inv, TypeOK, KernelTypes, StageInv, OpenInv, CountInv, Opened, HasOpen, MemoryUnderCalls
<1> QED BY <1>1, Invariance, PTL

(* Only a call of globalfifo that comes before the end of init, and a call *)
(* of globalmem_lock while somebody else uses the device, find a structure *)
(* that is not ready; also when files stay open over an exit.              *)
THEOREM Readiness == Spec => ReadyOnceLoaded
<1>1. ASSUME Inv, Next, NEW t \in Tasks, pc[t] = "open", pc'[t] = "dying"
      PROVE  \/ driver = "globalfifo" /\ phase = "init"
             \/ driver = "globalmem_lock" /\ Shared(t)
  <2>1. Call(t)
    <3>1. pc' # pc
      BY <1>1
    <3>2. CASE ExitFree
      BY <3>2, <1>1 DEF ExitFree, HasOpen, Inv, TypeOK, TaskTypes
    <3>3. ASSUME NEW u \in Tasks, Open(u) \/ Close(u) \/ Bury(u) \/ CallStale(u) \/ Call(u)
          PROVE  Call(t)
      BY <3>3, <1>1 DEF Open, Close, Bury, Drop, CallStale, Call, Inv, TypeOK, TaskTypes
    <3> QED
      BY <3>1, <3>2, <3>3, <1>1 DEF Next, Register, Kmalloc, SetupCdev, Finish, Exit,
                                    Unregister, Unload, tasks
  <2>2. PICK need \in Needs(t) : ~(need \subseteq inited)
    BY <2>1, <1>1 DEF Call
  <2>3. CASE driver = "globalfifo"
    <3>1. need \subseteq Parts
      BY <2>2, <2>3 DEF Needs, Parts
    <3>2. inited # Parts
      BY <2>2, <3>1
    <3>3. Opened # {} /\ Minors = {0}
      BY <1>1, <2>3 DEF Opened, HasOpen, Minors
    <3> QED
      BY <1>1, <2>3, <3>2, <3>3 DEF Inv, TypeOK, KernelTypes, StageInv, OpenInv
  <2>4. CASE driver # "globalfifo"
    <3>1. need # {}
      BY <2>2
    <3> QED BY <2>2, <2>4, <3>1 DEF Needs
  <2> QED BY <2>3, <2>4
<1>2. Inv /\ [Next]_vars
        => [\A t \in Tasks : pc[t] = "open" /\ pc'[t] = "dying"
              => \/ driver = "globalfifo" /\ phase = "init"
                 \/ driver = "globalmem_lock" /\ Shared(t)]_vars
  BY <1>1
<1> QED BY <1>2, Invariance, PTL DEF Spec, ReadyOnceLoaded
=============================================================================
