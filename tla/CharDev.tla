------------------------------- MODULE CharDev -------------------------------
(***************************************************************************)
(* Loading and unloading of the character devices: globalfifo_init and     *)
(* globalfifo_exit, and those of globalmem, globalmem_lock and second,     *)
(* which do the same steps with other numbers; any allocation may fail.    *)
(* Tasks open the device as soon as cdev_add has run, and call it.  What a *)
(* call does is the subject of GlobalFifo, GlobalMem and Second: here it   *)
(* matters what it finds.                                                  *)
(*                                                                         *)
(* The module has a fixed major number, as by default.  An open file keeps *)
(* the module: the file_operations have an owner, and refcnt is one more   *)
(* than the number of open files.  Until somebody loads unload.c, which    *)
(* makes a module whose count is wrong removable by setting it to 1.       *)
(***************************************************************************)
EXTENDS Integers, FiniteSets

CONSTANTS Tasks,
          MAX_LOADS    (* bound: how often the module is loaded            *)

Drivers == {"globalfifo", "globalmem", "globalmem_lock", "second"}

ASSUME LoadAssumption  == MAX_LOADS \in Nat
ASSUME TasksAssumption == IsFiniteSet(Tasks)

VARIABLES
  driver,     (* the module                                                *)
  phase,      (* where insmod or rmmod is                                  *)
  loads,      (* how often it has been loaded                              *)
  region,     (* the minors that are registered                            *)
  mem,        (* the device structures: none, held, freed                   *)
  next,       (* the minor that setup_cdev is at                           *)
  cdevs,      (* the minors that can be opened                             *)
  inited,     (* the parts of the structure that init has initialised      *)
  starved,    (* kmalloc has failed in some load                           *)
  refcnt,     (* the module's, 0 if it is absent                           *)
  robbed,     (* unload has been run while the device was open             *)
  pc,         (* out, open, dying, stale, or dead                          *)
  minor       (* the minor a task has open                                 *)

kernel == <<driver, loads, region, mem, next, cdevs, inited, starved>>
tasks  == <<pc, minor, robbed>>
vars   == <<driver, phase, loads, region, mem, next, cdevs, inited, starved,
            refcnt, robbed, pc, minor>>

Init == /\ driver \in Drivers
        /\ phase = "absent" /\ loads = 0
        /\ region = {} /\ mem = "none" /\ next = 0 /\ cdevs = {} /\ inited = {}
        /\ starved = FALSE /\ refcnt = 0 /\ robbed = FALSE
        /\ pc = [t \in Tasks |-> "out"] /\ minor = [t \in Tasks |-> 0]

Minors == IF driver = "globalmem" THEN {0, 1} ELSE {0}

(* What init sets up after the cdevs: in globalmem_lock nothing, since its *)
(* init_MUTEX expands to nothing.                                          *)
Parts == IF driver = "globalfifo" THEN {"sem", "queues"} ELSE {}

Goto(from, to) == phase = from /\ phase' = to

(* The task's file refers to the module; a dying task still has it.        *)
HasOpen(t) == pc[t] \in {"open", "dying"}

-----------------------------------------------------------------------------
(* register_chrdev_region fails if any of the minors is taken.  (The       *)
(* reference that insmod has during init is left out of refcnt.)           *)
Register ==
  /\ phase = "absent" /\ loads < MAX_LOADS
  /\ loads' = loads + 1
  /\ \/ /\ Minors \cap region = {} /\ region' = Minors
        /\ phase' = "kmalloc" /\ refcnt' = 1
     \/ UNCHANGED <<region, phase, refcnt>>
  /\ UNCHANGED <<driver, mem, next, cdevs, inited, starved, tasks>>

(* fail_malloc gives one minor back, also in globalmem, which has two.     *)
Kmalloc ==
  /\ next' = 0 /\ inited' = {}
  /\ \/ /\ Goto("kmalloc", "cdev") /\ mem' = "held"
        /\ UNCHANGED <<region, starved, refcnt>>
     \/ /\ Goto("kmalloc", "absent") /\ starved' = TRUE
        /\ region' = region \ {0} /\ refcnt' = 0 /\ UNCHANGED mem
  /\ UNCHANGED <<driver, loads, cdevs, tasks>>

(* setup_cdev of one minor.  If cdev_add fails it says so and goes on.     *)
SetupCdev ==
  /\ phase = "cdev"
  /\ cdevs' \in {cdevs, cdevs \cup {next}}
  /\ next' = next + 1
  /\ phase' = IF next + 1 \in Minors THEN "cdev" ELSE "init"
  /\ UNCHANGED <<driver, loads, region, mem, inited, starved, refcnt, tasks>>

(* Mutant: init returns with the wait queues as memset left them. *)
FinishSem == /\ Goto("init", "live") /\ inited' = Parts \cap {"sem"}
             /\ UNCHANGED <<driver, loads, region, mem, next, cdevs, starved, refcnt, tasks>>

(* sema_init, then init_waitqueue_head; then init returns 0.               *)
Finish ==
  /\ phase = "init"
  /\ inited' = IF "sem" \in Parts \ inited THEN {"sem"} ELSE Parts
  /\ phase' = IF inited' = Parts THEN "live" ELSE "init"
  /\ UNCHANGED <<driver, loads, region, mem, next, cdevs, starved, refcnt, tasks>>

(* Mutant: the file_operations have no owner. *)
ExitBusy == /\ Goto("live", "going") /\ refcnt' = 0 /\ cdevs' = {}
            /\ UNCHANGED <<driver, loads, region, mem, next, inited, starved, tasks>>

(* Mutant: cdev_del is forgotten. *)
ExitKeepsCdevs == /\ Goto("live", "going") /\ refcnt = 1 /\ refcnt' = 0
                  /\ UNCHANGED <<driver, loads, region, mem, next, cdevs, inited, starved, tasks>>

(* rmmod is refused while the module is referred to; with a count of 0 it  *)
(* ends in BUG, with module_mutex.  Exit deletes the cdevs, frees the      *)
(* structures and gives the minors back.                                   *)
Exit == /\ \/ Goto("live", "going") /\ refcnt = 1 /\ refcnt' = 0 /\ cdevs' = {}
           \/ Goto("live", "stuck") /\ refcnt = 0 /\ UNCHANGED <<refcnt, cdevs>>
        /\ UNCHANGED <<driver, loads, region, mem, next, inited, starved, tasks>>

(* A task that still has the device open now has a freed structure, and    *)
(* soon no code.                                                           *)
ExitFree == /\ Goto("going", "freed") /\ mem' = "freed"
            /\ pc' = [t \in Tasks |-> IF HasOpen(t) THEN "stale" ELSE pc[t]]
            /\ UNCHANGED <<driver, loads, region, next, cdevs, inited, starved,
                           refcnt, robbed, minor>>

(* Mutant: exit gives one minor back in every driver. *)
UnregisterOne == /\ Goto("freed", "absent") /\ region' = region \ {0}
                 /\ UNCHANGED <<driver, loads, mem, next, cdevs, inited, starved, refcnt, tasks>>

Unregister == /\ Goto("freed", "absent") /\ region' = region \ Minors
              /\ UNCHANGED <<driver, loads, mem, next, cdevs, inited, starved, refcnt, tasks>>

-----------------------------------------------------------------------------
(* insmod unload.ko, for this module.  It is meant for a module that a     *)
(* dead task keeps, but does not look who refers to it.  Bound: only while *)
(* the module is loaded; while insmod or rmmod is at work on it, it would  *)
(* be set to MODULE_STATE_LIVE under them.                                 *)
Unload == /\ phase = "live"
          /\ refcnt' = 1
          /\ robbed' = (robbed \/ \E t \in Tasks : HasOpen(t))
          /\ UNCHANGED <<kernel, phase, pc, minor>>

-----------------------------------------------------------------------------
(* A module that is being loaded can be opened; one that is going cannot,  *)
(* nor one with a count of 0.                                              *)
Open(t) == /\ pc[t] = "out" /\ refcnt > 0
           /\ \E m \in cdevs : minor' = [minor EXCEPT ![t] = m]
           /\ pc' = [pc EXCEPT ![t] = "open"]
           /\ refcnt' = refcnt + 1
           /\ UNCHANGED <<kernel, phase, robbed>>

(* Somebody else's call may hold the mutex of the device. *)
Shared(t) == \E u \in Tasks \ {t} : pc[u] = "open"

(* What a call may need of the structure, some calls more than others: of  *)
(* a mutex that is free it needs nothing.                                  *)
Needs(t) == CASE driver = "globalfifo" -> {{"sem"}, {"sem", "queues"}}
              [] driver = "globalmem_lock" /\ Shared(t) -> {{}, {"mutex"}}
              [] OTHER -> {{}}

(* A semaphore, a wait queue or a mutex that is all zeros is an empty list *)
(* without a head: whoever needs it follows a null pointer.                *)
Call(t) == /\ pc[t] = "open"
           /\ \E need \in Needs(t) :
                 pc' = IF need \subseteq inited THEN pc ELSE [pc EXCEPT ![t] = "dying"]
           /\ UNCHANGED <<kernel, phase, refcnt, robbed, minor>>

(* module_put does not go below 0.                                         *)
Drop(t) == /\ pc' = [pc EXCEPT ![t] = "out"] /\ minor' = [minor EXCEPT ![t] = 0]
           /\ refcnt' = IF refcnt > 0 THEN refcnt - 1 ELSE 0

Close(t) == pc[t] = "open" /\ Drop(t) /\ UNCHANGED <<kernel, phase, robbed>>

(* The kernel closes the files of a task that has died, unless other       *)
(* threads share them: then the interrupted call keeps its own reference   *)
(* for good.                                                               *)
Bury(t) == /\ pc[t] = "dying"
           /\ \/ Drop(t)
              \/ pc' = [pc EXCEPT ![t] = "dead"] /\ UNCHANGED <<refcnt, minor>>
           /\ UNCHANGED <<kernel, phase, robbed>>

(* A call, or the release, in code that is gone, on memory that is freed.  *)
(* What it may do to others before it dies is left out.                    *)
CallStale(t) == /\ pc[t] = "stale"
                /\ pc' = [pc EXCEPT ![t] = "dead"]
                /\ UNCHANGED <<kernel, phase, refcnt, robbed, minor>>

Next == \/ Register \/ Kmalloc \/ SetupCdev \/ Finish \/ Exit \/ ExitFree \/ Unregister \/ Unload
        \/ \E t \in Tasks : Open(t) \/ Call(t) \/ Close(t) \/ Bury(t) \/ CallStale(t)

Spec == Init /\ [][Next]_vars

-----------------------------------------------------------------------------
KernelTypes == /\ driver \in Drivers
               /\ phase \in {"absent", "kmalloc", "cdev", "init", "live", "going",
                            "freed", "stuck"}
               /\ loads \in 0 .. MAX_LOADS
               /\ region \subseteq {0, 1} /\ cdevs \subseteq region
               /\ mem \in {"none", "held", "freed"}
               /\ next \in 0 .. 2 /\ inited \subseteq Parts

TaskTypes == /\ refcnt \in 0 .. Cardinality(Tasks) + 1
             /\ pc \in [Tasks -> {"out", "open", "dying", "stale", "dead"}]
             /\ minor \in [Tasks -> Minors]

TypeOK == KernelTypes /\ TaskTypes /\ starved \in BOOLEAN /\ robbed \in BOOLEAN

(* A load that fails, wherever it fails, and an unload leave nothing       *)
(* behind, so that the module can be loaded again; except that globalmem   *)
(* keeps its second minor for good once its kmalloc has failed.            *)
NothingLeft == phase = "absent"
  => /\ cdevs = {} /\ mem # "held"
     /\ region # {} => driver = "globalmem" /\ starved /\ region = {1}

(* While a task has the device open, the structures its calls work on are  *)
(* allocated and its minor is the driver's: unless unload has been run     *)
(* while somebody had it open.  To run it for the sake of a dead task, and *)
(* then to open, close, remove and load the module, harms nobody.          *)
MemoryUnderCalls ==
  robbed \/ \A t \in Tasks : pc[t] \in {"open", "dying", "stale"}
                               => mem = "held" /\ minor[t] \in region

(* Only two kinds of calls find a structure that is not ready.  One is a   *)
(* call of globalfifo before init is over, since cdev_add comes first      *)
(* there: once it is loaded, however often, all it needs is there.  The    *)
(* other is a call of globalmem_lock at any time, if somebody else uses    *)
(* the device too: its mutex is never ready.                               *)
ReadyOnceLoaded ==
  [][\A t \in Tasks : pc[t] = "open" /\ pc'[t] = "dying"
        => \/ driver = "globalfifo" /\ phase = "init"
           \/ driver = "globalmem_lock" /\ Shared(t)]_vars
=============================================================================
