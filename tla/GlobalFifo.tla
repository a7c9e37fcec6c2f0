----------------------------- MODULE GlobalFifo -----------------------------
(***************************************************************************)
(* The character device of src/globalfifo/globalfifo.c: a byte FIFO shared *)
(* by all openers, protected by a counting semaphore, with one wait queue  *)
(* for blocked readers and one for blocked writers, poll, SIGIO            *)
(* notification and the FIFO_CLEAR ioctl.                                  *)
(*                                                                         *)
(* A step is what a task does between two points at which another task, a  *)
(* signal or a wake-up can make a difference: taking or releasing          *)
(* dev->sem, going to sleep, waking a queue, sending SIGIO.  Operations on *)
(* a wait queue are atomic here (the queue has its own spinlock).          *)
(***************************************************************************)
EXTENDS Integers, Sequences

CONSTANTS Tasks,      (* the processes that use the device                *)
          SIZE,       (* GLOBALFIFO_SIZE                                  *)
          Bytes,      (* the values of an unsigned char; 0 is one of them *)
          Calls,      (* Calls[t]: the system calls task t may issue      *)
          MemcpyOrder (* in which order the build's memcpy may copy       *)

Read(n, nb)   == [op |-> "read",  count |-> n, nonblock |-> nb]
Write(s, nb)  == [op |-> "write", buf |-> s,   nonblock |-> nb]
Ioctl(cmd)    == [op |-> "ioctl", cmd |-> cmd]
FifoClear     == Ioctl("FIFO_CLEAR")
Poll(e)       == [op |-> "poll", events |-> e]
Fasync(on)    == [op |-> "fasync", on |-> on]

CallSet == [op : {"read"}, count : Nat, nonblock : BOOLEAN]
           \cup [op : {"write"}, buf : Seq(Bytes), nonblock : BOOLEAN]
           \cup [op : {"ioctl"}, cmd : {"FIFO_CLEAR", "other"}]
           \cup [op : {"poll"}, events : SUBSET {"in", "out"}]
           \cup [op : {"fasync"}, on : BOOLEAN]

ASSUME SizeAssumption  == SIZE \in Nat \ {0}
ASSUME BytesAssumption == 0 \in Bytes
ASSUME CallsAssumption == Calls \in [Tasks -> (SUBSET CallSet) \ {{}}]
ASSUME MemcpyAssumption == MemcpyOrder \subseteq {"forward", "backward"}

EAGAIN      == -11
EFAULT      == -14
EINTR       == -4
EINVAL      == -22
ERESTARTSYS == -512

VARIABLES
  current_len,        (* struct globalfifo_dev                            *)
  mem,
  sem,                (* the count of dev->sem                            *)
  r_wait, w_wait,     (* the tasks with an entry on the wait queue        *)
  async_queue,        (* the openers registered for SIGIO                 *)
  opened,             (* the tasks that hold the device open              *)
  pc,                 (* where each task is, "idle" = in user space       *)
  req,                (* the arguments of its system call                 *)
  ret,                (* what that call returns                           *)
  got,                (* what it has copied to the user's buffer          *)
  state,              (* task->state; for a poller INTERRUPTIBLE means    *)
                      (* that its table has not been triggered            *)
  pending             (* signal_pending(task)                             *)

dev   == <<current_len, mem>>
queues == <<r_wait, w_wait>>
files == <<async_queue, opened>>
call  == <<req, ret, got>>
sched == <<state, pending>>
vars  == <<current_len, mem, sem, r_wait, w_wait, async_queue, opened,
           pc, req, ret, got, state, pending>>

(* globalfifo_init: memset, sema_init(.., 1), two empty wait queues. *)
Init == /\ current_len = 0
        /\ mem = [i \in 0 .. SIZE - 1 |-> 0]
        /\ sem = 1
        /\ r_wait = {} /\ w_wait = {}
        /\ async_queue = {} /\ opened = {}
        /\ pc = [t \in Tasks |-> "idle"]
        /\ req = [t \in Tasks |-> CHOOSE c \in Calls[t] : TRUE]
        /\ ret = [t \in Tasks |-> 0]
        /\ got = [t \in Tasks |-> <<>>]
        /\ state = [t \in Tasks |-> "RUNNING"]
        /\ pending = [t \in Tasks |-> FALSE]

-----------------------------------------------------------------------------
(* Kernel services, as the driver uses them. *)

Goto(t, from, to) == pc[t] = from /\ pc' = [pc EXCEPT ![t] = to]

Down(t, from, to) == Goto(t, from, to) /\ sem > 0 /\ sem' = sem - 1

Up(t, from, to) == Goto(t, from, to) /\ sem' = sem + 1

SetState(t, s) == state' = [state EXCEPT ![t] = s]

Return(t, r) == ret' = [ret EXCEPT ![t] = r]

(* wake_up_interruptible: every sleeper on the queue becomes runnable. *)
WakeUp(q) == state' = [t \in Tasks |-> IF t \in q THEN "RUNNING" ELSE state[t]]

(* schedule() returns at once unless the task is asleep without a signal. *)
Runnable(t) == state[t] = "RUNNING" \/ pending[t]

Least(m, n) == IF m <= n THEN m ELSE n

(* Mutant: the remaining data is not moved to the front. *)
ShiftedNot(m, n, len, order) == m

(* memcpy(mem, mem + n, len - n) with overlapping areas: copying from low  *)
(* to high addresses shifts the data; from high to low, a byte is read     *)
(* after it has been overwritten, and only the last n bytes of the old     *)
(* data survive, repeated.                                                 *)
Shifted(m, n, len, order) ==
  [i \in DOMAIN m |->
     IF i >= len - n \/ n = 0 THEN m[i]
     ELSE IF order = "forward" THEN m[i + n]
     ELSE m[len - 1 - ((len - 1 - i) % n)]]

-----------------------------------------------------------------------------
(* User space: open, close, issuing a call, and receiving a signal. *)

Open(t) == /\ pc[t] = "idle" /\ t \notin opened
           /\ opened' = opened \cup {t}
           /\ UNCHANGED <<dev, sem, queues, async_queue, pc, call, sched>>

(* Mutant: release without globalfifo_fasync(-1, filp, 0). *)
ReleaseKeepsFasync(t) == /\ pc[t] = "idle" /\ t \in opened
                         /\ opened' = opened \ {t}
                         /\ UNCHANGED <<dev, sem, queues, async_queue, pc, call, sched>>

(* globalfifo_release leaves the asynchronous notification list. *)
Release(t) == /\ pc[t] = "idle" /\ t \in opened
              /\ opened' = opened \ {t}
              /\ async_queue' = async_queue \ {t}
              /\ UNCHANGED <<dev, sem, queues, pc, call, sched>>

Entry(op) == CASE op = "read"   -> "r_down"
               [] op = "write"  -> "w_down"
               [] op = "ioctl"  -> "c_down"
               [] op = "poll"   -> "p_down"
               [] op = "fasync" -> "f_set"

Call(t) == /\ t \in opened /\ ~pending[t]
           /\ \E c \in Calls[t] :
                 /\ Goto(t, "idle", Entry(c.op))
                 /\ req' = [req EXCEPT ![t] = c]
           /\ Return(t, 0)
           /\ got' = [got EXCEPT ![t] = <<>>]
           /\ UNCHANGED <<dev, sem, queues, files, sched>>

(* A signal sent by someone else: it also ends an interruptible sleep. *)
Signal(t) == /\ pc[t] # "idle" /\ ~pending[t]
             /\ pending' = [pending EXCEPT ![t] = TRUE]
             /\ UNCHANGED <<dev, sem, queues, files, pc, call, state>>

(* The handler runs when the task is back in user space. *)
HandleSignal(t) == /\ pc[t] = "idle" /\ pending[t]
                   /\ pending' = [pending EXCEPT ![t] = FALSE]
                   /\ UNCHANGED <<dev, sem, queues, files, pc, call, state>>

-----------------------------------------------------------------------------
(* globalfifo_read *)

ReadDown(t) == /\ Down(t, "r_down", "r_check")
               /\ r_wait' = r_wait \cup {t}
               /\ UNCHANGED <<dev, w_wait, files, call, sched>>

ReadCheck(t) ==
  /\ pc[t] = "r_check"
  /\ \/ /\ current_len # 0
        /\ Goto(t, "r_check", "r_copy")
        /\ UNCHANGED <<ret, state>>
     \/ /\ current_len = 0 /\ req[t].nonblock
        /\ Goto(t, "r_check", "r_out")
        /\ Return(t, EAGAIN)
        /\ UNCHANGED state
     \/ /\ current_len = 0 /\ ~req[t].nonblock
        /\ Goto(t, "r_check", "r_up")
        /\ SetState(t, "INTERRUPTIBLE")
        /\ UNCHANGED ret
  /\ UNCHANGED <<dev, sem, queues, files, req, got, pending>>

(* Mutant: the reader goes to sleep with the semaphore. *)
ReadUpNot(t) == /\ Goto(t, "r_up", "r_sched")
                /\ UNCHANGED <<dev, sem, queues, files, call, sched>>

ReadUp(t) == /\ Up(t, "r_up", "r_sched")
             /\ UNCHANGED <<dev, queues, files, call, sched>>

(* Mutant: a signal leaves by out, and gives back what it does not hold. *)
ReadScheduleUpTwice(t) ==
  /\ pc[t] = "r_sched" /\ Runnable(t)
  /\ SetState(t, "RUNNING")
  /\ IF pending[t]
     THEN Goto(t, "r_sched", "r_out") /\ Return(t, ERESTARTSYS)
     ELSE Goto(t, "r_sched", "r_down2") /\ UNCHANGED ret
  /\ UNCHANGED <<dev, sem, queues, files, req, got, pending>>

ReadSchedule(t) ==
  /\ pc[t] = "r_sched" /\ Runnable(t)
  /\ SetState(t, "RUNNING")
  /\ IF pending[t]
     THEN Goto(t, "r_sched", "r_out2") /\ Return(t, ERESTARTSYS)
     ELSE Goto(t, "r_sched", "r_down2") /\ UNCHANGED ret
  /\ UNCHANGED <<dev, sem, queues, files, req, got, pending>>

(* After the sleep the semaphore is taken again, and nothing is tested. *)
ReadDown2(t) == /\ Down(t, "r_down2", "r_copy")
                /\ UNCHANGED <<dev, queues, files, call, sched>>

ReadCopy(t) ==
  /\ pc[t] = "r_copy"
  /\ LET n == Least(req[t].count, current_len)
     IN  \/ /\ n > 0                              \* copy_to_user fails
            /\ Goto(t, "r_copy", "r_out")
            /\ Return(t, EFAULT)
            /\ UNCHANGED <<dev, got>>
         \/ /\ Goto(t, "r_copy", "r_wake")
            /\ got' = [got EXCEPT ![t] = [i \in 1 .. n |-> mem[i - 1]]]
            /\ \E o \in MemcpyOrder : mem' = Shifted(mem, n, current_len, o)
            /\ current_len' = current_len - n
            /\ Return(t, n)
  /\ UNCHANGED <<sem, queues, files, req, sched>>

(* Mutant: a read wakes the readers. *)
ReadWakeReaders(t) == /\ Goto(t, "r_wake", "r_out")
                      /\ WakeUp(r_wait)
                      /\ UNCHANGED <<dev, sem, queues, files, call, pending>>

ReadWake(t) == /\ Goto(t, "r_wake", "r_out")
               /\ WakeUp(w_wait)
               /\ UNCHANGED <<dev, sem, queues, files, call, pending>>

ReadOut(t) == /\ Up(t, "r_out", "r_out2")
              /\ UNCHANGED <<dev, queues, files, call, sched>>

(* Mutant: only entries of w_wait are taken off. *)
ReadOut2Stays(t) == /\ Goto(t, "r_out2", "idle")
                    /\ w_wait' = w_wait \ {t}
                    /\ SetState(t, "RUNNING")
                    /\ UNCHANGED <<dev, sem, r_wait, files, call, pending>>

(* remove_wait_queue names w_wait but unlinks the entry wherever it is. *)
ReadOut2(t) == /\ Goto(t, "r_out2", "idle")
               /\ r_wait' = r_wait \ {t}
               /\ SetState(t, "RUNNING")
               /\ UNCHANGED <<dev, sem, w_wait, files, call, pending>>

-----------------------------------------------------------------------------
(* globalfifo_write *)

WriteDown(t) == /\ Down(t, "w_down", "w_check")
                /\ w_wait' = w_wait \cup {t}
                /\ UNCHANGED <<dev, r_wait, files, call, sched>>

WriteCheck(t) ==
  /\ pc[t] = "w_check"
  /\ \/ /\ current_len # SIZE
        /\ Goto(t, "w_check", "w_copy")
        /\ UNCHANGED <<ret, state>>
     \/ /\ current_len = SIZE /\ req[t].nonblock
        /\ Goto(t, "w_check", "w_out")
        /\ Return(t, EAGAIN)
        /\ UNCHANGED state
     \/ /\ current_len = SIZE /\ ~req[t].nonblock
        /\ Goto(t, "w_check", "w_up")
        /\ SetState(t, "INTERRUPTIBLE")
        /\ UNCHANGED ret
  /\ UNCHANGED <<dev, sem, queues, files, req, got, pending>>

WriteUp(t) == /\ Up(t, "w_up", "w_sched")
              /\ UNCHANGED <<dev, queues, files, call, sched>>

WriteSchedule(t) ==
  /\ pc[t] = "w_sched" /\ Runnable(t)
  /\ SetState(t, "RUNNING")
  /\ IF pending[t]
     THEN Goto(t, "w_sched", "w_out2") /\ Return(t, ERESTARTSYS)
     ELSE Goto(t, "w_sched", "w_down2") /\ UNCHANGED ret
  /\ UNCHANGED <<dev, sem, queues, files, req, got, pending>>

WriteDown2(t) == /\ Down(t, "w_down2", "w_copy")
                 /\ UNCHANGED <<dev, queues, files, call, sched>>

(* Mutant: count is not limited to the free space. *)
WriteCopyUnclipped(t) ==
  /\ pc[t] = "w_copy"
  /\ Goto(t, "w_copy", "w_wake")
  /\ current_len' = current_len + Len(req[t].buf)
  /\ Return(t, Len(req[t].buf))
  /\ UNCHANGED <<mem, sem, queues, files, req, got, sched>>

WriteCopy(t) ==
  /\ pc[t] = "w_copy"
  /\ LET n == Least(Len(req[t].buf), SIZE - current_len)
     IN  \/ /\ n > 0                              \* copy_from_user fails
            /\ Goto(t, "w_copy", "w_out")
            /\ Return(t, EFAULT)                   \* (what it left behind is
            /\ UNCHANGED dev                       \*  past current_len)
         \/ /\ Goto(t, "w_copy", "w_wake")
            /\ mem' = [i \in DOMAIN mem |->
                         IF i \in current_len .. current_len + n - 1
                         THEN req[t].buf[i - current_len + 1] ELSE mem[i]]
            /\ current_len' = current_len + n
            /\ Return(t, n)
  /\ UNCHANGED <<sem, queues, files, req, got, sched>>

(* Mutant: a write wakes the writers. *)
WriteWakeWriters(t) == /\ Goto(t, "w_wake", "w_async")
                       /\ WakeUp(w_wait)
                       /\ UNCHANGED <<dev, sem, queues, files, call, pending>>

WriteWake(t) == /\ Goto(t, "w_wake", "w_async")
                /\ WakeUp(r_wait)
                /\ UNCHANGED <<dev, sem, queues, files, call, pending>>

(* kill_fasync: SIGIO to every registered opener. *)
WriteAsync(t) == /\ Goto(t, "w_async", "w_out")
                 /\ pending' = [u \in Tasks |-> u \in async_queue \/ pending[u]]
                 /\ UNCHANGED <<dev, sem, queues, files, call, state>>

WriteOut(t) == /\ Up(t, "w_out", "w_out2")
               /\ UNCHANGED <<dev, queues, files, call, sched>>

WriteOut2(t) == /\ Goto(t, "w_out2", "idle")
                /\ w_wait' = w_wait \ {t}
                /\ SetState(t, "RUNNING")
                /\ UNCHANGED <<dev, sem, r_wait, files, call, pending>>

-----------------------------------------------------------------------------
(* globalfifo_unlocked_ioctl: FIFO_CLEAR wakes nobody. *)

IoctlInvalid(t) == /\ Goto(t, "c_down", "idle")
                   /\ req[t].cmd # "FIFO_CLEAR"
                   /\ Return(t, EINVAL)
                   /\ UNCHANGED <<dev, sem, queues, files, req, got, sched>>

ClearDown(t) == /\ Down(t, "c_down", "c_clear")
                /\ req[t].cmd = "FIFO_CLEAR"
                /\ UNCHANGED <<dev, queues, files, call, sched>>

Clear(t) == /\ Goto(t, "c_clear", "c_up")
            /\ current_len' = 0
            /\ mem' = [i \in DOMAIN mem |-> 0]
            /\ UNCHANGED <<sem, queues, files, call, sched>>

ClearUp(t) == /\ Up(t, "c_up", "idle")
              /\ UNCHANGED <<dev, queues, files, call, sched>>

(* globalfifo_fasync *)
SetFasync(t) == /\ Goto(t, "f_set", "idle")
                /\ async_queue' = IF req[t].on THEN async_queue \cup {t}
                                  ELSE async_queue \ {t}
                /\ UNCHANGED <<dev, sem, queues, opened, call, sched>>

(* Mutant: poll waits on r_wait only. *)
PollDownReaders(t) ==
  /\ Down(t, "p_down", "p_mask")
  /\ r_wait' = r_wait \cup {t}
  /\ SetState(t, IF t \in r_wait THEN state[t] ELSE "INTERRUPTIBLE")
  /\ UNCHANGED <<dev, w_wait, files, call, pending>>

(* globalfifo_poll and the select() loop around it: the first pass puts    *)
(* the poller on both queues; a wake-up triggers it, and it asks again.    *)
PollDown(t) == /\ Down(t, "p_down", "p_mask")
               /\ r_wait' = r_wait \cup {t}
               /\ w_wait' = w_wait \cup {t}
               /\ SetState(t, IF t \in r_wait THEN state[t] ELSE "INTERRUPTIBLE")
               /\ UNCHANGED <<dev, files, call, pending>>

Mask == (IF current_len # 0 THEN {"in"} ELSE {})
        \cup (IF current_len # SIZE THEN {"out"} ELSE {})

PollMask(t) ==
  /\ pc[t] = "p_mask"
  /\ IF Mask \cap req[t].events # {}
     THEN Up(t, "p_mask", "p_free") ELSE Up(t, "p_mask", "p_wait")
  /\ UNCHANGED <<dev, queues, files, call, sched>>

PollSchedule(t) ==
  /\ pc[t] = "p_wait" /\ Runnable(t)
  /\ IF pending[t]
     THEN /\ Goto(t, "p_wait", "p_free")
          /\ Return(t, EINTR)
          /\ UNCHANGED state
     ELSE /\ Goto(t, "p_wait", "p_down")
          /\ SetState(t, "INTERRUPTIBLE")
          /\ UNCHANGED ret
  /\ UNCHANGED <<dev, sem, queues, files, req, got, pending>>

(* poll_freewait *)
PollFree(t) == /\ Goto(t, "p_free", "idle")
               /\ r_wait' = r_wait \ {t}
               /\ w_wait' = w_wait \ {t}
               /\ SetState(t, "RUNNING")
               /\ UNCHANGED <<dev, sem, files, call, pending>>

-----------------------------------------------------------------------------
(* The steps of a task in a call that wait for the semaphore, and the      *)
(* others.  down() queues its callers in order, so whoever waits is        *)
(* served: strong fairness.  User space owes nothing.                      *)

SemStep(t) == \/ ReadDown(t) \/ ReadDown2(t) \/ WriteDown(t) \/ WriteDown2(t)
              \/ ClearDown(t) \/ PollDown(t)

OtherStep(t) ==
  \/ ReadCheck(t) \/ ReadUp(t) \/ ReadSchedule(t) \/ ReadCopy(t) \/ ReadWake(t)
  \/ ReadOut(t) \/ ReadOut2(t)
  \/ WriteCheck(t) \/ WriteUp(t) \/ WriteSchedule(t) \/ WriteCopy(t)
  \/ WriteWake(t) \/ WriteAsync(t) \/ WriteOut(t) \/ WriteOut2(t)
  \/ IoctlInvalid(t) \/ Clear(t) \/ ClearUp(t) \/ SetFasync(t)
  \/ PollMask(t) \/ PollSchedule(t) \/ PollFree(t)

UserStep(t) == Open(t) \/ Release(t) \/ Call(t) \/ Signal(t) \/ HandleSignal(t)

Next == \E t \in Tasks : SemStep(t) \/ OtherStep(t) \/ UserStep(t)

Fairness == \A t \in Tasks : SF_vars(SemStep(t)) /\ WF_vars(OtherStep(t))

Spec == Init /\ [][Next]_vars

FairSpec == Spec /\ Fairness

-----------------------------------------------------------------------------
(* Safety. *)

Locations == {"idle", "f_set", "c_down", "c_clear", "c_up",
              "p_down", "p_mask", "p_wait", "p_free",
              "r_down", "r_check", "r_up", "r_sched", "r_down2", "r_copy",
              "r_wake", "r_out", "r_out2",
              "w_down", "w_check", "w_up", "w_sched", "w_down2", "w_copy",
              "w_wake", "w_async", "w_out", "w_out2"}

(* Between a down(&dev->sem) and the matching up(&dev->sem). *)
Holding == {"c_clear", "c_up", "p_mask",
            "r_check", "r_up", "r_copy", "r_wake", "r_out",
            "w_check", "w_up", "w_copy", "w_wake", "w_async", "w_out"}

(* The variables have their types; current_len stays within the array.     *)
TypeOK == /\ current_len \in 0 .. SIZE
          /\ mem \in [0 .. SIZE - 1 -> Bytes]
          /\ sem \in Nat
          /\ r_wait \subseteq Tasks /\ w_wait \subseteq Tasks
          /\ async_queue \subseteq Tasks /\ opened \subseteq Tasks
          /\ pc \in [Tasks -> Locations]
          /\ req \in [Tasks -> CallSet]
          /\ ret \in [Tasks -> Int]
          /\ got \in [Tasks -> Seq(Bytes)]
          /\ state \in [Tasks -> {"RUNNING", "INTERRUPTIBLE"}]
          /\ pending \in [Tasks -> BOOLEAN]

(* Every path out of a handler (EAGAIN, a signal, EFAULT, success) gives   *)
(* the semaphore back exactly if it holds it: the count is 1 when nobody   *)
(* is inside, 0 when one task is, and two tasks never are.                 *)
SemExclusive == /\ \A t, u \in Tasks :
                      pc[t] \in Holding /\ pc[u] \in Holding => t = u
                /\ sem = IF \E t \in Tasks : pc[t] \in Holding THEN 0 ELSE 1

(* A wait queue entry lives on its task's stack (DECLARE_WAITQUEUE) or in  *)
(* its poll table: it is on the queue from the moment it is added until    *)
(* its call is about to return, on every path, and never later.            *)
ReadWaiting  == {"r_check", "r_up", "r_sched", "r_down2", "r_copy",
                 "r_wake", "r_out", "r_out2"}
WriteWaiting == {"w_check", "w_up", "w_sched", "w_down2", "w_copy",
                 "w_wake", "w_async", "w_out", "w_out2"}
PollWaiting  == {"p_mask", "p_wait", "p_free"}

WaitEntriesLive ==
  \A t \in Tasks :
    /\ pc[t] \in ReadWaiting \cup PollWaiting => t \in r_wait
    /\ t \in r_wait => pc[t] \in ReadWaiting \cup PollWaiting \cup {"p_down"}
    /\ pc[t] \in WriteWaiting \cup PollWaiting => t \in w_wait
    /\ t \in w_wait => pc[t] \in WriteWaiting \cup PollWaiting \cup {"p_down"}

(* No wake-up for data is lost: if a reader is asleep, or a poller waits   *)
(* for POLLIN, and the FIFO has data, the writer that put it there has     *)
(* still to call wake_up_interruptible(&dev->r_wait).                      *)
Asleep(t, locs) == pc[t] \in locs /\ state[t] = "INTERRUPTIBLE"

NoLostDataWakeup ==
  \A t \in Tasks :
    /\ \/ Asleep(t, {"r_up", "r_sched"})
       \/ Asleep(t, {"p_wait"}) /\ "in" \in req[t].events
    /\ current_len # 0
    => \E u \in Tasks : pc[u] = "w_wake"

(* No wake-up for space is lost to a sleeping writer or POLLOUT poller, as *)
(* long as no task issues FIFO_CLEAR, which frees space and wakes nobody.  *)
NobodyClears == \A t \in Tasks : FifoClear \notin Calls[t]

NoLostSpaceWakeup ==
  NobodyClears =>
  \A t \in Tasks :
    /\ \/ Asleep(t, {"w_up", "w_sched"})
       \/ Asleep(t, {"p_wait"}) /\ "out" \in req[t].events
    /\ current_len # SIZE
    => \E u \in Tasks : pc[u] = "r_wake"

(* SIGIO goes to tasks that hold the device open: release takes the file   *)
(* off the notification list.                                              *)
SigioToOpeners == async_queue \subseteq opened

(* The device implements the bounded FIFO: calls take effect in one step,  *)
(* in the order in which they hold the semaphore, and deliver the bytes in *)
(* the order in which they were written, none twice and none lost.         *)
Contents == [i \in 1 .. current_len |-> mem[i - 1]]

Undecided == {"f_set", "c_down", "c_clear", "p_down", "p_mask", "p_wait", "p_free",
              "r_down", "r_check", "r_up", "r_sched", "r_down2", "r_copy",
              "w_down", "w_check", "w_up", "w_sched", "w_down2", "w_copy"}

Busy == [t \in Tasks |-> pc[t] \in Undecided]

Fifo == INSTANCE BoundedFifo WITH queue <- Contents, busy <- Busy

ImplementsFifo == Fifo!Spec

-----------------------------------------------------------------------------
(* Liveness, under Fairness. *)

(* A reader that sleeps while there is data leaves schedule().             *)
ReaderWoken ==
  \A t \in Tasks : pc[t] = "r_sched" /\ current_len # 0 ~> pc[t] # "r_sched"

(* A writer that sleeps while there is room leaves schedule().  (Line 200: *)
(* "wait until the FIFO is not full".)                                     *)
WriterWoken ==
  \A t \in Tasks : pc[t] = "w_sched" /\ current_len # SIZE ~> pc[t] # "w_sched"

(* A poller whose event has occurred leaves poll_schedule_timeout().       *)
PollerWoken ==
  \A t \in Tasks : pc[t] = "p_wait" /\ Mask \cap req[t].events # {}
                   ~> pc[t] # "p_wait"

(* A signal ends every call, wherever in the driver the task is.           *)
SignalEndsCall ==
  \A t \in Tasks : pending[t] ~> pc[t] = "idle"
=============================================================================
