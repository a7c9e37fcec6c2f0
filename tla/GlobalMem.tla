------------------------------ MODULE GlobalMem ------------------------------
(***************************************************************************)
(* The shared-memory character devices src/globalmem_lock/globalmem_lock.c *)
(* (MUTEX = TRUE) and src/globalmem/globalmem.c (MUTEX = FALSE, the same   *)
(* handlers without the lock).                                             *)
(*                                                                         *)
(* The VFS hands read and write a copy of the file's position and stores   *)
(* the new one when the call has returned; for a character device it does  *)
(* so without f_pos_lock.  copy_to_user, copy_from_user and memset move    *)
(* one byte per step.  Every read and write asks for at least one byte.    *)
(***************************************************************************)
EXTENDS Integers, Sequences, FiniteSets

CONSTANTS Tasks,
          FileOf,    (* FileOf[t]: the open file t uses; several may share one *)
          SIZE,      (* GLOBALMEM_SIZE                                     *)
          Bytes,     (* the values of an unsigned char, 0 among them       *)
          UINT,      (* 2^32: how many values an unsigned int has          *)
          Calls,     (* the calls the tasks issue                          *)
          MUTEX,     (* the build has the mutex                            *)
          Compat     (* the tasks that are 32-bit programs                 *)

(* ok: how many bytes of the user's buffer are accessible.                 *)
Read(n, ok)  == [op |-> "read", size |-> n, ok |-> ok]
Write(s, ok) == [op |-> "write", buf |-> s, ok |-> ok]
MemClear     == [op |-> "clear"]
Seek(o, off) == [op |-> "seek", orig |-> o, off |-> off]

Files == {FileOf[t] : t \in Tasks}

CallSet == [op : {"read"}, size : Nat \ {0}, ok : Nat]
           \cup [op : {"write"}, buf : Seq(Bytes) \ {<<>>}, ok : Nat]
           \cup [op : {"clear"}]
           \cup [op : {"seek"}, orig : {"set", "cur"}, off : Int]

ASSUME SizeAssumption  == SIZE \in Nat \ {0} /\ UINT \in Nat /\ UINT > SIZE
ASSUME BytesAssumption == 0 \in Bytes
ASSUME CallsAssumption == Calls \subseteq CallSet /\ Calls # {}
ASSUME BuildAssumption == MUTEX \in BOOLEAN /\ Compat \subseteq Tasks

EFAULT == -14
EINVAL == -22
ENOTTY == -25
ENXIO  == -6

VARIABLES mem,       (* dev->mem                                           *)
          f_pos,     (* the position of every open file                    *)
          mutex,     (* the task that holds dev->mutex, if any             *)
          pc, req,
          at,        (* p: where the call starts                           *)
          got,       (* what a read has copied out                         *)
          done,      (* how many bytes the call has moved                  *)
          sum,       (* f_pos + offset, before it is stored                *)
          ret

vars == <<mem, f_pos, mutex, pc, req, at, got, done, sum, ret>>

Init == /\ mem = [i \in 0 .. SIZE - 1 |-> 0]
        /\ f_pos = [f \in Files |-> 0]
        /\ mutex = {}
        /\ pc = [t \in Tasks |-> "idle"]
        /\ req = [t \in Tasks |-> CHOOSE c \in Calls : TRUE]
        /\ at = [t \in Tasks |-> 0] /\ done = [t \in Tasks |-> 0]
        /\ got = [t \in Tasks |-> <<>>]
        /\ sum = [t \in Tasks |-> 0] /\ ret = [t \in Tasks |-> 0]

Goto(t, from, to) == pc[t] = from /\ pc' = [pc EXCEPT ![t] = to]

Return(t, r) == ret' = [ret EXCEPT ![t] = r]

Pos(t) == f_pos[FileOf[t]]

MovePos(t, p) == f_pos' = [f_pos EXCEPT ![FileOf[t]] = p]

Least(m, n) == IF m <= n THEN m ELSE n

Asked(c) == CASE c.op = "read"  -> c.size
              [] c.op = "write" -> Len(c.buf)

(* count, clipped to the end of the memory, and how many bytes of device   *)
(* memory the copy touches: copy_to_user stops at an inaccessible page,    *)
(* copy_from_user stores zeros for what it cannot get.                     *)
Count(t) == IF req[t].op = "clear" THEN SIZE
            ELSE Least(Asked(req[t]), SIZE - at[t])

Goal(t) == IF req[t].op = "read" THEN Least(Count(t), req[t].ok) ELSE Count(t)

(* The byte that a write or MEM_CLEAR stores at offset k from its start.   *)
Stored(t, k) == IF req[t].op = "write" /\ k < req[t].ok THEN req[t].buf[k + 1] ELSE 0

Faulted(t) == req[t].op # "clear" /\ req[t].ok < Count(t)

-----------------------------------------------------------------------------
(* The position is at or past the end, or a race has made it negative.     *)
Refused(t) ==
  /\ pc[t] = "idle"
  /\ \E c \in Calls : c.op \in {"read", "write"}
  /\ \/ Pos(t) >= SIZE /\ Return(t, ENXIO)
     \/ Pos(t) < 0 /\ Return(t, EINVAL)
  /\ UNCHANGED <<mem, f_pos, mutex, pc, req, at, got, done, sum>>

(* globalmem.c only has a compat_ioctl, globalmem_lock.c only an           *)
(* unlocked_ioctl: each is out of reach for one kind of program.           *)
ReachesIoctl(t) == IF MUTEX THEN t \notin Compat ELSE t \in Compat

NoIoctl(t) == /\ pc[t] = "idle" /\ MemClear \in Calls /\ ~ReachesIoctl(t)
              /\ Goto(t, "idle", "return")
              /\ req' = [req EXCEPT ![t] = MemClear]
              /\ at' = [at EXCEPT ![t] = 0]
              /\ got' = [got EXCEPT ![t] = <<>>]
              /\ Return(t, ENOTTY)
              /\ UNCHANGED <<mem, f_pos, mutex, done, sum>>

(* Mutant: the test is p > GLOBALMEM_SIZE. *)
InsideOrEnd(p) == p \in 0 .. SIZE

Inside(p) == p \in 0 .. SIZE - 1

(* p and count are computed before the lock is taken.                      *)
Enter(t) ==
  /\ Goto(t, "idle", "lock")
  /\ \E c \in Calls :
        /\ \/ c.op \in {"read", "write"} /\ Inside(Pos(t))
           \/ c.op = "clear" /\ ReachesIoctl(t)
        /\ req' = [req EXCEPT ![t] = c]
        /\ at' = [at EXCEPT ![t] = IF c.op = "clear" THEN 0 ELSE Pos(t)]
  /\ got' = [got EXCEPT ![t] = <<>>]
  /\ done' = [done EXCEPT ![t] = 0]
  /\ UNCHANGED <<mem, f_pos, mutex, sum, ret>>

(* Mutant: the device without its lock. *)
LockNot(t) == /\ Goto(t, "lock", "copy")
              /\ UNCHANGED <<mem, f_pos, mutex, req, at, got, done, sum, ret>>

Lock(t) == /\ Goto(t, "lock", "copy")
           /\ mutex = {}
           /\ mutex' = IF MUTEX THEN {t} ELSE {}
           /\ UNCHANGED <<mem, f_pos, req, at, got, done, sum, ret>>

(* The init_MUTEX of line 35 is empty, so the wait list of the mutex is    *)
(* never set up: a task that cannot spin until the mutex is free goes to   *)
(* the slow path and follows a null pointer.                               *)
Contend(t) == /\ Goto(t, "lock", "oops")
              /\ mutex # {}
              /\ UNCHANGED <<mem, f_pos, mutex, req, at, got, done, sum, ret>>

Put(i, v) == mem' = [mem EXCEPT ![i] = v]

CopyByte(t) ==
  /\ pc[t] = "copy" /\ done[t] < Goal(t)
  /\ LET i == at[t] + done[t]
     IN  \/ /\ req[t].op = "read"
            /\ got' = [got EXCEPT ![t] = Append(@, mem[i])] /\ UNCHANGED mem
         \/ req[t].op \in {"write", "clear"} /\ Put(i, Stored(t, done[t])) /\ UNCHANGED got
  /\ done' = [done EXCEPT ![t] = @ + 1]
  /\ UNCHANGED <<f_pos, mutex, pc, req, at, sum, ret>>

Unlock(t) ==
  /\ Goto(t, "copy", "return")
  /\ done[t] = Goal(t)
  /\ Return(t, CASE req[t].op = "clear"  -> 0
                 [] Faulted(t)           -> EFAULT
                 [] OTHER                -> Count(t))
  /\ mutex' = {}
  /\ UNCHANGED <<mem, f_pos, req, at, got, done, sum>>

(* The VFS stores the position, unless the call failed.                    *)
Finish(t) ==
  /\ Goto(t, "return", "idle")
  /\ IF req[t].op # "clear" /\ ret[t] >= 0 THEN MovePos(t, at[t] + ret[t])
                                           ELSE UNCHANGED f_pos
  /\ UNCHANGED <<mem, mutex, req, at, got, done, sum, ret>>

-----------------------------------------------------------------------------
(* Mutant: the offset is cut to an unsigned int for the test only. *)
SeekSetUncut(t, off) ==
  /\ pc[t] = "idle" /\ Seek("set", off) \in Calls
  /\ off >= 0 /\ off % UINT <= SIZE
  /\ MovePos(t, off) /\ Return(t, off)
  /\ UNCHANGED <<mem, mutex, pc, req, at, got, done, sum>>

(* globalmem_llseek, from the start: the offset is tested, and stored, as  *)
(* an unsigned int.                                                        *)
SeekSet(t, off) ==
  /\ pc[t] = "idle" /\ Seek("set", off) \in Calls
  /\ \/ /\ off >= 0 /\ off % UINT <= SIZE
        /\ MovePos(t, off % UINT) /\ Return(t, off % UINT)
     \/ /\ off < 0 \/ off % UINT > SIZE
        /\ Return(t, EINVAL) /\ UNCHANGED f_pos
  /\ UNCHANGED <<mem, mutex, pc, req, at, got, done, sum>>

(* Mutant: the end is not tested. *)
InFileOrPast(p) == p >= 0

InFile(p) == p \in 0 .. SIZE

(* From the current position: f_pos is read for the test and again for the *)
(* addition, and stored after that.                                        *)
SeekCheck(t) ==
  /\ pc[t] = "idle"
  /\ \E c \in Calls :
        /\ c.op = "seek" /\ c.orig = "cur"
        /\ \/ /\ InFile(Pos(t) + c.off)
              /\ Goto(t, "idle", "load")
              /\ req' = [req EXCEPT ![t] = c] /\ got' = [got EXCEPT ![t] = <<>>]
              /\ UNCHANGED ret
           \/ /\ ~InFile(Pos(t) + c.off)
              /\ Return(t, EINVAL)
              /\ UNCHANGED <<pc, req, got>>
  /\ UNCHANGED <<mem, f_pos, mutex, at, done, sum>>

SeekLoad(t) == /\ Goto(t, "load", "store")
               /\ sum' = [sum EXCEPT ![t] = Pos(t) + req[t].off]
               /\ UNCHANGED <<mem, f_pos, mutex, req, at, got, done, ret>>

SeekStore(t) == /\ Goto(t, "store", "idle")
                /\ MovePos(t, sum[t])
                /\ Return(t, sum[t])
                /\ UNCHANGED <<mem, mutex, req, at, got, done, sum>>

-----------------------------------------------------------------------------
(* A task in a call runs; the mutex serves whoever spins on it.            *)
Step(t) == CopyByte(t) \/ Unlock(t) \/ Finish(t) \/ SeekLoad(t) \/ SeekStore(t)

UserStep(t) == \/ Refused(t) \/ NoIoctl(t) \/ Enter(t) \/ SeekCheck(t)
               \/ \E c \in Calls : c.op = "seek" /\ SeekSet(t, c.off)

Next == \E t \in Tasks : Step(t) \/ Lock(t) \/ Contend(t) \/ UserStep(t)

Spec == Init /\ [][Next]_vars

-----------------------------------------------------------------------------
TypeOK == /\ mem \in [0 .. SIZE - 1 -> Bytes]
          /\ f_pos \in [Files -> Int]
          /\ mutex \subseteq Tasks
          /\ pc \in [Tasks -> {"idle", "lock", "copy", "return", "load", "store", "oops"}]
          /\ req \in [Tasks -> Calls]
          /\ at \in [Tasks -> 0 .. SIZE - 1]
          /\ got \in [Tasks -> Seq(Bytes)]
          /\ done \in [Tasks -> 0 .. SIZE]
          /\ sum \in [Tasks -> Int]
          /\ ret \in [Tasks -> Int]

(* The position stays within 0 .. GLOBALMEM_SIZE although it is stored     *)
(* from a copy after the call, unless two tasks share an open file and     *)
(* one of them seeks relative to the current position.                     *)
RacySeek == /\ \E t, u \in Tasks : t # u /\ FileOf[t] = FileOf[u]
            /\ \E c \in Calls : c.op = "seek" /\ c.orig = "cur"

PositionInRange == ~RacySeek => \A f \in Files : f_pos[f] \in 0 .. SIZE

(* With the mutex, reads, writes and MEM_CLEAR are atomic.  They take      *)
(* effect when the mutex is taken: the memory is then what it will be when *)
(* the copy is finished.                                                   *)
Writing(i) == {t \in Tasks : /\ pc[t] = "copy" /\ req[t].op \in {"write", "clear"}
                             /\ i \in at[t] + done[t] .. at[t] + Goal(t) - 1}

Store == [i \in 0 .. SIZE - 1 |->
            IF Writing(i) = {} THEN mem[i]
            ELSE LET t == CHOOSE u \in Writing(i) : TRUE
                 IN  Stored(t, i - at[t])]

Delivered == [t \in Tasks |->
                IF pc[t] = "copy" /\ req[t].op = "read"
                THEN got[t] \o [i \in 1 .. Goal(t) - done[t] |-> mem[at[t] + done[t] + i - 1]]
                ELSE got[t]]

Busy == [t \in Tasks |-> \/ pc[t] \in {"lock", "load", "store", "oops"}
                         \/ pc[t] = "return" /\ ret[t] = ENOTTY]

Memory == INSTANCE AtomicMemory WITH store <- Store, got <- Delivered, busy <- Busy

ImplementsMemory == Memory!Spec

(* The lock can be waited for: line 322 says it is initialised.            *)
MutexReady == \A t \in Tasks : pc[t] # "oops"
=============================================================================
