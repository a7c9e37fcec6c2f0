-------------------------- MODULE GlobalFifoProofs --------------------------
(***************************************************************************)
(* Theorems about GlobalFifo, for any number of tasks, any capacity and    *)
(* any repertoire of calls.                                                *)
(***************************************************************************)
EXTENDS GlobalFifo, TLAPS

ReadLocs  == {"r_down", "r_check", "r_up", "r_sched", "r_down2", "r_copy",
              "r_wake", "r_out", "r_out2"}
WriteLocs == {"w_down", "w_check", "w_up", "w_sched", "w_down2", "w_copy",
              "w_wake", "w_async", "w_out", "w_out2"}
PollLocs  == {"p_down", "p_mask", "p_wait", "p_free"}
IoctlLocs == {"c_down", "c_clear", "c_up"}

(* A task inside a handler has issued the call that leads there, on a file *)
(* it still holds open.                                                    *)
CallMatches(t) ==
  /\ req[t] \in Calls[t]
  /\ pc[t] # "idle" => t \in opened
  /\ pc[t] \in ReadLocs => req[t].op = "read"
  /\ pc[t] \in WriteLocs => req[t].op = "write"
  /\ pc[t] \in PollLocs => req[t].op = "poll"
  /\ pc[t] \in IoctlLocs => req[t].op = "ioctl"
  /\ pc[t] = "f_set" => req[t].op = "fasync"
  /\ pc[t] \in {"c_clear", "c_up"} => req[t].cmd = "FIFO_CLEAR"

CallInv == \A t \in Tasks : CallMatches(t)

TypeInv == TypeOK /\ CallInv

-----------------------------------------------------------------------------
(* The fields of a call are those its operation has. *)
LEMMA CallFields ==
  ASSUME NEW c \in CallSet
  PROVE  /\ c.op \in {"read", "write", "ioctl", "poll", "fasync"}
         /\ c.op = "read" => c.count \in Nat /\ c.nonblock \in BOOLEAN
         /\ c.op = "write" => c.buf \in Seq(Bytes) /\ c.nonblock \in BOOLEAN
         /\ c.op = "ioctl" => c.cmd \in {"FIFO_CLEAR", "other"}
         /\ c.op = "poll" => c.events \subseteq {"in", "out"}
  BY DEF CallSet

LEMMA CallsTyped == \A t \in Tasks : Calls[t] \subseteq CallSet /\ Calls[t] # {}
  BY CallsAssumption

(* Every location a call starts at belongs to the handler of its operation. *)
LEMMA EntryLocation ==
  ASSUME NEW c \in CallSet
  PROVE  /\ Entry(c.op) \in Locations
         /\ Entry(c.op) \notin {"c_clear", "c_up"} \cup Holding
         /\ Entry(c.op) \notin ReadWaiting \cup WriteWaiting \cup PollWaiting
         /\ Entry(c.op) \in ReadLocs => c.op = "read"
         /\ Entry(c.op) \in WriteLocs => c.op = "write"
         /\ Entry(c.op) \in PollLocs => c.op = "poll"
         /\ Entry(c.op) \in IoctlLocs => c.op = "ioctl"
         /\ Entry(c.op) = "f_set" => c.op = "fasync"
  BY CallFields DEF Entry, Locations, Holding, ReadWaiting, WriteWaiting,
                    PollWaiting, ReadLocs, WriteLocs, PollLocs, IoctlLocs

LEMMA LocationsListed ==
  /\ "idle" \in Locations /\ "f_set" \in Locations /\ "c_down" \in Locations /\ "c_clear" \in Locations
  /\ "c_up" \in Locations /\ "p_down" \in Locations /\ "p_mask" \in Locations /\ "p_wait" \in Locations
  /\ "p_free" \in Locations /\ "r_down" \in Locations /\ "r_check" \in Locations /\ "r_up" \in Locations
  /\ "r_sched" \in Locations /\ "r_down2" \in Locations /\ "r_copy" \in Locations /\ "r_wake" \in Locations
  /\ "r_out" \in Locations /\ "r_out2" \in Locations /\ "w_down" \in Locations /\ "w_check" \in Locations
  /\ "w_up" \in Locations /\ "w_sched" \in Locations /\ "w_down2" \in Locations /\ "w_copy" \in Locations
  /\ "w_wake" \in Locations /\ "w_async" \in Locations /\ "w_out" \in Locations /\ "w_out2" \in Locations
  BY DEF Locations

LEMMA LeastBounds ==
  ASSUME NEW m \in Nat, NEW n \in Nat
  PROVE  Least(m, n) \in Nat /\ Least(m, n) <= m /\ Least(m, n) <= n
  BY DEF Least

(* Whatever the order of copying, memcpy leaves bytes in the array. *)
LEMMA ShiftedType ==
  ASSUME NEW m \in [0 .. SIZE - 1 -> Bytes], NEW len \in 0 .. SIZE,
         NEW n \in 0 .. len, NEW order \in {"forward", "backward"}
  PROVE  Shifted(m, n, len, order) \in [0 .. SIZE - 1 -> Bytes]
<1>1. SUFFICES ASSUME NEW i \in 0 .. SIZE - 1, i < len - n, n # 0
               PROVE  /\ m[i + n] \in Bytes
                      /\ m[len - 1 - ((len - 1 - i) % n)] \in Bytes
  BY SizeAssumption DEF Shifted
<1>2. m[i + n] \in Bytes
  BY <1>1, SizeAssumption
<1>3. (len - 1 - i) % n \in 0 .. n - 1
  BY <1>1, SizeAssumption
<1>4. m[len - 1 - ((len - 1 - i) % n)] \in Bytes
  <2> DEFINE d == (len - 1 - i) % n
  <2>1. d \in 0 .. n - 1 => len - 1 - d \in 0 .. SIZE - 1
    <3> HIDE DEF d
    <3> QED BY <1>1, SizeAssumption
  <2> QED BY <1>3, <2>1
<1> QED BY <1>2, <1>4

-----------------------------------------------------------------------------
(* Type correctness: TypeOK, with what CallMatches adds to it.             *)

LEMMA TypeInit == Init => TypeInv
<1> SUFFICES ASSUME Init PROVE TypeInv
  OBVIOUS
<1>1. \A t \in Tasks : req[t] \in Calls[t]
  BY CallsTyped DEF Init
<1>2. req \in [Tasks -> CallSet]
  BY <1>1, CallsTyped DEF Init
<1>3. mem \in [0 .. SIZE - 1 -> Bytes]
  BY BytesAssumption DEF Init
<1>4. TypeOK
  BY <1>2, <1>3, SizeAssumption DEF Init, TypeOK, Locations
<1>5. CallInv
  BY <1>1 DEF Init, CallInv, CallMatches, ReadLocs, WriteLocs, PollLocs, IoctlLocs
<1> QED BY <1>4, <1>5 DEF TypeInv

(* A task that moves on, or decides what to return, keeps pc and ret typed. *)
LEMMA MovedType ==
  ASSUME TypeOK, NEW t \in Tasks, NEW from, NEW to \in Locations, Goto(t, from, to)
  PROVE  pc' \in [Tasks -> Locations]
  BY DEF TypeOK, Goto

LEMMA ReturnType ==
  ASSUME TypeOK, NEW t \in Tasks, NEW r \in Int, Return(t, r)
  PROVE  ret' \in [Tasks -> Int]
  BY DEF TypeOK, Return

LEMMA TypeStep == TypeInv /\ [Next]_vars => TypeInv'
<1> SUFFICES ASSUME TypeInv, [Next]_vars PROVE TypeInv'
  OBVIOUS
<1> USE DEF TypeInv
<1>1. ASSUME UNCHANGED vars PROVE TypeInv'
  BY <1>1 DEF vars, TypeOK, CallInv, CallMatches
<1>2. SUFFICES ASSUME NEW t \in Tasks, SemStep(t) \/ OtherStep(t) \/ UserStep(t)
               PROVE  TypeInv'
  BY <1>1 DEF Next
<1> USE DEF dev, queues, files, call, sched, EAGAIN, EFAULT, EINTR, EINVAL, ERESTARTSYS
<1>3. CASE ReadDown(t)
  <2>1. TypeOK'
    BY <1>3, LocationsListed DEF ReadDown, Goto, SetState, Return, WakeUp, Down, TypeOK
  <2>2. CallInv'
    BY <1>3 DEF ReadDown, Goto, SetState, Return, WakeUp, Down, TypeOK, CallInv, CallMatches, ReadLocs, WriteLocs, PollLocs, IoctlLocs
  <2> QED BY <2>1, <2>2
<1>4. CASE ReadDown2(t)
  <2>1. TypeOK'
    BY <1>4, LocationsListed DEF ReadDown2, Goto, SetState, Return, WakeUp, Down, TypeOK
  <2>2. CallInv'
    BY <1>4 DEF ReadDown2, Goto, SetState, Return, WakeUp, Down, TypeOK, CallInv, CallMatches, ReadLocs, WriteLocs, PollLocs, IoctlLocs
  <2> QED BY <2>1, <2>2
<1>5. CASE WriteDown(t)
  <2>1. TypeOK'
    BY <1>5, LocationsListed DEF WriteDown, Goto, SetState, Return, WakeUp, Down, TypeOK
  <2>2. CallInv'
    BY <1>5 DEF WriteDown, Goto, SetState, Return, WakeUp, Down, TypeOK, CallInv, CallMatches, ReadLocs, WriteLocs, PollLocs, IoctlLocs
  <2> QED BY <2>1, <2>2
<1>6. CASE WriteDown2(t)
  <2>1. TypeOK'
    BY <1>6, LocationsListed DEF WriteDown2, Goto, SetState, Return, WakeUp, Down, TypeOK
  <2>2. CallInv'
    BY <1>6 DEF WriteDown2, Goto, SetState, Return, WakeUp, Down, TypeOK, CallInv, CallMatches, ReadLocs, WriteLocs, PollLocs, IoctlLocs
  <2> QED BY <2>1, <2>2
<1>7. CASE ClearDown(t)
  <2>1. TypeOK'
    BY <1>7, LocationsListed DEF ClearDown, Goto, SetState, Return, WakeUp, Down, TypeOK
  <2>2. CallInv'
    BY <1>7 DEF ClearDown, Goto, SetState, Return, WakeUp, Down, TypeOK, CallInv, CallMatches, ReadLocs, WriteLocs, PollLocs, IoctlLocs
  <2> QED BY <2>1, <2>2
<1>8. CASE PollDown(t)
  <2>1. TypeOK'
    BY <1>8, LocationsListed DEF PollDown, Goto, SetState, Return, WakeUp, Down, TypeOK
  <2>2. CallInv'
    BY <1>8 DEF PollDown, Goto, SetState, Return, WakeUp, Down, TypeOK, CallInv, CallMatches, ReadLocs, WriteLocs, PollLocs, IoctlLocs
  <2> QED BY <2>1, <2>2
<1>9. CASE ReadCheck(t)
  <2>1. TypeOK'
    <3>1. pc' \in [Tasks -> Locations] /\ ret' \in [Tasks -> Int]
      <4>1. CASE Goto(t, "r_check", "r_copy") /\ UNCHANGED ret
        BY <4>1, LocationsListed, MovedType, ReturnType DEF TypeOK
      <4>2. CASE Goto(t, "r_check", "r_out") /\ Return(t, EAGAIN)
        BY <4>2, LocationsListed, MovedType, ReturnType DEF TypeOK
      <4>3. CASE Goto(t, "r_check", "r_up") /\ UNCHANGED ret
        BY <4>3, LocationsListed, MovedType, ReturnType DEF TypeOK
      <4> QED BY <1>9, <4>1, <4>2, <4>3 DEF ReadCheck
    <3>2. state' \in [Tasks -> {"RUNNING", "INTERRUPTIBLE"}]
      BY <1>9 DEF ReadCheck, Goto, SetState, Return, WakeUp, TypeOK
    <3>3. UNCHANGED <<dev, sem, queues, files, req, got, pending>>
      BY <1>9 DEF ReadCheck
    <3> QED BY <3>1, <3>2, <3>3 DEF TypeOK
  <2>2. CallInv'
    BY <1>9 DEF ReadCheck, Goto, SetState, Return, WakeUp, TypeOK, CallInv, CallMatches, ReadLocs, WriteLocs, PollLocs, IoctlLocs
  <2> QED BY <2>1, <2>2
<1>10. CASE ReadUp(t)
  <2>1. TypeOK'
    BY <1>10, LocationsListed DEF ReadUp, Goto, SetState, Return, WakeUp, Up, TypeOK
  <2>2. CallInv'
    BY <1>10 DEF ReadUp, Goto, SetState, Return, WakeUp, Up, TypeOK, CallInv, CallMatches, ReadLocs, WriteLocs, PollLocs, IoctlLocs
  <2> QED BY <2>1, <2>2
<1>11. CASE ReadSchedule(t)
  <2>1. TypeOK'
    <3>1. pc' \in [Tasks -> Locations] /\ ret' \in [Tasks -> Int]
      <4>1. CASE Goto(t, "r_sched", "r_out2") /\ Return(t, ERESTARTSYS)
        BY <4>1, LocationsListed, MovedType, ReturnType DEF TypeOK
      <4>2. CASE Goto(t, "r_sched", "r_down2") /\ UNCHANGED ret
        BY <4>2, LocationsListed, MovedType, ReturnType DEF TypeOK
      <4> QED BY <1>11, <4>1, <4>2 DEF ReadSchedule
    <3>2. state' \in [Tasks -> {"RUNNING", "INTERRUPTIBLE"}]
      BY <1>11, LocationsListed DEF ReadSchedule, Goto, SetState, Return, WakeUp, TypeOK
    <3>3. UNCHANGED <<dev, sem, queues, files, req, got, pending>>
      BY <1>11 DEF ReadSchedule
    <3> QED BY <3>1, <3>2, <3>3 DEF TypeOK
  <2>2. CallInv'
    BY <1>11 DEF ReadSchedule, Goto, SetState, Return, WakeUp, TypeOK, CallInv, CallMatches, ReadLocs, WriteLocs, PollLocs, IoctlLocs
  <2> QED BY <2>1, <2>2
<1>12. CASE ReadCopy(t)
  <2>1. TypeOK'
    <3> DEFINE n == Least(req[t].count, current_len)
    <3>1. pc[t] = "r_copy" /\ req[t].op = "read" /\ req[t] \in CallSet
      BY <1>12 DEF ReadCopy, Goto, SetState, Return, WakeUp, TypeOK, CallInv, CallMatches, ReadLocs
    <3>2. n \in 0 .. current_len
      <4>1. req[t].count \in Nat /\ current_len \in Nat
        BY <3>1, CallFields, SizeAssumption DEF TypeOK
      <4> QED BY <4>1, LeastBounds
    <3>3. \A o \in MemcpyOrder : Shifted(mem, n, current_len, o) \in [0 .. SIZE - 1 -> Bytes]
      BY <3>2, ShiftedType, MemcpyAssumption DEF TypeOK
    <3>4. [i \in 1 .. n |-> mem[i - 1]] \in Seq(Bytes)
      <4> HIDE DEF n
      <4>1. \A i \in 1 .. n : mem[i - 1] \in Bytes
        BY <3>2, SizeAssumption DEF TypeOK
      <4> QED BY <3>2, <4>1
    <3> HIDE DEF n
    <3>5. CASE UNCHANGED <<dev, got>> /\ Goto(t, "r_copy", "r_out") /\ Return(t, EFAULT)
      BY <1>12, <3>5, LocationsListed DEF ReadCopy, Goto, SetState, Return, WakeUp, TypeOK
    <3>6. CASE /\ got' = [got EXCEPT ![t] = [i \in 1 .. n |-> mem[i - 1]]]
               /\ \E o \in MemcpyOrder : mem' = Shifted(mem, n, current_len, o)
               /\ current_len' = current_len - n
               /\ Return(t, n)
               /\ Goto(t, "r_copy", "r_wake")
      BY <1>12, <3>2, <3>3, <3>4, <3>6, SizeAssumption, LocationsListed DEF ReadCopy, Goto, SetState, Return, WakeUp, TypeOK
    <3> QED BY <1>12, <3>5, <3>6 DEF ReadCopy, n
  <2>2. CallInv'
    BY <1>12 DEF ReadCopy, Goto, SetState, Return, WakeUp, TypeOK, CallInv, CallMatches, ReadLocs, WriteLocs, PollLocs, IoctlLocs
  <2> QED BY <2>1, <2>2
<1>13. CASE ReadWake(t)
  <2>1. TypeOK'
    BY <1>13, LocationsListed DEF ReadWake, Goto, SetState, Return, WakeUp, TypeOK
  <2>2. CallInv'
    BY <1>13 DEF ReadWake, Goto, SetState, Return, WakeUp, TypeOK, CallInv, CallMatches, ReadLocs, WriteLocs, PollLocs, IoctlLocs
  <2> QED BY <2>1, <2>2
<1>14. CASE ReadOut(t)
  <2>1. TypeOK'
    BY <1>14, LocationsListed DEF ReadOut, Goto, SetState, Return, WakeUp, Up, TypeOK
  <2>2. CallInv'
    BY <1>14 DEF ReadOut, Goto, SetState, Return, WakeUp, Up, TypeOK, CallInv, CallMatches, ReadLocs, WriteLocs, PollLocs, IoctlLocs
  <2> QED BY <2>1, <2>2
<1>15. CASE ReadOut2(t)
  <2>1. TypeOK'
    BY <1>15, LocationsListed DEF ReadOut2, Goto, SetState, Return, WakeUp, TypeOK
  <2>2. CallInv'
    BY <1>15 DEF ReadOut2, Goto, SetState, Return, WakeUp, TypeOK, CallInv, CallMatches, ReadLocs, WriteLocs, PollLocs, IoctlLocs
  <2> QED BY <2>1, <2>2
<1>16. CASE WriteCheck(t)
  <2>1. TypeOK'
    <3>1. pc' \in [Tasks -> Locations] /\ ret' \in [Tasks -> Int]
      <4>1. CASE Goto(t, "w_check", "w_copy") /\ UNCHANGED ret
        BY <4>1, LocationsListed, MovedType, ReturnType DEF TypeOK
      <4>2. CASE Goto(t, "w_check", "w_out") /\ Return(t, EAGAIN)
        BY <4>2, LocationsListed, MovedType, ReturnType DEF TypeOK
      <4>3. CASE Goto(t, "w_check", "w_up") /\ UNCHANGED ret
        BY <4>3, LocationsListed, MovedType, ReturnType DEF TypeOK
      <4> QED BY <1>16, <4>1, <4>2, <4>3 DEF WriteCheck
    <3>2. state' \in [Tasks -> {"RUNNING", "INTERRUPTIBLE"}]
      BY <1>16 DEF WriteCheck, Goto, SetState, Return, WakeUp, TypeOK
    <3>3. UNCHANGED <<dev, sem, queues, files, req, got, pending>>
      BY <1>16 DEF WriteCheck
    <3> QED BY <3>1, <3>2, <3>3 DEF TypeOK
  <2>2. CallInv'
    BY <1>16 DEF WriteCheck, Goto, SetState, Return, WakeUp, TypeOK, CallInv, CallMatches, ReadLocs, WriteLocs, PollLocs, IoctlLocs
  <2> QED BY <2>1, <2>2
<1>17. CASE WriteUp(t)
  <2>1. TypeOK'
    BY <1>17, LocationsListed DEF WriteUp, Goto, SetState, Return, WakeUp, Up, TypeOK
  <2>2. CallInv'
    BY <1>17 DEF WriteUp, Goto, SetState, Return, WakeUp, Up, TypeOK, CallInv, CallMatches, ReadLocs, WriteLocs, PollLocs, IoctlLocs
  <2> QED BY <2>1, <2>2
<1>18. CASE WriteSchedule(t)
  <2>1. TypeOK'
    <3>1. pc' \in [Tasks -> Locations] /\ ret' \in [Tasks -> Int]
      <4>1. CASE Goto(t, "w_sched", "w_out2") /\ Return(t, ERESTARTSYS)
        BY <4>1, LocationsListed, MovedType, ReturnType DEF TypeOK
      <4>2. CASE Goto(t, "w_sched", "w_down2") /\ UNCHANGED ret
        BY <4>2, LocationsListed, MovedType, ReturnType DEF TypeOK
      <4> QED BY <1>18, <4>1, <4>2 DEF WriteSchedule
    <3>2. state' \in [Tasks -> {"RUNNING", "INTERRUPTIBLE"}]
      BY <1>18 DEF WriteSchedule, Goto, SetState, Return, WakeUp, TypeOK
    <3>3. UNCHANGED <<dev, sem, queues, files, req, got, pending>>
      BY <1>18 DEF WriteSchedule
    <3> QED BY <3>1, <3>2, <3>3 DEF TypeOK
  <2>2. CallInv'
    BY <1>18 DEF WriteSchedule, Goto, SetState, Return, WakeUp, TypeOK, CallInv, CallMatches, ReadLocs, WriteLocs, PollLocs, IoctlLocs
  <2> QED BY <2>1, <2>2
<1>19. CASE WriteCopy(t)
  <2>1. TypeOK'
    <3> DEFINE n == Least(Len(req[t].buf), SIZE - current_len)
               m == [i \in DOMAIN mem |-> IF i \in current_len .. current_len + n - 1
                       THEN req[t].buf[i - current_len + 1] ELSE mem[i]]
    <3>1. pc[t] = "w_copy" /\ req[t].op = "write" /\ req[t] \in CallSet
      BY <1>19 DEF WriteCopy, Goto, SetState, Return, WakeUp, TypeOK, CallInv, CallMatches, WriteLocs
    <3>2. req[t].buf \in Seq(Bytes)
      BY <3>1, CallFields
    <3>3. n \in 0 .. SIZE - current_len /\ n <= Len(req[t].buf)
      <4>1. Len(req[t].buf) \in Nat /\ SIZE - current_len \in Nat
        BY <3>2, SizeAssumption DEF TypeOK
      <4>2. n \in Nat /\ n <= Len(req[t].buf) /\ n <= SIZE - current_len
        BY <4>1, LeastBounds
      <4> QED BY <4>1, <4>2
    <3>4. m \in [0 .. SIZE - 1 -> Bytes]
      <4> HIDE DEF n
      <4> QED BY <3>2, <3>3, SizeAssumption DEF TypeOK
    <3> HIDE DEF n, m
    <3>5. CASE UNCHANGED dev /\ Goto(t, "w_copy", "w_out") /\ Return(t, EFAULT)
      BY <1>19, <3>5, LocationsListed DEF WriteCopy, Goto, SetState, Return, WakeUp, TypeOK
    <3>6. CASE /\ mem' = m
               /\ current_len' = current_len + n
               /\ Return(t, n)
               /\ Goto(t, "w_copy", "w_wake")
      BY <1>19, <3>3, <3>4, <3>6, SizeAssumption, LocationsListed DEF WriteCopy, Goto, SetState, Return, WakeUp, TypeOK
    <3> QED BY <1>19, <3>5, <3>6 DEF WriteCopy, n, m
  <2>2. CallInv'
    BY <1>19 DEF WriteCopy, Goto, SetState, Return, WakeUp, TypeOK, CallInv, CallMatches, ReadLocs, WriteLocs, PollLocs, IoctlLocs
  <2> QED BY <2>1, <2>2
<1>20. CASE WriteWake(t)
  <2>1. TypeOK'
    BY <1>20, LocationsListed DEF WriteWake, Goto, SetState, Return, WakeUp, TypeOK
  <2>2. CallInv'
    BY <1>20 DEF WriteWake, Goto, SetState, Return, WakeUp, TypeOK, CallInv, CallMatches, ReadLocs, WriteLocs, PollLocs, IoctlLocs
  <2> QED BY <2>1, <2>2
<1>21. CASE WriteAsync(t)
  <2>1. TypeOK'
    BY <1>21, LocationsListed DEF WriteAsync, Goto, SetState, Return, WakeUp, TypeOK
  <2>2. CallInv'
    BY <1>21 DEF WriteAsync, Goto, SetState, Return, WakeUp, TypeOK, CallInv, CallMatches, ReadLocs, WriteLocs, PollLocs, IoctlLocs
  <2> QED BY <2>1, <2>2
<1>22. CASE WriteOut(t)
  <2>1. TypeOK'
    BY <1>22, LocationsListed DEF WriteOut, Goto, SetState, Return, WakeUp, Up, TypeOK
  <2>2. CallInv'
    BY <1>22 DEF WriteOut, Goto, SetState, Return, WakeUp, Up, TypeOK, CallInv, CallMatches, ReadLocs, WriteLocs, PollLocs, IoctlLocs
  <2> QED BY <2>1, <2>2
<1>23. CASE WriteOut2(t)
  <2>1. TypeOK'
    BY <1>23, LocationsListed DEF WriteOut2, Goto, SetState, Return, WakeUp, TypeOK
  <2>2. CallInv'
    BY <1>23 DEF WriteOut2, Goto, SetState, Return, WakeUp, TypeOK, CallInv, CallMatches, ReadLocs, WriteLocs, PollLocs, IoctlLocs
  <2> QED BY <2>1, <2>2
<1>24. CASE IoctlInvalid(t)
  <2>1. TypeOK'
    BY <1>24, LocationsListed DEF IoctlInvalid, Goto, SetState, Return, WakeUp, TypeOK
  <2>2. CallInv'
    BY <1>24 DEF IoctlInvalid, Goto, SetState, Return, WakeUp, TypeOK, CallInv, CallMatches, ReadLocs, WriteLocs, PollLocs, IoctlLocs
  <2> QED BY <2>1, <2>2
<1>25. CASE Clear(t)
  <2>1. TypeOK'
    BY <1>25, SizeAssumption, BytesAssumption, LocationsListed DEF Clear, Goto, SetState, Return, WakeUp, TypeOK
  <2>2. CallInv'
    BY <1>25 DEF Clear, Goto, SetState, Return, WakeUp, TypeOK, CallInv, CallMatches, ReadLocs, WriteLocs, PollLocs, IoctlLocs
  <2> QED BY <2>1, <2>2
<1>26. CASE ClearUp(t)
  <2>1. TypeOK'
    BY <1>26, LocationsListed DEF ClearUp, Goto, SetState, Return, WakeUp, Up, TypeOK
  <2>2. CallInv'
    BY <1>26 DEF ClearUp, Goto, SetState, Return, WakeUp, Up, TypeOK, CallInv, CallMatches, ReadLocs, WriteLocs, PollLocs, IoctlLocs
  <2> QED BY <2>1, <2>2
<1>27. CASE SetFasync(t)
  <2>1. TypeOK'
    BY <1>27, LocationsListed DEF SetFasync, Goto, SetState, Return, WakeUp, TypeOK
  <2>2. CallInv'
    BY <1>27 DEF SetFasync, Goto, SetState, Return, WakeUp, TypeOK, CallInv, CallMatches, ReadLocs, WriteLocs, PollLocs, IoctlLocs
  <2> QED BY <2>1, <2>2
<1>28. CASE PollMask(t)
  <2>1. TypeOK'
    <3>1. pc' \in [Tasks -> Locations] /\ sem' \in Nat
      <4>1. CASE Up(t, "p_mask", "p_free")
        BY <4>1, LocationsListed DEF Up, Goto, TypeOK
      <4>2. CASE Up(t, "p_mask", "p_wait")
        BY <4>2, LocationsListed DEF Up, Goto, TypeOK
      <4> QED BY <1>28, <4>1, <4>2 DEF PollMask
    <3>2. UNCHANGED <<dev, queues, files, call, sched>>
      BY <1>28 DEF PollMask
    <3> QED BY <3>1, <3>2 DEF TypeOK
  <2>2. CallInv'
    BY <1>28 DEF PollMask, Goto, SetState, Return, WakeUp, Up, TypeOK, CallInv, CallMatches, ReadLocs, WriteLocs, PollLocs, IoctlLocs
  <2> QED BY <2>1, <2>2
<1>29. CASE PollSchedule(t)
  <2>1. TypeOK'
    <3>1. pc' \in [Tasks -> Locations] /\ ret' \in [Tasks -> Int]
      <4>1. CASE Goto(t, "p_wait", "p_free") /\ Return(t, EINTR)
        BY <4>1, LocationsListed, MovedType, ReturnType DEF TypeOK
      <4>2. CASE Goto(t, "p_wait", "p_down") /\ UNCHANGED ret
        BY <4>2, LocationsListed, MovedType, ReturnType DEF TypeOK
      <4> QED BY <1>29, <4>1, <4>2 DEF PollSchedule
    <3>2. state' \in [Tasks -> {"RUNNING", "INTERRUPTIBLE"}]
      BY <1>29 DEF PollSchedule, Goto, SetState, Return, WakeUp, TypeOK
    <3>3. UNCHANGED <<dev, sem, queues, files, req, got, pending>>
      BY <1>29 DEF PollSchedule
    <3> QED BY <3>1, <3>2, <3>3 DEF TypeOK
  <2>2. CallInv'
    BY <1>29 DEF PollSchedule, Goto, SetState, Return, WakeUp, TypeOK, CallInv, CallMatches, ReadLocs, WriteLocs, PollLocs, IoctlLocs
  <2> QED BY <2>1, <2>2
<1>30. CASE PollFree(t)
  <2>1. TypeOK'
    BY <1>30, LocationsListed DEF PollFree, Goto, SetState, Return, WakeUp, TypeOK
  <2>2. CallInv'
    BY <1>30 DEF PollFree, Goto, SetState, Return, WakeUp, TypeOK, CallInv, CallMatches, ReadLocs, WriteLocs, PollLocs, IoctlLocs
  <2> QED BY <2>1, <2>2
<1>31. CASE Open(t)
  <2>1. TypeOK'
    BY <1>31, LocationsListed DEF Open, Goto, SetState, Return, WakeUp, TypeOK
  <2>2. CallInv'
    BY <1>31 DEF Open, Goto, SetState, Return, WakeUp, TypeOK, CallInv, CallMatches, ReadLocs, WriteLocs, PollLocs, IoctlLocs
  <2> QED BY <2>1, <2>2
<1>32. CASE Release(t)
  <2>1. TypeOK'
    BY <1>32, LocationsListed DEF Release, Goto, SetState, Return, WakeUp, TypeOK
  <2>2. CallInv'
    BY <1>32 DEF Release, Goto, SetState, Return, WakeUp, TypeOK, CallInv, CallMatches, ReadLocs, WriteLocs, PollLocs, IoctlLocs
  <2> QED BY <2>1, <2>2
<1>33. CASE Call(t)
  <2> PICK c \in Calls[t] : /\ Goto(t, "idle", Entry(c.op))
                            /\ req' = [req EXCEPT ![t] = c]
    BY <1>33 DEF Call
  <2>0. c \in CallSet
    BY CallsTyped
  <2>1. pc' = [pc EXCEPT ![t] = Entry(c.op)] /\ Entry(c.op) \in Locations
    BY <2>0, EntryLocation DEF Goto
  <2>2. TypeOK'
    BY <1>33, <2>0, <2>1 DEF Call, Goto, SetState, Return, WakeUp, TypeOK
  <2>3. CallMatches(t)'
    BY <1>33, <2>0, <2>1, EntryLocation DEF Call, Goto, SetState, Return, WakeUp, TypeOK, CallInv, CallMatches
  <2>4. ASSUME NEW u \in Tasks, u # t PROVE CallMatches(u)'
    BY <1>33, <2>1, <2>4 DEF Call, Goto, SetState, Return, WakeUp, TypeOK, CallInv, CallMatches
  <2> QED BY <2>2, <2>3, <2>4 DEF CallInv
<1>34. CASE Signal(t)
  <2>1. TypeOK'
    BY <1>34, LocationsListed DEF Signal, Goto, SetState, Return, WakeUp, TypeOK
  <2>2. CallInv'
    BY <1>34 DEF Signal, Goto, SetState, Return, WakeUp, TypeOK, CallInv, CallMatches, ReadLocs, WriteLocs, PollLocs, IoctlLocs
  <2> QED BY <2>1, <2>2
<1>35. CASE HandleSignal(t)
  <2>1. TypeOK'
    BY <1>35, LocationsListed DEF HandleSignal, Goto, SetState, Return, WakeUp, TypeOK
  <2>2. CallInv'
    BY <1>35 DEF HandleSignal, Goto, SetState, Return, WakeUp, TypeOK, CallInv, CallMatches, ReadLocs, WriteLocs, PollLocs, IoctlLocs
  <2> QED BY <2>1, <2>2
<1> QED BY <1>2, <1>3, <1>4, <1>5, <1>6, <1>7, <1>8, <1>9, <1>10, <1>11, <1>12, <1>13, <1>14, <1>15, <1>16, <1>17, <1>18, <1>19, <1>20, <1>21, <1>22, <1>23, <1>24, <1>25, <1>26, <1>27, <1>28, <1>29, <1>30, <1>31, <1>32, <1>33, <1>34, <1>35 DEF SemStep, OtherStep, UserStep

-----------------------------------------------------------------------------
(* The semaphore is a mutual exclusion: what a task does to pc and to sem  *)
(* keeps sem equal to 1 minus the number of tasks between down and up.     *)

LEMMA DownExclusive ==
  ASSUME TypeOK, SemExclusive, NEW t \in Tasks, NEW from, NEW to \in Holding,
         Down(t, from, to)
  PROVE  SemExclusive'
<1>1. sem = 1 /\ \A u \in Tasks : pc[u] \notin Holding
  BY DEF Down, SemExclusive
<1>2. \A u \in Tasks : pc'[u] \in Holding <=> u = t
  BY <1>1 DEF Down, Goto, TypeOK
<1>3. sem' = 0
  BY <1>1 DEF Down
<1> QED BY <1>2, <1>3 DEF SemExclusive

LEMMA UpExclusive ==
  ASSUME TypeOK, SemExclusive, NEW t \in Tasks, NEW from \in Holding, NEW to,
         to \notin Holding, Up(t, from, to)
  PROVE  SemExclusive'
<1>1. sem = 0 /\ \A u \in Tasks : pc[u] \in Holding <=> u = t
  BY DEF Up, Goto, SemExclusive
<1>2. \A u \in Tasks : pc'[u] \notin Holding
  BY <1>1 DEF Up, Goto, TypeOK
<1>3. sem' = 1
  BY <1>1 DEF Up
<1> QED BY <1>2, <1>3 DEF SemExclusive

LEMMA MoveExclusive ==
  ASSUME TypeOK, SemExclusive, NEW t \in Tasks, NEW from, NEW to, Goto(t, from, to),
         from \in Holding <=> to \in Holding, UNCHANGED sem
  PROVE  SemExclusive'
<1>1. \A u \in Tasks : pc'[u] \in Holding <=> pc[u] \in Holding
  BY DEF Goto, TypeOK
<1> QED BY <1>1 DEF SemExclusive

LEMMA SemExclusiveStep == TypeOK /\ SemExclusive /\ [Next]_vars => SemExclusive'
<1> SUFFICES ASSUME TypeOK, SemExclusive, [Next]_vars PROVE SemExclusive'
  OBVIOUS
<1>1. CASE UNCHANGED vars
  BY <1>1 DEF vars, SemExclusive
<1>2. SUFFICES ASSUME NEW t \in Tasks, SemStep(t) \/ OtherStep(t) \/ UserStep(t)
               PROVE  SemExclusive'
  BY <1>1 DEF Next
<1>3. CASE SemStep(t)
  <2>1. \/ Down(t, "r_down", "r_check") \/ Down(t, "r_down2", "r_copy")
        \/ Down(t, "w_down", "w_check") \/ Down(t, "w_down2", "w_copy")
        \/ Down(t, "c_down", "c_clear") \/ Down(t, "p_down", "p_mask")
    BY <1>3 DEF SemStep, ReadDown, ReadDown2, WriteDown, WriteDown2, ClearDown, PollDown
  <2> QED BY <2>1, DownExclusive DEF Holding
<1>4. CASE ReadUp(t) \/ ReadOut(t) \/ WriteUp(t) \/ WriteOut(t) \/ ClearUp(t) \/ PollMask(t)
  <2>1. \/ Up(t, "r_up", "r_sched") \/ Up(t, "r_out", "r_out2")
        \/ Up(t, "w_up", "w_sched") \/ Up(t, "w_out", "w_out2")
        \/ Up(t, "c_up", "idle")
        \/ Up(t, "p_mask", "p_free") \/ Up(t, "p_mask", "p_wait")
    BY <1>4 DEF ReadUp, ReadOut, WriteUp, WriteOut, ClearUp, PollMask
  <2> QED BY <2>1, UpExclusive DEF Holding
<1>5. CASE ReadCheck(t) \/ ReadCopy(t) \/ ReadWake(t)
  <2>1. /\ UNCHANGED sem
        /\ \/ Goto(t, "r_check", "r_copy") \/ Goto(t, "r_check", "r_out")
           \/ Goto(t, "r_check", "r_up") \/ Goto(t, "r_copy", "r_out")
           \/ Goto(t, "r_copy", "r_wake") \/ Goto(t, "r_wake", "r_out")
    BY <1>5 DEF ReadCheck, ReadCopy, ReadWake
  <2> QED BY <2>1, MoveExclusive DEF Holding
<1>6. CASE WriteCheck(t) \/ WriteCopy(t) \/ WriteWake(t) \/ WriteAsync(t)
  <2>1. /\ UNCHANGED sem
        /\ \/ Goto(t, "w_check", "w_copy") \/ Goto(t, "w_check", "w_out")
           \/ Goto(t, "w_check", "w_up") \/ Goto(t, "w_copy", "w_out")
           \/ Goto(t, "w_copy", "w_wake") \/ Goto(t, "w_wake", "w_async")
           \/ Goto(t, "w_async", "w_out")
    BY <1>6 DEF WriteCheck, WriteCopy, WriteWake, WriteAsync
  <2> QED BY <2>1, MoveExclusive DEF Holding
<1>7. CASE ReadSchedule(t) \/ WriteSchedule(t) \/ PollSchedule(t)
  <2>1. /\ UNCHANGED sem
        /\ \/ Goto(t, "r_sched", "r_out2") \/ Goto(t, "r_sched", "r_down2")
           \/ Goto(t, "w_sched", "w_out2") \/ Goto(t, "w_sched", "w_down2")
           \/ Goto(t, "p_wait", "p_free") \/ Goto(t, "p_wait", "p_down")
    BY <1>7 DEF ReadSchedule, WriteSchedule, PollSchedule
  <2> QED BY <2>1, MoveExclusive DEF Holding
<1>8. CASE ReadOut2(t) \/ WriteOut2(t) \/ PollFree(t)
  <2>1. /\ UNCHANGED sem
        /\ Goto(t, "r_out2", "idle") \/ Goto(t, "w_out2", "idle") \/ Goto(t, "p_free", "idle")
    BY <1>8 DEF ReadOut2, WriteOut2, PollFree
  <2> QED BY <2>1, MoveExclusive DEF Holding
<1>9. CASE IoctlInvalid(t) \/ Clear(t) \/ SetFasync(t)
  <2>1. /\ UNCHANGED sem
        /\ Goto(t, "c_down", "idle") \/ Goto(t, "c_clear", "c_up") \/ Goto(t, "f_set", "idle")
    BY <1>9 DEF IoctlInvalid, Clear, SetFasync
  <2> QED BY <2>1, MoveExclusive DEF Holding
<1>10. CASE Call(t)
  <2>1. PICK c \in Calls[t] : Goto(t, "idle", Entry(c.op))
    BY <1>10 DEF Call
  <2>2. Entry(c.op) \notin Holding
    BY CallsTyped, EntryLocation
  <2>3. UNCHANGED sem
    BY <1>10 DEF Call
  <2> QED BY <2>1, <2>2, <2>3, MoveExclusive DEF Holding
<1>11. CASE Open(t) \/ Release(t) \/ Signal(t) \/ HandleSignal(t)
  BY <1>11 DEF Open, Release, Signal, HandleSignal, SemExclusive
<1> QED
  BY <1>2, <1>3, <1>4, <1>5, <1>6, <1>7, <1>8, <1>9, <1>10, <1>11
  DEF OtherStep, UserStep

-----------------------------------------------------------------------------
(* Wait queue entries: a task is on a queue exactly while its call may     *)
(* still sleep there, so no entry outlives the stack frame it lies in.     *)

LEMMA WaitEntriesStep == TypeOK /\ WaitEntriesLive /\ [Next]_vars => WaitEntriesLive'
<1> SUFFICES ASSUME TypeOK, WaitEntriesLive, [Next]_vars PROVE WaitEntriesLive'
  OBVIOUS
<1>1. CASE UNCHANGED vars
  BY <1>1 DEF vars, WaitEntriesLive
<1>2. SUFFICES ASSUME NEW t \in Tasks, SemStep(t) \/ OtherStep(t) \/ UserStep(t)
               PROVE  WaitEntriesLive'
  BY <1>1 DEF Next
<1> USE DEF TypeOK, WaitEntriesLive, ReadWaiting, WriteWaiting, PollWaiting, Goto, Up, Down,
            queues
<1>3. CASE ReadDown(t)
  BY <1>3 DEF ReadDown
<1>4. CASE ReadDown2(t)
  BY <1>4 DEF ReadDown2
<1>5. CASE WriteDown(t)
  BY <1>5 DEF WriteDown
<1>6. CASE WriteDown2(t)
  BY <1>6 DEF WriteDown2
<1>7. CASE ClearDown(t)
  BY <1>7 DEF ClearDown
<1>8. CASE PollDown(t)
  BY <1>8 DEF PollDown
<1>9. CASE ReadCheck(t)
  BY <1>9 DEF ReadCheck
<1>10. CASE ReadUp(t)
  BY <1>10 DEF ReadUp
<1>11. CASE ReadSchedule(t)
  BY <1>11 DEF ReadSchedule
<1>12. CASE ReadCopy(t)
  <2>1. /\ Goto(t, "r_copy", "r_out") \/ Goto(t, "r_copy", "r_wake")
        /\ UNCHANGED <<queues, req>>
    BY <1>12, Zenon DEF ReadCopy
  <2>2. CASE Goto(t, "r_copy", "r_out")
    BY <2>1, <2>2
  <2>3. CASE Goto(t, "r_copy", "r_wake")
    BY <2>1, <2>3
  <2> QED BY <2>1, <2>2, <2>3, Zenon
<1>13. CASE ReadWake(t)
  BY <1>13 DEF ReadWake
<1>14. CASE ReadOut(t)
  BY <1>14 DEF ReadOut
<1>15. CASE ReadOut2(t)
  BY <1>15 DEF ReadOut2
<1>16. CASE WriteCheck(t)
  <2>1. /\ Goto(t, "w_check", "w_copy") \/ Goto(t, "w_check", "w_out")
             \/ Goto(t, "w_check", "w_up")
        /\ UNCHANGED <<queues, req>>
    BY <1>16, Zenon DEF WriteCheck
  <2>2. CASE Goto(t, "w_check", "w_copy")
    BY <2>1, <2>2
  <2>3. CASE Goto(t, "w_check", "w_out")
    BY <2>1, <2>3
  <2>4. CASE Goto(t, "w_check", "w_up")
    BY <2>1, <2>4
  <2> QED BY <2>1, <2>2, <2>3, <2>4, Zenon
<1>17. CASE WriteUp(t)
  BY <1>17 DEF WriteUp
<1>18. CASE WriteSchedule(t)
  BY <1>18 DEF WriteSchedule
<1>19. CASE WriteCopy(t)
  <2>1. /\ Goto(t, "w_copy", "w_out") \/ Goto(t, "w_copy", "w_wake")
        /\ UNCHANGED <<queues, req>>
    BY <1>19, Zenon DEF WriteCopy
  <2>2. CASE Goto(t, "w_copy", "w_out")
    BY <2>1, <2>2
  <2>3. CASE Goto(t, "w_copy", "w_wake")
    BY <2>1, <2>3
  <2> QED BY <2>1, <2>2, <2>3, Zenon
<1>20. CASE WriteWake(t)
  BY <1>20 DEF WriteWake
<1>21. CASE WriteAsync(t)
  BY <1>21 DEF WriteAsync
<1>22. CASE WriteOut(t)
  BY <1>22 DEF WriteOut
<1>23. CASE WriteOut2(t)
  BY <1>23 DEF WriteOut2
<1>24. CASE IoctlInvalid(t)
  BY <1>24 DEF IoctlInvalid
<1>25. CASE Clear(t)
  BY <1>25 DEF Clear
<1>26. CASE ClearUp(t)
  BY <1>26 DEF ClearUp
<1>27. CASE SetFasync(t)
  BY <1>27 DEF SetFasync
<1>28. CASE PollMask(t)
  BY <1>28 DEF PollMask
<1>29. CASE PollSchedule(t)
  BY <1>29 DEF PollSchedule
<1>30. CASE PollFree(t)
  BY <1>30 DEF PollFree
<1>31. CASE Call(t)
  <2>1. PICK c \in Calls[t] : Goto(t, "idle", Entry(c.op))
    BY <1>31 DEF Call
  <2>2. Entry(c.op) \notin ReadWaiting \cup WriteWaiting \cup PollWaiting
    BY CallsTyped, EntryLocation
  <2> QED BY <1>31, <2>1, <2>2 DEF Call
<1>32. CASE Open(t) \/ Release(t) \/ Signal(t) \/ HandleSignal(t)
  BY <1>32 DEF Open, Release, Signal, HandleSignal
<1> QED
  BY <1>2, <1>3, <1>4, <1>5, <1>6, <1>7, <1>8, <1>9, <1>10, <1>11, <1>12, <1>13, <1>14, <1>15, <1>16, <1>17, <1>18, <1>19, <1>20, <1>21, <1>22, <1>23, <1>24, <1>25, <1>26, <1>27, <1>28, <1>29, <1>30, <1>31, <1>32
  DEF SemStep, OtherStep, UserStep

-----------------------------------------------------------------------------
(* What a copy does to the length: a read takes no more than there is, a   *)
(* write adds no more than there is room for.                              *)

LEMMA ReadCopyLength ==
  ASSUME TypeInv, NEW t \in Tasks, ReadCopy(t)
  PROVE  current_len' \in 0 .. current_len
<1> DEFINE n == Least(req[t].count, current_len)
<1>1. req[t] \in CallSet /\ req[t].op = "read"
  BY DEF ReadCopy, TypeInv, TypeOK, CallInv, CallMatches, ReadLocs
<1>2. req[t].count \in Nat /\ current_len \in Nat
  BY <1>1, CallFields, SizeAssumption DEF TypeInv, TypeOK
<1>3. n \in Nat /\ n <= current_len
  BY <1>2, LeastBounds
<1>4. current_len' = current_len \/ current_len' = current_len - n
  BY DEF ReadCopy, dev
<1> HIDE DEF n
<1> QED BY <1>2, <1>3, <1>4

LEMMA WriteCopyLength ==
  ASSUME TypeInv, NEW t \in Tasks, WriteCopy(t)
  PROVE  current_len' \in current_len .. SIZE
<1> DEFINE n == Least(Len(req[t].buf), SIZE - current_len)
<1>1. req[t] \in CallSet /\ req[t].op = "write"
  BY DEF WriteCopy, TypeInv, TypeOK, CallInv, CallMatches, WriteLocs
<1>2. Len(req[t].buf) \in Nat /\ current_len \in Nat /\ SIZE - current_len \in Nat
  BY <1>1, CallFields, SizeAssumption DEF TypeInv, TypeOK
<1>3. n \in Nat /\ n <= SIZE - current_len
  BY <1>2, LeastBounds
<1>4. current_len' = current_len \/ current_len' = current_len + n
  BY DEF WriteCopy, dev
<1> HIDE DEF n
<1> QED BY <1>2, <1>3, <1>4, SizeAssumption

(* No lost wake-up for data.  The sleeper tested current_len with the      *)
(* semaphore held; only WriteCopy can make it positive, and WriteWake,     *)
(* which follows, reaches every entry of r_wait.                           *)

LEMMA DataWakeupStep == TypeInv /\ WaitEntriesLive /\ NoLostDataWakeup /\ [Next]_vars => NoLostDataWakeup'
<1> SUFFICES ASSUME TypeInv /\ WaitEntriesLive, NoLostDataWakeup, [Next]_vars PROVE NoLostDataWakeup'
  OBVIOUS
<1>1. CASE UNCHANGED vars
  BY <1>1 DEF vars, NoLostDataWakeup, Asleep
<1>2. SUFFICES ASSUME NEW t \in Tasks, SemStep(t) \/ OtherStep(t) \/ UserStep(t)
               PROVE  NoLostDataWakeup'
  BY <1>1 DEF Next
<1> USE DEF TypeInv, TypeOK, NoLostDataWakeup, Asleep, Goto, Up, Down,
            SetState, WakeUp, queues, dev, call, sched
<1>3. CASE ReadDown(t)
  BY <1>3 DEF ReadDown
<1>4. CASE ReadDown2(t)
  BY <1>4 DEF ReadDown2
<1>5. CASE WriteDown(t)
  BY <1>5 DEF WriteDown
<1>6. CASE WriteDown2(t)
  BY <1>6 DEF WriteDown2
<1>7. CASE ClearDown(t)
  BY <1>7 DEF ClearDown
<1>8. CASE PollDown(t)
  BY <1>8 DEF PollDown
<1>9. CASE ReadCheck(t)
  BY <1>9 DEF ReadCheck
<1>10. CASE ReadUp(t)
  BY <1>10 DEF ReadUp
<1>11. CASE ReadSchedule(t)
  BY <1>11 DEF ReadSchedule
<1>12. CASE ReadCopy(t)
  <2>1. current_len' \in 0 .. current_len
    BY <1>12, ReadCopyLength
  <2>2. Goto(t, "r_copy", "r_out") \/ Goto(t, "r_copy", "r_wake")
    BY <1>12 DEF ReadCopy
  <2>3. UNCHANGED <<state, req>>
    BY <1>12 DEF ReadCopy
  <2>4. current_len' # 0 => current_len # 0
    BY <2>1, SizeAssumption
  <2>5. \A u \in Tasks : pc[u] \in {"r_up", "r_sched", "p_wait", "w_wake"} => u # t /\ pc'[u] = pc[u]
    BY <2>2
  <2>6. \A u \in Tasks : pc'[u] \in {"r_up", "r_sched", "p_wait"} => u # t /\ pc'[u] = pc[u]
    BY <2>2
  <2> QED BY <2>3, <2>4, <2>5, <2>6
<1>13. CASE ReadWake(t)
  BY <1>13 DEF ReadWake
<1>14. CASE ReadOut(t)
  BY <1>14 DEF ReadOut
<1>15. CASE ReadOut2(t)
  BY <1>15 DEF ReadOut2
<1>16. CASE WriteCheck(t)
  BY <1>16 DEF WriteCheck
<1>17. CASE WriteUp(t)
  BY <1>17 DEF WriteUp
<1>18. CASE WriteSchedule(t)
  BY <1>18 DEF WriteSchedule
<1>19. CASE WriteCopy(t)
  BY <1>19 DEF WriteCopy
<1>20. CASE WriteWake(t)
  BY <1>20 DEF WriteWake, WaitEntriesLive, ReadWaiting, PollWaiting
<1>21. CASE WriteAsync(t)
  BY <1>21 DEF WriteAsync
<1>22. CASE WriteOut(t)
  BY <1>22 DEF WriteOut
<1>23. CASE WriteOut2(t)
  BY <1>23 DEF WriteOut2
<1>24. CASE IoctlInvalid(t)
  BY <1>24 DEF IoctlInvalid
<1>25. CASE Clear(t)
  BY <1>25 DEF Clear
<1>26. CASE ClearUp(t)
  BY <1>26 DEF ClearUp
<1>27. CASE SetFasync(t)
  BY <1>27 DEF SetFasync
<1>28. CASE PollMask(t)
  <2>1. \/ Goto(t, "p_mask", "p_free")
        \/ Goto(t, "p_mask", "p_wait") /\ ("in" \in req[t].events => current_len = 0)
    BY <1>28 DEF PollMask, Mask
  <2> QED BY <1>28, <2>1 DEF PollMask
<1>29. CASE PollSchedule(t)
  BY <1>29 DEF PollSchedule
<1>30. CASE PollFree(t)
  BY <1>30 DEF PollFree
<1>31. CASE Call(t)
  <2>1. PICK c \in Calls[t] : Goto(t, "idle", Entry(c.op)) /\ req' = [req EXCEPT ![t] = c]
    BY <1>31 DEF Call
  <2>2. Entry(c.op) \notin {"r_up", "r_sched", "p_wait"}
    BY CallsTyped, EntryLocation DEF ReadWaiting, PollWaiting
  <2> QED BY <1>31, <2>1, <2>2 DEF Call
<1>32. CASE Open(t)
  BY <1>32 DEF Open
<1>33. CASE Release(t)
  BY <1>33 DEF Release
<1>34. CASE Signal(t)
  BY <1>34 DEF Signal
<1>35. CASE HandleSignal(t)
  BY <1>35 DEF HandleSignal
<1> QED
  BY <1>2, <1>3, <1>4, <1>5, <1>6, <1>7, <1>8, <1>9, <1>10, <1>11, <1>12, <1>13, <1>14, <1>15, <1>16, <1>17, <1>18, <1>19, <1>20, <1>21, <1>22, <1>23, <1>24, <1>25, <1>26, <1>27, <1>28, <1>29, <1>30, <1>31, <1>32, <1>33, <1>34, <1>35
  DEF SemStep, OtherStep, UserStep

(* No lost wake-up for space: the same argument with the roles exchanged.  *)
(* Clear is the one step that would break it.                              *)

LEMMA SpaceWakeupStep == TypeInv /\ WaitEntriesLive /\ NoLostSpaceWakeup /\ [Next]_vars => NoLostSpaceWakeup'
<1> SUFFICES ASSUME TypeInv /\ WaitEntriesLive, NoLostSpaceWakeup, [Next]_vars PROVE NoLostSpaceWakeup'
  OBVIOUS
<1>1. CASE UNCHANGED vars
  BY <1>1 DEF vars, NoLostSpaceWakeup, Asleep
<1>2. SUFFICES ASSUME NEW t \in Tasks, SemStep(t) \/ OtherStep(t) \/ UserStep(t)
               PROVE  NoLostSpaceWakeup'
  BY <1>1 DEF Next
<1> USE DEF TypeInv, TypeOK, NoLostSpaceWakeup, Asleep, Goto, Up, Down,
            SetState, WakeUp, queues, dev, call, sched
<1>3. CASE ReadDown(t)
  BY <1>3 DEF ReadDown
<1>4. CASE ReadDown2(t)
  BY <1>4 DEF ReadDown2
<1>5. CASE WriteDown(t)
  BY <1>5 DEF WriteDown
<1>6. CASE WriteDown2(t)
  BY <1>6 DEF WriteDown2
<1>7. CASE ClearDown(t)
  BY <1>7 DEF ClearDown
<1>8. CASE PollDown(t)
  BY <1>8 DEF PollDown
<1>9. CASE ReadCheck(t)
  BY <1>9 DEF ReadCheck
<1>10. CASE ReadUp(t)
  BY <1>10 DEF ReadUp
<1>11. CASE ReadSchedule(t)
  BY <1>11 DEF ReadSchedule
<1>12. CASE ReadCopy(t)
  BY <1>12 DEF ReadCopy
<1>13. CASE ReadWake(t)
  BY <1>13 DEF ReadWake, WaitEntriesLive, WriteWaiting, PollWaiting
<1>14. CASE ReadOut(t)
  BY <1>14 DEF ReadOut
<1>15. CASE ReadOut2(t)
  BY <1>15 DEF ReadOut2
<1>16. CASE WriteCheck(t)
  BY <1>16 DEF WriteCheck
<1>17. CASE WriteUp(t)
  BY <1>17 DEF WriteUp
<1>18. CASE WriteSchedule(t)
  BY <1>18 DEF WriteSchedule
<1>19. CASE WriteCopy(t)
  <2>1. current_len' \in current_len .. SIZE
    BY <1>19, WriteCopyLength
  <2>2. Goto(t, "w_copy", "w_out") \/ Goto(t, "w_copy", "w_wake")
    BY <1>19 DEF WriteCopy
  <2>3. UNCHANGED <<state, req>>
    BY <1>19 DEF WriteCopy
  <2>4. current_len' # SIZE => current_len # SIZE
    BY <2>1, SizeAssumption
  <2>5. \A u \in Tasks : pc[u] \in {"w_up", "w_sched", "p_wait", "r_wake"} => u # t /\ pc'[u] = pc[u]
    BY <2>2
  <2>6. \A u \in Tasks : pc'[u] \in {"w_up", "w_sched", "p_wait"} => u # t /\ pc'[u] = pc[u]
    BY <2>2
  <2> QED BY <2>3, <2>4, <2>5, <2>6
<1>20. CASE WriteWake(t)
  BY <1>20 DEF WriteWake
<1>21. CASE WriteAsync(t)
  BY <1>21 DEF WriteAsync
<1>22. CASE WriteOut(t)
  BY <1>22 DEF WriteOut
<1>23. CASE WriteOut2(t)
  BY <1>23 DEF WriteOut2
<1>24. CASE IoctlInvalid(t)
  BY <1>24 DEF IoctlInvalid
<1>25. CASE Clear(t)
  <2>1. req[t] \in CallSet /\ req[t] \in Calls[t] /\ req[t].op = "ioctl" /\ req[t].cmd = "FIFO_CLEAR"
    BY <1>25, CallsTyped DEF Clear, CallInv, CallMatches, IoctlLocs
  <2>2. req[t] = FifoClear
    BY <2>1 DEF CallSet, FifoClear, Ioctl
  <2> QED BY <2>1, <2>2 DEF NobodyClears
<1>26. CASE ClearUp(t)
  BY <1>26 DEF ClearUp
<1>27. CASE SetFasync(t)
  BY <1>27 DEF SetFasync
<1>28. CASE PollMask(t)
  <2>1. \/ Goto(t, "p_mask", "p_free")
        \/ Goto(t, "p_mask", "p_wait") /\ ("out" \in req[t].events => current_len = SIZE)
    BY <1>28 DEF PollMask, Mask
  <2> QED BY <1>28, <2>1 DEF PollMask
<1>29. CASE PollSchedule(t)
  BY <1>29 DEF PollSchedule
<1>30. CASE PollFree(t)
  BY <1>30 DEF PollFree
<1>31. CASE Call(t)
  <2>1. PICK c \in Calls[t] : Goto(t, "idle", Entry(c.op)) /\ req' = [req EXCEPT ![t] = c]
    BY <1>31 DEF Call
  <2>2. Entry(c.op) \notin {"w_up", "w_sched", "p_wait"}
    BY CallsTyped, EntryLocation DEF WriteWaiting, PollWaiting
  <2> QED BY <1>31, <2>1, <2>2 DEF Call
<1>32. CASE Open(t)
  BY <1>32 DEF Open
<1>33. CASE Release(t)
  BY <1>33 DEF Release
<1>34. CASE Signal(t)
  BY <1>34 DEF Signal
<1>35. CASE HandleSignal(t)
  BY <1>35 DEF HandleSignal
<1> QED
  BY <1>2, <1>3, <1>4, <1>5, <1>6, <1>7, <1>8, <1>9, <1>10, <1>11, <1>12, <1>13, <1>14, <1>15, <1>16, <1>17, <1>18, <1>19, <1>20, <1>21, <1>22, <1>23, <1>24, <1>25, <1>26, <1>27, <1>28, <1>29, <1>30, <1>31, <1>32, <1>33, <1>34, <1>35
  DEF SemStep, OtherStep, UserStep

(* SIGIO: a task inside fasync still holds the file it asks for.           *)

LEMMA SigioStep == TypeInv /\ SigioToOpeners /\ [Next]_vars => SigioToOpeners'
<1> SUFFICES ASSUME TypeInv, SigioToOpeners, [Next]_vars PROVE SigioToOpeners'
  OBVIOUS
<1>1. CASE UNCHANGED vars
  BY <1>1 DEF vars, SigioToOpeners
<1>2. SUFFICES ASSUME NEW t \in Tasks, SemStep(t) \/ OtherStep(t) \/ UserStep(t)
               PROVE  SigioToOpeners'
  BY <1>1 DEF Next
<1>3. CASE SetFasync(t)
  <2>1. t \in opened
    BY <1>3 DEF SetFasync, Goto, TypeInv, CallInv, CallMatches
  <2> QED BY <1>3, <2>1 DEF SetFasync, SigioToOpeners
<1>4. CASE Open(t) \/ Release(t)
  BY <1>4 DEF Open, Release, SigioToOpeners
<1>5. CASE UNCHANGED files
  BY <1>5 DEF files, SigioToOpeners
<1>6. SetFasync(t) \/ Open(t) \/ Release(t) \/ UNCHANGED files
  BY <1>2 DEF SemStep, OtherStep, UserStep, files, ReadDown, ReadDown2, WriteDown,
    WriteDown2, ClearDown, PollDown, ReadCheck, ReadUp, ReadSchedule, ReadCopy, ReadWake,
    ReadOut, ReadOut2, WriteCheck, WriteUp, WriteSchedule, WriteCopy, WriteWake,
    WriteAsync, WriteOut, WriteOut2, IoctlInvalid, Clear, ClearUp, PollMask,
    PollSchedule, PollFree, Call, Signal, HandleSignal
<1> QED BY <1>3, <1>4, <1>5, <1>6

-----------------------------------------------------------------------------
(* The inductive invariant, and what follows from it. *)

Inv == /\ TypeInv
       /\ SemExclusive
       /\ WaitEntriesLive
       /\ NoLostDataWakeup
       /\ NoLostSpaceWakeup
       /\ SigioToOpeners

(* A device that nobody uses yet satisfies it. *)
LEMMA InvInit == Init => Inv
<1> SUFFICES ASSUME Init PROVE Inv
  OBVIOUS
<1>1. TypeInv
  BY TypeInit
<1>2. SemExclusive
  BY DEF Init, SemExclusive, Holding
<1>3. WaitEntriesLive
  BY DEF Init, WaitEntriesLive, ReadWaiting, WriteWaiting, PollWaiting
<1>4. NoLostDataWakeup /\ NoLostSpaceWakeup /\ SigioToOpeners
  BY DEF Init, NoLostDataWakeup, NoLostSpaceWakeup, SigioToOpeners, Asleep
<1> QED BY <1>1, <1>2, <1>3, <1>4 DEF Inv

THEOREM InvStep == Inv /\ [Next]_vars => Inv'
  BY TypeStep, SemExclusiveStep, WaitEntriesStep, DataWakeupStep, SpaceWakeupStep,
     SigioStep DEF Inv, TypeInv

(* Inv holds in every reachable state, for all constants.                  *)
THEOREM Invariance == Spec => []Inv
<1>1. Inv /\ [Next]_vars => Inv'
  BY InvStep
<1> QED BY InvInit, <1>1, PTL DEF Spec

(* current_len stays within the array and every other variable in its type *)
(* (globalfifo_read and globalfifo_write clip count).                      *)
THEOREM TypeCorrect == Spec => []TypeOK
<1>1. Inv => TypeOK
  BY DEF Inv, TypeInv
<1> QED BY <1>1, Invariance, PTL

(* dev->sem excludes: all paths of read, write, ioctl and poll pair their  *)
(* down with one up.                                                       *)
THEOREM MutualExclusion == Spec => []SemExclusive
<1>1. Inv => SemExclusive
  BY DEF Inv
<1> QED BY <1>1, Invariance, PTL

(* No wait queue entry outlives its call, on any path.                     *)
THEOREM EntriesLive == Spec => []WaitEntriesLive
<1>1. Inv => WaitEntriesLive
  BY DEF Inv
<1> QED BY <1>1, Invariance, PTL

(* A reader or POLLIN poller never sleeps through the arrival of data.     *)
THEOREM DataWakeups == Spec => []NoLostDataWakeup
<1>1. Inv => NoLostDataWakeup
  BY DEF Inv
<1> QED BY <1>1, Invariance, PTL

(* A writer or POLLOUT poller never sleeps through the freeing of space,   *)
(* if nobody issues FIFO_CLEAR.                                            *)
THEOREM SpaceWakeups == Spec => []NoLostSpaceWakeup
<1>1. Inv => NoLostSpaceWakeup
  BY DEF Inv
<1> QED BY <1>1, Invariance, PTL

(* SIGIO is never sent to a task that has closed the device.               *)
THEOREM SigioCorrect == Spec => []SigioToOpeners
<1>1. Inv => SigioToOpeners
  BY DEF Inv
<1> QED BY <1>1, Invariance, PTL
=============================================================================
