--------------------------- MODULE GlobalMemProofs ---------------------------
(***************************************************************************)
(* Theorems about GlobalMem, for any tasks, open files, size and calls:    *)
(* the types, where the positions are, and that the device with the mutex  *)
(* implements AtomicMemory.                                                *)
(***************************************************************************)
EXTENDS GlobalMem, SequenceTheorems, TLAPS

(* What a call has set by the time it is where it is.                      *)
CallInv(t) ==
  /\ pc[t] \in {"lock", "copy", "return"} => req[t].op # "seek"
  /\ pc[t] \in {"lock", "copy"} /\ req[t].op = "clear" => at[t] = 0
  /\ pc[t] = "lock" => done[t] = 0 /\ got[t] = <<>>
  /\ pc[t] = "copy" => done[t] <= Goal(t) /\ (req[t].op = "read" => Len(got[t]) = done[t])
  /\ pc[t] = "return" /\ req[t].op # "clear" => ret[t] \in {EFAULT} \cup 0 .. SIZE - at[t]
  /\ pc[t] \in {"load", "store"} => req[t].op = "seek" /\ req[t].orig = "cur"

(* The mutex, if there is one, is held by the task that copies.            *)
LockInv == /\ MUTEX => mutex = {t \in Tasks : pc[t] = "copy"}
           /\ MUTEX => \A t, u \in Tasks : pc[t] = "copy" /\ pc[u] = "copy" => t = u
           /\ ~MUTEX => mutex = {}

Inv == TypeOK /\ (\A t \in Tasks : CallInv(t)) /\ LockInv

-----------------------------------------------------------------------------
LEMMA Constants == /\ SIZE \in Nat /\ SIZE > 0 /\ UINT \in Nat /\ UINT > SIZE
                   /\ 0 \in 0 .. SIZE - 1 /\ 0 \in 0 .. SIZE
                   /\ \A i \in 0 .. SIZE - 1 : i \in 0 .. SIZE /\ i \in Int
                   /\ EFAULT = -14 /\ EINVAL = -22 /\ ENOTTY = -25 /\ ENXIO = -6
  BY SizeAssumption DEF EFAULT, EINVAL, ENOTTY, ENXIO

(* The fields of a call.                                                   *)
LEMMA CallFacts ==
  ASSUME NEW c \in Calls
  PROVE  /\ c.op \in {"read", "write", "clear", "seek"}
         /\ c.op = "read" => c.size \in Nat \ {0} /\ c.ok \in Nat
         /\ c.op = "write" => /\ c.buf \in Seq(Bytes) /\ c.ok \in Nat
                              /\ Len(c.buf) \in Nat \ {0}
         /\ c.op = "seek" => c.off \in Int /\ c.orig \in {"set", "cur"}
<1>1. c \in CallSet
  BY CallsAssumption
<1>2. CASE c \in [op : {"read"}, size : Nat \ {0}, ok : Nat]
  BY <1>2
<1>3. CASE c \in [op : {"write"}, buf : Seq(Bytes) \ {<<>>}, ok : Nat]
  BY <1>3
<1>4. CASE c \in [op : {"clear"}]
  BY <1>4
<1>5. CASE c \in [op : {"seek"}, orig : {"set", "cur"}, off : Int]
  BY <1>5
<1> QED BY <1>1, <1>2, <1>3, <1>4, <1>5 DEF CallSet

(* How much a call copies: something that fits, starting inside the memory.*)
LEMMA GoalFacts ==
  ASSUME NEW t, req[t] \in Calls, req[t].op # "seek", at[t] \in 0 .. SIZE - 1,
         req[t].op = "clear" => at[t] = 0
  PROVE  /\ Count(t) \in 1 .. SIZE - at[t] /\ Goal(t) \in 0 .. Count(t)
         /\ Goal(t) \in 0 .. SIZE - at[t]
         /\ req[t].op # "read" => Goal(t) = Count(t)
<1>1. req[t].op \in {"read", "write", "clear"}
  BY CallFacts
<1>2. CASE req[t].op = "read"
  <2>1. req[t].size \in Nat \ {0} /\ req[t].ok \in Nat
    BY <1>2, CallFacts
  <2> QED BY <1>2, <2>1, Constants DEF Count, Goal, Asked, Least
<1>3. CASE req[t].op = "write"
  <2>1. Len(req[t].buf) \in Nat \ {0}
    BY <1>3, CallFacts
  <2> QED BY <1>3, <2>1, Constants DEF Count, Goal, Asked, Least
<1>4. CASE req[t].op = "clear"
  BY <1>4, Constants DEF Count, Goal
<1> QED BY <1>1, <1>2, <1>3, <1>4

(* Every byte that a call stores is a byte.                                *)
LEMMA StoredType ==
  ASSUME NEW t, req[t] \in Calls, req[t].op # "seek", at[t] \in 0 .. SIZE - 1,
         req[t].op = "clear" => at[t] = 0, NEW k \in 0 .. Goal(t) - 1
  PROVE  Stored(t, k) \in Bytes
<1>1. CASE req[t].op = "write" /\ k < req[t].ok
  <2>1. /\ req[t].buf \in Seq(Bytes) /\ Len(req[t].buf) \in Nat
        /\ Goal(t) <= Len(req[t].buf) /\ Goal(t) \in Nat
    BY <1>1, CallFacts, GoalFacts, Constants, SMTT(30) DEF Goal, Count, Asked, Least
  <2>2. k + 1 \in 1 .. Len(req[t].buf)
    BY <2>1
  <2> QED BY <1>1, <2>1, <2>2 DEF Stored
<1>2. CASE ~(req[t].op = "write" /\ k < req[t].ok)
  BY <1>2, BytesAssumption DEF Stored
<1> QED BY <1>1, <1>2

LEMMA CallFrame ==
  ASSUME NEW u, CallInv(u), pc'[u] = pc[u], req'[u] = req[u], at'[u] = at[u],
         got'[u] = got[u], done'[u] = done[u], ret'[u] = ret[u]
  PROVE  CallInv(u)'
  BY DEF CallInv, Goal, Count

LEMMA InitInv == Init => Inv
<1> SUFFICES ASSUME Init PROVE Inv
  OBVIOUS
<1>1. (CHOOSE c \in Calls : TRUE) \in Calls
  BY CallsAssumption
<1>2. TypeOK
  BY <1>1, Constants, BytesAssumption DEF Init, TypeOK
<1>3. (\A t \in Tasks : CallInv(t)) /\ LockInv
  BY DEF Init, CallInv, LockInv
<1> QED BY <1>2, <1>3 DEF Inv

-----------------------------------------------------------------------------
(* The steps outside of a call, or that do not get into one.               *)
LEMMA OutsideStep ==
  ASSUME Inv, NEW t \in Tasks,
         Refused(t) \/ \E c \in Calls : c.op = "seek" /\ SeekSet(t, c.off)
  PROVE  Inv'
<1> USE DEF Inv
<1>1. /\ UNCHANGED <<mem, mutex, pc, req, at, got, done, sum>>
      /\ pc[t] = "idle"
  BY DEF Refused, SeekSet
<1>2. f_pos' \in [Files -> Int] /\ ret' \in [Tasks -> Int]
  <2>1. \A x \in Int : x >= 0 => x % UINT \in Int
    BY Constants
  <2>2. \A c \in Calls : c.op = "seek" => c.off \in Int
    BY CallFacts
  <2> QED BY <2>1, <2>2, Constants, SMTT(30) DEF Refused, SeekSet, Return, MovePos, TypeOK
<1>3. TypeOK'
  BY <1>1, <1>2, Zenon DEF TypeOK
<1>4. \A u \in Tasks : u # t => ret'[u] = ret[u]
  BY DEF Refused, SeekSet, Return, TypeOK
<1>5. ASSUME NEW u \in Tasks PROVE CallInv(u)'
  <2>1. CASE u = t
    BY <1>1, <2>1 DEF CallInv
  <2>2. CASE u # t
    BY <1>1, <1>4, <2>2, CallFrame
  <2> QED BY <2>1, <2>2
<1> QED BY <1>1, <1>3, <1>5 DEF LockInv
LEMMA NoIoctlStep == ASSUME Inv, NEW t \in Tasks, NoIoctl(t) PROVE Inv'
<1> USE DEF Inv
<1>1. /\ UNCHANGED <<mem, f_pos, mutex, done, sum>>
      /\ pc[t] = "idle" /\ pc' = [pc EXCEPT ![t] = "return"]
      /\ MemClear \in Calls /\ req' = [req EXCEPT ![t] = MemClear]
      /\ at' = [at EXCEPT ![t] = 0] /\ got' = [got EXCEPT ![t] = <<>>]
      /\ ret' = [ret EXCEPT ![t] = ENOTTY]
  BY DEF NoIoctl, Goto, Return
<1>2. TypeOK'
  BY <1>1, Constants DEF TypeOK
<1>3. ASSUME NEW u \in Tasks PROVE CallInv(u)'
  <2>1. CASE u = t
    <3>1. pc'[t] = "return" /\ req'[t].op = "clear"
      BY <1>1 DEF TypeOK, MemClear
    <3> QED BY <1>1, <2>1, <3>1 DEF CallInv
  <2>2. CASE u # t
    BY <1>1, <2>2, CallFrame DEF TypeOK
  <2> QED BY <2>1, <2>2
<1>4. LockInv'
  BY <1>1 DEF LockInv
<1> QED BY <1>2, <1>3, <1>4

LEMMA EnterStep == ASSUME Inv, NEW t \in Tasks, Enter(t) PROVE Inv'
<1> USE DEF Inv
<1>1. PICK c \in Calls :
        /\ \/ c.op \in {"read", "write"} /\ Inside(Pos(t))
           \/ c.op = "clear"
        /\ req' = [req EXCEPT ![t] = c]
        /\ at' = [at EXCEPT ![t] = IF c.op = "clear" THEN 0 ELSE Pos(t)]
  BY DEF Enter
<1>2. /\ UNCHANGED <<mem, f_pos, mutex, sum, ret>>
      /\ pc[t] = "idle" /\ pc' = [pc EXCEPT ![t] = "lock"]
      /\ got' = [got EXCEPT ![t] = <<>>] /\ done' = [done EXCEPT ![t] = 0]
  BY DEF Enter, Goto
<1>3. (IF c.op = "clear" THEN 0 ELSE Pos(t)) \in 0 .. SIZE - 1
  BY <1>1, Constants DEF Inside
<1>4. TypeOK'
  BY <1>1, <1>2, <1>3, Constants DEF TypeOK
<1>5. /\ pc'[t] = "lock" /\ req'[t] = c /\ got'[t] = <<>> /\ done'[t] = 0
      /\ c.op = "clear" => at'[t] = 0
  BY <1>1, <1>2 DEF TypeOK
<1>6. ASSUME NEW u \in Tasks PROVE CallInv(u)'
  <2>1. CASE u = t
    BY <1>1, <1>5, <2>1 DEF CallInv
  <2>2. CASE u # t
    BY <1>1, <1>2, <2>2, CallFrame DEF TypeOK
  <2> QED BY <2>1, <2>2
<1>7. LockInv'
  BY <1>2 DEF LockInv, TypeOK
<1> QED BY <1>4, <1>6, <1>7

LEMMA LockStep == ASSUME Inv, NEW t \in Tasks, Lock(t) PROVE Inv'
<1> USE DEF Inv
<1>1. /\ UNCHANGED <<mem, f_pos, req, at, got, done, sum, ret>>
      /\ pc[t] = "lock" /\ pc' = [pc EXCEPT ![t] = "copy"]
      /\ mutex = {} /\ mutex' = IF MUTEX THEN {t} ELSE {}
  BY DEF Lock, Goto
<1>2. TypeOK'
  BY <1>1 DEF TypeOK
<1>3. ASSUME NEW u \in Tasks PROVE CallInv(u)'
  <2>1. CASE u = t
    <3>1. /\ req[t].op # "seek" /\ done[t] = 0 /\ got[t] = <<>>
          /\ req[t].op = "clear" => at[t] = 0
      BY <1>1 DEF CallInv
    <3>2. req[t] \in Calls /\ at[t] \in 0 .. SIZE - 1
      BY DEF TypeOK
    <3>3. Goal(t) \in 0 .. SIZE - at[t]
      BY <3>1, <3>2, GoalFacts
    <3>4. Goal(t) >= 0
      BY <3>2, <3>3, Constants
    <3>5. pc'[t] = "copy" /\ Goal(t)' = Goal(t)
      BY <1>1 DEF TypeOK, Goal, Count
    <3> QED BY <1>1, <2>1, <3>1, <3>4, <3>5 DEF CallInv
  <2>2. CASE u # t
    BY <1>1, <2>2, CallFrame DEF TypeOK
  <2> QED BY <2>1, <2>2
<1>4. LockInv'
  BY <1>1 DEF LockInv, TypeOK
<1> QED BY <1>2, <1>3, <1>4

LEMMA ContendStep == ASSUME Inv, NEW t \in Tasks, Contend(t) PROVE Inv'
<1> USE DEF Inv
<1>1. /\ UNCHANGED <<mem, f_pos, mutex, req, at, got, done, sum, ret>>
      /\ pc[t] = "lock" /\ pc' = [pc EXCEPT ![t] = "oops"]
  BY DEF Contend, Goto
<1>2. TypeOK'
  BY <1>1 DEF TypeOK
<1>3. ASSUME NEW u \in Tasks PROVE CallInv(u)'
  <2>1. CASE u = t
    BY <1>1, <2>1 DEF CallInv, TypeOK
  <2>2. CASE u # t
    BY <1>1, <2>2, CallFrame DEF TypeOK
  <2> QED BY <2>1, <2>2
<1>4. LockInv'
  BY <1>1 DEF LockInv, TypeOK
<1> QED BY <1>2, <1>3, <1>4

(* Where the copying call is.                                              *)
LEMMA CopyFacts ==
  ASSUME Inv, NEW t \in Tasks, pc[t] = "copy"
  PROVE  /\ req[t] \in Calls /\ req[t].op \in {"read", "write", "clear"}
         /\ at[t] \in 0 .. SIZE - 1 /\ done[t] \in 0 .. Goal(t)
         /\ Goal(t) \in 0 .. SIZE - at[t]
         /\ Count(t) \in 1 .. SIZE - at[t]
         /\ req[t].op = "clear" => at[t] = 0
         /\ got[t] \in Seq(Bytes) /\ (req[t].op = "read" => Len(got[t]) = done[t])
<1> USE DEF Inv
<1>1. req[t] \in Calls /\ at[t] \in 0 .. SIZE - 1 /\ done[t] \in 0 .. SIZE /\ got[t] \in Seq(Bytes)
  BY DEF TypeOK
<1>2. /\ req[t].op # "seek" /\ (req[t].op = "clear" => at[t] = 0)
      /\ done[t] <= Goal(t) /\ (req[t].op = "read" => Len(got[t]) = done[t])
  BY DEF CallInv
<1>3. Goal(t) \in 0 .. SIZE - at[t] /\ Count(t) \in 1 .. SIZE - at[t]
  BY <1>1, <1>2, GoalFacts
<1>4. req[t].op \in {"read", "write", "clear"}
  BY <1>1, <1>2, CallFacts
<1>5. done[t] \in 0 .. Goal(t)
  BY <1>1, <1>2, <1>3, Constants
<1> QED BY <1>1, <1>2, <1>3, <1>4, <1>5

LEMMA CopyByteStep == ASSUME Inv, NEW t \in Tasks, CopyByte(t) PROVE Inv'
<1> USE DEF Inv
<1> DEFINE i == at[t] + done[t]
<1>1. /\ UNCHANGED <<f_pos, mutex, pc, req, at, sum, ret>>
      /\ pc[t] = "copy" /\ done[t] < Goal(t) /\ done' = [done EXCEPT ![t] = @ + 1]
      /\ \/ req[t].op = "read" /\ got' = [got EXCEPT ![t] = Append(@, mem[i])] /\ UNCHANGED mem
         \/ /\ req[t].op \in {"write", "clear"}
            /\ mem' = [mem EXCEPT ![i] = Stored(t, done[t])] /\ UNCHANGED got
  BY DEF CopyByte, Put
<1>2. /\ req[t] \in Calls /\ req[t].op # "seek"
      /\ at[t] \in 0 .. SIZE - 1 /\ done[t] \in 0 .. Goal(t)
      /\ Goal(t) \in 0 .. SIZE - at[t]
      /\ req[t].op = "clear" => at[t] = 0
      /\ got[t] \in Seq(Bytes) /\ (req[t].op = "read" => Len(got[t]) = done[t])
  BY <1>1, CopyFacts
<1>3. i \in 0 .. SIZE - 1 /\ done[t] \in 0 .. Goal(t) - 1 /\ done[t] + 1 \in 0 .. SIZE
      /\ done[t] + 1 <= Goal(t)
  <2>1. /\ at[t] \in Nat /\ done[t] \in Nat /\ Goal(t) \in Nat /\ SIZE \in Nat
        /\ at[t] + Goal(t) <= SIZE /\ done[t] < Goal(t)
    BY <1>1, <1>2, Constants
  <2> QED BY <2>1
<1>4. mem[i] \in Bytes /\ Stored(t, done[t]) \in Bytes
  BY <1>2, <1>3, StoredType DEF TypeOK
<1> HIDE DEF i
<1>5. mem' \in [0 .. SIZE - 1 -> Bytes] /\ got' \in [Tasks -> Seq(Bytes)]
  <2>1. Append(got[t], mem[i]) \in Seq(Bytes)
    BY <1>2, <1>4
  <2> QED BY <1>1, <1>4, <2>1 DEF TypeOK
<1>6. done' \in [Tasks -> 0 .. SIZE]
  BY <1>1, <1>3 DEF TypeOK
<1>7. TypeOK'
  BY <1>1, <1>5, <1>6, Zenon DEF TypeOK
<1>8. ASSUME NEW u \in Tasks PROVE CallInv(u)'
  <2>1. CASE u = t
    <3>1. /\ pc'[t] = "copy" /\ req'[t] = req[t] /\ at'[t] = at[t] /\ done'[t] = done[t] + 1
          /\ Goal(t)' = Goal(t)
      BY <1>1 DEF TypeOK, Goal, Count
    <3>2. req[t].op = "read" => Len(got'[t]) = done'[t]
      <4>1. SUFFICES ASSUME req[t].op = "read" PROVE Len(got'[t]) = done[t] + 1
        BY <3>1
      <4>2. got'[t] = Append(got[t], mem[i])
        BY <1>1, <4>1 DEF TypeOK
      <4> QED BY <1>2, <4>1, <4>2
    <3> QED BY <1>2, <1>3, <2>1, <3>1, <3>2 DEF CallInv
  <2>2. CASE u # t
    <3>1. done'[u] = done[u] /\ got'[u] = got[u]
      BY <1>1, <2>2 DEF TypeOK
    <3> QED BY <1>1, <2>2, <3>1, CallFrame
  <2> QED BY <2>1, <2>2
<1>9. LockInv'
  BY <1>1 DEF LockInv
<1> QED BY <1>7, <1>8, <1>9

LEMMA UnlockStep == ASSUME Inv, NEW t \in Tasks, Unlock(t) PROVE Inv'
<1> USE DEF Inv
<1> DEFINE r == CASE req[t].op = "clear" -> 0
                  [] Faulted(t)          -> EFAULT
                  [] OTHER               -> Count(t)
<1>1. /\ UNCHANGED <<mem, f_pos, req, at, got, done, sum>>
      /\ pc[t] = "copy" /\ pc' = [pc EXCEPT ![t] = "return"]
      /\ ret' = [ret EXCEPT ![t] = r] /\ mutex' = {}
  BY DEF Unlock, Goto, Return
<1>2. /\ req[t].op \in {"read", "write", "clear"} /\ at[t] \in 0 .. SIZE - 1
      /\ Count(t) \in 1 .. SIZE - at[t]
  BY <1>1, CopyFacts
<1>3. r \in {EFAULT} \cup 0 .. SIZE - at[t]
  BY <1>2, Constants DEF Faulted
<1> HIDE DEF r
<1>4. r \in Int
  BY <1>2, <1>3, Constants
<1>5. TypeOK'
  BY <1>1, <1>4 DEF TypeOK
<1>6. ASSUME NEW u \in Tasks PROVE CallInv(u)'
  <2>1. CASE u = t
    <3>1. pc'[t] = "return" /\ ret'[t] = r
      BY <1>1 DEF TypeOK
    <3> QED BY <1>1, <1>2, <1>3, <1>4, <2>1, <3>1 DEF CallInv
  <2>2. CASE u # t
    BY <1>1, <2>2, CallFrame DEF TypeOK
  <2> QED BY <2>1, <2>2
<1>7. LockInv'
  BY <1>1 DEF LockInv, TypeOK
<1> QED BY <1>5, <1>6, <1>7

LEMMA FinishStep == ASSUME Inv, NEW t \in Tasks, Finish(t) PROVE Inv'
<1> USE DEF Inv
<1>1. /\ UNCHANGED <<mem, mutex, req, at, got, done, sum, ret>>
      /\ pc[t] = "return" /\ pc' = [pc EXCEPT ![t] = "idle"]
  BY DEF Finish, Goto
<1>2. f_pos' \in [Files -> Int]
  <2>1. at[t] + ret[t] \in Int
    BY Constants DEF TypeOK
  <2> QED BY <2>1 DEF Finish, MovePos, TypeOK
<1>3. TypeOK'
  BY <1>1, <1>2 DEF TypeOK
<1>4. ASSUME NEW u \in Tasks PROVE CallInv(u)'
  <2>1. CASE u = t
    BY <1>1, <2>1 DEF CallInv, TypeOK
  <2>2. CASE u # t
    BY <1>1, <2>2, CallFrame DEF TypeOK
  <2> QED BY <2>1, <2>2
<1>5. LockInv'
  BY <1>1 DEF LockInv, TypeOK
<1> QED BY <1>3, <1>4, <1>5

LEMMA SeekStep ==
  ASSUME Inv, NEW t \in Tasks, SeekCheck(t) \/ SeekLoad(t) \/ SeekStore(t)
  PROVE  Inv'
<1> USE DEF Inv
<1>1. UNCHANGED <<mem, mutex, at, done>>
  BY DEF SeekCheck, SeekLoad, SeekStore
<1>2. /\ pc[t] \in {"idle", "load", "store"}
      /\ pc' \in [Tasks -> {"idle", "lock", "copy", "return", "load", "store", "oops"}]
      /\ pc'[t] \in {"idle", "load", "store"} /\ \A u \in Tasks : u # t => pc'[u] = pc[u]
  BY DEF SeekCheck, SeekLoad, SeekStore, Goto, TypeOK
<1>3. /\ req' \in [Tasks -> Calls] /\ got' \in [Tasks -> Seq(Bytes)]
      /\ \A u \in Tasks : u # t => req'[u] = req[u] /\ got'[u] = got[u]
      /\ pc'[t] = "load" => req'[t].op = "seek" /\ req'[t].orig = "cur"
  <2>1. CASE SeekCheck(t)
    <3>1. PICK c \in Calls :
            /\ c.op = "seek" /\ c.orig = "cur"
            /\ \/ /\ req' = [req EXCEPT ![t] = c] /\ got' = [got EXCEPT ![t] = <<>>]
               \/ UNCHANGED <<pc, req, got>>
      BY <2>1 DEF SeekCheck
    <3>2. pc[t] = "idle"
      BY <2>1 DEF SeekCheck
    <3>3. CASE UNCHANGED <<pc, req, got>>
      BY <3>2, <3>3 DEF TypeOK
    <3>4. CASE req' = [req EXCEPT ![t] = c] /\ got' = [got EXCEPT ![t] = <<>>]
      <4>1. req \in [Tasks -> Calls] /\ got \in [Tasks -> Seq(Bytes)] /\ <<>> \in Seq(Bytes)
        BY DEF TypeOK
      <4>2. req'[t] = c
        BY <3>4, <4>1
      <4> QED BY <3>1, <3>4, <4>1, <4>2
    <3> QED BY <3>1, <3>3, <3>4
  <2>2. CASE SeekLoad(t) \/ SeekStore(t)
    BY <2>2 DEF SeekLoad, SeekStore, Goto, TypeOK
  <2> QED BY <2>1, <2>2
<1>4. pc'[t] = "store" => req'[t].op = "seek" /\ req'[t].orig = "cur"
  BY DEF SeekCheck, SeekLoad, SeekStore, Goto, TypeOK, CallInv
<1>5. f_pos' \in [Files -> Int] /\ sum' \in [Tasks -> Int] /\ ret' \in [Tasks -> Int]
      /\ \A u \in Tasks : u # t => ret'[u] = ret[u]
  <2>1. CASE SeekCheck(t)
    BY <2>1, Constants DEF SeekCheck, Return, TypeOK
  <2>2. CASE SeekLoad(t)
    <3>1. req[t].off \in Int /\ Pos(t) \in Int
      <4>1. pc[t] = "load" /\ req[t] \in Calls
        BY <2>2 DEF SeekLoad, Goto, TypeOK
      <4>2. req[t].op = "seek"
        BY <4>1 DEF CallInv
      <4> QED BY <4>1, <4>2, CallFacts DEF TypeOK, Pos, Files
    <3> QED BY <2>2, <3>1 DEF SeekLoad, TypeOK
  <2>3. CASE SeekStore(t)
    BY <2>3 DEF SeekStore, Return, MovePos, TypeOK
  <2> QED BY <2>1, <2>2, <2>3
<1>6. TypeOK'
  BY <1>1, <1>2, <1>3, <1>5, Zenon DEF TypeOK
<1>7. ASSUME NEW u \in Tasks PROVE CallInv(u)'
  <2>1. CASE u = t
    BY <1>2, <1>3, <1>4, <2>1 DEF CallInv
  <2>2. CASE u # t
    BY <1>1, <1>2, <1>3, <1>5, <2>2, CallFrame
  <2> QED BY <2>1, <2>2
<1>8. LockInv'
  BY <1>1, <1>2 DEF LockInv, TypeOK
<1> QED BY <1>6, <1>7, <1>8

LEMMA NextInv == Inv /\ [Next]_vars => Inv'
<1> SUFFICES ASSUME Inv, [Next]_vars PROVE Inv'
  OBVIOUS
<1>1. CASE \E t \in Tasks : Step(t) \/ Lock(t) \/ Contend(t) \/ UserStep(t)
  BY <1>1, CopyByteStep, UnlockStep, FinishStep, SeekStep, LockStep, ContendStep,
     OutsideStep, NoIoctlStep, EnterStep DEF Step, UserStep
<1>2. CASE UNCHANGED vars
  BY <1>2, CallFrame DEF vars, Inv, TypeOK, LockInv
<1> QED BY <1>1, <1>2 DEF Next

(* The types, what a call has set, and who holds the mutex, in every state. *)
THEOREM Invariance == Spec => []Inv
BY NextInv, InitInv, PTL DEF Spec

(* Every variable has its type, so that every access is inside the memory  *)
(* of the device.                                                          *)
THEOREM TypeCorrect == Spec => []TypeOK
<1>1. Inv => TypeOK
  BY DEF Inv
<1> QED BY <1>1, Invariance, PTL

-----------------------------------------------------------------------------
(* Positions.  Between its test and its store a relative seek has the file *)
(* to itself, unless there is a race.                                      *)
PosInv == /\ \A f \in Files : f_pos[f] \in 0 .. SIZE
          /\ \A t \in Tasks : pc[t] = "load" => Pos(t) + req[t].off \in 0 .. SIZE
          /\ \A t \in Tasks : pc[t] = "store" => sum[t] \in 0 .. SIZE

LEMMA Unshared ==
  ASSUME ~RacySeek, Inv, NEW t \in Tasks, pc[t] \in {"load", "store"},
         NEW u \in Tasks, u # t
  PROVE  FileOf[u] # FileOf[t]
<1>1. req[t] \in Calls /\ req[t].op = "seek" /\ req[t].orig = "cur"
  BY DEF Inv, TypeOK, CallInv
<1> QED BY <1>1 DEF RacySeek

(* Only the position of one task's file changes, and nothing of the others.*)
LEMMA PosFrame ==
  ASSUME ~RacySeek, Inv, PosInv, NEW t \in Tasks, NEW p \in 0 .. SIZE,
         MovePos(t, p) \/ UNCHANGED f_pos,
         \A u \in Tasks : u # t => pc'[u] = pc[u] /\ req'[u] = req[u] /\ sum'[u] = sum[u],
         pc'[t] = "load" => Pos(t)' + req'[t].off \in 0 .. SIZE,
         pc'[t] = "store" => sum'[t] \in 0 .. SIZE
  PROVE  PosInv'
<1>1. \A f \in Files : f_pos'[f] \in 0 .. SIZE
  BY DEF MovePos, Inv, TypeOK, PosInv
<1>2. ASSUME NEW u \in Tasks, u # t, pc[u] \in {"load", "store"} PROVE Pos(u)' = Pos(u)
  <2>1. FileOf[t] # FileOf[u] /\ FileOf[u] \in Files
    BY <1>2, Unshared DEF Files
  <2>2. f_pos \in [Files -> Int]
    BY DEF Inv, TypeOK
  <2> QED BY <2>1, <2>2 DEF MovePos, Pos
<1> QED BY <1>1, <1>2 DEF PosInv

LEMMA PosStep == ASSUME ~RacySeek, Inv, PosInv, [Next]_vars PROVE PosInv'
<1> USE DEF Inv
<1>0. 0 \in 0 .. SIZE /\ \A u \in Tasks : FileOf[u] \in Files
  BY Constants DEF Files
<1>1. ASSUME NEW t \in Tasks, Refused(t) \/ NoIoctl(t) \/ Enter(t) \/ CopyByte(t) \/ Unlock(t)
                              \/ Lock(t) \/ Contend(t)
      PROVE  PosInv'
  <2>1. /\ UNCHANGED <<f_pos, sum>> /\ pc'[t] \notin {"load", "store"}
        /\ \A u \in Tasks : u # t => pc'[u] = pc[u] /\ req'[u] = req[u]
    BY <1>1 DEF Refused, NoIoctl, Enter, CopyByte, Unlock, Lock, Contend, Goto, TypeOK
  <2> QED BY <1>0, <2>1, PosFrame
<1>2. ASSUME NEW t \in Tasks, Finish(t) PROVE PosInv'
  <2>1. /\ UNCHANGED <<req, sum>> /\ pc[t] = "return" /\ pc'[t] = "idle"
        /\ \A u \in Tasks : u # t => pc'[u] = pc[u]
    BY <1>2 DEF Finish, Goto, TypeOK
  <2>2. CASE UNCHANGED f_pos
    BY <1>0, <2>1, <2>2, PosFrame
  <2>3. CASE req[t].op # "clear" /\ ret[t] >= 0 /\ MovePos(t, at[t] + ret[t])
    <3>1. /\ ret[t] \in {EFAULT} \cup 0 .. SIZE - at[t]
          /\ at[t] \in 0 .. SIZE - 1
      BY <2>1, <2>3 DEF CallInv, TypeOK
    <3>2. at[t] + ret[t] \in 0 .. SIZE
      BY <2>3, <3>1, Constants
    <3> QED BY <2>1, <2>3, <3>2, PosFrame
  <2> QED BY <1>2, <2>2, <2>3 DEF Finish
<1>3. ASSUME NEW t \in Tasks, NEW c \in Calls, c.op = "seek", SeekSet(t, c.off) PROVE PosInv'
  <2>1. UNCHANGED <<pc, req, sum>> /\ pc[t] = "idle" /\ pc'[t] = "idle"
    BY <1>3 DEF SeekSet
  <2>2. CASE UNCHANGED f_pos
    BY <1>0, <2>1, <2>2, PosFrame
  <2>3. CASE c.off >= 0 /\ c.off % UINT <= SIZE /\ MovePos(t, c.off % UINT)
    <3>1. c.off \in Int
      BY <1>3, CallFacts
    <3>2. c.off % UINT \in 0 .. SIZE
      BY <2>3, <3>1, Constants
    <3> QED BY <2>1, <2>3, <3>2, PosFrame
  <2> QED BY <1>3, <2>2, <2>3 DEF SeekSet
<1>4. ASSUME NEW t \in Tasks, SeekCheck(t) PROVE PosInv'
  <2>1. /\ UNCHANGED <<f_pos, sum>> /\ pc'[t] # "store" /\ pc[t] = "idle"
        /\ \A u \in Tasks : u # t => pc'[u] = pc[u] /\ req'[u] = req[u]
    BY <1>4 DEF SeekCheck, Goto, TypeOK
  <2>2. pc'[t] = "load" => Pos(t)' + req'[t].off \in 0 .. SIZE
    BY <1>4 DEF SeekCheck, Goto, TypeOK, InFile, Pos
  <2> QED BY <1>0, <2>1, <2>2, PosFrame
<1>5. ASSUME NEW t \in Tasks, SeekLoad(t) PROVE PosInv'
  <2>1. /\ UNCHANGED <<f_pos, req>> /\ pc[t] = "load" /\ pc'[t] = "store"
        /\ \A u \in Tasks : u # t => pc'[u] = pc[u] /\ sum'[u] = sum[u]
        /\ sum'[t] = Pos(t) + req[t].off
    BY <1>5 DEF SeekLoad, Goto, TypeOK
  <2>2. sum'[t] \in 0 .. SIZE
    BY <2>1 DEF PosInv
  <2> QED BY <1>0, <2>1, <2>2, PosFrame
<1>6. ASSUME NEW t \in Tasks, SeekStore(t) PROVE PosInv'
  <2>1. /\ UNCHANGED <<req, sum>> /\ pc[t] = "store" /\ pc'[t] = "idle"
        /\ \A u \in Tasks : u # t => pc'[u] = pc[u]
        /\ MovePos(t, sum[t])
    BY <1>6 DEF SeekStore, Goto, TypeOK
  <2>2. sum[t] \in 0 .. SIZE
    BY <2>1 DEF PosInv
  <2> QED BY <2>1, <2>2, PosFrame
<1>7. CASE UNCHANGED vars
  BY <1>7 DEF vars, PosInv, Pos
<1> QED BY <1>1, <1>2, <1>3, <1>4, <1>5, <1>6, <1>7 DEF Next, Step, UserStep

(* The position of a file stays within the memory, end included, unless    *)
(* two tasks race with relative seeks on one open file.                    *)
THEOREM PositionSafety == Spec => []PositionInRange
<1>1. CASE RacySeek
  <2>1. PositionInRange
    BY <1>1 DEF PositionInRange
  <2> QED BY <2>1, PTL
<1>2. CASE ~RacySeek
  <2>1. Init => PosInv
    BY Constants DEF Init, PosInv
  <2>2. Inv /\ PosInv /\ [Next]_vars => PosInv'
    BY <1>2, PosStep
  <2>3. PosInv => PositionInRange
    BY DEF PosInv, PositionInRange
  <2> QED BY <2>1, <2>2, <2>3, Invariance, PTL DEF Spec
<1> QED BY <1>1, <1>2

-----------------------------------------------------------------------------
(* With the mutex, the device implements AtomicMemory: what Store and      *)
(* Delivered are when nobody copies, and when t does.                      *)
Ahead(t, i) == req[t].op # "read" /\ i \in at[t] + done[t] .. at[t] + Goal(t) - 1

Rest(t) == [i \in 1 .. Goal(t) - done[t] |-> mem[at[t] + done[t] + i - 1]]

NobodyCopies == (\A t \in Tasks : pc[t] # "copy") => Store = mem /\ Delivered = got

OneCopies ==
  \A t \in Tasks : pc[t] = "copy" =>
    /\ Store = [i \in 0 .. SIZE - 1 |-> IF Ahead(t, i) THEN Stored(t, i - at[t]) ELSE mem[i]]
    /\ Delivered = [u \in Tasks |-> IF u = t /\ req[t].op = "read" THEN got[t] \o Rest(t)
                                                                   ELSE got[u]]

LEMMA SharedMemory == Inv /\ MUTEX => NobodyCopies /\ OneCopies
<1> SUFFICES ASSUME Inv, MUTEX PROVE NobodyCopies /\ OneCopies
  OBVIOUS
<1>0. mem \in [0 .. SIZE - 1 -> Bytes] /\ got \in [Tasks -> Seq(Bytes)]
  BY DEF Inv, TypeOK
<1>1. ASSUME \A t \in Tasks : pc[t] # "copy" PROVE Store = mem /\ Delivered = got
  <2>1. \A i \in 0 .. SIZE - 1 : Writing(i) = {}
    BY <1>1 DEF Writing
  <2>2. Store = [i \in 0 .. SIZE - 1 |-> mem[i]]
    BY <2>1 DEF Store
  <2>3. Delivered = [t \in Tasks |-> got[t]]
    BY <1>1 DEF Delivered
  <2> QED BY <1>0, <2>2, <2>3
<1>2. ASSUME NEW t \in Tasks, pc[t] = "copy"
      PROVE  /\ Store = [i \in 0 .. SIZE - 1 |-> IF Ahead(t, i) THEN Stored(t, i - at[t]) ELSE mem[i]]
             /\ Delivered = [u \in Tasks |-> IF u = t /\ req[t].op = "read" THEN got[t] \o Rest(t)
                                                                            ELSE got[u]]
  <2>1. \A u \in Tasks : pc[u] = "copy" <=> u = t
    BY <1>2 DEF Inv, LockInv
  <2>2. req[t].op \in {"read", "write", "clear"}
    BY <1>2, CopyFacts
  <2>3. ASSUME NEW i \in 0 .. SIZE - 1
        PROVE  (IF Writing(i) = {} THEN mem[i]
                ELSE LET u == CHOOSE u \in Writing(i) : TRUE IN Stored(u, i - at[u]))
               = IF Ahead(t, i) THEN Stored(t, i - at[t]) ELSE mem[i]
    <3>1. Writing(i) = IF Ahead(t, i) THEN {t} ELSE {}
      BY <2>1, <2>2 DEF Writing, Ahead
    <3>2. (CHOOSE u \in {t} : TRUE) = t
      OBVIOUS
    <3> QED BY <3>1, <3>2
  <2>4. Store = [i \in 0 .. SIZE - 1 |-> IF Ahead(t, i) THEN Stored(t, i - at[t]) ELSE mem[i]]
    BY <2>3, Zenon DEF Store
  <2>5. ASSUME NEW u \in Tasks
        PROVE  Delivered[u] = IF u = t /\ req[t].op = "read" THEN got[t] \o Rest(t) ELSE got[u]
    BY <2>1 DEF Delivered, Rest
  <2>6. Delivered = [u \in Tasks |-> Delivered[u]]
    BY DEF Delivered
  <2> QED BY <2>4, <2>5, <2>6
<1> QED BY <1>1, <1>2 DEF NobodyCopies, OneCopies

(* A step of a task that copies neither before nor after it.               *)
LEMMA StoreSame ==
  ASSUME Inv, mem' = mem,
         \A u \in Tasks : /\ pc'[u] = "copy" <=> pc[u] = "copy"
                          /\ pc[u] = "copy" => /\ req'[u] = req[u] /\ at'[u] = at[u]
                                               /\ done'[u] = done[u] /\ got'[u] = got[u]
  PROVE  /\ Store' = Store
         /\ \A u \in Tasks : got'[u] = got[u] => Delivered'[u] = Delivered[u]
         /\ \A u \in Tasks : pc[u] # "copy" => Delivered'[u] = got'[u]
<1>0. \A u \in Tasks : pc[u] = "copy" => Goal(u)' = Goal(u)
  BY DEF Goal, Count
<1>1. ASSUME NEW i \in 0 .. SIZE - 1
      PROVE  (IF Writing(i) = {} THEN mem[i]
              ELSE LET u == CHOOSE u \in Writing(i) : TRUE IN Stored(u, i - at[u]))'
             = IF Writing(i) = {} THEN mem[i]
               ELSE LET u == CHOOSE u \in Writing(i) : TRUE IN Stored(u, i - at[u])
  <2>1. Writing(i)' = Writing(i)
    BY <1>0 DEF Writing
  <2>2. ASSUME NEW u \in Writing(i) PROVE Stored(u, i - at[u])' = Stored(u, i - at[u])
    BY <2>2 DEF Writing, Stored
  <2>3. Writing(i) # {} => (CHOOSE u \in Writing(i) : TRUE) \in Writing(i)
    OBVIOUS
  <2> QED BY <2>1, <2>2, <2>3
<1>2. Store' = Store
  BY <1>1, Zenon DEF Store
<1>3. ASSUME NEW u \in Tasks, got'[u] = got[u] PROVE Delivered'[u] = Delivered[u]
  BY <1>0, <1>3 DEF Delivered
<1>4. ASSUME NEW u \in Tasks, pc[u] # "copy" PROVE Delivered'[u] = got'[u]
  BY <1>4 DEF Delivered
<1> QED BY <1>2, <1>3, <1>4

LEMMA BusyStep ==
  ASSUME NEW t \in Tasks, NEW b \in BOOLEAN, \A u \in Tasks : u # t => pc'[u] = pc[u],
         \A u \in Tasks : u # t /\ pc[u] = "return" => ret'[u] = ret[u],
         b <=> \/ pc'[t] \in {"lock", "load", "store", "oops"}
               \/ pc'[t] = "return" /\ ret'[t] = ENOTTY
  PROVE  Busy' = [Busy EXCEPT ![t] = b]
<1>1. ASSUME NEW u \in Tasks PROVE Busy'[u] = IF u = t THEN b ELSE Busy[u]
  BY DEF Busy
<1>2. Busy' = [u \in Tasks |-> Busy'[u]] /\ Busy = [u \in Tasks |-> Busy[u]]
  BY DEF Busy
<1> QED BY <1>1, <1>2

(* The position and the call of a task that enters a handler.              *)
LEMMA EnterImplements ==
  ASSUME Inv, NEW t \in Tasks, Enter(t)
  PROVE  Memory!Invoke(t)
<1> USE DEF Inv
<1>1. PICK c \in Calls :
        /\ (c.op \in {"read", "write"} /\ Inside(Pos(t))) \/ c.op = "clear"
        /\ req' = [req EXCEPT ![t] = c]
        /\ at' = [at EXCEPT ![t] = IF c.op = "clear" THEN 0 ELSE Pos(t)]
  BY DEF Enter
<1>2. /\ UNCHANGED <<mem, f_pos, mutex, sum, ret>>
      /\ pc[t] = "idle" /\ pc' = [pc EXCEPT ![t] = "lock"]
      /\ got' = [got EXCEPT ![t] = <<>>] /\ done' = [done EXCEPT ![t] = 0]
  BY DEF Enter, Goto
<1>3. (IF c.op = "clear" THEN 0 ELSE Pos(t)) \in 0 .. SIZE - 1
  BY <1>1, Constants DEF Inside
<1>4. \E p \in 0 .. SIZE - 1 : at' = [at EXCEPT ![t] = p]
  BY <1>1, <1>3
<1>5. pc'[t] = "lock" /\ \A u \in Tasks : u # t => pc'[u] = pc[u]
  BY <1>2 DEF TypeOK
<1>6. ~Busy[t] /\ Busy' = [Busy EXCEPT ![t] = TRUE]
  <2>1. ~Busy[t]
    BY <1>2 DEF Busy
  <2> QED BY <1>2, <1>5, <2>1, BusyStep
<1>7. /\ Store' = Store
      /\ \A u \in Tasks : got'[u] = got[u] => Delivered'[u] = Delivered[u]
      /\ Delivered'[t] = got'[t]
  BY <1>1, <1>2, <1>5, StoreSame DEF TypeOK
<1>8. Delivered' = [Delivered EXCEPT ![t] = <<>>]
  <2>1. got'[t] = <<>> /\ \A u \in Tasks : u # t => got'[u] = got[u]
    BY <1>2 DEF TypeOK
  <2>2. Delivered' = [u \in Tasks |-> Delivered'[u]] /\ Delivered = [u \in Tasks |-> Delivered[u]]
    BY DEF Delivered
  <2> QED BY <1>7, <2>1, <2>2
<1> QED BY <1>1, <1>4, <1>6, <1>7, <1>8 DEF Memory!Invoke

(* A MEM_CLEAR that does not reach its handler is a call without effect.   *)
LEMMA NoIoctlImplements ==
  ASSUME Inv, NEW t \in Tasks, NoIoctl(t)
  PROVE  Memory!Invoke(t)
<1> USE DEF Inv
<1>1. /\ UNCHANGED <<mem, f_pos, mutex, done, sum>>
      /\ pc[t] = "idle" /\ pc' = [pc EXCEPT ![t] = "return"]
      /\ MemClear \in Calls /\ req' = [req EXCEPT ![t] = MemClear]
      /\ at' = [at EXCEPT ![t] = 0] /\ got' = [got EXCEPT ![t] = <<>>]
      /\ ret' = [ret EXCEPT ![t] = ENOTTY]
  BY DEF NoIoctl, Goto, Return
<1>2. /\ pc'[t] = "return" /\ ret'[t] = ENOTTY /\ got'[t] = <<>>
      /\ \A u \in Tasks : u # t => pc'[u] = pc[u] /\ got'[u] = got[u] /\ ret'[u] = ret[u]
  BY <1>1 DEF TypeOK
<1>3. ~Busy[t] /\ Busy' = [Busy EXCEPT ![t] = TRUE]
  <2>1. ~Busy[t]
    BY <1>1 DEF Busy
  <2> QED BY <1>2, <2>1, BusyStep
<1>4. /\ Store' = Store
      /\ \A u \in Tasks : got'[u] = got[u] => Delivered'[u] = Delivered[u]
      /\ Delivered'[t] = got'[t]
  BY <1>1, <1>2, StoreSame DEF TypeOK
<1>5. Delivered' = [Delivered EXCEPT ![t] = <<>>]
  <2>1. Delivered' = [u \in Tasks |-> Delivered'[u]] /\ Delivered = [u \in Tasks |-> Delivered[u]]
    BY DEF Delivered
  <2> QED BY <1>2, <1>4, <2>1
<1>6. \E p \in 0 .. SIZE - 1 : at' = [at EXCEPT ![t] = p]
  BY <1>1, Constants
<1> QED BY <1>1, <1>3, <1>4, <1>5, <1>6 DEF Memory!Invoke

(* Steps of a call outside of the copy, with what they do to busy.         *)
LEMMA OutsideImplements ==
  ASSUME Inv, MUTEX, NEW t \in Tasks,
         \/ Refused(t) \/ Contend(t) \/ Finish(t) \/ SeekCheck(t) \/ SeekLoad(t) \/ SeekStore(t)
         \/ \E c \in Calls : c.op = "seek" /\ SeekSet(t, c.off)
  PROVE  [Memory!Next]_Memory!vars
<1> USE DEF Inv
<1>1. /\ UNCHANGED <<mem, at, done>> /\ pc[t] # "copy" /\ pc'[t] # "copy"
      /\ pc' \in [Tasks -> {"idle", "lock", "copy", "return", "load", "store", "oops"}]
      /\ \A u \in Tasks : u # t => pc'[u] = pc[u]
  BY DEF Refused, Contend, Finish, SeekCheck, SeekLoad, SeekStore, SeekSet, Goto, TypeOK
<1>2. \A u \in Tasks : u # t => req'[u] = req[u] /\ got'[u] = got[u] /\ ret'[u] = ret[u]
  BY DEF Refused, Contend, Finish, SeekCheck, SeekLoad, SeekStore, SeekSet, Return, TypeOK
<1>3. /\ Store' = Store
      /\ \A u \in Tasks : got'[u] = got[u] => Delivered'[u] = Delivered[u]
      /\ Delivered'[t] = got'[t]
  BY <1>1, <1>2, StoreSame
<1>4. Delivered' = [u \in Tasks |-> Delivered'[u]] /\ Delivered = [u \in Tasks |-> Delivered[u]]
      /\ Busy = [u \in Tasks |-> Busy[u]]
  BY DEF Delivered, Busy
<1>5. ASSUME NEW b \in BOOLEAN,
             b <=> \/ pc'[t] \in {"lock", "load", "store", "oops"}
                   \/ pc'[t] = "return" /\ ret'[t] = ENOTTY
      PROVE  Busy' = [Busy EXCEPT ![t] = b]
  BY <1>1, <1>2, <1>5, BusyStep
<1>6. CASE pc[t] = "idle" /\ pc'[t] = "load"
  <2>1. SeekCheck(t)
    BY <1>6 DEF Refused, Contend, Finish, SeekCheck, SeekLoad, SeekStore, SeekSet, Goto, TypeOK
  <2>2. PICK c \in Calls : req' = [req EXCEPT ![t] = c] /\ got' = [got EXCEPT ![t] = <<>>]
    BY <1>6, <2>1 DEF SeekCheck
  <2>3. ~Busy[t] /\ Busy' = [Busy EXCEPT ![t] = TRUE]
    BY <1>5, <1>6 DEF Busy
  <2>4. \E p \in 0 .. SIZE - 1 : at' = [at EXCEPT ![t] = p]
    BY <1>1 DEF TypeOK
  <2>5. Delivered' = [Delivered EXCEPT ![t] = <<>>]
    BY <1>2, <1>3, <1>4, <2>2 DEF TypeOK
  <2>6. Memory!Invoke(t)
    BY <1>3, <2>2, <2>3, <2>4, <2>5 DEF Memory!Invoke
  <2> QED BY <2>6 DEF Memory!Next
<1>7. CASE ~(pc[t] = "idle" /\ pc'[t] = "load")
  <2>1. UNCHANGED <<req, got>>
    BY <1>7 DEF Refused, Contend, Finish, SeekCheck, SeekLoad, SeekStore, SeekSet, Goto, TypeOK
  <2>2. Delivered' = Delivered
    BY <1>3, <1>4, <2>1
  <2>3. CASE pc[t] = "store" \/ (pc[t] = "return" /\ ret[t] = ENOTTY)
    <3>1. Busy[t]
      BY <2>3 DEF Busy
    <3>2. pc'[t] = "idle"
      BY <2>3 DEF Refused, Contend, Finish, SeekCheck, SeekLoad, SeekStore, SeekSet, Goto, TypeOK
    <3>3. Busy' = [Busy EXCEPT ![t] = FALSE]
      BY <1>5, <3>2
    <3>4. Memory!Decline(t)
      BY <1>1, <1>3, <2>1, <2>2, <3>1, <3>3 DEF Memory!Decline, Memory!TakeEffect
    <3> QED BY <3>4 DEF Memory!Next
  <2>4. CASE pc[t] # "store" /\ ~(pc[t] = "return" /\ ret[t] = ENOTTY)
    <3>1. \/ pc[t] = "idle" /\ pc'[t] = "idle"
          \/ pc[t] = "lock" /\ pc'[t] = "oops"
          \/ pc[t] = "return" /\ pc'[t] = "idle"
          \/ pc[t] = "load" /\ pc'[t] = "store"
      BY <1>7, <2>4 DEF Refused, Contend, Finish, SeekCheck, SeekLoad, SeekStore, SeekSet,
                        Goto, TypeOK
    <3>3. /\ Busy[t] <=> pc'[t] \in {"lock", "load", "store", "oops"}
          /\ Busy[t] \in BOOLEAN /\ pc'[t] # "return"
      BY <2>4, <3>1 DEF Busy
    <3>4. Busy' = [Busy EXCEPT ![t] = Busy[t]]
      BY <1>5, <3>3
    <3>5. Busy' = Busy
      BY <1>4, <3>4
    <3> QED BY <1>1, <1>3, <2>1, <2>2, <3>5 DEF Memory!vars
  <2> QED BY <2>3, <2>4
<1> QED BY <1>6, <1>7

(* With the lock taken the whole of the call has its effect.               *)
LEMMA LockImplements ==
  ASSUME Inv, Inv', MUTEX, NEW t \in Tasks, Lock(t)
  PROVE  Memory!Take(t) \/ Memory!Put(t) \/ Memory!Clear(t)
<1> USE DEF Inv
<1> DEFINE R == req[t]
           p == at[t]
           n == Goal(t)
<1>1. /\ UNCHANGED <<mem, f_pos, req, at, got, done, sum, ret>>
      /\ pc[t] = "lock" /\ pc' = [pc EXCEPT ![t] = "copy"] /\ mutex = {}
  BY DEF Lock, Goto
<1>2. /\ pc'[t] = "copy" /\ (\A u \in Tasks : u # t => pc'[u] = pc[u])
      /\ \A u \in Tasks : pc[u] # "copy"
  BY <1>1 DEF TypeOK, LockInv
<1>3. /\ NobodyCopies /\ OneCopies'
  <2>1. NobodyCopies
    BY SharedMemory
  <2>2. MUTEX' = MUTEX
    OBVIOUS
  <2>3. Inv' /\ MUTEX => OneCopies'
    BY SharedMemory, PTL
  <2> QED BY <2>1, <2>3
<1>4. /\ R \in Calls /\ R.op \in {"read", "write", "clear"} /\ p \in 0 .. SIZE - 1
      /\ n \in 0 .. SIZE - p /\ (R.op = "clear" => p = 0)
      /\ done[t] = 0 /\ got[t] = <<>>
  <2>1. /\ R \in Calls /\ p \in 0 .. SIZE - 1 /\ R.op # "seek" /\ (R.op = "clear" => p = 0)
        /\ done[t] = 0 /\ got[t] = <<>>
    BY <1>1 DEF TypeOK, CallInv
  <2>2. n \in 0 .. SIZE - p
    BY <2>1, GoalFacts
  <2> QED BY <2>1, <2>2, CallFacts
<1>5. Store = mem /\ Delivered = got
  BY <1>2, <1>3 DEF NobodyCopies
<1>6. /\ Store' = [i \in 0 .. SIZE - 1 |->
                     IF R.op # "read" /\ i \in p .. p + n - 1 THEN Stored(t, i - p) ELSE mem[i]]
      /\ Delivered' = [u \in Tasks |->
                         IF u = t /\ R.op = "read"
                         THEN <<>> \o [i \in 1 .. n |-> mem[p + i - 1]] ELSE got[u]]
  <2>1. /\ Ahead(t, 0)' = Ahead(t, 0)
        /\ \A i \in 0 .. SIZE - 1 : Ahead(t, i)' <=> R.op # "read" /\ i \in p .. p + n - 1
        /\ \A i \in 0 .. SIZE - 1 : Stored(t, i - at[t])' = Stored(t, i - p)
    BY <1>1, <1>4, Constants DEF Ahead, Stored, Goal, Count
  <2>2. got'[t] = <<>> /\ Rest(t)' = [i \in 1 .. n |-> mem[p + i - 1]]
    <3>1. \A i \in Int : (p + 0) + i - 1 = p + i - 1
      BY <1>4
    <3>2. n - 0 = n
      BY <1>4
    <3>3. Rest(t)' = [i \in 1 .. n - 0 |-> mem[(p + 0) + i - 1]]
      BY <1>1, <1>4 DEF Rest, Goal, Count
    <3> QED BY <1>1, <1>4, <3>1, <3>2, <3>3
  <2>3. /\ Store' = [i \in 0 .. SIZE - 1 |-> IF Ahead(t, i)' THEN Stored(t, i - at[t])' ELSE mem'[i]]
        /\ Delivered' = [u \in Tasks |-> IF u = t /\ req'[t].op = "read" THEN got'[t] \o Rest(t)'
                                                                         ELSE got'[u]]
    BY <1>2, <1>3 DEF OneCopies
  <2>4. Store' = [i \in 0 .. SIZE - 1 |->
                     IF R.op # "read" /\ i \in p .. p + n - 1 THEN Stored(t, i - p) ELSE mem[i]]
    BY <1>1, <2>1, <2>3
  <2>5. Delivered' = [u \in Tasks |->
                         IF u = t /\ R.op = "read"
                         THEN <<>> \o [i \in 1 .. n |-> mem[p + i - 1]] ELSE got[u]]
    BY <1>1, <2>2, <2>3
  <2> QED BY <2>4, <2>5
<1>7. Memory!TakeEffect(t)
  <2>1. Busy[t]
    BY <1>1 DEF Busy
  <2>2. Busy' = [Busy EXCEPT ![t] = FALSE]
    BY <1>1, <1>2, BusyStep
  <2> QED BY <1>1, <2>1, <2>2 DEF Memory!TakeEffect
<1>8. mem \in [0 .. SIZE - 1 -> Bytes] /\ got \in [Tasks -> Seq(Bytes)]
  BY DEF TypeOK
<1> HIDE DEF n
<1>9. CASE R.op = "read"
  <2>1. Store' = Store
    BY <1>5, <1>6, <1>8, <1>9
  <2>2. n \in Memory!Reach(t, R.size)
    <3>1. R.size \in Nat /\ R.ok \in Nat
      BY <1>4, <1>9, CallFacts
    <3>2. n <= R.size
      BY <1>4, <1>9, <3>1, Constants DEF n, Goal, Count, Asked, Least
    <3> QED BY <1>4, <3>1, <3>2, Constants DEF Memory!Reach
  <2>3. Delivered' = [Delivered EXCEPT ![t] = [i \in 1 .. n |-> Store[p + i - 1]]]
    <3>1. [i \in 1 .. n |-> mem[p + i - 1]] \in Seq(Bytes)
      <4>1. ASSUME NEW i \in 1 .. n PROVE mem[p + i - 1] \in Bytes
        <5>1. p + i - 1 \in 0 .. SIZE - 1
          BY <1>4, Constants
        <5> QED BY <1>8, <5>1
      <4>2. n \in Nat
        BY <1>4, Constants
      <4> QED BY <4>1, <4>2
    <3>2. <<>> \o [i \in 1 .. n |-> mem[p + i - 1]] = [i \in 1 .. n |-> mem[p + i - 1]]
      BY <3>1
    <3> QED BY <1>5, <1>6, <1>8, <1>9, <3>2
  <2> QED BY <1>7, <1>9, <2>1, <2>2, <2>3 DEF Memory!Take
<1>10. CASE R.op = "write"
  <2> DEFINE L == Len(R.buf)
             k == Least(R.ok, L)
  <2>1. L \in Nat /\ R.ok \in Nat /\ k \in 0 .. L
    BY <1>4, <1>10, CallFacts DEF Least
  <2>2. Delivered' = Delivered
    BY <1>5, <1>6, <1>8, <1>10
  <2>3. n = Least(L, SIZE - p)
    BY <1>10 DEF n, Goal, Count, Asked
  <2>4. ASSUME NEW i \in 0 .. SIZE - 1
        PROVE  (IF R.op # "read" /\ i \in p .. p + n - 1 THEN Stored(t, i - p) ELSE mem[i])
               = CASE i - p \in 0 .. k - 1 -> R.buf[i - p + 1]
                   [] i - p \in k .. L - 1 -> 0
                   [] OTHER -> mem[i]
    <3>1. i - p \in Int /\ (i \in p .. p + n - 1 <=> i - p \in 0 .. L - 1)
      <4> HIDE DEF L
      <4> QED BY <1>4, <2>1, <2>3, Constants DEF Least
    <3>2. i - p \in 0 .. L - 1 =>
            /\ i - p < R.ok <=> i - p \in 0 .. k - 1
            /\ ~(i - p < R.ok) <=> i - p \in k .. L - 1
      <4> HIDE DEF L
      <4> QED BY <2>1, <3>1 DEF Least
    <3>3. (i - p \in 0 .. k - 1 \/ i - p \in k .. L - 1) <=> i - p \in 0 .. L - 1
      <4> HIDE DEF L, k
      <4> QED BY <2>1, <3>1
    <3>4. ~(i - p \in 0 .. k - 1 /\ i - p \in k .. L - 1)
      <4> HIDE DEF L, k
      <4> QED BY <2>1, <3>1
    <3> HIDE DEF L, k
    <3> QED BY <1>10, <3>1, <3>2, <3>3, <3>4 DEF Stored
  <2>5. Store' = [i \in DOMAIN Store |->
                    CASE i - p \in 0 .. k - 1 -> R.buf[i - p + 1]
                      [] i - p \in k .. L - 1 -> 0
                      [] OTHER -> Store[i]]
    <3>1. DOMAIN Store = 0 .. SIZE - 1
      BY <1>5, <1>8
    <3> HIDE DEF k, L
    <3> QED BY <1>5, <1>6, <2>4, <3>1
  <2> QED BY <1>7, <1>10, <2>1, <2>2, <2>5 DEF Memory!Put
<1>11. CASE R.op = "clear"
  <2>1. n = SIZE /\ p = 0
    BY <1>4, <1>11 DEF n, Goal, Count
  <2>2. Delivered' = Delivered
    BY <1>5, <1>6, <1>8, <1>11
  <2>3. Store' = [i \in DOMAIN Store |-> 0]
    <3>1. \A i \in 0 .. SIZE - 1 : i \in p .. p + n - 1 /\ Stored(t, i - p) = 0
      BY <1>11, <2>1, Constants DEF Stored
    <3>2. DOMAIN Store = 0 .. SIZE - 1
      BY <1>5, <1>8
    <3> QED BY <1>6, <1>11, <3>1, <3>2
  <2> QED BY <1>7, <1>11, <2>2, <2>3 DEF Memory!Clear
<1> QED BY <1>4, <1>9, <1>10, <1>11

LEMMA MovedOver ==
  ASSUME NEW g \in Seq(Bytes), NEW x \in Seq(Bytes), NEW y \in Seq(Bytes), NEW v \in Bytes,
         Len(x) = Len(y) + 1, x[1] = v, \A j \in 1 .. Len(y) : x[j + 1] = y[j]
  PROVE  Append(g, v) \o y = g \o x
<1> DEFINE h == Append(g, v)
<1>1. /\ h \in Seq(Bytes) /\ Len(h) = Len(g) + 1 /\ h[Len(g) + 1] = v
      /\ \A j \in 1 .. Len(g) : h[j] = g[j]
  OBVIOUS
<1>2. Len(g) \in Nat /\ Len(x) \in Nat /\ Len(y) \in Nat
  OBVIOUS
<1> HIDE DEF h
<1>3. /\ h \o y \in Seq(Bytes) /\ g \o x \in Seq(Bytes)
      /\ Len(h \o y) = Len(h) + Len(y) /\ Len(g \o x) = Len(g) + Len(x)
  BY <1>1, ConcatProperties, Zenon
<1>4. Len(h \o y) = Len(g \o x)
  BY <1>1, <1>2, <1>3
<1>5. ASSUME NEW j \in 1 .. Len(g \o x) PROVE (h \o y)[j] = (g \o x)[j]
  <2>1. j \in Nat /\ j >= 1 /\ j <= Len(g) + Len(x)
    BY <1>2, <1>3
  <2>2. CASE j <= Len(g)
    <3>1. j \in 1 .. Len(g) /\ j \in 1 .. Len(h)
      BY <1>1, <1>2, <2>1, <2>2
    <3> QED BY <1>1, <3>1
  <2>3. CASE j = Len(g) + 1
    <3>1. j \in 1 .. Len(h) /\ (h \o y)[j] = h[j]
      BY <1>1, <1>2, <2>3
    <3>2. (g \o x)[j] = x[j - Len(g)] /\ j - Len(g) = 1
      BY <1>2, <2>1, <2>3
    <3> QED BY <1>1, <2>3, <3>1, <3>2
  <2>4. CASE j > Len(g) + 1
    <3>1. j - Len(g) - 1 \in 1 .. Len(y) /\ (j - Len(g) - 1) + 1 = j - Len(g)
      BY <1>2, <2>1, <2>4
    <3>2. (g \o x)[j] = x[j - Len(g)]
      BY <1>2, <2>1, <2>4
    <3>3. (h \o y)[j] = y[j - Len(h)] /\ j - Len(h) = j - Len(g) - 1
      <4>1. j \in 1 .. Len(h) + Len(y) /\ j > Len(h)
        BY <1>1, <1>2, <2>1, <2>4
      <4>2. (h \o y)[j] = y[j - Len(h)]
        BY <1>1, <1>2, <4>1
      <4>3. j - Len(h) = j - Len(g) - 1
        BY <1>1, <1>2, <2>1
      <4> QED BY <4>2, <4>3
    <3>4. x[(j - Len(g) - 1) + 1] = y[j - Len(g) - 1]
      BY <3>1, Zenon
    <3>5. x[j - Len(g)] = y[j - Len(g) - 1]
      BY <3>1, <3>4, Zenon
    <3> QED BY <3>2, <3>3, <3>5, Zenon
  <2>5. j <= Len(g) \/ j = Len(g) + 1 \/ j > Len(g) + 1
    BY <1>2, <2>1
  <2> QED BY <2>2, <2>3, <2>4, <2>5, Zenon
<1>6. h \o y = g \o x
  BY <1>3, <1>4, <1>5, SeqEqual, Zenon
<1> QED BY <1>6 DEF h

(* The n bytes of m from position q on.                                    *)
Span(m, q, n) == [j \in 1 .. n |-> m[q + j - 1]]

(* One byte of the rest of a read, moved into what has been delivered.     *)
LEMMA OneByteOver ==
  ASSUME NEW g \in Seq(Bytes), NEW m \in [0 .. SIZE - 1 -> Bytes],
         NEW q \in Nat, NEW n \in Nat, n > 0, q + n <= SIZE
  PROVE  Append(g, m[q]) \o Span(m, q + 1, n - 1) = g \o Span(m, q, n)
<1> DEFINE x == Span(m, q, n)
           y == Span(m, q + 1, n - 1)
<1>1. SIZE \in Nat /\ q \in 0 .. SIZE - 1 /\ m[q] \in Bytes
  BY Constants
<1>2. x \in Seq(Bytes) /\ Len(x) = n
  <2>1. ASSUME NEW j \in 1 .. n PROVE m[q + j - 1] \in Bytes
    BY <1>1
  <2> QED BY <2>1 DEF Span
<1>3. y \in Seq(Bytes) /\ Len(y) = n - 1
  <2>1. ASSUME NEW j \in 1 .. n - 1 PROVE m[(q + 1) + j - 1] \in Bytes
    BY <1>1
  <2> QED BY <2>1 DEF Span
<1>4. x[1] = m[q] /\ \A j \in 1 .. Len(y) : x[j + 1] = y[j]
  BY <1>3 DEF Span
<1> HIDE DEF x, y
<1>5. Len(x) = Len(y) + 1
  BY <1>2, <1>3
<1>7. Append(g, m[q]) \o y = g \o x
  BY <1>1, <1>2, <1>3, <1>4, <1>5, MovedOver
<1> QED BY <1>7 DEF x, y

(* The copy itself changes nothing that can be seen.                       *)
LEMMA CopyImplements ==
  ASSUME Inv, Inv', MUTEX, NEW t \in Tasks, CopyByte(t)
  PROVE  UNCHANGED Memory!vars
<1> USE DEF Inv
<1> DEFINE p == at[t]
           n == Goal(t)
           d == done[t]
           i == at[t] + done[t]
<1>1. /\ UNCHANGED <<f_pos, mutex, pc, req, at, sum, ret>>
      /\ pc[t] = "copy" /\ d < n /\ done' = [done EXCEPT ![t] = @ + 1]
      /\ \/ req[t].op = "read" /\ got' = [got EXCEPT ![t] = Append(@, mem[i])] /\ UNCHANGED mem
         \/ /\ req[t].op \in {"write", "clear"}
            /\ mem' = [mem EXCEPT ![i] = Stored(t, d)] /\ UNCHANGED got
  BY DEF CopyByte, Put
<1>2. OneCopies /\ OneCopies'
  <2>1. OneCopies
    BY SharedMemory
  <2>2. Inv' /\ MUTEX => OneCopies'
    BY SharedMemory, PTL
  <2> QED BY <2>1, <2>2
<1>3. /\ p \in 0 .. SIZE - 1 /\ d \in 0 .. n /\ n \in 0 .. SIZE - p
      /\ got[t] \in Seq(Bytes) /\ i \in 0 .. SIZE - 1
  <2>1. p \in 0 .. SIZE - 1 /\ d \in 0 .. n /\ n \in 0 .. SIZE - p /\ got[t] \in Seq(Bytes)
    BY <1>1, CopyFacts
  <2> HIDE DEF p, d, n
  <2>2. p + d \in 0 .. SIZE - 1
    BY <1>1, <2>1, Constants
  <2> QED BY <2>1, <2>2 DEF p, d
<1>4. done'[t] = d + 1 /\ Goal(t)' = n /\ pc'[t] = "copy"
  BY <1>1 DEF TypeOK, Goal, Count
<1>5. mem \in [0 .. SIZE - 1 -> Bytes] /\ got \in [Tasks -> Seq(Bytes)]
      /\ mem' \in [0 .. SIZE - 1 -> Bytes]
  BY DEF TypeOK
<1>6. /\ Store = [j \in 0 .. SIZE - 1 |-> IF Ahead(t, j) THEN Stored(t, j - p) ELSE mem[j]]
      /\ Delivered = [u \in Tasks |-> IF u = t /\ req[t].op = "read" THEN got[t] \o Rest(t)
                                                                     ELSE got[u]]
      /\ Store' = [j \in 0 .. SIZE - 1 |-> IF Ahead(t, j)' THEN Stored(t, j - p) ELSE mem'[j]]
      /\ Delivered' = [u \in Tasks |-> IF u = t /\ req[t].op = "read" THEN got'[t] \o Rest(t)'
                                                                      ELSE got'[u]]
  <2>1. /\ Store' = [j \in 0 .. SIZE - 1 |-> IF Ahead(t, j)' THEN Stored(t, j - at[t])' ELSE mem'[j]]
        /\ Delivered' = [u \in Tasks |-> IF u = t /\ req'[t].op = "read" THEN got'[t] \o Rest(t)'
                                                                         ELSE got'[u]]
    BY <1>2, <1>4 DEF OneCopies
  <2>2. \A j \in 0 .. SIZE - 1 : Stored(t, j - at[t])' = Stored(t, j - p)
    BY <1>1 DEF Stored
  <2>3. /\ Store = [j \in 0 .. SIZE - 1 |-> IF Ahead(t, j) THEN Stored(t, j - p) ELSE mem[j]]
        /\ Delivered = [u \in Tasks |-> IF u = t /\ req[t].op = "read" THEN got[t] \o Rest(t)
                                                                       ELSE got[u]]
    BY <1>1, <1>2 DEF OneCopies
  <2> QED BY <1>1, <2>1, <2>2, <2>3
<1>7. Store' = Store
  <2>1. ASSUME NEW j \in 0 .. SIZE - 1
        PROVE  (IF Ahead(t, j)' THEN Stored(t, j - p) ELSE mem'[j])
               = IF Ahead(t, j) THEN Stored(t, j - p) ELSE mem[j]
    <3>1. CASE req[t].op = "read"
      BY <1>1, <3>1 DEF Ahead
    <3>2. CASE req[t].op \in {"write", "clear"}
      <4>1. mem' = [mem EXCEPT ![i] = Stored(t, d)]
        BY <1>1, <3>2
      <4>2. /\ Ahead(t, j) <=> j \in i .. p + n - 1
            /\ Ahead(t, j)' <=> j \in p + (d + 1) .. p + n - 1
        BY <1>1, <1>4, <3>2 DEF Ahead
      <4>3. CASE j = i
        <5>1. j - p = d /\ j \in i .. p + n - 1 /\ j \notin p + (d + 1) .. p + n - 1
          <6> HIDE DEF p, d, n
          <6>1. j = p + d
            BY <4>3 DEF p, d
          <6>2. j - p = d /\ j <= p + n - 1 /\ ~(p + (d + 1) <= j)
            BY <1>1, <1>3, <6>1
          <6> QED BY <1>3, <4>3, <6>1, <6>2 DEF i, p, d
        <5> QED BY <1>3, <1>5, <4>1, <4>2, <4>3, <5>1
      <4>4. CASE j # i
        <5>1. j \in i .. p + n - 1 <=> j \in p + (d + 1) .. p + n - 1
          BY <1>3, <4>4
        <5> QED BY <1>5, <4>1, <4>2, <4>4, <5>1
      <4> QED BY <4>3, <4>4
    <3> QED BY <1>1, <3>1, <3>2
  <2> QED BY <1>6, <2>1, Zenon
<1>8. Delivered' = Delivered
  <2>1. CASE req[t].op = "read"
    <3>1. /\ mem' = mem /\ got'[t] = Append(got[t], mem[i])
          /\ \A u \in Tasks : u # t => got'[u] = got[u]
      BY <1>1, <1>5, <2>1
    <3>2. Append(got[t], mem[i]) \o Rest(t)' = got[t] \o Rest(t)
      <4> DEFINE q == p + d
                 k == n - d
      <4>1. q \in Nat /\ k \in Nat /\ k > 0 /\ q + k <= SIZE
            /\ p + (d + 1) = q + 1 /\ n - (d + 1) = k - 1
        <5>1. p \in Nat /\ n \in Nat /\ d \in Nat /\ p + n <= SIZE
          BY <1>3, Constants
        <5> HIDE DEF p, n, d
        <5> QED BY <1>1, <1>3, <5>1
      <4>2. Rest(t) = Span(mem, q, k)
        BY DEF Rest, Span
      <4>3. Rest(t)' = [j \in 1 .. n - (d + 1) |-> mem[p + (d + 1) + j - 1]]
        BY <1>1, <1>4, <3>1 DEF Rest
      <4>4. Rest(t)' = Span(mem, q + 1, k - 1)
        <5> HIDE DEF p, n, d, q, k
        <5> QED BY <4>1, <4>3 DEF Span
      <4>5. got[t] \in Seq(Bytes) /\ mem \in [0 .. SIZE - 1 -> Bytes] /\ i = q
        BY <1>3, <1>5
      <4> HIDE DEF q, k, i
      <4>6. Append(got[t], mem[q]) \o Span(mem, q + 1, k - 1) = got[t] \o Span(mem, q, k)
        BY <4>1, <4>5, OneByteOver
      <4> QED BY <4>2, <4>4, <4>5, <4>6
    <3> QED BY <1>6, <2>1, <3>1, <3>2
  <2>2. CASE req[t].op # "read"
    BY <1>1, <1>6, <2>2
  <2> QED BY <2>1, <2>2
<1>9. Busy' = Busy
  BY <1>1 DEF Busy
<1> QED BY <1>1, <1>7, <1>8, <1>9 DEF Memory!vars

(* Nor does the return from it: the whole call has been copied.            *)
LEMMA UnlockImplements ==
  ASSUME Inv, Inv', MUTEX, NEW t \in Tasks, Unlock(t)
  PROVE  UNCHANGED Memory!vars
<1> USE DEF Inv
<1>1. /\ UNCHANGED <<mem, f_pos, req, at, got, done, sum>>
      /\ pc[t] = "copy" /\ pc' = [pc EXCEPT ![t] = "return"] /\ done[t] = Goal(t)
  BY DEF Unlock, Goto
<1>2. pc'[t] = "return" /\ \A u \in Tasks : u # t => pc'[u] = pc[u] /\ ret'[u] = ret[u]
  BY <1>1 DEF TypeOK, Unlock, Return
<1>3. OneCopies /\ NobodyCopies'
  <2>1. OneCopies
    BY SharedMemory
  <2>2. Inv' /\ MUTEX => NobodyCopies'
    BY SharedMemory, PTL
  <2> QED BY <2>1, <2>2
<1>4. Goal(t) \in Nat /\ at[t] \in Nat /\ got[t] \in Seq(Bytes)
      /\ mem \in [0 .. SIZE - 1 -> Bytes] /\ got \in [Tasks -> Seq(Bytes)]
  BY <1>1, CopyFacts, Constants DEF TypeOK
<1>5. Store' = mem /\ Delivered' = got
  <2>1. \A u \in Tasks : pc'[u] # "copy"
    BY <1>1, <1>2 DEF LockInv
  <2> QED BY <1>1, <1>3, <2>1 DEF NobodyCopies
<1>6. Store = mem
  <2>1. \A i \in 0 .. SIZE - 1 : ~Ahead(t, i)
    BY <1>1, <1>4, Constants DEF Ahead
  <2>2. Store = [i \in 0 .. SIZE - 1 |-> mem[i]]
    BY <1>1, <1>3, <2>1 DEF OneCopies
  <2> QED BY <1>4, <2>2
<1>7. Delivered = got
  <2>1. Rest(t) = <<>>
    BY <1>1, <1>4 DEF Rest
  <2>2. got[t] \o <<>> = got[t]
    <3>1. got[t] \in Seq(Bytes)
      BY <1>4, Zenon
    <3> QED BY <3>1, ConcatEmptySeq, Zenon
  <2>3. Delivered = [u \in Tasks |-> got[u]]
    <3>1. Delivered = [u \in Tasks |->
                         IF u = t /\ req[t].op = "read" THEN got[t] \o Rest(t)
                         ELSE got[u]]
      BY <1>1, <1>3, Zenon DEF OneCopies
    <3>2. got[t] \o Rest(t) = got[t]
      BY <2>1, <2>2, Zenon
    <3> QED BY <3>1, <3>2, Zenon
  <2>4. got = [u \in Tasks |-> got[u]]
    BY <1>4, Zenon
  <2> QED BY <2>3, <2>4, Zenon
<1>8. Busy' = Busy
  <2>0. Count(t) \in Nat
    BY <1>1, CopyFacts, Constants
  <2>1. ret'[t] # ENOTTY
    BY <1>1, <2>0, Constants DEF Unlock, Return, TypeOK
  <2> QED BY <1>1, <1>2, <2>1 DEF Busy
<1> QED BY <1>1, <1>5, <1>6, <1>7, <1>8 DEF Memory!vars

LEMMA MemoryInit == MUTEX /\ Init => Memory!Init
<1> SUFFICES ASSUME MUTEX, Init PROVE Memory!Init
  OBVIOUS
<1>1. Inv /\ NobodyCopies
  BY InitInv, SharedMemory
<1>2. \A t \in Tasks : pc[t] = "idle"
  BY DEF Init
<1>3. Store = [i \in 0 .. SIZE - 1 |-> 0] /\ Delivered = [t \in Tasks |-> <<>>]
  BY <1>1, <1>2 DEF NobodyCopies, Init
<1>4. Busy = [t \in Tasks |-> FALSE]
  BY <1>2 DEF Busy
<1>5. req \in [Tasks -> Calls] /\ at \in [Tasks -> {0}]
  BY <1>1 DEF Inv, TypeOK, Init
<1> QED BY <1>3, <1>4, <1>5 DEF Memory!Init

LEMMA MemoryNext == MUTEX /\ Inv /\ Inv' /\ [Next]_vars => [Memory!Next]_Memory!vars
<1> SUFFICES ASSUME MUTEX, Inv, Inv', [Next]_vars PROVE [Memory!Next]_Memory!vars
  OBVIOUS
<1>1. ASSUME NEW t \in Tasks, Step(t) \/ Lock(t) \/ Contend(t) \/ UserStep(t)
      PROVE  [Memory!Next]_Memory!vars
  <2>1. CASE CopyByte(t)
    BY <2>1, CopyImplements
  <2>2. CASE Unlock(t)
    BY <2>2, UnlockImplements
  <2>3. CASE Lock(t)
    BY <2>3, LockImplements DEF Memory!Next
  <2>4. CASE Enter(t)
    BY <2>4, EnterImplements DEF Memory!Next
  <2>5. CASE \/ Refused(t) \/ Contend(t) \/ Finish(t)
             \/ SeekCheck(t) \/ SeekLoad(t) \/ SeekStore(t)
             \/ \E c \in Calls : c.op = "seek" /\ SeekSet(t, c.off)
    BY <2>5, OutsideImplements
  <2>6. CASE NoIoctl(t)
    BY <2>6, NoIoctlImplements DEF Memory!Next
  <2> QED BY <1>1, <2>1, <2>2, <2>3, <2>4, <2>5, <2>6, Zenon DEF Step, UserStep
<1>2. CASE UNCHANGED vars
  <2>1. Store' = Store /\ Delivered' = Delivered
    BY <1>2 DEF vars, Store, Delivered, Writing, Goal, Count, Stored
  <2>2. Busy' = Busy
    BY <1>2 DEF vars, Busy
  <2> QED BY <1>2, <2>1, <2>2 DEF vars, Memory!vars
<1> QED BY <1>1, <1>2 DEF Next

(* In the build with the mutex, every read, write and MEM_CLEAR has the    *)
(* effect of one atomic step on the memory, for any tasks and any calls.   *)
THEOREM MemoryImplementation == ASSUME MUTEX PROVE Spec => ImplementsMemory
<1>1. Init => Memory!Init
  BY MemoryInit
<1>2. Inv /\ Inv' /\ [Next]_vars => [Memory!Next]_Memory!vars
  BY MemoryNext
<1> QED BY <1>1, <1>2, Invariance, PTL DEF Spec, ImplementsMemory, Memory!Spec
=============================================================================
