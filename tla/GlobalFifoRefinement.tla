------------------------ MODULE GlobalFifoRefinement ------------------------
(***************************************************************************)
(* GlobalFifo implements BoundedFifo, if memcpy copies from low to high    *)
(* addresses: every step of a task is a step of its call in the abstract   *)
(* FIFO, or changes nothing there.                                         *)
(***************************************************************************)
EXTENDS GlobalFifoProofs, SequenceTheorems

(* The first len bytes of an array, as a sequence. *)
Front(m, len) == [i \in 1 .. len |-> m[i - 1]]

LEMMA FrontType ==
  ASSUME NEW m \in [0 .. SIZE - 1 -> Bytes], NEW len \in 0 .. SIZE
  PROVE  /\ Front(m, len) \in Seq(Bytes)
         /\ Len(Front(m, len)) = len
         /\ \A i \in 1 .. len : Front(m, len)[i] = m[i - 1]
<1>1. \A i \in 1 .. len : m[i - 1] \in Bytes
  BY SizeAssumption
<1>2. len \in Nat
  BY SizeAssumption
<1>3. Front(m, len) \in [1 .. len -> Bytes]
  BY <1>1 DEF Front
<1> QED BY <1>2, <1>3 DEF Front

(* The bytes a read copies out are the front of the queue. *)
LEMMA FrontTaken ==
  ASSUME NEW m \in [0 .. SIZE - 1 -> Bytes], NEW len \in 0 .. SIZE, NEW n \in 0 .. len
  PROVE  Front(m, n) = SubSeq(Front(m, len), 1, n)
<1> DEFINE q == Front(m, len)
           p == SubSeq(q, 1, n)
<1>1. q \in Seq(Bytes) /\ Len(q) = len /\ \A i \in 1 .. len : q[i] = m[i - 1]
  BY FrontType
<1>2. n \in 0 .. SIZE /\ n \in Nat
  BY SizeAssumption
<1>3. /\ Front(m, n) \in Seq(Bytes)
      /\ Len(Front(m, n)) = n
      /\ \A i \in 1 .. n : Front(m, n)[i] = m[i - 1]
  BY <1>2, FrontType
<1> HIDE DEF q
<1>4. \A i \in 1 .. n : q[i] \in Bytes
  BY <1>1, ElementOfSeq, SizeAssumption
<1>5. p \in Seq(Bytes) /\ Len(p) = n /\ \A i \in 1 .. n : p[i] = q[i]
  BY <1>2, <1>4, SubSeqProperties, SizeAssumption
<1>6. \A i \in 1 .. n : p[i] = Front(m, n)[i]
  BY <1>1, <1>3, <1>5, SizeAssumption
<1> HIDE DEF p
<1>7. p = Front(m, n)
  BY <1>3, <1>5, <1>6, SeqEqual
<1> QED BY <1>7 DEF p, q

(* What memcpy moves to the front is the rest of the queue. *)
LEMMA FrontShifted ==
  ASSUME NEW m \in [0 .. SIZE - 1 -> Bytes], NEW len \in 0 .. SIZE, NEW n \in 0 .. len
  PROVE  Front(Shifted(m, n, len, "forward"), len - n) = SubSeq(Front(m, len), n + 1, len)
<1> DEFINE q == Front(m, len)
           p == SubSeq(q, n + 1, len)
           s == Shifted(m, n, len, "forward")
           r == Front(s, len - n)
<1>1. q \in Seq(Bytes) /\ Len(q) = len /\ \A i \in 1 .. len : q[i] = m[i - 1]
  BY FrontType
<1>2. len - n \in 0 .. SIZE /\ n \in Nat /\ len \in Nat
  BY SizeAssumption
<1>3. s \in [0 .. SIZE - 1 -> Bytes]
  BY ShiftedType
<1>4. \A i \in 0 .. SIZE - 1 : i < len - n => s[i] = m[i + n]
  <2> SUFFICES ASSUME NEW i \in 0 .. SIZE - 1, i < len - n PROVE s[i] = m[i + n]
    OBVIOUS
  <2>1. i \in DOMAIN m
    OBVIOUS
  <2>2. s[i] = IF i >= len - n \/ n = 0 THEN m[i] ELSE m[i + n]
    BY <2>1 DEF Shifted
  <2>3. ~ (i >= len - n)
    BY <1>2
  <2>4. n = 0 => i + n = i
    OBVIOUS
  <2> QED BY <2>2, <2>3, <2>4
<1> HIDE DEF s
<1>5. r \in Seq(Bytes) /\ Len(r) = len - n /\ \A i \in 1 .. len - n : r[i] = s[i - 1]
  BY <1>2, <1>3, FrontType
<1> HIDE DEF q
<1>6. \A i \in n + 1 .. len : q[i] \in Bytes
  BY <1>1, <1>2, ElementOfSeq
<1>7. /\ p \in Seq(Bytes)
      /\ Len(p) = IF n + 1 <= len THEN len - (n + 1) + 1 ELSE 0
      /\ \A i \in 1 .. len - (n + 1) + 1 : p[i] = q[n + 1 + i - 1]
  BY <1>2, <1>6, SubSeqProperties
<1>8. Len(p) = len - n /\ \A i \in 1 .. len - n : p[i] = q[n + i]
  BY <1>2, <1>7
<1>9. \A i \in 1 .. len - n : r[i] = p[i]
  <2> SUFFICES ASSUME NEW i \in 1 .. len - n PROVE r[i] = p[i]
    OBVIOUS
  <2>1. i - 1 \in 0 .. SIZE - 1 /\ i - 1 < len - n /\ n + i \in 1 .. len
    BY <1>2, SizeAssumption
  <2>2. r[i] = m[i - 1 + n]
    BY <1>4, <1>5, <2>1
  <2>3. p[i] = m[n + i - 1]
    BY <1>1, <1>8, <2>1
  <2>4. i - 1 + n = n + i - 1
    BY <1>2
  <2> QED BY <2>2, <2>3, <2>4
<1> HIDE DEF r, p
<1>10. r = p
  BY <1>5, <1>7, <1>8, <1>9, SeqEqual
<1> QED BY <1>10 DEF r, p, q, s

(* What copy_from_user puts behind the data is appended to the queue. *)
LEMMA FrontExtended ==
  ASSUME NEW m \in [0 .. SIZE - 1 -> Bytes], NEW len \in 0 .. SIZE,
         NEW b \in Seq(Bytes), NEW n \in 0 .. SIZE - len, n <= Len(b)
  PROVE  Front([i \in DOMAIN m |-> IF i \in len .. len + n - 1
                                   THEN b[i - len + 1] ELSE m[i]], len + n)
           = Front(m, len) \o SubSeq(b, 1, n)
<1> DEFINE w == [i \in DOMAIN m |-> IF i \in len .. len + n - 1
                                    THEN b[i - len + 1] ELSE m[i]]
           q == Front(m, len)
           p == SubSeq(b, 1, n)
           r == Front(w, len + n)
<1>1. q \in Seq(Bytes) /\ Len(q) = len /\ \A i \in 1 .. len : q[i] = m[i - 1]
  BY FrontType
<1>2. len + n \in 0 .. SIZE /\ n \in Nat /\ len \in Nat
  BY SizeAssumption
<1>3. \A i \in 1 .. n : b[i] \in Bytes
  BY <1>2, ElementOfSeq, LenProperties
<1>4. w \in [0 .. SIZE - 1 -> Bytes]
  BY <1>2, <1>3
<1>5. /\ \A i \in 0 .. SIZE - 1 : i < len => w[i] = m[i]
      /\ \A i \in 0 .. SIZE - 1 : i >= len /\ i < len + n => w[i] = b[i - len + 1]
  BY <1>2
<1> HIDE DEF w
<1>6. r \in Seq(Bytes) /\ Len(r) = len + n /\ \A i \in 1 .. len + n : r[i] = w[i - 1]
  BY <1>2, <1>4, FrontType
<1>7. p \in Seq(Bytes) /\ Len(p) = n /\ \A i \in 1 .. n : p[i] = b[i]
  BY <1>2, <1>3, SubSeqProperties
<1> HIDE DEF q, p, r
<1>8. /\ q \o p \in Seq(Bytes)
      /\ Len(q \o p) = len + n
      /\ \A i \in 1 .. len + n : (q \o p)[i] = IF i <= len THEN q[i] ELSE p[i - len]
  BY <1>1, <1>7, ConcatProperties
<1>9. \A i \in 1 .. len + n : r[i] = (q \o p)[i]
  <2> SUFFICES ASSUME NEW i \in 1 .. len + n PROVE r[i] = (q \o p)[i]
    OBVIOUS
  <2>1. i - 1 \in 0 .. SIZE - 1
    BY <1>2, SizeAssumption
  <2>2. CASE i <= len
    <3>1. i \in 1 .. len /\ i - 1 < len
      BY <2>2, <1>2
    <3> QED BY <1>1, <1>5, <1>6, <1>8, <2>1, <2>2, <3>1
  <2>3. CASE ~ (i <= len)
    <3>1. i - len \in 1 .. n /\ i - 1 >= len /\ i - 1 < len + n /\ i - 1 - len + 1 = i - len
      BY <2>3, <1>2
    <3>2. r[i] = w[i - 1] /\ (q \o p)[i] = p[i - len]
      BY <1>6, <1>8, <2>3
    <3>3. w[i - 1] = b[i - 1 - len + 1]
      BY <1>5, <2>1, <3>1
    <3>4. p[i - len] = b[i - len]
      BY <1>7, <3>1
    <3> QED BY <3>1, <3>2, <3>3, <3>4
  <2> QED BY <2>2, <2>3
<1>10. r = q \o p
  BY <1>6, <1>8, <1>9, SeqEqual
<1> QED BY <1>10 DEF r, p, q, w

-----------------------------------------------------------------------------
(* What a step of GlobalFifo is in BoundedFifo. *)

LEMMA ContentsAreFront == Contents = Front(mem, current_len)
  BY DEF Contents, Front

(* A step within a call, before or after it takes effect, shows nothing.   *)
LEMMA StutterStep ==
  ASSUME TypeOK, NEW t \in Tasks, NEW from, NEW to, Goto(t, from, to),
         from \in Undecided <=> to \in Undecided,
         UNCHANGED <<current_len, mem, req, got>>
  PROVE  UNCHANGED Fifo!vars
<1>1. Contents' = Contents
  BY DEF Contents
<1>2. \A u \in Tasks : (pc'[u] \in Undecided) = (pc[u] \in Undecided)
  BY DEF TypeOK, Goto
<1>3. Busy' = Busy
  BY <1>2 DEF Busy
<1> QED BY <1>1, <1>3 DEF Fifo!vars

(* A call whose fate is decided is no longer busy; nobody else is affected. *)
LEMMA DecidedStep ==
  ASSUME TypeOK, NEW t \in Tasks, NEW from \in Undecided, NEW to, Goto(t, from, to),
         to \notin Undecided, UNCHANGED req
  PROVE  Fifo!TakeEffect(t)
<1>1. Busy[t]
  BY DEF Busy, Goto
<1>2. \A u \in Tasks : (pc'[u] \in Undecided) = (IF u = t THEN FALSE ELSE pc[u] \in Undecided)
  <2>1. pc' = [pc EXCEPT ![t] = to] /\ pc \in [Tasks -> Locations]
    BY DEF TypeOK, Goto
  <2>2. (pc'[t] \in Undecided) = FALSE
    BY <2>1
  <2>3. \A u \in Tasks : u # t => (pc'[u] \in Undecided) = (pc[u] \in Undecided)
    BY <2>1
  <2> QED BY <2>2, <2>3
<1>3. Busy' = [Busy EXCEPT ![t] = FALSE]
  BY <1>2 DEF Busy
<1> QED BY <1>1, <1>3 DEF Fifo!TakeEffect

LEMMA DeclineStep ==
  ASSUME TypeOK, NEW t \in Tasks, NEW from \in Undecided, NEW to, Goto(t, from, to),
         to \notin Undecided, UNCHANGED <<current_len, mem, req, got>>
  PROVE  Fifo!Decline(t)
<1>1. Fifo!TakeEffect(t)
  BY DecidedStep
<1>2. Contents' = Contents
  BY DEF Contents
<1> QED BY <1>1, <1>2 DEF Fifo!Decline

LEMMA InvokeStep ==
  ASSUME TypeInv, NEW t \in Tasks, Call(t)
  PROVE  Fifo!Invoke(t)
<1>1. PICK c \in Calls[t] : Goto(t, "idle", Entry(c.op)) /\ req' = [req EXCEPT ![t] = c]
  BY DEF Call
<1>2. Entry(c.op) \in Undecided
  BY CallsTyped, CallFields DEF Entry, Undecided
<1>3. \A u \in Tasks : (pc'[u] \in Undecided) = (IF u = t THEN TRUE ELSE pc[u] \in Undecided)
  BY <1>1, <1>2 DEF TypeInv, TypeOK, Goto
<1>4. Busy' = [Busy EXCEPT ![t] = TRUE]
  BY <1>3 DEF Busy
<1>5. ~ Busy[t]
  BY <1>1 DEF Busy, Goto, Undecided
<1>6. Contents' = Contents /\ got' = [got EXCEPT ![t] = <<>>]
  BY DEF Call, Contents, dev
<1> QED BY <1>1, <1>4, <1>5, <1>6 DEF Fifo!Invoke

(* copy_to_user, memcpy and current_len -= count together are one Take.    *)
LEMMA TakeStep ==
  ASSUME MemcpyOrder = {"forward"}, TypeInv, NEW t \in Tasks, ReadCopy(t)
  PROVE  Fifo!Take(t) \/ Fifo!Decline(t)
<1> DEFINE n == Least(req[t].count, current_len)
<1>1. pc[t] = "r_copy" /\ req[t] \in CallSet /\ req[t].op = "read"
  BY DEF ReadCopy, TypeInv, TypeOK, CallInv, CallMatches, ReadLocs
<1>2. req[t].count \in Nat /\ current_len \in Nat
  BY <1>1, CallFields, SizeAssumption DEF TypeInv, TypeOK
<1>3. n \in Nat /\ n <= current_len
  BY <1>2, LeastBounds
<1>4. mem \in [0 .. SIZE - 1 -> Bytes] /\ current_len \in 0 .. SIZE
  BY DEF TypeInv, TypeOK
<1>5. Contents \in Seq(Bytes) /\ Len(Contents) = current_len
  BY <1>4, FrontType, ContentsAreFront
<1>6. n = Fifo!Least(req[t].count, Len(Contents))
  BY <1>5 DEF Least, Fifo!Least
<1>7. CASE Goto(t, "r_copy", "r_out") /\ UNCHANGED <<dev, req, got>>
  BY <1>7, DeclineStep DEF TypeInv, Undecided, dev
<1>8. CASE /\ Goto(t, "r_copy", "r_wake")
           /\ got' = [got EXCEPT ![t] = [i \in 1 .. n |-> mem[i - 1]]]
           /\ \E o \in MemcpyOrder : mem' = Shifted(mem, n, current_len, o)
           /\ current_len' = current_len - n
           /\ UNCHANGED req
  <2>1. Fifo!TakeEffect(t)
    BY <1>8, DecidedStep DEF TypeInv, Undecided
  <2> HIDE DEF n
  <2>2. n \in 0 .. current_len
    BY <1>2, <1>3
  <2>3. Contents' = Front(mem', current_len')
    BY DEF Contents, Front
  <2>4. mem' = Shifted(mem, n, current_len, "forward")
    BY <1>8
  <2>5. Contents' = SubSeq(Contents, n + 1, Len(Contents))
    BY <1>4, <1>5, <1>8, <2>2, <2>3, <2>4, FrontShifted, ContentsAreFront
  <2>6. [i \in 1 .. n |-> mem[i - 1]] = SubSeq(Contents, 1, n)
    BY <1>4, <2>2, FrontTaken, ContentsAreFront DEF Front
  <2>7. got' = [got EXCEPT ![t] = SubSeq(Contents, 1, n)]
    BY <1>8, <2>6
  <2> QED BY <1>1, <1>6, <2>1, <2>5, <2>7 DEF Fifo!Take
<1> QED BY <1>7, <1>8 DEF ReadCopy

(* copy_from_user and current_len += count together are one Put.           *)
LEMMA PutStep ==
  ASSUME TypeInv, NEW t \in Tasks, WriteCopy(t)
  PROVE  Fifo!Put(t) \/ Fifo!Decline(t)
<1> DEFINE n == Least(Len(req[t].buf), SIZE - current_len)
           m == [i \in DOMAIN mem |-> IF i \in current_len .. current_len + n - 1
                   THEN req[t].buf[i - current_len + 1] ELSE mem[i]]
<1>1. pc[t] = "w_copy" /\ req[t] \in CallSet /\ req[t].op = "write"
  BY DEF WriteCopy, TypeInv, TypeOK, CallInv, CallMatches, WriteLocs
<1>2. req[t].buf \in Seq(Bytes) /\ SIZE - current_len \in Nat /\ current_len \in Nat
  BY <1>1, CallFields, SizeAssumption DEF TypeInv, TypeOK
<1>3. n \in Nat /\ n <= Len(req[t].buf) /\ n <= SIZE - current_len
  <2>1. Len(req[t].buf) \in Nat
    BY <1>2, LenProperties
  <2> QED BY <1>2, <2>1, LeastBounds
<1>4. mem \in [0 .. SIZE - 1 -> Bytes] /\ current_len \in 0 .. SIZE
  BY DEF TypeInv, TypeOK
<1>5. Contents \in Seq(Bytes) /\ Len(Contents) = current_len
  BY <1>4, FrontType, ContentsAreFront
<1>6. n = Fifo!Least(Len(req[t].buf), SIZE - Len(Contents))
  BY <1>5 DEF Least, Fifo!Least
<1>7. CASE Goto(t, "w_copy", "w_out") /\ UNCHANGED <<dev, req, got>>
  BY <1>7, DeclineStep DEF TypeInv, Undecided, dev
<1>8. CASE /\ Goto(t, "w_copy", "w_wake")
           /\ mem' = m
           /\ current_len' = current_len + n
           /\ UNCHANGED <<req, got>>
  <2>1. Fifo!TakeEffect(t)
    BY <1>8, DecidedStep DEF TypeInv, Undecided
  <2>2. Contents' = Front(mem', current_len')
    BY DEF Contents, Front
  <2>3. Front(m, current_len + n) = Front(mem, current_len) \o SubSeq(req[t].buf, 1, n)
    <3> HIDE DEF n
    <3>1. n \in 0 .. SIZE - current_len
      BY <1>2, <1>3
    <3> QED BY <1>2, <1>3, <1>4, <3>1, FrontExtended
  <2> HIDE DEF n, m
  <2>4. Contents' = Contents \o SubSeq(req[t].buf, 1, n)
    BY <1>8, <2>2, <2>3, ContentsAreFront
  <2> QED BY <1>1, <1>6, <1>8, <2>1, <2>4 DEF Fifo!Put
<1> HIDE DEF m, n
<1> QED BY <1>7, <1>8 DEF WriteCopy, m, n

LEMMA ClearStep ==
  ASSUME TypeInv, NEW t \in Tasks, Clear(t)
  PROVE  Fifo!Clear(t)
<1>1. Goto(t, "c_clear", "c_up") /\ UNCHANGED <<req, got>> /\ current_len' = 0
  BY DEF Clear, call
<1>2. req[t].op = "ioctl" /\ req[t].cmd = "FIFO_CLEAR"
  BY <1>1 DEF Goto, TypeInv, CallInv, CallMatches, IoctlLocs
<1>3. Fifo!TakeEffect(t)
  BY <1>1, DecidedStep DEF TypeInv, Undecided
<1>4. Contents' = <<>>
  BY <1>1 DEF Contents
<1> QED BY <1>1, <1>2, <1>3, <1>4 DEF Fifo!Clear

-----------------------------------------------------------------------------
LEMMA RefinementInit == Init => Fifo!Init
<1> SUFFICES ASSUME Init PROVE Fifo!Init
  OBVIOUS
<1>1. Contents = <<>>
  BY DEF Init, Contents
<1>2. Busy = [t \in Tasks |-> FALSE]
  <2>1. \A t \in Tasks : (pc[t] \in Undecided) = FALSE
    <3> SUFFICES ASSUME NEW t \in Tasks PROVE (pc[t] \in Undecided) = FALSE
      OBVIOUS
    <3>1. pc[t] \notin Undecided
      BY DEF Init, Undecided
    <3> QED BY <3>1
  <2> QED BY <2>1 DEF Busy
<1>3. req \in [Tasks -> UNION {Calls[t] : t \in Tasks}]
  BY CallsTyped DEF Init
<1>4. got = [t \in Tasks |-> <<>>]
  BY DEF Init
<1> QED BY <1>1, <1>2, <1>3, <1>4 DEF Fifo!Init

LEMMA RefinementStep ==
  ASSUME MemcpyOrder = {"forward"}, TypeInv, [Next]_vars
  PROVE  [Fifo!Next]_Fifo!vars
<1>1. CASE UNCHANGED vars
  BY <1>1 DEF vars, Fifo!vars, Contents, Busy
<1>2. SUFFICES ASSUME NEW t \in Tasks, SemStep(t) \/ OtherStep(t) \/ UserStep(t)
               PROVE  [Fifo!Next]_Fifo!vars
  BY <1>1 DEF Next
<1> USE DEF TypeInv, dev, call, Undecided
<1>3. CASE SemStep(t)
  <2>1. /\ UNCHANGED <<current_len, mem, req, got>>
        /\ \/ Goto(t, "r_down", "r_check") \/ Goto(t, "r_down2", "r_copy")
           \/ Goto(t, "w_down", "w_check") \/ Goto(t, "w_down2", "w_copy")
           \/ Goto(t, "c_down", "c_clear") \/ Goto(t, "p_down", "p_mask")
    BY <1>3 DEF SemStep, ReadDown, ReadDown2, WriteDown, WriteDown2, ClearDown, PollDown, Down
  <2> QED BY <2>1, StutterStep
<1>4. CASE ReadUp(t) \/ ReadOut(t) \/ WriteUp(t) \/ WriteOut(t) \/ ClearUp(t) \/ PollMask(t)
  <2>1. /\ UNCHANGED <<current_len, mem, req, got>>
        /\ \/ Goto(t, "r_up", "r_sched") \/ Goto(t, "r_out", "r_out2")
           \/ Goto(t, "w_up", "w_sched") \/ Goto(t, "w_out", "w_out2")
           \/ Goto(t, "c_up", "idle")
           \/ Goto(t, "p_mask", "p_free") \/ Goto(t, "p_mask", "p_wait")
    BY <1>4 DEF ReadUp, ReadOut, WriteUp, WriteOut, ClearUp, PollMask, Up
  <2> QED BY <2>1, StutterStep
<1>5. CASE ReadCheck(t) \/ WriteCheck(t)
  <2>1. /\ UNCHANGED <<current_len, mem, req, got>>
        /\ \/ Goto(t, "r_check", "r_copy") \/ Goto(t, "r_check", "r_out")
           \/ Goto(t, "r_check", "r_up")
           \/ Goto(t, "w_check", "w_copy") \/ Goto(t, "w_check", "w_out")
           \/ Goto(t, "w_check", "w_up")
    BY <1>5 DEF ReadCheck, WriteCheck
  <2>2. UNCHANGED Fifo!vars \/ Fifo!Decline(t)
    BY <2>1, StutterStep, DeclineStep
  <2> QED BY <2>2 DEF Fifo!Next
<1>6. CASE ReadSchedule(t) \/ WriteSchedule(t) \/ PollSchedule(t)
  <2>1. /\ UNCHANGED <<current_len, mem, req, got>>
        /\ \/ Goto(t, "r_sched", "r_out2") \/ Goto(t, "r_sched", "r_down2")
           \/ Goto(t, "w_sched", "w_out2") \/ Goto(t, "w_sched", "w_down2")
           \/ Goto(t, "p_wait", "p_free") \/ Goto(t, "p_wait", "p_down")
    BY <1>6 DEF ReadSchedule, WriteSchedule, PollSchedule
  <2>2. UNCHANGED Fifo!vars \/ Fifo!Decline(t)
    BY <2>1, StutterStep, DeclineStep
  <2> QED BY <2>2 DEF Fifo!Next
<1>7. CASE ReadWake(t) \/ WriteWake(t) \/ WriteAsync(t) \/ ReadOut2(t) \/ WriteOut2(t)
  <2>1. /\ UNCHANGED <<current_len, mem, req, got>>
        /\ \/ Goto(t, "r_wake", "r_out") \/ Goto(t, "w_wake", "w_async")
           \/ Goto(t, "w_async", "w_out")
           \/ Goto(t, "r_out2", "idle") \/ Goto(t, "w_out2", "idle")
    BY <1>7 DEF ReadWake, WriteWake, WriteAsync, ReadOut2, WriteOut2
  <2> QED BY <2>1, StutterStep
<1>8. CASE IoctlInvalid(t) \/ SetFasync(t) \/ PollFree(t)
  <2>1. /\ UNCHANGED <<current_len, mem, req, got>>
        /\ Goto(t, "c_down", "idle") \/ Goto(t, "f_set", "idle") \/ Goto(t, "p_free", "idle")
    BY <1>8 DEF IoctlInvalid, SetFasync, PollFree
  <2>2. Fifo!Decline(t)
    BY <2>1, DeclineStep
  <2> QED BY <2>2 DEF Fifo!Next
<1>9. CASE ReadCopy(t)
  BY <1>9, TakeStep DEF Fifo!Next
<1>10. CASE WriteCopy(t)
  BY <1>10, PutStep DEF Fifo!Next
<1>11. CASE Clear(t)
  BY <1>11, ClearStep DEF Fifo!Next
<1>12. CASE Call(t)
  BY <1>12, InvokeStep DEF Fifo!Next
<1>13. CASE Open(t) \/ Release(t) \/ Signal(t) \/ HandleSignal(t)
  BY <1>13 DEF Open, Release, Signal, HandleSignal, Fifo!vars, Contents, Busy
<1> QED
  BY <1>2, <1>3, <1>4, <1>5, <1>6, <1>7, <1>8, <1>9, <1>10, <1>11, <1>12, <1>13
  DEF OtherStep, UserStep

(* globalfifo behaves as an atomic bounded FIFO of SIZE bytes, for any     *)
(* tasks and calls, on a build whose memcpy copies upwards (line 170).     *)
THEOREM FifoImplementation ==
  ASSUME MemcpyOrder = {"forward"}
  PROVE  Spec => ImplementsFifo
<1>1. Inv /\ [Next]_vars => [Fifo!Next]_Fifo!vars
  BY RefinementStep DEF Inv
<1> QED BY RefinementInit, <1>1, Invariance, PTL DEF Spec, ImplementsFifo, Fifo!Spec
=============================================================================
