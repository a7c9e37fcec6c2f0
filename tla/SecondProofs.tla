---------------------------- MODULE SecondProofs ----------------------------
(***************************************************************************)
(* Theorems about Second, for any set of tasks and any modulus: what the   *)
(* seconds device promises an opener that stays alone, whenever the timer  *)
(* handler runs.                                                           *)
(***************************************************************************)
EXTENDS Second, TLAPS

(* Until a second task comes, whoever is inside open or has the device     *)
(* open is the only one.                                                   *)
Alone == \A t, u \in Tasks : pc[t] # "closed" /\ pc[u] # "closed" => t = u

AloneUnlessShared == ~shared => Alone

(* From mod_timer on, the timer is on the wheel or about to be put there.  *)
Armed == ~shared => \A t \in Tasks : pc[t] \in {"armed", "open"}
                                      => timer = "pending" \/ handler = "rearm"

(* A release that met no handler has left a quiet device, and it stays     *)
(* quiet until the next mod_timer.  An unloaded device has no opener.      *)
Quiet == timer # "pending" /\ handler = "off"

QuietBetweenOpens ==
  /\ ~loaded => \A t \in Tasks : pc[t] = "closed"
  /\ ~shared /\ ~raced =>
       /\ ~corrupt
       /\ (\A t \in Tasks : pc[t] \in {"closed", "setup"}) => Quiet

(* The count that a running handler is about to make belongs to a second   *)
(* that has been seen already, or began before the open.                   *)
CountFollows ==
  ~shared => \A t \in Tasks : pc[t] = "open" =>
    IF handler = "off" THEN counter \in {seconds[t], Succ(seconds[t])}
                       ELSE Succ(counter) \in {seconds[t], Succ(seconds[t])}

Inv == TypeOK /\ AloneUnlessShared /\ Armed /\ QuietBetweenOpens /\ CountFollows

-----------------------------------------------------------------------------
(* The counter wraps around inside its range. *)
LEMMA SuccType == \A n \in 0 .. COUNTS - 1 : Succ(n) \in 0 .. COUNTS - 1
  BY CountsAssumption DEF Succ

LEMMA InitInv == Init => Inv
<1> SUFFICES ASSUME Init PROVE Inv
  OBVIOUS
<1>1. TypeOK
  <2>1. 0 \in 0 .. COUNTS - 1
    BY CountsAssumption
  <2>2. counter \in 0 .. COUNTS - 1 /\ seconds \in [Tasks -> 0 .. COUNTS - 1]
    BY <2>1 DEF Init
  <2>3. timer = "zero" => handler = "off" /\ \A t \in Tasks : pc[t] = "closed"
    BY DEF Init
  <2> QED BY <2>2, <2>3, Zenon DEF Init, TypeOK
<1>2. \A t \in Tasks : pc[t] = "closed"
  BY DEF Init
<1>3. AloneUnlessShared /\ Armed /\ QuietBetweenOpens /\ CountFollows
  BY <1>2 DEF Init, AloneUnlessShared, Alone, Armed, QuietBetweenOpens, Quiet, CountFollows
<1> QED BY <1>1, <1>3 DEF Inv

LEMMA TypeStep == TypeOK /\ [Next]_vars => TypeOK'
<1> SUFFICES ASSUME TypeOK, [Next]_vars PROVE TypeOK'
  OBVIOUS
<1> USE SuccType, CountsAssumption DEF TypeOK
<1>1. ASSUME NEW t \in Tasks, OpenSetup(t) PROVE TypeOK'
  BY <1>1 DEF OpenSetup, Goto
<1>2. ASSUME NEW t \in Tasks, OpenArm(t) PROVE TypeOK'
  BY <1>2 DEF OpenArm, Goto
<1>3. ASSUME NEW t \in Tasks, OpenZero(t) PROVE TypeOK'
  BY <1>3 DEF OpenZero, Goto
<1>4. ASSUME NEW t \in Tasks, Release(t) PROVE TypeOK'
  BY <1>4 DEF Release, DelTimer, Goto, Remember
<1>5. CASE Expire
  BY <1>5 DEF Expire
<1>6. CASE HandlerRearm
  BY <1>6 DEF HandlerRearm
<1>7. CASE HandlerCount
  BY <1>7 DEF HandlerCount
<1>8. CASE Exit
  BY <1>8 DEF Exit
<1>9. CASE UNCHANGED vars
  BY <1>9 DEF vars
<1> QED
  BY <1>1, <1>2, <1>3, <1>4, <1>5, <1>6, <1>7, <1>8, <1>9 DEF Next, Tick

LEMMA InvStep == Inv /\ [Next]_vars => Inv'
<1> SUFFICES ASSUME Inv, [Next]_vars PROVE Inv'
  OBVIOUS
<1>0. TypeOK /\ TypeOK'
  BY TypeStep DEF Inv
<1> DEFINE Rest == AloneUnlessShared /\ Armed /\ QuietBetweenOpens /\ CountFollows
<1>00. Rest
  BY DEF Inv
<1> SUFFICES Rest'
  BY <1>0 DEF Inv
<1>1. ASSUME NEW t \in Tasks, OpenSetup(t) PROVE Rest'
  <2>1. pc' = [pc EXCEPT ![t] = "setup"] /\ pc[t] = "closed" /\ loaded
    BY <1>1 DEF OpenSetup, Goto
  <2>2. ~shared' => ~shared /\ \A u \in Tasks \ {t} : pc[u] = "closed"
    BY <1>1 DEF OpenSetup
  <2>3. ~shared' /\ ~raced' => Quiet /\ ~corrupt
    BY <1>1, <1>00, <2>1, <2>2 DEF OpenSetup, QuietBetweenOpens
  <2>4. AloneUnlessShared'
    BY <2>1, <2>2, <1>0 DEF AloneUnlessShared, Alone, TypeOK
  <2>5. Armed'
    BY <2>1, <2>2, <1>0 DEF Armed, TypeOK
  <2>6. QuietBetweenOpens'
    BY <1>1, <2>1, <2>3 DEF QuietBetweenOpens, Quiet, OpenSetup
  <2>7. CountFollows'
    BY <2>1, <2>2, <1>0 DEF CountFollows, TypeOK
  <2> QED BY <2>4, <2>5, <2>6, <2>7
<1>2. ASSUME NEW t \in Tasks, OpenArm(t) PROVE Rest'
  BY <1>2, <1>0, <1>00 DEF OpenArm, Goto, TypeOK, AloneUnlessShared, Alone, Armed,
                           QuietBetweenOpens, Quiet, CountFollows
<1>3. ASSUME NEW t \in Tasks, OpenZero(t) PROVE Rest'
  <2>1. AloneUnlessShared' /\ Armed' /\ QuietBetweenOpens'
    BY <1>3, <1>0, <1>00 DEF OpenZero, Goto, TypeOK, AloneUnlessShared, Alone, Armed,
                             QuietBetweenOpens, Quiet
  <2>2. ASSUME NEW u \in Tasks, ~shared, pc'[u] = "open"
        PROVE  counter' = 0 /\ seconds'[u] = 0
    BY <1>3, <1>0, <1>00, <2>2 DEF OpenZero, Goto, TypeOK, AloneUnlessShared, Alone
  <2> QED BY <1>3, <2>1, <2>2 DEF CountFollows, OpenZero
<1>4. ASSUME NEW t \in Tasks, Release(t), ~corrupt PROVE Rest'
  <2>0. /\ pc' = [pc EXCEPT ![t] = "closed"] /\ pc[t] = "open" /\ UNCHANGED <<loaded, corrupt>>
        /\ timer' # "pending" /\ ~corrupt
    BY <1>4 DEF Release, DelTimer, Goto
  <2>1. ASSUME ~shared', NEW u \in Tasks PROVE pc'[u] = "closed"
    BY <2>0, <2>1, <1>4, <1>0, <1>00 DEF Release, Remember, Last, TypeOK, AloneUnlessShared, Alone
  <2>2. AloneUnlessShared' /\ Armed' /\ CountFollows'
    BY <2>1 DEF AloneUnlessShared, Alone, Armed, CountFollows
  <2>3. ~raced' => handler' = "off"
    BY <1>4 DEF Release, Remember
  <2>4. ~loaded' => \A u \in Tasks : pc'[u] = "closed"
    BY <2>0, <1>0, <1>00 DEF QuietBetweenOpens, TypeOK
  <2>5. QuietBetweenOpens'
    BY <2>0, <2>3, <2>4 DEF QuietBetweenOpens, Quiet
  <2> QED BY <2>2, <2>5
<1>5. CASE Expire
  <2>1. AloneUnlessShared' /\ Armed' /\ QuietBetweenOpens'
    BY <1>5, <1>0, <1>00 DEF Expire, TypeOK, AloneUnlessShared, Alone, Armed,
                             QuietBetweenOpens, Quiet
  <2>2. ASSUME NEW u \in Tasks, pc[u] = "open"
        PROVE  seconds'[u] = Succ(seconds[u])
    BY <1>5, <2>2 DEF Expire
  <2>3. CountFollows'
    BY <1>5, <1>00, <2>2 DEF Expire, CountFollows
  <2> QED BY <2>1, <2>3
<1>6. CASE HandlerRearm
  BY <1>6, <1>0, <1>00 DEF HandlerRearm, TypeOK, AloneUnlessShared, Alone, Armed,
                           QuietBetweenOpens, Quiet, CountFollows
<1>7. CASE HandlerCount
  BY <1>7, <1>0, <1>00 DEF HandlerCount, TypeOK, AloneUnlessShared, Alone, Armed,
                           QuietBetweenOpens, Quiet, CountFollows
<1>8. CASE Exit
  BY <1>8, <1>0, <1>00 DEF Exit, TypeOK, AloneUnlessShared, Alone, Armed,
                           QuietBetweenOpens, Quiet, CountFollows
<1>9. CASE UNCHANGED vars
  BY <1>9, <1>00 DEF vars, AloneUnlessShared, Alone, Armed, QuietBetweenOpens, Quiet,
                     CountFollows
<1> QED
  BY <1>1, <1>2, <1>3, <1>4, <1>5, <1>6, <1>7, <1>8, <1>9 DEF Next, Tick

(* The inductive invariant: the types, the timer, and who has it open.     *)
THEOREM Invariance == Spec => []Inv
  BY InitInv, InvStep, PTL DEF Spec

-----------------------------------------------------------------------------
(* Every variable keeps its type; the counter stays in its range. *)
THEOREM TypeCorrect == Spec => []TypeOK
<1>1. Inv => TypeOK
  BY DEF Inv
<1> QED BY <1>1, Invariance, PTL

(* The device ticks while its only opener has it open, also after a close  *)
(* that met a running handler, and a reopen.                               *)
THEOREM Ticking == Spec => []TicksWhileOpen
<1>1. Inv => TicksWhileOpen
  BY DEF Inv, Armed, TicksWhileOpen
<1> QED BY <1>1, Invariance, PTL

(* Nothing refers to the device after its exit, and no pending timer is    *)
(* set up again, unless a release met a running handler or another task.   *)
THEOREM TimerSafety == Spec => []TimerSafe
<1>1. Inv => TimerSafe
  BY DEF Inv, QuietBetweenOpens, Quiet, TimerSafe
<1> QED BY <1>1, Invariance, PTL

(* The counter is the number of seconds since the open of its only opener, *)
(* give or take one that had begun before.                                 *)
THEOREM SecondsCounted == Spec => []CountsSeconds
<1>1. Inv => CountsSeconds
  BY DEF Inv, CountFollows, CountsSeconds
<1> QED BY <1>1, Invariance, PTL
=============================================================================
