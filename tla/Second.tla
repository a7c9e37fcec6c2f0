------------------------------- MODULE Second -------------------------------
(***************************************************************************)
(* The seconds device of src/second/second.c: one kernel timer and one     *)
(* counter for all openers.  The timer handler runs in a softirq and may   *)
(* meet an open, a release or the module's exit between any two of its     *)
(* steps; nothing in the driver excludes that.                             *)
(***************************************************************************)
EXTENDS Integers

CONSTANTS Tasks,      (* the processes that open the device                *)
          COUNTS      (* bound: the counter is kept modulo COUNTS          *)

ASSUME CountsAssumption == COUNTS \in Nat /\ COUNTS > 1

VARIABLES loaded,     (* devp is allocated                                 *)
          timer,      (* s_timer: "zero" before timer_setup, "inactive",   *)
                      (* "pending"                                         *)
          corrupt,    (* a pending timer was set up again: the timer wheel *)
                      (* links it, and its own links are gone              *)
          handler,    (* where second_timer_handler is                     *)
          counter,
          pc,         (* where each task is                                *)
          seconds,    (* how often the timer has expired since the task's  *)
                      (* open returned                                     *)
          shared,     (* two tasks have had the device open at once, and   *)
                      (* it has not been closed by all since               *)
          raced       (* a release came while the handler was running, and *)
                      (* no last release since that met none               *)

vars == <<loaded, timer, corrupt, handler, counter, pc, seconds, shared, raced>>

Init == /\ loaded = TRUE /\ timer = "zero" /\ corrupt = FALSE
        /\ handler = "off" /\ counter = 0
        /\ pc = [t \in Tasks |-> "closed"]
        /\ seconds = [t \in Tasks |-> 0]
        /\ shared = FALSE /\ raced = FALSE

Goto(t, from, to) == pc[t] = from /\ pc' = [pc EXCEPT ![t] = to]

Succ(n) == (n + 1) % COUNTS

-----------------------------------------------------------------------------
(* Mutant: the timer is started as memset left it. *)
OpenSetupNot(t) == /\ Goto(t, "closed", "setup") /\ loaded
                   /\ shared' = (shared \/ \E u \in Tasks \ {t} : pc[u] # "closed")
                   /\ UNCHANGED <<loaded, timer, corrupt, handler, counter, seconds, raced>>

(* second_open: timer_setup, mod_timer, atomic_set.                        *)
OpenSetup(t) == /\ Goto(t, "closed", "setup") /\ loaded
                /\ timer' = "inactive"
                /\ corrupt' = (corrupt \/ timer = "pending")
                /\ shared' = (shared \/ \E u \in Tasks \ {t} : pc[u] # "closed")
                /\ UNCHANGED <<loaded, handler, counter, seconds, raced>>

(* Mutant: nobody starts the timer. *)
OpenArmNot(t) == /\ Goto(t, "setup", "armed")
                 /\ UNCHANGED <<loaded, timer, corrupt, handler, counter, seconds, shared, raced>>

OpenArm(t) == /\ Goto(t, "setup", "armed")
              /\ timer' = "pending"
              /\ UNCHANGED <<loaded, corrupt, handler, counter, seconds, shared, raced>>

(* Mutant: the count of an earlier opener goes on. *)
OpenZeroNot(t) == /\ Goto(t, "armed", "open")
                  /\ seconds' = [seconds EXCEPT ![t] = 0]
                  /\ UNCHANGED <<loaded, timer, corrupt, handler, counter, shared, raced>>

OpenZero(t) == /\ Goto(t, "armed", "open")
               /\ counter' = 0
               /\ seconds' = [seconds EXCEPT ![t] = 0]
               /\ UNCHANGED <<loaded, timer, corrupt, handler, shared, raced>>

DelTimer == timer' = IF timer = "pending" THEN "inactive" ELSE timer

(* What the release of t leaves to remember: of the last one, whether it   *)
(* met the handler; any other has also disturbed those who stay.           *)
Last(t) == \A u \in Tasks \ {t} : pc[u] = "closed"

Remember(t) == /\ shared' = (shared /\ ~Last(t))
               /\ raced' = (handler # "off" \/ (raced /\ ~Last(t)))

(* Mutant: release leaves the timer alone. *)
ReleaseKeepsTimer(t) ==
  /\ Goto(t, "open", "closed") /\ Remember(t)
  /\ UNCHANGED <<loaded, timer, corrupt, handler, counter, seconds>>

(* second_release: del_timer does not wait for a running handler.          *)
Release(t) == /\ Goto(t, "open", "closed")
              /\ DelTimer /\ Remember(t)
              /\ UNCHANGED <<loaded, corrupt, handler, counter, seconds>>

(* second_exit, once nobody has the device open: devp is freed.            *)
Exit == /\ loaded /\ \A t \in Tasks : pc[t] = "closed"
        /\ loaded' = FALSE
        /\ UNCHANGED <<timer, corrupt, handler, counter, pc, seconds, shared, raced>>

-----------------------------------------------------------------------------
(* The timer softirq takes an expired timer off the wheel and calls the    *)
(* handler; a handler does not overlap with itself.                        *)
Expire == /\ timer = "pending" /\ handler = "off" /\ loaded
          /\ timer' = "inactive" /\ handler' = "rearm"
          /\ seconds' = [t \in Tasks |-> IF pc[t] = "open" THEN Succ(seconds[t])
                                                           ELSE seconds[t]]
          /\ UNCHANGED <<loaded, corrupt, counter, pc, shared, raced>>

(* Mutant: the handler forgets to start the timer again. *)
HandlerRearmNot == /\ handler = "rearm" /\ loaded
                   /\ handler' = "count"
                   /\ UNCHANGED <<loaded, timer, corrupt, counter, pc, seconds, shared, raced>>

HandlerRearm == /\ handler = "rearm" /\ loaded
                /\ timer' = "pending" /\ handler' = "count"
                /\ UNCHANGED <<loaded, corrupt, counter, pc, seconds, shared, raced>>

HandlerCount == /\ handler = "count" /\ loaded
                /\ counter' = Succ(counter) /\ handler' = "off"
                /\ UNCHANGED <<loaded, timer, corrupt, pc, seconds, shared, raced>>

Tick == Expire \/ HandlerRearm \/ HandlerCount

(* What a corrupted timer wheel does is not modelled: behaviours end there. *)
Next == /\ ~corrupt
        /\ \/ \E t \in Tasks : OpenSetup(t) \/ OpenArm(t) \/ OpenZero(t) \/ Release(t)
           \/ Tick \/ Exit

Spec == Init /\ [][Next]_vars

(* Time goes on, and a running handler runs to its end.                    *)
FairSpec == Spec /\ WF_vars(Tick)

-----------------------------------------------------------------------------
(* Also: nobody is past timer_setup, and no handler runs, while the timer  *)
(* is as memset left it.                                                   *)
TypeOK == /\ loaded \in BOOLEAN /\ corrupt \in BOOLEAN /\ shared \in BOOLEAN /\ raced \in BOOLEAN
          /\ timer \in {"zero", "inactive", "pending"}
          /\ handler \in {"off", "rearm", "count"}
          /\ counter \in 0 .. COUNTS - 1
          /\ pc \in [Tasks -> {"closed", "setup", "armed", "open"}]
          /\ seconds \in [Tasks -> 0 .. COUNTS - 1]
          /\ timer = "zero" => handler = "off" /\ \A t \in Tasks : pc[t] = "closed"

(* While its only opener has it open, the device ticks: the timer is on    *)
(* the wheel, or a handler is about to put it there - also after a close   *)
(* that met a running handler, and a reopen.                               *)
TicksWhileOpen ==
  ~shared => \A t \in Tasks : pc[t] = "open" => timer = "pending" \/ handler = "rearm"

(* Unless a release came while the handler was running, nothing refers to  *)
(* the freed device after the module's exit, and the timer is not set up   *)
(* again while it is pending.  A later last release that meets no handler  *)
(* makes good for the earlier ones.                                        *)
TimerSafe == ~shared /\ ~raced => /\ ~loaded => timer # "pending" /\ handler = "off"
                                 /\ ~corrupt

(* An opener that stays alone sees the counter move on from every value.   *)
CounterAdvances ==
  \A t \in Tasks, n \in 0 .. COUNTS - 1 :
     pc[t] = "open" /\ counter = n ~> pc[t] # "open" \/ counter # n \/ shared

(* What a read returns is the number of seconds since the reader's open    *)
(* (second_test.c:23), give or take one that had begun before - while the  *)
(* reader is the only opener: the counter is everybody's.                  *)
CountsSeconds ==
  ~shared => \A t \in Tasks : pc[t] = "open" /\ handler = "off"
                              => counter \in {seconds[t], Succ(seconds[t])}
=============================================================================
