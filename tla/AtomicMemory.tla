---------------------------- MODULE AtomicMemory ----------------------------
(***************************************************************************)
(* What the mutex of globalmem_lock is there for: every read, write and    *)
(* MEM_CLEAR of the shared memory takes effect at one instant between its  *)
(* invocation and its return, so that a read delivers bytes that were in   *)
(* memory together.  Module GlobalMem is shown to implement this.          *)
(***************************************************************************)
EXTENDS Integers, Sequences

CONSTANTS Tasks, Calls, SIZE

VARIABLES store,   (* the memory                                          *)
          busy,    (* busy[t]: t's call has not taken effect yet          *)
          req,     (* its call                                            *)
          at,      (* the position it starts at                           *)
          got      (* the bytes it has delivered                          *)

vars == <<store, busy, req, at, got>>

Init == /\ store = [i \in 0 .. SIZE - 1 |-> 0]
        /\ busy = [t \in Tasks |-> FALSE]
        /\ req \in [Tasks -> Calls] /\ at \in [Tasks -> {0}]
        /\ got = [t \in Tasks |-> <<>>]

Invoke(t) == /\ ~busy[t] /\ busy' = [busy EXCEPT ![t] = TRUE]
             /\ \E c \in Calls : req' = [req EXCEPT ![t] = c]
             /\ \E p \in 0 .. SIZE - 1 : at' = [at EXCEPT ![t] = p]
             /\ got' = [got EXCEPT ![t] = <<>>]
             /\ UNCHANGED store

TakeEffect(t) == /\ busy[t] /\ busy' = [busy EXCEPT ![t] = FALSE]
                 /\ UNCHANGED <<req, at>>

(* The bytes of n that a call may get to; fewer than the device has room   *)
(* for if its user buffer ends early.                                      *)
Reach(t, n) == {k \in 0 .. n : at[t] + k <= SIZE}

Take(t) == /\ TakeEffect(t) /\ req[t].op = "read"
           /\ \E k \in Reach(t, req[t].size) :
                got' = [got EXCEPT ![t] = [i \in 1 .. k |-> store[at[t] + i - 1]]]
           /\ UNCHANGED store

(* What the user buffer does not provide is stored as zeros.               *)
Put(t) == /\ TakeEffect(t) /\ req[t].op = "write"
          /\ \E k \in 0 .. Len(req[t].buf) :
               store' = [i \in DOMAIN store |->
                           CASE i - at[t] \in 0 .. k - 1 -> req[t].buf[i - at[t] + 1]
                             [] i - at[t] \in k .. Len(req[t].buf) - 1 -> 0
                             [] OTHER -> store[i]]
          /\ UNCHANGED got

Clear(t) == /\ TakeEffect(t) /\ req[t].op = "clear"
            /\ store' = [i \in DOMAIN store |-> 0]
            /\ UNCHANGED got

Decline(t) == TakeEffect(t) /\ UNCHANGED <<store, got>>

Next == \E t \in Tasks : Invoke(t) \/ Take(t) \/ Put(t) \/ Clear(t) \/ Decline(t)

Spec == Init /\ [][Next]_vars
=============================================================================
