---------------------------- MODULE BoundedFifo ----------------------------
(***************************************************************************)
(* What /dev/globalfifo promises its callers, with no semaphore, no wait   *)
(* queue and no array: a bounded queue of bytes.  A call takes effect at   *)
(* most once, in one step between its invocation and its return: a read    *)
(* removes as many bytes as it asked for, or all there are, from the       *)
(* front; a write appends as much of its buffer as fits; FIFO_CLEAR        *)
(* empties the queue; every other outcome leaves the queue alone.          *)
(* Module GlobalFifo is shown to implement this specification.             *)
(***************************************************************************)
EXTENDS Integers, Sequences

CONSTANTS Tasks,      (* the callers                                  *)
          SIZE,       (* the capacity                                 *)
          Calls       (* Calls[t]: the calls caller t may issue       *)

VARIABLES queue,      (* the bytes not yet read, oldest first         *)
          busy,       (* busy[t]: t's call has not taken effect yet   *)
          req,        (* req[t]: the call t issued last               *)
          got         (* got[t]: the bytes t's call has delivered     *)

vars == <<queue, busy, req, got>>

Least(m, n) == IF m <= n THEN m ELSE n

Init == /\ queue = <<>>
        /\ busy = [t \in Tasks |-> FALSE]
        /\ req \in [Tasks -> UNION {Calls[t] : t \in Tasks}]
        /\ got = [t \in Tasks |-> <<>>]

Invoke(t) == /\ ~busy[t]
             /\ busy' = [busy EXCEPT ![t] = TRUE]
             /\ \E c \in Calls[t] : req' = [req EXCEPT ![t] = c]
             /\ got' = [got EXCEPT ![t] = <<>>]
             /\ UNCHANGED queue

TakeEffect(t) == /\ busy[t]
                 /\ busy' = [busy EXCEPT ![t] = FALSE]
                 /\ UNCHANGED req

Take(t) == /\ TakeEffect(t)
           /\ req[t].op = "read"
           /\ LET n == Least(req[t].count, Len(queue))
              IN  /\ queue' = SubSeq(queue, n + 1, Len(queue))
                  /\ got' = [got EXCEPT ![t] = SubSeq(queue, 1, n)]

Put(t) == /\ TakeEffect(t)
          /\ req[t].op = "write"
          /\ LET n == Least(Len(req[t].buf), SIZE - Len(queue))
             IN  queue' = queue \o SubSeq(req[t].buf, 1, n)
          /\ UNCHANGED got

Clear(t) == /\ TakeEffect(t)
            /\ req[t].op = "ioctl" /\ req[t].cmd = "FIFO_CLEAR"
            /\ queue' = <<>>
            /\ UNCHANGED got

(* EAGAIN, ERESTARTSYS, EFAULT, and the calls that only look. *)
Decline(t) == TakeEffect(t) /\ UNCHANGED <<queue, got>>

Next == \E t \in Tasks :
           Invoke(t) \/ Take(t) \/ Put(t) \/ Clear(t) \/ Decline(t)

Spec == Init /\ [][Next]_vars
=============================================================================
