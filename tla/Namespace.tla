------------------------------ MODULE Namespace ------------------------------
(***************************************************************************)
(* What users expect of expfs: a tree of named files.  Creating a file     *)
(* gives it an identity that nothing else has; removing a name or moving a *)
(* file to a new name happens at once and touches no other name; only      *)
(* empty directories are removed.  Module Expfs is shown to implement      *)
(* this, as long as nobody renames onto an existing name or mounts twice.  *)
(***************************************************************************)
EXTENDS Integers

CONSTANTS Names,     (* file names                                   *)
          Ids,       (* identities of files; None is not a file      *)
          None

VARIABLE children    (* children[d][n]: the file called n in d       *)

Empty == [n \in Names |-> None]

Init == children = [d \in Ids |-> Empty]

Create(d, n, f) ==
  /\ children[d][n] = None
  /\ children[f] = Empty
  /\ \A p \in Ids, m \in Names : children[p][m] # f
  /\ children' = [children EXCEPT ![d][n] = f]

Remove(d, n) ==
  /\ children[children[d][n]] = Empty
  /\ children' = [children EXCEPT ![d][n] = None]

Rename(d, n, e, m) ==
  /\ children[d][n] # None /\ children[e][m] = None
  /\ children' = [[children EXCEPT ![e][m] = children[d][n]] EXCEPT ![d][n] = None]

(* Some name n of a directory d changes its meaning. *)
Next == \E d \in Ids, n \in Names :
           /\ children'[d][n] # children[d][n]
           /\ \/ \E f \in Ids \ {None, d} : Create(d, n, f)
              \/ Remove(d, n)
              \/ \E e \in Ids, m \in Names : Rename(d, n, e, m)

Spec == Init /\ [][Next]_children
=============================================================================
