------------------------------- MODULE MCExpfs -------------------------------
(* Instances of Expfs for TLC: which calls the tasks make. *)
EXTENDS Expfs

CONSTANTS t1, t2, x, y, z

(* Creating, removing, moving, reading on in a directory; a symlink is created as a file is. *)
TreeOps    == {"mkdir", "symlink", "unlink", "rmdir", "rename",
               "readdir", "readmore"}

(* Files in one directory, renamed onto names that exist and with the      *)
(* flags that simple_rename refuses, and reading on in the directory.      *)
ReplaceOps == {"create", "unlink", "replace", "exchange", "whiteout",
               "readmore"}

(* Tasks are interchangeable, and so are names. *)
Symmetry == Permutations(Tasks) \cup Permutations(Names)
=============================================================================
