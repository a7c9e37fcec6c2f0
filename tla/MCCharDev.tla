----------------------------- MODULE MCCharDev -----------------------------
(* An instance of CharDev for TLC. *)
EXTENDS CharDev, TLC

CONSTANTS t1, t2, t3

TaskSymmetry == Permutations(Tasks)
=============================================================================
