------------------------------ MODULE MCSecond ------------------------------
(* Instances of Second for TLC. *)
EXTENDS Second

CONSTANTS a, b
=============================================================================
