----------------------------- MODULE MCGlobalMem -----------------------------
(* Instances of GlobalMem for TLC: the open files, and the calls. *)
EXTENDS GlobalMem, TLC

CONSTANTS a, b

Shared  == [t \in Tasks |-> 1]
Private == (a :> 1) @@ (b :> 2)

MCBytes == 0 .. 2

(* Overlapping reads and writes, some from and to bad user memory, and     *)
(* absolute seeks, one of them past 2^32.                                  *)
CopyCalls == {Read(2, 2), Read(3, 1), Write(<<1, 2>>, 2), Write(<<2, 1>>, 1),
              MemClear, Seek("set", 0), Seek("set", -1), Seek("set", 9)}

(* Relative seeks. *)
StepCalls == {Read(2, 2), Write(<<1>>, 1), Seek("cur", 1), Seek("cur", -2), MemClear}
=============================================================================
