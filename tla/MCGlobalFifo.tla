---------------------------- MODULE MCGlobalFifo ----------------------------
(* Instances of GlobalFifo for TLC: who uses the device, and how. *)
EXTENDS GlobalFifo, TLC

CONSTANTS a, b, c

MCBytes == 0 .. 2

(* a reads and asks for SIGIO, b writes, c clears, polls or gets the ioctl  *)
(* wrong; blocking and not.                                                *)
MixedCalls ==
  [t \in Tasks |->
     CASE t = a -> {Read(1, FALSE), Read(3, TRUE), Fasync(TRUE), Fasync(FALSE)}
       [] t = b -> {Write(<<1, 2>>, FALSE), Write(<<2>>, TRUE)}
       [] t = c -> {FifoClear, Ioctl("other"), Poll({"in"})}]

(* Nobody clears: a and c compete for what b writes, or c polls.           *)
SharingCalls ==
  [t \in Tasks |->
     CASE t = a -> {Read(1, FALSE)}
       [] t = b -> {Write(<<1>>, FALSE)}
       [] t = c -> {Read(1, FALSE), Poll({"in"}), Poll({"out"})}]
=============================================================================
