---------------------------- MODULE MCExpfsFile ----------------------------
(* An instance of ExpfsFile for TLC: buffers of two bytes, and one entry  *)
(* to a buffer, so that the second one has its index in the first file.    *)
EXTENDS ExpfsFile

CONSTANTS t1, t2, x, y

MCBytes == 0 .. 3

(* Reads and writes, whole and in parts, empty and past the end, from and  *)
(* to good and bad buffers.                                                *)
MCCalls == {Read(2, 1), Write(<<>>, 0), Write(<<3>>, 1), Write(<<3, 3>>, 1),
            Seek("cur", 1)}

Symmetry == Permutations(Tasks) \cup Permutations(Names)
=============================================================================
