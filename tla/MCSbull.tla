------------------------------ MODULE MCSbull ------------------------------
(* Instances of Sbull for TLC: kernel sectors of two bytes. *)
EXTENDS Sbull

CONSTANTS t1, t2

Shape(n, size) == [sbull_major |-> 0, nsectors |-> n, hardsect_size |-> size]

(* Disks whose sectors are those of the kernel, one and a half of them,    *)
(* half of one (no capacity), and one whose size wraps around; and a major *)
(* number that the module is given.                                        *)
MCParams == {Shape(4, 2), Shape(4, 3), Shape(4, 1), Shape(9, 2),
             [Shape(4, 2) EXCEPT !.sbull_major = 1]}

(* One or two segments, at sectors that are one, two and three apart;       *)
(* a read's buffers hold zeros before.                                     *)
MCRequests == {Request("write", 0, <<<<1, 2>>>>),
               Request("write", 1, <<<<1, 1>>>>),
               Request("write", 2, <<<<1, 1>>, <<2, 2>>>>),
               Request("read", 3, <<<<0, 0>>>>),
               Request("read", 2, <<<<0, 0>>, <<0, 0>>>>),
               Request("read", 0, <<<<0, 0>>>>)}

TaskSymmetry == Permutations(Tasks)
=============================================================================
