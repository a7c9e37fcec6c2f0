----------------------------- MODULE ExpfsProofs -----------------------------
(***************************************************************************)
(* Theorems about Expfs, for any tasks, names, table and calls: the types, *)
(* the count of blocks, the spinlock and that names are independent; and,  *)
(* as long as all renames are plain ones to a free name, that entries and  *)
(* blocks correspond, that the dentry cache is coherent, and that the file *)
(* system implements the tree of Namespace.                                *)
(***************************************************************************)
EXTENDS Expfs, SequenceTheorems, FiniteSetTheorems, WellFoundedInduction, TLAPS

Creates == {"create", "mkdir", "symlink"}

(* The block that a directory with the entries s has under a name.         *)
Find(s, n) == LET i == Position(s, n) IN IF i = 0 THEN None ELSE s[i].index

(* A call has the names it needs.                                          *)
RequestInv(t) ==
  Busy(t) => /\ Listing(req[t]) <=> req[t].name = NoName
             /\ Listing(req[t]) <=> req[t].nname = NoName
             /\ req[t].op \notin Moves => /\ req[t].ndir = req[t].dir
                                          /\ req[t].nname = req[t].name
             /\ req[t].op \in Ops
             /\ pc[t] \in {"check", "curr"} => req[t].op \in Creates
             /\ pc[t] = "vfs" => req[t].op \in {"unlink", "rmdir"} \cup Moves

TypeInv == TypeOK /\ \A t \in Tasks : RequestInv(t)

(* The rest holds when all renames are plain ones to a free name.          *)
MountInv ==
  /\ used \subseteq 1 .. MAX_FILE - 1 /\ mode[None] # "dir"
  /\ IF mounts = 0 THEN used = {} ELSE Root \in UsedDirs
  /\ mounted => mounts > 0
  /\ ~mounted => /\ \A t \in Tasks : ~Busy(t)
                 /\ \A d \in Blocks, n \in Names : dcache[d][n] = None

(* No name is twice in a directory, and every entry has a name and a block. *)
WellFormed(s) == /\ \A i, j \in DOMAIN s : s[i].name = s[j].name => i = j
                 /\ \A i \in DOMAIN s : s[i].index # None /\ s[i].name # NoName

DirInv == \A d \in UsedDirs : WellFormed(entries[d])

(* A block has one name, and one that has a name is in use.                *)
LinksToUsed == \A d \in UsedDirs, n \in Names : Match(d, n) # None => Match(d, n) \in used \ {Root}
LinksOnce   == \A d, e \in UsedDirs : \A n, m \in Names :
                  Match(d, n) # None /\ Match(d, n) = Match(e, m) => d = e /\ n = m
LinksToAll  == MAX_MOUNTS <= 1 =>
                  \A b \in used \ {Root} : \E d \in UsedDirs, n \in Names : Match(d, n) = b

(* Nobody has an inode locked that somebody else has.                      *)
LockInv == \A t, u \in Tasks : t # u /\ Busy(t) /\ Busy(u) => Locks(req[t]) \cap Locks(req[u]) = {}

(* What a call found when it started still holds where it is now.          *)
CallInv(t) ==
  LET r     == req[t]
      here  == dcache[r.dir][r.name]
      there == dcache[r.ndir][r.nname]
  IN  Busy(t) =>
        /\ r.dir \in UsedDirs /\ r.ndir \in UsedDirs
        /\ pc[t] = "oops" => r.op \in Creates
        /\ r.op \in Creates /\ pc[t] \in {"check", "lock"} =>
             here = None /\ Match(r.dir, r.name) = None
        /\ r.op = "unlink" /\ pc[t] = "lock" => here # None /\ mode[here] # "dir"
        /\ r.op = "rmdir"  /\ pc[t] = "lock" => here # None /\ mode[here] = "dir"
        /\ r.op \in {"unlink", "rmdir"} /\ pc[t] = "vfs" => Match(r.dir, r.name) = None
        /\ r.op = "rename" => /\ <<r.dir, r.name>> # <<r.ndir, r.nname>>
                              /\ here # None /\ there = None
        /\ r.op = "rename" /\ pc[t] = "lock" => Match(r.ndir, r.nname) = None
        /\ r.op = "rename" /\ pc[t] = "vfs" => /\ Match(r.dir, r.name) = None
                                               /\ Match(r.ndir, r.nname) = here

CacheInv == \A d \in Blocks, n \in Names :
               dcache[d][n] # None /\ ~Settling(d, n) => d \in UsedDirs /\ dcache[d][n] = Match(d, n)

TreeInv == /\ MountInv /\ DirInv /\ LinksToUsed /\ LinksOnce /\ LinksToAll
           /\ LockInv /\ (\A t \in Tasks : CallInv(t)) /\ CacheInv

-----------------------------------------------------------------------------
(* The constants and the table.                                            *)
LEMMA Constants == /\ MAX_FILE \in Nat /\ MAX_FILE > 2 /\ Root = 1 /\ None = 0
                   /\ Root \in Blocks /\ None \in Blocks
                   /\ \A b \in Blocks : b \in Int /\ 0 <= b /\ b < MAX_FILE
BY TableAssumption DEF Root, None, Blocks

(* Every set of naturals that is not empty has a least member.             *)
LEMMA LeastMember == ASSUME NEW S, S \subseteq Nat, S # {}
                     PROVE  \E m \in S : \A k \in S : m <= k
<1>1. IsWellFoundedOn(OpToRel(<, Nat), Nat)
  BY NatLessThanWellFounded
<1>2. PICK m \in S : \A k \in S : ~(<<k, m>> \in OpToRel(<, Nat))
  BY <1>1, WFMin, Zenon
<1>3. \A k \in S : k \in Nat
  OBVIOUS
<1>4. \A k \in S : ~(k < m)
  BY <1>2, <1>3, Zenon DEF OpToRel
<1>5. ASSUME NEW k \in S PROVE m <= k
  <2>1. m \in Nat /\ k \in Nat /\ ~(k < m)
    BY <1>3, <1>4
  <2> QED BY <2>1
<1> QED BY <1>5

(* getblock finds the lowest block of those that are free.                 *)
LEMMA GetBlockFacts ==
  ASSUME FreeBlocks # {}
  PROVE  GetBlock \in Blocks /\ GetBlock \notin used /\ GetBlock \in 2 .. MAX_FILE - 1
<1>1. FreeBlocks \subseteq Nat
  BY Constants DEF FreeBlocks
<1>2. \E b \in FreeBlocks : \A c \in FreeBlocks : b <= c
  BY <1>1, LeastMember
<1>3. GetBlock \in FreeBlocks
  BY <1>2, Zenon DEF GetBlock
<1> QED BY <1>3, Constants DEF FreeBlocks, Blocks

-----------------------------------------------------------------------------
(* Directories as sequences of entries.                                    *)

(* The scan stops at the first entry with the name.                        *)
LEMMA PositionFacts ==
  ASSUME NEW s \in Seq(Entry), NEW n
  PROVE  /\ Position(s, n) \in 0 .. Len(s)
         /\ Position(s, n) = 0 => \A i \in 1 .. Len(s) : s[i].name # n
         /\ Position(s, n) # 0 => /\ s[Position(s, n)].name = n
                                  /\ \A i \in 1 .. Position(s, n) - 1 : s[i].name # n
<1> DEFINE I == {i \in 1 .. Len(s) : s[i].name = n}
<1>1. Position(s, n) = IF I # {} THEN Min(I) ELSE 0
  BY DEF Position, SelectInSeq
<1>2. CASE I = {}
  BY <1>1, <1>2
<1>3. CASE I # {}
  <2>1. \E m \in I : \A k \in I : m <= k
    <3>1. I \subseteq Nat
      OBVIOUS
    <3> QED BY <1>3, <3>1, LeastMember
  <2>2. Min(I) \in I /\ \A k \in I : Min(I) <= k
    BY <2>1 DEF Min
  <2>3. Position(s, n) \in I /\ \A k \in I : Position(s, n) <= k
    BY <1>1, <1>3, <2>2
  <2> QED BY <2>3
<1> QED BY <1>2, <1>3

(* ... and is the only such place.                                         *)
LEMMA PositionIs ==
  ASSUME NEW s \in Seq(Entry), NEW n, NEW p \in 1 .. Len(s), s[p].name = n,
         \A i \in 1 .. p - 1 : s[i].name # n
  PROVE  Position(s, n) = p
<1> DEFINE q == Position(s, n)
<1>1. /\ q \in 0 .. Len(s)
      /\ q = 0 => \A i \in 1 .. Len(s) : s[i].name # n
      /\ q # 0 => s[q].name = n /\ \A i \in 1 .. q - 1 : s[i].name # n
  BY PositionFacts
<1> HIDE DEF q
<1>2. q # 0
  BY <1>1
<1>3. ~(q < p) /\ ~(p < q)
  BY <1>1, <1>2
<1> QED BY <1>1, <1>3 DEF q

(* The entry of a name, whatever its block.                                *)
LEMMA FindFacts ==
  ASSUME NEW s \in Seq(Entry), NEW n
  PROVE  /\ Find(s, n) \in Blocks
         /\ (\A i \in 1 .. Len(s) : s[i].name # n) => Find(s, n) = None
         /\ \A p \in 1 .. Len(s) :
              s[p].name = n /\ (\A i \in 1 .. p - 1 : s[i].name # n) => Find(s, n) = s[p].index
<1>1. Find(s, n) \in Blocks
  <2>1. \A p \in 1 .. Len(s) : s[p].index \in Blocks
    <3>1. \A p \in 1 .. Len(s) : s[p] \in Entry
      OBVIOUS
    <3> QED BY <3>1 DEF Entry
  <2>2. Position(s, n) \in 0 .. Len(s)
    BY PositionFacts
  <2>3. CASE Position(s, n) = 0
    BY <2>3, Constants DEF Find
  <2>4. CASE Position(s, n) # 0
    BY <2>1, <2>2, <2>4 DEF Find
  <2> QED BY <2>3, <2>4
<1>2. ASSUME \A i \in 1 .. Len(s) : s[i].name # n PROVE Find(s, n) = None
  <2>1. Position(s, n) = 0
    BY <1>2, PositionFacts
  <2> QED BY <2>1 DEF Find
<1>3. ASSUME NEW p \in 1 .. Len(s), s[p].name = n, \A i \in 1 .. p - 1 : s[i].name # n
      PROVE  Find(s, n) = s[p].index
  <2>1. Position(s, n) = p
    BY <1>3, PositionIs
  <2> QED BY <2>1 DEF Find
<1> QED BY <1>1, <1>2, <1>3

LEMMA FindOnce ==
  ASSUME NEW s \in Seq(Entry), WellFormed(s), NEW i \in 1 .. Len(s)
  PROVE  Find(s, s[i].name) = s[i].index
<1>1. \A j \in 1 .. i - 1 : s[j].name # s[i].name
  BY DEF WellFormed
<1> QED BY <1>1, FindFacts

(* In a directory with an entry for each name once, a name without a block *)
(* has no entry.                                                           *)
LEMMA FindNone ==
  ASSUME NEW s \in Seq(Entry), WellFormed(s), NEW n, Find(s, n) = None
  PROVE  \A i \in 1 .. Len(s) : s[i].name # n
<1> SUFFICES ASSUME NEW i \in 1 .. Len(s), s[i].name = n PROVE FALSE
  OBVIOUS
<1>1. Find(s, n) = s[i].index
  BY FindOnce
<1> QED BY <1>1 DEF WellFormed

LEMMA FindEmpty == \A n : Find(<<>>, n) = None
<1>1. <<>> \in Seq(Entry) /\ Len(<<>>) = 0
  OBVIOUS
<1> SUFFICES ASSUME NEW n PROVE Find(<<>>, n) = None
  OBVIOUS
<1>2. \A i \in 1 .. Len(<<>>) : FALSE
  BY <1>1
<1> QED BY <1>1, <1>2, FindFacts, Zenon

(* An entry at the end is what its name finds, if nothing was, and nobody  *)
(* else notices.                                                           *)
LEMMA AppendFinds ==
  ASSUME NEW s \in Seq(Entry), NEW e \in Entry
  PROVE  /\ Append(s, e) \in Seq(Entry)
         /\ \A m : m # e.name => Find(Append(s, e), m) = Find(s, m)
         /\ WellFormed(s) /\ Find(s, e.name) = None /\ e.index # None /\ e.name # NoName
              => WellFormed(Append(s, e)) /\ Find(Append(s, e), e.name) = e.index
<1> DEFINE a == Append(s, e)
           L == Len(s)
<1>1. /\ a \in Seq(Entry) /\ L \in Nat /\ Len(a) = L + 1 /\ DOMAIN a = 1 .. L + 1
      /\ DOMAIN s = 1 .. L /\ a[L + 1] = e
  OBVIOUS
<1>2. \A i \in 1 .. L : a[i] = s[i]
  OBVIOUS
<1> HIDE DEF a
<1>3. ASSUME NEW m, m # e.name PROVE Find(a, m) = Find(s, m)
  <2> DEFINE p == Position(s, m)
  <2>1. /\ p \in 0 .. L
        /\ p = 0 => \A i \in 1 .. L : s[i].name # m
        /\ p # 0 => s[p].name = m /\ \A i \in 1 .. p - 1 : s[i].name # m
    BY PositionFacts
  <2> HIDE DEF p, L
  <2>2. CASE p = 0
    <3>1. \A i \in 1 .. Len(a) : a[i].name # m
      BY <1>1, <1>2, <1>3, <2>1, <2>2
    <3>2. Position(a, m) = 0
      BY <1>1, <3>1, PositionFacts
    <3> QED BY <2>2, <3>2 DEF Find, p
  <2>3. CASE p # 0
    <3>1. p \in 1 .. Len(a) /\ p \in 1 .. L
      BY <1>1, <2>1, <2>3
    <3>2. a[p].name = m /\ \A i \in 1 .. p - 1 : a[i].name # m
      BY <1>1, <1>2, <2>1, <2>3, <3>1
    <3>3. Position(a, m) = p
      BY <1>1, <3>1, <3>2, PositionIs
    <3> QED BY <1>2, <2>3, <3>1, <3>3 DEF Find, p
  <2> QED BY <2>2, <2>3
<1>4. ASSUME WellFormed(s), Find(s, e.name) = None, e.index # None, e.name # NoName
      PROVE  WellFormed(a) /\ Find(a, e.name) = e.index
  <2>1. \A i \in 1 .. L : s[i].name # e.name
    BY <1>4, FindNone
  <2>2. WellFormed(a)
    <3>1. \A i \in 1 .. L + 1 : i \in 1 .. L \/ i = L + 1
      BY <1>1
    <3>2. \A i, j \in 1 .. L : s[i].name = s[j].name => i = j
      BY <1>1, <1>4 DEF WellFormed
    <3>3. \A i \in 1 .. L : s[i].index # None /\ s[i].name # NoName
      BY <1>1, <1>4 DEF WellFormed
    <3> HIDE DEF L
    <3> QED BY <1>1, <1>2, <1>4, <2>1, <3>1, <3>2, <3>3 DEF WellFormed
  <2>3. L + 1 \in 1 .. Len(a)
    BY <1>1
  <2>4. Find(a, a[L + 1].name) = a[L + 1].index
    BY <1>1, <2>2, <2>3, FindOnce
  <2> QED BY <1>1, <2>2, <2>4
<1> QED BY <1>1, <1>3, <1>4 DEF a

(* A name that finds something goes on to find it, whatever is appended.   *)
LEMMA AppendKeeps ==
  ASSUME NEW s \in Seq(Entry), NEW e \in Entry, NEW m, Find(s, m) # None
  PROVE  Find(Append(s, e), m) = Find(s, m)
<1> DEFINE p == Position(s, m)
           a == Append(s, e)
<1>1. p # 0 /\ Find(s, m) = s[p].index
  BY DEF Find
<1>2. p \in 1 .. Len(s) /\ s[p].name = m /\ \A i \in 1 .. p - 1 : s[i].name # m
  BY <1>1, PositionFacts
<1>3. a \in Seq(Entry) /\ Len(a) = Len(s) + 1 /\ \A i \in 1 .. Len(s) : a[i] = s[i]
  OBVIOUS
<1> HIDE DEF p, a
<1>4. p \in 1 .. Len(a) /\ a[p] = s[p] /\ \A i \in 1 .. p - 1 : a[i].name # m
  BY <1>2, <1>3
<1>5. Find(a, m) = a[p].index
  BY <1>2, <1>3, <1>4, FindFacts
<1> QED BY <1>1, <1>4, <1>5 DEF a

(* Taking the p-th element out of a sequence.                              *)
LEMMA RemoveAtFacts ==
  ASSUME NEW s \in Seq(Entry), NEW p \in 1 .. Len(s)
  PROVE  /\ RemoveAt(s, p) \in Seq(Entry)
         /\ Len(RemoveAt(s, p)) = Len(s) - 1
         /\ \A i \in 1 .. Len(s) - 1 : RemoveAt(s, p)[i] = IF i < p THEN s[i] ELSE s[i + 1]
<1> DEFINE u == SubSeq(s, 1, p - 1)
           v == SubSeq(s, p + 1, Len(s))
<1>1. Len(s) \in Nat /\ p \in Nat /\ 1 <= p /\ p <= Len(s)
  OBVIOUS
<1>2. u \in Seq(Entry) /\ Len(u) = p - 1 /\ \A i \in 1 .. p - 1 : u[i] = s[i]
  BY <1>1
<1>3. v \in Seq(Entry) /\ Len(v) = Len(s) - p /\ \A i \in 1 .. Len(s) - p : v[i] = s[p + i]
  BY <1>1
<1>4. RemoveAt(s, p) = u \o v
  BY DEF RemoveAt
<1> HIDE DEF u, v
<1>5. u \o v \in Seq(Entry) /\ Len(u \o v) = Len(u) + Len(v)
  BY <1>2, <1>3, ConcatProperties, Zenon
<1>6. ASSUME NEW i \in 1 .. Len(s) - 1 PROVE (u \o v)[i] = IF i < p THEN s[i] ELSE s[i + 1]
  <2>1. CASE i < p
    BY <1>1, <1>2, <1>3, <2>1
  <2>2. CASE ~(i < p)
    <3>1. (u \o v)[i] = v[i - (p - 1)]
      BY <1>1, <1>2, <1>3, <2>2
    <3>2. i - (p - 1) \in 1 .. Len(s) - p /\ p + (i - (p - 1)) = i + 1
      BY <1>1, <2>2
    <3>3. v[i - (p - 1)] = s[p + (i - (p - 1))]
      BY <1>3, <3>2
    <3> QED BY <2>2, <3>1, <3>2, <3>3
  <2> QED BY <2>1, <2>2
<1> QED BY <1>1, <1>2, <1>3, <1>4, <1>5, <1>6

(* Without takes out what its name finds, and nobody else notices.         *)
LEMMA WithoutFinds ==
  ASSUME NEW s \in Seq(Entry), NEW n
  PROVE  /\ Without(s, n) \in Seq(Entry)
         /\ \A m : m # n => Find(Without(s, n), m) = Find(s, m)
         /\ WellFormed(s) => WellFormed(Without(s, n)) /\ Find(Without(s, n), n) = None
<1> DEFINE q == Position(s, n)
           w == Without(s, n)
           L == Len(s)
<1>1. /\ q \in 0 .. L
      /\ q = 0 => \A i \in 1 .. L : s[i].name # n
      /\ q # 0 => s[q].name = n /\ \A i \in 1 .. q - 1 : s[i].name # n
  BY PositionFacts
<1>2. CASE q = 0
  <2>1. w = s
    BY <1>2 DEF Without
  <2>2. Find(s, n) = None
    BY <1>2 DEF Find
  <2> QED BY <2>1, <2>2
<1>3. CASE q # 0
  <2>0. L \in Nat /\ q \in 1 .. L
    BY <1>1, <1>3
  <2>1. w = RemoveAt(s, q)
    BY <1>3 DEF Without
  <2>2. /\ w \in Seq(Entry) /\ Len(w) = L - 1
        /\ \A i \in 1 .. L - 1 : w[i] = IF i < q THEN s[i] ELSE s[i + 1]
    BY <2>0, <2>1, RemoveAtFacts
  <2>3. DOMAIN w = 1 .. L - 1 /\ DOMAIN s = 1 .. L
    BY <2>0, <2>2
  <2>d. ASSUME WellFormed(s)
        PROVE  /\ \A i, j \in 1 .. L : s[i].name = s[j].name => i = j
               /\ \A i \in 1 .. L : s[i].index # None /\ s[i].name # NoName
    BY <2>3, <2>d DEF WellFormed
  <2> HIDE DEF q, w, L
  <2>4. ASSUME NEW m, m # n PROVE Find(w, m) = Find(s, m)
    <3> DEFINE p == Position(s, m)
    <3>1. /\ p \in 0 .. L
          /\ p = 0 => \A i \in 1 .. L : s[i].name # m
          /\ p # 0 => s[p].name = m /\ \A i \in 1 .. p - 1 : s[i].name # m
      BY PositionFacts DEF L
    <3>2. p # q
      BY <1>1, <1>3, <2>4, <3>1
    <3> HIDE DEF p
    <3>3. CASE p = 0
      <4>1. ASSUME NEW i \in 1 .. L - 1 PROVE w[i].name # m
        <5>1. i \in 1 .. L /\ i + 1 \in 1 .. L
          BY <2>0
        <5> QED BY <2>2, <3>1, <3>3, <5>1
      <4>2. Position(w, m) = 0
        BY <2>2, <4>1, PositionFacts
      <4> QED BY <3>3, <4>2 DEF Find, p
    <3>4. CASE p # 0 /\ p < q
      <4>1. p \in 1 .. L - 1 /\ w[p] = s[p]
        BY <2>0, <2>2, <3>1, <3>4
      <4>2. ASSUME NEW i \in 1 .. p - 1 PROVE w[i].name # m
        <5>1. i \in 1 .. L - 1 /\ i < q
          BY <2>0, <3>1, <3>4, <4>1
        <5>2. w[i] = s[i]
          BY <2>2, <5>1
        <5> QED BY <3>1, <3>4, <5>2
      <4>3. Position(w, m) = p
        BY <2>2, <3>1, <3>4, <4>1, <4>2, PositionIs
      <4> QED BY <3>4, <4>1, <4>3 DEF Find, p
    <3>5. CASE p # 0 /\ p > q
      <4>1. p - 1 \in 1 .. L - 1 /\ ~(p - 1 < q) /\ (p - 1) + 1 = p
        BY <2>0, <3>1, <3>5
      <4>2. w[p - 1] = s[p]
        BY <2>2, <4>1
      <4>3. ASSUME NEW i \in 1 .. (p - 1) - 1 PROVE w[i].name # m
        <5>1. i \in 1 .. L - 1 /\ i \in 1 .. p - 1 /\ i + 1 \in 1 .. p - 1
          BY <2>0, <3>1, <3>5
        <5>2. w[i] = s[i] \/ w[i] = s[i + 1]
          BY <2>2, <5>1
        <5> QED BY <3>1, <3>5, <5>1, <5>2
      <4>4. p - 1 \in 1 .. Len(w) /\ w[p - 1].name = m
        BY <2>2, <3>1, <3>5, <4>1, <4>2
      <4>5. Position(w, m) = p - 1
        BY <2>2, <4>3, <4>4, PositionIs
      <4>6. p - 1 # 0
        BY <4>1
      <4> QED BY <3>5, <4>2, <4>5, <4>6 DEF Find, p
    <3>6. p = 0 \/ (p # 0 /\ p < q) \/ (p # 0 /\ p > q)
      BY <2>0, <3>1, <3>2
    <3> QED BY <3>3, <3>4, <3>5, <3>6
  <2>5. ASSUME WellFormed(s) PROVE WellFormed(w) /\ Find(w, n) = None
    <3> DEFINE was(i) == IF i < q THEN i ELSE i + 1
    <3>1. ASSUME NEW i \in 1 .. L - 1
          PROVE  was(i) \in 1 .. L /\ was(i) # q /\ w[i] = s[was(i)]
      BY <2>0, <2>2
    <3>2. ASSUME NEW i \in 1 .. L - 1, NEW j \in 1 .. L - 1, was(i) = was(j) PROVE i = j
      BY <2>0, <3>2
    <3> HIDE DEF was
    <3>3. /\ \A i, j \in 1 .. L : s[i].name = s[j].name => i = j
          /\ \A i \in 1 .. L : s[i].index # None /\ s[i].name # NoName
      BY <2>5, <2>d
    <3>4. \A i, j \in 1 .. L - 1 : w[i].name = w[j].name => i = j
      BY <3>1, <3>2, <3>3
    <3>5. \A i \in 1 .. L - 1 : w[i].index # None /\ w[i].name # NoName
      BY <3>1, <3>3
    <3>6. \A i \in 1 .. L - 1 : w[i].name # n
      BY <1>1, <1>3, <2>0, <3>1, <3>3
    <3>7. Find(w, n) = None
      BY <2>2, <3>6, FindFacts
    <3> QED BY <2>3, <3>4, <3>5, <3>7 DEF WellFormed
  <2> QED BY <2>2, <2>4, <2>5 DEF w
<1> QED BY <1>2, <1>3

-----------------------------------------------------------------------------
(* The types, for every set of calls.                                      *)

(* One entry of a cache of dentries is changed.                            *)
LEMMA CacheUpdate ==
  ASSUME NEW f \in [Blocks -> [Names -> Blocks]], NEW d \in Blocks, NEW n \in Names,
         NEW b \in Blocks
  PROVE  /\ [f EXCEPT ![d][n] = b] \in [Blocks -> [Names -> Blocks]]
         /\ \A e \in Blocks, m \in Names :
              [f EXCEPT ![d][n] = b][e][m] = IF e = d /\ m = n THEN b ELSE f[e][m]
<1>1. [f EXCEPT ![d][n] = b] = [e \in Blocks |-> IF e = d THEN [f[d] EXCEPT ![n] = b] ELSE f[e]]
  OBVIOUS
<1>2. f[d] \in [Names -> Blocks]
  OBVIOUS
<1>3. [f[d] EXCEPT ![n] = b] \in [Names -> Blocks]
  BY <1>2
<1> QED BY <1>1, <1>2, <1>3

(* What the types say of the call a task is in.                            *)
LEMMA RequestFacts ==
  ASSUME TypeInv, NEW t \in Tasks, Busy(t)
  PROVE  /\ req[t].dir \in Blocks /\ req[t].ndir \in Blocks
         /\ ~Listing(req[t]) => req[t].name \in Names /\ req[t].nname \in Names
         /\ req[t].op \in Ops
<1>1. req[t] \in Requests /\ RequestInv(t)
  BY DEF TypeInv, TypeOK
<1> QED BY <1>1 DEF Requests, RequestInv

(* A step of t, for the others.                                            *)
LEMMA RequestFrame ==
  ASSUME TypeInv, NEW t \in Tasks, pc'[t] = "idle" \/ RequestInv(t)',
         \A u \in Tasks : u # t => pc'[u] = pc[u] /\ req'[u] = req[u]
  PROVE  \A u \in Tasks : RequestInv(u)'
<1>1. ASSUME NEW u \in Tasks PROVE RequestInv(u)'
  <2>1. CASE u = t /\ pc'[t] = "idle"
    BY <2>1 DEF RequestInv, Busy
  <2>2. CASE u # t
    <3>1. RequestInv(u) /\ pc'[u] = pc[u] /\ req'[u] = req[u]
      BY <2>2 DEF TypeInv
    <3> QED BY <3>1 DEF RequestInv, Busy, Listing
  <2> QED BY <2>1, <2>2
<1> QED BY <1>1

(* The task goes on in its call, or returns.                               *)
LEMMA GotoStep ==
  ASSUME TypeInv, NEW t \in Tasks, NEW from,
         NEW to \in {"check", "lock", "curr", "vfs", "oops"}, Goto(t, from, to),
         pc[t] # "idle", UNCHANGED req,
         to \in {"check", "curr"} => req[t].op \in Creates,
         to = "vfs" => req[t].op \in {"unlink", "rmdir"} \cup Moves
  PROVE  /\ pc' \in [Tasks -> {"idle", "check", "lock", "curr", "vfs", "oops"}]
         /\ req' \in [Tasks -> Requests] /\ \A u \in Tasks : RequestInv(u)'
         /\ pc'[t] = to /\ \A u \in Tasks : u # t => pc'[u] = pc[u] /\ req'[u] = req[u]
<1>1. pc \in [Tasks -> {"idle", "check", "lock", "curr", "vfs", "oops"}]
      /\ req \in [Tasks -> Requests] /\ RequestInv(t)
  BY DEF TypeInv, TypeOK
<1>2. pc' = [pc EXCEPT ![t] = to]
  BY DEF Goto
<1>3. /\ pc' \in [Tasks -> {"idle", "check", "lock", "curr", "vfs", "oops"}]
      /\ req' \in [Tasks -> Requests]
      /\ pc'[t] = to /\ \A u \in Tasks : u # t => pc'[u] = pc[u] /\ req'[u] = req[u]
  BY <1>1, <1>2
<1>4. RequestInv(t)'
  BY <1>1, <1>3 DEF RequestInv, Busy, Listing
<1> QED BY <1>3, <1>4, RequestFrame

LEMMA ReturnStep ==
  ASSUME TypeInv, NEW t \in Tasks, NEW from, Return(t, from)
  PROVE  /\ pc' \in [Tasks -> {"idle", "check", "lock", "curr", "vfs", "oops"}]
         /\ req' \in [Tasks -> Requests] /\ \A u \in Tasks : RequestInv(u)'
         /\ pc'[t] = "idle" /\ \A u \in Tasks : u # t => pc'[u] = pc[u] /\ req'[u] = req[u]
<1>1. pc \in [Tasks -> {"idle", "check", "lock", "curr", "vfs", "oops"}]
      /\ req \in [Tasks -> Requests]
  BY DEF TypeInv, TypeOK
<1>2. pc' = [pc EXCEPT ![t] = "idle"] /\ req' = [req EXCEPT ![t] = NoRequest]
  BY DEF Return, Goto
<1>3. NoRequest \in Requests
  BY Constants DEF NoRequest, Request, Requests, AllOps
<1>4. /\ pc' \in [Tasks -> {"idle", "check", "lock", "curr", "vfs", "oops"}]
      /\ req' \in [Tasks -> Requests]
      /\ pc'[t] = "idle" /\ \A u \in Tasks : u # t => pc'[u] = pc[u] /\ req'[u] = req[u]
  BY <1>1, <1>2, <1>3
<1> QED BY <1>4, RequestFrame

(* Entries that get one more, or lose one.                                 *)
LEMMA EntriesUpdate ==
  ASSUME NEW f \in [Blocks -> Seq(Entry)], NEW d \in Blocks, NEW s \in Seq(Entry)
  PROVE  /\ [f EXCEPT ![d] = s] \in [Blocks -> Seq(Entry)]
         /\ \A e \in Blocks : [f EXCEPT ![d] = s][e] = IF e = d THEN s ELSE f[e]
OBVIOUS

LEMMA MatchIsFind == \A d, n : Match(d, n) = Find(entries[d], n)
BY DEF Match, Find

LEMMA MatchType == ASSUME TypeOK, NEW d \in Blocks, NEW n PROVE Match(d, n) \in Blocks
<1>1. entries[d] \in Seq(Entry)
  BY DEF TypeOK
<1> QED BY <1>1, FindFacts, MatchIsFind

-----------------------------------------------------------------------------
LEMMA InitTypes == Init => TypeInv
<1> SUFFICES ASSUME Init PROVE TypeInv
  OBVIOUS
<1>1. NoRequest \in Requests
  BY Constants DEF NoRequest, Request, Requests, AllOps
<1>2. req \in [Tasks -> Requests]
  BY <1>1 DEF Init
<1>3. dcache \in [Blocks -> [Names -> Blocks]]
  BY Constants DEF Init
<1>4. TypeOK
  <2>1. MAX_MOUNTS \in Nat /\ mounts \in 0 .. MAX_MOUNTS
    BY BoundAssumption DEF Init
  <2>2. entries \in [Blocks -> Seq(Entry)] /\ mode \in [Blocks -> Kinds] /\ used \subseteq Blocks
        /\ usedBlks \in Nat
    BY DEF Init, Kinds
  <2>3. pc \in [Tasks -> {"idle", "check", "lock", "curr", "vfs", "oops"}]
    BY DEF Init
  <2>4. lock \in BOOLEAN /\ mounted \in BOOLEAN
    BY DEF Init
  <2> QED BY <1>2, <1>3, <2>1, <2>2, <2>3, <2>4, Zenon DEF TypeOK
<1>5. \A t \in Tasks : RequestInv(t)
  BY DEF Init, RequestInv, Busy
<1> QED BY <1>4, <1>5 DEF TypeInv

(* What a step leaves as it is keeps its type.                             *)
LEMMA StartTypes ==
  ASSUME TypeInv, NEW t \in Tasks, Start(t)
  PROVE  /\ TypeInv' /\ ~Busy(t) /\ UNCHANGED <<table, lock, super, dcache>>
         /\ \A u \in Tasks : u # t => pc'[u] = pc[u] /\ req'[u] = req[u]
<1>1. PICK r \in Single(Dirs) \cup Renames(Dirs) :
        /\ req' = [req EXCEPT ![t] = r]
        /\ pc' = [pc EXCEPT ![t] = IF r.op \in {"create", "mkdir", "symlink"}
                                   THEN "check" ELSE "lock"]
  BY DEF Start
<1>2. Dirs \subseteq Blocks /\ Ops \subseteq AllOps
  BY OpsAssumption DEF Dirs
<1>3. /\ r \in Requests /\ r.op \in Ops
      /\ Listing(r) <=> r.name = NoName
      /\ Listing(r) <=> r.nname = NoName
      /\ r.op \notin Moves => r.ndir = r.dir /\ r.nname = r.name
  <2>1. CASE r \in Single(Dirs)
    BY <1>2, <2>1 DEF Single, Request, Requests, Moves
  <2>2. CASE r \in Renames(Dirs)
    <3>1. r \in Requests /\ r.op \in Ops /\ r.op \in Moves /\ r.name \in Names /\ r.nname \in Names
      BY <1>2, <2>2 DEF Renames, Requests, Moves
    <3>2. r.name # NoName /\ r.nname # NoName /\ ~Listing(r)
      BY <3>1, NameAssumption DEF Listing, Moves
    <3> QED BY <3>1, <3>2
  <2> QED BY <2>1, <2>2
<1>4. /\ pc \in [Tasks -> {"idle", "check", "lock", "curr", "vfs", "oops"}]
      /\ req \in [Tasks -> Requests]
  BY DEF TypeInv, TypeOK
<1>5. /\ pc' \in [Tasks -> {"idle", "check", "lock", "curr", "vfs", "oops"}]
      /\ req' \in [Tasks -> Requests] /\ req'[t] = r
      /\ pc'[t] = (IF r.op \in Creates THEN "check" ELSE "lock")
      /\ \A u \in Tasks : u # t => pc'[u] = pc[u] /\ req'[u] = req[u]
  BY <1>1, <1>3, <1>4 DEF Creates
<1>6. RequestInv(t)'
  BY <1>3, <1>5 DEF RequestInv, Busy, Listing
<1>7. UNCHANGED <<table, lock, super, dcache>> /\ ~Busy(t)
  BY DEF Start
<1>8. TypeOK'
  <2>1. UNCHANGED <<used, mode, entries, usedBlks, lock, mounts, mounted, dcache>>
    BY <1>7 DEF table, super
  <2> QED BY <1>5, <2>1, Zenon DEF TypeInv, TypeOK
<1> QED BY <1>5, <1>6, <1>7, <1>8, RequestFrame DEF TypeInv

(* The task that takes the spinlock is in a call.                          *)
LEMMA SectionFacts ==
  ASSUME TypeInv, NEW t \in Tasks, NEW ops, Section(t, ops)
  PROVE  /\ pc[t] = "lock" /\ Busy(t) /\ req[t].op \in ops /\ ~lock
         /\ req[t].dir \in Blocks /\ req[t].ndir \in Blocks
         /\ ~Listing(req[t]) => req[t].name \in Names /\ req[t].nname \in Names
BY RequestFacts DEF Section, Busy

LEMMA CreateTypes ==
  ASSUME TypeInv, NEW t \in Tasks, Create(t)
  PROVE  /\ TypeInv'
         /\ pc[t] = "lock" /\ req[t].op \in Creates /\ pc'[t] = "idle"
         /\ \A u \in Tasks : u # t => pc'[u] = pc[u] /\ req'[u] = req[u]
         /\ req[t].dir \in Blocks /\ req[t].name \in Names
         /\ GetBlock \in Blocks /\ GetBlock \notin used /\ GetBlock \in 2 .. MAX_FILE - 1
         /\ used' = used \cup {GetBlock}
         /\ \A c \in Blocks : c # GetBlock => mode'[c] = mode[c]
         /\ \A e \in Blocks : e \notin {GetBlock, req[t].dir} => entries'[e] = entries[e]
         /\ req[t].dir # GetBlock =>
              /\ entries'[GetBlock] = <<>>
              /\ entries'[req[t].dir] = Append(entries[req[t].dir],
                                               [name |-> req[t].name, index |-> GetBlock])
         /\ \A e \in Blocks, m \in Names :
              dcache'[e][m] = IF e = req[t].dir /\ m = req[t].name THEN GetBlock ELSE dcache[e][m]
         /\ usedBlks' = usedBlks + 1 /\ UNCHANGED <<lock, mounts, mounted>>
<1> DEFINE b == GetBlock
           d == req[t].dir
           n == req[t].name
           k == CASE req[t].op = "create"  -> "reg"
                  [] req[t].op = "mkdir"   -> "dir"
                  [] req[t].op = "symlink" -> "lnk"
           e1 == [name |-> n, index |-> b]
<1>1. /\ Section(t, Creates) /\ FreeBlocks # {} /\ Return(t, "lock")
      /\ used' = used \cup {b}
      /\ mode' = [mode EXCEPT ![b] = k]
      /\ entries' = [[entries EXCEPT ![b] = <<>>] EXCEPT ![d] = Append(@, e1)]
      /\ dcache' = [dcache EXCEPT ![d][n] = b]
      /\ usedBlks' = usedBlks + 1 /\ UNCHANGED <<lock, mounts, mounted>>
  BY DEF Create, Creates, super
<1>2. /\ pc[t] = "lock" /\ req[t].op \in Creates /\ d \in Blocks /\ n \in Names
  BY <1>1, SectionFacts DEF Listing, Creates
<1>3. b \in Blocks /\ b \notin used /\ b \in 2 .. MAX_FILE - 1
  BY <1>1, GetBlockFacts
<1>4. /\ used \subseteq Blocks /\ mode \in [Blocks -> Kinds] /\ entries \in [Blocks -> Seq(Entry)]
      /\ usedBlks \in Nat /\ lock \in BOOLEAN
      /\ mounts \in 0 .. MAX_MOUNTS /\ mounted \in BOOLEAN
      /\ dcache \in [Blocks -> [Names -> Blocks]]
  BY Zenon DEF TypeInv, TypeOK
<1>5. k \in Kinds
  BY <1>2 DEF Creates, Kinds
<1>6. e1 \in Entry
  BY <1>2, <1>3 DEF Entry
<1> HIDE DEF b, d, n, k, e1
<1>7. mode' \in [Blocks -> Kinds] /\ \A c \in Blocks : c # b => mode'[c] = mode[c]
  BY <1>1, <1>3, <1>4, <1>5
<1> DEFINE f == [entries EXCEPT ![b] = <<>>]
<1>9. f \in [Blocks -> Seq(Entry)] /\ \A e \in Blocks : f[e] = IF e = b THEN <<>> ELSE entries[e]
  BY <1>3, <1>4
<1>10. entries' = [f EXCEPT ![d] = Append(f[d], e1)]
  BY <1>1, <1>2, <1>3, <1>4
<1> HIDE DEF f
<1>11. Append(f[d], e1) \in Seq(Entry)
  BY <1>2, <1>6, <1>9
<1>12. /\ entries' \in [Blocks -> Seq(Entry)]
       /\ \A e \in Blocks : entries'[e] = IF e = d THEN Append(f[d], e1) ELSE f[e]
  <2> d \in Blocks
    BY <1>2 DEF d
  <2> QED BY <1>9, <1>10, <1>11, EntriesUpdate
<1>13. /\ dcache' \in [Blocks -> [Names -> Blocks]]
       /\ \A e \in Blocks, m \in Names : dcache'[e][m] = IF e = d /\ m = n THEN b ELSE dcache[e][m]
  <2>1. dcache' = [dcache EXCEPT ![d][n] = b] /\ d \in Blocks /\ n \in Names /\ b \in Blocks
        /\ dcache \in [Blocks -> [Names -> Blocks]]
    BY <1>1, <1>2, <1>3, <1>4
  <2> QED BY <2>1, CacheUpdate
<1>14. /\ pc' \in [Tasks -> {"idle", "check", "lock", "curr", "vfs", "oops"}]
       /\ req' \in [Tasks -> Requests] /\ \A u \in Tasks : RequestInv(u)'
       /\ pc'[t] = "idle" /\ \A u \in Tasks : u # t => pc'[u] = pc[u] /\ req'[u] = req[u]
  BY <1>1, ReturnStep
<1>15. used' \subseteq Blocks /\ usedBlks' \in Nat
  BY <1>1, <1>3, <1>4
<1>16. TypeOK'
  BY <1>1, <1>4, <1>7, <1>12, <1>13, <1>14, <1>15, Zenon DEF TypeOK
<1>17. /\ \A e \in Blocks : e \notin {b, d} => entries'[e] = entries[e]
       /\ d # b => entries'[b] = <<>> /\ entries'[d] = Append(entries[d], e1)
  BY <1>2, <1>3, <1>9, <1>12
<1> QED BY <1>1, <1>2, <1>3, <1>7, <1>13, <1>14, <1>16, <1>17 DEF TypeInv, b, d, n, e1

(* Only the task moves, and the lock may be taken.                         *)
LEMMA StayTypes ==
  ASSUME TypeInv, NEW t \in Tasks, CreateOutside(t) \/ Iterate(t) \/ CreateCheck(t) \/ SymlinkCurr(t)
  PROVE  /\ TypeInv' /\ UNCHANGED <<table, super, dcache>> /\ pc[t] # "vfs" /\ pc'[t] # "vfs"
         /\ Busy(t) /\ (pc'[t] # "idle" => req'[t] = req[t])
         /\ pc'[t] \in {"lock", "oops"} => req[t].op \in Creates
         /\ pc'[t] = "lock" => pc[t] = "check"
         /\ lock' # lock => /\ pc[t] = "lock" /\ pc'[t] # "lock"
                            /\ pc'[t] = "oops" \/ req[t].op = "readmore"
         /\ \A u \in Tasks : u # t => pc'[u] = pc[u] /\ req'[u] = req[u]
<1>1. UNCHANGED <<table, super, dcache>> /\ pc[t] \in {"check", "lock", "curr"}
  BY DEF CreateOutside, Iterate, CreateCheck, SymlinkCurr, Section, Return, Goto
<1>2. lock' \in BOOLEAN
  <2>1. lock \in BOOLEAN
    BY DEF TypeInv, TypeOK
  <2>2. lock' = lock \/ lock' = TRUE \/ lock' = (req[t].op = "readmore")
    BY DEF CreateOutside, Iterate, CreateCheck, SymlinkCurr
  <2> QED BY <2>1, <2>2
<1>3. /\ Busy(t) /\ RequestInv(t)
  BY <1>1 DEF Busy, TypeInv
<1>4. \/ \E from : Return(t, from)
      \/ Goto(t, "lock", "oops") /\ UNCHANGED req /\ req[t].op \in Creates
      \/ Goto(t, "check", "lock") /\ UNCHANGED req
      \/ Goto(t, "check", "curr") /\ UNCHANGED req
      \/ Goto(t, "curr", "oops") /\ UNCHANGED req
  BY DEF CreateOutside, Iterate, CreateCheck, SymlinkCurr, Section, Creates
<1>5. /\ pc[t] \in {"check", "curr"} => req[t].op \in Creates
  BY <1>3 DEF RequestInv
<1>6. /\ pc' \in [Tasks -> {"idle", "check", "lock", "curr", "vfs", "oops"}]
      /\ req' \in [Tasks -> Requests] /\ \A u \in Tasks : RequestInv(u)'
      /\ \A u \in Tasks : u # t => pc'[u] = pc[u] /\ req'[u] = req[u]
      /\ \/ pc'[t] = "idle"
         \/ UNCHANGED req /\ req[t].op \in Creates /\ pc'[t] \in {"curr", "oops"}
         \/ UNCHANGED req /\ req[t].op \in Creates /\ pc'[t] = "lock" /\ pc[t] = "check"
  <2>1. CASE \E from : Return(t, from)
    BY <2>1, ReturnStep
  <2>2. CASE Goto(t, "lock", "oops") /\ UNCHANGED req /\ req[t].op \in Creates
    <3>1. pc[t] = "lock"
      BY <2>2 DEF Goto
    <3> QED BY <2>2, <3>1, GotoStep
  <2>3. CASE Goto(t, "check", "lock") /\ UNCHANGED req
    <3>1. pc[t] = "check"
      BY <2>3 DEF Goto
    <3> QED BY <1>5, <2>3, <3>1, GotoStep
  <2>4. CASE Goto(t, "check", "curr") /\ UNCHANGED req
    <3>1. pc[t] = "check"
      BY <2>4 DEF Goto
    <3> QED BY <1>5, <2>4, <3>1, GotoStep
  <2>5. CASE Goto(t, "curr", "oops") /\ UNCHANGED req
    <3>1. pc[t] = "curr"
      BY <2>5 DEF Goto
    <3> QED BY <1>5, <2>5, <3>1, GotoStep
  <2> QED BY <1>4, <2>1, <2>2, <2>3, <2>4, <2>5
<1>7. TypeOK'
  <2>1. UNCHANGED <<used, mode, entries, usedBlks, mounts, mounted, dcache>>
    BY <1>1 DEF table, super
  <2> QED BY <1>2, <1>6, <2>1, Zenon DEF TypeInv, TypeOK
<1>8. lock' # lock => /\ pc[t] = "lock" /\ (pc'[t] = "oops" \/ req[t].op = "readmore")
                      /\ pc'[t] # "lock"
  <2>1. CASE CreateOutside(t)
    <3>1. Goto(t, "lock", "oops") /\ UNCHANGED req /\ pc[t] = "lock"
      BY <2>1 DEF CreateOutside, Goto
    <3>2. pc'[t] = "oops"
      BY <3>1, GotoStep
    <3> QED BY <3>1, <3>2
  <2>2. CASE Iterate(t)
    <3>1. Return(t, "lock") /\ pc[t] = "lock" /\ lock' = (req[t].op = "readmore") /\ ~lock
      BY <2>2 DEF Iterate, Section
    <3>2. pc'[t] = "idle"
      BY <3>1, ReturnStep
    <3>3. lock \in BOOLEAN
      BY DEF TypeInv, TypeOK
    <3> QED BY <3>1, <3>2, <3>3
  <2>3. CASE CreateCheck(t) \/ SymlinkCurr(t)
    BY <2>3 DEF CreateCheck, SymlinkCurr
  <2> QED BY <2>1, <2>2, <2>3
<1> QED BY <1>1, <1>3, <1>6, <1>7, <1>8 DEF TypeInv

LEMMA RemoveTypes ==
  ASSUME TypeInv, NEW t \in Tasks, Unlink(t) \/ Rmdir(t)
  PROVE  LET d == req[t].dir
             n == req[t].name
             b == dcache[d][n]
         IN  /\ TypeInv' /\ pc[t] = "lock" /\ req[t].op \in {"unlink", "rmdir"}
             /\ UNCHANGED <<mode, usedBlks, lock, mounts, mounted, dcache>>
             /\ \A u \in Tasks : u # t => pc'[u] = pc[u] /\ req'[u] = req[u]
             /\ d \in Blocks /\ n \in Names /\ b \in Blocks
             /\ \/ /\ used' = used \ {b}
                   /\ entries'[d] = Without(entries[d], n)
                   /\ \A e \in Blocks : e # d => entries'[e] = entries[e]
                   /\ req[t].op = "rmdir" => entries[b] = <<>>
                   /\ \/ pc'[t] = "vfs" /\ req' = req
                      \/ pc'[t] = "idle" /\ req[t].op = "rmdir" /\ ~SimpleEmpty(b)
                \/ /\ pc'[t] = "idle" /\ req[t].op = "rmdir" /\ UNCHANGED <<used, entries>>
<1> DEFINE d == req[t].dir
           n == req[t].name
           b == dcache[d][n]
<1>1. /\ Section(t, {"unlink", "rmdir"})
      /\ UNCHANGED <<mode, usedBlks, lock, mounts, mounted, dcache>>
      /\ \/ Erase(d, n)
         \/ req[t].op = "rmdir" /\ UNCHANGED <<used, entries>>
      /\ \/ Goto(t, "lock", "vfs") /\ UNCHANGED req
         \/ Return(t, "lock")
  <2>1. Section(t, {"unlink", "rmdir"})
    BY DEF Unlink, Rmdir, Section
  <2>2. UNCHANGED <<mode, usedBlks, lock, mounts, mounted, dcache>>
    BY DEF Unlink, Rmdir, super
  <2>3. Erase(d, n) \/ (req[t].op = "rmdir" /\ UNCHANGED <<used, entries>>)
    BY DEF Unlink, Rmdir, Section
  <2>4. (Goto(t, "lock", "vfs") /\ UNCHANGED req) \/ Return(t, "lock")
    BY DEF Unlink, Rmdir
  <2> QED BY <2>1, <2>2, <2>3, <2>4, Zenon
<1>2. /\ pc[t] = "lock" /\ req[t].op \in {"unlink", "rmdir"} /\ d \in Blocks /\ n \in Names
  BY <1>1, SectionFacts DEF Listing
<1>3. /\ used \subseteq Blocks /\ mode \in [Blocks -> Kinds] /\ entries \in [Blocks -> Seq(Entry)]
      /\ usedBlks \in Nat /\ lock \in BOOLEAN
      /\ mounts \in 0 .. MAX_MOUNTS /\ mounted \in BOOLEAN
      /\ dcache \in [Blocks -> [Names -> Blocks]]
  BY Zenon DEF TypeInv, TypeOK
<1>4. b \in Blocks
  BY <1>2, <1>3
<1>5. /\ pc' \in [Tasks -> {"idle", "check", "lock", "curr", "vfs", "oops"}]
      /\ req' \in [Tasks -> Requests] /\ \A u \in Tasks : RequestInv(u)'
      /\ \A u \in Tasks : u # t => pc'[u] = pc[u] /\ req'[u] = req[u]
  <2>1. CASE Goto(t, "lock", "vfs") /\ UNCHANGED req
    BY <1>2, <2>1, GotoStep
  <2>2. CASE Return(t, "lock")
    BY <2>2, ReturnStep
  <2> QED BY <1>1, <2>1, <2>2
<1>6. /\ Goto(t, "lock", "vfs") /\ UNCHANGED req => pc'[t] = "vfs"
      /\ Return(t, "lock") => pc'[t] = "idle"
  BY <1>2, GotoStep, ReturnStep
<1>7. Without(entries[d], n) \in Seq(Entry)
  BY <1>2, <1>3, WithoutFinds
<1>8. Erase(d, n) => /\ used' = used \ {b} /\ entries' \in [Blocks -> Seq(Entry)]
                     /\ entries'[d] = Without(entries[d], n)
                     /\ \A e \in Blocks : e # d => entries'[e] = entries[e]
  BY <1>2, <1>3, <1>7 DEF Erase
<1>9. used' \subseteq Blocks /\ entries' \in [Blocks -> Seq(Entry)]
  BY <1>1, <1>3, <1>8
<1>10. TypeOK'
  BY <1>1, <1>3, <1>5, <1>9, Zenon DEF TypeOK
<1>11. \/ /\ Erase(d, n)
          /\ req[t].op = "rmdir" => entries[b] = <<>>
          /\ \/ Goto(t, "lock", "vfs") /\ UNCHANGED req
             \/ Return(t, "lock") /\ req[t].op = "rmdir" /\ ~SimpleEmpty(b)
       \/ Return(t, "lock") /\ req[t].op = "rmdir" /\ UNCHANGED <<used, entries>>
  <2>1. CASE Unlink(t)
    BY <2>1 DEF Unlink, Section
  <2>2. CASE Rmdir(t)
    BY <2>2 DEF Rmdir, Section, RmdirEmpty
  <2> QED BY <2>1, <2>2
<1> HIDE DEF d, n, b
<1> QED BY <1>1, <1>2, <1>4, <1>5, <1>6, <1>8, <1>10, <1>11 DEF TypeInv, d, n, b

LEMMA RenameTypes ==
  ASSUME TypeInv, NEW t \in Tasks, Rename(t)
  PROVE  LET r == req[t]
             b == Match(r.dir, r.name)
         IN  /\ TypeInv' /\ pc[t] = "lock" /\ r.op \in Moves /\ pc'[t] # "lock"
             /\ UNCHANGED <<used, mode, usedBlks, mounts, mounted, dcache, req>>
             /\ \A u \in Tasks : u # t => pc'[u] = pc[u]
             /\ r.dir \in Blocks /\ r.name \in Names /\ r.ndir \in Blocks /\ r.nname \in Names
             /\ b \in Blocks
             /\ b # None =>
                  /\ UNCHANGED lock /\ pc'[t] = "vfs"
                  /\ \A e \in Blocks : e \notin {r.dir, r.ndir} => entries'[e] = entries[e]
                  /\ r.dir # r.ndir => entries'[r.dir] = Without(entries[r.dir], r.name)
                  /\ entries'[r.ndir] =
                       Append(IF r.dir = r.ndir THEN Without(entries[r.ndir], r.name)
                                                ELSE entries[r.ndir],
                              [name |-> r.nname, index |-> b])
             /\ \/ b # None
                \/ /\ UNCHANGED lock
                   /\ \E i \in Blocks : 
                        /\ entries'[r.ndir] = Append(entries[r.ndir], [name |-> r.nname, index |-> i])
                        /\ \A e \in Blocks : e # r.ndir => entries'[e] = entries[e]
                \/ /\ pc'[t] = "oops"
                   /\ \E x \in Entry :
                        /\ entries'[r.ndir] = Append(entries[r.ndir], x)
                        /\ \A e \in Blocks : e # r.ndir => entries'[e] = entries[e]
<1> DEFINE d == req[t].dir
           n == req[t].name
           e1 == req[t].ndir
           m == req[t].nname
           b == Match(d, n)
           f == [entries EXCEPT ![d] = Without(@, n)]
<1>1. /\ Section(t, Moves) /\ UNCHANGED <<used, mode, usedBlks, mounts, mounted, dcache, req>>
      /\ \/ /\ b # None
            /\ entries' = [f EXCEPT ![e1] = Append(@, [name |-> m, index |-> b])]
            /\ lock' = lock /\ Goto(t, "lock", "vfs")
         \/ /\ b = None
            /\ \E i \in Blocks : entries' = [entries EXCEPT ![e1] = Append(@, [name |-> m, index |-> i])]
            /\ lock' = lock /\ Goto(t, "lock", "vfs")
         \/ /\ b = None
            /\ \E x \in Entry : entries' = [entries EXCEPT ![e1] = Append(@, x)]
            /\ lock' = TRUE /\ Goto(t, "lock", "oops")
  <2>1. Section(t, Moves) /\ UNCHANGED <<used, mode, usedBlks, mounts, mounted, dcache, req>>
    BY DEF Rename, super
  <2>2. \/ /\ b # None
           /\ entries' = [f EXCEPT ![e1] = Append(@, [name |-> m, index |-> b])]
           /\ lock' = lock /\ Goto(t, "lock", "vfs")
        \/ b = None /\ RenameNothing(t, req[t])
    BY DEF Rename
  <2>3. RenameNothing(t, req[t]) =>
          \/ /\ \E i \in Blocks : entries' = [entries EXCEPT ![e1] = Append(@, [name |-> m, index |-> i])]
             /\ lock' = lock /\ Goto(t, "lock", "vfs")
          \/ /\ \E x \in Entry : entries' = [entries EXCEPT ![e1] = Append(@, x)]
             /\ lock' = TRUE /\ Goto(t, "lock", "oops")
    BY DEF RenameNothing
  <2> HIDE DEF d, n, e1, m, b, f
  <2> QED BY <2>1, <2>2, <2>3
<1>2. /\ pc[t] = "lock" /\ req[t].op \in Moves
      /\ d \in Blocks /\ n \in Names /\ e1 \in Blocks /\ m \in Names
  <2>1. /\ pc[t] = "lock" /\ req[t].op \in Moves
        /\ req[t].dir \in Blocks /\ req[t].ndir \in Blocks
        /\ ~Listing(req[t]) => req[t].name \in Names /\ req[t].nname \in Names
    <3>1. Section(t, Moves)
      BY <1>1
    <3> QED BY <3>1, SectionFacts, Zenon
  <2>2. ~Listing(req[t])
    BY <2>1 DEF Listing, Moves
  <2> QED BY <2>1, <2>2
<1>3. /\ used \subseteq Blocks /\ mode \in [Blocks -> Kinds] /\ entries \in [Blocks -> Seq(Entry)]
      /\ usedBlks \in Nat /\ lock \in BOOLEAN
      /\ mounts \in 0 .. MAX_MOUNTS /\ mounted \in BOOLEAN
      /\ dcache \in [Blocks -> [Names -> Blocks]]
  BY Zenon DEF TypeInv, TypeOK
<1>4. b \in Blocks
  BY <1>2, MatchType DEF TypeInv
<1> HIDE DEF d, n, e1, m, b
<1>5. f \in [Blocks -> Seq(Entry)] /\ \A e \in Blocks : f[e] = IF e = d THEN Without(entries[d], n)
                                                                       ELSE entries[e]
  <2>1. Without(entries[d], n) \in Seq(Entry)
    BY <1>2, <1>3, WithoutFinds
  <2> QED BY <1>2, <1>3, <2>1
<1> HIDE DEF f
<1>6. ASSUME NEW g \in [Blocks -> Seq(Entry)], NEW x \in Entry,
             entries' = [g EXCEPT ![e1] = Append(@, x)]
      PROVE  /\ entries' \in [Blocks -> Seq(Entry)]
             /\ entries'[e1] = Append(g[e1], x)
             /\ \A e \in Blocks : e # e1 => entries'[e] = g[e]
  <2>1. Append(g[e1], x) \in Seq(Entry)
    BY <1>2
  <2> QED BY <1>2, <1>6, <2>1
<1>e. \A i \in Blocks : [name |-> m, index |-> i] \in Entry
  BY <1>2 DEF Entry
<1>7. entries' \in [Blocks -> Seq(Entry)]
  <2>1. CASE \E x \in Entry : entries' = [entries EXCEPT ![e1] = Append(@, x)]
    BY <1>3, <1>6, <2>1
  <2>2. CASE entries' = [f EXCEPT ![e1] = Append(@, [name |-> m, index |-> b])]
    BY <1>4, <1>5, <1>6, <1>e, <2>2
  <2>3. \/ \E x \in Entry : entries' = [entries EXCEPT ![e1] = Append(@, x)]
        \/ entries' = [f EXCEPT ![e1] = Append(@, [name |-> m, index |-> b])]
    BY <1>1, <1>e, Zenon
  <2> QED BY <2>1, <2>2, <2>3
<1>8. /\ pc' \in [Tasks -> {"idle", "check", "lock", "curr", "vfs", "oops"}]
      /\ req' \in [Tasks -> Requests] /\ \A u \in Tasks : RequestInv(u)'
      /\ \A u \in Tasks : u # t => pc'[u] = pc[u]
      /\ Goto(t, "lock", "vfs") => pc'[t] = "vfs"
      /\ Goto(t, "lock", "oops") => pc'[t] = "oops"
      /\ pc'[t] # "lock"
  <2>1. CASE Goto(t, "lock", "vfs")
    <3>1. ~Goto(t, "lock", "oops")
      BY <2>1 DEF Goto, TypeInv, TypeOK
    <3> QED BY <1>1, <1>2, <2>1, <3>1, GotoStep
  <2>2. CASE Goto(t, "lock", "oops")
    <3>1. ~Goto(t, "lock", "vfs")
      BY <2>2 DEF Goto, TypeInv, TypeOK
    <3> QED BY <1>1, <1>2, <2>2, <3>1, GotoStep
  <2> QED BY <1>1, <2>1, <2>2
<1>9. TypeOK'
  <2>1. lock' \in BOOLEAN
    BY <1>1, <1>3
  <2> QED BY <1>1, <1>3, <1>7, <1>8, <2>1, Zenon DEF TypeOK
<1>10. ASSUME b # None
       PROVE  /\ UNCHANGED lock /\ pc'[t] = "vfs"
              /\ \A e \in Blocks : e \notin {d, e1} => entries'[e] = entries[e]
              /\ d # e1 => entries'[d] = Without(entries[d], n)
              /\ entries'[e1] = Append(IF d = e1 THEN Without(entries[e1], n) ELSE entries[e1],
                                       [name |-> m, index |-> b])
  <2>1. entries' = [f EXCEPT ![e1] = Append(@, [name |-> m, index |-> b])]
    BY <1>1, <1>10
  <2>2. /\ entries'[e1] = Append(f[e1], [name |-> m, index |-> b])
        /\ \A e \in Blocks : e # e1 => entries'[e] = f[e]
    BY <1>4, <1>5, <1>6, <1>e, <2>1
  <2>3. f[e1] = IF d = e1 THEN Without(entries[e1], n) ELSE entries[e1]
    BY <1>2, <1>5
  <2> QED BY <1>1, <1>2, <1>5, <1>8, <1>10, <2>2, <2>3
<1>11. \/ b # None
       \/ /\ UNCHANGED lock
          /\ \E i \in Blocks :
               /\ entries'[e1] = Append(entries[e1], [name |-> m, index |-> i])
               /\ \A e \in Blocks : e # e1 => entries'[e] = entries[e]
       \/ /\ pc'[t] = "oops"
          /\ \E x \in Entry :
               /\ entries'[e1] = Append(entries[e1], x)
               /\ \A e \in Blocks : e # e1 => entries'[e] = entries[e]
  <2>1. CASE /\ \E i \in Blocks : entries' = [entries EXCEPT ![e1] = Append(@, [name |-> m, index |-> i])]
             /\ lock' = lock
    BY <1>3, <1>6, <1>e, <2>1
  <2>2. CASE /\ \E x \in Entry : entries' = [entries EXCEPT ![e1] = Append(@, x)]
             /\ Goto(t, "lock", "oops")
    BY <1>3, <1>6, <1>8, <2>2
  <2> QED BY <1>1, <2>1, <2>2
<1> QED BY <1>1, <1>2, <1>4, <1>8, <1>9, <1>10, <1>11 DEF TypeInv, d, n, e1, m, b

(* The VFS after an unlink, rmdir or rename: the names it is about.        *)
LEMMA SettleTypes ==
  ASSUME TypeInv, NEW t \in Tasks, Delete(t) \/ Move(t)
  PROVE  LET r == req[t]
         IN  /\ TypeInv' /\ pc[t] = "vfs" /\ pc'[t] = "idle"
             /\ UNCHANGED <<table, super, lock>>
             /\ \A u \in Tasks : u # t => pc'[u] = pc[u] /\ req'[u] = req[u]
             /\ r.dir \in Blocks /\ r.name \in Names /\ r.ndir \in Blocks /\ r.nname \in Names
             /\ r.op \in {"unlink", "rmdir"} =>
                  \A e \in Blocks, m \in Names :
                    dcache'[e][m] = IF e = r.dir /\ m = r.name THEN None ELSE dcache[e][m]
             /\ r.op \in Moves =>
                  IF r.op \in {"rename", "replace"} /\ SimpleEmpty(dcache[r.ndir][r.nname])
                  THEN \A e \in Blocks, m \in Names :
                         dcache'[e][m] = IF e = r.dir /\ m = r.name THEN None
                                         ELSE IF e = r.ndir /\ m = r.nname
                                         THEN dcache[r.dir][r.name] ELSE dcache[e][m]
                  ELSE dcache' = dcache
<1> DEFINE d == req[t].dir
           n == req[t].name
           e1 == req[t].ndir
           m1 == req[t].nname
           f == [dcache EXCEPT ![e1][m1] = dcache[d][n]]
<1>1. /\ Return(t, "vfs") /\ pc[t] = "vfs" /\ req[t].op \in {"unlink", "rmdir"} \cup Moves
      /\ UNCHANGED <<used, mode, entries, usedBlks, lock, mounts, mounted>>
  BY DEF Delete, Move, Return, Goto, Moves, table, super
<1>2. /\ d \in Blocks /\ n \in Names /\ e1 \in Blocks /\ m1 \in Names
  BY <1>1, RequestFacts DEF Listing, Moves, Busy
<1>3. /\ used \subseteq Blocks /\ mode \in [Blocks -> Kinds] /\ entries \in [Blocks -> Seq(Entry)]
      /\ usedBlks \in Nat /\ lock \in BOOLEAN
      /\ mounts \in 0 .. MAX_MOUNTS /\ mounted \in BOOLEAN
      /\ dcache \in [Blocks -> [Names -> Blocks]]
  BY Zenon DEF TypeInv, TypeOK
<1>4. /\ pc' \in [Tasks -> {"idle", "check", "lock", "curr", "vfs", "oops"}]
      /\ req' \in [Tasks -> Requests] /\ \A u \in Tasks : RequestInv(u)'
      /\ pc'[t] = "idle" /\ \A u \in Tasks : u # t => pc'[u] = pc[u] /\ req'[u] = req[u]
  BY <1>1, ReturnStep
<1>5. None \in Blocks /\ dcache[d][n] \in Blocks
  BY <1>2, <1>3, Constants
<1>6. /\ f \in [Blocks -> [Names -> Blocks]]
      /\ \A e \in Blocks, m \in Names :
           f[e][m] = IF e = e1 /\ m = m1 THEN dcache[d][n] ELSE dcache[e][m]
  <2> DEFINE b == dcache[d][n]
  <2>1. e1 \in Blocks /\ m1 \in Names /\ b \in Blocks /\ dcache \in [Blocks -> [Names -> Blocks]]
    BY <1>2, <1>3, <1>5
  <2> HIDE DEF b, e1, m1
  <2>2. /\ [dcache EXCEPT ![e1][m1] = b] \in [Blocks -> [Names -> Blocks]]
        /\ \A e \in Blocks, m \in Names :
             [dcache EXCEPT ![e1][m1] = b][e][m] = IF e = e1 /\ m = m1 THEN b ELSE dcache[e][m]
    BY <2>1, CacheUpdate
  <2> QED BY <2>2 DEF b
<1>7. CASE Delete(t)
  <2>1. req[t].op \notin Moves /\ dcache' = [dcache EXCEPT ![d][n] = None]
    BY <1>7 DEF Delete, Moves
  <2>2. /\ dcache' \in [Blocks -> [Names -> Blocks]]
        /\ \A e \in Blocks, m \in Names :
             dcache'[e][m] = IF e = d /\ m = n THEN None ELSE dcache[e][m]
    <3>1. /\ d \in Blocks /\ n \in Names /\ None \in Blocks
          /\ dcache \in [Blocks -> [Names -> Blocks]]
          /\ dcache' = [dcache EXCEPT ![d][n] = None]
      BY <1>2, <1>3, <1>5, <2>1
    <3> HIDE DEF d, n
    <3> QED BY <3>1, CacheUpdate
  <2>3. TypeOK'
    BY <1>1, <1>3, <1>4, <2>2, Zenon DEF TypeOK
  <2> QED BY <1>1, <1>2, <1>4, <2>1, <2>2, <2>3 DEF TypeInv, table, super
<1>8. CASE Move(t)
  <2> DEFINE succeeds == req[t].op \in {"rename", "replace"} /\ SimpleEmpty(dcache[e1][m1])
  <2>1. /\ req[t].op \notin {"unlink", "rmdir"}
        /\ IF succeeds THEN dcache' = [f EXCEPT ![d][n] = None] ELSE dcache' = dcache
    BY <1>8 DEF Move, Moves
  <2> HIDE DEF d, n, e1, m1, f
  <2>2. CASE succeeds
    <3>1. dcache' = [f EXCEPT ![d][n] = None]
      BY <2>1, <2>2
    <3>2. /\ dcache' \in [Blocks -> [Names -> Blocks]]
          /\ \A e \in Blocks, m \in Names :
               dcache'[e][m] = IF e = d /\ m = n THEN None ELSE f[e][m]
      <4>1. d \in Blocks /\ n \in Names /\ None \in Blocks /\ f \in [Blocks -> [Names -> Blocks]]
        BY <1>2, <1>5, <1>6
      <4> QED BY <3>1, <4>1, CacheUpdate
    <3>3. TypeOK'
      BY <1>1, <1>3, <1>4, <3>2, Zenon DEF TypeOK
    <3>4. \A e \in Blocks, m \in Names :
            dcache'[e][m] = IF e = d /\ m = n THEN None
                            ELSE IF e = e1 /\ m = m1 THEN dcache[d][n] ELSE dcache[e][m]
      BY <1>6, <3>2
    <3> QED BY <1>1, <1>2, <1>4, <2>1, <2>2, <3>3, <3>4
            DEF TypeInv, table, super, d, n, e1, m1
  <2>3. CASE ~succeeds
    <3>1. TypeOK'
      BY <1>1, <1>3, <1>4, <2>1, <2>3, Zenon DEF TypeOK
    <3> QED BY <1>1, <1>2, <1>4, <2>1, <2>3, <3>1 DEF TypeInv, table, super, d, n, e1, m1
  <2> QED BY <2>2, <2>3
<1> QED BY <1>7, <1>8

(* The dentry cache follows a directory, or forgets.                       *)
LEMMA CacheTypes ==
  ASSUME TypeInv, NEW d \in Blocks, NEW n \in Names, Lookup(d, n) \/ Evict(d, n)
  PROVE  /\ TypeInv' /\ UNCHANGED <<table, super, lock, pc, req>>
         /\ \A e \in Blocks, m \in Names : e # d \/ m # n => dcache'[e][m] = dcache[e][m]
         /\ Lookup(d, n) => dcache'[d][n] = Match(d, n)
         /\ Evict(d, n) => dcache'[d][n] = None
<1> DEFINE b == IF Lookup(d, n) THEN Match(d, n) ELSE None
<1>1. /\ UNCHANGED <<used, mode, entries, usedBlks, lock, mounts, mounted, pc, req>>
      /\ dcache' = [dcache EXCEPT ![d][n] = b] /\ ~(Lookup(d, n) /\ Evict(d, n))
  BY DEF Lookup, Evict, table, super
<1>2. b \in Blocks /\ dcache \in [Blocks -> [Names -> Blocks]]
  BY MatchType, Constants DEF TypeInv, TypeOK
<1> HIDE DEF b
<1>3. /\ dcache' \in [Blocks -> [Names -> Blocks]]
      /\ \A e \in Blocks, m \in Names : dcache'[e][m] = IF e = d /\ m = n THEN b ELSE dcache[e][m]
  BY <1>1, <1>2, CacheUpdate
<1>4. TypeOK'
  BY <1>1, <1>3, Zenon DEF TypeInv, TypeOK
<1>5. \A u \in Tasks : RequestInv(u)'
  BY <1>1 DEF TypeInv, RequestInv, Busy, Listing
<1> QED BY <1>1, <1>3, <1>4, <1>5 DEF TypeInv, b, table, super

LEMMA MountTypes ==
  ASSUME TypeInv, Mount
  PROVE  /\ TypeInv' /\ ~mounted /\ mounted' /\ mounts' = mounts + 1
         /\ mounts < MAX_MOUNTS /\ mounts \in Nat
         /\ used' = used \cup {Root} /\ usedBlks' = usedBlks + 1
         /\ mode'[Root] = "dir" /\ entries'[Root] = <<>>
         /\ \A b \in Blocks : b # Root => mode'[b] = mode[b] /\ entries'[b] = entries[b]
         /\ UNCHANGED <<lock, dcache, pc, req>>
<1>1. /\ used \subseteq Blocks /\ mode \in [Blocks -> Kinds] /\ entries \in [Blocks -> Seq(Entry)]
      /\ usedBlks \in Nat /\ mounts \in 0 .. MAX_MOUNTS /\ MAX_MOUNTS \in Nat
  BY BoundAssumption, Zenon DEF TypeInv, TypeOK
<1>2. /\ ~mounted /\ mounted' = TRUE /\ mounts' = mounts + 1 /\ mounts < MAX_MOUNTS
      /\ used' = used \cup {Root} /\ usedBlks' = usedBlks + 1
      /\ mode' = [mode EXCEPT ![Root] = "dir"] /\ entries' = [entries EXCEPT ![Root] = <<>>]
      /\ UNCHANGED <<lock, dcache, pc, req>>
  BY DEF Mount
<1>3. /\ mode'[Root] = "dir" /\ entries'[Root] = <<>>
      /\ \A b \in Blocks : b # Root => mode'[b] = mode[b] /\ entries'[b] = entries[b]
      /\ mode' \in [Blocks -> Kinds] /\ entries' \in [Blocks -> Seq(Entry)]
  BY <1>1, <1>2, Constants DEF Kinds
<1>4. used' \subseteq Blocks /\ usedBlks' \in Nat /\ mounts' \in 0 .. MAX_MOUNTS
  BY <1>1, <1>2, Constants
<1>5. TypeOK'
  <2>1. mounted' \in BOOLEAN
    BY <1>2
  <2> QED BY <1>2, <1>3, <1>4, <2>1, Zenon DEF TypeInv, TypeOK
<1>6. \A u \in Tasks : RequestInv(u)'
  BY <1>2 DEF TypeInv, RequestInv, Busy, Listing
<1> QED BY <1>1, <1>2, <1>3, <1>5, <1>6 DEF TypeInv

LEMMA UnmountTypes ==
  ASSUME TypeInv, Unmount
  PROVE  /\ TypeInv' /\ ~mounted' /\ (\A t \in Tasks : ~Busy(t))
         /\ UNCHANGED <<table, lock, mounts, pc, req>>
         /\ \A d \in Blocks, n \in Names : dcache'[d][n] = None
<1>1. /\ mounted' = FALSE /\ (\A t \in Tasks : ~Busy(t))
      /\ UNCHANGED <<used, mode, entries, usedBlks, lock, mounts, pc, req>>
      /\ dcache' = [b \in Blocks |-> [n \in Names |-> None]]
  BY DEF Unmount, table
<1>2. dcache' \in [Blocks -> [Names -> Blocks]] /\ mounted' \in BOOLEAN
  BY <1>1, Constants
<1>3. TypeOK'
  BY <1>1, <1>2, Zenon DEF TypeInv, TypeOK
<1>4. \A u \in Tasks : RequestInv(u)'
  BY <1>1 DEF TypeInv, RequestInv, Busy, Listing
<1> QED BY <1>1, <1>3, <1>4 DEF TypeInv, table

(* Every step is one of these.                                             *)
LEMMA NextCases ==
  ASSUME [Next]_vars
  PROVE  \/ \E t \in Tasks : \/ Start(t) \/ Create(t) \/ Unlink(t) \/ Rmdir(t) \/ Rename(t)
                             \/ Delete(t) \/ Move(t)
                             \/ CreateOutside(t) \/ Iterate(t) \/ CreateCheck(t) \/ SymlinkCurr(t)
         \/ \E d \in Blocks, n \in Names : Lookup(d, n) \/ Evict(d, n)
         \/ Mount \/ Unmount
         \/ UNCHANGED vars
BY DEF Next, LockedStep, FreeStep

LEMMA NextTypes == TypeInv /\ [Next]_vars => TypeInv'
<1> SUFFICES ASSUME TypeInv, [Next]_vars PROVE TypeInv'
  OBVIOUS
<1>1. CASE UNCHANGED vars
  BY <1>1 DEF vars, TypeInv, TypeOK, RequestInv, Busy, Listing
<1> QED BY <1>1, NextCases, StartTypes, CreateTypes, StayTypes, RemoveTypes, RenameTypes,
           SettleTypes, CacheTypes, MountTypes, UnmountTypes

(* The types, and that a call has the names it needs, for any calls.       *)
THEOREM TypeInvariance == Spec => []TypeInv
BY InitTypes, NextTypes, PTL DEF Spec

(* Every variable has its type, for any tasks, names and calls.            *)
THEOREM TypeCorrect == Spec => []TypeOK
<1>1. TypeInv => TypeOK
  BY DEF TypeInv
<1> QED BY <1>1, TypeInvariance, PTL

-----------------------------------------------------------------------------
(* The count of the blocks.                                                *)
LEMMA UsedFinite == TypeInv => IsFiniteSet(used)
<1>1. IsFiniteSet(Blocks)
  BY Constants, FS_Interval DEF Blocks
<1>2. TypeInv => used \subseteq Blocks
  BY DEF TypeInv, TypeOK
<1> QED BY <1>1, <1>2, FS_Subset

LEMMA CountStep == TypeInv /\ CountCoversUsed /\ [Next]_vars => CountCoversUsed'
<1> SUFFICES ASSUME TypeInv, CountCoversUsed, [Next]_vars PROVE CountCoversUsed'
  OBVIOUS
<1>1. IsFiniteSet(used) /\ Cardinality(used) \in Nat /\ usedBlks \in Nat
  BY UsedFinite, FS_CardinalityType DEF TypeInv, TypeOK
<1>2. ASSUME NEW b, used' = used \cup {b}, usedBlks' = usedBlks + 1 PROVE CountCoversUsed'
  <2>1. Cardinality(used \cup {b}) \in {Cardinality(used), Cardinality(used) + 1}
    BY <1>1, FS_AddElement
  <2> QED BY <1>1, <1>2, <2>1 DEF CountCoversUsed
<1>3. ASSUME NEW b, used' = used \ {b}, usedBlks' = usedBlks PROVE CountCoversUsed'
  <2>1. /\ Cardinality(used \ {b}) \in Nat /\ Cardinality(used \ {b}) <= Cardinality(used)
    <3>1. used \ {b} \subseteq used
      OBVIOUS
    <3> QED BY <1>1, <3>1, FS_Subset, FS_CardinalityType
  <2> QED BY <1>1, <1>3, <2>1 DEF CountCoversUsed
<1>4. CASE used' = used /\ usedBlks' = usedBlks
  BY <1>4 DEF CountCoversUsed
<1>5. ASSUME NEW t \in Tasks,
             \/ Start(t) \/ Create(t) \/ Unlink(t) \/ Rmdir(t) \/ Rename(t)
             \/ Delete(t) \/ Move(t)
             \/ CreateOutside(t) \/ Iterate(t) \/ CreateCheck(t) \/ SymlinkCurr(t)
      PROVE  CountCoversUsed'
  <2>1. CASE Create(t)
    BY <1>2, <2>1, CreateTypes
  <2>2. CASE Unlink(t) \/ Rmdir(t)
    <3>1. usedBlks' = usedBlks
      BY <2>2, RemoveTypes
    <3>2. used' = used \/ \E b : used' = used \ {b}
      BY <2>2, RemoveTypes
    <3> QED BY <1>3, <1>4, <3>1, <3>2
  <2>3. CASE \/ Start(t) \/ Rename(t) \/ Delete(t) \/ Move(t)
             \/ CreateOutside(t) \/ Iterate(t) \/ CreateCheck(t) \/ SymlinkCurr(t)
    BY <1>4, <2>3 DEF Start, Rename, Delete, Move, CreateOutside, Iterate, CreateCheck,
                      SymlinkCurr, table
  <2> QED BY <1>5, <2>1, <2>2, <2>3
<1>6. CASE Mount
  BY <1>2, <1>6, MountTypes
<1>7. CASE Unmount \/ UNCHANGED vars \/ \E d \in Blocks, n \in Names : Lookup(d, n) \/ Evict(d, n)
  BY <1>4, <1>7 DEF Unmount, vars, Lookup, Evict, table
<1> QED BY <1>5, <1>6, <1>7, NextCases

(* The count of used blocks is never too low: nothing lowers it, and each  *)
(* create and mount that takes a block raises it.                          *)
THEOREM CountSafety == Spec => []CountCoversUsed
<1>1. Init => CountCoversUsed
  BY FS_EmptySet DEF Init, CountCoversUsed
<1> QED BY <1>1, CountStep, TypeInvariance, PTL DEF Spec

-----------------------------------------------------------------------------
(* What a step does to the names of directories, name by name.             *)
(* The block of the name n of d after it: d and n are not primed.          *)
After(d, n) == Find(entries'[d], n)

LEMMA MatchNext == \A d, n : Match(d, n)' = After(d, n)
BY DEF Match, Find, After

(* Create: a new name in one directory; the block of the new file has none. *)
LEMMA CreateNames ==
  ASSUME TypeInv, NEW t \in Tasks, Create(t), req[t].dir # GetBlock
  PROVE  LET d == req[t].dir
             n == req[t].name
         IN  /\ \A e \in Blocks, m \in Names :
                  e # GetBlock /\ (e # d \/ m # n) => After(e, m) = Match(e, m)
             /\ \A m \in Names : After(GetBlock, m) = None
             /\ WellFormed(entries[d]) /\ Match(d, n) = None
                  => After(d, n) = GetBlock /\ WellFormed(entries'[d])
<1> DEFINE d == req[t].dir
           n == req[t].name
           new == [name |-> n, index |-> GetBlock]
<1>1. /\ d \in Blocks /\ n \in Names /\ GetBlock \in Blocks /\ GetBlock # None
      /\ \A e \in Blocks : e \notin {GetBlock, d} => entries'[e] = entries[e]
      /\ entries'[GetBlock] = <<>> /\ entries'[d] = Append(entries[d], new)
  <2>1. GetBlock # None
    <3>1. GetBlock \in 2 .. MAX_FILE - 1
      BY CreateTypes
    <3> QED BY <3>1, Constants
  <2> QED BY <2>1, CreateTypes
<1>2. new \in Entry /\ new.name = n /\ new.index = GetBlock /\ entries[d] \in Seq(Entry)
  BY <1>1 DEF Entry, TypeInv, TypeOK
<1> HIDE DEF d, n, new
<1>3. ASSUME NEW e \in Blocks, NEW m \in Names, e # GetBlock, e # d \/ m # n
      PROVE  After(e, m) = Match(e, m)
  <2>1. CASE e # d
    <3>1. entries'[e] = entries[e]
      BY <1>1, <1>3, <2>1
    <3> QED BY <3>1, MatchIsFind DEF After
  <2>2. CASE e = d
    <3>1. Find(Append(entries[d], new), m) = Find(entries[d], m)
      BY <1>2, <1>3, <2>2, AppendFinds
    <3> QED BY <1>1, <2>2, <3>1, MatchIsFind DEF After
  <2> QED BY <2>1, <2>2
<1>4. \A m \in Names : After(GetBlock, m) = None
  BY <1>1, FindEmpty DEF After
<1>5. ASSUME WellFormed(entries[d]), Match(d, n) = None
      PROVE  After(d, n) = GetBlock /\ WellFormed(entries'[d])
  <2>1. Find(entries[d], new.name) = None
    BY <1>2, <1>5, MatchIsFind
  <2>2. /\ WellFormed(Append(entries[d], new))
        /\ Find(Append(entries[d], new), new.name) = new.index
    <3>1. new.name # NoName
      BY <1>1, <1>2, NameAssumption
    <3> QED BY <1>1, <1>2, <1>5, <2>1, <3>1, AppendFinds
  <2> QED BY <1>1, <1>2, <2>2 DEF After
<1> QED BY <1>3, <1>4, <1>5 DEF d, n

(* Unlink and rmdir: a name less, or nothing.                              *)
LEMMA RemoveNames ==
  ASSUME TypeInv, NEW t \in Tasks, Unlink(t) \/ Rmdir(t)
  PROVE  LET d == req[t].dir
             n == req[t].name
         IN  /\ \A e \in Blocks, m \in Names :
                  (e # d \/ m # n) => After(e, m) = Match(e, m)
             /\ WellFormed(entries[d]) => WellFormed(entries'[d])
             /\ WellFormed(entries[d]) /\ used' # used => After(d, n) = None
             /\ WellFormed(entries[d]) /\ pc'[t] = "vfs" => After(d, n) = None
<1> DEFINE d == req[t].dir
           n == req[t].name
<1>1. /\ d \in Blocks /\ n \in Names
      /\ \/ /\ entries'[d] = Without(entries[d], n)
            /\ \A e \in Blocks : e # d => entries'[e] = entries[e]
         \/ used' = used /\ entries' = entries /\ pc'[t] = "idle"
  BY RemoveTypes
<1>2. entries[d] \in Seq(Entry)
  BY <1>1 DEF TypeInv, TypeOK
<1> HIDE DEF d, n
<1>3. CASE /\ entries'[d] = Without(entries[d], n)
           /\ \A e \in Blocks : e # d => entries'[e] = entries[e]
  <2>1. ASSUME NEW e \in Blocks, NEW m \in Names, e # d \/ m # n
        PROVE  After(e, m) = Match(e, m)
    <3>1. CASE e # d
      BY <1>3, <3>1, MatchIsFind DEF After
    <3>2. CASE e = d
      <4>1. Find(Without(entries[d], n), m) = Find(entries[d], m)
        BY <1>2, <2>1, <3>2, WithoutFinds
      <4> QED BY <1>3, <3>2, <4>1, MatchIsFind DEF After
    <3> QED BY <3>1, <3>2
  <2>2. WellFormed(entries[d]) => WellFormed(entries'[d]) /\ After(d, n) = None
    BY <1>2, <1>3, WithoutFinds DEF After
  <2> QED BY <2>1, <2>2 DEF d, n
<1>4. CASE used' = used /\ entries' = entries /\ pc'[t] = "idle"
  <2>1. \A e, m : After(e, m) = Match(e, m)
    BY <1>4, MatchIsFind DEF After
  <2> QED BY <1>4, <2>1 DEF d, n
<1> QED BY <1>1, <1>3, <1>4

(* Rename: one name gone, one new; also if the new one exists.  One that   *)
(* dies may leave a name where there was none.                             *)
LEMMA RenameNames ==
  ASSUME TypeInv, NEW t \in Tasks, Rename(t)
  PROVE  LET r == req[t]
         IN  /\ \A e \in Blocks, m \in Names :
                  <<e, m>> \notin {<<r.dir, r.name>>, <<r.ndir, r.nname>>}
                    => \/ After(e, m) = Match(e, m)
                       \/ /\ Match(e, m) = None /\ e = r.ndir /\ pc'[t] = "oops"
                          /\ Match(r.dir, r.name) = None
             /\ /\ Match(r.dir, r.name) # None /\ Match(r.ndir, r.nname) = None
                /\ WellFormed(entries[r.dir]) /\ WellFormed(entries[r.ndir])
                => /\ After(r.dir, r.name) = None
                   /\ After(r.ndir, r.nname) = Match(r.dir, r.name)
                   /\ WellFormed(entries'[r.dir]) /\ WellFormed(entries'[r.ndir])
                   /\ \A e \in Blocks : e \notin {r.dir, r.ndir} => entries'[e] = entries[e]
<1> DEFINE d == req[t].dir
           n == req[t].name
           e1 == req[t].ndir
           n1 == req[t].nname
           b == Match(d, n)
           s == IF d = e1 THEN Without(entries[e1], n) ELSE entries[e1]
           new == [name |-> n1, index |-> b]
<1>1. /\ d \in Blocks /\ n \in Names /\ e1 \in Blocks /\ n1 \in Names /\ b \in Blocks
      /\ b # None =>
            /\ \A e \in Blocks : e \notin {d, e1} => entries'[e] = entries[e]
            /\ d # e1 => entries'[d] = Without(entries[d], n)
            /\ entries'[e1] = Append(s, new)
      /\ \/ b # None
         \/ \E i \in Blocks :
              /\ entries'[e1] = Append(entries[e1], [name |-> n1, index |-> i])
              /\ \A e \in Blocks : e # e1 => entries'[e] = entries[e]
         \/ /\ pc'[t] = "oops"
            /\ \E x \in Entry :
                 /\ entries'[e1] = Append(entries[e1], x)
                 /\ \A e \in Blocks : e # e1 => entries'[e] = entries[e]
  BY RenameTypes
<1> HIDE DEF d, n, e1, n1, b
<1>2. entries[d] \in Seq(Entry) /\ entries[e1] \in Seq(Entry)
  BY <1>1 DEF TypeInv, TypeOK
<1>3. CASE b # None
  <2>1. s \in Seq(Entry) /\ new \in Entry /\ new.name = n1 /\ new.index = b
    BY <1>1, <1>2, WithoutFinds DEF Entry
  <2>2. \A m : (m # n \/ d # e1) => Find(s, m) = Find(entries[e1], m)
    BY <1>2, WithoutFinds
  <2> HIDE DEF s, new
  <2>3. \A m : m # n1 => Find(Append(s, new), m) = Find(s, m)
    BY <2>1, AppendFinds
  <2>4. ASSUME NEW e \in Blocks, NEW m \in Names, <<e, m>> \notin {<<d, n>>, <<e1, n1>>}
        PROVE  After(e, m) = Match(e, m)
    <3>1. CASE e \notin {d, e1}
      BY <1>1, <1>3, <3>1, MatchIsFind DEF After
    <3>2. CASE e = e1
      <4>1. m # n1 /\ (m # n \/ d # e1)
        BY <2>4, <3>2
      <4>2. Find(Append(s, new), m) = Find(entries[e1], m)
        BY <2>2, <2>3, <4>1
      <4> QED BY <1>1, <1>3, <3>2, <4>2, MatchIsFind DEF After
    <3>3. CASE e = d /\ d # e1
      <4>1. m # n
        BY <2>4, <3>3
      <4>2. Find(Without(entries[d], n), m) = Find(entries[d], m)
        BY <1>2, <4>1, WithoutFinds
      <4> QED BY <1>1, <1>3, <3>3, <4>2, MatchIsFind DEF After
    <3> QED BY <3>1, <3>2, <3>3
  <2>5. ASSUME Match(e1, n1) = None, WellFormed(entries[d]), WellFormed(entries[e1])
        PROVE  /\ After(d, n) = None
               /\ After(e1, n1) = b
               /\ WellFormed(entries'[d]) /\ WellFormed(entries'[e1])
    <3>1. WellFormed(s)
      BY <1>2, <2>5, WithoutFinds DEF s
    <3>2. d # e1 \/ n # n1
      BY <1>3, <2>5 DEF b
    <3>3. Find(s, n1) = None
      <4>1. Find(entries[e1], n1) = None
        BY <2>5, MatchIsFind
      <4>2. n1 # n \/ d # e1
        BY <3>2
      <4> QED BY <2>2, <4>1, <4>2
    <3>n. new.name # NoName
      BY <1>1, <2>1, NameAssumption
    <3>4. WellFormed(Append(s, new)) /\ Find(Append(s, new), n1) = b
      BY <1>3, <2>1, <3>1, <3>3, <3>n, AppendFinds
    <3>5. /\ WellFormed(Without(entries[d], n)) /\ Find(Without(entries[d], n), n) = None
      BY <1>2, <2>5, WithoutFinds
    <3>6. CASE d # e1
      BY <1>1, <1>3, <3>4, <3>5, <3>6 DEF After
    <3>7. CASE d = e1
      <4>1. n # n1 /\ s = Without(entries[d], n)
        BY <3>2, <3>7 DEF s
      <4>2. Find(Append(s, new), n) = None
        BY <2>3, <3>5, <4>1
      <4> QED BY <1>1, <1>3, <3>4, <3>7, <4>2 DEF After
    <3> QED BY <3>6, <3>7
  <2> QED BY <1>1, <1>3, <2>4, <2>5 DEF d, n, e1, n1, b
<1>4. CASE b = None
  <2>1. ASSUME NEW e \in Blocks, NEW m \in Names, <<e, m>> # <<e1, n1>>
        PROVE  \/ After(e, m) = Match(e, m)
               \/ Match(e, m) = None /\ e = e1 /\ pc'[t] = "oops"
    <3>1. CASE entries'[e] = entries[e]
      BY <3>1, MatchIsFind DEF After
    <3>2. ASSUME NEW i \in Blocks, e = e1,
                 entries'[e1] = Append(entries[e1], [name |-> n1, index |-> i])
          PROVE  After(e, m) = Match(e, m)
      <4>1. [name |-> n1, index |-> i] \in Entry /\ m # [name |-> n1, index |-> i].name
        BY <1>1, <2>1, <3>2 DEF Entry
      <4>2. Find(Append(entries[e1], [name |-> n1, index |-> i]), m) = Find(entries[e1], m)
        BY <1>2, <4>1, AppendFinds
      <4> QED BY <3>2, <4>2, MatchIsFind DEF After
    <3>3. ASSUME NEW x \in Entry, e = e1, entries'[e1] = Append(entries[e1], x),
                 Match(e, m) # None
          PROVE  After(e, m) = Match(e, m)
      <4>1. Find(Append(entries[e1], x), m) = Find(entries[e1], m)
        BY <1>2, <3>3, AppendKeeps, MatchIsFind
      <4> QED BY <3>3, <4>1, MatchIsFind DEF After
    <3> QED BY <1>1, <1>4, <3>1, <3>2, <3>3
  <2> QED BY <1>4, <2>1 DEF d, n, e1, n1, b
<1> QED BY <1>3, <1>4

-----------------------------------------------------------------------------
(* A name changes its meaning by a call about it, and at its section.      *)
Independent ==
  \A d \in UsedDirs \cap UsedDirs', n \in Names :
     Match(d, n)' # Match(d, n) =>
       \/ mounts' # mounts
       \/ \E t \in Tasks : /\ pc[t] = "lock" /\ pc'[t] # "lock"
                           /\ \/ <<d, n>> \in Touched(req[t])
                              \/ Match(d, n) = None /\ Exposes(t, d)

LEMMA IndependentStep == TypeInv /\ [Next]_vars => Independent
<1> SUFFICES ASSUME TypeInv, [Next]_vars, NEW d \in UsedDirs, NEW n \in Names,
                    Match(d, n)' # Match(d, n), mounts' = mounts
             PROVE  \E t \in Tasks : /\ pc[t] = "lock" /\ pc'[t] # "lock"
                                     /\ \/ <<d, n>> \in Touched(req[t])
                                        \/ Match(d, n) = None /\ Exposes(t, d)
  BY DEF Independent
<1>1. d \in Blocks /\ d \in used /\ After(d, n) # Match(d, n) /\ entries'[d] # entries[d]
  <2>1. d \in Blocks /\ d \in used
    BY DEF UsedDirs, TypeInv, TypeOK
  <2>2. After(d, n) # Match(d, n)
    BY MatchNext
  <2> QED BY <2>1, <2>2, MatchIsFind DEF After
<1>2. ASSUME NEW t \in Tasks,
             \/ Start(t) \/ Create(t) \/ Unlink(t) \/ Rmdir(t) \/ Rename(t)
             \/ Delete(t) \/ Move(t)
             \/ CreateOutside(t) \/ Iterate(t) \/ CreateCheck(t) \/ SymlinkCurr(t)
      PROVE  /\ pc[t] = "lock" /\ pc'[t] # "lock"
             /\ \/ <<d, n>> \in Touched(req[t])
                \/ Match(d, n) = None /\ Exposes(t, d)
  <2>1. CASE Create(t)
    <3>1. /\ pc[t] = "lock" /\ pc'[t] # "lock" /\ req[t].op \in Creates
          /\ \A e \in Blocks : e \notin {GetBlock, req[t].dir} => entries'[e] = entries[e]
          /\ GetBlock \notin used
      BY <2>1, CreateTypes
    <3>2. d # GetBlock /\ d = req[t].dir
      BY <1>1, <3>1
    <3>3. n = req[t].name
      BY <1>1, <2>1, <3>2, CreateNames
    <3> QED BY <3>1, <3>2, <3>3 DEF Touched, Listing, Creates
  <2>2. CASE Unlink(t) \/ Rmdir(t)
    <3>1. pc[t] = "lock" /\ req[t].op \in {"unlink", "rmdir"} /\ pc'[t] # "lock"
      BY <2>2, RemoveTypes
    <3>2. d = req[t].dir /\ n = req[t].name
      BY <1>1, <2>2, RemoveNames
    <3> QED BY <3>1, <3>2 DEF Touched, Listing
  <2>3. CASE Rename(t)
    <3>1. pc[t] = "lock" /\ req[t].op \in Moves /\ pc'[t] # "lock"
      BY <2>3, RenameTypes
    <3>2. \/ <<d, n>> \in {<<req[t].dir, req[t].name>>, <<req[t].ndir, req[t].nname>>}
          \/ Match(d, n) = None /\ d = req[t].ndir /\ pc'[t] = "oops"
      BY <1>1, <2>3, RenameNames
    <3> QED BY <3>1, <3>2 DEF Touched, Listing, Moves, Exposes
  <2>4. CASE \/ Start(t) \/ Delete(t) \/ Move(t)
             \/ CreateOutside(t) \/ Iterate(t) \/ CreateCheck(t) \/ SymlinkCurr(t)
    <3>1. entries' = entries
      BY <2>4, StartTypes, SettleTypes, StayTypes DEF table
    <3> QED BY <1>1, <3>1
  <2> QED BY <1>2, <2>1, <2>2, <2>3, <2>4
<1>3. ~Mount
  BY MountTypes
<1>4. ~(Unmount \/ UNCHANGED vars \/ \E e \in Blocks, m \in Names : Lookup(e, m) \/ Evict(e, m))
  BY <1>1 DEF Unmount, vars, Lookup, Evict, table
<1>5. CASE \E t \in Tasks : \/ Start(t) \/ Create(t) \/ Unlink(t) \/ Rmdir(t) \/ Rename(t)
                            \/ Delete(t) \/ Move(t)
                            \/ CreateOutside(t) \/ Iterate(t) \/ CreateCheck(t) \/ SymlinkCurr(t)
  BY <1>2, <1>5, Zenon
<1> QED BY <1>3, <1>4, <1>5, NextCases

(* Moving entries up, appending and taking them out changes what no name   *)
(* means that the call is not about, also when renames replace names; but  *)
(* a rename that dies may leave a name where there was none.               *)
THEOREM NamesSafety == Spec => NamesIndependent
<1>1. TypeInv /\ [Next]_vars => [Independent]_vars
  BY IndependentStep
<1>2. Spec => [][Independent]_vars
  BY <1>1, TypeInvariance, PTL DEF Spec
<1> QED BY <1>2 DEF NamesIndependent, Independent

-----------------------------------------------------------------------------
(* From here on all renames are plain ones to a free name.                 *)
Inv == TypeInv /\ TreeInv

LEMMA BusyFacts ==
  ASSUME Inv, PlainRenames, NEW t \in Tasks, Busy(t)
  PROVE  LET r == req[t]
             here == dcache[r.dir][r.name]
         IN  /\ mounted /\ RequestInv(t) /\ CallInv(t) 
             /\ r.op \in Moves => r.op = "rename"
             /\ r.dir \in UsedDirs /\ r.ndir \in UsedDirs
             /\ r.dir \in Locks(r) /\ r.ndir \in Locks(r)
             /\ r.op \in {"unlink", "rmdir"} /\ here # None => here \in Locks(r)
<1>1. mounted /\ RequestInv(t) /\ CallInv(t)
  BY DEF Inv, TypeInv, TreeInv, MountInv
<1>2. req[t].op \in Moves => req[t].op = "rename"
  BY <1>1 DEF RequestInv, PlainRenames, Moves
<1>3. req[t].dir \in UsedDirs /\ req[t].ndir \in UsedDirs
  BY <1>1 DEF CallInv
<1>4. \A b \in UsedDirs : b # None
  BY Constants DEF UsedDirs, Inv, TreeInv, MountInv
<1>5. req[t].dir \in Locks(req[t]) /\ req[t].ndir \in Locks(req[t])
  BY <1>3, <1>4 DEF Locks
<1>6. req[t].op \in {"unlink", "rmdir"} /\ dcache[req[t].dir][req[t].name] # None
        => dcache[req[t].dir][req[t].name] \in Locks(req[t])
  BY DEF Locks, Victims, Moves
<1> QED BY <1>1, <1>2, <1>3, <1>5, <1>6

(* Two calls have different directories, and neither removes the other's.  *)
LEMMA Exclusive ==
  ASSUME Inv, PlainRenames, NEW t \in Tasks, NEW u \in Tasks, t # u, Busy(t), Busy(u)
  PROVE  LET r == req[t]
             q == req[u]
             here == dcache[r.dir][r.name]
         IN  /\ q.dir \notin {r.dir, r.ndir} /\ q.ndir \notin {r.dir, r.ndir}
             /\ r.op \in {"unlink", "rmdir"} /\ here # None =>
                  q.dir # here /\ q.ndir # here
<1>1. Locks(req[t]) \cap Locks(req[u]) = {}
  BY DEF Inv, TreeInv, LockInv
<1>2. /\ req[t].dir \in Locks(req[t]) /\ req[t].ndir \in Locks(req[t])
      /\ req[u].dir \in Locks(req[u]) /\ req[u].ndir \in Locks(req[u])
  BY BusyFacts
<1>3. req[t].op \in {"unlink", "rmdir"} /\ dcache[req[t].dir][req[t].name] # None
        => dcache[req[t].dir][req[t].name] \in Locks(req[t])
  BY BusyFacts
<1> QED BY <1>1, <1>2, <1>3

(* A name that a call is about between its unlock and its return is a name *)
(* of a directory in use.                                                  *)
LEMMA SettlingFacts ==
  ASSUME Inv, PlainRenames, NEW d, NEW n, Settling(d, n)
  PROVE  \E t \in Tasks :
           /\ pc[t] = "vfs" /\ Busy(t) /\ ~Listing(req[t])
           /\ \/ d = req[t].dir /\ n = req[t].name
              \/ d = req[t].ndir /\ n = req[t].nname
           /\ d \in UsedDirs /\ d \in Locks(req[t])
<1>1. PICK t \in Tasks : pc[t] = "vfs" /\ <<d, n>> \in Touched(req[t])
  BY DEF Settling
<1>2. Busy(t)
  BY <1>1 DEF Busy
<1>3. /\ ~Listing(req[t])
      /\ \/ d = req[t].dir /\ n = req[t].name
         \/ d = req[t].ndir /\ n = req[t].nname
  BY <1>1 DEF Touched
<1>4. /\ req[t].dir \in Locks(req[t]) /\ req[t].ndir \in Locks(req[t])
      /\ req[t].dir \in UsedDirs /\ req[t].ndir \in UsedDirs
  BY <1>2, BusyFacts
<1> QED BY <1>1, <1>2, <1>3, <1>4

(* A cached dentry of a directory leads to a block in use, unless a call   *)
(* that has the block locked is about to drop it.                          *)
LEMMA CachedFacts ==
  ASSUME Inv, PlainRenames, NEW d \in Blocks, NEW n \in Names, dcache[d][n] # None
  PROVE  \/ dcache[d][n] \in used \ {Root} /\ d \in UsedDirs
         \/ dcache[d][n] \in Locked /\ d \in UsedDirs
<1>1. CASE ~Settling(d, n)
  <2>1. d \in UsedDirs /\ dcache[d][n] = Match(d, n)
    BY <1>1 DEF Inv, TreeInv, CacheInv
  <2> QED BY <2>1 DEF Inv, TreeInv, LinksToUsed
<1>2. CASE Settling(d, n)
  <2>1. PICK t \in Tasks :
           /\ pc[t] = "vfs" /\ Busy(t) /\ ~Listing(req[t])
           /\ \/ d = req[t].dir /\ n = req[t].name
              \/ d = req[t].ndir /\ n = req[t].nname
           /\ d \in UsedDirs /\ d \in Locks(req[t])
    BY <1>2, SettlingFacts
  <2>2. /\ RequestInv(t) /\ CallInv(t) /\ (req[t].op \in Moves => req[t].op = "rename")
        /\ req[t].op \in {"unlink", "rmdir"} /\ dcache[req[t].dir][req[t].name] # None
             => dcache[req[t].dir][req[t].name] \in Locks(req[t])
    BY <2>1, BusyFacts
  <2>3. CASE req[t].op \in {"unlink", "rmdir"}
    <3>1. d = req[t].dir /\ n = req[t].name
      BY <2>1, <2>2, <2>3 DEF RequestInv, Moves
    <3>2. dcache[d][n] \in Locks(req[t])
      BY <2>2, <2>3, <3>1
    <3> QED BY <2>1, <3>2 DEF Locked
  <2>4. CASE req[t].op = "rename"
    <3>1. /\ dcache[req[t].ndir][req[t].nname] = None
          /\ Match(req[t].ndir, req[t].nname) = dcache[req[t].dir][req[t].name]
      BY <2>1, <2>2, <2>4 DEF CallInv
    <3>2. d = req[t].dir /\ n = req[t].name
      BY <2>1, <3>1
    <3>3. req[t].ndir \in UsedDirs /\ req[t].nname \in Names
      BY <2>1, BusyFacts, RequestFacts DEF Inv
    <3>4. Match(req[t].ndir, req[t].nname) \in used \ {Root}
      BY <3>1, <3>2, <3>3 DEF Inv, TreeInv, LinksToUsed
    <3> QED BY <2>1, <3>1, <3>2, <3>4
  <2> QED BY <2>1, <2>2, <2>3, <2>4 DEF RequestInv
<1> QED BY <1>1, <1>2

(* Every directory that a call may start in is in use.                     *)
LEMMA DirsUsed ==
  ASSUME Inv, PlainRenames, mounted, NEW d \in Dirs, d \notin Locked
  PROVE  d \in UsedDirs /\ d # None
<1>1. d # None /\ mode[d] = "dir"
  BY DEF Dirs, Inv, TreeInv, MountInv
<1>2. CASE d = Root
  BY <1>1, <1>2 DEF Inv, TreeInv, MountInv
<1>3. CASE d # Root
  <2>1. PICK p \in Blocks, n \in Names : dcache[p][n] = d
    BY <1>3 DEF Dirs, Cached
  <2>2. d \in used
    BY <1>1, <2>1, CachedFacts
  <2> QED BY <1>1, <2>2 DEF UsedDirs
<1> QED BY <1>2, <1>3

-----------------------------------------------------------------------------
(* A step that leaves alone what the call of u is about.                   *)
Apart(u) ==
  LET r == req[u]
      here == dcache[r.dir][r.name]
  IN  /\ pc'[u] = pc[u] /\ req'[u] = req[u]
      /\ Busy(u) =>
           /\ r.dir \in UsedDirs' /\ r.ndir \in UsedDirs'
           /\ ~Listing(r) => /\ dcache'[r.dir][r.name] = dcache[r.dir][r.name]
                             /\ dcache'[r.ndir][r.nname] = dcache[r.ndir][r.nname]
                             /\ After(r.dir, r.name) = Match(r.dir, r.name)
                             /\ After(r.ndir, r.nname) = Match(r.ndir, r.nname)
                             /\ mode'[here] = mode[here] \/ here \notin used

LEMMA ApartFacts ==
  ASSUME Inv, PlainRenames, NEW u \in Tasks, Apart(u), Busy(u)
  PROVE  Locks(req[u])' = Locks(req[u]) /\ CallInv(u)'
<1> DEFINE r == req[u]
           here == dcache[r.dir][r.name]
           there == dcache[r.ndir][r.nname]
<1>1. /\ RequestInv(u) /\ CallInv(u) /\ (r.op \in Moves => r.op = "rename") /\ r.op \in Ops
      /\ r.dir \in UsedDirs /\ r.ndir \in UsedDirs /\ r.dir \in Locks(r)
  BY BusyFacts DEF RequestInv
<1>2. /\ pc'[u] = pc[u] /\ req'[u] = r
      /\ r.dir \in UsedDirs' /\ r.ndir \in UsedDirs'
      /\ ~Listing(r) => /\ dcache'[r.dir][r.name] = here
                        /\ dcache'[r.ndir][r.nname] = there
                        /\ After(r.dir, r.name) = Match(r.dir, r.name)
                        /\ After(r.ndir, r.nname) = Match(r.ndir, r.nname)
                        /\ mode'[here] = mode[here] \/ here \notin used
  BY DEF Apart
<1>3. r.op \in {"unlink", "rmdir", "rename"} => ~Listing(r)
  BY DEF Listing
<1>4. CASE r.op \notin {"unlink", "rmdir", "rename"}
  <2>1. Locks(req[u])' = Locks(r)
    BY <1>1, <1>2, <1>4 DEF Locks, Victims, Moves
  <2>2. Match(r.dir, r.name)' = After(r.dir, r.name) /\ (r.op \in Creates => ~Listing(r))
    BY <1>2, MatchNext DEF Creates, Listing
  <2>3. CallInv(u)'
    BY <1>1, <1>2, <1>4, <2>2, MatchNext DEF CallInv, Busy, After
  <2> QED BY <2>1, <2>3
<1>5. CASE r.op \in {"unlink", "rmdir"}
  <2>1. Locks(req[u])' = Locks(r)
    BY <1>1, <1>2, <1>3, <1>5 DEF Locks, Victims
  <2>2. pc[u] = "lock" => mode'[here] = mode[here]
    <3>1. SUFFICES ASSUME pc[u] = "lock" PROVE here \in used
      BY <1>2, <1>3, <1>5
    <3>2. here # None
      BY <1>1, <1>5, <3>1, Zenon DEF CallInv
    <3>3. ~Settling(r.dir, r.name)
      <4> SUFFICES ASSUME Settling(r.dir, r.name) PROVE FALSE
        OBVIOUS
      <4>1. PICK t \in Tasks : pc[t] = "vfs" /\ Busy(t) /\ r.dir \in Locks(req[t])
        BY SettlingFacts
      <4>2. t # u
        BY <3>1, <4>1
      <4> QED BY <1>1, <4>1, <4>2 DEF Inv, TreeInv, LockInv
    <3>4. r.dir \in Blocks /\ r.name \in Names
      BY <1>3, <1>5, RequestFacts DEF Inv
    <3>5. here = Match(r.dir, r.name)
      BY <3>2, <3>3, <3>4 DEF Inv, TreeInv, CacheInv
    <3> QED BY <1>1, <3>2, <3>4, <3>5 DEF Inv, TreeInv, LinksToUsed
  <2>3. CallInv(u)'
    BY <1>1, <1>2, <1>3, <1>5, <2>2, MatchNext DEF CallInv, Busy, After
  <2> QED BY <2>1, <2>3
<1>6. CASE r.op = "rename"
  <2>0. r.dir \in Blocks /\ r.name \in Names /\ r.ndir \in Blocks /\ r.nname \in Names
    BY <1>3, <1>6, RequestFacts DEF Inv
  <2>1. here \in used
    <3>1. here # None
      BY <1>1, <1>6, Zenon DEF CallInv
    <3>2. CASE pc[u] = "vfs"
      <4>1. here = Match(r.ndir, r.nname)
        BY <1>1, <1>6, <3>2, Zenon DEF CallInv
      <4> QED BY <1>1, <2>0, <3>1, <4>1 DEF Inv, TreeInv, LinksToUsed
    <3>3. CASE pc[u] # "vfs"
      <4>1. ~Settling(r.dir, r.name)
        <5> SUFFICES ASSUME Settling(r.dir, r.name) PROVE FALSE
          OBVIOUS
        <5>1. PICK t \in Tasks : pc[t] = "vfs" /\ Busy(t) /\ r.dir \in Locks(req[t])
          BY SettlingFacts
        <5>2. t # u
          BY <3>3, <5>1
        <5> QED BY <1>1, <5>1, <5>2 DEF Inv, TreeInv, LockInv
      <4>2. here = Match(r.dir, r.name)
        BY <2>0, <3>1, <4>1 DEF Inv, TreeInv, CacheInv
      <4> QED BY <1>1, <2>0, <3>1, <4>2 DEF Inv, TreeInv, LinksToUsed
    <3> QED BY <3>2, <3>3
  <2>2. mode'[here] = mode[here]
    BY <1>2, <1>3, <1>6, <2>1
  <2>3. Locks(req[u])' = Locks(r)
    BY <1>2, <1>3, <1>6, <2>2, ZenonT(30) DEF Locks, Victims
  <2>4. CallInv(u)'
    BY <1>1, <1>2, <1>3, <1>6, MatchNext DEF CallInv, Busy, After
  <2> QED BY <2>3, <2>4
<1> QED BY <1>4, <1>5, <1>6

(* ... and so does the call of the task that makes the step, or is over.   *)
LEMMA OthersStep ==
  ASSUME Inv, PlainRenames, NEW t \in Tasks, \A u \in Tasks \ {t} : Apart(u),
         ~Busy(t)' \/ (Busy(t) /\ Locks(req[t])' = Locks(req[t]) /\ CallInv(t)')
  PROVE  LockInv' /\ \A u \in Tasks : CallInv(u)'
<1>1. ASSUME NEW u \in Tasks PROVE CallInv(u)'
  <2>1. CASE u # t /\ Busy(u)
    BY <2>1, ApartFacts
  <2>2. CASE u # t /\ ~Busy(u)
    BY <2>2 DEF Apart, CallInv, Busy
  <2>3. CASE u = t
    BY <2>3 DEF CallInv, Busy
  <2> QED BY <2>1, <2>2, <2>3
<1>2. ASSUME NEW u \in Tasks, Busy(u)' PROVE Busy(u) /\ Locks(req[u])' = Locks(req[u])
  <2>1. CASE u # t
    <3>1. Busy(u)
      BY <1>2, <2>1 DEF Apart, Busy
    <3> QED BY <2>1, <3>1, ApartFacts
  <2>2. CASE u = t
    BY <1>2, <2>2
  <2> QED BY <2>1, <2>2
<1>3. LockInv'
  BY <1>2 DEF Inv, TreeInv, LockInv
<1> QED BY <1>1, <1>3

LEMMA NoneStep ==
  ASSUME Inv, PlainRenames, \A u \in Tasks : Apart(u)
  PROVE  LockInv' /\ \A u \in Tasks : CallInv(u)'
<1>1. ASSUME NEW u \in Tasks PROVE CallInv(u)'
  <2>1. CASE Busy(u)
    BY <2>1, ApartFacts
  <2>2. CASE ~Busy(u)
    BY <2>2 DEF Apart, CallInv, Busy
  <2> QED BY <2>1, <2>2
<1>2. ASSUME NEW u \in Tasks, Busy(u)' PROVE Busy(u) /\ Locks(req[u])' = Locks(req[u])
  <2>1. Busy(u)
    BY <1>2 DEF Apart, Busy
  <2> QED BY <2>1, ApartFacts
<1>3. LockInv'
  BY <1>2 DEF Inv, TreeInv, LockInv
<1> QED BY <1>1, <1>3

(* The conjuncts about names after a step, in terms of After.              *)
LEMMA NamesNext ==
  /\ LinksToUsed' <=> \A d \in UsedDirs', n \in Names :
                        After(d, n) # None => After(d, n) \in used' \ {Root}
  /\ LinksOnce' <=> \A d, e \in UsedDirs' : \A n, m \in Names :
                      After(d, n) # None /\ After(d, n) = After(e, m) => d = e /\ n = m
  /\ LinksToAll' <=> (MAX_MOUNTS <= 1 =>
                      \A b \in used' \ {Root} : \E d \in UsedDirs', n \in Names : After(d, n) = b)
  /\ CacheInv' <=> \A d \in Blocks, n \in Names :
                     dcache'[d][n] # None /\ ~Settling(d, n)' =>
                       d \in UsedDirs' /\ dcache'[d][n] = After(d, n)
BY MatchNext DEF LinksToUsed, LinksOnce, LinksToAll, CacheInv

(* A step of t that does not come to, or from, the VFS settling its names. *)
LEMMA SettlingSame ==
  ASSUME NEW t \in Tasks, pc[t] # "vfs", pc'[t] # "vfs",
         \A u \in Tasks : u # t => pc'[u] = pc[u] /\ req'[u] = req[u]
  PROVE  \A d, n : Settling(d, n)' <=> Settling(d, n)
<1>1. ASSUME NEW u \in Tasks PROVE pc'[u] = "vfs" <=> pc[u] = "vfs"
  BY <1>1
<1>2. \A u \in Tasks : pc[u] = "vfs" => req'[u] = req[u]
  OBVIOUS
<1> QED BY <1>1, <1>2 DEF Settling, Touched, Listing

(* What the tree is made of.                                               *)
LEMMA TreeFacts ==
  ASSUME Inv
  PROVE  /\ used \subseteq 1 .. MAX_FILE - 1 /\ UsedDirs \subseteq used
         /\ \A b \in used : b \in Blocks /\ b # None
         /\ \A d \in UsedDirs, n \in Names :
              Match(d, n) # None => Match(d, n) \in used \ {Root}
         /\ \A d, e \in UsedDirs : \A n, m \in Names :
              Match(d, n) # None /\ Match(d, n) = Match(e, m) => d = e /\ n = m
         /\ MAX_MOUNTS <= 1 =>
              \A b \in used \ {Root} : \E d \in UsedDirs, n \in Names : Match(d, n) = b
         /\ \A d \in Blocks, n \in Names :
              dcache[d][n] # None /\ ~Settling(d, n) => d \in UsedDirs /\ dcache[d][n] = Match(d, n)
<1>1. used \subseteq 1 .. MAX_FILE - 1 /\ UsedDirs \subseteq used
  BY DEF Inv, TreeInv, MountInv, UsedDirs
<1>2. \A b \in used : b \in Blocks /\ b # None
  BY <1>1, Constants DEF Blocks
<1> QED BY <1>1, <1>2, Zenon DEF Inv, TreeInv, LinksToUsed, LinksOnce, LinksToAll, CacheInv

(* What a step does to the tree of names, for the refinement at the end.   *)
NameAdded(d, n, b) ==
  /\ d \in Blocks /\ n \in Names /\ b \in Blocks \ {None, d}
  /\ Children[d][n] = None /\ Children'[d][n] = b
  /\ \A m \in Names : Children[b][m] = None
  /\ \A e \in Blocks, m \in Names : Children[e][m] # b
  /\ \A e \in Blocks, m \in Names : e # d \/ m # n => Children'[e][m] = Children[e][m]

NameRemoved(d, n) ==
  /\ d \in Blocks /\ n \in Names
  /\ Children[d][n] # None /\ Children'[d][n] = None
  /\ \A m \in Names : Children[Children[d][n]][m] = None
  /\ \A e \in Blocks, m \in Names : e # d \/ m # n => Children'[e][m] = Children[e][m]

NameMoved(d, n, d2, n2) ==
  /\ d \in Blocks /\ n \in Names /\ d2 \in Blocks /\ n2 \in Names /\ <<d, n>> # <<d2, n2>>
  /\ Children[d][n] # None /\ Children[d2][n2] = None
  /\ Children'[d][n] = None /\ Children'[d2][n2] = Children[d][n]
  /\ \A e \in Blocks, m \in Names :
       <<e, m>> \notin {<<d, n>>, <<d2, n2>>} => Children'[e][m] = Children[e][m]

LEMMA ChildrenFacts ==
  ASSUME TypeInv, TypeInv'
  PROVE  /\ Children \in [Blocks -> [Names -> Blocks]] /\ Children' \in [Blocks -> [Names -> Blocks]]
         /\ \A d \in Blocks, n \in Names :
              /\ Children[d][n] = IF d \in UsedDirs THEN Match(d, n) ELSE None
              /\ Children'[d][n] = IF d \in UsedDirs' THEN After(d, n) ELSE None
<1>1. \A d \in Blocks, n \in Names : Match(d, n) \in Blocks /\ After(d, n) \in Blocks
  <2>1. \A d \in Blocks : entries[d] \in Seq(Entry) /\ entries'[d] \in Seq(Entry)
    BY DEF TypeInv, TypeOK
  <2> QED BY <2>1, FindFacts, MatchIsFind DEF After
<1>2. Children = [d \in Blocks |-> [n \in Names |-> IF d \in UsedDirs THEN Match(d, n) ELSE None]]
  BY DEF Children, UsedDirs
<1>3. Children' = [d \in Blocks |-> [n \in Names |-> IF d \in UsedDirs' THEN After(d, n) ELSE None]]
  BY DEF Children, UsedDirs, Match, After, Find
<1> QED BY <1>1, <1>2, <1>3, Constants

(* A file is created: in a directory in use, under a name that is free.    *)
LEMMA CreateTree ==
  ASSUME Inv, PlainRenames, NEW t \in Tasks, Create(t)
  PROVE  TreeInv' /\ NameAdded(req[t].dir, req[t].name, GetBlock)
<1> DEFINE d == req[t].dir
           n == req[t].name
           b == GetBlock
<1>1. /\ pc[t] = "lock" /\ req[t].op \in Creates /\ pc'[t] = "idle"
      /\ \A u \in Tasks : u # t => pc'[u] = pc[u] /\ req'[u] = req[u]
      /\ d \in Blocks /\ n \in Names /\ b \in Blocks /\ b \notin used /\ b \in 2 .. MAX_FILE - 1
      /\ used' = used \cup {b}
      /\ \A c \in Blocks : c # b => mode'[c] = mode[c]
      /\ \A e \in Blocks : e \notin {b, d} => entries'[e] = entries[e]
      /\ \A e \in Blocks, m \in Names :
           dcache'[e][m] = IF e = d /\ m = n THEN b ELSE dcache[e][m]
      /\ mounts' = mounts /\ mounted' = mounted
  BY CreateTypes DEF Inv
<1>2. /\ Busy(t) /\ mounted /\ d \in UsedDirs /\ d # b
      /\ Match(d, n) = None /\ WellFormed(entries[d])
  <2>1. Busy(t)
    BY <1>1 DEF Busy
  <2>2. mounted /\ CallInv(t) /\ d \in UsedDirs
    BY <2>1, BusyFacts
  <2>3. Match(d, n) = None
    BY <1>1, <2>1, <2>2 DEF CallInv
  <2>4. WellFormed(entries[d])
    BY <2>2 DEF Inv, TreeInv, DirInv
  <2> QED BY <1>1, <2>1, <2>2, <2>3, <2>4 DEF UsedDirs
<1>3. /\ \A e \in Blocks, m \in Names : e # b /\ (e # d \/ m # n) => After(e, m) = Match(e, m)
      /\ \A m \in Names : After(b, m) = None
      /\ After(d, n) = b /\ WellFormed(entries'[d]) /\ entries'[b] = <<>>
  BY <1>2, CreateNames, CreateTypes DEF Inv
<1>4. b # None /\ b # Root
  BY <1>1, Constants
<1> HIDE DEF d, n, b
<1>5. /\ UsedDirs \subseteq UsedDirs' /\ UsedDirs' \subseteq UsedDirs \cup {b}
      /\ Root \in UsedDirs'
  <2>1. UsedDirs \subseteq UsedDirs'
    BY <1>1, TreeFacts DEF UsedDirs
  <2>2. UsedDirs' \subseteq UsedDirs \cup {b}
    BY <1>1, TreeFacts DEF UsedDirs
  <2>3. Root \in UsedDirs
    BY <1>2 DEF Inv, TreeInv, MountInv, UsedDirs
  <2> QED BY <2>1, <2>2, <2>3
<1>6. ASSUME NEW u \in Tasks \ {t} PROVE Apart(u)
  <2> DEFINE r == req[u]
  <2>1. pc'[u] = pc[u] /\ req'[u] = r
    BY <1>1
  <2>2. CASE Busy(u)
    <3>1. /\ r.dir \in UsedDirs /\ r.ndir \in UsedDirs /\ r.dir # d /\ r.ndir # d
      BY <1>2, <2>2, BusyFacts, Exclusive DEF d
    <3>2. r.dir \in Blocks /\ r.ndir \in Blocks /\ r.dir # b /\ r.ndir # b
      BY <1>1, <3>1, TreeFacts
    <3>3. ASSUME ~Listing(r)
          PROVE  /\ dcache'[r.dir][r.name] = dcache[r.dir][r.name]
                 /\ dcache'[r.ndir][r.nname] = dcache[r.ndir][r.nname]
                 /\ After(r.dir, r.name) = Match(r.dir, r.name)
                 /\ After(r.ndir, r.nname) = Match(r.ndir, r.nname)
                 /\ mode'[dcache[r.dir][r.name]] = mode[dcache[r.dir][r.name]]
                    \/ dcache[r.dir][r.name] \notin used
      <4>1. r.name \in Names /\ r.nname \in Names
        BY <2>2, <3>3, RequestFacts DEF Inv
      <4>2. dcache[r.dir][r.name] \in used => dcache[r.dir][r.name] \in Blocks
        BY TreeFacts
      <4> QED BY <1>1, <1>3, <3>1, <3>2, <4>1, <4>2
    <3> QED BY <1>5, <2>1, <3>1, <3>3 DEF Apart
  <2> QED BY <2>1, <2>2 DEF Apart
<1>7. LockInv' /\ \A u \in Tasks : CallInv(u)'
  <2>1. ~Busy(t)'
    BY <1>1 DEF Busy
  <2> QED BY <1>6, <2>1, OthersStep
<1>8. MountInv'
  <2>1. used' \subseteq 1 .. MAX_FILE - 1
    BY <1>1, TreeFacts
  <2>2. mode'[None] # "dir"
    BY <1>1, <1>4, Constants DEF Inv, TreeInv, MountInv
  <2>3. mounts # 0
    BY <1>2, Constants DEF Inv, TreeInv, MountInv, UsedDirs
  <2>4. mounted' => mounts' > 0
    BY <1>1 DEF Inv, TreeInv, MountInv
  <2> QED BY <1>1, <1>2, <1>5, <2>1, <2>2, <2>3, <2>4 DEF MountInv
<1>9. DirInv'
  <2>1. ASSUME NEW e \in UsedDirs' PROVE WellFormed(entries'[e])
    <3>1. CASE e = b
      BY <1>3, <3>1 DEF WellFormed
    <3>2. CASE e = d
      BY <1>3, <3>2
    <3>3. CASE e \notin {b, d}
      <4>1. e \in UsedDirs /\ e \in Blocks
        BY <1>5, <3>3, TreeFacts
      <4> QED BY <1>1, <3>3, <4>1 DEF Inv, TreeInv, DirInv
    <3> QED BY <3>1, <3>2, <3>3
  <2> QED BY <2>1 DEF DirInv, WellFormed
<1>10. ASSUME NEW e \in UsedDirs', NEW m \in Names, After(e, m) # None
       PROVE  /\ e \in UsedDirs /\ e # b
              /\ \/ e = d /\ m = n /\ After(e, m) = b
                 \/ (e # d \/ m # n) /\ After(e, m) = Match(e, m) /\ After(e, m) \in used \ {Root}
  <2>1. e # b /\ e \in UsedDirs /\ e \in Blocks
    BY <1>3, <1>5, <1>10, TreeFacts
  <2> QED BY <1>3, <1>10, <2>1, TreeFacts
<1>11. LinksToUsed'
  BY <1>1, <1>4, <1>10, NamesNext
<1>12. LinksOnce'
  <2>1. ASSUME NEW e1 \in UsedDirs', NEW e2 \in UsedDirs', NEW m1 \in Names, NEW m2 \in Names,
               After(e1, m1) # None, After(e1, m1) = After(e2, m2)
        PROVE  e1 = e2 /\ m1 = m2
    BY <1>1, <1>10, <2>1, TreeFacts
  <2> QED BY <2>1, NamesNext
<1>13. LinksToAll'
  <2>1. ASSUME MAX_MOUNTS <= 1, NEW c \in used' \ {Root}
        PROVE  \E e \in UsedDirs', m \in Names : After(e, m) = c
    <3>1. CASE c = b
      BY <1>1, <1>2, <1>3, <1>5, <3>1
    <3>2. CASE c # b
      <4>1. PICK e \in UsedDirs, m \in Names : Match(e, m) = c
        BY <1>1, <2>1, <3>2, TreeFacts
      <4>2. c # None /\ e \in Blocks /\ e # b
        BY <1>1, <2>1, <3>2, TreeFacts
      <4>3. After(e, m) = c
        BY <1>2, <1>3, <4>1, <4>2
      <4> QED BY <1>5, <4>3
    <3> QED BY <3>1, <3>2
  <2> QED BY <2>1, NamesNext
<1>14. CacheInv'
  <2>1. ASSUME NEW e \in Blocks, NEW m \in Names, dcache'[e][m] # None, ~Settling(e, m)'
        PROVE  e \in UsedDirs' /\ dcache'[e][m] = After(e, m)
    <3>1. CASE e = d /\ m = n
      BY <1>1, <1>2, <1>3, <1>5, <3>1
    <3>2. CASE ~(e = d /\ m = n)
      <4>1. dcache'[e][m] = dcache[e][m] /\ ~Settling(e, m)
        BY <1>1, <2>1, <3>2, SettlingSame
      <4>2. e \in UsedDirs /\ dcache[e][m] = Match(e, m)
        BY <2>1, <4>1, TreeFacts
      <4>3. e # b
        BY <1>1, <4>2, TreeFacts
      <4> QED BY <1>3, <1>5, <3>2, <4>1, <4>2, <4>3
    <3> QED BY <3>1, <3>2
  <2> QED BY <2>1, NamesNext
<1>15. NameAdded(d, n, b)
  <2>1. TypeInv /\ TypeInv'
    BY CreateTypes DEF Inv
  <2>2. ASSUME NEW e \in Blocks, NEW m \in Names
        PROVE  Children[e][m] # b /\ (e # d \/ m # n => Children'[e][m] = Children[e][m])
    <3>1. CASE e = b
      <4>1. e \notin UsedDirs
        BY <1>1, <3>1, TreeFacts
      <4> QED BY <1>3, <1>4, <2>1, <3>1, <4>1, ChildrenFacts
    <3>2. CASE e # b
      <4>1. e \in UsedDirs <=> e \in UsedDirs'
        BY <1>5, <3>2
      <4>2. e \in UsedDirs => Match(e, m) # b
        BY <1>1, <1>4, TreeFacts
      <4> QED BY <1>3, <1>4, <2>1, <3>2, <4>1, <4>2, ChildrenFacts
    <3> QED BY <3>1, <3>2
  <2>3. b \notin UsedDirs
    BY <1>1, TreeFacts
  <2>4. Children[d][n] = None /\ Children'[d][n] = b /\ \A m \in Names : Children[b][m] = None
    BY <1>1, <1>2, <1>3, <1>5, <2>1, <2>3, ChildrenFacts
  <2> QED BY <1>1, <1>2, <1>4, <2>2, <2>4 DEF NameAdded
<1> QED BY <1>7, <1>8, <1>9, <1>11, <1>12, <1>13, <1>14, <1>15 DEF TreeInv, d, n, b

(* Nobody else settles names of an inode that a call has locked.           *)
LEMMA NotSettling ==
  ASSUME Inv, PlainRenames, NEW t \in Tasks, Busy(t), pc[t] # "vfs", NEW d \in Locks(req[t])
  PROVE  \A n : ~Settling(d, n)
<1> SUFFICES ASSUME NEW n, Settling(d, n) PROVE FALSE
  OBVIOUS
<1>1. PICK u \in Tasks : pc[u] = "vfs" /\ Busy(u) /\ d \in Locks(req[u])
  BY SettlingFacts
<1>2. u # t
  BY <1>1
<1> QED BY <1>1, <1>2 DEF Inv, TreeInv, LockInv

(* The names of a directory of which entries and dentries stay.            *)
LEMMA SameNames ==
  ASSUME entries' = entries
  PROVE  \A d, n : After(d, n) = Match(d, n)
BY MatchIsFind DEF After

(* A step of a task's own: nobody's names change.                          *)
LEMMA QuietTree ==
  ASSUME Inv, PlainRenames, NEW t \in Tasks, Busy(t), pc[t] # "vfs", pc'[t] # "vfs",
         \A u \in Tasks : u # t => pc'[u] = pc[u] /\ req'[u] = req[u],
         UNCHANGED <<used, mode, entries, mounts, mounted, dcache>>,
         pc'[t] = "idle" \/ (req'[t] = req[t] /\ CallInv(t)')
  PROVE  TreeInv'
<1>1. UsedDirs' = UsedDirs /\ \A d, n : After(d, n) = Match(d, n)
  BY SameNames DEF UsedDirs
<1>2. ASSUME NEW u \in Tasks \ {t} PROVE Apart(u)
  <2>1. Busy(u) => req[u].dir \in UsedDirs /\ req[u].ndir \in UsedDirs
    BY BusyFacts
  <2> QED BY <1>1, <2>1 DEF Apart
<1>3. ~Busy(t)' \/ (Busy(t) /\ Locks(req[t])' = Locks(req[t]) /\ CallInv(t)')
  BY DEF Busy, Locks, Victims
<1>4. LockInv' /\ \A u \in Tasks : CallInv(u)'
  BY <1>2, <1>3, OthersStep
<1>5. MountInv'
  <2>1. mounted
    BY BusyFacts
  <2> QED BY <1>1, <2>1 DEF MountInv, Inv, TreeInv
<1>6. DirInv'
  BY <1>1 DEF DirInv, WellFormed, Inv, TreeInv
<1>7. LinksToUsed' /\ LinksOnce' /\ LinksToAll'
  BY <1>1, NamesNext, TreeFacts
<1>8. CacheInv'
  <2>1. \A d, n : Settling(d, n)' <=> Settling(d, n)
    BY SettlingSame
  <2> QED BY <1>1, <2>1, NamesNext, TreeFacts
<1> QED BY <1>4, <1>5, <1>6, <1>7, <1>8 DEF TreeInv

LEMMA StayTree ==
  ASSUME Inv, PlainRenames, NEW t \in Tasks,
         CreateOutside(t) \/ Iterate(t) \/ CreateCheck(t) \/ SymlinkCurr(t)
  PROVE  TreeInv'
<1>1. /\ UNCHANGED <<used, mode, entries, mounts, mounted, dcache>>
      /\ pc[t] # "vfs" /\ pc'[t] # "vfs" /\ Busy(t)
      /\ pc'[t] # "idle" => req'[t] = req[t]
      /\ pc'[t] \in {"lock", "oops"} => req[t].op \in Creates
      /\ pc'[t] = "lock" => pc[t] = "check"
      /\ \A u \in Tasks : u # t => pc'[u] = pc[u] /\ req'[u] = req[u]
  BY StayTypes DEF table, super, Inv
<1>2. UsedDirs' = UsedDirs /\ \A d, n : Match(d, n)' = Match(d, n)
  BY <1>1, SameNames, MatchNext DEF UsedDirs
<1>3. ASSUME pc'[t] # "idle" PROVE req'[t] = req[t] /\ CallInv(t)'
  <2>1. CallInv(t) /\ req'[t] = req[t]
    BY <1>1, <1>3, BusyFacts
  <2>2. req[t].op \in Creates
    <3>1. RequestInv(t)' /\ Busy(t)'
      BY <1>3, StayTypes DEF TypeInv, Inv, Busy
    <3>2. pc'[t] \in {"check", "curr"} => req[t].op \in Creates
      BY <2>1, <3>1 DEF RequestInv
    <3>3. pc'[t] \in {"check", "lock", "curr", "oops"}
      BY <1>1, <1>3, StayTypes DEF TypeInv, TypeOK, Inv
    <3> QED BY <1>1, <3>2, <3>3
  <2>3. pc'[t] \in {"check", "lock"} => pc[t] \in {"check", "lock"}
    BY <1>1 DEF CreateOutside, Iterate, CreateCheck, SymlinkCurr, Goto, Return, Section, Inv, TypeInv, TypeOK
  <2> QED BY <1>1, <1>2, <2>1, <2>2, <2>3 DEF CallInv, Busy, Creates
<1> QED BY <1>1, <1>3, QuietTree

(* A name that a call which has not reached its section has locked: what   *)
(* the cache says is what the directory has.                               *)
LEMMA HereFacts ==
  ASSUME Inv, PlainRenames, NEW t \in Tasks, pc[t] = "lock",
         req[t].op \in {"unlink", "rmdir", "rename"}
  PROVE  LET d == req[t].dir
             n == req[t].name
             b == dcache[d][n]
         IN  /\ d \in UsedDirs /\ d \in Blocks /\ n \in Names
             /\ \A m : ~Settling(d, m)
             /\ b = Match(d, n) /\ b \in used \ {Root} /\ b # None /\ b \in Blocks
<1> DEFINE d == req[t].dir
           n == req[t].name
           b == dcache[d][n]
<1>1. Busy(t)
  BY DEF Busy
<1>2. d \in UsedDirs /\ d \in Locks(req[t]) /\ CallInv(t)
  BY <1>1, BusyFacts
<1>3. d \in Blocks /\ n \in Names
  BY <1>1, RequestFacts DEF Inv, Listing
<1>4. \A m : ~Settling(d, m)
  BY <1>1, <1>2, NotSettling
<1>5. b # None
  BY <1>1, <1>2, Zenon DEF CallInv
<1>6. b = Match(d, n)
  BY <1>3, <1>4, <1>5, TreeFacts
<1>7. b \in used \ {Root}
  BY <1>2, <1>3, <1>5, <1>6, TreeFacts
<1> QED BY <1>2, <1>3, <1>4, <1>5, <1>6, <1>7, TreeFacts

(* Unlink or rmdir: the block is not a directory, or an empty one, so that *)
(* nobody works in it and nothing is cached below it.                      *)
LEMMA RemoveTree ==
  ASSUME Inv, PlainRenames, NEW t \in Tasks, Unlink(t) \/ Rmdir(t)
  PROVE  /\ TreeInv'
         /\ UNCHANGED <<used, mode, entries>> \/ NameRemoved(req[t].dir, req[t].name)
<1> DEFINE d == req[t].dir
           n == req[t].name
           b == dcache[d][n]
<1>1. /\ pc[t] = "lock" /\ req[t].op \in {"unlink", "rmdir"}
      /\ UNCHANGED <<mode, mounts, mounted, dcache>>
      /\ \A u \in Tasks : u # t => pc'[u] = pc[u] /\ req'[u] = req[u]
      /\ \/ /\ used' = used \ {b}
            /\ entries'[d] = Without(entries[d], n)
            /\ \A e \in Blocks : e # d => entries'[e] = entries[e]
            /\ req[t].op = "rmdir" => entries[b] = <<>>
            /\ \/ pc'[t] = "vfs" /\ req' = req
               \/ pc'[t] = "idle" /\ req[t].op = "rmdir" /\ ~SimpleEmpty(b)
         \/ pc'[t] = "idle" /\ req[t].op = "rmdir" /\ UNCHANGED <<used, entries>>
  BY RemoveTypes DEF Inv
<1>2. /\ d \in UsedDirs /\ d \in Blocks /\ n \in Names /\ \A m : ~Settling(d, m)
      /\ b = Match(d, n) /\ b \in used \ {Root} /\ b # None /\ b \in Blocks
  BY <1>1, HereFacts
<1>3. /\ Busy(t) /\ mounted /\ RequestInv(t) /\ CallInv(t)
      /\ d \in Locks(req[t]) /\ b \in Locks(req[t])
  <2>1. Busy(t)
    BY <1>1 DEF Busy
  <2> QED BY <1>1, <1>2, <2>1, BusyFacts
<1>4. CASE pc'[t] = "idle" /\ req[t].op = "rmdir" /\ UNCHANGED <<used, entries>>
  BY <1>1, <1>3, <1>4, QuietTree
<1>5. CASE /\ used' = used \ {b}
           /\ entries'[d] = Without(entries[d], n)
           /\ \A e \in Blocks : e # d => entries'[e] = entries[e]
           /\ req[t].op = "rmdir" => entries[b] = <<>>
           /\ \/ pc'[t] = "vfs" /\ req' = req
              \/ pc'[t] = "idle" /\ req[t].op = "rmdir" /\ ~SimpleEmpty(b)
  <2>1. /\ req[t].op = "unlink" => mode[b] # "dir"
        /\ req[t].op = "rmdir" => mode[b] = "dir"
    BY <1>1, <1>3, Zenon DEF CallInv
  <2>2. req[t].op = "rmdir" => \A m \in Names : Match(b, m) = None
    BY <1>5, FindEmpty, MatchIsFind
  <2>3. b # d
    BY <1>1, <1>2, <2>1, <2>2 DEF UsedDirs
  <2>4. \A m \in Names : dcache[b][m] = None
    <3>1. SUFFICES ASSUME NEW m \in Names, dcache[b][m] # None PROVE FALSE
      OBVIOUS
    <3>2. ~Settling(b, m)
      BY <1>1, <1>3, NotSettling
    <3>3. b \in UsedDirs /\ dcache[b][m] = Match(b, m)
      BY <1>2, <3>1, <3>2, TreeFacts
    <3> QED BY <1>1, <2>1, <2>2, <3>1, <3>3 DEF UsedDirs
  <2>5. pc'[t] = "vfs" /\ req'[t] = req[t]
    BY <1>5, <2>4 DEF SimpleEmpty
  <2>6. UsedDirs' = UsedDirs \ {b} /\ Root \in UsedDirs
    <3>1. UsedDirs' = UsedDirs \ {b}
      BY <1>1, <1>5 DEF UsedDirs
    <3> QED BY <1>3, <3>1, Constants DEF Inv, TreeInv, MountInv, UsedDirs
  <2>7. WellFormed(entries[d])
    BY <1>2 DEF Inv, TreeInv, DirInv
  <2>8. /\ \A e \in Blocks, m \in Names : (e # d \/ m # n) => After(e, m) = Match(e, m)
        /\ WellFormed(entries'[d]) /\ After(d, n) = None
    BY <2>5, <2>7, RemoveNames DEF Inv
  <2> HIDE DEF d, n, b
  <2>9. ASSUME NEW u \in Tasks \ {t} PROVE Apart(u)
    <3> DEFINE r == req[u]
    <3>1. pc'[u] = pc[u] /\ req'[u] = r
      BY <1>1
    <3>2. CASE Busy(u)
      <4>1. /\ r.dir \in UsedDirs /\ r.ndir \in UsedDirs /\ r.dir # d /\ r.ndir # d
            /\ r.dir # b /\ r.ndir # b
        BY <1>1, <1>2, <1>3, <3>2, BusyFacts, Exclusive DEF d, n, b
      <4>2. r.dir \in UsedDirs' /\ r.ndir \in UsedDirs'
        BY <2>6, <4>1
      <4>3. r.dir \in Blocks /\ r.ndir \in Blocks
        BY <4>1, TreeFacts
      <4>4. ~Listing(r) => /\ After(r.dir, r.name) = Match(r.dir, r.name)
                           /\ After(r.ndir, r.nname) = Match(r.ndir, r.nname)
        BY <2>8, <3>2, <4>1, <4>3, RequestFacts DEF Inv
      <4> QED BY <1>1, <3>1, <4>2, <4>4 DEF Apart
    <3> QED BY <3>1, <3>2 DEF Apart
  <2>10. LockInv' /\ \A u \in Tasks : CallInv(u)'
    <3>1. Locks(req[t])' = Locks(req[t])
      BY <1>1, <2>5 DEF Locks, Victims
    <3>2. Match(req[t].dir, req[t].name)' = None
      <4>1. Match(req[t].dir, req[t].name)' = After(d, n)
        BY <2>5 DEF Match, After, Find, d, n
      <4> QED BY <2>8, <4>1
    <3>3. req[t].ndir = req[t].dir
      BY <1>1, <1>3 DEF RequestInv, Moves
    <3>4. CallInv(t)'
      BY <1>1, <1>2, <2>3, <2>5, <2>6, <3>2, <3>3 DEF CallInv, Creates, d
    <3> QED BY <1>3, <2>9, <3>1, <3>4, OthersStep
  <2>11. MountInv'
    <3>1. used' \subseteq 1 .. MAX_FILE - 1
      BY <1>5, TreeFacts
    <3>2. mounts # 0 /\ mounts > 0 /\ mode[None] # "dir"
      BY <1>2, <1>3 DEF Inv, TreeInv, MountInv
    <3> QED BY <1>1, <1>2, <1>3, <2>6, <3>1, <3>2 DEF MountInv
  <2>12. DirInv'
    <3>1. ASSUME NEW e \in UsedDirs' PROVE WellFormed(entries'[e])
      <4>1. CASE e = d
        BY <2>8, <4>1
      <4>2. CASE e # d
        <5>1. e \in UsedDirs /\ e \in Blocks
          BY <2>6, TreeFacts
        <5> QED BY <1>5, <4>2, <5>1 DEF Inv, TreeInv, DirInv
      <4> QED BY <4>1, <4>2
    <3> QED BY <3>1 DEF DirInv, WellFormed
  <2>13. ASSUME NEW e \in UsedDirs', NEW m \in Names, After(e, m) # None
         PROVE  /\ e \in UsedDirs /\ After(e, m) = Match(e, m) /\ After(e, m) \in used \ {Root}
                /\ After(e, m) # b
    <3>1. e \in UsedDirs /\ e \in Blocks /\ (e # d \/ m # n)
      BY <2>6, <2>8, <2>13, TreeFacts
    <3>2. After(e, m) = Match(e, m)
      BY <2>8, <3>1
    <3>3. Match(e, m) # b
      BY <1>2, <3>1, TreeFacts
    <3> QED BY <2>13, <3>1, <3>2, <3>3, TreeFacts
  <2>14. LinksToUsed'
    BY <1>5, <2>13, NamesNext
  <2>15. LinksOnce'
    <3>1. ASSUME NEW e1 \in UsedDirs', NEW e2 \in UsedDirs', NEW m1 \in Names, NEW m2 \in Names,
                 After(e1, m1) # None, After(e1, m1) = After(e2, m2)
          PROVE  e1 = e2 /\ m1 = m2
      BY <2>13, <3>1, TreeFacts
    <3> QED BY <3>1, NamesNext
  <2>16. LinksToAll'
    <3>1. ASSUME MAX_MOUNTS <= 1, NEW c \in used' \ {Root}
          PROVE  \E e \in UsedDirs', m \in Names : After(e, m) = c
      <4>1. c \in used \ {Root} /\ c # b /\ c # None
        BY <1>5, <3>1, TreeFacts
      <4>2. PICK e \in UsedDirs, m \in Names : Match(e, m) = c
        BY <3>1, <4>1, TreeFacts
      <4>3. e # d \/ m # n
        BY <1>2, <4>1, <4>2
      <4>4. e # b
        BY <1>1, <2>1, <2>2, <4>1, <4>2 DEF UsedDirs
      <4>5. After(e, m) = c /\ e \in UsedDirs'
        BY <2>6, <2>8, <4>2, <4>3, <4>4, TreeFacts
      <4> QED BY <4>5
    <3> QED BY <3>1, NamesNext
  <2>17. CacheInv'
    <3>1. ASSUME NEW e \in Blocks, NEW m \in Names, dcache'[e][m] # None, ~Settling(e, m)'
          PROVE  e \in UsedDirs' /\ dcache'[e][m] = After(e, m)
      <4>1. /\ ~Settling(e, m)
        BY <1>1, <3>1 DEF Settling, Touched, Listing
      <4>2. e # d \/ m # n
        BY <1>1, <2>5, <3>1 DEF Settling, Touched, Listing, d, n
      <4>3. e \in UsedDirs /\ dcache[e][m] = Match(e, m)
        BY <1>1, <3>1, <4>1, TreeFacts
      <4>4. e # b
        BY <1>1, <2>4, <3>1
      <4> QED BY <1>1, <2>6, <2>8, <4>2, <4>3, <4>4
    <3> QED BY <3>1, NamesNext
  <2>18. NameRemoved(d, n)
    <3>1. TypeInv /\ TypeInv'
      BY RemoveTypes DEF Inv
    <3>2. \A m \in Names : Children[b][m] = None
      <4>1. b \in UsedDirs => \A m \in Names : Match(b, m) = None
        BY <1>1, <2>1, <2>2 DEF UsedDirs
      <4> QED BY <1>2, <3>1, <4>1, ChildrenFacts
    <3>3. Children[d][n] = b /\ Children'[d][n] = None
      BY <1>2, <2>3, <2>6, <2>8, <3>1, ChildrenFacts
    <3>4. ASSUME NEW e \in Blocks, NEW m \in Names, e # d \/ m # n
          PROVE  Children'[e][m] = Children[e][m]
      <4>1. CASE e = b
        BY <2>6, <3>1, <3>2, <4>1, ChildrenFacts
      <4>2. CASE e # b
        <5>1. After(e, m) = Match(e, m)
          BY <2>8, <3>4
        <5>2. e \in UsedDirs <=> e \in UsedDirs'
          BY <2>6, <4>2
        <5> QED BY <3>1, <5>1, <5>2, ChildrenFacts
      <4> QED BY <4>1, <4>2
    <3> QED BY <1>2, <3>2, <3>3, <3>4 DEF NameRemoved
  <2> QED BY <2>10, <2>11, <2>12, <2>14, <2>15, <2>16, <2>17, <2>18 DEF TreeInv, d, n
<1> QED BY <1>1, <1>4, <1>5

(* Rename: the name that is looked up is there, the other one is free.     *)
LEMMA RenameTree ==
  ASSUME Inv, PlainRenames, NEW t \in Tasks, Rename(t)
  PROVE  /\ TreeInv'
         /\ NameMoved(req[t].dir, req[t].name, req[t].ndir, req[t].nname)
<1> DEFINE d == req[t].dir
           n == req[t].name
           e1 == req[t].ndir
           n1 == req[t].nname
           b == dcache[d][n]
<1>1. /\ pc[t] = "lock" /\ req[t].op \in Moves
      /\ UNCHANGED <<used, mode, mounts, mounted, dcache, req>>
      /\ \A u \in Tasks : u # t => pc'[u] = pc[u]
      /\ e1 \in Blocks /\ n1 \in Names
  BY RenameTypes DEF Inv
<1>2. /\ Busy(t) /\ mounted /\ RequestInv(t) /\ CallInv(t) /\ req[t].op = "rename"
      /\ e1 \in UsedDirs /\ e1 \in Locks(req[t])
  <2>1. Busy(t)
    BY <1>1 DEF Busy
  <2> QED BY <1>1, <2>1, BusyFacts
<1>3. /\ d \in UsedDirs /\ d \in Blocks /\ n \in Names /\ \A m : ~Settling(d, m)
      /\ b = Match(d, n) /\ b \in used \ {Root} /\ b # None /\ b \in Blocks
  BY <1>1, <1>2, HereFacts
<1>4. /\ <<d, n>> # <<e1, n1>> /\ dcache[e1][n1] = None /\ Match(e1, n1) = None
  BY <1>1, <1>2, Zenon DEF CallInv
<1>5. WellFormed(entries[d]) /\ WellFormed(entries[e1])
  BY <1>2, <1>3 DEF Inv, TreeInv, DirInv
<1>6. /\ \A e \in Blocks, m \in Names :
           <<e, m>> \notin {<<d, n>>, <<e1, n1>>} => After(e, m) = Match(e, m)
      /\ After(d, n) = None /\ After(e1, n1) = b
      /\ WellFormed(entries'[d]) /\ WellFormed(entries'[e1])
      /\ \A e \in Blocks : e \notin {d, e1} => entries'[e] = entries[e]
  BY <1>3, <1>4, <1>5, RenameNames DEF Inv
<1>7. pc'[t] = "vfs"
  BY <1>3, RenameTypes DEF Inv
<1> HIDE DEF d, n, e1, n1, b
<1>8. UsedDirs' = UsedDirs
  BY <1>1 DEF UsedDirs
<1>9. ASSUME NEW u \in Tasks \ {t} PROVE Apart(u)
  <2> DEFINE r == req[u]
  <2>1. pc'[u] = pc[u] /\ req'[u] = r
    BY <1>1
  <2>2. CASE Busy(u)
    <3>1. /\ r.dir \in UsedDirs /\ r.ndir \in UsedDirs /\ r.dir \notin {d, e1} /\ r.ndir \notin {d, e1}
      BY <1>2, <2>2, BusyFacts, Exclusive DEF d, e1
    <3>2. r.dir \in Blocks /\ r.ndir \in Blocks
      BY <3>1, TreeFacts
    <3>3. ~Listing(r) => /\ After(r.dir, r.name) = Match(r.dir, r.name)
                         /\ After(r.ndir, r.nname) = Match(r.ndir, r.nname)
      BY <1>6, <2>2, <3>1, <3>2, RequestFacts DEF Inv
    <3> QED BY <1>1, <1>8, <2>1, <3>1, <3>3 DEF Apart
  <2> QED BY <2>1, <2>2 DEF Apart
<1>10. LockInv' /\ \A u \in Tasks : CallInv(u)'
  <2>1. Locks(req[t])' = Locks(req[t])
    BY <1>1 DEF Locks, Victims
  <2>2. Match(req[t].dir, req[t].name)' = None
    <3>1. Match(req[t].dir, req[t].name)' = After(d, n)
      BY <1>1 DEF Match, After, Find, d, n
    <3> QED BY <1>6, <3>1
  <2>3. Match(req[t].ndir, req[t].nname)' = b
    <3>1. Match(req[t].ndir, req[t].nname)' = After(e1, n1)
      BY <1>1 DEF Match, After, Find, e1, n1
    <3> QED BY <1>6, <3>1
  <2>4. CallInv(t)'
    BY <1>1, <1>2, <1>3, <1>4, <1>7, <1>8, <2>2, <2>3 DEF CallInv, Creates, d, n, e1, n1, b
  <2> QED BY <1>2, <1>9, <2>1, <2>4, OthersStep
<1>11. MountInv'
  BY <1>1, <1>2, <1>8 DEF Inv, TreeInv, MountInv
<1>12. DirInv'
  <2>1. ASSUME NEW e \in UsedDirs' PROVE WellFormed(entries'[e])
    <3>1. CASE e \in {d, e1}
      BY <1>6, <3>1
    <3>2. CASE e \notin {d, e1}
      <4>1. e \in UsedDirs /\ e \in Blocks
        BY <1>8, TreeFacts
      <4> QED BY <1>6, <3>2, <4>1 DEF Inv, TreeInv, DirInv
    <3> QED BY <3>1, <3>2
  <2> QED BY <2>1 DEF DirInv, WellFormed
<1>13. ASSUME NEW e \in UsedDirs, NEW m \in Names, After(e, m) # None
       PROVE  \/ e = e1 /\ m = n1 /\ After(e, m) = b
              \/ After(e, m) = Match(e, m) /\ Match(e, m) # b
  <2>1. e \in Blocks /\ <<e, m>> # <<d, n>>
    BY <1>6, <1>13, TreeFacts
  <2>2. Match(e, m) # b
    BY <1>3, <2>1, TreeFacts
  <2> QED BY <1>6, <1>13, <2>1, <2>2
<1>14. LinksToUsed'
  BY <1>1, <1>3, <1>8, <1>13, NamesNext, TreeFacts
<1>15. LinksOnce'
  <2>1. ASSUME NEW f1 \in UsedDirs, NEW f2 \in UsedDirs, NEW m1 \in Names, NEW m2 \in Names,
               After(f1, m1) # None, After(f1, m1) = After(f2, m2)
        PROVE  f1 = f2 /\ m1 = m2
    BY <1>13, <2>1, TreeFacts
  <2> QED BY <1>8, <2>1, NamesNext
<1>16. LinksToAll'
  <2>1. ASSUME MAX_MOUNTS <= 1, NEW c \in used' \ {Root}
        PROVE  \E e \in UsedDirs', m \in Names : After(e, m) = c
    <3>1. CASE c = b
      BY <1>1, <1>2, <1>6, <1>8, <3>1
    <3>2. CASE c # b
      <4>1. c \in used \ {Root} /\ c # None
        BY <1>1, <2>1, TreeFacts
      <4>2. PICK e \in UsedDirs, m \in Names : Match(e, m) = c
        BY <2>1, <4>1, TreeFacts
      <4>3. e \in Blocks /\ <<e, m>> # <<d, n>> /\ <<e, m>> # <<e1, n1>>
        BY <1>3, <1>4, <3>2, <4>1, <4>2, TreeFacts
      <4>4. After(e, m) = c
        BY <1>6, <4>2, <4>3
      <4> QED BY <1>8, <4>2, <4>4
    <3> QED BY <3>1, <3>2
  <2> QED BY <2>1, NamesNext
<1>17. CacheInv'
  <2>1. ASSUME NEW e \in Blocks, NEW m \in Names, dcache'[e][m] # None, ~Settling(e, m)'
        PROVE  e \in UsedDirs' /\ dcache'[e][m] = After(e, m)
    <3>1. ~Settling(e, m)
      BY <1>1, <2>1 DEF Settling, Touched, Listing
    <3>2. <<e, m>> \notin {<<d, n>>, <<e1, n1>>}
      BY <1>1, <1>2, <1>7, <2>1 DEF Settling, Touched, Listing, d, n, e1, n1
    <3>3. e \in UsedDirs /\ dcache[e][m] = Match(e, m)
      BY <1>1, <2>1, <3>1, TreeFacts
    <3> QED BY <1>1, <1>6, <1>8, <3>2, <3>3
  <2> QED BY <2>1, NamesNext
<1>18. NameMoved(d, n, e1, n1)
  <2>1. TypeInv /\ TypeInv'
    BY RenameTypes DEF Inv
  <2>2. Children[d][n] = b /\ Children[e1][n1] = None
    BY <1>1, <1>2, <1>3, <1>4, <2>1, ChildrenFacts
  <2>3. Children'[d][n] = None /\ Children'[e1][n1] = b
    BY <1>1, <1>2, <1>3, <1>6, <1>8, <2>1, ChildrenFacts
  <2>4. \A e \in Blocks, m \in Names :
          <<e, m>> \notin {<<d, n>>, <<e1, n1>>} => Children'[e][m] = Children[e][m]
    BY <1>6, <1>8, <2>1, ChildrenFacts
  <2> QED BY <1>1, <1>3, <1>4, <2>2, <2>3, <2>4 DEF NameMoved
<1> QED BY <1>10, <1>11, <1>12, <1>14, <1>15, <1>16, <1>17, <1>18 DEF TreeInv, d, n, e1, n1

(* The VFS settles: from now on the cache says what the directory has.     *)
LEMMA SettleTree ==
  ASSUME Inv, PlainRenames, NEW t \in Tasks, Delete(t) \/ Move(t)
  PROVE  TreeInv'
<1> DEFINE d == req[t].dir
           n == req[t].name
           e1 == req[t].ndir
           n1 == req[t].nname
           b == dcache[d][n]
<1>1. /\ pc[t] = "vfs" /\ pc'[t] = "idle"
      /\ UNCHANGED <<used, mode, entries, mounts, mounted>>
      /\ \A u \in Tasks : u # t => pc'[u] = pc[u] /\ req'[u] = req[u]
      /\ d \in Blocks /\ n \in Names /\ e1 \in Blocks /\ n1 \in Names
  BY SettleTypes DEF Inv, table, super
<1>2. /\ Busy(t) /\ mounted /\ RequestInv(t) /\ CallInv(t)
      /\ req[t].op \in {"unlink", "rmdir", "rename"}
      /\ d \in UsedDirs /\ e1 \in UsedDirs
  <2>1. Busy(t)
    BY <1>1 DEF Busy
  <2>2. /\ mounted /\ RequestInv(t) /\ CallInv(t) /\ d \in UsedDirs /\ e1 \in UsedDirs
        /\ req[t].op \in Moves => req[t].op = "rename"
    BY <2>1, BusyFacts
  <2>3. req[t].op \in {"unlink", "rmdir"} \cup Moves
    BY <1>1, <2>1, <2>2 DEF RequestInv
  <2> QED BY <2>1, <2>2, <2>3
<1>3. UsedDirs' = UsedDirs /\ \A e, m : After(e, m) = Match(e, m)
  BY <1>1, SameNames DEF UsedDirs
<1>4. /\ \A e \in Blocks, m \in Names : <<e, m>> \notin {<<d, n>>, <<e1, n1>>} =>
           dcache'[e][m] = dcache[e][m]
      /\ \A e \in Blocks, m \in Names : <<e, m>> \in {<<d, n>>, <<e1, n1>>} =>
           dcache'[e][m] \in {None, Match(e, m)}
  <2>1. CASE req[t].op \in {"unlink", "rmdir"}
    <3>1. \A e \in Blocks, m \in Names :
            dcache'[e][m] = IF e = d /\ m = n THEN None ELSE dcache[e][m]
      BY <2>1, SettleTypes DEF Inv
    <3>2. e1 = d /\ n1 = n
      BY <1>2, <2>1 DEF RequestInv, Moves
    <3> QED BY <3>1, <3>2
  <2>2. CASE req[t].op = "rename"
    <3>1. /\ <<d, n>> # <<e1, n1>> /\ dcache[e1][n1] = None
          /\ Match(d, n) = None /\ Match(e1, n1) = b
      BY <1>1, <1>2, <2>2, Zenon DEF CallInv
    <3>2. SimpleEmpty(dcache[e1][n1])
      BY <3>1 DEF SimpleEmpty
    <3>3. \A e \in Blocks, m \in Names :
            dcache'[e][m] = IF e = d /\ m = n THEN None
                            ELSE IF e = e1 /\ m = n1 THEN b ELSE dcache[e][m]
      BY <2>2, <3>2, SettleTypes DEF Inv, Moves
    <3> QED BY <3>1, <3>3
  <2> QED BY <1>2, <2>1, <2>2
<1> HIDE DEF d, n, e1, n1, b
<1>5. ASSUME NEW u \in Tasks \ {t} PROVE Apart(u)
  <2> DEFINE r == req[u]
  <2>1. pc'[u] = pc[u] /\ req'[u] = r
    BY <1>1
  <2>2. CASE Busy(u)
    <3>1. /\ r.dir \in UsedDirs /\ r.ndir \in UsedDirs /\ r.dir \notin {d, e1} /\ r.ndir \notin {d, e1}
      BY <1>2, <2>2, BusyFacts, Exclusive DEF d, e1
    <3>2. r.dir \in Blocks /\ r.ndir \in Blocks
      BY <3>1, TreeFacts
    <3>3. ~Listing(r) => /\ dcache'[r.dir][r.name] = dcache[r.dir][r.name]
                         /\ dcache'[r.ndir][r.nname] = dcache[r.ndir][r.nname]
      BY <1>4, <2>2, <3>1, <3>2, RequestFacts DEF Inv
    <3> QED BY <1>1, <1>3, <2>1, <3>1, <3>3 DEF Apart
  <2> QED BY <2>1, <2>2 DEF Apart
<1>6. LockInv' /\ \A u \in Tasks : CallInv(u)'
  <2>1. ~Busy(t)'
    BY <1>1 DEF Busy
  <2> QED BY <1>5, <2>1, OthersStep
<1>7. MountInv'
  BY <1>1, <1>2, <1>3 DEF Inv, TreeInv, MountInv
<1>8. DirInv'
  BY <1>1, <1>3 DEF DirInv, WellFormed, Inv, TreeInv
<1>9. LinksToUsed' /\ LinksOnce' /\ LinksToAll'
  BY <1>1, <1>3, NamesNext, TreeFacts
<1>10. CacheInv'
  <2>1. ASSUME NEW e \in Blocks, NEW m \in Names, dcache'[e][m] # None, ~Settling(e, m)'
        PROVE  e \in UsedDirs' /\ dcache'[e][m] = After(e, m)
    <3>1. CASE <<e, m>> \in {<<d, n>>, <<e1, n1>>}
      BY <1>2, <1>3, <1>4, <2>1, <3>1
    <3>2. CASE <<e, m>> \notin {<<d, n>>, <<e1, n1>>}
      <4>1. \A u \in Tasks : pc[u] = "vfs" /\ <<e, m>> \in Touched(req[u]) => u # t
        BY <3>2 DEF Touched, d, n, e1, n1
      <4>2. ~Settling(e, m)
        BY <1>1, <2>1, <4>1 DEF Settling, Touched, Listing
      <4>3. dcache'[e][m] = dcache[e][m]
        BY <1>4, <3>2
      <4> QED BY <1>3, <2>1, <4>2, <4>3, TreeFacts
    <3> QED BY <3>1, <3>2
  <2> QED BY <2>1, NamesNext
<1> QED BY <1>6, <1>7, <1>8, <1>9, <1>10 DEF TreeInv

(* A lookup in a directory that nobody has locked, or an eviction of a     *)
(* dentry that nobody refers to.                                           *)
LEMMA CacheTree ==
  ASSUME Inv, PlainRenames, NEW d \in Blocks, NEW n \in Names, Lookup(d, n) \/ Evict(d, n)
  PROVE  TreeInv'
<1>1. /\ UNCHANGED <<used, mode, entries, mounts, mounted, pc, req>>
      /\ \A e \in Blocks, m \in Names : e # d \/ m # n => dcache'[e][m] = dcache[e][m]
      /\ Lookup(d, n) => dcache'[d][n] = Match(d, n)
      /\ Evict(d, n) => dcache'[d][n] = None
  BY CacheTypes DEF Inv, table, super
<1>2. mounted
  <2>1. CASE Lookup(d, n)
    BY <2>1 DEF Lookup
  <2>2. CASE Evict(d, n)
    BY <2>2 DEF Evict, Inv, TreeInv, MountInv
  <2> QED BY <2>1, <2>2
<1>3. Lookup(d, n) => d \in UsedDirs /\ d \notin Locked
  BY <1>2, DirsUsed DEF Lookup
<1>4. UsedDirs' = UsedDirs /\ \A e, m : After(e, m) = Match(e, m)
  BY <1>1, SameNames DEF UsedDirs
<1>5. ASSUME NEW u \in Tasks PROVE Apart(u)
  <2> DEFINE r == req[u]
  <2>1. pc'[u] = pc[u] /\ req'[u] = r
    BY <1>1
  <2>2. CASE Busy(u)
    <3>1. /\ r.dir \in UsedDirs /\ r.ndir \in UsedDirs /\ r.dir \in Locked /\ r.ndir \in Locked
      BY <2>2, BusyFacts DEF Locked
    <3>2. ~Listing(r) => <<r.dir, r.name>> # <<d, n>> /\ <<r.ndir, r.nname>> # <<d, n>>
      <4>1. CASE Lookup(d, n)
        BY <1>3, <3>1, <4>1
      <4>2. CASE Evict(d, n)
        BY <2>2, <4>2 DEF Evict, Pinned, Touched
      <4> QED BY <4>1, <4>2
    <3>3. r.dir \in Blocks /\ r.ndir \in Blocks
      BY <3>1, TreeFacts
    <3>4. ~Listing(r) => /\ dcache'[r.dir][r.name] = dcache[r.dir][r.name]
                         /\ dcache'[r.ndir][r.nname] = dcache[r.ndir][r.nname]
      BY <1>1, <2>2, <3>2, <3>3, RequestFacts DEF Inv
    <3> QED BY <1>1, <1>4, <2>1, <3>1, <3>4 DEF Apart
  <2> QED BY <2>1, <2>2 DEF Apart
<1>6. LockInv' /\ \A u \in Tasks : CallInv(u)'
  BY <1>5, NoneStep
<1>7. MountInv'
  BY <1>1, <1>2, <1>4 DEF Inv, TreeInv, MountInv
<1>8. DirInv'
  BY <1>1, <1>4 DEF DirInv, WellFormed, Inv, TreeInv
<1>9. LinksToUsed' /\ LinksOnce' /\ LinksToAll'
  BY <1>1, <1>4, NamesNext, TreeFacts
<1>10. CacheInv'
  <2>1. ASSUME NEW e \in Blocks, NEW m \in Names, dcache'[e][m] # None, ~Settling(e, m)'
        PROVE  e \in UsedDirs' /\ dcache'[e][m] = After(e, m)
    <3>1. ~Settling(e, m)
      BY <1>1, <2>1 DEF Settling, Touched, Listing
    <3>2. CASE e = d /\ m = n
      BY <1>1, <1>3, <1>4, <2>1, <3>2
    <3>3. CASE ~(e = d /\ m = n)
      BY <1>1, <1>4, <2>1, <3>1, <3>3, TreeFacts
    <3> QED BY <3>2, <3>3
  <2> QED BY <2>1, NamesNext
<1> QED BY <1>6, <1>7, <1>8, <1>9, <1>10 DEF TreeInv

(* expfs_fill_super: nobody is in a call, and the root becomes empty.      *)
LEMMA MountTree ==
  ASSUME Inv, PlainRenames, Mount
  PROVE  TreeInv'
<1>1. /\ ~mounted /\ mounted' /\ mounts' = mounts + 1 /\ mounts < MAX_MOUNTS /\ mounts \in Nat
      /\ used' = used \cup {Root} /\ mode'[Root] = "dir" /\ entries'[Root] = <<>>
      /\ \A b \in Blocks : b # Root => mode'[b] = mode[b] /\ entries'[b] = entries[b]
      /\ UNCHANGED <<dcache, pc, req>>
  BY MountTypes DEF Inv
<1>2. /\ \A t \in Tasks : ~Busy(t)'
      /\ \A d \in Blocks, n \in Names : dcache'[d][n] = None
  BY <1>1 DEF Inv, TreeInv, MountInv, Busy
<1>3. UsedDirs' = UsedDirs \cup {Root}
  BY <1>1, TreeFacts DEF UsedDirs
<1>4. /\ \A n \in Names : After(Root, n) = None
      /\ \A e \in Blocks, n \in Names : e # Root => After(e, n) = Match(e, n)
  BY <1>1, FindEmpty, MatchIsFind DEF After
<1>5. MountInv'
  <2>1. used' \subseteq 1 .. MAX_FILE - 1
    BY <1>1, TreeFacts, Constants
  <2>2. mode'[None] # "dir"
    BY <1>1, Constants DEF Inv, TreeInv, MountInv
  <2>3. mounts' # 0 /\ mounts' > 0
    BY <1>1
  <2> QED BY <1>1, <1>3, <2>1, <2>2, <2>3 DEF MountInv
<1>6. DirInv'
  <2>1. ASSUME NEW e \in UsedDirs' PROVE WellFormed(entries'[e])
    <3>1. CASE e = Root
      BY <1>1, <3>1 DEF WellFormed
    <3>2. CASE e # Root
      <4>1. e \in UsedDirs /\ e \in Blocks
        BY <1>3, <3>2, TreeFacts
      <4> QED BY <1>1, <3>2, <4>1 DEF Inv, TreeInv, DirInv
    <3> QED BY <3>1, <3>2
  <2> QED BY <2>1 DEF DirInv, WellFormed
<1>7. ASSUME NEW e \in UsedDirs', NEW m \in Names, After(e, m) # None
      PROVE  e \in UsedDirs /\ After(e, m) = Match(e, m) /\ Match(e, m) \in used \ {Root}
  <2>1. e # Root /\ e \in UsedDirs /\ e \in Blocks
    BY <1>3, <1>4, <1>7, TreeFacts
  <2> QED BY <1>4, <1>7, <2>1, TreeFacts
<1>8. LinksToUsed' /\ LinksOnce'
  BY <1>1, <1>7, NamesNext, TreeFacts
<1>9. LinksToAll'
  <2>1. MAX_MOUNTS <= 1 => used' = {Root}
    <3>1. MAX_MOUNTS <= 1 => mounts = 0
      BY <1>1, BoundAssumption
    <3> QED BY <1>1, <3>1 DEF Inv, TreeInv, MountInv
  <2> QED BY <2>1, NamesNext
<1>10. CacheInv' /\ LockInv' /\ \A t \in Tasks : CallInv(t)'
  BY <1>2 DEF CacheInv, LockInv, CallInv
<1> QED BY <1>5, <1>6, <1>8, <1>9, <1>10 DEF TreeInv

LEMMA UnmountTree ==
  ASSUME Inv, PlainRenames, Unmount
  PROVE  TreeInv'
<1>1. /\ ~mounted' /\ (\A t \in Tasks : ~Busy(t))
      /\ UNCHANGED <<used, mode, entries, mounts, pc, req>>
      /\ \A d \in Blocks, n \in Names : dcache'[d][n] = None
  BY UnmountTypes DEF Inv, table
<1>2. \A t \in Tasks : ~Busy(t)'
  BY <1>1 DEF Busy
<1>3. UsedDirs' = UsedDirs /\ \A e, m : After(e, m) = Match(e, m)
  BY <1>1, SameNames DEF UsedDirs
<1>4. MountInv'
  BY <1>1, <1>2, <1>3 DEF Inv, TreeInv, MountInv
<1>5. DirInv'
  BY <1>1, <1>3 DEF DirInv, WellFormed, Inv, TreeInv
<1>6. LinksToUsed' /\ LinksOnce' /\ LinksToAll'
  BY <1>1, <1>3, NamesNext, TreeFacts
<1>7. CacheInv' /\ LockInv' /\ \A t \in Tasks : CallInv(t)'
  BY <1>1, <1>2 DEF CacheInv, LockInv, CallInv
<1> QED BY <1>4, <1>5, <1>6, <1>7 DEF TreeInv

(* A call starts: the VFS has looked its names up, and nobody has locked   *)
(* the directories and files that it locks.                                *)
LEMMA StartTree ==
  ASSUME Inv, PlainRenames, NEW t \in Tasks, Start(t)
  PROVE  TreeInv'
<1>1. /\ ~Busy(t) /\ mounted
      /\ UNCHANGED <<used, mode, entries, mounts, mounted, dcache>>
      /\ \A u \in Tasks : u # t => pc'[u] = pc[u] /\ req'[u] = req[u]
  BY StartTypes DEF Inv, table, super, Start
<1>2. PICK r \in Single(Dirs) \cup Renames(Dirs) :
        /\ IF r.op \in Moves THEN RenameAllowed(r) ELSE SingleAllowed(r)
        /\ Locks(r) \cap Locked = {}
        /\ req' = [req EXCEPT ![t] = r]
        /\ pc' = [pc EXCEPT ![t] = IF r.op \in {"create", "mkdir", "symlink"}
                                   THEN "check" ELSE "lock"]
  BY DEF Start
<1>3. req'[t] = r /\ pc'[t] = IF r.op \in Creates THEN "check" ELSE "lock"
  BY <1>2 DEF Inv, TypeInv, TypeOK, Creates
<1>4. /\ r.dir \in Dirs /\ r.ndir \in Dirs /\ (r.op \in Moves => r.op = "rename")
      /\ r.op # "rename" => r.ndir = r.dir /\ r.nname = r.name
  <2>1. CASE r \in Single(Dirs)
    BY <2>1 DEF Single, Request, Moves
  <2>2. CASE r \in Renames(Dirs)
    BY <2>2 DEF Renames, PlainRenames, Moves
  <2> QED BY <2>1, <2>2
<1>5. r.dir \in UsedDirs /\ r.ndir \in UsedDirs
  <2>1. r.dir # None /\ r.ndir # None
    BY <1>4 DEF Dirs, Inv, TreeInv, MountInv
  <2>2. r.dir \in Locks(r) /\ r.ndir \in Locks(r)
    BY <2>1 DEF Locks
  <2>3. r.dir \notin Locked /\ r.ndir \notin Locked
    BY <1>2, <2>2
  <2> QED BY <1>1, <1>4, <2>3, DirsUsed
<1>6. UsedDirs' = UsedDirs /\ \A d, n : After(d, n) = Match(d, n)
  BY <1>1, SameNames DEF UsedDirs
<1>7. ASSUME NEW u \in Tasks \ {t} PROVE Apart(u)
  <2>1. Busy(u) => req[u].dir \in UsedDirs /\ req[u].ndir \in UsedDirs
    BY BusyFacts
  <2> QED BY <1>1, <1>6, <2>1 DEF Apart
<1>8. Match(r.dir, r.name)' = Match(r.dir, r.name) /\ Match(r.ndir, r.nname)' = Match(r.ndir, r.nname)
  BY <1>1 DEF Match
<1>9. CallInv(t)'
  <2>1. CASE r.op \in Creates
    <3>1. Absent(r.dir, r.name)
      BY <1>2, <2>1 DEF SingleAllowed, Creates, Moves
    <3> QED BY <1>1, <1>3, <1>5, <1>6, <1>8, <2>1, <3>1 DEF CallInv, Absent, Creates
  <2>2. CASE r.op \in {"unlink", "rmdir"}
    <3>1. dcache[r.dir][r.name] # None /\ (mode[dcache[r.dir][r.name]] = "dir" <=> r.op = "rmdir")
      BY <1>2, <2>2 DEF SingleAllowed, Moves
    <3> QED BY <1>1, <1>3, <1>5, <1>6, <2>2, <3>1 DEF CallInv, Creates
  <2>3. CASE r.op = "rename"
    <3>1. /\ <<r.dir, r.name>> # <<r.ndir, r.nname>> /\ dcache[r.dir][r.name] # None
          /\ dcache[r.ndir][r.nname] = None /\ Match(r.ndir, r.nname) = None
      BY <1>2, <2>3 DEF RenameAllowed, Absent, Moves
    <3> QED BY <1>1, <1>3, <1>5, <1>6, <1>8, <2>3, <3>1 DEF CallInv, Creates
  <2>4. CASE r.op \notin Creates \cup {"unlink", "rmdir", "rename"}
    BY <1>3, <1>5, <1>6, <2>4 DEF CallInv, Creates
  <2> QED BY <2>1, <2>2, <2>3, <2>4
<1>10. \A u \in Tasks : CallInv(u)'
  <2>1. ASSUME NEW u \in Tasks, u # t PROVE CallInv(u)'
    <3>1. CASE Busy(u)
      BY <1>7, <2>1, <3>1, ApartFacts
    <3>2. CASE ~Busy(u)
      BY <1>1, <2>1, <3>2 DEF CallInv, Busy
    <3> QED BY <3>1, <3>2
  <2> QED BY <1>9, <2>1
<1>11. LockInv'
  <2>1. Locks(req[t])' = Locks(r)
    BY <1>1, <1>3 DEF Locks, Victims
  <2>2. ASSUME NEW u \in Tasks, u # t, Busy(u)'
        PROVE  Busy(u) /\ Locks(req[u])' = Locks(req[u]) /\ Locks(req[u]) \subseteq Locked
    <3>1. Busy(u)
      BY <1>1, <2>2 DEF Busy
    <3>2. Locks(req[u])' = Locks(req[u])
      BY <1>7, <2>2, <3>1, ApartFacts
    <3> QED BY <3>1, <3>2 DEF Locked
  <2>3. ASSUME NEW u \in Tasks, NEW v \in Tasks, u # v, Busy(u)', Busy(v)'
        PROVE  Locks(req[u])' \cap Locks(req[v])' = {}
    <3>1. CASE u # t /\ v # t
      BY <2>2, <2>3, <3>1 DEF Inv, TreeInv, LockInv
    <3>2. CASE u = t
      BY <1>2, <2>1, <2>2, <2>3, <3>2
    <3>3. CASE v = t
      BY <1>2, <2>1, <2>2, <2>3, <3>3
    <3> QED BY <3>1, <3>2, <3>3
  <2> QED BY <2>3 DEF LockInv
<1>12. MountInv'
  BY <1>1, <1>6 DEF Inv, TreeInv, MountInv
<1>13. DirInv'
  BY <1>1, <1>6 DEF DirInv, WellFormed, Inv, TreeInv
<1>14. LinksToUsed' /\ LinksOnce' /\ LinksToAll'
  BY <1>1, <1>6, NamesNext, TreeFacts
<1>15. CacheInv'
  <2>1. pc[t] # "vfs" /\ pc'[t] # "vfs"
    BY <1>1, <1>3 DEF Busy
  <2>2. \A d, n : Settling(d, n)' <=> Settling(d, n)
    BY <1>1, <2>1, SettlingSame
  <2> QED BY <1>1, <1>6, <2>2, NamesNext, TreeFacts
<1> QED BY <1>10, <1>11, <1>12, <1>13, <1>14, <1>15 DEF TreeInv

-----------------------------------------------------------------------------
LEMMA InitTree == Init => TreeInv
<1> SUFFICES ASSUME Init PROVE TreeInv
  OBVIOUS
<1>1. /\ used = {} /\ UsedDirs = {} /\ mounts = 0 /\ ~mounted /\ \A t \in Tasks : ~Busy(t)
      /\ \A d \in Blocks, n \in Names : dcache[d][n] = None
      /\ mode[None] # "dir"
  BY Constants DEF Init, UsedDirs, Busy
<1> QED BY <1>1 DEF TreeInv, MountInv, DirInv, LinksToUsed, LinksOnce, LinksToAll, LockInv,
                    CallInv, CacheInv

LEMMA StutterTree == ASSUME TreeInv, UNCHANGED vars PROVE TreeInv'
<1>1. UNCHANGED <<used, mode, entries, mounts, mounted, dcache, pc, req>>
  BY DEF vars
<1>2. UsedDirs' = UsedDirs /\ \A d, n : Match(d, n)' = Match(d, n)
  BY <1>1, SameNames, MatchNext DEF UsedDirs
<1>l. LockInv'
  BY <1>1 DEF TreeInv, LockInv, Locks, Victims, Busy
<1>3. MountInv' /\ DirInv' /\ LockInv' /\ \A t \in Tasks : CallInv(t)'
  BY <1>1, <1>2, <1>l DEF TreeInv, MountInv, DirInv, WellFormed, CallInv, Busy
<1>4. LinksToUsed' /\ LinksOnce' /\ LinksToAll'
  BY <1>1, <1>2 DEF TreeInv, LinksToUsed, LinksOnce, LinksToAll
<1>5. CacheInv'
  BY <1>1, <1>2 DEF TreeInv, CacheInv, Settling, Touched, Listing
<1> QED BY <1>3, <1>4, <1>5 DEF TreeInv

LEMMA NextInv == ASSUME PlainRenames PROVE Inv /\ [Next]_vars => Inv'
<1> SUFFICES ASSUME Inv, [Next]_vars PROVE TreeInv'
  BY NextTypes DEF Inv
<1>1. CASE UNCHANGED vars
  BY <1>1, StutterTree DEF Inv
<1> QED BY <1>1, NextCases, StartTree, CreateTree, StayTree, RemoveTree, RenameTree, SettleTree,
           CacheTree, MountTree, UnmountTree

(* The whole inductive invariant, as long as all renames are plain.        *)
THEOREM Invariance == ASSUME PlainRenames PROVE Spec => []Inv
<1>1. Init => Inv
  BY InitTypes, InitTree DEF Inv
<1> QED BY <1>1, NextInv, PTL DEF Spec

(* A step that takes or keeps the spinlock beyond its section: it changes  *)
(* nothing else, or is a rename that found no entry.                       *)
LEMMA LockStep ==
  ASSUME TypeInv, [Next]_vars, lock' # lock
  PROVE  /\ UNCHANGED dcache
         /\ \E t \in Tasks :
              /\ pc'[t] # pc[t]
              /\ \/ UNCHANGED table /\ (pc'[t] = "oops" \/ req[t].op = "readmore")
                 \/ /\ Rename(t) /\ Match(req[t].dir, req[t].name) = None
                    /\ req[t].op \in Moves /\ pc'[t] = "oops"
                    /\ UNCHANGED <<used, mode, usedBlks>>
                    /\ \A d \in Blocks \ {req[t].ndir} : entries'[d] = entries[d]
<1> DEFINE Stays(t) == UNCHANGED table /\ (pc'[t] = "oops" \/ req[t].op = "readmore")
           Dies(t)  == /\ Rename(t) /\ Match(req[t].dir, req[t].name) = None
                       /\ req[t].op \in Moves /\ pc'[t] = "oops"
                       /\ UNCHANGED <<used, mode, usedBlks>>
                       /\ \A d \in Blocks \ {req[t].ndir} : entries'[d] = entries[d]
<1>1. ASSUME NEW t \in Tasks,
             \/ Start(t) \/ Create(t) \/ Unlink(t) \/ Rmdir(t) \/ Rename(t)
             \/ Delete(t) \/ Move(t)
             \/ CreateOutside(t) \/ Iterate(t) \/ CreateCheck(t) \/ SymlinkCurr(t)
      PROVE  UNCHANGED dcache /\ pc'[t] # pc[t] /\ (Stays(t) \/ Dies(t))
  <2>1. CASE Start(t) \/ Create(t) \/ Unlink(t) \/ Rmdir(t) \/ Delete(t) \/ Move(t)
    <3>1. lock' = lock
      BY <2>1, StartTypes, CreateTypes, RemoveTypes, SettleTypes
    <3> QED BY <3>1
  <2>2. CASE Rename(t)
    <3>1. /\ Match(req[t].dir, req[t].name) = None /\ pc'[t] = "oops"
          /\ \A e \in Blocks : e # req[t].ndir => entries'[e] = entries[e]
      BY <2>2, RenameTypes
    <3>2. UNCHANGED <<used, mode, usedBlks, dcache>> /\ pc[t] = "lock" /\ req[t].op \in Moves
      BY <2>2, RenameTypes
    <3> QED BY <2>2, <3>1, <3>2
  <2>3. CASE CreateOutside(t) \/ Iterate(t) \/ CreateCheck(t) \/ SymlinkCurr(t)
    <3>1. /\ UNCHANGED <<table, dcache>> /\ pc[t] = "lock" /\ pc'[t] # "lock"
          /\ pc'[t] = "oops" \/ req[t].op = "readmore"
      BY <2>3, StayTypes
    <3> QED BY <3>1
  <2> QED BY <1>1, <2>1, <2>2, <2>3
<1>2. CASE Mount \/ Unmount \/ UNCHANGED vars
           \/ \E d \in Blocks, n \in Names : Lookup(d, n) \/ Evict(d, n)
  BY <1>2 DEF Mount, Unmount, vars, Lookup, Evict
<1>3. CASE \E t \in Tasks : \/ Start(t) \/ Create(t) \/ Unlink(t) \/ Rmdir(t) \/ Rename(t)
                            \/ Delete(t) \/ Move(t)
                            \/ CreateOutside(t) \/ Iterate(t) \/ CreateCheck(t) \/ SymlinkCurr(t)
  BY <1>1, <1>3, Zenon DEF Stays, Dies
<1> QED BY <1>2, <1>3, NextCases, Zenon

GivesBack == lock' # lock =>
  /\ UNCHANGED dcache
  /\ \E t \in Tasks : /\ pc'[t] # pc[t]
                      /\ \/ UNCHANGED table /\ (pc'[t] = "oops" \/ req[t].op = "readmore")
                         \/ DiesRenaming(t)

(* A call that has changed a directory or the cache gives the spinlock     *)
(* back, for every interleaving of any tasks.  If all renames are plain, a *)
(* rename always finds its entry, so that none of them dies.               *)
THEOREM LockSafety == Spec => LockGivenBack
<1>1. CASE ~PlainRenames
  <2>1. TypeInv /\ [Next]_vars => GivesBack
    BY <1>1, LockStep, Zenon DEF GivesBack, DiesRenaming
  <2>2. TypeInv /\ [Next]_vars => [GivesBack]_vars
    BY <2>1
  <2>3. Spec => [][GivesBack]_vars
    BY <2>2, TypeInvariance, PTL DEF Spec
  <2> QED BY <2>3 DEF LockGivenBack, GivesBack
<1>2. CASE PlainRenames
  <2>1. ASSUME Inv, NEW t \in Tasks, Rename(t) PROVE Match(req[t].dir, req[t].name) # None
    <3>1. pc[t] = "lock" /\ req[t].op \in Moves
      BY <2>1, RenameTypes DEF Inv
    <3>2. req[t].op = "rename"
      BY <1>2, <2>1, <3>1, BusyFacts DEF Busy
    <3> QED BY <1>2, <2>1, <3>1, <3>2, HereFacts
  <2>2. Inv /\ [Next]_vars => GivesBack
    <3> SUFFICES ASSUME Inv, [Next]_vars, lock' # lock
                 PROVE  /\ UNCHANGED dcache
                        /\ \E t \in Tasks :
                             /\ pc'[t] # pc[t]
                             /\ UNCHANGED table /\ (pc'[t] = "oops" \/ req[t].op = "readmore")
      BY Zenon DEF GivesBack
    <3>1. TypeInv
      BY DEF Inv
    <3> HIDE DEF Inv
    <3> QED BY <2>1, <3>1, LockStep, Zenon
  <2>3. Inv /\ [Next]_vars => [GivesBack]_vars
    BY <2>2
  <2>4. Spec => [][GivesBack]_vars
    BY <1>2, <2>3, Invariance, PTL DEF Spec
  <2> QED BY <2>4 DEF LockGivenBack, GivesBack
<1> QED BY <1>1, <1>2

LEMMA FoundInside ==
  ASSUME NEW s \in Seq(Entry), NEW n, Find(s, n) # None
  PROVE  \E i \in DOMAIN s : s[i].index = Find(s, n)
<1>1. Position(s, n) # 0 /\ Find(s, n) = s[Position(s, n)].index
  BY DEF Find
<1>2. Position(s, n) \in 1 .. Len(s)
  BY <1>1, PositionFacts
<1> QED BY <1>1, <1>2

LEMMA EntriesFollow == ASSUME Inv PROVE NoDanglingEntry /\ NoSharedBlock /\ NoLostBlock
<1>1. ASSUME NEW d \in UsedDirs, NEW i \in DOMAIN entries[d]
      PROVE  /\ WellFormed(entries[d]) /\ entries[d][i].name \in Names /\ entries[d][i].index # None
             /\ Match(d, entries[d][i].name) = entries[d][i].index
  <2>1. WellFormed(entries[d]) /\ d \in Blocks
    BY TreeFacts DEF Inv, TreeInv, DirInv
  <2>2. entries[d] \in Seq(Entry) /\ i \in 1 .. Len(entries[d])
    BY <2>1 DEF Inv, TypeInv, TypeOK
  <2>3. entries[d][i] \in Entry
    BY <2>2
  <2>4. Find(entries[d], entries[d][i].name) = entries[d][i].index
    BY <2>1, <2>2, FindOnce
  <2>5. entries[d][i].index # None /\ entries[d][i].name # NoName
    BY <2>1 DEF WellFormed
  <2> QED BY <2>1, <2>3, <2>4, <2>5, MatchIsFind DEF Entry
<1>2. NoDanglingEntry
  BY <1>1, TreeFacts DEF NoDanglingEntry
<1>3. NoSharedBlock
  <2>1. ASSUME NEW d \in UsedDirs, NEW e \in UsedDirs,
               NEW i \in DOMAIN entries[d], NEW j \in DOMAIN entries[e],
               entries[d][i].index = entries[e][j].index
        PROVE  d = e /\ i = j
    <3>1. d = e /\ entries[d][i].name = entries[e][j].name
      BY <1>1, <2>1, TreeFacts
    <3> QED BY <1>1, <3>1 DEF WellFormed
  <2> QED BY <2>1 DEF NoSharedBlock
<1>4. NoLostBlock
  <2>1. ASSUME MAX_MOUNTS <= 1, NEW b \in used \ {Root}
        PROVE  \E d \in UsedDirs : \E i \in DOMAIN entries[d] : entries[d][i].index = b
    <3>1. PICK d \in UsedDirs, n \in Names : Match(d, n) = b
      BY <2>1, TreeFacts
    <3>2. Find(entries[d], n) = b /\ b # None /\ d \in Blocks
      BY <3>1, MatchIsFind, TreeFacts
    <3>3. entries[d] \in Seq(Entry)
      BY <3>2 DEF Inv, TypeInv, TypeOK
    <3> QED BY <3>2, <3>3, FoundInside
  <2> QED BY <2>1 DEF NoLostBlock
<1> QED BY <1>2, <1>3, <1>4

(* The entries of directories and the used blocks correspond one to one,   *)
(* for any tasks and names, if all renames are plain ones to a free name.  *)
THEOREM EntriesSafety == Spec => []EntriesMatchBlocks
<1>1. CASE PlainRenames
  <2>1. Inv => EntriesMatchBlocks
    BY EntriesFollow DEF EntriesMatchBlocks
  <2> QED BY <1>1, <2>1, Invariance, PTL
<1>2. CASE ~PlainRenames
  <2>1. EntriesMatchBlocks
    BY <1>2 DEF EntriesMatchBlocks
  <2> QED BY <2>1, PTL
<1> QED BY <1>1, <1>2

(* A cached dentry says what expfs_lookup would, except for the names of a *)
(* call between its unlock and its return.                                 *)
THEOREM CacheSafety == Spec => []DcacheCoherent
<1>1. CASE PlainRenames
  <2>1. Inv => DcacheCoherent
    BY TreeFacts DEF DcacheCoherent
  <2> QED BY <1>1, <2>1, Invariance, PTL
<1>2. CASE ~PlainRenames
  <2>1. DcacheCoherent
    BY <1>2 DEF DcacheCoherent
  <2> QED BY <2>1, PTL
<1> QED BY <1>1, <1>2

-----------------------------------------------------------------------------
(* The tree of Namespace.                                                  *)
LEMMA KeptNames == UNCHANGED <<used, mode, entries>> => UNCHANGED Children
BY DEF Children, Match

LEMMA SameCache ==
  ASSUME NEW f \in [Blocks -> [Names -> Blocks]], NEW g \in [Blocks -> [Names -> Blocks]],
         \A e \in Blocks, m \in Names : f[e][m] = g[e][m]
  PROVE  f = g
<1>1. ASSUME NEW e \in Blocks PROVE f[e] = g[e]
  <2>1. f[e] \in [Names -> Blocks] /\ g[e] \in [Names -> Blocks]
    OBVIOUS
  <2> QED BY <2>1
<1> QED BY <1>1

LEMMA EmptyKids ==
  ASSUME NEW f \in [Blocks -> [Names -> Blocks]], NEW b \in Blocks, \A m \in Names : f[b][m] = None
  PROVE  f[b] = Tree!Empty
<1>1. f[b] \in [Names -> Blocks]
  OBVIOUS
<1> QED BY <1>1 DEF Tree!Empty

LEMMA AddedImplements ==
  ASSUME TypeInv, TypeInv', NEW d \in Blocks, NEW n \in Names, NEW b \in Blocks,
         NameAdded(d, n, b)
  PROVE  Tree!Next
<1> DEFINE g == [Children EXCEPT ![d][n] = b]
<1>1. /\ Children \in [Blocks -> [Names -> Blocks]] /\ Children' \in [Blocks -> [Names -> Blocks]]
      /\ b # None /\ b # d
  BY ChildrenFacts DEF NameAdded
<1>2. g \in [Blocks -> [Names -> Blocks]]
      /\ \A e \in Blocks, m \in Names : g[e][m] = IF e = d /\ m = n THEN b ELSE Children[e][m]
  <2>1. Children \in [Blocks -> [Names -> Blocks]] /\ None \in Blocks
    BY <1>1, Constants
  <2> QED BY <2>1, CacheUpdate
<1> HIDE DEF g
<1>3. ASSUME NEW e \in Blocks, NEW m \in Names PROVE Children'[e][m] = g[e][m]
  <2>1. CASE e = d /\ m = n
    BY <1>2, <2>1 DEF NameAdded
  <2>2. CASE e # d \/ m # n
    <3>1. Children'[e][m] = Children[e][m]
      BY <2>2 DEF NameAdded
    <3> QED BY <1>2, <2>2, <3>1
  <2> QED BY <2>1, <2>2
<1>4. Children' = g
  BY <1>1, <1>2, <1>3, SameCache
<1>5. Children[b] = Tree!Empty
  BY <1>1, EmptyKids DEF NameAdded
<1>6. Tree!Create(d, n, b)
  BY <1>4, <1>5 DEF Tree!Create, NameAdded, g
<1>7. Children'[d][n] # Children[d][n]
  BY <1>1 DEF NameAdded
<1> QED BY <1>1, <1>6, <1>7 DEF Tree!Next

LEMMA RemovedImplements ==
  ASSUME TypeInv, TypeInv', NEW d \in Blocks, NEW n \in Names, NameRemoved(d, n)
  PROVE  Tree!Next
<1> DEFINE g == [Children EXCEPT ![d][n] = None]
<1>1. /\ Children \in [Blocks -> [Names -> Blocks]] /\ Children' \in [Blocks -> [Names -> Blocks]]
      /\ None \in Blocks /\ Children[d][n] \in Blocks
  BY ChildrenFacts, Constants DEF NameRemoved
<1>2. g \in [Blocks -> [Names -> Blocks]]
      /\ \A e \in Blocks, m \in Names : g[e][m] = IF e = d /\ m = n THEN None ELSE Children[e][m]
  <2>1. Children \in [Blocks -> [Names -> Blocks]] /\ None \in Blocks
    BY <1>1, Constants
  <2> QED BY <2>1, CacheUpdate
<1> HIDE DEF g
<1>3. \A e \in Blocks, m \in Names : Children'[e][m] = g[e][m]
  BY <1>2 DEF NameRemoved
<1>4. Children' = g
  BY <1>1, <1>2, <1>3, SameCache
<1>5. Children[Children[d][n]] = Tree!Empty
  BY <1>1, EmptyKids DEF NameRemoved
<1>6. Tree!Remove(d, n)
  BY <1>4, <1>5 DEF Tree!Remove, g
<1>7. Children'[d][n] # Children[d][n]
  BY DEF NameRemoved
<1> QED BY <1>1, <1>6, <1>7 DEF Tree!Next

LEMMA MovedImplements ==
  ASSUME TypeInv, TypeInv', NEW d, NEW n, NEW d2, NEW n2, NameMoved(d, n, d2, n2)
  PROVE  Tree!Next
<1> DEFINE b == Children[d][n]
           f == [Children EXCEPT ![d2][n2] = b]
           g == [f EXCEPT ![d][n] = None]
<1>1. /\ Children \in [Blocks -> [Names -> Blocks]] /\ Children' \in [Blocks -> [Names -> Blocks]]
      /\ None \in Blocks
  BY ChildrenFacts, Constants
<1>2. b \in Blocks
  BY <1>1 DEF NameMoved
<1> HIDE DEF b
<1>3. /\ f \in [Blocks -> [Names -> Blocks]]
      /\ \A e \in Blocks, m \in Names : f[e][m] = IF e = d2 /\ m = n2 THEN b ELSE Children[e][m]
  <2>1. /\ Children \in [Blocks -> [Names -> Blocks]]
        /\ d2 \in Blocks /\ n2 \in Names /\ b \in Blocks
    BY <1>1, <1>2 DEF NameMoved
  <2> QED BY <2>1, CacheUpdate
<1> HIDE DEF f
<1>4. /\ g \in [Blocks -> [Names -> Blocks]]
      /\ \A e \in Blocks, m \in Names : g[e][m] = IF e = d /\ m = n THEN None ELSE f[e][m]
  <2>1. /\ f \in [Blocks -> [Names -> Blocks]]
        /\ d \in Blocks /\ n \in Names /\ None \in Blocks
    BY <1>1, <1>3 DEF NameMoved
  <2> QED BY <2>1, CacheUpdate
<1> HIDE DEF g
<1>5. ASSUME NEW e \in Blocks, NEW m \in Names PROVE Children'[e][m] = g[e][m]
  <2>1. CASE e = d /\ m = n
    BY <1>3, <1>4, <2>1 DEF NameMoved
  <2>2. CASE e = d2 /\ m = n2
    BY <1>3, <1>4, <2>2 DEF NameMoved, b
  <2>3. CASE <<e, m>> \notin {<<d, n>>, <<d2, n2>>}
    <3>1. Children'[e][m] = Children[e][m]
      BY <2>3 DEF NameMoved
    <3> QED BY <1>3, <1>4, <2>3, <3>1
  <2> QED BY <2>1, <2>2, <2>3
<1>6. Children' = g
  BY <1>1, <1>4, <1>5, SameCache
<1>7. Tree!Rename(d, n, d2, n2)
  BY <1>6 DEF Tree!Rename, NameMoved, b, f, g
<1>8. Children'[d][n] # Children[d][n]
  BY DEF NameMoved
<1>9. d \in Blocks /\ n \in Names /\ d2 \in Blocks /\ n2 \in Names
  BY DEF NameMoved
<1> QED BY <1>7, <1>8, <1>9 DEF Tree!Next

LEMMA MountImplements ==
  ASSUME Inv, MAX_MOUNTS <= 1, Mount
  PROVE  UNCHANGED Children
<1>1. /\ mounts < MAX_MOUNTS /\ mounts \in Nat /\ used' = used \cup {Root} /\ entries'[Root] = <<>>
      /\ TypeInv /\ TypeInv'
  BY MountTypes DEF Inv
<1>2. used = {}
  BY <1>1, BoundAssumption DEF Inv, TreeInv, MountInv
<1>3. UsedDirs = {} /\ UsedDirs' \subseteq {Root}
  BY <1>1, <1>2 DEF UsedDirs
<1>4. \A n : After(Root, n) = None
  BY <1>1, FindEmpty DEF After
<1>5. \A d \in Blocks, n \in Names : Children'[d][n] = Children[d][n]
  BY <1>1, <1>3, <1>4, ChildrenFacts
<1> QED BY <1>1, <1>5, ChildrenFacts, SameCache

LEMMA TreeInit == Init => Tree!Init
BY DEF Init, Tree!Init, Tree!Empty, Children

(* Every step is a step of the tree, at the section of the call, or leaves *)
(* the tree as it is.                                                      *)
LEMMA TreeNext ==
  ASSUME PlainRenames, MAX_MOUNTS <= 1
  PROVE  Inv /\ [Next]_vars => [Tree!Next]_Children
<1> SUFFICES ASSUME Inv, [Next]_vars PROVE Tree!Next \/ UNCHANGED Children
  OBVIOUS
<1>1. TypeInv /\ TypeInv'
  BY NextTypes DEF Inv
<1>2. ASSUME NEW t \in Tasks,
             \/ Start(t) \/ Create(t) \/ Unlink(t) \/ Rmdir(t) \/ Rename(t)
             \/ Delete(t) \/ Move(t)
             \/ CreateOutside(t) \/ Iterate(t) \/ CreateCheck(t) \/ SymlinkCurr(t)
      PROVE  Tree!Next \/ UNCHANGED Children
  <2>1. CASE Create(t)
    <3>1. NameAdded(req[t].dir, req[t].name, GetBlock)
      BY <2>1, CreateTree
    <3>2. req[t].dir \in Blocks /\ req[t].name \in Names /\ GetBlock \in Blocks
      BY <3>1 DEF NameAdded
    <3> QED BY <1>1, <3>1, <3>2, AddedImplements
  <2>2. CASE Unlink(t) \/ Rmdir(t)
    <3>1. UNCHANGED <<used, mode, entries>> \/ NameRemoved(req[t].dir, req[t].name)
      BY <2>2, RemoveTree
    <3>2. CASE UNCHANGED <<used, mode, entries>>
      BY <3>2, KeptNames
    <3>3. CASE NameRemoved(req[t].dir, req[t].name)
      <4>1. req[t].dir \in Blocks /\ req[t].name \in Names
        BY <3>3 DEF NameRemoved
      <4> QED BY <1>1, <3>3, <4>1, RemovedImplements
    <3> QED BY <3>1, <3>2, <3>3
  <2>3. CASE Rename(t)
    <3>1. NameMoved(req[t].dir, req[t].name, req[t].ndir, req[t].nname)
      BY <2>3, RenameTree
    <3>2. /\ req[t].dir \in Blocks /\ req[t].name \in Names
          /\ req[t].ndir \in Blocks /\ req[t].nname \in Names
      BY <3>1 DEF NameMoved
    <3> QED BY <1>1, <3>1, <3>2, MovedImplements
  <2>4. CASE \/ Start(t) \/ Delete(t) \/ Move(t)
             \/ CreateOutside(t) \/ Iterate(t) \/ CreateCheck(t) \/ SymlinkCurr(t)
    BY <1>1, <2>4, StartTypes, SettleTypes, StayTypes, KeptNames DEF table
  <2> QED BY <1>2, <2>1, <2>2, <2>3, <2>4
<1>3. CASE Mount
  BY <1>3, MountImplements
<1>4. CASE Unmount \/ UNCHANGED vars \/ \E d \in Blocks, n \in Names : Lookup(d, n) \/ Evict(d, n)
  BY <1>4, KeptNames DEF Unmount, vars, Lookup, Evict, table
<1> QED BY <1>2, <1>3, <1>4, NextCases

(* expfs implements the tree of names: every create, removal and rename    *)
(* happens at one step and touches no other name, for any tasks, names and *)
(* table, if all renames are plain and the file system is mounted once.    *)
THEOREM NamespaceImplementation ==
  ASSUME PlainRenames, MAX_MOUNTS <= 1
  PROVE  Spec => ImplementsNamespace
<1>1. Inv /\ [Next]_vars => [Tree!Next]_Children
  BY TreeNext
<1> QED BY <1>1, TreeInit, Invariance, PTL DEF Spec, ImplementsNamespace, Tree!Spec
=============================================================================
