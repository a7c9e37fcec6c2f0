--------------------------- MODULE ExpfsFileProofs ---------------------------
(***************************************************************************)
(* Theorems about ExpfsFile, for any tasks, names, table, buffers and      *)
(* calls: the types, the spinlock, that no byte of a file is an earlier    *)
(* file's, and that files are apart from each other.                       *)
(***************************************************************************)
EXTENDS ExpfsFile, WellFoundedInduction, TLAPS

(* Until a file's data overwrites an index: each entry leads to the block  *)
(* that was given out for its name,                                        *)
EntryInv == \A k \in 1 .. Children : /\ slot[k].name \in Names
                                     /\ Index(k) \in used \ {Root}
                                     /\ home[Index(k)] = slot[k].name

(* no name is listed twice,                                                *)
UniqueInv == \A j, k \in 1 .. Children : slot[j].name = slot[k].name => j = k

(* a cached name is listed, with that block,                               *)
CacheInv == \A n \in Names : dcache[n] # None =>
               \E k \in 1 .. Children : slot[k].name = n /\ Index(k) = dcache[n]

(* and an open file that has not been unlinked has a cached name.          *)
OpenInv == \A t \in Tasks : file[t].linked =>
              /\ file[t].name \in Names /\ file[t].blk # None
              /\ dcache[file[t].name] = file[t].blk

EntriesInv == EntryInv /\ UniqueInv /\ CacheInv /\ OpenInv

Inv == TypeOK /\ (wild \/ EntriesInv)

-----------------------------------------------------------------------------
(* Constants and the operators of the model. *)

LEMMA Constants ==
  /\ MAX_FILE \in Nat /\ MAX_FILE > 2 /\ Root = 1 /\ None = 0
  /\ Root \in Blocks /\ None \in Blocks /\ Root + 1 \in Blocks /\ Root + 1 # Root
  /\ \A b \in Blocks : b \in Int /\ 0 <= b /\ b < MAX_FILE /\ b \in Bytes
  /\ BUFFER_SIZE \in Nat /\ BUFFER_SIZE > 0 /\ FIT \in Nat /\ FIT > 0
  /\ SPILL \in Offsets /\ 0 \in Bytes
  /\ \A i \in Offsets : i \in Int /\ 0 <= i /\ i < BUFFER_SIZE
<1>1. MAX_FILE \in Nat /\ MAX_FILE > 2 /\ Blocks \subseteq Bytes
  BY TableAssumption
<1>2. BUFFER_SIZE \in Nat /\ FIT \in Nat \ {0} /\ SPILL \in Offsets
  BY BufferAssumption
<1>3. Root \in Blocks /\ None \in Blocks /\ Root + 1 \in Blocks /\ Root = 1 /\ None = 0
  BY <1>1 DEF Root, None, Blocks
<1>4. \A b \in Blocks : b \in Int /\ 0 <= b /\ b < MAX_FILE
  BY <1>1 DEF Blocks
<1>5. \A i \in Offsets : i \in Int /\ 0 <= i /\ i < BUFFER_SIZE
  BY <1>2 DEF Offsets
<1>6. BUFFER_SIZE > 0
  BY <1>2, <1>5
<1> QED BY <1>1, <1>2, <1>3, <1>4, <1>5, <1>6

(* Every set of naturals that is not empty has a least member.             *)
LEMMA LeastMember == ASSUME NEW S, S \subseteq Nat, S # {}
                     PROVE  \E m \in S : \A k \in S : m <= k
<1>1. IsWellFoundedOn(OpToRel(<, Nat), Nat)
  BY NatLessThanWellFounded
<1>2. PICK m \in S : \A k \in S : ~(<<k, m>> \in OpToRel(<, Nat))
  BY <1>1, WFMin, Zenon
<1>3. \A k \in S : k \in Nat
  OBVIOUS
<1>4. \A k \in S : ~(k < m)
  BY <1>2, <1>3, Zenon DEF OpToRel
<1>5. ASSUME NEW k \in S PROVE m <= k
  <2>1. m \in Nat /\ k \in Nat /\ ~(k < m)
    BY <1>3, <1>4
  <2> QED BY <2>1
<1> QED BY <1>5

(* getblock finds a block that is free, and never the root's.              *)
LEMMA GetBlockFacts ==
  ASSUME FreeBlocks # {}
  PROVE  GetBlock \in Blocks \ {Root, None} /\ GetBlock \notin used
<1>1. FreeBlocks \subseteq Nat
  BY Constants DEF FreeBlocks
<1>2. \E b \in FreeBlocks : \A c \in FreeBlocks : b <= c
  BY <1>1, LeastMember
<1>3. GetBlock \in FreeBlocks
  BY <1>2, Zenon DEF GetBlock
<1> QED BY <1>3, Constants DEF FreeBlocks, Blocks

LEMMA LeastFacts == \A m, n \in Int : /\ Least(m, n) \in Int
                                      /\ Least(m, n) <= m /\ Least(m, n) <= n
                                      /\ m >= 0 /\ n >= 0 => Least(m, n) >= 0
BY DEF Least

(* The entry that is found for a name.                                     *)
LEMMA PlaceFacts == ASSUME NEW n \in Listed
                    PROVE  Place(n) \in 1 .. Children /\ slot[Place(n)].name = n
BY Zenon DEF Listed, Place

(* Calls are reads, writes or seeks.                                       *)
LEMMA CallFacts ==
  ASSUME NEW c \in Calls
  PROVE  /\ c.op = "read" => c.size \in Nat /\ c.ok \in Nat
         /\ c.op = "write" => /\ c.buf \in Seq(Bytes) /\ Len(c.buf) \in Nat /\ c.ok \in Nat
                              /\ \A i \in 1 .. Len(c.buf) : c.buf[i] \in Bytes
         /\ c.op = "seek" => c.off \in Int
<1>1. c \in RequestSet
  BY CallsAssumption
<1>2. CASE c \in [op : {"read"}, size : Nat, ok : Nat]
  BY <1>2
<1>3. CASE c \in [op : {"write"}, buf : Seq(Bytes), ok : Nat]
  <2>1. c.op = "write" /\ c.buf \in Seq(Bytes) /\ c.ok \in Nat
    BY <1>3
  <2>2. Len(c.buf) \in Nat /\ \A i \in 1 .. Len(c.buf) : c.buf[i] \in Bytes
    BY <2>1
  <2> QED BY <2>1, <2>2
<1>4. CASE c \in [op : {"seek"}, orig : {"set", "cur"}, off : Int]
  BY <1>4
<1> QED BY <1>1, <1>2, <1>3, <1>4 DEF RequestSet

-----------------------------------------------------------------------------
(* The types. *)

LEMMA InitTypes == Init => TypeOK
<1> SUFFICES ASSUME Init PROVE TypeOK
  OBVIOUS
<1>1. file \in [Tasks -> [name : Names \cup {NoName}, blk : Blocks \ {Root},
                          pos : 0 .. 2 * BUFFER_SIZE - 1, linked : BOOLEAN]]
  <2>1. 0 \in 0 .. 2 * BUFFER_SIZE - 1 /\ None \in Blocks \ {Root}
    BY Constants
  <2> QED BY <2>1 DEF Init, Closed
<1>2. used \subseteq Blocks /\ Root \in used /\ DOMAIN filesize = Blocks /\ Children \in 0 .. FIT + 1
  BY Constants DEF Init, Children
<1>3. \A b \in Blocks \ {Root} : filesize[b] \in 0 .. BUFFER_SIZE
  BY Constants DEF Init
<1>4. buffer \in [Blocks -> [Offsets -> Bytes]]
  BY Constants DEF Init
<1>5. slot \in [1 .. FIT + 1 -> [name : Names \cup {NoName}, index : Bytes]]
  BY Constants DEF Init
<1>6. usedBlks \in 1 .. MAX_FILE
  BY Constants DEF Init
<1>7. lock \in BOOLEAN /\ sound \in [Blocks -> BOOLEAN] /\ wild \in BOOLEAN
  BY Zenon DEF Init
<1>8. /\ dcache \in [Names -> Blocks] /\ home \in [Blocks -> Names \cup {NoName}]
      /\ written \in [Blocks -> SUBSET Offsets]
  BY Constants DEF Init
<1> QED BY <1>1, <1>2, <1>3, <1>4, <1>5, <1>6, <1>7, <1>8, Zenon DEF TypeOK

LEMMA CreateTypes == ASSUME TypeOK, NEW n \in Names, Create(n) PROVE TypeOK'
<1> DEFINE g == GetBlock
<1>1. g \in Blocks \ {Root, None} /\ g \notin used
  BY GetBlockFacts, Zenon DEF Create
<1> HIDE DEF g
<1>2. /\ used' = used \cup {g} /\ usedBlks' = usedBlks + 1 /\ usedBlks < MAX_FILE
      /\ filesize' = [filesize EXCEPT ![g] = 0, ![Root] = Children + 1]
      /\ PutEntry(Children + 1, n, g) /\ Children <= FIT
      /\ dcache' = [dcache EXCEPT ![n] = g]
      /\ written' = [written EXCEPT ![g] = {}]
      /\ sound' = [sound EXCEPT ![g] = TRUE]
      /\ home' = [home EXCEPT ![g] = n]
      /\ UNCHANGED <<wild, lock, file>>
  BY Zenon DEF Create, g
<1>3. used' \subseteq Blocks /\ Root \in used'
  BY <1>1, <1>2 DEF TypeOK
<1>4. DOMAIN filesize = Blocks /\ Children \in 0 .. FIT + 1
  BY Zenon DEF TypeOK
<1>5. DOMAIN filesize' = Blocks /\ Children' \in 0 .. FIT + 1
  BY <1>1, <1>2, <1>4, Constants DEF Children
<1>6. \A b \in Blocks \ {Root} : filesize[b] \in 0 .. BUFFER_SIZE
  BY Zenon DEF TypeOK
<1>7. \A b \in Blocks \ {Root} : filesize'[b] \in 0 .. BUFFER_SIZE
  BY <1>1, <1>2, <1>4, <1>6, Constants
<1>8. buffer' \in [Blocks -> [Offsets -> Bytes]]
  <2>1. buffer \in [Blocks -> [Offsets -> Bytes]]
    BY Zenon DEF TypeOK
  <2>2. CASE Children + 1 <= FIT
    BY <1>2, <2>1, <2>2 DEF PutEntry
  <2>3. CASE ~(Children + 1 <= FIT)
    <3>1. buffer' = [buffer EXCEPT ![Root + 1][SPILL] = g]
      BY <1>2, <2>3, Zenon DEF PutEntry
    <3> QED BY <3>1, <2>1, <1>1, Constants
  <2> QED BY <2>2, <2>3
<1>9. slot' \in [1 .. FIT + 1 -> [name : Names \cup {NoName}, index : Bytes]]
  <2>1. slot \in [1 .. FIT + 1 -> [name : Names \cup {NoName}, index : Bytes]]
    BY Zenon DEF TypeOK
  <2>2. [name |-> n, index |-> IF Children + 1 <= FIT THEN g ELSE 0]
          \in [name : Names \cup {NoName}, index : Bytes]
    BY <1>1, Constants
  <2>3. slot' = [slot EXCEPT ![Children + 1] =
                   [name |-> n, index |-> IF Children + 1 <= FIT THEN g ELSE 0]]
    BY <1>2, Zenon DEF PutEntry
  <2> QED BY <2>1, <2>2, <2>3, Zenon
<1>10. usedBlks' \in 1 .. MAX_FILE
  <2>1. usedBlks \in 1 .. MAX_FILE
    BY Zenon DEF TypeOK
  <2> QED BY <1>2, <2>1, Constants
<1>11. dcache' \in [Names -> Blocks] /\ home' \in [Blocks -> Names \cup {NoName}]
       /\ written' \in [Blocks -> SUBSET Offsets]
  <2>1. dcache \in [Names -> Blocks] /\ home \in [Blocks -> Names \cup {NoName}]
        /\ written \in [Blocks -> SUBSET Offsets]
    BY Zenon DEF TypeOK
  <2> QED BY <1>1, <1>2, <2>1
<1>12. sound' \in [Blocks -> BOOLEAN] /\ UNCHANGED <<wild, lock, file>>
  <2>1. sound \in [Blocks -> BOOLEAN]
    BY Zenon DEF TypeOK
  <2> QED BY <1>1, <1>2, <2>1, Zenon
<1> QED BY <1>3, <1>5, <1>7, <1>8, <1>9, <1>10, <1>11, <1>12, Zenon DEF TypeOK

(* Looking up, dropping, opening and closing a name change dcache and file *)
(* only.                                                                   *)
LEMMA NameTypes ==
  ASSUME TypeOK, UNCHANGED <<table, lock, ghost>>, dcache' \in [Names -> Blocks],
         file' \in [Tasks -> [name : Names \cup {NoName}, blk : Blocks \ {Root},
                              pos : 0 .. 2 * BUFFER_SIZE - 1, linked : BOOLEAN]]
  PROVE  TypeOK'
<1>1. UNCHANGED <<used, filesize, buffer, slot, usedBlks, lock, home, written, sound, wild, Children>>
  BY Zenon DEF table, ghost, Children
<1> QED BY <1>1, Zenon DEF TypeOK

LEMMA LookupTypes == ASSUME TypeOK, NEW n \in Names, Lookup(n) \/ Evict(n) PROVE TypeOK'
<1>1. UNCHANGED <<table, lock, file, ghost>>
  BY Zenon DEF Lookup, Evict
<1>2. PICK b \in Blocks : dcache' = [dcache EXCEPT ![n] = b]
  BY Constants, Zenon DEF Lookup, Evict
<1>3. dcache' \in [Names -> Blocks]
  BY <1>2 DEF TypeOK
<1> QED BY <1>1, <1>3, NameTypes, Zenon DEF TypeOK

LEMMA OpenTypes == ASSUME TypeOK, NEW t \in Tasks, Close(t) \/ \E n \in Names : Open(t, n)
                   PROVE  TypeOK'
<1> DEFINE Files == [name : Names \cup {NoName}, blk : Blocks \ {Root},
                     pos : 0 .. 2 * BUFFER_SIZE - 1, linked : BOOLEAN]
<1>1. UNCHANGED <<table, lock, dcache, ghost>>
  BY Zenon DEF Open, Close
<1>2. dcache \in [Names -> Blocks] /\ file \in [Tasks -> Files]
  BY Zenon DEF TypeOK
<1>3. \E f \in Files : file' = [file EXCEPT ![t] = f]
  <2>1. 0 \in 0 .. 2 * BUFFER_SIZE - 1
    BY Constants
  <2>2. CASE Close(t)
    <3>1. Closed \in Files
      BY <2>1, Constants DEF Closed
    <3> QED BY <2>2, <3>1, Zenon DEF Close
  <2>3. ASSUME NEW n \in Names, Open(t, n)
        PROVE  \E f \in Files : file' = [file EXCEPT ![t] = f]
    <3>1. dcache[n] \in Blocks \ {Root}
      BY <1>2, <2>3, Constants DEF Open
    <3>2. [name |-> n, blk |-> dcache[n], pos |-> 0, linked |-> TRUE] \in Files
      BY <2>1, <3>1
    <3> QED BY <2>3, <3>2, Zenon DEF Open
  <2> QED BY <2>2, <2>3, Zenon
<1> HIDE DEF Files
<1>4. file' \in [Tasks -> Files]
  BY <1>2, <1>3, Zenon
<1> QED BY <1>1, <1>2, <1>4, NameTypes, Zenon DEF Files

(* Every entry that lies in the table has an index, a byte.                *)
LEMMA IndexType == ASSUME TypeOK, NEW k \in 1 .. FIT + 1 PROVE Index(k) \in Bytes
<1>1. /\ slot \in [1 .. FIT + 1 -> [name : Names \cup {NoName}, index : Bytes]]
      /\ buffer \in [Blocks -> [Offsets -> Bytes]]
  BY Zenon DEF TypeOK
<1>2. buffer[Root + 1][SPILL] \in Bytes
  BY <1>1, Constants
<1>3. slot[k].index \in Bytes
  BY <1>1
<1> QED BY <1>2, <1>3, Zenon DEF Index

LEMMA UnlinkTypes == ASSUME TypeOK, NEW n \in Names, Unlink(n) PROVE TypeOK'
<1> DEFINE i == Place(n)
           Entry == [name : Names \cup {NoName}, index : Bytes]
           Files == [name : Names \cup {NoName}, blk : Blocks \ {Root},
                     pos : 0 .. 2 * BUFFER_SIZE - 1, linked : BOOLEAN]
<1>1. i \in 1 .. Children
  BY PlaceFacts, Zenon DEF Unlink
<1>2. /\ slot' = [k \in DOMAIN slot |->
                    IF k \in i .. Children - 1
                    THEN [name |-> slot[k + 1].name, index |-> Index(k + 1)]
                    ELSE slot[k]]
      /\ filesize' = [filesize EXCEPT ![Root] = @ - 1]
      /\ used' = used \ {dcache[n]} /\ dcache[n] > Root
      /\ dcache' = [dcache EXCEPT ![n] = None]
      /\ file' = [t \in Tasks |-> IF t \in OpenAs(n) THEN [file[t] EXCEPT !.linked = FALSE]
                                                      ELSE file[t]]
      /\ UNCHANGED <<buffer, usedBlks, lock, ghost>>
  BY Zenon DEF Unlink
<1> HIDE DEF i
<1>3. /\ DOMAIN filesize = Blocks /\ Children \in 0 .. FIT + 1
      /\ slot \in [1 .. FIT + 1 -> Entry] /\ file \in [Tasks -> Files]
      /\ dcache \in [Names -> Blocks] /\ used \subseteq Blocks /\ Root \in used
      /\ \A b \in Blocks \ {Root} : filesize[b] \in 0 .. BUFFER_SIZE
  BY Zenon DEF TypeOK
<1>4. used' \subseteq Blocks /\ Root \in used'
  BY <1>2, <1>3, Constants
<1>5. /\ DOMAIN filesize' = Blocks /\ Children' = Children - 1
      /\ \A b \in Blocks \ {Root} : filesize'[b] \in 0 .. BUFFER_SIZE
  BY <1>2, <1>3, Constants DEF Children
<1>6. Children' \in 0 .. FIT + 1
  BY <1>1, <1>3, <1>5, Constants
<1>7. slot' \in [1 .. FIT + 1 -> Entry]
  <2>1. ASSUME NEW k \in 1 .. FIT + 1
        PROVE  (IF k \in i .. Children - 1
                THEN [name |-> slot[k + 1].name, index |-> Index(k + 1)]
                ELSE slot[k]) \in Entry
    <3>1. CASE k \in i .. Children - 1
      <4>1. k + 1 \in 1 .. FIT + 1
        BY <1>1, <1>3, <3>1, Constants
      <4>2. Index(k + 1) \in Bytes
        BY <4>1, IndexType
      <4>3. slot[k + 1].name \in Names \cup {NoName}
        BY <4>1, <1>3
      <4> QED BY <3>1, <4>2, <4>3
    <3>2. CASE k \notin i .. Children - 1
      BY <3>2, <1>3
    <3> QED BY <3>1, <3>2
  <2>2. DOMAIN slot = 1 .. FIT + 1
    BY <1>3
  <2> HIDE DEF Entry
  <2> QED BY <1>2, <2>1, <2>2, Zenon
<1>8. dcache' \in [Names -> Blocks]
  BY <1>2, <1>3, Constants
<1>9. file' \in [Tasks -> Files]
  <2>1. ASSUME NEW t \in Tasks
        PROVE  (IF t \in OpenAs(n) THEN [file[t] EXCEPT !.linked = FALSE] ELSE file[t]) \in Files
    BY <1>3
  <2> HIDE DEF Files
  <2> QED BY <1>2, <2>1, Zenon
<1>10. UNCHANGED <<buffer, usedBlks, lock, home, written, sound, wild>>
  BY <1>2, Zenon DEF ghost
<1> QED BY <1>4, <1>5, <1>6, <1>7, <1>8, <1>9, <1>10, Zenon DEF TypeOK

(* A call moves the position of its own file only.                         *)
LEMMA MoveType ==
  ASSUME TypeOK, NEW t \in Tasks, NEW p \in 0 .. 2 * BUFFER_SIZE - 1,
         file' = [file EXCEPT ![t].pos = p]
  PROVE  file' \in [Tasks -> [name : Names \cup {NoName}, blk : Blocks \ {Root},
                              pos : 0 .. 2 * BUFFER_SIZE - 1, linked : BOOLEAN]]
<1> DEFINE Files == [name : Names \cup {NoName}, blk : Blocks \ {Root},
                     pos : 0 .. 2 * BUFFER_SIZE - 1, linked : BOOLEAN]
<1>1. file \in [Tasks -> Files]
  BY Zenon DEF TypeOK
<1>2. [file[t] EXCEPT !.pos = p] \in Files
  BY <1>1
<1>3. file' = [file EXCEPT ![t] = [file[t] EXCEPT !.pos = p]]
  BY <1>1
<1> HIDE DEF Files
<1>4. file' \in [Tasks -> Files]
  BY <1>1, <1>2, <1>3, Zenon
<1> QED BY <1>4, Zenon DEF Files

LEMMA ReadTypes ==
  ASSUME TypeOK, NEW t \in Tasks, NEW c \in Calls, c.op = "read", DoRead(t, c)
  PROVE  TypeOK'
<1> DEFINE pos == file[t].pos
           end == filesize[file[t].blk]
           len == Least(end, c.size)
<1>1. UNCHANGED <<table, dcache, ghost>>
  BY Zenon DEF DoRead
<1>2. UNCHANGED <<used, filesize, buffer, slot, usedBlks, dcache, home, written, sound, wild, Children>>
  BY <1>1, Zenon DEF table, ghost, Children
<1>3. lock' \in BOOLEAN
  <2>1. lock' = TRUE \/ lock' = lock
    BY Zenon DEF DoRead
  <2> QED BY <2>1, Zenon DEF TypeOK
<1>4. file' = file \/ (pos < end /\ file' = [file EXCEPT ![t].pos = pos + len])
  BY Zenon DEF DoRead
<1>5. pos \in 0 .. 2 * BUFFER_SIZE - 1 /\ end \in 0 .. BUFFER_SIZE
  BY DEF TypeOK
<1>6. c.size \in Nat
  BY CallFacts
<1>7. len \in Int /\ 0 <= len /\ len <= end
  <2>1. end \in Int /\ end >= 0 /\ c.size \in Int /\ c.size >= 0
    BY <1>5, <1>6, Constants
  <2> HIDE DEF end
  <2> QED BY <2>1, LeastFacts DEF len
<1> HIDE DEF pos, end, len
<1>8. pos < end => pos + len \in 0 .. 2 * BUFFER_SIZE - 1
  BY <1>5, <1>7, Constants
<1>9. file' \in [Tasks -> [name : Names \cup {NoName}, blk : Blocks \ {Root},
                           pos : 0 .. 2 * BUFFER_SIZE - 1, linked : BOOLEAN]]
  <2>1. CASE file' = file
    BY <2>1, Zenon DEF TypeOK
  <2>2. CASE pos < end /\ file' = [file EXCEPT ![t].pos = pos + len]
    BY <2>2, <1>8, MoveType, Zenon
  <2> QED BY <1>4, <2>1, <2>2, Zenon
<1> QED BY <1>2, <1>3, <1>9, Zenon DEF TypeOK

LEMMA SeekTypes == ASSUME TypeOK, NEW t \in Tasks, NEW c \in Calls, DoSeek(t, c) PROVE TypeOK'
<1>1. PICK p : p \in 0 .. BUFFER_SIZE /\ file' = [file EXCEPT ![t].pos = p]
  BY Zenon DEF DoSeek, Within
<1>2. p \in 0 .. 2 * BUFFER_SIZE - 1
  BY <1>1, Constants
<1>3. UNCHANGED <<table, lock, dcache, ghost>>
  BY Zenon DEF DoSeek
<1>4. dcache' \in [Names -> Blocks]
  BY <1>3, Zenon DEF TypeOK
<1> QED BY <1>1, <1>2, <1>3, <1>4, MoveType, NameTypes, Zenon

(* The bytes that a write is about.                                        *)
LEMMA WriteFacts ==
  ASSUME TypeOK, NEW t \in Tasks, NEW c \in Calls, c.op = "write",
         NEW p, NEW count, p = file[t].pos, count = Least(Len(c.buf), BUFFER_SIZE - p),
         p < BUFFER_SIZE
  PROVE  /\ p \in 0 .. BUFFER_SIZE - 1 /\ count \in Nat /\ count <= Len(c.buf)
         /\ p + count \in 0 .. BUFFER_SIZE
<1>1. p \in 0 .. 2 * BUFFER_SIZE - 1
  BY DEF TypeOK
<1>2. Len(c.buf) \in Nat
  BY CallFacts
<1>3. p \in 0 .. BUFFER_SIZE - 1 /\ BUFFER_SIZE - p \in Int /\ BUFFER_SIZE - p >= 0
  BY <1>1, Constants
<1>4. count \in Int /\ count >= 0 /\ count <= Len(c.buf) /\ count <= BUFFER_SIZE - p
  <2> DEFINE m == Len(c.buf)
             n == BUFFER_SIZE - p
  <2>1. m \in Int /\ n \in Int /\ m >= 0 /\ n >= 0
    BY <1>2, <1>3
  <2>2. count = Least(m, n)
    OBVIOUS
  <2> HIDE DEF m, n
  <2>3. count \in Int /\ count >= 0 /\ count <= m /\ count <= n
    BY <2>1, <2>2, LeastFacts
  <2> QED BY <2>3 DEF m, n
<1> QED BY <1>3, <1>4, Constants

(* A write within the buffer, step by step.                                *)
LEMMA WriteStep ==
  ASSUME TypeOK, NEW t \in Tasks, NEW c \in Calls, c.op = "write", DoWrite(t, c),
         NEW b, NEW p, NEW count,
         b = file[t].blk, p = file[t].pos, count = Least(Len(c.buf), BUFFER_SIZE - p),
         p < BUFFER_SIZE
  PROVE  /\ buffer' = [buffer EXCEPT ![b] =
              [i \in Offsets |->
                 IF i \notin p .. p + count - 1 THEN buffer[b][i]
                 ELSE IF i - p < c.ok THEN c.buf[i - p + 1] ELSE 0]]
         /\ \/ UNCHANGED <<filesize, file>>
            \/ /\ filesize' = [filesize EXCEPT ![b] = p + count]
               /\ file' = [file EXCEPT ![t].pos = p + count]
         /\ written' = [written EXCEPT ![b] = @ \cup (p .. p + count - 1)]
         /\ sound' = [sound EXCEPT ![b] = @ /\ p <= filesize[b] /\ file[t].linked]
         /\ wild' = (wild \/ (Children > FIT /\ b = Root + 1 /\ SPILL \in p .. p + count - 1))
         /\ UNCHANGED <<used, slot, usedBlks, home, dcache, lock>>
<1>1. p \in Int
  BY Constants DEF TypeOK
<1>2. ~(p >= BUFFER_SIZE)
  BY <1>1, Constants
<1> QED BY <1>2, Zenon DEF DoWrite, FaultUnlocks

LEMMA WriteTypes ==
  ASSUME TypeOK, NEW t \in Tasks, NEW c \in Calls, c.op = "write", DoWrite(t, c)
  PROVE  TypeOK'
<1> DEFINE b == file[t].blk
           p == file[t].pos
           count == Least(Len(c.buf), BUFFER_SIZE - p)
<1>1. CASE p >= BUFFER_SIZE
  <2>1. ~(p < BUFFER_SIZE)
    BY <1>1, Constants DEF TypeOK
  <2>2. lock' = TRUE /\ UNCHANGED <<table, file, ghost, dcache>>
    BY <2>1, Zenon DEF DoWrite
  <2>3. UNCHANGED <<used, filesize, buffer, slot, usedBlks, dcache, home, written, sound, wild, Children>>
    BY <2>2, Zenon DEF table, ghost, Children
  <2> QED BY <2>2, <2>3, Zenon DEF TypeOK
<1>2. CASE p < BUFFER_SIZE
  <2>1. /\ p \in 0 .. BUFFER_SIZE - 1 /\ count \in Nat /\ count <= Len(c.buf)
        /\ p + count \in 0 .. BUFFER_SIZE
    BY <1>2, WriteFacts
  <2>2. b \in Blocks \ {Root}
    BY DEF TypeOK
  <2>3. /\ buffer' = [buffer EXCEPT ![b] =
              [i \in Offsets |->
                 IF i \notin p .. p + count - 1 THEN buffer[b][i]
                 ELSE IF i - p < c.ok THEN c.buf[i - p + 1] ELSE 0]]
        /\ \/ UNCHANGED <<filesize, file>>
           \/ /\ filesize' = [filesize EXCEPT ![b] = p + count]
              /\ file' = [file EXCEPT ![t].pos = p + count]
        /\ written' = [written EXCEPT ![b] = @ \cup (p .. p + count - 1)]
        /\ sound' = [sound EXCEPT ![b] = @ /\ p <= filesize[b] /\ file[t].linked]
        /\ wild' = (wild \/ (Children > FIT /\ b = Root + 1 /\ SPILL \in p .. p + count - 1))
        /\ UNCHANGED <<used, slot, usedBlks, home, dcache, lock>>
    BY <1>2, WriteStep, Zenon
  <2> HIDE DEF b, p, count
  <2>4. buffer' \in [Blocks -> [Offsets -> Bytes]]
    <3>1. buffer \in [Blocks -> [Offsets -> Bytes]]
      BY Zenon DEF TypeOK
    <3>2. ASSUME NEW i \in Offsets
          PROVE  (IF i \notin p .. p + count - 1 THEN buffer[b][i]
                  ELSE IF i - p < c.ok THEN c.buf[i - p + 1] ELSE 0) \in Bytes
      <4>1. CASE i \notin p .. p + count - 1
        BY <3>1, <2>2, <4>1
      <4>2. CASE i \in p .. p + count - 1
        <5>1. i - p + 1 \in 1 .. Len(c.buf) /\ Len(c.buf) \in Nat
          BY <4>2, <2>1, CallFacts, Constants
        <5>2. c.buf[i - p + 1] \in Bytes
          BY <5>1, CallFacts
        <5> QED BY <4>2, <5>2, Constants, Zenon
      <4> QED BY <4>1, <4>2, Zenon
    <3>3. [i \in Offsets |->
                 IF i \notin p .. p + count - 1 THEN buffer[b][i]
                 ELSE IF i - p < c.ok THEN c.buf[i - p + 1] ELSE 0] \in [Offsets -> Bytes]
      BY <3>2, Zenon
    <3> QED BY <2>3, <3>1, <3>3, Zenon
  <2>5. /\ DOMAIN filesize = Blocks /\ Children \in 0 .. FIT + 1
        /\ \A d \in Blocks \ {Root} : filesize[d] \in 0 .. BUFFER_SIZE
    BY Zenon DEF TypeOK
  <2>6. /\ DOMAIN filesize' = Blocks /\ Children' \in 0 .. FIT + 1
        /\ \A d \in Blocks \ {Root} : filesize'[d] \in 0 .. BUFFER_SIZE
    <3>1. CASE UNCHANGED filesize
      BY <3>1, <2>5, Zenon DEF Children
    <3>2. CASE filesize' = [filesize EXCEPT ![b] = p + count]
      BY <3>2, <2>1, <2>2, <2>5, Constants DEF Children
    <3> QED BY <2>3, <3>1, <3>2, Zenon
  <2>7. file' \in [Tasks -> [name : Names \cup {NoName}, blk : Blocks \ {Root},
                             pos : 0 .. 2 * BUFFER_SIZE - 1, linked : BOOLEAN]]
    <3>1. p + count \in 0 .. 2 * BUFFER_SIZE - 1
      BY <2>1, Constants
    <3>2. CASE UNCHANGED file
      BY <3>2, Zenon DEF TypeOK
    <3>3. CASE file' = [file EXCEPT ![t].pos = p + count]
      BY <3>1, <3>3, MoveType, Zenon
    <3> QED BY <2>3, <3>2, <3>3, Zenon
  <2>8. written' \in [Blocks -> SUBSET Offsets]
    <3>1. written \in [Blocks -> SUBSET Offsets]
      BY Zenon DEF TypeOK
    <3>2. p .. p + count - 1 \subseteq Offsets
      BY <2>1, Constants DEF Offsets
    <3> QED BY <2>2, <2>3, <3>1, <3>2
  <2>9. sound' \in [Blocks -> BOOLEAN] /\ wild' \in BOOLEAN
    <3>1. sound \in [Blocks -> BOOLEAN] /\ wild \in BOOLEAN
      BY Zenon DEF TypeOK
    <3>2. (sound[b] /\ p <= filesize[b] /\ file[t].linked) \in BOOLEAN
      BY Zenon
    <3> QED BY <2>2, <2>3, <3>1, <3>2, Zenon
  <2> QED BY <2>3, <2>4, <2>6, <2>7, <2>8, <2>9, Zenon DEF TypeOK
<1>3. p \in Int
  BY Constants DEF TypeOK
<1> QED BY <1>1, <1>2, <1>3, Constants

(* Every step is one of the actions.                                       *)
LEMMA NextCases ==
  ASSUME [Next]_vars
  PROVE  \/ UNCHANGED vars
         \/ \E n \in Names : Create(n) \/ Lookup(n) \/ Evict(n) \/ Unlink(n)
         \/ \E t \in Tasks : Close(t) \/ \E n \in Names : Open(t, n)
         \/ \E t \in Tasks : Call(t)
BY Zenon DEF Next

LEMMA CallCases ==
  ASSUME NEW t \in Tasks, Call(t)
  PROVE  \E c \in Calls : \/ c.op = "read" /\ DoRead(t, c)
                          \/ c.op = "write" /\ DoWrite(t, c)
                          \/ c.op = "seek" /\ DoSeek(t, c)
BY Zenon DEF Call

LEMMA NextTypes == TypeOK /\ [Next]_vars => TypeOK'
<1> SUFFICES ASSUME TypeOK, [Next]_vars PROVE TypeOK'
  OBVIOUS
<1>1. CASE UNCHANGED vars
  BY <1>1, Zenon DEF vars, TypeOK, Children
<1>2. CASE \E n \in Names : Create(n) \/ Lookup(n) \/ Evict(n) \/ Unlink(n)
  BY <1>2, CreateTypes, LookupTypes, UnlinkTypes, Zenon
<1>3. CASE \E t \in Tasks : Close(t) \/ \E n \in Names : Open(t, n)
  BY <1>3, OpenTypes, Zenon
<1>4. CASE \E t \in Tasks : Call(t)
  BY <1>4, CallCases, ReadTypes, WriteTypes, SeekTypes, Zenon
<1> QED BY <1>1, <1>2, <1>3, <1>4, NextCases, Zenon

(* The variables have their types; above all no position is further behind *)
(* the buffer than a read of a whole file takes it, and every open file is *)
(* one of the table's, never the root.                                     *)
THEOREM TypeCorrect == Spec => []TypeOK
BY InitTypes, NextTypes, PTL DEF Spec

-----------------------------------------------------------------------------
(* The spinlock. *)

LEMMA LockStep == ASSUME [Next]_vars, lock' # lock PROVE UNCHANGED <<table, dcache, file>>
<1>1. CASE UNCHANGED vars
  BY <1>1, Zenon DEF vars
<1>2. CASE \E n \in Names : Create(n) \/ Lookup(n) \/ Evict(n) \/ Unlink(n)
  BY <1>2, Zenon DEF Create, Lookup, Evict, Unlink
<1>3. CASE \E t \in Tasks : Close(t) \/ \E n \in Names : Open(t, n)
  BY <1>3, Zenon DEF Close, Open
<1>4. CASE \E t \in Tasks : Call(t)
  <2>1. PICK t \in Tasks, c \in Calls : DoRead(t, c) \/ DoWrite(t, c) \/ DoSeek(t, c)
    BY <1>4, CallCases, Zenon
  <2>2. CASE DoRead(t, c)
    BY <2>2, Zenon DEF DoRead
  <2>3. CASE DoWrite(t, c)
    BY <2>3, Zenon DEF DoWrite, FaultUnlocks
  <2>4. CASE DoSeek(t, c)
    BY <2>4, Zenon DEF DoSeek
  <2> QED BY <2>1, <2>2, <2>3, <2>4, Zenon
<1> QED BY <1>1, <1>2, <1>3, <1>4, NextCases, Zenon

(* Whatever the calls: one that keeps expfs_lock has moved no byte and no  *)
(* position, and has changed no entry.                                     *)
THEOREM LockSafety == Spec => LockGivenBack
<1>1. [Next]_vars => [lock' # lock => UNCHANGED <<table, dcache, file>>]_vars
  BY LockStep, Zenon
<1> QED BY <1>1, PTL DEF Spec, LockGivenBack

-----------------------------------------------------------------------------
(* The bytes of a file. *)

LEMMA BytesWrite ==
  ASSUME TypeOK, OwnBytes, NEW t \in Tasks, NEW c \in Calls, c.op = "write", DoWrite(t, c),
         file[t].pos < BUFFER_SIZE
  PROVE  OwnBytes'
<1> DEFINE b == file[t].blk
           p == file[t].pos
           count == Least(Len(c.buf), BUFFER_SIZE - p)
<1>types. /\ used \subseteq Blocks /\ DOMAIN filesize = Blocks
       /\ \A e \in Blocks \ {Root} : filesize[e] \in 0 .. BUFFER_SIZE
       /\ written \in [Blocks -> SUBSET Offsets]
  BY Zenon DEF TypeOK
<1>1. /\ p \in 0 .. BUFFER_SIZE - 1 /\ count \in Nat /\ p + count \in 0 .. BUFFER_SIZE
  BY WriteFacts
<1>2. b \in Blocks \ {Root}
  BY DEF TypeOK
<1>3. /\ buffer' = [buffer EXCEPT ![b] =
            [i \in Offsets |->
               IF i \notin p .. p + count - 1 THEN buffer[b][i]
               ELSE IF i - p < c.ok THEN c.buf[i - p + 1] ELSE 0]]
      /\ \/ UNCHANGED <<filesize, file>>
         \/ /\ filesize' = [filesize EXCEPT ![b] = p + count]
            /\ file' = [file EXCEPT ![t].pos = p + count]
      /\ written' = [written EXCEPT ![b] = @ \cup (p .. p + count - 1)]
      /\ sound' = [sound EXCEPT ![b] = @ /\ p <= filesize[b] /\ file[t].linked]
      /\ wild' = (wild \/ (Children > FIT /\ b = Root + 1 /\ SPILL \in p .. p + count - 1))
      /\ UNCHANGED <<used, slot, usedBlks, home, dcache, lock>>
  BY WriteStep, Zenon
<1> HIDE DEF b, p, count
<1> SUFFICES ASSUME NEW a \in used' \ {Root}, sound'[a]
             PROVE  0 .. filesize'[a] - 1 \subseteq written'[a]
  BY Zenon DEF OwnBytes
<1>4. DOMAIN sound = Blocks /\ a \in Blocks /\ a \in used
  BY <1>3, <1>types DEF TypeOK
<1>own. ASSUME sound[a], UNCHANGED <<filesize[a], written[a]>>
      PROVE  0 .. filesize'[a] - 1 \subseteq written'[a]
  BY <1>own, <1>4, Zenon DEF OwnBytes
<1>5. CASE a # b
  <2>1. UNCHANGED <<filesize[a], written[a]>>
    BY <1>types, <1>2, <1>3, <1>4, <1>5
  <2>2. sound[a]
    BY <1>3, <1>4, <1>5, Zenon
  <2> QED BY <1>4, <2>1, <2>2, <1>own, Zenon
<1>6. CASE a = b
  <2>1. sound[a] /\ p <= filesize[a]
    BY <1>2, <1>3, <1>4, <1>6, Zenon
  <2>2. 0 .. filesize[a] - 1 \subseteq written[a]
    BY <2>1, <1>4, <1>2, <1>6, Zenon DEF OwnBytes
  <2>3. written'[a] = written[a] \cup (p .. p + count - 1)
    BY <1>types, <1>2, <1>3, <1>6
  <2>4. filesize[a] \in 0 .. BUFFER_SIZE
    BY <1>types, <1>2, <1>6
  <2>5. CASE UNCHANGED filesize
    BY <2>2, <2>3, <2>5
  <2>6. CASE filesize' = [filesize EXCEPT ![b] = p + count]
    <3>1. filesize'[a] = p + count
      BY <1>types, <1>2, <1>6, <2>6
    <3>2. 0 .. p + count - 1 \subseteq (0 .. filesize[a] - 1) \cup (p .. p + count - 1)
      <4> DEFINE e == filesize[a]
      <4>1. e \in Nat /\ p \in Nat /\ p <= e /\ count \in Nat
        BY <1>1, <2>1, <2>4, Constants
      <4> HIDE DEF e
      <4>2. 0 .. p + count - 1 \subseteq (0 .. e - 1) \cup (p .. p + count - 1)
        BY <4>1
      <4> QED BY <4>2 DEF e
    <3>3. (0 .. filesize[a] - 1) \cup (p .. p + count - 1) \subseteq written'[a]
      BY <2>2, <2>3, Zenon
    <3>4. 0 .. p + count - 1 \subseteq written'[a]
      BY <3>2, <3>3, Zenon
    <3>5. (0 .. filesize'[a] - 1) = (0 .. p + count - 1)
      BY <3>1, <1>1, Constants
    <3> QED BY <3>4, <3>5, Zenon
  <2> QED BY <1>3, <2>5, <2>6
<1> QED BY <1>5, <1>6

LEMMA BytesStep == TypeOK /\ OwnBytes /\ [Next]_vars => OwnBytes'
<1> SUFFICES ASSUME TypeOK, OwnBytes, [Next]_vars,
                    NEW b \in used' \ {Root}, sound'[b]
             PROVE  0 .. filesize'[b] - 1 \subseteq written'[b]
  BY Zenon DEF OwnBytes
<1>1. /\ used \subseteq Blocks /\ DOMAIN filesize = Blocks
      /\ \A d \in Blocks \ {Root} : filesize[d] \in 0 .. BUFFER_SIZE
      /\ written \in [Blocks -> SUBSET Offsets]
  BY Zenon DEF TypeOK
<1>2. ASSUME b \in used, sound[b], UNCHANGED <<filesize[b], written[b]>>
      PROVE  0 .. filesize'[b] - 1 \subseteq written'[b]
  BY <1>2, Zenon DEF OwnBytes
<1>3. CASE UNCHANGED <<used, filesize, written, sound>>
  BY <1>3, <1>2, Zenon
<1>4. ASSUME NEW n \in Names, Create(n)
      PROVE  0 .. filesize'[b] - 1 \subseteq written'[b]
  <2> DEFINE g == GetBlock
  <2>1. g \in Blocks \ {Root, None}
    BY <1>4, GetBlockFacts, Zenon DEF Create
  <2> HIDE DEF g
  <2>2. /\ used' = used \cup {g}
        /\ filesize' = [filesize EXCEPT ![g] = 0, ![Root] = Children + 1]
        /\ written' = [written EXCEPT ![g] = {}]
        /\ sound' = [sound EXCEPT ![g] = TRUE]
    BY <1>4, Zenon DEF Create, g
  <2>3. CASE b = g
    <3>1. filesize'[b] = 0
      BY <1>1, <2>1, <2>2, <2>3
    <3> QED BY <3>1
  <2>4. CASE b # g
    <3>1. b \in used
      BY <2>2, <2>4
    <3>2. UNCHANGED <<filesize[b], written[b]>>
      BY <3>1, <1>1, <2>2, <2>4
    <3>3. sound[b]
      <4>1. DOMAIN sound = Blocks
        BY Zenon DEF TypeOK
      <4>2. b \in Blocks
        BY <3>1, <1>1
      <4> QED BY <2>2, <2>4, <4>1, <4>2, Zenon
    <3> QED BY <3>1, <3>2, <3>3, <1>2, Zenon
  <2> QED BY <2>3, <2>4
<1>5. ASSUME NEW n \in Names, Unlink(n)
      PROVE  0 .. filesize'[b] - 1 \subseteq written'[b]
  <2>1. /\ used' = used \ {dcache[n]} /\ filesize' = [filesize EXCEPT ![Root] = @ - 1]
        /\ UNCHANGED ghost
    BY <1>5, Zenon DEF Unlink
  <2>2. b \in used /\ UNCHANGED filesize[b]
    BY <2>1, <1>1
  <2> QED BY <2>1, <2>2, <1>2, Zenon DEF ghost
<1>6. ASSUME NEW t \in Tasks, NEW c \in Calls, c.op = "write", DoWrite(t, c),
             file[t].pos < BUFFER_SIZE
      PROVE  0 .. filesize'[b] - 1 \subseteq written'[b]
  <2>1. OwnBytes'
    BY <1>6, BytesWrite
  <2> QED BY <2>1, Zenon DEF OwnBytes
<1>7. ASSUME NEW t \in Tasks, NEW c \in Calls, c.op = "write", DoWrite(t, c)
      PROVE  0 .. filesize'[b] - 1 \subseteq written'[b]
  <2>1. CASE file[t].pos < BUFFER_SIZE
    BY <1>6, <1>7, <2>1
  <2>2. CASE ~(file[t].pos < BUFFER_SIZE)
    BY <1>3, <1>7, <2>2, Zenon DEF DoWrite, table, ghost
  <2> QED BY <2>1, <2>2
<1>8. CASE \E n \in Names : Create(n) \/ Lookup(n) \/ Evict(n) \/ Unlink(n)
  BY <1>8, <1>3, <1>4, <1>5, Zenon DEF Lookup, Evict, table, ghost
<1>9. CASE \E t \in Tasks : Close(t) \/ \E n \in Names : Open(t, n)
  BY <1>9, <1>3, Zenon DEF Close, Open, table, ghost
<1>10. CASE \E t \in Tasks : Call(t)
  BY <1>10, <1>3, <1>7, CallCases, Zenon DEF DoRead, DoSeek, table, ghost
<1>11. CASE UNCHANGED vars
  BY <1>11, <1>3, Zenon DEF vars
<1> QED BY <1>8, <1>9, <1>10, <1>11, NextCases, Zenon

(* However files come and go in a block: what was not written since the    *)
(* file was created is not in it, unless a write started behind its end or *)
(* came through a file that had been unlinked.                             *)
THEOREM BytesSafety == Spec => []OwnBytes
<1>1. Init => OwnBytes
  BY DEF Init, OwnBytes
<1> QED BY <1>1, InitTypes, NextTypes, BytesStep, PTL DEF Spec

-----------------------------------------------------------------------------
(* Names, blocks and open files. *)

LEMMA CreateEntries ==
  ASSUME TypeOK, EntriesInv, NEW n \in Names, Create(n) PROVE EntriesInv'
<1>m. PICK m : m = Children
  OBVIOUS
<1>g. PICK g : g = GetBlock
  OBVIOUS
<1>1. g \in Blocks \ {Root, None} /\ g \notin used
  BY <1>g, GetBlockFacts, Zenon DEF Create
<1>2. /\ n \notin Listed /\ dcache[n] = None /\ m <= FIT
      /\ used' = used \cup {g}
      /\ filesize' = [filesize EXCEPT ![g] = 0, ![Root] = m + 1]
      /\ PutEntry(m + 1, n, g)
      /\ dcache' = [dcache EXCEPT ![n] = g]
      /\ home' = [home EXCEPT ![g] = n]
      /\ UNCHANGED file
  BY <1>m, <1>g, Zenon DEF Create
<1>3. /\ DOMAIN filesize = Blocks /\ m \in 0 .. FIT + 1
      /\ slot \in [1 .. FIT + 1 -> [name : Names \cup {NoName}, index : Bytes]]
      /\ buffer \in [Blocks -> [Offsets -> Bytes]]
      /\ dcache \in [Names -> Blocks] /\ home \in [Blocks -> Names \cup {NoName}]
      /\ used \subseteq Blocks
  BY <1>m, Zenon DEF TypeOK
<1>4. Children' = m + 1
  BY <1>1, <1>2, <1>3, Constants DEF Children
<1>5. m \in Int /\ 0 <= m /\ m + 1 \in 1 .. FIT + 1
  BY <1>2, <1>3, Constants
(* The new entry has the new block, the others keep theirs. *)
<1>6. slot'[m + 1].name = n /\ Index(m + 1)' = g
  <2>1. slot' = [slot EXCEPT ![m + 1] = [name |-> n, index |-> IF m + 1 <= FIT THEN g ELSE 0]]
    BY <1>2, Zenon DEF PutEntry
  <2>2. slot'[m + 1] = [name |-> n, index |-> IF m + 1 <= FIT THEN g ELSE 0]
    BY <2>1, <1>3, <1>5
  <2>3. CASE m + 1 <= FIT
    <3>1. Index(m + 1)' = slot'[m + 1].index
      BY <2>3, Zenon DEF Index
    <3> QED BY <2>2, <2>3, <3>1
  <2>4. CASE ~(m + 1 <= FIT)
    <3>1. Index(m + 1)' = buffer'[Root + 1][SPILL]
      BY <2>4, Zenon DEF Index
    <3>2. buffer' = [buffer EXCEPT ![Root + 1][SPILL] = g]
      BY <2>4, <1>2, Zenon DEF PutEntry
    <3>3. buffer'[Root + 1][SPILL] = g
      BY <3>2, <1>3, Constants
    <3> QED BY <2>2, <3>1, <3>3
  <2> QED BY <2>3, <2>4
<1>7. ASSUME NEW k \in 1 .. m PROVE slot'[k] = slot[k] /\ Index(k)' = Index(k)
  <2>1. k \in 1 .. FIT + 1 /\ k # m + 1 /\ k <= FIT
    BY <1>2, <1>5, Constants
  <2>2. slot'[k] = slot[k]
    BY <2>1, <1>2, <1>3 DEF PutEntry
  <2> QED BY <2>1, <2>2, Zenon DEF Index
<1>8. \A k \in 1 .. m + 1 : k \in 1 .. m \/ k = m + 1
  BY <1>5
<1>9. 1 .. m \subseteq 1 .. m + 1 /\ m + 1 \in 1 .. m + 1
  BY <1>5
<1>10. \A k \in 1 .. m : slot[k].name # n
  BY <1>2, <1>m, Zenon DEF Listed
<1>11. EntryInv'
  <2> SUFFICES ASSUME NEW k \in 1 .. m + 1
               PROVE  /\ slot'[k].name \in Names
                      /\ Index(k)' \in used' \ {Root}
                      /\ home'[Index(k)'] = slot'[k].name
    BY <1>4, Zenon DEF EntryInv
  <2>1. CASE k = m + 1
    BY <2>1, <1>1, <1>2, <1>3, <1>6
  <2>2. CASE k \in 1 .. m
    <3>1. slot[k].name \in Names /\ Index(k) \in used \ {Root} /\ home[Index(k)] = slot[k].name
      BY <2>2, <1>m, Zenon DEF EntriesInv, EntryInv
    <3>2. Index(k) # g
      BY <3>1, <1>1
    <3> QED BY <2>2, <3>1, <3>2, <1>2, <1>3, <1>7
  <2> QED BY <2>1, <2>2, <1>8
<1>12. UniqueInv'
  <2> SUFFICES ASSUME NEW j \in 1 .. m + 1, NEW k \in 1 .. m + 1, slot'[j].name = slot'[k].name
               PROVE  j = k
    BY <1>4, Zenon DEF UniqueInv
  <2>1. CASE j \in 1 .. m /\ k \in 1 .. m
    BY <2>1, <1>m, <1>7, Zenon DEF EntriesInv, UniqueInv
  <2>2. CASE j = m + 1 \/ k = m + 1
    BY <2>2, <1>6, <1>7, <1>8, <1>10, Zenon
  <2> QED BY <2>1, <2>2, <1>8, Zenon
<1>13. CacheInv'
  <2> SUFFICES ASSUME NEW q \in Names, dcache'[q] # None
               PROVE  \E k \in 1 .. m + 1 : slot'[k].name = q /\ Index(k)' = dcache'[q]
    BY <1>4, Zenon DEF CacheInv
  <2>1. CASE q = n
    BY <2>1, <1>2, <1>3, <1>6, <1>9
  <2>2. CASE q # n
    <3>1. dcache'[q] = dcache[q]
      BY <2>2, <1>2, <1>3
    <3>2. PICK k \in 1 .. m : slot[k].name = q /\ Index(k) = dcache[q]
      BY <3>1, <1>m, Zenon DEF EntriesInv, CacheInv
    <3> QED BY <3>1, <3>2, <1>7, <1>9, Zenon
  <2> QED BY <2>1, <2>2
<1>14. OpenInv'
  <2> SUFFICES ASSUME NEW t \in Tasks, file[t].linked
               PROVE  /\ file[t].name \in Names /\ file[t].blk # None
                      /\ dcache'[file[t].name] = file[t].blk
    BY <1>2, Zenon DEF OpenInv
  <2>1. /\ file[t].name \in Names /\ file[t].blk # None
        /\ dcache[file[t].name] = file[t].blk
    BY Zenon DEF EntriesInv, OpenInv
  <2> QED BY <2>1, <1>2, <1>3, Zenon
<1> QED BY <1>11, <1>12, <1>13, <1>14, Zenon DEF EntriesInv

(* Entries stay where they are when the table does.                        *)
LEMMA EntriesStay ==
  ASSUME UNCHANGED <<used, slot, home, Children>>,
         \A k \in 1 .. Children : Index(k)' = Index(k)
  PROVE  /\ EntryInv => EntryInv'
         /\ UniqueInv => UniqueInv'
         /\ UNCHANGED dcache => (CacheInv => CacheInv')
BY Zenon DEF EntryInv, UniqueInv, CacheInv

LEMMA NameEntries ==
  ASSUME TypeOK, EntriesInv, UNCHANGED <<table, ghost>>, CacheInv', OpenInv'
  PROVE  EntriesInv'
<1>1. UNCHANGED <<used, filesize, buffer, slot, home, Children>>
  BY Zenon DEF table, ghost, Children
<1>2. \A k \in 1 .. Children : Index(k)' = Index(k)
  BY <1>1, Zenon DEF Index
<1>3. EntryInv' /\ UniqueInv'
  BY <1>1, <1>2, EntriesStay, Zenon DEF EntriesInv
<1> QED BY <1>3, Zenon DEF EntriesInv

LEMMA LookupEntries ==
  ASSUME TypeOK, EntriesInv, NEW n \in Names, Lookup(n) \/ Evict(n) PROVE EntriesInv'
<1>1. UNCHANGED <<table, file, ghost>> /\ UNCHANGED Children
  BY Zenon DEF Lookup, Evict, table, Children
<1>2. UNCHANGED <<slot, buffer>>
  BY <1>1, Zenon DEF table
<1>3. \A k : Index(k)' = Index(k)
  BY <1>2, Zenon DEF Index
<1>4. dcache \in [Names -> Blocks]
  BY Zenon DEF TypeOK
<1>5. \A q \in Names : q # n => dcache'[q] = dcache[q]
  BY <1>4, Zenon DEF Lookup, Evict
<1>6. ASSUME dcache'[n] # None
      PROVE  \E k \in 1 .. Children : slot[k].name = n /\ Index(k) = dcache'[n]
  <2>1. Lookup(n)
    BY <1>4, <1>6, Zenon DEF Evict
  <2>2. dcache'[n] = Index(Place(n)) /\ n \in Listed
    BY <2>1, <1>4, Zenon DEF Lookup
  <2> QED BY <2>2, PlaceFacts, Zenon
<1>7. CacheInv'
  <2> SUFFICES ASSUME NEW q \in Names, dcache'[q] # None
               PROVE  \E k \in 1 .. Children : slot[k].name = q /\ Index(k) = dcache'[q]
    BY <1>1, <1>2, <1>3, Zenon DEF CacheInv
  <2>1. CASE q = n
    BY <2>1, <1>6
  <2>2. CASE q # n
    BY <2>2, <1>5, Zenon DEF EntriesInv, CacheInv
  <2> QED BY <2>1, <2>2
<1>8. OpenInv'
  <2> SUFFICES ASSUME NEW t \in Tasks, file[t].linked
               PROVE  /\ file[t].name \in Names /\ file[t].blk # None
                      /\ dcache'[file[t].name] = file[t].blk
    BY <1>1, Zenon DEF OpenInv
  <2>1. /\ file[t].name \in Names /\ file[t].blk # None
        /\ dcache[file[t].name] = file[t].blk
    BY Zenon DEF EntriesInv, OpenInv
  <2>2. file[t].name # n
    BY <2>1, Zenon DEF Lookup, Evict, OpenAs
  <2> QED BY <2>1, <2>2, <1>5, Zenon
<1> QED BY <1>1, <1>7, <1>8, NameEntries, Zenon

LEMMA OpenEntries ==
  ASSUME TypeOK, EntriesInv, NEW t \in Tasks, Close(t) \/ \E n \in Names : Open(t, n)
  PROVE  EntriesInv'
<1>1. UNCHANGED <<table, dcache, ghost>>
  BY Zenon DEF Open, Close
<1>2. UNCHANGED <<slot, buffer, Children>>
  BY <1>1, Zenon DEF table, Children
<1>3. CacheInv'
  <2>1. \A k : Index(k)' = Index(k)
    BY <1>2, Zenon DEF Index
  <2> QED BY <1>1, <1>2, <2>1, Zenon DEF EntriesInv, CacheInv
<1>4. DOMAIN file = Tasks /\ dcache \in [Names -> Blocks]
  BY Zenon DEF TypeOK
<1>5. \A u \in Tasks : u # t => file'[u] = file[u]
  BY <1>4, Zenon DEF Open, Close
<1>6. ASSUME file'[t].linked
      PROVE  /\ file'[t].name \in Names /\ file'[t].blk # None
             /\ dcache[file'[t].name] = file'[t].blk
  <2>1. CASE Close(t)
    <3>1. file'[t] = Closed
      BY <2>1, <1>4, Zenon DEF Close
    <3>2. ~Closed.linked
      BY Zenon DEF Closed
    <3> QED BY <1>6, <3>1, <3>2, Zenon
  <2>2. ASSUME NEW n \in Names, Open(t, n)
        PROVE  /\ file'[t].name \in Names /\ file'[t].blk # None
               /\ dcache[file'[t].name] = file'[t].blk
    <3>1. file'[t] = [name |-> n, blk |-> dcache[n], pos |-> 0, linked |-> TRUE]
      BY <2>2, <1>4, Zenon DEF Open
    <3>2. file'[t].name = n /\ file'[t].blk = dcache[n]
      BY <3>1
    <3>3. dcache[n] # None
      BY <2>2, <1>4, Constants DEF Open
    <3> QED BY <3>2, <3>3
  <2> QED BY <2>1, <2>2, Zenon
<1>7. OpenInv'
  <2> SUFFICES ASSUME NEW u \in Tasks, file'[u].linked
               PROVE  /\ file'[u].name \in Names /\ file'[u].blk # None
                      /\ dcache[file'[u].name] = file'[u].blk
    BY <1>1, Zenon DEF OpenInv
  <2>1. CASE u = t
    BY <2>1, <1>6
  <2>2. CASE u # t
    BY <2>2, <1>5, Zenon DEF EntriesInv, OpenInv
  <2> QED BY <2>1, <2>2
<1> QED BY <1>1, <1>3, <1>7, NameEntries, Zenon

(* Where entry k comes from when entry i has been taken out.               *)
From(i, k) == IF k < i THEN k ELSE k + 1

LEMMA FromFacts ==
  ASSUME NEW m \in Int, NEW i \in 1 .. m
  PROVE  /\ \A k \in 1 .. m - 1 : From(i, k) \in 1 .. m /\ From(i, k) # i
         /\ \A j, k \in 1 .. m - 1 : From(i, j) = From(i, k) => j = k
         /\ \A k \in 1 .. m : k # i => \E l \in 1 .. m - 1 : From(i, l) = k
<1>1. \A k \in 1 .. m - 1 : From(i, k) \in 1 .. m /\ From(i, k) # i
  BY DEF From
<1>2. \A j, k \in 1 .. m - 1 : From(i, j) = From(i, k) => j = k
  BY DEF From
<1>3. ASSUME NEW k \in 1 .. m, k # i PROVE \E l \in 1 .. m - 1 : From(i, l) = k
  <2>1. CASE k < i
    <3>1. k \in 1 .. m - 1 /\ From(i, k) = k
      BY <2>1 DEF From
    <3> QED BY <3>1
  <2>2. CASE ~(k < i)
    <3>1. k - 1 \in 1 .. m - 1 /\ From(i, k - 1) = k
      BY <2>2, <1>3 DEF From
    <3> QED BY <3>1
  <2> QED BY <2>1, <2>2
<1> QED BY <1>1, <1>2, <1>3

LEMMA UnlinkEntries ==
  ASSUME TypeOK, EntriesInv, NEW n \in Names, Unlink(n) PROVE EntriesInv'
<1>m. PICK m : m = Children
  OBVIOUS
<1>i. PICK i : i = Place(n)
  OBVIOUS
<1>1. /\ slot' = [k \in DOMAIN slot |->
                    IF k \in i .. m - 1
                    THEN [name |-> slot[k + 1].name, index |-> Index(k + 1)]
                    ELSE slot[k]]
      /\ filesize' = [filesize EXCEPT ![Root] = @ - 1]
      /\ used' = used \ {dcache[n]} /\ dcache[n] > Root
      /\ dcache' = [dcache EXCEPT ![n] = None]
      /\ file' = [t \in Tasks |-> IF t \in OpenAs(n) THEN [file[t] EXCEPT !.linked = FALSE]
                                                      ELSE file[t]]
      /\ UNCHANGED <<buffer, home>>
  BY <1>m, <1>i, Zenon DEF Unlink, ghost
<1>2. /\ DOMAIN filesize = Blocks /\ m \in 0 .. FIT + 1
      /\ slot \in [1 .. FIT + 1 -> [name : Names \cup {NoName}, index : Bytes]]
      /\ dcache \in [Names -> Blocks] /\ dcache[n] \in Blocks
  BY <1>m, Zenon DEF TypeOK
<1>3. Children' = m - 1
  BY <1>m, <1>1, <1>2, Constants DEF Children
<1>4. i \in 1 .. m /\ slot[i].name = n
  BY <1>m, <1>i, PlaceFacts, Zenon DEF Unlink
<1>5. m \in Int /\ m <= FIT + 1 /\ FIT \in Int
  BY <1>2, Constants
<1>6. dcache[n] # None
  BY <1>1, <1>2, Constants
<1>7. \A k \in 1 .. m : slot[k].name = n => k = i
  BY <1>m, <1>4, Zenon DEF EntriesInv, UniqueInv
<1>8. Index(i) = dcache[n] /\ home[dcache[n]] = n
  <2>1. PICK k \in 1 .. m : slot[k].name = n /\ Index(k) = dcache[n]
    BY <1>m, <1>6, Zenon DEF EntriesInv, CacheInv
  <2>2. Index(i) = dcache[n]
    BY <2>1, <1>7
  <2> QED BY <2>2, <1>m, <1>4, Zenon DEF EntriesInv, EntryInv
<1>9. ASSUME NEW k \in 1 .. m - 1
      PROVE  slot'[k].name = slot[From(i, k)].name /\ Index(k)' = Index(From(i, k))
  <2>1. k \in 1 .. FIT + 1 /\ k <= FIT /\ k \in Int /\ i \in Int
    BY <1>4, <1>5
  <2>2. Index(k)' = slot'[k].index
    BY <2>1, Zenon DEF Index
  <2>3. CASE k < i
    <3>1. k \notin i .. m - 1 /\ From(i, k) = k
      BY <2>1, <2>3 DEF From
    <3>2. slot'[k] = slot[k]
      BY <3>1, <2>1, <1>1, <1>2
    <3>3. Index(k) = slot[k].index
      BY <2>1, Zenon DEF Index
    <3> QED BY <3>1, <3>2, <3>3, <2>2
  <2>4. CASE ~(k < i)
    <3>1. k \in i .. m - 1 /\ From(i, k) = k + 1
      BY <2>1, <2>4, <1>5 DEF From
    <3>2. slot'[k] = [name |-> slot[k + 1].name, index |-> Index(k + 1)]
      BY <3>1, <2>1, <1>1, <1>2
    <3>3. slot'[k].name = slot[k + 1].name /\ slot'[k].index = Index(k + 1)
      BY <3>2
    <3> QED BY <3>1, <3>3, <2>2, Zenon
  <2> QED BY <2>3, <2>4
<1>10. /\ \A k \in 1 .. m - 1 : From(i, k) \in 1 .. m /\ From(i, k) # i
       /\ \A j, k \in 1 .. m - 1 : From(i, j) = From(i, k) => j = k
       /\ \A k \in 1 .. m : k # i => \E l \in 1 .. m - 1 : From(i, l) = k
  BY <1>4, <1>5, FromFacts
<1>11. EntryInv'
  <2> SUFFICES ASSUME NEW k \in 1 .. m - 1
               PROVE  /\ slot'[k].name \in Names
                      /\ Index(k)' \in used' \ {Root}
                      /\ home'[Index(k)'] = slot'[k].name
    BY <1>3, Zenon DEF EntryInv
  <2>1. PICK j \in 1 .. m : j = From(i, k) /\ j # i
    BY <1>10
  <2>2. slot[j].name \in Names /\ Index(j) \in used \ {Root} /\ home[Index(j)] = slot[j].name
    BY <1>m, Zenon DEF EntriesInv, EntryInv
  <2>3. Index(j) # dcache[n]
    BY <2>1, <2>2, <1>7, <1>8
  <2>4. slot'[k].name = slot[j].name /\ Index(k)' = Index(j)
    BY <2>1, <1>9, Zenon
  <2> QED BY <2>2, <2>3, <2>4, <1>1
<1>12. UniqueInv'
  <2> SUFFICES ASSUME NEW j \in 1 .. m - 1, NEW k \in 1 .. m - 1, slot'[j].name = slot'[k].name
               PROVE  j = k
    BY <1>3, Zenon DEF UniqueInv
  <2>1. slot[From(i, j)].name = slot[From(i, k)].name
    BY <1>9
  <2>2. From(i, j) = From(i, k)
    BY <2>1, <1>m, <1>10, Zenon DEF EntriesInv, UniqueInv
  <2> QED BY <2>2, <1>10
<1>13. CacheInv'
  <2> SUFFICES ASSUME NEW q \in Names, dcache'[q] # None
               PROVE  \E k \in 1 .. m - 1 : slot'[k].name = q /\ Index(k)' = dcache'[q]
    BY <1>3, Zenon DEF CacheInv
  <2>1. q # n /\ dcache'[q] = dcache[q]
    BY <1>1, <1>2
  <2>2. PICK k \in 1 .. m : slot[k].name = q /\ Index(k) = dcache[q]
    BY <2>1, <1>m, Zenon DEF EntriesInv, CacheInv
  <2>3. k # i
    BY <2>1, <2>2, <1>4
  <2>4. PICK l \in 1 .. m - 1 : From(i, l) = k
    BY <2>3, <1>10
  <2> QED BY <2>1, <2>2, <2>4, <1>9, Zenon
<1>14. OpenInv'
  <2> SUFFICES ASSUME NEW t \in Tasks, file'[t].linked
               PROVE  /\ file'[t].name \in Names /\ file'[t].blk # None
                      /\ dcache'[file'[t].name] = file'[t].blk
    BY Zenon DEF OpenInv
  <2>1. file[t] \in [name : Names \cup {NoName}, blk : Blocks \ {Root},
                     pos : 0 .. 2 * BUFFER_SIZE - 1, linked : BOOLEAN]
    BY DEF TypeOK
  <2>2. t \notin OpenAs(n)
    <3>1. SUFFICES ASSUME t \in OpenAs(n) PROVE FALSE
      BY Zenon
    <3>2. file'[t] = [file[t] EXCEPT !.linked = FALSE]
      BY <3>1, <1>1, Zenon
    <3>3. "linked" \in DOMAIN file[t]
      BY <2>1
    <3>4. file'[t].linked = FALSE
      BY <3>2, <3>3, Zenon
    <3> QED BY <3>4, Zenon
  <2>3. file'[t] = file[t]
    BY <2>2, <1>1, Zenon
  <2>4. file[t].linked
    BY <2>3, Zenon
  <2>5. /\ file[t].name \in Names /\ file[t].blk # None
        /\ dcache[file[t].name] = file[t].blk
    BY <2>4, Zenon DEF EntriesInv, OpenInv
  <2>6. file[t].name # n
    BY <2>2, <2>4, Zenon DEF OpenAs
  <2>7. dcache'[file[t].name] = dcache[file[t].name]
    BY <2>5, <2>6, <1>1, <1>2, Zenon
  <2> QED BY <2>3, <2>5, <2>7, Zenon
<1> QED BY <1>11, <1>12, <1>13, <1>14, Zenon DEF EntriesInv

(* A call leaves the name and the block of its file alone.                 *)
LEMMA MovedOpen ==
  ASSUME TypeOK, OpenInv, NEW t \in Tasks, NEW p, UNCHANGED dcache,
         file' = file \/ file' = [file EXCEPT ![t].pos = p]
  PROVE  OpenInv'
<1> SUFFICES ASSUME NEW u \in Tasks, file'[u].linked
             PROVE  /\ file'[u].name \in Names /\ file'[u].blk # None
                    /\ dcache[file'[u].name] = file'[u].blk
  BY Zenon DEF OpenInv
<1>1. file \in [Tasks -> [name : Names \cup {NoName}, blk : Blocks \ {Root},
                          pos : 0 .. 2 * BUFFER_SIZE - 1, linked : BOOLEAN]]
  BY Zenon DEF TypeOK
<1>2. file'[u] = file[u] \/ file'[u] = [file[u] EXCEPT !.pos = p]
  BY <1>1, Zenon
<1>3. file[u] \in [name : Names \cup {NoName}, blk : Blocks \ {Root},
                   pos : 0 .. 2 * BUFFER_SIZE - 1, linked : BOOLEAN]
  BY <1>1
<1>4. file'[u].name = file[u].name /\ file'[u].blk = file[u].blk
  BY <1>2, <1>3
<1>5. file'[u].linked = file[u].linked
  BY <1>2, <1>3, Zenon
<1> QED BY <1>4, <1>5, Zenon DEF OpenInv

LEMMA MoveEntries ==
  ASSUME TypeOK, EntriesInv, NEW t \in Tasks, NEW c \in Calls, DoRead(t, c) \/ DoSeek(t, c)
  PROVE  EntriesInv'
<1>1. UNCHANGED <<table, dcache, ghost>>
  BY Zenon DEF DoRead, DoSeek
<1>2. UNCHANGED <<slot, buffer, Children>>
  BY <1>1, Zenon DEF table, Children
<1>3. CacheInv'
  <2>1. \A k : Index(k)' = Index(k)
    BY <1>2, Zenon DEF Index
  <2> QED BY <1>1, <1>2, <2>1, Zenon DEF EntriesInv, CacheInv
<1>4. file' = file \/ \E p : file' = [file EXCEPT ![t].pos = p]
  BY Zenon DEF DoRead, DoSeek
<1>5. OpenInv'
  BY <1>1, <1>4, MovedOpen, Zenon DEF EntriesInv
<1> QED BY <1>1, <1>3, <1>5, NameEntries, Zenon

LEMMA WriteEntries ==
  ASSUME TypeOK, EntriesInv, NEW t \in Tasks, NEW c \in Calls, c.op = "write", DoWrite(t, c), ~wild'
  PROVE  EntriesInv'
<1> DEFINE b == file[t].blk
           p == file[t].pos
           count == Least(Len(c.buf), BUFFER_SIZE - p)
<1>1. CASE ~(p < BUFFER_SIZE)
  <2>1. UNCHANGED <<table, file, ghost, dcache>>
    BY <1>1, Zenon DEF DoWrite
  <2>2. UNCHANGED <<slot, buffer, Children>>
    BY <2>1, Zenon DEF table, Children
  <2>3. \A k : Index(k)' = Index(k)
    BY <2>2, Zenon DEF Index
  <2>4. CacheInv' /\ OpenInv'
    BY <2>1, <2>2, <2>3, Zenon DEF EntriesInv, CacheInv, OpenInv
  <2> QED BY <2>1, <2>4, NameEntries, Zenon
<1>2. CASE p < BUFFER_SIZE
  <2>1. /\ buffer' = [buffer EXCEPT ![b] =
              [i \in Offsets |->
                 IF i \notin p .. p + count - 1 THEN buffer[b][i]
                 ELSE IF i - p < c.ok THEN c.buf[i - p + 1] ELSE 0]]
        /\ \/ UNCHANGED <<filesize, file>>
           \/ /\ filesize' = [filesize EXCEPT ![b] = p + count]
              /\ file' = [file EXCEPT ![t].pos = p + count]
        /\ written' = [written EXCEPT ![b] = @ \cup (p .. p + count - 1)]
        /\ sound' = [sound EXCEPT ![b] = @ /\ p <= filesize[b] /\ file[t].linked]
        /\ wild' = (wild \/ (Children > FIT /\ b = Root + 1 /\ SPILL \in p .. p + count - 1))
        /\ UNCHANGED <<used, slot, usedBlks, home, dcache, lock>>
    BY <1>2, WriteStep, Zenon
  <2>2. b \in Blocks \ {Root} /\ DOMAIN filesize = Blocks /\ Children \in 0 .. FIT + 1
    BY DEF TypeOK
  <2>3. buffer \in [Blocks -> [Offsets -> Bytes]]
    BY Zenon DEF TypeOK
  <2> HIDE DEF b, p, count
  <2>4. UNCHANGED Children
    BY <2>1, <2>2, Constants DEF Children
  <2>5. ASSUME NEW k \in 1 .. Children PROVE Index(k)' = Index(k)
    <3>1. CASE k <= FIT
      BY <3>1, <2>1, Zenon DEF Index
    <3>2. CASE ~(k <= FIT)
      <4>1. Children > FIT
        BY <3>2, <2>2, Constants
      <4>2. b # Root + 1 \/ SPILL \notin p .. p + count - 1
        BY <4>1, <2>1, Zenon
      <4>3. buffer'[Root + 1][SPILL] = buffer[Root + 1][SPILL]
        <5>1. CASE b # Root + 1
          BY <5>1, <2>1, <2>3, Constants, Zenon
        <5>2. CASE b = Root + 1
          <6>1. buffer'[Root + 1] = [i \in Offsets |->
                   IF i \notin p .. p + count - 1 THEN buffer[b][i]
                   ELSE IF i - p < c.ok THEN c.buf[i - p + 1] ELSE 0]
            BY <5>2, <2>1, <2>3, Constants, Zenon
          <6>2. SPILL \in Offsets /\ SPILL \notin p .. p + count - 1
            BY <4>2, <5>2, Constants, Zenon
          <6> QED BY <6>1, <6>2, <5>2, Zenon
        <5> QED BY <5>1, <5>2
      <4> QED BY <3>2, <4>3, Zenon DEF Index
    <3> QED BY <3>1, <3>2
  <2>6. EntryInv' /\ UniqueInv' /\ CacheInv'
    BY <2>1, <2>4, <2>5, EntriesStay, Zenon DEF EntriesInv
  <2>7. OpenInv'
    BY <2>1, MovedOpen, Zenon DEF EntriesInv
  <2> QED BY <2>6, <2>7, Zenon DEF EntriesInv
<1> QED BY <1>1, <1>2

(* Data that has overwritten an index has done so for good.                *)
LEMMA NextInv == Inv /\ [Next]_vars => Inv'
<1> SUFFICES ASSUME TypeOK, wild \/ EntriesInv, [Next]_vars, ~wild' PROVE EntriesInv'
  BY NextTypes, Zenon DEF Inv
<1>1. wild \in BOOLEAN /\ (wild => wild')
  <2>1. CASE UNCHANGED wild
    BY <2>1, Zenon DEF TypeOK
  <2>2. CASE ~UNCHANGED wild
    <3>1. PICK t \in Tasks, c \in Calls : DoWrite(t, c)
      BY <2>2, NextCases, CallCases, Zenon
           DEF vars, ghost, Create, Lookup, Evict, Unlink, Open, Close, DoRead, DoSeek
    <3> QED BY <2>2, <3>1, Zenon DEF DoWrite, ghost, TypeOK
  <2> QED BY <2>1, <2>2, Zenon
<1>2. EntriesInv
  BY <1>1, Zenon
<1>3. CASE UNCHANGED vars
  <2>1. UNCHANGED <<used, filesize, buffer, slot, dcache, file, home, Children>>
    BY <1>3, Zenon DEF vars, Children
  <2>2. \A k : Index(k)' = Index(k)
    BY <2>1, Zenon DEF Index
  <2>3. EntryInv' /\ UniqueInv' /\ CacheInv'
    BY <1>2, <2>1, <2>2, EntriesStay, Zenon DEF EntriesInv
  <2>4. OpenInv'
    BY <1>2, <2>1, Zenon DEF EntriesInv, OpenInv
  <2> QED BY <2>3, <2>4, Zenon DEF EntriesInv
<1>4. CASE \E n \in Names : Create(n) \/ Lookup(n) \/ Evict(n) \/ Unlink(n)
  BY <1>2, <1>4, CreateEntries, LookupEntries, UnlinkEntries, Zenon
<1>5. CASE \E t \in Tasks : Close(t) \/ \E n \in Names : Open(t, n)
  BY <1>2, <1>5, OpenEntries, Zenon
<1>6. CASE \E t \in Tasks : Call(t)
  BY <1>2, <1>6, CallCases, MoveEntries, WriteEntries, Zenon
<1> QED BY <1>3, <1>4, <1>5, <1>6, NextCases, Zenon

LEMMA InitInv == Init => Inv
<1> SUFFICES ASSUME Init PROVE EntriesInv
  BY InitTypes, Zenon DEF Inv
<1>1. Children = 0
  BY Constants DEF Init, Children
<1>2. 1 .. Children = {}
  BY <1>1
<1>3. EntryInv /\ UniqueInv
  BY <1>2, Zenon DEF EntryInv, UniqueInv
<1>4. CacheInv
  BY Zenon DEF Init, CacheInv
<1>5. OpenInv
  BY DEF Init, OpenInv, Closed
<1> QED BY <1>3, <1>4, <1>5, Zenon DEF EntriesInv

(* The types, and until data has overwritten an index: entries, blocks,    *)
(* cached names and open files fit each other.                             *)
THEOREM Invariance == Spec => []Inv
BY InitInv, NextInv, PTL DEF Spec

-----------------------------------------------------------------------------
(* Files are apart. *)

LEMMA CreateApart ==
  ASSUME TypeOK, NEW n \in Names, Create(n), NEW b \in used \ {Root}
  PROVE  \/ UNCHANGED <<buffer[b], filesize[b]>>
         \/ b = Root + 1 /\ Children' > FIT /\ Children' > Children
<1>g. PICK g : g = GetBlock
  OBVIOUS
<1>1. g \in Blocks \ {Root, None} /\ g \notin used
  BY <1>g, GetBlockFacts, Zenon DEF Create
<1>2. /\ filesize' = [filesize EXCEPT ![g] = 0, ![Root] = Children + 1]
      /\ PutEntry(Children + 1, n, g)
  BY <1>g, Zenon DEF Create
<1>3. DOMAIN filesize = Blocks /\ Children \in 0 .. FIT + 1 /\ b \in Blocks
  BY DEF TypeOK
<1>4. filesize'[b] = filesize[b] /\ Children' = Children + 1
  BY <1>1, <1>2, <1>3, Constants DEF Children
<1>5. CASE Children + 1 <= FIT \/ b # Root + 1
  <2>1. DOMAIN buffer = Blocks
    BY Zenon DEF TypeOK
  <2>2. buffer'[b] = buffer[b]
    BY <1>2, <1>3, <1>5, <2>1, Zenon DEF PutEntry
  <2> QED BY <1>4, <2>2
<1>6. CASE ~(Children + 1 <= FIT) /\ b = Root + 1
  BY <1>3, <1>4, <1>6, Constants
<1> QED BY <1>5, <1>6

LEMMA UnlinkApart ==
  ASSUME TypeOK, NEW n \in Names, Unlink(n), NEW b \in used \ {Root}
  PROVE  UNCHANGED <<buffer[b], filesize[b]>>
<1>1. filesize' = [filesize EXCEPT ![Root] = @ - 1] /\ UNCHANGED buffer
  BY Zenon DEF Unlink
<1>2. DOMAIN filesize = Blocks /\ b \in Blocks
  BY DEF TypeOK
<1> QED BY <1>1, <1>2, Zenon

(* A call through a file that has a name goes to the block given out for   *)
(* that name.                                                              *)
LEMMA WriteApart ==
  ASSUME Inv, NEW t \in Tasks, NEW c \in Calls, DoWrite(t, c), NEW b \in used \ {Root}
  PROVE  \/ UNCHANGED <<buffer[b], filesize[b]>>
         \/ file[t].blk = b /\ file[t].name = home[b]
         \/ file[t].blk = b /\ ~file[t].linked
         \/ wild
<1>1. CASE file[t].blk # b
  <2>1. DOMAIN filesize = Blocks /\ DOMAIN buffer = Blocks /\ b \in Blocks
    BY DEF Inv, TypeOK
  <2> QED BY <1>1, <2>1, Zenon DEF DoWrite, table
<1>2. CASE file[t].blk = b /\ file[t].linked /\ ~wild
  <2>1. EntriesInv
    BY <1>2, Zenon DEF Inv
  <2>2. file[t].name \in Names /\ b # None /\ dcache[file[t].name] = b
    BY <1>2, <2>1, Zenon DEF EntriesInv, OpenInv
  <2>3. PICK k \in 1 .. Children : slot[k].name = file[t].name /\ Index(k) = b
    BY <2>1, <2>2, Zenon DEF EntriesInv, CacheInv
  <2>4. home[b] = file[t].name
    BY <2>1, <2>3, Zenon DEF EntriesInv, EntryInv
  <2> QED BY <1>2, <2>4
<1> QED BY <1>1, <1>2, Zenon

LEMMA ApartStep ==
  ASSUME Inv, [Next]_vars, NEW b \in (used \cap used') \ {Root}
  PROVE  \/ UNCHANGED <<buffer[b], filesize[b]>>
         \/ \E t \in Tasks : file[t].blk = b /\ file[t].name = home[b] /\ Call(t)
         \/ \E t \in Tasks : file[t].blk = b /\ ~file[t].linked
         \/ b = Root + 1 /\ Children' > FIT /\ Children' > Children
         \/ wild
<1>1. TypeOK /\ b \in used \ {Root}
  BY DEF Inv
<1>2. CASE UNCHANGED <<buffer, filesize>>
  BY <1>2, Zenon
<1>3. CASE UNCHANGED vars
  BY <1>2, <1>3, Zenon DEF vars
<1>4. CASE \E n \in Names : Create(n) \/ Lookup(n) \/ Evict(n) \/ Unlink(n)
  <2>1. PICK n \in Names : Create(n) \/ Lookup(n) \/ Evict(n) \/ Unlink(n)
    BY <1>4
  <2>2. CASE Create(n)
    BY <1>1, <2>2, CreateApart, Zenon
  <2>3. CASE Unlink(n)
    BY <1>1, <2>3, UnlinkApart, Zenon
  <2>4. CASE Lookup(n) \/ Evict(n)
    BY <1>2, <2>4, Zenon DEF Lookup, Evict, table
  <2> QED BY <2>1, <2>2, <2>3, <2>4, Zenon
<1>5. CASE \E t \in Tasks : Close(t) \/ \E n \in Names : Open(t, n)
  BY <1>2, <1>5, Zenon DEF Close, Open, table
<1>6. CASE \E t \in Tasks : Call(t)
  <2>1. PICK t \in Tasks : Call(t)
    BY <1>6
  <2>2. PICK c \in Calls : DoRead(t, c) \/ DoWrite(t, c) \/ DoSeek(t, c)
    BY <2>1, CallCases, Zenon
  <2>3. CASE DoRead(t, c) \/ DoSeek(t, c)
    BY <1>2, <2>3, Zenon DEF DoRead, DoSeek, table
  <2>4. CASE DoWrite(t, c)
    BY <1>1, <2>1, <2>4, WriteApart, Zenon
  <2> QED BY <2>2, <2>3, <2>4, Zenon
<1> QED BY <1>3, <1>4, <1>5, <1>6, NextCases, Zenon

(* In every history of creates, unlinks, lookups, evictions and calls, a   *)
(* file that is in the table is changed by calls through its own name      *)
(* only, but for the cases that FilesApart names.                          *)
THEOREM FilesSafety == Spec => FilesApart
<1> DEFINE Kept == \A b \in (used \cap used') \ {Root} :
        \/ UNCHANGED <<buffer[b], filesize[b]>>
        \/ \E t \in Tasks : file[t].blk = b /\ file[t].name = home[b] /\ Call(t)
        \/ \E t \in Tasks : file[t].blk = b /\ ~file[t].linked
        \/ b = Root + 1 /\ Children' > FIT /\ Children' > Children
        \/ wild
<1>1. Inv /\ [Next]_vars => [Kept]_vars
  BY ApartStep, Zenon
<1> HIDE DEF Kept
<1>2. Spec => [][Kept]_vars
  BY <1>1, Invariance, PTL DEF Spec
<1> QED BY <1>2, Zenon DEF FilesApart, Kept
=============================================================================
