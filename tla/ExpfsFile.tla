------------------------------ MODULE ExpfsFile ------------------------------
(***************************************************************************)
(* The contents of the files of src/expfs/expfs.c: read, write and llseek  *)
(* on open files, and the blocks behind them as files come and go in the   *)
(* root directory (module Expfs has the whole name space).  Block i's      *)
(* memory is followed by block i + 1's, and a directory's entries lie in   *)
(* its buffer: FIT of them fit, and the index of the next one is an int in *)
(* the buffer of the block behind, here its byte SPILL.  Its name stays    *)
(* inside as long as it is shorter than 32 characters, as all are here.    *)
(*                                                                         *)
(* A call runs in one step: create, unlink, read and write hold            *)
(* expfs_lock, the VFS keeps lookup out of a directory that is changed,    *)
(* and an open file has one task.  A return without spin_unlock leaves the *)
(* lock taken, and every later call that needs it spins.                   *)
(***************************************************************************)
EXTENDS Integers, FiniteSets, SequencesExt

CONSTANTS Tasks,         (* processes, with one file descriptor each       *)
          Names, NoName,
          MAX_FILE, BUFFER_SIZE,
          FIT,           (* entries that fit into a buffer: 4              *)
          SPILL,         (* where the index of the next one lies           *)
          Bytes,         (* the values of a byte, an index among them      *)
          Calls          (* the calls the tasks issue                      *)

Root   == 1
Blocks == 0 .. MAX_FILE - 1
None   == 0
Offsets == 0 .. BUFFER_SIZE - 1

(* ok: how many bytes of the user's buffer are accessible.                 *)
Read(n, ok)  == [op |-> "read", size |-> n, ok |-> ok]
Write(s, ok) == [op |-> "write", buf |-> s, ok |-> ok]
Seek(o, off) == [op |-> "seek", orig |-> o, off |-> off]

RequestSet == [op : {"read"}, size : Nat, ok : Nat]
                \cup [op : {"write"}, buf : Seq(Bytes), ok : Nat]
                \cup [op : {"seek"}, orig : {"set", "cur"}, off : Int]

ASSUME TableAssumption  == MAX_FILE \in Nat /\ MAX_FILE > 2 /\ Blocks \subseteq Bytes
ASSUME BufferAssumption == BUFFER_SIZE \in Nat /\ FIT \in Nat \ {0} /\ SPILL \in Offsets
ASSUME NameAssumption   == NoName \notin Names
ASSUME CallsAssumption  == Calls \subseteq RequestSet

VARIABLES
  used,      (* the blocks with blks[i].used                               *)
  filesize,  (* and, for the root, dir_children                            *)
  buffer,
  slot,      (* the root's entries: names, and the indexes of the first FIT *)
  usedBlks,
  lock,      (* expfs_lock is taken for good                               *)
  dcache,    (* VFS: the block behind a cached name, None if not cached    *)
  file,      (* a task's open file: name, inode's block, f_pos, linked     *)
  home,      (* the name a block was last given out for: it is a regular   *)
             (* file's from then on                                        *)
  written,   (* the bytes of a block written since its file was created    *)
  sound,     (* no write to it started past the end, or after its unlink   *)
  wild       (* a file's write has changed the index of the entry that     *)
             (* does not fit                                               *)

table == <<used, filesize, buffer, slot, usedBlks>>
ghost == <<home, written, sound, wild>>
vars  == <<used, filesize, buffer, slot, usedBlks, lock, dcache, file,
           home, written, sound, wild>>

Closed == [name |-> NoName, blk |-> None, pos |-> 0, linked |-> FALSE]

Init == /\ used = {Root}
        /\ filesize = [b \in Blocks |-> 0]
        /\ buffer = [b \in Blocks |-> [i \in Offsets |-> 0]]
        /\ slot = [k \in 1 .. FIT + 1 |-> [name |-> NoName, index |-> 0]]
        /\ usedBlks = 1 /\ lock = FALSE
        /\ dcache = [n \in Names |-> None]
        /\ file = [t \in Tasks |-> Closed]
        /\ written = [b \in Blocks |-> {}]
        /\ sound = [b \in Blocks |-> TRUE]
        /\ home = [b \in Blocks |-> NoName] /\ wild = FALSE

Least(m, n) == IF m <= n THEN m ELSE n

IsOpen(t) == file[t] # Closed

OpenAs(n) == {t \in Tasks : file[t].name = n /\ file[t].linked}

-----------------------------------------------------------------------------
(* The root directory. *)

Children == filesize[Root]

Listed == {slot[k].name : k \in 1 .. Children}

(* entry[k].index.                                                         *)
Index(k) == IF k <= FIT THEN slot[k].index ELSE buffer[Root + 1][SPILL]

Place(n) == CHOOSE k \in 1 .. Children : slot[k].name = n

(* Mutant: the scan does not look at used. *)
FreeBlocksAny == 2 .. MAX_FILE - 1

FreeBlocks == (2 .. MAX_FILE - 1) \ used
GetBlock   == CHOOSE b \in FreeBlocks : \A c \in FreeBlocks : b <= c

(* Entry k of the root becomes <<n, i>>; sizes and used are the rest of    *)
(* the call's.                                                             *)
PutEntry(k, n, i) ==
  /\ slot' = [slot EXCEPT ![k] = [name |-> n, index |-> IF k <= FIT THEN i ELSE 0]]
  /\ buffer' = IF k <= FIT THEN buffer ELSE [buffer EXCEPT ![Root + 1][SPILL] = i]

(* Mutant: the size of the block's last file is kept. *)
CreateKeepsSize(n) ==
  /\ ~lock /\ n \notin Listed /\ dcache[n] = None
  /\ usedBlks < MAX_FILE /\ FreeBlocks # {} /\ Children <= FIT
  /\ used' = used \cup {GetBlock}
  /\ usedBlks' = usedBlks + 1
  /\ filesize' = [filesize EXCEPT ![Root] = @ + 1]
  /\ PutEntry(Children + 1, n, GetBlock)
  /\ dcache' = [dcache EXCEPT ![n] = GetBlock]
  /\ written' = [written EXCEPT ![GetBlock] = {}]
  /\ sound' = [sound EXCEPT ![GetBlock] = TRUE]
  /\ home' = [home EXCEPT ![GetBlock] = n]
  /\ UNCHANGED wild
  /\ UNCHANGED <<lock, file>>

(* A regular file; the buffer keeps what it had.  With no block free the   *)
(* code goes on with block -1 (CreateOutside of Expfs).  Bound: one entry  *)
(* more than fit.                                                          *)
Create(n) ==
  /\ ~lock /\ n \notin Listed /\ dcache[n] = None
  /\ usedBlks < MAX_FILE /\ FreeBlocks # {} /\ Children <= FIT
  /\ used' = used \cup {GetBlock}
  /\ usedBlks' = usedBlks + 1
  /\ filesize' = [filesize EXCEPT ![GetBlock] = 0, ![Root] = Children + 1]
  /\ PutEntry(Children + 1, n, GetBlock)
  /\ dcache' = [dcache EXCEPT ![n] = GetBlock]
  /\ written' = [written EXCEPT ![GetBlock] = {}]
  /\ sound' = [sound EXCEPT ![GetBlock] = TRUE]
  /\ home' = [home EXCEPT ![GetBlock] = n]
  /\ UNCHANGED wild
  /\ UNCHANGED <<lock, file>>

(* Without the lock.  Bound: the code follows an index that data has       *)
(* overwritten also where there is no block.                               *)
Lookup(n) == /\ dcache[n] = None /\ n \in Listed /\ Index(Place(n)) \in Blocks
             /\ dcache' = [dcache EXCEPT ![n] = Index(Place(n))]
             /\ UNCHANGED <<table, lock, file, ghost>>

Evict(n) == /\ dcache[n] # None /\ OpenAs(n) = {}
            /\ dcache' = [dcache EXCEPT ![n] = None]
            /\ UNCHANGED <<table, lock, file, ghost>>

(* The entries behind the name move up; the block of its inode is free,    *)
(* whoever has it open.                                                    *)
Unlink(n) ==
  /\ ~lock /\ dcache[n] > Root /\ n \in Listed
  /\ LET i == Place(n)
     IN  slot' = [k \in DOMAIN slot |->
                    IF k \in i .. Children - 1
                    THEN [name |-> slot[k + 1].name, index |-> Index(k + 1)]
                    ELSE slot[k]]
  /\ filesize' = [filesize EXCEPT ![Root] = @ - 1]
  /\ used' = used \ {dcache[n]}
  /\ dcache' = [dcache EXCEPT ![n] = None]
  /\ file' = [t \in Tasks |-> IF t \in OpenAs(n) THEN [file[t] EXCEPT !.linked = FALSE]
                                                  ELSE file[t]]
  /\ UNCHANGED <<buffer, usedBlks, lock, ghost>>

-----------------------------------------------------------------------------
(* Open files. *)

Open(t, n) == /\ ~IsOpen(t) /\ dcache[n] > Root /\ home[dcache[n]] # NoName
              /\ file' = [file EXCEPT ![t] = [name |-> n, blk |-> dcache[n],
                                              pos |-> 0, linked |-> TRUE]]
              /\ UNCHANGED <<table, lock, dcache, ghost>>

Close(t) == /\ IsOpen(t)
            /\ file' = [file EXCEPT ![t] = Closed]
            /\ UNCHANGED <<table, lock, dcache, ghost>>

(* The bytes come from the start of the buffer, whatever the position.  At *)
(* the end of the file, and when the copy fails, it returns without        *)
(* spin_unlock.                                                            *)
DoRead(t, c) ==
  LET pos == file[t].pos
      end == filesize[file[t].blk]
      len == Least(end, c.size)
  IN  /\ \/ pos >= end /\ lock' = TRUE /\ UNCHANGED file
         \/ pos < end /\ c.ok < len /\ lock' = TRUE /\ UNCHANGED file
         \/ /\ pos < end /\ c.ok >= len
            /\ file' = [file EXCEPT ![t].pos = pos + len] /\ UNCHANGED lock
      /\ UNCHANGED <<table, dcache, ghost>>

(* Mutant: the lock is kept when the copy fails. *)
FaultUnlocksNot == lock' = TRUE

(* spin_unlock, also after a copy that failed.                             *)
FaultUnlocks == UNCHANGED lock

(* copy_from_user fills the part that it cannot copy with zeros.  After a  *)
(* good copy the file ends where the write ended, also if it was longer,   *)
(* or the write was empty.  At the end of the buffer the lock is kept.     *)
DoWrite(t, c) ==
  LET b     == file[t].blk
      p     == file[t].pos
      count == Least(Len(c.buf), BUFFER_SIZE - p)
  IN  /\ \/ /\ p >= BUFFER_SIZE /\ lock' = TRUE
            /\ UNCHANGED <<table, file, ghost>>
         \/ /\ p < BUFFER_SIZE
            /\ buffer' = [buffer EXCEPT ![b] =
                 [i \in Offsets |->
                    IF i \notin p .. p + count - 1 THEN buffer[b][i]
                    ELSE IF i - p < c.ok THEN c.buf[i - p + 1] ELSE 0]]
            /\ \/ c.ok < count /\ FaultUnlocks /\ UNCHANGED <<filesize, file>>
               \/ /\ c.ok >= count /\ UNCHANGED lock
                  /\ filesize' = [filesize EXCEPT ![b] = p + count]
                  /\ file' = [file EXCEPT ![t].pos = p + count]
            /\ written' = [written EXCEPT ![b] = @ \cup (p .. p + count - 1)]
            /\ sound' = [sound EXCEPT ![b] = @ /\ p <= filesize[b] /\ file[t].linked]
            /\ wild' = (wild \/ (Children > FIT /\ b = Root + 1 /\ SPILL \in p .. p + count - 1))
            /\ UNCHANGED <<used, slot, usedBlks, home>>
      /\ UNCHANGED dcache

(* Mutant: the end is not tested. *)
WithinOrPast(p) == p >= 0

Within(p) == p \in 0 .. BUFFER_SIZE

(* Without the lock.                                                       *)
DoSeek(t, c) ==
  LET to == IF c.orig = "set" THEN c.off ELSE file[t].pos + c.off
  IN  /\ Within(to)
      /\ file' = [file EXCEPT ![t].pos = to]
      /\ UNCHANGED <<table, lock, dcache, ghost>>

Call(t) ==
  /\ IsOpen(t)
  /\ \E c \in Calls :
        \/ ~lock /\ c.op = "read" /\ DoRead(t, c)
        \/ ~lock /\ c.op = "write" /\ DoWrite(t, c)
        \/ c.op = "seek" /\ DoSeek(t, c)

-----------------------------------------------------------------------------
Next == \/ \E n \in Names : \/ Create(n) \/ Lookup(n) \/ Evict(n) \/ Unlink(n)
                            \/ \E t \in Tasks : Open(t, n)
        \/ \E t \in Tasks : Close(t) \/ Call(t)

Spec == Init /\ [][Next]_vars

-----------------------------------------------------------------------------
(* A position may run past the end of the buffer, by less than a buffer:   *)
(* a read that starts inside the file moves it by the length of the file.  *)
TypeOK == /\ used \subseteq Blocks /\ Root \in used
          /\ DOMAIN filesize = Blocks /\ Children \in 0 .. FIT + 1
          /\ \A b \in Blocks \ {Root} : filesize[b] \in 0 .. BUFFER_SIZE
          /\ buffer \in [Blocks -> [Offsets -> Bytes]]
          /\ slot \in [1 .. FIT + 1 -> [name : Names \cup {NoName}, index : Bytes]]
          /\ usedBlks \in 1 .. MAX_FILE /\ lock \in BOOLEAN
          /\ dcache \in [Names -> Blocks]
          /\ file \in [Tasks -> [name : Names \cup {NoName}, blk : Blocks \ {Root},
                                 pos : 0 .. 2 * BUFFER_SIZE - 1, linked : BOOLEAN]]
          /\ home \in [Blocks -> Names \cup {NoName}]
          /\ written \in [Blocks -> SUBSET Offsets]
          /\ sound \in [Blocks -> BOOLEAN] /\ wild \in BOOLEAN

(* What a file holds is changed by calls through its own name only: a      *)
(* block belongs to one file at a time, and creating, removing and looking *)
(* up files leaves the others alone.  It may also change while it is used  *)
(* through a file that has been unlinked; the first file of the table      *)
(* changes when the root gets an entry that does not fit; and once that    *)
(* file's data has overwritten that entry's index, anything may.           *)
FilesApart ==
  [][\A b \in (used \cap used') \ {Root} :
        \/ UNCHANGED <<buffer[b], filesize[b]>>
        \/ \E t \in Tasks : file[t].blk = b /\ file[t].name = home[b] /\ Call(t)
        \/ \E t \in Tasks : file[t].blk = b /\ ~file[t].linked
        \/ b = Root + 1 /\ Children' > FIT /\ Children' > Children
        \/ wild]_vars

(* No byte of a file comes from an earlier file in the same block: all up  *)
(* to filesize have been written since the file was created, unless a      *)
(* write started past the end, or came through an unlinked file.           *)
OwnBytes == \A b \in used \ {Root} :
              sound[b] => 0 .. filesize[b] - 1 \subseteq written[b]

(* A call that has moved a byte or a position, and every create and        *)
(* unlink, gives expfs_lock back: only a read at the end of the file or    *)
(* into a bad buffer, and a write at the end of the buffer, keep it.       *)
LockGivenBack == [][lock' # lock => UNCHANGED <<table, dcache, file>>]_vars
=============================================================================
