-------------------------------- MODULE Expfs --------------------------------
(***************************************************************************)
(* The name space of the in-memory file system src/expfs/expfs.c: a table  *)
(* of file blocks, directories that hold (name, block) entries in their    *)
(* block's buffer, one global spinlock, and the VFS around them: it looks  *)
(* a name up before it calls the file system, holds the rwsem of the       *)
(* directories involved for the whole call, and keeps a dentry cache.      *)
(*                                                                         *)
(* The section between spin_lock and spin_unlock is one step: nobody else  *)
(* that takes the lock can run inside it, and readers of a directory are   *)
(* kept out by its rwsem.  A path that returns without spin_unlock leaves  *)
(* the lock taken for good.                                                *)
(***************************************************************************)
EXTENDS Integers, FiniteSets, SequencesExt

CONSTANTS Tasks,       (* processes inside the file system                 *)
          Names,       (* the file names they use                          *)
          NoName,      (* what a call that takes no name has instead       *)
          MAX_FILE,    (* the length of the block table                    *)
          DIR_CAP,     (* bound: entries per directory; 4 fit in a buffer  *)
          MAX_MOUNTS,  (* bound: how often the file system is mounted      *)
          Ops          (* the kinds of calls the tasks issue               *)

AllOps == {"create", "mkdir", "symlink", "unlink", "rmdir",
           "rename",      (* to a name that does not exist                 *)
           "replace",     (* rename to a name that exists                  *)
           "exchange",    (* renameat2 with RENAME_EXCHANGE                *)
           "whiteout",    (* renameat2 with RENAME_WHITEOUT                *)
           "readdir",     (* getdents from the start of the directory      *)
           "readmore"}    (* getdents again, with f_pos # 0                *)

Moves == {"rename", "replace", "exchange", "whiteout"}

Root   == 1
None   == 0               (* block 0 is set aside and never handed out     *)
Blocks == 0 .. MAX_FILE - 1

ASSUME TableAssumption == MAX_FILE \in Nat /\ MAX_FILE > 2
ASSUME BoundAssumption == DIR_CAP \in 1 .. 4 /\ MAX_MOUNTS \in Nat
ASSUME OpsAssumption   == Ops \subseteq AllOps
ASSUME NameAssumption  == NoName \notin Names

VARIABLES
  used,        (* the blocks with blks[i].used                             *)
  mode,        (* blks[i].mode                                             *)
  entries,     (* the dir_children entries at the start of blks[i].buffer  *)
  usedBlks,
  lock,        (* expfs_lock is taken between two steps                    *)
  mounts,      (* how often expfs_fill_super has run                       *)
  mounted,
  dcache,      (* VFS: the block behind a cached dentry, None if uncached  *)
  pc,          (* where each task is                                       *)
  req          (* its call                                                 *)

table == <<used, mode, entries, usedBlks>>
super == <<mounts, mounted>>
vars  == <<used, mode, entries, usedBlks, lock, mounts, mounted, dcache, pc, req>>

(* NoName stands for bytes that are no name of ours; a call writes none.   *)
Entry == [name : Names \cup {NoName}, index : Blocks]
Kinds == {"none", "dir", "reg", "lnk"}

(* Every call has the fields of a rename; the others leave ndir, nname     *)
(* equal to dir, name.                                                     *)
Request(o, d, n) == [op |-> o, dir |-> d, name |-> n, ndir |-> d, nname |-> n]

Requests == [op : AllOps, dir : Blocks, name : Names \cup {NoName},
             ndir : Blocks, nname : Names \cup {NoName}]

(* The call of a task that is in none. *)
NoRequest == Request("create", Root, NoName)

Init == /\ used = {}
        /\ mode = [b \in Blocks |-> "none"]
        /\ entries = [b \in Blocks |-> <<>>]
        /\ usedBlks = 0
        /\ lock = FALSE
        /\ mounts = 0 /\ mounted = FALSE
        /\ dcache = [b \in Blocks |-> [n \in Names |-> None]]
        /\ pc = [t \in Tasks |-> "idle"]
        /\ req = [t \in Tasks |-> NoRequest]

-----------------------------------------------------------------------------
(* Directories. *)

(* The loop with strcmp: the first entry with the name; 0 if none.         *)
Position(s, n) == SelectInSeq(s, LAMBDA e : e.name = n)

Match(d, n) == LET i == Position(entries[d], n)
               IN  IF i = 0 THEN None ELSE entries[d][i].index

(* Mutant: the shift starts one entry late. *)
WithoutNext(s, n) == LET i == Position(s, n)
                     IN  IF i = 0 THEN s ELSE RemoveAt(s, IF i < Len(s) THEN i + 1 ELSE i)

(* The first entry with the name is taken out, later ones move up.         *)
Without(s, n) == LET i == Position(s, n)
                 IN  IF i = 0 THEN s ELSE RemoveAt(s, i)

(* Mutant: the scan goes one block past the table. *)
FreeBlocksOneMore == (2 .. MAX_FILE) \ used

(* getblock: the lowest free block from 2 on, or none.                     *)
FreeBlocks == (2 .. MAX_FILE - 1) \ used
GetBlock   == CHOOSE b \in FreeBlocks : \A c \in FreeBlocks : b <= c

-----------------------------------------------------------------------------
(* The VFS. *)

Cached(d) == d = Root \/ \E p \in Blocks, n \in Names : dcache[p][n] = d

Dirs == {b \in Blocks : Cached(b) /\ mode[b] = "dir"}

Busy(t) == pc[t] # "idle"

(* The inodes a call has locked (a directory is renamed without its lock), *)
(* and those anyone has.                                                   *)
Victims(r) == CASE r.op \in {"unlink", "rmdir"}   -> {dcache[r.dir][r.name]}
                [] r.op \in Moves \ {"exchange"} ->
                     {b \in {dcache[r.dir][r.name]} : mode[b] # "dir"}
                       \cup {dcache[r.ndir][r.nname]}
                [] r.op = "exchange" ->
                     {b \in {dcache[r.dir][r.name], dcache[r.ndir][r.nname]} : mode[b] # "dir"}
                [] OTHER -> {}

Locks(r)  == ({r.dir, r.ndir} \cup Victims(r)) \ {None}
Locked    == UNION {Locks(req[t]) : t \in {u \in Tasks : Busy(u)}}

(* The dentries a call refers to, besides that of its directory.           *)
Listing(r) == r.op \in {"readdir", "readmore"}

Touched(r) == IF Listing(r) THEN {} ELSE {<<r.dir, r.name>>, <<r.ndir, r.nname>>}
Pinned(d, n) == \E t \in Tasks : /\ Busy(t)
                                 /\ \/ <<d, n>> \in Touched(req[t])
                                    \/ dcache[d][n] \in {req[t].dir, req[t].ndir}

(* s_vfs_rename_mutex: one rename between directories at a time.           *)
CrossRename(r) == r.op \in Moves /\ r.dir # r.ndir
RenameMutexFree == \A t \in Tasks : Busy(t) => ~CrossRename(req[t])

(* The directories from d up to the root, within k steps.                  *)
Above[k \in Nat, d \in Blocks] ==
  IF k = 0 THEN {d}
  ELSE {d} \cup UNION {Above[k - 1, p] :
                         p \in {q \in Blocks : \E n \in Names : dcache[q][n] = d}}

(* What the VFS makes sure of before it calls the file system, for calls   *)
(* with one name and for renames.                                          *)
Absent(d, n) == dcache[d][n] = None /\ Match(d, n) = None

Single(D) ==
  {r \in {Request(o, d, n) : o \in Ops \ Moves, d \in D,
                             n \in Names \cup {NoName}} :
     Listing(r) <=> r.name = NoName}

SingleAllowed(r) ==
  LET b == dcache[r.dir][r.name]
  IN CASE r.op = "unlink" -> b # None /\ mode[b] # "dir"
       [] r.op = "rmdir"  -> b # None /\ mode[b] = "dir"
       [] r.op \in {"create", "mkdir", "symlink"} ->
            Absent(r.dir, r.name) /\ Len(entries[r.dir]) < DIR_CAP
       [] OTHER -> TRUE

Renames(D) == [op : Ops \cap Moves,
               dir : D, name : Names, ndir : D, nname : Names]

RenameAllowed(r) ==
  LET here  == dcache[r.dir][r.name]
      there == dcache[r.ndir][r.nname]
      free  == Absent(r.ndir, r.nname)
      kin   == there \notin {None, here} /\ (mode[here] = "dir" <=> mode[there] = "dir")
  IN  /\ here # None /\ <<r.dir, r.name>> # <<r.ndir, r.nname>>
      /\ Len(entries[r.ndir]) < DIR_CAP
      /\ CrossRename(r) => RenameMutexFree
      /\ CASE r.op = "rename"   -> free
           [] r.op = "replace"  -> kin
           [] r.op = "exchange" -> there \notin {None, here}
           [] r.op = "whiteout" -> free \/ kin
      /\ mode[here] = "dir"  => here \notin Above[MAX_FILE, r.ndir]
      /\ mode[there] = "dir" => there \notin Above[MAX_FILE, r.dir]

(* expfs_lookup: on a miss in the cache, search the entries.               *)
Lookup(d, n) ==
  /\ mounted /\ dcache[d][n] = None /\ Match(d, n) # None
  /\ d \in Dirs /\ d \notin Locked
  /\ dcache' = [dcache EXCEPT ![d][n] = Match(d, n)]
  /\ UNCHANGED <<table, lock, super, pc, req>>

(* The kernel may drop a dentry with no cached children that is not in use. *)
Evict(d, n) ==
  /\ dcache[d][n] # None /\ ~Pinned(d, n)
  /\ \A m \in Names : dcache[dcache[d][n]][m] = None
  /\ dcache' = [dcache EXCEPT ![d][n] = None]
  /\ UNCHANGED <<table, lock, super, pc, req>>

Start(t) ==
  /\ mounted /\ ~Busy(t)
  /\ \E r \in Single(Dirs) \cup Renames(Dirs) :
       /\ IF r.op \in Moves THEN RenameAllowed(r) ELSE SingleAllowed(r)
       /\ Locks(r) \cap Locked = {}
       /\ req' = [req EXCEPT ![t] = r]
       /\ pc' = [pc EXCEPT ![t] = IF r.op \in {"create", "mkdir", "symlink"}
                                  THEN "check" ELSE "lock"]
  /\ UNCHANGED <<table, lock, super, dcache>>

-----------------------------------------------------------------------------
(* expfs_do_create *)

Goto(t, from, to) == pc[t] = from /\ pc' = [pc EXCEPT ![t] = to]

Return(t, from) == /\ Goto(t, from, "idle")
                   /\ req' = [req EXCEPT ![t] = NoRequest]

(* spin_lock .. spin_unlock, for the call a task is in.                    *)
Section(t, ops) == pc[t] = "lock" /\ req[t].op \in ops /\ ~lock

(* The table is tested for room before the lock is taken: EINVAL if it is  *)
(* full.  With room there may still be no inode: ENOMEM.                   *)
CreateCheck(t) ==
  /\ \/ /\ usedBlks < MAX_FILE
        /\ Goto(t, "check", "lock") /\ UNCHANGED req
     \/ req[t].op # "symlink" /\ Return(t, "check")
     \/ req[t].op = "symlink" /\ Goto(t, "check", "curr") /\ UNCHANGED req
  /\ UNCHANGED <<table, lock, super, dcache>>

(* A directory or regular file starts empty; a symlink's block is not reset *)
(* (its old contents are of no consequence: it cannot be opened).          *)
Create(t) ==
  /\ Section(t, {"create", "mkdir", "symlink"})
  /\ FreeBlocks # {}
  /\ LET b == GetBlock
         d == req[t].dir
         n == req[t].name
         k == CASE req[t].op = "create"  -> "reg"
                [] req[t].op = "mkdir"   -> "dir"
                [] req[t].op = "symlink" -> "lnk"
     IN  /\ used' = used \cup {b}
         /\ mode' = [mode EXCEPT ![b] = k]
         /\ entries' = [[entries EXCEPT ![b] = <<>>]
                          EXCEPT ![d] = Append(@, [name |-> n, index |-> b])]
         /\ dcache' = [dcache EXCEPT ![d][n] = b]
  /\ usedBlks' = usedBlks + 1
  /\ Return(t, "lock")
  /\ UNCHANGED <<lock, super>>

(* getblock returns -1 and blks[-1] is written: the task dies in there.    *)
CreateOutside(t) ==
  /\ Section(t, {"create", "mkdir", "symlink"})
  /\ FreeBlocks = {}
  /\ Goto(t, "lock", "oops")
  /\ lock' = TRUE
  /\ UNCHANGED <<table, super, dcache, req>>

(* expfs_symlink goes on when do_create failed, and reads curr, which it   *)
(* never set: NULL gives EFAULT, anything else is a wild pointer.          *)
SymlinkCurr(t) ==
  /\ \/ Return(t, "curr")
     \/ Goto(t, "curr", "oops") /\ UNCHANGED req
  /\ UNCHANGED <<table, lock, super, dcache>>

-----------------------------------------------------------------------------
(* unlink and rmdir give the block of d, n back *)
Erase(d, n) == /\ used' = used \ {dcache[d][n]}
               /\ entries' = [entries EXCEPT ![d] = Without(@, n)]

(* expfs_unlink: entry and block go under the lock, the dentry after it.   *)
Unlink(t) ==
  /\ Section(t, {"unlink"})
  /\ Erase(req[t].dir, req[t].name)
  /\ Goto(t, "lock", "vfs")
  /\ UNCHANGED <<mode, usedBlks, lock, super, dcache, req>>

(* simple_empty: no cached child.                                          *)
SimpleEmpty(b) == b = None \/ \A m \in Names : dcache[b][m] = None

(* Mutant: rmdir of any directory. *)
RmdirAny(b) == TRUE

RmdirEmpty(b) == entries[b] = <<>>

(* Mutant: usedBlks is lowered, before the directory is seen to be empty.  *)
RmdirCountsFirst(t) ==
  /\ Section(t, {"rmdir"})
  /\ LET d == req[t].dir
         n == req[t].name
         b == dcache[d][n]
     IN  IF RmdirEmpty(b) THEN Erase(d, n) ELSE UNCHANGED <<used, entries>>
  /\ usedBlks' = usedBlks - 1
  /\ Return(t, "lock")
  /\ UNCHANGED <<mode, lock, super, dcache>>

(* expfs_rmdir: only an empty directory, and simple_rmdir inside the lock. *)
Rmdir(t) ==
  /\ Section(t, {"rmdir"})
  /\ LET d == req[t].dir
         n == req[t].name
         b == dcache[d][n]
     IN  \/ /\ RmdirEmpty(b) /\ Erase(d, n)
            /\ IF SimpleEmpty(b) THEN Goto(t, "lock", "vfs") /\ UNCHANGED req
                                 ELSE Return(t, "lock")
         \/ /\ ~RmdirEmpty(b)                       \* ENOTEMPTY
            /\ Return(t, "lock") /\ UNCHANGED <<used, entries>>
  /\ UNCHANGED <<mode, usedBlks, lock, super, dcache>>

(* d_delete, after unlink and rmdir *)
Delete(t) ==
  /\ req[t].op \in {"unlink", "rmdir"}
  /\ Return(t, "vfs")
  /\ dcache' = [dcache EXCEPT ![req[t].dir][req[t].name] = None]
  /\ UNCHANGED <<table, lock, super>>

(* Mutant: the name found is not taken out of its directory. *)
RenameKeepsOld(t) ==
  /\ Section(t, Moves)
  /\ LET r == req[t]
     IN entries' = [entries EXCEPT ![r.ndir] =
                      Append(@, [name |-> r.nname, index |-> Match(r.dir, r.name)])]
  /\ Goto(t, "lock", "vfs")
  /\ UNCHANGED <<used, mode, usedBlks, lock, super, dcache, req>>

(* Mutant: the entry is written over the last one of the new directory. *)
RenameOverLast(t) ==
  /\ Section(t, Moves)
  /\ LET r    == req[t]
         b    == Match(r.dir, r.name)
         gone == [entries EXCEPT ![r.dir] = Without(@, r.name)]
         rest == IF gone[r.ndir] = <<>> THEN <<>> ELSE Front(gone[r.ndir])
     IN  /\ b # None
         /\ entries' = [gone EXCEPT ![r.ndir] = Append(rest, [name |-> r.nname, index |-> b])]
  /\ Goto(t, "lock", "vfs")
  /\ UNCHANGED <<used, mode, usedBlks, lock, super, dcache, req>>

(* Mutant: a check of curr skips the unlock too. *)
RenameNothingKeepsLock(t, r) ==
  /\ \E e \in Entry : entries' = [entries EXCEPT ![r.ndir] = Append(@, e)]
  /\ lock' = TRUE
  /\ Goto(t, "lock", "vfs")

(* Without an entry, curr is not set.  The new directory has grown before  *)
(* curr is followed: to any inode, or to an oops that leaves in the new    *)
(* slot what was there.                                                    *)
RenameNothing(t, r) ==
  \/ /\ \E i \in Blocks :
          entries' = [entries EXCEPT ![r.ndir] = Append(@, [name |-> r.nname, index |-> i])]
     /\ lock' = lock
     /\ Goto(t, "lock", "vfs")
  \/ /\ \E e \in Entry : entries' = [entries EXCEPT ![r.ndir] = Append(@, e)]
     /\ lock' = TRUE
     /\ Goto(t, "lock", "oops")

(* expfs_rename: the entry moves to the end of the new directory; one that *)
(* is already there with the new name stays, with its block.               *)
Rename(t) ==
  /\ Section(t, Moves)
  /\ LET r == req[t]
         b == Match(r.dir, r.name)
     IN  \/ /\ b # None
            /\ entries' = [[entries EXCEPT ![r.dir] = Without(@, r.name)]
                             EXCEPT ![r.ndir] = Append(@, [name |-> r.nname, index |-> b])]
            /\ lock' = lock
            /\ Goto(t, "lock", "vfs")
         \/ b = None /\ RenameNothing(t, r)
  /\ UNCHANGED <<used, mode, usedBlks, super, dcache, req>>

(* simple_rename, and the VFS's d_move if it succeeds.  simple_rename      *)
(* refuses exchanges and whiteouts, after the entry has moved.             *)
Move(t) ==
  /\ req[t].op \in Moves
  /\ Return(t, "vfs")
  /\ LET r == req[t]
     IN  IF r.op \in {"rename", "replace"} /\ SimpleEmpty(dcache[r.ndir][r.nname])
         THEN dcache' = [[dcache EXCEPT ![r.ndir][r.nname] = dcache[r.dir][r.name]]
                           EXCEPT ![r.dir][r.name] = None]
         ELSE UNCHANGED dcache
  /\ UNCHANGED <<table, lock, super>>

(* expfs_iterate: a second call returns at once, with the lock.  (So would *)
(* the ENOTDIR below it, but the VFS iterates over directories only.)      *)
Iterate(t) ==
  /\ Section(t, {"readdir", "readmore"})
  /\ lock' = (req[t].op = "readmore")
  /\ Return(t, "lock")
  /\ UNCHANGED <<table, super, dcache>>

-----------------------------------------------------------------------------
(* expfs_fill_super empties the root directory and no other block.         *)
Mount ==
  /\ ~mounted /\ mounts < MAX_MOUNTS
  /\ mounts' = mounts + 1 /\ mounted' = TRUE
  /\ used' = used \cup {Root}
  /\ mode' = [mode EXCEPT ![Root] = "dir"]
  /\ entries' = [entries EXCEPT ![Root] = <<>>]
  /\ usedBlks' = usedBlks + 1
  /\ UNCHANGED <<lock, dcache, pc, req>>

(* kill_anon_super drops all dentries; the table stays as it is.           *)
Unmount ==
  /\ mounted /\ \A t \in Tasks : ~Busy(t)
  /\ mounted' = FALSE
  /\ dcache' = [b \in Blocks |-> [n \in Names |-> None]]
  /\ UNCHANGED <<table, lock, mounts, pc, req>>

-----------------------------------------------------------------------------
(* A step of the file system, or of the VFS on its behalf: a task in a     *)
(* call is always runnable, and takes the spinlock if it is free.          *)
LockedStep(t) == Create(t) \/ CreateOutside(t) \/ Unlink(t) \/ Rmdir(t) \/ Rename(t)
                 \/ Iterate(t)
FreeStep(t)   == CreateCheck(t) \/ SymlinkCurr(t) \/ Delete(t) \/ Move(t)

Next == \/ \E t \in Tasks : Start(t) \/ LockedStep(t) \/ FreeStep(t)
        \/ \E d \in Blocks, n \in Names : Lookup(d, n) \/ Evict(d, n)
        \/ Mount \/ Unmount

Spec == Init /\ [][Next]_vars

-----------------------------------------------------------------------------
TypeOK == /\ used \subseteq Blocks
          /\ mode \in [Blocks -> Kinds]
          /\ entries \in [Blocks -> Seq(Entry)]
          /\ usedBlks \in Nat
          /\ lock \in BOOLEAN
          /\ mounts \in 0 .. MAX_MOUNTS /\ mounted \in BOOLEAN
          /\ dcache \in [Blocks -> [Names -> Blocks]]
          /\ pc \in [Tasks -> {"idle", "check", "lock", "curr", "vfs", "oops"}]
          /\ req \in [Tasks -> Requests]

(* usedBlks never falls below the number of blocks in use, so the test in  *)
(* do_create errs on the safe side for the blocks that are really taken.   *)
CountCoversUsed == Cardinality(used) <= usedBlks

UsedDirs == {d \in used : mode[d] = "dir"}

PlainRenames == Ops \cap {"replace", "exchange", "whiteout"} = {}

(* The entries of the directories in use and the used blocks correspond    *)
(* one to one, across concurrent creates, removals, renames, evictions and *)
(* reuse of blocks - if all renames are plain ones to a free name: one     *)
(* onto an existing name leaves a second entry with that name behind, and  *)
(* one with flags that simple_rename refuses moves only the entry.         *)
NoDanglingEntry ==
  \A d \in UsedDirs : \A i \in DOMAIN entries[d] : entries[d][i].index \in used \ {Root}

NoSharedBlock ==
  \A d, e \in UsedDirs : \A i \in DOMAIN entries[d], j \in DOMAIN entries[e] :
     entries[d][i].index = entries[e][j].index => d = e /\ i = j

(* ... (a second mount forgets what is in the root directory) ...          *)
NoLostBlock ==
  MAX_MOUNTS <= 1 =>
  \A b \in used \ {Root} : \E d \in UsedDirs : \E i \in DOMAIN entries[d] :
     entries[d][i].index = b

EntriesMatchBlocks == PlainRenames => NoDanglingEntry /\ NoSharedBlock /\ NoLostBlock

(* What the dentry cache says of a name is what expfs_lookup would find,   *)
(* except for the names of a call between its unlock and its return.       *)
Settling(d, n) == \E t \in Tasks : pc[t] = "vfs" /\ <<d, n>> \in Touched(req[t])

DcacheCoherent ==
  PlainRenames =>
  \A d \in Blocks, n \in Names :
     dcache[d][n] # None /\ ~Settling(d, n) => d \in UsedDirs /\ dcache[d][n] = Match(d, n)

(* Moving entries around in a directory changes what no other name of any  *)
(* directory means: only the names a call is about, and only by that call. *)
(* The one exception is a rename that found no entry and dies: what was    *)
(* left in the slot behind its new directory becomes an entry, and a name  *)
(* that had none may appear there.                                         *)
Exposes(t, d) == pc'[t] = "oops" /\ req[t].op \in Moves /\ d = req[t].ndir

NamesIndependent ==
  [][\A d \in UsedDirs \cap UsedDirs', n \in Names :
        Match(d, n)' # Match(d, n) =>
          \/ mounts' # mounts
          \/ \E t \in Tasks : /\ pc[t] = "lock" /\ pc'[t] # "lock"
                              /\ \/ <<d, n>> \in Touched(req[t])
                                 \/ Match(d, n) = None /\ Exposes(t, d)]_vars

(* The names of the directories in use form the tree of Namespace.         *)
Children == [d \in Blocks |-> [n \in Names |->
               IF d \in used /\ mode[d] = "dir" THEN Match(d, n) ELSE None]]

Tree == INSTANCE Namespace WITH Ids <- Blocks, children <- Children

ImplementsNamespace == Tree!Spec

(* A call that has changed a directory or the cache gives the spinlock     *)
(* back, whatever its outcome.  A second getdents returns with it, and a   *)
(* task that dies in the file system keeps it: these have changed nothing, *)
(* except a dying rename its new directory, and that only where renames    *)
(* are not all plain.                                                      *)
DiesRenaming(t) == /\ ~PlainRenames /\ req[t].op \in Moves /\ pc'[t] = "oops"
                   /\ UNCHANGED <<used, mode, usedBlks>>
                   /\ \A d \in Blocks \ {req[t].ndir} : entries'[d] = entries[d]

LockGivenBack ==
  [][lock' # lock => /\ UNCHANGED dcache
                     /\ \E t \in Tasks :
                          /\ pc'[t] # pc[t]
                          /\ \/ UNCHANGED table /\ (pc'[t] = "oops" \/ req[t].op = "readmore")
                             \/ DiesRenaming(t)]_vars
=============================================================================
