# A verification project for LKM-practice

The repository is a set of Linux kernel modules. Most are exercises that print
something; five keep state that several tasks share, and those are what this
project is about: a blocking byte FIFO (`globalfifo`), an in-memory file
system (`expfs`), a shared-memory device with and without a lock
(`globalmem_lock`, `globalmem`), a timer device (`second`) and a block driver
(`sbull`). `PROJECT.json` lists every component, run, mutant, mapped definition,
finding, hazard and theorem; this file explains them.

Run a model with `tlc -config X.cfg M` and check a proof with `tlapm M.tla`.

## 1. Inventory

| component | state | operations | interacts with | status |
|---|---|---|---|---|
| `globalfifo` | `current_len`, `mem`, semaphore `sem`, wait queues `r_wait`, `w_wait`, `async_queue` | read, write, ioctl FIFO_CLEAR, poll, fasync, open, release | scheduler (sleep, wake-up, signals), the poll core, SIGIO | modelled, the list operations of the wait queues as atomic |
| `expfs`, name space | block table `blks` (`used`, `mode`, directory entries), `usedBlks`, `expfs_lock` | create, mkdir, symlink, lookup, unlink, rmdir, rename, iterate, fill_super, kill_sb | VFS: directory rwsems, dentry cache, rename mutex | modelled |
| `expfs`, file contents and layout | `file_size`, `buffer` | read, write, llseek; a fifth directory entry | the name space (block reuse) | contents modelled, layout for the root directory |
| `globalmem_lock`, `globalmem` | `mem`, `mutex`, and `f_pos` of each open file | read, write, llseek, ioctl MEM_CLEAR | VFS (copies the position in and out) | modelled |
| `second` | one `s_timer`, one `counter` | open, release, timer handler, exit | timer softirq | modelled |
| `sbull` | per disk: size, data, users, queue, gendisk, tag set; the major number | load with every failing allocation, unload, open, release, request function | block layer | modelled |
| life cycle of the character devices | device numbers, kmalloc'ed state, cdev | init and exit of each module, with their error paths | open, close and calls of the devices | modelled |
| `unload` | the reference count of a device module | insmod | life cycle, rmmod | modelled |
| `kern_thread` | two kthreads | init, exit | scheduler | not modelled: the threads loop on `schedule()` for ever and share nothing; that their code is freed under them follows from that alone |

Not modelled at all, with the reason in `PROJECT.json`: `procfs_rw`,
`hack_thread`, `addrsniffer`, `hello`, `test`, `add_sub` (no state that changes
after load), `intrsimulate` (does not compile), `vmem_disk` (comments only), the
driver generator, and the user-space test programs, whose calls are the inputs
of the MC modules.

What makes each correct, and what is hard about it:

* **globalfifo.** Bytes come out in the order they went in, none twice, none
  lost; the semaphore is balanced on every path; sleepers are woken. Hard: the
  task marks itself asleep, releases the semaphore and only then calls
  `schedule()`; a signal, EAGAIN and EFAULT leave at different points; a second
  reader may empty the FIFO between a wake-up and the second `down()`.
* **expfs.** Entries and used blocks correspond one to one, the dentry cache
  agrees with the entries, one call does not disturb other names, the lock is
  given back. Hard: a block is free as soon as the spinlock is released, while its
  dentry lives until the VFS has returned; `usedBlks` is tested outside the
  lock; entries shift; some returns keep the lock.
* **globalmem(_lock).** With the mutex a call is atomic; a position stays in the
  device. Hard: the position is copied before the lock and stored after the call;
  a relative seek reads it twice; the mutex is never initialised.
* **second.** It ticks while it is open and leaves nothing behind at exit. Hard:
  the handler runs at any point of an open, a release or the exit, and
  `del_timer` does not wait for it.
* **expfs files.** A file's bytes are its own, and none of an earlier file. Hard:
  blocks are reused while a file is open or with the old bytes in them, a
  directory's entries run into the next block, three returns keep the lock.
* **sbull.** A sector reads back as written, no request leaves the data, what is
  allocated is given back once. Hard: requests run on every CPU without a lock,
  sizes are computed in three units, the load may fail at five places per disk
  with earlier disks already in use.
* **character devices.** A failed load and an unload leave nothing, calls find
  their structures allocated and ready. Hard: the device can be opened before
  `init` has finished with it, and `unload` resets the count that keeps the module.

## 2. Modules

| module | role |
|---|---|
| `BoundedFifo` | abstract: a bounded queue whose calls take effect in one step |
| `GlobalFifo` | `globalfifo.c`, one step between any two points where another task can interfere |
| `MCGlobalFifo` | its instances: who calls what |
| `GlobalFifoProofs`, `GlobalFifoRefinement` | theorems about `GlobalFifo`: invariants, and that it implements `BoundedFifo` |
| `Namespace` | abstract: a tree of names |
| `Expfs`, `MCExpfs` | the name space of `expfs.c` with the VFS around it, and its instances |
| `AtomicMemory` | abstract: reads, writes and clears at one instant |
| `GlobalMem`, `MCGlobalMem` | both shared-memory devices, and instances |
| `Second`, `MCSecond` | `second.c`, and instances |
| `ExpfsFile`, `MCExpfsFile` | open files of `expfs.c`, their blocks, and the root directory's entries in the table |
| `Sbull`, `MCSbull` | `sbull.c`: load, unload, open, release, requests |
| `CharDev`, `MCCharDev` | init and exit of the four character devices, tasks that use them, and `unload.c` |
| `ExpfsProofs`, `ExpfsFileProofs`, `GlobalMemProofs`, `SecondProofs`, `SbullProofs`, `CharDevProofs` | theorems about the module of that name |

Definitions marked `Mutant:` are not part of a model. Each is one of the model's
definitions with a plausible bug in it; the property it is paired with in
`PROJECT.json` fails when it takes the definition's place.

### GlobalFifo

`pc[t]` names the statement a task is at: `r_*` in `globalfifo_read`, `w_*` in
`globalfifo_write`, `c_*` in the ioctl, `p_*` in poll, `f_set` in fasync. `req[t]`
holds the arguments, `ret[t]` the value returned, `got[t]` what was copied to the
user. A step goes from one interference point to the next: `ReadDown` is
`down` and `add_wait_queue`; `ReadCheck` the test of `current_len`, with its three
ways out; `ReadUp` the `up` before the sleep; `ReadSchedule` the sleep, with the
signal test after it; `ReadDown2` the second `down`, after which, as in the code,
nothing is tested; `ReadCopy` the copy with its EFAULT, the `memcpy` and the
change of `current_len`; `ReadWake`, `ReadOut`, `ReadOut2` the labels at the end.
`write` is alike. The kernel is modelled by what the driver uses: `Down` is
possible when `sem > 0`; `state[t]` is the task state; a wake-up makes every
sleeper on the queue runnable; a signal may come at any time inside a call.
A poller registers on both queues, looks, sleeps and looks again; for it `state`
says whether its poll table has been triggered.

`MemcpyOrder` says in which direction `memcpy` may copy. `memcpy` between
overlapping areas is undefined; a forward copy is what the driver relies on.

### Expfs

Blocks are the indices of `blks`; a block is also the file's inode number, and
stands for its dentry's inode. The part of a call between `spin_lock` and
`spin_unlock` is one step (nobody else takes the lock in it, and readers of a
directory are kept out by its rwsem); what comes before (`CreateCheck`, the
unlocked test of `usedBlks`) and after (`Delete`, `Move`: the VFS and `simple_*`
working on the dentries) are steps of their own. `lock` is TRUE between two steps
only if some path kept it. The VFS appears as guards of `Start` (the checks of
`may_create`, `may_delete`, `vfs_rename`, directories locked for the whole call,
one cross-directory rename at a time), as `Lookup` (a cache miss) and as `Evict`
(the shrinker, at any moment it may).

A directory has at most `DIR_CAP <= 4` entries: a fifth is written over the next
block, which is a subject of `ExpfsFile`. When `getblock`
returns -1, `blks[-1]` lies before a vmalloc'ed module's table, and the model lets the
task die with the lock held (`CreateOutside`). `expfs_symlink` after a failed create
follows an unset pointer: EFAULT, or it dies; what else a wild pointer may do there
is not modelled. One mount exists at a time, and at most `MAX_MOUNTS` in all.

`Ops` has four kinds of renames: `rename` to a free name, `replace` of an existing
one, and `exchange` and `whiteout` for the flags of `renameat2`. `expfs_rename` moves the
entry the same way for all of them and calls `simple_rename` afterwards, which
refuses the last two, and any rename over a directory that is not empty: `Move` then
leaves the dentries as they were. The name in the cache then has no entry, and the
next rename of it uses an uninitialised `curr` (`RenameNothing`): it has counted a new
entry in its directory before it follows the pointer, so that either some block is
entered under the new name, or the task dies with the lock and whatever the buffer
holds in that place becomes an entry, a stale one of another name for instance.
`NoName` stands there for bytes that are none of the names.

Left out is the ENOTDIR of `expfs_iterate`, which keeps the lock like the early return
above it, because the VFS iterates over directories only.

### GlobalMem

`MUTEX` chooses the driver; `FileOf` says which tasks share an open file, and
so a position. `Enter` copies the position and applies the early returns, `Lock`
takes the mutex, `CopyByte` moves one byte, `Unlock` returns and `Finish` is the VFS
storing the position. `Contend` is the slow path of a mutex that was never
initialised (`init_MUTEX` is an empty macro): a null pointer. `SeekSet` truncates to
`unsigned int` (`UINT` stands for 2^32); `SeekCheck`, `SeekLoad`, `SeekStore` are the
two reads and the write of `f_pos` in a relative seek. A write on a bad user buffer
stores zeros for the bytes it cannot get, as `copy_from_user` does. Every read and
write asks for at least one byte; there is one minor.

### Second

The three statements of `second_open`, `second_release`, `second_exit`, and the
handler's two statements are the steps; `Expire` is the softirq taking the timer
off the wheel. `shared` and `raced` record that two tasks had the device open
at once and that a release met a running handler. The last release ends the first,
and if it meets no handler the second too (`Remember`): it leaves no timer and no
handler, and the properties hold again for whoever opens next. `corrupt` that a pending timer was
set up again, after which the behaviour ends (what a corrupted timer wheel does
is not modelled). `seconds[t]` counts expiries since a task's open.

### ExpfsFile

The other half of `expfs.c`, and the part of the name space it depends on:
`Create`, `Lookup`, `Unlink` and `Evict` in the root directory, restated over the
block table because here it matters where an entry lies. `slot` holds the entries'
names and those indices that fit into the root's own buffer; the index of entry
`FIT + 1` is byte `SPILL` of the next block's buffer (`Index`, `PutEntry`), which is
some file's. Calls are single steps, since the lock is held throughout and a task
has its own open file; `lock` becomes TRUE for good on the returns that keep it
(`DoRead` at lines 151 and 156, `DoWrite` at line 180). A file that is unlinked
while open keeps its inode and therefore its block. `written`, `sound`, `home` and
`wild` record for the properties what has been written through which name.
An index that a file's data has overwritten is followed as far as it is a block's;
behind the table the code reads memory that is not its own (`Lookup`). The `pr_info`
lines that print buffers are left out.

### Sbull

`loader` is the statement that `sbull_init` or `sbull_exit` is at and `which` the
disk; each allocation may fail, and `failed` records which did. A disk's `data` is
NULL, held, freed or freed twice. `oops` is a statement that follows a null or error
pointer: the loader then stays where it is, and so does the module. A request is one
`_queue_rq`: `QueueRq`, then a `Transfer` per segment, then `EndRq` with
`blk_update_request` and its BUG. `Overrun` is the copy of a negative length. The
block layer is modelled by what it promises: requests are whole 512-byte sectors
inside the capacity, and come only while the disk is open. The module's own parameters
are in `Params`; `sbull_major` matters because `register_blkdev` returns 0, not the number,
for one that it was given, which `sbull_init` takes for a failure (`Register`). Sector size,
`unsigned int` and requests are parameters too. `sbull_ioctl` and
`sbull_media_changed` change no state and are left out; `RM_SIMPLE` is the only
request mode the code still has.

`last` and `clean` record which writes should still be on the disk. How many sector
numbers a request covers is a parameter of that record, `SPAN`: 1 for what the
kernel means by a sector number; `KERNEL_SECTOR_SIZE` for what the driver does
with it, since it uses the number as a byte offset.

### CharDev

`driver` picks the module; `Minors`, `Parts` and `Needs` hold what differs: two minors in
`globalmem`; a semaphore and wait queues that `globalfifo` sets up after
`cdev_add`; the mutex of `globalmem_lock`, which init does not set up at all and which a
call needs if somebody else uses the device. `phase` is the statement of init or exit.
`Open`, `Call` and `Close` are the tasks: a call that needs what is still zero follows a
null pointer and dies. The kernel then closes its files, or a thread that shares them
keeps the interrupted call's reference for good (`Bury`). An open file keeps its module, since the file operations have an owner:
`refcnt` counts them, and `Exit` needs it to be 1. `Unload` is `unload.c`, which sets it to 1
so that a module kept by a dead task can be removed; `robbed` records that some task
had the device open then. Such a task is `stale` once the module has freed its
structure.

## 3. Runs

Runs that pass:

| run | instance | shows |
|---|---|---|
| `fifo_mixed` | reader with SIGIO, writer, third task (clear, other ioctl, poll), blocking and not; SIZE 2 | `TypeOK`; `SemExclusive`: at most one task between down and up, and the count says so; `WaitEntriesLive`: a queue entry exists exactly as long as its call needs it; `NoLostDataWakeup`; `SigioToOpeners`; `ImplementsFifo` |
| `fifo_live` | two readers, one of them also a poller, and a writer, all blocking; SIZE 1 | `NoLostSpaceWakeup`; `ReaderWoken`, `WriterWoken`, `PollerWoken`, `SignalEndsCall` |
| `expfs_tree` | two tasks, mkdir symlink unlink rmdir rename, getdents once and again; 5 blocks | `TypeOK`, `CountCoversUsed`, `EntriesMatchBlocks`, `DcacheCoherent`, `ImplementsNamespace` |
| `expfs_replace` | create unlink, renames onto existing names and with flags, getdents again; 4 blocks, three names and three entries in the root | `NamesIndependent`: duplicates, wild indices and failed renames included, no call changes what another name means, but for the names that a dying rename may expose; `LockGivenBack`: only a second getdents and a task that dies keep the spinlock; they have changed nothing, a dying rename its new directory at most |
| `expfs_files` | two tasks and two names, 4 blocks of 2 bytes, a second entry that lies in the first file | `TypeOK`; `OwnBytes`: no byte of an earlier file shows; `FilesApart`: a file changes through its own name only; `LockGivenBack` |
| `mem_atomic` | mutex, two tasks on one open file, one of them a 32-bit program, absolute seeks; SIZE 2 | `TypeOK`, `ImplementsMemory`, `PositionInRange` |
| `mem_plain` | no mutex, two tasks with files of their own, relative seeks, one 32-bit program; SIZE 3 | `PositionInRange` |
| `second_ticks` | two tasks, counter modulo 4 | `TypeOK`, `TicksWhileOpen`, `TimerSafe`, `CountsSeconds`, `CounterAdvances` |
| `sbull_disks` | two disks, two tasks, requests of one and two segments, four shapes of disk and a given major number, SPAN 2 | `TypeOK`; `RequestsFit`: no request is cut short or runs past the data; `ReadBack`; `GivenBackOnce`; `DataUnderRequests` |
| `cdev_loads` | each of the four modules, loaded three times, three tasks, `unload` at any time | `TypeOK`; `NothingLeft`; `MemoryUnderCalls`; `ReadyOnceLoaded` |

Runs that TLC finds violated, each a disagreement between the code and what its
comments say (see `findings`):

| run | property | what happens |
|---|---|---|
| `sbull_sectors` | `ReadBack`, with SPAN 1 | a sector read back after its neighbour was written holds the neighbour's bytes |
| `mem_mutex` | `MutexReady` | a contended mutex that was never initialised |

Other disagreements that the models contain, as steps or conditions, without
a run of their own:

* `globalfifo`: the condition of a blocking call is tested with `if`, not in a loop
  (`ReadDown2`), so that of two readers woken by one write the second returns 0
  bytes, where lines 36 and 200 speak of waiting; FIFO_CLEAR makes room and does not
  wake the writer (`Clear`); a `memcpy` that copies backward corrupts what a
  partial read leaves (`MemcpyOrder`; it takes a SIZE of 3).
* `expfs`: the second getdents keeps the spinlock, which the repository's text
  calls non-blocking (`Iterate`); a directory renamed onto a non-empty one, and any
  rename with flags, has moved its entry when `simple_rename` refuses, which the two
  `WARN_ON` at lines 430 and 431 say does not happen (`Move`); `usedBlks` is never lowered (`Unlink`, `Rmdir`); create goes
  on with index -1 when the table is full (`CreateOutside`); a second mount empties
  the root and leaves the other blocks used (`Mount`); a read starts at the first byte
  whatever the position (`DoRead`), and the file ends where the last write did
  (`DoWrite`).
* `globalmem`: absolute seeks are truncated to 32 bits (`SeekSet`); `globalmem.c` has no
  native ioctl, and `globalmem_lock.c` none for 32-bit programs (`NoIoctl`).
* `second`: a second open resets the first opener's counter (the condition of
  `CountsSeconds`).
* `sbull`: a failed tag set or queue is followed by a write through a null
  pointer (`SetupQueue`); a failed gendisk leads to a double `vfree` at exit
  (`SetupDisk`); a failed `kmalloc` unregisters "sbd" instead of "sbull" (`Kmalloc`); with a major
  number given the load always fails and leaves the driver registered (`Register`); the
  simulated media change that `sbull.c:66` and `sbull.h:55` describe never happens,
  since its timer is commented out; the geometry of `sbull_ioctl` takes the
  size in bytes for one in sectors, as the comment on `size` at line 74 does.
* the character devices: a failed `kmalloc` in `globalmem_init` gives one of two
  minors back (`Kmalloc` of `CharDev`).
* `unload`: a count that was reset under open files runs down to 0, where rmmod ends
  in BUG (`Exit`); the comment at `unload.c:41` wonders about counts that are off by
  one: the kernel's own reference is part of `refcnt`.

**Conditions inside properties.** Some properties hold only away from a finding,
and say so: `NoLostSpaceWakeup` assumes that nobody issues FIFO_CLEAR; `EntriesMatchBlocks` and `DcacheCoherent` that all
renames are plain ones to a free name (`PlainRenames`; one onto an existing name leaves two
entries with that name, one with flags moves the entry and not the dentry); `NamesIndependent`
and `LockGivenBack` except what a dying rename does to its new directory;
`NoLostBlock` that there is one mount; `PositionInRange` that no two tasks sharing a
file seek relatively (then the position does leave the range); the properties of
`Second` that the device has one opener at a time, and that no release met a
running handler, each until all have closed it again; these are the cases in which the
code fails. `FilesApart` and `OwnBytes`
name the ways in which files do mix: through an unlinked file, past the end,
or over the entry that lies in the first file. `RequestsFit` assumes that the
product of the parameters does not wrap around; `GivenBackOnce`, `NothingLeft` and
`ReadyOnceLoaded` name the leaks, the double free and the calls that find a structure
unready, and
`MemoryUnderCalls` the use of `unload` while a device is open.

**Bounds, and why they are enough.** Two or three tasks give every role a rival:
two readers for one write, a writer against a clearer, a poller against both.
SIZE 1 and 2 make the FIFO empty, partly full and full, with requests shorter and
longer than what is there. Five blocks are three files beside the root (block 0 is
set aside): enough for a directory in a directory and for a block handed out again
while its old dentry lives. Two names and two entries per directory let an entry
shift past another; in `expfs_replace` a third entry gives the rename that finds none
room to write, and a third name what that may expose. That run stays in the root:
replacing between directories, and rmdir beside replaced names, have too many states
with it and are left to the theorems `NamesSafety` and `LockSafety`, which cover every
call. The runs mount once: a second mount forgets the root directory
and has nothing that a property could hold the code to.
Four blocks of two bytes in `ExpfsFile` give two files, one of them behind the
root's buffer, and a block handed out again; two bytes make a write that fits, is cut,
starts inside, at and past the end. Sectors of two bytes tell a sector number from
a byte offset; the disk shapes have sectors of the kernel's size, one and a half
and half of it, and a size that wraps around at 16; two disks let one fail while the
other is in use. Three loads are a failure, a success and one more after either.
The expfs, sbull and device safety runs use the symmetry of tasks, names; the runs
that check liveness use none. Memory of 2 or 3 bytes and requests of 1 to 3
make ranges overlap partly and end at the limit; UINT 8 with an offset of 9 wraps. A counter modulo 4
tells a reset from a tick. CHECK_DEADLOCK is off where the system may stop:
all tasks dead or spinning on a lock nobody gives back (expfs, globalmem_lock), or a
module unloaded, dead or loaded as often as the bound says (second, sbull,
CharDev).

**Fairness.** Steps inside a handler are weakly fair: a running task runs.
Taking the FIFO's semaphore is strongly fair: `down` queues waiters first come,
first served, so a task that waits for a count that comes and goes is served. No
fairness is given to user space: nobody has to open, call, close or send a signal.
`Second` gives weak fairness to the timer
softirq and the handler: time passes, and a handler that runs ends.

## 4. Proofs

`GlobalFifoProofs` and `GlobalFifoRefinement` hold for any set of tasks, any SIZE
of at least 1, any bytes and any repertoire of calls, from the assumptions named in
`GlobalFifo` (`SizeAssumption`, `BytesAssumption`, `CallsAssumption`,
`MemcpyAssumption`):

* `TypeCorrect` — `TypeOK`, among it that `current_len` stays in `0 .. SIZE`. It
  needs `CallInv`: a task inside a handler has made the call that leads there,
  since `req[t].count` exists only for reads.
* `MutualExclusion` — `SemExclusive`. The sum of the count and the number of
  tasks between down and up is one, written without a sum: either the count is 1
  and nobody holds, or it is 0 and exactly one task does. Inductive with the types.
* `EntriesLive` — `WaitEntriesLive`, from the locations alone.
* `DataWakeups`, `SpaceWakeups` — the no-lost-wake-up invariants. They rest on the
  two before: a task can be asleep with data present only if the data came after
  it looked; looking and copying both need the semaphore, so the writer that
  brought it is still at its wake-up, and it finds the sleeper on the queue
  because entries live as long as their call.
* `SigioCorrect` — `SigioToOpeners`.
* `FifoImplementation` — `ImplementsFifo`, with the extra assumption
  `MemcpyOrder = {"forward"}`. A call takes
  effect when it copies; each other step is a stutter. Lemmas relate the array before and
  after `ReadCopy` and `WriteCopy` to `SubSeq` and concatenation.

`Invariance` is the whole inductive invariant, `InvStep` its step with one case
per action. The other modules are laid out the same way: an invariant `Inv` of named
parts, a lemma per action that says what it preserves, `Invariance`, and the
properties from it. Every safety property of a passing run, and each of the three
refinements, is a theorem. What holds beyond the assumptions on the constants is a
hypothesis that the theorem states.

**`SecondProofs`** (any tasks, any modulus): `TypeCorrect`, `Ticking` (`TicksWhileOpen`),
`TimerSafety` (`TimerSafe`), `SecondsCounted` (`CountsSeconds`). The handler may be
between its two statements at any time, so that being armed is "pending, or about to be
re-armed" (`Armed`), and the counter may be one ahead of the seconds seen
(`CountFollows`). `QuietBetweenOpens` is what a release leaves if it met no handler.

**`CharDevProofs`** (any finite set of tasks, any number of loads): `TypeCorrect`,
`LoadsCleanUp` (`NothingLeft`), `MemorySafety` (`MemoryUnderCalls`), `Readiness`
(`ReadyOnceLoaded`: the calls that die are those of `globalfifo` before init is over, and
those of `globalmem_lock` while somebody else uses it). `StageInv` and `RegionInv` say what each statement of init and exit
finds; `CountInv` is the argument why a module with open files is not removed: unless
`unload` has reset it, the count is more than the number of open files, so that exit,
which needs it to be 1, finds none. The set of tasks is finite because the kernel
counts them in an int.

**`SbullProofs`** (any number of disks, any finite set of tasks, any parameters and
requests): `TypeCorrect`, `UnloadSafety` (`GivenBackOnce`), `RequestSafety`
(`DataUnderRequests`), `RequestsInside` (`RequestsFit`), `ReadsBack` (`ReadBack`).
`DeviceStage` follows a disk through load and unload; it
and `UseInv` give a request its data. That a request fits comes from `FlowInv`,
which relates `pos`, `nr_bytes` and the segments done to the request's length.
`ReadsBack` has the hypothesis `SPAN >= KERNEL_SECTOR_SIZE`, under which requests that
do not overlap in sectors do not overlap in bytes: the driver does not ensure it, and
run `sbull_sectors` shows what happens with `SPAN = 1`. Its invariant `DataInv` says of
each call how much of its request is in the data (`Copied`) and of each disk that the
last undisturbed write is (`Kept`). The length of a request is that of
`FlattenSeq`, a recursive function over its segments: instead of an induction, the
lemmas take the least number of segments for which the claim would fail, which
exists since the naturals are well-founded.

**`GlobalMemProofs`** (any tasks, files, size and calls): `TypeCorrect`,
`PositionSafety` (`PositionInRange`), and `MemoryImplementation`: with the mutex
(hypothesis `MUTEX`) every step of the device is a step of `AtomicMemory` or a stutter. A
call takes effect when it takes the mutex: `Store` and `Delivered` look ahead to the
bytes it is going to copy, which `LockInv` keeps from everybody else until then;
`CallInv` ties `done`, `got` and `ret` to the call.

**`ExpfsProofs`** (any tasks, names, table size and calls): `TypeCorrect`,
`CountSafety` (`CountCoversUsed`), `LockSafety` (`LockGivenBack`), `NamesSafety`
(`NamesIndependent`), the last two for every kind of rename, follow from
`TypeInv`, the types with what a call in flight has for its names. `EntriesSafety`
(`EntriesMatchBlocks`), `CacheSafety` (`DcacheCoherent`) and `NamespaceImplementation`
(`ImplementsNamespace`) need `TreeInv`: every entry leads to a used block
(`LinksToUsed`), no two lead to the same (`LinksOnce`), every used block has one
(`LinksToAll`, with one mount); two calls have no inode locked in common (`LockInv`); and
what a call saw before it took the spinlock still holds when it has it (`CallInv`), which is
where the directory locks of the VFS come in. `Invariance` has the hypothesis
`PlainRenames`: nobody renames onto an existing name or with flags, after which the
invariant is false. The two properties state that condition themselves, so their theorems have no
hypothesis; the refinement needs it, and `MAX_MOUNTS <= 1`. It maps
`Children`, a directory's entries by name, to the tree; create, unlink, rmdir and rename
take effect where they hold the spinlock, the work on dentries before and after
are stutters.

**`ExpfsFileProofs`** (any tasks, names, table, buffers and calls): `TypeCorrect`;
`LockSafety` (`LockGivenBack`); `BytesSafety` (`OwnBytes`), inductive with the types; and
`FilesSafety` (`FilesApart`). The last needs `EntriesInv`: an entry's block is
the one last given out for its name (`EntryInv`), no name is listed twice (`UniqueInv`),
a cached name has its entry's block (`CacheInv`), and a file that is open and not
unlinked has a cached name (`OpenInv`), which holds because `Evict` spares names in use.
All this fails once data has overwritten an index, so the invariant is
`wild \/ EntriesInv`; TLC checked it on the instance of `expfs_files` first.

**What the proofs showed about the models.** In `CharDev`, the `CASE` that said what is
initialised at the end of init had overlapping guards, and meant an arbitrary choice
where both held. In `ExpfsFile`, an index overwritten with a byte beyond the table
led outside the domain of `home` and `filesize`, which the instance, whose bytes are its
blocks, could not show. `Sbull` lacked assumptions on requests and junk bytes,
`ExpfsFile` the one on its calls. All are corrected or stated.

**Only model-checked:** the liveness properties `ReaderWoken`, `WriterWoken`,
`PollerWoken`, `SignalEndsCall` and `CounterAdvances`. The prover has no rule for
fairness that reaches ENABLED.

## 5. What is left, in order

Modelling:

1. `FifoWaitQueue`: the linked list of `r_wait` when entries are removed under
   the lock of `w_wait`.
2. `ExpfsFile`: directories below the root, whose fifth entry lies in whatever block
   follows, and long names, which run into that block's header.

Proofs:

1. The safety parts of the liveness arguments: what keeps a sleeper of `GlobalFifo`
   wakeable until it runs, and in `Second` that an armed timer leads to a tick, as step
   properties.
2. `Expfs` with renames onto existing names or with flags: how much of `TreeInv` survives them
   (the types, the count, the lock and the independence of names do).
3. `FifoImplementation` for a `memcpy` of either direction and calls that never leave
   bytes behind.
