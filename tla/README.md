# A TLA+ verification of the UnixV6-8086 kernel

UnixV6-8086 is a port of the Sixth Edition UNIX kernel to the 8086. This
directory holds TLA+ models of its core, the TLC configurations that check
them, and proofs checked by TLAPS. `PROJECT.json` records which definition
models which lines (`map`), the runs, the mutants that show each property can
fail, and the hazards the properties are aimed at.

Run a model with `tlc -config Pipe.cfg Pipe`, the proofs of a component with
`tlapm PipeProofs.tla`; there is a `...Proofs` module for every component that
has theorems (section 5).

## 1. The system

### How it runs

One processor, no preemption in the kernel. A process that is in the kernel
runs until it calls `sleep` (or `swtch`), and an interrupt taken in kernel mode
returns to the code it interrupted. So the kernel is concurrent in two ways:

* between processes, at every `sleep`. Almost every routine that touches a
  block may sleep, so a value read before a call of `bread`, `getblk`, `iget`
  or `swap` may be stale after it;
* between a process and the disk, clock or terminal interrupt, wherever
  interrupts are enabled (`spl0`). Every `splN` with N > 0 disables all of them.

All models take their atomic steps from this: a step is the code between two
places where the processor is given up, or where an interrupt can make a
difference.

### Parts

| Part | Source | State | Operations | Model |
|---|---|---|---|---|
| resource maps | ken/malloc.c | `coremap`, `swapmap` | `malloc`, `mfree` | RMap, MapClients |
| buffer cache | dmr/bio.c, h/buf.h | headers with flags, device list, available list, `swbuf` | `getblk bread breada bwrite bawrite bdwrite brelse bflush iowait iodone swap` | BufCache, BlockStore |
| disk driver | dmr/rk.c, dmr/ide.c | `rktab` queue, transfer in hand | `rkstrategy rkstart rkintr ideio ideintr` | BufCache |
| swapping, process table | ken/slp.c, ken/text.c, h/proc.h | `proc[]`, `runin`, `runout` | `sched newproc xswap setrun sleep wakeup swtch` | Swapper, SwapperRaces |
| fork, exit, wait | ken/sys1.c, ken/slp.c | slots, swap blocks of zombies | `fork exit wait` | Swapper, SwapperRaces; files and directories: Names |
| exec | ken/sys1.c | `execnt` | `exec` | SwapperRaces (p_addr), Names (locks, NEXEC) |
| pipes | ken/pipe.c, with parts of fio.c, iget.c, rdwri.c | lock bits, head, tail, IREAD/IWRITE | `pipe readp writep plock prele closef` | Pipe |
| clock, callouts | ken/clock.c | `time`, `callout[]`, `p_time` | `clock timeout` | ageing in Swapper, the terminal's callout in Terminal |
| inode table | ken/iget.c, h/inode.h | `inode[]`: lock, count, flags, mode, links | `iget iput iupdat maknode wdir`; `itrunc` | Names; FileBlocks |
| free lists, super block | ken/alloc.c | `s_free`, `s_flock`, `s_fmod`; `s_inode`, `s_ilock` | `alloc free update`; `ialloc ifree` | FileBlocks; Names |
| names | ken/nami.c, sys2.c, sys4.c | directories | `namei open creat link unlink mknod chdir` | Names |
| file table | ken/fio.c | `file[]`, `u_ofile` | `getf falloc closef dup open1` | Names |
| read, write | ken/rdwri.c, ken/subr.c | `i_size`, block addresses | `read write readi writei bmap` | FileBlocks |
| mkfs | usr/mkfs.c, tools/mkfs.c | the first contents of a volume | `bflist alloc newblk cfile` | Mkfs |
| signals | ken/sig.c, ken/trap.c | `p_sig`, `u_signal` | `signal psignal issig psig ssig kill` | Terminal |
| terminals, console | dmr/tty.c, dmr/kl.c | three character lists, free blocks, `t_delct`, `t_state` | `getc putc ttyinput ttyoutput canon ttread ttwrite ttstart flushtty ttystty klxint` | Terminal |
| mount | ken/sys3.c | `mount[]` | `smount sumount` | not modelled |
| call table, context switch, port I/O, user programs, boot | ken/sysent.c, dmr/m86.asm, usr/, boot/ | | | not modelled |

### How they interact

The file system calls go through `namei`/`iget` to `bread` and friends; `bread`
puts a request in the driver's queue and sleeps in `iowait`; the disk
interrupt ends it through `rkintr` and `iodone`, which wakes the process or,
for asynchronous requests, releases the buffer. The swapping process (slot 0)
uses the same queue through `swbuf`, and the two resource maps for the places
it moves images from and to. `newproc` uses the same when there is no core.
Pipes are unnamed inodes whose lock, count and two spare mode bits carry a
protocol of their own. The clock ages processes and prods the swapping
process.

### What is hard, and what makes each part correct

* **Maps.** A lost or doubled unit shows only much later. Correct: every unit
  is free or has one owner; neighbours are joined; a request fails only when
  there is no room; the fixed array is long enough.
* **Cache and driver.** `getblk` sleeps between search and claim; `brelse` runs
  in processes and in the interrupt; `B_WANTED`, `bfreelist` and `swbuf` have
  hand-made wakeup protocols; delayed writes must reach the disk before the
  buffer is reused. Correct: one buffer per block, exclusive claims, available
  if and only if not busy, a sound queue, no lost wakeup (deadly embraces aside:
  callers keep buffers while they get more), and for the callers a plain block
  store.
* **Swapping.** Every transfer sleeps while tables change under it. Correct:
  core and swap space partitioned among processes at every moment; a parent
  that is being copied stays put; a ready process outside core is noticed.
* **Pipes.** Two sleeps, two marks, a lock, a head and tail that are reset.
  Correct: order, true end of file, no sleep without a reason, no reader or
  writer stuck when the other side closes.

* **Blocks of files.** `alloc` and `free` read and write pieces of the free
  list across sleeps; `bmap` reinterprets the addresses of an inode as a file
  grows; `update` copies the super block whenever it gets the buffer. Correct:
  every block is in one place, files keep their contents, the super block on
  disk is right unless it is marked as changed.
* **Inodes and names.** Every call takes and gives up counts and locks across
  sleeps and on many error paths; locks are given up early to avoid deadlock.
  Correct: one slot per inode, a count for every reference and no more, a name
  only for a live inode, every call returns.
* **Terminals.** Interrupts work on the queues that a process is taking from,
  and the character blocks are few. Correct: no block lost, delimiters counted,
  lines delivered as typed and edited, output restarted, sleepers woken (a delay
  that meets a delay aside).

`PROJECT.json` lists the hazards one by one, each at its line, with the
property that covers it or the reason there is none yet.

## 2. Modules

**RMap** - `malloc` and `mfree` as operators on a sequence of
(m_size, m_addr) entries. The array up to its first zero count is the
sequence; the two loops that shift entries are `DropAt` and `PutAt`.

**MapClients** - RMap with callers: any legal sequence of `malloc` and `mfree`
of what was allocated.

**BufCache** - the cache, the driver and the controller. `b_flags`, `b_blk`,
`b_data` are the headers; `b_dev`/`b_blkno` are one value, and the device list
is the set of buffers with a block. `avail` is the list through
`bfreelist.av_forw`, `actq` the driver's queue through the same pointers,
`io` the controller's transfer. A process has a place (`pc`), the call it is in
(`op`, `want`) and the buffers it holds (`bp`, and `rbp`, which is the first
buffer of `breada` or one that its caller keeps); its p_wchan is `wchan`. `Keep`
is a caller that gets another buffer while it has one, as `exec` does with its
scratch buffer (ken/sys1.c:36) and `bmap` and `itrunc` with a block of addresses
(a block of `Indirect`; ken/subr.c:70, ken/iget.c:165); `Back` is its return to
the first. One buffer is kept at most. `getblk` is five actions, one for each way one turn of its
loop can end; `Strategy` and `Iodone` are operators used by every caller
including the interrupt. `IdeIntr` is the only step of the disk. Blocks of
`BadBlk` are past the end of the disk, the one error the driver reports.
Scratch buffers (`getblk(NODEV)`) have block `NoBlk`.

**BlockStore** - what the cache promises: a caller gets a block alone, with the
contents the last writer left. BufCache implements it under the mapping
`Contents` (a valid or queued-for-writing buffer wins over the disk) and `View`
(what the holder of a buffer sees).

**BufCacheMC** - which calls each of two processes makes, for TLC.

**BufCacheProofs** - lists, claims and one buffer per block; then the contents:
a clean buffer agrees with the disk, and BufCache implements BlockStore
(section 5).

**RMapProofs**, **MapClientsProofs** - what `malloc` and `mfree` do to a map in
order, and what follows for every sequence of calls.

**Swapper** - `proc[]` (state, flags, address, age, parent), the two maps, and
the swapping process with its two locals. A transfer is the time between two
steps of its caller (`ForkSwap`/`NewprocDone`, `SchedIn`/`SchedInDone`,
`SchedOut`/`SchedOutDone`); the rendezvous on `swbuf` itself is checked in
BufCache. Priorities are left out: any process that is SRUN and SLOAD may run.
`exit` and `wait` sleep in the middle, for the block that holds the u area.
Images all have size PSIZE, as in this kernel.

**SwapperProofs** - core and swap space have one owner each, for any sizes.

**SwapperRaces** - two things Swapper leaves out because with them core is no
longer owned by one process each: `newproc` when swap space is full too, and
`exec`'s move of `p_addr`.

**Pipe** - one pipe from `pipe()` to its last close. Readers share one file
structure, writers the other, as after `fork`. A transfer sleeps before every
block, so it is a series of steps; a block is one byte, and a byte is its
serial number.

**PipeProofs** - references, lock, order and end of file, for any number of
readers and writers.

**Mkfs** - what `mkfs` writes, as operators on a volume (free list, contents of
blocks, inodes): the interleaved free list of `bflist`, the allocator and the
copying of regular files. FileBlocks starts from its result, so that the first
free list and the first files are ones that exist.

**FileBlocks** - the blocks of a volume in use. `s_free` is the list in core as
the sequence of its `s_nfree` entries, `words` the contents of the blocks as
the cache gives them back (BlockStore), `sb` the free list in the super block
on disk, `inode` the addresses, ILARG and size of each file. `Bmap` finds a
block or says which of five kinds of block is missing; `AllocTake`,
`AllocRefill`, `AllocDone` are `alloc` between its sleeps and enter the block
where `bmap` does; `FreePut`, `FreeFull`, `FreeSpill`, `FreeWritten` are `free`,
called by `itrunc` in the order of `TruncOrder`; `UpdateCopy` and `UpdateDone`
are the super block part of `update`. Sizes are in words.

**Names** - the inode table, directories, the free inodes of the super block,
the file table and the calls on names. A process has the inode at hand
(`slot`), the one of its call (`ip`) and `u_pdir`; `ret` says where `iget` or
`iput` returns to, so that the two are written once for all callers. `At(p, l)`
lets p run at l only when nobody else is between two sleeps: `cpu`. A path is a
sequence of components; permission is left open. `exec`, `fork` and `exit` are
here as far as inodes, files and `execnt` go.

**NamesProofs** - the counts of inodes and files and one slot for each inode,
for any number of processes, slots, files and inodes, any tree and any calls.

**LinksProofs** - links against names, on top of NamesProofs.

**Terminal** - one terminal with its three lists, the free character blocks,
the device and the callout (`t`, `callout`), processes that read, write, set
modes and send signals, and interrupts between any two of their steps. A list
is its characters and the place of the first in its block, which fixes how many
blocks it has. An echo's `ttyoutput` is one step (`Ttyoutput`); a process calls
it at priority 0, so its putc's of CR, of the newline and of the delay are three
(`WriteChar`, `WriteNewline`, `WriteDelay`), and an echo or an interrupt may come
between them. `Ttstart` sends one character to the UART, or all of them to the
BIOS, as the build says. Signals go from `psignal` to `psig` through the two
looks that `sleep` takes, the end of `trap` and the clock.

**TerminalProofs** - blocks and delimiters, for any number of processes and
keys.

**FileBlocksMC**, **NamesMC**, **TerminalMC** - the prototype files, the
transfers, the tree, the calls, the modes and the texts for TLC.

Operators introduced by "A slip:" are plausible mistakes in the definition that
follows them. No specification uses them; `mutants` in `PROJECT.json` puts each
in place of the real one to show that a property notices.

## 3. Runs

| Run | Bounds | Checks |
|---|---|---|
| map | arena of 7 units, sizes 1-3 | TypeOK, Conserved, Sorted, FailsOnlyWhenFull, EntriesBounded |
| cache_data | 2 processes, 2 buffers, 3 blocks (one past the end), 2 values | OneBufferPerBlock, CleanMatchesDisk, ImplementsStore |
| cache_wait | the same, 1 value; read ahead, scratch buffers, a scratch buffer or one block of addresses kept during another call, 2-sector swaps | TypeOK, AvailIffNotBusy, QueueSound, Exclusive, SleepersWake |
| swapper | 3 slots, core for 2, swap space for 2, ages to 3 | TypeOK, CoreOwned, SwapOwned, ReadyIsNoticed |
| swapper_tight | 3 slots, core for 1, swap space for 3 | CoreOwned, ParentStays |
| pipe | 1 reader, 2 writers, PIPSIZ 2, counts to 3, 4 bytes | TypeOK, InOrder, EofIsTrue, SleepIsJustified, HangupUnblocks |
| file_blocks | 2 processes, 9 data blocks of 3 words, 2 addresses an inode, free list of 2, 3 calls | TypeOK, OwnedOnce, ContentsKept, SuperBlockHonest, CallsReturn |
| names | 2 processes, 3 slots, 4 inodes, 2 files, 2 descriptors, 1 free inode in the super block, NEXEC 1, 3 calls | TypeOK, UniqueInode, CountIsReferences, NamedInodesLive, DescriptorsCounted, CallsReturn |
| terminal | 2 processes, 4 blocks of 2 characters, high and low water 2 and 1, `canonb` of 2 characters, TTYHOG 4; keyboard: 4 keys, 2 calls; UART: 2 keys, 3 calls | TypeOK, BlocksConserved, DelimitersCounted, InOrder, CallsReturn |
| swapper_full | 4 slots, core and swap space for 2 | CoreOwned - **violated** |
| swapper_exec | 3 slots, images of 2 units, DSIZE 1 | CoreOwnedAfterExec - **violated** |
| pipe_readers | 2 readers, 1 writer | LockExcludes - **violated** |

Why the bounds are enough for the interesting cases. The map's arena has room
for three separate runs, so that a free can join neither, one or both
neighbours. Two buffers for three blocks force reassignment, delayed writes at
reassignment and an empty available list; two processes are enough for each
claim, sleep and wakeup to have a rival, and the theorems below lift the safety
part to any number. Three slots with core for two need a swap for every third
process, and `TimeMax` 3 is the age at which `sched` turns to old processes.
With core for one every fork goes through swap space. A pipe of 2 with writes
of 3 makes a write that is cut, fills the pipe and resets head and tail;
`MaxBytes` bounds the history. `pipe` allows deadlock because processes may
close and stop, and `cache_wait` because two processes that each keep one of the
two buffers and want another are in a deadly embrace, as in the code.

The volume of `file_blocks` has its free list in several pieces of two, so that
allocations read pieces and a truncation writes some; one transfer makes a
small file large, goes two levels deep and runs into the largest block number,
and together they exhaust the volume. `names` has fewer slots than there are
inodes, one place for free inodes, as many files as descriptors and a tree of
two directories, so that every table runs out, the i list is searched again,
and three calls of two processes meet on one name, one directory, one open file
or `execnt`. In `terminal` four blocks are too few for a line, its echo and a
text. `canonb` is 2 characters shorter than TTYHOG, as in the code (254 and
256), so that `canon` delivers a part of a line before its end (dmr/tty.c:245)
and an erase comes after it. On the keyboard, where output goes to the BIOS at
once, letters, `#`, `@`, `\`, `^D` and newline are typed in any order; on the
UART a newline and the interrupt, which meet a text whose line has a delay, and
three calls, so that one process sets the delay, one writes and one closes or
sets modes. These three allow a stop because the number of calls is bounded.

### What the passing runs show

* No sequence of allocations loses a unit, and the map never has more entries
  than allocations plus one: 50 entries are enough for a 7-image core map.
* Callers of the cache see a block store: whatever is reassigned, delayed,
  flushed or in the queue, a read returns the last write. A buffer that is
  done and not delayed agrees with the disk.
* Nobody who sleeps in `getblk`, `iowait` or `swap` sleeps for ever, in spite
  of the cleared `B_WANTED` in `iodone` and the early wakeup in `swap`, and
  although callers keep buffers while they get more - until there is a deadly
  embrace (`Embrace`): every buffer is kept by a process that sleeps for another.
  That state is reached, in the run as in the code, whose comment
  (ken/sys1.c:5-10) limits the number of processes in `exec` for it.
* Core and swap space are partitioned at every moment through forks, exits,
  waits and swaps, and the swapping process does not sleep on `runout` while
  somebody ready is outside.
* A pipe with one reader keeps its bytes in order, even when a write is cut by
  a full file system, and its sleepers always have a reason and a mark.

* Whatever `alloc`, `free`, `bmap`, `itrunc` and `update` do at the same time,
  no block is lost or in two places, files hold what was written, and holes are
  zeros. The super block that `update` writes can be wrong (it may be copied
  while `alloc` or `free` works on the list), but then it is marked again.
* Counts of inodes and files are right after every call, on error paths, in
  `chdir`, `link`, `exec`, `fork` and `exit` too; no inode is in two slots; a
  name never leads to a free inode, although `ialloc` may be given an inode that
  is in use and has to notice. Calls return: the wakeup that `link` leaves out
  is made up for by the `iput` that follows, and leaving `exec` wakes those who
  wait with their inode locked.
* Character blocks are conserved and `t_delct` is right also when the blocks
  run out, unless an interrupt flushes the queues under `canon`. Several readers
  get what was typed in order, with erase, kill and escapes done. The editing is
  that of `canon` (`CanonChar`) on each part it delivers: an erase after a part
  that filled `canonb` does not reach back into it.
* Writers are woken although klxint may step over TTLOWAT, because it comes to
  0 - with one exception (`DelayMeetsDelay`). An echo that comes between the
  putc's of a newline and its delay (dmr/tty.c:347, 419) can leave two delays at
  the end of `outq`. The second is taken by `ttrstrt`, at the end of the first,
  and `ttrstrt` wakes nobody; a process in `wflushtty` (dmr/tty.c:149-151) then
  sleeps until more output or input comes. `CallsReturn` is about
  behaviours without such a meeting; without the exception TLC finds it.

### What the models run into

These follow from the code; the models take them as the end of a behaviour, with
a variable of their own, so that the properties are about everything before.

* `halted` (Names): `namei` and `unlink` give up a directory before they lock
  the inode an entry names (ken/nami.c:163, ken/sys4.c:93), so the entry may be
  gone, and two unlinks of one name take two links off. `iput` of a shared inode
  clears whoever's lock it is (ken/iget.c:104), so two processes can create in
  one directory slot. `update` locks an inode whose last user may free the slot
  without a look at the lock (ken/alloc.c:304). An `ialloc` whose inode turns out to be
  in use goes back and may search the i list without a look at `s_ilock`
  (ken/alloc.c:177), so two can search at once; when the first has filled the
  list and taken an inode, and an `ifree` has filled it up again, the second
  stores a number beyond its end (ken/alloc.c:191).
* `stuck` (Names): when `ialloc` fails, `maknode` leaves `u_pdir` locked and
  counted (ken/iget.c:195-197). It is the sequence of the slots left so.
* `lost` (FileBlocks): when `alloc` fails after `bmap` has just allocated a
  block of addresses, the zeroed buffer of that block is released unwritten
  (ken/subr.c:85, 109).
* `race` (Terminal): at priority 0, `canon` and `ttread` against `flushtty`
  (dmr/tty.c:222, 494), and `ttstart` at the end of `ttwrite` against an echo
  (dmr/tty.c:519).

Also seen while reading, and not in a model: `itrunc` looks at one word past the
block (ken/iget.c:166; the buffers are 514 bytes long, so it reads the spare
word); the check of the number of inodes in `mkfs` allows one block too many
(usr/mkfs.c:232); `iget` after an I/O error puts a slot whose `i_nlink` is the
last owner's (ken/iget.c:66-69); `smount` chooses a slot of the mount table and
sleeps before it fills it (ken/sys3.c:97-118); a signal that comes between the
look in `sleep` and SWAIT waits for the wakeup (ken/slp.c:22, for sleeps at
`spl0`); `iput` writes an inode, its blocks and the free list in no order that a
crash would respect.

### What the violated runs show

* **swapper_exec.** `exec` adds DSIZE to `p_addr` and sleeps in `readi`
  (ken/sys1.c:104-108). If the swapping process picks it then, `xswap` writes
  and frees the wrong run of core: part of the neighbour's image becomes free
  and part of this one is never freed. h/proc.h:22 calls `p_addr` the "address
  of swappable image".
* **swapper_full.** With core and swap space full, `newproc` sleeps as the
  child, which stands on its parent's core and is not locked
  (ken/slp.c:411-420); `sched` may swap it out and free the parent's core.
  ken/text.c:5-7 says that the copy for a child leaves core alone.
* **pipe_readers.** The last close of the writing side calls `iput`, whose
  `prele` clears the lock that a reader asleep in `readi` holds
  (ken/iget.c:104). A second reader comes in and reads the same bytes.
  ken/pipe.c:181-183 describes `plock` as exclusive.

## 4. Fairness

BufCache, Pipe, FileBlocks, Names and Terminal have liveness properties.

* `WF(IdeIntr)`: the controller interrupts when it is done with a sector. The
  code has no timeout for the disk and relies on this.
* `WF(Continue(p))`, `WF(Step(p))`: a process that is awake in the kernel goes
  on. It is not preempted there, `swtch` picks a ready process with a kernel
  priority before any in user mode, and among equals it goes round the table.
* `WF(Device)` in Terminal: the UART interrupts when it has sent its character
  and the clock ticks. The code has no other way to go on with the output.
  Typing is not fair: nobody has to type.
* `WF(End(p))`: a caller that works with one buffer, or with the second of two,
  goes on and gives it back. To give a buffer back takes no other buffer, but
  several callers keep one while they get more: `exec` its scratch buffer while
  it reads the file (ken/sys1.c:36-112), `bmap` a block of addresses while
  `alloc` gets the next (ken/subr.c:70-109), `itrunc` one or two while `free`
  writes the list (ken/iget.c:165-177). They are `Keep`; then nothing is assumed
  about the buffer that is kept until the other call has come back, and whether
  it comes back is what `SleepersWake` is about.
* `SF(rbp[p] = NoBuf /\ End(p))`: the number of other buffers a caller gets is
  finite, so it gives the first back in the end: `exec` reads a file, `bmap` gets
  one block, `itrunc` frees what one block of addresses names.
* `SleepersWake` says `[]~Embrace => ...`: nobody is promised to wake once every
  buffer is kept by a sleeper. With 15 buffers and NEXEC 3 the code makes this
  unlikely, and does not exclude it.
* The buffers that `iinit` and `smount` keep for super blocks (ken/alloc.c:19)
  are never given back. They are not among the `NBUF`.
* The module goes no deeper than one kept buffer and then calls `bread` or
  `getblk`. An `exec` that reads a large file has its scratch buffer, a block
  of addresses or the first of `breada`, and one more.
* No call has to be made, no signal has to come and nobody has to close.

## 5. Proofs

TLC checks the instances of section 3; the theorems here hold for every value
of the constants that satisfies the assumption of the module. Every proof has
the same form: an invariant that is inductive, lemmas for the operators that
several actions share, one lemma per action, one that puts them together, and
theorems that read the properties off. TLC finds the invariants of this section
true on the instances of section 3 as well (`Shared`, which quantifies over all
units, by its two consequences `CoreOwned` and `SwapOwned`). The properties in
the tables are those the runs check; where a theorem says less or something
else, its statement is in the table.

### Maps: RMapProofs, MapClientsProofs

RMapProofs holds lemmas about the operators alone and assumes nothing about
constants; Swapper's proofs use the same ones.

| Lemma | Says |
|---|---|
| `MallocSome`, `MallocPart`, `MallocExact` | `malloc` takes the low end of a run that is free, and the map stays in order |
| `MallocNone`, `FreeRunInEntry` | `malloc` returns 0 only when no entry is large enough, and a run of free units is inside one entry |
| `MfreeBoth`, `MfreeRun` and those for one neighbour or none | `mfree` of a run that is not free adds its units, joined with the neighbours it touches |

A map is in order (`InForm`) when every entry has a positive size and address
and ends before the next one begins, with a gap. The gap is what makes the
claim about failure true: an `mfree` that left two touching entries apart would
keep all units and still refuse a request that fits.

| Theorem (MapClientsProofs) | Statement |
|---|---|
| TypeCorrect | `Spec => []TypeOK` |
| NoUnitLost | `Spec => []Conserved` |
| StaysSorted | `Spec => []Sorted` |
| FailsOnlyWhenItMust | `Spec => []FailsOnlyWhenFull` |
| ArrayLargeEnough | `Spec => []EntriesBounded` |

`ArenaAssumption`: the arena is not empty and does not contain unit 0, which
`malloc` returns for failure, and nobody asks for 0 units. The invariant adds
to `Conserved` that the map is in order and the live runs are a finite set.
`EntriesBounded` is then a count: the unit that follows an entry, except the
last, is not free, so it is in a live run, and no run is in two gaps, because
there are free units between them.

### Cache and driver: BufCacheProofs

`BufAssumption`: the bad blocks are blocks, NoBlk is not one, Val is not empty
and does not contain Unread, the numbers are positive, the blocks of addresses
(Indirect) are blocks, Calls is a function into sets of calls. Processes, buffers, blocks and values are any number of them.

| Theorem | Statement |
|---|---|
| Invariant | `Spec => []IInv` |
| TypeCorrect | `Spec => []TypeOK` |
| AvailableIffNotBusy | `Spec => []AvailIffNotBusy` |
| QueueIsSound | `Spec => []QueueSound` |
| BuffersAreExclusive | `Spec => []Exclusive` |
| BlocksAreSingle | `Spec => []OneBufferPerBlock` |

None of the four properties is inductive alone. That the interrupt may take
the first request and release its buffer without making a list wrong needs the
queue to hold busy buffers only; that a queued buffer is busy needs that nobody
else releases it, so claims must be exclusive, also towards `B_ASYNC`; that the
holder of a buffer may put it in the queue needs that it is not there yet,
which depends on where the process is. `IInv` collects this:

* `CacheType`, `ProcType` - types;
* `AvailIffNotBusy`, `Exclusive` - as in BufCache;
* `QueueInv`, `QueueFit` - the queue agrees with the controller; requests are
  for blocks of the disk; only the swap buffer is B_PHYS and it is never
  asynchronous;
* `FlagsSound` - a delayed write is of valid data that has a block, and only a
  busy buffer is asynchronous;
* `ProcInv` - what a process has at each place: between `getblk` and the
  driver a buffer is not in the queue, nor is one that is kept during another
  call; the first buffer of `breada` has a block.

The argument: three lemmas say what appending, taking the head and unlinking do
to a list without repetitions; `BrelseSettles`, `IodoneSettles` and
`StrategyKeeps` say once what `brelse`, `iodone` and `rkstrategy` do to the
cache, whoever calls them; `OtherKeeps` and `ExclusiveKeeps` carry the other
processes over; then there is one lemma per action, and `NextIInv` puts them
together. `BlocksAreSingle` needs `IInv` only for the types: a block is given
to a buffer only by `GetblkReassign`, whose guard has just seen that no buffer
has it; `NextBlocks` shows that every other step keeps or drops associations.

### The cache as a store: BufCacheProofs

| Theorem | Statement |
|---|---|
| CleanMatches | `Spec => []CleanMatchesDisk` |
| CacheIsStore | `Spec => ImplementsStore`, that is `Store!Spec` under `Contents` and `View` |

The same assumption. The invariant `DInv` is added to `IInv` and
`OneBufferPerBlock`:

* `CleanMatchesDisk` - as in BufCache;
* `Transfer` - the controller has the direction and the data of the buffer it
  works on, so that what a write leaves on the disk is what the buffer has;
* `ErrorsOutside` - only buffers past the end of the disk have `B_ERROR`, so an
  error never costs the contents of a block;
* `Scratch` - a buffer without a block is never `B_DONE`, so its holder sees
  nothing, as the store wants, also when it was kept during another call.

What a block is to the callers is what its one buffer shows (`Here`): its data
if it is done or queued to be written, the disk otherwise. `SameContents`,
`PutContents` and `MovedContents` say when a step that touches one buffer leaves
all blocks, gives one block new contents, or moves a clean buffer to another
block; `BrelseData` and `StrategyData` say it for `brelse` and `rkstrategy`.
Each action is then a stutter of the store (getblk's claims, the start and the
end of every transfer, read-ahead, flushing, swapping), an `Acquire` (getblk,
bread and iowait return, and `Back`: the caller sees its first buffer again), a
`Release` (brelse, and `Keep`: the caller has the view of the other buffer until
it goes back), or a `Write` (bwrite, bawrite, bdwrite on
a block of the disk; past its end a write is a `Release`). The interrupt is the
interesting stutter: it ends a read by filling the buffer with what the block
already showed, and a write by giving the disk what the buffer already showed.

### Swapping: SwapperProofs

`SwapperAssumption`: at least one slot, images and the saved u area have a
size, core and swap space hold at least one of them.

| Theorem | Statement |
|---|---|
| TypeCorrect | `Spec => []TypeOK` |
| ReadyNoticed | `Spec => []ReadyIsNoticed` |
| CoreHasOneOwner | `Spec => []CoreOwned` |
| SwapHasOneOwner | `Spec => []SwapOwned` |
| ParentStaysPut | `Spec => []ParentStays` |

Who owns what is a function from owners to sets of units (`CoreOf`, `SwapOf`):
a process in core, an image outside, a copy that `newproc` writes, the block of
a zombie, the block `exit` is writing, and the run the swapping process has
taken but not yet entered in the table. `Shared` says that owners and free list
partition the arena; `Kept`, `Moved`, `Taken` and `Given` are the ways a step
can change it, and with RMapProofs each action is one or two of them. To know
which, the invariant says what a process can be doing in each state (`Shape`),
that a child being copied is asleep, locked and has a parent that stays as it is
(`Copying`), that the zombie `wait` has found is still one (`Reaping`), and that
what the swapping process moves has no SLOAD and is not moved by anyone else
(`Moving`). This holds while swap space is not full at a `newproc`, and without
`exec`: SwapperRaces shows what is lost otherwise.

### Pipes: PipeProofs

`PipeAssumption`: readers and writers are finite, disjoint and not empty, the
size and the counts are positive.

| Theorem | Statement |
|---|---|
| TypeCorrect | `Spec => []TypeOK` |
| NoLostWakeup | `Spec => []SleepIsJustified` |
| LockHolds | `Spec => [](BothOpen => LockExcludes)` |
| OrderKept | `Spec => [](f_count["w"] > 0 \/ OneReader => InOrder)` |
| EofHonest | `OneReader /\ Spec => []EofIsTrue` |

`LockExcludes` and, with several readers, `InOrder` and `EofIsTrue` are not
invariants of the code: run pipe_readers shows how the last writer's close
breaks the lock. The theorems say exactly how far they hold: the lock while
both sides are open, order as long as somebody can write or with one reader,
end of file for one reader; the `pipe` run checks the instance with one reader.
The invariant has the references as numbers of processes (`Counted`), a holder
for every lock (`Locked`), no reader in `readi` while another waits for data
(`Idle`), and, while the lock excludes, where the bytes between head and tail
are (`Held`): the head is in the file structure, or in the reader that is in
the middle of `readi`.

### Inodes, files and names: NamesProofs, LinksProofs

`NamesAssumption`: processes are finite, there is at least one slot, the root is
a directory, the tree has entries with inode numbers, and the calls are calls.

| Theorem | Statement |
|---|---|
| TypeCorrect | `Spec => []TypeOK` |
| InodesUnique | `Spec => []UniqueInode` |
| CountsRight | `Spec => []CountIsReferences` |
| DescriptorsRight | `Spec => []DescriptorsCounted` |
| NamesBacked (LinksProofs) | `Spec => []NamedInodesLive` |

Each is about states in which every process sleeps or has returned (`Settled`);
the invariant `Inv` is about every state, and about a halted one only that the
variables have their types. Its parts:

* `Users` - what a process has at hand at each place (`Holding`: which of
  `slot`, `ip`, `pdir` and `fd` it has), where it may go from there (`Going`)
  and which name or number it still needs (`Naming`). This is the contract
  between `iget`, `iput` and their callers, which the code leaves implicit;
* `Parked` - one process runs, the others are where a process may sleep or be
  woken;
* `Unique`, `SlotsFree` - one slot an inode, and a slot without references is
  empty;
* `Counted` - the count of a slot is the number of its references, kind by
  kind;
* `Exclusive` - an inode that is being read, truncated or written has one
  reference and is locked, and `update` is not at it. It is the reason why
  `iget` may take the first slot with count 0: nobody is left who would write to
  it after a sleep;
* `FilesOK`, `Execs` - the same for `f_count` and `execnt`;
* `Dirs` - only directories are searched and entered in.

A step of the code moves one process (`Shift`) and may wake others, which stay
as they are but for their place (`Alike`). So the proof has three layers. One
lemma for each way a process can go on (`Keeps`, `Takes`, `Gives`, `Evens`) says
that what it has fits its new place, and whether it has gained or lost a
reference. A few lemmas about the table say what that means for all slots:
`TableInv` for a step that changes an inode and no count, `CountedStep` and
`PutStep` for one that does, `StillInv` for files. Then each action is one
or two of them. The cardinalities are counted kind by kind, and a process
appears in each kind at most once, so a step adds 1, 0 or -1 to each;
`CountsRight` joins the kinds in the end, because `CountIsReferences` counts
their union. A process that closes a file or changes its directory has a
reference that is counted at its old place until it is done, which is why
`References` leaves out the slots of those calls.

For `NamedInodesLive` LinksProofs adds `Linkage`, the links of an inode against
the entries that name it:

* `Linked` - i_nlink is at least the `Tally`, in core if the inode is there and
  on disk otherwise: the entries, and the creators that have the inode and have
  not yet written its entry, less the `link`s that have written an entry and not
  yet counted it. An inode with an entry or a creator is allocated;
* `Clean` - an inode that is not marked as changed is on disk as it is in core,
  so that nothing is lost when its slot goes to another;
* `Apt` - what `link`, `chdir` and the current directory refer to is allocated,
  a slot that is read into holds the inode that was asked for, and `itrunc` is
  only at an inode without links;
* `Rooted` - the root stays in the first slot.

An entry is written and its link counted in two steps, in either order, with
sleeps in between: `creat` and `mknod` count before they write, `link` after,
and `unlink` counts after it has cleared the entry. `Tally` is what none of them
changes at the moment when only one half is done.

### Terminals: TerminalProofs

`TerminalAssumption`: processes are finite, blocks hold at least one character,
the low-water mark is not above the high one, keys and texts are of 7 bits.

| Theorem | Statement |
|---|---|
| TypeCorrect | `Spec => []TypeOK` |
| BlocksKept | `Spec => []BlocksConserved` |
| DelimitersRight | `Spec => []DelimitersCounted` |

Lemmas say of `Putc`, `Getc`, `Drain` and `Flushed` what they do to one queue,
that they leave the others alone and that the number of blocks stays the same,
also when a block is begun, emptied or not to be had; `Ttyoutput` and `Ttstart`
are built from them. The invariant adds that TIMEOUT and the callout agree
(`Timed`), that what is in `outq` can be put out, a process between the putc's of a line has a text,
and that only one process is
between the `getc` of a delimiter and `t_delct--` (`Alone`), which is why the
difference between count and queue is at most one.

### Only model-checked

* Liveness: `SleepersWake`, `HangupUnblocks`, `CallsReturn`. Fairness and
  ENABLED are outside the prover's reach here.
* Terminal's `InOrder` compares `canq` with an edited line computed by a fold,
  and a statement about a fold over any sequence needs induction over data.
* FileBlocks: the free list is read by a recursion over its pieces, and the
  first volume by a fold over the blocks `mkfs` frees; both need that induction.
* SwapperRaces, which exists for its violations.

## 6. What the models leave out

* Errors from the controller: the driver does not look at the status register,
  so a failed transfer is a successful one to the kernel.
* More than one disk. Requests of several minor devices share the one queue.
* Priorities, nice, `runrun`: which ready process runs is left open.
* Shared text (never set in this port) and tracing (compiled out).
* `exit` when there is no swap block at all (it panics).
* A read or write of 0 bytes on a pipe; the truncation and freeing of the
  pipe's inode at the very end.
* Two processes in one file at a time: `rdwr` does not lock the inode, and two
  writers that both find a block missing lose one. FileBlocks keeps them apart
  (`Alone`). `seek` and special files; read-ahead (it is in BufCache).
* Owners, permissions and times of files: `access` and `suser` may say either.
  Directories and the i list of more than one block. `f_count` as a char.
* The image that `exec` builds, its arguments and its stack: sequential code on
  the process's own memory.
* Tabs, columns, parity, upper-case terminals, the quit signal and core dumps;
  `gtty`, which changes nothing; the keyboard's tables.
* A crash. The kernel has no recovery of its own.

### Not modelled

* **mount**: a second volume in every module of the file system; Names with one
  is near the limit of what TLC does in a run.
* **Context switch, port I/O, memory device, printf**: machine code, registers
  and output without state.
* **User programs, boot loader, image tools**: sequential programs outside the
  kernel.

## 7. Plan

The system is modelled as far as planned, and the theorems about maps, cache,
swapping, pipes, terminals, inodes, files and names are proved. What is left, in
this order:

1. **FileBlocks** - what does not go through the recursion of `Listed`.
2. **BufCache** - two kept buffers, and `breada` while one is kept.
