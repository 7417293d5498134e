------------------------------ MODULE BufCache ------------------------------
(***************************************************************************)
(* The buffer cache (dmr/bio.c) on top of the disk driver (dmr/rk.c) and   *)
(* the IDE controller (dmr/ide.c), with the swap buffer that shares their  *)
(* queue.                                                                  *)
(*                                                                         *)
(* The kernel is not preemptive: a process runs until it sleeps, and only  *)
(* the disk interrupt comes in between, wherever interrupts are enabled.   *)
(* So a step of a process is a stretch of code without a sleep that an     *)
(* interrupt cannot split with any effect, and IdeIntr is a step of the    *)
(* controller.  There is one disk: b_dev and b_blkno together are a member *)
(* of Blk, or NoBlk when b_dev is NODEV or 0xff.  The list headed by       *)
(* rktab.b_forw is the set of buffers whose block is not NoBlk; the        *)
(* av_forw list is a sequence, once for the available buffers and once for *)
(* the driver's queue.                                                     *)
(*                                                                         *)
(* A buffer that holds the super block of a mounted disk is never given    *)
(* back (alloc.c:19); such buffers are not among the NBUF of this module.  *)
(* Of a process that keeps buffers while it gets another the module has    *)
(* the case of one, and a call of bread or getblk; in the code an exec may *)
(* have its scratch buffer, a block of addresses and one from breada.      *)
(***************************************************************************)
EXTENDS Integers, Sequences, FiniteSets

CONSTANTS
    Proc,       \* processes
    NBUF,       \* number of buffers
    Blk,        \* blocks of the disk
    BadBlk,     \* those of them that are past the end, blkno >= NRKBLK
    Indirect,   \* those of them that hold addresses of other blocks
    Val,        \* contents of a block
    NoBlk,      \* no block: NODEV, or dissociated after an error
    Unread,     \* the contents of a view without contents
    SwapSectors,\* sectors in a swap transfer
    Calls       \* the kinds of call each process makes

ASSUME BufAssumption ==
    /\ BadBlk \subseteq Blk /\ Indirect \subseteq Blk
    /\ NoBlk \notin Blk
    /\ NBUF \in Nat \ {0}
    /\ Val # {} /\ Unread \notin Val
    /\ SwapSectors \in Nat \ {0}
    /\ Calls \in [Proc -> SUBSET {"bread", "breada", "getblk", "nodev", "keep",
                                  "bflush", "swap", "bwrite", "bawrite",
                                  "bdwrite"}]

VARIABLES
    b_flags,    \* flags of every header
    b_blk,      \* block each buffer is associated with
    b_data,     \* contents of each buffer
    avail,      \* the available list, oldest first
    fwanted,    \* B_WANTED of bfreelist
    actq,       \* the driver's queue, rktab.d_actf first
    io,         \* the transfer the controller works on
    disk,       \* contents of the disk
    wchan,      \* p_wchan
    pc,         \* where each process is
    op,         \* on whose behalf it runs getblk or iowait
    want,       \* the arguments of that call: block, read-ahead block
    bp,         \* the buffer it works with
    rbp         \* breada's first buffer, or one it keeps while it works with
                \* another

cacheVars == <<b_flags, b_blk, avail, fwanted, actq, io>>
procVars  == <<pc, op, want, bp, rbp>>
vars == <<b_flags, b_blk, b_data, avail, fwanted, actq, io, disk, wchan,
          pc, op, want, bp, rbp>>

Flag == {"B_READ", "B_DONE", "B_ERROR", "B_BUSY", "B_PHYS", "B_WANTED",
         "B_ASYNC", "B_DELWRI"}

\* Buffer headers, their sleep channels, and what is none of them: a null
\* pointer, and p_wchan of a process that is not asleep.
Buf       == 1..NBUF
swbuf     == -1
bfreelist == -2
NoBuf     == 0
NoChan    == 0

Hdr  == Buf \cup {swbuf}
Chan == Hdr \cup {bfreelist}
PC   == {"user", "breada", "ahead", "getblk", "got", "iowait", "hold",
         "back", "bflush", "swap", "swapio"}
Op   == {"bread", "breada", "ra", "getblk", "bwrite"}

NoIO == [buf |-> NoBuf, left |-> 0, read |-> FALSE, val |-> Unread]

\* Somebody has the block in a buffer: incore().
Incore(b) == \E x \in Buf : b_blk[x] = b

\* A process can run.
Awake(p) == wchan[p] = NoChan

\* wakeup() on every channel in C.
Wakeup(C) ==
    wchan' = [p \in Proc |-> IF wchan[p] \in C THEN NoChan ELSE wchan[p]]

\* p calls sleep(c, ...).
Sleep(p, c) == wchan' = [wchan EXCEPT ![p] = c]

\* s without its i-th element: a buffer unlinked from the list by notavail().
Unlink(s, i) == [k \in 1..(Len(s) - 1) |-> IF k < i THEN s[k] ELSE s[k + 1]]

\* The position of a buffer on the available list.
Place(x) == CHOOSE i \in DOMAIN avail : avail[i] = x

-----------------------------------------------------------------------------
(* brelse, iodone, rkstrategy and rkintr.  In each of them fl is the value *)
(* of b_flags of the buffer when it is called and av the available list.   *)

\* The waiters are woken, a buffer with an error loses its block, and the
\* buffer goes to the end of the available list.
Brelse(x, fl, av) ==
    /\ Wakeup((IF "B_WANTED" \in fl THEN {x} ELSE {}) \cup
              (IF fwanted THEN {bfreelist} ELSE {}))
    /\ fwanted' = FALSE
    /\ b_blk' = IF "B_ERROR" \in fl THEN [b_blk EXCEPT ![x] = NoBlk] ELSE b_blk
    /\ b_flags' = [b_flags EXCEPT ![x] = fl \ {"B_WANTED", "B_BUSY", "B_ASYNC"}]
    /\ avail' = Append(av, x)

\* A slip: iodone releases every buffer, whoever waits for it.
IodoneReleases(x, fl, av) ==
    IF x \in Buf
    THEN Brelse(x, fl \cup {"B_DONE"}, av)
    ELSE /\ b_flags' = [b_flags EXCEPT
                          ![x] = (fl \cup {"B_DONE"}) \ {"B_WANTED"}]
         /\ Wakeup({x})
         /\ avail' = av
         /\ UNCHANGED <<b_blk, fwanted>>

\* A slip: iodone wakes only if B_WANTED is on, which iowait never sets.
IodoneWakesIfWanted(x, fl, av) ==
    IF "B_ASYNC" \in fl
    THEN Brelse(x, fl \cup {"B_DONE"}, av)
    ELSE /\ b_flags' = [b_flags EXCEPT
                          ![x] = (fl \cup {"B_DONE"}) \ {"B_WANTED"}]
         /\ Wakeup(IF "B_WANTED" \in fl THEN {x} ELSE {})
         /\ avail' = av
         /\ UNCHANGED <<b_blk, fwanted>>

\* iodone releases the buffer only if nobody reads it.
Iodone(x, fl, av) ==
    IF "B_ASYNC" \in fl
    THEN Brelse(x, fl \cup {"B_DONE"}, av)
    ELSE /\ b_flags' = [b_flags EXCEPT
                          ![x] = (fl \cup {"B_DONE"}) \ {"B_WANTED"}]
         /\ Wakeup({x})
         /\ avail' = av
         /\ UNCHANGED <<b_blk, fwanted>>

\* devstart and ideio: the request the controller is given.  The data of a
\* write goes to the controller here.
Devstart(x, fl, data) ==
    [buf  |-> x,
     left |-> IF "B_PHYS" \in fl THEN SwapSectors ELSE 1,
     read |-> "B_READ" \in fl,
     val  |-> IF "B_PHYS" \in fl \/ "B_READ" \in fl THEN Unread ELSE data]

PastEnd(x) == x \in Buf /\ b_blk[x] \in BadBlk

\* rkstrategy: a block past the end of the disk is an error at once, any
\* other is put at the end of the queue, and started if the disk is idle.
Strategy(x, fl, av, data) ==
    IF PastEnd(x)
    THEN Iodone(x, fl \cup {"B_ERROR"}, av) /\ UNCHANGED <<actq, io>>
    ELSE /\ b_flags' = [b_flags EXCEPT ![x] = fl]
         /\ avail' = av
         /\ actq' = Append(actq, x)
         /\ io' = IF io = NoIO THEN Devstart(x, fl, data) ELSE io
         /\ UNCHANGED <<b_blk, fwanted, wchan>>

\* A slip: the sectors that are left are counted without a test.
IdeNextSectorUncounted ==
    /\ io # NoIO
    /\ io' = [io EXCEPT !.left = @ - 1]
    /\ UNCHANGED <<b_flags, b_blk, b_data, avail, fwanted, actq, disk, wchan,
                   procVars>>

\* The disk interrupts: one sector of a longer transfer is done.
IdeNextSector ==
    /\ io.left > 1
    /\ io' = [io EXCEPT !.left = @ - 1]
    /\ UNCHANGED <<b_flags, b_blk, b_data, avail, fwanted, actq, disk, wchan,
                   procVars>>

\* A slip: rkintr does not start the next request.
RkstartForgotten(q) == NoIO

\* The request after the one that is done: rkstart.
Rkstart(q) ==
    IF q = <<>> THEN NoIO ELSE Devstart(q[1], b_flags[q[1]], b_data[q[1]])

\* The disk interrupts: the transfer is done.  ideintr moves the data, rkintr
\* takes the request off the queue, calls iodone and starts the next one.
IdeDone ==
    /\ io.left = 1
    /\ LET x == actq[1]
       IN  /\ b_data' = IF io.read /\ io.buf \in Buf
                        THEN [b_data EXCEPT ![io.buf] = disk[b_blk[io.buf]]]
                        ELSE b_data
           /\ disk' = IF ~io.read /\ io.buf \in Buf
                      THEN [disk EXCEPT ![b_blk[io.buf]] = io.val]
                      ELSE disk
           /\ actq' = Tail(actq)
           /\ io' = Rkstart(Tail(actq))
           /\ Iodone(x, b_flags[x], avail)
    /\ UNCHANGED procVars

IdeIntr == IdeNextSector \/ IdeDone

-----------------------------------------------------------------------------
(* getblk: want[p].blk is its argument.                                     *)

Goto(p, l) == pc' = [pc EXCEPT ![p] = l]

\* A call of l on behalf of o, for block b, with r to read ahead.
Call(p, l, o, b, r) ==
    /\ Goto(p, l)
    /\ op' = [op EXCEPT ![p] = o]
    /\ want' = [want EXCEPT ![p] = [blk |-> b, ra |-> r]]

\* The call returns and its arguments are gone: to the holder of the buffer
\* it got, or to user mode, or to the buffer that was kept meanwhile.
Hold(p) == Call(p, "hold", "getblk", NoBlk, NoBlk)
Return(p) ==
    /\ Call(p, IF rbp[p] = NoBuf THEN "user" ELSE "back", "getblk", NoBlk, NoBlk)
    /\ bp' = [bp EXCEPT ![p] = NoBuf]

InGetblk(p) == Awake(p) /\ pc[p] = "getblk"

\* The block is in a buffer that somebody uses: wait and look again.
GetblkBusy(p) ==
    /\ InGetblk(p)
    /\ \E x \in Buf :
          /\ b_blk[x] = want[p].blk /\ want[p].blk # NoBlk
          /\ "B_BUSY" \in b_flags[x]
          /\ b_flags' = [b_flags EXCEPT ![x] = @ \cup {"B_WANTED"}]
          /\ Sleep(p, x)
    /\ UNCHANGED <<b_blk, b_data, avail, fwanted, actq, io, disk, procVars>>

\* A slip: the buffer is marked busy and left on the available list.
GetblkHitStaysAvailable(p) ==
    /\ InGetblk(p)
    /\ \E x \in Buf :
          /\ b_blk[x] = want[p].blk /\ want[p].blk # NoBlk
          /\ "B_BUSY" \notin b_flags[x]
          /\ b_flags' = [b_flags EXCEPT ![x] = @ \cup {"B_BUSY"}]
          /\ bp' = [bp EXCEPT ![p] = x]
    /\ Goto(p, "got")
    /\ UNCHANGED <<b_blk, b_data, avail, fwanted, actq, io, disk, wchan,
                   op, want, rbp>>

\* The block is in a buffer that is free: take it.
GetblkHit(p) ==
    /\ InGetblk(p)
    /\ \E x \in Buf :
          /\ b_blk[x] = want[p].blk /\ want[p].blk # NoBlk
          /\ "B_BUSY" \notin b_flags[x]
          /\ avail' = Unlink(avail, Place(x))
          /\ b_flags' = [b_flags EXCEPT ![x] = @ \cup {"B_BUSY"}]
          /\ bp' = [bp EXCEPT ![p] = x]
    /\ Goto(p, "got")
    /\ UNCHANGED <<b_blk, b_data, fwanted, actq, io, disk, wchan,
                   op, want, rbp>>

\* A slip: the search passes over busy buffers.
NeedsBufferIgnoresBusy(p) ==
    /\ InGetblk(p)
    /\ ~ \E x \in Buf : /\ b_blk[x] = want[p].blk /\ want[p].blk # NoBlk
                        /\ "B_BUSY" \notin b_flags[x]

\* The block is not in core, so a buffer is needed for it.
NeedsBuffer(p) ==
    /\ InGetblk(p)
    /\ want[p].blk # NoBlk => ~Incore(want[p].blk)

\* No buffer is free: wait for one and look again.
GetblkEmpty(p) ==
    /\ NeedsBuffer(p)
    /\ avail = <<>>
    /\ fwanted' = TRUE
    /\ Sleep(p, bfreelist)
    /\ UNCHANGED <<b_flags, b_blk, b_data, avail, actq, io, disk, procVars>>

\* A slip: bwrite leaves B_DONE on.
BwriteFlagsDone(fl) == fl \ {"B_READ", "B_ERROR", "B_DELWRI"}

\* The flags bwrite leaves, given those of the buffer it is called with.
BwriteFlags(fl) == fl \ {"B_READ", "B_DONE", "B_ERROR", "B_DELWRI"}

\* The oldest free buffer has a delayed write: start it and look again.
GetblkDelwri(p) ==
    /\ NeedsBuffer(p)
    /\ avail # <<>>
    /\ "B_DELWRI" \in b_flags[avail[1]]
    /\ LET x == avail[1]
       IN  Strategy(x, BwriteFlags(b_flags[x] \cup {"B_BUSY", "B_ASYNC"}),
                    Tail(avail), b_data[x])
    /\ UNCHANGED <<b_data, disk, procVars>>

\* A slip: a buffer is reassigned without a look at its delayed write.
GetblkReassignAny(p) ==
    /\ NeedsBuffer(p)
    /\ avail # <<>>
    /\ LET x == avail[1]
       IN  /\ b_flags' = [b_flags EXCEPT ![x] = {"B_BUSY"}]
           /\ b_blk' = [b_blk EXCEPT ![x] = want[p].blk]
           /\ avail' = Tail(avail)
           /\ bp' = [bp EXCEPT ![p] = x]
    /\ Goto(p, "got")
    /\ UNCHANGED <<b_data, fwanted, actq, io, disk, wchan, op, want, rbp>>

\* The oldest free buffer is given to the block.
GetblkReassign(p) ==
    /\ NeedsBuffer(p)
    /\ avail # <<>>
    /\ "B_DELWRI" \notin b_flags[avail[1]]
    /\ LET x == avail[1]
       IN  /\ b_flags' = [b_flags EXCEPT ![x] = {"B_BUSY"}]
           /\ b_blk' = [b_blk EXCEPT ![x] = want[p].blk]
           /\ avail' = Tail(avail)
           /\ bp' = [bp EXCEPT ![p] = x]
    /\ Goto(p, "got")
    /\ UNCHANGED <<b_data, fwanted, actq, io, disk, wchan, op, want, rbp>>

Getblk(p) == \/ GetblkBusy(p)   \/ GetblkHit(p)      \/ GetblkEmpty(p)
             \/ GetblkDelwri(p) \/ GetblkReassign(p)

-----------------------------------------------------------------------------
(* The calls.  A process in "user" asks for something; want is what for.    *)

Idle(p) == Awake(p) /\ pc[p] = "user"

\* bread(dev, b)
Bread(p, b) ==
    /\ Idle(p)
    /\ Call(p, "getblk", "bread", b, NoBlk)
    /\ UNCHANGED <<cacheVars, b_data, disk, wchan, bp, rbp>>

\* breada(dev, b, r); r = 0 is NoBlk.
Breada(p, b, r) ==
    /\ Idle(p)
    /\ Call(p, "breada", "breada", b, r)
    /\ UNCHANGED <<cacheVars, b_data, disk, wchan, bp, rbp>>

\* getblk(dev, b), to overwrite the block, or getblk(NODEV) for scratch.
GetblkCall(p, b) ==
    /\ Idle(p)
    /\ Call(p, "getblk", "getblk", b, NoBlk)
    /\ UNCHANGED <<cacheVars, b_data, disk, wchan, bp, rbp>>

\* bflush(dev), from update and umount.
BflushCall(p) ==
    /\ Idle(p)
    /\ Goto(p, "bflush")
    /\ UNCHANGED <<cacheVars, b_data, disk, wchan, op, want, bp, rbp>>

\* swap(...): rdflg is remembered as the operation.
SwapCall(p, rdflg) ==
    /\ Idle(p)
    /\ Call(p, "swap", IF rdflg THEN "bread" ELSE "bwrite", NoBlk, NoBlk)
    /\ UNCHANGED <<cacheVars, b_data, disk, wchan, bp, rbp>>

-----------------------------------------------------------------------------
(* What a process does when getblk returns.                                 *)

Got(p, o) == Awake(p) /\ pc[p] = "got" /\ op[p] = o

\* getblk itself was called: the caller has the buffer.
GotGetblk(p) ==
    /\ Got(p, "getblk")
    /\ Hold(p)
    /\ UNCHANGED <<cacheVars, b_data, disk, wchan, bp, rbp>>

\* bread finds the contents in the buffer, or starts to read them.
GotBread(p) ==
    /\ Got(p, "bread")
    /\ LET x == bp[p]
       IN  \/ /\ "B_DONE" \in b_flags[x]
              /\ Hold(p)
              /\ UNCHANGED <<cacheVars, wchan>>
           \/ /\ "B_DONE" \notin b_flags[x]
              /\ Strategy(x, b_flags[x] \cup {"B_READ"}, avail, b_data[x])
              /\ Call(p, "iowait", "bread", NoBlk, NoBlk)
    /\ UNCHANGED <<b_data, disk, bp, rbp>>

\* breada does the same for its first block but does not wait yet.
GotBreada(p) ==
    /\ Got(p, "breada")
    /\ rbp' = [rbp EXCEPT ![p] = bp[p]]
    /\ bp' = [bp EXCEPT ![p] = NoBuf]
    /\ LET x == bp[p]
       IN  \/ /\ "B_DONE" \in b_flags[x]
              /\ UNCHANGED <<cacheVars, wchan>>
           \/ /\ "B_DONE" \notin b_flags[x]
              /\ Strategy(x, b_flags[x] \cup {"B_READ"}, avail, b_data[x])
    /\ Goto(p, "ahead")
    /\ UNCHANGED <<b_data, disk, op, want>>

\* breada has a buffer for the block to read ahead.
GotAhead(p) ==
    /\ Got(p, "ra")
    /\ LET x == bp[p]
       IN  \/ /\ "B_DONE" \in b_flags[x]
              /\ Brelse(x, b_flags[x], avail)
              /\ UNCHANGED <<actq, io>>
           \/ /\ "B_DONE" \notin b_flags[x]
              /\ Strategy(x, b_flags[x] \cup {"B_READ", "B_ASYNC"}, avail,
                          b_data[x])
    /\ bp' = [bp EXCEPT ![p] = NoBuf]
    /\ Call(p, "ahead", "breada", want[p].ra, NoBlk)
    /\ UNCHANGED <<b_data, disk, rbp>>

-----------------------------------------------------------------------------
(* breada between its calls of getblk.  While it gets the block to read     *)
(* ahead, want[p].blk is that block and want[p].ra the one asked for.       *)

\* The test of incore before the first block is got.
BreadaFirst(p) ==
    /\ Awake(p) /\ pc[p] = "breada"
    /\ Goto(p, IF Incore(want[p].blk) THEN "ahead" ELSE "getblk")
    /\ UNCHANGED <<cacheVars, b_data, disk, wchan, op, want, bp, rbp>>

\* The test of incore before the second: whether to read ahead.
ReadsAhead(p) == want[p].ra # NoBlk /\ ~Incore(want[p].ra)

\* The rest of breada: read ahead, then either bread the first block or wait
\* for it.
BreadaAhead(p) ==
    /\ Awake(p) /\ pc[p] = "ahead"
    /\ \/ /\ ReadsAhead(p)
          /\ Call(p, "getblk", "ra", want[p].ra, want[p].blk)
          /\ UNCHANGED <<bp, rbp>>
       \/ /\ ~ReadsAhead(p)
          /\ rbp[p] = NoBuf
          /\ Call(p, "getblk", "bread", want[p].blk, NoBlk)
          /\ UNCHANGED <<bp, rbp>>
       \/ /\ ~ReadsAhead(p)
          /\ rbp[p] # NoBuf
          /\ Call(p, "iowait", "bread", NoBlk, NoBlk)
          /\ bp' = [bp EXCEPT ![p] = rbp[p]]
          /\ rbp' = [rbp EXCEPT ![p] = NoBuf]
    /\ UNCHANGED <<cacheVars, b_data, disk, wchan>>

\* iowait, one turn of its loop, and what its caller then does: bread and
\* breada return the buffer, bwrite releases it.
Iowait(p) ==
    /\ Awake(p) /\ pc[p] = "iowait"
    /\ LET x == bp[p]
       IN  \/ /\ "B_DONE" \notin b_flags[x]
              /\ Sleep(p, x)
              /\ UNCHANGED <<cacheVars, pc, op, want, bp>>
           \/ /\ "B_DONE" \in b_flags[x]
              /\ op[p] # "bwrite"
              /\ Hold(p)
              /\ UNCHANGED <<cacheVars, wchan, bp>>
           \/ /\ "B_DONE" \in b_flags[x]
              /\ op[p] = "bwrite"
              /\ Brelse(x, b_flags[x], avail)
              /\ Return(p)
              /\ UNCHANGED <<actq, io>>
    /\ UNCHANGED <<b_data, disk, rbp>>

-----------------------------------------------------------------------------
(* A caller gives its buffer back.  A caller whose read failed releases the *)
(* buffer unwritten (ken/rdwri.c), and a scratch buffer is never written.   *)

Holds(p) == Awake(p) /\ pc[p] = "hold"

\* A caller gets another buffer, with bread or getblk, and keeps this one: exec
\* its scratch buffer, bmap and itrunc a block of addresses.
Keep(p, o, b) ==
    /\ Holds(p) /\ rbp[p] = NoBuf
    /\ b_blk[bp[p]] \in Indirect \cup {NoBlk}
    /\ b_blk[bp[p]] \in Indirect => b \notin Indirect
    /\ rbp' = [rbp EXCEPT ![p] = bp[p]]
    /\ bp' = [bp EXCEPT ![p] = NoBuf]
    /\ Call(p, "getblk", o, b, NoBlk)
    /\ UNCHANGED <<cacheVars, b_data, disk, wchan>>

\* And when it is done with the other, goes on with this one.
Back(p) ==
    /\ Awake(p) /\ pc[p] = "back"
    /\ bp' = [bp EXCEPT ![p] = rbp[p]]
    /\ rbp' = [rbp EXCEPT ![p] = NoBuf]
    /\ Hold(p)
    /\ UNCHANGED <<cacheVars, b_data, disk, wchan>>

Writes(p, v) ==
    /\ Holds(p)
    /\ b_blk[bp[p]] # NoBlk
    /\ "B_ERROR" \notin b_flags[bp[p]]
    /\ b_data' = [b_data EXCEPT ![bp[p]] = v]

\* brelse(bp)
Release(p) ==
    /\ Holds(p)
    /\ Brelse(bp[p], b_flags[bp[p]], avail)
    /\ Return(p)
    /\ UNCHANGED <<b_data, actq, io, disk, rbp>>

\* bwrite(bp), without B_ASYNC: start the write and wait for it.
Bwrite(p, v) ==
    /\ Writes(p, v)
    /\ Strategy(bp[p], BwriteFlags(b_flags[bp[p]]), avail, v)
    /\ Call(p, "iowait", "bwrite", NoBlk, NoBlk)
    /\ UNCHANGED <<disk, bp, rbp>>

\* bawrite(bp): start the write; the interrupt will release the buffer.
Bawrite(p, v) ==
    /\ Writes(p, v)
    /\ Strategy(bp[p], BwriteFlags(b_flags[bp[p]] \cup {"B_ASYNC"}), avail, v)
    /\ Return(p)
    /\ UNCHANGED <<disk, rbp>>

\* bdwrite(bp): release the buffer, to be written before it is reassigned.
Bdwrite(p, v) ==
    /\ Writes(p, v)
    /\ Brelse(bp[p], b_flags[bp[p]] \cup {"B_DELWRI", "B_DONE"}, avail)
    /\ Return(p)
    /\ UNCHANGED <<actq, io, disk, rbp>>

-----------------------------------------------------------------------------
\* The available buffers that have a delayed write, by their place.
Dirty == {i \in DOMAIN avail : "B_DELWRI" \in b_flags[avail[i]]}

\* bflush, one turn of its loop: start the write of the first of them, or
\* return.
Bflush(p) ==
    /\ Awake(p) /\ pc[p] = "bflush"
    /\ \/ \E i \in Dirty :
             /\ \A j \in Dirty : i <= j
             /\ LET x == avail[i]
                IN  Strategy(x,
                        BwriteFlags(b_flags[x] \cup {"B_BUSY", "B_ASYNC"}),
                        Unlink(avail, i), b_data[x])
             /\ UNCHANGED <<pc, op, want, bp>>
       \/ /\ Dirty = {}
          /\ Return(p)
          /\ UNCHANGED <<cacheVars, wchan>>
    /\ UNCHANGED <<b_data, disk, rbp>>

\* swap waits until the swap buffer is free and starts the transfer.
SwapStart(p) ==
    /\ Awake(p) /\ pc[p] = "swap"
    /\ \/ /\ "B_BUSY" \in b_flags[swbuf]
          /\ b_flags' = [b_flags EXCEPT ![swbuf] = @ \cup {"B_WANTED"}]
          /\ Sleep(p, swbuf)
          /\ UNCHANGED <<b_blk, avail, fwanted, actq, io, pc>>
       \/ /\ "B_BUSY" \notin b_flags[swbuf]
          /\ Strategy(swbuf,
                 {"B_BUSY", "B_PHYS"} \cup
                     (IF op[p] = "bread" THEN {"B_READ"} ELSE {}),
                 avail, Unread)
          /\ Goto(p, "swapio")
    /\ UNCHANGED <<b_data, disk, op, want, bp, rbp>>

\* swap waits for the transfer and frees the swap buffer.
SwapWait(p) ==
    /\ Awake(p) /\ pc[p] = "swapio"
    /\ \/ /\ "B_DONE" \notin b_flags[swbuf]
          /\ Sleep(p, swbuf)
          /\ UNCHANGED <<b_flags, pc, op, want, bp>>
       \/ /\ "B_DONE" \in b_flags[swbuf]
          /\ Wakeup(IF "B_WANTED" \in b_flags[swbuf] THEN {swbuf} ELSE {})
          /\ b_flags' = [b_flags EXCEPT ![swbuf] = @ \ {"B_BUSY", "B_WANTED"}]
          /\ Return(p)
    /\ UNCHANGED <<b_blk, avail, fwanted, actq, io, b_data, disk, rbp>>

-----------------------------------------------------------------------------
\* binit, with the processes in user mode.
Init ==
    /\ b_flags = [x \in Hdr |-> {}]
    /\ b_blk = [x \in Buf |-> NoBlk]
    /\ b_data = [x \in Buf |-> CHOOSE v \in Val : TRUE]
    /\ avail = [i \in 1..NBUF |-> i]
    /\ fwanted = FALSE
    /\ actq = <<>>
    /\ io = NoIO
    /\ disk \in [Blk \ BadBlk -> Val]
    /\ wchan = [p \in Proc |-> NoChan]
    /\ pc = [p \in Proc |-> "user"]
    /\ op = [p \in Proc |-> "getblk"]
    /\ want = [p \in Proc |-> [blk |-> NoBlk, ra |-> NoBlk]]
    /\ bp = [p \in Proc |-> NoBuf]
    /\ rbp = [p \in Proc |-> NoBuf]

\* A process makes a call.
Begin(p) ==
    \/ "bread" \in Calls[p] /\ \E b \in Blk : Bread(p, b)
    \/ "breada" \in Calls[p] /\ \E b \in Blk, r \in Blk \cup {NoBlk} :
                                 b # r /\ Breada(p, b, r)
    \/ "getblk" \in Calls[p] /\ \E b \in Blk : GetblkCall(p, b)
    \/ "nodev" \in Calls[p] /\ GetblkCall(p, NoBlk)
    \/ "bflush" \in Calls[p] /\ BflushCall(p)
    \/ "swap" \in Calls[p] /\ \E rdflg \in BOOLEAN : SwapCall(p, rdflg)
    \/ "keep" \in Calls[p] /\ \E o \in {"bread", "getblk"}, b \in Blk : Keep(p, o, b)

\* A process that has a buffer gives it back.
End(p) ==
    \/ Release(p)
    \/ "bwrite" \in Calls[p] /\ \E v \in Val : Bwrite(p, v)
    \/ "bawrite" \in Calls[p] /\ \E v \in Val : Bawrite(p, v)
    \/ "bdwrite" \in Calls[p] /\ \E v \in Val : Bdwrite(p, v)

\* A process continues with the call it has made.
Continue(p) ==
    \/ Getblk(p)
    \/ GotGetblk(p) \/ GotBread(p) \/ GotBreada(p) \/ GotAhead(p)
    \/ BreadaFirst(p) \/ BreadaAhead(p)
    \/ Iowait(p) \/ Back(p)
    \/ Bflush(p)
    \/ SwapStart(p) \/ SwapWait(p)

Next ==
    \/ IdeIntr
    \/ \E p \in Proc : Begin(p) \/ Continue(p) \/ End(p)

\* The disk interrupts when it is done; swtch picks every process that is
\* awake in the kernel before any in user mode.  A caller gives a second buffer
\* back, and after a finite number of others also its first: exec reads a file,
\* bmap gets one block, itrunc frees what the block of addresses has.  No
\* process has to make another call.
Fairness ==
    /\ WF_vars(IdeIntr)
    /\ \A p \in Proc : /\ WF_vars(Continue(p)) /\ WF_vars(End(p))
                       /\ SF_vars(rbp[p] = NoBuf /\ End(p))

Spec == Init /\ [][Next]_vars /\ Fairness

-----------------------------------------------------------------------------
TypeOK ==
    /\ b_flags \in [Hdr -> SUBSET Flag]
    /\ b_blk \in [Buf -> Blk \cup {NoBlk}]
    /\ b_data \in [Buf -> Val]
    /\ avail \in Seq(Buf)
    /\ fwanted \in BOOLEAN
    /\ actq \in Seq(Hdr)
    /\ io \in [buf : Hdr \cup {NoBuf}, left : Nat, read : BOOLEAN,
               val : Val \cup {Unread}]
    /\ disk \in [Blk \ BadBlk -> Val]
    /\ wchan \in [Proc -> Chan \cup {NoChan}]
    /\ pc \in [Proc -> PC]
    /\ op \in [Proc -> Op]
    /\ want \in [Proc -> [blk : Blk \cup {NoBlk}, ra : Blk \cup {NoBlk}]]
    /\ bp \in [Proc -> Buf \cup {NoBuf}]
    /\ rbp \in [Proc -> Buf \cup {NoBuf}]

OnList(x, s) == \E i \in DOMAIN s : s[i] = x

NoTwice(s) == \A i, j \in DOMAIN s : s[i] = s[j] => i = j

\* buf.h:10: "A buffer is on the available list, and is liable to be
\* reassigned to another disk block, if and only if it is not marked BUSY",
\* and it is there once.  Every release and every claim, in a process or in
\* the interrupt, has to keep it.
AvailIffNotBusy ==
    /\ NoTwice(avail)
    /\ \A x \in Buf : OnList(x, avail) <=> "B_BUSY" \notin b_flags[x]

\* A block is in at most one buffer, although getblk sleeps between its search
\* and its claim.
OneBufferPerBlock ==
    \A x, y \in Buf : b_blk[x] = b_blk[y] /\ b_blk[x] # NoBlk => x = y

\* The driver's queue and the controller agree: the transfer in hand is that
\* of the first request, every request is of a busy buffer and is not done.
QueueSound ==
    /\ NoTwice(actq)
    /\ (io = NoIO) <=> (actq = <<>>)
    /\ actq # <<>> => io.buf = actq[1]
    /\ \A i \in DOMAIN actq : /\ "B_BUSY" \in b_flags[actq[i]]
                              /\ "B_DONE" \notin b_flags[actq[i]]

\* Buffers that p has claimed.
Claims(p) == {bp[p], rbp[p]} \ {NoBuf}

\* A buffer is marked busy so that nobody else can touch it (bio.c:31-32): a
\* buffer that a process has is busy, no other process has it, and the
\* interrupt will not release it.
Exclusive ==
    \A p \in Proc :
        /\ bp[p] # NoBuf => bp[p] # rbp[p]
        /\ \A x \in Claims(p) :
              /\ "B_BUSY" \in b_flags[x] /\ "B_ASYNC" \notin b_flags[x]
              /\ \A q \in Proc : x \in Claims(q) => q = p

\* A buffer that is done, holds no delayed write and had no error agrees with
\* the disk; so a bwrite that returns without an error is on the disk.
CleanMatchesDisk ==
    \A x \in Buf :
        /\ b_blk[x] \in Blk \ BadBlk
        /\ "B_DONE" \in b_flags[x] /\ "B_DELWRI" \notin b_flags[x]
        => b_data[x] = disk[b_blk[x]]

-----------------------------------------------------------------------------
(* The cache as a block store: the contents of a block are in its buffer if *)
(* that is valid or about to be written, on the disk otherwise.             *)

Newer(x) == \/ "B_DONE" \in b_flags[x]
            \/ OnList(x, actq) /\ "B_READ" \notin b_flags[x]

Contents ==
    [b \in Blk \ BadBlk |->
        IF \E x \in Buf : b_blk[x] = b /\ Newer(x)
        THEN b_data[CHOOSE x \in Buf : b_blk[x] = b /\ Newer(x)]
        ELSE disk[b]]

View ==
    [p \in Proc |->
        IF pc[p] = "hold"
        THEN [blk |-> b_blk[bp[p]],
              val |-> IF /\ "B_DONE" \in b_flags[bp[p]]
                         /\ "B_ERROR" \notin b_flags[bp[p]]
                      THEN b_data[bp[p]] ELSE Unread]
        ELSE [blk |-> NoBlk, val |-> Unread]]

Store == INSTANCE BlockStore WITH store <- Contents, view <- View

\* The cache implements the block store: callers of bread see what the last
\* caller of a write routine wrote, whatever was reassigned, written behind
\* or read ahead in between.
ImplementsStore == Store!Spec

\* "Deadly embraces waiting for free buffers are possible" (sys1.c:5): every
\* buffer is kept by a process that sleeps until it has another one.
Embrace ==
    \A x \in Buf : \E p \in Proc : rbp[p] = x /\ pc[p] = "getblk" /\ ~Awake(p)

\* No wakeup is lost: a process asleep in the cache is woken, whoever keeps
\* buffers, unless it comes to a deadly embrace.
SleepersWake ==
    []~Embrace => \A p \in Proc : wchan[p] # NoChan ~> wchan[p] = NoChan
=============================================================================
