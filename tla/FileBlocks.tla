----------------------------- MODULE FileBlocks -----------------------------
(***************************************************************************)
(* The blocks of a volume: alloc, free and update (ken/alloc.c), bmap      *)
(* (ken/subr.c), readi, writei and iomove (ken/rdwri.c) and itrunc         *)
(* (ken/iget.c), on a volume made by mkfs.                                 *)
(*                                                                         *)
(* A process runs until it sleeps, so a step is what it does between two   *)
(* sleeps; bread, getblk and bwrite may sleep each time they are called.   *)
(* words[b] is what bread finds in block b: the buffer cache gives back    *)
(* what was last written to a block (BlockStore).  Offsets, counts and     *)
(* sizes are in words.                                                     *)
(*                                                                         *)
(* rdwr does not lock the inode.  Here two processes are never in one file *)
(* at a time (Alone): what they share is the free list.                    *)
(***************************************************************************)
EXTENDS Mkfs, FiniteSets

CONSTANTS
    Procs,
    Proto,      \* sizes of the files of the prototype
    Transfers,  \* <<offset, count>> of the reads and writes
    MaxBn,      \* largest block number in a file, 077777 in the code
    MaxCalls    \* bound on the calls that change a file or the super block

ASSUME FileBlocksAssumption ==
    /\ IsFiniteSet(Procs)
    /\ Proto \in Seq(Nat)
    /\ Transfers \subseteq Nat \X (Nat \ {0})
    /\ MaxBn \in Nat /\ MaxBn < NADDR * BSIZE - BSIZE + BSIZE * BSIZE
    /\ MaxCalls \in Nat

VARIABLES
    s_free,     \* the free list in core, s_nfree entries long
    s_flock, s_fmod, updlock,
    sb,         \* the free list in the super block that was last written
    words,      \* contents of the blocks
    inode,      \* of each file: i_addr, ILARG, i_size
    u,          \* what each process is doing
    want,       \* ghost: what was written to each file since it was truncated
    calls

vars == <<s_free, s_flock, s_fmod, updlock, sb, words, inode, u, want, calls>>
fs == <<s_free, s_flock, s_fmod, sb, updlock>>

Files == 1..Len(Proto)

\* The words written to file f; no block number.
Val(f) == FSize + f

MaxWord == (MaxBn + 1) * BSIZE

\* The places where a process sleeps or is about to: "user" outside the
\* kernel; "alloc", "aflock" (asleep), "refill" and "agetblk" in alloc; "xfer"
\* in bread or getblk for the data; "free", "fflock" (asleep), "fgetblk" and
\* "fbwrite" in free; "sgetblk" and "sbwrite" in update.
PC == {"user", "alloc", "aflock", "refill", "agetblk", "xfer", "free", "fflock",
       "fgetblk", "fbwrite", "sgetblk", "sbwrite", "lost"}

\* What a process has at hand: the call, its file, u_offset and u_count; in
\* bmap what alloc is called for, the block, and whether the block of
\* addresses that is held is new; in itrunc the blocks still to be freed.
Idle == [pc |-> "user", op |-> "none", f |-> 0, off |-> 0, cnt |-> 0,
         ret |-> "none", bno |-> 0, fresh |-> FALSE, todo |-> <<>>]

Min2(a, b) == IF a < b THEN a ELSE b

At(p, l) == u[p].pc = l
Goto(p, l) == u' = [u EXCEPT ![p].pc = l]

-----------------------------------------------------------------------------
\* bmap, for block bn of a file with inode ip: the block, or 0 and what for a
\* block has to be allocated:
\*   small: a block of a small file;
\*   conv:  the block of addresses that makes a small file large;
\*   ind:   a block of addresses that the inode names;
\*   dbl:   a block of addresses below the last address of the inode;
\*   data:  a block of a large file.
\* No other process is in the file, so that bmap may sleep in bread for a
\* block of addresses changes nothing.
Top(bn) == Min2(bn \div BSIZE, NADDR - 1)
Huge(bn) == bn \div BSIZE - (NADDR - 1)

\* The block that holds the address of the data; 0 if it is missing.
Leaf(ip, ws, bn) ==
    LET b == ip.addr[Top(bn)]
    IN  IF b # 0 /\ Top(bn) = NADDR - 1 THEN ws[b][Huge(bn)] ELSE b

Bmap(ip, ws, bn) ==
    LET Found(b, missing) ==
            [bno |-> b, ret |-> IF b = 0 THEN missing ELSE "none"]
    IN  IF ~ip.large
        THEN IF bn >= NADDR THEN Found(0, "conv")
             ELSE Found(ip.addr[bn], "small")
        ELSE IF ip.addr[Top(bn)] = 0 THEN Found(0, "ind")
        ELSE IF Leaf(ip, ws, bn) = 0 THEN Found(0, "dbl")
        ELSE Found(ws[Leaf(ip, ws, bn)][bn % BSIZE], "data")

\* readi and writei at the top of their loop, with r of the caller: readi ends
\* at the end of the file; bmap is called and may fail with EFBIG; otherwise it
\* goes on to the data, or to alloc.
Loop(r, ip, ws) ==
    LET bn == r.off \div BSIZE
        m == Bmap(ip, ws, bn)
    IN  IF r.cnt = 0 \/ (r.op = "read" /\ r.off >= ip.size) \/ bn > MaxBn
        THEN Idle
        ELSE [r EXCEPT !.pc = IF m.bno = 0 THEN "alloc" ELSE "xfer",
                       !.bno = m.bno, !.ret = m.ret]

-----------------------------------------------------------------------------
badblock(b) == b < ISize + 2 \/ b >= FSize

\* alloc and free wait for s_flock.
FlockWait(p) ==
    /\ s_flock
    /\ \/ At(p, "alloc") /\ Goto(p, "aflock")
       \/ At(p, "free") /\ Goto(p, "fflock")
    /\ UNCHANGED <<fs, words, inode, want, calls>>

\* wakeup(&s_flock); p has r.
Wakeup(p, r) ==
    u' = [q \in Procs |->
            IF q = p THEN r
            ELSE IF u[q].pc = "aflock" THEN [u[q] EXCEPT !.pc = "alloc"]
            ELSE IF u[q].pc = "fflock" THEN [u[q] EXCEPT !.pc = "free"]
            ELSE u[q]]

\* The entry that alloc takes: from the top, the first that is 0 or good.
Taken == SelectLastInSeq(s_free, LAMBDA b : b = 0 \/ ~badblock(b))

Exhausted == IF Taken = 0 THEN TRUE ELSE s_free[Taken] = 0

\* alloc finds nothing (ENOSPC): bmap releases the block of addresses it holds
\* and returns 0, and the call ends.  If that block is itself new, nothing
\* marks its zeroed buffer to be written, and bread may later find in it
\* whatever the block held before: the file is not followed any further
\* ("lost").
AllocFails(p) ==
    /\ At(p, "alloc") /\ ~s_flock /\ Exhausted
    /\ s_free' = <<>>
    /\ u' = [u EXCEPT ![p] = IF @.ret \in {"dbl", "data"} /\ @.fresh
                             THEN [@ EXCEPT !.pc = "lost"] ELSE Idle]
    /\ UNCHANGED <<s_flock, s_fmod, updlock, sb, words, inode, want, calls>>

\* A slip: alloc does not look at s_flock.
AllocUnchecked(p) ==
    /\ At(p, "alloc")
    /\ ~Exhausted
    /\ s_free' = SubSeq(s_free, 1, Taken - 1)
    /\ s_flock' = (Taken = 1)
    /\ u' = [u EXCEPT ![p].bno = s_free[Taken],
                      ![p].pc = IF Taken = 1 THEN "refill" ELSE "agetblk"]
    /\ UNCHANGED <<s_fmod, updlock, sb, words, inode, want, calls>>

\* alloc takes a block off the list; if it was the last entry the block holds
\* more of the list, and s_flock is set while it is read.
AllocTake(p) ==
    /\ At(p, "alloc") /\ ~s_flock
    /\ ~Exhausted
    /\ s_free' = SubSeq(s_free, 1, Taken - 1)
    /\ s_flock' = (Taken = 1)
    /\ u' = [u EXCEPT ![p].bno = s_free[Taken],
                      ![p].pc = IF Taken = 1 THEN "refill" ELSE "agetblk"]
    /\ UNCHANGED <<s_fmod, updlock, sb, words, inode, want, calls>>

\* alloc has read the block: the list in it becomes the list in core.
AllocRefill(p) ==
    /\ At(p, "refill")
    /\ s_free' = Unpack(words[u[p].bno])
    /\ s_flock' = FALSE
    /\ Wakeup(p, [u[p] EXCEPT !.pc = "agetblk"])
    /\ UNCHANGED <<s_fmod, updlock, sb, words, inode, want, calls>>

\* bmap enters the block that alloc returned in the inode ...
EnterInode(ip, ret, bn, b) ==
    CASE ret = "small" -> [ip EXCEPT !.addr[bn] = b]
      [] ret = "conv" -> [ip EXCEPT !.addr = [i \in Addrs |->
                                                IF i = 0 THEN b ELSE 0],
                                    !.large = TRUE]
      [] ret = "ind" -> [ip EXCEPT !.addr[Top(bn)] = b]
      [] OTHER -> ip

\* A slip: alloc returns the buffer as it found it.
EnterWordsUncleared(ip, ret, bn, b) ==
    LET ws == IF ret = "data" THEN words ELSE [words EXCEPT ![b] = Zero]
    IN  CASE ret = "conv" -> [ws EXCEPT ![b] = [w \in Words |->
                                IF w \in Addrs THEN ip.addr[w] ELSE 0]]
          [] ret = "dbl" -> [ws EXCEPT ![ip.addr[Top(bn)]][Huge(bn)] = b]
          [] ret = "data" -> [ws EXCEPT ![Leaf(ip, ws, bn)][bn % BSIZE] = b]
          [] OTHER -> ws

\* ... or in a block of addresses; alloc has cleared its buffer.
EnterWords(ip, ret, bn, b) ==
    LET ws == [words EXCEPT ![b] = Zero]
    IN  CASE ret = "conv" -> [ws EXCEPT ![b] = [w \in Words |->
                                IF w \in Addrs THEN ip.addr[w] ELSE 0]]
          [] ret = "dbl" -> [ws EXCEPT ![ip.addr[Top(bn)]][Huge(bn)] = b]
          [] ret = "data" -> [ws EXCEPT ![Leaf(ip, ws, bn)][bn % BSIZE] = b]
          [] OTHER -> ws

\* alloc has the buffer of the block; it returns and bmap goes on.
AllocDone(p) ==
    /\ At(p, "agetblk")
    /\ s_fmod' = TRUE
    /\ LET r == u[p]
           bn == r.off \div BSIZE
           ip == EnterInode(inode[r.f], r.ret, bn, r.bno)
           ws == EnterWords(inode[r.f], r.ret, bn, r.bno)
       IN  /\ inode' = [inode EXCEPT ![r.f] = ip]
           /\ words' = ws
           /\ u' = [u EXCEPT ![p] = Loop([r EXCEPT !.fresh =
                                            r.ret \in {"ind", "dbl"}], ip, ws)]
    /\ UNCHANGED <<s_free, s_flock, updlock, sb, want, calls>>

-----------------------------------------------------------------------------
\* How much of the transfer lies in this block.
Part(r) == Min2(BSIZE - (r.off % BSIZE), r.cnt)

\* The loop goes on after n words.
Advance(r, n) ==
    [r EXCEPT !.off = @ + n, !.cnt = @ - n, !.fresh = FALSE]

\* readi: passc moves the words to the caller.
ReadXfer(p) ==
    /\ At(p, "xfer") /\ u[p].op = "read"
    /\ LET r == u[p]
           ip == inode[r.f]
       IN  u' = [u EXCEPT ![p] =
                    Loop(Advance(r, Min2(Part(r), ip.size - r.off)), ip, words)]
    /\ UNCHANGED <<fs, words, inode, want, calls>>

\* writei: cpass moves the words into the block, which keeps its other words
\* unless all of it is written; the file grows.
WriteXfer(p) ==
    /\ At(p, "xfer") /\ u[p].op = "write"
    /\ LET r == u[p]
           on == r.off % BSIZE
           n == Part(r)
           end == r.off + n
           ip == [inode[r.f] EXCEPT !.size = IF @ < end THEN end ELSE @]
           ws == [words EXCEPT ![r.bno] =
                    [w \in Words |-> IF w >= on /\ w < on + n THEN Val(r.f)
                                     ELSE @[w]]]
       IN  /\ words' = ws
           /\ inode' = [inode EXCEPT ![r.f] = ip]
           /\ want' = [want EXCEPT ![r.f] =
                  [o \in 0..(MaxWord - 1) |->
                      IF o >= r.off /\ o < end THEN Val(r.f) ELSE @[o]]]
           /\ u' = [u EXCEPT ![p] = Loop(Advance(r, n), ip, ws)]
    /\ UNCHANGED <<fs, calls>>

-----------------------------------------------------------------------------
\* The nonzero words of a block, last first.
Nonzero(ws) ==
    SelectSeq([k \in 1..BSIZE |-> ws[BSIZE - k]], LAMBDA b : b # 0)

\* The blocks of a file in the order in which itrunc frees them: addresses
\* from last to first, what is below an address before the block itself.
TruncOrder(ip) ==
    LET Deep(b) == Nonzero(words[b]) \o <<b>>
        Below(i) ==
            IF ~ip.large THEN <<>>
            ELSE IF i < NADDR - 1 THEN Nonzero(words[ip.addr[i]])
            ELSE LET bs == Nonzero(words[ip.addr[i]])
                 IN  FlattenSeq([k \in 1..Len(bs) |-> Deep(bs[k])])
        Entry(k) == LET i == NADDR - k
                    IN  IF ip.addr[i] = 0 THEN <<>>
                        ELSE Below(i) \o <<ip.addr[i]>>
    IN  FlattenSeq([k \in 1..NADDR |-> Entry(k)])

\* itrunc calls free for the next block, or ends.
NextFree(r) ==
    IF r.todo = <<>> THEN Idle
    ELSE [r EXCEPT !.pc = "free", !.bno = Head(r.todo), !.todo = Tail(r.todo)]

\* An address of the inode is cleared once its block b is free; after the last
\* one the file is small and empty.
Cleared(r, b) ==
    LET addr == [i \in Addrs |-> IF inode[r.f].addr[i] = b THEN 0
                                 ELSE inode[r.f].addr[i]]
    IN  IF r.todo = <<>>
        THEN /\ inode' = [inode EXCEPT ![r.f] =
                            [addr |-> addr, large |-> FALSE, size |-> 0]]
             /\ want' = [want EXCEPT ![r.f] = [o \in 0..(MaxWord - 1) |-> 0]]
        ELSE /\ inode' = [inode EXCEPT ![r.f].addr = addr]
             /\ UNCHANGED want

\* free: an empty list begins with 0.
List == IF s_free = <<>> THEN <<0>> ELSE s_free

\* A slip: the list is found to be full one entry too late.
FreePutLate(p) ==
    /\ At(p, "free") /\ ~s_flock
    /\ badblock(u[p].bno) \/ Len(List) <= NICFREE
    /\ s_free' = IF badblock(u[p].bno) THEN s_free ELSE Append(List, u[p].bno)
    /\ s_fmod' = TRUE
    /\ Cleared(u[p], u[p].bno) /\ u' = [u EXCEPT ![p] = NextFree(@)]
    /\ UNCHANGED <<s_flock, updlock, sb, words, calls>>

\* free puts the block on the list.
FreePut(p) ==
    /\ At(p, "free") /\ ~s_flock
    /\ badblock(u[p].bno) \/ Len(List) < NICFREE
    /\ s_free' = IF badblock(u[p].bno) THEN s_free ELSE Append(List, u[p].bno)
    /\ s_fmod' = TRUE
    /\ Cleared(u[p], u[p].bno) /\ u' = [u EXCEPT ![p] = NextFree(@)]
    /\ UNCHANGED <<s_flock, updlock, sb, words, calls>>

\* The list is full: free takes s_flock and asks for the buffer of the block.
FreeFull(p) ==
    /\ At(p, "free") /\ ~s_flock
    /\ ~badblock(u[p].bno) /\ Len(List) >= NICFREE
    /\ s_free' = List /\ s_flock' = TRUE
    /\ Goto(p, "fgetblk")
    /\ UNCHANGED <<s_fmod, updlock, sb, words, inode, want, calls>>

\* free has the buffer: the full list goes into the block, which is written.
FreeSpill(p) ==
    /\ At(p, "fgetblk")
    /\ words' = [words EXCEPT ![u[p].bno] = Pack(s_free)]
    /\ s_free' = <<>>
    /\ Goto(p, "fbwrite")
    /\ UNCHANGED <<s_flock, s_fmod, updlock, sb, inode, want, calls>>

\* A slip: free unlocks the list without a wakeup.
FreeWrittenSilently(p) ==
    /\ At(p, "fbwrite")
    /\ s_flock' = FALSE
    /\ s_free' = Append(s_free, u[p].bno)
    /\ s_fmod' = TRUE
    /\ Cleared(u[p], u[p].bno) /\ u' = [u EXCEPT ![p] = NextFree(@)]
    /\ UNCHANGED <<updlock, sb, words, calls>>

\* A slip: free relies on the mark it made when it was called.
FreeWrittenUnmarked(p) ==
    /\ At(p, "fbwrite")
    /\ s_flock' = FALSE
    /\ s_free' = Append(s_free, u[p].bno)
    /\ Cleared(u[p], u[p].bno) /\ Wakeup(p, NextFree(u[p]))
    /\ UNCHANGED <<s_fmod, updlock, sb, words, calls>>

\* free: the block is written and begins the list.
FreeWritten(p) ==
    /\ At(p, "fbwrite")
    /\ s_flock' = FALSE
    /\ s_free' = Append(s_free, u[p].bno)
    /\ s_fmod' = TRUE
    /\ Cleared(u[p], u[p].bno) /\ Wakeup(p, NextFree(u[p]))
    /\ UNCHANGED <<updlock, sb, words, calls>>

-----------------------------------------------------------------------------
\* update has the buffer of the super block, which it asked for when the list
\* was not locked; it may be locked now.
UpdateCopy(p) ==
    /\ At(p, "sgetblk")
    /\ s_fmod' = FALSE
    /\ sb' = s_free
    /\ Goto(p, "sbwrite")
    /\ UNCHANGED <<s_free, s_flock, updlock, words, inode, want, calls>>

\* update has written the super block.
UpdateDone(p) ==
    /\ At(p, "sbwrite")
    /\ updlock' = FALSE
    /\ u' = [u EXCEPT ![p] = Idle]
    /\ UNCHANGED <<s_free, s_flock, s_fmod, sb, words, inode, want, calls>>

Step(p) ==
    \/ FlockWait(p) \/ AllocFails(p) \/ AllocTake(p) \/ AllocRefill(p)
    \/ AllocDone(p) \/ ReadXfer(p) \/ WriteXfer(p)
    \/ FreePut(p) \/ FreeFull(p) \/ FreeSpill(p) \/ FreeWritten(p)
    \/ UpdateCopy(p) \/ UpdateDone(p)

\* No process is in file f.
Alone(f) == \A p \in Procs : u[p].f # f

\* A system call by p, at most MaxCalls of them altogether.
Call(p) == At(p, "user") /\ calls < MaxCalls /\ calls' = calls + 1

\* read and write.
Rdwr(p, op, f, t) ==
    /\ Call(p) /\ Alone(f)
    /\ LET r == [Idle EXCEPT !.op = op, !.f = f, !.off = t[1], !.cnt = t[2]]
       IN  u' = [u EXCEPT ![p] = Loop(r, inode[f], words)]
    /\ UNCHANGED <<fs, words, inode, want>>

\* itrunc, for creat of a file that exists or the last iput of one that has
\* no name.  free marks the super block before it waits.
Itrunc(p, f) ==
    /\ Call(p) /\ Alone(f)
    /\ TruncOrder(inode[f]) # <<>>
    /\ LET r == [Idle EXCEPT !.op = "trunc", !.f = f,
                             !.todo = TruncOrder(inode[f])]
       IN  u' = [u EXCEPT ![p] = NextFree(r)]
    /\ s_fmod' = TRUE
    /\ UNCHANGED <<s_free, s_flock, updlock, sb, words, inode, want>>

\* sync: the super block is written only if it changed and nobody is changing
\* it.
Update(p) ==
    /\ Call(p) /\ ~updlock
    /\ s_fmod /\ ~s_flock
    /\ updlock' = TRUE
    /\ u' = [u EXCEPT ![p] = [@ EXCEPT !.pc = "sgetblk", !.op = "sync"]]
    /\ UNCHANGED <<s_free, s_flock, s_fmod, sb, words, inode, want>>

\* The volume as mkfs made it, after iinit.
Init ==
    LET img == FoldLeft(LAMBDA m, f : Cfile(m, Proto[f], Val(f)), Bflist,
                        [f \in Files |-> f])
    IN  /\ img.ok
        /\ s_free = img.free /\ sb = img.free
        /\ s_flock = FALSE /\ s_fmod = FALSE /\ updlock = FALSE
        /\ words = img.words
        /\ inode = img.inode
        /\ u = [p \in Procs |-> Idle]
        /\ want = [f \in Files |-> [o \in 0..(MaxWord - 1) |->
                                        IF o < Proto[f] THEN Val(f) ELSE 0]]
        /\ calls = 0

Next ==
    \E p \in Procs :
        \/ Step(p)
        \/ \E op \in {"read", "write"}, f \in Files, t \in Transfers :
              Rdwr(p, op, f, t)
        \/ \E f \in Files : Itrunc(p, f)
        \/ Update(p)

\* A process in the kernel that can run does run.
Fairness == \A p \in Procs : WF_vars(Step(p))

Spec == Init /\ [][Next]_vars /\ Fairness

-----------------------------------------------------------------------------
\* Every variable has its type: the free list never outgrows s_free (alloc.c:105)
\* and the addresses of inodes are blocks of the data area.
TypeOK ==
    /\ s_free \in Seq({0} \cup Data) /\ Len(s_free) <= NICFREE
    /\ sb \in Seq({0} \cup Data) /\ Len(sb) <= NICFREE
    /\ s_flock \in BOOLEAN /\ s_fmod \in BOOLEAN /\ updlock \in BOOLEAN
    /\ words \in [Data -> [Words -> Nat]]
    /\ inode \in [Files -> [addr : [Addrs -> {0} \cup Data],
                            large : BOOLEAN, size : 0..MaxWord]]
    /\ \A p \in Procs : /\ u[p].pc \in PC /\ u[p].f \in {0} \cup Files
                        /\ u[p].bno \in {0} \cup Data
    /\ want \in [Files -> [0..(MaxWord - 1) -> Nat]]
    /\ calls \in 0..MaxCalls

\* The places of the blocks on the free list that starts with list: piece n,
\* entry i, block.  A piece is in the first block of the piece before it.
Listed(list) ==
    LET Pieces == 0..(FSize \div NICFREE)
        Piece[n \in Pieces] ==
            IF n = 0 THEN list
            ELSE LET s == Piece[n - 1]
                 IN  IF s = <<>> \/ s[1] = 0 THEN <<>> ELSE Unpack(words[s[1]])
    IN  {r \in UNION {{<<"free", <<n, i>>, Piece[n][i]>> :
                          i \in DOMAIN Piece[n]} : n \in Pieces} : r[3] # 0}

\* The same for a file: an address of the inode, and for a large file the
\* words below it.
Placed(f) ==
    LET ip == inode[f]
        One == {<<"file", <<f, i>>, ip.addr[i]>> : i \in Addrs}
        Below(R) == UNION {{<<"file", Append(r[2], w), words[r[3]][w]>> :
                              w \in Words} : r \in {q \in R : q[3] # 0}}
        Two == IF ip.large THEN Below(One) ELSE {}
        Three == Below({r \in Two : r[2][2] = NADDR - 1})
    IN  {r \in One \cup Three \cup Two : r[3] # 0}

\* And for what a process has in hand: a block that alloc has taken and bmap
\* has not entered yet, or that itrunc has still to free.
Carried(p) ==
    LET hand == IF u[p].pc \in {"agetblk", "free", "fflock", "fgetblk"}
                THEN <<u[p].bno>> ELSE <<>>
        all == hand \o u[p].todo
    IN  {<<p, <<i>>, all[i]>> : i \in DOMAIN all}

\* The list in core; while alloc reads the next piece of it, or free writes
\* one, it is what that block holds.
InCore ==
    IF \E p \in Procs : u[p].pc \in {"refill", "fbwrite"}
    THEN <<u[CHOOSE p \in Procs : u[p].pc \in {"refill", "fbwrite"}].bno>>
    ELSE s_free

\* Every block of the volume has exactly one place: on the free list, in one
\* file as data or as addresses, or in the hands of one process.  No block is
\* lost and none is in two places, whatever alloc, free, bmap and itrunc do at
\* the same time (s_flock).
OwnedOnce ==
    LET Truncated == {u[p].f : p \in {q \in Procs : u[q].op = "trunc"}}
        All == Listed(InCore) \cup UNION {Placed(f) : f \in Files \ Truncated}
                  \cup UNION {Carried(p) : p \in Procs}
    IN  /\ {r[3] : r \in All} = Data
        /\ Cardinality(All) = Cardinality(Data)

\* Where the address of block bn of file f belongs.
Path(f, bn) ==
    LET top == bn \div BSIZE
    IN  IF ~inode[f].large THEN <<f, bn>>
        ELSE IF top < NADDR - 1 THEN <<f, top, bn % BSIZE>>
        ELSE <<f, NADDR - 1, top - (NADDR - 1), bn % BSIZE>>

\* A file holds what was written to it, and zeros where it was not written,
\* while it grows from small to large and while blocks of other files are
\* freed and used again (bmap, writei, clrbuf in alloc).
ContentsKept ==
    \A f \in Files :
        (\A p \in Procs : u[p].f = f => u[p].op # "trunc") =>
            LET placed == Placed(f)
                In(bn) == {r \in placed : r[2] = Path(f, bn)}
            IN  \A bn \in 0..MaxBn : \A w \in Words :
                    LET o == bn * BSIZE + w
                    IN  o < inode[f].size =>
                           IF In(bn) = {} THEN want[f][o] = 0
                           ELSE \A r \in In(bn) : words[r[3]][w] = want[f][o]

\* When s_fmod says that the super block has not changed since update copied
\* it, the list is not locked and no alloc is between taking a block and
\* marking it, the list in the super block on disk is the free list (alloc.c:74,
\* 117, 296).  update may have copied the list while alloc or free was changing
\* it: then the mark is set again.
SuperBlockHonest ==
    (~s_fmod /\ ~s_flock /\ \A p \in Procs : u[p].pc # "agetblk")
        => {r[3] : r \in Listed(sb)} = {r[3] : r \in Listed(s_free)}

\* Whoever waits for the free list gets it: every call returns (the wakeup of
\* alloc and free), or ends in a file whose block of addresses was lost.
CallsReturn ==
    \A p \in Procs : u[p].pc # "user" ~> u[p].pc \in {"user", "lost"}
=============================================================================
