--------------------------- MODULE BufCacheProofs ---------------------------
(***************************************************************************)
(* The safety of the buffer cache for any number of processes, buffers and *)
(* blocks.  Then its contents: a buffer that is done agrees with the disk, *)
(* and the cache is a block store to its callers.                          *)
(***************************************************************************)
EXTENDS BufCache, TLAPS

-----------------------------------------------------------------------------
(* Lists without repetition.                                                *)

\* An element added at the end of a list that lacks it.
LEMMA AppendList ==
    ASSUME NEW S, NEW s \in Seq(S), NoTwice(s), NEW x \in S, ~OnList(x, s)
    PROVE  /\ Append(s, x) \in Seq(S)
           /\ NoTwice(Append(s, x))
           /\ \A y : OnList(y, Append(s, x)) <=> (OnList(y, s) \/ y = x)
           /\ Append(s, x) # <<>>
           /\ s = <<>> => Append(s, x)[1] = x
           /\ s # <<>> => Append(s, x)[1] = s[1]
<1> DEFINE a == Append(s, x)
<1>1. /\ Len(s) \in Nat /\ DOMAIN s = 1..Len(s)
      /\ a \in Seq(S) /\ DOMAIN a = 1..(Len(s) + 1)
      /\ \A i \in 1..Len(s) : a[i] = s[i]
      /\ a[Len(s) + 1] = x
    OBVIOUS
<1>2. NoTwice(a)
    BY <1>1 DEF NoTwice, OnList
<1>3. ASSUME NEW y PROVE OnList(y, a) <=> (OnList(y, s) \/ y = x)
    BY <1>1 DEF OnList
<1>4. a # <<>> /\ (s = <<>> => a[1] = x) /\ (s # <<>> => a[1] = s[1])
    BY <1>1
<1> QED
    BY <1>1, <1>2, <1>3, <1>4

\* A list without its first element.
LEMMA TailList ==
    ASSUME NEW S, NEW s \in Seq(S), NoTwice(s), s # <<>>
    PROVE  /\ Tail(s) \in Seq(S)
           /\ NoTwice(Tail(s))
           /\ s[1] \in S /\ OnList(s[1], s)
           /\ \A y : OnList(y, Tail(s)) <=> (OnList(y, s) /\ y # s[1])
<1>1. Tail(s) \in Seq(S) /\ s[1] \in S /\ 1 \in DOMAIN s
    OBVIOUS
<1>2. NoTwice(Tail(s))
    BY DEF NoTwice
<1>3. ASSUME NEW y PROVE OnList(y, Tail(s)) <=> (OnList(y, s) /\ y # s[1])
    <2>1. ASSUME OnList(y, Tail(s)) PROVE OnList(y, s) /\ y # s[1]
        BY <2>1 DEF NoTwice, OnList
    <2>2. ASSUME OnList(y, s), y # s[1] PROVE OnList(y, Tail(s))
        <3>1. PICK i \in DOMAIN s : s[i] = y
            BY <2>2 DEF OnList
        <3>2. i - 1 \in DOMAIN Tail(s) /\ Tail(s)[i - 1] = y
            BY <3>1, <2>2
        <3> QED
            BY <3>2 DEF OnList
    <2> QED
        BY <2>1, <2>2
<1> QED
    BY <1>1, <1>2, <1>3 DEF OnList

\* A list with one element unlinked.
LEMMA UnlinkList ==
    ASSUME NEW S, NEW s \in Seq(S), NoTwice(s), NEW i \in DOMAIN s
    PROVE  /\ Unlink(s, i) \in Seq(S)
           /\ NoTwice(Unlink(s, i))
           /\ s[i] \in S /\ OnList(s[i], s)
           /\ \A y : OnList(y, Unlink(s, i)) <=> (OnList(y, s) /\ y # s[i])
<1> DEFINE u == Unlink(s, i)
<1>1. Len(s) \in Nat /\ Len(s) >= 1 /\ i \in 1..Len(s) /\ DOMAIN s = 1..Len(s)
    OBVIOUS
<1>2. \A k \in 1..(Len(s) - 1) : (IF k < i THEN s[k] ELSE s[k + 1]) \in S
    BY <1>1
<1>3. u \in Seq(S) /\ Len(u) = Len(s) - 1 /\ DOMAIN u = 1..(Len(s) - 1)
    BY <1>1, <1>2 DEF Unlink
<1>4. \A k \in 1..(Len(s) - 1) : u[k] = IF k < i THEN s[k] ELSE s[k + 1]
    BY <1>1 DEF Unlink
<1>5. NoTwice(u)
    BY <1>1, <1>3, <1>4, SMTT(40) DEF NoTwice
<1>6. ASSUME NEW y PROVE OnList(y, u) <=> (OnList(y, s) /\ y # s[i])
    <2>1. ASSUME OnList(y, u) PROVE OnList(y, s) /\ y # s[i]
        <3>1. PICK k \in 1..(Len(s) - 1) : u[k] = y
            BY <2>1, <1>3 DEF OnList
        <3> QED
            BY <3>1, <1>1, <1>4 DEF NoTwice, OnList
    <2>2. ASSUME OnList(y, s), y # s[i] PROVE OnList(y, u)
        <3>1. PICK k \in 1..Len(s) : s[k] = y
            BY <2>2, <1>1 DEF OnList
        <3>2. CASE k < i
            <4>1. k \in 1..(Len(s) - 1) /\ u[k] = y
                BY <3>1, <3>2, <1>1, <1>4
            <4> QED
                BY <4>1, <1>3 DEF OnList
        <3>3. CASE k > i
            <4>1. k - 1 \in 1..(Len(s) - 1) /\ u[k - 1] = y
                BY <3>1, <3>3, <1>1, <1>4
            <4> QED
                BY <4>1, <1>3 DEF OnList
        <3> QED
            BY <3>1, <3>2, <3>3, <2>2, <1>1
    <2> QED
        BY <2>1, <2>2
<1> QED
    BY <1>1, <1>3, <1>5, <1>6 DEF OnList

-----------------------------------------------------------------------------
(* The inductive invariant.  Besides what is to be proved it says what the  *)
(* routines of the cache rely on when they are called.                      *)

\* The types of the cache and the disk, and of the processes.
CacheType ==
    /\ b_flags \in [Hdr -> SUBSET Flag]
    /\ b_blk \in [Buf -> Blk \cup {NoBlk}]
    /\ b_data \in [Buf -> Val]
    /\ avail \in Seq(Buf)
    /\ fwanted \in BOOLEAN
    /\ actq \in Seq(Hdr)
    /\ io \in [buf : Hdr \cup {NoBuf}, left : Nat, read : BOOLEAN,
               val : Val \cup {Unread}]
    /\ disk \in [Blk \ BadBlk -> Val]
    /\ wchan \in [Proc -> Chan \cup {NoChan}]

ProcType ==
    /\ pc \in [Proc -> PC]
    /\ op \in [Proc -> Op]
    /\ want \in [Proc -> [blk : Blk \cup {NoBlk}, ra : Blk \cup {NoBlk}]]
    /\ bp \in [Proc -> Buf \cup {NoBuf}]
    /\ rbp \in [Proc -> Buf \cup {NoBuf}]

\* QueueSound, with OnList instead of positions.
QueueInv ==
    /\ NoTwice(actq)
    /\ (io = NoIO) <=> (actq = <<>>)
    /\ actq # <<>> => io.buf = actq[1]
    /\ \A x \in Hdr : OnList(x, actq) => /\ "B_BUSY" \in b_flags[x]
                                         /\ "B_DONE" \notin b_flags[x]

\* A request is fit for the disk: it is for a block of the disk, and what is
\* being written is the contents of a block.  The swap buffer alone is B_PHYS,
\* and it is never released by the interrupt.
QueueFit ==
    /\ \A x \in Buf : OnList(x, actq) => b_blk[x] \in Blk \ BadBlk
    /\ io.buf \in Buf /\ ~io.read => io.val \in Val
    /\ \A x \in Buf : "B_PHYS" \notin b_flags[x]
    /\ "B_ASYNC" \notin b_flags[swbuf]
    /\ OnList(swbuf, actq) => "B_PHYS" \in b_flags[swbuf]

\* A delayed write is of valid data that belongs to a block, and only a
\* buffer that is busy can be asynchronous.
FlagsSound ==
    \A x \in Buf :
        /\ "B_DELWRI" \in b_flags[x] =>
              /\ "B_DONE" \in b_flags[x] /\ "B_ERROR" \notin b_flags[x]
              /\ b_blk[x] # NoBlk
        /\ "B_ASYNC" \in b_flags[x] => "B_BUSY" \in b_flags[x]

CacheInv ==
    CacheType /\ AvailIffNotBusy /\ QueueInv /\ QueueFit /\ FlagsSound

Reads == {"bread", "breada", "ra"}

\* What a process has at each place: the buffer getblk returned is not in the
\* driver's queue until it is given to it, and whoever reads, reads a block.
\* A buffer that is kept is not in the queue; breada's first may be, and has a
\* block.
ProcAt(p) ==
    /\ pc[p] \in {"got", "iowait", "hold"} => bp[p] # NoBuf
    /\ pc[p] \in {"got", "hold"} => ~OnList(bp[p], actq)
    /\ pc[p] = "got" /\ op[p] \in Reads => b_blk[bp[p]] # NoBlk
    /\ pc[p] \in {"breada", "ahead", "getblk", "got"} /\ op[p] \in Reads
          => want[p].blk # NoBlk
    /\ pc[p] \in {"getblk", "got"} /\ op[p] = "ra" => want[p].ra # NoBlk
    /\ pc[p] \in {"breada", "ahead"} => op[p] = "breada"
    /\ pc[p] \notin {"breada", "ahead", "getblk", "got"}
          => op[p] \notin {"breada", "ra"}
    /\ rbp[p] # NoBuf /\ OnList(rbp[p], actq) => op[p] \in {"breada", "ra"}
    /\ rbp[p] # NoBuf /\ op[p] \in {"breada", "ra"} => b_blk[rbp[p]] # NoBlk
    /\ pc[p] = "user" => rbp[p] = NoBuf
    /\ pc[p] = "back" => rbp[p] # NoBuf

ProcInv == \A p \in Proc : ProcAt(p)

IInv == CacheInv /\ ProcType /\ Exclusive /\ ProcInv

-----------------------------------------------------------------------------
(* brelse, iodone and rkstrategy.                                           *)

\* av is the available list once x is off it.
WithoutBuf(av, x) ==
    /\ av \in Seq(Buf) /\ NoTwice(av)
    /\ \A y \in Buf : OnList(y, av) <=> ("B_BUSY" \notin b_flags[y] /\ y # x)

\* What every one of them leaves: the lists and the flags agree, and nothing
\* but x has changed.
Settled(x) ==
    /\ b_flags' \in [Hdr -> SUBSET Flag]
    /\ b_blk' \in [Buf -> Blk \cup {NoBlk}]
    /\ avail' \in Seq(Buf)
    /\ fwanted' \in BOOLEAN
    /\ wchan' \in [Proc -> Chan \cup {NoChan}]
    /\ AvailIffNotBusy'
    /\ FlagsSound'
    /\ \A y \in Hdr : y # x => b_flags'[y] = b_flags[y]
    /\ \A y \in Buf : y # x => b_blk'[y] = b_blk[y]

\* Headers are numbers, and swbuf is not one of the buffers.
LEMMA HdrFacts ==
    /\ \A x \in Buf : x \in Hdr /\ x # NoBuf /\ x # swbuf /\ x \in Chan
    /\ swbuf \in Hdr /\ swbuf # NoBuf /\ swbuf \notin Buf /\ swbuf \in Chan
    /\ bfreelist \in Chan /\ NoBuf \notin Hdr
BY BufAssumption DEF Buf, Hdr, Chan, swbuf, bfreelist, NoBuf

\* brelse, called with x off the available list, leaves lists and flags in
\* agreement and x with the flags it is to have.
LEMMA BrelseSettles ==
    ASSUME CacheInv, NEW x \in Buf, NEW fl \in SUBSET Flag, NEW av,
           WithoutBuf(av, x), Brelse(x, fl, av),
           "B_DELWRI" \in fl => /\ "B_DONE" \in fl /\ "B_ERROR" \notin fl
                                /\ b_blk[x] # NoBlk
    PROVE  /\ Settled(x)
           /\ b_flags'[x] = fl \ {"B_WANTED", "B_BUSY", "B_ASYNC"}
<1>1. x \in Hdr
    BY HdrFacts
<1>2. /\ b_flags' \in [Hdr -> SUBSET Flag]
      /\ b_flags'[x] = fl \ {"B_WANTED", "B_BUSY", "B_ASYNC"}
      /\ \A y \in Hdr : y # x => b_flags'[y] = b_flags[y]
    BY <1>1 DEF Brelse, CacheInv, CacheType
<1>3. /\ b_blk' \in [Buf -> Blk \cup {NoBlk}]
      /\ \A y \in Buf : y # x => b_blk'[y] = b_blk[y]
      /\ "B_ERROR" \notin fl => b_blk'[x] = b_blk[x]
    BY DEF Brelse, CacheInv, CacheType
<1>4. /\ avail' \in Seq(Buf) /\ NoTwice(avail')
      /\ \A y : OnList(y, avail') <=> (OnList(y, av) \/ y = x)
    BY AppendList DEF Brelse, WithoutBuf
<1>5. AvailIffNotBusy'
    BY <1>2, <1>4, HdrFacts DEF AvailIffNotBusy, WithoutBuf
<1>6. FlagsSound'
    BY <1>2, <1>3, HdrFacts DEF CacheInv, FlagsSound
<1>7. fwanted' \in BOOLEAN /\ wchan' \in [Proc -> Chan \cup {NoChan}]
    BY DEF Brelse, Wakeup, CacheInv, CacheType
<1> QED
    BY <1>2, <1>3, <1>4, <1>5, <1>6, <1>7 DEF Settled

\* iodone leaves lists and flags in agreement; only an asynchronous buffer is
\* released, and so only such a buffer can lose its block.
LEMMA IodoneSettles ==
    ASSUME CacheInv, NEW x \in Hdr, NEW fl \in SUBSET Flag, NEW av,
           WithoutBuf(av, x), Iodone(x, fl, av),
           "B_BUSY" \in fl, x \in Buf => "B_DELWRI" \notin fl,
           "B_ASYNC" \in fl => x \in Buf
    PROVE  /\ Settled(x)
           /\ b_flags'[x] \subseteq fl \cup {"B_DONE"}
           /\ "B_ASYNC" \notin fl => b_blk' = b_blk /\ "B_BUSY" \in b_flags'[x]
<1>1. CASE "B_ASYNC" \in fl
    <2>1. x \in Buf /\ Brelse(x, fl \cup {"B_DONE"}, av)
        BY <1>1 DEF Iodone
    <2>2. fl \cup {"B_DONE"} \in SUBSET Flag
        BY DEF Flag
    <2> QED
        BY <1>1, <2>1, <2>2, BrelseSettles
<1>2. CASE "B_ASYNC" \notin fl
    <2>1. /\ b_flags' = [b_flags EXCEPT ![x] = (fl \cup {"B_DONE"}) \ {"B_WANTED"}]
          /\ Wakeup({x}) /\ avail' = av /\ UNCHANGED <<b_blk, fwanted>>
        BY <1>2 DEF Iodone
    <2>2. /\ b_flags' \in [Hdr -> SUBSET Flag]
          /\ b_flags'[x] = (fl \cup {"B_DONE"}) \ {"B_WANTED"}
          /\ \A y \in Hdr : y # x => b_flags'[y] = b_flags[y]
        BY <2>1 DEF CacheInv, CacheType, Flag
    <2>3. AvailIffNotBusy'
        BY <2>1, <2>2, HdrFacts DEF AvailIffNotBusy, WithoutBuf
    <2>4. FlagsSound'
        BY <2>1, <2>2, HdrFacts DEF CacheInv, FlagsSound
    <2>5. wchan' \in [Proc -> Chan \cup {NoChan}]
        BY <2>1 DEF Wakeup, CacheInv, CacheType
    <2> QED
        BY <1>2, <2>1, <2>2, <2>3, <2>4, <2>5
           DEF Settled, CacheInv, CacheType, WithoutBuf
<1> QED
    BY <1>1, <1>2

\* The request given to the controller.
LEMMA DevstartType ==
    ASSUME NEW x \in Hdr, NEW fl, NEW data,
           x \in Buf => "B_PHYS" \notin fl /\ data \in Val,
           x = swbuf => "B_PHYS" \in fl
    PROVE  /\ Devstart(x, fl, data) \in
                [buf : Hdr \cup {NoBuf}, left : Nat, read : BOOLEAN,
                 val : Val \cup {Unread}]
           /\ Devstart(x, fl, data).buf = x
           /\ x \in Buf /\ ~Devstart(x, fl, data).read
                => Devstart(x, fl, data).val \in Val
<1> DEFINE n == IF "B_PHYS" \in fl THEN SwapSectors ELSE 1
           r == "B_READ" \in fl
           v == IF "B_PHYS" \in fl \/ "B_READ" \in fl THEN Unread ELSE data
<1>1. n \in Nat /\ v \in Val \cup {Unread}
    BY BufAssumption DEF Hdr
<1>2. r \in BOOLEAN
    OBVIOUS
<1>3. x \in Buf /\ ~r => v \in Val
    OBVIOUS
<1>4. Devstart(x, fl, data) = [buf |-> x, left |-> n, read |-> r, val |-> v]
    BY DEF Devstart
<1> HIDE DEF n, r, v
<1>5. [buf |-> x, left |-> n, read |-> r, val |-> v] \in
          [buf : Hdr \cup {NoBuf}, left : Nat, read : BOOLEAN,
           val : Val \cup {Unread}]
    BY <1>1, <1>2
<1>6. /\ Devstart(x, fl, data).buf = x
      /\ Devstart(x, fl, data).read = r
      /\ Devstart(x, fl, data).val = v
    BY <1>4
<1> QED
    BY <1>3, <1>4, <1>5, <1>6

\* rkstrategy, given a busy buffer that is in no list, keeps the invariant of
\* the cache, whether it queues the request or fails it at once.
LEMMA StrategyKeeps ==
    ASSUME CacheInv, NEW x \in Hdr, NEW fl \in SUBSET Flag, NEW av, NEW data,
           WithoutBuf(av, x), Strategy(x, fl, av, data), ~OnList(x, actq),
           "B_BUSY" \in fl, "B_DONE" \notin fl, "B_DELWRI" \notin fl,
           x \in Buf => "B_PHYS" \notin fl /\ b_blk[x] # NoBlk /\ data \in Val,
           x = swbuf => "B_PHYS" \in fl /\ "B_ASYNC" \notin fl,
           b_data' \in [Buf -> Val], disk' = disk
    PROVE  /\ CacheInv' /\ Settled(x)
           /\ \A y : OnList(y, actq') => OnList(y, actq) \/ y = x
           /\ "B_ASYNC" \notin fl => /\ b_blk' = b_blk
                                     /\ "B_BUSY" \in b_flags'[x]
                                     /\ "B_ASYNC" \notin b_flags'[x]
<1> USE HdrFacts
<1>0. x \in Buf \/ x = swbuf
    BY DEF Hdr
<1>1. CASE PastEnd(x)
    <2>1. /\ x \in Buf /\ Iodone(x, fl \cup {"B_ERROR"}, av)
          /\ UNCHANGED <<actq, io>>
        BY <1>1 DEF PastEnd, Strategy
    <2>2. fl \cup {"B_ERROR"} \in SUBSET Flag
        BY DEF Flag
    <2>3. /\ Settled(x)
          /\ b_flags'[x] \subseteq fl \cup {"B_ERROR", "B_DONE"}
          /\ "B_ASYNC" \notin fl => b_blk' = b_blk /\ "B_BUSY" \in b_flags'[x]
        BY <2>1, <2>2, IodoneSettles
    <2>4. CacheType'
        BY <2>1, <2>3 DEF Settled, CacheInv, CacheType
    <2>5. QueueInv'
        BY <2>1, <2>3 DEF Settled, CacheInv, QueueInv, NoIO
    <2>6. QueueFit'
        BY <2>1, <2>3 DEF Settled, CacheInv, QueueFit
    <2> QED
        BY <2>1, <2>3, <2>4, <2>5, <2>6 DEF Settled, CacheInv
<1>2. CASE ~PastEnd(x)
    <2>1. /\ b_flags' = [b_flags EXCEPT ![x] = fl]
          /\ avail' = av
          /\ actq' = Append(actq, x)
          /\ io' = IF io = NoIO THEN Devstart(x, fl, data) ELSE io
          /\ UNCHANGED <<b_blk, fwanted, wchan>>
        BY <1>2 DEF Strategy
    <2>2. /\ b_flags' \in [Hdr -> SUBSET Flag] /\ b_flags'[x] = fl
          /\ \A y \in Hdr : y # x => b_flags'[y] = b_flags[y]
        BY <2>1 DEF CacheInv, CacheType
    <2>3. AvailIffNotBusy'
        BY <2>1, <2>2 DEF AvailIffNotBusy, WithoutBuf
    <2>4. FlagsSound'
        BY <2>1, <2>2 DEF CacheInv, FlagsSound
    <2>5. Settled(x)
        BY <2>1, <2>2, <2>3, <2>4 DEF Settled, CacheInv, CacheType, WithoutBuf
    <2>6. /\ actq' \in Seq(Hdr) /\ NoTwice(actq') /\ actq' # <<>>
          /\ \A y : OnList(y, actq') <=> (OnList(y, actq) \/ y = x)
          /\ actq = <<>> => actq'[1] = x
          /\ actq # <<>> => actq'[1] = actq[1]
        BY <2>1, AppendList DEF CacheInv, CacheType, QueueInv
    <2>7. /\ Devstart(x, fl, data) \in
                [buf : Hdr \cup {NoBuf}, left : Nat, read : BOOLEAN,
                 val : Val \cup {Unread}]
          /\ Devstart(x, fl, data).buf = x
          /\ x \in Buf /\ ~Devstart(x, fl, data).read
                => Devstart(x, fl, data).val \in Val
        BY DevstartType
    <2>8. CacheType'
        BY <2>1, <2>5, <2>6, <2>7 DEF Settled, CacheInv, CacheType
    <2>9. QueueInv'
        <3>1. io # NoIO => io.buf = actq[1] /\ actq # <<>>
            BY DEF CacheInv, QueueInv
        <3>2. io'.buf = actq'[1]
            BY <2>1, <2>6, <2>7, <3>1 DEF CacheInv, QueueInv
        <3>3. actq'[1] \in Hdr
            BY <2>6
        <3>4. io' # NoIO
            BY <3>2, <3>3 DEF NoIO
        <3> QED
            BY <2>2, <2>6, <3>2, <3>4 DEF CacheInv, QueueInv
    <2>10. QueueFit'
        <3>1. x \in Buf => b_blk[x] \in Blk \ BadBlk
            BY <1>2 DEF PastEnd, CacheInv, CacheType
        <3> QED
            BY <1>0, <2>1, <2>2, <2>6, <2>7, <3>1 DEF CacheInv, QueueFit
    <2> QED
        BY <2>1, <2>2, <2>3, <2>4, <2>5, <2>6, <2>8, <2>9, <2>10 DEF CacheInv
<1> QED
    BY <1>1, <1>2

-----------------------------------------------------------------------------
(* Steps of a process that leave the cache alone.                           *)

\* A step that changes nothing of the cache keeps its invariant.
LEMMA CacheUntouched ==
    ASSUME CacheInv, UNCHANGED <<cacheVars, b_data, disk, wchan>>
    PROVE  CacheInv'
BY DEF CacheInv, CacheType, AvailIffNotBusy, QueueInv, QueueFit, FlagsSound,
       cacheVars

\* No process claims a buffer that it had not claimed, and those that are
\* still claimed are busy.
LEMMA ClaimsShrink ==
    ASSUME Exclusive,
           \A q \in Proc : /\ Claims(q)' \subseteq Claims(q)
                           /\ bp'[q] # NoBuf => bp'[q] # rbp'[q],
           \A q \in Proc : \A x \in Claims(q)' :
               "B_BUSY" \in b_flags'[x] /\ "B_ASYNC" \notin b_flags'[x]
    PROVE  Exclusive'
BY DEF Exclusive

\* The process p moves to l; the others stay where they are.
Moved(p, l, o, b, r) ==
    /\ pc' \in [Proc -> PC] /\ op' \in [Proc -> Op]
    /\ want' \in [Proc -> [blk : Blk \cup {NoBlk}, ra : Blk \cup {NoBlk}]]
    /\ pc'[p] = l /\ op'[p] = o
    /\ want'[p].blk = b /\ want'[p].ra = r
    /\ \A q \in Proc : q # p => /\ pc'[q] = pc[q] /\ op'[q] = op[q]
                                 /\ want'[q] = want[q]

\* What Call says, as facts on the values of the functions it changes.
LEMMA CallMoves ==
    ASSUME ProcType, NEW p \in Proc, NEW l \in PC, NEW o \in Op,
           NEW b \in Blk \cup {NoBlk}, NEW r \in Blk \cup {NoBlk},
           Call(p, l, o, b, r)
    PROVE  Moved(p, l, o, b, r)
BY DEF Call, Goto, ProcType, Moved

\* Where a call returns to.
Home(p) == IF rbp[p] = NoBuf THEN "user" ELSE "back"

\* What Return says: to user mode, or to the buffer that was kept.
LEMMA ReturnMoves ==
    ASSUME ProcType, NEW p \in Proc, Return(p)
    PROVE  /\ Moved(p, Home(p), "getblk", NoBlk, NoBlk)
           /\ bp' = [bp EXCEPT ![p] = NoBuf]
           /\ Home(p) \in {"user", "back"}
           /\ Home(p) = "user" <=> rbp[p] = NoBuf
<1>1. /\ Call(p, Home(p), "getblk", NoBlk, NoBlk)
      /\ bp' = [bp EXCEPT ![p] = NoBuf]
    BY DEF Return, Home
<1>2. Home(p) \in {"user", "back"} /\ (Home(p) = "user" <=> rbp[p] = NoBuf)
    BY DEF Home
<1>3. Home(p) \in PC /\ "getblk" \in Op
    BY <1>2 DEF PC, Op
<1> QED
    BY <1>1, <1>2, <1>3, CallMoves

\* The claims are as they were.
LEMMA ClaimsUntouched ==
    ASSUME Exclusive, UNCHANGED <<b_flags, bp, rbp>>
    PROVE  Exclusive'
BY DEF Exclusive, Claims

\* A process in user mode makes a call: nothing of the cache changes.
LEMMA BeginKeeps ==
    ASSUME IInv, NEW p \in Proc,
           \/ \E b \in Blk : Bread(p, b)
           \/ \E b \in Blk, r \in Blk \cup {NoBlk} : Breada(p, b, r)
           \/ \E b \in Blk \cup {NoBlk} : GetblkCall(p, b)
           \/ BflushCall(p)
           \/ \E rdflg \in BOOLEAN : SwapCall(p, rdflg)
    PROVE  IInv'
<1>1. UNCHANGED <<cacheVars, b_data, disk, wchan, bp, rbp>>
    BY DEF Bread, Breada, GetblkCall, BflushCall, SwapCall
<1>2. CacheInv' /\ Exclusive'
    BY <1>1, CacheUntouched, ClaimsUntouched DEF IInv, cacheVars
<1>3. PICK l \in PC, o \in Op, b \in Blk \cup {NoBlk}, r \in Blk \cup {NoBlk} :
          /\ Moved(p, l, o, b, r)
          /\ \/ l = "getblk" /\ o \in {"bread", "getblk"}
             \/ l = "breada" /\ o = "breada"
             \/ l \in {"bflush", "swap"} /\ o \notin {"breada", "ra"}
          /\ l \in {"getblk", "breada"} /\ o \in Reads => b # NoBlk
    <2>1. \A b \in Blk : b # NoBlk
        BY BufAssumption
    <2>2. CASE \E b \in Blk : Bread(p, b)
        BY <2>1, <2>2, CallMoves DEF Bread, IInv, PC, Op
    <2>3. CASE \E b \in Blk, r \in Blk \cup {NoBlk} : Breada(p, b, r)
        BY <2>1, <2>3, CallMoves DEF Breada, IInv, PC, Op
    <2>4. CASE \E b \in Blk \cup {NoBlk} : GetblkCall(p, b)
        BY <2>4, CallMoves DEF GetblkCall, IInv, PC, Op, Reads
    <2>5. CASE BflushCall(p)
        <3>1. Moved(p, "bflush", op[p], want[p].blk, want[p].ra)
            BY <2>5 DEF BflushCall, Goto, Moved, IInv, ProcType, PC
        <3>2. /\ op[p] \in Op /\ op[p] \notin {"breada", "ra"}
              /\ want[p].blk \in Blk \cup {NoBlk} /\ want[p].ra \in Blk \cup {NoBlk}
            BY <2>5 DEF BflushCall, Idle, IInv, ProcInv, ProcAt, ProcType
        <3> QED
            BY <3>1, <3>2 DEF PC
    <2>6. CASE \E rdflg \in BOOLEAN : SwapCall(p, rdflg)
        <3>1. PICK o \in {"bread", "bwrite"} : Call(p, "swap", o, NoBlk, NoBlk)
            BY <2>6 DEF SwapCall
        <3>2. Moved(p, "swap", o, NoBlk, NoBlk) /\ o \in Op /\ "swap" \in PC
            BY <3>1, CallMoves DEF IInv, PC, Op
        <3> QED
            BY <3>2
    <2> QED
        BY <2>2, <2>3, <2>4, <2>5, <2>6
<1>4. pc[p] = "user" /\ rbp[p] = NoBuf
    BY DEF Bread, Breada, GetblkCall, BflushCall, SwapCall, Idle, IInv, ProcInv, ProcAt
<1>5. ProcType'
    BY <1>1, <1>3 DEF IInv, ProcType, Moved
<1>6. ProcInv'
    BY <1>1, <1>3, <1>4 DEF IInv, ProcInv, ProcAt, Moved, Reads, cacheVars
<1> QED
    BY <1>2, <1>5, <1>6 DEF IInv

\* getblk returns to its own caller, which now holds the buffer.
LEMMA GotGetblkKeeps ==
    ASSUME IInv, NEW p \in Proc, GotGetblk(p)
    PROVE  IInv'
<1>1. UNCHANGED <<cacheVars, b_data, disk, wchan, bp, rbp>>
    BY DEF GotGetblk
<1>2. CacheInv' /\ Exclusive'
    BY <1>1, CacheUntouched, ClaimsUntouched DEF IInv, cacheVars
<1>3. ProcType' /\ ProcInv'
    BY <1>1, BufAssumption
       DEF IInv, ProcType, ProcInv, ProcAt, Reads, cacheVars, GotGetblk, Got, Hold,
           Call, Goto, PC, Op
<1> QED
    BY <1>2, <1>3 DEF IInv

\* A call returns and p gives up bp[p]; the cache is as it was.
LEMMA ReturnKeeps ==
    ASSUME IInv, NEW p \in Proc, UNCHANGED <<cacheVars, b_data, disk, wchan, rbp>>,
           Return(p), op[p] \notin {"breada", "ra"}
    PROVE  IInv'
<1>1. CacheInv'
    BY CacheUntouched DEF IInv
<1>2. /\ Moved(p, Home(p), "getblk", NoBlk, NoBlk)
      /\ bp' = [bp EXCEPT ![p] = NoBuf]
      /\ Home(p) \in {"user", "back"} /\ (Home(p) = "user" <=> rbp[p] = NoBuf)
    BY ReturnMoves DEF IInv
<1>3. /\ bp' \in [Proc -> Buf \cup {NoBuf}] /\ bp'[p] = NoBuf
      /\ \A q \in Proc : q # p => bp'[q] = bp[q]
    BY <1>2 DEF IInv, ProcType
<1>4. ProcType'
    BY <1>2, <1>3 DEF IInv, ProcType, Moved
<1>5. Exclusive'
    <2>1. \A q \in Proc : /\ Claims(q)' \subseteq Claims(q)
                          /\ bp'[q] # NoBuf => bp'[q] # rbp'[q]
        BY <1>3 DEF IInv, Exclusive, Claims
    <2>2. b_flags' = b_flags
        BY DEF cacheVars
    <2> QED
        BY <2>1, <2>2, ClaimsShrink DEF IInv, Exclusive
<1>6. ProcInv'
    BY <1>2, <1>3 DEF IInv, ProcInv, ProcAt, Moved, Reads, cacheVars
<1> QED
    BY <1>1, <1>4, <1>5, <1>6 DEF IInv

\* A caller keeps its buffer while it gets another.
LEMMA KeepKeeps ==
    ASSUME IInv, NEW p \in Proc, NEW o \in {"bread", "getblk"}, NEW b \in Blk,
           Keep(p, o, b)
    PROVE  IInv'
<1>1. /\ pc[p] = "hold" /\ rbp[p] = NoBuf
      /\ rbp' = [rbp EXCEPT ![p] = bp[p]] /\ bp' = [bp EXCEPT ![p] = NoBuf]
      /\ Call(p, "getblk", o, b, NoBlk)
      /\ UNCHANGED <<cacheVars, b_data, disk, wchan>>
    BY DEF Keep, Holds
<1>2. CacheInv'
    BY <1>1, CacheUntouched DEF IInv
<1>3. Moved(p, "getblk", o, b, NoBlk) /\ b # NoBlk
    BY <1>1, CallMoves, BufAssumption DEF IInv, PC, Op
<1>4. /\ bp' \in [Proc -> Buf \cup {NoBuf}] /\ bp'[p] = NoBuf
      /\ rbp' \in [Proc -> Buf \cup {NoBuf}] /\ rbp'[p] = bp[p]
      /\ \A q \in Proc : q # p => bp'[q] = bp[q] /\ rbp'[q] = rbp[q]
    BY <1>1 DEF IInv, ProcType
<1>5. ProcType'
    BY <1>3, <1>4 DEF ProcType, Moved
<1>6. Exclusive'
    <2>1. \A q \in Proc : /\ Claims(q)' \subseteq Claims(q)
                          /\ bp'[q] # NoBuf => bp'[q] # rbp'[q]
        BY <1>4 DEF IInv, Exclusive, Claims
    <2>2. b_flags' = b_flags
        BY <1>1 DEF cacheVars
    <2> QED
        BY <2>1, <2>2, ClaimsShrink DEF IInv, Exclusive
<1>7. ProcInv'
    BY <1>1, <1>3, <1>4 DEF IInv, ProcInv, ProcAt, Moved, Reads, cacheVars
<1> QED
    BY <1>2, <1>5, <1>6, <1>7 DEF IInv

\* A caller goes on with the buffer it kept.
LEMMA BackKeeps ==
    ASSUME IInv, NEW p \in Proc, Back(p)
    PROVE  IInv'
<1>1. /\ pc[p] = "back"
      /\ bp' = [bp EXCEPT ![p] = rbp[p]] /\ rbp' = [rbp EXCEPT ![p] = NoBuf]
      /\ Call(p, "hold", "getblk", NoBlk, NoBlk)
      /\ UNCHANGED <<cacheVars, b_data, disk, wchan>>
    BY DEF Back, Hold
<1>2. CacheInv'
    BY <1>1, CacheUntouched DEF IInv
<1>3. Moved(p, "hold", "getblk", NoBlk, NoBlk)
    BY <1>1, CallMoves DEF IInv, PC, Op
<1>4. /\ bp' \in [Proc -> Buf \cup {NoBuf}] /\ bp'[p] = rbp[p]
      /\ rbp' \in [Proc -> Buf \cup {NoBuf}] /\ rbp'[p] = NoBuf
      /\ \A q \in Proc : q # p => bp'[q] = bp[q] /\ rbp'[q] = rbp[q]
    BY <1>1 DEF IInv, ProcType
<1>5. ProcType'
    BY <1>3, <1>4 DEF ProcType, Moved
<1>6. Exclusive'
    <2>1. \A q \in Proc : /\ Claims(q)' \subseteq Claims(q)
                          /\ bp'[q] # NoBuf => bp'[q] # rbp'[q]
        BY <1>4 DEF IInv, Exclusive, Claims
    <2>2. b_flags' = b_flags
        BY <1>1 DEF cacheVars
    <2> QED
        BY <2>1, <2>2, ClaimsShrink DEF IInv, Exclusive
<1>7. rbp[p] # NoBuf /\ ~OnList(rbp[p], actq)
    BY <1>1 DEF IInv, ProcInv, ProcAt
<1>8. ProcInv'
    BY <1>1, <1>3, <1>4, <1>7 DEF IInv, ProcInv, ProcAt, Moved, Reads, cacheVars
<1> QED
    BY <1>2, <1>5, <1>6, <1>8 DEF IInv

\* breada looks for its first block in core.
LEMMA BreadaFirstKeeps ==
    ASSUME IInv, NEW p \in Proc, BreadaFirst(p)
    PROVE  IInv'
<1>1. UNCHANGED <<cacheVars, b_data, disk, wchan, op, want, bp, rbp>>
    BY DEF BreadaFirst
<1>2. CacheInv' /\ Exclusive'
    BY <1>1, CacheUntouched, ClaimsUntouched DEF IInv, cacheVars
<1>3. ProcType' /\ ProcInv'
    BY <1>1 DEF IInv, ProcType, ProcInv, ProcAt, Reads, cacheVars, BreadaFirst, Goto, PC
<1> QED
    BY <1>2, <1>3 DEF IInv

\* breada goes on to read ahead, to read its first block, or to wait for it.
LEMMA BreadaAheadKeeps ==
    ASSUME IInv, NEW p \in Proc, BreadaAhead(p)
    PROVE  IInv'
<1>1. UNCHANGED <<cacheVars, b_data, disk, wchan>> /\ pc[p] = "ahead"
    BY DEF BreadaAhead
<1>2. CacheInv'
    BY <1>1, CacheUntouched DEF IInv
<1>3. CASE /\ ReadsAhead(p) /\ UNCHANGED <<bp, rbp>>
           /\ Call(p, "getblk", "ra", want[p].ra, want[p].blk)
    <2>1. want[p].ra \in Blk \cup {NoBlk} /\ want[p].blk \in Blk \cup {NoBlk}
        BY DEF IInv, ProcType
    <2>2. Moved(p, "getblk", "ra", want[p].ra, want[p].blk)
        BY <1>3, <2>1, CallMoves DEF IInv, PC, Op
    <2>3. Exclusive'
        BY <1>1, <1>3, ClaimsUntouched DEF IInv, cacheVars
    <2>4. ProcType'
        BY <1>3, <2>2 DEF IInv, ProcType, Moved
    <2>5. ProcInv'
        BY <1>1, <1>3, <2>2 DEF IInv, ProcInv, ProcAt, Moved, Reads, cacheVars, ReadsAhead
    <2> QED
        BY <1>2, <2>3, <2>4, <2>5 DEF IInv
<1>4. CASE /\ UNCHANGED <<bp, rbp>> /\ rbp[p] = NoBuf
           /\ Call(p, "getblk", "bread", want[p].blk, NoBlk)
    <2>1. want[p].blk \in Blk \cup {NoBlk}
        BY DEF IInv, ProcType
    <2>2. Moved(p, "getblk", "bread", want[p].blk, NoBlk)
        BY <1>4, <2>1, CallMoves DEF IInv, PC, Op
    <2>3. Exclusive'
        BY <1>1, <1>4, ClaimsUntouched DEF IInv, cacheVars
    <2>4. ProcType'
        BY <1>4, <2>2 DEF IInv, ProcType, Moved
    <2>5. ProcInv'
        BY <1>1, <1>4, <2>2 DEF IInv, ProcInv, ProcAt, Moved, Reads, cacheVars
    <2> QED
        BY <1>2, <2>3, <2>4, <2>5 DEF IInv
<1>5. CASE /\ rbp[p] # NoBuf
           /\ Call(p, "iowait", "bread", NoBlk, NoBlk)
           /\ bp' = [bp EXCEPT ![p] = rbp[p]]
           /\ rbp' = [rbp EXCEPT ![p] = NoBuf]
    <2>1. Moved(p, "iowait", "bread", NoBlk, NoBlk)
        BY <1>5, CallMoves DEF IInv, PC, Op
    <2>2. /\ bp' \in [Proc -> Buf \cup {NoBuf}] /\ bp'[p] = rbp[p]
          /\ rbp' \in [Proc -> Buf \cup {NoBuf}] /\ rbp'[p] = NoBuf
          /\ \A q \in Proc : q # p => bp'[q] = bp[q] /\ rbp'[q] = rbp[q]
        BY <1>5 DEF IInv, ProcType
    <2>3. ProcType'
        BY <2>1, <2>2 DEF ProcType, Moved
    <2>4. Exclusive'
        <3>1. \A q \in Proc : /\ Claims(q)' \subseteq Claims(q)
                              /\ bp'[q] # NoBuf => bp'[q] # rbp'[q]
            BY <1>5, <2>2 DEF IInv, Exclusive, Claims
        <3>2. b_flags' = b_flags
            BY <1>1 DEF cacheVars
        <3> QED
            BY <3>1, <3>2, ClaimsShrink DEF IInv, Exclusive
    <2>5. ProcInv'
        BY <1>1, <1>5, <2>1, <2>2 DEF IInv, ProcInv, ProcAt, Moved, Reads, cacheVars
    <2> QED
        BY <1>2, <2>3, <2>4, <2>5 DEF IInv
<1> QED
    BY <1>3, <1>4, <1>5 DEF BreadaAhead

-----------------------------------------------------------------------------
(* Steps that change the cache.                                             *)

\* A buffer that is not busy is claimed by nobody.
LEMMA FreeUnclaimed ==
    ASSUME IInv, NEW x \in Buf, "B_BUSY" \notin b_flags[x], NEW q \in Proc
    PROVE  x \notin Claims(q)
BY DEF IInv, Exclusive

\* The same process q before and after the step.
Stays(q) ==
    /\ pc'[q] = pc[q] /\ op'[q] = op[q] /\ want'[q] = want[q]
    /\ bp'[q] = bp[q] /\ rbp'[q] = rbp[q]

\* A process that is not involved with x does not notice what happens to it.
LEMMA OtherKeeps ==
    ASSUME IInv, NEW x \in Hdr, NEW q \in Proc, Stays(q),
           x \in Claims(q) => b_blk' = b_blk /\ ~OnList(x, actq'),
           \A y \in Buf : y # x => b_blk'[y] = b_blk[y],
           \A y : OnList(y, actq') => OnList(y, actq) \/ y = x
    PROVE  ProcAt(q)'
<1>1. bp[q] # NoBuf => bp[q] \in Buf /\ bp[q] \in Claims(q)
    BY DEF IInv, ProcType, Claims
<1>2. ProcAt(q)
    BY DEF IInv, ProcInv
<1>3. bp[q] # NoBuf => b_blk'[bp[q]] = b_blk[bp[q]]
    BY <1>1
<1>4. bp[q] # NoBuf /\ OnList(bp[q], actq') => OnList(bp[q], actq)
    BY <1>1
<1>5. rbp[q] # NoBuf => rbp[q] \in Claims(q)
    BY DEF Claims
<1>6. rbp[q] # NoBuf /\ OnList(rbp[q], actq') => OnList(rbp[q], actq)
    BY <1>5
<1>7. rbp[q] # NoBuf => rbp[q] \in Buf /\ b_blk'[rbp[q]] = b_blk[rbp[q]]
    BY <1>5 DEF IInv, ProcType
<1> QED
    BY <1>2, <1>3, <1>4, <1>6, <1>7 DEF ProcAt, Stays

\* Exclusive survives when no claim is added and x is released or kept.
LEMMA ExclusiveKeeps ==
    ASSUME IInv, NEW x \in Hdr,
           \A y \in Hdr : y # x => b_flags'[y] = b_flags[y],
           \A q \in Proc : /\ Claims(q)' \subseteq Claims(q)
                           /\ bp'[q] # NoBuf => bp'[q] # rbp'[q],
           (\E q \in Proc : x \in Claims(q)') =>
               "B_BUSY" \in b_flags'[x] /\ "B_ASYNC" \notin b_flags'[x]
    PROVE  Exclusive'
<1>1. \A q \in Proc : Claims(q) \subseteq Hdr
    BY HdrFacts DEF IInv, ProcType, Claims
<1>2. ASSUME NEW q \in Proc, NEW y \in Claims(q)'
      PROVE  "B_BUSY" \in b_flags'[y] /\ "B_ASYNC" \notin b_flags'[y]
    <2>1. y \in Claims(q) /\ y \in Hdr
        BY <1>1, <1>2
    <2>2. "B_BUSY" \in b_flags[y] /\ "B_ASYNC" \notin b_flags[y]
        BY <2>1 DEF IInv, Exclusive
    <2>3. CASE y = x
        BY <1>2, <2>3
    <2>4. CASE y # x
        BY <2>1, <2>2, <2>4
    <2> QED
        BY <2>3, <2>4
<1> QED
    BY <1>2, ClaimsShrink DEF IInv

\* The interrupt after a sector of a longer transfer.
LEMMA IdeNextSectorKeeps ==
    ASSUME IInv, IdeNextSector
    PROVE  IInv'
<1>1. /\ UNCHANGED <<b_flags, b_blk, b_data, avail, fwanted, actq, disk, wchan,
                     pc, op, want, bp, rbp>>
      /\ io.left \in Nat /\ io.left > 1 /\ io' = [io EXCEPT !.left = @ - 1]
    BY DEF IdeNextSector, procVars, IInv, CacheInv, CacheType
<1>2. /\ io' \in [buf : Hdr \cup {NoBuf}, left : Nat, read : BOOLEAN,
                   val : Val \cup {Unread}]
      /\ io'.buf = io.buf /\ io'.read = io.read /\ io'.val = io.val
    <2> DEFINE T == [buf : Hdr \cup {NoBuf}, left : Nat, read : BOOLEAN,
                     val : Val \cup {Unread}]
    <2>1. \A i \in T, n \in Nat : [i EXCEPT !.left = n] \in T
        BY Zenon
    <2>2. io \in T /\ io.left - 1 \in Nat /\ io' = [io EXCEPT !.left = io.left - 1]
        BY <1>1 DEF IInv, CacheInv, CacheType
    <2>3. io' \in T
        BY <2>1, <2>2
    <2>4. io'.buf = io.buf /\ io'.read = io.read /\ io'.val = io.val
        BY <2>2, Zenon
    <2> QED
        BY <2>3, <2>4
<1>3. io # NoIO
    BY <1>1 DEF NoIO
<1>4. actq # <<>> /\ io.buf = actq[1] /\ actq[1] \in Hdr
    BY <1>3, TailList DEF IInv, CacheInv, CacheType, QueueInv
<1>5. io' # NoIO
    BY <1>2, <1>4, HdrFacts DEF NoIO
<1>6. QueueInv'
    BY <1>1, <1>2, <1>4, <1>5 DEF IInv, CacheInv, QueueInv
<1>7. CacheInv'
    BY <1>1, <1>2, <1>6
       DEF IInv, CacheInv, CacheType, AvailIffNotBusy, QueueFit, FlagsSound
<1>8. ProcType' /\ Exclusive' /\ ProcInv'
    BY <1>1 DEF IInv, ProcType, Exclusive, Claims, ProcInv, ProcAt
<1> QED
    BY <1>7, <1>8 DEF IInv

\* The available list, as long as x is busy.
LEMMA BusyIsOff ==
    ASSUME CacheInv, NEW x, x \in Buf => "B_BUSY" \in b_flags[x]
    PROVE  WithoutBuf(avail, x)
BY DEF CacheInv, CacheType, AvailIffNotBusy, WithoutBuf

\* The interrupt at the end of a transfer: whoever has the buffer still has
\* it, because a claimed buffer is not asynchronous.
LEMMA IdeDoneKeeps ==
    ASSUME IInv, IdeDone
    PROVE  IInv'
<1> DEFINE x == actq[1]
<1>1. actq # <<>> /\ io.buf = x
    <2>1. io # NoIO
        BY DEF IdeDone, NoIO
    <2> QED
        BY <2>1 DEF IInv, CacheInv, QueueInv
<1>2. /\ actq' = Tail(actq) /\ io' = Rkstart(Tail(actq))
      /\ Iodone(x, b_flags[x], avail)
      /\ UNCHANGED <<pc, op, want, bp, rbp>>
      /\ b_data' = IF io.read /\ io.buf \in Buf
                   THEN [b_data EXCEPT ![io.buf] = disk[b_blk[io.buf]]]
                   ELSE b_data
      /\ disk' = IF ~io.read /\ io.buf \in Buf
                 THEN [disk EXCEPT ![b_blk[io.buf]] = io.val]
                 ELSE disk
    BY DEF IdeDone, procVars
<1>3. /\ x \in Hdr /\ OnList(x, actq)
      /\ actq' \in Seq(Hdr) /\ NoTwice(actq')
      /\ \A y : OnList(y, actq') <=> (OnList(y, actq) /\ y # x)
    BY <1>1, <1>2, TailList DEF IInv, CacheInv, CacheType, QueueInv
<1>4. /\ "B_BUSY" \in b_flags[x] /\ "B_DONE" \notin b_flags[x]
      /\ b_flags[x] \in SUBSET Flag
      /\ x \in Buf => b_blk[x] \in Blk \ BadBlk /\ "B_DELWRI" \notin b_flags[x]
      /\ "B_ASYNC" \in b_flags[x] => x \in Buf
    BY <1>3 DEF IInv, CacheInv, CacheType, QueueInv, QueueFit, FlagsSound, Hdr
<1>5. /\ Settled(x) /\ b_flags'[x] \subseteq b_flags[x] \cup {"B_DONE"}
      /\ "B_ASYNC" \notin b_flags[x] => b_blk' = b_blk /\ "B_BUSY" \in b_flags'[x]
    <2>1. WithoutBuf(avail, x)
        BY <1>4, BusyIsOff DEF IInv
    <2> HIDE DEF x
    <2> QED
        BY <1>2, <1>3, <1>4, <2>1, IodoneSettles DEF IInv
<1> HIDE DEF x
<1>6. b_data' \in [Buf -> Val] /\ disk' \in [Blk \ BadBlk -> Val]
    BY <1>1, <1>2, <1>4 DEF IInv, CacheInv, CacheType, QueueFit
<1>7. /\ io' \in [buf : Hdr \cup {NoBuf}, left : Nat, read : BOOLEAN,
                   val : Val \cup {Unread}]
      /\ actq' # <<>> => io'.buf = actq'[1] /\ io' # NoIO
      /\ actq' = <<>> => io' = NoIO
      /\ io'.buf \in Buf /\ ~io'.read => io'.val \in Val
    <2>1. CASE actq' = <<>>
        <3>1. io' = NoIO
            BY <1>2, <2>1 DEF Rkstart
        <3>2. NoIO.buf = NoBuf
            BY DEF NoIO
        <3>3. NoIO \in [buf : Hdr \cup {NoBuf}, left : Nat, read : BOOLEAN,
                        val : Val \cup {Unread}]
            BY DEF NoIO
        <3> QED
            BY <2>1, <3>1, <3>2, <3>3, HdrFacts
    <2>2. CASE actq' # <<>>
        <3> DEFINE y == actq'[1]
        <3>1. y \in Hdr /\ OnList(y, actq')
            BY <1>3, <2>2, TailList
        <3>2. /\ y \in Buf => "B_PHYS" \notin b_flags[y] /\ b_data[y] \in Val
              /\ y = swbuf => "B_PHYS" \in b_flags[y]
            BY <1>3, <3>1 DEF IInv, CacheInv, CacheType, QueueFit
        <3>3. io' = Devstart(y, b_flags[y], b_data[y])
            BY <1>2, <2>2 DEF Rkstart
        <3> HIDE DEF y
        <3>4. /\ io' \in [buf : Hdr \cup {NoBuf}, left : Nat, read : BOOLEAN,
                           val : Val \cup {Unread}]
              /\ io'.buf = y
              /\ y \in Buf /\ ~io'.read => io'.val \in Val
            BY <3>1, <3>2, <3>3, DevstartType
        <3>5. io' # NoIO
            BY <3>1, <3>4, HdrFacts DEF NoIO
        <3> QED
            BY <2>2, <3>4, <3>5 DEF y
    <2> QED
        BY <2>1, <2>2
<1>8. CacheInv'
    <2>1. CacheType'
        BY <1>3, <1>5, <1>6, <1>7 DEF Settled, CacheType
    <2>2. QueueInv'
        BY <1>3, <1>5, <1>7 DEF Settled, IInv, CacheInv, QueueInv
    <2>3. QueueFit'
        BY <1>3, <1>5, <1>7, HdrFacts, SMTT(40) DEF Settled, IInv, CacheInv, QueueFit
    <2> QED
        BY <1>5, <2>1, <2>2, <2>3 DEF Settled, CacheInv
<1>9. \A q \in Proc : Claims(q)' = Claims(q) /\ Stays(q)
    BY <1>2 DEF Claims, Stays
<1>10. \A q \in Proc : x \in Claims(q) => "B_ASYNC" \notin b_flags[x]
    BY DEF IInv, Exclusive
<1>11. Exclusive'
    <2>1. \A q \in Proc : bp'[q] # NoBuf => bp'[q] # rbp'[q]
        BY <1>2 DEF IInv, Exclusive
    <2> QED
        BY <1>3, <1>5, <1>9, <1>10, <2>1, ExclusiveKeeps DEF Settled
<1>12. ProcInv'
    BY <1>3, <1>5, <1>9, <1>10, OtherKeeps DEF Settled, ProcInv
<1>13. ProcType'
    BY <1>2 DEF IInv, ProcType
<1> QED
    BY <1>8, <1>11, <1>12, <1>13 DEF IInv

-----------------------------------------------------------------------------
(* getblk.                                                                  *)

\* getblk marks a busy buffer wanted and sleeps.
LEMMA GetblkBusyKeeps ==
    ASSUME IInv, NEW p \in Proc, GetblkBusy(p)
    PROVE  IInv'
<1>1. PICK x \in Buf : /\ "B_BUSY" \in b_flags[x] /\ Sleep(p, x)
                       /\ b_flags' = [b_flags EXCEPT ![x] = @ \cup {"B_WANTED"}]
    BY DEF GetblkBusy
<1>2. UNCHANGED <<b_blk, b_data, avail, fwanted, actq, io, disk,
                  pc, op, want, bp, rbp>>
    BY DEF GetblkBusy, procVars
<1>3. /\ b_flags' \in [Hdr -> SUBSET Flag]
      /\ \A y \in Hdr : b_flags'[y] \ {"B_WANTED"} = b_flags[y] \ {"B_WANTED"}
      /\ wchan' \in [Proc -> Chan \cup {NoChan}]
    BY <1>1, HdrFacts DEF IInv, CacheInv, CacheType, Flag, Sleep
<1>4. /\ \A y \in Hdr : "B_BUSY" \in b_flags'[y] <=> "B_BUSY" \in b_flags[y]
      /\ \A y \in Hdr : "B_DONE" \in b_flags'[y] <=> "B_DONE" \in b_flags[y]
      /\ \A y \in Hdr : "B_PHYS" \in b_flags'[y] <=> "B_PHYS" \in b_flags[y]
      /\ \A y \in Hdr : "B_ASYNC" \in b_flags'[y] <=> "B_ASYNC" \in b_flags[y]
      /\ \A y \in Hdr : "B_ERROR" \in b_flags'[y] <=> "B_ERROR" \in b_flags[y]
      /\ \A y \in Hdr : "B_DELWRI" \in b_flags'[y] <=> "B_DELWRI" \in b_flags[y]
    BY <1>3
<1>5. CacheInv'
    BY <1>2, <1>3, <1>4, HdrFacts
       DEF IInv, CacheInv, CacheType, AvailIffNotBusy, QueueInv, QueueFit,
           FlagsSound
<1>6. ProcType' /\ ProcInv'
    BY <1>2 DEF IInv, ProcType, ProcInv, ProcAt
<1>7. Exclusive'
    <2>1. \A q \in Proc : Claims(q)' = Claims(q) /\ Claims(q) \subseteq Hdr
        BY <1>2, HdrFacts DEF Claims, IInv, ProcType
    <2> QED
        BY <1>2, <1>4, <2>1 DEF IInv, Exclusive
<1> QED
    BY <1>5, <1>6, <1>7 DEF IInv

\* x, which nobody has, is given to p: the flags are fl and the block is b.
LEMMA ClaimKeeps ==
    ASSUME IInv, NEW p \in Proc, NEW x \in Buf, NEW fl \in SUBSET Flag,
           NEW b \in Blk \cup {NoBlk}, pc[p] = "getblk", b = want[p].blk,
           "B_BUSY" \notin b_flags[x],
           "B_BUSY" \in fl, "B_ASYNC" \notin fl, "B_PHYS" \notin fl,
           "B_DELWRI" \in fl => /\ "B_DONE" \in fl /\ "B_ERROR" \notin fl
                                /\ b # NoBlk,
           b_flags' = [b_flags EXCEPT ![x] = fl],
           b_blk' = [b_blk EXCEPT ![x] = b],
           WithoutBuf(avail', x),
           bp' = [bp EXCEPT ![p] = x], Goto(p, "got"),
           UNCHANGED <<b_data, fwanted, actq, io, disk, wchan, op, want, rbp>>
    PROVE  IInv'
<1>1. /\ b_flags' \in [Hdr -> SUBSET Flag] /\ b_flags'[x] = fl
      /\ \A y \in Hdr : y # x => b_flags'[y] = b_flags[y]
    BY HdrFacts DEF IInv, CacheInv, CacheType
<1>2. /\ b_blk' \in [Buf -> Blk \cup {NoBlk}] /\ b_blk'[x] = b
      /\ \A y \in Buf : y # x => b_blk'[y] = b_blk[y]
    BY DEF IInv, CacheInv, CacheType
<1>3. ~OnList(x, actq)
    BY HdrFacts DEF IInv, CacheInv, QueueInv
<1>4. CacheInv'
    <2>1. CacheType'
        BY <1>1, <1>2 DEF IInv, CacheInv, CacheType, WithoutBuf
    <2>2. AvailIffNotBusy'
        BY <1>1, HdrFacts DEF AvailIffNotBusy, WithoutBuf
    <2>3. QueueInv'
        BY <1>1, <1>3 DEF IInv, CacheInv, QueueInv
    <2>4. QueueFit'
        BY <1>1, <1>2, <1>3, HdrFacts DEF IInv, CacheInv, QueueFit
    <2>5. FlagsSound'
        BY <1>1, <1>2, HdrFacts DEF IInv, CacheInv, FlagsSound
    <2> QED
        BY <2>1, <2>2, <2>3, <2>4, <2>5 DEF CacheInv
<1>5. /\ pc' \in [Proc -> PC] /\ bp' \in [Proc -> Buf \cup {NoBuf}]
      /\ pc'[p] = "got" /\ bp'[p] = x
      /\ \A q \in Proc : q # p => pc'[q] = pc[q] /\ bp'[q] = bp[q]
    BY DEF IInv, ProcType, Goto, PC
<1>6. ProcType'
    BY <1>5 DEF IInv, ProcType
<1>7. \A q \in Proc : x \notin Claims(q)
    BY FreeUnclaimed
<1>8. Exclusive'
    <2>1. \A q \in Proc : q # p => Claims(q)' = Claims(q)
        BY <1>5 DEF Claims
    <2>2. Claims(p)' \subseteq Claims(p) \cup {x} /\ rbp'[p] # x
        BY <1>5, <1>7, HdrFacts DEF Claims
    <2>3. \A q \in Proc : Claims(q) \subseteq Hdr
        BY HdrFacts DEF Claims, IInv, ProcType
    <2>4. \A q \in Proc : bp'[q] # NoBuf => bp'[q] # rbp'[q]
        BY <1>5, <2>2 DEF IInv, Exclusive
    <2>5. ASSUME NEW q \in Proc, NEW y \in Claims(q)'
          PROVE  /\ "B_BUSY" \in b_flags'[y] /\ "B_ASYNC" \notin b_flags'[y]
                 /\ \A r \in Proc : y \in Claims(r)' => r = q
        <3>1. CASE y = x
            BY <1>1, <1>7, <2>1, <2>5, <3>1
        <3>2. CASE y # x
            <4>1. \A r \in Proc : y \in Claims(r)' => y \in Claims(r)
                BY <2>1, <2>2, <3>2
            <4>2. y \in Claims(q) /\ y \in Hdr
                BY <2>3, <2>5, <4>1
            <4> QED
                BY <1>1, <3>2, <4>1, <4>2 DEF IInv, Exclusive
        <3> QED
            BY <3>1, <3>2
    <2> QED
        BY <2>4, <2>5 DEF Exclusive
<1>9. ProcInv'
    <2>1. ASSUME NEW q \in Proc, q # p PROVE ProcAt(q)'
        <3>1. Stays(q)
            BY <1>5, <2>1 DEF Stays
        <3> QED
            BY <1>2, <1>7, <3>1, OtherKeeps, HdrFacts
    <2>2. ProcAt(p)'
        <3>1. rbp[p] # NoBuf => rbp[p] # x /\ rbp[p] \in Buf
            BY <1>7 DEF Claims, IInv, ProcType
        <3> QED
            BY <1>2, <1>3, <1>5, <3>1, HdrFacts DEF IInv, ProcInv, ProcAt
    <2> QED
        BY <2>1, <2>2 DEF ProcInv
<1> QED
    BY <1>4, <1>6, <1>8, <1>9 DEF IInv

\* A free buffer is on the available list, where Place finds it.
LEMMA FreeIsListed ==
    ASSUME CacheInv, NEW x \in Buf, "B_BUSY" \notin b_flags[x]
    PROVE  Place(x) \in DOMAIN avail /\ avail[Place(x)] = x
<1>1. \E i \in DOMAIN avail : avail[i] = x
    BY DEF CacheInv, AvailIffNotBusy, OnList
<1> QED
    BY <1>1 DEF Place

\* getblk claims the free buffer that has the block.
LEMMA GetblkHitKeeps ==
    ASSUME IInv, NEW p \in Proc, GetblkHit(p)
    PROVE  IInv'
<1>1. PICK x \in Buf :
          /\ b_blk[x] = want[p].blk /\ want[p].blk # NoBlk
          /\ "B_BUSY" \notin b_flags[x]
          /\ avail' = Unlink(avail, Place(x))
          /\ b_flags' = [b_flags EXCEPT ![x] = @ \cup {"B_BUSY"}]
          /\ bp' = [bp EXCEPT ![p] = x]
    BY DEF GetblkHit
<1>2. pc[p] = "getblk" /\ Goto(p, "got")
    BY DEF GetblkHit, InGetblk
<1>3. UNCHANGED <<b_blk, b_data, fwanted, actq, io, disk, wchan, op, want, rbp>>
    BY DEF GetblkHit
<1>4. WithoutBuf(avail', x)
    <2>1. Place(x) \in DOMAIN avail /\ avail[Place(x)] = x
        BY <1>1, FreeIsListed DEF IInv
    <2>2. /\ avail' \in Seq(Buf) /\ NoTwice(avail')
          /\ \A y : OnList(y, avail') <=> (OnList(y, avail) /\ y # x)
        BY <1>1, <2>1, UnlinkList DEF IInv, CacheInv, CacheType, AvailIffNotBusy
    <2> QED
        BY <2>2 DEF IInv, CacheInv, AvailIffNotBusy, WithoutBuf
<1> DEFINE fl == b_flags[x] \cup {"B_BUSY"}
<1>5. b_flags' = [b_flags EXCEPT ![x] = fl]
    BY <1>1
<1>6. b_blk' = [b_blk EXCEPT ![x] = want[p].blk]
    BY <1>1, <1>3 DEF IInv, CacheInv, CacheType
<1>7. /\ fl \in SUBSET Flag /\ "B_BUSY" \in fl /\ "B_PHYS" \notin fl
      /\ "B_DELWRI" \in fl => "B_DONE" \in fl /\ "B_ERROR" \notin fl
      /\ want[p].blk \in Blk \cup {NoBlk}
    BY <1>1, HdrFacts
       DEF IInv, CacheInv, CacheType, QueueFit, FlagsSound, Flag, ProcType
<1>8. "B_ASYNC" \notin fl
    BY <1>1 DEF IInv, CacheInv, FlagsSound
<1> QED
    BY <1>1, <1>2, <1>3, <1>4, <1>5, <1>6, <1>7, <1>8, ClaimKeeps

\* getblk finds no free buffer and sleeps.
LEMMA GetblkEmptyKeeps ==
    ASSUME IInv, NEW p \in Proc, GetblkEmpty(p)
    PROVE  IInv'
<1>1. /\ UNCHANGED <<b_flags, b_blk, b_data, avail, actq, io, disk,
                     pc, op, want, bp, rbp>>
      /\ fwanted' = TRUE /\ wchan' = [wchan EXCEPT ![p] = bfreelist]
    BY DEF GetblkEmpty, Sleep, procVars
<1>2. CacheInv'
    BY <1>1, HdrFacts
       DEF IInv, CacheInv, CacheType, AvailIffNotBusy, QueueInv, QueueFit,
           FlagsSound
<1>3. ProcType' /\ Exclusive' /\ ProcInv'
    BY <1>1 DEF IInv, ProcType, Exclusive, Claims, ProcInv, ProcAt
<1> QED
    BY <1>2, <1>3 DEF IInv

\* The first available buffer.
LEMMA OldestIsFree ==
    ASSUME CacheInv, avail # <<>>
    PROVE  /\ avail[1] \in Buf /\ "B_BUSY" \notin b_flags[avail[1]]
           /\ WithoutBuf(Tail(avail), avail[1])
<1>1. /\ Tail(avail) \in Seq(Buf) /\ NoTwice(Tail(avail))
      /\ avail[1] \in Buf /\ OnList(avail[1], avail)
      /\ \A y : OnList(y, Tail(avail)) <=> (OnList(y, avail) /\ y # avail[1])
    BY TailList DEF CacheInv, CacheType, AvailIffNotBusy
<1> QED
    BY <1>1 DEF CacheInv, AvailIffNotBusy, WithoutBuf

\* getblk gives the oldest free buffer to another block.
LEMMA GetblkReassignKeeps ==
    ASSUME IInv, NEW p \in Proc, GetblkReassign(p)
    PROVE  IInv'
<1> DEFINE x == avail[1]
           fl == {"B_BUSY"}
<1>1. /\ pc[p] = "getblk" /\ Goto(p, "got") /\ avail # <<>>
      /\ b_flags' = [b_flags EXCEPT ![x] = fl]
      /\ b_blk' = [b_blk EXCEPT ![x] = want[p].blk]
      /\ avail' = Tail(avail)
      /\ bp' = [bp EXCEPT ![p] = x]
      /\ UNCHANGED <<b_data, fwanted, actq, io, disk, wchan, op, want, rbp>>
    BY DEF GetblkReassign, NeedsBuffer, InGetblk
<1>2. x \in Buf /\ "B_BUSY" \notin b_flags[x] /\ WithoutBuf(avail', x)
    BY <1>1, OldestIsFree DEF IInv
<1>3. want[p].blk \in Blk \cup {NoBlk}
    BY DEF IInv, ProcType
<1>4. /\ fl \in SUBSET Flag /\ "B_BUSY" \in fl /\ "B_ASYNC" \notin fl
      /\ "B_PHYS" \notin fl /\ "B_DELWRI" \notin fl
    BY DEF Flag
<1> HIDE DEF x, fl
<1> QED
    BY <1>1, <1>2, <1>3, <1>4, ClaimKeeps

\* A delayed write is started on a buffer that nobody has.
LEMMA WriteBehindKeeps ==
    ASSUME IInv, NEW x \in Buf, NEW av, WithoutBuf(av, x),
           "B_BUSY" \notin b_flags[x], "B_DELWRI" \in b_flags[x],
           Strategy(x, BwriteFlags(b_flags[x] \cup {"B_BUSY", "B_ASYNC"}), av,
                    b_data[x]),
           UNCHANGED <<b_data, disk, pc, op, want, bp, rbp>>
    PROVE  IInv'
<1> DEFINE fl == BwriteFlags(b_flags[x] \cup {"B_BUSY", "B_ASYNC"})
<1>1. /\ fl \in SUBSET Flag /\ "B_BUSY" \in fl /\ "B_DONE" \notin fl
      /\ "B_DELWRI" \notin fl /\ "B_PHYS" \notin fl
      /\ b_blk[x] # NoBlk /\ b_data[x] \in Val /\ x \in Hdr /\ x # swbuf
    BY HdrFacts DEF IInv, CacheInv, CacheType, QueueFit, FlagsSound, BwriteFlags,
                    Flag
<1>2. ~OnList(x, actq) /\ b_data' \in [Buf -> Val]
    BY HdrFacts DEF IInv, CacheInv, CacheType, QueueInv
<1>3. \A q \in Proc : x \notin Claims(q) /\ Claims(q)' = Claims(q) /\ Stays(q)
    BY FreeUnclaimed DEF Claims, Stays
<1> HIDE DEF fl
<1>4. /\ CacheInv' /\ Settled(x)
      /\ \A y : OnList(y, actq') => OnList(y, actq) \/ y = x
    BY <1>1, <1>2, StrategyKeeps DEF IInv, fl
<1>5. ProcType'
    BY DEF IInv, ProcType
<1>6. Exclusive'
    <2>1. \A q \in Proc : bp'[q] # NoBuf => bp'[q] # rbp'[q]
        BY DEF IInv, Exclusive
    <2> QED
        BY <1>1, <1>3, <1>4, <2>1, ExclusiveKeeps DEF Settled
<1>7. ProcInv'
    BY <1>1, <1>3, <1>4, OtherKeeps DEF Settled, ProcInv
<1> QED
    BY <1>4, <1>5, <1>6, <1>7 DEF IInv

\* getblk starts the delayed write of the oldest free buffer.
LEMMA GetblkDelwriKeeps ==
    ASSUME IInv, NEW p \in Proc, GetblkDelwri(p)
    PROVE  IInv'
<1> DEFINE x == avail[1]
<1>1. /\ avail # <<>> /\ "B_DELWRI" \in b_flags[x]
      /\ Strategy(x, BwriteFlags(b_flags[x] \cup {"B_BUSY", "B_ASYNC"}),
                  Tail(avail), b_data[x])
      /\ UNCHANGED <<b_data, disk, pc, op, want, bp, rbp>>
    BY DEF GetblkDelwri, procVars
<1>2. x \in Buf /\ "B_BUSY" \notin b_flags[x] /\ WithoutBuf(Tail(avail), x)
    BY <1>1, OldestIsFree DEF IInv
<1> HIDE DEF x
<1> QED
    BY <1>1, <1>2, WriteBehindKeeps

\* bflush starts the delayed write of one available buffer, or returns.
LEMMA BflushKeeps ==
    ASSUME IInv, NEW p \in Proc, Bflush(p)
    PROVE  IInv'
<1>1. ASSUME NEW i \in Dirty,
             Strategy(avail[i],
                 BwriteFlags(b_flags[avail[i]] \cup {"B_BUSY", "B_ASYNC"}),
                 Unlink(avail, i), b_data[avail[i]]),
             UNCHANGED <<b_data, disk, pc, op, want, bp, rbp>>
      PROVE  IInv'
    <2> DEFINE x == avail[i]
    <2>1. i \in DOMAIN avail /\ "B_DELWRI" \in b_flags[x]
        BY DEF Dirty
    <2>2. /\ Unlink(avail, i) \in Seq(Buf) /\ NoTwice(Unlink(avail, i))
          /\ x \in Buf /\ OnList(x, avail)
          /\ \A y : OnList(y, Unlink(avail, i)) <=> (OnList(y, avail) /\ y # x)
        BY <2>1, UnlinkList DEF IInv, CacheInv, CacheType, AvailIffNotBusy
    <2>3. Strategy(x, BwriteFlags(b_flags[x] \cup {"B_BUSY", "B_ASYNC"}),
                   Unlink(avail, i), b_data[x])
        BY <1>1
    <2> HIDE DEF x
    <2>4. WithoutBuf(Unlink(avail, i), x) /\ "B_BUSY" \notin b_flags[x]
        BY <2>2 DEF IInv, CacheInv, AvailIffNotBusy, WithoutBuf
    <2> QED
        BY <1>1, <2>1, <2>2, <2>3, <2>4, WriteBehindKeeps
<1>2. pc[p] = "bflush"
    BY DEF Bflush
<1>3. CASE Dirty = {} /\ Return(p) /\ UNCHANGED <<cacheVars, wchan, b_data, disk, rbp>>
    <2>1. op[p] \notin {"breada", "ra"}
        BY <1>2 DEF IInv, ProcInv, ProcAt
    <2> QED
        BY <1>3, <2>1, ReturnKeeps
<1> QED
    BY <1>1, <1>3 DEF Bflush

-----------------------------------------------------------------------------
(* A process gives the buffer it has to the driver, or back to the cache.   *)

\* What p knows of the buffer it has.
LEMMA ClaimFacts ==
    ASSUME IInv, NEW p \in Proc, bp[p] # NoBuf
    PROVE  /\ bp[p] \in Buf /\ bp[p] \in Hdr /\ bp[p] # swbuf
           /\ bp[p] # rbp[p]
           /\ b_flags[bp[p]] \in SUBSET Flag
           /\ "B_BUSY" \in b_flags[bp[p]] /\ "B_ASYNC" \notin b_flags[bp[p]]
           /\ "B_PHYS" \notin b_flags[bp[p]]
           /\ WithoutBuf(avail, bp[p])
           /\ \A q \in Proc : bp[p] \in Claims(q) => q = p
<1>1. bp[p] \in Buf /\ bp[p] \in Claims(p)
    BY DEF IInv, ProcType, Claims
<1>2. /\ "B_BUSY" \in b_flags[bp[p]] /\ "B_ASYNC" \notin b_flags[bp[p]]
      /\ \A q \in Proc : bp[p] \in Claims(q) => q = p
      /\ bp[p] # rbp[p]
    BY <1>1 DEF IInv, Exclusive
<1>3. WithoutBuf(avail, bp[p])
    BY <1>2, BusyIsOff DEF IInv
<1>4. b_flags[bp[p]] \in SUBSET Flag /\ "B_PHYS" \notin b_flags[bp[p]]
    BY <1>1, HdrFacts DEF IInv, CacheInv, CacheType, QueueFit
<1> QED
    BY <1>1, <1>2, <1>3, <1>4, HdrFacts

\* The buffer goes to the driver with the flags fl.
LEMMA OwnStrategyKeeps ==
    ASSUME IInv, NEW p \in Proc, NEW x, x = bp[p], x # NoBuf,
           NEW fl \in SUBSET Flag, NEW data \in Val,
           Strategy(x, fl, avail, data), ~OnList(x, actq), b_blk[x] # NoBlk,
           "B_BUSY" \in fl, "B_DONE" \notin fl, "B_DELWRI" \notin fl,
           "B_PHYS" \notin fl, b_data' \in [Buf -> Val], disk' = disk,
           \A q \in Proc : q # p => Stays(q)
    PROVE  /\ CacheInv' /\ Settled(x)
           /\ \A y : OnList(y, actq') => OnList(y, actq) \/ y = x
           /\ \A q \in Proc : q # p => ProcAt(q)'
           /\ "B_ASYNC" \notin fl => /\ b_blk' = b_blk
                                     /\ "B_BUSY" \in b_flags'[x]
                                     /\ "B_ASYNC" \notin b_flags'[x]
<1>1. /\ x \in Buf /\ x \in Hdr /\ x # swbuf /\ WithoutBuf(avail, x)
      /\ \A q \in Proc : x \in Claims(q) => q = p
    BY ClaimFacts
<1>2. /\ CacheInv' /\ Settled(x)
      /\ \A y : OnList(y, actq') => OnList(y, actq) \/ y = x
      /\ "B_ASYNC" \notin fl => /\ b_blk' = b_blk
                                /\ "B_BUSY" \in b_flags'[x]
                                /\ "B_ASYNC" \notin b_flags'[x]
    BY <1>1, StrategyKeeps DEF IInv
<1>3. ASSUME NEW q \in Proc, q # p PROVE ProcAt(q)'
    BY <1>1, <1>2, <1>3, OtherKeeps DEF Settled
<1> QED
    BY <1>2, <1>3

\* The buffer goes back to the cache with the flags fl.
LEMMA OwnBrelseKeeps ==
    ASSUME IInv, NEW p \in Proc, NEW x, x = bp[p], x # NoBuf,
           NEW fl \in SUBSET Flag, Brelse(x, fl, avail), ~OnList(x, actq),
           "B_DELWRI" \in fl => /\ "B_DONE" \in fl /\ "B_ERROR" \notin fl
                                /\ b_blk[x] # NoBlk,
           "B_PHYS" \notin fl, b_data' \in [Buf -> Val],
           UNCHANGED <<actq, io, disk>>, \A q \in Proc : q # p => Stays(q)
    PROVE  /\ CacheInv' /\ Settled(x)
           /\ \A q \in Proc : q # p => ProcAt(q)'
<1>1. /\ x \in Buf /\ x \in Hdr /\ x # swbuf /\ WithoutBuf(avail, x)
      /\ \A q \in Proc : x \in Claims(q) => q = p
    BY ClaimFacts
<1>2. Settled(x) /\ b_flags'[x] = fl \ {"B_WANTED", "B_BUSY", "B_ASYNC"}
    BY <1>1, BrelseSettles DEF IInv
<1>3. CacheType'
    BY <1>2 DEF Settled, IInv, CacheInv, CacheType
<1>4. QueueInv'
    BY <1>1, <1>2 DEF Settled, IInv, CacheInv, QueueInv, NoIO
<1>5. QueueFit'
    BY <1>1, <1>2, HdrFacts DEF Settled, IInv, CacheInv, QueueFit
<1>6. ASSUME NEW q \in Proc, q # p PROVE ProcAt(q)'
    BY <1>1, <1>2, <1>6, OtherKeeps DEF Settled
<1> QED
    BY <1>2, <1>3, <1>4, <1>5, <1>6 DEF Settled, CacheInv

\* What is left to show of a step in which p moves to l: that p itself is
\* where it should be.
LEMMA StepKeeps ==
    ASSUME IInv, NEW p \in Proc, NEW x \in Hdr,
           NEW l, NEW o, NEW b, NEW r, Moved(p, l, o, b, r),
           bp' \in [Proc -> Buf \cup {NoBuf}],
           rbp' \in [Proc -> Buf \cup {NoBuf}],
           bp'[p] # NoBuf => bp'[p] # rbp'[p],
           Claims(p)' \subseteq Claims(p),
           \A q \in Proc : q # p => Stays(q) /\ ProcAt(q)' /\ x \notin Claims(q),
           x \in Claims(p)' =>
               "B_BUSY" \in b_flags'[x] /\ "B_ASYNC" \notin b_flags'[x],
           CacheInv', Settled(x), ProcAt(p)'
    PROVE  IInv'
<1>1. ProcType'
    BY DEF ProcType, Moved
<1>2. \A q \in Proc : q # p => Claims(q)' = Claims(q)
    BY DEF Claims, Stays
<1>3. \A q \in Proc : bp'[q] # NoBuf => bp'[q] # rbp'[q]
    BY DEF IInv, Exclusive, Stays
<1>4. \A q \in Proc : Claims(q)' \subseteq Claims(q)
    BY <1>2
<1>5. (\E q \in Proc : x \in Claims(q)') =>
          "B_BUSY" \in b_flags'[x] /\ "B_ASYNC" \notin b_flags'[x]
    BY <1>2
<1>6. Exclusive'
    BY <1>3, <1>4, <1>5, ExclusiveKeeps DEF Settled
<1>7. ProcInv'
    BY DEF ProcInv
<1> QED
    BY <1>1, <1>6, <1>7 DEF IInv

\* bread finds the block in the buffer, or queues the read.
LEMMA GotBreadKeeps ==
    ASSUME IInv, NEW p \in Proc, GotBread(p)
    PROVE  IInv'
<1> DEFINE x == bp[p]
<1>1. /\ pc[p] = "got" /\ op[p] = "bread"
      /\ UNCHANGED <<b_data, disk, bp, rbp>>
    BY DEF GotBread, Got
<1>2. x # NoBuf /\ ~OnList(x, actq) /\ b_blk[x] # NoBlk
    BY <1>1 DEF IInv, ProcInv, ProcAt, Reads
<1>3. CASE UNCHANGED <<cacheVars, wchan>> /\ Hold(p)
    <2>1. Moved(p, "hold", "getblk", NoBlk, NoBlk)
        BY <1>3, CallMoves DEF Hold, IInv, PC, Op
    <2>2. CacheInv' /\ Exclusive'
        BY <1>1, <1>3, CacheUntouched, ClaimsUntouched DEF IInv, cacheVars
    <2>3. ProcType'
        BY <1>1, <2>1 DEF IInv, ProcType, Moved
    <2>4. ProcInv'
        BY <1>1, <1>2, <1>3, <2>1 DEF IInv, ProcInv, ProcAt, Moved, Reads, cacheVars
    <2> QED
        BY <2>2, <2>3, <2>4 DEF IInv
<1>4. CASE /\ "B_DONE" \notin b_flags[x]
           /\ Strategy(x, b_flags[x] \cup {"B_READ"}, avail, b_data[x])
           /\ Call(p, "iowait", "bread", NoBlk, NoBlk)
    <2>1. Moved(p, "iowait", "bread", NoBlk, NoBlk)
        BY <1>4, CallMoves DEF IInv, PC, Op
    <2>2. \A q \in Proc : q # p => Stays(q)
        BY <1>1, <2>1 DEF Moved, Stays
    <2> DEFINE fl == b_flags[x] \cup {"B_READ"}
    <2>3. /\ x \in Buf /\ x \in Hdr /\ x # rbp[p] /\ b_data[x] \in Val
          /\ \A q \in Proc : x \in Claims(q) => q = p
          /\ fl \in SUBSET Flag /\ "B_BUSY" \in fl /\ "B_DONE" \notin fl
          /\ "B_PHYS" \notin fl /\ "B_ASYNC" \notin fl
        BY <1>2, <1>4, ClaimFacts DEF IInv, CacheInv, CacheType, Flag
    <2>4. "B_DELWRI" \notin fl
        BY <1>4, <2>3 DEF IInv, CacheInv, FlagsSound
    <2>5. b_data' \in [Buf -> Val] /\ Strategy(x, fl, avail, b_data[x])
        BY <1>1, <1>4 DEF IInv, CacheInv, CacheType
    <2> HIDE DEF fl, x
    <2>6. /\ CacheInv' /\ Settled(x)
          /\ \A y : OnList(y, actq') => OnList(y, actq) \/ y = x
          /\ \A q \in Proc : q # p => ProcAt(q)'
          /\ "B_BUSY" \in b_flags'[x] /\ "B_ASYNC" \notin b_flags'[x]
        BY <1>1, <1>2, <2>2, <2>3, <2>4, <2>5, OwnStrategyKeeps DEF x
    <2>7. ProcAt(p)'
        <3>1. rbp[p] # NoBuf => ~OnList(rbp[p], actq)
            BY <1>1 DEF IInv, ProcInv, ProcAt
        <3>2. rbp'[p] # NoBuf => ~OnList(rbp'[p], actq')
            BY <1>1, <2>3, <2>6, <3>1
        <3> QED
            BY <1>1, <1>2, <2>1, <3>2 DEF ProcAt, Moved, Reads, x
    <2>8. /\ bp' \in [Proc -> Buf \cup {NoBuf}]
          /\ rbp' \in [Proc -> Buf \cup {NoBuf}]
          /\ bp'[p] # NoBuf => bp'[p] # rbp'[p]
          /\ Claims(p)' \subseteq Claims(p)
        BY <1>1, <2>3 DEF IInv, ProcType, Claims, x
    <2> QED
        BY <2>1, <2>2, <2>3, <2>6, <2>7, <2>8, StepKeeps
<1> QED
    BY <1>1, <1>3, <1>4 DEF GotBread

\* breada does the same and keeps the buffer as its first.
LEMMA GotBreadaKeeps ==
    ASSUME IInv, NEW p \in Proc, GotBreada(p)
    PROVE  IInv'
<1> DEFINE x == bp[p]
<1>1. /\ pc[p] = "got" /\ op[p] = "breada"
      /\ rbp' = [rbp EXCEPT ![p] = x] /\ bp' = [bp EXCEPT ![p] = NoBuf]
      /\ Goto(p, "ahead") /\ UNCHANGED <<b_data, disk, op, want>>
    BY DEF GotBreada, Got
<1>2. x # NoBuf /\ ~OnList(x, actq) /\ b_blk[x] # NoBlk
    BY <1>1 DEF IInv, ProcInv, ProcAt, Reads
<1>3. Moved(p, "ahead", "breada", want[p].blk, want[p].ra)
    BY <1>1 DEF IInv, ProcType, Moved, Goto, PC
<1>4. /\ bp' \in [Proc -> Buf \cup {NoBuf}] /\ bp'[p] = NoBuf
      /\ rbp' \in [Proc -> Buf \cup {NoBuf}] /\ rbp'[p] = x
      /\ \A q \in Proc : q # p => bp'[q] = bp[q] /\ rbp'[q] = rbp[q]
    BY <1>1 DEF IInv, ProcType
<1>5. \A q \in Proc : q # p => Stays(q)
    BY <1>3, <1>4 DEF Moved, Stays
<1>6. Claims(p)' \subseteq Claims(p) /\ want[p].blk # NoBlk
    BY <1>1, <1>4 DEF Claims, IInv, ProcInv, ProcAt, Reads
<1>7. CASE UNCHANGED <<cacheVars, wchan>>
    <2>1. CacheInv'
        BY <1>1, <1>7, CacheUntouched DEF IInv
    <2>2. ProcType'
        BY <1>3, <1>4 DEF ProcType, Moved
    <2>3. Exclusive'
        <3>1. \A q \in Proc : /\ Claims(q)' \subseteq Claims(q)
                              /\ bp'[q] # NoBuf => bp'[q] # rbp'[q]
            BY <1>4, <1>6 DEF IInv, Exclusive, Claims
        <3> QED
            BY <1>7, <3>1, ClaimsShrink DEF IInv, Exclusive, cacheVars
    <2>4. ProcInv'
        BY <1>2, <1>3, <1>4, <1>6, <1>7 DEF IInv, ProcInv, ProcAt, Moved, cacheVars
    <2> QED
        BY <2>1, <2>2, <2>3, <2>4 DEF IInv
<1>8. CASE /\ "B_DONE" \notin b_flags[x]
           /\ Strategy(x, b_flags[x] \cup {"B_READ"}, avail, b_data[x])
    <2> DEFINE fl == b_flags[x] \cup {"B_READ"}
    <2>1. /\ x \in Buf /\ x \in Hdr /\ b_data[x] \in Val
          /\ \A q \in Proc : x \in Claims(q) => q = p
          /\ fl \in SUBSET Flag /\ "B_BUSY" \in fl /\ "B_DONE" \notin fl
          /\ "B_PHYS" \notin fl /\ "B_ASYNC" \notin fl
        BY <1>2, <1>8, ClaimFacts DEF IInv, CacheInv, CacheType, Flag
    <2>2. "B_DELWRI" \notin fl
        BY <1>8, <2>1 DEF IInv, CacheInv, FlagsSound
    <2>3. b_data' \in [Buf -> Val] /\ Strategy(x, fl, avail, b_data[x])
        BY <1>1, <1>8 DEF IInv, CacheInv, CacheType
    <2> HIDE DEF fl, x
    <2>4. /\ CacheInv' /\ Settled(x) /\ b_blk' = b_blk
          /\ \A q \in Proc : q # p => ProcAt(q)'
          /\ "B_BUSY" \in b_flags'[x] /\ "B_ASYNC" \notin b_flags'[x]
        BY <1>1, <1>2, <1>5, <2>1, <2>2, <2>3, OwnStrategyKeeps DEF x
    <2>5. ProcAt(p)'
        BY <1>2, <1>3, <1>4, <1>6, <2>4 DEF ProcAt, Moved
    <2> QED
        BY <1>3, <1>4, <1>5, <1>6, <2>1, <2>4, <2>5, StepKeeps
<1> QED
    BY <1>1, <1>7, <1>8 DEF GotBreada

\* p moves to l without bp[p], which it has given to the driver or back.
LEMMA GivenAway ==
    ASSUME IInv, NEW p \in Proc, NEW x, x = bp[p], x # NoBuf,
           NEW l, NEW o, NEW b, NEW r, Moved(p, l, o, b, r),
           bp' = [bp EXCEPT ![p] = NoBuf], rbp' = rbp,
           CacheInv', Settled(x), \A q \in Proc : q # p => ProcAt(q)',
           \A y : OnList(y, actq') => OnList(y, actq) \/ y = x,
           \/ l = "ahead" /\ o = "breada" /\ b # NoBlk /\ op[p] = "ra"
           \/ /\ l \in {"user", "back"} /\ (l = "user" <=> rbp[p] = NoBuf)
              /\ o = "getblk" /\ op[p] \notin {"breada", "ra"}
    PROVE  IInv'
<1>1. /\ bp' \in [Proc -> Buf \cup {NoBuf}] /\ bp'[p] = NoBuf
      /\ rbp' \in [Proc -> Buf \cup {NoBuf}]
      /\ \A q \in Proc : q # p => bp'[q] = bp[q]
    BY DEF IInv, ProcType
<1>2. \A q \in Proc : q # p => Stays(q)
    BY <1>1 DEF Moved, Stays
<1>3. /\ x \in Hdr /\ x # rbp[p]
      /\ \A q \in Proc : x \in Claims(q) => q = p
    BY ClaimFacts
<1>4. Claims(p)' \subseteq Claims(p) /\ x \notin Claims(p)'
    BY <1>1, <1>3 DEF Claims
<1>5. ProcAt(p)'
    <2>1. rbp[p] # NoBuf /\ OnList(rbp[p], actq') => o \in {"breada", "ra"}
        BY <1>3 DEF IInv, ProcInv, ProcAt
    <2>2. /\ rbp[p] # NoBuf => b_blk'[rbp[p]] = b_blk[rbp[p]]
          /\ rbp[p] # NoBuf /\ op[p] \in {"breada", "ra"} => b_blk[rbp[p]] # NoBlk
        BY <1>3 DEF Settled, IInv, ProcInv, ProcAt, ProcType
    <2> QED
        BY <1>1, <2>1, <2>2 DEF ProcAt, Moved
<1> QED
    BY <1>1, <1>2, <1>3, <1>4, <1>5, StepKeeps

\* breada releases the second buffer, or queues it for the interrupt to
\* release.
LEMMA GotAheadKeeps ==
    ASSUME IInv, NEW p \in Proc, GotAhead(p)
    PROVE  IInv'
<1> DEFINE x == bp[p]
<1>1. /\ pc[p] = "got" /\ op[p] = "ra"
      /\ bp' = [bp EXCEPT ![p] = NoBuf] /\ UNCHANGED <<b_data, disk, rbp>>
      /\ Call(p, "ahead", "breada", want[p].ra, NoBlk)
    BY DEF GotAhead, Got
<1>2. /\ x # NoBuf /\ ~OnList(x, actq) /\ b_blk[x] # NoBlk
      /\ want[p].ra # NoBlk
    BY <1>1 DEF IInv, ProcInv, ProcAt, Reads
<1>3. Moved(p, "ahead", "breada", want[p].ra, NoBlk)
    <2>1. want[p].ra \in Blk \cup {NoBlk}
        BY DEF IInv, ProcType
    <2> QED
        BY <1>1, <2>1, CallMoves DEF IInv, PC, Op
<1>4. \A q \in Proc : q # p => Stays(q)
    BY <1>1, <1>3 DEF IInv, ProcType, Moved, Stays
<1>5. /\ x \in Buf /\ b_data[x] \in Val /\ b_flags[x] \in SUBSET Flag
      /\ "B_BUSY" \in b_flags[x] /\ "B_PHYS" \notin b_flags[x]
      /\ b_data' \in [Buf -> Val]
    BY <1>1, <1>2, ClaimFacts DEF IInv, CacheInv, CacheType
<1>6. CASE Brelse(x, b_flags[x], avail) /\ UNCHANGED <<actq, io>>
    <2>1. "B_DELWRI" \in b_flags[x] =>
              "B_DONE" \in b_flags[x] /\ "B_ERROR" \notin b_flags[x]
        BY <1>5 DEF IInv, CacheInv, FlagsSound
    <2> HIDE DEF x
    <2>2. CacheInv' /\ Settled(x) /\ \A q \in Proc : q # p => ProcAt(q)'
        BY <1>1, <1>2, <1>4, <1>5, <1>6, <2>1, OwnBrelseKeeps DEF x
    <2>3. \A y : OnList(y, actq') => OnList(y, actq) \/ y = x
        BY <1>6 DEF OnList
    <2> QED
        BY <1>1, <1>2, <1>3, <2>2, <2>3, GivenAway DEF x
<1>7. CASE /\ "B_DONE" \notin b_flags[x]
           /\ Strategy(x, b_flags[x] \cup {"B_READ", "B_ASYNC"}, avail, b_data[x])
    <2> DEFINE fl == b_flags[x] \cup {"B_READ", "B_ASYNC"}
    <2>1. /\ fl \in SUBSET Flag /\ "B_BUSY" \in fl /\ "B_DONE" \notin fl
          /\ "B_PHYS" \notin fl
        BY <1>5, <1>7 DEF Flag
    <2>2. "B_DELWRI" \notin fl
        BY <1>5, <1>7 DEF IInv, CacheInv, FlagsSound
    <2>3. Strategy(x, fl, avail, b_data[x])
        BY <1>7
    <2> HIDE DEF fl, x
    <2>4. /\ CacheInv' /\ Settled(x) /\ \A q \in Proc : q # p => ProcAt(q)'
          /\ \A y : OnList(y, actq') => OnList(y, actq) \/ y = x
        BY <1>1, <1>2, <1>4, <1>5, <2>1, <2>2, <2>3, OwnStrategyKeeps DEF x
    <2> QED
        BY <1>1, <1>2, <1>3, <2>4, GivenAway DEF x
<1> QED
    BY <1>6, <1>7 DEF GotAhead

\* brelse by p of the buffer it has, whatever its flags fl are to be, and the
\* return of the call.
LEMMA ReleaseReturns ==
    ASSUME IInv, NEW p \in Proc, bp[p] # NoBuf, ~OnList(bp[p], actq),
           NEW fl \in SUBSET Flag, Brelse(bp[p], fl, avail),
           "B_DELWRI" \in fl => /\ "B_DONE" \in fl /\ "B_ERROR" \notin fl
                                /\ b_blk[bp[p]] # NoBlk,
           "B_PHYS" \notin fl, b_data' \in [Buf -> Val],
           Return(p), UNCHANGED <<actq, io, disk, rbp>>,
           op[p] \notin {"breada", "ra"}
    PROVE  IInv'
<1> DEFINE x == bp[p]
<1>1. /\ Moved(p, Home(p), "getblk", NoBlk, NoBlk)
      /\ bp' = [bp EXCEPT ![p] = NoBuf]
      /\ Home(p) \in {"user", "back"} /\ (Home(p) = "user" <=> rbp[p] = NoBuf)
    BY ReturnMoves DEF IInv
<1>2. \A q \in Proc : q # p => Stays(q)
    BY <1>1 DEF IInv, ProcType, Moved, Stays
<1>3. /\ x = bp[p] /\ x # NoBuf /\ ~OnList(x, actq) /\ Brelse(x, fl, avail)
      /\ "B_DELWRI" \in fl => /\ "B_DONE" \in fl /\ "B_ERROR" \notin fl
                               /\ b_blk[x] # NoBlk
    OBVIOUS
<1> HIDE DEF x
<1>4. CacheInv' /\ Settled(x) /\ \A q \in Proc : q # p => ProcAt(q)'
    BY <1>2, <1>3, OwnBrelseKeeps
<1> QED
    BY <1>1, <1>3, <1>4, GivenAway

\* iowait sleeps, returns the buffer to the reader, or releases it for bwrite.
LEMMA IowaitKeeps ==
    ASSUME IInv, NEW p \in Proc, Iowait(p)
    PROVE  IInv'
<1> DEFINE x == bp[p]
<1>1. pc[p] = "iowait" /\ UNCHANGED <<b_data, disk, rbp>>
    BY DEF Iowait
<1>2. /\ x # NoBuf /\ x \in Buf /\ b_flags[x] \in SUBSET Flag /\ x \in Hdr
      /\ "B_PHYS" \notin b_flags[x]
    BY <1>1, ClaimFacts DEF IInv, ProcInv, ProcAt
<1>3. CASE Sleep(p, x) /\ UNCHANGED <<cacheVars, pc, op, want, bp>>
    <2>1. wchan' \in [Proc -> Chan \cup {NoChan}]
        BY <1>2, <1>3, HdrFacts DEF Sleep, IInv, CacheInv, CacheType
    <2>2. CacheInv'
        BY <1>1, <1>3, <2>1
           DEF IInv, CacheInv, CacheType, AvailIffNotBusy, QueueInv, QueueFit,
               FlagsSound, cacheVars
    <2>3. ProcType' /\ Exclusive' /\ ProcInv'
        BY <1>1, <1>3
           DEF IInv, ProcType, Exclusive, Claims, ProcInv, ProcAt, cacheVars
    <2> QED
        BY <2>2, <2>3 DEF IInv
<1>4. CASE /\ "B_DONE" \in b_flags[x] /\ Hold(p)
           /\ UNCHANGED <<cacheVars, wchan, bp>>
    <2>1. Moved(p, "hold", "getblk", NoBlk, NoBlk)
        BY <1>4, CallMoves DEF Hold, IInv, PC, Op
    <2>2. CacheInv' /\ Exclusive'
        BY <1>1, <1>4, CacheUntouched, ClaimsUntouched DEF IInv, cacheVars
    <2>3. ProcType'
        BY <1>1, <1>4, <2>1 DEF IInv, ProcType, Moved
    <2>4. ~OnList(x, actq)
        BY <1>2, <1>4 DEF IInv, CacheInv, QueueInv
    <2>5. ProcInv'
        BY <1>1, <1>2, <1>4, <2>1, <2>4
           DEF IInv, ProcInv, ProcAt, Moved, Reads, cacheVars
    <2> QED
        BY <2>2, <2>3, <2>5 DEF IInv
<1>5. CASE /\ "B_DONE" \in b_flags[x] /\ Brelse(x, b_flags[x], avail)
           /\ Return(p) /\ UNCHANGED <<actq, io>>
    <2>1. ~OnList(x, actq) /\ b_data' \in [Buf -> Val]
        BY <1>1, <1>2, <1>5 DEF IInv, CacheInv, CacheType, QueueInv
    <2>2. "B_DELWRI" \in b_flags[x] =>
              "B_ERROR" \notin b_flags[x] /\ b_blk[x] # NoBlk
        BY <1>2 DEF IInv, CacheInv, FlagsSound
    <2>3. op[p] \notin {"breada", "ra"}
        BY <1>1 DEF IInv, ProcInv, ProcAt
    <2> QED
        BY <1>1, <1>2, <1>5, <2>1, <2>2, <2>3, ReleaseReturns
<1> QED
    BY <1>1, <1>3, <1>4, <1>5 DEF Iowait

\* A caller releases its buffer.
LEMMA ReleaseKeeps ==
    ASSUME IInv, NEW p \in Proc, Release(p)
    PROVE  IInv'
<1> DEFINE x == bp[p]
<1>1. /\ pc[p] = "hold" /\ Brelse(x, b_flags[x], avail) /\ Return(p)
      /\ UNCHANGED <<b_data, actq, io, disk, rbp>>
    BY DEF Release, Holds
<1>2. /\ x # NoBuf /\ x \in Buf /\ b_flags[x] \in SUBSET Flag
      /\ "B_PHYS" \notin b_flags[x] /\ ~OnList(x, actq)
      /\ b_data' \in [Buf -> Val] /\ op[p] \notin {"breada", "ra"}
    BY <1>1, ClaimFacts DEF IInv, ProcInv, ProcAt, CacheInv, CacheType
<1>3. "B_DELWRI" \in b_flags[x] =>
          /\ "B_DONE" \in b_flags[x] /\ "B_ERROR" \notin b_flags[x]
          /\ b_blk[x] # NoBlk
    BY <1>2 DEF IInv, CacheInv, FlagsSound
<1> QED
    BY <1>1, <1>2, <1>3, ReleaseReturns

\* What a caller that may write knows of its buffer.
LEMMA WritesFacts ==
    ASSUME IInv, NEW p \in Proc, NEW v \in Val, Writes(p, v)
    PROVE  /\ bp[p] # NoBuf /\ bp[p] \in Buf /\ ~OnList(bp[p], actq)
           /\ b_blk[bp[p]] # NoBlk /\ b_data' \in [Buf -> Val]
           /\ b_flags[bp[p]] \in SUBSET Flag
           /\ "B_BUSY" \in b_flags[bp[p]] /\ "B_PHYS" \notin b_flags[bp[p]]
           /\ "B_ASYNC" \notin b_flags[bp[p]]
           /\ "B_ERROR" \notin b_flags[bp[p]]
           /\ op[p] \notin {"breada", "ra"}
<1>1. /\ pc[p] = "hold" /\ b_blk[bp[p]] # NoBlk
      /\ "B_ERROR" \notin b_flags[bp[p]]
      /\ b_data' = [b_data EXCEPT ![bp[p]] = v]
    BY DEF Writes, Holds
<1> QED
    BY <1>1, ClaimFacts DEF IInv, ProcInv, ProcAt, CacheInv, CacheType

\* A caller writes its buffer and will wait for the write.
LEMMA BwriteKeeps ==
    ASSUME IInv, NEW p \in Proc, NEW v \in Val, Bwrite(p, v)
    PROVE  IInv'
<1> DEFINE x == bp[p]
           fl == BwriteFlags(b_flags[x])
<1>1. /\ Strategy(x, fl, avail, v) /\ Call(p, "iowait", "bwrite", NoBlk, NoBlk)
      /\ UNCHANGED <<disk, bp, rbp>> /\ Writes(p, v)
    BY DEF Bwrite
<1>2. /\ x # NoBuf /\ ~OnList(x, actq) /\ b_blk[x] # NoBlk
      /\ b_data' \in [Buf -> Val]
      /\ fl \in SUBSET Flag /\ "B_BUSY" \in fl /\ "B_PHYS" \notin fl
      /\ "B_ASYNC" \notin fl /\ "B_DONE" \notin fl /\ "B_DELWRI" \notin fl
      /\ op[p] \notin {"breada", "ra"}
    BY <1>1, WritesFacts DEF BwriteFlags
<1>3. x \in Hdr /\ x # rbp[p] /\ \A q \in Proc : x \in Claims(q) => q = p
    BY <1>2, ClaimFacts
<1>4. Moved(p, "iowait", "bwrite", NoBlk, NoBlk)
    BY <1>1, CallMoves DEF IInv, PC, Op
<1>5. \A q \in Proc : q # p => Stays(q)
    BY <1>1, <1>4 DEF Moved, Stays
<1> HIDE DEF fl, x
<1>6. /\ CacheInv' /\ Settled(x)
      /\ \A y : OnList(y, actq') => OnList(y, actq) \/ y = x
      /\ \A q \in Proc : q # p => ProcAt(q)'
      /\ "B_BUSY" \in b_flags'[x] /\ "B_ASYNC" \notin b_flags'[x]
    BY <1>1, <1>2, <1>5, OwnStrategyKeeps DEF x
<1>7. ProcAt(p)'
    <2>1. rbp[p] # NoBuf => ~OnList(rbp[p], actq)
        BY <1>2 DEF IInv, ProcInv, ProcAt
    <2>2. rbp'[p] # NoBuf => ~OnList(rbp'[p], actq')
        BY <1>1, <1>3, <1>6, <2>1
    <2> QED
        BY <1>1, <1>2, <1>4, <2>2 DEF ProcAt, Moved, x
<1>8. /\ bp' \in [Proc -> Buf \cup {NoBuf}]
      /\ rbp' \in [Proc -> Buf \cup {NoBuf}]
      /\ bp'[p] # NoBuf => bp'[p] # rbp'[p]
      /\ Claims(p)' \subseteq Claims(p)
    BY <1>1, <1>3 DEF IInv, ProcType, Claims, x
<1> QED
    BY <1>3, <1>4, <1>5, <1>6, <1>7, <1>8, StepKeeps

\* A caller writes its buffer and leaves it to the interrupt.
LEMMA BawriteKeeps ==
    ASSUME IInv, NEW p \in Proc, NEW v \in Val, Bawrite(p, v)
    PROVE  IInv'
<1> DEFINE x == bp[p]
           fl == BwriteFlags(b_flags[x] \cup {"B_ASYNC"})
<1>1. /\ Strategy(x, fl, avail, v) /\ Return(p) /\ UNCHANGED <<disk, rbp>>
      /\ Writes(p, v)
    BY DEF Bawrite
<1>2. /\ x # NoBuf /\ ~OnList(x, actq) /\ b_blk[x] # NoBlk
      /\ b_data' \in [Buf -> Val]
      /\ fl \in SUBSET Flag /\ "B_BUSY" \in fl /\ "B_PHYS" \notin fl
      /\ "B_DONE" \notin fl /\ "B_DELWRI" \notin fl
      /\ op[p] \notin {"breada", "ra"}
    BY <1>1, WritesFacts DEF BwriteFlags, Flag
<1>3. /\ Moved(p, Home(p), "getblk", NoBlk, NoBlk)
      /\ bp' = [bp EXCEPT ![p] = NoBuf]
      /\ Home(p) \in {"user", "back"} /\ (Home(p) = "user" <=> rbp[p] = NoBuf)
    BY <1>1, ReturnMoves DEF IInv
<1>4. \A q \in Proc : q # p => Stays(q)
    BY <1>1, <1>3 DEF IInv, ProcType, Moved, Stays
<1> HIDE DEF fl, x
<1>5. /\ CacheInv' /\ Settled(x) /\ \A q \in Proc : q # p => ProcAt(q)'
      /\ \A y : OnList(y, actq') => OnList(y, actq) \/ y = x
    BY <1>1, <1>2, <1>4, OwnStrategyKeeps DEF x
<1> QED
    BY <1>1, <1>2, <1>3, <1>5, GivenAway DEF x

\* A caller leaves its buffer to be written later.
LEMMA BdwriteKeeps ==
    ASSUME IInv, NEW p \in Proc, NEW v \in Val, Bdwrite(p, v)
    PROVE  IInv'
<1> DEFINE fl == b_flags[bp[p]] \cup {"B_DELWRI", "B_DONE"}
<1>1. /\ Writes(p, v) /\ Brelse(bp[p], fl, avail) /\ Return(p)
      /\ UNCHANGED <<actq, io, disk, rbp>>
    BY DEF Bdwrite
<1>2. /\ bp[p] # NoBuf /\ ~OnList(bp[p], actq) /\ b_blk[bp[p]] # NoBlk
      /\ b_data' \in [Buf -> Val]
      /\ fl \in SUBSET Flag /\ "B_DONE" \in fl /\ "B_ERROR" \notin fl
      /\ "B_PHYS" \notin fl /\ op[p] \notin {"breada", "ra"}
    BY <1>1, WritesFacts DEF Flag
<1> HIDE DEF fl
<1> QED
    BY <1>1, <1>2, ReleaseReturns

-----------------------------------------------------------------------------
(* The swap buffer.                                                         *)

\* Nobody claims the swap buffer.
LEMMA SwbufUnclaimed ==
    ASSUME IInv, NEW q \in Proc
    PROVE  swbuf \notin Claims(q)
BY HdrFacts DEF IInv, ProcType, Claims

\* Flags of the swap buffer that no list depends on are changed.
LEMMA SwbufFlagsKeep ==
    ASSUME IInv, NEW fl \in SUBSET Flag, b_flags' = [b_flags EXCEPT ![swbuf] = fl],
           "B_ASYNC" \notin fl, wchan' \in [Proc -> Chan \cup {NoChan}],
           OnList(swbuf, actq) =>
               "B_BUSY" \in fl /\ "B_DONE" \notin fl /\ "B_PHYS" \in fl,
           UNCHANGED <<b_blk, avail, fwanted, actq, io, b_data, disk>>
    PROVE  CacheInv' /\ \A x \in Buf : b_flags'[x] = b_flags[x]
<1>1. /\ b_flags' \in [Hdr -> SUBSET Flag] /\ b_flags'[swbuf] = fl
      /\ \A x \in Hdr : x # swbuf => b_flags'[x] = b_flags[x]
    BY HdrFacts DEF IInv, CacheInv, CacheType
<1>2. \A x \in Buf : b_flags'[x] = b_flags[x]
    BY <1>1, HdrFacts
<1>3. CacheType' /\ AvailIffNotBusy' /\ FlagsSound'
    BY <1>1, <1>2 DEF IInv, CacheInv, CacheType, AvailIffNotBusy, FlagsSound
<1>4. QueueInv' /\ QueueFit'
    BY <1>1, <1>2 DEF IInv, CacheInv, QueueInv, QueueFit
<1> QED
    BY <1>2, <1>3, <1>4 DEF CacheInv

\* p moves, the claims and what they rest on are as they were.
LEMMA SwapMoves ==
    ASSUME IInv, NEW p \in Proc, NEW l \in {"swap", "swapio", "user", "back"},
           l \in {"user", "back"} => (l = "user" <=> rbp[p] = NoBuf),
           pc' = [pc EXCEPT ![p] = l], pc[p] \in {"swap", "swapio"},
           op' \in [Proc -> Op], op'[p] \in {op[p], "getblk"},
           want' \in [Proc -> [blk : Blk \cup {NoBlk}, ra : Blk \cup {NoBlk}]],
           \A q \in Proc : q # p => op'[q] = op[q] /\ want'[q] = want[q],
           bp' \in [Proc -> Buf \cup {NoBuf}], rbp' = rbp,
           \A q \in Proc : bp'[q] = bp[q] \/ (q = p /\ bp'[q] = NoBuf),
           CacheInv', \A x \in Buf : b_flags'[x] = b_flags[x], b_blk' = b_blk,
           \A x \in Buf : OnList(x, actq') => OnList(x, actq)
    PROVE  IInv'
<1>1. /\ pc' \in [Proc -> PC] /\ pc'[p] = l
      /\ \A q \in Proc : q # p => pc'[q] = pc[q]
    BY DEF IInv, ProcType, PC
<1>2. ProcType'
    BY <1>1 DEF IInv, ProcType
<1>3. Exclusive'
    <2>1. \A q \in Proc : /\ Claims(q)' \subseteq Claims(q)
                          /\ Claims(q) \subseteq Buf
                          /\ bp'[q] # NoBuf => bp'[q] # rbp'[q]
        BY DEF IInv, ProcType, Exclusive, Claims
    <2>2. \A q \in Proc : \A x \in Claims(q)' :
              "B_BUSY" \in b_flags'[x] /\ "B_ASYNC" \notin b_flags'[x]
        BY <2>1 DEF IInv, Exclusive
    <2> QED
        BY <2>1, <2>2, ClaimsShrink DEF IInv
<1>4. ASSUME NEW q \in Proc PROVE ProcAt(q)'
    <2>1. CASE q = p
        <3>1. op[p] \notin {"breada", "ra"} /\ (rbp[p] # NoBuf => ~OnList(rbp[p], actq))
            BY DEF IInv, ProcInv, ProcAt
        <3>2. rbp[p] # NoBuf => rbp[p] \in Buf
            BY DEF IInv, ProcType
        <3> QED
            BY <1>1, <2>1, <3>1, <3>2 DEF ProcAt
    <2>2. CASE q # p
        <3>1. /\ bp'[q] = bp[q] /\ (bp[q] # NoBuf => bp[q] \in Buf)
              /\ rbp[q] # NoBuf => rbp[q] \in Buf
            BY <2>2 DEF IInv, ProcType
        <3>2. ProcAt(q)
            BY DEF IInv, ProcInv
        <3> QED
            BY <1>1, <2>2, <3>1, <3>2 DEF ProcAt
    <2> QED
        BY <2>1, <2>2
<1> QED
    BY <1>2, <1>3, <1>4 DEF IInv, ProcInv

\* swap waits for the swap buffer, or queues its transfer.
LEMMA SwapStartKeeps ==
    ASSUME IInv, NEW p \in Proc, SwapStart(p)
    PROVE  IInv'
<1>1. pc[p] = "swap" /\ UNCHANGED <<b_data, disk, op, want, bp, rbp>>
    BY DEF SwapStart
<1>2. CASE /\ "B_BUSY" \in b_flags[swbuf]
           /\ b_flags' = [b_flags EXCEPT ![swbuf] = @ \cup {"B_WANTED"}]
           /\ Sleep(p, swbuf)
           /\ UNCHANGED <<b_blk, avail, fwanted, actq, io, pc>>
    <2> DEFINE fl == b_flags[swbuf] \cup {"B_WANTED"}
    <2>1. /\ fl \in SUBSET Flag /\ "B_ASYNC" \notin fl
          /\ OnList(swbuf, actq) =>
                 "B_BUSY" \in fl /\ "B_DONE" \notin fl /\ "B_PHYS" \in fl
        BY HdrFacts DEF IInv, CacheInv, CacheType, QueueInv, QueueFit, Flag
    <2>2. b_flags' = [b_flags EXCEPT ![swbuf] = fl]
        BY <1>2
    <2>3. wchan' \in [Proc -> Chan \cup {NoChan}]
        BY <1>2, HdrFacts DEF Sleep, IInv, CacheInv, CacheType
    <2> HIDE DEF fl
    <2>4. CacheInv' /\ \A x \in Buf : b_flags'[x] = b_flags[x]
        BY <1>1, <1>2, <2>1, <2>2, <2>3, SwbufFlagsKeep
    <2>5. pc' = [pc EXCEPT ![p] = "swap"]
        BY <1>1, <1>2 DEF IInv, ProcType
    <2> QED
        BY <1>1, <1>2, <2>4, <2>5, SwapMoves DEF IInv, ProcType
<1>3. CASE /\ "B_BUSY" \notin b_flags[swbuf]
           /\ Strategy(swbuf,
                  {"B_BUSY", "B_PHYS"} \cup
                      (IF op[p] = "bread" THEN {"B_READ"} ELSE {}),
                  avail, Unread)
           /\ Goto(p, "swapio")
    <2> DEFINE fl == {"B_BUSY", "B_PHYS"} \cup
                         (IF op[p] = "bread" THEN {"B_READ"} ELSE {})
    <2>1. /\ fl \in SUBSET Flag /\ "B_ASYNC" \notin fl /\ "B_BUSY" \in fl
          /\ "B_DONE" \notin fl /\ "B_DELWRI" \notin fl /\ "B_PHYS" \in fl
        BY DEF Flag
    <2>2. Strategy(swbuf, fl, avail, Unread)
        BY <1>3
    <2>3. WithoutBuf(avail, swbuf)
        BY BusyIsOff, HdrFacts DEF IInv
    <2>4. ~OnList(swbuf, actq) /\ b_data' \in [Buf -> Val]
        BY <1>1, <1>3, HdrFacts DEF IInv, CacheInv, CacheType, QueueInv
    <2> HIDE DEF fl
    <2>5. /\ CacheInv' /\ Settled(swbuf) /\ b_blk' = b_blk
          /\ \A y : OnList(y, actq') => OnList(y, actq) \/ y = swbuf
        BY <1>1, <2>1, <2>2, <2>3, <2>4, StrategyKeeps, HdrFacts DEF IInv
    <2>6. /\ \A x \in Buf : b_flags'[x] = b_flags[x]
          /\ \A x \in Buf : OnList(x, actq') => OnList(x, actq)
        BY <2>5, HdrFacts DEF Settled
    <2> QED
        BY <1>1, <1>3, <2>5, <2>6, SwapMoves DEF Goto, IInv, ProcType
<1> QED
    BY <1>1, <1>2, <1>3 DEF SwapStart

\* swap waits for its transfer, or frees the swap buffer.
LEMMA SwapWaitKeeps ==
    ASSUME IInv, NEW p \in Proc, SwapWait(p)
    PROVE  IInv'
<1>1. /\ pc[p] = "swapio"
      /\ UNCHANGED <<b_blk, avail, fwanted, actq, io, b_data, disk, rbp>>
    BY DEF SwapWait
<1>2. CASE Sleep(p, swbuf) /\ UNCHANGED <<b_flags, pc, op, want, bp>>
    <2>1. wchan' \in [Proc -> Chan \cup {NoChan}]
        BY <1>2, HdrFacts DEF Sleep, IInv, CacheInv, CacheType
    <2>2. CacheInv'
        BY <1>1, <1>2, <2>1
           DEF IInv, CacheInv, CacheType, AvailIffNotBusy, QueueInv, QueueFit,
               FlagsSound
    <2>3. ProcType' /\ Exclusive' /\ ProcInv'
        BY <1>1, <1>2 DEF IInv, ProcType, Exclusive, Claims, ProcInv, ProcAt
    <2> QED
        BY <2>2, <2>3 DEF IInv
<1>3. CASE /\ "B_DONE" \in b_flags[swbuf]
           /\ Wakeup(IF "B_WANTED" \in b_flags[swbuf] THEN {swbuf} ELSE {})
           /\ b_flags' = [b_flags EXCEPT ![swbuf] = @ \ {"B_BUSY", "B_WANTED"}]
           /\ Return(p)
    <2> DEFINE fl == b_flags[swbuf] \ {"B_BUSY", "B_WANTED"}
    <2>1. /\ fl \in SUBSET Flag /\ "B_ASYNC" \notin fl /\ ~OnList(swbuf, actq)
        BY <1>3, HdrFacts DEF IInv, CacheInv, CacheType, QueueInv, QueueFit
    <2>2. b_flags' = [b_flags EXCEPT ![swbuf] = fl]
        BY <1>3
    <2>3. wchan' \in [Proc -> Chan \cup {NoChan}]
        BY <1>3 DEF Wakeup, IInv, CacheInv, CacheType
    <2> HIDE DEF fl
    <2>4. CacheInv' /\ \A x \in Buf : b_flags'[x] = b_flags[x]
        BY <1>1, <2>1, <2>2, <2>3, SwbufFlagsKeep
    <2>5. /\ Moved(p, Home(p), "getblk", NoBlk, NoBlk)
          /\ Home(p) \in {"user", "back"} /\ (Home(p) = "user" <=> rbp[p] = NoBuf)
        BY <1>3, ReturnMoves DEF IInv
    <2>6. /\ pc' = [pc EXCEPT ![p] = Home(p)]
          /\ bp' \in [Proc -> Buf \cup {NoBuf}]
          /\ \A q \in Proc : bp'[q] = bp[q] \/ (q = p /\ bp'[q] = NoBuf)
        BY <1>3 DEF Return, Home, Call, Goto, IInv, ProcType
    <2> QED
        BY <1>1, <2>4, <2>5, <2>6, SwapMoves DEF Moved
<1> QED
    BY <1>1, <1>2, <1>3 DEF SwapWait

-----------------------------------------------------------------------------
(* The theorems.                                                            *)

\* The initial state, after binit.
LEMMA InitIInv == Init => IInv
<1> SUFFICES ASSUME Init PROVE IInv
    OBVIOUS
<1>1. CacheType
    <2>1. io \in [buf : Hdr \cup {NoBuf}, left : Nat, read : BOOLEAN,
                  val : Val \cup {Unread}]
        BY DEF Init, NoIO
    <2>2. avail \in Seq(Buf) /\ actq \in Seq(Hdr)
        BY BufAssumption DEF Init, Buf
    <2>3. (CHOOSE v \in Val : TRUE) \in Val
        BY BufAssumption
    <2> QED
        BY <2>1, <2>2, <2>3 DEF Init, CacheType
<1>2. AvailIffNotBusy
    <2>1. DOMAIN avail = 1..NBUF /\ \A i \in 1..NBUF : avail[i] = i
        BY DEF Init
    <2>2. NoTwice(avail) /\ \A x \in Buf : OnList(x, avail)
        BY <2>1 DEF NoTwice, OnList, Buf
    <2> QED
        BY <2>2, HdrFacts DEF AvailIffNotBusy, Init
<1>3. \A x : ~OnList(x, actq)
    BY DEF Init, OnList
<1>4. QueueInv
    BY <1>3 DEF Init, QueueInv, NoTwice
<1>5. QueueFit /\ FlagsSound
    BY <1>3, HdrFacts DEF Init, QueueFit, FlagsSound, NoIO
<1>6. ProcType /\ Exclusive /\ ProcInv
    BY DEF Init, ProcType, PC, Op, Exclusive, Claims, ProcInv, ProcAt
<1> QED
    BY <1>1, <1>2, <1>4, <1>5, <1>6 DEF IInv, CacheInv

\* Every step keeps the invariant, one case for each action.
LEMMA NextIInv == IInv /\ [Next]_vars => IInv'
<1> SUFFICES ASSUME IInv, [Next]_vars PROVE IInv'
    OBVIOUS
<1>1. CASE UNCHANGED vars
    <2>1. UNCHANGED <<cacheVars, b_data, disk, wchan, pc, op, want, bp, rbp>>
        BY <1>1 DEF vars, cacheVars
    <2>2. CacheInv' /\ Exclusive'
        BY <2>1, CacheUntouched, ClaimsUntouched DEF IInv, cacheVars
    <2>3. ProcType' /\ ProcInv'
        BY <2>1 DEF IInv, ProcType, ProcInv, ProcAt, cacheVars
    <2> QED
        BY <2>2, <2>3 DEF IInv
<1>2. CASE IdeIntr
    BY <1>2, IdeNextSectorKeeps, IdeDoneKeeps DEF IdeIntr
<1>3. ASSUME NEW p \in Proc, Begin(p) PROVE IInv'
    BY <1>3, BeginKeeps, KeepKeeps DEF Begin
<1>4. ASSUME NEW p \in Proc, Getblk(p) PROVE IInv'
    BY <1>4, GetblkBusyKeeps, GetblkHitKeeps, GetblkEmptyKeeps,
       GetblkDelwriKeeps, GetblkReassignKeeps DEF Getblk
<1>5. ASSUME NEW p \in Proc, Continue(p) PROVE IInv'
    BY <1>4, <1>5, GotGetblkKeeps, GotBreadKeeps, GotBreadaKeeps, GotAheadKeeps,
       BreadaFirstKeeps, BreadaAheadKeeps, IowaitKeeps, BflushKeeps,
       SwapStartKeeps, SwapWaitKeeps, BackKeeps DEF Continue
<1>6. ASSUME NEW p \in Proc, End(p) PROVE IInv'
    BY <1>6, ReleaseKeeps, BwriteKeeps, BawriteKeeps, BdwriteKeeps DEF End
<1> QED
    BY <1>1, <1>2, <1>3, <1>5, <1>6 DEF Next

\* The inductive invariant holds in every state of the cache.
THEOREM Invariant == Spec => []IInv
BY InitIInv, NextIInv, PTL DEF Spec

\* Type correctness: flags, lists, the transfer in hand and the place of every
\* process have their types (bio.c, rk.c, ide.c).
THEOREM TypeCorrect == Spec => []TypeOK
<1>1. IInv => TypeOK
    BY DEF IInv, CacheInv, CacheType, ProcType, TypeOK
<1> QED
    BY <1>1, Invariant, PTL

\* A buffer is on the available list, once, exactly when it is not busy: what
\* buf.h:10-12 says, for every release and claim in bio.c.
THEOREM AvailableIffNotBusy == Spec => []AvailIffNotBusy
<1>1. IInv => AvailIffNotBusy
    BY DEF IInv, CacheInv
<1> QED
    BY <1>1, Invariant, PTL

\* The driver's queue (rk.c) and the controller (ide.c) agree on the request
\* in hand, and every request is of a busy buffer that is not done.
THEOREM QueueIsSound == Spec => []QueueSound
<1>1. ASSUME IInv PROVE QueueSound
    <2>1. ASSUME NEW i \in DOMAIN actq
          PROVE  "B_BUSY" \in b_flags[actq[i]] /\ "B_DONE" \notin b_flags[actq[i]]
        <3>1. actq[i] \in Hdr /\ OnList(actq[i], actq)
            BY <1>1 DEF IInv, CacheInv, CacheType, OnList
        <3> QED
            BY <1>1, <3>1 DEF IInv, CacheInv, QueueInv
    <2> QED
        BY <1>1, <2>1 DEF IInv, CacheInv, QueueInv, QueueSound
<1> QED
    BY <1>1, Invariant, PTL

\* No two processes ever have the same buffer, and the interrupt releases none
\* that a process has (getblk, brelse, iodone in bio.c).
THEOREM BuffersAreExclusive == Spec => []Exclusive
<1>1. IInv => Exclusive
    BY DEF IInv
<1> QED
    BY <1>1, Invariant, PTL

-----------------------------------------------------------------------------
(* One buffer for each block.                                               *)

\* Every buffer keeps its block, or one buffer loses it.
BlocksKept ==
    \/ b_blk' = b_blk
    \/ \E x \in Buf : b_blk' = [b_blk EXCEPT ![x] = NoBlk]

\* brelse gives no buffer a block.
LEMMA BrelseBlocks ==
    ASSUME NEW x \in Buf, NEW fl, NEW av, Brelse(x, fl, av)
    PROVE  BlocksKept
BY DEF Brelse, BlocksKept

\* rkstrategy gives no buffer a block.
LEMMA StrategyBlocks ==
    ASSUME NEW x, NEW fl, NEW av, NEW data, Strategy(x, fl, av, data)
    PROVE  BlocksKept
BY BrelseBlocks DEF Strategy, PastEnd, Iodone, BlocksKept

\* getblk, which searched the cache in the same step, is alone in giving a
\* buffer a block.
LEMMA NextBlocks ==
    ASSUME IInv, NEW p \in Proc, Continue(p)
    PROVE  BlocksKept \/ GetblkReassign(p)
<1>1. CASE Getblk(p)
    BY <1>1, StrategyBlocks
       DEF Getblk, GetblkBusy, GetblkHit, GetblkEmpty, GetblkDelwri, BlocksKept
<1>2. CASE GotGetblk(p) \/ BreadaFirst(p) \/ BreadaAhead(p) \/ Back(p)
    BY <1>2 DEF GotGetblk, BreadaFirst, BreadaAhead, Back, cacheVars, BlocksKept
<1>3. CASE GotBread(p) \/ GotBreada(p)
    BY <1>3, StrategyBlocks DEF GotBread, GotBreada, cacheVars, BlocksKept
<1>4. CASE GotAhead(p)
    <2>1. bp[p] \in Buf
        BY <1>4, ClaimFacts DEF GotAhead, Got, IInv, ProcInv, ProcAt
    <2> QED
        BY <1>4, <2>1, StrategyBlocks, BrelseBlocks DEF GotAhead
<1>5. CASE Iowait(p)
    <2>1. bp[p] \in Buf
        BY <1>5, ClaimFacts DEF Iowait, IInv, ProcInv, ProcAt
    <2> QED
        BY <1>5, <2>1, BrelseBlocks DEF Iowait, cacheVars, BlocksKept
<1>6. CASE Bflush(p) \/ SwapStart(p) \/ SwapWait(p)
    BY <1>6, StrategyBlocks DEF Bflush, SwapStart, SwapWait, cacheVars, BlocksKept
<1> QED
    BY <1>1, <1>2, <1>3, <1>4, <1>5, <1>6 DEF Continue

\* A block is never in two buffers, whatever happens while getblk sleeps.
THEOREM BlocksAreSingle == Spec => []OneBufferPerBlock
<1>1. Init => OneBufferPerBlock
    BY DEF Init, OneBufferPerBlock
<1>2. ASSUME IInv, OneBufferPerBlock, [Next]_vars PROVE OneBufferPerBlock'
    <2>1. CASE BlocksKept
        BY <1>2, <2>1
           DEF BlocksKept, OneBufferPerBlock, IInv, CacheInv, CacheType
    <2>2. ASSUME NEW p \in Proc, GetblkReassign(p) PROVE OneBufferPerBlock'
        <3>1. /\ avail[1] \in Buf
              /\ b_blk' = [b_blk EXCEPT ![avail[1]] = want[p].blk]
              /\ want[p].blk # NoBlk => \A x \in Buf : b_blk[x] # want[p].blk
            BY <1>2, <2>2, OldestIsFree
               DEF GetblkReassign, NeedsBuffer, Incore, IInv
        <3> QED
            BY <1>2, <3>1 DEF OneBufferPerBlock, IInv, CacheInv, CacheType
    <2>3. CASE UNCHANGED vars
        BY <2>1, <2>3 DEF vars, BlocksKept
    <2>4. CASE IdeIntr
        <3>1. CASE IdeNextSector
            BY <2>1, <3>1 DEF IdeNextSector, BlocksKept
        <3>2. CASE IdeDone
            <4>1. actq # <<>>
                BY <1>2, <3>2 DEF IdeDone, NoIO, IInv, CacheInv, QueueInv
            <4>2. /\ OnList(actq[1], actq) /\ actq[1] \in Hdr
                  /\ "B_ASYNC" \in b_flags[actq[1]] => actq[1] \in Buf
                BY <1>2, <4>1, TailList
                   DEF IInv, CacheInv, CacheType, QueueInv, QueueFit, Hdr
            <4>3. BlocksKept
                BY <3>2, <4>2, BrelseBlocks DEF IdeDone, Iodone, BlocksKept
            <4> QED
                BY <2>1, <4>3
        <3> QED
            BY <2>4, <3>1, <3>2 DEF IdeIntr
    <2>5. ASSUME NEW p \in Proc, Begin(p) PROVE OneBufferPerBlock'
        BY <2>1, <2>5
           DEF Begin, Bread, Breada, GetblkCall, BflushCall, SwapCall, Keep, cacheVars,
               BlocksKept
    <2>6. ASSUME NEW p \in Proc, Continue(p) PROVE OneBufferPerBlock'
        BY <1>2, <2>1, <2>2, <2>6, NextBlocks
    <2>7. ASSUME NEW p \in Proc, End(p) PROVE OneBufferPerBlock'
        <3>1. bp[p] \in Buf
            BY <1>2, <2>7, ClaimFacts
               DEF End, Release, Bwrite, Bawrite, Bdwrite, Writes, Holds, IInv,
                   ProcInv, ProcAt
        <3>2. BlocksKept
            BY <2>7, <3>1, StrategyBlocks, BrelseBlocks
               DEF End, Release, Bwrite, Bawrite, Bdwrite
        <3> QED
            BY <2>1, <3>2
    <2> QED
        BY <1>2, <2>3, <2>4, <2>5, <2>6, <2>7 DEF Next
<1> QED
    BY <1>1, <1>2, Invariant, PTL DEF Spec

-----------------------------------------------------------------------------
(* The contents of buffers and disk.                                        *)

Good == Blk \ BadBlk

\* A buffer without a block is not of the disk.
LEMMA NoBlkNotGood == NoBlk \notin Good
BY BufAssumption DEF Good

\* The controller was given the direction and the data of the buffer.
Transfer ==
    io.buf \in Buf =>
        /\ io.read <=> "B_READ" \in b_flags[io.buf]
        /\ ~io.read => io.val = b_data[io.buf]

\* Only blocks past the end of the disk have errors.
ErrorsOutside == \A x \in Buf : "B_ERROR" \in b_flags[x] => b_blk[x] \notin Good

\* A scratch buffer has no contents, and a buffer that somebody waits for is
\* not one.
ScratchAt(p) ==
    /\ pc[p] \in {"got", "hold"} /\ b_blk[bp[p]] = NoBlk
          => "B_DONE" \notin b_flags[bp[p]]
    /\ pc[p] = "iowait" => b_blk[bp[p]] # NoBlk
    /\ rbp[p] # NoBuf /\ b_blk[rbp[p]] = NoBlk
          => "B_DONE" \notin b_flags[rbp[p]]

Scratch == \A p \in Proc : ScratchAt(p)

Data == CleanMatchesDisk /\ Transfer /\ ErrorsOutside

\* Holds in every state, besides IInv.
DInv == Data /\ Scratch

-----------------------------------------------------------------------------
(* Steps that touch one buffer at most.                                     *)

\* To its holder and to the disk, y is as it was.
Like(y) ==
    /\ b_blk'[y] = b_blk[y] /\ b_data'[y] = b_data[y]
    /\ \A f \in {"B_READ", "B_DONE", "B_ERROR", "B_DELWRI"} :
          f \in b_flags'[y] <=> f \in b_flags[y]
    /\ OnList(y, actq') <=> OnList(y, actq)

LikeBut(x) == \A y \in Buf : y # x => Like(y)

\* The other buffers stay right if their blocks on the disk stay.
LEMMA TouchedData ==
    ASSUME CacheType, CleanMatchesDisk, ErrorsOutside, NEW x, LikeBut(x),
           \A y \in Buf : y # x /\ b_blk[y] \in Good => disk'[b_blk[y]] = disk[b_blk[y]],
           x \in Buf =>
              /\ b_blk'[x] \in Good /\ "B_DONE" \in b_flags'[x] /\ "B_DELWRI" \notin b_flags'[x]
                    => b_data'[x] = disk'[b_blk'[x]]
              /\ "B_ERROR" \in b_flags'[x] => b_blk'[x] \notin Good
    PROVE  CleanMatchesDisk' /\ ErrorsOutside'
<1>1. ASSUME NEW y \in Buf, b_blk'[y] \in Good, "B_DONE" \in b_flags'[y],
             "B_DELWRI" \notin b_flags'[y]
      PROVE  b_data'[y] = disk'[b_blk'[y]]
    BY <1>1 DEF LikeBut, Like, CleanMatchesDisk, Good
<1>2. ASSUME NEW y \in Buf, "B_ERROR" \in b_flags'[y]
      PROVE  b_blk'[y] \notin Good
    BY <1>2 DEF LikeBut, Like, ErrorsOutside
<1> QED
    BY <1>1, <1>2 DEF CleanMatchesDisk, ErrorsOutside, Good

\* A transfer goes on if its buffer is left alone.
LEMMA TransferKept ==
    ASSUME Transfer, io'.buf = io.buf, io'.read = io.read, io'.val = io.val,
           io.buf \in Buf => Like(io.buf)
    PROVE  Transfer'
BY DEF Transfer, Like

\* The transfer in hand is of a buffer in the queue.
LEMMA InHandQueued ==
    ASSUME CacheInv, io.buf \in Buf
    PROVE  OnList(io.buf, actq) /\ io # NoIO
<1>1. io # NoIO /\ actq # <<>> /\ io.buf = actq[1]
    BY HdrFacts DEF CacheInv, QueueInv, NoIO
<1>2. OnList(actq[1], actq)
    BY <1>1, TailList DEF CacheInv, CacheType, QueueInv
<1> QED
    BY <1>1, <1>2

\* A step that leaves all buffers and the transfer in hand alone.
LEMMA QuietData ==
    ASSUME CacheInv, Data, LikeBut(NoBuf), disk' = disk,
           io'.buf = io.buf /\ io'.read = io.read /\ io'.val = io.val
    PROVE  Data'
<1>1. NoBuf \notin Buf
    BY HdrFacts
<1>2. CleanMatchesDisk' /\ ErrorsOutside'
    BY <1>1, TouchedData DEF CacheInv, Data
<1>3. Transfer'
    BY <1>1, TransferKept DEF Data, LikeBut
<1> QED
    BY <1>2, <1>3 DEF Data

\* brelse of a buffer that is not in the queue.
LEMMA BrelseData ==
    ASSUME CacheInv, Data, NEW x \in Buf, NEW fl \in SUBSET Flag, NEW av,
           Brelse(x, fl, av), ~OnList(x, actq), UNCHANGED <<actq, io, disk>>,
           \A y \in Buf : y # x => b_data'[y] = b_data[y],
           \/ "B_DELWRI" \in fl
           \/ /\ b_data'[x] = b_data[x] /\ "B_DELWRI" \notin b_flags[x]
              /\ "B_DONE" \in fl <=> "B_DONE" \in b_flags[x],
           "B_ERROR" \in fl => b_blk[x] \notin Good
    PROVE  /\ Data' /\ LikeBut(x)
           /\ b_blk[x] \in Good => b_blk'[x] = b_blk[x]
           /\ b_blk[x] \notin Good => b_blk'[x] \notin Good
           /\ "B_DONE" \in b_flags'[x] <=> "B_DONE" \in fl
           /\ "B_READ" \in b_flags'[x] <=> "B_READ" \in fl
<1>1. x \in Hdr /\ NoBlk \notin Good
    BY HdrFacts, BufAssumption DEF Good
<1>2. /\ b_flags'[x] = fl \ {"B_WANTED", "B_BUSY", "B_ASYNC"}
      /\ \A y \in Hdr : y # x => b_flags'[y] = b_flags[y]
      /\ b_blk'[x] = IF "B_ERROR" \in fl THEN NoBlk ELSE b_blk[x]
      /\ \A y \in Buf : y # x => b_blk'[y] = b_blk[y]
    BY <1>1 DEF Brelse, CacheInv, CacheType
<1>3. LikeBut(x)
    BY <1>2, HdrFacts DEF LikeBut, Like
<1>4. Transfer'
    BY <1>3, InHandQueued, TransferKept DEF Data, LikeBut
<1>5. /\ b_blk'[x] \in Good /\ "B_DONE" \in b_flags'[x] /\ "B_DELWRI" \notin b_flags'[x]
            => b_data'[x] = disk'[b_blk'[x]]
      /\ "B_ERROR" \in b_flags'[x] => b_blk'[x] \notin Good
    BY <1>1, <1>2 DEF Data, CleanMatchesDisk, Good
<1>6. CleanMatchesDisk' /\ ErrorsOutside'
    BY <1>3, <1>5, TouchedData DEF CacheInv, Data
<1> QED
    BY <1>1, <1>2, <1>3, <1>4, <1>6 DEF Data

\* rkstrategy of a buffer that is not in the queue, with what it now holds.
LEMMA StrategyData ==
    ASSUME CacheInv, Data, NEW x \in Buf, NEW fl \in SUBSET Flag, NEW av,
           NEW data \in Val, data = b_data'[x],
           Strategy(x, fl, av, data), ~OnList(x, actq), disk' = disk,
           \A y \in Buf : y # x => b_data'[y] = b_data[y],
           "B_DONE" \notin fl, "B_PHYS" \notin fl,
           "B_ERROR" \in fl => b_blk[x] \notin Good
    PROVE  /\ Data' /\ LikeBut(x)
           /\ b_blk[x] \in Good =>
                 /\ b_blk'[x] = b_blk[x] /\ "B_DONE" \notin b_flags'[x]
                 /\ OnList(x, actq') /\ ("B_READ" \in b_flags'[x] <=> "B_READ" \in fl)
           /\ b_blk[x] \notin Good => b_blk'[x] \notin Good
           /\ "B_ASYNC" \notin fl => b_blk'[x] = b_blk[x]
<1>1. x \in Hdr /\ NoBlk \notin Good /\ x # swbuf
    BY HdrFacts, BufAssumption DEF Good
<1>2. CASE PastEnd(x)
    <2>1. /\ b_blk[x] \in BadBlk /\ UNCHANGED <<actq, io>>
          /\ Iodone(x, fl \cup {"B_ERROR"}, av)
        BY <1>2 DEF PastEnd, Strategy
    <2>2. /\ \A y \in Hdr : y # x => b_flags'[y] = b_flags[y]
          /\ b_blk'[x] \in {b_blk[x], NoBlk}
          /\ \A y \in Buf : y # x => b_blk'[y] = b_blk[y]
        BY <1>1, <2>1 DEF Iodone, Brelse, CacheInv, CacheType
    <2>3. LikeBut(x)
        BY <2>1, <2>2, HdrFacts DEF LikeBut, Like
    <2>4. Transfer'
        BY <2>1, <2>3, InHandQueued, TransferKept DEF Data, LikeBut
    <2>5. b_blk[x] \notin Good /\ b_blk'[x] \notin Good
        BY <1>1, <2>1, <2>2 DEF Good
    <2>6. CleanMatchesDisk' /\ ErrorsOutside'
        BY <2>3, <2>5, TouchedData DEF CacheInv, Data
    <2>7. "B_ASYNC" \notin fl => b_blk'[x] = b_blk[x]
        BY <2>1 DEF Iodone
    <2> QED
        BY <2>3, <2>4, <2>5, <2>6, <2>7 DEF Data
<1>3. CASE ~PastEnd(x)
    <2>1. /\ b_flags' = [b_flags EXCEPT ![x] = fl] /\ actq' = Append(actq, x)
          /\ io' = IF io = NoIO THEN Devstart(x, fl, data) ELSE io
          /\ b_blk' = b_blk
        BY <1>3 DEF Strategy
    <2>2. b_flags'[x] = fl /\ \A y \in Hdr : y # x => b_flags'[y] = b_flags[y]
        BY <1>1, <2>1 DEF CacheInv, CacheType
    <2>3. \A y : OnList(y, actq') <=> (OnList(y, actq) \/ y = x)
        BY <1>1, <2>1, AppendList DEF CacheInv, CacheType, QueueInv
    <2>4. LikeBut(x)
        BY <2>1, <2>2, <2>3, HdrFacts DEF LikeBut, Like
    <2>5. Transfer'
        <3>1. CASE io = NoIO
            <4>1. /\ io'.buf = x /\ io'.read = ("B_READ" \in fl)
                  /\ "B_READ" \notin fl => io'.val = data
                BY <2>1, <3>1 DEF Devstart
            <4> QED
                BY <2>2, <4>1 DEF Transfer
        <3>2. CASE io # NoIO
            BY <2>1, <2>4, <3>2, InHandQueued, TransferKept DEF Data, LikeBut
        <3> QED
            BY <3>1, <3>2
    <2>6. CleanMatchesDisk' /\ ErrorsOutside'
        BY <2>1, <2>2, <2>4, TouchedData DEF CacheInv, Data
    <2> QED
        BY <2>1, <2>2, <2>3, <2>4, <2>5, <2>6 DEF Data
<1> QED
    BY <1>2, <1>3

-----------------------------------------------------------------------------
(* The contents of the blocks.                                              *)

\* What a block is to its callers while x is its buffer.
Here(x) == IF Newer(x) THEN b_data[x] ELSE disk[b_blk[x]]

\* A block in a buffer, and one in none.
LEMMA ContentsAt ==
    ASSUME OneBufferPerBlock
    PROVE  /\ \A x \in Buf : b_blk[x] \in Good => Contents[b_blk[x]] = Here(x)
           /\ \A b \in Good : (\A x \in Buf : b_blk[x] # b) => Contents[b] = disk[b]
<1>1. \A b \in Good :
         Contents[b] = IF \E x \in Buf : b_blk[x] = b /\ Newer(x)
                       THEN b_data[CHOOSE x \in Buf : b_blk[x] = b /\ Newer(x)]
                       ELSE disk[b]
    BY DEF Contents, Good
<1>2. ASSUME NEW x \in Buf, b_blk[x] \in Good
      PROVE  Contents[b_blk[x]] = Here(x)
    <2>1. PICK b \in Good : b = b_blk[x]
        BY <1>2
    <2>2. \A y \in Buf : b_blk[y] = b => y = x
        BY <1>2, <2>1, NoBlkNotGood DEF OneBufferPerBlock
    <2>3. CASE Newer(x)
        <3>1. (CHOOSE y \in Buf : b_blk[y] = b /\ Newer(y)) = x
            BY <2>1, <2>2, <2>3
        <3> QED
            BY <1>1, <2>1, <2>3, <3>1 DEF Here
    <2>4. CASE ~Newer(x)
        BY <1>1, <2>1, <2>2, <2>4 DEF Here
    <2> QED
        BY <2>3, <2>4
<1>3. ASSUME NEW b \in Good, \A x \in Buf : b_blk[x] # b
      PROVE  Contents[b] = disk[b]
    BY <1>1, <1>3
<1> QED
    BY <1>2, <1>3

\* The same in the next state.
LEMMA ContentsAtNext ==
    ASSUME OneBufferPerBlock'
    PROVE  /\ \A x \in Buf : b_blk'[x] \in Good => Contents'[b_blk'[x]] = Here(x)'
           /\ \A b \in Good : (\A x \in Buf : b_blk'[x] # b) => Contents'[b] = disk'[b]
<1>1. \A b \in Good :
         Contents'[b] = IF \E x \in Buf : b_blk'[x] = b /\ Newer(x)'
                        THEN b_data'[CHOOSE x \in Buf : b_blk'[x] = b /\ Newer(x)']
                        ELSE disk'[b]
    BY DEF Contents, Good
<1>2. ASSUME NEW x \in Buf, b_blk'[x] \in Good
      PROVE  Contents'[b_blk'[x]] = Here(x)'
    <2>1. PICK b \in Good : b = b_blk'[x]
        BY <1>2
    <2>2. \A y \in Buf : b_blk'[y] = b => y = x
        BY <1>2, <2>1, NoBlkNotGood DEF OneBufferPerBlock
    <2>3. CASE Newer(x)'
        <3>1. (CHOOSE y \in Buf : b_blk'[y] = b /\ Newer(y)') = x
            BY <2>1, <2>2, <2>3
        <3> QED
            BY <1>1, <2>1, <2>3, <3>1 DEF Here
    <2>4. CASE ~Newer(x)'
        BY <1>1, <2>1, <2>2, <2>4 DEF Here
    <2> QED
        BY <2>3, <2>4
<1>3. ASSUME NEW b \in Good, \A x \in Buf : b_blk'[x] # b
      PROVE  Contents'[b] = disk'[b]
    BY <1>1, <1>3
<1> QED
    BY <1>2, <1>3

\* A buffer that is left alone has what it had if its block on the disk has.
LEMMA HereKept ==
    ASSUME NEW y \in Buf, Like(y),
           b_blk[y] \in Good => disk'[b_blk[y]] = disk[b_blk[y]]
    PROVE  b_blk[y] \in Good => Here(y)' = Here(y)
BY DEF Like, Here, Newer

\* One buffer is touched and what its block is to the callers stays.
LEMMA SameContents ==
    ASSUME OneBufferPerBlock, OneBufferPerBlock', NEW x, LikeBut(x),
           \A b \in Good : (x \in Buf => b # b_blk[x]) => disk'[b] = disk[b],
           x \in Buf => \/ /\ b_blk'[x] = b_blk[x]
                           /\ b_blk[x] \in Good => Here(x)' = Here(x)
                        \/ b_blk[x] \notin Good /\ b_blk'[x] \notin Good
    PROVE  Contents' = Contents
<1>1. ASSUME NEW y \in Buf
      PROVE  \/ /\ b_blk'[y] = b_blk[y]
                /\ b_blk[y] \in Good => Here(y)' = Here(y)
             \/ b_blk[y] \notin Good /\ b_blk'[y] \notin Good
    <2>1. CASE y = x
        BY <2>1
    <2>2. CASE y # x
        <3>1. Like(y)
            BY <2>2 DEF LikeBut
        <3>2. b_blk[y] \in Good /\ x \in Buf => b_blk[y] # b_blk[x]
            BY <2>2, NoBlkNotGood DEF OneBufferPerBlock
        <3> QED
            BY <3>1, <3>2, HereKept DEF Like
    <2> QED
        BY <2>1, <2>2
<1>2. ASSUME NEW b \in Good PROVE Contents'[b] = Contents[b]
    <2>1. CASE \E y \in Buf : b_blk[y] = b
        <3>1. PICK y \in Buf : b_blk[y] = b
            BY <2>1
        <3>2. b_blk'[y] = b /\ Here(y)' = Here(y)
            BY <1>1, <3>1
        <3>3. Contents[b] = Here(y) /\ Contents'[b] = Here(y)'
            BY <3>1, <3>2, ContentsAt, ContentsAtNext
        <3> QED
            BY <3>2, <3>3
    <2>2. CASE \A y \in Buf : b_blk[y] # b
        <3>1. \A y \in Buf : b_blk'[y] # b
            BY <1>1, <2>2
        <3>2. Contents[b] = disk[b] /\ Contents'[b] = disk'[b]
            BY <2>2, <3>1, ContentsAt, ContentsAtNext
        <3>3. disk'[b] = disk[b]
            BY <2>2
        <3> QED
            BY <3>2, <3>3
    <2> QED
        BY <2>1, <2>2
<1>3. /\ Contents = [b \in Good |-> Contents[b]]
      /\ Contents' = [b \in Good |-> Contents'[b]]
    BY DEF Contents, Good
<1> QED
    BY <1>2, <1>3

\* New contents for the block of one buffer.
LEMMA PutContents ==
    ASSUME OneBufferPerBlock, OneBufferPerBlock', NEW x \in Buf, LikeBut(x),
           disk' = disk, b_blk'[x] = b_blk[x], b_blk[x] \in Good
    PROVE  Contents' = [Contents EXCEPT ![b_blk[x]] = Here(x)']
<1>1. ASSUME NEW b \in Good, b # b_blk[x] PROVE Contents'[b] = Contents[b]
    <2>1. CASE \E y \in Buf : b_blk[y] = b
        <3>1. PICK y \in Buf : b_blk[y] = b /\ y # x
            BY <1>1, <2>1
        <3>2. b_blk'[y] = b /\ Here(y)' = Here(y)
            BY <3>1, HereKept DEF LikeBut, Like
        <3>3. Contents[b] = Here(y) /\ Contents'[b] = Here(y)'
            BY <3>1, <3>2, ContentsAt, ContentsAtNext
        <3> QED
            BY <3>2, <3>3
    <2>2. CASE \A y \in Buf : b_blk[y] # b
        <3>1. \A y \in Buf : b_blk'[y] # b
            BY <1>1, <2>2 DEF LikeBut, Like
        <3>2. Contents[b] = disk[b] /\ Contents'[b] = disk'[b]
            BY <2>2, <3>1, ContentsAt, ContentsAtNext
        <3> QED
            BY <3>2
    <2> QED
        BY <2>1, <2>2
<1>2. Contents'[b_blk[x]] = Here(x)'
    BY ContentsAtNext
<1>3. /\ Contents = [b \in Good |-> Contents[b]]
      /\ Contents' = [b \in Good |-> Contents'[b]]
    BY DEF Contents, Good
<1> QED
    BY <1>1, <1>2, <1>3

\* A buffer that is reassigned takes nothing with it: it was clean.
LEMMA MovedContents ==
    ASSUME CacheInv, Data, OneBufferPerBlock, OneBufferPerBlock', NEW x \in Buf,
           LikeBut(x), disk' = disk, ~OnList(x, actq), "B_DELWRI" \notin b_flags[x],
           "B_DONE" \notin b_flags'[x], ~OnList(x, actq'),
           \A y \in Buf : b_blk'[x] \in Good => b_blk[y] # b_blk'[x]
    PROVE  Contents' = Contents
<1>1. ~Newer(x)' /\ (Newer(x) <=> "B_DONE" \in b_flags[x])
    BY DEF Newer
<1>2. b_blk[x] \in Good => Here(x) = disk[b_blk[x]]
    BY <1>1 DEF Here, Data, CleanMatchesDisk, Good
<1>3. ASSUME NEW b \in Good PROVE Contents'[b] = Contents[b]
    <2>1. CASE \E y \in Buf : b_blk[y] = b /\ y # x
        <3>1. PICK y \in Buf : b_blk[y] = b /\ y # x
            BY <2>1
        <3>2. b_blk'[y] = b /\ Here(y)' = Here(y)
            BY <3>1, HereKept DEF LikeBut, Like
        <3>3. Contents[b] = Here(y) /\ Contents'[b] = Here(y)'
            BY <3>1, <3>2, ContentsAt, ContentsAtNext
        <3> QED
            BY <3>2, <3>3
    <2>2. CASE \A y \in Buf : b_blk[y] = b => y = x
        <3>1. Contents[b] = disk[b]
            BY <1>2, <2>2, ContentsAt
        <3>2. \A y \in Buf : b_blk'[y] = b => y = x
            BY <2>2 DEF LikeBut, Like
        <3>3. CASE b_blk'[x] = b
            <4>1. Contents'[b] = Here(x)' /\ Here(x)' = disk'[b_blk'[x]]
                BY <1>1, <3>3, ContentsAtNext DEF Here
            <4> QED
                BY <3>1, <3>3, <4>1
        <3>4. CASE b_blk'[x] # b
            BY <3>1, <3>2, <3>4, ContentsAtNext
        <3> QED
            BY <3>3, <3>4
    <2> QED
        BY <2>1, <2>2
<1>4. /\ Contents = [b \in Good |-> Contents[b]]
      /\ Contents' = [b \in Good |-> Contents'[b]]
    BY DEF Contents, Good
<1> QED
    BY <1>3, <1>4

-----------------------------------------------------------------------------
(* What the callers see.                                                    *)

\* q stays where it is with the buffers it has.
Rests(q) == pc'[q] = pc[q] /\ bp'[q] = bp[q] /\ rbp'[q] = rbp[q]

OthersRest(p) == \A q \in Proc : q # p => Rests(q)

\* The others have and see what they had.
OthersSee(p) == \A q \in Proc : q # p => ScratchAt(q)' /\ View'[q] = View[q]

\* The contents that the holder of x sees.
Shows(x) ==
    IF "B_DONE" \in b_flags[x] /\ "B_ERROR" \notin b_flags[x]
    THEN b_data[x] ELSE Unread

\* What a process sees, before and after a step.
LEMMA ViewOf ==
    \A p \in Proc :
        /\ pc[p] = "hold" => View[p] = [blk |-> b_blk[bp[p]], val |-> Shows(bp[p])]
        /\ pc[p] # "hold" => View[p] = Store!None
        /\ pc'[p] = "hold" =>
              View'[p] = [blk |-> b_blk'[bp'[p]], val |-> Shows(bp[p])']
        /\ pc'[p] # "hold" => View'[p] = Store!None
BY DEF View, Shows, Store!None

\* The block a process sees.
LEMMA BlockOf ==
    ASSUME NEW p \in Proc
    PROVE  View[p].blk = IF pc[p] = "hold" THEN b_blk[bp[p]] ELSE NoBlk
<1>1. CASE pc[p] = "hold"
    <2>1. PICK v : View[p] = [blk |-> b_blk[bp[p]], val |-> v]
        BY <1>1, ViewOf
    <2> QED
        BY <1>1, <2>1
<1>2. CASE pc[p] # "hold"
    <2>1. PICK v : View[p] = [blk |-> NoBlk, val |-> v]
        BY <1>2, ViewOf DEF Store!None
    <2> QED
        BY <1>2, <2>1
<1> QED
    BY <1>1, <1>2

\* A process whose buffers are left alone sees what it saw.
LEMMA RestsSees ==
    ASSUME NEW q \in Proc, Rests(q), ScratchAt(q),
           pc[q] \in {"got", "iowait", "hold"} => Like(bp[q]),
           rbp[q] # NoBuf => Like(rbp[q])
    PROVE  ScratchAt(q)' /\ View'[q] = View[q]
<1>1. ScratchAt(q)'
    BY DEF Rests, ScratchAt, Like
<1>2. CASE pc[q] = "hold"
    <2>1. Shows(bp[q])' = Shows(bp[q]) /\ b_blk'[bp'[q]] = b_blk[bp[q]]
        BY <1>2 DEF Rests, Like, Shows
    <2>2. View'[q] = View[q]
        BY <1>2, <2>1, ViewOf DEF Rests
    <2> QED
        BY <1>1, <2>2
<1>3. CASE pc[q] # "hold"
    BY <1>1, <1>3, ViewOf DEF Rests
<1> QED
    BY <1>2, <1>3

\* The others see what they saw if a buffer that none of them has is touched.
LEMMA OthersSeeSame ==
    ASSUME IInv, Scratch, NEW p, OthersRest(p), NEW x, LikeBut(x),
           \A q \in Proc : q # p => x \notin Claims(q)
    PROVE  OthersSee(p)
<1> SUFFICES ASSUME NEW q \in Proc, q # p
             PROVE  ScratchAt(q)' /\ View'[q] = View[q]
    BY DEF OthersSee
<1>1. /\ Rests(q) /\ ScratchAt(q) /\ x \notin Claims(q) /\ ProcAt(q)
      /\ bp[q] \in Buf \cup {NoBuf} /\ rbp[q] \in Buf \cup {NoBuf}
    BY DEF OthersRest, Scratch, IInv, ProcInv, ProcType
<1>2. pc[q] \in {"got", "iowait", "hold"} => Like(bp[q])
    BY <1>1 DEF ProcAt, Claims, LikeBut
<1>3. rbp[q] # NoBuf => Like(rbp[q])
    BY <1>1 DEF Claims, LikeBut
<1> QED
    BY <1>1, <1>2, <1>3, RestsSees

\* All views, from those of the others and one more.
LEMMA ViewsAre ==
    ASSUME NEW p \in Proc, OthersSee(p)
    PROVE  View' = [View EXCEPT ![p] = View'[p]]
<1>1. View' = [q \in Proc |-> View'[q]] /\ View = [q \in Proc |-> View[q]]
    BY DEF View
<1> QED
    BY <1>1 DEF OthersSee

\* A step after which nothing has changed for the callers.
LEMMA StutterStep ==
    ASSUME NEW p \in Proc, OthersSee(p), Contents' = Contents,
           View'[p] = View[p]
    PROVE  UNCHANGED Store!vars
<1>1. View' = [q \in Proc |-> View'[q]] /\ View = [q \in Proc |-> View[q]]
    BY DEF View
<1>2. \A q \in Proc : View'[q] = View[q]
    BY DEF OthersSee
<1>3. View' = View
    BY <1>1, <1>2
<1> QED
    BY <1>3 DEF Store!vars

\* A caller gets its buffer: a block to itself with the contents it has, or a
\* scratch buffer.
LEMMA AcquireStep ==
    ASSUME IInv, DInv, OneBufferPerBlock, NEW p \in Proc, OthersSee(p),
           Contents' = Contents, pc[p] # "hold", pc'[p] = "hold",
           NEW x \in Buf, x \in Claims(p), bp'[p] = x, Like(x),
           b_blk[x] = NoBlk => "B_DONE" \notin b_flags[x]
    PROVE  [Store!Next]_(Store!vars)
<1> DEFINE b == b_blk[x]
           v == Shows(x)
<1>1. View'[p] = [blk |-> b, val |-> v]
    BY ViewOf DEF Like, Shows
<1>2. View[p] = Store!None
    BY ViewOf
<1>3. CASE b = NoBlk
    <2>1. v = Unread
        BY <1>3 DEF Shows
    <2>2. View'[p] = Store!None
        BY <1>1, <1>3, <2>1 DEF Store!None
    <2> QED
        BY <1>2, <2>2, StutterStep
<1>4. CASE b # NoBlk
    <2>1. b \in Blk /\ x \in Buf
        BY <1>4 DEF IInv, CacheInv, CacheType
    <2>2. ASSUME NEW q \in Proc PROVE View[q].blk # b
        <3>1. CASE pc[q] = "hold"
            <4>1. q # p /\ bp[q] \in Buf /\ bp[q] # x
                BY <3>1, HdrFacts
                   DEF IInv, ProcInv, ProcAt, ProcType, Exclusive, Claims
            <4>2. b_blk[bp[q]] # b
                BY <1>4, <4>1 DEF OneBufferPerBlock
            <4> QED
                BY <3>1, <4>2, BlockOf
        <3>2. CASE pc[q] # "hold"
            BY <1>4, <3>2, BlockOf
        <3> QED
            BY <3>1, <3>2
    <2>3. v \in {Unread} \cup (IF b \in BadBlk THEN Val ELSE {Contents[b]})
        <3>1. b_data[x] \in Val
            BY DEF IInv, CacheInv, CacheType
        <3>2. CASE b \in Good /\ "B_DONE" \in b_flags[x]
            <4>1. Contents[b] = Here(x) /\ Newer(x)
                BY <3>2, ContentsAt DEF Newer
            <4>2. b \notin BadBlk /\ Contents[b] = b_data[x]
                BY <3>2, <4>1 DEF Here, Good
            <4> QED
                BY <4>2 DEF Shows
        <3>3. CASE b \in Good /\ "B_DONE" \notin b_flags[x]
            BY <3>3 DEF Shows
        <3>4. CASE b \notin Good
            BY <2>1, <3>1, <3>4 DEF Shows, Good
        <3> QED
            BY <3>2, <3>3, <3>4
    <2>4. View' = [View EXCEPT ![p] = [blk |-> b, val |-> v]]
        BY <1>1, ViewsAre
    <2> HIDE DEF b, v
    <2>5. Store!Acquire(p, b)
        BY <1>2, <2>2, <2>3, <2>4 DEF Store!Acquire
    <2> QED
        BY <2>1, <2>5 DEF Store!Next
<1> QED
    BY <1>3, <1>4

\* A caller gives its buffer back and the contents stay.
LEMMA GiveStep ==
    ASSUME NEW p \in Proc, OthersSee(p), Contents' = Contents, pc'[p] # "hold"
    PROVE  [Store!Next]_(Store!vars)
<1>1. View'[p] = Store!None
    BY ViewOf
<1>2. CASE View[p] = Store!None
    BY <1>1, <1>2, StutterStep
<1>3. CASE View[p] # Store!None
    <2>1. View' = [View EXCEPT ![p] = Store!None]
        BY <1>1, ViewsAre
    <2>2. Store!Release(p)
        BY <1>3, <2>1 DEF Store!Release
    <2> QED
        BY <2>2 DEF Store!Next
<1> QED
    BY <1>2, <1>3

\* A caller gives its buffer back with new contents.
LEMMA WriteStep ==
    ASSUME NEW p \in Proc, OthersSee(p), NEW v \in Val, pc[p] = "hold",
           pc'[p] # "hold", b_blk[bp[p]] \in Good,
           Contents' = [Contents EXCEPT ![b_blk[bp[p]]] = v]
    PROVE  [Store!Next]_(Store!vars)
<1>1. View'[p] = Store!None
    BY ViewOf
<1>2. View[p].blk = b_blk[bp[p]]
    BY BlockOf
<1>3. View[p] # Store!None /\ View[p].blk \notin BadBlk
    <2>1. Store!None.blk = NoBlk
        BY DEF Store!None
    <2> QED
        BY <1>2, <2>1, NoBlkNotGood DEF Good
<1>4. View' = [View EXCEPT ![p] = Store!None]
    BY <1>1, ViewsAre
<1>5. Store!Write(p, v)
    BY <1>2, <1>3, <1>4 DEF Store!Write
<1> QED
    BY <1>5 DEF Store!Next

-----------------------------------------------------------------------------
(* The steps.                                                               *)

\* What a step starts from, and what it is to show.
Safe == IInv /\ DInv /\ OneBufferPerBlock
Kept == DInv' /\ [Store!Next]_(Store!vars)

\* A process p touches the buffer x, which nobody else has.
LEMMA TouchStep ==
    ASSUME Safe, NEW p \in Proc, NEW x, LikeBut(x), Data', OthersRest(p),
           \A q \in Proc : q # p => x \notin Claims(q), ScratchAt(p)'
    PROVE  DInv' /\ OthersSee(p)
<1>1. OthersSee(p)
    BY OthersSeeSame DEF Safe, DInv
<1>2. Scratch'
    BY <1>1 DEF OthersSee, Scratch
<1> QED
    BY <1>1, <1>2 DEF DInv

\* A process moves and the buffers are left alone.
LEMMA QuietStep ==
    ASSUME Safe, OneBufferPerBlock', NEW p \in Proc, LikeBut(NoBuf), disk' = disk,
           Transfer', OthersRest(p), ScratchAt(p)'
    PROVE  DInv' /\ OthersSee(p) /\ Contents' = Contents
<1>1. NoBuf \notin Buf
    BY HdrFacts
<1>2. CleanMatchesDisk' /\ ErrorsOutside'
    BY <1>1, TouchedData DEF Safe, IInv, CacheInv, DInv, Data
<1>3. Data'
    BY <1>2 DEF Data
<1>4. \A q \in Proc : NoBuf \notin Claims(q)
    BY DEF Claims
<1>5. DInv' /\ OthersSee(p)
    BY <1>3, <1>4, TouchStep
<1>6. Contents' = Contents
    BY <1>1, SameContents DEF Safe
<1> QED
    BY <1>5, <1>6

\* The cache is untouched and p does not hold a buffer.
LEMMA MoveStep ==
    ASSUME Safe, OneBufferPerBlock', NEW p \in Proc,
           UNCHANGED <<cacheVars, b_data, disk>>, OthersRest(p), ScratchAt(p)',
           pc[p] # "hold", pc'[p] # "hold"
    PROVE  Kept
<1>1. LikeBut(NoBuf)
    BY DEF LikeBut, Like, cacheVars
<1>2. Transfer'
    BY DEF Safe, DInv, Data, Transfer, cacheVars
<1>3. DInv' /\ OthersSee(p) /\ Contents' = Contents
    BY <1>1, <1>2, QuietStep
<1>4. UNCHANGED Store!vars
    BY <1>3, ViewOf, StutterStep
<1> QED
    BY <1>3, <1>4 DEF Kept

\* The cache is untouched and p has now the buffer that it asked for.
LEMMA HoldStep ==
    ASSUME Safe, OneBufferPerBlock', NEW p \in Proc,
           UNCHANGED <<cacheVars, b_data, disk, bp, rbp>>, Hold(p),
           pc[p] \in {"got", "iowait"}
    PROVE  Kept
<1>1. LikeBut(NoBuf)
    BY DEF LikeBut, Like, cacheVars
<1>2. Transfer'
    BY DEF Safe, DInv, Data, Transfer, cacheVars
<1>3. pc'[p] = "hold" /\ OthersRest(p)
    BY DEF Hold, Call, Goto, OthersRest, Rests, Safe, IInv, ProcType
<1>4. ScratchAt(p) /\ bp[p] \in Buf
    BY DEF Safe, DInv, Scratch, IInv, ProcInv, ProcAt, ProcType
<1>5. /\ b_blk[bp[p]] = NoBlk => "B_DONE" \notin b_flags[bp[p]]
      /\ ScratchAt(p)'
    BY <1>3, <1>4 DEF ScratchAt, cacheVars
<1>6. DInv' /\ OthersSee(p) /\ Contents' = Contents
    BY <1>1, <1>2, <1>3, <1>5, QuietStep
<1>7. Like(bp[p]) /\ bp'[p] = bp[p] /\ bp[p] \in Claims(p)
    BY <1>1, <1>4, HdrFacts DEF LikeBut, Claims
<1>8. [Store!Next]_(Store!vars)
    BY <1>3, <1>4, <1>5, <1>6, <1>7, AcquireStep DEF Safe
<1> QED
    BY <1>6, <1>8 DEF Kept

\* A caller that keeps its buffer gives the block back, as far as the block
\* store goes: until it is back nobody else can get it.
LEMMA KeepStep ==
    ASSUME Safe, OneBufferPerBlock', NEW p \in Proc, NEW o, NEW b, Keep(p, o, b)
    PROVE  Kept
<1>1. /\ pc[p] = "hold" /\ UNCHANGED <<cacheVars, b_data, disk>>
      /\ rbp' = [rbp EXCEPT ![p] = bp[p]] /\ bp' = [bp EXCEPT ![p] = NoBuf]
      /\ Goto(p, "getblk")
    BY DEF Keep, Holds, Call
<1>2. LikeBut(NoBuf)
    BY <1>1 DEF LikeBut, Like, cacheVars
<1>3. Transfer'
    BY <1>1 DEF Safe, DInv, Data, Transfer, cacheVars
<1>4. OthersRest(p) /\ pc'[p] = "getblk" /\ rbp'[p] = bp[p]
    BY <1>1 DEF Goto, OthersRest, Rests, Safe, IInv, ProcType
<1>5. ScratchAt(p)'
    BY <1>1, <1>4 DEF Safe, DInv, Scratch, ScratchAt, cacheVars
<1>6. DInv' /\ OthersSee(p) /\ Contents' = Contents
    BY <1>1, <1>2, <1>3, <1>4, <1>5, QuietStep
<1>7. [Store!Next]_(Store!vars)
    BY <1>4, <1>6, GiveStep
<1> QED
    BY <1>6, <1>7 DEF Kept

\* A caller that goes on with the buffer it kept gets the block again.
LEMMA BackStep ==
    ASSUME Safe, OneBufferPerBlock', NEW p \in Proc, Back(p)
    PROVE  Kept
<1>1. /\ pc[p] = "back" /\ UNCHANGED <<cacheVars, b_data, disk>>
      /\ bp' = [bp EXCEPT ![p] = rbp[p]] /\ rbp' = [rbp EXCEPT ![p] = NoBuf]
      /\ Goto(p, "hold")
    BY DEF Back, Hold, Call
<1>2. LikeBut(NoBuf)
    BY <1>1 DEF LikeBut, Like, cacheVars
<1>3. Transfer'
    BY <1>1 DEF Safe, DInv, Data, Transfer, cacheVars
<1>4. OthersRest(p) /\ pc'[p] = "hold" /\ bp'[p] = rbp[p] /\ rbp'[p] = NoBuf
    BY <1>1 DEF Goto, OthersRest, Rests, Safe, IInv, ProcType
<1>5. PICK x \in Buf : x = rbp[p] /\ x \in Claims(p)
    BY <1>1 DEF Safe, IInv, ProcInv, ProcAt, ProcType, Claims
<1>6. b_blk[x] = NoBlk => "B_DONE" \notin b_flags[x]
    BY <1>5, HdrFacts DEF Safe, DInv, Scratch, ScratchAt
<1>7. ScratchAt(p)'
    BY <1>1, <1>4, <1>5, <1>6 DEF ScratchAt, cacheVars
<1>8. DInv' /\ OthersSee(p) /\ Contents' = Contents
    BY <1>1, <1>2, <1>3, <1>4, <1>7, QuietStep
<1>9. Like(x)
    BY <1>2, <1>5, HdrFacts DEF LikeBut
<1>10. [Store!Next]_(Store!vars)
    BY <1>1, <1>4, <1>5, <1>6, <1>8, <1>9, AcquireStep DEF Safe
<1> QED
    BY <1>8, <1>10 DEF Kept

\* The steps of a process that look at the cache and leave it as it is.
LEMMA LookStep ==
    ASSUME Safe, OneBufferPerBlock', NEW p \in Proc,
           Begin(p) \/ BreadaFirst(p) \/ BreadaAhead(p) \/ GotGetblk(p)
    PROVE  Kept
<1>0. ScratchAt(p) /\ ProcType
    BY DEF Safe, DInv, Scratch, IInv
<1>1. CASE Begin(p) /\ ~ \E o \in {"bread", "getblk"}, b \in Blk : Keep(p, o, b)
    <2>1. /\ pc[p] = "user" /\ UNCHANGED <<cacheVars, b_data, disk, bp, rbp>>
          /\ \E l \in {"getblk", "breada", "bflush", "swap"} : Goto(p, l)
        BY <1>1 DEF Begin, Bread, Breada, GetblkCall, BflushCall, SwapCall, Idle, Call
    <2>2. OthersRest(p) /\ pc'[p] \in {"getblk", "breada", "bflush", "swap"}
        BY <1>0, <2>1 DEF Goto, OthersRest, Rests, ProcType
    <2>3. ScratchAt(p)'
        BY <1>0, <2>1, <2>2 DEF ScratchAt, cacheVars
    <2> QED
        BY <2>1, <2>2, <2>3, MoveStep
<1>2. CASE BreadaFirst(p)
    <2>1. /\ pc[p] = "breada" /\ UNCHANGED <<cacheVars, b_data, disk, bp, rbp>>
          /\ \E l \in {"ahead", "getblk"} : Goto(p, l)
        BY <1>2 DEF BreadaFirst
    <2>2. OthersRest(p) /\ pc'[p] \in {"ahead", "getblk"}
        BY <1>0, <2>1 DEF Goto, OthersRest, Rests, ProcType
    <2>3. ScratchAt(p)'
        BY <1>0, <2>1, <2>2 DEF ScratchAt, cacheVars
    <2> QED
        BY <2>1, <2>2, <2>3, MoveStep
<1>3. CASE BreadaAhead(p)
    <2>1. pc[p] = "ahead" /\ UNCHANGED <<cacheVars, b_data, disk>>
        BY <1>3 DEF BreadaAhead
    <2>2. CASE Goto(p, "getblk") /\ UNCHANGED <<bp, rbp>>
        <3>1. OthersRest(p) /\ pc'[p] = "getblk"
            BY <1>0, <2>2 DEF Goto, OthersRest, Rests, ProcType
        <3>2. ScratchAt(p)'
            BY <1>0, <2>1, <2>2, <3>1 DEF ScratchAt, cacheVars
        <3> QED
            BY <2>1, <3>1, <3>2, MoveStep
    <2>3. CASE /\ Goto(p, "iowait") /\ rbp[p] # NoBuf
               /\ bp' = [bp EXCEPT ![p] = rbp[p]] /\ rbp' = [rbp EXCEPT ![p] = NoBuf]
        <3>1. OthersRest(p) /\ pc'[p] = "iowait" /\ bp'[p] = rbp[p] /\ rbp'[p] = NoBuf
            BY <1>0, <2>3 DEF Goto, OthersRest, Rests, ProcType
        <3>2. b_blk[rbp[p]] # NoBlk
            BY <2>1, <2>3 DEF Safe, IInv, ProcInv, ProcAt
        <3>3. ScratchAt(p)'
            BY <1>0, <2>1, <2>3, <3>1, <3>2 DEF ScratchAt, cacheVars
        <3> QED
            BY <2>1, <3>1, <3>3, MoveStep
    <2> QED
        BY <1>3, <2>2, <2>3 DEF BreadaAhead, Call
<1>4. CASE GotGetblk(p)
    BY <1>4, HoldStep DEF GotGetblk, Got
<1>5. CASE \E o \in {"bread", "getblk"}, b \in Blk : Keep(p, o, b)
    BY <1>5, KeepStep
<1> QED
    BY <1>1, <1>2, <1>3, <1>4, <1>5

\* getblk waits for a busy buffer or for any buffer.
LEMMA GetblkWaitStep ==
    ASSUME Safe, OneBufferPerBlock', NEW p \in Proc, GetblkBusy(p) \/ GetblkEmpty(p)
    PROVE  Kept
<1>1. /\ pc[p] = "getblk"
      /\ UNCHANGED <<b_blk, b_data, actq, io, disk, pc, op, want, bp, rbp>>
      /\ \/ b_flags' = b_flags
         \/ \E x \in Buf : b_flags' = [b_flags EXCEPT ![x] = @ \cup {"B_WANTED"}]
    BY DEF GetblkBusy, GetblkEmpty, NeedsBuffer, InGetblk, procVars
<1>2. \A y \in Buf, f \in Flag \ {"B_WANTED"} : f \in b_flags'[y] <=> f \in b_flags[y]
    <2>1. CASE b_flags' = b_flags
        BY <2>1
    <2>2. ASSUME NEW x \in Buf, b_flags' = [b_flags EXCEPT ![x] = @ \cup {"B_WANTED"}]
          PROVE  \A y \in Buf : b_flags'[y] \in {b_flags[y], b_flags[y] \cup {"B_WANTED"}}
        BY <2>2, HdrFacts DEF Safe, IInv, CacheInv, CacheType
    <2> QED
        BY <1>1, <2>1, <2>2
<1>3. LikeBut(NoBuf)
    BY <1>1, <1>2 DEF LikeBut, Like, Flag
<1>4. Transfer'
    BY <1>1, <1>3, HdrFacts DEF Safe, DInv, Data, Transfer, LikeBut, Like
<1>5. OthersRest(p)
    BY <1>1 DEF OthersRest, Rests
<1>6. ScratchAt(p)'
    <2>1. rbp[p] # NoBuf => Like(rbp[p])
        BY <1>3, HdrFacts DEF LikeBut, Safe, IInv, ProcType
    <2> QED
        BY <1>1, <2>1 DEF Safe, DInv, Scratch, ScratchAt, Like
<1>7. DInv' /\ OthersSee(p) /\ Contents' = Contents
    BY <1>1, <1>3, <1>4, <1>5, <1>6, QuietStep
<1>8. UNCHANGED Store!vars
    BY <1>1, <1>7, ViewOf, StutterStep
<1> QED
    BY <1>7, <1>8 DEF Kept

\* getblk takes the free buffer that has the block.
LEMMA GetblkHitStep ==
    ASSUME Safe, OneBufferPerBlock', NEW p \in Proc, GetblkHit(p)
    PROVE  Kept
<1>1. PICK x \in Buf :
          /\ b_blk[x] = want[p].blk /\ want[p].blk # NoBlk
          /\ b_flags' = [b_flags EXCEPT ![x] = @ \cup {"B_BUSY"}]
          /\ bp' = [bp EXCEPT ![p] = x]
    BY DEF GetblkHit
<1>2. /\ pc[p] = "getblk" /\ Goto(p, "got")
      /\ UNCHANGED <<b_blk, b_data, actq, io, disk, rbp>>
    BY DEF GetblkHit, InGetblk
<1>3. \A y \in Buf, f \in Flag \ {"B_BUSY"} : f \in b_flags'[y] <=> f \in b_flags[y]
    BY <1>1, HdrFacts DEF Safe, IInv, CacheInv, CacheType
<1>4. LikeBut(NoBuf)
    BY <1>2, <1>3 DEF LikeBut, Like, Flag
<1>5. Transfer'
    BY <1>2, <1>4, HdrFacts DEF Safe, DInv, Data, Transfer, LikeBut, Like
<1>6. OthersRest(p) /\ pc'[p] = "got" /\ bp'[p] = x
    BY <1>1, <1>2 DEF Goto, OthersRest, Rests, Safe, IInv, ProcType
<1>7. ScratchAt(p)'
    BY <1>1, <1>2, <1>6 DEF Safe, DInv, Scratch, ScratchAt
<1>8. DInv' /\ OthersSee(p) /\ Contents' = Contents
    BY <1>2, <1>4, <1>5, <1>6, <1>7, QuietStep
<1>9. UNCHANGED Store!vars
    BY <1>2, <1>6, <1>8, ViewOf, StutterStep
<1> QED
    BY <1>8, <1>9 DEF Kept

\* getblk gives the oldest free buffer, which is clean, to another block.
LEMMA GetblkReassignStep ==
    ASSUME Safe, OneBufferPerBlock', NEW p \in Proc, GetblkReassign(p)
    PROVE  Kept
<1>1. PICK x \in Buf :
          /\ "B_BUSY" \notin b_flags[x] /\ "B_DELWRI" \notin b_flags[x]
          /\ b_flags' = [b_flags EXCEPT ![x] = {"B_BUSY"}]
          /\ b_blk' = [b_blk EXCEPT ![x] = want[p].blk]
          /\ bp' = [bp EXCEPT ![p] = x]
    BY OldestIsFree DEF GetblkReassign, Safe, IInv
<1>2. /\ pc[p] = "getblk" /\ Goto(p, "got") /\ UNCHANGED <<b_data, actq, io, disk, rbp>>
      /\ want[p].blk # NoBlk => \A y \in Buf : b_blk[y] # want[p].blk
    BY DEF GetblkReassign, NeedsBuffer, InGetblk, Incore
<1>3. /\ ~OnList(x, actq) /\ x \in Hdr /\ \A q \in Proc : x \notin Claims(q)
    BY <1>1, HdrFacts, FreeUnclaimed DEF Safe, IInv, CacheInv, QueueInv
<1>4. /\ b_flags'[x] = {"B_BUSY"} /\ b_blk'[x] = want[p].blk
      /\ \A y \in Buf : y # x => b_flags'[y] = b_flags[y] /\ b_blk'[y] = b_blk[y]
    BY <1>1, <1>3, HdrFacts DEF Safe, IInv, CacheInv, CacheType
<1>5. LikeBut(x)
    BY <1>2, <1>4 DEF LikeBut, Like
<1>6. Data'
    <2>1. CleanMatchesDisk' /\ ErrorsOutside'
        BY <1>2, <1>4, <1>5, TouchedData DEF Safe, IInv, CacheInv, DInv, Data
    <2>2. io.buf \in Buf => Like(io.buf)
        BY <1>3, <1>5, InHandQueued DEF LikeBut, Safe, IInv
    <2>3. Transfer'
        BY <1>2, <2>2, TransferKept DEF Safe, DInv, Data
    <2> QED
        BY <2>1, <2>3 DEF Data
<1>7. OthersRest(p) /\ pc'[p] = "got" /\ bp'[p] = x /\ rbp[p] \in Buf \cup {NoBuf}
    BY <1>1, <1>2 DEF Goto, OthersRest, Rests, Safe, IInv, ProcType
<1>8. ScratchAt(p)'
    <2>1. rbp[p] # NoBuf => Like(rbp[p])
        BY <1>3, <1>5, <1>7 DEF Claims, LikeBut
    <2> QED
        BY <1>2, <1>4, <1>7, <2>1 DEF Safe, DInv, Scratch, ScratchAt, Like
<1>9. DInv' /\ OthersSee(p)
    BY <1>3, <1>5, <1>6, <1>7, <1>8, TouchStep
<1>10. Contents' = Contents
    BY <1>1, <1>2, <1>3, <1>4, <1>5, NoBlkNotGood, MovedContents DEF Safe, IInv, DInv
<1>11. UNCHANGED Store!vars
    BY <1>2, <1>7, <1>9, <1>10, ViewOf, StutterStep
<1> QED
    BY <1>9, <1>11 DEF Kept

\* A delayed write is started: the block is in the buffer, before and after.
LEMMA WriteBehindStep ==
    ASSUME Safe, OneBufferPerBlock', NEW p \in Proc, pc[p] # "hold",
           NEW x \in Buf, NEW av,
           "B_BUSY" \notin b_flags[x], "B_DELWRI" \in b_flags[x],
           Strategy(x, BwriteFlags(b_flags[x] \cup {"B_BUSY", "B_ASYNC"}), av,
                    b_data[x]),
           UNCHANGED <<b_data, disk, pc, bp, rbp>>
    PROVE  Kept
<1>1. PICK fl : fl = BwriteFlags(b_flags[x] \cup {"B_BUSY", "B_ASYNC"})
    OBVIOUS
<1>2. /\ fl \in SUBSET Flag /\ "B_DONE" \notin fl /\ "B_READ" \notin fl
      /\ "B_ERROR" \notin fl /\ "B_PHYS" \notin fl
      /\ "B_DONE" \in b_flags[x] /\ b_data[x] \in Val
    BY <1>1, HdrFacts
       DEF Safe, IInv, CacheInv, CacheType, QueueFit, FlagsSound, BwriteFlags, Flag
<1>3. ~OnList(x, actq) /\ \A q \in Proc : x \notin Claims(q)
    BY HdrFacts, FreeUnclaimed DEF Safe, IInv, CacheInv, QueueInv
<1>4. /\ Data' /\ LikeBut(x)
      /\ b_blk[x] \in Good =>
            /\ b_blk'[x] = b_blk[x] /\ "B_DONE" \notin b_flags'[x]
            /\ OnList(x, actq') /\ "B_READ" \notin b_flags'[x]
      /\ b_blk[x] \notin Good => b_blk'[x] \notin Good
    BY <1>1, <1>2, <1>3, StrategyData DEF Safe, IInv, DInv
<1>5. OthersRest(p)
    BY DEF OthersRest, Rests
<1>6. ScratchAt(p)'
    <2>1. Rests(p) /\ ScratchAt(p)
        BY DEF Rests, Safe, DInv, Scratch
    <2>2. /\ pc[p] \in {"got", "iowait", "hold"} => Like(bp[p])
          /\ rbp[p] # NoBuf => Like(rbp[p])
        BY <1>3, <1>4 DEF Claims, LikeBut, Safe, IInv, ProcInv, ProcAt, ProcType
    <2> QED
        BY <2>1, <2>2, RestsSees
<1>7. DInv' /\ OthersSee(p)
    BY <1>3, <1>4, <1>5, <1>6, TouchStep
<1>8. b_blk[x] \in Good => Here(x)' = Here(x)
    BY <1>2, <1>4 DEF Here, Newer
<1>9. Contents' = Contents
    BY <1>4, <1>8, SameContents DEF Safe
<1>10. UNCHANGED Store!vars
    BY <1>7, <1>9, ViewOf, StutterStep
<1> QED
    BY <1>7, <1>10 DEF Kept

\* getblk and bflush start delayed writes.
LEMMA FlushStep ==
    ASSUME Safe, OneBufferPerBlock', NEW p \in Proc, GetblkDelwri(p) \/ Bflush(p)
    PROVE  Kept
<1>1. CASE GetblkDelwri(p)
    <2>1. PICK x : x = avail[1]
        OBVIOUS
    <2>2. /\ avail # <<>> /\ "B_DELWRI" \in b_flags[x] /\ pc[p] = "getblk"
          /\ Strategy(x, BwriteFlags(b_flags[x] \cup {"B_BUSY", "B_ASYNC"}),
                      Tail(avail), b_data[x])
          /\ UNCHANGED <<b_data, disk, pc, bp, rbp>>
        BY <1>1, <2>1 DEF GetblkDelwri, procVars, NeedsBuffer, InGetblk
    <2>3. x \in Buf /\ "B_BUSY" \notin b_flags[x]
        BY <2>1, <2>2, OldestIsFree DEF Safe, IInv
    <2> QED
        BY <2>2, <2>3, WriteBehindStep
<1>2. CASE Bflush(p) /\ Dirty # {}
    <2>1. PICK i \in Dirty :
              /\ Strategy(avail[i],
                     BwriteFlags(b_flags[avail[i]] \cup {"B_BUSY", "B_ASYNC"}),
                     Unlink(avail, i), b_data[avail[i]])
              /\ UNCHANGED <<b_data, disk, pc, bp, rbp>>
        BY <1>2 DEF Bflush
    <2>2. PICK x : x = avail[i]
        OBVIOUS
    <2>3. x \in Buf /\ "B_BUSY" \notin b_flags[x] /\ "B_DELWRI" \in b_flags[x]
        <3>1. i \in DOMAIN avail /\ "B_DELWRI" \in b_flags[x]
            BY <2>2 DEF Dirty
        <3>2. x \in Buf /\ OnList(x, avail)
            BY <2>2, <3>1 DEF OnList, Safe, IInv, CacheInv, CacheType
        <3> QED
            BY <3>1, <3>2 DEF Safe, IInv, CacheInv, AvailIffNotBusy
    <2>4. pc[p] # "hold"
        BY <1>2 DEF Bflush
    <2> QED
        BY <2>1, <2>2, <2>3, <2>4, WriteBehindStep
<1>3. CASE Bflush(p) /\ Dirty = {}
    <2>1. /\ pc[p] = "bflush" /\ bp' = [bp EXCEPT ![p] = NoBuf]
          /\ \E l \in {"user", "back"} : Goto(p, l)
          /\ UNCHANGED <<cacheVars, b_data, disk, rbp>>
        BY <1>3 DEF Bflush, Return, Call
    <2>2. OthersRest(p) /\ pc'[p] \in {"user", "back"} /\ bp'[p] = NoBuf
        BY <2>1 DEF Goto, OthersRest, Rests, Safe, IInv, ProcType
    <2>3. ScratchAt(p)'
        BY <2>1, <2>2 DEF Safe, DInv, Scratch, ScratchAt, cacheVars
    <2> QED
        BY <2>1, <2>2, <2>3, MoveStep
<1> QED
    BY <1>1, <1>2, <1>3

\* p sends the buffer it has to the driver to be read: the block is on the
\* disk, before and after.
LEMMA OwnReadStep ==
    ASSUME Safe, OneBufferPerBlock', NEW p \in Proc, OthersRest(p), pc[p] = "got",
           NEW x, x = bp[p], "B_DONE" \notin b_flags[x],
           NEW fl \in SUBSET Flag, "B_READ" \in fl, "B_DONE" \notin fl,
           "B_PHYS" \notin fl, "B_ERROR" \in fl => "B_ERROR" \in b_flags[x],
           Strategy(x, fl, avail, b_data[x]), UNCHANGED <<b_data, disk>>
    PROVE  /\ Data' /\ LikeBut(x) /\ OthersSee(p) /\ Contents' = Contents
           /\ "B_ASYNC" \notin fl => b_blk'[x] = b_blk[x]
<1>1. /\ x \in Buf /\ ~OnList(x, actq) /\ b_data[x] \in Val
      /\ \A q \in Proc : q # p => x \notin Claims(q)
    BY ClaimFacts DEF Safe, IInv, ProcInv, ProcAt, CacheInv, CacheType
<1>2. "B_ERROR" \in fl => b_blk[x] \notin Good
    BY <1>1 DEF Safe, DInv, Data, ErrorsOutside
<1>3. /\ Data' /\ LikeBut(x)
      /\ b_blk[x] \in Good =>
            /\ b_blk'[x] = b_blk[x] /\ "B_DONE" \notin b_flags'[x]
            /\ "B_READ" \in b_flags'[x]
      /\ b_blk[x] \notin Good => b_blk'[x] \notin Good
      /\ "B_ASYNC" \notin fl => b_blk'[x] = b_blk[x]
    BY <1>1, <1>2, StrategyData DEF Safe, IInv, DInv
<1>4. OthersSee(p)
    BY <1>1, <1>3, OthersSeeSame DEF Safe, DInv
<1>5. b_blk[x] \in Good => Here(x)' = Here(x)
    BY <1>1, <1>3 DEF Here, Newer
<1>6. Contents' = Contents
    BY <1>1, <1>3, <1>5, SameContents DEF Safe
<1> QED
    BY <1>3, <1>4, <1>6

\* DInv' from its parts.
LEMMA DataStep ==
    ASSUME Data', NEW p \in Proc, OthersSee(p), ScratchAt(p)'
    PROVE  DInv'
BY DEF DInv, Scratch, OthersSee

\* p gives the buffer it has back as it is.
LEMMA OwnBrelseStep ==
    ASSUME Safe, OneBufferPerBlock', NEW p \in Proc, OthersRest(p),
           NEW x, x = bp[p], x # NoBuf, ~OnList(x, actq),
           Brelse(x, b_flags[x], avail), UNCHANGED <<b_data, disk, actq, io, rbp>>,
           bp'[p] = NoBuf, pc'[p] \in {"user", "back", "ahead"}
    PROVE  Kept
<1>1. /\ x \in Buf /\ x # rbp[p] /\ b_flags[x] \in SUBSET Flag
      /\ rbp[p] \in Buf \cup {NoBuf}
      /\ \A q \in Proc : q # p => x \notin Claims(q)
    BY ClaimFacts DEF Safe, IInv, ProcType
<1>2. "B_ERROR" \in b_flags[x] => b_blk[x] \notin Good
    BY <1>1 DEF Safe, DInv, Data, ErrorsOutside
<1>3. /\ Data' /\ LikeBut(x)
      /\ b_blk[x] \in Good => b_blk'[x] = b_blk[x]
      /\ b_blk[x] \notin Good => b_blk'[x] \notin Good
      /\ "B_DONE" \in b_flags'[x] <=> "B_DONE" \in b_flags[x]
    BY <1>1, <1>2, BrelseData DEF Safe, IInv, DInv
<1>4. OthersSee(p)
    BY <1>1, <1>3, OthersSeeSame DEF Safe, DInv
<1>5. b_blk[x] \in Good => Here(x)' = Here(x)
    BY <1>3 DEF Here, Newer
<1>6. Contents' = Contents
    BY <1>1, <1>3, <1>5, SameContents DEF Safe
<1>7. ScratchAt(p)'
    <2>1. rbp[p] # NoBuf => Like(rbp[p])
        BY <1>1, <1>3 DEF LikeBut
    <2> QED
        BY <2>1 DEF Safe, DInv, Scratch, ScratchAt, Like
<1>8. DInv'
    BY <1>3, <1>4, <1>7, DataStep
<1>9. [Store!Next]_(Store!vars)
    BY <1>4, <1>6, GiveStep
<1> QED
    BY <1>8, <1>9 DEF Kept

\* bread has its buffer, with the contents or to be read.
LEMMA GotBreadStep ==
    ASSUME Safe, OneBufferPerBlock', NEW p \in Proc, GotBread(p)
    PROVE  Kept
<1>1. PICK x : x = bp[p]
    OBVIOUS
<1>2. /\ pc[p] = "got" /\ op[p] = "bread" /\ UNCHANGED <<b_data, disk, bp, rbp>>
    BY DEF GotBread, Got
<1>3. CASE UNCHANGED cacheVars /\ Hold(p)
    BY <1>2, <1>3, HoldStep
<1>4. CASE /\ "B_DONE" \notin b_flags[x]
           /\ Strategy(x, b_flags[x] \cup {"B_READ"}, avail, b_data[x])
           /\ Call(p, "iowait", "bread", NoBlk, NoBlk)
    <2>1. pc'[p] = "iowait" /\ OthersRest(p)
        BY <1>2, <1>4 DEF Call, Goto, OthersRest, Rests, Safe, IInv, ProcType
    <2>2. /\ x # NoBuf /\ b_blk[x] # NoBlk
          /\ rbp[p] \in Buf \cup {NoBuf}
        BY <1>1, <1>2 DEF Safe, IInv, ProcInv, ProcAt, Reads, ProcType
    <2>3. x # rbp[p] /\ b_flags[x] \in SUBSET Flag /\ "B_PHYS" \notin b_flags[x]
          /\ "B_ASYNC" \notin b_flags[x]
        BY <1>1, <2>2, ClaimFacts DEF Safe
    <2>4. PICK fl \in SUBSET Flag : fl = b_flags[x] \cup {"B_READ"}
        BY <2>3 DEF Flag
    <2>5. /\ Data' /\ LikeBut(x) /\ OthersSee(p) /\ Contents' = Contents
          /\ b_blk'[x] = b_blk[x]
        BY <1>1, <1>2, <1>4, <2>1, <2>3, <2>4, OwnReadStep
    <2>6. rbp[p] # NoBuf => Like(rbp[p])
        BY <2>2, <2>3, <2>5 DEF LikeBut
    <2>7. ScratchAt(p)'
        BY <1>1, <1>2, <2>1, <2>2, <2>5, <2>6
           DEF Safe, DInv, Scratch, ScratchAt, Like
    <2>8. DInv'
        BY <2>5, <2>7, DataStep
    <2>9. UNCHANGED Store!vars
        BY <1>2, <2>1, <2>5, ViewOf, StutterStep
    <2> QED
        BY <2>8, <2>9 DEF Kept
<1> QED
    BY <1>1, <1>3, <1>4 DEF GotBread

\* breada has its first buffer.
LEMMA GotBreadaStep ==
    ASSUME Safe, OneBufferPerBlock', NEW p \in Proc, GotBreada(p)
    PROVE  Kept
<1>1. PICK x : x = bp[p]
    OBVIOUS
<1>2. /\ pc[p] = "got" /\ op[p] = "breada" /\ UNCHANGED <<b_data, disk>>
      /\ rbp' = [rbp EXCEPT ![p] = x] /\ bp' = [bp EXCEPT ![p] = NoBuf]
      /\ Goto(p, "ahead")
    BY <1>1 DEF GotBreada, Got
<1>3. /\ pc'[p] = "ahead" /\ rbp'[p] = x /\ bp'[p] = NoBuf /\ OthersRest(p)
    BY <1>2 DEF Goto, OthersRest, Rests, Safe, IInv, ProcType
<1>4. x # NoBuf /\ b_blk[x] # NoBlk
    BY <1>1, <1>2 DEF Safe, IInv, ProcInv, ProcAt, Reads
<1>5. CASE UNCHANGED cacheVars
    <2>1. ScratchAt(p)'
        BY <1>3, <1>4, <1>5 DEF ScratchAt, cacheVars
    <2> QED
        BY <1>2, <1>3, <1>5, <2>1, MoveStep
<1>6. CASE /\ "B_DONE" \notin b_flags[x]
           /\ Strategy(x, b_flags[x] \cup {"B_READ"}, avail, b_data[x])
    <2>1. b_flags[x] \in SUBSET Flag /\ "B_PHYS" \notin b_flags[x]
          /\ "B_ASYNC" \notin b_flags[x]
        BY <1>1, <1>4, ClaimFacts DEF Safe
    <2>2. PICK fl \in SUBSET Flag : fl = b_flags[x] \cup {"B_READ"}
        BY <2>1 DEF Flag
    <2>3. /\ Data' /\ OthersSee(p) /\ Contents' = Contents
          /\ b_blk'[x] = b_blk[x]
        BY <1>1, <1>2, <1>3, <1>6, <2>1, <2>2, OwnReadStep
    <2>4. ScratchAt(p)'
        BY <1>3, <1>4, <2>3 DEF ScratchAt
    <2>5. DInv'
        BY <2>3, <2>4, DataStep
    <2>6. UNCHANGED Store!vars
        BY <1>2, <1>3, <2>3, ViewOf, StutterStep
    <2> QED
        BY <2>5, <2>6 DEF Kept
<1> QED
    BY <1>1, <1>5, <1>6 DEF GotBreada

\* breada has the buffer to read ahead into.
LEMMA GotAheadStep ==
    ASSUME Safe, OneBufferPerBlock', NEW p \in Proc, GotAhead(p)
    PROVE  Kept
<1>1. PICK x : x = bp[p]
    OBVIOUS
<1>2. /\ pc[p] = "got" /\ UNCHANGED <<b_data, disk, rbp>>
      /\ bp' = [bp EXCEPT ![p] = NoBuf] /\ Goto(p, "ahead")
    BY DEF GotAhead, Got, Call
<1>3. /\ pc'[p] = "ahead" /\ bp'[p] = NoBuf /\ OthersRest(p)
      /\ rbp[p] \in Buf \cup {NoBuf}
    BY <1>2 DEF Goto, OthersRest, Rests, Safe, IInv, ProcType
<1>4. x # NoBuf /\ ~OnList(x, actq)
    BY <1>1, <1>2 DEF Safe, IInv, ProcInv, ProcAt
<1>5. CASE Brelse(x, b_flags[x], avail) /\ UNCHANGED <<actq, io>>
    BY <1>1, <1>2, <1>3, <1>4, <1>5, OwnBrelseStep
<1>6. CASE /\ "B_DONE" \notin b_flags[x]
           /\ Strategy(x, b_flags[x] \cup {"B_READ", "B_ASYNC"}, avail, b_data[x])
    <2>1. /\ b_flags[x] \in SUBSET Flag /\ "B_PHYS" \notin b_flags[x]
          /\ x # rbp[p]
        BY <1>1, <1>4, ClaimFacts DEF Safe
    <2>2. PICK fl \in SUBSET Flag : fl = b_flags[x] \cup {"B_READ", "B_ASYNC"}
        BY <2>1 DEF Flag
    <2>3. Data' /\ LikeBut(x) /\ OthersSee(p) /\ Contents' = Contents
        BY <1>1, <1>2, <1>3, <1>6, <2>1, <2>2, OwnReadStep
    <2>4. rbp[p] # NoBuf => Like(rbp[p])
        BY <1>3, <2>1, <2>3 DEF LikeBut
    <2>5. ScratchAt(p)'
        BY <1>2, <1>3, <2>4 DEF Safe, DInv, Scratch, ScratchAt, Like
    <2>6. DInv'
        BY <2>3, <2>5, DataStep
    <2>7. UNCHANGED Store!vars
        BY <1>2, <1>3, <2>3, ViewOf, StutterStep
    <2> QED
        BY <2>6, <2>7 DEF Kept
<1> QED
    BY <1>1, <1>5, <1>6 DEF GotAhead

\* iowait sleeps, gives the buffer to the reader, or releases it for bwrite.
LEMMA IowaitStep ==
    ASSUME Safe, OneBufferPerBlock', NEW p \in Proc, Iowait(p)
    PROVE  Kept
<1>1. PICK x : x = bp[p]
    OBVIOUS
<1>2. pc[p] = "iowait" /\ UNCHANGED <<b_data, disk, rbp>>
    BY DEF Iowait
<1>3. CASE UNCHANGED <<cacheVars, pc, bp>>
    <2>1. OthersRest(p)
        BY <1>2, <1>3 DEF OthersRest, Rests
    <2>2. ScratchAt(p)'
        BY <1>2, <1>3 DEF Safe, DInv, Scratch, ScratchAt, cacheVars
    <2> QED
        BY <1>2, <1>3, <2>1, <2>2, MoveStep
<1>4. CASE Hold(p) /\ UNCHANGED <<cacheVars, bp>>
    BY <1>2, <1>4, HoldStep
<1>5. CASE /\ "B_DONE" \in b_flags[x] /\ Brelse(x, b_flags[x], avail) /\ Return(p)
           /\ UNCHANGED <<actq, io>>
    <2>1. pc'[p] \in {"user", "back"} /\ bp'[p] = NoBuf /\ OthersRest(p)
        BY <1>2, <1>5 DEF Return, Call, Goto, OthersRest, Rests, Safe, IInv, ProcType
    <2>2. x # NoBuf
        BY <1>1, <1>2 DEF Safe, IInv, ProcInv, ProcAt
    <2>3. x \in Hdr
        BY <1>1, <2>2, ClaimFacts DEF Safe
    <2>4. ~OnList(x, actq)
        BY <1>5, <2>3 DEF Safe, IInv, CacheInv, QueueInv
    <2> QED
        BY <1>1, <1>2, <1>5, <2>1, <2>2, <2>4, OwnBrelseStep
<1> QED
    BY <1>1, <1>3, <1>4, <1>5 DEF Iowait

\* brelse by a caller.
LEMMA ReleaseStep ==
    ASSUME Safe, OneBufferPerBlock', NEW p \in Proc, Release(p)
    PROVE  Kept
<1>1. PICK x : x = bp[p]
    OBVIOUS
<1>2. /\ pc[p] = "hold" /\ Brelse(x, b_flags[x], avail) /\ Return(p)
      /\ UNCHANGED <<b_data, disk, actq, io, rbp>>
    BY <1>1 DEF Release, Holds
<1>3. pc'[p] \in {"user", "back"} /\ bp'[p] = NoBuf /\ OthersRest(p)
    BY <1>2 DEF Return, Call, Goto, OthersRest, Rests, Safe, IInv, ProcType
<1>4. x # NoBuf /\ ~OnList(x, actq)
    BY <1>1, <1>2 DEF Safe, IInv, ProcInv, ProcAt
<1> QED
    BY <1>1, <1>2, <1>3, <1>4, OwnBrelseStep

\* What p writes into its buffer x, which its block shows from now on.
LEMMA OwnWriteStep ==
    ASSUME Safe, OneBufferPerBlock', NEW p \in Proc, OthersRest(p), pc[p] = "hold",
           NEW x \in Buf, x = bp[p], NEW v \in Val, b_data'[x] = v, disk' = disk,
           Data', LikeBut(x), ScratchAt(p)', pc'[p] # "hold",
           b_blk[x] \in Good => b_blk'[x] = b_blk[x] /\ Newer(x)',
           b_blk[x] \notin Good => b_blk'[x] \notin Good
    PROVE  Kept
<1>1. \A q \in Proc : q # p => x \notin Claims(q)
    BY ClaimFacts, HdrFacts DEF Safe
<1>2. DInv' /\ OthersSee(p)
    BY <1>1, TouchStep
<1>3. CASE b_blk[x] \in Good
    <2>1. Here(x)' = v
        BY <1>3 DEF Here
    <2>2. Contents' = [Contents EXCEPT ![b_blk[bp[p]]] = v]
        BY <1>3, <2>1, PutContents DEF Safe
    <2>3. [Store!Next]_(Store!vars)
        BY <1>2, <1>3, <2>2, WriteStep
    <2> QED
        BY <1>2, <2>3 DEF Kept
<1>4. CASE b_blk[x] \notin Good
    <2>1. Contents' = Contents
        BY <1>4, SameContents DEF Safe
    <2>2. [Store!Next]_(Store!vars)
        BY <1>2, <2>1, GiveStep
    <2> QED
        BY <1>2, <2>2 DEF Kept
<1> QED
    BY <1>3, <1>4

\* bwrite and bawrite by a caller.
LEMMA BwriteStep ==
    ASSUME Safe, OneBufferPerBlock', NEW p \in Proc, NEW v \in Val,
           Bwrite(p, v) \/ Bawrite(p, v)
    PROVE  Kept
<1>1. PICK x : x = bp[p]
    OBVIOUS
<1>2. /\ Writes(p, v) /\ pc[p] = "hold" /\ disk' = disk /\ rbp' = rbp
      /\ b_data' = [b_data EXCEPT ![x] = v] /\ b_blk[x] # NoBlk
    BY <1>1 DEF Bwrite, Bawrite, Writes, Holds
<1>3. /\ x \in Buf /\ x # NoBuf /\ ~OnList(x, actq) /\ b_flags[x] \in SUBSET Flag
      /\ "B_PHYS" \notin b_flags[x] /\ "B_ASYNC" \notin b_flags[x]
    BY <1>1, <1>2, WritesFacts DEF Safe
<1>4. b_data'[x] = v /\ \A y \in Buf : y # x => b_data'[y] = b_data[y]
    BY <1>2, <1>3 DEF Safe, IInv, CacheInv, CacheType
<1>5. PICK fl \in SUBSET Flag :
          /\ Strategy(x, fl, avail, v)
          /\ "B_DONE" \notin fl /\ "B_PHYS" \notin fl /\ "B_READ" \notin fl
          /\ "B_ERROR" \notin fl
          /\ \/ "B_ASYNC" \notin fl /\ Goto(p, "iowait") /\ bp' = bp
             \/ /\ bp' = [bp EXCEPT ![p] = NoBuf]
                /\ \E l \in {"user", "back"} : Goto(p, l)
    <2>1. CASE Bwrite(p, v)
        <3>1. /\ Strategy(x, BwriteFlags(b_flags[x]), avail, v)
              /\ Goto(p, "iowait") /\ bp' = bp
            BY <1>1, <2>1 DEF Bwrite, Call
        <3>2. /\ BwriteFlags(b_flags[x]) \in SUBSET Flag
              /\ "B_PHYS" \notin BwriteFlags(b_flags[x])
              /\ "B_ASYNC" \notin BwriteFlags(b_flags[x])
              /\ {"B_DONE", "B_READ", "B_ERROR"} \cap BwriteFlags(b_flags[x]) = {}
            BY <1>3 DEF BwriteFlags
        <3> QED
            BY <3>1, <3>2
    <2>2. CASE Bawrite(p, v)
        <3>1. PICK fl : fl = BwriteFlags(b_flags[x] \cup {"B_ASYNC"})
            OBVIOUS
        <3>2. /\ Strategy(x, fl, avail, v)
              /\ bp' = [bp EXCEPT ![p] = NoBuf]
              /\ \E l \in {"user", "back"} : Goto(p, l)
            BY <1>1, <2>2, <3>1 DEF Bawrite, Return, Call
        <3>3. /\ fl \in SUBSET Flag /\ "B_PHYS" \notin fl
              /\ {"B_DONE", "B_READ", "B_ERROR"} \cap fl = {}
            BY <1>3, <3>1 DEF BwriteFlags, Flag
        <3> QED
            BY <3>2, <3>3
    <2> QED
        BY <2>1, <2>2
<1>6. /\ Data' /\ LikeBut(x)
      /\ b_blk[x] \in Good =>
            /\ b_blk'[x] = b_blk[x] /\ OnList(x, actq') /\ "B_READ" \notin b_flags'[x]
      /\ b_blk[x] \notin Good => b_blk'[x] \notin Good
      /\ "B_ASYNC" \notin fl => b_blk'[x] = b_blk[x]
    BY <1>2, <1>3, <1>4, <1>5, StrategyData DEF Safe, IInv, DInv
<1>7. OthersRest(p) /\ x # rbp[p] /\ rbp[p] \in Buf \cup {NoBuf}
    <2>1. \A q \in Proc : q # p => pc'[q] = pc[q] /\ bp'[q] = bp[q]
        BY <1>5 DEF Goto, Safe, IInv, ProcType
    <2>2. OthersRest(p)
        BY <1>2, <2>1 DEF OthersRest, Rests
    <2> QED
        BY <1>1, <1>3, <2>2, ClaimFacts DEF Safe, IInv, ProcType
<1>8. pc'[p] # "hold" /\ ScratchAt(p)'
    <2>1. rbp'[p] # NoBuf /\ b_blk'[rbp'[p]] = NoBlk => "B_DONE" \notin b_flags'[rbp'[p]]
        BY <1>2, <1>6, <1>7 DEF LikeBut, Like, Safe, DInv, Scratch, ScratchAt
    <2>2. CASE "B_ASYNC" \notin fl /\ Goto(p, "iowait") /\ bp' = bp
        <3>1. pc'[p] = "iowait" /\ bp'[p] = x
            BY <1>1, <2>2 DEF Goto, Safe, IInv, ProcType
        <3>2. b_blk'[x] # NoBlk
            BY <1>2, <1>6, <2>2
        <3> QED
            BY <2>1, <3>1, <3>2 DEF ScratchAt
    <2>3. CASE \E l \in {"user", "back"} : Goto(p, l)
        <3>1. pc'[p] \in {"user", "back"}
            BY <2>3 DEF Goto, Safe, IInv, ProcType
        <3> QED
            BY <2>1, <3>1 DEF ScratchAt
    <2> QED
        BY <1>5, <2>2, <2>3
<1>9. b_blk[x] \in Good => b_blk'[x] = b_blk[x] /\ Newer(x)'
    BY <1>6 DEF Newer
<1> QED
    BY <1>1, <1>2, <1>3, <1>4, <1>6, <1>7, <1>8, <1>9, OwnWriteStep

\* bdwrite by a caller.
LEMMA BdwriteStep ==
    ASSUME Safe, OneBufferPerBlock', NEW p \in Proc, NEW v \in Val, Bdwrite(p, v)
    PROVE  Kept
<1>1. PICK x : x = bp[p]
    OBVIOUS
<1>2. /\ Writes(p, v) /\ pc[p] = "hold" /\ UNCHANGED <<actq, io, disk, rbp>>
      /\ b_data' = [b_data EXCEPT ![x] = v]
      /\ Brelse(x, b_flags[x] \cup {"B_DELWRI", "B_DONE"}, avail)
      /\ bp' = [bp EXCEPT ![p] = NoBuf] /\ \E l \in {"user", "back"} : Goto(p, l)
    BY <1>1 DEF Bdwrite, Writes, Holds, Return, Call
<1>3. /\ x \in Buf /\ x # NoBuf /\ ~OnList(x, actq) /\ b_flags[x] \in SUBSET Flag
      /\ "B_ERROR" \notin b_flags[x]
    BY <1>1, <1>2, WritesFacts DEF Safe
<1>4. b_data'[x] = v /\ \A y \in Buf : y # x => b_data'[y] = b_data[y]
    BY <1>2, <1>3 DEF Safe, IInv, CacheInv, CacheType
<1>5. PICK fl \in SUBSET Flag : fl = b_flags[x] \cup {"B_DELWRI", "B_DONE"}
    BY <1>3 DEF Flag
<1>6. /\ Data' /\ LikeBut(x)
      /\ b_blk[x] \in Good => b_blk'[x] = b_blk[x]
      /\ b_blk[x] \notin Good => b_blk'[x] \notin Good
      /\ "B_DONE" \in b_flags'[x]
    <2>1. Brelse(x, fl, avail) /\ "B_DELWRI" \in fl /\ "B_DONE" \in fl /\ "B_ERROR" \notin fl
        BY <1>2, <1>3, <1>5
    <2> QED
        BY <1>2, <1>3, <1>4, <2>1, BrelseData DEF Safe, IInv, DInv
<1>7. /\ OthersRest(p) /\ x # rbp[p] /\ rbp[p] \in Buf \cup {NoBuf}
      /\ pc'[p] \in {"user", "back"}
    BY <1>1, <1>2, <1>3, ClaimFacts DEF Goto, OthersRest, Rests, Safe, IInv, ProcType
<1>8. ScratchAt(p)'
    BY <1>2, <1>6, <1>7 DEF LikeBut, Like, Safe, DInv, Scratch, ScratchAt
<1>9. Newer(x)'
    BY <1>6 DEF Newer
<1> QED
    BY <1>1, <1>2, <1>3, <1>4, <1>6, <1>7, <1>8, <1>9, OwnWriteStep

\* The swap buffer is of no block.
LEMMA SwapStep ==
    ASSUME Safe, OneBufferPerBlock', NEW p \in Proc, SwapStart(p) \/ SwapWait(p)
    PROVE  Kept
<1>1. /\ pc[p] \in {"swap", "swapio"} /\ UNCHANGED <<b_blk, b_data, disk, rbp>>
      /\ \A y \in Buf : b_flags'[y] = b_flags[y]
      /\ \E l \in {"swap", "swapio", "user", "back"} : pc' = [pc EXCEPT ![p] = l]
      /\ bp' = bp \/ bp' = [bp EXCEPT ![p] = NoBuf]
    <2>1. ~PastEnd(swbuf)
        BY HdrFacts DEF PastEnd
    <2>2. CASE SwapStart(p)
        <3>1. /\ pc[p] = "swap" /\ UNCHANGED <<b_blk, b_data, disk, rbp, bp>>
              /\ \E fl : b_flags' = [b_flags EXCEPT ![swbuf] = fl]
              /\ pc' = pc \/ pc' = [pc EXCEPT ![p] = "swapio"]
            BY <2>1, <2>2 DEF SwapStart, Strategy, Goto
        <3>2. \A y \in Buf : b_flags'[y] = b_flags[y]
            BY <3>1, HdrFacts DEF Safe, IInv, CacheInv, CacheType
        <3>3. pc = [pc EXCEPT ![p] = "swap"]
            BY <3>1 DEF Safe, IInv, ProcType
        <3> QED
            BY <3>1, <3>2, <3>3
    <2>3. CASE SwapWait(p)
        <3>1. /\ pc[p] = "swapio" /\ UNCHANGED <<b_blk, b_data, disk, rbp>>
              /\ \/ b_flags' = b_flags
                 \/ \E fl : b_flags' = [b_flags EXCEPT ![swbuf] = fl]
              /\ pc' = pc \/ \E l \in {"user", "back"} : pc' = [pc EXCEPT ![p] = l]
              /\ bp' = bp \/ bp' = [bp EXCEPT ![p] = NoBuf]
            BY <2>3 DEF SwapWait, Return, Call, Goto
        <3>2. \A y \in Buf : b_flags'[y] = b_flags[y]
            BY <3>1, HdrFacts DEF Safe, IInv, CacheInv, CacheType
        <3>3. pc = [pc EXCEPT ![p] = "swapio"]
            BY <3>1 DEF Safe, IInv, ProcType
        <3> QED
            BY <3>1, <3>2, <3>3
    <2> QED
        BY <2>2, <2>3
<1>2. \/ UNCHANGED <<actq, io>>
      \/ /\ actq' = Append(actq, swbuf) /\ ~OnList(swbuf, actq)
         /\ io' = io \/ (io = NoIO /\ io'.buf = swbuf)
    <2>1. ~PastEnd(swbuf)
        BY HdrFacts DEF PastEnd
    <2>2. "B_BUSY" \notin b_flags[swbuf] => ~OnList(swbuf, actq)
        BY HdrFacts DEF Safe, IInv, CacheInv, QueueInv
    <2> QED
        BY <2>1, <2>2 DEF SwapStart, SwapWait, Strategy, Devstart
<1>3. \A y \in Buf : OnList(y, actq') <=> OnList(y, actq)
    <2>1. CASE actq' = Append(actq, swbuf) /\ ~OnList(swbuf, actq)
        <3>1. actq \in Seq(Hdr) /\ NoTwice(actq) /\ swbuf \in Hdr
            BY HdrFacts DEF Safe, IInv, CacheInv, CacheType, QueueInv
        <3>2. \A y : OnList(y, actq') <=> (OnList(y, actq) \/ y = swbuf)
            BY <2>1, <3>1, AppendList
        <3> QED
            BY <3>2, HdrFacts
    <2> QED
        BY <1>2, <2>1
<1>4. LikeBut(NoBuf)
    BY <1>1, <1>3 DEF LikeBut, Like
<1>5. Transfer'
    BY <1>1, <1>2, HdrFacts DEF Safe, DInv, Data, Transfer
<1>6. OthersRest(p) /\ pc'[p] \in {"swap", "swapio", "user", "back"}
    <2>1. \A q \in Proc : q # p => pc'[q] = pc[q] /\ bp'[q] = bp[q]
        BY <1>1 DEF Safe, IInv, ProcType
    <2>2. pc'[p] \in {"swap", "swapio", "user", "back"}
        BY <1>1 DEF Safe, IInv, ProcType
    <2> QED
        BY <1>1, <2>1, <2>2 DEF OthersRest, Rests
<1>7. ScratchAt(p)'
    <2>1. rbp[p] # NoBuf => Like(rbp[p])
        BY <1>4, HdrFacts DEF LikeBut, Safe, IInv, ProcType
    <2> QED
        BY <1>1, <1>6, <2>1 DEF Safe, DInv, Scratch, ScratchAt, Like
<1>8. DInv' /\ OthersSee(p) /\ Contents' = Contents
    BY <1>1, <1>4, <1>5, <1>6, <1>7, QuietStep
<1>9. UNCHANGED Store!vars
    BY <1>1, <1>6, <1>8, ViewOf, StutterStep
<1> QED
    BY <1>8, <1>9 DEF Kept

\* The request that rkstart gives to the controller.
LEMMA RkstartTransfer ==
    ASSUME CacheInv, actq # <<>>, NEW x, x = actq[1],
           io' = Rkstart(Tail(actq)),
           \A y \in Buf : y # x => b_flags'[y] = b_flags[y] /\ b_data'[y] = b_data[y]
    PROVE  Transfer'
<1>1. PICK q : q = Tail(actq)
    OBVIOUS
<1>2. q \in Seq(Hdr) /\ NoTwice(q) /\ \A y : OnList(y, q) => y # x
    BY <1>1, TailList DEF CacheInv, CacheType, QueueInv
<1>3. CASE q = <<>>
    <2>1. io'.buf = NoBuf
        BY <1>1, <1>3 DEF Rkstart, NoIO
    <2> QED
        BY <2>1, HdrFacts DEF Transfer
<1>4. CASE q # <<>>
    <2>1. PICK y : y = q[1]
        OBVIOUS
    <2>2. y # x
        BY <1>2, <1>4, <2>1, TailList
    <2>3. io' = Devstart(y, b_flags[y], b_data[y])
        BY <1>1, <1>4, <2>1 DEF Rkstart
    <2>4. /\ io'.buf = y /\ io'.read = ("B_READ" \in b_flags[y])
          /\ "B_READ" \notin b_flags[y] /\ "B_PHYS" \notin b_flags[y] => io'.val = b_data[y]
        BY <2>3 DEF Devstart
    <2>5. y \in Buf => "B_PHYS" \notin b_flags[y]
        BY DEF CacheInv, QueueFit
    <2> QED
        BY <2>2, <2>4, <2>5 DEF Transfer
<1> QED
    BY <1>3, <1>4

\* iodone of the first request: what a queued buffer becomes.
LEMMA IodoneData ==
    ASSUME CacheInv, ErrorsOutside, NEW x \in Buf, OnList(x, actq),
           Iodone(x, b_flags[x], avail)
    PROVE  /\ b_blk[x] \in Good /\ b_blk' = b_blk
           /\ "B_DONE" \notin b_flags[x]
           /\ "B_DONE" \in b_flags'[x] /\ "B_DELWRI" \notin b_flags'[x]
           /\ "B_ERROR" \notin b_flags'[x]
           /\ \A y \in Buf : y # x => b_flags'[y] = b_flags[y]
<1>1. x \in Hdr /\ b_flags \in [Hdr -> SUBSET Flag]
    BY HdrFacts DEF CacheInv, CacheType
<1>2. b_blk[x] \in Good /\ "B_DONE" \notin b_flags[x]
    BY <1>1 DEF CacheInv, QueueFit, QueueInv, Good
<1>3. "B_ERROR" \notin b_flags[x] /\ "B_DELWRI" \notin b_flags[x]
    BY <1>2 DEF ErrorsOutside, CacheInv, FlagsSound
<1>4. PICK fl : /\ b_flags' = [b_flags EXCEPT ![x] = fl] /\ b_blk' = b_blk
                /\ "B_DONE" \in fl /\ "B_DELWRI" \notin fl /\ "B_ERROR" \notin fl
    <2>1. CASE "B_ASYNC" \in b_flags[x]
        BY <1>3, <2>1 DEF Iodone, Brelse
    <2>2. CASE "B_ASYNC" \notin b_flags[x]
        BY <1>3, <2>2 DEF Iodone
    <2> QED
        BY <2>1, <2>2
<1>5. b_flags'[x] = fl /\ \A y \in Buf : y # x => b_flags'[y] = b_flags[y]
    BY <1>1, <1>4, HdrFacts
<1> QED
    BY <1>2, <1>4, <1>5

\* The transfer is done: the buffer, which now agrees with the disk, shows
\* what its block showed before.
LEMMA IdeDoneStep ==
    ASSUME Safe, OneBufferPerBlock', IdeDone
    PROVE  Kept
<1> USE DEF Safe
<1>1. PICK x : x = actq[1]
    OBVIOUS
<1>2. /\ actq # <<>> /\ io.buf = x
    <2>1. io # NoIO
        BY DEF IdeDone, NoIO
    <2> QED
        BY <1>1, <2>1 DEF IInv, CacheInv, QueueInv
<1>3. /\ actq' = Tail(actq) /\ io' = Rkstart(Tail(actq))
      /\ Iodone(x, b_flags[x], avail)
      /\ UNCHANGED <<pc, bp, rbp>>
      /\ b_data' = IF io.read /\ x \in Buf
                   THEN [b_data EXCEPT ![x] = disk[b_blk[x]]] ELSE b_data
      /\ disk' = IF ~io.read /\ x \in Buf
                 THEN [disk EXCEPT ![b_blk[x]] = io.val] ELSE disk
    BY <1>1, <1>2 DEF IdeDone, procVars
<1>4. /\ x \in Hdr /\ OnList(x, actq)
      /\ \A y : OnList(y, actq') <=> (OnList(y, actq) /\ y # x)
    BY <1>1, <1>2, <1>3, TailList DEF IInv, CacheInv, CacheType, QueueInv
<1>5. CASE x \in Buf
    <2>1. /\ b_blk[x] \in Good /\ b_blk' = b_blk
          /\ "B_DONE" \notin b_flags[x]
          /\ "B_DONE" \in b_flags'[x] /\ "B_DELWRI" \notin b_flags'[x]
          /\ "B_ERROR" \notin b_flags'[x]
          /\ \A y \in Buf : y # x => b_flags'[y] = b_flags[y]
        BY <1>3, <1>4, <1>5, IodoneData DEF IInv, DInv, Data
    <2>2. /\ io.read <=> "B_READ" \in b_flags[x]
          /\ ~io.read => io.val = b_data[x]
        BY <1>2, <1>5 DEF DInv, Data, Transfer
    <2>3. /\ b_data'[x] = IF io.read THEN disk[b_blk[x]] ELSE b_data[x]
          /\ \A y \in Buf : y # x => b_data'[y] = b_data[y]
        BY <1>3, <1>5 DEF IInv, CacheInv, CacheType
    <2>4. /\ disk'[b_blk[x]] = IF io.read THEN disk[b_blk[x]] ELSE io.val
          /\ \A b \in Good : b # b_blk[x] => disk'[b] = disk[b]
        BY <1>3, <1>5, <2>1 DEF IInv, CacheInv, CacheType, Good
    <2>5. LikeBut(x)
        BY <1>4, <2>1, <2>3 DEF LikeBut, Like
    <2>6. CleanMatchesDisk' /\ ErrorsOutside'
        <3>1. b_data'[x] = disk'[b_blk'[x]]
            BY <2>1, <2>2, <2>3, <2>4
        <3>2. \A y \in Buf : y # x /\ b_blk[y] \in Good => disk'[b_blk[y]] = disk[b_blk[y]]
            BY <1>5, <2>4, NoBlkNotGood DEF OneBufferPerBlock
        <3> QED
            BY <2>1, <2>5, <3>1, <3>2, TouchedData DEF IInv, CacheInv, DInv, Data
    <2>7. Transfer'
        BY <1>1, <1>2, <1>3, <2>1, <2>3, RkstartTransfer DEF IInv
    <2>8. Here(x)' = Here(x)
        BY <1>4, <2>1, <2>2, <2>3 DEF Here, Newer
    <2>9. Contents' = Contents
        BY <1>5, <2>1, <2>4, <2>5, <2>8, SameContents
    <2>10. ASSUME NEW q \in Proc PROVE ScratchAt(q)' /\ View'[q] = View[q]
        <3>1. /\ pc[q] \in {"got", "hold"} => bp[q] \in Buf /\ bp[q] # x
            BY <1>4 DEF IInv, ProcInv, ProcAt, ProcType
        <3>2. pc[q] \in {"got", "hold"} => Like(bp[q])
            BY <2>5, <3>1 DEF LikeBut
        <3>3. /\ rbp[q] # NoBuf /\ rbp[q] # x => Like(rbp[q])
              /\ b_blk[x] # NoBlk
            BY <2>1, <2>5, NoBlkNotGood DEF LikeBut, IInv, ProcType
        <3>4. ScratchAt(q)'
            BY <1>3, <2>1, <3>2, <3>3 DEF DInv, Scratch, ScratchAt, Like
        <3>5. CASE pc[q] = "hold"
            <4>1. Shows(bp[q])' = Shows(bp[q]) /\ b_blk'[bp'[q]] = b_blk[bp[q]]
                BY <1>3, <3>2, <3>5 DEF Like, Shows
            <4> QED
                BY <1>3, <3>4, <3>5, <4>1, ViewOf
        <3>6. CASE pc[q] # "hold"
            BY <1>3, <3>4, <3>6, ViewOf
        <3> QED
            BY <3>5, <3>6
    <2>11. View' = View
        <3>1. View' = [q \in Proc |-> View'[q]] /\ View = [q \in Proc |-> View[q]]
            BY DEF View
        <3> QED
            BY <2>10, <3>1
    <2>12. DInv'
        BY <2>6, <2>7, <2>10 DEF DInv, Data, Scratch
    <2> QED
        BY <2>9, <2>11, <2>12 DEF Kept, Store!vars
<1>6. CASE x \notin Buf
    <2>1. /\ x = swbuf /\ UNCHANGED <<b_data, disk>>
          /\ "B_ASYNC" \notin b_flags[swbuf]
        BY <1>3, <1>4, <1>6 DEF Hdr, IInv, CacheInv, QueueFit
    <2>2. \A y \in Buf : b_flags'[y] = b_flags[y]
        BY <1>3, <2>1, HdrFacts DEF Iodone, IInv, CacheInv, CacheType
    <2>3. b_blk' = b_blk
        BY <1>3, <2>1 DEF Iodone
    <2>4. LikeBut(NoBuf)
        BY <1>4, <1>6, <2>1, <2>2, <2>3 DEF LikeBut, Like
    <2>5. Transfer'
        BY <1>1, <1>2, <1>3, <2>1, <2>2, RkstartTransfer DEF IInv
    <2>6. CleanMatchesDisk' /\ ErrorsOutside'
        BY <2>1, <2>4, HdrFacts, TouchedData DEF IInv, CacheInv, DInv, Data
    <2>7. Contents' = Contents
        BY <2>1, <2>4, HdrFacts, SameContents
    <2>8. ASSUME NEW q \in Proc PROVE ScratchAt(q)' /\ View'[q] = View[q]
        <3>1. Rests(q) /\ ScratchAt(q)
            BY <1>3 DEF Rests, DInv, Scratch
        <3>2. /\ pc[q] \in {"got", "iowait", "hold"} => Like(bp[q])
              /\ rbp[q] # NoBuf => Like(rbp[q])
            BY <2>4, HdrFacts DEF LikeBut, IInv, ProcInv, ProcAt, ProcType
        <3> QED
            BY <3>1, <3>2, RestsSees
    <2>9. View' = View
        <3>1. View' = [q \in Proc |-> View'[q]] /\ View = [q \in Proc |-> View[q]]
            BY DEF View
        <3> QED
            BY <2>8, <3>1
    <2>10. DInv'
        BY <2>5, <2>6, <2>8 DEF DInv, Data, Scratch
    <2> QED
        BY <2>7, <2>9, <2>10 DEF Kept, Store!vars
<1> QED
    BY <1>5, <1>6

\* The rest of a state that a step leaves alone, up to the sectors left.
LEMMA SameStep ==
    ASSUME Safe, UNCHANGED <<b_flags, b_blk, b_data, actq, disk, pc, bp, rbp>>,
           io'.buf = io.buf, io'.read = io.read, io'.val = io.val
    PROVE  Kept
<1>1. DInv'
    BY DEF Safe, DInv, Data, CleanMatchesDisk, Transfer, ErrorsOutside, Scratch, ScratchAt
<1>2. View' = View
    BY DEF View
<1>3. Contents' = Contents
    BY DEF Contents, Newer, OnList
<1> QED
    BY <1>1, <1>2, <1>3 DEF Kept, Store!vars

\* Every step of the cache keeps DInv and is a step of the block store.
LEMMA NextStore ==
    ASSUME Safe, OneBufferPerBlock', [Next]_vars
    PROVE  Kept
<1>1. CASE UNCHANGED vars
    BY <1>1, SameStep DEF vars
<1>2. CASE IdeNextSector
    <2>1. /\ UNCHANGED <<b_flags, b_blk, b_data, actq, disk, pc, bp, rbp>>
          /\ io' = [io EXCEPT !.left = io.left - 1]
        BY <1>2 DEF IdeNextSector, procVars
    <2>2. io'.buf = io.buf /\ io'.read = io.read /\ io'.val = io.val
        <3>1. io \in [buf : Hdr \cup {NoBuf}, left : Nat, read : BOOLEAN,
                      val : Val \cup {Unread}]
            BY DEF Safe, IInv, CacheInv, CacheType
        <3> QED
            BY <2>1, <3>1, Zenon
    <2> QED
        BY <2>1, <2>2, SameStep
<1>3. CASE IdeDone
    BY <1>3, IdeDoneStep
<1>4. ASSUME NEW p \in Proc, Begin(p) PROVE Kept
    BY <1>4, LookStep
<1>5. ASSUME NEW p \in Proc, Getblk(p) PROVE Kept
    BY <1>5, GetblkWaitStep, GetblkHitStep, GetblkReassignStep, FlushStep DEF Getblk
<1>6. ASSUME NEW p \in Proc, Continue(p) PROVE Kept
    BY <1>5, <1>6, LookStep, BackStep, GotBreadStep, GotBreadaStep, GotAheadStep, IowaitStep,
       FlushStep, SwapStep DEF Continue
<1>7. ASSUME NEW p \in Proc, End(p) PROVE Kept
    BY <1>7, ReleaseStep, BwriteStep, BdwriteStep DEF End
<1> QED
    BY <1>1, <1>2, <1>3, <1>4, <1>6, <1>7 DEF Next, IdeIntr

\* After binit no buffer has a block and nobody has a buffer.
LEMMA InitStore == Init => DInv /\ Store!Init
<1> SUFFICES ASSUME Init PROVE DInv /\ Store!Init
    OBVIOUS
<1>1. \A x \in Buf : b_flags[x] = {} /\ b_blk[x] = NoBlk
    BY HdrFacts DEF Init
<1>2. io.buf = NoBuf
    BY DEF Init, NoIO
<1>3. Data
    BY <1>1, <1>2, HdrFacts, NoBlkNotGood
       DEF Data, CleanMatchesDisk, Transfer, ErrorsOutside, Good
<1>4. Scratch
    BY DEF Init, Scratch, ScratchAt
<1>5. Contents = disk
    <2>1. \A x \in Buf : ~Newer(x)
        <3>1. \A x : ~OnList(x, actq)
            BY DEF Init, OnList
        <3> QED
            BY <1>1, <3>1 DEF Newer
    <2>2. disk = [b \in Good |-> disk[b]]
        BY DEF Init, Good
    <2> QED
        BY <2>1, <2>2 DEF Contents, Good
<1>6. View = [p \in Proc |-> Store!None]
    BY DEF View, Init, Store!None
<1> QED
    BY <1>3, <1>4, <1>5, <1>6 DEF DInv, Store!Init, Init

-----------------------------------------------------------------------------
(* The theorems.                                                            *)

\* DInv holds in every state of the cache.
LEMMA DataInvariant == Spec => []DInv
<1>1. DInv /\ IInv /\ OneBufferPerBlock /\ OneBufferPerBlock' /\ [Next]_vars => DInv'
    BY NextStore DEF Safe, Kept
<1> QED
    BY <1>1, InitStore, Invariant, BlocksAreSingle, PTL DEF Spec

\* A buffer that is done, holds no delayed write and is of a block of the disk
\* agrees with the disk (bread, bwrite and iodone in bio.c, rkintr in rk.c,
\* ideintr in ide.c).
THEOREM CleanMatches == Spec => []CleanMatchesDisk
<1>1. DInv => CleanMatchesDisk
    BY DEF DInv, Data
<1> QED
    BY <1>1, DataInvariant, PTL

\* The cache is a block store: whoever gets a block from bread, breada or
\* getblk has it alone and sees what was written to it last, whatever bio.c
\* reassigns, delays and reads ahead, and rk.c and ide.c interrupt.
THEOREM CacheIsStore == Spec => ImplementsStore
<1>1. /\ IInv /\ DInv /\ OneBufferPerBlock /\ OneBufferPerBlock' /\ [Next]_vars
      => [Store!Next]_(Store!vars)
    BY NextStore DEF Safe, Kept
<1> QED
    BY <1>1, InitStore, Invariant, BlocksAreSingle, DataInvariant, PTL
       DEF Spec, ImplementsStore, Store!Spec
=============================================================================
