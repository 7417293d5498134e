----------------------------- MODULE NamesProofs -----------------------------
(***************************************************************************)
(* The counts of inodes and files are right and no inode is in two slots,  *)
(* for any number of processes, slots, files and inodes, any tree and any  *)
(* system calls.                                                           *)
(*                                                                         *)
(* A behaviour that has halted is not followed further: the invariant says *)
(* of a halted state only that the variables have their types.             *)
(***************************************************************************)
EXTENDS Names, FiniteSetTheorems, WellFoundedInduction, TLAPS

-----------------------------------------------------------------------------
(* What a process has at hand, by where it is.                              *)

\* In iget, in iput, in ialloc.
Fetching == {"iget", "isleep", "iread"}
Putting == {"iput", "itrunc", "iupdat"}
Allocating == {"ialloc", "ilock", "iloop", "ifill", "igot"}

PCs == Sleeps \cup {"iget", "iput", "comp", "got", "ialloc", "iloop", "igot", "wdone",
                    "open1", "chdir", "exdone", "uget", "closed", "exit", "upd"}
Rets == {"none", "comp", "igot", "uget", "user", "dead", "last", "iget", "wdone", "iloop",
         "closed", "chdir", "exdone"}

\* The type of u[p].
URec == [pc : PCs, call : CallNames \cup {"none", "close", "exit"}, flag : 0..2,
         path : Seq(STRING), path2 : Seq(STRING), ino : 0..NI, slot : 0..NINODE,
         ret : Rets, ip : 0..NINODE, pdir : 0..NINODE, off : Nat,
         from : {<<>>} \cup (DirInos \X Nat), fd : 0..NFILE, err : BOOLEAN]

WithSlot(r) == r.pc \in {"isleep", "iread", "comp", "scan", "got", "igot", "iput",
                         "itrunc", "iupdat", "open1", "trunc", "stat", "exwait",
                         "exbuf", "uget"}

WithPdir(r) ==
    \/ r.pc \in Allocating \cup {"wdir", "uget", "uwrite"}
    \/ r.pc \in Fetching /\ r.ret \in {"igot", "uget"}
    \/ r.pc \in Putting /\ r.ret = "iloop"

WithIp(r) ==
    \/ r.pc \in {"wdir", "wdone", "chdir", "uwrite"}
    \/ r.pc \in Putting /\ r.ret \in {"last", "wdone", "chdir"}

\* In namei; link is there twice, the second time with the first inode in ip.
InNamei(r) ==
    \/ r.pc \in {"comp", "scan", "got"}
    \/ r.pc \in Fetching /\ r.ret = "comp"
    \/ r.pc \in Putting /\ r.ret = "iget"

\* The last component of the path is still needed.
WithName(r) ==
    \/ r.pc \in Allocating \cup {"scan", "wdir"}
    \/ r.pc \in Fetching /\ r.ret = "igot"
    \/ r.pc \in Putting /\ r.ret = "iloop"

\* unlink after namei.
InUnlink(r) ==
    \/ r.pc \in {"uget", "uwrite"}
    \/ r.pc = "got" /\ r.call = "unlink"
    \/ r.pc \in Fetching /\ r.ret = "uget"

Closing(r) == r.pc \in Putting /\ r.ret = "closed"
Leaving(r) == r.pc = "dead" \/ (r.pc \in Putting /\ r.ret = "dead")
InExec(r) == r.pc = "exbuf" \/ r.ret = "exdone"

\* In the middle of reading, truncating or writing an inode that nobody else
\* has.
Sole(r) == r.pc \in {"iread", "itrunc", "iupdat"}

\* Which of its inodes a process has where.
Holding(r) ==
    /\ r.slot # 0 <=> WithSlot(r)
    /\ r.pdir # 0 <=> WithPdir(r)
    /\ WithIp(r) => r.ip # 0
    /\ r.ip # 0 => WithIp(r) \/ (InNamei(r) /\ r.call = "link")
    /\ InNamei(r) /\ r.call = "link" /\ r.flag = 1 => r.ip # 0
    /\ r.fd # 0 <=> Closing(r) \/ r.pc = "closed"

\* Where a process with current directory c goes on.
Going(r, c) ==
    /\ r.pc \in Fetching => r.ret \in {"comp", "igot", "uget"}
    /\ r.pc \in Putting => r.ret \in {"user", "dead", "last", "iget", "wdone", "iloop",
                                      "closed", "chdir", "exdone"}
    /\ r.pc \in Putting /\ r.ret \in {"dead", "chdir"} => r.slot = c
    /\ r.ret = "dead" => r.pc \in Putting
    /\ r.ret \in {"closed", "chdir", "exdone"} => r.pc \in Putting \cup {r.ret}
    /\ r.ret = "wdone" /\ r.call = "link" => r.pc \in Putting \cup {"wdone"}
    /\ r.pc \in {"uget", "uwrite"} => r.ret = "uget"
    /\ r.pc = "exdone" => r.ret = "exdone"
    /\ r.pc = "exwait" => r.call = "exec"
    /\ r.pc \in {"fstat", "updwrite"} => r.off \in Slots
    /\ r.pc = "upd" => r.off \in 1..(NINODE + 1)

\* The names and inode numbers it goes on with.
Naming(r) ==
    /\ WithName(r) => r.path # <<>>
    /\ r.pc \in Fetching \/ r.from # <<>> => r.ino # 0
    /\ InNamei(r) /\ r.call = "unlink" => r.flag = 2
    /\ InUnlink(r) \/ (r.pc \in Putting /\ r.ret = "iget") => r.from # <<>>

\* u[p] of a process with current directory c.
Fits(r, c) == r \in URec /\ Holding(r) /\ Going(r, c) /\ Naming(r)

-----------------------------------------------------------------------------
(* The references to a slot.                                                *)

B(x) == IF x THEN 1 ELSE 0
One(x, y) == IF x = y THEN 1 ELSE 0

SlotRef(r, s) ==
    r.slot = s /\ r.pc # "isleep" /\ r.ret \notin {"closed", "chdir", "dead"}
CdirRef(r, c, s) == c = s /\ r.pc \notin {"dead", "chdir"}

\* How many of them a process has.
Holds(r, c, s) == B(SlotRef(r, s)) + B(r.ip = s) + B(r.pdir = s) + B(CdirRef(r, c, s))

\* close has put the inode of f and not yet counted f down.
Put(f) == file[f].count = 1 /\ \E p \in Procs : u[p].pc = "closed" /\ u[p].fd = f

FileRefs(s) == {f \in 1..NFILE : file[f].count > 0 /\ file[f].inode = s /\ ~Put(f)}
SlotRefs(s) == {p \in Procs : SlotRef(u[p], s)}
IpRefs(s) == {p \in Procs : u[p].ip = s}
PdirRefs(s) == {p \in Procs : u[p].pdir = s}
CdirRefs(s) == {p \in Procs : CdirRef(u[p], cdir[p], s)}
StuckRefs(s) == {n \in DOMAIN stuck : stuck[n] = s}

Held(s) ==
    Cardinality(SlotRefs(s)) + Cardinality(IpRefs(s)) + Cardinality(PdirRefs(s))
    + Cardinality(CdirRefs(s))
Total(s) ==
    Held(s) + Cardinality(FileRefs(s)) + Cardinality(StuckRefs(s)) + B(s = 1)

-----------------------------------------------------------------------------
(* The inductive invariant.                                                 *)

Users == u \in [Procs -> URec] /\ \A p \in Procs : Fits(u[p], cdir[p])

\* Who does not run sleeps or has been woken; who runs does not sleep.
Parked == \A q \in Procs : IF q = cpu THEN u[q].pc \notin Sleeps
                           ELSE u[q].pc \in Sleeps \cup {"iget", "ialloc", "got"}

Unique == \A s, t \in Slots : inode[s].num = inode[t].num /\ s # t => inode[s].num = 0

\* A slot without references is empty, one with references has an inode.
SlotsFree == \A s \in Slots : IF inode[s].count = 0 THEN inode[s] = Free
                              ELSE inode[s].num # 0

Counted == \A s \in Slots : inode[s].count = Total(s)

\* An inode that is read, truncated or written by iget or iput has one
\* reference, is locked, and update is not at it.
Exclusive ==
    /\ \A p \in Procs : Sole(u[p]) =>
          /\ inode[u[p].slot].count = 1 /\ inode[u[p].slot].lock
          /\ \A q \in Procs : u[q].pc = "updwrite" => u[q].off # u[p].slot
    /\ \A q \in Procs : u[q].pc = "updwrite" => inode[u[q].off].count > 0

Descs(f) == {e \in Procs \X Fds : ofile[e[1]][e[2]] = f}
Closers(f) == {p \in Procs : u[p].fd = f}

FilesOK ==
    /\ \A f \in 1..NFILE :
          /\ file[f].count = Cardinality(Descs(f)) + Cardinality(Closers(f))
          /\ file[f].count > 0 => file[f].inode # 0
    /\ \A p \in Procs : Closing(u[p]) => /\ file[u[p].fd].count = 1
                                         /\ file[u[p].fd].inode = u[p].slot
    /\ \A p \in Procs : Leaving(u[p]) => \A d \in Fds : ofile[p][d] = 0

Execs == execnt = Cardinality({p \in Procs : InExec(u[p])})

Entry == [name : STRING, ino : 0..NI]

\* Only directories are searched.
Dirs ==
    /\ dir \in [DirInos -> Seq(Entry)]
    /\ \A s \in Slots : inode[s].mode = "dir" => inode[s].num \in DirInos
    /\ \A i \in Ino : dino[i].mode = "dir" => i \in DirInos
    /\ \A p \in Procs : u[p].pc = "scan" => inode[u[p].slot].num \in DirInos

Rest ==
    /\ Users /\ Parked /\ Unique /\ SlotsFree /\ Counted /\ Exclusive /\ FilesOK
    /\ Execs /\ Dirs

Inv == TypeOK /\ (halted \/ Rest)

-----------------------------------------------------------------------------
(* The moves of one process.                                                *)

\* From r to r2 a process does nothing to files and exec.
Calm(r, r2) ==
    /\ r2.fd = r.fd /\ (InExec(r2) <=> InExec(r))
    /\ r2.pc # "closed" /\ r.pc # "closed"
    /\ Leaving(r2) => Leaving(r)
    /\ Closing(r2) => Closing(r) /\ r2.slot = r.slot

\* From r to r2 a process holds what it held.
Keeps(r, r2, c) ==
    /\ Fits(r2, c)
    /\ \A s \in Slots : Holds(r2, c, s) = Holds(r, c, s)
    /\ Sole(r2) => Sole(r) /\ r2.slot = r.slot
    /\ Calm(r, r2) /\ r2.pc # "updwrite"

\* From r to r2 a process gets, or gives up, a reference to s.
Takes(r, c, r2, c2, s) == \A x \in Slots : Holds(r2, c2, x) = Holds(r, c, x) + One(x, s)
Gives(r, c, r2, c2, s) == \A x \in Slots : Holds(r2, c2, x) = Holds(r, c, x) - One(x, s)

\* From r to r2 a process has as many references as it had.
Evens(r, c, r2, c2) == \A x \in Slots : Holds(r2, c2, x) = Holds(r, c, x)

\* A process that closes file f in call k.
Closer(k, f) == [Idle EXCEPT !.call = k, !.fd = f, !.pc = "closed"]

\* r2 is r at pc, with these inodes at hand.
Becomes(r, r2, pc, slot, ret, ip, pdir) ==
    /\ r2.call = r.call /\ r2.fd = r.fd
    /\ r2.pc = pc /\ r2.slot = slot /\ r2.ret = ret /\ r2.ip = ip /\ r2.pdir = pdir

SameName(r, r2) ==
    /\ r2.flag = r.flag /\ r2.path = r.path /\ r2.ino = r.ino /\ r2.from = r.from
    /\ r2.off = r.off

LEMMA Sizes ==
    NINODE \in Nat /\ NINODE > 0 /\ NFILE \in Nat /\ NOFILE \in Nat /\ NI \in Nat
BY NamesAssumption

LEMMA RecordTypes ==
    ASSUME NEW r \in URec
    PROVE  /\ r.pc \in PCs /\ r.call \in CallNames \cup {"none", "close", "exit"}
           /\ r.flag \in 0..2 /\ r.path \in Seq(STRING) /\ r.path2 \in Seq(STRING)
           /\ r.ino \in 0..NI /\ r.slot \in 0..NINODE /\ r.ret \in Rets /\ r.ip \in 0..NINODE
           /\ r.pdir \in 0..NINODE /\ r.off \in Nat /\ r.from \in {<<>>} \cup (DirInos \X Nat)
           /\ r.fd \in 0..NFILE /\ r.err \in BOOLEAN
BY DEF URec

LEMMA IdleType == Idle \in URec
<1>1. "user" \in PCs /\ "none" \in Rets /\ 0 \in 0..NINODE /\ 0 \in 0..NI /\ 0 \in 0..NFILE
    BY Sizes DEF PCs, Rets, Sleeps
<1> QED
    BY <1>1 DEF Idle, URec

LEMMA TailPath == ASSUME NEW P \in Seq(STRING), P # <<>> PROVE Tail(P) \in Seq(STRING)
OBVIOUS

LEMMA NewNameType ==
    ASSUME NEW r \in URec, NEW s \in 0..NINODE, NEW P \in Seq(STRING), NEW g \in 0..2
    PROVE  [r EXCEPT !.ip = s, !.path = P, !.flag = g, !.from = <<>>] \in URec
BY DEF URec

LEMMA PutType ==
    ASSUME NEW r \in URec, NEW s \in 0..NINODE, NEW ret \in Rets
    PROVE  CallIput(r, s, ret) \in URec
<1>1. "iput" \in PCs
    BY DEF PCs
<1> QED
    BY <1>1 DEF CallIput, URec

LEMMA PutLastType ==
    ASSUME NEW r \in URec
    PROVE  After([r EXCEPT !.ret = "last"]) \in URec
<1>1. "user" \in Rets /\ 0 \in 0..NINODE /\ "last" \in Rets
    BY Sizes DEF Rets
<1>2. PICK q : q = [r EXCEPT !.ret = "last"]
    OBVIOUS
<1>3. q \in URec /\ q.ret = "last"
    BY <1>1, <1>2 DEF URec
<1>4. PICK t : t = [q EXCEPT !.ip = 0]
    OBVIOUS
<1>5. t \in URec /\ q.ip \in 0..NINODE
    BY <1>1, <1>3, <1>4 DEF URec
<1>6. After(q) = CallIput(t, q.ip, "user")
    BY <1>3, <1>4 DEF After
<1> QED
    BY <1>1, <1>2, <1>5, <1>6, PutType

LEMMA MakeType ==
    ASSUME NEW r \in URec, NEW l \in PCs, NEW o \in Nat, NEW s \in 0..NINODE
    PROVE  [r EXCEPT !.pc = l, !.off = o, !.pdir = s, !.slot = 0] \in URec
<1>1. 0 \in 0..NINODE
    BY Sizes
<1> QED
    BY <1>1 DEF URec

LEMMA CallIgetType ==
    ASSUME NEW r \in URec, NEW i \in 0..NI, NEW ret \in Rets
    PROVE  CallIget(r, i, ret) \in URec
<1>1. "iget" \in PCs /\ 0 \in 0..NINODE
    BY Sizes DEF PCs
<1> QED
    BY <1>1 DEF CallIget, URec

LEMMA AfterType ==
    ASSUME NEW r \in URec, r.ret \in Rets \ {"none", "comp", "igot", "uget"}
    PROVE  After(r) \in URec
<1>1. CASE r.ret = "user"
    BY <1>1, IdleType DEF After
<1>2. CASE r.ret = "dead"
  <2>1. "dead" \in PCs /\ Idle \in URec
      BY IdleType DEF PCs, Sleeps
  <2>2. [Idle EXCEPT !.pc = "dead"] \in URec
      BY <2>1 DEF URec
  <2> QED
      BY <1>2, <2>2 DEF After
<1>3. CASE r.ret = "last"
  <2>1. 0 \in 0..NINODE /\ "user" \in Rets
      BY Sizes DEF Rets
  <2>2. PICK q : q = [r EXCEPT !.ip = 0]
      OBVIOUS
  <2>3. q \in URec /\ r.ip \in 0..NINODE
      BY <2>1, <2>2 DEF URec
  <2>4. CallIput(q, r.ip, "user") \in URec
      BY <2>1, <2>3, PutType
  <2> QED
      BY <1>3, <2>2, <2>4 DEF After
<1>4. CASE r.ret = "iget"
  <2>1. r.ino \in 0..NI /\ "comp" \in Rets
      BY DEF URec, Rets
  <2>2. CallIget(r, r.ino, "comp") \in URec
      BY <2>1, CallIgetType
  <2> QED
      BY <1>4, <2>2 DEF After
<1>5. CASE r.ret \in {"wdone", "iloop", "closed", "chdir", "exdone"}
  <2>1. r.ret \in PCs /\ 0 \in 0..NINODE
      BY <1>5, Sizes DEF PCs, Sleeps
  <2>2. [r EXCEPT !.pc = r.ret, !.slot = 0] \in URec
      BY <2>1 DEF URec
  <2> QED
      BY <1>5, <2>2 DEF After
<1> QED
    BY <1>1, <1>2, <1>3, <1>4, <1>5 DEF Rets

\* namei is at the end of the name.
LEMMA CompGot ==
    ASSUME NEW c \in Slots, NEW r, NEW r2, Fits(r, c), r.pc = "comp",
           r.flag = 0 \/ r.from # <<>>,
           r2 = [r EXCEPT !.pc = "got"]
    PROVE  Keeps(r, r2, c)
<1>1. r \in URec /\ Holding(r) /\ Going(r, c) /\ Naming(r)
    BY DEF Fits
<1>2. "got" \in PCs
    BY <1>1, Sizes, RecordTypes DEF PCs, Sleeps, Rets, Slots, Ino
<1>3. r2 \in URec
    BY <1>1, <1>2, RecordTypes DEF URec
<1>4. Becomes(r, r2, "got", r.slot, r.ret, r.ip, r.pdir)
    BY <1>1 DEF URec, Becomes
<1>5. SameName(r, r2)
    BY <1>1 DEF URec, SameName
<1>6. r2 \in URec /\ Becomes(r, r2, "got", r.slot, r.ret, r.ip, r.pdir)
      /\ SameName(r, r2)
    BY <1>3, <1>4, <1>5
<1>7. Holding(r2)
    BY <1>1, <1>6, Sizes DEF Becomes, SameName, Holding, Going, Slots, WithSlot, WithIp,
       WithPdir, InNamei, WithName, InUnlink, Closing, Fetching, Putting, Allocating
<1>8. Going(r2, c)
    BY <1>1, <1>6, Sizes DEF Becomes, SameName, Going, Holding, Slots, WithSlot, WithIp,
       WithPdir, InNamei, WithName, InUnlink, Closing, Fetching, Putting, Allocating
<1>9. Naming(r2)
    BY <1>1, <1>6, Sizes DEF Becomes, SameName, Naming, Going, Holding, Ino, WithSlot,
       WithIp, WithPdir, InNamei, WithName, InUnlink, Closing, Fetching, Putting, Allocating
<1>10. ASSUME NEW x \in Slots PROVE Holds(r2, c, x) = Holds(r, c, x)
    BY <1>1, <1>6, Sizes DEF Becomes, SameName, Going, Holding, Holds, SlotRef, CdirRef, B,
       One, Slots, WithSlot, WithIp, WithPdir, InNamei, WithName, InUnlink, Closing,
       Fetching, Putting, Allocating
<1> QED
    BY <1>1, <1>6, <1>7, <1>8, <1>9, <1>10 DEF Keeps, Calm, Fits, Becomes, SameName,
       Holding, Going, Leaving, InExec, Sole, WithSlot, WithIp, WithPdir, InNamei, WithName,
       InUnlink, Closing, Fetching, Putting, Allocating

\* namei searches a directory.
LEMMA CompScan ==
    ASSUME NEW c \in Slots, NEW r, NEW r2, Fits(r, c), r.pc = "comp", r.path # <<>>,
           r2 = [r EXCEPT !.pc = "scan"]
    PROVE  Keeps(r, r2, c)
<1>1. r \in URec /\ Holding(r) /\ Going(r, c) /\ Naming(r)
    BY DEF Fits
<1>2. "scan" \in PCs
    BY <1>1, Sizes, RecordTypes DEF PCs, Sleeps, Rets, Slots, Ino
<1>3. r2 \in URec
    BY <1>1, <1>2, RecordTypes DEF URec
<1>4. Becomes(r, r2, "scan", r.slot, r.ret, r.ip, r.pdir)
    BY <1>1 DEF URec, Becomes
<1>5. SameName(r, r2)
    BY <1>1 DEF URec, SameName
<1>6. r2 \in URec /\ Becomes(r, r2, "scan", r.slot, r.ret, r.ip, r.pdir)
      /\ SameName(r, r2)
    BY <1>3, <1>4, <1>5
<1>7. Holding(r2)
    BY <1>1, <1>6, Sizes DEF Becomes, SameName, Holding, Going, Slots, WithSlot, WithIp,
       WithPdir, InNamei, WithName, InUnlink, Closing, Fetching, Putting, Allocating
<1>8. Going(r2, c)
    BY <1>1, <1>6, Sizes DEF Becomes, SameName, Going, Holding, Slots, WithSlot, WithIp,
       WithPdir, InNamei, WithName, InUnlink, Closing, Fetching, Putting, Allocating
<1>9. Naming(r2)
    BY <1>1, <1>6, Sizes DEF Becomes, SameName, Naming, Going, Holding, Ino, WithSlot,
       WithIp, WithPdir, InNamei, WithName, InUnlink, Closing, Fetching, Putting, Allocating
<1>10. ASSUME NEW x \in Slots PROVE Holds(r2, c, x) = Holds(r, c, x)
    BY <1>1, <1>6, Sizes DEF Becomes, SameName, Going, Holding, Holds, SlotRef, CdirRef, B,
       One, Slots, WithSlot, WithIp, WithPdir, InNamei, WithName, InUnlink, Closing,
       Fetching, Putting, Allocating
<1> QED
    BY <1>1, <1>6, <1>7, <1>8, <1>9, <1>10 DEF Keeps, Calm, Fits, Becomes, SameName,
       Holding, Going, Leaving, InExec, Sole, WithSlot, WithIp, WithPdir, InNamei, WithName,
       InUnlink, Closing, Fetching, Putting, Allocating

\* namei, or its caller, gives up.
LEMMA GivingUp ==
    ASSUME NEW c \in Slots, NEW r, NEW r2, Fits(r, c),
           r.pc \in {"comp", "scan", "got", "open1", "stat"},
           r2 = GiveUp(r)
    PROVE  Keeps(r, r2, c)
<1>1. r \in URec /\ Holding(r) /\ Going(r, c) /\ Naming(r)
    BY DEF Fits
<1>2. "iput" \in PCs /\ (IF r.ip # 0 THEN "last" ELSE "user") \in Rets
    BY <1>1, Sizes, RecordTypes DEF PCs, Sleeps, Rets, Slots, Ino
<1>3. r2 \in URec
    BY <1>1, <1>2, RecordTypes, PutType DEF GiveUp
<1>4. Becomes(r, r2, "iput", r.slot, IF r.ip # 0 THEN "last" ELSE "user", r.ip, r.pdir)
    BY <1>1 DEF URec, Becomes, GiveUp, CallIput
<1>5. SameName(r, r2)
    BY <1>1 DEF URec, SameName, GiveUp, CallIput
<1>6. r2 \in URec /\ Becomes(r, r2, "iput", r.slot, IF r.ip # 0 THEN "last" ELSE "user", r.ip,
            r.pdir)
      /\ SameName(r, r2)
    BY <1>3, <1>4, <1>5
<1>7. Holding(r2)
    BY <1>1, <1>6, Sizes DEF Becomes, SameName, Holding, Going, Slots, WithSlot, WithIp,
       WithPdir, InNamei, WithName, InUnlink, Closing, Fetching, Putting, Allocating
<1>8. Going(r2, c)
    BY <1>1, <1>6, Sizes DEF Becomes, SameName, Going, Holding, Slots, WithSlot, WithIp,
       WithPdir, InNamei, WithName, InUnlink, Closing, Fetching, Putting, Allocating
<1>9. Naming(r2)
    BY <1>1, <1>6, Sizes DEF Becomes, SameName, Naming, Going, Holding, Ino, WithSlot,
       WithIp, WithPdir, InNamei, WithName, InUnlink, Closing, Fetching, Putting, Allocating
<1>10. ASSUME NEW x \in Slots PROVE Holds(r2, c, x) = Holds(r, c, x)
    BY <1>1, <1>6, Sizes DEF Becomes, SameName, Going, Holding, Holds, SlotRef, CdirRef, B,
       One, Slots, WithSlot, WithIp, WithPdir, InNamei, WithName, InUnlink, Closing,
       Fetching, Putting, Allocating
<1> QED
    BY <1>1, <1>6, <1>7, <1>8, <1>9, <1>10 DEF Keeps, Calm, Fits, Becomes, SameName,
       Holding, Going, Leaving, InExec, Sole, WithSlot, WithIp, WithPdir, InNamei, WithName,
       InUnlink, Closing, Fetching, Putting, Allocating

\* namei has found what unlink looks for.
LEMMA ScanHit ==
    ASSUME NEW c \in Slots, NEW r, NEW r2, Fits(r, c), r.pc = "scan", NEW f \in DirInos \X Nat,
           f # <<>>,
           NEW i \in Ino,
           r2 = [r EXCEPT !.from = f, !.ino = i, !.path = Tail(@), !.pc = "got"]
    PROVE  Keeps(r, r2, c)
<1>1. r \in URec /\ Holding(r) /\ Going(r, c) /\ Naming(r)
    BY DEF Fits
<1>2. "got" \in PCs /\ i \in 0..NI
    BY <1>1, Sizes, RecordTypes DEF PCs, Sleeps, Rets, Slots, Ino
<1>3. Tail(r.path) \in Seq(STRING)
  <2>1. r.path \in Seq(STRING) /\ r.path # <<>>
    BY <1>1, RecordTypes DEF Naming, WithName
  <2> QED
    BY <2>1, TailPath
<1>4. r2 \in URec
    BY <1>1, <1>2, <1>3, RecordTypes DEF URec
<1>5. Becomes(r, r2, "got", r.slot, r.ret, r.ip, r.pdir)
    BY <1>1 DEF URec, Becomes
<1>6. r2.flag = r.flag /\ r2.path = Tail(r.path) /\ r2.ino = i /\ r2.from = f
    BY <1>1 DEF URec, SameName
<1>7. r2 \in URec /\ Becomes(r, r2, "got", r.slot, r.ret, r.ip, r.pdir)
      /\ r2.flag = r.flag /\ r2.path = Tail(r.path) /\ r2.ino = i /\ r2.from = f
    BY <1>4, <1>5, <1>6
<1>8. Holding(r2)
    BY <1>1, <1>7, Sizes DEF Becomes, SameName, Holding, Going, Slots, WithSlot, WithIp,
       WithPdir, InNamei, WithName, InUnlink, Closing, Fetching, Putting, Allocating
<1>9. Going(r2, c)
    BY <1>1, <1>7, Sizes DEF Becomes, SameName, Going, Holding, Slots, WithSlot, WithIp,
       WithPdir, InNamei, WithName, InUnlink, Closing, Fetching, Putting, Allocating
<1>10. Naming(r2)
    BY <1>1, <1>7, Sizes DEF Becomes, SameName, Naming, Going, Holding, Ino, WithSlot,
       WithIp, WithPdir, InNamei, WithName, InUnlink, Closing, Fetching, Putting, Allocating
<1>11. ASSUME NEW x \in Slots PROVE Holds(r2, c, x) = Holds(r, c, x)
    BY <1>1, <1>7, Sizes DEF Becomes, SameName, Going, Holding, Holds, SlotRef, CdirRef, B,
       One, Slots, WithSlot, WithIp, WithPdir, InNamei, WithName, InUnlink, Closing,
       Fetching, Putting, Allocating
<1> QED
    BY <1>1, <1>7, <1>8, <1>9, <1>10, <1>11 DEF Keeps, Calm, Fits, Becomes, SameName,
       Holding, Going, Leaving, InExec, Sole, WithSlot, WithIp, WithPdir, InNamei, WithName,
       InUnlink, Closing, Fetching, Putting, Allocating

\* namei has found a component.
LEMMA ScanNext ==
    ASSUME NEW c \in Slots, NEW r, NEW r2, Fits(r, c), r.pc = "scan", NEW f \in DirInos \X Nat,
           f # <<>>,
           NEW i \in Ino,
           r2 = CallIput([r EXCEPT !.from = f, !.ino = i, !.path = Tail(@)], r.slot,
                         "iget")
    PROVE  Keeps(r, r2, c)
<1>1. r \in URec /\ Holding(r) /\ Going(r, c) /\ Naming(r)
    BY DEF Fits
<1>2. "iput" \in PCs /\ "iget" \in Rets /\ i \in 0..NI
    BY <1>1, Sizes, RecordTypes DEF PCs, Sleeps, Rets, Slots, Ino
<1>3. Tail(r.path) \in Seq(STRING)
  <2>1. r.path \in Seq(STRING) /\ r.path # <<>>
    BY <1>1, RecordTypes DEF Naming, WithName
  <2> QED
    BY <2>1, TailPath
<1>4. r2 \in URec
    BY <1>1, <1>2, <1>3, RecordTypes DEF URec, CallIput
<1>5. Becomes(r, r2, "iput", r.slot, "iget", r.ip, r.pdir)
    BY <1>1 DEF URec, Becomes, CallIput
<1>6. r2.flag = r.flag /\ r2.path = Tail(r.path) /\ r2.ino = i /\ r2.from = f
    BY <1>1 DEF URec, SameName, CallIput
<1>7. r2 \in URec /\ Becomes(r, r2, "iput", r.slot, "iget", r.ip, r.pdir)
      /\ r2.flag = r.flag /\ r2.path = Tail(r.path) /\ r2.ino = i /\ r2.from = f
    BY <1>4, <1>5, <1>6
<1>8. Holding(r2)
    BY <1>1, <1>7, Sizes DEF Becomes, SameName, Holding, Going, Slots, WithSlot, WithIp,
       WithPdir, InNamei, WithName, InUnlink, Closing, Fetching, Putting, Allocating
<1>9. Going(r2, c)
    BY <1>1, <1>7, Sizes DEF Becomes, SameName, Going, Holding, Slots, WithSlot, WithIp,
       WithPdir, InNamei, WithName, InUnlink, Closing, Fetching, Putting, Allocating
<1>10. Naming(r2)
    BY <1>1, <1>7, Sizes DEF Becomes, SameName, Naming, Going, Holding, Ino, WithSlot,
       WithIp, WithPdir, InNamei, WithName, InUnlink, Closing, Fetching, Putting, Allocating
<1>11. ASSUME NEW x \in Slots PROVE Holds(r2, c, x) = Holds(r, c, x)
    BY <1>1, <1>7, Sizes DEF Becomes, SameName, Going, Holding, Holds, SlotRef, CdirRef, B,
       One, Slots, WithSlot, WithIp, WithPdir, InNamei, WithName, InUnlink, Closing,
       Fetching, Putting, Allocating
<1> QED
    BY <1>1, <1>7, <1>8, <1>9, <1>10, <1>11 DEF Keeps, Calm, Fits, Becomes, SameName,
       Holding, Going, Leaving, InExec, Sole, WithSlot, WithIp, WithPdir, InNamei, WithName,
       InUnlink, Closing, Fetching, Putting, Allocating

\* namei keeps the directory for a new entry.
LEMMA ScanMake ==
    ASSUME NEW c \in Slots, NEW r, NEW r2, Fits(r, c), r.pc = "scan", r.flag = 1, NEW o \in Nat,
           r2 = [r EXCEPT !.pc = IF r.call = "link" THEN "wdir" ELSE "ialloc", !.off = o,
                          !.pdir = r.slot, !.slot = 0]
    PROVE  Keeps(r, r2, c)
<1>1. r \in URec /\ Holding(r) /\ Going(r, c) /\ Naming(r)
    BY DEF Fits
<1>2. (IF r.call = "link" THEN "wdir" ELSE "ialloc") \in PCs /\ 0 \in 0..NINODE
    BY <1>1, Sizes, RecordTypes DEF PCs, Sleeps, Rets, Slots, Ino
<1>3. r2 \in URec
    BY <1>1, <1>2, RecordTypes, MakeType
<1>4. Becomes(r, r2, IF r.call = "link" THEN "wdir" ELSE "ialloc", 0, r.ret, r.ip, r.slot)
    BY <1>1 DEF URec, Becomes
<1>5. r2.flag = r.flag /\ r2.path = r.path /\ r2.ino = r.ino /\ r2.from = r.from
    BY <1>1 DEF URec, SameName
<1>6. r2 \in URec /\ Becomes(r, r2, IF r.call = "link" THEN "wdir" ELSE "ialloc", 0, r.ret,
            r.ip, r.slot)
      /\ r2.flag = r.flag /\ r2.path = r.path /\ r2.ino = r.ino /\ r2.from = r.from
    BY <1>3, <1>4, <1>5
<1>7. Holding(r2)
    BY <1>1, <1>6, Sizes DEF Becomes, SameName, Holding, Going, Slots, WithSlot, WithIp,
       WithPdir, InNamei, WithName, InUnlink, Closing, Fetching, Putting, Allocating
<1>8. Going(r2, c)
    BY <1>1, <1>6, Sizes DEF Becomes, SameName, Going, Holding, Slots, WithSlot, WithIp,
       WithPdir, InNamei, WithName, InUnlink, Closing, Fetching, Putting, Allocating
<1>9. Naming(r2)
    BY <1>1, <1>6, Sizes DEF Becomes, SameName, Naming, Going, Holding, Ino, WithSlot,
       WithIp, WithPdir, InNamei, WithName, InUnlink, Closing, Fetching, Putting, Allocating
<1>10. ASSUME NEW x \in Slots PROVE Holds(r2, c, x) = Holds(r, c, x)
    BY <1>1, <1>6, Sizes DEF Becomes, SameName, Going, Holding, Holds, SlotRef, CdirRef, B,
       One, Slots, WithSlot, WithIp, WithPdir, InNamei, WithName, InUnlink, Closing,
       Fetching, Putting, Allocating
<1> QED
    BY <1>1, <1>6, <1>7, <1>8, <1>9, <1>10 DEF Keeps, Calm, Fits, Becomes, SameName,
       Holding, Going, Leaving, InExec, Sole, WithSlot, WithIp, WithPdir, InNamei, WithName,
       InUnlink, Closing, Fetching, Putting, Allocating

\* ialloc waits, looks, reads.
LEMMA IallocMove ==
    ASSUME NEW c \in Slots, NEW r, NEW r2, Fits(r, c), r.pc \in {"ialloc", "iloop", "ifill"},
           NEW l \in {"ilock", "iloop", "ifill"},
           r2 = [r EXCEPT !.pc = l]
    PROVE  Keeps(r, r2, c)
<1>1. r \in URec /\ Holding(r) /\ Going(r, c) /\ Naming(r)
    BY DEF Fits
<1>2. l \in PCs
    BY <1>1, Sizes, RecordTypes DEF PCs, Sleeps, Rets, Slots, Ino
<1>3. r2 \in URec
    BY <1>1, <1>2, RecordTypes DEF URec
<1>4. Becomes(r, r2, l, r.slot, r.ret, r.ip, r.pdir)
    BY <1>1 DEF URec, Becomes
<1>5. SameName(r, r2)
    BY <1>1 DEF URec, SameName
<1>6. r2 \in URec /\ Becomes(r, r2, l, r.slot, r.ret, r.ip, r.pdir)
      /\ SameName(r, r2)
    BY <1>3, <1>4, <1>5
<1>7. Holding(r2)
    BY <1>1, <1>6, Sizes DEF Becomes, SameName, Holding, Going, Slots, WithSlot, WithIp,
       WithPdir, InNamei, WithName, InUnlink, Closing, Fetching, Putting, Allocating
<1>8. Going(r2, c)
    BY <1>1, <1>6, Sizes DEF Becomes, SameName, Going, Holding, Slots, WithSlot, WithIp,
       WithPdir, InNamei, WithName, InUnlink, Closing, Fetching, Putting, Allocating
<1>9. Naming(r2)
    BY <1>1, <1>6, Sizes DEF Becomes, SameName, Naming, Going, Holding, Ino, WithSlot,
       WithIp, WithPdir, InNamei, WithName, InUnlink, Closing, Fetching, Putting, Allocating
<1>10. ASSUME NEW x \in Slots PROVE Holds(r2, c, x) = Holds(r, c, x)
    BY <1>1, <1>6, Sizes DEF Becomes, SameName, Going, Holding, Holds, SlotRef, CdirRef, B,
       One, Slots, WithSlot, WithIp, WithPdir, InNamei, WithName, InUnlink, Closing,
       Fetching, Putting, Allocating
<1> QED
    BY <1>1, <1>6, <1>7, <1>8, <1>9, <1>10 DEF Keeps, Calm, Fits, Becomes, SameName,
       Holding, Going, Leaving, InExec, Sole, WithSlot, WithIp, WithPdir, InNamei, WithName,
       InUnlink, Closing, Fetching, Putting, Allocating

\* ialloc has a number and gets the inode.
LEMMA IallocGet ==
    ASSUME NEW c \in Slots, NEW r, NEW r2, Fits(r, c), r.pc = "iloop", NEW i \in Ino,
           r2 = CallIget([r EXCEPT !.from = <<>>], i, "igot")
    PROVE  Keeps(r, r2, c)
<1>1. r \in URec /\ Holding(r) /\ Going(r, c) /\ Naming(r)
    BY DEF Fits
<1>2. "iget" \in PCs /\ "igot" \in Rets /\ 0 \in 0..NINODE /\ i \in 0..NI
    BY <1>1, Sizes, RecordTypes DEF PCs, Sleeps, Rets, Slots, Ino
<1>3. r2 \in URec
    BY <1>1, <1>2, RecordTypes DEF URec, CallIget
<1>4. Becomes(r, r2, "iget", 0, "igot", r.ip, r.pdir)
    BY <1>1 DEF URec, Becomes, CallIget
<1>5. r2.flag = r.flag /\ r2.path = r.path /\ r2.ino = i /\ r2.from = <<>>
    BY <1>1 DEF URec, SameName, CallIget
<1>6. r2 \in URec /\ Becomes(r, r2, "iget", 0, "igot", r.ip, r.pdir)
      /\ r2.flag = r.flag /\ r2.path = r.path /\ r2.ino = i /\ r2.from = <<>>
    BY <1>3, <1>4, <1>5
<1>7. Holding(r2)
    BY <1>1, <1>6, Sizes DEF Becomes, SameName, Holding, Going, Slots, WithSlot, WithIp,
       WithPdir, InNamei, WithName, InUnlink, Closing, Fetching, Putting, Allocating
<1>8. Going(r2, c)
    BY <1>1, <1>6, Sizes DEF Becomes, SameName, Going, Holding, Slots, WithSlot, WithIp,
       WithPdir, InNamei, WithName, InUnlink, Closing, Fetching, Putting, Allocating
<1>9. Naming(r2)
    BY <1>1, <1>6, Sizes DEF Becomes, SameName, Naming, Going, Holding, Ino, WithSlot,
       WithIp, WithPdir, InNamei, WithName, InUnlink, Closing, Fetching, Putting, Allocating
<1>10. ASSUME NEW x \in Slots PROVE Holds(r2, c, x) = Holds(r, c, x)
    BY <1>1, <1>6, Sizes DEF Becomes, SameName, Going, Holding, Holds, SlotRef, CdirRef, B,
       One, Slots, WithSlot, WithIp, WithPdir, InNamei, WithName, InUnlink, Closing,
       Fetching, Putting, Allocating
<1> QED
    BY <1>1, <1>6, <1>7, <1>8, <1>9, <1>10 DEF Keeps, Calm, Fits, Becomes, SameName,
       Holding, Going, Leaving, InExec, Sole, WithSlot, WithIp, WithPdir, InNamei, WithName,
       InUnlink, Closing, Fetching, Putting, Allocating

\* maknode has an inode.
LEMMA MaknodeMade ==
    ASSUME NEW c \in Slots, NEW r, NEW r2, Fits(r, c), r.pc = "igot",
           r2 = [r EXCEPT !.pc = "wdir", !.ip = r.slot, !.slot = 0]
    PROVE  Keeps(r, r2, c)
<1>1. r \in URec /\ Holding(r) /\ Going(r, c) /\ Naming(r)
    BY DEF Fits
<1>2. "wdir" \in PCs /\ 0 \in 0..NINODE
    BY <1>1, Sizes, RecordTypes DEF PCs, Sleeps, Rets, Slots, Ino
<1>3. r2 \in URec
    BY <1>1, <1>2, RecordTypes DEF URec
<1>4. Becomes(r, r2, "wdir", 0, r.ret, r.slot, r.pdir)
    BY <1>1 DEF URec, Becomes
<1>5. SameName(r, r2)
    BY <1>1 DEF URec, SameName
<1>6. r2 \in URec /\ Becomes(r, r2, "wdir", 0, r.ret, r.slot, r.pdir)
      /\ SameName(r, r2)
    BY <1>3, <1>4, <1>5
<1>7. Holding(r2)
    BY <1>1, <1>6, Sizes DEF Becomes, SameName, Holding, Going, Slots, WithSlot, WithIp,
       WithPdir, InNamei, WithName, InUnlink, Closing, Fetching, Putting, Allocating
<1>8. Going(r2, c)
    BY <1>1, <1>6, Sizes DEF Becomes, SameName, Going, Holding, Slots, WithSlot, WithIp,
       WithPdir, InNamei, WithName, InUnlink, Closing, Fetching, Putting, Allocating
<1>9. Naming(r2)
    BY <1>1, <1>6, Sizes DEF Becomes, SameName, Naming, Going, Holding, Ino, WithSlot,
       WithIp, WithPdir, InNamei, WithName, InUnlink, Closing, Fetching, Putting, Allocating
<1>10. ASSUME NEW x \in Slots PROVE Holds(r2, c, x) = Holds(r, c, x)
    BY <1>1, <1>6, Sizes DEF Becomes, SameName, Going, Holding, Holds, SlotRef, CdirRef, B,
       One, Slots, WithSlot, WithIp, WithPdir, InNamei, WithName, InUnlink, Closing,
       Fetching, Putting, Allocating
<1> QED
    BY <1>1, <1>6, <1>7, <1>8, <1>9, <1>10 DEF Keeps, Calm, Fits, Becomes, SameName,
       Holding, Going, Leaving, InExec, Sole, WithSlot, WithIp, WithPdir, InNamei, WithName,
       InUnlink, Closing, Fetching, Putting, Allocating

\* The inode was allocated after all.
LEMMA MaknodeAgain ==
    ASSUME NEW c \in Slots, NEW r, NEW r2, Fits(r, c), r.pc = "igot",
           r2 = CallIput(r, r.slot, "iloop")
    PROVE  Keeps(r, r2, c)
<1>1. r \in URec /\ Holding(r) /\ Going(r, c) /\ Naming(r)
    BY DEF Fits
<1>2. "iput" \in PCs /\ "iloop" \in Rets
    BY <1>1, Sizes, RecordTypes DEF PCs, Sleeps, Rets, Slots, Ino
<1>3. r2 \in URec
    BY <1>1, <1>2, RecordTypes DEF URec, CallIput
<1>4. Becomes(r, r2, "iput", r.slot, "iloop", r.ip, r.pdir)
    BY <1>1 DEF URec, Becomes, CallIput
<1>5. SameName(r, r2)
    BY <1>1 DEF URec, SameName, CallIput
<1>6. r2 \in URec /\ Becomes(r, r2, "iput", r.slot, "iloop", r.ip, r.pdir)
      /\ SameName(r, r2)
    BY <1>3, <1>4, <1>5
<1>7. Holding(r2)
    BY <1>1, <1>6, Sizes DEF Becomes, SameName, Holding, Going, Slots, WithSlot, WithIp,
       WithPdir, InNamei, WithName, InUnlink, Closing, Fetching, Putting, Allocating
<1>8. Going(r2, c)
    BY <1>1, <1>6, Sizes DEF Becomes, SameName, Going, Holding, Slots, WithSlot, WithIp,
       WithPdir, InNamei, WithName, InUnlink, Closing, Fetching, Putting, Allocating
<1>9. Naming(r2)
    BY <1>1, <1>6, Sizes DEF Becomes, SameName, Naming, Going, Holding, Ino, WithSlot,
       WithIp, WithPdir, InNamei, WithName, InUnlink, Closing, Fetching, Putting, Allocating
<1>10. ASSUME NEW x \in Slots PROVE Holds(r2, c, x) = Holds(r, c, x)
    BY <1>1, <1>6, Sizes DEF Becomes, SameName, Going, Holding, Holds, SlotRef, CdirRef, B,
       One, Slots, WithSlot, WithIp, WithPdir, InNamei, WithName, InUnlink, Closing,
       Fetching, Putting, Allocating
<1> QED
    BY <1>1, <1>6, <1>7, <1>8, <1>9, <1>10 DEF Keeps, Calm, Fits, Becomes, SameName,
       Holding, Going, Leaving, InExec, Sole, WithSlot, WithIp, WithPdir, InNamei, WithName,
       InUnlink, Closing, Fetching, Putting, Allocating

\* wdir puts the directory.
LEMMA WdirPut ==
    ASSUME NEW c \in Slots, NEW r, NEW r2, Fits(r, c), r.pc = "wdir", NEW e \in BOOLEAN,
           r2 = [CallIput([r EXCEPT !.pdir = 0], r.pdir, "wdone") EXCEPT !.err = e]
    PROVE  Keeps(r, r2, c)
<1>1. r \in URec /\ Holding(r) /\ Going(r, c) /\ Naming(r)
    BY DEF Fits
<1>2. "iput" \in PCs /\ "wdone" \in Rets /\ 0 \in 0..NINODE
    BY <1>1, Sizes, RecordTypes DEF PCs, Sleeps, Rets, Slots, Ino
<1>3. r2 \in URec
    BY <1>1, <1>2, RecordTypes DEF URec, CallIput
<1>4. Becomes(r, r2, "iput", r.pdir, "wdone", r.ip, 0)
    BY <1>1 DEF URec, Becomes, CallIput
<1>5. SameName(r, r2)
    BY <1>1 DEF URec, SameName, CallIput
<1>6. r2 \in URec /\ Becomes(r, r2, "iput", r.pdir, "wdone", r.ip, 0)
      /\ SameName(r, r2)
    BY <1>3, <1>4, <1>5
<1>7. Holding(r2)
    BY <1>1, <1>6, Sizes DEF Becomes, SameName, Holding, Going, Slots, WithSlot, WithIp,
       WithPdir, InNamei, WithName, InUnlink, Closing, Fetching, Putting, Allocating
<1>8. Going(r2, c)
    BY <1>1, <1>6, Sizes DEF Becomes, SameName, Going, Holding, Slots, WithSlot, WithIp,
       WithPdir, InNamei, WithName, InUnlink, Closing, Fetching, Putting, Allocating
<1>9. Naming(r2)
    BY <1>1, <1>6, Sizes DEF Becomes, SameName, Naming, Going, Holding, Ino, WithSlot,
       WithIp, WithPdir, InNamei, WithName, InUnlink, Closing, Fetching, Putting, Allocating
<1>10. ASSUME NEW x \in Slots PROVE Holds(r2, c, x) = Holds(r, c, x)
    BY <1>1, <1>6, Sizes DEF Becomes, SameName, Going, Holding, Holds, SlotRef, CdirRef, B,
       One, Slots, WithSlot, WithIp, WithPdir, InNamei, WithName, InUnlink, Closing,
       Fetching, Putting, Allocating
<1> QED
    BY <1>1, <1>6, <1>7, <1>8, <1>9, <1>10 DEF Keeps, Calm, Fits, Becomes, SameName,
       Holding, Going, Leaving, InExec, Sole, WithSlot, WithIp, WithPdir, InNamei, WithName,
       InUnlink, Closing, Fetching, Putting, Allocating

\* creat goes on to open1.
LEMMA WdoneOpen ==
    ASSUME NEW c \in Slots, NEW r, NEW r2, Fits(r, c), r.pc = "wdone", r.call = "creat",
           r2 = [r EXCEPT !.pc = "open1", !.slot = r.ip, !.ip = 0]
    PROVE  Keeps(r, r2, c)
<1>1. r \in URec /\ Holding(r) /\ Going(r, c) /\ Naming(r)
    BY DEF Fits
<1>2. "open1" \in PCs /\ 0 \in 0..NINODE
    BY <1>1, Sizes, RecordTypes DEF PCs, Sleeps, Rets, Slots, Ino
<1>3. r2 \in URec
    BY <1>1, <1>2, RecordTypes DEF URec
<1>4. Becomes(r, r2, "open1", r.ip, r.ret, 0, r.pdir)
    BY <1>1 DEF URec, Becomes
<1>5. SameName(r, r2)
    BY <1>1 DEF URec, SameName
<1>6. r2 \in URec /\ Becomes(r, r2, "open1", r.ip, r.ret, 0, r.pdir)
      /\ SameName(r, r2)
    BY <1>3, <1>4, <1>5
<1>7. Holding(r2)
    BY <1>1, <1>6, Sizes DEF Becomes, SameName, Holding, Going, Slots, WithSlot, WithIp,
       WithPdir, InNamei, WithName, InUnlink, Closing, Fetching, Putting, Allocating
<1>8. Going(r2, c)
    BY <1>1, <1>6, Sizes DEF Becomes, SameName, Going, Holding, Slots, WithSlot, WithIp,
       WithPdir, InNamei, WithName, InUnlink, Closing, Fetching, Putting, Allocating
<1>9. Naming(r2)
    BY <1>1, <1>6, Sizes DEF Becomes, SameName, Naming, Going, Holding, Ino, WithSlot,
       WithIp, WithPdir, InNamei, WithName, InUnlink, Closing, Fetching, Putting, Allocating
<1>10. ASSUME NEW x \in Slots PROVE Holds(r2, c, x) = Holds(r, c, x)
    BY <1>1, <1>6, Sizes DEF Becomes, SameName, Going, Holding, Holds, SlotRef, CdirRef, B,
       One, Slots, WithSlot, WithIp, WithPdir, InNamei, WithName, InUnlink, Closing,
       Fetching, Putting, Allocating
<1> QED
    BY <1>1, <1>6, <1>7, <1>8, <1>9, <1>10 DEF Keeps, Calm, Fits, Becomes, SameName,
       Holding, Going, Leaving, InExec, Sole, WithSlot, WithIp, WithPdir, InNamei, WithName,
       InUnlink, Closing, Fetching, Putting, Allocating

\* The inode in ip is put last.
LEMMA LastPut ==
    ASSUME NEW c \in Slots, NEW r, NEW r2, Fits(r, c),
           r.pc = "wdone" \/ (r.pc = "iget" /\ r.ret = "comp" /\ r.ip # 0),
           r2 = After([r EXCEPT !.ret = "last"])
    PROVE  Keeps(r, r2, c)
<1>1. r \in URec /\ Holding(r) /\ Going(r, c) /\ Naming(r)
    BY DEF Fits
<1>2. "iput" \in PCs /\ "user" \in Rets /\ 0 \in 0..NINODE
    BY <1>1, Sizes, RecordTypes DEF PCs, Sleeps, Rets, Slots, Ino
<1>3. r2 \in URec
    BY <1>1, PutLastType
<1>4. Becomes(r, r2, "iput", r.ip, "user", 0, r.pdir)
    BY <1>1 DEF URec, Becomes, CallIput, After
<1>5. SameName(r, r2)
    BY <1>1 DEF URec, SameName, CallIput, After
<1>6. r2 \in URec /\ Becomes(r, r2, "iput", r.ip, "user", 0, r.pdir)
      /\ SameName(r, r2)
    BY <1>3, <1>4, <1>5
<1>7. Holding(r2)
    BY <1>1, <1>6, Sizes DEF Becomes, SameName, Holding, Going, Slots, WithSlot, WithIp,
       WithPdir, InNamei, WithName, InUnlink, Closing, Fetching, Putting, Allocating
<1>8. Going(r2, c)
    BY <1>1, <1>6, Sizes DEF Becomes, SameName, Going, Holding, Slots, WithSlot, WithIp,
       WithPdir, InNamei, WithName, InUnlink, Closing, Fetching, Putting, Allocating
<1>9. Naming(r2)
    BY <1>1, <1>6, Sizes DEF Becomes, SameName, Naming, Going, Holding, Ino, WithSlot,
       WithIp, WithPdir, InNamei, WithName, InUnlink, Closing, Fetching, Putting, Allocating
<1>10. ASSUME NEW x \in Slots PROVE Holds(r2, c, x) = Holds(r, c, x)
    BY <1>1, <1>6, Sizes DEF Becomes, SameName, Going, Holding, Holds, SlotRef, CdirRef, B,
       One, Slots, WithSlot, WithIp, WithPdir, InNamei, WithName, InUnlink, Closing,
       Fetching, Putting, Allocating
<1> QED
    BY <1>1, <1>6, <1>7, <1>8, <1>9, <1>10 DEF Keeps, Calm, Fits, Becomes, SameName,
       Holding, Going, Leaving, InExec, Sole, WithSlot, WithIp, WithPdir, InNamei, WithName,
       InUnlink, Closing, Fetching, Putting, Allocating

\* open1 is called, or itrunc first.
LEMMA OpenMove ==
    ASSUME NEW c \in Slots, NEW r, NEW r2, Fits(r, c),
           (r.pc = "got" /\ r.call \in {"open", "creat"}) \/ r.pc = "trunc",
           NEW l \in {"open1", "trunc"},
           r2 = [r EXCEPT !.pc = l]
    PROVE  Keeps(r, r2, c)
<1>1. r \in URec /\ Holding(r) /\ Going(r, c) /\ Naming(r)
    BY DEF Fits
<1>2. l \in PCs
    BY <1>1, Sizes, RecordTypes DEF PCs, Sleeps, Rets, Slots, Ino
<1>3. r2 \in URec
    BY <1>1, <1>2, RecordTypes DEF URec
<1>4. Becomes(r, r2, l, r.slot, r.ret, r.ip, r.pdir)
    BY <1>1 DEF URec, Becomes
<1>5. SameName(r, r2)
    BY <1>1 DEF URec, SameName
<1>6. r2 \in URec /\ Becomes(r, r2, l, r.slot, r.ret, r.ip, r.pdir)
      /\ SameName(r, r2)
    BY <1>3, <1>4, <1>5
<1>7. Holding(r2)
    BY <1>1, <1>6, Sizes DEF Becomes, SameName, Holding, Going, Slots, WithSlot, WithIp,
       WithPdir, InNamei, WithName, InUnlink, Closing, Fetching, Putting, Allocating
<1>8. Going(r2, c)
    BY <1>1, <1>6, Sizes DEF Becomes, SameName, Going, Holding, Slots, WithSlot, WithIp,
       WithPdir, InNamei, WithName, InUnlink, Closing, Fetching, Putting, Allocating
<1>9. Naming(r2)
    BY <1>1, <1>6, Sizes DEF Becomes, SameName, Naming, Going, Holding, Ino, WithSlot,
       WithIp, WithPdir, InNamei, WithName, InUnlink, Closing, Fetching, Putting, Allocating
<1>10. ASSUME NEW x \in Slots PROVE Holds(r2, c, x) = Holds(r, c, x)
    BY <1>1, <1>6, Sizes DEF Becomes, SameName, Going, Holding, Holds, SlotRef, CdirRef, B,
       One, Slots, WithSlot, WithIp, WithPdir, InNamei, WithName, InUnlink, Closing,
       Fetching, Putting, Allocating
<1> QED
    BY <1>1, <1>6, <1>7, <1>8, <1>9, <1>10 DEF Keeps, Calm, Fits, Becomes, SameName,
       Holding, Going, Leaving, InExec, Sole, WithSlot, WithIp, WithPdir, InNamei, WithName,
       InUnlink, Closing, Fetching, Putting, Allocating

\* chdir puts the old directory.
LEMMA ChdirPut ==
    ASSUME NEW c \in Slots, NEW r, NEW r2, Fits(r, c), r.pc = "got", r.call = "chdir",
           r2 = CallIput([r EXCEPT !.ip = r.slot], c, "chdir")
    PROVE  Keeps(r, r2, c)
<1>1. r \in URec /\ Holding(r) /\ Going(r, c) /\ Naming(r)
    BY DEF Fits
<1>2. "iput" \in PCs /\ "chdir" \in Rets /\ c \in 0..NINODE
    BY <1>1, Sizes, RecordTypes DEF PCs, Sleeps, Rets, Slots, Ino
<1>3. r2 \in URec
    BY <1>1, <1>2, RecordTypes DEF URec, CallIput
<1>4. Becomes(r, r2, "iput", c, "chdir", r.slot, r.pdir)
    BY <1>1 DEF URec, Becomes, CallIput
<1>5. SameName(r, r2)
    BY <1>1 DEF URec, SameName, CallIput
<1>6. r2 \in URec /\ Becomes(r, r2, "iput", c, "chdir", r.slot, r.pdir)
      /\ SameName(r, r2)
    BY <1>3, <1>4, <1>5
<1>7. Holding(r2)
    BY <1>1, <1>6, Sizes DEF Becomes, SameName, Holding, Going, Slots, WithSlot, WithIp,
       WithPdir, InNamei, WithName, InUnlink, Closing, Fetching, Putting, Allocating
<1>8. Going(r2, c)
    BY <1>1, <1>6, Sizes DEF Becomes, SameName, Going, Holding, Slots, WithSlot, WithIp,
       WithPdir, InNamei, WithName, InUnlink, Closing, Fetching, Putting, Allocating
<1>9. Naming(r2)
    BY <1>1, <1>6, Sizes DEF Becomes, SameName, Naming, Going, Holding, Ino, WithSlot,
       WithIp, WithPdir, InNamei, WithName, InUnlink, Closing, Fetching, Putting, Allocating
<1>10. ASSUME NEW x \in Slots PROVE Holds(r2, c, x) = Holds(r, c, x)
    BY <1>1, <1>6, Sizes DEF Becomes, SameName, Going, Holding, Holds, SlotRef, CdirRef, B,
       One, Slots, WithSlot, WithIp, WithPdir, InNamei, WithName, InUnlink, Closing,
       Fetching, Putting, Allocating
<1> QED
    BY <1>1, <1>6, <1>7, <1>8, <1>9, <1>10 DEF Keeps, Calm, Fits, Becomes, SameName,
       Holding, Going, Leaving, InExec, Sole, WithSlot, WithIp, WithPdir, InNamei, WithName,
       InUnlink, Closing, Fetching, Putting, Allocating

\* stat asks for the block of the inode.
LEMMA StatMove ==
    ASSUME NEW c \in Slots, NEW r, NEW r2, Fits(r, c), r.pc = "got", r.call = "stat",
           r2 = [r EXCEPT !.pc = "stat"]
    PROVE  Keeps(r, r2, c)
<1>1. r \in URec /\ Holding(r) /\ Going(r, c) /\ Naming(r)
    BY DEF Fits
<1>2. "stat" \in PCs
    BY <1>1, Sizes, RecordTypes DEF PCs, Sleeps, Rets, Slots, Ino
<1>3. r2 \in URec
    BY <1>1, <1>2, RecordTypes DEF URec
<1>4. Becomes(r, r2, "stat", r.slot, r.ret, r.ip, r.pdir)
    BY <1>1 DEF URec, Becomes
<1>5. SameName(r, r2)
    BY <1>1 DEF URec, SameName
<1>6. r2 \in URec /\ Becomes(r, r2, "stat", r.slot, r.ret, r.ip, r.pdir)
      /\ SameName(r, r2)
    BY <1>3, <1>4, <1>5
<1>7. Holding(r2)
    BY <1>1, <1>6, Sizes DEF Becomes, SameName, Holding, Going, Slots, WithSlot, WithIp,
       WithPdir, InNamei, WithName, InUnlink, Closing, Fetching, Putting, Allocating
<1>8. Going(r2, c)
    BY <1>1, <1>6, Sizes DEF Becomes, SameName, Going, Holding, Slots, WithSlot, WithIp,
       WithPdir, InNamei, WithName, InUnlink, Closing, Fetching, Putting, Allocating
<1>9. Naming(r2)
    BY <1>1, <1>6, Sizes DEF Becomes, SameName, Naming, Going, Holding, Ino, WithSlot,
       WithIp, WithPdir, InNamei, WithName, InUnlink, Closing, Fetching, Putting, Allocating
<1>10. ASSUME NEW x \in Slots PROVE Holds(r2, c, x) = Holds(r, c, x)
    BY <1>1, <1>6, Sizes DEF Becomes, SameName, Going, Holding, Holds, SlotRef, CdirRef, B,
       One, Slots, WithSlot, WithIp, WithPdir, InNamei, WithName, InUnlink, Closing,
       Fetching, Putting, Allocating
<1> QED
    BY <1>1, <1>6, <1>7, <1>8, <1>9, <1>10 DEF Keeps, Calm, Fits, Becomes, SameName,
       Holding, Going, Leaving, InExec, Sole, WithSlot, WithIp, WithPdir, InNamei, WithName,
       InUnlink, Closing, Fetching, Putting, Allocating

\* exec waits its turn.
LEMMA ExecWait ==
    ASSUME NEW c \in Slots, NEW r, NEW r2, Fits(r, c), r.pc = "got", r.call = "exec",
           r2 = [r EXCEPT !.pc = "exwait"]
    PROVE  Keeps(r, r2, c)
<1>1. r \in URec /\ Holding(r) /\ Going(r, c) /\ Naming(r)
    BY DEF Fits
<1>2. "exwait" \in PCs
    BY <1>1, Sizes, RecordTypes DEF PCs, Sleeps, Rets, Slots, Ino
<1>3. r2 \in URec
    BY <1>1, <1>2, RecordTypes DEF URec
<1>4. Becomes(r, r2, "exwait", r.slot, r.ret, r.ip, r.pdir)
    BY <1>1 DEF URec, Becomes
<1>5. SameName(r, r2)
    BY <1>1 DEF URec, SameName
<1>6. r2 \in URec /\ Becomes(r, r2, "exwait", r.slot, r.ret, r.ip, r.pdir)
      /\ SameName(r, r2)
    BY <1>3, <1>4, <1>5
<1>7. Holding(r2)
    BY <1>1, <1>6, Sizes DEF Becomes, SameName, Holding, Going, Slots, WithSlot, WithIp,
       WithPdir, InNamei, WithName, InUnlink, Closing, Fetching, Putting, Allocating
<1>8. Going(r2, c)
    BY <1>1, <1>6, Sizes DEF Becomes, SameName, Going, Holding, Slots, WithSlot, WithIp,
       WithPdir, InNamei, WithName, InUnlink, Closing, Fetching, Putting, Allocating
<1>9. Naming(r2)
    BY <1>1, <1>6, Sizes DEF Becomes, SameName, Naming, Going, Holding, Ino, WithSlot,
       WithIp, WithPdir, InNamei, WithName, InUnlink, Closing, Fetching, Putting, Allocating
<1>10. ASSUME NEW x \in Slots PROVE Holds(r2, c, x) = Holds(r, c, x)
    BY <1>1, <1>6, Sizes DEF Becomes, SameName, Going, Holding, Holds, SlotRef, CdirRef, B,
       One, Slots, WithSlot, WithIp, WithPdir, InNamei, WithName, InUnlink, Closing,
       Fetching, Putting, Allocating
<1> QED
    BY <1>1, <1>6, <1>7, <1>8, <1>9, <1>10 DEF Keeps, Calm, Fits, Becomes, SameName,
       Holding, Going, Leaving, InExec, Sole, WithSlot, WithIp, WithPdir, InNamei, WithName,
       InUnlink, Closing, Fetching, Putting, Allocating

\* exec puts the file.
LEMMA ExecPut ==
    ASSUME NEW c \in Slots, NEW r, NEW r2, Fits(r, c), r.pc = "exbuf",
           r2 = CallIput(r, r.slot, "exdone")
    PROVE  Keeps(r, r2, c)
<1>1. r \in URec /\ Holding(r) /\ Going(r, c) /\ Naming(r)
    BY DEF Fits
<1>2. "iput" \in PCs /\ "exdone" \in Rets
    BY <1>1, Sizes, RecordTypes DEF PCs, Sleeps, Rets, Slots, Ino
<1>3. r2 \in URec
    BY <1>1, <1>2, RecordTypes DEF URec, CallIput
<1>4. Becomes(r, r2, "iput", r.slot, "exdone", r.ip, r.pdir)
    BY <1>1 DEF URec, Becomes, CallIput
<1>5. SameName(r, r2)
    BY <1>1 DEF URec, SameName, CallIput
<1>6. r2 \in URec /\ Becomes(r, r2, "iput", r.slot, "exdone", r.ip, r.pdir)
      /\ SameName(r, r2)
    BY <1>3, <1>4, <1>5
<1>7. Holding(r2)
    BY <1>1, <1>6, Sizes DEF Becomes, SameName, Holding, Going, Slots, WithSlot, WithIp,
       WithPdir, InNamei, WithName, InUnlink, Closing, Fetching, Putting, Allocating
<1>8. Going(r2, c)
    BY <1>1, <1>6, Sizes DEF Becomes, SameName, Going, Holding, Slots, WithSlot, WithIp,
       WithPdir, InNamei, WithName, InUnlink, Closing, Fetching, Putting, Allocating
<1>9. Naming(r2)
    BY <1>1, <1>6, Sizes DEF Becomes, SameName, Naming, Going, Holding, Ino, WithSlot,
       WithIp, WithPdir, InNamei, WithName, InUnlink, Closing, Fetching, Putting, Allocating
<1>10. ASSUME NEW x \in Slots PROVE Holds(r2, c, x) = Holds(r, c, x)
    BY <1>1, <1>6, Sizes DEF Becomes, SameName, Going, Holding, Holds, SlotRef, CdirRef, B,
       One, Slots, WithSlot, WithIp, WithPdir, InNamei, WithName, InUnlink, Closing,
       Fetching, Putting, Allocating
<1> QED
    BY <1>1, <1>6, <1>7, <1>8, <1>9, <1>10 DEF Keeps, Calm, Fits, Becomes, SameName,
       Holding, Going, Leaving, InExec, Sole, WithSlot, WithIp, WithPdir, InNamei, WithName,
       InUnlink, Closing, Fetching, Putting, Allocating

\* link looks for the second name.
LEMMA LinkNext ==
    ASSUME NEW c \in Slots, NEW r, NEW r2, Fits(r, c), r.pc = "got", r.call = "link", r.ip = 0,
           NEW P \in Seq(STRING), NEW i \in Ino,
           r2 = CallIget([r EXCEPT !.ip = r.slot, !.path = P, !.flag = 1, !.from = <<>>], i,
                         "comp")
    PROVE  Keeps(r, r2, c)
<1>1. r \in URec /\ Holding(r) /\ Going(r, c) /\ Naming(r)
    BY DEF Fits
<1>2. "iget" \in PCs /\ "comp" \in Rets /\ 0 \in 0..NINODE /\ i \in 0..NI /\ 1 \in 0..2
         /\ <<>> \in {<<>>} \cup (DirInos \X Nat)
    BY <1>1, Sizes, RecordTypes DEF PCs, Sleeps, Rets, Slots, Ino
<1>3. [r EXCEPT !.ip = r.slot, !.path = P, !.flag = 1, !.from = <<>>] \in URec
    BY <1>1, <1>2, RecordTypes, NewNameType
<1>4. r2 \in URec
    BY <1>2, <1>3, CallIgetType
<1>5. Becomes(r, r2, "iget", 0, "comp", r.slot, r.pdir)
    BY <1>1 DEF URec, Becomes, CallIget
<1>6. r2.flag = 1 /\ r2.path = P /\ r2.ino = i /\ r2.from = <<>>
    BY <1>1 DEF URec, SameName, CallIget
<1>7. r2 \in URec /\ Becomes(r, r2, "iget", 0, "comp", r.slot, r.pdir)
      /\ r2.flag = 1 /\ r2.path = P /\ r2.ino = i /\ r2.from = <<>>
    BY <1>4, <1>5, <1>6
<1>8. Holding(r2)
    BY <1>1, <1>7, Sizes DEF Becomes, SameName, Holding, Going, Slots, WithSlot, WithIp,
       WithPdir, InNamei, WithName, InUnlink, Closing, Fetching, Putting, Allocating
<1>9. Going(r2, c)
    BY <1>1, <1>7, Sizes DEF Becomes, SameName, Going, Holding, Slots, WithSlot, WithIp,
       WithPdir, InNamei, WithName, InUnlink, Closing, Fetching, Putting, Allocating
<1>10. Naming(r2)
    BY <1>1, <1>7, Sizes DEF Becomes, SameName, Naming, Going, Holding, Ino, WithSlot,
       WithIp, WithPdir, InNamei, WithName, InUnlink, Closing, Fetching, Putting, Allocating
<1>11. ASSUME NEW x \in Slots PROVE Holds(r2, c, x) = Holds(r, c, x)
    BY <1>1, <1>7, Sizes DEF Becomes, SameName, Going, Holding, Holds, SlotRef, CdirRef, B,
       One, Slots, WithSlot, WithIp, WithPdir, InNamei, WithName, InUnlink, Closing,
       Fetching, Putting, Allocating
<1> QED
    BY <1>1, <1>7, <1>8, <1>9, <1>10, <1>11 DEF Keeps, Calm, Fits, Becomes, SameName,
       Holding, Going, Leaving, InExec, Sole, WithSlot, WithIp, WithPdir, InNamei, WithName,
       InUnlink, Closing, Fetching, Putting, Allocating

\* unlink gets the inode.
LEMMA UnlinkFetch ==
    ASSUME NEW c \in Slots, NEW r, NEW r2, Fits(r, c), r.pc = "got", r.call = "unlink",
           r2 = CallIget([r EXCEPT !.pdir = r.slot], r.ino, "uget")
    PROVE  Keeps(r, r2, c)
<1>1. r \in URec /\ Holding(r) /\ Going(r, c) /\ Naming(r)
    BY DEF Fits
<1>2. "iget" \in PCs /\ "uget" \in Rets /\ 0 \in 0..NINODE
    BY <1>1, Sizes, RecordTypes DEF PCs, Sleeps, Rets, Slots, Ino
<1>3. r2 \in URec
    BY <1>1, <1>2, RecordTypes DEF URec, CallIget
<1>4. Becomes(r, r2, "iget", 0, "uget", r.ip, r.slot)
    BY <1>1 DEF URec, Becomes, CallIget
<1>5. SameName(r, r2)
    BY <1>1 DEF URec, SameName, CallIget
<1>6. r2 \in URec /\ Becomes(r, r2, "iget", 0, "uget", r.ip, r.slot)
      /\ SameName(r, r2)
    BY <1>3, <1>4, <1>5
<1>7. Holding(r2)
    BY <1>1, <1>6, Sizes DEF Becomes, SameName, Holding, Going, Slots, WithSlot, WithIp,
       WithPdir, InNamei, WithName, InUnlink, Closing, Fetching, Putting, Allocating
<1>8. Going(r2, c)
    BY <1>1, <1>6, Sizes DEF Becomes, SameName, Going, Holding, Slots, WithSlot, WithIp,
       WithPdir, InNamei, WithName, InUnlink, Closing, Fetching, Putting, Allocating
<1>9. Naming(r2)
    BY <1>1, <1>6, Sizes DEF Becomes, SameName, Naming, Going, Holding, Ino, WithSlot,
       WithIp, WithPdir, InNamei, WithName, InUnlink, Closing, Fetching, Putting, Allocating
<1>10. ASSUME NEW x \in Slots PROVE Holds(r2, c, x) = Holds(r, c, x)
    BY <1>1, <1>6, Sizes DEF Becomes, SameName, Going, Holding, Holds, SlotRef, CdirRef, B,
       One, Slots, WithSlot, WithIp, WithPdir, InNamei, WithName, InUnlink, Closing,
       Fetching, Putting, Allocating
<1> QED
    BY <1>1, <1>6, <1>7, <1>8, <1>9, <1>10 DEF Keeps, Calm, Fits, Becomes, SameName,
       Holding, Going, Leaving, InExec, Sole, WithSlot, WithIp, WithPdir, InNamei, WithName,
       InUnlink, Closing, Fetching, Putting, Allocating

\* unlink goes on to clear the entry.
LEMMA UnlinkMove ==
    ASSUME NEW c \in Slots, NEW r, NEW r2, Fits(r, c), r.pc = "uget",
           r2 = [r EXCEPT !.ip = r.slot, !.slot = 0, !.pc = "uwrite"]
    PROVE  Keeps(r, r2, c)
<1>1. r \in URec /\ Holding(r) /\ Going(r, c) /\ Naming(r)
    BY DEF Fits
<1>2. "uwrite" \in PCs /\ 0 \in 0..NINODE
    BY <1>1, Sizes, RecordTypes DEF PCs, Sleeps, Rets, Slots, Ino
<1>3. r2 \in URec
    BY <1>1, <1>2, RecordTypes DEF URec
<1>4. Becomes(r, r2, "uwrite", 0, r.ret, r.slot, r.pdir)
    BY <1>1 DEF URec, Becomes
<1>5. SameName(r, r2)
    BY <1>1 DEF URec, SameName
<1>6. r2 \in URec /\ Becomes(r, r2, "uwrite", 0, r.ret, r.slot, r.pdir)
      /\ SameName(r, r2)
    BY <1>3, <1>4, <1>5
<1>7. Holding(r2)
    BY <1>1, <1>6, Sizes DEF Becomes, SameName, Holding, Going, Slots, WithSlot, WithIp,
       WithPdir, InNamei, WithName, InUnlink, Closing, Fetching, Putting, Allocating
<1>8. Going(r2, c)
    BY <1>1, <1>6, Sizes DEF Becomes, SameName, Going, Holding, Slots, WithSlot, WithIp,
       WithPdir, InNamei, WithName, InUnlink, Closing, Fetching, Putting, Allocating
<1>9. Naming(r2)
    BY <1>1, <1>6, Sizes DEF Becomes, SameName, Naming, Going, Holding, Ino, WithSlot,
       WithIp, WithPdir, InNamei, WithName, InUnlink, Closing, Fetching, Putting, Allocating
<1>10. ASSUME NEW x \in Slots PROVE Holds(r2, c, x) = Holds(r, c, x)
    BY <1>1, <1>6, Sizes DEF Becomes, SameName, Going, Holding, Holds, SlotRef, CdirRef, B,
       One, Slots, WithSlot, WithIp, WithPdir, InNamei, WithName, InUnlink, Closing,
       Fetching, Putting, Allocating
<1> QED
    BY <1>1, <1>6, <1>7, <1>8, <1>9, <1>10 DEF Keeps, Calm, Fits, Becomes, SameName,
       Holding, Going, Leaving, InExec, Sole, WithSlot, WithIp, WithPdir, InNamei, WithName,
       InUnlink, Closing, Fetching, Putting, Allocating

\* unlink puts the directory, then the inode.
LEMMA UnlinkRefused ==
    ASSUME NEW c \in Slots, NEW r, NEW r2, Fits(r, c), r.pc = "uget",
           r2 = CallIput([r EXCEPT !.ip = r.slot, !.slot = 0, !.pdir = 0], r.pdir, "last")
    PROVE  Keeps(r, r2, c)
<1>1. r \in URec /\ Holding(r) /\ Going(r, c) /\ Naming(r)
    BY DEF Fits
<1>2. "iput" \in PCs /\ "last" \in Rets /\ 0 \in 0..NINODE
    BY <1>1, Sizes, RecordTypes DEF PCs, Sleeps, Rets, Slots, Ino
<1>3. r2 \in URec
    BY <1>1, <1>2, RecordTypes DEF URec, CallIput
<1>4. Becomes(r, r2, "iput", r.pdir, "last", r.slot, 0)
    BY <1>1 DEF URec, Becomes, CallIput
<1>5. SameName(r, r2)
    BY <1>1 DEF URec, SameName, CallIput
<1>6. r2 \in URec /\ Becomes(r, r2, "iput", r.pdir, "last", r.slot, 0)
      /\ SameName(r, r2)
    BY <1>3, <1>4, <1>5
<1>7. Holding(r2)
    BY <1>1, <1>6, Sizes DEF Becomes, SameName, Holding, Going, Slots, WithSlot, WithIp,
       WithPdir, InNamei, WithName, InUnlink, Closing, Fetching, Putting, Allocating
<1>8. Going(r2, c)
    BY <1>1, <1>6, Sizes DEF Becomes, SameName, Going, Holding, Slots, WithSlot, WithIp,
       WithPdir, InNamei, WithName, InUnlink, Closing, Fetching, Putting, Allocating
<1>9. Naming(r2)
    BY <1>1, <1>6, Sizes DEF Becomes, SameName, Naming, Going, Holding, Ino, WithSlot,
       WithIp, WithPdir, InNamei, WithName, InUnlink, Closing, Fetching, Putting, Allocating
<1>10. ASSUME NEW x \in Slots PROVE Holds(r2, c, x) = Holds(r, c, x)
    BY <1>1, <1>6, Sizes DEF Becomes, SameName, Going, Holding, Holds, SlotRef, CdirRef, B,
       One, Slots, WithSlot, WithIp, WithPdir, InNamei, WithName, InUnlink, Closing,
       Fetching, Putting, Allocating
<1> QED
    BY <1>1, <1>6, <1>7, <1>8, <1>9, <1>10 DEF Keeps, Calm, Fits, Becomes, SameName,
       Holding, Going, Leaving, InExec, Sole, WithSlot, WithIp, WithPdir, InNamei, WithName,
       InUnlink, Closing, Fetching, Putting, Allocating

\* unlink has cleared the entry.
LEMMA UnlinkPut ==
    ASSUME NEW c \in Slots, NEW r, NEW r2, Fits(r, c), r.pc = "uwrite",
           r2 = CallIput([r EXCEPT !.pdir = 0], r.pdir, "last")
    PROVE  Keeps(r, r2, c)
<1>1. r \in URec /\ Holding(r) /\ Going(r, c) /\ Naming(r)
    BY DEF Fits
<1>2. "iput" \in PCs /\ "last" \in Rets /\ 0 \in 0..NINODE
    BY <1>1, Sizes, RecordTypes DEF PCs, Sleeps, Rets, Slots, Ino
<1>3. r2 \in URec
    BY <1>1, <1>2, RecordTypes DEF URec, CallIput
<1>4. Becomes(r, r2, "iput", r.pdir, "last", r.ip, 0)
    BY <1>1 DEF URec, Becomes, CallIput
<1>5. SameName(r, r2)
    BY <1>1 DEF URec, SameName, CallIput
<1>6. r2 \in URec /\ Becomes(r, r2, "iput", r.pdir, "last", r.ip, 0)
      /\ SameName(r, r2)
    BY <1>3, <1>4, <1>5
<1>7. Holding(r2)
    BY <1>1, <1>6, Sizes DEF Becomes, SameName, Holding, Going, Slots, WithSlot, WithIp,
       WithPdir, InNamei, WithName, InUnlink, Closing, Fetching, Putting, Allocating
<1>8. Going(r2, c)
    BY <1>1, <1>6, Sizes DEF Becomes, SameName, Going, Holding, Slots, WithSlot, WithIp,
       WithPdir, InNamei, WithName, InUnlink, Closing, Fetching, Putting, Allocating
<1>9. Naming(r2)
    BY <1>1, <1>6, Sizes DEF Becomes, SameName, Naming, Going, Holding, Ino, WithSlot,
       WithIp, WithPdir, InNamei, WithName, InUnlink, Closing, Fetching, Putting, Allocating
<1>10. ASSUME NEW x \in Slots PROVE Holds(r2, c, x) = Holds(r, c, x)
    BY <1>1, <1>6, Sizes DEF Becomes, SameName, Going, Holding, Holds, SlotRef, CdirRef, B,
       One, Slots, WithSlot, WithIp, WithPdir, InNamei, WithName, InUnlink, Closing,
       Fetching, Putting, Allocating
<1> QED
    BY <1>1, <1>6, <1>7, <1>8, <1>9, <1>10 DEF Keeps, Calm, Fits, Becomes, SameName,
       Holding, Going, Leaving, InExec, Sole, WithSlot, WithIp, WithPdir, InNamei, WithName,
       InUnlink, Closing, Fetching, Putting, Allocating

\* iget sleeps for a locked slot.
LEMMA IgetWait ==
    ASSUME NEW c \in Slots, NEW r, NEW r2, Fits(r, c), r.pc = "iget", NEW s \in Slots,
           r2 = [r EXCEPT !.pc = "isleep", !.slot = s]
    PROVE  Keeps(r, r2, c)
<1>1. r \in URec /\ Holding(r) /\ Going(r, c) /\ Naming(r)
    BY DEF Fits
<1>2. "isleep" \in PCs /\ s \in 0..NINODE
    BY <1>1, Sizes, RecordTypes DEF PCs, Sleeps, Rets, Slots, Ino
<1>3. r2 \in URec
    BY <1>1, <1>2, RecordTypes DEF URec
<1>4. Becomes(r, r2, "isleep", s, r.ret, r.ip, r.pdir)
    BY <1>1 DEF URec, Becomes
<1>5. SameName(r, r2)
    BY <1>1 DEF URec, SameName
<1>6. r2 \in URec /\ Becomes(r, r2, "isleep", s, r.ret, r.ip, r.pdir)
      /\ SameName(r, r2)
    BY <1>3, <1>4, <1>5
<1>7. Holding(r2)
    BY <1>1, <1>6, Sizes DEF Becomes, SameName, Holding, Going, Slots, WithSlot, WithIp,
       WithPdir, InNamei, WithName, InUnlink, Closing, Fetching, Putting, Allocating
<1>8. Going(r2, c)
    BY <1>1, <1>6, Sizes DEF Becomes, SameName, Going, Holding, Slots, WithSlot, WithIp,
       WithPdir, InNamei, WithName, InUnlink, Closing, Fetching, Putting, Allocating
<1>9. Naming(r2)
    BY <1>1, <1>6, Sizes DEF Becomes, SameName, Naming, Going, Holding, Ino, WithSlot,
       WithIp, WithPdir, InNamei, WithName, InUnlink, Closing, Fetching, Putting, Allocating
<1>10. ASSUME NEW x \in Slots PROVE Holds(r2, c, x) = Holds(r, c, x)
    BY <1>1, <1>6, Sizes DEF Becomes, SameName, Going, Holding, Holds, SlotRef, CdirRef, B,
       One, Slots, WithSlot, WithIp, WithPdir, InNamei, WithName, InUnlink, Closing,
       Fetching, Putting, Allocating
<1> QED
    BY <1>1, <1>6, <1>7, <1>8, <1>9, <1>10 DEF Keeps, Calm, Fits, Becomes, SameName,
       Holding, Going, Leaving, InExec, Sole, WithSlot, WithIp, WithPdir, InNamei, WithName,
       InUnlink, Closing, Fetching, Putting, Allocating

\* iget has read the inode.
LEMMA IgetDone ==
    ASSUME NEW c \in Slots, NEW r, NEW r2, Fits(r, c), r.pc = "iread",
           r2 = [r EXCEPT !.pc = r.ret]
    PROVE  Keeps(r, r2, c)
<1>1. r \in URec /\ Holding(r) /\ Going(r, c) /\ Naming(r)
    BY DEF Fits
<1>2. r.ret \in PCs
    BY <1>1, Sizes, RecordTypes DEF PCs, Sleeps, Rets, Slots, Ino, Going, Fetching
<1>3. r2 \in URec
    BY <1>1, <1>2, RecordTypes DEF URec
<1>4. Becomes(r, r2, r.ret, r.slot, r.ret, r.ip, r.pdir)
    BY <1>1 DEF URec, Becomes
<1>5. SameName(r, r2)
    BY <1>1 DEF URec, SameName
<1>6. r2 \in URec /\ Becomes(r, r2, r.ret, r.slot, r.ret, r.ip, r.pdir)
      /\ SameName(r, r2)
    BY <1>3, <1>4, <1>5
<1>7. Holding(r2)
    BY <1>1, <1>6, Sizes DEF Becomes, SameName, Holding, Going, Slots, WithSlot, WithIp,
       WithPdir, InNamei, WithName, InUnlink, Closing, Fetching, Putting, Allocating
<1>8. Going(r2, c)
    BY <1>1, <1>6, Sizes DEF Becomes, SameName, Going, Holding, Slots, WithSlot, WithIp,
       WithPdir, InNamei, WithName, InUnlink, Closing, Fetching, Putting, Allocating
<1>9. Naming(r2)
    BY <1>1, <1>6, Sizes DEF Becomes, SameName, Naming, Going, Holding, Ino, WithSlot,
       WithIp, WithPdir, InNamei, WithName, InUnlink, Closing, Fetching, Putting, Allocating
<1>10. ASSUME NEW x \in Slots PROVE Holds(r2, c, x) = Holds(r, c, x)
    BY <1>1, <1>6, Sizes DEF Becomes, SameName, Going, Holding, Holds, SlotRef, CdirRef, B,
       One, Slots, WithSlot, WithIp, WithPdir, InNamei, WithName, InUnlink, Closing,
       Fetching, Putting, Allocating
<1> QED
    BY <1>1, <1>6, <1>7, <1>8, <1>9, <1>10 DEF Keeps, Calm, Fits, Becomes, SameName,
       Holding, Going, Leaving, InExec, Sole, WithSlot, WithIp, WithPdir, InNamei, WithName,
       InUnlink, Closing, Fetching, Putting, Allocating

\* itrunc is done.
LEMMA TruncDone ==
    ASSUME NEW c \in Slots, NEW r, NEW r2, Fits(r, c), r.pc = "itrunc",
           r2 = [r EXCEPT !.pc = "iupdat"]
    PROVE  Keeps(r, r2, c)
<1>1. r \in URec /\ Holding(r) /\ Going(r, c) /\ Naming(r)
    BY DEF Fits
<1>2. "iupdat" \in PCs
    BY <1>1, Sizes, RecordTypes DEF PCs, Sleeps, Rets, Slots, Ino
<1>3. r2 \in URec
    BY <1>1, <1>2, RecordTypes DEF URec
<1>4. Becomes(r, r2, "iupdat", r.slot, r.ret, r.ip, r.pdir)
    BY <1>1 DEF URec, Becomes
<1>5. SameName(r, r2)
    BY <1>1 DEF URec, SameName
<1>6. r2 \in URec /\ Becomes(r, r2, "iupdat", r.slot, r.ret, r.ip, r.pdir)
      /\ SameName(r, r2)
    BY <1>3, <1>4, <1>5
<1>7. Holding(r2)
    BY <1>1, <1>6, Sizes DEF Becomes, SameName, Holding, Going, Slots, WithSlot, WithIp,
       WithPdir, InNamei, WithName, InUnlink, Closing, Fetching, Putting, Allocating
<1>8. Going(r2, c)
    BY <1>1, <1>6, Sizes DEF Becomes, SameName, Going, Holding, Slots, WithSlot, WithIp,
       WithPdir, InNamei, WithName, InUnlink, Closing, Fetching, Putting, Allocating
<1>9. Naming(r2)
    BY <1>1, <1>6, Sizes DEF Becomes, SameName, Naming, Going, Holding, Ino, WithSlot,
       WithIp, WithPdir, InNamei, WithName, InUnlink, Closing, Fetching, Putting, Allocating
<1>10. ASSUME NEW x \in Slots PROVE Holds(r2, c, x) = Holds(r, c, x)
    BY <1>1, <1>6, Sizes DEF Becomes, SameName, Going, Holding, Holds, SlotRef, CdirRef, B,
       One, Slots, WithSlot, WithIp, WithPdir, InNamei, WithName, InUnlink, Closing,
       Fetching, Putting, Allocating
<1> QED
    BY <1>1, <1>6, <1>7, <1>8, <1>9, <1>10 DEF Keeps, Calm, Fits, Becomes, SameName,
       Holding, Going, Leaving, InExec, Sole, WithSlot, WithIp, WithPdir, InNamei, WithName,
       InUnlink, Closing, Fetching, Putting, Allocating

\* A call with a name begins.
LEMMA NameiBegins ==
    ASSUME NEW c \in Slots, NEW r, NEW r2, Fits(r, c), r.pc = "user", NEW i \in Ino,
           NEW k \in Calls, NEW P \in Seq(STRING),
           r2 = CallIget([[Idle EXCEPT !.call = k.call, !.path2 = k.path2]
                            EXCEPT !.path = P, !.flag = Flag(k.call), !.from = <<>>],
                         i, "comp")
    PROVE  Keeps(r, r2, c)
<1>1. r \in URec /\ Holding(r) /\ Going(r, c) /\ Naming(r)
    BY DEF Fits
<1>2. k.call \in CallNames /\ k.path2 \in Seq(STRING) /\ Flag(k.call) \in 0..2
    BY NamesAssumption DEF Flag
<1>3. "iget" \in PCs /\ "comp" \in Rets /\ 0 \in 0..NINODE /\ i \in 0..NI
    BY Sizes DEF PCs, Rets, Ino
<1>4. r2 \in URec
    BY <1>2, <1>3, IdleType DEF URec, CallIget
<1>5. /\ r2.flag = Flag(k.call) /\ r2.call = k.call /\ r2.fd = 0 /\ r2.ino = i
      /\ r2.from = <<>> /\ r2.pc = "iget" /\ r2.slot = 0 /\ r2.ret = "comp" /\ r2.ip = 0
      /\ r2.pdir = 0
    BY DEF CallIget, Idle
<1>6. k.call = "link" => Flag(k.call) = 0
    BY DEF Flag
<1>7. k.call = "unlink" => Flag(k.call) = 2
    BY DEF Flag
<1>8. Holding(r2)
    BY <1>1, <1>2, <1>4, <1>5, <1>6, <1>7, Sizes DEF Becomes, SameName, Holding, Going,
       Slots, WithSlot, WithIp, WithPdir, InNamei, WithName, InUnlink, Closing, Fetching,
       Putting, Allocating
<1>9. Going(r2, c)
    BY <1>1, <1>2, <1>4, <1>5, <1>6, <1>7, Sizes DEF Becomes, SameName, Going, Holding,
       Slots, WithSlot, WithIp, WithPdir, InNamei, WithName, InUnlink, Closing, Fetching,
       Putting, Allocating
<1>10. Naming(r2)
    BY <1>1, <1>2, <1>4, <1>5, <1>6, <1>7, Sizes DEF Becomes, SameName, Naming, Going,
       Holding, Ino, WithSlot, WithIp, WithPdir, InNamei, WithName, InUnlink, Closing,
       Fetching, Putting, Allocating
<1>11. ASSUME NEW x \in Slots PROVE Holds(r2, c, x) = Holds(r, c, x)
    BY <1>1, <1>2, <1>4, <1>5, <1>6, <1>7, Sizes DEF Becomes, SameName, Going, Holding,
       Holds, SlotRef, CdirRef, B, One, Slots, WithSlot, WithIp, WithPdir, InNamei,
       WithName, InUnlink, Closing, Fetching, Putting, Allocating
<1> QED
    BY <1>1, <1>2, <1>4, <1>5, <1>6, <1>7, <1>8, <1>9, <1>10, <1>11 DEF Keeps, Calm, Fits,
       Becomes, SameName, Holding, Going, Leaving, InExec, Sole, WithSlot, WithIp, WithPdir,
       InNamei, WithName, InUnlink, Closing, Fetching, Putting, Allocating

\* A call without inodes at hand begins, goes on or ends.
LEMMA AtRest ==
    ASSUME NEW c \in Slots, NEW r, NEW r2, Fits(r, c),
           r.pc \in {"user", "fstat", "upd", "updwrite"}, NEW o \in Nat,
           NEW l \in {"user", "exit", "fstat", "upd"},
           l = "fstat" => o \in Slots, l = "upd" => o \in 1..(NINODE + 1),
           r2 = [Idle EXCEPT !.pc = l, !.off = o]
    PROVE  Keeps(r, r2, c)
<1>1. r \in URec /\ Holding(r) /\ Going(r, c) /\ Naming(r)
    BY DEF Fits
<1>2. l \in PCs /\ "none" \in Rets /\ 0 \in 0..NINODE
    BY <1>1, Sizes, RecordTypes DEF PCs, Sleeps, Rets, Slots, Ino
<1>3. r2 \in URec
    BY <1>1, <1>2, RecordTypes, IdleType DEF URec
<1>4. Becomes(Idle, r2, l, 0, "none", 0, 0)
    BY <1>1, IdleType DEF URec, Becomes, Idle
<1>5. r2.off = o /\ r2.from = <<>> /\ r2.call = "none" /\ r2.fd = 0
    BY <1>1, IdleType DEF URec, SameName, Idle
<1>6. r2 \in URec /\ Becomes(Idle, r2, l, 0, "none", 0, 0)
      /\ r2.off = o /\ r2.from = <<>> /\ r2.call = "none" /\ r2.fd = 0
    BY <1>3, <1>4, <1>5
<1>7. Holding(r2)
    BY <1>1, <1>6, Sizes DEF Becomes, SameName, Holding, Going, Slots, WithSlot, WithIp,
       WithPdir, InNamei, WithName, InUnlink, Closing, Fetching, Putting, Allocating
<1>8. Going(r2, c)
    BY <1>1, <1>6, Sizes DEF Becomes, SameName, Going, Holding, Slots, WithSlot, WithIp,
       WithPdir, InNamei, WithName, InUnlink, Closing, Fetching, Putting, Allocating
<1>9. Naming(r2)
    BY <1>1, <1>6, Sizes DEF Becomes, SameName, Naming, Going, Holding, Ino, WithSlot,
       WithIp, WithPdir, InNamei, WithName, InUnlink, Closing, Fetching, Putting, Allocating
<1>10. ASSUME NEW x \in Slots PROVE Holds(r2, c, x) = Holds(r, c, x)
    BY <1>1, <1>6, Sizes DEF Becomes, SameName, Going, Holding, Holds, SlotRef, CdirRef, B,
       One, Slots, WithSlot, WithIp, WithPdir, InNamei, WithName, InUnlink, Closing,
       Fetching, Putting, Allocating
<1> QED
    BY <1>1, <1>6, <1>7, <1>8, <1>9, <1>10 DEF Keeps, Calm, Fits, Becomes, SameName,
       Holding, Going, Leaving, InExec, Sole, WithSlot, WithIp, WithPdir, InNamei, WithName,
       InUnlink, Closing, Fetching, Putting, Allocating

\* update goes on to the next slot.
LEMMA UpdGoesOn ==
    ASSUME NEW c \in Slots, NEW r, NEW r2, Fits(r, c), r.pc \in {"upd", "updwrite"},
           NEW o \in 1..(NINODE + 1),
           r2 = [r EXCEPT !.pc = "upd", !.off = o]
    PROVE  Keeps(r, r2, c)
<1>1. r \in URec /\ Holding(r) /\ Going(r, c) /\ Naming(r)
    BY DEF Fits
<1>2. "upd" \in PCs /\ o \in Nat
    BY <1>1, Sizes, RecordTypes DEF PCs, Sleeps, Rets, Slots, Ino
<1>3. r2 \in URec
    BY <1>1, <1>2, RecordTypes DEF URec
<1>4. Becomes(r, r2, "upd", r.slot, r.ret, r.ip, r.pdir)
    BY <1>1 DEF URec, Becomes
<1>5. r2.flag = r.flag /\ r2.path = r.path /\ r2.ino = r.ino /\ r2.from = r.from
      /\ r2.off = o
    BY <1>1 DEF URec, SameName
<1>6. r2 \in URec /\ Becomes(r, r2, "upd", r.slot, r.ret, r.ip, r.pdir)
      /\ r2.flag = r.flag /\ r2.path = r.path /\ r2.ino = r.ino /\ r2.from = r.from
      /\ r2.off = o
    BY <1>3, <1>4, <1>5
<1>7. Holding(r2)
    BY <1>1, <1>6, Sizes DEF Becomes, SameName, Holding, Going, Slots, WithSlot, WithIp,
       WithPdir, InNamei, WithName, InUnlink, Closing, Fetching, Putting, Allocating
<1>8. Going(r2, c)
    BY <1>1, <1>6, Sizes DEF Becomes, SameName, Going, Holding, Slots, WithSlot, WithIp,
       WithPdir, InNamei, WithName, InUnlink, Closing, Fetching, Putting, Allocating
<1>9. Naming(r2)
    BY <1>1, <1>6, Sizes DEF Becomes, SameName, Naming, Going, Holding, Ino, WithSlot,
       WithIp, WithPdir, InNamei, WithName, InUnlink, Closing, Fetching, Putting, Allocating
<1>10. ASSUME NEW x \in Slots PROVE Holds(r2, c, x) = Holds(r, c, x)
    BY <1>1, <1>6, Sizes DEF Becomes, SameName, Going, Holding, Holds, SlotRef, CdirRef, B,
       One, Slots, WithSlot, WithIp, WithPdir, InNamei, WithName, InUnlink, Closing,
       Fetching, Putting, Allocating
<1> QED
    BY <1>1, <1>6, <1>7, <1>8, <1>9, <1>10 DEF Keeps, Calm, Fits, Becomes, SameName,
       Holding, Going, Leaving, InExec, Sole, WithSlot, WithIp, WithPdir, InNamei, WithName,
       InUnlink, Closing, Fetching, Putting, Allocating

\* iget finds the table full, and there is nothing to put.
LEMMA IgetGivesUp ==
    ASSUME NEW c \in Slots, NEW r, NEW r2, Fits(r, c), r.pc = "iget", r.ret = "comp", r.ip = 0,
           r2 = Idle
    PROVE  Keeps(r, r2, c)
<1>1. r \in URec /\ Holding(r) /\ Going(r, c) /\ Naming(r)
    BY DEF Fits
<1>2. "user" \in PCs /\ "none" \in Rets /\ 0 \in 0..NINODE
    BY <1>1, Sizes, RecordTypes DEF PCs, Sleeps, Rets, Slots, Ino
<1>3. r2 \in URec
    BY <1>1, <1>2, RecordTypes, IdleType DEF URec
<1>4. Becomes(Idle, r2, "user", 0, "none", 0, 0)
    BY <1>1, IdleType DEF URec, Becomes, Idle
<1>5. r2.off = 0 /\ r2.from = <<>> /\ r2.call = "none" /\ r2.fd = 0
    BY <1>1, IdleType DEF URec, SameName, Idle
<1>6. r2 \in URec /\ Becomes(Idle, r2, "user", 0, "none", 0, 0)
      /\ r2.off = 0 /\ r2.from = <<>> /\ r2.call = "none" /\ r2.fd = 0
    BY <1>3, <1>4, <1>5
<1>7. Holding(r2)
    BY <1>1, <1>6, Sizes DEF Becomes, SameName, Holding, Going, Slots, WithSlot, WithIp,
       WithPdir, InNamei, WithName, InUnlink, Closing, Fetching, Putting, Allocating
<1>8. Going(r2, c)
    BY <1>1, <1>6, Sizes DEF Becomes, SameName, Going, Holding, Slots, WithSlot, WithIp,
       WithPdir, InNamei, WithName, InUnlink, Closing, Fetching, Putting, Allocating
<1>9. Naming(r2)
    BY <1>1, <1>6, Sizes DEF Becomes, SameName, Naming, Going, Holding, Ino, WithSlot,
       WithIp, WithPdir, InNamei, WithName, InUnlink, Closing, Fetching, Putting, Allocating
<1>10. ASSUME NEW x \in Slots PROVE Holds(r2, c, x) = Holds(r, c, x)
    BY <1>1, <1>6, Sizes DEF Becomes, SameName, Going, Holding, Holds, SlotRef, CdirRef, B,
       One, Slots, WithSlot, WithIp, WithPdir, InNamei, WithName, InUnlink, Closing,
       Fetching, Putting, Allocating
<1> QED
    BY <1>1, <1>6, <1>7, <1>8, <1>9, <1>10 DEF Keeps, Calm, Fits, Becomes, SameName,
       Holding, Going, Leaving, InExec, Sole, WithSlot, WithIp, WithPdir, InNamei, WithName,
       InUnlink, Closing, Fetching, Putting, Allocating

\* iget has locked the inode.
LEMMA IgetHas ==
    ASSUME NEW c \in Slots, NEW r, NEW r2, Fits(r, c), r.pc = "iget", NEW s \in Slots,
           r2 = [r EXCEPT !.pc = r.ret, !.slot = s]
    PROVE  /\ Fits(r2, c) /\ Takes(r, c, r2, c, s)
           /\ Calm(r, r2) /\ ~Sole(r2) /\ r2.pc \notin {"updwrite", "scan"}
<1>1. r \in URec /\ Holding(r) /\ Going(r, c) /\ Naming(r)
    BY DEF Fits
<1>2. s \in 0..NINODE /\ r.ret \in PCs
    BY <1>1, Sizes, RecordTypes DEF PCs, Sleeps, Rets, Slots, Ino, Going, Fetching
<1>3. r2 \in URec
    BY <1>1, <1>2, RecordTypes DEF URec
<1>4. Becomes(r, r2, r.ret, s, r.ret, r.ip, r.pdir)
    BY <1>1 DEF URec, Becomes
<1>5. SameName(r, r2)
    BY <1>1 DEF URec, SameName
<1>6. r2 \in URec /\ Becomes(r, r2, r.ret, s, r.ret, r.ip, r.pdir)
      /\ SameName(r, r2)
    BY <1>3, <1>4, <1>5
<1>7. Holding(r2)
    BY <1>1, <1>6, Sizes DEF Becomes, SameName, Holding, Going, Slots, WithSlot, WithIp,
       WithPdir, InNamei, WithName, InUnlink, Closing, Fetching, Putting, Allocating
<1>8. Going(r2, c)
    BY <1>1, <1>6, Sizes DEF Becomes, SameName, Going, Holding, Slots, WithSlot, WithIp,
       WithPdir, InNamei, WithName, InUnlink, Closing, Fetching, Putting, Allocating
<1>9. Naming(r2)
    BY <1>1, <1>6, Sizes DEF Becomes, SameName, Naming, Going, Holding, Ino, WithSlot,
       WithIp, WithPdir, InNamei, WithName, InUnlink, Closing, Fetching, Putting, Allocating
<1>10. ASSUME NEW x \in Slots PROVE Holds(r2, c, x) = Holds(r, c, x) + One(x, s)
    BY <1>1, <1>6, Sizes DEF Becomes, SameName, Going, Holding, Holds, SlotRef, CdirRef, B,
       One, Slots, WithSlot, WithIp, WithPdir, InNamei, WithName, InUnlink, Closing,
       Fetching, Putting, Allocating
<1>11. Takes(r, c, r2, c, s)
    BY <1>10 DEF Takes
<1> QED
    BY <1>1, <1>6, <1>7, <1>8, <1>9, <1>11 DEF Keeps, Calm, Fits, Becomes, SameName,
       Holding, Going, Leaving, InExec, Sole, WithSlot, WithIp, WithPdir, InNamei, WithName,
       InUnlink, Closing, Fetching, Putting, Allocating

\* iget has taken a slot for the inode.
LEMMA IgetReads ==
    ASSUME NEW c \in Slots, NEW r, NEW r2, Fits(r, c), r.pc = "iget", NEW s \in Slots,
           r2 = [r EXCEPT !.pc = "iread", !.slot = s]
    PROVE  /\ Fits(r2, c) /\ Takes(r, c, r2, c, s)
           /\ Calm(r, r2) /\ Sole(r2) /\ r2.slot = s /\ r2.pc \notin {"updwrite", "scan"}
<1>1. r \in URec /\ Holding(r) /\ Going(r, c) /\ Naming(r)
    BY DEF Fits
<1>2. "iread" \in PCs /\ s \in 0..NINODE
    BY <1>1, Sizes, RecordTypes DEF PCs, Sleeps, Rets, Slots, Ino
<1>3. r2 \in URec
    BY <1>1, <1>2, RecordTypes DEF URec
<1>4. Becomes(r, r2, "iread", s, r.ret, r.ip, r.pdir)
    BY <1>1 DEF URec, Becomes
<1>5. SameName(r, r2)
    BY <1>1 DEF URec, SameName
<1>6. r2 \in URec /\ Becomes(r, r2, "iread", s, r.ret, r.ip, r.pdir)
      /\ SameName(r, r2)
    BY <1>3, <1>4, <1>5
<1>7. Holding(r2)
    BY <1>1, <1>6, Sizes DEF Becomes, SameName, Holding, Going, Slots, WithSlot, WithIp,
       WithPdir, InNamei, WithName, InUnlink, Closing, Fetching, Putting, Allocating
<1>8. Going(r2, c)
    BY <1>1, <1>6, Sizes DEF Becomes, SameName, Going, Holding, Slots, WithSlot, WithIp,
       WithPdir, InNamei, WithName, InUnlink, Closing, Fetching, Putting, Allocating
<1>9. Naming(r2)
    BY <1>1, <1>6, Sizes DEF Becomes, SameName, Naming, Going, Holding, Ino, WithSlot,
       WithIp, WithPdir, InNamei, WithName, InUnlink, Closing, Fetching, Putting, Allocating
<1>10. ASSUME NEW x \in Slots PROVE Holds(r2, c, x) = Holds(r, c, x) + One(x, s)
    BY <1>1, <1>6, Sizes DEF Becomes, SameName, Going, Holding, Holds, SlotRef, CdirRef, B,
       One, Slots, WithSlot, WithIp, WithPdir, InNamei, WithName, InUnlink, Closing,
       Fetching, Putting, Allocating
<1>11. Takes(r, c, r2, c, s)
    BY <1>10 DEF Takes
<1> QED
    BY <1>1, <1>6, <1>7, <1>8, <1>9, <1>11 DEF Keeps, Calm, Fits, Becomes, SameName,
       Holding, Going, Leaving, InExec, Sole, WithSlot, WithIp, WithPdir, InNamei, WithName,
       InUnlink, Closing, Fetching, Putting, Allocating

\* The last iput truncates or writes the inode.
LEMMA IputGoesOn ==
    ASSUME NEW c \in Slots, NEW r, NEW r2, Fits(r, c), r.pc = "iput",
           NEW l \in {"itrunc", "iupdat"},
           r2 = [r EXCEPT !.pc = l]
    PROVE  /\ Fits(r2, c) /\ (\A x \in Slots : Holds(r2, c, x) = Holds(r, c, x))
           /\ Calm(r, r2) /\ Sole(r2) /\ r2.slot = r.slot /\ r2.pc \notin {"updwrite", "scan"}
<1>1. r \in URec /\ Holding(r) /\ Going(r, c) /\ Naming(r)
    BY DEF Fits
<1>2. l \in PCs
    BY <1>1, Sizes, RecordTypes DEF PCs, Sleeps, Rets, Slots, Ino
<1>3. r2 \in URec
    BY <1>1, <1>2, RecordTypes DEF URec
<1>4. Becomes(r, r2, l, r.slot, r.ret, r.ip, r.pdir)
    BY <1>1 DEF URec, Becomes
<1>5. SameName(r, r2)
    BY <1>1 DEF URec, SameName
<1>6. r2 \in URec /\ Becomes(r, r2, l, r.slot, r.ret, r.ip, r.pdir)
      /\ SameName(r, r2)
    BY <1>3, <1>4, <1>5
<1>7. Holding(r2)
    BY <1>1, <1>6, Sizes DEF Becomes, SameName, Holding, Going, Slots, WithSlot, WithIp,
       WithPdir, InNamei, WithName, InUnlink, Closing, Fetching, Putting, Allocating
<1>8. Going(r2, c)
    BY <1>1, <1>6, Sizes DEF Becomes, SameName, Going, Holding, Slots, WithSlot, WithIp,
       WithPdir, InNamei, WithName, InUnlink, Closing, Fetching, Putting, Allocating
<1>9. Naming(r2)
    BY <1>1, <1>6, Sizes DEF Becomes, SameName, Naming, Going, Holding, Ino, WithSlot,
       WithIp, WithPdir, InNamei, WithName, InUnlink, Closing, Fetching, Putting, Allocating
<1>10. ASSUME NEW x \in Slots PROVE Holds(r2, c, x) = Holds(r, c, x)
    BY <1>1, <1>6, Sizes DEF Becomes, SameName, Going, Holding, Holds, SlotRef, CdirRef, B,
       One, Slots, WithSlot, WithIp, WithPdir, InNamei, WithName, InUnlink, Closing,
       Fetching, Putting, Allocating
<1> QED
    BY <1>1, <1>6, <1>7, <1>8, <1>9, <1>10 DEF Keeps, Calm, Fits, Becomes, SameName,
       Holding, Going, Leaving, InExec, Sole, WithSlot, WithIp, WithPdir, InNamei, WithName,
       InUnlink, Closing, Fetching, Putting, Allocating

\* iput returns to the user.
LEMMA PutUser ==
    ASSUME NEW c \in Slots, NEW r, NEW r2, Fits(r, c), r.pc \in Putting, r.ret = "user",
           r2 = After(r)
    PROVE  /\ Fits(r2, c) /\ Gives(r, c, r2, c, r.slot)
           /\ Calm(r, r2) /\ ~Sole(r2) /\ r2.pc \notin {"updwrite", "scan"}
<1>1. r \in URec /\ Holding(r) /\ Going(r, c) /\ Naming(r)
    BY DEF Fits
<1>2. "user" \in PCs /\ "none" \in Rets /\ 0 \in 0..NINODE
    BY <1>1, Sizes, RecordTypes DEF PCs, Sleeps, Rets, Slots, Ino
<1>3. r2 \in URec
    BY <1>1, AfterType DEF Rets
<1>4. Becomes(Idle, r2, "user", 0, "none", 0, 0)
    BY <1>1, IdleType DEF URec, Becomes, Idle, After
<1>5. r2.off = 0 /\ r2.from = <<>> /\ r2.call = "none" /\ r2.fd = 0
    BY <1>1, IdleType DEF URec, SameName, Idle, After
<1>6. r2 \in URec /\ Becomes(Idle, r2, "user", 0, "none", 0, 0)
      /\ r2.off = 0 /\ r2.from = <<>> /\ r2.call = "none" /\ r2.fd = 0
    BY <1>3, <1>4, <1>5
<1>7. Holding(r2)
    BY <1>1, <1>6, Sizes DEF Becomes, SameName, Holding, Going, Slots, WithSlot, WithIp,
       WithPdir, InNamei, WithName, InUnlink, Closing, Fetching, Putting, Allocating
<1>8. Going(r2, c)
    BY <1>1, <1>6, Sizes DEF Becomes, SameName, Going, Holding, Slots, WithSlot, WithIp,
       WithPdir, InNamei, WithName, InUnlink, Closing, Fetching, Putting, Allocating
<1>9. Naming(r2)
    BY <1>1, <1>6, Sizes DEF Becomes, SameName, Naming, Going, Holding, Ino, WithSlot,
       WithIp, WithPdir, InNamei, WithName, InUnlink, Closing, Fetching, Putting, Allocating
<1>10. ASSUME NEW x \in Slots PROVE Holds(r2, c, x) = Holds(r, c, x) - One(x, r.slot)
    BY <1>1, <1>6, Sizes DEF Becomes, SameName, Going, Holding, Holds, SlotRef, CdirRef, B,
       One, Slots, WithSlot, WithIp, WithPdir, InNamei, WithName, InUnlink, Closing,
       Fetching, Putting, Allocating
<1>11. Gives(r, c, r2, c, r.slot)
    BY <1>10 DEF Gives
<1> QED
    BY <1>1, <1>6, <1>7, <1>8, <1>9, <1>11 DEF Keeps, Calm, Fits, Becomes, SameName,
       Holding, Going, Leaving, InExec, Sole, WithSlot, WithIp, WithPdir, InNamei, WithName,
       InUnlink, Closing, Fetching, Putting, Allocating

\* exit has put the current directory.
LEMMA PutDead ==
    ASSUME NEW c \in Slots, NEW r, NEW r2, Fits(r, c), r.pc \in Putting, r.ret = "dead",
           r2 = After(r)
    PROVE  /\ Fits(r2, c) /\ Gives(r, c, r2, c, r.slot)
           /\ Calm(r, r2) /\ ~Sole(r2) /\ r2.pc \notin {"updwrite", "scan"}
<1>1. r \in URec /\ Holding(r) /\ Going(r, c) /\ Naming(r)
    BY DEF Fits
<1>2. "dead" \in PCs /\ "none" \in Rets /\ 0 \in 0..NINODE
    BY <1>1, Sizes, RecordTypes DEF PCs, Sleeps, Rets, Slots, Ino
<1>3. r2 \in URec
    BY <1>1, AfterType DEF Rets
<1>4. Becomes(Idle, r2, "dead", 0, "none", 0, 0)
    BY <1>1, IdleType DEF URec, Becomes, Idle, After
<1>5. r2.off = 0 /\ r2.from = <<>> /\ r2.call = "none" /\ r2.fd = 0
    BY <1>1, IdleType DEF URec, SameName, Idle, After
<1>6. r2 \in URec /\ Becomes(Idle, r2, "dead", 0, "none", 0, 0)
      /\ r2.off = 0 /\ r2.from = <<>> /\ r2.call = "none" /\ r2.fd = 0
    BY <1>3, <1>4, <1>5
<1>7. Holding(r2)
    BY <1>1, <1>6, Sizes DEF Becomes, SameName, Holding, Going, Slots, WithSlot, WithIp,
       WithPdir, InNamei, WithName, InUnlink, Closing, Fetching, Putting, Allocating
<1>8. Going(r2, c)
    BY <1>1, <1>6, Sizes DEF Becomes, SameName, Going, Holding, Slots, WithSlot, WithIp,
       WithPdir, InNamei, WithName, InUnlink, Closing, Fetching, Putting, Allocating
<1>9. Naming(r2)
    BY <1>1, <1>6, Sizes DEF Becomes, SameName, Naming, Going, Holding, Ino, WithSlot,
       WithIp, WithPdir, InNamei, WithName, InUnlink, Closing, Fetching, Putting, Allocating
<1>10. ASSUME NEW x \in Slots PROVE Holds(r2, c, x) = Holds(r, c, x) - One(x, r.slot)
    BY <1>1, <1>6, Sizes DEF Becomes, SameName, Going, Holding, Holds, SlotRef, CdirRef, B,
       One, Slots, WithSlot, WithIp, WithPdir, InNamei, WithName, InUnlink, Closing,
       Fetching, Putting, Allocating
<1>11. Gives(r, c, r2, c, r.slot)
    BY <1>10 DEF Gives
<1> QED
    BY <1>1, <1>6, <1>7, <1>8, <1>9, <1>11 DEF Keeps, Calm, Fits, Becomes, SameName,
       Holding, Going, Leaving, InExec, Sole, WithSlot, WithIp, WithPdir, InNamei, WithName,
       InUnlink, Closing, Fetching, Putting, Allocating

\* iput returns to put the inode in ip.
LEMMA PutLast ==
    ASSUME NEW c \in Slots, NEW r, NEW r2, Fits(r, c), r.pc \in Putting, r.ret = "last",
           r2 = After(r)
    PROVE  /\ Fits(r2, c) /\ Gives(r, c, r2, c, r.slot)
           /\ Calm(r, r2) /\ ~Sole(r2) /\ r2.pc \notin {"updwrite", "scan"}
<1>1. r \in URec /\ Holding(r) /\ Going(r, c) /\ Naming(r)
    BY DEF Fits
<1>2. "iput" \in PCs /\ "user" \in Rets /\ 0 \in 0..NINODE
    BY <1>1, Sizes, RecordTypes DEF PCs, Sleeps, Rets, Slots, Ino
<1>3. r2 \in URec
    BY <1>1, AfterType DEF Rets
<1>4. Becomes(r, r2, "iput", r.ip, "user", 0, r.pdir)
    BY <1>1 DEF URec, Becomes, After, CallIput
<1>5. SameName(r, r2)
    BY <1>1 DEF URec, SameName, After, CallIput
<1>6. r2 \in URec /\ Becomes(r, r2, "iput", r.ip, "user", 0, r.pdir)
      /\ SameName(r, r2)
    BY <1>3, <1>4, <1>5
<1>7. Holding(r2)
    BY <1>1, <1>6, Sizes DEF Becomes, SameName, Holding, Going, Slots, WithSlot, WithIp,
       WithPdir, InNamei, WithName, InUnlink, Closing, Fetching, Putting, Allocating
<1>8. Going(r2, c)
    BY <1>1, <1>6, Sizes DEF Becomes, SameName, Going, Holding, Slots, WithSlot, WithIp,
       WithPdir, InNamei, WithName, InUnlink, Closing, Fetching, Putting, Allocating
<1>9. Naming(r2)
    BY <1>1, <1>6, Sizes DEF Becomes, SameName, Naming, Going, Holding, Ino, WithSlot,
       WithIp, WithPdir, InNamei, WithName, InUnlink, Closing, Fetching, Putting, Allocating
<1>10. ASSUME NEW x \in Slots PROVE Holds(r2, c, x) = Holds(r, c, x) - One(x, r.slot)
    BY <1>1, <1>6, Sizes DEF Becomes, SameName, Going, Holding, Holds, SlotRef, CdirRef, B,
       One, Slots, WithSlot, WithIp, WithPdir, InNamei, WithName, InUnlink, Closing,
       Fetching, Putting, Allocating
<1>11. Gives(r, c, r2, c, r.slot)
    BY <1>10 DEF Gives
<1> QED
    BY <1>1, <1>6, <1>7, <1>8, <1>9, <1>11 DEF Keeps, Calm, Fits, Becomes, SameName,
       Holding, Going, Leaving, InExec, Sole, WithSlot, WithIp, WithPdir, InNamei, WithName,
       InUnlink, Closing, Fetching, Putting, Allocating

\* namei has put the directory and gets the next inode.
LEMMA PutIget ==
    ASSUME NEW c \in Slots, NEW r, NEW r2, Fits(r, c), r.pc \in Putting, r.ret = "iget",
           r2 = After(r)
    PROVE  /\ Fits(r2, c) /\ Gives(r, c, r2, c, r.slot)
           /\ Calm(r, r2) /\ ~Sole(r2) /\ r2.pc \notin {"updwrite", "scan"}
<1>1. r \in URec /\ Holding(r) /\ Going(r, c) /\ Naming(r)
    BY DEF Fits
<1>2. "iget" \in PCs /\ "comp" \in Rets /\ 0 \in 0..NINODE
    BY <1>1, Sizes, RecordTypes DEF PCs, Sleeps, Rets, Slots, Ino
<1>3. r2 \in URec
    BY <1>1, AfterType DEF Rets
<1>4. Becomes(r, r2, "iget", 0, "comp", r.ip, r.pdir)
    BY <1>1 DEF URec, Becomes, After, CallIget
<1>5. SameName(r, r2)
    BY <1>1 DEF URec, SameName, After, CallIget
<1>6. r2 \in URec /\ Becomes(r, r2, "iget", 0, "comp", r.ip, r.pdir)
      /\ SameName(r, r2)
    BY <1>3, <1>4, <1>5
<1>7. Holding(r2)
    BY <1>1, <1>6, Sizes DEF Becomes, SameName, Holding, Going, Slots, WithSlot, WithIp,
       WithPdir, InNamei, WithName, InUnlink, Closing, Fetching, Putting, Allocating
<1>8. Going(r2, c)
    BY <1>1, <1>6, Sizes DEF Becomes, SameName, Going, Holding, Slots, WithSlot, WithIp,
       WithPdir, InNamei, WithName, InUnlink, Closing, Fetching, Putting, Allocating
<1>9. Naming(r2)
    BY <1>1, <1>6, Sizes DEF Becomes, SameName, Naming, Going, Holding, Ino, WithSlot,
       WithIp, WithPdir, InNamei, WithName, InUnlink, Closing, Fetching, Putting, Allocating
<1>10. ASSUME NEW x \in Slots PROVE Holds(r2, c, x) = Holds(r, c, x) - One(x, r.slot)
    BY <1>1, <1>6, Sizes DEF Becomes, SameName, Going, Holding, Holds, SlotRef, CdirRef, B,
       One, Slots, WithSlot, WithIp, WithPdir, InNamei, WithName, InUnlink, Closing,
       Fetching, Putting, Allocating
<1>11. Gives(r, c, r2, c, r.slot)
    BY <1>10 DEF Gives
<1> QED
    BY <1>1, <1>6, <1>7, <1>8, <1>9, <1>11 DEF Keeps, Calm, Fits, Becomes, SameName,
       Holding, Going, Leaving, InExec, Sole, WithSlot, WithIp, WithPdir, InNamei, WithName,
       InUnlink, Closing, Fetching, Putting, Allocating

\* iput returns to its caller.
LEMMA PutOther ==
    ASSUME NEW c \in Slots, NEW r, NEW r2, Fits(r, c), r.pc \in Putting,
           r.ret \in {"wdone", "iloop", "chdir", "exdone"},
           r2 = After(r)
    PROVE  /\ Fits(r2, c) /\ Gives(r, c, r2, c, r.slot)
           /\ Calm(r, r2) /\ ~Sole(r2) /\ r2.pc \notin {"updwrite", "scan"}
<1>1. r \in URec /\ Holding(r) /\ Going(r, c) /\ Naming(r)
    BY DEF Fits
<1>2. 0 \in 0..NINODE /\ r.ret \in PCs
    BY <1>1, Sizes, RecordTypes DEF PCs, Sleeps, Rets, Slots, Ino
<1>3. r2 \in URec
    BY <1>1, AfterType DEF Rets
<1>4. Becomes(r, r2, r.ret, 0, r.ret, r.ip, r.pdir)
    BY <1>1 DEF URec, Becomes, After
<1>5. SameName(r, r2)
    BY <1>1 DEF URec, SameName, After
<1>6. r2 \in URec /\ Becomes(r, r2, r.ret, 0, r.ret, r.ip, r.pdir)
      /\ SameName(r, r2)
    BY <1>3, <1>4, <1>5
<1>7. Holding(r2)
    BY <1>1, <1>6, Sizes DEF Becomes, SameName, Holding, Going, Slots, WithSlot, WithIp,
       WithPdir, InNamei, WithName, InUnlink, Closing, Fetching, Putting, Allocating
<1>8. Going(r2, c)
    BY <1>1, <1>6, Sizes DEF Becomes, SameName, Going, Holding, Slots, WithSlot, WithIp,
       WithPdir, InNamei, WithName, InUnlink, Closing, Fetching, Putting, Allocating
<1>9. Naming(r2)
    BY <1>1, <1>6, Sizes DEF Becomes, SameName, Naming, Going, Holding, Ino, WithSlot,
       WithIp, WithPdir, InNamei, WithName, InUnlink, Closing, Fetching, Putting, Allocating
<1>10. ASSUME NEW x \in Slots PROVE Holds(r2, c, x) = Holds(r, c, x) - One(x, r.slot)
    BY <1>1, <1>6, Sizes DEF Becomes, SameName, Going, Holding, Holds, SlotRef, CdirRef, B,
       One, Slots, WithSlot, WithIp, WithPdir, InNamei, WithName, InUnlink, Closing,
       Fetching, Putting, Allocating
<1>11. Gives(r, c, r2, c, r.slot)
    BY <1>10 DEF Gives
<1> QED
    BY <1>1, <1>6, <1>7, <1>8, <1>9, <1>11 DEF Keeps, Calm, Fits, Becomes, SameName,
       Holding, Going, Leaving, InExec, Sole, WithSlot, WithIp, WithPdir, InNamei, WithName,
       InUnlink, Closing, Fetching, Putting, Allocating

\* close has put the inode of the file.
LEMMA PutClosed ==
    ASSUME NEW c \in Slots, NEW r, NEW r2, Fits(r, c), r.pc \in Putting, r.ret = "closed",
           r2 = After(r)
    PROVE  /\ Fits(r2, c) /\ (\A x \in Slots : Holds(r2, c, x) = Holds(r, c, x))
           /\ r2.pc = "closed" /\ r2.fd = r.fd /\ (InExec(r2) <=> InExec(r))
<1>1. r \in URec /\ Holding(r) /\ Going(r, c) /\ Naming(r)
    BY DEF Fits
<1>2. "closed" \in PCs /\ 0 \in 0..NINODE
    BY <1>1, Sizes, RecordTypes DEF PCs, Sleeps, Rets, Slots, Ino
<1>3. r2 \in URec
    BY <1>1, AfterType DEF Rets
<1>4. Becomes(r, r2, "closed", 0, r.ret, r.ip, r.pdir)
    BY <1>1 DEF URec, Becomes, After
<1>5. SameName(r, r2)
    BY <1>1 DEF URec, SameName, After
<1>6. r2 \in URec /\ Becomes(r, r2, "closed", 0, r.ret, r.ip, r.pdir)
      /\ SameName(r, r2)
    BY <1>3, <1>4, <1>5
<1>7. Holding(r2)
    BY <1>1, <1>6, Sizes DEF Becomes, SameName, Holding, Going, Slots, WithSlot, WithIp,
       WithPdir, InNamei, WithName, InUnlink, Closing, Fetching, Putting, Allocating
<1>8. Going(r2, c)
    BY <1>1, <1>6, Sizes DEF Becomes, SameName, Going, Holding, Slots, WithSlot, WithIp,
       WithPdir, InNamei, WithName, InUnlink, Closing, Fetching, Putting, Allocating
<1>9. Naming(r2)
    BY <1>1, <1>6, Sizes DEF Becomes, SameName, Naming, Going, Holding, Ino, WithSlot,
       WithIp, WithPdir, InNamei, WithName, InUnlink, Closing, Fetching, Putting, Allocating
<1>10. ASSUME NEW x \in Slots PROVE Holds(r2, c, x) = Holds(r, c, x)
    BY <1>1, <1>6, Sizes DEF Becomes, SameName, Going, Holding, Holds, SlotRef, CdirRef, B,
       One, Slots, WithSlot, WithIp, WithPdir, InNamei, WithName, InUnlink, Closing,
       Fetching, Putting, Allocating
<1> QED
    BY <1>1, <1>6, <1>7, <1>8, <1>9, <1>10 DEF Keeps, Calm, Fits, Becomes, SameName,
       Holding, Going, Leaving, InExec, Sole, WithSlot, WithIp, WithPdir, InNamei, WithName,
       InUnlink, Closing, Fetching, Putting, Allocating

\* open1 gives the inode to the file.
LEMMA OpenDone ==
    ASSUME NEW c \in Slots, NEW r, NEW r2, Fits(r, c), r.pc = "open1",
           r2 = Idle
    PROVE  /\ Fits(r2, c) /\ Gives(r, c, r2, c, r.slot)
           /\ Calm(r, r2) /\ ~Sole(r2) /\ r2.pc \notin {"updwrite", "scan"}
<1>1. r \in URec /\ Holding(r) /\ Going(r, c) /\ Naming(r)
    BY DEF Fits
<1>2. "user" \in PCs /\ "none" \in Rets /\ 0 \in 0..NINODE
    BY <1>1, Sizes, RecordTypes DEF PCs, Sleeps, Rets, Slots, Ino
<1>3. r2 \in URec
    BY <1>1, <1>2, RecordTypes, IdleType DEF URec
<1>4. Becomes(Idle, r2, "user", 0, "none", 0, 0)
    BY <1>1, IdleType DEF URec, Becomes, Idle
<1>5. r2.off = 0 /\ r2.from = <<>> /\ r2.call = "none" /\ r2.fd = 0
    BY <1>1, IdleType DEF URec, SameName, Idle
<1>6. r2 \in URec /\ Becomes(Idle, r2, "user", 0, "none", 0, 0)
      /\ r2.off = 0 /\ r2.from = <<>> /\ r2.call = "none" /\ r2.fd = 0
    BY <1>3, <1>4, <1>5
<1>7. Holding(r2)
    BY <1>1, <1>6, Sizes DEF Becomes, SameName, Holding, Going, Slots, WithSlot, WithIp,
       WithPdir, InNamei, WithName, InUnlink, Closing, Fetching, Putting, Allocating
<1>8. Going(r2, c)
    BY <1>1, <1>6, Sizes DEF Becomes, SameName, Going, Holding, Slots, WithSlot, WithIp,
       WithPdir, InNamei, WithName, InUnlink, Closing, Fetching, Putting, Allocating
<1>9. Naming(r2)
    BY <1>1, <1>6, Sizes DEF Becomes, SameName, Naming, Going, Holding, Ino, WithSlot,
       WithIp, WithPdir, InNamei, WithName, InUnlink, Closing, Fetching, Putting, Allocating
<1>10. ASSUME NEW x \in Slots PROVE Holds(r2, c, x) = Holds(r, c, x) - One(x, r.slot)
    BY <1>1, <1>6, Sizes DEF Becomes, SameName, Going, Holding, Holds, SlotRef, CdirRef, B,
       One, Slots, WithSlot, WithIp, WithPdir, InNamei, WithName, InUnlink, Closing,
       Fetching, Putting, Allocating
<1>11. Gives(r, c, r2, c, r.slot)
    BY <1>10 DEF Gives
<1> QED
    BY <1>1, <1>6, <1>7, <1>8, <1>9, <1>11 DEF Keeps, Calm, Fits, Becomes, SameName,
       Holding, Going, Leaving, InExec, Sole, WithSlot, WithIp, WithPdir, InNamei, WithName,
       InUnlink, Closing, Fetching, Putting, Allocating

\* chdir changes the current directory.
LEMMA ChdirDone ==
    ASSUME NEW c \in Slots, NEW r, NEW r2, Fits(r, c), r.pc = "chdir",
           r2 = Idle
    PROVE  /\ Fits(r2, r.ip) /\ (\A x \in Slots : Holds(r2, r.ip, x) = Holds(r, c, x))
           /\ Calm(r, r2) /\ ~Sole(r2) /\ r2.pc \notin {"updwrite", "scan"}
<1>1. r \in URec /\ Holding(r) /\ Going(r, c) /\ Naming(r)
    BY DEF Fits
<1>2. "user" \in PCs /\ "none" \in Rets /\ 0 \in 0..NINODE
    BY <1>1, Sizes, RecordTypes DEF PCs, Sleeps, Rets, Slots, Ino
<1>3. r2 \in URec
    BY <1>1, <1>2, RecordTypes, IdleType DEF URec
<1>4. Becomes(Idle, r2, "user", 0, "none", 0, 0)
    BY <1>1, IdleType DEF URec, Becomes, Idle
<1>5. r2.off = 0 /\ r2.from = <<>> /\ r2.call = "none" /\ r2.fd = 0
    BY <1>1, IdleType DEF URec, SameName, Idle
<1>6. r2 \in URec /\ Becomes(Idle, r2, "user", 0, "none", 0, 0)
      /\ r2.off = 0 /\ r2.from = <<>> /\ r2.call = "none" /\ r2.fd = 0
    BY <1>3, <1>4, <1>5
<1>7. Holding(r2)
    BY <1>1, <1>6, Sizes DEF Becomes, SameName, Holding, Going, Slots, WithSlot, WithIp,
       WithPdir, InNamei, WithName, InUnlink, Closing, Fetching, Putting, Allocating
<1>8. Going(r2, r.ip)
    BY <1>1, <1>6, Sizes DEF Becomes, SameName, Going, Holding, Slots, WithSlot, WithIp,
       WithPdir, InNamei, WithName, InUnlink, Closing, Fetching, Putting, Allocating
<1>9. Naming(r2)
    BY <1>1, <1>6, Sizes DEF Becomes, SameName, Naming, Going, Holding, Ino, WithSlot,
       WithIp, WithPdir, InNamei, WithName, InUnlink, Closing, Fetching, Putting, Allocating
<1>10. ASSUME NEW x \in Slots PROVE Holds(r2, r.ip, x) = Holds(r, c, x)
    BY <1>1, <1>6, Sizes DEF Becomes, SameName, Going, Holding, Holds, SlotRef, CdirRef, B,
       One, Slots, WithSlot, WithIp, WithPdir, InNamei, WithName, InUnlink, Closing,
       Fetching, Putting, Allocating
<1> QED
    BY <1>1, <1>6, <1>7, <1>8, <1>9, <1>10 DEF Keeps, Calm, Fits, Becomes, SameName,
       Holding, Going, Leaving, InExec, Sole, WithSlot, WithIp, WithPdir, InNamei, WithName,
       InUnlink, Closing, Fetching, Putting, Allocating

\* closef puts the inode of the file.
LEMMA ClosePuts ==
    ASSUME NEW c \in Slots, NEW r, NEW r2, Fits(r, c), r.pc \in {"user", "exit"},
           NEW s \in Slots,
           NEW f \in 1..NFILE, NEW k \in {"close", "exit"},
           r2 = CallIput(Closer(k, f), s, "closed")
    PROVE  /\ Fits(r2, c) /\ Evens(r, c, r2, c)
           /\ Closing(r2) /\ r2.slot = s /\ r2.fd = f /\ r.fd = 0 /\ ~InExec(r2) /\ ~InExec(r)
           /\ r2.pc = "iput"
<1>1. r \in URec /\ Holding(r) /\ Going(r, c) /\ Naming(r)
    BY DEF Fits
<1>2. "iput" \in PCs /\ "closed" \in Rets /\ 0 \in 0..NINODE /\ s \in 0..NINODE
         /\ "closed" \in PCs /\ f \in 0..NFILE
      /\ k \in CallNames \cup {"none", "close", "exit"}
    BY <1>1, Sizes, RecordTypes DEF PCs, Sleeps, Rets, Slots, Ino
<1>3. r2 \in URec
    BY <1>1, <1>2, RecordTypes, IdleType DEF URec, Closer, CallIput
<1>4. Becomes([Idle EXCEPT !.call = k, !.fd = f], r2, "iput", s, "closed", 0, 0)
    BY <1>1, IdleType DEF URec, Becomes, Closer, Idle, CallIput
<1>5. r2.call = k /\ r2.fd = f /\ r2.from = <<>>
    BY <1>1, IdleType DEF URec, SameName, Closer, Idle, CallIput
<1>6. r2 \in URec /\ Becomes([Idle EXCEPT !.call = k, !.fd = f], r2, "iput", s, "closed", 0, 0)
      /\ r2.call = k /\ r2.fd = f /\ r2.from = <<>>
    BY <1>3, <1>4, <1>5
<1>7. Holding(r2)
    BY <1>1, <1>6, Sizes DEF Becomes, SameName, Holding, Going, Slots, WithSlot, WithIp,
       WithPdir, InNamei, WithName, InUnlink, Closing, Fetching, Putting, Allocating
<1>8. Going(r2, c)
    BY <1>1, <1>6, Sizes DEF Becomes, SameName, Going, Holding, Slots, WithSlot, WithIp,
       WithPdir, InNamei, WithName, InUnlink, Closing, Fetching, Putting, Allocating
<1>9. Naming(r2)
    BY <1>1, <1>6, Sizes DEF Becomes, SameName, Naming, Going, Holding, Ino, WithSlot,
       WithIp, WithPdir, InNamei, WithName, InUnlink, Closing, Fetching, Putting, Allocating
<1>10. ASSUME NEW x \in Slots PROVE Holds(r2, c, x) = Holds(r, c, x)
    BY <1>1, <1>6, Sizes DEF Becomes, SameName, Going, Holding, Holds, SlotRef, CdirRef, B,
       One, Slots, WithSlot, WithIp, WithPdir, InNamei, WithName, InUnlink, Closing,
       Fetching, Putting, Allocating
<1>11. Evens(r, c, r2, c)
    BY <1>10 DEF Evens
<1> QED
    BY <1>1, <1>6, <1>7, <1>8, <1>9, <1>11 DEF Keeps, Calm, Fits, Becomes, SameName,
       Holding, Going, Leaving, InExec, Sole, WithSlot, WithIp, WithPdir, InNamei, WithName,
       InUnlink, Closing, Fetching, Putting, Allocating

\* closef has only to count.
LEMMA CloseCounts ==
    ASSUME NEW c \in Slots, NEW r, NEW r2, Fits(r, c), r.pc \in {"user", "exit"},
           NEW f \in 1..NFILE, NEW k \in {"close", "exit"},
           r2 = Closer(k, f)
    PROVE  /\ Fits(r2, c) /\ Evens(r, c, r2, c)
           /\ r2.pc = "closed" /\ r2.fd = f /\ r.fd = 0 /\ ~InExec(r2) /\ ~InExec(r)
<1>1. r \in URec /\ Holding(r) /\ Going(r, c) /\ Naming(r)
    BY DEF Fits
<1>2. "closed" \in PCs /\ "none" \in Rets /\ 0 \in 0..NINODE /\ f \in 0..NFILE
      /\ k \in CallNames \cup {"none", "close", "exit"}
    BY <1>1, Sizes, RecordTypes DEF PCs, Sleeps, Rets, Slots, Ino
<1>3. r2 \in URec
    BY <1>1, <1>2, RecordTypes, IdleType DEF URec, Closer
<1>4. Becomes([Idle EXCEPT !.call = k, !.fd = f], r2, "closed", 0, "none", 0, 0)
    BY <1>1, IdleType DEF URec, Becomes, Closer, Idle
<1>5. r2.call = k /\ r2.fd = f /\ r2.from = <<>>
    BY <1>1, IdleType DEF URec, SameName, Closer, Idle
<1>6. r2 \in URec /\ Becomes([Idle EXCEPT !.call = k, !.fd = f], r2, "closed", 0, "none", 0, 0)
      /\ r2.call = k /\ r2.fd = f /\ r2.from = <<>>
    BY <1>3, <1>4, <1>5
<1>7. Holding(r2)
    BY <1>1, <1>6, Sizes DEF Becomes, SameName, Holding, Going, Slots, WithSlot, WithIp,
       WithPdir, InNamei, WithName, InUnlink, Closing, Fetching, Putting, Allocating
<1>8. Going(r2, c)
    BY <1>1, <1>6, Sizes DEF Becomes, SameName, Going, Holding, Slots, WithSlot, WithIp,
       WithPdir, InNamei, WithName, InUnlink, Closing, Fetching, Putting, Allocating
<1>9. Naming(r2)
    BY <1>1, <1>6, Sizes DEF Becomes, SameName, Naming, Going, Holding, Ino, WithSlot,
       WithIp, WithPdir, InNamei, WithName, InUnlink, Closing, Fetching, Putting, Allocating
<1>10. ASSUME NEW x \in Slots PROVE Holds(r2, c, x) = Holds(r, c, x)
    BY <1>1, <1>6, Sizes DEF Becomes, SameName, Going, Holding, Holds, SlotRef, CdirRef, B,
       One, Slots, WithSlot, WithIp, WithPdir, InNamei, WithName, InUnlink, Closing,
       Fetching, Putting, Allocating
<1>11. Evens(r, c, r2, c)
    BY <1>10 DEF Evens
<1> QED
    BY <1>1, <1>6, <1>7, <1>8, <1>9, <1>11 DEF Keeps, Calm, Fits, Becomes, SameName,
       Holding, Going, Leaving, InExec, Sole, WithSlot, WithIp, WithPdir, InNamei, WithName,
       InUnlink, Closing, Fetching, Putting, Allocating

\* close has counted the file down.
LEMMA CloseEnds ==
    ASSUME NEW c \in Slots, NEW r, NEW r2, Fits(r, c), r.pc = "closed",
           NEW l \in {"user", "exit"},
           r2 = [Idle EXCEPT !.pc = l]
    PROVE  /\ Fits(r2, c) /\ (\A x \in Slots : Holds(r2, c, x) = Holds(r, c, x))
           /\ r2.fd = 0 /\ r.fd # 0 /\ ~InExec(r2) /\ ~InExec(r)
           /\ ~Closing(r2) /\ ~Leaving(r2) /\ ~Sole(r2)
                 /\ r2.pc \notin {"closed", "updwrite", "scan"}
<1>1. r \in URec /\ Holding(r) /\ Going(r, c) /\ Naming(r)
    BY DEF Fits
<1>2. l \in PCs /\ "none" \in Rets /\ 0 \in 0..NINODE
    BY <1>1, Sizes, RecordTypes DEF PCs, Sleeps, Rets, Slots, Ino
<1>3. r2 \in URec
    BY <1>1, <1>2, RecordTypes, IdleType DEF URec
<1>4. Becomes(Idle, r2, l, 0, "none", 0, 0)
    BY <1>1, IdleType DEF URec, Becomes, Idle
<1>5. r2.off = 0 /\ r2.from = <<>> /\ r2.call = "none" /\ r2.fd = 0
    BY <1>1, IdleType DEF URec, SameName, Idle
<1>6. r2 \in URec /\ Becomes(Idle, r2, l, 0, "none", 0, 0)
      /\ r2.off = 0 /\ r2.from = <<>> /\ r2.call = "none" /\ r2.fd = 0
    BY <1>3, <1>4, <1>5
<1>7. Holding(r2)
    BY <1>1, <1>6, Sizes DEF Becomes, SameName, Holding, Going, Slots, WithSlot, WithIp,
       WithPdir, InNamei, WithName, InUnlink, Closing, Fetching, Putting, Allocating
<1>8. Going(r2, c)
    BY <1>1, <1>6, Sizes DEF Becomes, SameName, Going, Holding, Slots, WithSlot, WithIp,
       WithPdir, InNamei, WithName, InUnlink, Closing, Fetching, Putting, Allocating
<1>9. Naming(r2)
    BY <1>1, <1>6, Sizes DEF Becomes, SameName, Naming, Going, Holding, Ino, WithSlot,
       WithIp, WithPdir, InNamei, WithName, InUnlink, Closing, Fetching, Putting, Allocating
<1>10. ASSUME NEW x \in Slots PROVE Holds(r2, c, x) = Holds(r, c, x)
    BY <1>1, <1>6, Sizes DEF Becomes, SameName, Going, Holding, Holds, SlotRef, CdirRef, B,
       One, Slots, WithSlot, WithIp, WithPdir, InNamei, WithName, InUnlink, Closing,
       Fetching, Putting, Allocating
<1> QED
    BY <1>1, <1>6, <1>7, <1>8, <1>9, <1>10 DEF Keeps, Calm, Fits, Becomes, SameName,
       Holding, Going, Leaving, InExec, Sole, WithSlot, WithIp, WithPdir, InNamei, WithName,
       InUnlink, Closing, Fetching, Putting, Allocating

\* exit puts the current directory.
LEMMA ExitPuts ==
    ASSUME NEW c \in Slots, NEW r, NEW r2, Fits(r, c), r.pc = "exit",
           r2 = CallIput(r, c, "dead")
    PROVE  /\ Fits(r2, c) /\ (\A x \in Slots : Holds(r2, c, x) = Holds(r, c, x))
           /\ r2.fd = r.fd /\ r2.fd = 0 /\ ~InExec(r2) /\ ~InExec(r) /\ ~Closing(r2)
                 /\ ~Sole(r2)
           /\ r2.pc \notin {"closed", "updwrite", "scan"}
<1>1. r \in URec /\ Holding(r) /\ Going(r, c) /\ Naming(r)
    BY DEF Fits
<1>2. "iput" \in PCs /\ "dead" \in Rets /\ c \in 0..NINODE
    BY <1>1, Sizes, RecordTypes DEF PCs, Sleeps, Rets, Slots, Ino
<1>3. r2 \in URec
    BY <1>1, <1>2, RecordTypes DEF URec, CallIput
<1>4. Becomes(r, r2, "iput", c, "dead", r.ip, r.pdir)
    BY <1>1 DEF URec, Becomes, CallIput
<1>5. SameName(r, r2)
    BY <1>1 DEF URec, SameName, CallIput
<1>6. r2 \in URec /\ Becomes(r, r2, "iput", c, "dead", r.ip, r.pdir)
      /\ SameName(r, r2)
    BY <1>3, <1>4, <1>5
<1>7. Holding(r2)
    BY <1>1, <1>6, Sizes DEF Becomes, SameName, Holding, Going, Slots, WithSlot, WithIp,
       WithPdir, InNamei, WithName, InUnlink, Closing, Fetching, Putting, Allocating
<1>8. Going(r2, c)
    BY <1>1, <1>6, Sizes DEF Becomes, SameName, Going, Holding, Slots, WithSlot, WithIp,
       WithPdir, InNamei, WithName, InUnlink, Closing, Fetching, Putting, Allocating
<1>9. Naming(r2)
    BY <1>1, <1>6, Sizes DEF Becomes, SameName, Naming, Going, Holding, Ino, WithSlot,
       WithIp, WithPdir, InNamei, WithName, InUnlink, Closing, Fetching, Putting, Allocating
<1>10. ASSUME NEW x \in Slots PROVE Holds(r2, c, x) = Holds(r, c, x)
    BY <1>1, <1>6, Sizes DEF Becomes, SameName, Going, Holding, Holds, SlotRef, CdirRef, B,
       One, Slots, WithSlot, WithIp, WithPdir, InNamei, WithName, InUnlink, Closing,
       Fetching, Putting, Allocating
<1> QED
    BY <1>1, <1>6, <1>7, <1>8, <1>9, <1>10 DEF Keeps, Calm, Fits, Becomes, SameName,
       Holding, Going, Leaving, InExec, Sole, WithSlot, WithIp, WithPdir, InNamei, WithName,
       InUnlink, Closing, Fetching, Putting, Allocating

\* A child begins in the current directory of its parent.
LEMMA ForkBegins ==
    ASSUME NEW c \in Slots, NEW r, NEW r2, Fits(r, c), r.pc = "dead", NEW c2 \in Slots,
           r2 = Idle
    PROVE  /\ Fits(r2, c2) /\ Takes(r, c, r2, c2, c2)
           /\ Calm(r, r2) /\ ~Sole(r2) /\ r2.pc \notin {"updwrite", "scan"}
<1>1. r \in URec /\ Holding(r) /\ Going(r, c) /\ Naming(r)
    BY DEF Fits
<1>2. "user" \in PCs /\ "none" \in Rets /\ 0 \in 0..NINODE
    BY <1>1, Sizes, RecordTypes DEF PCs, Sleeps, Rets, Slots, Ino
<1>3. r2 \in URec
    BY <1>1, <1>2, RecordTypes, IdleType DEF URec
<1>4. Becomes(Idle, r2, "user", 0, "none", 0, 0)
    BY <1>1, IdleType DEF URec, Becomes, Idle
<1>5. r2.off = 0 /\ r2.from = <<>> /\ r2.call = "none" /\ r2.fd = 0
    BY <1>1, IdleType DEF URec, SameName, Idle
<1>6. r2 \in URec /\ Becomes(Idle, r2, "user", 0, "none", 0, 0)
      /\ r2.off = 0 /\ r2.from = <<>> /\ r2.call = "none" /\ r2.fd = 0
    BY <1>3, <1>4, <1>5
<1>7. Holding(r2)
    BY <1>1, <1>6, Sizes DEF Becomes, SameName, Holding, Going, Slots, WithSlot, WithIp,
       WithPdir, InNamei, WithName, InUnlink, Closing, Fetching, Putting, Allocating
<1>8. Going(r2, c2)
    BY <1>1, <1>6, Sizes DEF Becomes, SameName, Going, Holding, Slots, WithSlot, WithIp,
       WithPdir, InNamei, WithName, InUnlink, Closing, Fetching, Putting, Allocating
<1>9. Naming(r2)
    BY <1>1, <1>6, Sizes DEF Becomes, SameName, Naming, Going, Holding, Ino, WithSlot,
       WithIp, WithPdir, InNamei, WithName, InUnlink, Closing, Fetching, Putting, Allocating
<1>10. ASSUME NEW x \in Slots PROVE Holds(r2, c2, x) = Holds(r, c, x) + One(x, c2)
    BY <1>1, <1>6, Sizes DEF Becomes, SameName, Going, Holding, Holds, SlotRef, CdirRef, B,
       One, Slots, WithSlot, WithIp, WithPdir, InNamei, WithName, InUnlink, Closing,
       Fetching, Putting, Allocating
<1>11. Takes(r, c, r2, c2, c2)
    BY <1>10 DEF Takes
<1> QED
    BY <1>1, <1>6, <1>7, <1>8, <1>9, <1>11 DEF Keeps, Calm, Fits, Becomes, SameName,
       Holding, Going, Leaving, InExec, Sole, WithSlot, WithIp, WithPdir, InNamei, WithName,
       InUnlink, Closing, Fetching, Putting, Allocating

\* exec has its turn.
LEMMA ExecEnters ==
    ASSUME NEW c \in Slots, NEW r, NEW r2, Fits(r, c), r.pc = "got", r.call = "exec",
           r2 = [r EXCEPT !.pc = "exbuf"]
    PROVE  /\ Fits(r2, c) /\ (\A x \in Slots : Holds(r2, c, x) = Holds(r, c, x))
           /\ r2.fd = r.fd /\ r2.fd = 0 /\ InExec(r2) /\ ~InExec(r) /\ ~Closing(r2) /\ ~Sole(r2)
           /\ ~Leaving(r2) /\ r2.pc \notin {"closed", "updwrite", "scan"}
<1>1. r \in URec /\ Holding(r) /\ Going(r, c) /\ Naming(r)
    BY DEF Fits
<1>2. "exbuf" \in PCs
    BY <1>1, Sizes, RecordTypes DEF PCs, Sleeps, Rets, Slots, Ino
<1>3. r2 \in URec
    BY <1>1, <1>2, RecordTypes DEF URec
<1>4. Becomes(r, r2, "exbuf", r.slot, r.ret, r.ip, r.pdir)
    BY <1>1 DEF URec, Becomes
<1>5. SameName(r, r2)
    BY <1>1 DEF URec, SameName
<1>6. r2 \in URec /\ Becomes(r, r2, "exbuf", r.slot, r.ret, r.ip, r.pdir)
      /\ SameName(r, r2)
    BY <1>3, <1>4, <1>5
<1>7. Holding(r2)
    BY <1>1, <1>6, Sizes DEF Becomes, SameName, Holding, Going, Slots, WithSlot, WithIp,
       WithPdir, InNamei, WithName, InUnlink, Closing, Fetching, Putting, Allocating
<1>8. Going(r2, c)
    BY <1>1, <1>6, Sizes DEF Becomes, SameName, Going, Holding, Slots, WithSlot, WithIp,
       WithPdir, InNamei, WithName, InUnlink, Closing, Fetching, Putting, Allocating
<1>9. Naming(r2)
    BY <1>1, <1>6, Sizes DEF Becomes, SameName, Naming, Going, Holding, Ino, WithSlot,
       WithIp, WithPdir, InNamei, WithName, InUnlink, Closing, Fetching, Putting, Allocating
<1>10. ASSUME NEW x \in Slots PROVE Holds(r2, c, x) = Holds(r, c, x)
    BY <1>1, <1>6, Sizes DEF Becomes, SameName, Going, Holding, Holds, SlotRef, CdirRef, B,
       One, Slots, WithSlot, WithIp, WithPdir, InNamei, WithName, InUnlink, Closing,
       Fetching, Putting, Allocating
<1> QED
    BY <1>1, <1>6, <1>7, <1>8, <1>9, <1>10 DEF Keeps, Calm, Fits, Becomes, SameName,
       Holding, Going, Leaving, InExec, Sole, WithSlot, WithIp, WithPdir, InNamei, WithName,
       InUnlink, Closing, Fetching, Putting, Allocating

\* exec gives its turn up.
LEMMA ExecLeaves ==
    ASSUME NEW c \in Slots, NEW r, NEW r2, Fits(r, c), r.pc = "exdone",
           r2 = Idle
    PROVE  /\ Fits(r2, c) /\ (\A x \in Slots : Holds(r2, c, x) = Holds(r, c, x))
           /\ r2.fd = r.fd /\ r2.fd = 0 /\ ~InExec(r2) /\ InExec(r) /\ ~Closing(r2) /\ ~Sole(r2)
           /\ ~Leaving(r2) /\ r2.pc \notin {"closed", "updwrite", "scan"}
<1>1. r \in URec /\ Holding(r) /\ Going(r, c) /\ Naming(r)
    BY DEF Fits
<1>2. "user" \in PCs /\ "none" \in Rets /\ 0 \in 0..NINODE
    BY <1>1, Sizes, RecordTypes DEF PCs, Sleeps, Rets, Slots, Ino
<1>3. r2 \in URec
    BY <1>1, <1>2, RecordTypes, IdleType DEF URec
<1>4. Becomes(Idle, r2, "user", 0, "none", 0, 0)
    BY <1>1, IdleType DEF URec, Becomes, Idle
<1>5. r2.off = 0 /\ r2.from = <<>> /\ r2.call = "none" /\ r2.fd = 0
    BY <1>1, IdleType DEF URec, SameName, Idle
<1>6. r2 \in URec /\ Becomes(Idle, r2, "user", 0, "none", 0, 0)
      /\ r2.off = 0 /\ r2.from = <<>> /\ r2.call = "none" /\ r2.fd = 0
    BY <1>3, <1>4, <1>5
<1>7. Holding(r2)
    BY <1>1, <1>6, Sizes DEF Becomes, SameName, Holding, Going, Slots, WithSlot, WithIp,
       WithPdir, InNamei, WithName, InUnlink, Closing, Fetching, Putting, Allocating
<1>8. Going(r2, c)
    BY <1>1, <1>6, Sizes DEF Becomes, SameName, Going, Holding, Slots, WithSlot, WithIp,
       WithPdir, InNamei, WithName, InUnlink, Closing, Fetching, Putting, Allocating
<1>9. Naming(r2)
    BY <1>1, <1>6, Sizes DEF Becomes, SameName, Naming, Going, Holding, Ino, WithSlot,
       WithIp, WithPdir, InNamei, WithName, InUnlink, Closing, Fetching, Putting, Allocating
<1>10. ASSUME NEW x \in Slots PROVE Holds(r2, c, x) = Holds(r, c, x)
    BY <1>1, <1>6, Sizes DEF Becomes, SameName, Going, Holding, Holds, SlotRef, CdirRef, B,
       One, Slots, WithSlot, WithIp, WithPdir, InNamei, WithName, InUnlink, Closing,
       Fetching, Putting, Allocating
<1> QED
    BY <1>1, <1>6, <1>7, <1>8, <1>9, <1>10 DEF Keeps, Calm, Fits, Becomes, SameName,
       Holding, Going, Leaving, InExec, Sole, WithSlot, WithIp, WithPdir, InNamei, WithName,
       InUnlink, Closing, Fetching, Putting, Allocating

\* update writes an inode.
LEMMA UpdWrites ==
    ASSUME NEW c \in Slots, NEW r, NEW r2, Fits(r, c), r.pc = "upd", r.off <= NINODE,
           r2 = [r EXCEPT !.pc = "updwrite"]
    PROVE  /\ Fits(r2, c) /\ (\A x \in Slots : Holds(r2, c, x) = Holds(r, c, x))
           /\ Calm(r, r2) /\ ~Sole(r2) /\ r2.pc = "updwrite" /\ r2.off = r.off
<1>1. r \in URec /\ Holding(r) /\ Going(r, c) /\ Naming(r)
    BY DEF Fits
<1>2. "updwrite" \in PCs
    BY <1>1, Sizes, RecordTypes DEF PCs, Sleeps, Rets, Slots, Ino
<1>3. r2 \in URec
    BY <1>1, <1>2, RecordTypes DEF URec
<1>4. Becomes(r, r2, "updwrite", r.slot, r.ret, r.ip, r.pdir)
    BY <1>1 DEF URec, Becomes
<1>5. SameName(r, r2)
    BY <1>1 DEF URec, SameName
<1>6. r2 \in URec /\ Becomes(r, r2, "updwrite", r.slot, r.ret, r.ip, r.pdir)
      /\ SameName(r, r2)
    BY <1>3, <1>4, <1>5
<1>7. Holding(r2)
    BY <1>1, <1>6, Sizes DEF Becomes, SameName, Holding, Going, Slots, WithSlot, WithIp,
       WithPdir, InNamei, WithName, InUnlink, Closing, Fetching, Putting, Allocating
<1>8. Going(r2, c)
    BY <1>1, <1>6, Sizes DEF Becomes, SameName, Going, Holding, Slots, WithSlot, WithIp,
       WithPdir, InNamei, WithName, InUnlink, Closing, Fetching, Putting, Allocating
<1>9. Naming(r2)
    BY <1>1, <1>6, Sizes DEF Becomes, SameName, Naming, Going, Holding, Ino, WithSlot,
       WithIp, WithPdir, InNamei, WithName, InUnlink, Closing, Fetching, Putting, Allocating
<1>10. ASSUME NEW x \in Slots PROVE Holds(r2, c, x) = Holds(r, c, x)
    BY <1>1, <1>6, Sizes DEF Becomes, SameName, Going, Holding, Holds, SlotRef, CdirRef, B,
       One, Slots, WithSlot, WithIp, WithPdir, InNamei, WithName, InUnlink, Closing,
       Fetching, Putting, Allocating
<1> QED
    BY <1>1, <1>6, <1>7, <1>8, <1>9, <1>10 DEF Keeps, Calm, Fits, Becomes, SameName,
       Holding, Going, Leaving, InExec, Sole, WithSlot, WithIp, WithPdir, InNamei, WithName,
       InUnlink, Closing, Fetching, Putting, Allocating

\* maknode fails and leaves its directory.
LEMMA LeavesPdir ==
    ASSUME NEW c \in Slots, NEW r, NEW r2, Fits(r, c),
           r.pc = "ifill" \/ (r.pc = "iget" /\ r.ret = "igot"),
           r2 = Idle
    PROVE  /\ Fits(r2, c) /\ Gives(r, c, r2, c, r.pdir)
           /\ Calm(r, r2) /\ ~Sole(r2) /\ r2.pc \notin {"updwrite", "scan"} /\ r.pdir # 0
<1>1. r \in URec /\ Holding(r) /\ Going(r, c) /\ Naming(r)
    BY DEF Fits
<1>2. "user" \in PCs /\ "none" \in Rets /\ 0 \in 0..NINODE
    BY <1>1, Sizes, RecordTypes DEF PCs, Sleeps, Rets, Slots, Ino
<1>3. r2 \in URec
    BY <1>1, <1>2, RecordTypes, IdleType DEF URec
<1>4. Becomes(Idle, r2, "user", 0, "none", 0, 0)
    BY <1>1, IdleType DEF URec, Becomes, Idle
<1>5. r2.off = 0 /\ r2.from = <<>> /\ r2.call = "none" /\ r2.fd = 0
    BY <1>1, IdleType DEF URec, SameName, Idle
<1>6. r2 \in URec /\ Becomes(Idle, r2, "user", 0, "none", 0, 0)
      /\ r2.off = 0 /\ r2.from = <<>> /\ r2.call = "none" /\ r2.fd = 0
    BY <1>3, <1>4, <1>5
<1>7. Holding(r2)
    BY <1>1, <1>6, Sizes DEF Becomes, SameName, Holding, Going, Slots, WithSlot, WithIp,
       WithPdir, InNamei, WithName, InUnlink, Closing, Fetching, Putting, Allocating
<1>8. Going(r2, c)
    BY <1>1, <1>6, Sizes DEF Becomes, SameName, Going, Holding, Slots, WithSlot, WithIp,
       WithPdir, InNamei, WithName, InUnlink, Closing, Fetching, Putting, Allocating
<1>9. Naming(r2)
    BY <1>1, <1>6, Sizes DEF Becomes, SameName, Naming, Going, Holding, Ino, WithSlot,
       WithIp, WithPdir, InNamei, WithName, InUnlink, Closing, Fetching, Putting, Allocating
<1>10. ASSUME NEW x \in Slots PROVE Holds(r2, c, x) = Holds(r, c, x) - One(x, r.pdir)
    BY <1>1, <1>6, Sizes DEF Becomes, SameName, Going, Holding, Holds, SlotRef, CdirRef, B,
       One, Slots, WithSlot, WithIp, WithPdir, InNamei, WithName, InUnlink, Closing,
       Fetching, Putting, Allocating
<1>11. Gives(r, c, r2, c, r.pdir)
    BY <1>10 DEF Gives
<1> QED
    BY <1>1, <1>6, <1>7, <1>8, <1>9, <1>11 DEF Keeps, Calm, Fits, Becomes, SameName,
       Holding, Going, Leaving, InExec, Sole, WithSlot, WithIp, WithPdir, InNamei, WithName,
       InUnlink, Closing, Fetching, Putting, Allocating

\* exit begins.
LEMMA ExitBegins ==
    ASSUME NEW c \in Slots, NEW r, NEW r2, Fits(r, c), r.pc = "user",
           r2 = [Idle EXCEPT !.pc = "exit"]
    PROVE  Keeps(r, r2, c)
<1>1. r \in URec /\ Holding(r) /\ Going(r, c) /\ Naming(r)
    BY DEF Fits
<1>2. "exit" \in PCs /\ "none" \in Rets /\ 0 \in 0..NINODE
    BY <1>1, Sizes, RecordTypes DEF PCs, Sleeps, Rets, Slots, Ino
<1>3. r2 \in URec
    BY <1>1, <1>2, RecordTypes, IdleType DEF URec
<1>4. Becomes(Idle, r2, "exit", 0, "none", 0, 0)
    BY <1>1, IdleType DEF URec, Becomes, Idle
<1>5. r2.off = 0 /\ r2.from = <<>> /\ r2.call = "none" /\ r2.fd = 0
    BY <1>1, IdleType DEF URec, SameName, Idle
<1>6. r2 \in URec /\ Becomes(Idle, r2, "exit", 0, "none", 0, 0)
      /\ r2.off = 0 /\ r2.from = <<>> /\ r2.call = "none" /\ r2.fd = 0
    BY <1>3, <1>4, <1>5
<1>7. Holding(r2)
    BY <1>1, <1>6, Sizes DEF Becomes, SameName, Holding, Going, Slots, WithSlot, WithIp,
       WithPdir, InNamei, WithName, InUnlink, Closing, Fetching, Putting, Allocating
<1>8. Going(r2, c)
    BY <1>1, <1>6, Sizes DEF Becomes, SameName, Going, Holding, Slots, WithSlot, WithIp,
       WithPdir, InNamei, WithName, InUnlink, Closing, Fetching, Putting, Allocating
<1>9. Naming(r2)
    BY <1>1, <1>6, Sizes DEF Becomes, SameName, Naming, Going, Holding, Ino, WithSlot,
       WithIp, WithPdir, InNamei, WithName, InUnlink, Closing, Fetching, Putting, Allocating
<1>10. ASSUME NEW x \in Slots PROVE Holds(r2, c, x) = Holds(r, c, x)
    BY <1>1, <1>6, Sizes DEF Becomes, SameName, Going, Holding, Holds, SlotRef, CdirRef, B,
       One, Slots, WithSlot, WithIp, WithPdir, InNamei, WithName, InUnlink, Closing,
       Fetching, Putting, Allocating
<1> QED
    BY <1>1, <1>6, <1>7, <1>8, <1>9, <1>10 DEF Keeps, Calm, Fits, Becomes, SameName,
       Holding, Going, Leaving, InExec, Sole, WithSlot, WithIp, WithPdir, InNamei, WithName,
       InUnlink, Closing, Fetching, Putting, Allocating

\* wdir has written the entry and puts the directory.
LEMMA WdirPuts ==
    ASSUME NEW c \in Slots, NEW r, NEW r2, Fits(r, c), r.pc = "wdir",
           r2 = CallIput([r EXCEPT !.pdir = 0], r.pdir, "wdone")
    PROVE  Keeps(r, r2, c)
<1>1. r \in URec /\ Holding(r) /\ Going(r, c) /\ Naming(r)
    BY DEF Fits
<1>2. "iput" \in PCs /\ "wdone" \in Rets /\ 0 \in 0..NINODE
    BY <1>1, Sizes, RecordTypes DEF PCs, Sleeps, Rets, Slots, Ino
<1>3. r2 \in URec
    BY <1>1, <1>2, RecordTypes DEF URec, CallIput
<1>4. Becomes(r, r2, "iput", r.pdir, "wdone", r.ip, 0)
    BY <1>1 DEF URec, Becomes, CallIput
<1>5. SameName(r, r2)
    BY <1>1 DEF URec, SameName, CallIput
<1>6. r2 \in URec /\ Becomes(r, r2, "iput", r.pdir, "wdone", r.ip, 0)
      /\ SameName(r, r2)
    BY <1>3, <1>4, <1>5
<1>7. Holding(r2)
    BY <1>1, <1>6, Sizes DEF Becomes, SameName, Holding, Going, Slots, WithSlot, WithIp,
       WithPdir, InNamei, WithName, InUnlink, Closing, Fetching, Putting, Allocating
<1>8. Going(r2, c)
    BY <1>1, <1>6, Sizes DEF Becomes, SameName, Going, Holding, Slots, WithSlot, WithIp,
       WithPdir, InNamei, WithName, InUnlink, Closing, Fetching, Putting, Allocating
<1>9. Naming(r2)
    BY <1>1, <1>6, Sizes DEF Becomes, SameName, Naming, Going, Holding, Ino, WithSlot,
       WithIp, WithPdir, InNamei, WithName, InUnlink, Closing, Fetching, Putting, Allocating
<1>10. ASSUME NEW x \in Slots PROVE Holds(r2, c, x) = Holds(r, c, x)
    BY <1>1, <1>6, Sizes DEF Becomes, SameName, Going, Holding, Holds, SlotRef, CdirRef, B,
       One, Slots, WithSlot, WithIp, WithPdir, InNamei, WithName, InUnlink, Closing,
       Fetching, Putting, Allocating
<1> QED
    BY <1>1, <1>6, <1>7, <1>8, <1>9, <1>10 DEF Keeps, Calm, Fits, Becomes, SameName,
       Holding, Going, Leaving, InExec, Sole, WithSlot, WithIp, WithPdir, InNamei, WithName,
       InUnlink, Closing, Fetching, Putting, Allocating

-----------------------------------------------------------------------------
(* The processes that do not run.                                           *)

Parkings == Sleeps \cup {"iget", "ialloc", "got"}

\* A process that sleeps is woken, or is left alone.
Woken(r, r2) ==
    \/ r2 = r
    \/ r.pc = "isleep" /\ r2 = [r EXCEPT !.pc = "iget", !.slot = 0]
    \/ r.pc = "ilock" /\ r2 = [r EXCEPT !.pc = "ialloc"]
    \/ r.pc = "exwait" /\ r2 = [r EXCEPT !.pc = "got"]

\* What a process that does not run keeps, with current directory c.
Alike(r, r2, c) ==
    /\ Fits(r2, c)
    /\ \A s \in Slots : /\ SlotRef(r2, s) <=> SlotRef(r, s)
                        /\ CdirRef(r2, c, s) <=> CdirRef(r, c, s)
    /\ r2.ip = r.ip /\ r2.pdir = r.pdir /\ r2.fd = r.fd /\ (InExec(r2) <=> InExec(r))
    /\ \/ r2 = r
       \/ r.pc \in {"isleep", "ilock", "exwait"} /\ r2.pc \in {"iget", "ialloc", "got"}

LEMMA WokenWaits ==
    ASSUME NEW c \in Slots, NEW r, NEW r2, Fits(r, c), r.pc = "isleep",
           r2 = [r EXCEPT !.pc = "iget", !.slot = 0]
    PROVE  Alike(r, r2, c)
<1>1. r \in URec /\ Holding(r) /\ Going(r, c) /\ Naming(r)
    BY DEF Fits
<1>2. "iget" \in PCs /\ 0 \in 0..NINODE
    BY Sizes DEF PCs
<1>3. r2 \in URec
    BY <1>1, <1>2 DEF URec
<1>4. Becomes(r, r2, "iget", 0, r.ret, r.ip, r.pdir)
    BY <1>1 DEF URec, Becomes
<1>5. SameName(r, r2)
    BY <1>1 DEF URec, SameName
<1>6. Holding(r2)
    BY <1>1, <1>2, <1>4, <1>5, Sizes DEF Becomes, SameName, Holding, Going, WithSlot,
       WithIp, WithPdir, InNamei, WithName, InUnlink, Closing, Fetching, Putting, Allocating
<1>7. Going(r2, c)
    BY <1>1, <1>2, <1>4, <1>5, Sizes DEF Becomes, SameName, Holding, Going, WithSlot,
       WithIp, WithPdir, InNamei, WithName, InUnlink, Closing, Fetching, Putting, Allocating
<1>8. Naming(r2)
    BY <1>1, <1>2, <1>4, <1>5, Sizes DEF Becomes, SameName, Naming, Going, WithSlot, WithIp,
       WithPdir, InNamei, WithName, InUnlink, Closing, Fetching, Putting, Allocating
<1>9. ASSUME NEW s \in Slots
      PROVE  (SlotRef(r2, s) <=> SlotRef(r, s)) /\ (CdirRef(r2, c, s) <=> CdirRef(r, c, s))
    BY <1>1, <1>2, <1>4, Sizes DEF Becomes, SlotRef, CdirRef, Slots
<1>10. InExec(r2) <=> InExec(r)
    BY <1>1, <1>2, <1>4 DEF Becomes, InExec
<1> QED
    BY <1>2, <1>3, <1>4, <1>6, <1>7, <1>8, <1>9, <1>10 DEF Alike, Fits, Becomes

LEMMA WokenLock ==
    ASSUME NEW c \in Slots, NEW r, NEW r2, Fits(r, c),
           NEW l, NEW k, r.pc = l, <<l, k>> \in {<<"ilock", "ialloc">>, <<"exwait", "got">>},
           r2 = [r EXCEPT !.pc = k]
    PROVE  Alike(r, r2, c)
<1>1. r \in URec /\ Holding(r) /\ Going(r, c) /\ Naming(r)
    BY DEF Fits
<1>2. k \in PCs /\ ((l = "ilock" /\ k = "ialloc") \/ (l = "exwait" /\ k = "got"))
    BY DEF PCs
<1>3. r2 \in URec
    BY <1>1, <1>2 DEF URec
<1>4. Becomes(r, r2, k, r.slot, r.ret, r.ip, r.pdir)
    BY <1>1 DEF URec, Becomes
<1>5. SameName(r, r2)
    BY <1>1 DEF URec, SameName
<1>6. Holding(r2)
    BY <1>1, <1>2, <1>4, <1>5, Sizes DEF Becomes, SameName, Holding, Going, WithSlot,
       WithIp, WithPdir, InNamei, WithName, InUnlink, Closing, Fetching, Putting, Allocating
<1>7. Going(r2, c)
    BY <1>1, <1>2, <1>4, <1>5, Sizes DEF Becomes, SameName, Holding, Going, WithSlot,
       WithIp, WithPdir, InNamei, WithName, InUnlink, Closing, Fetching, Putting, Allocating
<1>8. Naming(r2)
    BY <1>1, <1>2, <1>4, <1>5, Sizes DEF Becomes, SameName, Naming, Going, WithSlot, WithIp,
       WithPdir, InNamei, WithName, InUnlink, Closing, Fetching, Putting, Allocating
<1>9. ASSUME NEW s \in Slots
      PROVE  (SlotRef(r2, s) <=> SlotRef(r, s)) /\ (CdirRef(r2, c, s) <=> CdirRef(r, c, s))
    BY <1>1, <1>2, <1>4, Sizes DEF Becomes, SlotRef, CdirRef, Slots
<1>10. InExec(r2) <=> InExec(r)
    BY <1>1, <1>2, <1>4 DEF Becomes, InExec
<1> QED
    BY <1>2, <1>3, <1>4, <1>6, <1>7, <1>8, <1>9, <1>10 DEF Alike, Fits, Becomes

LEMMA WokenAlike ==
    ASSUME NEW c \in Slots, NEW r, NEW r2, Fits(r, c), Woken(r, r2)
    PROVE  Alike(r, r2, c)
<1>1. CASE r2 = r
    BY <1>1 DEF Alike
<1>2. CASE r.pc = "isleep" /\ r2 = [r EXCEPT !.pc = "iget", !.slot = 0]
    BY <1>2, WokenWaits
<1>3. CASE r.pc = "ilock" /\ r2 = [r EXCEPT !.pc = "ialloc"]
    BY <1>3, WokenLock
<1>4. CASE r.pc = "exwait" /\ r2 = [r EXCEPT !.pc = "got"]
    BY <1>4, WokenLock
<1> QED
    BY <1>1, <1>2, <1>3, <1>4 DEF Woken

-----------------------------------------------------------------------------
(* Counting.                                                                *)

\* Two sets that differ in x at most.
LEMMA CardStep ==
    ASSUME NEW S, NEW T, NEW x, IsFiniteSet(S), T \ {x} = S \ {x}
    PROVE  /\ IsFiniteSet(T) /\ Cardinality(S) \in Nat /\ Cardinality(T) \in Nat
           /\ Cardinality(T) = Cardinality(S) + B(x \in T) - B(x \in S)
<1>1. IsFiniteSet(S \ {x}) /\ Cardinality(S) \in Nat /\ Cardinality(S \ {x}) \in Nat
    BY FS_RemoveElement, FS_CardinalityType
<1>2. Cardinality(S \ {x}) = Cardinality(S) - B(x \in S)
    BY <1>1, FS_RemoveElement DEF B
<1>3. CASE x \in T
  <2>1. T = (S \ {x}) \cup {x}
      BY <1>3
  <2>2. IsFiniteSet(T) /\ Cardinality(T) = Cardinality(S \ {x}) + 1
      BY <1>1, <2>1, FS_AddElement
  <2> QED
      BY <1>1, <1>2, <1>3, <2>2 DEF B
<1>4. CASE x \notin T
  <2>1. T = S \ {x}
      BY <1>4
  <2> QED
      BY <1>1, <1>2, <1>4, <2>1 DEF B
<1> QED
    BY <1>3, <1>4

LEMMA CardLess ==
    ASSUME NEW S, NEW x, IsFiniteSet(S)
    PROVE  /\ IsFiniteSet(S \ {x}) /\ Cardinality(S) \in Nat /\ Cardinality(S \ {x}) \in Nat
           /\ Cardinality(S \ {x}) = Cardinality(S) - B(x \in S)
BY FS_RemoveElement, FS_CardinalityType DEF B

\* A set with two elements.
LEMMA CardTwo ==
    ASSUME NEW S, IsFiniteSet(S), NEW x, NEW y, x # y
    PROVE  Cardinality(S) \in Nat /\ Cardinality(S) >= B(x \in S) + B(y \in S)
<1>1. PICK T : T = S \ {x}
    OBVIOUS
<1>2. /\ IsFiniteSet(T) /\ Cardinality(S) \in Nat /\ Cardinality(T) \in Nat
      /\ Cardinality(T) = Cardinality(S) - B(x \in S)
    BY <1>1, CardLess
<1>3. /\ Cardinality(T \ {y}) \in Nat
      /\ Cardinality(T \ {y}) = Cardinality(T) - B(y \in T)
    BY <1>2, CardLess
<1>4. y \in T <=> y \in S
    BY <1>1
<1> QED
    BY <1>2, <1>3, <1>4 DEF B

LEMMA FiniteRanges == \A n \in Nat : IsFiniteSet(1..n)
BY FS_Interval

LEMMA FiniteProcs == ASSUME NEW S \in SUBSET Procs PROVE IsFiniteSet(S)
BY NamesAssumption, FS_Subset

LEMMA FiniteFiles == ASSUME NEW S \in SUBSET (1..NFILE) PROVE IsFiniteSet(S)
<1>1. IsFiniteSet(1..NFILE)
    BY Sizes, FiniteRanges
<1> QED
    BY <1>1, FS_Subset

LEMMA FiniteDescs == ASSUME NEW S \in SUBSET (Procs \X Fds) PROVE IsFiniteSet(S)
<1>1. IsFiniteSet(Procs) /\ IsFiniteSet(Fds)
    BY NamesAssumption, FS_Interval DEF Fds
<1>2. IsFiniteSet(Procs \X Fds)
    BY <1>1, FS_Product
<1> QED
    BY <1>2, FS_Subset

LEMMA FiniteStuck == ASSUME stuck \in Seq(Slots),
   NEW S \in SUBSET DOMAIN stuck PROVE IsFiniteSet(S)
<1>1. Len(stuck) \in Nat /\ DOMAIN stuck = 1..Len(stuck)
    OBVIOUS
<1>2. IsFiniteSet(DOMAIN stuck)
    BY <1>1, FiniteRanges
<1> QED
    BY <1>2, FS_Subset

\* The processes other than p are left alone, or woken.
Others(p) ==
    \A q \in Procs : q # p => cdir'[q] = cdir[q] /\ Alike(u[q], u'[q], cdir[q])

\* What p takes and gives is what changes.
LEMMA HeldStep ==
    ASSUME NEW p \in Procs, NEW s \in Slots, Others(p)
    PROVE  /\ Held(s) \in Nat /\ Held(s)' \in Nat
           /\ Held(s)' = Held(s) + Holds(u'[p], cdir'[p], s) - Holds(u[p], cdir[p], s)
<1>1. /\ Cardinality(SlotRefs(s)) \in Nat /\ Cardinality(SlotRefs(s)') \in Nat
      /\ Cardinality(SlotRefs(s)') = Cardinality(SlotRefs(s)) + B(SlotRef(u'[p], s))
                                     - B(SlotRef(u[p], s))
  <2>1. SlotRefs(s)' \ {p} = SlotRefs(s) \ {p}
      BY DEF SlotRefs, Others, Alike
  <2>2. (p \in SlotRefs(s) <=> SlotRef(u[p], s)) /\ (p \in SlotRefs(s)' <=> SlotRef(u'[p], s))
      BY DEF SlotRefs
  <2>3. IsFiniteSet(SlotRefs(s))
      BY FiniteProcs DEF SlotRefs
  <2>4. /\ Cardinality(SlotRefs(s)) \in Nat /\ Cardinality(SlotRefs(s)') \in Nat
        /\ Cardinality(SlotRefs(s)') = Cardinality(SlotRefs(s)) + B(p \in SlotRefs(s)')
                                       - B(p \in SlotRefs(s))
      BY <2>1, <2>3, CardStep
  <2> QED
      BY <2>2, <2>4 DEF B
<1>2. /\ Cardinality(IpRefs(s)) \in Nat /\ Cardinality(IpRefs(s)') \in Nat
      /\ Cardinality(IpRefs(s)') = Cardinality(IpRefs(s)) + B(u'[p].ip = s) - B(u[p].ip = s)
  <2>1. IpRefs(s)' \ {p} = IpRefs(s) \ {p}
      BY DEF IpRefs, Others, Alike
  <2>2. (p \in IpRefs(s) <=> u[p].ip = s) /\ (p \in IpRefs(s)' <=> u'[p].ip = s)
      BY DEF IpRefs
  <2>3. IsFiniteSet(IpRefs(s))
      BY FiniteProcs DEF IpRefs
  <2>4. /\ Cardinality(IpRefs(s)) \in Nat /\ Cardinality(IpRefs(s)') \in Nat
        /\ Cardinality(IpRefs(s)') = Cardinality(IpRefs(s)) + B(p \in IpRefs(s)')
                                     - B(p \in IpRefs(s))
      BY <2>1, <2>3, CardStep
  <2> QED
      BY <2>2, <2>4 DEF B
<1>3. /\ Cardinality(PdirRefs(s)) \in Nat /\ Cardinality(PdirRefs(s)') \in Nat
      /\ Cardinality(PdirRefs(s)') = Cardinality(PdirRefs(s)) + B(u'[p].pdir = s)
                                     - B(u[p].pdir = s)
  <2>1. PdirRefs(s)' \ {p} = PdirRefs(s) \ {p}
      BY DEF PdirRefs, Others, Alike
  <2>2. (p \in PdirRefs(s) <=> u[p].pdir = s) /\ (p \in PdirRefs(s)' <=> u'[p].pdir = s)
      BY DEF PdirRefs
  <2>3. IsFiniteSet(PdirRefs(s))
      BY FiniteProcs DEF PdirRefs
  <2>4. /\ Cardinality(PdirRefs(s)) \in Nat /\ Cardinality(PdirRefs(s)') \in Nat
        /\ Cardinality(PdirRefs(s)') = Cardinality(PdirRefs(s)) + B(p \in PdirRefs(s)')
                                       - B(p \in PdirRefs(s))
      BY <2>1, <2>3, CardStep
  <2> QED
      BY <2>2, <2>4 DEF B
<1>4. /\ Cardinality(CdirRefs(s)) \in Nat /\ Cardinality(CdirRefs(s)') \in Nat
      /\ Cardinality(CdirRefs(s)') = Cardinality(CdirRefs(s)) + B(CdirRef(u'[p], cdir'[p], s))
                                     - B(CdirRef(u[p], cdir[p], s))
  <2>1. CdirRefs(s)' \ {p} = CdirRefs(s) \ {p}
      BY DEF CdirRefs, Others, Alike
  <2>2. /\ p \in CdirRefs(s) <=> CdirRef(u[p], cdir[p], s)
        /\ p \in CdirRefs(s)' <=> CdirRef(u'[p], cdir'[p], s)
      BY DEF CdirRefs
  <2>3. IsFiniteSet(CdirRefs(s))
      BY FiniteProcs DEF CdirRefs
  <2>4. /\ Cardinality(CdirRefs(s)) \in Nat /\ Cardinality(CdirRefs(s)') \in Nat
        /\ Cardinality(CdirRefs(s)') = Cardinality(CdirRefs(s)) + B(p \in CdirRefs(s)')
                                       - B(p \in CdirRefs(s))
      BY <2>1, <2>3, CardStep
  <2> QED
      BY <2>2, <2>4 DEF B
<1> QED
    BY <1>1, <1>2, <1>3, <1>4 DEF Held, Holds, B

-----------------------------------------------------------------------------
(* Who has a reference to a slot.                                           *)

Has(p, s) == Holds(u[p], cdir[p], s) >= 1 \/ (Closing(u[p]) /\ u[p].slot = s)

LEMMA RefSets ==
    ASSUME TypeOK, NEW s \in Slots
    PROVE  /\ Cardinality(FileRefs(s)) \in Nat /\ Cardinality(StuckRefs(s)) \in Nat
           /\ IsFiniteSet(FileRefs(s)) /\ IsFiniteSet(StuckRefs(s))
<1>1. IsFiniteSet(FileRefs(s))
    BY FiniteFiles DEF FileRefs
<1>2. IsFiniteSet(StuckRefs(s))
    BY FiniteStuck DEF StuckRefs, TypeOK
<1> QED
    BY <1>1, <1>2, FS_CardinalityType

LEMMA HeldByTwo ==
    ASSUME NEW s \in Slots, NEW p \in Procs, NEW q \in Procs, p # q
    PROVE  /\ Held(s) \in Nat
           /\ Held(s) >= Holds(u[p], cdir[p], s) + Holds(u[q], cdir[q], s)
<1>1. /\ Cardinality(SlotRefs(s)) \in Nat
      /\ Cardinality(SlotRefs(s)) >= B(p \in SlotRefs(s)) + B(q \in SlotRefs(s))
    BY FiniteProcs, CardTwo DEF SlotRefs
<1>2. /\ Cardinality(IpRefs(s)) \in Nat
      /\ Cardinality(IpRefs(s)) >= B(p \in IpRefs(s)) + B(q \in IpRefs(s))
    BY FiniteProcs, CardTwo DEF IpRefs
<1>3. /\ Cardinality(PdirRefs(s)) \in Nat
      /\ Cardinality(PdirRefs(s)) >= B(p \in PdirRefs(s)) + B(q \in PdirRefs(s))
    BY FiniteProcs, CardTwo DEF PdirRefs
<1>4. /\ Cardinality(CdirRefs(s)) \in Nat
      /\ Cardinality(CdirRefs(s)) >= B(p \in CdirRefs(s)) + B(q \in CdirRefs(s))
    BY FiniteProcs, CardTwo DEF CdirRefs
<1>5. /\ p \in SlotRefs(s) <=> SlotRef(u[p], s)
      /\ q \in SlotRefs(s) <=> SlotRef(u[q], s)
      /\ p \in IpRefs(s) <=> u[p].ip = s
      /\ q \in IpRefs(s) <=> u[q].ip = s
      /\ p \in PdirRefs(s) <=> u[p].pdir = s
      /\ q \in PdirRefs(s) <=> u[q].pdir = s
      /\ p \in CdirRefs(s) <=> CdirRef(u[p], cdir[p], s)
      /\ q \in CdirRefs(s) <=> CdirRef(u[q], cdir[q], s)
    BY DEF SlotRefs, IpRefs, PdirRefs, CdirRefs
<1> QED
    BY <1>1, <1>2, <1>3, <1>4, <1>5 DEF Held, Holds, B

LEMMA HeldByOne ==
    ASSUME NEW s \in Slots, NEW p \in Procs
    PROVE  Held(s) \in Nat /\ Held(s) >= Holds(u[p], cdir[p], s)
<1>1. /\ Cardinality(SlotRefs(s)) \in Nat
      /\ Cardinality(SlotRefs(s) \ {p}) \in Nat
      /\ Cardinality(SlotRefs(s) \ {p}) = Cardinality(SlotRefs(s)) - B(p \in SlotRefs(s))
    BY FiniteProcs, CardLess DEF SlotRefs
<1>2. /\ Cardinality(IpRefs(s)) \in Nat
      /\ Cardinality(IpRefs(s) \ {p}) \in Nat
      /\ Cardinality(IpRefs(s) \ {p}) = Cardinality(IpRefs(s)) - B(p \in IpRefs(s))
    BY FiniteProcs, CardLess DEF IpRefs
<1>3. /\ Cardinality(PdirRefs(s)) \in Nat
      /\ Cardinality(PdirRefs(s) \ {p}) \in Nat
      /\ Cardinality(PdirRefs(s) \ {p}) = Cardinality(PdirRefs(s)) - B(p \in PdirRefs(s))
    BY FiniteProcs, CardLess DEF PdirRefs
<1>4. /\ Cardinality(CdirRefs(s)) \in Nat
      /\ Cardinality(CdirRefs(s) \ {p}) \in Nat
      /\ Cardinality(CdirRefs(s) \ {p}) = Cardinality(CdirRefs(s)) - B(p \in CdirRefs(s))
    BY FiniteProcs, CardLess DEF CdirRefs
<1>5. /\ p \in SlotRefs(s) <=> SlotRef(u[p], s)
      /\ p \in IpRefs(s) <=> u[p].ip = s
      /\ p \in PdirRefs(s) <=> u[p].pdir = s
      /\ p \in CdirRefs(s) <=> CdirRef(u[p], cdir[p], s)
    BY DEF SlotRefs, IpRefs, PdirRefs, CdirRefs
<1> QED
    BY <1>1, <1>2, <1>3, <1>4, <1>5 DEF Held, Holds, B

\* The file that p closes still refers to the slot, and nobody else closes it.
LEMMA CloserRef ==
    ASSUME TypeOK, Users, FilesOK, NEW p \in Procs, Closing(u[p])
    PROVE  /\ u[p].fd \in FileRefs(u[p].slot)
           /\ \A q \in Procs : u[q].fd = u[p].fd => q = p
<1> DEFINE f == u[p].fd
<1>1. f \in 0..NFILE /\ f # 0
    BY RecordTypes DEF Users, Fits, Holding
<1>2. f \in 1..NFILE
    BY <1>1, Sizes
<1>3. file[f].count = 1 /\ file[f].inode = u[p].slot
    BY DEF FilesOK
<1>4. ASSUME NEW q \in Procs, u[q].fd = f PROVE q = p
  <2>1. Closers(f) \in SUBSET Procs /\ p \in Closers(f) /\ q \in Closers(f)
      BY <1>4 DEF Closers
  <2>2. IsFiniteSet(Closers(f)) /\ IsFiniteSet(Descs(f))
      BY <2>1, FiniteProcs, FiniteDescs DEF Descs
  <2>3. Cardinality(Descs(f)) \in Nat /\ Cardinality(Closers(f)) \in Nat
      BY <2>2, FS_CardinalityType
  <2>4. 1 = Cardinality(Descs(f)) + Cardinality(Closers(f))
      BY <1>2, <1>3 DEF FilesOK
  <2>5. ASSUME q # p PROVE FALSE
    <3>1. Cardinality(Closers(f)) >= B(p \in Closers(f)) + B(q \in Closers(f))
        BY <2>2, <2>5, CardTwo
    <3> QED
        BY <2>1, <2>3, <2>4, <3>1 DEF B
  <2> QED
      BY <2>5
<1>5. ~Put(f)
  <2>1. u[p].pc # "closed"
      BY DEF Closing, Putting
  <2> QED
      BY <1>4, <2>1 DEF Put
<1> QED
    BY <1>2, <1>3, <1>4, <1>5 DEF FileRefs

LEMMA OneHolder ==
    ASSUME TypeOK, Users, FilesOK, Counted, NEW p \in Procs, NEW s \in Slots, Has(p, s)
    PROVE  inode[s].count \in Nat /\ inode[s].count >= 1
<1>1. inode[s].count = Held(s) + Cardinality(FileRefs(s)) + Cardinality(StuckRefs(s)) + B(s = 1)
    BY DEF Counted, Total
<1>2. /\ Cardinality(FileRefs(s)) \in Nat /\ Cardinality(StuckRefs(s)) \in Nat
      /\ IsFiniteSet(FileRefs(s))
    BY RefSets
<1>3. Held(s) \in Nat /\ Held(s) >= Holds(u[p], cdir[p], s) /\ Holds(u[p], cdir[p], s) \in Nat
    BY HeldByOne DEF Holds, B
<1>4. CASE Holds(u[p], cdir[p], s) >= 1
    BY <1>1, <1>2, <1>3, <1>4 DEF B
<1>5. CASE Closing(u[p]) /\ u[p].slot = s
  <2>1. FileRefs(s) # {}
      BY <1>5, CloserRef
  <2>2. Cardinality(FileRefs(s)) # 0
      BY <1>2, <2>1, FS_EmptySet
  <2> QED
      BY <1>1, <1>2, <1>3, <2>2 DEF B
<1> QED
    BY <1>4, <1>5 DEF Has

LEMMA TwoHolders ==
    ASSUME TypeOK, Users, FilesOK, Counted, NEW p \in Procs, NEW q \in Procs, p # q,
           NEW s \in Slots, Has(p, s), Has(q, s)
    PROVE  inode[s].count \in Nat /\ inode[s].count >= 2
<1>1. inode[s].count = Held(s) + Cardinality(FileRefs(s)) + Cardinality(StuckRefs(s)) + B(s = 1)
    BY DEF Counted, Total
<1>2. /\ Cardinality(FileRefs(s)) \in Nat /\ Cardinality(StuckRefs(s)) \in Nat
      /\ IsFiniteSet(FileRefs(s))
    BY RefSets
<1>3. /\ Held(s) \in Nat
      /\ Held(s) >= Holds(u[p], cdir[p], s) + Holds(u[q], cdir[q], s)
      /\ Holds(u[p], cdir[p], s) \in Nat /\ Holds(u[q], cdir[q], s) \in Nat
    BY HeldByTwo DEF Holds, B
<1>4. CASE Holds(u[p], cdir[p], s) >= 1 /\ Holds(u[q], cdir[q], s) >= 1
    BY <1>1, <1>2, <1>3, <1>4 DEF B
<1>5. ASSUME \/ Closing(u[p]) /\ u[p].slot = s
             \/ Closing(u[q]) /\ u[q].slot = s
      PROVE  Cardinality(FileRefs(s)) >= 1
  <2>1. FileRefs(s) # {}
      BY <1>5, CloserRef
  <2> QED
      BY <1>2, <2>1, FS_EmptySet
<1>6. CASE Closing(u[p]) /\ u[p].slot = s /\ Closing(u[q]) /\ u[q].slot = s
  <2>1. u[p].fd \in FileRefs(s) /\ u[q].fd \in FileRefs(s) /\ u[p].fd # u[q].fd
      BY <1>6, CloserRef
  <2>2. Cardinality(FileRefs(s)) >= B(u[p].fd \in FileRefs(s)) + B(u[q].fd \in FileRefs(s))
      BY <1>2, <2>1, CardTwo
  <2> QED
      BY <1>1, <1>2, <1>3, <2>1, <2>2 DEF B
<1>7. CASE Holds(u[p], cdir[p], s) >= 1 /\ Closing(u[q]) /\ u[q].slot = s
    BY <1>1, <1>2, <1>3, <1>5, <1>7 DEF B
<1>8. CASE Holds(u[q], cdir[q], s) >= 1 /\ Closing(u[p]) /\ u[p].slot = s
    BY <1>1, <1>2, <1>3, <1>5, <1>8 DEF B
<1> QED
    BY <1>4, <1>6, <1>7, <1>8 DEF Has

\* What a process has at hand it has a reference to.
LEMMA Holder ==
    ASSUME TypeOK, Users, NEW p \in Procs
    PROVE  /\ u[p].slot # 0 /\ u[p].pc # "isleep" => u[p].slot \in Slots /\ Has(p, u[p].slot)
           /\ u[p].ip # 0 => u[p].ip \in Slots /\ Has(p, u[p].ip)
           /\ u[p].pdir # 0 => u[p].pdir \in Slots /\ Has(p, u[p].pdir)
           /\ u[p].pc \notin {"dead", "chdir"} => Has(p, cdir[p])
<1>1. /\ u[p] \in URec /\ Holding(u[p]) /\ Going(u[p], cdir[p]) /\ cdir[p] \in Slots
      /\ u[p].slot \in 0..NINODE /\ u[p].ip \in 0..NINODE /\ u[p].pdir \in 0..NINODE
    BY RecordTypes DEF Users, Fits, TypeOK
<1>2. u[p].slot # 0 => u[p].slot \in Slots
    BY <1>1, Sizes DEF Slots
<1>3. u[p].ip # 0 => u[p].ip \in Slots
    BY <1>1, Sizes DEF Slots
<1>4. u[p].pdir # 0 => u[p].pdir \in Slots
    BY <1>1, Sizes DEF Slots
<1>5. u[p].pc \notin {"dead", "chdir"} => Has(p, cdir[p])
    BY DEF Has, Holds, B, CdirRef
<1>6. u[p].ip # 0 => Has(p, u[p].ip)
    BY DEF Has, Holds, B
<1>7. u[p].pdir # 0 => Has(p, u[p].pdir)
    BY DEF Has, Holds, B
<1>8. ASSUME u[p].slot # 0, u[p].pc # "isleep" PROVE Has(p, u[p].slot)
  <2>1. CASE u[p].ret \notin {"closed", "chdir", "dead"}
      BY <1>8, <2>1 DEF Has, Holds, B, SlotRef
  <2>2. CASE u[p].ret = "closed"
    <3>1. u[p].pc \in Putting
        BY <1>1, <1>8, <2>2 DEF Going, Holding, WithSlot
    <3> QED
        BY <2>2, <3>1 DEF Has, Closing
  <2>3. CASE u[p].ret \in {"chdir", "dead"}
    <3>1. u[p].pc \in Putting
        BY <1>1, <1>8, <2>3 DEF Going, Holding, WithSlot
    <3>2. u[p].slot = cdir[p] /\ u[p].pc \notin {"dead", "chdir"}
        BY <1>1, <2>3, <3>1 DEF Going, Putting
    <3> QED
        BY <1>5, <3>2
  <2> QED
      BY <2>1, <2>2, <2>3
<1> QED
    BY <1>2, <1>3, <1>4, <1>5, <1>6, <1>7, <1>8

-----------------------------------------------------------------------------
(* One process takes a step.                                                *)

\* p goes on with r.
Shift(p, r) ==
    /\ u' = [q \in Procs |-> u'[q]] /\ u'[p] = r
    /\ cpu \in {p, NoProc} /\ cpu' = CpuAfter(p, r)
    /\ Others(p)

LEMMA Unmoved ==
    ASSUME NEW r, NEW c, Fits(r, c) PROVE Alike(r, r, c)
BY DEF Alike

LEMMA GoShift ==
    ASSUME TypeOK, Users, NEW p \in Procs, NEW r, Go(p, r), cpu \in {p, NoProc},
           \A q \in Procs : q # p => cdir'[q] = cdir[q]
    PROVE  Shift(p, r)
<1>1. /\ u' = [q \in Procs |-> u'[q]] /\ u'[p] = r /\ cpu' = CpuAfter(p, r)
      /\ \A q \in Procs : q # p => u'[q] = u[q]
    BY DEF Go, Users
<1>2. ASSUME NEW q \in Procs, q # p PROVE Alike(u[q], u'[q], cdir[q])
    BY <1>1, <1>2, Unmoved DEF Users
<1> QED
    BY <1>1, <1>2 DEF Shift, Others

LEMMA WakeShift ==
    ASSUME TypeOK, Users, NEW p \in Procs, NEW r, NEW s, GoAndWake(p, s, r),
           cpu \in {p, NoProc}, \A q \in Procs : q # p => cdir'[q] = cdir[q]
    PROVE  Shift(p, r)
<1>1. /\ u' = [q \in Procs |-> u'[q]] /\ u'[p] = r /\ cpu' = CpuAfter(p, r)
      /\ \A q \in Procs : q # p => Woken(u[q], u'[q])
    BY DEF GoAndWake, Woken
<1>2. ASSUME NEW q \in Procs, q # p PROVE Alike(u[q], u'[q], cdir[q])
    BY <1>1, <1>2, WokenAlike DEF Users, TypeOK
<1> QED
    BY <1>1, <1>2 DEF Shift, Others

LEMMA UsersStep ==
    ASSUME NEW p \in Procs, NEW r, Shift(p, r), Fits(r, cdir'[p])
    PROVE  Users'
<1>1. ASSUME NEW q \in Procs PROVE Fits(u'[q], cdir'[q])
  <2>1. CASE q = p
      BY <2>1 DEF Shift
  <2>2. CASE q # p
      BY <2>2 DEF Shift, Others, Alike
  <2> QED
      BY <2>1, <2>2
<1>2. ASSUME NEW q \in Procs PROVE u'[q] \in URec
    BY <1>1 DEF Fits
<1>3. u' \in [Procs -> URec]
    BY <1>2 DEF Shift
<1> QED
    BY <1>1, <1>3 DEF Users

LEMMA ParkedStep ==
    ASSUME Parked, NEW p \in Procs, NEW r, Shift(p, r)
    PROVE  Parked'
<1>1. ASSUME NEW q \in Procs, q # cpu' PROVE u'[q].pc \in Sleeps \cup {"iget", "ialloc", "got"}
  <2>1. CASE q = p
      BY <1>1, <2>1 DEF Shift, CpuAfter
  <2>2. CASE q # p
    <3>1. u[q].pc \in Sleeps \cup {"iget", "ialloc", "got"}
        BY <2>2, NamesAssumption DEF Parked, Shift
    <3> QED
        BY <2>2, <3>1 DEF Shift, Others, Alike
  <2> QED
      BY <2>1, <2>2
<1>2. ASSUME NEW q \in Procs, q = cpu' PROVE u'[q].pc \notin Sleeps
    BY <1>2, NamesAssumption DEF Shift, CpuAfter
<1> QED
    BY <1>1, <1>2 DEF Parked

LEMMA FilesKept ==
    ASSUME FilesOK, NEW p \in Procs, NEW r, Shift(p, r),
           r.fd = u[p].fd, r.pc # "closed", u[p].pc # "closed",
           Leaving(r) => \A d \in Fds : ofile[p][d] = 0,
           Closing(r) => Closing(u[p]) /\ r.slot = u[p].slot, file' = file, ofile' = ofile
    PROVE  FilesOK' /\ \A s \in Slots : FileRefs(s)' = FileRefs(s)
<1>1. ASSUME NEW q \in Procs
      PROVE  /\ u'[q].fd = u[q].fd
             /\ u'[q].pc = "closed" <=> u[q].pc = "closed"
             /\ Leaving(u'[q]) => \A d \in Fds : ofile[q][d] = 0
             /\ Closing(u'[q]) => Closing(u[q]) /\ u'[q].slot = u[q].slot
  <2>1. CASE q = p
      BY <2>1 DEF Shift
  <2>2. CASE q # p
      BY <2>2 DEF Shift, Others, Alike, Leaving, Closing, Putting, FilesOK
  <2> QED
      BY <2>1, <2>2
<1>2. ASSUME NEW f \in 1..NFILE PROVE Closers(f)' = Closers(f) /\ Descs(f)' = Descs(f)
    BY <1>1 DEF Closers, Descs
<1>3. ASSUME NEW f \in 1..NFILE
      PROVE  /\ file'[f].count = Cardinality(Descs(f)') + Cardinality(Closers(f)')
             /\ file'[f].count > 0 => file'[f].inode # 0
    BY <1>2 DEF FilesOK
<1>4. ASSUME NEW q \in Procs, Closing(u'[q])
      PROVE  file'[u'[q].fd].count = 1 /\ file'[u'[q].fd].inode = u'[q].slot
    BY <1>1, <1>4 DEF FilesOK
<1>5. ASSUME NEW q \in Procs, Leaving(u'[q]) PROVE \A d \in Fds : ofile'[q][d] = 0
    BY <1>1, <1>5 DEF FilesOK
<1>6. ASSUME NEW s \in Slots PROVE FileRefs(s)' = FileRefs(s)
    BY <1>1 DEF FileRefs, Put
<1> QED
    BY <1>3, <1>4, <1>5, <1>6 DEF FilesOK

LEMMA FilesStep ==
    ASSUME FilesOK, NEW p \in Procs, NEW r, Shift(p, r), Calm(u[p], r),
           file' = file, ofile' = ofile
    PROVE  FilesOK' /\ \A s \in Slots : FileRefs(s)' = FileRefs(s)
<1>1. /\ r.fd = u[p].fd /\ r.pc # "closed" /\ u[p].pc # "closed"
      /\ Closing(r) => Closing(u[p]) /\ r.slot = u[p].slot
    BY DEF Calm
<1>2. Leaving(r) => \A d \in Fds : ofile[p][d] = 0
    BY DEF Calm, FilesOK
<1> QED
    BY <1>1, <1>2, FilesKept

LEMMA InExecStep ==
    ASSUME NEW p \in Procs, NEW r, Shift(p, r)
    PROVE  /\ Cardinality({q \in Procs : InExec(u[q])}) \in Nat
           /\ Cardinality({q \in Procs : InExec(u'[q])})
                = Cardinality({q \in Procs : InExec(u[q])}) + B(InExec(r)) - B(InExec(u[p]))
<1> DEFINE S == {q \in Procs : InExec(u[q])}
           T == {q \in Procs : InExec(u'[q])}
<1>1. T \ {p} = S \ {p}
    BY DEF Shift, Others, Alike
<1>2. IsFiniteSet(S)
    BY FiniteProcs
<1>3. (p \in S <=> InExec(u[p])) /\ (p \in T <=> InExec(r))
    BY DEF Shift
<1> HIDE DEF S, T
<1>4. /\ Cardinality(S) \in Nat
      /\ Cardinality(T) = Cardinality(S) + B(p \in T) - B(p \in S)
    BY <1>1, <1>2, CardStep
<1> QED
    BY <1>3, <1>4 DEF B, S, T

LEMMA ExecsStep ==
    ASSUME Execs, NEW p \in Procs, NEW r, Shift(p, r), InExec(r) <=> InExec(u[p]),
           execnt' = execnt
    PROVE  Execs'
BY InExecStep DEF Execs, B

LEMMA TotalStep ==
    ASSUME TypeOK, Counted, NEW p \in Procs, NEW r, Shift(p, r), NEW s \in Slots,
           FileRefs(s)' = FileRefs(s), stuck' = stuck
    PROVE  /\ Total(s) = inode[s].count /\ Total(s) \in Nat
           /\ Total(s)' = Total(s) + Holds(r, cdir'[p], s) - Holds(u[p], cdir[p], s)
<1>1. /\ Held(s) \in Nat /\ Held(s)' \in Nat
      /\ Held(s)' = Held(s) + Holds(r, cdir'[p], s) - Holds(u[p], cdir[p], s)
    BY HeldStep DEF Shift
<1>2. Cardinality(FileRefs(s)) \in Nat /\ Cardinality(StuckRefs(s)) \in Nat
    BY RefSets
<1>3. StuckRefs(s)' = StuckRefs(s)
    BY DEF StuckRefs
<1>4. Total(s) = Held(s) + Cardinality(FileRefs(s)) + Cardinality(StuckRefs(s)) + B(s = 1)
    BY DEF Total
<1>5. Total(s)' = Held(s)' + Cardinality(FileRefs(s)) + Cardinality(StuckRefs(s)) + B(s = 1)
    BY <1>3 DEF Total
<1>6. Holds(r, cdir'[p], s) \in Nat /\ Holds(u[p], cdir[p], s) \in Nat
    BY DEF Holds, B
<1> QED
    BY <1>1, <1>2, <1>4, <1>5, <1>6 DEF Counted, B

\* The step of a process that keeps what it has, while the table keeps its
\* inodes and their counts.
Quiet(p, r) ==
    /\ Shift(p, r) /\ Keeps(u[p], r, cdir[p])
    /\ file' = file /\ ofile' = ofile /\ cdir' = cdir /\ execnt' = execnt /\ stuck' = stuck
    /\ \A s \in Slots :
          /\ inode'[s].num = inode[s].num /\ inode'[s].count = inode[s].count
          /\ inode[s].count = 0 => inode'[s] = inode[s]
          /\ \A q \in Procs : Sole(u[q]) /\ u[q].slot = s => inode'[s].lock

LEMMA QuietStep ==
    ASSUME TypeOK, Rest, NEW p \in Procs, NEW r, Quiet(p, r)
    PROVE  Users' /\ Parked' /\ Unique' /\ SlotsFree' /\ Counted' /\ Exclusive' /\ FilesOK'
              /\ Execs'
<1>1. Shift(p, r) /\ Keeps(u[p], r, cdir[p]) /\ Calm(u[p], r)
    BY DEF Quiet, Keeps
<1>2. Users'
    BY <1>1, UsersStep DEF Quiet, Keeps
<1>3. Parked'
    BY <1>1, ParkedStep DEF Rest
<1>4. Unique'
    BY DEF Unique, Quiet, Rest
<1>5. SlotsFree'
    BY DEF SlotsFree, Quiet, Rest
<1>6. FilesOK' /\ \A s \in Slots : FileRefs(s)' = FileRefs(s)
    BY <1>1, FilesStep DEF Quiet, Rest
<1>7. Counted'
  <2>1. ASSUME NEW s \in Slots PROVE inode'[s].count = Total(s)'
    <3>1. /\ Total(s) = inode[s].count /\ Total(s) \in Nat
          /\ Total(s)' = Total(s) + Holds(r, cdir[p], s) - Holds(u[p], cdir[p], s)
        BY <1>1, <1>6, TotalStep DEF Quiet, Rest
    <3>2. Holds(r, cdir[p], s) = Holds(u[p], cdir[p], s) /\ Holds(u[p], cdir[p], s) \in Nat
        BY <1>1 DEF Keeps, Holds, B
    <3> QED
        BY <3>1, <3>2 DEF Quiet
  <2> QED
      BY <2>1 DEF Counted
<1>8. Execs'
    BY <1>1, ExecsStep DEF Quiet, Rest, Calm
<1>9. Exclusive'
  <2>1. ASSUME NEW q \in Procs
        PROVE  /\ Sole(u'[q]) => Sole(u[q]) /\ u'[q].slot = u[q].slot
               /\ u'[q].pc = "updwrite" => u[q].pc = "updwrite" /\ u'[q].off = u[q].off
    <3>1. CASE q = p
        BY <1>1, <3>1 DEF Shift, Keeps
    <3>2. CASE q # p
        BY <1>1, <3>2 DEF Shift, Others, Alike, Sole
    <3> QED
        BY <3>1, <3>2
  <2>2. ASSUME NEW q \in Procs, Sole(u'[q])
        PROVE  /\ inode'[u'[q].slot].count = 1 /\ inode'[u'[q].slot].lock
               /\ \A x \in Procs : u'[x].pc = "updwrite" => u'[x].off # u'[q].slot
    <3>1. u[q].slot \in Slots
        BY <2>1, <2>2, Holder DEF Rest, Users, Fits, Holding, WithSlot, Sole
    <3>2. inode[u[q].slot].count = 1
        BY <2>1, <2>2 DEF Rest, Exclusive
    <3>3. ASSUME NEW x \in Procs, u'[x].pc = "updwrite" PROVE u'[x].off # u'[q].slot
        BY <2>1, <2>2, <3>3 DEF Rest, Exclusive
    <3> QED
        BY <2>1, <2>2, <3>1, <3>2, <3>3 DEF Quiet
  <2>3. ASSUME NEW q \in Procs, u'[q].pc = "updwrite" PROVE inode'[u'[q].off].count > 0
    <3>1. u[q].off \in Slots
        BY <2>1, <2>3 DEF Rest, Users, Fits, Going
    <3> QED
        BY <2>1, <2>3, <3>1 DEF Rest, Exclusive, Quiet
  <2> QED
      BY <2>2, <2>3 DEF Exclusive
<1> QED
    BY <1>2, <1>3, <1>4, <1>5, <1>6, <1>7, <1>8, <1>9

-----------------------------------------------------------------------------
(* The steps that keep the counts.                                          *)

IRec == [num : 0..NI, lock : BOOLEAN, want : BOOLEAN, upd : BOOLEAN, count : Nat,
         mode : Mode, nlink : Int]
DRec == [mode : Mode, nlink : Int]

\* The variables that the other lemmas leave out.
RestTypes ==
    /\ inode \in [Slots -> IRec] /\ dino \in [Ino -> DRec] /\ DOMAIN dir = DirInos
    /\ s_inode \in Seq(Ino) /\ s_ilock \in BOOLEAN /\ updlock \in BOOLEAN
    /\ halted \in BOOLEAN /\ calls \in 0..MaxCalls

LEMMA TableSet ==
    ASSUME NEW t \in [Slots -> IRec], NEW s \in Slots, NEW e \in IRec
    PROVE  [t EXCEPT ![s] = e] \in [Slots -> IRec]
OBVIOUS

LEMMA TableUpd ==
    ASSUME NEW t \in [Slots -> IRec], NEW s \in Slots, NEW b \in BOOLEAN
    PROVE  [t EXCEPT ![s].upd = b] \in [Slots -> IRec]
<1>1. PICK e : e = [t[s] EXCEPT !.upd = b]
    OBVIOUS
<1>2. e \in IRec
    BY <1>1 DEF IRec
<1>3. [t EXCEPT ![s].upd = b] = [t EXCEPT ![s] = e]
    BY <1>1
<1> QED
    BY <1>2, <1>3, TableSet

LEMMA TableLock ==
    ASSUME NEW t \in [Slots -> IRec], NEW s \in Slots, NEW b \in BOOLEAN
    PROVE  [t EXCEPT ![s].lock = b] \in [Slots -> IRec]
<1>1. PICK e : e = [t[s] EXCEPT !.lock = b]
    OBVIOUS
<1>2. e \in IRec
    BY <1>1 DEF IRec
<1>3. [t EXCEPT ![s].lock = b] = [t EXCEPT ![s] = e]
    BY <1>1
<1> QED
    BY <1>2, <1>3, TableSet

LEMMA TableRead ==
    ASSUME NEW t \in [Slots -> IRec], NEW s \in Slots, NEW m \in Mode, NEW n \in Int
    PROVE  [t EXCEPT ![s].mode = m, ![s].nlink = n] \in [Slots -> IRec]
<1>1. PICK e : e = [t[s] EXCEPT !.mode = m, !.nlink = n]
    OBVIOUS
<1>2. e \in IRec
    BY <1>1 DEF IRec
<1>3. [t EXCEPT ![s].mode = m, ![s].nlink = n] = [t EXCEPT ![s] = e]
    BY <1>1
<1> QED
    BY <1>2, <1>3, TableSet

LEMMA TableFreed ==
    ASSUME NEW t \in [Slots -> IRec], NEW s \in Slots, NEW m \in Mode, NEW b \in BOOLEAN
    PROVE  [t EXCEPT ![s].mode = m, ![s].upd = b] \in [Slots -> IRec]
<1>1. PICK e : e = [t[s] EXCEPT !.mode = m, !.upd = b]
    OBVIOUS
<1>2. e \in IRec
    BY <1>1 DEF IRec
<1>3. [t EXCEPT ![s].mode = m, ![s].upd = b] = [t EXCEPT ![s] = e]
    BY <1>1
<1> QED
    BY <1>2, <1>3, TableSet

LEMMA TableLinks ==
    ASSUME NEW t \in [Slots -> IRec], NEW s \in Slots, NEW n \in Int, NEW v,
           v = [t EXCEPT ![s].nlink = n, ![s].upd = TRUE]
    PROVE  /\ v \in [Slots -> IRec]
           /\ \A x \in Slots : /\ v[x].num = t[x].num /\ v[x].count = t[x].count
                             /\ v[x].mode = t[x].mode /\ (t[x].lock => v[x].lock)
                             /\ x # s => v[x] = t[x]
<1>1. PICK e : e = [t[s] EXCEPT !.nlink = n, !.upd = TRUE]
    OBVIOUS
<1>2. /\ e \in IRec /\ e.num = t[s].num /\ e.count = t[s].count
      /\ e.mode = t[s].mode /\ e.lock = t[s].lock
    BY <1>1 DEF IRec
<1>3. v = [t EXCEPT ![s] = e]
    BY <1>1
<1>4. v[s] = e /\ \A x \in Slots : x # s => v[x] = t[x]
    BY <1>3
<1> QED
    BY <1>2, <1>3, <1>4, TableSet

LEMMA UnlockTable ==
    ASSUME NEW t \in [Slots -> IRec], NEW s \in Slots
    PROVE  Unlock(t, s) \in [Slots -> IRec]
<1>1. PICK v \in [Slots -> IRec] : v = [t EXCEPT ![s].lock = FALSE]
    BY TableLock
<1>2. [v EXCEPT ![s].want = FALSE] \in [Slots -> IRec]
    BY DEF IRec
<1> QED
    BY <1>1, <1>2 DEF Unlock

LEMMA MadeType ==
    ASSUME NEW t \in IRec, NEW m \in Mode, NEW n \in Int, NEW b \in BOOLEAN
    PROVE  [t EXCEPT !.mode = m, !.nlink = n, !.upd = b] \in IRec
BY DEF IRec

LEMMA CpuType ==
    ASSUME NEW p \in Procs, NEW r, Shift(p, r) PROVE cpu' \in Procs \cup {NoProc}
BY DEF Shift, CpuAfter

LEMMA Fitting ==
    ASSUME TypeOK, Rest, NEW p \in Procs
    PROVE  /\ Fits(u[p], cdir[p]) /\ u[p] \in URec /\ Holding(u[p]) /\ Going(u[p], cdir[p])
           /\ Naming(u[p]) /\ cdir[p] \in Slots /\ Users
           /\ inode \in [Slots -> IRec] /\ dino \in [Ino -> DRec] /\ RestTypes
BY DEF TypeOK, Rest, Users, Fits, RestTypes, IRec, DRec

LEMMA QuietInv ==
    ASSUME TypeOK, Rest, NEW p \in Procs, NEW r, Quiet(p, r), RestTypes', halted' \/ Dirs'
    PROVE  Inv'
<1>1. TypeOK'
  <2>1. cpu' \in Procs \cup {NoProc}
      BY CpuType DEF Quiet
  <2> QED
      BY <2>1 DEF TypeOK, RestTypes, Quiet, IRec, DRec
<1>2. Users' /\ Parked' /\ Unique' /\ SlotsFree' /\ Counted' /\ Exclusive' /\ FilesOK' /\ Execs'
    BY QuietStep
<1> QED
    BY <1>1, <1>2 DEF Inv, Rest

\* The scanned directories stay where they are.
LEMMA QuietDirs ==
    ASSUME TypeOK, Rest, NEW p \in Procs, NEW r, Quiet(p, r),
           dir' \in [DirInos -> Seq(Entry)],
           \A s \in Slots : inode'[s].mode = "dir" => inode[s].num \in DirInos,
           \A i \in Ino : dino'[i].mode = "dir" => i \in DirInos,
           r.pc = "scan" => r.slot \in Slots /\ inode[r.slot].num \in DirInos
    PROVE  Dirs'
<1>1. \A s \in Slots : inode'[s].mode = "dir" => inode'[s].num \in DirInos
    BY DEF Quiet
<1>2. ASSUME NEW q \in Procs, u'[q].pc = "scan" PROVE inode'[u'[q].slot].num \in DirInos
  <2>1. CASE q = p
      BY <1>2, <2>1 DEF Quiet, Shift
  <2>2. CASE q # p
    <3>1. u'[q] = u[q]
        BY <1>2, <2>2 DEF Quiet, Shift, Others, Alike
    <3>2. u[q].slot \in Slots
        BY <1>2, <3>1, Holder DEF Rest, Users, Fits, Holding, WithSlot
    <3> QED
        BY <1>2, <3>1, <3>2 DEF Quiet, Rest, Dirs
  <2> QED
      BY <2>1, <2>2
<1> QED
    BY <1>1, <1>2 DEF Dirs

LEMMA SoleLocked ==
    ASSUME TypeOK, Rest, NEW s \in Slots, NEW q \in Procs, Sole(u[q]), u[q].slot = s
    PROVE  inode[s].lock /\ inode[s].count = 1
BY DEF Rest, Exclusive

\* Nobody but p reads or puts away what p has.
LEMMA NobodyElse ==
    ASSUME TypeOK, Rest, NEW p \in Procs, NEW s \in Slots, Has(p, s), NEW q \in Procs,
           Sole(u[q]), u[q].slot = s
    PROVE  q = p
<1>1. u[q].slot # 0 /\ u[q].pc # "isleep"
    BY Sizes DEF Sole, Slots
<1>2. Has(q, s)
    BY <1>1, Holder DEF Rest
<1>3. inode[s].count = 1
    BY SoleLocked
<1> QED
    BY <1>2, <1>3, TwoHolders DEF Rest

\* Steps that leave the table alone.
LEMMA PlainInv ==
    ASSUME TypeOK, Rest, NEW p \in Procs, NEW r, Go(p, r), cpu \in {p, NoProc},
           Keeps(u[p], r, cdir[p]),
           r.pc = "scan" => r.slot \in Slots /\ inode[r.slot].num \in DirInos,
           UNCHANGED <<inode, dino, dir, files, execnt, stuck>>,
           s_inode' \in Seq(Ino), s_ilock' \in BOOLEAN, updlock' \in BOOLEAN,
           halted' \in BOOLEAN, calls' \in 0..MaxCalls
    PROVE  Inv'
<1>1. Shift(p, r)
    BY GoShift DEF Rest, files
<1>2. Quiet(p, r)
    BY <1>1, SoleLocked DEF Quiet, files
<1>3. RestTypes'
    BY Fitting DEF RestTypes
<1>4. Dirs'
    BY <1>2, QuietDirs DEF Rest, Dirs
<1> QED
    BY <1>2, <1>3, <1>4, QuietInv

LEMMA CompInv ==
    ASSUME TypeOK, Rest, NEW p \in Procs, Comp(p) PROVE Inv'
<1>1. /\ u[p].pc = "comp" /\ cpu \in {p, NoProc}
      /\ UNCHANGED <<inode, dino, dir, super, files, halted, stuck, calls>>
    BY DEF Comp, At
<1>2. /\ Fits(u[p], cdir[p]) /\ cdir[p] \in Slots /\ u[p].slot \in Slots
      /\ RestTypes
    BY <1>1, Fitting, Holder DEF Holding, WithSlot
<1>3. ASSUME NEW r, Go(p, r), Keeps(u[p], r, cdir[p]),
             r.pc = "scan" => r.slot \in Slots /\ inode[r.slot].num \in DirInos
      PROVE  Inv'
    BY <1>1, <1>2, <1>3, PlainInv DEF super, files, RestTypes
<1>4. ASSUME Go(p, [u[p] EXCEPT !.pc = "got"]), u[p].flag = 0 \/ u[p].from # <<>> PROVE Inv'
  <2>1. PICK r : r = [u[p] EXCEPT !.pc = "got"]
      OBVIOUS
  <2>2. Keeps(u[p], r, cdir[p]) /\ r.pc # "scan"
      BY <1>1, <1>2, <1>4, <2>1, CompGot, Fitting DEF URec
  <2> QED
      BY <1>3, <1>4, <2>1, <2>2
<1>5. ASSUME Go(p, [u[p] EXCEPT !.pc = "scan"]), u[p].path # <<>>, inode[u[p].slot].mode = "dir"
      PROVE  Inv'
  <2>1. PICK r : r = [u[p] EXCEPT !.pc = "scan"]
      OBVIOUS
  <2>2. Keeps(u[p], r, cdir[p]) /\ r.slot = u[p].slot
      BY <1>1, <1>2, <1>5, <2>1, CompScan, Fitting DEF URec
  <2>3. inode[r.slot].num \in DirInos
      BY <1>2, <1>5, <2>2 DEF Rest, Dirs
  <2> QED
      BY <1>2, <1>3, <1>5, <2>1, <2>2, <2>3
<1>6. ASSUME Go(p, GiveUp(u[p])) PROVE Inv'
  <2>1. PICK r : r = GiveUp(u[p])
      OBVIOUS
  <2>2. Keeps(u[p], r, cdir[p]) /\ r.pc # "scan"
      BY <1>1, <1>2, <2>1, GivingUp, Fitting DEF URec, GiveUp, CallIput
  <2> QED
      BY <1>3, <1>6, <2>1, <2>2
<1> QED
    BY <1>1, <1>4, <1>5, <1>6 DEF Comp

LEMMA LeastNatural ==
    ASSUME NEW S \in SUBSET Nat, S # {}
    PROVE  FirstOf(S) \in S /\ \A k \in S : FirstOf(S) <= k
<1> DEFINE R == OpToRel(<, Nat)
<1>1. \E x \in S : \A y \in S : ~(<<y, x>> \in R)
    BY NatLessThanWellFounded, WFMin
<1>2. PICK x \in S : \A y \in S : <<y, x>> \notin R
    BY <1>1
<1>3. ASSUME NEW y \in S PROVE x <= y
    <2>1. <<y, x>> \notin {ss \in Nat \X Nat : ss[1] < ss[2]}
        BY <1>2 DEF OpToRel
    <2> QED
        BY <2>1
<1> QED
    BY <1>3 DEF FirstOf

LEMMA ScanFoundInv ==
    ASSUME TypeOK, Rest, NEW p \in Procs, ScanFound(p) PROVE Inv'
<1> DEFINE d == inode[u[p].slot].num
           found == Matches(d, Head(u[p].path))
           k == FirstOf(found)
           hit == [u[p] EXCEPT !.from = <<d, k>>, !.ino = dir[d][k].ino, !.path = Tail(@)]
<1>1. /\ u[p].pc = "scan" /\ cpu \in {p, NoProc} /\ found # {}
      /\ UNCHANGED <<inode, dino, dir, super, files, halted, stuck, calls>>
    BY DEF ScanFound, At
<1>2. /\ Fits(u[p], cdir[p]) /\ cdir[p] \in Slots /\ u[p].slot \in Slots
      /\ RestTypes /\ u[p] \in URec
    BY <1>1, Fitting, Holder DEF Holding, WithSlot
<1>3. d \in DirInos /\ dir[d] \in Seq(Entry)
    BY <1>1 DEF Rest, Dirs
<1>4. k \in Nat /\ dir[d][k].ino \in Ino
  <2>1. found \in SUBSET Nat /\ \A j \in found : dir[d][j].ino \in Ino
    <3>1. found = {j \in DOMAIN dir[d] : dir[d][j].name = Head(u[p].path) /\ dir[d][j].ino # 0}
        BY DEF Matches
    <3>2. DOMAIN dir[d] = 1..Len(dir[d]) /\ Len(dir[d]) \in Nat
          /\ \A j \in DOMAIN dir[d] : dir[d][j] \in Entry
        BY <1>3
    <3>3. ASSUME NEW j \in DOMAIN dir[d]
          PROVE  j \in Nat /\ dir[d][j].ino \in 0..NI
      <4>1. j \in Nat
          BY <3>2
      <4>2. PICK e \in Entry : e = dir[d][j]
          BY <3>2
      <4>3. e.ino \in 0..NI
          BY <4>2 DEF Entry
      <4> QED
          BY <4>1, <4>2, <4>3
    <3>4. \A i \in 0..NI : i # 0 => i \in Ino
        BY Sizes DEF Ino
    <3> QED
        BY <3>1, <3>3, <3>4
  <2> HIDE DEF found
  <2> QED
      BY <1>1, <2>1, LeastNatural
<1>5. PICK f, i : f = <<d, k>> /\ i = dir[d][k].ino
    OBVIOUS
<1>6. f \in DirInos \X Nat /\ f # <<>> /\ i \in Ino
    BY <1>3, <1>4, <1>5
<1> HIDE DEF k, found, d
<1>7. ASSUME NEW r, Go(p, r), Keeps(u[p], r, cdir[p]), r.pc # "scan" PROVE Inv'
    BY <1>1, <1>2, <1>7, PlainInv DEF super, files, RestTypes
<1>8. ASSUME Go(p, [hit EXCEPT !.pc = "got"]) PROVE Inv'
  <2>1. PICK r : r = [u[p] EXCEPT !.from = f, !.ino = i, !.path = Tail(@), !.pc = "got"]
      OBVIOUS
  <2>2. r = [hit EXCEPT !.pc = "got"]
      BY <1>5, <2>1
  <2>3. Keeps(u[p], r, cdir[p])
      BY <1>1, <1>2, <1>6, <2>1, ScanHit
  <2>4. r.pc # "scan"
      BY <1>2, <2>1 DEF URec
  <2> QED
      BY <1>7, <1>8, <2>2, <2>3, <2>4
<1>9. ASSUME Go(p, GiveUp(u[p])) PROVE Inv'
  <2>1. PICK r : r = GiveUp(u[p])
      OBVIOUS
  <2>2. Keeps(u[p], r, cdir[p]) /\ r.pc # "scan"
      BY <1>1, <1>2, <2>1, GivingUp DEF URec, GiveUp, CallIput
  <2> QED
      BY <1>7, <1>9, <2>1, <2>2
<1>10. ASSUME Go(p, CallIput(hit, u[p].slot, "iget")) PROVE Inv'
  <2>1. PICK r : r = CallIput([u[p] EXCEPT !.from = f, !.ino = i, !.path = Tail(@)],
                              u[p].slot, "iget")
      OBVIOUS
  <2>2. r = CallIput(hit, u[p].slot, "iget")
      BY <1>5, <2>1
  <2>3. Keeps(u[p], r, cdir[p])
      BY <1>1, <1>2, <1>6, <2>1, ScanNext
  <2>4. r.pc # "scan"
      BY <1>2, <2>1 DEF URec, CallIput
  <2> QED
      BY <1>7, <1>10, <2>2, <2>3, <2>4
<1>11. \/ Go(p, [hit EXCEPT !.pc = "got"]) \/ Go(p, GiveUp(u[p]))
       \/ Go(p, CallIput(hit, u[p].slot, "iget"))
    BY DEF ScanFound, d, found, k
<1> QED
    BY <1>8, <1>9, <1>10, <1>11

\* What a step does to the table when it keeps the numbers and counts.
Tabled(p) ==
    \A s \in Slots :
       /\ inode'[s].num = inode[s].num /\ inode'[s].count = inode[s].count
       /\ inode[s].count = 0 => inode'[s] = inode[s]
       /\ inode[s].lock => inode'[s].lock \/ Has(p, s)
                           \/ \A q \in Procs : ~(Sole(u[q]) /\ u[q].slot = s)

\* Steps that change the table, but no numbers and counts.
LEMMA TableInv ==
    ASSUME TypeOK, Rest, NEW p \in Procs, NEW r, Shift(p, r), Keeps(u[p], r, cdir[p]),
           ~Sole(u[p]) \/ \A s \in Slots : inode[s].lock => inode'[s].lock,
           Tabled(p), UNCHANGED <<files, execnt, stuck>>,
           RestTypes', halted' \/ dir' \in [DirInos -> Seq(Entry)],
           \A s \in Slots : inode'[s].mode = "dir" => inode[s].num \in DirInos,
           \A i \in Ino : dino'[i].mode = "dir" => i \in DirInos, r.pc # "scan"
    PROVE  Inv'
<1>1. ASSUME NEW s \in Slots, NEW q \in Procs, Sole(u[q]), u[q].slot = s PROVE inode'[s].lock
  <2>1. inode[s].lock
      BY <1>1, SoleLocked
  <2>2. CASE q = p
      BY <1>1, <2>1, <2>2
  <2>3. CASE q # p
      BY <1>1, <2>1, <2>3, NobodyElse DEF Tabled
  <2> QED
      BY <2>2, <2>3
<1>2. Quiet(p, r)
    BY <1>1 DEF Quiet, Tabled, files
<1>3. halted' \/ Dirs'
    BY <1>2, QuietDirs
<1> QED
    BY <1>2, <1>3, QuietInv

LEMMA IgetLockedInv ==
    ASSUME TypeOK, Rest, NEW p \in Procs, IgetLocked(p) PROVE Inv'
<1>1. /\ u[p].pc = "iget" /\ cpu \in {p, NoProc}
      /\ UNCHANGED <<dino, dir, super, files, halted, stuck, calls>>
    BY DEF IgetLocked, At
<1>2. PICK s \in Slots : /\ inode[s].num = u[p].ino /\ inode[s].lock
                         /\ inode' = [inode EXCEPT ![s].want = TRUE]
                         /\ Go(p, [u[p] EXCEPT !.pc = "isleep", !.slot = s])
    BY DEF IgetLocked
<1>3. PICK r : r = [u[p] EXCEPT !.pc = "isleep", !.slot = s]
    OBVIOUS
<1>4. /\ Keeps(u[p], r, cdir[p]) /\ r.pc # "scan" /\ u[p].ino # 0
    BY <1>1, <1>3, Fitting, IgetWait DEF URec, Naming, Fetching
<1>5. Shift(p, r)
    BY <1>1, <1>2, <1>3, GoShift, Fitting DEF files
<1>6. inode' \in [Slots -> IRec] /\ RestTypes'
  <2>1. inode' \in [Slots -> IRec]
      BY <1>2, Fitting DEF IRec
  <2> QED
      BY <1>1, <2>1, Fitting DEF RestTypes, super
<1>7. \A x \in Slots : /\ inode'[x].num = inode[x].num /\ inode'[x].count = inode[x].count
                       /\ inode'[x].mode = inode[x].mode /\ inode'[x].lock = inode[x].lock
                       /\ x # s => inode'[x] = inode[x]
    BY <1>2, Fitting DEF IRec
<1>8. inode[s].count # 0
    BY <1>2, <1>4 DEF Rest, SlotsFree, Free
<1>9. Tabled(p)
    BY <1>7, <1>8 DEF Tabled
<1> QED
    BY <1>1, <1>4, <1>5, <1>6, <1>7, <1>9, TableInv DEF Rest, Dirs, super

LEMMA IupdatTypes ==
    ASSUME TypeOK, Rest, NEW s \in Slots, Iupdat(s)
    PROVE  dino' \in [Ino -> DRec] /\ \A i \in Ino : dino'[i].mode = "dir" => i \in DirInos
<1>1. inode[s] \in IRec /\ dino \in [Ino -> DRec]
    BY DEF TypeOK, IRec, DRec
<1>2. PICK e \in DRec : e = [mode |-> inode[s].mode, nlink |-> inode[s].nlink]
    BY <1>1 DEF IRec, DRec
<1>3. dino' = [dino EXCEPT ![inode[s].num] = e]
    BY <1>2 DEF Iupdat
<1>4. dino' \in [Ino -> DRec]
    BY <1>1, <1>3
<1>5. ASSUME NEW i \in Ino, dino'[i].mode = "dir" PROVE i \in DirInos
  <2>1. CASE i = inode[s].num
    <3>1. dino'[i] = e
        BY <1>1, <1>3, <2>1
    <3>2. inode[s].mode = "dir"
        BY <1>2, <1>5, <3>1
    <3> QED
        BY <2>1, <3>2 DEF Rest, Dirs
  <2>2. CASE i # inode[s].num
      BY <1>1, <1>3, <1>5, <2>2 DEF Rest, Dirs
  <2> QED
      BY <2>1, <2>2
<1> QED
    BY <1>4, <1>5

\* y is r where namei begins.
NameiStart(r, g, y) ==
    \E P \in Seq(STRING), i \in Ino :
       y = CallIget([r EXCEPT !.path = P, !.flag = g, !.from = <<>>], i, "comp")

LEMMA NameiCall ==
    ASSUME TypeOK, Rest, NEW p \in Procs, u[p].pc \notin {"dead", "chdir"},
           NEW r, NEW path \in Seq(STRING), NEW g
    PROVE  NameiStart(r, g, CallNamei(r, p, path, g))
<1> DEFINE abs == path # <<>> /\ path[1] = "/"
<1>1. PICK P : P = (IF abs THEN Tail(path) ELSE path)
    OBVIOUS
<1>2. PICK i : i = (IF abs THEN ROOTINO ELSE inode[cdir[p]].num)
    OBVIOUS
<1>3. P \in Seq(STRING)
    BY <1>1, TailPath
<1>4. inode[cdir[p]].num \in Ino
  <2>1. cdir[p] \in Slots /\ Has(p, cdir[p]) /\ inode \in [Slots -> IRec]
      BY Fitting, Holder
  <2>2. inode[cdir[p]].count \in Nat /\ inode[cdir[p]].count >= 1
      BY <2>1, OneHolder DEF Rest
  <2>3. inode[cdir[p]].num # 0 /\ inode[cdir[p]].num \in 0..NI
      BY <2>1, <2>2 DEF Rest, SlotsFree, IRec
  <2> QED
      BY <2>3, Sizes DEF Ino
<1>5. i \in Ino
    BY <1>2, <1>4, NamesAssumption
<1>6. CallNamei(r, p, path, g)
        = CallIget([r EXCEPT !.path = P, !.flag = g, !.from = <<>>], i, "comp")
    BY <1>1, <1>2 DEF CallNamei
<1> QED
    BY <1>3, <1>5, <1>6 DEF NameiStart

LEMMA EntrySet ==
    ASSUME NEW q \in Seq(Entry), NEW e \in Entry, NEW k
    PROVE  [q EXCEPT ![k] = e] \in Seq(Entry) /\ Append(q, e) \in Seq(Entry)
<1>1. q \in [1..Len(q) -> Entry] /\ Len(q) \in Nat
    OBVIOUS
<1>2. [q EXCEPT ![k] = e] \in [1..Len(q) -> Entry]
    BY <1>1
<1> QED
    BY <1>1, <1>2

LEMMA EntryClear ==
    ASSUME NEW q \in Seq(Entry), NEW k
    PROVE  [q EXCEPT ![k].ino = 0] \in Seq(Entry)
<1>1. q \in [1..Len(q) -> Entry] /\ Len(q) \in Nat
    OBVIOUS
<1>2. 0 \in 0..NI
    BY Sizes
<1>3. ASSUME NEW j \in 1..Len(q) PROVE [q EXCEPT ![k].ino = 0][j] \in Entry
  <2>1. CASE j = k
    <3>1. [q EXCEPT ![k].ino = 0][j] = [q[k] EXCEPT !.ino = 0]
        BY <1>1, <2>1
    <3>2. q[k] \in Entry
        BY <1>1, <2>1
    <3> QED
        BY <1>2, <3>1, <3>2 DEF Entry
  <2>2. CASE j # k
      BY <1>1, <2>2
  <2> QED
      BY <2>1, <2>2
<1>4. DOMAIN [q EXCEPT ![k].ino = 0] = 1..Len(q)
    BY <1>1
<1>5. [q EXCEPT ![k].ino = 0] \in [1..Len(q) -> Entry]
    BY <1>3, <1>4
<1> QED
    BY <1>1, <1>5

LEMMA FrontLast ==
    ASSUME NEW S, NEW q \in Seq(S), q # <<>>
    PROVE  Front(q) \in Seq(S) /\ Last(q) \in S
<1>1. Len(q) \in Nat /\ Len(q) > 0 /\ \A i \in 1..Len(q) : q[i] \in S
    OBVIOUS
<1>2. Last(q) = q[Len(q)]
    BY DEF Last
<1>3. Front(q) = SubSeq(q, 1, Len(q) - 1)
    BY DEF Front
<1> QED
    BY <1>1, <1>2, <1>3

LEMMA NothingAt == 0 \in Nat
OBVIOUS

\* A file with a descriptor is counted, and has a slot.
LEMMA OpenFile ==
    ASSUME TypeOK, Rest, NEW p \in Procs, NEW d \in Fds, ofile[p][d] # 0
    PROVE  /\ ofile[p][d] \in 1..NFILE /\ file[ofile[p][d]].count > 0
           /\ file[ofile[p][d]].inode \in Slots
<1> DEFINE f == ofile[p][d]
<1>1. f \in 1..NFILE
    BY Sizes DEF TypeOK
<1>2. IsFiniteSet(Descs(f)) /\ IsFiniteSet(Closers(f)) /\ <<p, d>> \in Descs(f)
    BY FiniteDescs, FiniteProcs DEF Descs, Closers
<1>3. Cardinality(Descs(f)) \in Nat /\ Cardinality(Closers(f)) \in Nat
      /\ Cardinality(Descs(f)) # 0
    BY <1>2, FS_CardinalityType, FS_EmptySet
<1>4. file[f].count = Cardinality(Descs(f)) + Cardinality(Closers(f))
    BY <1>1 DEF Rest, FilesOK
<1>5. file[f].count > 0
    BY <1>3, <1>4
<1>6. file[f].inode # 0 /\ file[f].inode \in 0..NINODE
    BY <1>1, <1>5 DEF Rest, FilesOK, TypeOK
<1> QED
    BY <1>1, <1>5, <1>6, Sizes DEF Slots

LEMMA IallocEnterInv ==
    ASSUME TypeOK, Rest, NEW p \in Procs, IallocEnter(p) PROVE Inv'
<1>1. /\ u[p].pc = "ialloc" /\ cpu \in {p, NoProc}
      /\ UNCHANGED <<inode, dino, dir, super, files, halted, stuck, calls>>
    BY DEF IallocEnter, At
<1>2. /\ Fits(u[p], cdir[p]) /\ cdir[p] \in Slots /\ u[p] \in URec /\ RestTypes
    BY Fitting
<1>3. ASSUME Go(p, [u[p] EXCEPT !.pc = IF s_ilock THEN "ilock" ELSE "iloop"]) PROVE Inv'
  <2>1. PICK r : r = [u[p] EXCEPT !.pc = IF s_ilock THEN "ilock" ELSE "iloop"]
      OBVIOUS
  <2>2. Keeps(u[p], r, cdir[p])
      BY <1>1, <1>2, <1>3, <2>1, IallocMove
  <2>3. r.pc # "scan"
      BY <1>1, <1>2, <1>3, <2>1 DEF URec
  <2> QED
      BY <1>1, <1>2, <1>3, <2>1, <2>2, <2>3, PlainInv DEF super, files, RestTypes
<1> QED
    BY <1>1, <1>3 DEF IallocEnter

LEMMA IallocPopInv ==
    ASSUME TypeOK, Rest, NEW p \in Procs, IallocPop(p) PROVE Inv'
<1>1. /\ u[p].pc = "iloop" /\ s_inode # <<>> /\ s_inode' = Front(s_inode) /\ cpu \in {p, NoProc}
      /\ UNCHANGED <<inode, dino, dir, s_ilock, updlock, execnt, files, halted, stuck, calls>>
    BY DEF IallocPop, At
<1>2. /\ Fits(u[p], cdir[p]) /\ cdir[p] \in Slots /\ u[p] \in URec /\ RestTypes
    BY Fitting
<1>3. Front(s_inode) \in Seq(Ino) /\ Last(s_inode) \in Ino
    BY <1>1, <1>2, FrontLast DEF RestTypes
<1>4. ASSUME Go(p, CallIget([u[p] EXCEPT !.from = <<>>], Last(s_inode), "igot")) PROVE Inv'
  <2>1. PICK r : r = CallIget([u[p] EXCEPT !.from = <<>>], Last(s_inode), "igot")
      OBVIOUS
  <2>2. Keeps(u[p], r, cdir[p])
      BY <1>1, <1>2, <1>4, <2>1, IallocGet, <1>3
  <2>3. r.pc # "scan"
      BY <1>1, <1>2, <1>4, <2>1 DEF URec, CallIget
  <2> QED
      BY <1>1, <1>2, <1>3, <1>4, <2>1, <2>2, <2>3, PlainInv DEF super, files, RestTypes
<1> QED
    BY <1>1, <1>4 DEF IallocPop

LEMMA IallocEmptyInv ==
    ASSUME TypeOK, Rest, NEW p \in Procs, IallocEmpty(p) PROVE Inv'
<1>1. /\ u[p].pc = "iloop" /\ s_ilock' = TRUE /\ cpu \in {p, NoProc}
      /\ UNCHANGED <<inode, dino, dir, s_inode, updlock, execnt, files, halted, stuck, calls>>
    BY DEF IallocEmpty, At
<1>2. /\ Fits(u[p], cdir[p]) /\ cdir[p] \in Slots /\ u[p] \in URec /\ RestTypes
    BY Fitting
<1>3. ASSUME Go(p, [u[p] EXCEPT !.pc = "ifill"]) PROVE Inv'
  <2>1. PICK r : r = [u[p] EXCEPT !.pc = "ifill"]
      OBVIOUS
  <2>2. Keeps(u[p], r, cdir[p])
      BY <1>1, <1>2, <1>3, <2>1, IallocMove
  <2>3. r.pc # "scan"
      BY <1>1, <1>2, <1>3, <2>1 DEF URec
  <2> QED
      BY <1>1, <1>2, <1>3, <2>1, <2>2, <2>3, PlainInv DEF super, files, RestTypes
<1> QED
    BY <1>1, <1>3 DEF IallocEmpty

LEMMA OpenGotInv ==
    ASSUME TypeOK, Rest, NEW p \in Procs, OpenGot(p) PROVE Inv'
<1>1. /\ u[p].pc = "got" /\ u[p].call \in {"open", "creat"} /\ cpu \in {p, NoProc}
      /\ UNCHANGED <<inode, dino, dir, super, files, halted, stuck, calls>>
    BY DEF OpenGot, At
<1>2. /\ Fits(u[p], cdir[p]) /\ cdir[p] \in Slots /\ u[p] \in URec /\ RestTypes
    BY Fitting
<1>3. ASSUME Go(p, [u[p] EXCEPT !.pc = IF u[p].call = "open" THEN "open1" ELSE "trunc"]) PROVE Inv'
  <2>1. PICK r : r = [u[p] EXCEPT !.pc = IF u[p].call = "open" THEN "open1" ELSE "trunc"]
      OBVIOUS
  <2>2. Keeps(u[p], r, cdir[p])
      BY <1>1, <1>2, <1>3, <2>1, OpenMove
  <2>3. r.pc # "scan"
      BY <1>1, <1>2, <1>3, <2>1 DEF URec
  <2> QED
      BY <1>1, <1>2, <1>3, <2>1, <2>2, <2>3, PlainInv DEF super, files, RestTypes
<1>4. ASSUME Go(p, GiveUp(u[p])) PROVE Inv'
  <2>1. PICK r : r = GiveUp(u[p])
      OBVIOUS
  <2>2. Keeps(u[p], r, cdir[p])
      BY <1>1, <1>2, <1>4, <2>1, GivingUp
  <2>3. r.pc # "scan"
      BY <1>1, <1>2, <1>4, <2>1 DEF URec, GiveUp, CallIput
  <2> QED
      BY <1>1, <1>2, <1>4, <2>1, <2>2, <2>3, PlainInv DEF super, files, RestTypes
<1> QED
    BY <1>1, <1>3, <1>4 DEF OpenGot

LEMMA ChdirGotInv ==
    ASSUME TypeOK, Rest, NEW p \in Procs, ChdirGot(p) PROVE Inv'
<1>1. /\ u[p].pc = "got" /\ u[p].call = "chdir" /\ cpu \in {p, NoProc}
      /\ UNCHANGED <<inode, dino, dir, super, files, halted, stuck, calls>>
    BY DEF ChdirGot, At
<1>2. /\ Fits(u[p], cdir[p]) /\ cdir[p] \in Slots /\ u[p] \in URec /\ RestTypes
    BY Fitting
<1>3. ASSUME Go(p, CallIput([u[p] EXCEPT !.ip = u[p].slot], cdir[p], "chdir")) PROVE Inv'
  <2>1. PICK r : r = CallIput([u[p] EXCEPT !.ip = u[p].slot], cdir[p], "chdir")
      OBVIOUS
  <2>2. Keeps(u[p], r, cdir[p])
      BY <1>1, <1>2, <1>3, <2>1, ChdirPut
  <2>3. r.pc # "scan"
      BY <1>1, <1>2, <1>3, <2>1 DEF URec, CallIput
  <2> QED
      BY <1>1, <1>2, <1>3, <2>1, <2>2, <2>3, PlainInv DEF super, files, RestTypes
<1>4. ASSUME Go(p, GiveUp(u[p])) PROVE Inv'
  <2>1. PICK r : r = GiveUp(u[p])
      OBVIOUS
  <2>2. Keeps(u[p], r, cdir[p])
      BY <1>1, <1>2, <1>4, <2>1, GivingUp
  <2>3. r.pc # "scan"
      BY <1>1, <1>2, <1>4, <2>1 DEF URec, GiveUp, CallIput
  <2> QED
      BY <1>1, <1>2, <1>4, <2>1, <2>2, <2>3, PlainInv DEF super, files, RestTypes
<1> QED
    BY <1>1, <1>3, <1>4 DEF ChdirGot

LEMMA UnlinkGetInv ==
    ASSUME TypeOK, Rest, NEW p \in Procs, UnlinkGet(p) PROVE Inv'
<1>1. /\ u[p].pc = "uget" /\ cpu \in {p, NoProc}
      /\ UNCHANGED <<inode, dino, dir, super, files, halted, stuck, calls>>
    BY DEF UnlinkGet, At
<1>2. /\ Fits(u[p], cdir[p]) /\ cdir[p] \in Slots /\ u[p] \in URec /\ RestTypes
    BY Fitting
<1>3. ASSUME Go(p, [[u[p] EXCEPT !.ip = u[p].slot,
                   !.slot = 0] EXCEPT !.pc = "uwrite"]) PROVE Inv'
  <2>1. PICK r : r = [[u[p] EXCEPT !.ip = u[p].slot, !.slot = 0] EXCEPT !.pc = "uwrite"]
      OBVIOUS
  <2>2. Keeps(u[p], r, cdir[p])
      BY <1>1, <1>2, <1>3, <2>1, UnlinkMove
  <2>3. r.pc # "scan"
      BY <1>1, <1>2, <1>3, <2>1 DEF URec
  <2> QED
      BY <1>1, <1>2, <1>3, <2>1, <2>2, <2>3, PlainInv DEF super, files, RestTypes
<1>4. ASSUME Go(p, CallIput([[u[p] EXCEPT !.ip = u[p].slot, !.slot = 0] EXCEPT !.pdir = 0],
                   [u[p] EXCEPT !.ip = u[p].slot, !.slot = 0].pdir, "last")) PROVE Inv'
  <2>1. PICK r : r = CallIput([u[p] EXCEPT !.ip = u[p].slot, !.slot = 0, !.pdir = 0],
              u[p].pdir, "last")
      OBVIOUS
  <2>2. r = CallIput([[u[p] EXCEPT !.ip = u[p].slot, !.slot = 0] EXCEPT !.pdir = 0],
              [u[p] EXCEPT !.ip = u[p].slot, !.slot = 0].pdir, "last")
      BY <1>2, <2>1 DEF URec
  <2>3. Keeps(u[p], r, cdir[p])
      BY <1>1, <1>2, <1>4, <2>1, UnlinkRefused
  <2>4. r.pc # "scan"
      BY <1>1, <1>2, <1>4, <2>1 DEF URec, CallIput
  <2> QED
      BY <1>1, <1>2, <1>4, <2>1, <2>2, <2>3, <2>4, PlainInv DEF super, files, RestTypes
<1> QED
    BY <1>1, <1>3, <1>4 DEF UnlinkGet

LEMMA ExitInv ==
    ASSUME TypeOK, Rest, NEW p \in Procs, Exit(p) PROVE Inv'
<1>1. /\ u[p].pc = "user" /\ calls < MaxCalls /\ calls' = calls + 1 /\ cpu \in {p, NoProc}
      /\ UNCHANGED <<inode, dino, dir, super, files, halted, stuck>>
    BY DEF Exit, At
<1>2. /\ Fits(u[p], cdir[p]) /\ cdir[p] \in Slots /\ u[p] \in URec /\ RestTypes
    BY Fitting
<1>3. calls + 1 \in 0..MaxCalls
    BY <1>1, <1>2, NamesAssumption DEF RestTypes
<1>4. ASSUME Go(p, [Idle EXCEPT !.pc = "exit"]) PROVE Inv'
  <2>1. PICK r : r = [Idle EXCEPT !.pc = "exit"]
      OBVIOUS
  <2>2. Keeps(u[p], r, cdir[p])
      BY <1>1, <1>2, <1>4, <2>1, ExitBegins
  <2>3. r.pc # "scan"
      BY <1>1, <1>2, <1>4, <2>1 DEF URec, Idle
  <2> QED
      BY <1>1, <1>2, <1>3, <1>4, <2>1, <2>2, <2>3, PlainInv DEF super, files, RestTypes
<1> QED
    BY <1>1, <1>4 DEF Exit

LEMMA UpdateDoneInv ==
    ASSUME TypeOK, Rest, NEW p \in Procs, UpdateDone(p) PROVE Inv'
<1>1. /\ u[p].pc = "upd" /\ updlock' = FALSE /\ cpu \in {p, NoProc}
      /\ UNCHANGED <<inode, dino, dir, s_inode, s_ilock, execnt, files, halted, stuck, calls>>
    BY DEF UpdateDone, At
<1>2. /\ Fits(u[p], cdir[p]) /\ cdir[p] \in Slots /\ u[p] \in URec /\ RestTypes
    BY Fitting
<1>3. ASSUME Go(p, Idle) PROVE Inv'
  <2>1. PICK r : r = [Idle EXCEPT !.pc = "user", !.off = 0]
      OBVIOUS
  <2>2. r = Idle
      BY <2>1 DEF Idle
  <2>3. Keeps(u[p], r, cdir[p])
      BY <1>1, <1>2, <1>3, <2>1, AtRest, NothingAt
  <2>4. r.pc # "scan"
      BY <1>1, <1>2, <1>3, <2>1 DEF URec, Idle
  <2> QED
      BY <1>1, <1>2, <1>3, <2>1, <2>2, <2>3, <2>4, PlainInv DEF super, files, RestTypes
<1> QED
    BY <1>1, <1>3 DEF UpdateDone

LEMMA UpdateInv ==
    ASSUME TypeOK, Rest, NEW p \in Procs, Update(p) PROVE Inv'
<1>1. /\ u[p].pc = "user" /\ calls < MaxCalls /\ calls' = calls + 1 /\ updlock' = TRUE
            /\ cpu \in {p, NoProc}
      /\ UNCHANGED <<inode, dino, dir, s_inode, s_ilock, execnt, files, halted, stuck>>
    BY DEF Update, At
<1>2. /\ Fits(u[p], cdir[p]) /\ cdir[p] \in Slots /\ u[p] \in URec /\ RestTypes
    BY Fitting
<1>3. calls + 1 \in 0..MaxCalls
    BY <1>1, <1>2, NamesAssumption DEF RestTypes
<1>4. 1 \in 1..(NINODE + 1) /\ 1 \in Nat
    BY Sizes
<1>5. ASSUME Go(p, [Idle EXCEPT !.pc = "upd", !.off = 1]) PROVE Inv'
  <2>1. PICK r : r = [Idle EXCEPT !.pc = "upd", !.off = 1]
      OBVIOUS
  <2>2. Keeps(u[p], r, cdir[p])
      BY <1>1, <1>2, <1>5, <1>4, <2>1, AtRest, <1>4
  <2>3. r.pc # "scan"
      BY <1>1, <1>2, <1>5, <2>1 DEF URec, Idle
  <2> QED
      BY <1>1, <1>2, <1>3, <1>5, <2>1, <2>2, <2>3, PlainInv DEF super, files, RestTypes
<1> QED
    BY <1>1, <1>5 DEF Update

LEMMA FstatInv ==
    ASSUME TypeOK, Rest, NEW p \in Procs, NEW d \in Fds, Fstat(p, d) PROVE Inv'
<1>1. /\ u[p].pc = "user" /\ calls < MaxCalls /\ calls' = calls + 1 /\ cpu \in {p, NoProc}
      /\ UNCHANGED <<inode, dino, dir, super, files, halted, stuck>>
    BY DEF Fstat, At
<1>2. /\ Fits(u[p], cdir[p]) /\ cdir[p] \in Slots /\ u[p] \in URec /\ RestTypes
    BY Fitting
<1>3. calls + 1 \in 0..MaxCalls
    BY <1>1, <1>2, NamesAssumption DEF RestTypes
<1>4. PICK o : o = file[ofile[p][d]].inode /\ o \in Slots /\ o \in Nat
    BY OpenFile DEF Fstat, Getf, Slots
<1>5. ASSUME Go(p, [Idle EXCEPT !.pc = "fstat", !.off = file[ofile[p][d]].inode]) PROVE Inv'
  <2>1. PICK r : r = [Idle EXCEPT !.pc = "fstat", !.off = o]
      OBVIOUS
  <2>2. r = [Idle EXCEPT !.pc = "fstat", !.off = file[ofile[p][d]].inode]
      BY <2>1, <1>4 DEF Idle
  <2>3. Keeps(u[p], r, cdir[p])
      BY <1>1, <1>2, <1>5, <1>4, <2>1, AtRest, <1>4
  <2>4. r.pc # "scan"
      BY <1>1, <1>2, <1>5, <2>1 DEF URec, Idle
  <2> QED
      BY <1>1, <1>2, <1>3, <1>5, <2>1, <2>2, <2>3, <2>4, PlainInv DEF super, files,
         RestTypes
<1> QED
    BY <1>1, <1>5 DEF Fstat

LEMMA MaknodeInv ==
    ASSUME TypeOK, Rest, NEW p \in Procs, Maknode(p) PROVE Inv'
<1>1. /\ u[p].pc = "igot" /\ cpu \in {p, NoProc}
      /\ UNCHANGED <<dino, dir, super, files, halted, stuck, calls>>
    BY DEF Maknode, At
<1>2. /\ Fits(u[p], cdir[p]) /\ cdir[p] \in Slots /\ u[p] \in URec /\ RestTypes
      /\ inode \in [Slots -> IRec] /\ Users
    BY Fitting
<1>3. PICK s \in Slots : /\ s = u[p].slot /\ Has(p, s)
                         /\ inode[s].count \in Nat /\ inode[s].count >= 1
    BY <1>1, Fitting, Holder, OneHolder DEF Holding, WithSlot, WithIp, WithPdir, Rest,
       Allocating, Fetching, Putting
<1>4. (IF u[p].call = "creat" THEN "reg" ELSE "spec") \in Mode
    BY DEF Mode
<1>5. ASSUME Go(p, [u[p] EXCEPT !.pc = "wdir", !.ip = s, !.slot = 0]),
             inode' = [inode EXCEPT ![s] = [@ EXCEPT !.mode = IF u[p].call = "creat" THEN "reg"
                                                              ELSE "spec",
                                                     !.nlink = 1, !.upd = TRUE]]
      PROVE  Inv'
  <2>1. PICK r : r = [u[p] EXCEPT !.pc = "wdir", !.ip = u[p].slot, !.slot = 0]
      OBVIOUS
  <2>2. r = [u[p] EXCEPT !.pc = "wdir", !.ip = s, !.slot = 0]
      BY <1>2, <1>3, <1>4, <2>1 DEF URec
  <2>3. Keeps(u[p], r, cdir[p])
      BY <1>1, <1>2, <1>3, <1>5, <1>4, <2>1, MaknodeMade
  <2>4. r.pc # "scan" /\ ~Sole(u[p])
      BY <1>1, <1>2, <1>5, <2>1 DEF URec, Sole
  <2>5. Shift(p, r)
      BY <1>1, <1>2, <1>5, <2>1, <2>2, GoShift DEF files
  <2>6. inode' \in [Slots -> IRec]
    <3>1. inode[s] \in IRec /\ 1 \in Int
        BY <1>2
    <3>2. [inode[s] EXCEPT !.mode = IF u[p].call = "creat" THEN "reg" ELSE "spec",
                           !.nlink = 1, !.upd = TRUE] \in IRec
        BY <1>4, <3>1, MadeType
    <3> QED
        BY <1>2, <1>5, <3>2, TableSet
  <2>7. \A x \in Slots : /\ inode'[x].num = inode[x].num /\ inode'[x].count = inode[x].count
                         /\ (inode'[x].mode = "dir" => inode[x].mode = "dir")
                               /\ (inode[x].lock => inode'[x].lock)
                         /\ x # s => inode'[x] = inode[x]
      BY <1>2, <1>3, <1>5, <1>4 DEF IRec
  <2>8. Tabled(p)
      BY <1>3, <2>7 DEF Tabled
  <2>9. RestTypes'
      BY <1>1, <1>2, <1>4, <1>5, <2>6 DEF RestTypes, super
  <2> QED
      BY <1>1, <1>5, <1>4, <2>3, <2>4, <2>5, <2>6, <2>7, <2>8, <2>9, TableInv DEF Rest,
         Dirs, super
<1>6. ASSUME Go(p, CallIput(u[p], s, "iloop")), inode' = inode
      PROVE  Inv'
  <2>1. PICK r : r = CallIput(u[p], u[p].slot, "iloop")
      OBVIOUS
  <2>2. r = CallIput(u[p], s, "iloop")
      BY <1>2, <1>3, <1>4, <2>1 DEF URec
  <2>3. Keeps(u[p], r, cdir[p])
      BY <1>1, <1>2, <1>3, <1>6, <1>4, <2>1, MaknodeAgain
  <2>4. r.pc # "scan" /\ ~Sole(u[p])
      BY <1>1, <1>2, <1>6, <2>1 DEF URec, Sole, CallIput
  <2>5. Shift(p, r)
      BY <1>1, <1>2, <1>6, <2>1, <2>2, GoShift DEF files
  <2>6. Tabled(p)
      BY <1>6 DEF Tabled
  <2>7. RestTypes'
      BY <1>1, <1>2, <1>4, <1>6 DEF RestTypes, super
  <2> QED
      BY <1>1, <1>6, <1>4, <2>3, <2>4, <2>5, <2>6, <2>7, TableInv DEF Rest, Dirs, super
<1> QED
    BY <1>1, <1>3, <1>4, <1>5, <1>6 DEF Maknode

LEMMA Open1TruncInv ==
    ASSUME TypeOK, Rest, NEW p \in Procs, Open1Trunc(p) PROVE Inv'
<1>1. /\ u[p].pc = "trunc" /\ cpu \in {p, NoProc}
      /\ UNCHANGED <<dino, dir, super, files, halted, stuck, calls>>
    BY DEF Open1Trunc, At
<1>2. /\ Fits(u[p], cdir[p]) /\ cdir[p] \in Slots /\ u[p] \in URec /\ RestTypes
      /\ inode \in [Slots -> IRec] /\ Users
    BY Fitting
<1>3. PICK s \in Slots : /\ s = u[p].slot /\ Has(p, s)
                         /\ inode[s].count \in Nat /\ inode[s].count >= 1
    BY <1>1, Fitting, Holder, OneHolder DEF Holding, WithSlot, WithIp, WithPdir, Rest,
       Allocating, Fetching, Putting
<1>4. ASSUME Go(p, [u[p] EXCEPT !.pc = "open1"]),
             inode' = [inode EXCEPT ![s].upd = @ \/ inode[s].mode # "spec"]
      PROVE  Inv'
  <2>1. PICK r : r = [u[p] EXCEPT !.pc = "open1"]
      OBVIOUS
  <2>2. Keeps(u[p], r, cdir[p])
      BY <1>1, <1>2, <1>3, <1>4, <2>1, OpenMove
  <2>3. r.pc # "scan" /\ ~Sole(u[p])
      BY <1>1, <1>2, <1>4, <2>1 DEF URec, Sole
  <2>4. Shift(p, r)
      BY <1>1, <1>2, <1>4, <2>1, GoShift DEF files
  <2>5. inode' \in [Slots -> IRec]
    <3>1. PICK b \in BOOLEAN : b = (inode[s].upd \/ inode[s].mode # "spec")
        OBVIOUS
    <3>2. inode' = [inode EXCEPT ![s].upd = b]
        BY <1>4, <3>1
    <3> QED
        BY <1>2, <3>2, TableUpd
  <2>6. \A x \in Slots : /\ inode'[x].num = inode[x].num /\ inode'[x].count = inode[x].count
                         /\ inode'[x].mode = inode[x].mode /\ (inode[x].lock => inode'[x].lock)
                         /\ x # s => inode'[x] = inode[x]
      BY <1>2, <1>3, <1>4 DEF IRec
  <2>7. Tabled(p)
      BY <1>3, <2>6 DEF Tabled
  <2>8. RestTypes'
      BY <1>1, <1>2, <1>4, <2>5 DEF RestTypes, super
  <2> QED
      BY <1>1, <1>4, <2>2, <2>3, <2>4, <2>5, <2>6, <2>7, <2>8, TableInv DEF Rest, Dirs,
         super
<1> QED
    BY <1>1, <1>3, <1>4 DEF Open1Trunc

LEMMA StatGotInv ==
    ASSUME TypeOK, Rest, NEW p \in Procs, StatGot(p) PROVE Inv'
<1>1. /\ u[p].pc = "got" /\ u[p].call \in {"stat", "chmod", "mknod"} /\ cpu \in {p, NoProc}
      /\ UNCHANGED <<dino, dir, super, files, halted, stuck, calls>>
    BY DEF StatGot, At
<1>2. /\ Fits(u[p], cdir[p]) /\ cdir[p] \in Slots /\ u[p] \in URec /\ RestTypes
      /\ inode \in [Slots -> IRec] /\ Users
    BY Fitting
<1>3. PICK s \in Slots : /\ s = u[p].slot /\ Has(p, s)
                         /\ inode[s].count \in Nat /\ inode[s].count >= 1
    BY <1>1, Fitting, Holder, OneHolder DEF Holding, WithSlot, WithIp, WithPdir, Rest,
       Allocating, Fetching, Putting
<1>4. ASSUME Go(p, [u[p] EXCEPT !.pc = "stat"]), inode' = inode, u[p].call = "stat"
      PROVE  Inv'
  <2>1. PICK r : r = [u[p] EXCEPT !.pc = "stat"]
      OBVIOUS
  <2>2. Keeps(u[p], r, cdir[p])
      BY <1>1, <1>2, <1>3, <1>4, <2>1, StatMove
  <2>3. r.pc # "scan" /\ ~Sole(u[p])
      BY <1>1, <1>2, <1>4, <2>1 DEF URec, Sole
  <2>4. Shift(p, r)
      BY <1>1, <1>2, <1>4, <2>1, GoShift DEF files
  <2>5. Tabled(p)
      BY <1>4 DEF Tabled
  <2>6. RestTypes'
      BY <1>1, <1>2, <1>4 DEF RestTypes, super
  <2> QED
      BY <1>1, <1>4, <2>2, <2>3, <2>4, <2>5, <2>6, TableInv DEF Rest, Dirs, super
<1>5. ASSUME Go(p, GiveUp(u[p])), inode' = [inode EXCEPT ![s].upd = TRUE]
      PROVE  Inv'
  <2>1. PICK r : r = GiveUp(u[p])
      OBVIOUS
  <2>2. Keeps(u[p], r, cdir[p])
      BY <1>1, <1>2, <1>3, <1>5, <2>1, GivingUp
  <2>3. r.pc # "scan" /\ ~Sole(u[p])
      BY <1>1, <1>2, <1>5, <2>1 DEF URec, Sole, GiveUp, CallIput
  <2>4. Shift(p, r)
      BY <1>1, <1>2, <1>5, <2>1, GoShift DEF files
  <2>5. inode' \in [Slots -> IRec]
      BY <1>2, <1>3, <1>5, TableUpd
  <2>6. \A x \in Slots : /\ inode'[x].num = inode[x].num /\ inode'[x].count = inode[x].count
                         /\ inode'[x].mode = inode[x].mode /\ (inode[x].lock => inode'[x].lock)
                         /\ x # s => inode'[x] = inode[x]
      BY <1>2, <1>3, <1>5 DEF IRec
  <2>7. Tabled(p)
      BY <1>3, <2>6 DEF Tabled
  <2>8. RestTypes'
      BY <1>1, <1>2, <1>5, <2>5 DEF RestTypes, super
  <2> QED
      BY <1>1, <1>5, <2>2, <2>3, <2>4, <2>5, <2>6, <2>7, <2>8, TableInv DEF Rest, Dirs,
         super
<1>6. ASSUME Go(p, GiveUp(u[p])), inode' = inode
      PROVE  Inv'
  <2>1. PICK r : r = GiveUp(u[p])
      OBVIOUS
  <2>2. Keeps(u[p], r, cdir[p])
      BY <1>1, <1>2, <1>3, <1>6, <2>1, GivingUp
  <2>3. r.pc # "scan" /\ ~Sole(u[p])
      BY <1>1, <1>2, <1>6, <2>1 DEF URec, Sole, GiveUp, CallIput
  <2>4. Shift(p, r)
      BY <1>1, <1>2, <1>6, <2>1, GoShift DEF files
  <2>5. Tabled(p)
      BY <1>6 DEF Tabled
  <2>6. RestTypes'
      BY <1>1, <1>2, <1>6 DEF RestTypes, super
  <2> QED
      BY <1>1, <1>6, <2>2, <2>3, <2>4, <2>5, <2>6, TableInv DEF Rest, Dirs, super
<1> QED
    BY <1>1, <1>3, <1>4, <1>5, <1>6 DEF StatGot

LEMMA ExecReadInv ==
    ASSUME TypeOK, Rest, NEW p \in Procs, ExecRead(p) PROVE Inv'
<1>1. /\ u[p].pc = "exbuf" /\ cpu \in {p, NoProc}
      /\ UNCHANGED <<dino, dir, super, files, halted, stuck, calls>>
    BY DEF ExecRead, At
<1>2. /\ Fits(u[p], cdir[p]) /\ cdir[p] \in Slots /\ u[p] \in URec /\ RestTypes
      /\ inode \in [Slots -> IRec] /\ Users
    BY Fitting
<1>3. PICK s \in Slots : /\ s = u[p].slot /\ Has(p, s)
                         /\ inode[s].count \in Nat /\ inode[s].count >= 1
    BY <1>1, Fitting, Holder, OneHolder DEF Holding, WithSlot, WithIp, WithPdir, Rest,
       Allocating, Fetching, Putting
<1>4. ASSUME Go(p, CallIput(u[p], s, "exdone")), inode' = [inode EXCEPT ![s].upd = TRUE]
      PROVE  Inv'
  <2>1. PICK r : r = CallIput(u[p], u[p].slot, "exdone")
      OBVIOUS
  <2>2. r = CallIput(u[p], s, "exdone")
      BY <1>2, <1>3, <2>1 DEF URec
  <2>3. Keeps(u[p], r, cdir[p])
      BY <1>1, <1>2, <1>3, <1>4, <2>1, ExecPut
  <2>4. r.pc # "scan" /\ ~Sole(u[p])
      BY <1>1, <1>2, <1>4, <2>1 DEF URec, Sole, CallIput
  <2>5. Shift(p, r)
      BY <1>1, <1>2, <1>4, <2>1, <2>2, GoShift DEF files
  <2>6. inode' \in [Slots -> IRec]
      BY <1>2, <1>3, <1>4, TableUpd
  <2>7. \A x \in Slots : /\ inode'[x].num = inode[x].num /\ inode'[x].count = inode[x].count
                         /\ inode'[x].mode = inode[x].mode /\ (inode[x].lock => inode'[x].lock)
                         /\ x # s => inode'[x] = inode[x]
      BY <1>2, <1>3, <1>4 DEF IRec
  <2>8. Tabled(p)
      BY <1>3, <2>7 DEF Tabled
  <2>9. RestTypes'
      BY <1>1, <1>2, <1>4, <2>6 DEF RestTypes, super
  <2> QED
      BY <1>1, <1>4, <2>3, <2>4, <2>5, <2>6, <2>7, <2>8, <2>9, TableInv DEF Rest, Dirs,
         super
<1>5. ASSUME Go(p, CallIput(u[p], s, "exdone")), inode' = inode
      PROVE  Inv'
  <2>1. PICK r : r = CallIput(u[p], u[p].slot, "exdone")
      OBVIOUS
  <2>2. r = CallIput(u[p], s, "exdone")
      BY <1>2, <1>3, <2>1 DEF URec
  <2>3. Keeps(u[p], r, cdir[p])
      BY <1>1, <1>2, <1>3, <1>5, <2>1, ExecPut
  <2>4. r.pc # "scan" /\ ~Sole(u[p])
      BY <1>1, <1>2, <1>5, <2>1 DEF URec, Sole, CallIput
  <2>5. Shift(p, r)
      BY <1>1, <1>2, <1>5, <2>1, <2>2, GoShift DEF files
  <2>6. Tabled(p)
      BY <1>5 DEF Tabled
  <2>7. RestTypes'
      BY <1>1, <1>2, <1>5 DEF RestTypes, super
  <2> QED
      BY <1>1, <1>5, <2>3, <2>4, <2>5, <2>6, <2>7, TableInv DEF Rest, Dirs, super
<1> QED
    BY <1>1, <1>3, <1>4, <1>5 DEF ExecRead

LEMMA UnlinkGotInv ==
    ASSUME TypeOK, Rest, NEW p \in Procs, UnlinkGot(p) PROVE Inv'
<1>1. /\ u[p].pc = "got" /\ u[p].call = "unlink" /\ cpu \in {p, NoProc}
      /\ UNCHANGED <<dino, dir, super, files, halted, stuck, calls>>
    BY DEF UnlinkGot, At
<1>2. /\ Fits(u[p], cdir[p]) /\ cdir[p] \in Slots /\ u[p] \in URec /\ RestTypes
      /\ inode \in [Slots -> IRec] /\ Users
    BY Fitting
<1>3. PICK s \in Slots : /\ s = u[p].slot /\ Has(p, s)
                         /\ inode[s].count \in Nat /\ inode[s].count >= 1
    BY <1>1, Fitting, Holder, OneHolder DEF Holding, WithSlot, WithIp, WithPdir, Rest,
       Allocating, Fetching, Putting
<1>4. ASSUME GoAndWake(p, s, CallIget([u[p] EXCEPT !.pdir = s], u[p].ino, "uget")),
             inode' = Unlock(inode, s)
      PROVE  Inv'
  <2>1. PICK r : r = CallIget([u[p] EXCEPT !.pdir = u[p].slot], u[p].ino, "uget")
      OBVIOUS
  <2>2. r = CallIget([u[p] EXCEPT !.pdir = s], u[p].ino, "uget")
      BY <1>2, <1>3, <2>1 DEF URec
  <2>3. Keeps(u[p], r, cdir[p])
      BY <1>1, <1>2, <1>3, <1>4, <2>1, UnlinkFetch
  <2>4. r.pc # "scan" /\ ~Sole(u[p])
      BY <1>1, <1>2, <1>4, <2>1 DEF URec, Sole, CallIget
  <2>5. Shift(p, r)
      BY <1>1, <1>2, <1>4, <2>1, <2>2, WakeShift DEF files
  <2>6. inode' \in [Slots -> IRec]
      BY <1>2, <1>3, <1>4, UnlockTable
  <2>7. \A x \in Slots : /\ inode'[x].num = inode[x].num /\ inode'[x].count = inode[x].count
                         /\ inode'[x].mode = inode[x].mode
                         /\ x # s => inode'[x] = inode[x]
      BY <1>2, <1>3, <1>4 DEF IRec, Unlock
  <2>8. Tabled(p)
      BY <1>3, <2>7 DEF Tabled
  <2>9. RestTypes'
      BY <1>1, <1>2, <1>4, <2>6 DEF RestTypes, super
  <2> QED
      BY <1>1, <1>4, <2>3, <2>4, <2>5, <2>6, <2>7, <2>8, <2>9, TableInv DEF Rest, Dirs,
         super
<1> QED
    BY <1>1, <1>3, <1>4 DEF UnlinkGot

LEMMA WdoneInv ==
    ASSUME TypeOK, Rest, NEW p \in Procs, Wdone(p) PROVE Inv'
<1>1. /\ u[p].pc = "wdone" /\ cpu \in {p, NoProc}
      /\ UNCHANGED <<dino, dir, super, files, halted, stuck, calls>>
    BY DEF Wdone, At
<1>2. /\ Fits(u[p], cdir[p]) /\ cdir[p] \in Slots /\ u[p] \in URec /\ RestTypes
      /\ inode \in [Slots -> IRec] /\ Users
    BY Fitting
<1>3. PICK s \in Slots : /\ s = u[p].ip /\ Has(p, s)
                         /\ inode[s].count \in Nat /\ inode[s].count >= 1
    BY <1>1, Fitting, Holder, OneHolder DEF Holding, WithSlot, WithIp, WithPdir, Rest,
       Allocating, Fetching, Putting
<1>4. ASSUME Go(p, [u[p] EXCEPT !.pc = "open1", !.slot = u[p].ip, !.ip = 0]), inode' = inode,
             u[p].call = "creat"
      PROVE  Inv'
  <2>1. PICK r : r = [u[p] EXCEPT !.pc = "open1", !.slot = u[p].ip, !.ip = 0]
      OBVIOUS
  <2>2. Keeps(u[p], r, cdir[p])
      BY <1>1, <1>2, <1>3, <1>4, <2>1, WdoneOpen
  <2>3. r.pc # "scan" /\ ~Sole(u[p])
      BY <1>1, <1>2, <1>4, <2>1 DEF URec, Sole
  <2>4. Shift(p, r)
      BY <1>1, <1>2, <1>4, <2>1, GoShift DEF files
  <2>5. Tabled(p)
      BY <1>4 DEF Tabled
  <2>6. RestTypes'
      BY <1>1, <1>2, <1>4 DEF RestTypes, super
  <2> QED
      BY <1>1, <1>4, <2>2, <2>3, <2>4, <2>5, <2>6, TableInv DEF Rest, Dirs, super
<1>5. ASSUME Go(p, After([u[p] EXCEPT !.ret = "last"])), inode' = inode
      PROVE  Inv'
  <2>1. PICK r : r = After([u[p] EXCEPT !.ret = "last"])
      OBVIOUS
  <2>2. Keeps(u[p], r, cdir[p])
      BY <1>1, <1>2, <1>3, <1>5, <2>1, LastPut
  <2>3. r.pc # "scan" /\ ~Sole(u[p])
      BY <1>1, <1>2, <1>5, <2>1 DEF URec, Sole, After, CallIput
  <2>4. Shift(p, r)
      BY <1>1, <1>2, <1>5, <2>1, GoShift DEF files
  <2>5. Tabled(p)
      BY <1>5 DEF Tabled
  <2>6. RestTypes'
      BY <1>1, <1>2, <1>5 DEF RestTypes, super
  <2> QED
      BY <1>1, <1>5, <2>2, <2>3, <2>4, <2>5, <2>6, TableInv DEF Rest, Dirs, super
<1>6. ASSUME Go(p, After([u[p] EXCEPT !.ret = "last"])),
             inode' = [inode EXCEPT ![s].nlink = @ + 1, ![s].upd = TRUE]
      PROVE  Inv'
  <2>1. PICK r : r = After([u[p] EXCEPT !.ret = "last"])
      OBVIOUS
  <2>2. Keeps(u[p], r, cdir[p])
      BY <1>1, <1>2, <1>3, <1>6, <2>1, LastPut
  <2>3. r.pc # "scan" /\ ~Sole(u[p])
      BY <1>1, <1>2, <1>6, <2>1 DEF URec, Sole, After, CallIput
  <2>4. Shift(p, r)
      BY <1>1, <1>2, <1>6, <2>1, GoShift DEF files
  <2>5. PICK k \in Int : k = inode[s].nlink + 1
      BY <1>2 DEF IRec
  <2>6. inode' = [inode EXCEPT ![s].nlink = k, ![s].upd = TRUE]
      BY <1>6, <2>5
  <2>7. PICK v : v = [inode EXCEPT ![s].nlink = k, ![s].upd = TRUE]
      OBVIOUS
  <2>8. /\ v \in [Slots -> IRec]
         /\ \A x \in Slots :
               /\ v[x].num = inode[x].num /\ v[x].count = inode[x].count
               /\ v[x].mode = inode[x].mode /\ (inode[x].lock => v[x].lock)
               /\ x # s => v[x] = inode[x]
      BY <1>2, <1>3, <2>5, <2>7, TableLinks
  <2>9. inode' = v
      BY <2>6, <2>7
  <2>10. inode' \in [Slots -> IRec]
      BY <2>8, <2>9
  <2>11. \A x \in Slots :
           /\ inode'[x].num = inode[x].num /\ inode'[x].count = inode[x].count
           /\ inode'[x].mode = inode[x].mode /\ (inode[x].lock => inode'[x].lock)
           /\ x # s => inode'[x] = inode[x]
      BY <2>8, <2>9
  <2>12. Tabled(p)
    <3>1. ASSUME NEW x \in Slots
          PROVE  /\ inode'[x].num = inode[x].num /\ inode'[x].count = inode[x].count
                 /\ inode[x].lock => inode'[x].lock
        BY <2>11
    <3>2. ASSUME NEW x \in Slots, inode[x].count = 0
          PROVE  inode'[x] = inode[x]
        BY <1>3, <2>11, <3>2
    <3> QED
        BY <3>1, <3>2 DEF Tabled
  <2>13. RestTypes'
      BY <1>1, <1>2, <1>6, <2>10 DEF RestTypes, super
  <2> QED
      BY <1>1, <1>6, <2>2, <2>3, <2>4, <2>10, <2>11, <2>12, <2>13, TableInv DEF Rest, Dirs,
         super
<1> QED
    BY <1>1, <1>3, <1>4, <1>5, <1>6 DEF Wdone

LEMMA StatDoneInv ==
    ASSUME TypeOK, Rest, NEW p \in Procs, StatDone(p) PROVE Inv'
<1>1. /\ u[p].pc = "stat" /\ cpu \in {p, NoProc}
      /\ UNCHANGED <<inode, dir, super, files, halted, stuck, calls>>
    BY DEF StatDone, At
<1>2. /\ Fits(u[p], cdir[p]) /\ cdir[p] \in Slots /\ u[p] \in URec /\ RestTypes
      /\ inode \in [Slots -> IRec] /\ Users
    BY Fitting
<1>3. PICK s \in Slots : /\ s = u[p].slot /\ Has(p, s)
                         /\ inode[s].count \in Nat /\ inode[s].count >= 1
    BY <1>1, Fitting, Holder, OneHolder DEF Holding, WithSlot, WithIp, WithPdir, Rest,
       Allocating, Fetching, Putting
<1>4. dino' \in [Ino -> DRec] /\ \A i \in Ino : dino'[i].mode = "dir" => i \in DirInos
    BY <1>3, IupdatTypes, Fitting DEF StatDone, Rest, Dirs
<1>5. ASSUME Go(p, GiveUp(u[p])), inode' = inode
      PROVE  Inv'
  <2>1. PICK r : r = GiveUp(u[p])
      OBVIOUS
  <2>2. Keeps(u[p], r, cdir[p])
      BY <1>1, <1>2, <1>3, <1>5, <1>4, <2>1, GivingUp
  <2>3. r.pc # "scan" /\ ~Sole(u[p])
      BY <1>1, <1>2, <1>5, <2>1 DEF URec, Sole, GiveUp, CallIput
  <2>4. Shift(p, r)
      BY <1>1, <1>2, <1>5, <2>1, GoShift DEF files
  <2>5. Tabled(p)
      BY <1>5 DEF Tabled
  <2>6. RestTypes'
      BY <1>1, <1>2, <1>4, <1>5 DEF RestTypes, super
  <2> QED
      BY <1>1, <1>5, <1>4, <2>2, <2>3, <2>4, <2>5, <2>6, TableInv DEF Rest, Dirs, super
<1> QED
    BY <1>1, <1>3, <1>4, <1>5 DEF StatDone

LEMMA LinkGotInv ==
    ASSUME TypeOK, Rest, NEW p \in Procs, LinkGot(p) PROVE Inv'
<1>1. /\ u[p].pc = "got" /\ u[p].call = "link" /\ cpu \in {p, NoProc}
      /\ UNCHANGED <<dino, dir, super, files, halted, stuck, calls>>
    BY DEF LinkGot, At
<1>2. /\ Fits(u[p], cdir[p]) /\ cdir[p] \in Slots /\ u[p] \in URec /\ RestTypes
      /\ inode \in [Slots -> IRec] /\ Users
    BY Fitting
<1>3. PICK s \in Slots : /\ s = u[p].slot /\ Has(p, s)
                         /\ inode[s].count \in Nat /\ inode[s].count >= 1
    BY <1>1, Fitting, Holder, OneHolder DEF Holding, WithSlot, WithIp, WithPdir, Rest,
       Allocating, Fetching, Putting
<1>4. PICK base : base = [u[p] EXCEPT !.ip = s]
    OBVIOUS
<1>5. NameiStart(base, 1, CallNamei(base, p, u[p].path2, 1))
  <2>1. u[p].path2 \in Seq(STRING) /\ u[p].pc \notin {"dead", "chdir"}
      BY <1>1, <1>2, RecordTypes
  <2> QED
      BY <2>1, NameiCall
<1>6. PICK P \in Seq(STRING), i \in Ino :
          CallNamei([u[p] EXCEPT !.ip = s], p, u[p].path2, 1)
            = CallIget([[u[p] EXCEPT !.ip = s] EXCEPT !.path = P, !.flag = 1, !.from = <<>>],
                  i, "comp")
    BY <1>4, <1>5 DEF NameiStart
<1>7. ASSUME Go(p, CallNamei([u[p] EXCEPT !.ip = s], p, u[p].path2, 1)),
             inode' = [inode EXCEPT ![s].lock = FALSE], u[p].ip = 0
      PROVE  Inv'
  <2>1. PICK r : r = CallIget([u[p] EXCEPT !.ip = u[p].slot, !.path = P, !.flag = 1,
              !.from = <<>>], i, "comp")
      OBVIOUS
  <2>2. r = CallNamei([u[p] EXCEPT !.ip = s], p, u[p].path2, 1)
      BY <1>2, <1>3, <1>6, <2>1 DEF URec
  <2>3. Keeps(u[p], r, cdir[p])
      BY <1>1, <1>2, <1>3, <1>7, <1>6, <2>1, LinkNext
  <2>4. r.pc # "scan" /\ ~Sole(u[p])
      BY <1>1, <1>2, <1>7, <2>1 DEF URec, Sole, CallIget
  <2>5. Shift(p, r)
      BY <1>1, <1>2, <1>7, <2>1, <2>2, GoShift DEF files
  <2>6. inode' \in [Slots -> IRec]
      BY <1>2, <1>3, <1>7, TableLock
  <2>7. \A x \in Slots : /\ inode'[x].num = inode[x].num /\ inode'[x].count = inode[x].count
                         /\ inode'[x].mode = inode[x].mode
                         /\ x # s => inode'[x] = inode[x]
      BY <1>2, <1>3, <1>7, <1>6 DEF IRec
  <2>8. Tabled(p)
      BY <1>3, <2>7 DEF Tabled
  <2>9. RestTypes'
      BY <1>1, <1>2, <1>6, <1>7, <2>6 DEF RestTypes, super
  <2> QED
      BY <1>1, <1>7, <1>6, <2>3, <2>4, <2>5, <2>6, <2>7, <2>8, <2>9, TableInv DEF Rest,
         Dirs, super
<1>8. ASSUME Go(p, GiveUp(u[p])), inode' = inode
      PROVE  Inv'
  <2>1. PICK r : r = GiveUp(u[p])
      OBVIOUS
  <2>2. Keeps(u[p], r, cdir[p])
      BY <1>1, <1>2, <1>3, <1>8, <1>6, <2>1, GivingUp
  <2>3. r.pc # "scan" /\ ~Sole(u[p])
      BY <1>1, <1>2, <1>8, <2>1 DEF URec, Sole, GiveUp, CallIput
  <2>4. Shift(p, r)
      BY <1>1, <1>2, <1>8, <2>1, GoShift DEF files
  <2>5. Tabled(p)
      BY <1>8 DEF Tabled
  <2>6. RestTypes'
      BY <1>1, <1>2, <1>6, <1>8 DEF RestTypes, super
  <2> QED
      BY <1>1, <1>8, <1>6, <2>2, <2>3, <2>4, <2>5, <2>6, TableInv DEF Rest, Dirs, super
<1> QED
    BY <1>1, <1>3, <1>6, <1>7, <1>8 DEF LinkGot

LEMMA ScanMissingInv ==
    ASSUME TypeOK, Rest, NEW p \in Procs, ScanMissing(p) PROVE Inv'
<1>1. /\ u[p].pc = "scan" /\ cpu \in {p, NoProc}
      /\ UNCHANGED <<dino, dir, super, files, halted, stuck, calls>>
    BY DEF ScanMissing, At
<1>2. /\ Fits(u[p], cdir[p]) /\ cdir[p] \in Slots /\ u[p] \in URec /\ RestTypes
      /\ inode \in [Slots -> IRec] /\ Users
    BY Fitting
<1>3. PICK s \in Slots : /\ s = u[p].slot /\ Has(p, s)
                         /\ inode[s].count \in Nat /\ inode[s].count >= 1
    BY <1>1, Fitting, Holder, OneHolder DEF Holding, WithSlot, WithIp, WithPdir, Rest,
       Allocating, Fetching, Putting
<1> DEFINE d == inode[u[p].slot].num
           empty == {k \in DOMAIN dir[d] : dir[d][k].ino = 0}
<1>4. PICK o \in Nat, b \in BOOLEAN :
          /\ o = (IF empty = {} THEN Len(dir[d]) + 1 ELSE FirstOf(empty))
          /\ b = (inode[u[p].slot].upd \/ empty = {})
  <2>1. dir[d] \in Seq(Entry)
      BY <1>1, <1>3 DEF Rest, Dirs
  <2> HIDE DEF d
  <2>2. Len(dir[d]) + 1 \in Nat /\ empty \in SUBSET Nat
    <3>1. DOMAIN dir[d] = 1..Len(dir[d]) /\ Len(dir[d]) \in Nat
        BY <2>1
    <3>2. empty \subseteq DOMAIN dir[d]
        OBVIOUS
    <3> QED
        BY <3>1, <3>2
  <2> HIDE DEF empty
  <2>3. (IF empty = {} THEN Len(dir[d]) + 1 ELSE FirstOf(empty)) \in Nat
      BY <2>2, LeastNatural
  <2>4. (inode[u[p].slot].upd \/ empty = {}) \in BOOLEAN
      OBVIOUS
  <2> QED
      BY <2>3, <2>4
<1> HIDE DEF empty, d
<1>5. ASSUME Go(p, [u[p] EXCEPT !.pc = IF u[p].call = "link" THEN "wdir" ELSE "ialloc",
                   !.off = o, !.pdir = u[p].slot,
                      !.slot = 0]), inode' = [inode EXCEPT ![s].upd = b], u[p].flag = 1
      PROVE  Inv'
  <2>1. PICK r : r = [u[p] EXCEPT !.pc = IF u[p].call = "link" THEN "wdir" ELSE "ialloc",
              !.off = o, !.pdir = u[p].slot, !.slot = 0]
      OBVIOUS
  <2>2. Keeps(u[p], r, cdir[p])
      BY <1>1, <1>2, <1>3, <1>5, <1>4, <2>1, ScanMake
  <2>3. r.pc # "scan" /\ ~Sole(u[p])
      BY <1>1, <1>2, <1>5, <2>1 DEF URec, Sole
  <2>4. Shift(p, r)
      BY <1>1, <1>2, <1>5, <2>1, GoShift DEF files
  <2>5. inode' \in [Slots -> IRec]
      BY <1>2, <1>3, <1>5, <1>4, TableUpd
  <2>6. \A x \in Slots : /\ inode'[x].num = inode[x].num /\ inode'[x].count = inode[x].count
                         /\ inode'[x].mode = inode[x].mode /\ (inode[x].lock => inode'[x].lock)
                         /\ x # s => inode'[x] = inode[x]
      BY <1>2, <1>3, <1>5, <1>4 DEF IRec
  <2>7. Tabled(p)
      BY <1>3, <2>6 DEF Tabled
  <2>8. RestTypes'
      BY <1>1, <1>2, <1>4, <1>5, <2>5 DEF RestTypes, super
  <2> QED
      BY <1>1, <1>5, <1>4, <2>2, <2>3, <2>4, <2>5, <2>6, <2>7, <2>8, TableInv DEF Rest,
         Dirs, super
<1>6. ASSUME Go(p, GiveUp(u[p])), inode' = inode
      PROVE  Inv'
  <2>1. PICK r : r = GiveUp(u[p])
      OBVIOUS
  <2>2. Keeps(u[p], r, cdir[p])
      BY <1>1, <1>2, <1>3, <1>6, <1>4, <2>1, GivingUp
  <2>3. r.pc # "scan" /\ ~Sole(u[p])
      BY <1>1, <1>2, <1>6, <2>1 DEF URec, Sole, GiveUp, CallIput
  <2>4. Shift(p, r)
      BY <1>1, <1>2, <1>6, <2>1, GoShift DEF files
  <2>5. Tabled(p)
      BY <1>6 DEF Tabled
  <2>6. RestTypes'
      BY <1>1, <1>2, <1>4, <1>6 DEF RestTypes, super
  <2> QED
      BY <1>1, <1>6, <1>4, <2>2, <2>3, <2>4, <2>5, <2>6, TableInv DEF Rest, Dirs, super
<1> QED
    BY <1>1, <1>3, <1>4, <1>5, <1>6 DEF ScanMissing, d, empty

LEMMA IgetReadInv ==
    ASSUME TypeOK, Rest, NEW p \in Procs, IgetRead(p) PROVE Inv'
<1>1. /\ u[p].pc = "iread" /\ cpu \in {p, NoProc}
      /\ Go(p, [u[p] EXCEPT !.pc = u[p].ret]) /\ halted' = NameGone(u[p])
      /\ UNCHANGED <<dino, dir, super, files, stuck, calls>>
    BY DEF IgetRead, At
<1>2. /\ Fits(u[p], cdir[p]) /\ cdir[p] \in Slots /\ u[p] \in URec /\ RestTypes /\ Users
      /\ inode \in [Slots -> IRec] /\ dino \in [Ino -> DRec]
    BY Fitting
<1>3. PICK s \in Slots : /\ s = u[p].slot /\ inode[s].count = 1 /\ inode[s].lock
                         /\ inode[s].num \in Ino
  <2>1. u[p].slot \in Slots
      BY <1>1, Fitting, Holder DEF Holding, WithSlot
  <2>2. inode[u[p].slot].count = 1 /\ inode[u[p].slot].lock
      BY <1>1, <2>1, SoleLocked DEF Sole
  <2>3. inode[u[p].slot].num # 0 /\ inode[u[p].slot].num \in 0..NI
      BY <1>2, <2>1, <2>2 DEF Rest, SlotsFree, IRec
  <2> QED
      BY <2>1, <2>2, <2>3, Sizes DEF Ino
<1>4. PICK d \in DRec : d = dino[inode[s].num]
    BY <1>2, <1>3
<1>5. inode' = [inode EXCEPT ![s].mode = d.mode, ![s].nlink = d.nlink]
    BY <1>3, <1>4 DEF IgetRead
<1>6. inode' \in [Slots -> IRec]
  <2>1. d.mode \in Mode /\ d.nlink \in Int
      BY DEF DRec
  <2> QED
      BY <1>2, <1>5, <2>1, TableRead
<1>7. \A x \in Slots : /\ inode'[x].num = inode[x].num /\ inode'[x].count = inode[x].count
                       /\ inode'[x].lock = inode[x].lock
                       /\ x # s => inode'[x] = inode[x]
    BY <1>2, <1>5 DEF IRec
<1>8. inode'[s].mode = d.mode
    BY <1>2, <1>5 DEF IRec
<1>9. \A x \in Slots : inode'[x].mode = "dir" => inode[x].num \in DirInos
    BY <1>3, <1>4, <1>7, <1>8 DEF Rest, Dirs
<1>10. PICK r : r = [u[p] EXCEPT !.pc = u[p].ret]
    OBVIOUS
<1>11. Keeps(u[p], r, cdir[p])
    BY <1>1, <1>2, <1>10, IgetDone
<1>12. r.pc # "scan"
  <2>1. u[p].ret # "scan"
      BY <1>1, Fitting DEF Going, Fetching
  <2> QED
      BY <1>2, <1>10, <2>1 DEF URec
<1>13. Shift(p, r)
    BY <1>1, <1>2, <1>10, GoShift DEF files
<1>14. Tabled(p)
    BY <1>3, <1>7 DEF Tabled
<1>15. RestTypes'
    BY <1>1, <1>2, <1>6 DEF RestTypes, super, NameGone
<1> QED
    BY <1>1, <1>7, <1>9, <1>11, <1>12, <1>13, <1>14, <1>15, TableInv DEF Rest, Dirs, super

LEMMA IputTruncInv ==
    ASSUME TypeOK, Rest, NEW p \in Procs, IputTrunc(p) PROVE Inv'
<1>1. /\ u[p].pc = "itrunc" /\ cpu \in {p, NoProc}
      /\ Go(p, [u[p] EXCEPT !.pc = "iupdat"])
      /\ UNCHANGED <<dino, s_ilock, updlock, execnt, files, halted, stuck, calls>>
    BY DEF IputTrunc, At
<1>2. /\ Fits(u[p], cdir[p]) /\ cdir[p] \in Slots /\ u[p] \in URec /\ RestTypes /\ Users
      /\ inode \in [Slots -> IRec]
    BY Fitting
<1>3. PICK s \in Slots : /\ s = u[p].slot /\ inode[s].count = 1 /\ inode[s].lock
                         /\ inode[s].num \in Ino
  <2>1. u[p].slot \in Slots
      BY <1>1, Fitting, Holder DEF Holding, WithSlot
  <2>2. inode[u[p].slot].count = 1 /\ inode[u[p].slot].lock
      BY <1>1, <2>1, SoleLocked DEF Sole
  <2>3. inode[u[p].slot].num # 0 /\ inode[u[p].slot].num \in 0..NI
      BY <1>2, <2>1, <2>2 DEF Rest, SlotsFree, IRec
  <2> QED
      BY <2>1, <2>2, <2>3, Sizes DEF Ino
<1>4. PICK b \in BOOLEAN : b = (inode[s].upd \/ inode[s].mode # "spec")
    OBVIOUS
<1>5. inode' = [inode EXCEPT ![s].mode = "none", ![s].upd = b]
    BY <1>3, <1>4 DEF IputTrunc
<1>6. inode' \in [Slots -> IRec]
  <2>1. "none" \in Mode
      BY DEF Mode
  <2> QED
      BY <1>2, <1>5, <2>1, TableFreed
<1>7. \A x \in Slots : /\ inode'[x].num = inode[x].num /\ inode'[x].count = inode[x].count
                       /\ inode'[x].lock = inode[x].lock
                       /\ x # s => inode'[x] = inode[x]
    BY <1>2, <1>5 DEF IRec
<1>8. inode'[s].mode = "none"
    BY <1>2, <1>5 DEF IRec
<1>9. \A x \in Slots : inode'[x].mode = "dir" => inode[x].num \in DirInos
    BY <1>7, <1>8 DEF Rest, Dirs
<1>10. s_inode' \in Seq(Ino)
  <2>1. s_inode' = s_inode \/ s_inode' = Append(s_inode, inode[s].num)
      BY <1>3 DEF IputTrunc, Ifree
  <2> QED
      BY <1>2, <1>3, <2>1 DEF RestTypes
<1>11. dir' \in [DirInos -> Seq(Entry)]
  <2>1. dir' = [d \in DirInos |-> IF d = inode[s].num THEN <<>> ELSE dir[d]]
      BY <1>3 DEF IputTrunc
  <2>2. dir \in [DirInos -> Seq(Entry)] /\ <<>> \in Seq(Entry)
      BY DEF Rest, Dirs
  <2> QED
      BY <2>1, <2>2
<1>12. PICK r : r = [u[p] EXCEPT !.pc = "iupdat"]
    OBVIOUS
<1>13. Keeps(u[p], r, cdir[p]) /\ r.pc # "scan"
    BY <1>1, <1>2, <1>12, TruncDone DEF URec
<1>14. Shift(p, r)
    BY <1>1, <1>2, <1>12, GoShift DEF files
<1>15. Tabled(p)
    BY <1>3, <1>7 DEF Tabled
<1>16. RestTypes'
    BY <1>1, <1>2, <1>6, <1>10, <1>11 DEF RestTypes
<1> QED
    BY <1>1, <1>7, <1>9, <1>11, <1>13, <1>14, <1>15, <1>16, TableInv DEF Rest, Dirs

LEMMA WdirInv ==
    ASSUME TypeOK, Rest, NEW p \in Procs, Wdir(p) PROVE Inv'
<1> DEFINE d == inode[u[p].pdir].num
           e == [name |-> Last(u[p].path), ino |-> inode[u[p].ip].num]
           put == CallIput([u[p] EXCEPT !.pdir = 0], u[p].pdir, "wdone")
<1>1. /\ u[p].pc = "wdir" /\ cpu \in {p, NoProc}
      /\ UNCHANGED <<dino, super, files, stuck, calls>>
    BY DEF Wdir, At
<1>2. /\ Fits(u[p], cdir[p]) /\ cdir[p] \in Slots /\ u[p] \in URec /\ RestTypes /\ Users
      /\ inode \in [Slots -> IRec]
    BY Fitting
<1>3. PICK s \in Slots : /\ s = u[p].pdir /\ inode[s].count \in Nat /\ inode[s].count >= 1
    BY <1>1, Fitting, Holder, OneHolder DEF Holding, WithPdir, Rest
<1>4. inode' = [inode EXCEPT ![s].upd = TRUE]
    BY <1>3 DEF Wdir
<1>5. inode' \in [Slots -> IRec]
    BY <1>2, <1>4, TableUpd
<1>6. \A x \in Slots : /\ inode'[x].num = inode[x].num /\ inode'[x].count = inode[x].count
                       /\ inode'[x].lock = inode[x].lock /\ inode'[x].mode = inode[x].mode
                       /\ x # s => inode'[x] = inode[x]
    BY <1>2, <1>4 DEF IRec
<1>7. Tabled(p)
    BY <1>3, <1>6 DEF Tabled
<1>8. e \in Entry
  <2>1. u[p].path \in Seq(STRING) /\ u[p].path # <<>> /\ u[p].ip # 0
      BY <1>1, Fitting, RecordTypes DEF Naming, WithName, Holding, WithIp
  <2>2. u[p].ip \in Slots
      BY <2>1, Fitting, Holder
  <2>3. Last(u[p].path) \in STRING
      BY <2>1, FrontLast
  <2>4. inode[u[p].ip].num \in 0..NI
      BY <1>2, <2>2 DEF IRec
  <2> QED
      BY <2>3, <2>4 DEF Entry
<1>9. dir \in [DirInos -> Seq(Entry)]
    BY DEF Rest, Dirs
<1> HIDE DEF e, d
<1>10. /\ dir' \in [DirInos -> Seq(Entry)] /\ halted' \in BOOLEAN
      /\ \E r \in {put, [put EXCEPT !.err = TRUE]} : Go(p, r)
  <2>1. CASE /\ dir' = [dir EXCEPT ![d] = IF u[p].off > Len(dir[d]) THEN Append(@, e)
                                          ELSE [@ EXCEPT ![u[p].off] = e]]
             /\ halted' = (IF u[p].off > Len(dir[d]) THEN FALSE ELSE dir[d][u[p].off].ino # 0)
             /\ Go(p, put)
    <3>1. CASE d \in DirInos
      <4>1. dir[d] \in Seq(Entry)
          BY <1>9, <3>1
      <4>2. PICK q : q = (IF u[p].off > Len(dir[d]) THEN Append(dir[d], e)
                          ELSE [dir[d] EXCEPT ![u[p].off] = e])
          OBVIOUS
      <4>3. q \in Seq(Entry)
          BY <1>8, <4>1, <4>2, EntrySet
      <4>4. dir' = [dir EXCEPT ![d] = q]
          BY <2>1, <4>2
      <4> QED
          BY <1>9, <2>1, <4>3, <4>4
    <3>2. CASE d \notin DirInos
      <4>1. dir' = dir
          BY <1>9, <2>1, <3>2
      <4> QED
          BY <1>9, <2>1, <4>1
    <3> QED
        BY <3>1, <3>2
  <2>2. CASE Go(p, [put EXCEPT !.err = TRUE]) /\ dir' = dir /\ halted' = halted
      BY <1>2, <1>9, <2>2 DEF RestTypes
  <2> QED
      BY <2>1, <2>2 DEF Wdir, d, e
<1>11. PICK r \in {put, [put EXCEPT !.err = TRUE]} : Go(p, r)
    BY <1>10
<1>12. Keeps(u[p], r, cdir[p]) /\ r.pc # "scan"
  <2>1. CASE r = put
      BY <1>1, <1>2, <2>1, WdirPuts DEF URec, CallIput
  <2>2. CASE r = [put EXCEPT !.err = TRUE]
      BY <1>1, <1>2, <2>2, WdirPut DEF URec, CallIput
  <2> QED
      BY <1>11, <2>1, <2>2
<1>13. Shift(p, r)
    BY <1>1, <1>2, <1>11, GoShift DEF files
<1>14. RestTypes'
    BY <1>1, <1>2, <1>5, <1>10 DEF RestTypes, super
<1>15. ~Sole(u[p])
    BY <1>1 DEF Sole
<1> QED
    BY <1>1, <1>6, <1>7, <1>10, <1>12, <1>13, <1>14, <1>15, TableInv DEF Rest, Dirs, super

LEMMA UnlinkWriteInv ==
    ASSUME TypeOK, Rest, NEW p \in Procs, UnlinkWrite(p) PROVE Inv'
<1> DEFINE a == u[p].from[1]
           k == u[p].from[2]
<1>1. /\ u[p].pc = "uwrite" /\ cpu \in {p, NoProc} /\ halted' = NameGone(u[p])
      /\ dir' = [dir EXCEPT ![a][k].ino = 0]
      /\ UNCHANGED <<dino, super, files, stuck, calls>>
    BY DEF UnlinkWrite, At
<1>2. /\ Fits(u[p], cdir[p]) /\ cdir[p] \in Slots /\ u[p] \in URec /\ RestTypes /\ Users
      /\ inode \in [Slots -> IRec]
    BY Fitting
<1>3. PICK s \in Slots, t \in Slots :
         /\ s = u[p].pdir /\ inode[s].count \in Nat /\ inode[s].count >= 1
         /\ t = u[p].ip /\ inode[t].count \in Nat /\ inode[t].count >= 1
  <2>1. u[p].pdir # 0 /\ u[p].ip # 0
      BY <1>1, Fitting DEF Holding, WithPdir, WithIp
  <2>2. /\ u[p].pdir \in Slots /\ Has(p, u[p].pdir) /\ u[p].ip \in Slots /\ Has(p, u[p].ip)
      BY <2>1, Fitting, Holder
  <2> QED
      BY <2>2, OneHolder DEF Rest
<1>4. inode' = [inode EXCEPT ![s].upd = TRUE, ![t].upd = TRUE, ![t].nlink = @ - 1]
    BY <1>3 DEF UnlinkWrite
<1>5. inode' \in [Slots -> IRec]
    BY <1>2, <1>4 DEF IRec
<1>6. \A x \in Slots : /\ inode'[x].num = inode[x].num /\ inode'[x].count = inode[x].count
                       /\ inode'[x].lock = inode[x].lock /\ inode'[x].mode = inode[x].mode
                       /\ x # s /\ x # t => inode'[x] = inode[x]
    BY <1>2, <1>4 DEF IRec
<1>7. Tabled(p)
    BY <1>3, <1>6 DEF Tabled
<1>8. dir \in [DirInos -> Seq(Entry)]
    BY DEF Rest, Dirs
<1> HIDE DEF a, k
<1>9. dir' \in [DirInos -> Seq(Entry)]
  <2>1. CASE a \in DirInos
    <3>1. PICK q : q = [dir[a] EXCEPT ![k].ino = 0]
        OBVIOUS
    <3>2. q \in Seq(Entry)
        BY <1>8, <2>1, <3>1, EntryClear
    <3>3. dir' = [dir EXCEPT ![a] = q]
        BY <1>1, <3>1
    <3> QED
        BY <1>8, <3>2, <3>3
  <2>2. CASE a \notin DirInos
      BY <1>1, <1>8, <2>2
  <2> QED
      BY <2>1, <2>2
<1>10. PICK r : r = CallIput([u[p] EXCEPT !.pdir = 0], u[p].pdir, "last")
    OBVIOUS
<1>11. Keeps(u[p], r, cdir[p]) /\ r.pc # "scan"
    BY <1>1, <1>2, <1>10, UnlinkPut DEF URec, CallIput
<1>12. Shift(p, r)
    BY <1>1, <1>2, <1>10, GoShift DEF files, UnlinkWrite
<1>13. RestTypes'
    BY <1>1, <1>2, <1>5, <1>9 DEF RestTypes, super, NameGone
<1>14. ~Sole(u[p])
    BY <1>1 DEF Sole
<1> QED
    BY <1>1, <1>6, <1>7, <1>9, <1>11, <1>12, <1>13, <1>14, TableInv DEF Rest, Dirs, super

LEMMA FstatDoneInv ==
    ASSUME TypeOK, Rest, NEW p \in Procs, FstatDone(p) PROVE Inv'
<1>1. /\ u[p].pc = "fstat" /\ cpu \in {p, NoProc} /\ Go(p, Idle)
      /\ UNCHANGED <<inode, dir, super, files, halted, stuck, calls>>
    BY DEF FstatDone, At
<1>2. /\ Fits(u[p], cdir[p]) /\ cdir[p] \in Slots /\ u[p] \in URec /\ RestTypes /\ Users
      /\ u[p].off \in Slots
    BY <1>1, Fitting DEF Going
<1>3. dino' \in [Ino -> DRec] /\ \A i \in Ino : dino'[i].mode = "dir" => i \in DirInos
    BY <1>2, IupdatTypes, Fitting DEF FstatDone, Rest, Dirs
<1>4. PICK r : r = [Idle EXCEPT !.pc = "user", !.off = 0]
    OBVIOUS
<1>5. r = Idle
    BY <1>4 DEF Idle
<1>6. Keeps(u[p], r, cdir[p]) /\ r.pc # "scan"
    BY <1>1, <1>2, <1>4, AtRest, NothingAt DEF Idle
<1>7. Shift(p, r)
    BY <1>1, <1>2, <1>5, GoShift DEF files
<1>8. Tabled(p) /\ ~Sole(u[p])
    BY <1>1 DEF Tabled, Sole
<1>9. RestTypes'
    BY <1>1, <1>2, <1>3 DEF RestTypes, super
<1> QED
    BY <1>1, <1>3, <1>6, <1>7, <1>8, <1>9, TableInv DEF Rest, Dirs, super

LEMMA CallNameInv ==
    ASSUME TypeOK, Rest, NEW p \in Procs, NEW c \in Calls, CallName(p, c) PROVE Inv'
<1>1. /\ u[p].pc = "user" /\ cpu \in {p, NoProc} /\ calls < MaxCalls /\ calls' = calls + 1
      /\ UNCHANGED <<inode, dino, dir, super, files, halted, stuck>>
    BY DEF CallName, At
<1>2. /\ Fits(u[p], cdir[p]) /\ cdir[p] \in Slots /\ RestTypes
    BY Fitting
<1>3. PICK base, g : base = [Idle EXCEPT !.call = c.call, !.path2 = c.path2] /\ g = Flag(c.call)
    OBVIOUS
<1>4. NameiStart(base, g, CallNamei(base, p, c.path, g))
  <2>1. c.path \in Seq(STRING) /\ u[p].pc \notin {"dead", "chdir"}
      BY <1>1, NamesAssumption
  <2> QED
      BY <2>1, NameiCall
<1>5. PICK P \in Seq(STRING), i \in Ino :
         CallNamei([Idle EXCEPT !.call = c.call, !.path2 = c.path2], p, c.path, Flag(c.call))
           = CallIget([[Idle EXCEPT !.call = c.call, !.path2 = c.path2]
                         EXCEPT !.path = P, !.flag = Flag(c.call), !.from = <<>>], i, "comp")
    BY <1>4, <1>3 DEF NameiStart
<1>6. PICK r : r = CallIget([[Idle EXCEPT !.call = c.call, !.path2 = c.path2]
                               EXCEPT !.path = P, !.flag = Flag(c.call), !.from = <<>>],
                            i, "comp")
    OBVIOUS
<1>7. Keeps(u[p], r, cdir[p])
    BY <1>1, <1>2, <1>6, NameiBegins
<1>8. r.pc # "scan"
    BY <1>6 DEF CallIget, Idle
<1>9. calls' \in 0..MaxCalls
    BY <1>1, <1>2, NamesAssumption DEF RestTypes
<1> QED
    BY <1>1, <1>2, <1>5, <1>6, <1>7, <1>8, <1>9, PlainInv DEF CallName, super, files,
       RestTypes

-----------------------------------------------------------------------------
(* The steps that take and give references, and those of close, exec and    *)
(* update.                                                                  *)

LEMMA CountedStep ==
    ASSUME TypeOK, Rest, NEW p \in Procs, NEW r, Shift(p, r), stuck' = stuck,
           \A s \in Slots : FileRefs(s)' = FileRefs(s),
           \A s \in Slots : inode'[s].count
              = inode[s].count + Holds(r, cdir'[p], s) - Holds(u[p], cdir[p], s)
    PROVE  Counted'
<1>1. ASSUME NEW s \in Slots PROVE inode'[s].count = Total(s)'
  <2>1. Total(s) = inode[s].count
        /\ Total(s)' = Total(s) + Holds(r, cdir'[p], s) - Holds(u[p], cdir[p], s)
      BY TotalStep DEF Rest
  <2> QED
      BY <2>1
<1> QED
    BY <1>1 DEF Counted

LEMMA ExclusiveStep ==
    ASSUME TypeOK, Rest, NEW p \in Procs, NEW r, Shift(p, r),
           \A q \in Procs : q # p /\ Sole(u[q]) =>
              inode'[u[q].slot].count = 1 /\ inode'[u[q].slot].lock,
           \A q \in Procs : q # p /\ u[q].pc = "updwrite" => inode'[u[q].off].count > 0,
           Sole(r) => /\ inode'[r.slot].count = 1 /\ inode'[r.slot].lock /\ r.pc # "updwrite"
                      /\ \A q \in Procs : q # p /\ u[q].pc = "updwrite" => u[q].off # r.slot,
           r.pc = "updwrite" => /\ inode'[r.off].count > 0
                                /\ \A q \in Procs : q # p /\ Sole(u[q]) => u[q].slot # r.off
    PROVE  Exclusive'
<1>1. ASSUME NEW q \in Procs, q # p
      PROVE  /\ Sole(u'[q]) => Sole(u[q]) /\ u'[q].slot = u[q].slot
             /\ u'[q].pc = "updwrite" => u[q].pc = "updwrite" /\ u'[q].off = u[q].off
    BY <1>1 DEF Shift, Others, Alike, Sole
<1>2. u'[p] = r
    BY DEF Shift
<1>3. ASSUME NEW q \in Procs, Sole(u'[q])
      PROVE  /\ inode'[u'[q].slot].count = 1 /\ inode'[u'[q].slot].lock
             /\ \A x \in Procs : u'[x].pc = "updwrite" => u'[x].off # u'[q].slot
  <2>1. CASE q = p
      BY <1>1, <1>2, <1>3, <2>1
  <2>2. CASE q # p
    <3>1. Sole(u[q]) /\ u'[q].slot = u[q].slot
        BY <1>1, <1>3, <2>2
    <3>2. ASSUME NEW x \in Procs, u'[x].pc = "updwrite" PROVE u'[x].off # u'[q].slot
      <4>1. CASE x = p
          BY <1>2, <2>2, <3>1, <3>2, <4>1
      <4>2. CASE x # p
          BY <1>1, <3>1, <3>2, <4>2 DEF Rest, Exclusive
      <4> QED
          BY <4>1, <4>2
    <3> QED
        BY <2>2, <3>1, <3>2
  <2> QED
      BY <2>1, <2>2
<1>4. ASSUME NEW q \in Procs, u'[q].pc = "updwrite" PROVE inode'[u'[q].off].count > 0
  <2>1. CASE q = p
      BY <1>2, <1>4, <2>1
  <2>2. CASE q # p
      BY <1>1, <1>4, <2>2
  <2> QED
      BY <2>1, <2>2
<1> QED
    BY <1>3, <1>4 DEF Exclusive

LEMMA DirsStep ==
    ASSUME TypeOK, Rest, NEW p \in Procs, NEW r, Shift(p, r), dir' = dir,
           \A i \in Ino : dino'[i].mode = "dir" => i \in DirInos,
           \A s \in Slots : inode'[s].mode = "dir" => inode'[s].num \in DirInos,
           \A q \in Procs : q # p /\ u[q].pc = "scan" =>
              inode'[u[q].slot].num = inode[u[q].slot].num,
           r.pc # "scan"
    PROVE  Dirs'
<1>1. ASSUME NEW q \in Procs, u'[q].pc = "scan" PROVE inode'[u'[q].slot].num \in DirInos
  <2>1. q # p
      BY <1>1 DEF Shift
  <2>2. u'[q] = u[q]
      BY <1>1, <2>1 DEF Shift, Others, Alike
  <2> QED
      BY <1>1, <2>1, <2>2 DEF Rest, Dirs
<1> QED
    BY <1>1 DEF Rest, Dirs

LEMMA Assembled ==
    ASSUME NEW p \in Procs, NEW r, Shift(p, r), Fits(r, cdir'[p]), Parked,
           FilesOK', Counted', Execs', Unique', SlotsFree', Exclusive', Dirs', RestTypes',
           file' \in [1..NFILE -> [count : Nat, inode : 0..NINODE]],
           ofile' \in [Procs -> [Fds -> 0..NFILE]], cdir' \in [Procs -> Slots],
           stuck' \in Seq(Slots), execnt' \in 0..NEXEC
    PROVE  Inv'
<1>1. Users' /\ Parked' /\ cpu' \in Procs \cup {NoProc}
    BY UsersStep, ParkedStep, CpuType
<1>2. TypeOK'
    BY <1>1 DEF TypeOK, RestTypes, IRec, DRec
<1> QED
    BY <1>1, <1>2 DEF Inv, Rest

\* update locks the inode it writes: its slot is in use, and nobody reads it or
\* puts it away, as it was not locked.
LEMMA UpdateWritesInv ==
    ASSUME TypeOK, Rest, NEW p \in Procs, NEW s \in Slots, s = u[p].off, u[p].pc = "upd",
           u[p].off <= NINODE, cpu \in {p, NoProc}, ~inode[s].lock, inode[s].upd,
           inode' = [inode EXCEPT ![s].lock = TRUE], Go(p, [u[p] EXCEPT !.pc = "updwrite"]),
           UNCHANGED <<dino, dir, super, files, halted, stuck, calls>>
    PROVE  Inv'
<1>1. /\ Fits(u[p], cdir[p]) /\ cdir[p] \in Slots /\ u[p] \in URec /\ RestTypes /\ Users
      /\ inode \in [Slots -> IRec]
    BY Fitting
<1>2. PICK r : r = [u[p] EXCEPT !.pc = "updwrite"]
    OBVIOUS
<1>3. /\ Fits(r, cdir[p]) /\ \A x \in Slots : Holds(r, cdir[p], x) = Holds(u[p], cdir[p], x)
      /\ Calm(u[p], r) /\ ~Sole(r) /\ r.pc = "updwrite" /\ r.off = s
    BY <1>1, <1>2, UpdWrites
<1>4. Shift(p, r)
    BY <1>1, <1>2, GoShift DEF files
<1>5. inode' \in [Slots -> IRec]
    BY <1>1, TableLock
<1>6. \A x \in Slots : /\ inode'[x].num = inode[x].num /\ inode'[x].count = inode[x].count
                       /\ inode'[x].mode = inode[x].mode /\ (inode[x].lock => inode'[x].lock)
                       /\ x # s => inode'[x] = inode[x]
    BY <1>1 DEF IRec
<1>7. inode[s].count \in Nat /\ inode[s].count # 0
    BY <1>1 DEF Rest, SlotsFree, Free, IRec
<1>8. FilesOK' /\ \A x \in Slots : FileRefs(x)' = FileRefs(x)
    BY <1>3, <1>4, FilesStep DEF Rest, files
<1>9. Counted'
  <2>1. ASSUME NEW x \in Slots
        PROVE  inode'[x].count = inode[x].count + Holds(r, cdir'[p], x) - Holds(u[p], cdir[p],
                     x)
    <3>1. inode'[x].count = inode[x].count /\ inode[x].count \in Nat
        BY <1>1, <1>6 DEF IRec
    <3>2. Holds(r, cdir'[p], x) = Holds(u[p], cdir[p], x) /\ Holds(u[p], cdir[p], x) \in Nat
        BY <1>3 DEF Holds, B, files
    <3> QED
        BY <3>1, <3>2
  <2> QED
      BY <1>4, <1>8, <2>1, CountedStep
<1>10. Execs'
    BY <1>3, <1>4, ExecsStep DEF Rest, Calm, super
<1>11. Unique' /\ SlotsFree'
    BY <1>6, <1>7 DEF Rest, Unique, SlotsFree
<1>12. Exclusive'
  <2>1. ASSUME NEW q \in Procs, Sole(u[q]) PROVE u[q].slot \in Slots /\ u[q].slot # s
    <3>1. u[q].slot \in Slots
        BY <2>1, Holder DEF Rest, Users, Fits, Holding, WithSlot, Sole
    <3> QED
        BY <2>1, <3>1, SoleLocked
  <2>2. ASSUME NEW q \in Procs, Sole(u[q])
        PROVE  inode'[u[q].slot].count = 1 /\ inode'[u[q].slot].lock
      BY <1>6, <2>1, <2>2, SoleLocked
  <2>3. ASSUME NEW x \in Procs, u[x].pc = "updwrite" PROVE inode'[u[x].off].count > 0
    <3>1. u[x].off \in Slots /\ inode[u[x].off].count > 0
        BY <2>3, Fitting DEF Going, Rest, Exclusive
    <3> QED
        BY <1>6, <3>1
  <2>4. inode'[r.off].count > 0
      BY <1>3, <1>6, <1>7
  <2> QED
      BY <1>3, <1>4, <2>1, <2>2, <2>3, <2>4, ExclusiveStep
<1>13. Dirs'
  <2>1. \A x \in Slots : inode'[x].mode = "dir" => inode'[x].num \in DirInos
      BY <1>6 DEF Rest, Dirs
  <2>2. ASSUME NEW q \in Procs,
               u[q].pc = "scan" PROVE inode'[u[q].slot].num = inode[u[q].slot].num
    <3>1. u[q].slot \in Slots
        BY <2>2, Holder DEF Rest, Users, Fits, Holding, WithSlot
    <3> QED
        BY <1>6, <3>1
  <2>3. r.pc # "scan" /\ dir' = dir /\ \A i \in Ino : dino'[i].mode = "dir" => i \in DirInos
      BY <1>3 DEF Rest, Dirs
  <2> QED
      BY <1>4, <2>1, <2>2, <2>3, DirsStep
<1>14. RestTypes'
    BY <1>1, <1>5 DEF RestTypes, super
<1> QED
    BY <1>3, <1>4, <1>8, <1>9, <1>10, <1>11, <1>12, <1>13, <1>14, Assembled DEF files,
       super, TypeOK, Rest

LEMMA UpdateInodeInv ==
    ASSUME TypeOK, Rest, NEW p \in Procs, UpdateInode(p) PROVE Inv'
<1>1. /\ u[p].pc = "upd" /\ u[p].off <= NINODE /\ cpu \in {p, NoProc}
      /\ UNCHANGED <<dino, dir, super, files, halted, stuck, calls>>
    BY DEF UpdateInode, At
<1>2. /\ Fits(u[p], cdir[p]) /\ cdir[p] \in Slots /\ u[p] \in URec /\ RestTypes /\ Users
      /\ inode \in [Slots -> IRec]
    BY Fitting
<1>3. PICK s \in Slots : s = u[p].off /\ s + 1 \in 1..(NINODE + 1)
    BY <1>1, Fitting, Sizes DEF Going, Slots
<1>4. PICK next : next = [u[p] EXCEPT !.pc = "upd", !.off = s + 1]
    OBVIOUS
<1>5. next = [u[p] EXCEPT !.off = s + 1]
    BY <1>1, <1>2, <1>4 DEF URec
<1>6. Keeps(u[p], next, cdir[p]) /\ next.pc # "scan" /\ ~Sole(u[p])
    BY <1>1, <1>2, <1>3, <1>4, UpdGoesOn DEF URec, Sole
<1>7. CASE inode[s].lock /\ Go(p, next) /\ inode' = inode
    BY <1>1, <1>2, <1>6, <1>7, PlainInv DEF RestTypes, super, files
<1>8. CASE ~inode[s].lock /\ inode' = Unlock(inode, s) /\ GoAndWake(p, s, next)
  <2>1. inode' \in [Slots -> IRec]
      BY <1>2, <1>8, UnlockTable
  <2>2. \A x \in Slots : /\ inode'[x].num = inode[x].num /\ inode'[x].count = inode[x].count
                         /\ inode'[x].mode = inode[x].mode
                         /\ (inode[x].lock => inode'[x].lock)
                         /\ x # s => inode'[x] = inode[x]
      BY <1>2, <1>8 DEF IRec, Unlock
  <2>3. inode[s].count = 0 => inode'[s] = inode[s]
    <3>1. ASSUME inode[s] = Free PROVE inode'[s] = inode[s]
      <4>1. inode'[s] = [[Free EXCEPT !.lock = FALSE] EXCEPT !.want = FALSE]
          BY <1>2, <1>8, <3>1 DEF Unlock
      <4> QED
          BY <3>1, <4>1 DEF Free
    <3> QED
        BY <3>1 DEF Rest, SlotsFree
  <2>4. Tabled(p)
      BY <2>2, <2>3 DEF Tabled
  <2>5. Shift(p, next)
      BY <1>1, <1>2, <1>8, WakeShift DEF files
  <2>6. RestTypes'
      BY <1>1, <1>2, <2>1 DEF RestTypes, super
  <2> QED
      BY <1>1, <1>6, <2>2, <2>4, <2>5, <2>6, TableInv DEF Rest, Dirs, super
<1>9. CASE /\ ~inode[s].lock /\ inode[s].upd /\ inode' = [inode EXCEPT ![s].lock = TRUE]
           /\ Go(p, [u[p] EXCEPT !.pc = "updwrite"])
    BY <1>1, <1>2, <1>3, <1>9, UpdateWritesInv
<1> QED
    BY <1>3, <1>5, <1>7, <1>8, <1>9 DEF UpdateInode

LEMMA UpdateWrittenInv ==
    ASSUME TypeOK, Rest, NEW p \in Procs, UpdateWritten(p) PROVE Inv'
<1>1. /\ u[p].pc = "updwrite" /\ cpu \in {p, NoProc}
      /\ UNCHANGED <<dir, super, files, halted, stuck, calls>>
    BY DEF UpdateWritten, At
<1>2. /\ Fits(u[p], cdir[p]) /\ cdir[p] \in Slots /\ u[p] \in URec /\ RestTypes /\ Users
      /\ inode \in [Slots -> IRec]
    BY Fitting
<1>3. PICK s \in Slots : s = u[p].off /\ s + 1 \in 1..(NINODE + 1)
    BY <1>1, Fitting, Sizes DEF Going, Slots
<1>4. Iupdat(s) /\ inode' = Unlock(inode, s)
      /\ GoAndWake(p, s, [u[p] EXCEPT !.pc = "upd", !.off = s + 1])
    BY <1>3 DEF UpdateWritten
<1>5. PICK next : next = [u[p] EXCEPT !.pc = "upd", !.off = s + 1]
    OBVIOUS
<1>6. Keeps(u[p], next, cdir[p]) /\ next.pc # "scan" /\ ~Sole(u[p])
    BY <1>1, <1>2, <1>3, <1>5, UpdGoesOn DEF URec, Sole
<1>7. inode[s].count > 0 /\ \A q \in Procs : ~(Sole(u[q]) /\ u[q].slot = s)
    BY <1>1, <1>3 DEF Rest, Exclusive
<1>8. inode' \in [Slots -> IRec]
    BY <1>2, <1>4, UnlockTable
<1>9. \A x \in Slots : /\ inode'[x].num = inode[x].num /\ inode'[x].count = inode[x].count
                       /\ inode'[x].mode = inode[x].mode
                       /\ x # s => inode'[x] = inode[x]
    BY <1>2, <1>4 DEF IRec, Unlock
<1>10. Tabled(p)
    BY <1>2, <1>7, <1>9 DEF Tabled, IRec
<1>11. Shift(p, next)
    BY <1>1, <1>2, <1>4, <1>5, WakeShift DEF files
<1>12. dino' \in [Ino -> DRec] /\ \A i \in Ino : dino'[i].mode = "dir" => i \in DirInos
    BY <1>4, IupdatTypes
<1>13. RestTypes'
    BY <1>1, <1>2, <1>8, <1>12 DEF RestTypes, super
<1> QED
    BY <1>1, <1>6, <1>9, <1>10, <1>11, <1>12, <1>13, TableInv DEF Rest, Dirs, super

\* The slots are still.
LEMMA StillInv ==
    ASSUME TypeOK, Rest, NEW p \in Procs, NEW r, Shift(p, r), Fits(r, cdir'[p]),
           ~Sole(r), r.pc \notin {"updwrite", "scan"},
           inode' = inode, dino' = dino, dir' = dir, cdir' \in [Procs -> Slots],
           FilesOK', Counted', Execs', RestTypes',
           file' \in [1..NFILE -> [count : Nat, inode : 0..NINODE]],
           ofile' \in [Procs -> [Fds -> 0..NFILE]],
           stuck' \in Seq(Slots), execnt' \in 0..NEXEC
    PROVE  Inv'
<1>1. Unique' /\ SlotsFree'
    BY DEF Rest, Unique, SlotsFree
<1>2. Exclusive'
    BY ExclusiveStep DEF Rest, Exclusive
<1>3. Dirs'
  <2>1. \A x \in Slots : inode'[x].mode = "dir" => inode'[x].num \in DirInos
      BY DEF Rest, Dirs
  <2>2. \A i \in Ino : dino'[i].mode = "dir" => i \in DirInos
      BY DEF Rest, Dirs
  <2> QED
      BY <2>1, <2>2, DirsStep
<1> QED
    BY <1>1, <1>2, <1>3, Assembled DEF Rest

\* Slot s changes, and no other; nobody but p is reading it or putting it away.
Alone(p, r, s) ==
    /\ \A x \in Slots : x # s => inode'[x] = inode[x]
    /\ \/ inode'[s] = Free
       \/ /\ inode'[s].count > 0 /\ inode'[s].num # 0
          /\ \A x \in Slots : x # s => inode[x].num # inode'[s].num
    /\ \A q \in Procs : q # p =>
          /\ Sole(u[q]) => u[q].slot # s
          /\ u[q].pc = "updwrite" /\ u[q].off = s => inode'[s].count > 0
          /\ u[q].pc = "scan" /\ u[q].slot = s => inode'[s].num = inode[s].num
    /\ Sole(r) => /\ r.slot = s /\ inode'[s].count = 1 /\ inode'[s].lock
                  /\ \A q \in Procs : q # p /\ u[q].pc = "updwrite" => u[q].off # s
    /\ inode'[s].mode = "dir" => inode'[s].num \in DirInos

LEMMA SlotInv ==
    ASSUME TypeOK, Rest, NEW p \in Procs, NEW r, Shift(p, r), Fits(r, cdir'[p]),
           r.pc \notin {"updwrite", "scan"}, NEW s \in Slots, Alone(p, r, s),
           \A i \in Ino : dino'[i].mode = "dir" => i \in DirInos,
           dir' = dir, cdir' \in [Procs -> Slots], FilesOK', Counted', Execs', RestTypes',
           file' \in [1..NFILE -> [count : Nat, inode : 0..NINODE]],
           ofile' \in [Procs -> [Fds -> 0..NFILE]],
           stuck' \in Seq(Slots), execnt' \in 0..NEXEC
    PROVE  Inv'
<1>1. /\ \A x \in Slots : x # s => inode'[x] = inode[x]
      /\ \/ inode'[s] = Free
         \/ /\ inode'[s].count > 0 /\ inode'[s].num # 0
            /\ \A x \in Slots : x # s => inode[x].num # inode'[s].num
      /\ \A q \in Procs : q # p /\ Sole(u[q]) => u[q].slot # s
      /\ \A q \in Procs : q # p /\ u[q].pc = "updwrite" /\ u[q].off = s => inode'[s].count > 0
      /\ \A q \in Procs : q # p /\ u[q].pc = "scan" /\ u[q].slot = s
                             => inode'[s].num = inode[s].num
      /\ Sole(r) => /\ r.slot = s /\ inode'[s].count = 1 /\ inode'[s].lock
                    /\ \A q \in Procs : q # p /\ u[q].pc = "updwrite" => u[q].off # s
      /\ inode'[s].mode = "dir" => inode'[s].num \in DirInos
    BY DEF Alone
<1>2. Free.num = 0 /\ Free.count = 0
    BY DEF Free
<1>3. Unique'
  <2>1. ASSUME NEW x \in Slots, x # s, inode'[x].num = inode'[s].num PROVE inode'[x].num = 0
    <3>1. CASE inode'[s] = Free
        BY <1>1, <1>2, <2>1, <3>1
    <3>2. CASE \A y \in Slots : y # s => inode[y].num # inode'[s].num
        BY <1>1, <2>1, <3>2
    <3> QED
        BY <1>1, <3>1, <3>2
  <2>2. ASSUME NEW x \in Slots, NEW y \in Slots, x # y, inode'[x].num = inode'[y].num
        PROVE  inode'[x].num = 0
    <3>1. CASE x = s
        BY <1>1, <2>1, <2>2, <3>1
    <3>2. CASE y = s
        BY <1>1, <2>1, <2>2, <3>2
    <3>3. CASE x # s /\ y # s
      <4>1. inode'[x] = inode[x] /\ inode'[y] = inode[y]
          BY <1>1, <3>3
      <4>2. inode[x].num = 0
          BY <1>1, <2>2, <4>1 DEF Rest, Unique
      <4> QED
          BY <1>1, <4>1, <4>2
    <3> QED
        BY <1>1, <3>1, <3>2, <3>3
  <2> QED
      BY <1>1, <2>2 DEF Unique
<1>4. SlotsFree'
  <2>1. ASSUME NEW x \in Slots
        PROVE  IF inode'[x].count = 0 THEN inode'[x] = Free ELSE inode'[x].num # 0
    <3>1. CASE x = s
      <4>1. inode'[s] \in IRec
          BY DEF RestTypes
      <4>2. inode'[s].count \in Nat
          BY <1>1, <4>1 DEF IRec
      <4> QED
          BY <1>1, <1>2, <3>1, <4>2
    <3>2. CASE x # s
        BY <1>1, <3>2 DEF Rest, SlotsFree
    <3> QED
        BY <1>1, <3>1, <3>2
  <2> QED
      BY <1>1, <2>1 DEF SlotsFree
<1>5. Exclusive'
  <2>1. ASSUME NEW q \in Procs, q # p, Sole(u[q])
        PROVE  inode'[u[q].slot].count = 1 /\ inode'[u[q].slot].lock
    <3>1. u[q].slot \in Slots
        BY <1>1, <2>1, Holder DEF Rest, Users, Fits, Holding, WithSlot, Sole
    <3> QED
        BY <1>1, <2>1, <3>1, SoleLocked
  <2>2. ASSUME NEW q \in Procs, q # p, u[q].pc = "updwrite" PROVE inode'[u[q].off].count > 0
    <3>1. u[q].off \in Slots /\ inode[u[q].off].count > 0
        BY <1>1, <2>2, Fitting DEF Going, Rest, Exclusive
    <3> QED
        BY <1>1, <2>2, <3>1
  <2>3. Sole(r) => /\ inode'[r.slot].count = 1 /\ inode'[r.slot].lock /\ r.pc # "updwrite"
                   /\ \A q \in Procs : q # p /\ u[q].pc = "updwrite" => u[q].off # r.slot
      BY <1>1 DEF Sole
  <2> QED
      BY <1>1, <2>1, <2>2, <2>3, ExclusiveStep
<1>6. Dirs'
  <2>1. \A x \in Slots : inode'[x].mode = "dir" => inode'[x].num \in DirInos
      BY <1>1 DEF Rest, Dirs
  <2>2. ASSUME NEW q \in Procs, q # p, u[q].pc = "scan"
        PROVE  inode'[u[q].slot].num = inode[u[q].slot].num
    <3>1. u[q].slot \in Slots
        BY <1>1, <2>2, Holder DEF Rest, Users, Fits, Holding, WithSlot
    <3> QED
        BY <1>1, <2>2, <3>1
  <2> QED
      BY <1>1, <2>1, <2>2, DirsStep
<1> QED
    BY <1>3, <1>4, <1>5, <1>6, Assembled DEF Rest

\* After a panic nothing but the types is left.
LEMMA HaltedInv ==
    ASSUME TypeOK, NEW p \in Procs, NEW r, cpu' = CpuAfter(p, r), halted', RestTypes',
           UNCHANGED <<files, execnt>>, stuck' \in Seq(Slots)
    PROVE  Inv'
<1>1. cpu' \in Procs \cup {NoProc}
    BY DEF CpuAfter
<1> QED
    BY <1>1 DEF Inv, TypeOK, RestTypes, IRec, DRec, files

LEMMA TotalChange ==
    ASSUME TypeOK, Rest, NEW p \in Procs, NEW r, Shift(p, r), NEW s \in Slots,
           NEW a \in Int, NEW b \in Int,
           Cardinality(FileRefs(s)') = Cardinality(FileRefs(s)) + a,
           Cardinality(StuckRefs(s)') = Cardinality(StuckRefs(s)) + b,
           inode'[s].count
              = inode[s].count + Holds(r, cdir'[p], s) - Holds(u[p], cdir[p], s) + a + b
    PROVE  inode'[s].count = Total(s)'
<1>1. /\ Held(s) \in Nat /\ Held(s)' \in Nat
      /\ Held(s)' = Held(s) + Holds(r, cdir'[p], s) - Holds(u[p], cdir[p], s)
    BY HeldStep DEF Shift
<1>2. Cardinality(FileRefs(s)) \in Nat /\ Cardinality(StuckRefs(s)) \in Nat
    BY RefSets
<1>3. Total(s) = Held(s) + Cardinality(FileRefs(s)) + Cardinality(StuckRefs(s)) + B(s = 1)
    BY DEF Total
<1>4. Total(s)' = Held(s)' + Cardinality(FileRefs(s)') + Cardinality(StuckRefs(s)') + B(s = 1)
    BY DEF Total
<1>5. Holds(r, cdir'[p], s) \in Nat /\ Holds(u[p], cdir[p], s) \in Nat
    BY DEF Holds, B
<1> QED
    BY <1>1, <1>2, <1>3, <1>4, <1>5 DEF Rest, Counted, B

\* The counts when files and stuck directories keep what they refer to.
LEMMA SameFiles ==
    ASSUME TypeOK, Rest, NEW p \in Procs, NEW r, Shift(p, r),
           \A s \in Slots : FileRefs(s)' = FileRefs(s), stuck' = stuck,
           NEW g, \A s \in Slots : Holds(r, cdir'[p], s) = Holds(u[p], cdir[p], s) + One(s, g),
           inode' \in [Slots -> IRec],
           \A s \in Slots : inode'[s].count = inode[s].count + One(s, g)
    PROVE  Counted'
<1>1. ASSUME NEW s \in Slots
      PROVE  inode'[s].count = inode[s].count + Holds(r, cdir'[p], s) - Holds(u[p], cdir[p], s)
  <2>1. inode[s].count \in Nat /\ Holds(u[p], cdir[p], s) \in Nat
      BY Fitting DEF IRec, Holds, B, One
  <2> QED
      BY <2>1 DEF B, One
<1> QED
    BY <1>1, CountedStep

LEMMA EvenFiles ==
    ASSUME TypeOK, Rest, NEW p \in Procs, NEW r, Shift(p, r),
           \A s \in Slots : FileRefs(s)' = FileRefs(s), stuck' = stuck,
           \A s \in Slots : Holds(r, cdir'[p], s) = Holds(u[p], cdir[p], s),
           \A s \in Slots : inode'[s].count = inode[s].count
    PROVE  Counted'
<1>1. ASSUME NEW s \in Slots
      PROVE  inode'[s].count = inode[s].count + Holds(r, cdir'[p], s) - Holds(u[p], cdir[p], s)
  <2>1. inode[s].count \in Nat /\ Holds(u[p], cdir[p], s) \in Nat
      BY Fitting DEF IRec, Holds, B, One
  <2> QED
      BY <2>1
<1> QED
    BY <1>1, CountedStep

\* iget takes a reference to s, and leaves the files, exec and the stuck
\* directories alone.
LEMMA TakeInv ==
    ASSUME TypeOK, Rest, NEW p \in Procs, NEW r, Shift(p, r), Fits(r, cdir[p]), Calm(u[p], r),
           r.pc \notin {"updwrite", "scan"},
           UNCHANGED <<dino, dir, file, ofile, cdir, execnt, stuck>>,
           NEW s \in Slots, Takes(u[p], cdir[p], r, cdir[p], s),
           Alone(p, r, s), inode'[s].count = inode[s].count + 1, RestTypes'
    PROVE  Inv'
<1>1. FilesOK' /\ \A x \in Slots : FileRefs(x)' = FileRefs(x)
    BY FilesStep DEF Rest
<1>2. Execs'
    BY ExecsStep DEF Rest, Calm
<1>3. ASSUME NEW x \in Slots
      PROVE  inode'[x].count = inode[x].count + Holds(r, cdir'[p], x) - Holds(u[p], cdir[p], x)
  <2>1. x # s => inode'[x] = inode[x]
      BY DEF Alone
  <2>2. /\ inode[x].count \in Nat /\ Holds(u[p], cdir[p], x) \in Nat
        /\ Holds(r, cdir'[p], x) = Holds(u[p], cdir[p], x) + One(x, s)
      BY Fitting DEF IRec, Holds, B, Takes
  <2>3. One(x, s) = IF x = s THEN 1 ELSE 0
      BY DEF One
  <2> QED
      BY <2>2, <2>3, <2>1
<1>4. Counted'
    BY <1>1, <1>3, CountedStep
<1> QED
  <2>1. \A i \in Ino : dino'[i].mode = "dir" => i \in DirInos
      BY DEF Rest, Dirs
  <2>2. /\ file' \in [1..NFILE -> [count : Nat, inode : 0..NINODE]]
        /\ ofile' \in [Procs -> [Fds -> 0..NFILE]] /\ stuck' \in Seq(Slots)
              /\ execnt' \in 0..NEXEC
        /\ cdir' \in [Procs -> Slots] /\ Fits(r, cdir'[p]) /\ dir' = dir
      BY DEF TypeOK
  <2> QED
      BY <1>1, <1>2, <1>4, <2>1, <2>2, SlotInv

LEMMA IgetHitInv ==
    ASSUME TypeOK, Rest, NEW p \in Procs, IgetHit(p) PROVE Inv'
<1>1. /\ u[p].pc = "iget" /\ cpu \in {p, NoProc} /\ halted' = NameGone(u[p])
      /\ UNCHANGED <<dino, dir, super, files, stuck, calls>>
    BY DEF IgetHit, At
<1>2. /\ Fits(u[p], cdir[p]) /\ cdir[p] \in Slots /\ u[p] \in URec /\ RestTypes /\ Users
      /\ inode \in [Slots -> IRec] /\ u[p].ino # 0
    BY <1>1, Fitting DEF Naming, Fetching
<1>3. PICK s \in Slots : /\ inode[s].num = u[p].ino /\ ~inode[s].lock
                         /\ inode' = [inode EXCEPT ![s].count = @ + 1, ![s].lock = TRUE]
                         /\ Go(p, [u[p] EXCEPT !.pc = u[p].ret, !.slot = s])
    BY DEF IgetHit
<1>4. PICK r : r = [u[p] EXCEPT !.pc = u[p].ret, !.slot = s]
    OBVIOUS
<1>5. /\ Fits(r, cdir[p]) /\ Takes(u[p], cdir[p], r, cdir[p], s)
      /\ Calm(u[p], r) /\ ~Sole(r) /\ r.pc \notin {"updwrite", "scan"}
    BY <1>1, <1>2, <1>4, IgetHas
<1>6. Shift(p, r)
    BY <1>1, <1>2, <1>3, <1>4, GoShift DEF files
<1>7. /\ \A x \in Slots : x # s => inode'[x] = inode[x]
      /\ inode'[s].num = inode[s].num /\ inode'[s].mode = inode[s].mode
      /\ inode[s].count \in Nat /\ inode'[s].count = inode[s].count + 1
      /\ inode' \in [Slots -> IRec]
    BY <1>2, <1>3 DEF IRec
<1>8. inode'[s].num # 0 /\ \A x \in Slots : x # s => inode[x].num # inode'[s].num
    BY <1>2, <1>3, <1>7 DEF Rest, Unique
<1>9. \A q \in Procs : Sole(u[q]) => u[q].slot # s
    BY <1>3, SoleLocked
<1>10. inode'[s].mode = "dir" => inode'[s].num \in DirInos
    BY <1>7 DEF Rest, Dirs
<1>11. RestTypes'
    BY <1>1, <1>2, <1>7 DEF RestTypes, super, NameGone
<1>12. UNCHANGED <<dino, dir, file, ofile, cdir, execnt, stuck>>
    BY <1>1 DEF super, files
<1>13. Alone(p, r, s)
    BY <1>5, <1>7, <1>8, <1>9, <1>10 DEF Alone
<1> QED
    BY <1>5, <1>6, <1>7, <1>11, <1>12, <1>13, TakeInv

LEMMA IgetMissInv ==
    ASSUME TypeOK, Rest, NEW p \in Procs, IgetMiss(p) PROVE Inv'
<1>1. /\ u[p].pc = "iget" /\ cpu \in {p, NoProc} /\ Absent(u[p].ino) /\ FreeSlots # {}
      /\ UNCHANGED <<dino, dir, super, files, halted, stuck, calls>>
    BY DEF IgetMiss, At
<1>2. /\ Fits(u[p], cdir[p]) /\ cdir[p] \in Slots /\ u[p] \in URec /\ RestTypes /\ Users
      /\ inode \in [Slots -> IRec] /\ u[p].ino # 0 /\ u[p].ino \in 0..NI
    BY <1>1, Fitting, RecordTypes DEF Naming, Fetching
<1>3. PICK s : s = FirstOf(FreeSlots)
    OBVIOUS
<1>4. s \in Slots /\ inode[s].count = 0 /\ inode[s] = Free
  <2>1. FreeSlots \in SUBSET Nat /\ FreeSlots \in SUBSET Slots
      BY DEF FreeSlots, Slots
  <2>2. s \in FreeSlots
      BY <1>1, <1>3, <2>1, LeastNatural
  <2>3. s \in Slots /\ inode[s].count = 0
      BY <2>2 DEF FreeSlots
  <2> QED
      BY <2>3 DEF Rest, SlotsFree
<1>5. s \in Slots
    BY <1>4
<1>6. /\ inode' = [inode EXCEPT ![s] = [@ EXCEPT !.num = u[p].ino, !.lock = TRUE,
               !.want = FALSE,
                                                 !.upd = FALSE, !.count = 1]]
      /\ Go(p, [u[p] EXCEPT !.pc = "iread", !.slot = s])
    BY <1>3 DEF IgetMiss, FirstOf
<1>7. PICK a, r : a = u[p] /\ r = [a EXCEPT !.pc = "iread", !.slot = s]
    OBVIOUS
<1>8. Fits(r, cdir[p]) /\ Takes(a, cdir[p], r, cdir[p], s) /\ Calm(a, r)
       /\ r.pc \notin {"updwrite", "scan"}
  <2>1. Fits(a, cdir[p]) /\ a.pc = "iget" /\ cdir[p] \in Slots /\ s \in Slots
      BY <1>1, <1>2, <1>7, <1>5
  <2>2. r = [a EXCEPT !.pc = "iread", !.slot = s]
      BY <1>7
  <2>3. PICK c \in Slots : c = cdir[p]
      BY <2>1
  <2>4. Fits(a, c)
      BY <2>1, <2>3
  <2>5. Fits(r, c)
      BY <2>1, <2>2, <2>4, IgetReads
  <2>6. Takes(a, c, r, c, s)
      BY <2>1, <2>2, <2>4, IgetReads
  <2>7. Calm(a, r)
      BY <2>1, <2>2, <2>4, IgetReads
  <2>8. r.pc \notin {"updwrite", "scan"}
      BY <1>2, <1>7 DEF URec
  <2> QED
      BY <2>3, <2>5, <2>6, <2>7, <2>8
<1>9. /\ Fits(r, cdir[p]) /\ Takes(u[p], cdir[p], r, cdir[p], s)
      /\ Calm(u[p], r) /\ r.pc \notin {"updwrite", "scan"}
    BY <1>7, <1>8
<1>10. r.slot = s
    BY <1>2, <1>7 DEF URec
<1>11. Shift(p, r)
    BY <1>1, <1>2, <1>6, <1>7, GoShift DEF files
<1>12. /\ \A x \in Slots : x # s => inode'[x] = inode[x]
      /\ inode'[s].num = u[p].ino /\ inode'[s].mode = "none" /\ inode'[s].lock
      /\ inode'[s].count = 1 /\ inode' \in [Slots -> IRec]
  <2>1. PICK e : e = [inode[s] EXCEPT !.num = u[p].ino, !.lock = TRUE, !.want = FALSE,
                                      !.upd = FALSE, !.count = 1]
      OBVIOUS
  <2>2. e \in IRec /\ e.num = u[p].ino /\ e.lock /\ e.count = 1 /\ e.mode = inode[s].mode
    <3>1. inode[s] \in IRec
        BY <1>2, <1>4
    <3> QED
        BY <1>2, <2>1, <3>1 DEF IRec
  <2>3. inode[s].mode = "none"
      BY <1>4 DEF Free
  <2>4. inode' = [inode EXCEPT ![s] = e]
      BY <1>6, <2>1
  <2> QED
      BY <1>2, <1>4, <2>2, <2>3, <2>4, TableSet
<1>13. \A x \in Slots : inode[x].num # inode'[s].num
    BY <1>1, <1>12 DEF Absent
<1>14. ASSUME NEW q \in Procs
       PROVE  /\ u[q].pc = "updwrite" => u[q].off # s
              /\ Sole(u[q]) => u[q].slot # s
              /\ u[q].pc = "scan" => u[q].slot # s
  <2>1. u[q].pc = "updwrite" => u[q].off # s
      BY <1>4 DEF Rest, Exclusive
  <2>2. Sole(u[q]) => u[q].slot # s
      BY <1>4 DEF Rest, Exclusive
  <2>3. ASSUME u[q].pc = "scan", u[q].slot = s PROVE FALSE
    <3>1. Has(q, s)
        BY <1>2, <1>4, <2>3, Sizes, Holder DEF Slots
    <3> QED
        BY <1>4, <3>1, OneHolder DEF Rest
  <2> QED
      BY <2>1, <2>2, <2>3
<1>15. RestTypes'
    BY <1>1, <1>2, <1>12 DEF RestTypes, super
<1>16. UNCHANGED <<dino, dir, file, ofile, cdir, execnt, stuck>>
    BY <1>1 DEF super, files
<1>17. Alone(p, r, s)
    BY <1>2, <1>9, <1>12, <1>13, <1>14, <1>10 DEF Alone
<1> QED
    BY <1>4, <1>9, <1>11, <1>12, <1>15, <1>16, <1>5, <1>17, TakeInv

\* The sets of files and stuck directories that refer to a slot, when f closes.
LEMMA PutFiles ==
    ASSUME TypeOK, Rest, NEW p \in Procs, NEW r, Shift(p, r), Closing(u[p]),
           r.pc = "closed", r.fd = u[p].fd, file' = file
    PROVE  \A x \in Slots : Cardinality(FileRefs(x)')
                               = Cardinality(FileRefs(x)) - One(x, u[p].slot)
<1>1. PICK f : f = u[p].fd
    OBVIOUS
<1>2. f \in FileRefs(u[p].slot) /\ \A q \in Procs : u[q].fd = f => q = p
    BY <1>1, CloserRef DEF Rest
<1>3. f \in 1..NFILE /\ file[f].inode = u[p].slot /\ file[f].count = 1
    BY <1>1, <1>2 DEF FileRefs, Rest, FilesOK
<1>4. ASSUME NEW q \in Procs, q # p
      PROVE  u'[q].fd = u[q].fd /\ (u'[q].pc = "closed" <=> u[q].pc = "closed")
    BY <1>4 DEF Shift, Others, Alike
<1>5. u'[p].pc = "closed" /\ u'[p].fd = f /\ u[p].pc # "closed"
    BY <1>1 DEF Shift, Closing, Putting
<1>6. ASSUME NEW g \in 1..NFILE, g # f PROVE Put(g)' <=> Put(g)
    BY <1>1, <1>4, <1>5, <1>6 DEF Put
<1>7. Put(f)'
    BY <1>3, <1>5 DEF Put
<1>8. ASSUME NEW x \in Slots
      PROVE  Cardinality(FileRefs(x)') = Cardinality(FileRefs(x)) - One(x, u[p].slot)
  <2>1. f \notin FileRefs(x)' /\ (f \in FileRefs(x) <=> x = u[p].slot)
      BY <1>2, <1>3, <1>7 DEF FileRefs
  <2>2. FileRefs(x)' \ {f} = FileRefs(x) \ {f}
      BY <1>6 DEF FileRefs
  <2>3. IsFiniteSet(FileRefs(x))
      BY RefSets
  <2>4. /\ Cardinality(FileRefs(x)) \in Nat
        /\ Cardinality(FileRefs(x)')
             = Cardinality(FileRefs(x)) + B(f \in FileRefs(x)') - B(f \in FileRefs(x))
      BY <2>2, <2>3, CardStep
  <2> QED
      BY <2>1, <2>4 DEF B, One
<1> QED
    BY <1>8

\* iput is done: p has one reference less.
LEMMA PutStep ==
    ASSUME TypeOK, Rest, NEW p \in Procs, NEW r, Shift(p, r), u[p].pc \in Putting,
           r = After(u[p]), UNCHANGED <<file, ofile, cdir, stuck, execnt>>,
           inode' \in [Slots -> IRec],
           \A x \in Slots : x # u[p].slot => inode'[x] = inode[x],
           inode'[u[p].slot].count = inode[u[p].slot].count - 1
    PROVE  /\ Fits(r, cdir'[p]) /\ ~Sole(r) /\ r.pc \notin {"updwrite", "scan"}
           /\ FilesOK' /\ Counted' /\ Execs'
<1>1. PICK c \in Slots : c = cdir[p] /\ cdir'[p] = c
    BY Fitting
<1>2. PICK a : a = u[p]
    OBVIOUS
<1>3. Fits(a, c) /\ a.pc \in Putting /\ r = After(a)
    BY <1>1, <1>2, Fitting
<1>4. a.ret \in {"user", "dead", "last", "iget", "wdone", "iloop", "closed", "chdir", "exdone"}
    BY <1>3 DEF Fits, Going
<1>5. CASE a.ret # "closed"
  <2>1. /\ Fits(r, c) /\ Gives(a, c, r, c, a.slot) /\ Calm(a, r) /\ ~Sole(r)
        /\ r.pc \notin {"updwrite", "scan"}
    <3>1. CASE a.ret = "user"
        BY <1>3, <3>1, PutUser
    <3>2. CASE a.ret = "dead"
        BY <1>3, <3>2, PutDead
    <3>3. CASE a.ret = "last"
        BY <1>3, <3>3, PutLast
    <3>4. CASE a.ret = "iget"
        BY <1>3, <3>4, PutIget
    <3>5. CASE a.ret \in {"wdone", "iloop", "chdir", "exdone"}
        BY <1>3, <3>5, PutOther
    <3> QED
        BY <1>4, <1>5, <3>1, <3>2, <3>3, <3>4, <3>5
  <2>2. FilesOK' /\ \A x \in Slots : FileRefs(x)' = FileRefs(x)
      BY <1>1, <1>2, <2>1, FilesStep DEF Rest
  <2>3. Execs'
      BY <1>1, <1>2, <2>1, ExecsStep DEF Rest, Calm
  <2>4. ASSUME NEW x \in Slots
        PROVE  inode'[x].count = inode[x].count + Holds(r, cdir'[p], x) - Holds(u[p], cdir[p],
                     x)
    <3>1. /\ inode[x].count \in Nat /\ Holds(a, c, x) \in Nat
          /\ Holds(r, c, x) = Holds(a, c, x) - One(x, a.slot)
        BY <2>1, Fitting DEF IRec, Holds, B, Gives
    <3>2. One(x, a.slot) = (IF x = a.slot THEN 1 ELSE 0)
          /\ inode'[x].count = IF x = a.slot THEN inode[x].count - 1 ELSE inode[x].count
        BY <1>1, <1>2 DEF One
    <3> QED
        BY <1>1, <1>2, <3>1, <3>2
  <2>5. Counted'
      BY <2>2, <2>4, CountedStep
  <2> QED
      BY <1>1, <1>2, <2>1, <2>2, <2>3, <2>5
<1>6. CASE a.ret = "closed"
  <2>1. /\ Fits(r, c) /\ (\A x \in Slots : Holds(r, c, x) = Holds(a, c, x))
        /\ r.pc = "closed" /\ r.fd = a.fd /\ (InExec(r) <=> InExec(a))
      BY <1>3, <1>6, PutClosed
  <2>2. Closing(u[p])
      BY <1>1, <1>3, <1>2, <1>6 DEF Closing
  <2>3. Execs'
      BY <1>1, <1>2, <2>1, ExecsStep DEF Rest
  <2>4. ASSUME NEW x \in Slots PROVE inode'[x].count = Total(x)'
    <3>1. Cardinality(FileRefs(x)') = Cardinality(FileRefs(x)) - One(x, u[p].slot)
        BY <1>1, <1>2, <2>1, <2>2, PutFiles
    <3>2. StuckRefs(x)' = StuckRefs(x)
        BY DEF StuckRefs
    <3>3. PICK k : k = 0 - One(x, u[p].slot)
        OBVIOUS
    <3>4. k \in Int /\ 0 \in Int
        BY <3>3 DEF One
    <3>5. /\ Cardinality(FileRefs(x)) \in Nat /\ Cardinality(StuckRefs(x)) \in Nat
        BY RefSets
    <3>6. /\ Cardinality(FileRefs(x)') = Cardinality(FileRefs(x)) + k
          /\ Cardinality(StuckRefs(x)') = Cardinality(StuckRefs(x)) + 0
        BY <3>1, <3>2, <3>3, <3>5 DEF One
    <3>7. inode'[x].count = inode[x].count + Holds(r, cdir'[p], x) - Holds(u[p], cdir[p],
                x) + k + 0
      <4>1. /\ inode[x].count \in Nat /\ Holds(a, c, x) \in Nat
                  /\ Holds(r, c, x) = Holds(a, c, x)
          BY <2>1, Fitting DEF IRec, Holds, B
      <4>2. inode'[x].count = IF x = u[p].slot THEN inode[x].count - 1 ELSE inode[x].count
          OBVIOUS
      <4> QED
          BY <1>1, <1>2, <3>3, <4>1, <4>2 DEF One
    <3> QED
        BY <3>4, <3>6, <3>7, TotalChange
  <2>5. Counted'
      BY <2>4 DEF Counted
  <2>6. FilesOK'
    <3>1. ASSUME NEW q \in Procs
          PROVE  /\ u'[q].fd = u[q].fd
                 /\ Leaving(u'[q]) => Leaving(u[q])
                 /\ Closing(u'[q]) => Closing(u[q]) /\ u'[q].slot = u[q].slot
      <4>1. CASE q = p
          BY <1>1, <1>2, <2>1, <4>1 DEF Shift, Leaving, Closing, Putting
      <4>2. CASE q # p
          BY <4>2 DEF Shift, Others, Alike, Leaving, Closing, Putting
      <4> QED
          BY <4>1, <4>2
    <3>2. ASSUME NEW f \in 1..NFILE PROVE Closers(f)' = Closers(f) /\ Descs(f)' = Descs(f)
        BY <3>1 DEF Closers, Descs
    <3>3. ASSUME NEW f \in 1..NFILE
          PROVE  /\ file'[f].count = Cardinality(Descs(f)') + Cardinality(Closers(f)')
                 /\ file'[f].count > 0 => file'[f].inode # 0
        BY <3>2 DEF Rest, FilesOK
    <3>4. ASSUME NEW q \in Procs, Closing(u'[q])
          PROVE  file'[u'[q].fd].count = 1 /\ file'[u'[q].fd].inode = u'[q].slot
        BY <3>1, <3>4 DEF Rest, FilesOK
    <3>5. ASSUME NEW q \in Procs, Leaving(u'[q]) PROVE \A d \in Fds : ofile'[q][d] = 0
        BY <3>1, <3>5 DEF Rest, FilesOK
    <3> QED
        BY <3>3, <3>4, <3>5 DEF FilesOK
  <2>7. ~Sole(r)
      BY <2>1 DEF Sole
  <2> QED
      BY <1>1, <1>2, <2>1, <2>3, <2>5, <2>6, <2>7
<1> QED
    BY <1>5, <1>6

LEMMA IputSharedInv ==
    ASSUME TypeOK, Rest, NEW p \in Procs, IputShared(p) PROVE Inv'
<1>1. /\ u[p].pc = "iput" /\ cpu \in {p, NoProc}
      /\ UNCHANGED <<dino, dir, super, files, halted, stuck, calls>>
    BY DEF IputShared, At
<1>2. /\ RestTypes /\ Users /\ inode \in [Slots -> IRec]
    BY Fitting
<1>3. PICK s \in Slots : s = u[p].slot /\ inode[s].count \in Nat /\ inode[s].count >= 1
    BY <1>1, Fitting, Holder, OneHolder DEF Holding, WithSlot, Rest
<1>4. /\ inode[s].count # 1 /\ inode' = [Unlock(inode, s) EXCEPT ![s].count = @ - 1]
      /\ GoAndWake(p, s, After(u[p]))
    BY <1>3 DEF IputShared
<1>5. PICK r : r = After(u[p])
    OBVIOUS
<1>6. Shift(p, r)
    BY <1>1, <1>2, <1>4, <1>5, WakeShift DEF files
<1>7. /\ inode' \in [Slots -> IRec]
      /\ \A x \in Slots : x # s => inode'[x] = inode[x]
      /\ inode'[s].count = inode[s].count - 1 /\ inode'[s].num = inode[s].num
      /\ inode'[s].mode = inode[s].mode
  <2>1. PICK t \in [Slots -> IRec] : t = Unlock(inode, s)
      BY <1>2, UnlockTable
  <2>2. /\ \A x \in Slots : x # s => t[x] = inode[x]
        /\ t[s].count = inode[s].count /\ t[s].num = inode[s].num /\ t[s].mode = inode[s].mode
      BY <1>2, <2>1 DEF Unlock, IRec
  <2>3. PICK n \in Nat : n = inode[s].count - 1
      BY <1>3
  <2>4. inode' = [t EXCEPT ![s].count = n]
    <3>1. t[s].count - 1 = n
        BY <2>2, <2>3
    <3> QED
        BY <1>4, <2>1, <3>1
  <2>5. PICK e : e = [t[s] EXCEPT !.count = n]
      OBVIOUS
  <2>6. e \in IRec /\ e.count = n /\ e.num = t[s].num /\ e.mode = t[s].mode
      BY <1>3, <2>1, <2>5 DEF IRec
  <2>7. inode' = [t EXCEPT ![s] = e]
      BY <2>4, <2>5
  <2>8. inode' \in [Slots -> IRec] /\ inode'[s] = e
           /\ \A x \in Slots : x # s => inode'[x] = t[x]
      BY <1>3, <2>1, <2>6, <2>7
  <2> QED
      BY <2>2, <2>3, <2>6, <2>8
<1>8. /\ Fits(r, cdir'[p]) /\ ~Sole(r) /\ r.pc \notin {"updwrite", "scan"}
      /\ FilesOK' /\ Counted' /\ Execs'
    BY <1>1, <1>3, <1>5, <1>6, <1>7, PutStep DEF Putting, files, super
<1>9. Alone(p, r, s)
  <2>1. \A q \in Procs : Sole(u[q]) => u[q].slot # s
      BY <1>4, SoleLocked
  <2>2. inode'[s].count > 0
      BY <1>3, <1>4, <1>7
  <2>3. inode'[s].num # 0 /\ \A x \in Slots : x # s => inode[x].num # inode'[s].num
      BY <1>3, <1>7 DEF Rest, Unique, SlotsFree
  <2>4. inode'[s].mode = "dir" => inode'[s].num \in DirInos
      BY <1>7 DEF Rest, Dirs
  <2> QED
      BY <1>7, <1>8, <2>1, <2>2, <2>3, <2>4 DEF Alone
<1>10. RestTypes'
    BY <1>1, <1>2, <1>7 DEF RestTypes, super
<1>11. /\ file' \in [1..NFILE -> [count : Nat, inode : 0..NINODE]]
       /\ ofile' \in [Procs -> [Fds -> 0..NFILE]] /\ stuck' \in Seq(Slots)
             /\ execnt' \in 0..NEXEC
       /\ cdir' \in [Procs -> Slots] /\ dir' = dir
       /\ \A i \in Ino : dino'[i].mode = "dir" => i \in DirInos
    BY <1>1 DEF TypeOK, files, super, Rest, Dirs
<1> QED
    BY <1>6, <1>8, <1>9, <1>10, <1>11, SlotInv

\* The last iput empties the slot.
LEMMA PutAwayInv ==
    ASSUME TypeOK, Rest, NEW p \in Procs, NEW s \in Slots, s = u[p].slot, u[p].pc \in Putting,
           cpu \in {p, NoProc}, inode[s].count = 1, inode' = [inode EXCEPT ![s] = Free],
           GoAndWake(p, s, After(u[p])), UNCHANGED <<dir, super, files, stuck>>,
           RestTypes', \A i \in Ino : dino'[i].mode = "dir" => i \in DirInos,
           \A q \in Procs : u[q].pc = "updwrite" => u[q].off # s
    PROVE  Inv'
<1>1. /\ Users /\ inode \in [Slots -> IRec] /\ inode' \in [Slots -> IRec] /\ Has(p, s)
  <2>1. Has(p, s)
      BY Fitting, Holder, Sizes DEF Slots, Putting
  <2> QED
      BY <2>1, Fitting DEF RestTypes
<1>2. PICK r : r = After(u[p])
    OBVIOUS
<1>3. Shift(p, r)
    BY <1>1, <1>2, WakeShift DEF files
<1>4. /\ \A x \in Slots : x # s => inode'[x] = inode[x]
      /\ inode'[s] = Free /\ inode'[s].count = inode[s].count - 1
    BY <1>1 DEF Free
<1>5. /\ Fits(r, cdir'[p]) /\ ~Sole(r) /\ r.pc \notin {"updwrite", "scan"}
      /\ FilesOK' /\ Counted' /\ Execs'
    BY <1>1, <1>2, <1>3, <1>4, PutStep DEF files, super
<1>6. ASSUME NEW q \in Procs, q # p
      PROVE  (Sole(u[q]) => u[q].slot # s) /\ (u[q].pc = "scan" => u[q].slot # s)
  <2>1. Sole(u[q]) => u[q].slot # s
      BY <1>1, <1>6, NobodyElse
  <2>2. ASSUME u[q].pc = "scan", u[q].slot = s PROVE FALSE
    <3>1. Has(q, s)
        BY <1>1, <2>2, Sizes, Holder DEF Slots
    <3>2. inode[s].count >= 2
        BY <1>1, <1>6, <3>1, TwoHolders DEF Rest
    <3> QED
        BY <3>2
  <2> QED
      BY <2>1, <2>2
<1>7. Alone(p, r, s)
  <2>1. inode'[s].mode # "dir"
      BY <1>4 DEF Free
  <2> QED
      BY <1>4, <1>5, <1>6, <2>1 DEF Alone
<1>8. /\ file' \in [1..NFILE -> [count : Nat, inode : 0..NINODE]]
      /\ ofile' \in [Procs -> [Fds -> 0..NFILE]] /\ stuck' \in Seq(Slots)
            /\ execnt' \in 0..NEXEC
      /\ cdir' \in [Procs -> Slots] /\ dir' = dir
    BY DEF TypeOK, files, super
<1> QED
    BY <1>3, <1>5, <1>7, <1>8, SlotInv

LEMMA FreeType == Free \in IRec
<1>1. 0 \in 0..NI /\ 0 \in Nat /\ 0 \in Int /\ "none" \in Mode
    BY Sizes DEF Mode
<1> QED
    BY <1>1 DEF Free, IRec

LEMMA IputDoneInv ==
    ASSUME TypeOK, Rest, NEW p \in Procs, IputDone(p) PROVE Inv'
<1>1. /\ u[p].pc = "iupdat" /\ cpu \in {p, NoProc}
      /\ UNCHANGED <<dir, super, files, halted, stuck, calls>>
    BY DEF IputDone, At
<1>2. /\ RestTypes /\ inode \in [Slots -> IRec] /\ Sole(u[p])
    BY <1>1, Fitting DEF Sole
<1>3. PICK s \in Slots : s = u[p].slot /\ inode[s].count = 1
                         /\ \A q \in Procs : u[q].pc = "updwrite" => u[q].off # s
  <2>1. u[p].slot \in Slots
      BY <1>1, Fitting, Holder DEF Holding, WithSlot
  <2> QED
      BY <1>2, <2>1 DEF Rest, Exclusive
<1>4. /\ Iupdat(s) /\ inode' = [inode EXCEPT ![s] = Free] /\ GoAndWake(p, s, After(u[p]))
    BY <1>3 DEF IputDone
<1>5. dino' \in [Ino -> DRec] /\ \A i \in Ino : dino'[i].mode = "dir" => i \in DirInos
    BY <1>4, IupdatTypes
<1>6. RestTypes'
  <2>1. inode' \in [Slots -> IRec]
      BY <1>2, <1>4, FreeType
  <2> QED
      BY <1>1, <1>2, <1>5, <2>1 DEF RestTypes, super
<1> QED
    BY <1>1, <1>3, <1>4, <1>5, <1>6, PutAwayInv DEF Putting

LEMMA IputLastInv ==
    ASSUME TypeOK, Rest, NEW p \in Procs, IputLast(p) PROVE Inv'
<1>1. /\ u[p].pc = "iput" /\ cpu \in {p, NoProc}
      /\ UNCHANGED <<dino, dir, super, files, stuck, calls>>
    BY DEF IputLast, At
<1>2. /\ RestTypes /\ Users /\ inode \in [Slots -> IRec]
    BY Fitting
<1>3. PICK s \in Slots : s = u[p].slot /\ Has(p, s)
    BY <1>1, Fitting, Holder DEF Holding, WithSlot
<1>4. /\ inode[s].count = 1
      /\ halted' = \E q \in Procs : u[q].pc = "updwrite" /\ u[q].off = s
    BY <1>3 DEF IputLast
<1>5. halted' \in BOOLEAN
    BY <1>4
<1>6. \A i \in Ino : dino'[i].mode = "dir" => i \in DirInos
    BY <1>1 DEF Rest, Dirs
<1>7. CASE inode' = [inode EXCEPT ![s] = Free] /\ GoAndWake(p, s, After(u[p]))
  <2>1. RestTypes'
    <3>1. inode' \in [Slots -> IRec]
        BY <1>2, <1>7, FreeType
    <3> QED
        BY <1>1, <1>2, <1>5, <3>1 DEF RestTypes, super
  <2>2. CASE halted'
    <3>1. PICK r : r = After(u[p])
        OBVIOUS
    <3>2. cpu' = CpuAfter(p, r) /\ stuck' \in Seq(Slots)
        BY <1>1, <1>7, <3>1 DEF GoAndWake, TypeOK
    <3> QED
        BY <1>1, <2>1, <2>2, <3>2, HaltedInv DEF super
  <2>3. CASE ~halted'
      BY <1>1, <1>3, <1>4, <1>6, <1>7, <2>1, <2>3, PutAwayInv DEF Putting
  <2> QED
      BY <2>2, <2>3
<1>8. ASSUME NEW l \in {"itrunc", "iupdat"}, inode' = [inode EXCEPT ![s].lock = TRUE],
             Go(p, [u[p] EXCEPT !.pc = l])
      PROVE  Inv'
  <2>1. /\ inode' \in [Slots -> IRec]
        /\ \A x \in Slots : x # s => inode'[x] = inode[x]
        /\ inode'[s].count = 1 /\ inode'[s].lock
        /\ inode'[s].num = inode[s].num /\ inode'[s].mode = inode[s].mode
      BY <1>2, <1>4, <1>8 DEF IRec
  <2>2. RestTypes'
      BY <1>1, <1>2, <1>5, <2>1 DEF RestTypes, super
  <2>3. PICK c \in Slots : c = cdir[p] /\ cdir'[p] = c
      BY <1>1, Fitting DEF files
  <2>4. PICK a : a = u[p]
      OBVIOUS
  <2>5. PICK r : r = [a EXCEPT !.pc = l]
      OBVIOUS
  <2>6. Fits(a, c) /\ a.pc = "iput"
      BY <1>1, <2>3, <2>4, Fitting
  <2>7. /\ Fits(r, c) /\ (\A x \in Slots : Holds(r, c, x) = Holds(a, c, x))
        /\ Calm(a, r) /\ Sole(r) /\ r.slot = a.slot /\ r.pc \notin {"updwrite", "scan"}
      BY <2>5, <2>6, IputGoesOn
  <2>8. CASE halted'
    <3>1. cpu' = CpuAfter(p, r) /\ stuck' \in Seq(Slots)
        BY <1>1, <1>8, <2>4, <2>5 DEF Go, TypeOK
    <3> QED
        BY <1>1, <2>2, <2>8, <3>1, HaltedInv DEF super
  <2>9. CASE ~halted'
    <3>1. Shift(p, r)
        BY <1>1, <1>2, <1>8, <2>4, <2>5, GoShift DEF files
    <3>2. FilesOK' /\ \A x \in Slots : FileRefs(x)' = FileRefs(x)
        BY <1>1, <2>4, <2>7, <3>1, FilesStep DEF Rest, files
    <3>3. Execs'
        BY <1>1, <2>4, <2>7, <3>1, ExecsStep DEF Rest, Calm, super
    <3>4. Counted'
      <4>1. \A x \in Slots : inode'[x].count = inode[x].count
          BY <1>4, <2>1
      <4>2. \A x \in Slots : Holds(r, cdir'[p], x) = Holds(u[p], cdir[p], x)
          BY <2>3, <2>4, <2>7
      <4> QED
          BY <1>1, <3>1, <3>2, <4>1, <4>2, EvenFiles
    <3>5. Alone(p, r, s)
      <4>1. ASSUME NEW q \in Procs, q # p PROVE Sole(u[q]) => u[q].slot # s
          BY <1>3, <4>1, NobodyElse
      <4>2. \A q \in Procs : u[q].pc = "updwrite" => u[q].off # s
          BY <1>4, <2>9
      <4>3. inode'[s].num # 0 /\ \A x \in Slots : x # s => inode[x].num # inode'[s].num
          BY <1>4, <2>1 DEF Rest, Unique, SlotsFree
      <4>4. inode'[s].mode = "dir" => inode'[s].num \in DirInos
          BY <2>1 DEF Rest, Dirs
      <4>5. r.slot = s
          BY <1>3, <2>4, <2>7
      <4> QED
          BY <2>1, <4>1, <4>2, <4>3, <4>4, <4>5 DEF Alone
    <3>6. /\ file' \in [1..NFILE -> [count : Nat, inode : 0..NINODE]]
          /\ ofile' \in [Procs -> [Fds -> 0..NFILE]] /\ stuck' \in Seq(Slots)
          /\ execnt' \in 0..NEXEC /\ cdir' \in [Procs -> Slots] /\ dir' = dir
        BY <1>1 DEF TypeOK, files, super
    <3>7. Fits(r, cdir'[p]) /\ r.pc \notin {"updwrite", "scan"}
        BY <2>3, <2>7
    <3> QED
        BY <1>6, <2>2, <3>1, <3>2, <3>3, <3>4, <3>5, <3>6, <3>7, SlotInv
  <2> QED
      BY <2>8, <2>9
<1>9. \/ inode' = [inode EXCEPT ![s] = Free] /\ GoAndWake(p, s, After(u[p]))
      \/ \E l \in {"itrunc", "iupdat"} :
            inode' = [inode EXCEPT ![s].lock = TRUE] /\ Go(p, [u[p] EXCEPT !.pc = l])
    BY <1>3 DEF IputLast
<1> QED
    BY <1>7, <1>8, <1>9

-----------------------------------------------------------------------------
(* The file table.                                                          *)

\* Only the process that runs can be between the iput and the count of close.
LEMMA NobodyCloses ==
    ASSUME Parked, NEW p \in Procs, cpu \in {p, NoProc}, NEW q \in Procs, q # p
    PROVE  u[q].pc # "closed"
BY NamesAssumption DEF Parked, Sleeps

LEMMA NoPut ==
    ASSUME Parked, NEW p \in Procs, NEW r, Shift(p, r)
    PROVE  /\ \A q \in Procs : q # p => u[q].pc # "closed" /\ u'[q].pc # "closed"
           /\ u[p].pc # "closed" => \A f : ~Put(f)
           /\ r.pc # "closed" => \A f : ~Put(f)'
<1>1. ASSUME NEW q \in Procs, q # p PROVE u[q].pc # "closed" /\ u'[q].pc # "closed"
  <2>1. u[q].pc # "closed"
      BY <1>1, NobodyCloses DEF Shift
  <2> QED
      BY <1>1, <2>1 DEF Shift, Others, Alike
<1>2. u'[p] = r
    BY DEF Shift
<1> QED
    BY <1>1, <1>2 DEF Put

\* A descriptor changes.
LEMMA DescsStep ==
    ASSUME TypeOK, NEW p \in Procs, NEW d \in Fds, NEW g \in 0..NFILE,
           ofile' = [ofile EXCEPT ![p][d] = g], NEW x
    PROVE  /\ Cardinality(Descs(x)) \in Nat /\ Cardinality(Descs(x)') \in Nat
           /\ Cardinality(Descs(x)') = Cardinality(Descs(x)) + One(x, g) - One(x, ofile[p][d])
<1>1. PICK e : e = <<p, d>>
    OBVIOUS
<1>2. e \in Procs \X Fds /\ e[1] = p /\ e[2] = d
    BY <1>1
<1>3. ofile'[p][d] = g
    BY DEF TypeOK
<1>4. ASSUME NEW y \in Procs \X Fds, y # e PROVE ofile'[y[1]][y[2]] = ofile[y[1]][y[2]]
  <2>1. y[1] \in Procs /\ y[2] \in Fds /\ (y[1] # p \/ y[2] # d)
      BY <1>1, <1>4
  <2> QED
      BY <2>1 DEF TypeOK
<1>5. Descs(x)' \ {e} = Descs(x) \ {e}
    BY <1>4 DEF Descs
<1>6. (e \in Descs(x)' <=> x = g) /\ (e \in Descs(x) <=> x = ofile[p][d])
    BY <1>2, <1>3 DEF Descs
<1>7. IsFiniteSet(Descs(x))
    BY FiniteDescs DEF Descs
<1>8. /\ Cardinality(Descs(x)) \in Nat /\ Cardinality(Descs(x)') \in Nat
      /\ Cardinality(Descs(x)') = Cardinality(Descs(x)) + B(e \in Descs(x)') - B(e \in Descs(x))
    BY <1>5, <1>7, CardStep
<1> QED
    BY <1>6, <1>8 DEF B, One

LEMMA ClosersStep ==
    ASSUME NEW p \in Procs, NEW r, Shift(p, r), NEW x
    PROVE  /\ Cardinality(Closers(x)) \in Nat /\ Cardinality(Closers(x)') \in Nat
           /\ Cardinality(Closers(x)') = Cardinality(Closers(x)) + B(r.fd = x) - B(u[p].fd = x)
<1>1. Closers(x)' \ {p} = Closers(x) \ {p}
    BY DEF Closers, Shift, Others, Alike
<1>2. (p \in Closers(x)' <=> r.fd = x) /\ (p \in Closers(x) <=> u[p].fd = x)
    BY DEF Closers, Shift
<1>3. IsFiniteSet(Closers(x))
    BY FiniteProcs DEF Closers
<1>4. /\ Cardinality(Closers(x)) \in Nat /\ Cardinality(Closers(x)') \in Nat
      /\ Cardinality(Closers(x)')
           = Cardinality(Closers(x)) + B(p \in Closers(x)') - B(p \in Closers(x))
    BY <1>1, <1>3, CardStep
<1> QED
    BY <1>2, <1>4 DEF B

\* What a step of p may do to the files.
LEMMA FilesMoved ==
    ASSUME TypeOK, Rest, NEW p \in Procs, NEW r, Shift(p, r),
           \A f \in 1..NFILE : file'[f].count = Cardinality(Descs(f)') + Cardinality(Closers(f)'),
           \A f \in 1..NFILE : file'[f].count > 0 => file'[f].inode # 0,
           \A q \in Procs : q # p => ofile'[q] = ofile[q],
           \A q \in Procs : q # p /\ Closing(u[q]) => file'[u[q].fd] = file[u[q].fd],
           Closing(r) => file'[r.fd].count = 1 /\ file'[r.fd].inode = r.slot,
           Leaving(r) => \A d \in Fds : ofile'[p][d] = 0
    PROVE  FilesOK'
<1>1. ASSUME NEW q \in Procs, Closing(u'[q])
      PROVE  file'[u'[q].fd].count = 1 /\ file'[u'[q].fd].inode = u'[q].slot
  <2>1. CASE q = p
      BY <1>1, <2>1 DEF Shift
  <2>2. CASE q # p
    <3>1. u'[q] = u[q]
        BY <1>1, <2>2 DEF Shift, Others, Alike, Closing, Putting
    <3> QED
        BY <1>1, <2>2, <3>1 DEF Rest, FilesOK
  <2> QED
      BY <2>1, <2>2
<1>2. ASSUME NEW q \in Procs, Leaving(u'[q]) PROVE \A d \in Fds : ofile'[q][d] = 0
  <2>1. CASE q = p
      BY <1>2, <2>1 DEF Shift
  <2>2. CASE q # p
    <3>1. u'[q] = u[q]
        BY <1>2, <2>2 DEF Shift, Others, Alike, Leaving, Putting
    <3> QED
        BY <1>2, <2>2, <3>1 DEF Rest, FilesOK
  <2> QED
      BY <2>1, <2>2
<1> QED
    BY <1>1, <1>2 DEF FilesOK

\* Unlocking a slot that p has.
LEMMA UnlockAlone ==
    ASSUME TypeOK, Rest, NEW p \in Procs, NEW s \in Slots, Has(p, s), ~Sole(u[p]),
           inode' = Unlock(inode, s), NEW r, ~Sole(r)
    PROVE  /\ Alone(p, r, s) /\ inode' \in [Slots -> IRec]
           /\ \A x \in Slots : inode'[x].count = inode[x].count
           /\ \A x \in Slots : inode'[x].num = inode[x].num
           /\ \A x \in Slots : inode'[x].mode = inode[x].mode
           /\ \A x \in Slots : x # s => inode'[x] = inode[x]
<1>1. inode \in [Slots -> IRec] /\ inode' \in [Slots -> IRec]
    BY Fitting, UnlockTable
<1>2. /\ \A x \in Slots : x # s => inode'[x] = inode[x]
      /\ inode'[s].count = inode[s].count /\ inode'[s].num = inode[s].num
      /\ inode'[s].mode = inode[s].mode
    BY <1>1 DEF Unlock, IRec
<1>3. inode[s].count \in Nat /\ inode[s].count >= 1
    BY OneHolder DEF Rest
<1>4. ASSUME NEW q \in Procs PROVE Sole(u[q]) => u[q].slot # s
    BY NobodyElse
<1>5. inode'[s].num # 0 /\ \A x \in Slots : x # s => inode[x].num # inode'[s].num
    BY <1>2, <1>3 DEF Rest, Unique, SlotsFree
<1>6. inode'[s].mode = "dir" => inode'[s].num \in DirInos
    BY <1>2 DEF Rest, Dirs
<1>7. Alone(p, r, s)
    BY <1>2, <1>3, <1>4, <1>5, <1>6 DEF Alone
<1> QED
    BY <1>1, <1>2, <1>7

LEMMA ChdirSetInv ==
    ASSUME TypeOK, Rest, NEW p \in Procs, ChdirSet(p) PROVE Inv'
<1>1. /\ u[p].pc = "chdir" /\ cpu \in {p, NoProc}
      /\ UNCHANGED <<dino, dir, super, file, ofile, halted, stuck, calls>>
    BY DEF ChdirSet, At
<1>2. RestTypes /\ Users /\ ~Sole(u[p]) /\ cdir \in [Procs -> Slots]
    BY <1>1, Fitting DEF Sole, TypeOK
<1>3. PICK s \in Slots : s = u[p].ip /\ Has(p, s)
    BY <1>1, Fitting, Holder DEF Holding, WithIp
<1>4. cdir' = [cdir EXCEPT ![p] = s] /\ inode' = Unlock(inode, s) /\ GoAndWake(p, s, Idle)
    BY <1>3 DEF ChdirSet
<1>5. cdir' \in [Procs -> Slots] /\ cdir'[p] = s /\ \A q \in Procs : q # p => cdir'[q] = cdir[q]
    BY <1>2, <1>4
<1>6. PICK c \in Slots : c = cdir[p]
    BY <1>2
<1>7. PICK a, r : a = u[p] /\ r = Idle
    OBVIOUS
<1>8. Fits(a, c) /\ a.pc = "chdir" /\ r = Idle
    BY <1>1, <1>6, <1>7, Fitting
<1>9. /\ Fits(r, a.ip) /\ (\A x \in Slots : Holds(r, a.ip, x) = Holds(a, c, x))
      /\ Calm(a, r) /\ ~Sole(r) /\ r.pc \notin {"updwrite", "scan"}
    BY <1>8, ChdirDone
<1>10. Shift(p, r)
    BY <1>1, <1>2, <1>4, <1>5, <1>7, WakeShift
<1>11. /\ Alone(p, r, s) /\ inode' \in [Slots -> IRec]
       /\ \A x \in Slots : inode'[x].count = inode[x].count
    BY <1>2, <1>3, <1>4, <1>9, UnlockAlone
<1>12. FilesOK' /\ \A x \in Slots : FileRefs(x)' = FileRefs(x)
    BY <1>1, <1>7, <1>9, <1>10, FilesStep DEF Rest
<1>13. Execs'
    BY <1>1, <1>7, <1>9, <1>10, ExecsStep DEF Rest, Calm, super
<1>14. \A x \in Slots : Holds(r, cdir'[p], x) = Holds(u[p], cdir[p], x)
    BY <1>3, <1>5, <1>6, <1>7, <1>9
<1>15. Counted'
    BY <1>1, <1>10, <1>11, <1>12, <1>14, EvenFiles
<1>16. RestTypes'
    BY <1>1, <1>2, <1>11 DEF RestTypes, super
<1>17. /\ file' \in [1..NFILE -> [count : Nat, inode : 0..NINODE]]
       /\ ofile' \in [Procs -> [Fds -> 0..NFILE]] /\ stuck' \in Seq(Slots)
             /\ execnt' \in 0..NEXEC
       /\ dir' = dir /\ \A i \in Ino : dino'[i].mode = "dir" => i \in DirInos
    BY <1>1 DEF TypeOK, super, Rest, Dirs
<1>18. Fits(r, cdir'[p])
    BY <1>3, <1>5, <1>7, <1>9
<1> QED
    BY <1>5, <1>9, <1>10, <1>11, <1>12, <1>13, <1>15, <1>16, <1>17, <1>18, SlotInv

\* open1 finds no descriptor or file, or openi fails.
LEMMA OpenFails ==
    ASSUME TypeOK, Rest, NEW p \in Procs, u[p].pc = "open1", cpu \in {p, NoProc},
           inode' = Unlock(inode, u[p].slot), GoAndWake(p, u[p].slot, GiveUp(u[p])),
           UNCHANGED <<dino, dir, super, files, halted, stuck, calls>>
    PROVE  Inv'
<1>1. RestTypes /\ Users /\ ~Sole(u[p]) /\ u[p] \in URec
    BY Fitting DEF Sole
<1>2. PICK s \in Slots : s = u[p].slot /\ Has(p, s)
    BY Fitting, Holder DEF Holding, WithSlot
<1>3. PICK r : r = GiveUp(u[p])
    OBVIOUS
<1>4. Keeps(u[p], r, cdir[p])
    BY <1>3, Fitting, GivingUp
<1>5. r.pc # "scan" /\ ~Sole(r)
    BY <1>1, <1>3 DEF URec, GiveUp, CallIput, Sole
<1>6. Shift(p, r)
    BY <1>1, <1>3, WakeShift DEF files
<1>7. /\ inode' \in [Slots -> IRec]
      /\ \A x \in Slots : inode'[x].count = inode[x].count
      /\ \A x \in Slots : inode'[x].num = inode[x].num
      /\ \A x \in Slots : inode'[x].mode = inode[x].mode
      /\ \A x \in Slots : x # s => inode'[x] = inode[x]
    BY <1>1, <1>2, <1>5, UnlockAlone
<1>8. inode[s].count # 0
    BY <1>2, OneHolder DEF Rest
<1>9. Tabled(p)
    BY <1>2, <1>7, <1>8 DEF Tabled
<1>10. RestTypes'
    BY <1>1, <1>7 DEF RestTypes, super
<1> QED
    BY <1>1, <1>4, <1>5, <1>6, <1>7, <1>9, <1>10, TableInv DEF Rest, Dirs, super

\* falloc finds descriptor d and file f.
LEMMA OpenSucceeds ==
    ASSUME TypeOK, Rest, NEW p \in Procs, u[p].pc = "open1", cpu \in {p, NoProc},
           inode' = Unlock(inode, u[p].slot), GoAndWake(p, u[p].slot, Idle),
           NEW d \in Fds, ofile[p][d] = 0, NEW f \in 1..NFILE, file[f].count = 0,
           ofile' = [ofile EXCEPT ![p][d] = f],
           file' = [file EXCEPT ![f] = [count |-> 1, inode |-> u[p].slot]],
           UNCHANGED <<dino, dir, super, cdir, halted, stuck, calls>>
    PROVE  Inv'
<1>1. RestTypes /\ Users /\ ~Sole(u[p]) /\ Parked
    BY Fitting DEF Sole, Rest
<1>2. PICK s \in Slots : s = u[p].slot /\ Has(p, s)
    BY Fitting, Holder DEF Holding, WithSlot
<1>3. PICK c \in Slots : c = cdir[p] /\ c = cdir'[p]
    BY Fitting
<1>4. PICK a, r : a = u[p] /\ r = Idle
    OBVIOUS
<1>5. Fits(a, c) /\ a.pc = "open1" /\ r = Idle
    BY <1>3, <1>4, Fitting
<1>6. /\ Fits(r, c) /\ Gives(a, c, r, c, a.slot)
      /\ Calm(a, r) /\ ~Sole(r) /\ r.pc \notin {"updwrite", "scan"}
    BY <1>5, OpenDone
<1>7. Shift(p, r)
    BY <1>1, <1>4, WakeShift
<1>8. /\ Alone(p, r, s) /\ inode' \in [Slots -> IRec]
      /\ \A x \in Slots : inode'[x].count = inode[x].count
    BY <1>1, <1>2, <1>6, UnlockAlone
<1>9. /\ file'[f].count = 1 /\ file'[f].inode = s
      /\ \A x \in 1..NFILE : x # f => file'[x] = file[x]
      /\ file' \in [1..NFILE -> [count : Nat, inode : 0..NINODE]]
  <2>1. file \in [1..NFILE -> [count : Nat, inode : 0..NINODE]]
      BY DEF TypeOK
  <2>2. PICK e \in [count : Nat, inode : 0..NINODE] : e = [count |-> 1, inode |-> s]
    <3>1. s \in 0..NINODE
        BY <1>2, Fitting DEF URec
    <3> QED
        BY <3>1
  <2>3. file' = [file EXCEPT ![f] = e] /\ e.count = 1 /\ e.inode = s
      BY <1>2, <2>2
  <2> QED
      BY <2>1, <2>2, <2>3
<1>10. ofile' \in [Procs -> [Fds -> 0..NFILE]] /\ \A q \in Procs : q # p => ofile'[q] = ofile[q]
  <2>1. f \in 0..NFILE
      BY Sizes
  <2> QED
      BY <2>1 DEF TypeOK
<1>11. Closers(f) = {}
  <2>1. IsFiniteSet(Descs(f)) /\ IsFiniteSet(Closers(f))
      BY FiniteDescs, FiniteProcs DEF Descs, Closers
  <2>2. Cardinality(Descs(f)) \in Nat /\ Cardinality(Closers(f)) \in Nat
      BY <2>1, FS_CardinalityType
  <2>3. Cardinality(Closers(f)) = 0
      BY <2>2 DEF Rest, FilesOK
  <2> QED
      BY <2>1, <2>3, FS_EmptySet
<1>12. ASSUME NEW x \in 1..NFILE
       PROVE  file'[x].count = Cardinality(Descs(x)') + Cardinality(Closers(x)')
  <2>1. f \in 0..NFILE /\ x # 0
      BY Sizes
  <2>2. /\ Cardinality(Descs(x)) \in Nat /\ Cardinality(Descs(x)') \in Nat
        /\ Cardinality(Descs(x)') = Cardinality(Descs(x)) + One(x, f) - One(x, 0)
    <3>1. PICK was : was = ofile[p][d]
        OBVIOUS
    <3>2. was = 0 /\ f \in 0..NFILE
        BY <2>1, <3>1
    <3>3. /\ Cardinality(Descs(x)) \in Nat /\ Cardinality(Descs(x)') \in Nat
          /\ Cardinality(Descs(x)') = Cardinality(Descs(x)) + One(x, f) - One(x, was)
        BY <2>1, <3>1, DescsStep
    <3> QED
        BY <3>2, <3>3
  <2>3. /\ Cardinality(Closers(x)) \in Nat
        /\ Cardinality(Closers(x)') = Cardinality(Closers(x)) + B(r.fd = x) - B(u[p].fd = x)
      BY <1>7, ClosersStep
  <2>4. r.fd = u[p].fd
      BY <1>4, <1>6 DEF Calm
  <2>5. file[x].count = Cardinality(Descs(x)) + Cardinality(Closers(x))
      BY DEF Rest, FilesOK
  <2>6. file'[x].count = file[x].count + One(x, f)
    <3>1. CASE x = f
        BY <1>9, <3>1 DEF One
    <3>2. CASE x # f
        BY <1>9, <2>2, <2>3, <2>5, <3>2 DEF One
    <3> QED
        BY <3>1, <3>2
  <2> QED
      BY <2>1, <2>2, <2>3, <2>4, <2>5, <2>6 DEF One, B
<1>13. FilesOK'
  <2>1. \A x \in 1..NFILE : file'[x].count > 0 => file'[x].inode # 0
      BY <1>2, <1>9, Sizes DEF Rest, FilesOK, Slots
  <2>2. ASSUME NEW q \in Procs, Closing(u[q]) PROVE file'[u[q].fd] = file[u[q].fd]
    <3>1. u[q].fd \in 1..NFILE /\ u[q].fd # f
        BY <1>11, <2>2, CloserRef DEF Rest, FileRefs, Closers
    <3> QED
        BY <1>9, <3>1
  <2>3. ~Closing(r) /\ ~Leaving(r)
      BY <1>4, <1>5, <1>6 DEF Calm, Closing, Leaving, Putting
  <2> QED
      BY <1>7, <1>10, <1>12, <2>1, <2>2, <2>3, FilesMoved
<1>14. ASSUME NEW x \in Slots PROVE inode'[x].count = Total(x)'
  <2>1. u[p].pc # "closed" /\ r.pc # "closed"
      BY <1>4, <1>6 DEF Calm
  <2>2. \A g : ~Put(g) /\ ~Put(g)'
      BY <1>1, <1>7, <2>1, NoPut
  <2>3. FileRefs(x)' \ {f} = FileRefs(x) \ {f} /\ f \notin FileRefs(x)
        /\ (f \in FileRefs(x)' <=> x = s)
      BY <1>9, <2>2 DEF FileRefs
  <2>4. PICK k \in Int : k = One(x, s)
      BY DEF One
  <2>5. /\ Cardinality(FileRefs(x)) \in Nat
        /\ Cardinality(FileRefs(x)')
             = Cardinality(FileRefs(x)) + B(f \in FileRefs(x)') - B(f \in FileRefs(x))
      BY <2>3, CardStep, RefSets
  <2>6. Cardinality(FileRefs(x)') = Cardinality(FileRefs(x)) + k
      BY <2>3, <2>4, <2>5 DEF B, One
  <2>7. Cardinality(StuckRefs(x)') = Cardinality(StuckRefs(x)) + 0 /\ 0 \in Int
    <3>1. StuckRefs(x)' = StuckRefs(x)
        BY DEF StuckRefs
    <3> QED
        BY <3>1, RefSets
  <2>8. inode'[x].count = inode[x].count + Holds(r, cdir'[p], x) - Holds(u[p], cdir[p],
              x) + k + 0
    <3>1. /\ inode[x].count \in Nat /\ Holds(a, c, x) \in Nat
          /\ Holds(r, c, x) = Holds(a, c, x) - One(x, a.slot)
        BY <1>6, Fitting DEF IRec, Holds, B, Gives
    <3>2. inode'[x].count = inode[x].count
        BY <1>8
    <3> QED
        BY <1>2, <1>3, <1>4, <2>4, <3>1, <3>2
  <2> QED
      BY <1>7, <2>6, <2>7, <2>8, TotalChange
<1>15. Counted'
    BY <1>14 DEF Counted
<1>16. Execs'
    BY <1>4, <1>6, <1>7, ExecsStep DEF Rest, Calm, super
<1>17. RestTypes'
    BY <1>1, <1>8 DEF RestTypes, super
<1>18. /\ stuck' \in Seq(Slots) /\ execnt' \in 0..NEXEC /\ cdir' \in [Procs -> Slots]
       /\ dir' = dir /\ \A i \in Ino : dino'[i].mode = "dir" => i \in DirInos
    BY DEF TypeOK, super, Rest, Dirs
<1>19. Fits(r, cdir'[p])
    BY <1>3, <1>6
<1> QED
    BY <1>6, <1>7, <1>8, <1>9, <1>10, <1>13, <1>15, <1>16, <1>17, <1>18, <1>19, SlotInv

LEMMA Open1Inv ==
    ASSUME TypeOK, Rest, NEW p \in Procs, Open1(p) PROVE Inv'
<1>1. /\ u[p].pc = "open1" /\ cpu \in {p, NoProc} /\ inode' = Unlock(inode, u[p].slot)
      /\ UNCHANGED <<dino, dir, super, cdir, halted, stuck, calls>>
    BY DEF Open1, At
<1>2. CASE GoAndWake(p, u[p].slot, GiveUp(u[p])) /\ UNCHANGED <<file, ofile>>
    BY <1>1, <1>2, OpenFails DEF files
<1>3. CASE /\ Ufalloc(p) # {} /\ Falloc # {}
           /\ ofile' = [ofile EXCEPT ![p][FirstOf(Ufalloc(p))] = FirstOf(Falloc)]
           /\ file' = [file EXCEPT ![FirstOf(Falloc)] = [count |-> 1, inode |-> u[p].slot]]
           /\ GoAndWake(p, u[p].slot, Idle)
  <2>1. PICK d, f : d = FirstOf(Ufalloc(p)) /\ f = FirstOf(Falloc)
      OBVIOUS
  <2>2. d \in Ufalloc(p) /\ f \in Falloc
    <3>1. Ufalloc(p) \in SUBSET Nat /\ Falloc \in SUBSET Nat
        BY DEF Ufalloc, Falloc, Fds
    <3> QED
        BY <1>3, <2>1, <3>1, LeastNatural
  <2>3. d \in Fds /\ ofile[p][d] = 0 /\ f \in 1..NFILE /\ file[f].count = 0
      BY <2>2 DEF Ufalloc, Falloc, Getf
  <2>4. /\ ofile' = [ofile EXCEPT ![p][d] = f]
        /\ file' = [file EXCEPT ![f] = [count |-> 1, inode |-> u[p].slot]]
      BY <1>3, <2>1
  <2> QED
      BY <1>1, <1>3, <2>3, <2>4, OpenSucceeds
<1> QED
    BY <1>2, <1>3 DEF Open1

-----------------------------------------------------------------------------
(* close, exit, exec.                                                       *)

LEMMA ExitCdirInv ==
    ASSUME TypeOK, Rest, NEW p \in Procs, ExitCdir(p) PROVE Inv'
<1>1. /\ u[p].pc = "exit" /\ cpu \in {p, NoProc} /\ Ufalloc(p) = Fds
      /\ Go(p, CallIput(u[p], cdir[p], "dead"))
      /\ UNCHANGED <<inode, dino, dir, super, files, halted, stuck, calls>>
    BY DEF ExitCdir, At
<1>2. PICK c \in Slots : c = cdir[p] /\ cdir'[p] = c
    BY <1>1, Fitting DEF files
<1>3. PICK a : a = u[p]
    OBVIOUS
<1>4. PICK r : r = CallIput(a, c, "dead")
    OBVIOUS
<1>5. Fits(a, c) /\ a.pc = "exit"
    BY <1>1, <1>2, <1>3, Fitting
<1>6. /\ Fits(r, c) /\ (\A x \in Slots : Holds(r, c, x) = Holds(a, c, x))
      /\ r.fd = a.fd /\ ~InExec(r) /\ ~InExec(a) /\ ~Closing(r) /\ ~Sole(r)
      /\ r.pc \notin {"closed", "updwrite", "scan"}
    BY <1>4, <1>5, ExitPuts
<1>7. Shift(p, r)
    BY <1>1, <1>2, <1>3, <1>4, Fitting, GoShift DEF files
<1>8. \A d \in Fds : ofile[p][d] = 0
    BY <1>1 DEF Ufalloc, Getf
<1>9. FilesOK' /\ \A x \in Slots : FileRefs(x)' = FileRefs(x)
    BY <1>1, <1>3, <1>5, <1>6, <1>7, <1>8, FilesKept DEF Rest, files
<1>10. Execs'
    BY <1>1, <1>3, <1>6, <1>7, ExecsStep DEF Rest, super
<1>11. Counted'
  <2>1. \A x \in Slots : Holds(r, cdir'[p], x) = Holds(u[p], cdir[p], x)
      BY <1>2, <1>3, <1>6
  <2> QED
      BY <1>1, <1>7, <1>9, <2>1, EvenFiles
<1>12. RestTypes'
    BY <1>1, Fitting DEF RestTypes, super
<1>13. /\ file' \in [1..NFILE -> [count : Nat, inode : 0..NINODE]]
       /\ ofile' \in [Procs -> [Fds -> 0..NFILE]] /\ stuck' \in Seq(Slots)
       /\ execnt' \in 0..NEXEC /\ cdir' \in [Procs -> Slots]
    BY <1>1 DEF TypeOK, files, super
<1>14. Fits(r, cdir'[p]) /\ ~Sole(r) /\ r.pc \notin {"updwrite", "scan"}
    BY <1>2, <1>6
<1> QED
    BY <1>1, <1>7, <1>9, <1>10, <1>11, <1>12, <1>13, <1>14, StillInv

\* exec waits, or has its turn.
LEMMA ExecGotInv ==
    ASSUME TypeOK, Rest, NEW p \in Procs, ExecGot(p) PROVE Inv'
<1>1. /\ u[p].pc = "got" /\ cpu \in {p, NoProc} /\ u[p].call = "exec"
      /\ UNCHANGED <<inode, dino, dir, s_inode, s_ilock, updlock, files, halted, stuck, calls>>
    BY DEF ExecGot, At
<1>2. PICK c \in Slots : c = cdir[p] /\ cdir'[p] = c
    BY <1>1, Fitting DEF files
<1>3. PICK a : a = u[p]
    OBVIOUS
<1>4. Fits(a, c) /\ a.pc = "got" /\ a.call = "exec" /\ a \in URec
    BY <1>1, <1>2, <1>3, Fitting
<1>5. CASE Go(p, [u[p] EXCEPT !.pc = "exwait"]) /\ UNCHANGED execnt
  <2>1. PICK r : r = [a EXCEPT !.pc = "exwait"]
      OBVIOUS
  <2>2. Keeps(a, r, c) /\ r.pc # "scan"
      BY <1>4, <2>1, ExecWait DEF URec
  <2> QED
      BY <1>1, <1>2, <1>3, <1>5, <2>1, <2>2, Fitting, PlainInv DEF RestTypes
<1>6. CASE /\ execnt < NEXEC /\ Go(p, [u[p] EXCEPT !.pc = "exbuf"]) /\ execnt' = execnt + 1
  <2>1. PICK r : r = [a EXCEPT !.pc = "exbuf"]
      OBVIOUS
  <2>2. /\ Fits(r, c) /\ (\A x \in Slots : Holds(r, c, x) = Holds(a, c, x))
        /\ r.fd = a.fd /\ r.fd = 0 /\ InExec(r) /\ ~InExec(a) /\ ~Closing(r) /\ ~Sole(r)
        /\ ~Leaving(r) /\ r.pc \notin {"closed", "updwrite", "scan"}
      BY <1>4, <2>1, ExecEnters
  <2>3. Shift(p, r)
      BY <1>1, <1>3, <1>6, <2>1, Fitting, GoShift DEF files
  <2>4. FilesOK' /\ \A x \in Slots : FileRefs(x)' = FileRefs(x)
      BY <1>1, <1>3, <1>4, <2>2, <2>3, FilesKept DEF Rest, files
  <2>5. Execs'
      BY <1>3, <1>6, <2>2, <2>3, InExecStep DEF Rest, Execs, B
  <2>6. Counted'
    <3>1. \A x \in Slots : Holds(r, cdir'[p], x) = Holds(u[p], cdir[p], x)
        BY <1>2, <1>3, <2>2
    <3> QED
        BY <1>1, <2>3, <2>4, <3>1, EvenFiles
  <2>7. RestTypes'
      BY <1>1, Fitting DEF RestTypes
  <2>8. /\ file' \in [1..NFILE -> [count : Nat, inode : 0..NINODE]]
        /\ ofile' \in [Procs -> [Fds -> 0..NFILE]] /\ stuck' \in Seq(Slots)
        /\ cdir' \in [Procs -> Slots]
      BY <1>1 DEF TypeOK, files
  <2>9. execnt' \in 0..NEXEC
    <3>1. NEXEC \in Nat
        BY NamesAssumption
    <3>2. execnt \in 0..NEXEC
        BY DEF TypeOK
    <3> QED
        BY <1>6, <3>1, <3>2
  <2>10. Fits(r, cdir'[p]) /\ ~Sole(r) /\ r.pc \notin {"updwrite", "scan"}
      BY <1>2, <2>2
  <2> QED
      BY <1>1, <2>3, <2>4, <2>5, <2>6, <2>7, <2>8, <2>9, <2>10, StillInv
<1>7. \/ Go(p, [u[p] EXCEPT !.pc = "exwait"]) /\ UNCHANGED execnt
      \/ execnt < NEXEC /\ Go(p, [u[p] EXCEPT !.pc = "exbuf"]) /\ execnt' = execnt + 1
    BY NamesAssumption DEF ExecGot, TypeOK
<1> QED
    BY <1>5, <1>6, <1>7

\* exec is done, and whoever waits for a turn looks again.
LEMMA ExecDoneInv ==
    ASSUME TypeOK, Rest, NEW p \in Procs, ExecDone(p) PROVE Inv'
<1>1. /\ u[p].pc = "exdone" /\ cpu \in {p, NoProc} /\ execnt' = execnt - 1 /\ cpu' = NoProc
      /\ u' = [q \in Procs |-> IF q = p THEN Idle
                               ELSE IF execnt >= NEXEC /\ u[q].pc = "exwait"
                               THEN [u[q] EXCEPT !.pc = "got"] ELSE u[q]]
      /\ UNCHANGED <<inode, dino, dir, s_inode, s_ilock, updlock, files, halted, stuck, calls>>
    BY DEF ExecDone, At
<1>2. PICK c \in Slots : c = cdir[p] /\ cdir'[p] = c
    BY <1>1, Fitting DEF files
<1>3. PICK a, r : a = u[p] /\ r = Idle
    OBVIOUS
<1>4. Fits(a, c) /\ a.pc = "exdone" /\ r = Idle
    BY <1>1, <1>2, <1>3, Fitting
<1>5. /\ Fits(r, c) /\ (\A x \in Slots : Holds(r, c, x) = Holds(a, c, x))
      /\ r.fd = a.fd /\ r.fd = 0 /\ ~InExec(r) /\ InExec(a) /\ ~Closing(r) /\ ~Sole(r)
      /\ ~Leaving(r) /\ r.pc \notin {"closed", "updwrite", "scan"}
    BY <1>4, ExecLeaves
<1>6. Shift(p, r)
  <2>1. ASSUME NEW q \in Procs, q # p PROVE Alike(u[q], u'[q], cdir[q])
    <3>1. Woken(u[q], u'[q])
        BY <1>1, <2>1 DEF Woken
    <3>2. Fits(u[q], cdir[q]) /\ cdir[q] \in Slots
        BY Fitting
    <3> QED
        BY <3>1, <3>2, WokenAlike
  <2>2. u' = [q \in Procs |-> u'[q]] /\ u'[p] = r
      BY <1>1, <1>3
  <2>3. cpu' = CpuAfter(p, r)
      BY <1>1, <1>3 DEF CpuAfter, Idle, Sleeps
  <2> QED
      BY <1>1, <2>1, <2>2, <2>3 DEF Shift, Others, files
<1>7. FilesOK' /\ \A x \in Slots : FileRefs(x)' = FileRefs(x)
    BY <1>1, <1>3, <1>4, <1>5, <1>6, FilesKept DEF Rest, files
<1>8. Execs' /\ execnt' \in 0..NEXEC
  <2>1. PICK n : n = Cardinality({q \in Procs : InExec(u'[q])})
      OBVIOUS
  <2>2. n \in Nat /\ n = execnt - 1
    <3>1. Cardinality({q \in Procs : InExec(u[q])}) = execnt /\ execnt \in 0..NEXEC
        BY DEF Rest, Execs, TypeOK
    <3>2. n = execnt - 1
      <4>1. /\ Cardinality({q \in Procs : InExec(u[q])}) \in Nat
            /\ n = Cardinality({q \in Procs : InExec(u[q])}) + B(InExec(r)) - B(InExec(u[p]))
          BY <1>6, <2>1, InExecStep
      <4>2. B(InExec(r)) = 0 /\ B(InExec(u[p])) = 1
          BY <1>3, <1>5 DEF B
      <4> QED
          BY <3>1, <4>1, <4>2
    <3>3. IsFiniteSet({q \in Procs : InExec(u'[q])})
        BY FiniteProcs
    <3>4. n \in Nat
        BY <2>1, <3>3, FS_CardinalityType
    <3> QED
        BY <3>2, <3>4
  <2> QED
      BY <1>1, <2>1, <2>2, NamesAssumption DEF Execs, TypeOK
<1>9. Counted'
  <2>1. \A x \in Slots : Holds(r, cdir'[p], x) = Holds(u[p], cdir[p], x)
      BY <1>2, <1>3, <1>5
  <2> QED
      BY <1>1, <1>6, <1>7, <2>1, EvenFiles
<1>10. RestTypes'
    BY <1>1, Fitting DEF RestTypes
<1>11. /\ file' \in [1..NFILE -> [count : Nat, inode : 0..NINODE]]
       /\ ofile' \in [Procs -> [Fds -> 0..NFILE]] /\ stuck' \in Seq(Slots)
       /\ cdir' \in [Procs -> Slots]
    BY <1>1 DEF TypeOK, files
<1>12. Fits(r, cdir'[p]) /\ ~Sole(r) /\ r.pc \notin {"updwrite", "scan"}
    BY <1>2, <1>5
<1> QED
    BY <1>1, <1>6, <1>7, <1>8, <1>9, <1>10, <1>11, <1>12, StillInv

\* closef of the last descriptor: the inode is put first.
LEMMA CloseLast ==
    ASSUME TypeOK, Rest, NEW p \in Procs, u[p].pc \in {"user", "exit"}, cpu \in {p, NoProc},
           NEW d \in Fds, ofile[p][d] # 0,
           file[ofile[p][d]].count = 1, ofile' = [ofile EXCEPT ![p][d] = 0],
           NEW r, Go(p, r), Fits(r, cdir[p]), Evens(u[p], cdir[p], r, cdir[p]),
           Closing(r), r.slot = file[ofile[p][d]].inode, r.fd = ofile[p][d], u[p].fd = 0,
           ~InExec(r), ~InExec(u[p]), r.pc = "iput",
           UNCHANGED <<inode, dino, dir, super, file, cdir, halted, stuck>>,
              calls' \in 0..MaxCalls
    PROVE  Inv'
<1>1. PICK f \in 1..NFILE : f = ofile[p][d] /\ file[f].count = 1
    BY OpenFile
<1>2. r.fd = f /\ u[p].fd = 0 /\ r.slot = file[f].inode
    BY <1>1
<1>3. Shift(p, r)
    BY Fitting, GoShift
<1>4. ASSUME NEW x \in 1..NFILE
      PROVE  file'[x].count = Cardinality(Descs(x)') + Cardinality(Closers(x)')
  <2>1. 0 \in 0..NFILE /\ x # 0 /\ f # 0
      BY Sizes
  <2>2. /\ Cardinality(Descs(x)) \in Nat /\ Cardinality(Descs(x)') \in Nat
        /\ Cardinality(Descs(x)') = Cardinality(Descs(x)) + One(x, 0) - One(x, f)
      BY <1>1, <2>1, DescsStep
  <2>3. /\ Cardinality(Closers(x)) \in Nat
        /\ Cardinality(Closers(x)') = Cardinality(Closers(x)) + B(r.fd = x) - B(u[p].fd = x)
      BY <1>3, ClosersStep
  <2>4. B(r.fd = x) = One(x, f) /\ B(u[p].fd = x) = 0 /\ One(x, 0) = 0
      BY <1>2, <2>1 DEF B, One
  <2>5. file'[x].count = Cardinality(Descs(x)) + Cardinality(Closers(x))
      BY DEF Rest, FilesOK
  <2> QED
      BY <2>2, <2>3, <2>4, <2>5 DEF One
<1>5. \A q \in Procs : q # p => ofile'[q] = ofile[q]
    BY DEF TypeOK
<1>6. FilesOK'
  <2>1. \A x \in 1..NFILE : file'[x].count > 0 => file'[x].inode # 0
      BY DEF Rest, FilesOK
  <2>2. Closing(r) => file'[r.fd].count = 1 /\ file'[r.fd].inode = r.slot
      BY <1>1, <1>2
  <2>3. ~Leaving(r)
      BY DEF Leaving, Closing
  <2> QED
      BY <1>3, <1>4, <1>5, <2>1, <2>2, <2>3, FilesMoved
<1>7. \A x \in Slots : FileRefs(x)' = FileRefs(x)
  <2>1. u[p].pc # "closed" /\ r.pc # "closed"
      OBVIOUS
  <2>2. \A g : ~Put(g) /\ ~Put(g)'
      BY <1>3, <2>1, NoPut DEF Rest
  <2> QED
      BY <2>2 DEF FileRefs
<1>8. Counted'
  <2>1. \A x \in Slots : Holds(r, cdir'[p], x) = Holds(u[p], cdir[p], x)
      BY DEF Evens
  <2> QED
      BY <1>3, <1>7, <2>1, EvenFiles
<1>9. Execs'
    BY <1>3, ExecsStep DEF Rest, super
<1>10. RestTypes'
    BY Fitting DEF RestTypes, super
<1>11. /\ file' \in [1..NFILE -> [count : Nat, inode : 0..NINODE]] /\ stuck' \in Seq(Slots)
       /\ execnt' \in 0..NEXEC /\ cdir' \in [Procs -> Slots]
    BY DEF TypeOK, super
<1>12. ofile' \in [Procs -> [Fds -> 0..NFILE]]
  <2>1. 0 \in 0..NFILE
      BY Sizes
  <2> QED
      BY <2>1 DEF TypeOK
<1>13. Fits(r, cdir'[p]) /\ ~Sole(r) /\ r.pc \notin {"updwrite", "scan"}
    BY DEF Sole
<1> QED
    BY <1>3, <1>6, <1>8, <1>9, <1>10, <1>11, <1>12, <1>13, StillInv

\* closef of a file that has other descriptors.
LEMMA CloseOther ==
    ASSUME TypeOK, Rest, NEW p \in Procs, u[p].pc \in {"user", "exit"}, cpu \in {p, NoProc},
           NEW d \in Fds, ofile[p][d] # 0,
           file[ofile[p][d]].count # 1, ofile' = [ofile EXCEPT ![p][d] = 0],
           NEW r, Go(p, r), Fits(r, cdir[p]), Evens(u[p], cdir[p], r, cdir[p]),
           r.pc = "closed", r.fd = ofile[p][d], u[p].fd = 0, ~InExec(r), ~InExec(u[p]),
           UNCHANGED <<inode, dino, dir, super, file, cdir, halted, stuck>>,
              calls' \in 0..MaxCalls
    PROVE  Inv'
<1>1. PICK f \in 1..NFILE : f = ofile[p][d] /\ file[f].count # 1
    BY OpenFile
<1>2. r.fd = f /\ u[p].fd = 0
    BY <1>1
<1>3. Shift(p, r)
    BY Fitting, GoShift
<1>4. ASSUME NEW x \in 1..NFILE
      PROVE  file'[x].count = Cardinality(Descs(x)') + Cardinality(Closers(x)')
  <2>1. 0 \in 0..NFILE /\ x # 0 /\ f # 0
      BY Sizes
  <2>2. /\ Cardinality(Descs(x)) \in Nat /\ Cardinality(Descs(x)') \in Nat
        /\ Cardinality(Descs(x)') = Cardinality(Descs(x)) + One(x, 0) - One(x, f)
      BY <1>1, <2>1, DescsStep
  <2>3. /\ Cardinality(Closers(x)) \in Nat
        /\ Cardinality(Closers(x)') = Cardinality(Closers(x)) + B(r.fd = x) - B(u[p].fd = x)
      BY <1>3, ClosersStep
  <2>4. B(r.fd = x) = One(x, f) /\ B(u[p].fd = x) = 0 /\ One(x, 0) = 0
      BY <1>2, <2>1 DEF B, One
  <2>5. file'[x].count = Cardinality(Descs(x)) + Cardinality(Closers(x))
      BY DEF Rest, FilesOK
  <2> QED
      BY <2>2, <2>3, <2>4, <2>5 DEF One
<1>5. \A q \in Procs : q # p => ofile'[q] = ofile[q]
    BY DEF TypeOK
<1>6. FilesOK'
  <2>1. \A x \in 1..NFILE : file'[x].count > 0 => file'[x].inode # 0
      BY DEF Rest, FilesOK
  <2>2. ~Closing(r) /\ ~Leaving(r)
      BY DEF Closing, Leaving, Putting
  <2> QED
      BY <1>3, <1>4, <1>5, <2>1, <2>2, FilesMoved
<1>7. \A x \in Slots : FileRefs(x)' = FileRefs(x)
  <2>1. u[p].pc # "closed"
      OBVIOUS
  <2>2. /\ \A g : ~Put(g)
        /\ \A q \in Procs : q # p => u'[q].pc # "closed"
      BY <1>3, <2>1, NoPut DEF Rest
  <2>3. \A g : ~Put(g)'
      BY <1>1, <1>2, <1>3, <2>2 DEF Put, Shift
  <2> QED
      BY <2>2, <2>3 DEF FileRefs
<1>8. Counted'
  <2>1. \A x \in Slots : Holds(r, cdir'[p], x) = Holds(u[p], cdir[p], x)
      BY DEF Evens
  <2> QED
      BY <1>3, <1>7, <2>1, EvenFiles
<1>9. Execs'
    BY <1>3, ExecsStep DEF Rest, super
<1>10. RestTypes'
    BY Fitting DEF RestTypes, super
<1>11. /\ file' \in [1..NFILE -> [count : Nat, inode : 0..NINODE]] /\ stuck' \in Seq(Slots)
       /\ execnt' \in 0..NEXEC /\ cdir' \in [Procs -> Slots]
    BY DEF TypeOK, super
<1>12. ofile' \in [Procs -> [Fds -> 0..NFILE]]
  <2>1. 0 \in 0..NFILE
      BY Sizes
  <2> QED
      BY <2>1 DEF TypeOK
<1>13. Fits(r, cdir'[p]) /\ ~Sole(r) /\ r.pc \notin {"updwrite", "scan"}
    BY DEF Sole
<1> QED
    BY <1>3, <1>6, <1>8, <1>9, <1>10, <1>11, <1>12, <1>13, StillInv

LEMMA ClosefInv ==
    ASSUME TypeOK, Rest, NEW p \in Procs, u[p].pc \in {"user", "exit"}, cpu \in {p, NoProc},
           NEW d \in Fds, ofile[p][d] # 0, NEW k \in {"close", "exit"}, Closef(p, d, k),
           calls' \in 0..MaxCalls
    PROVE  Inv'
<1>1. /\ ofile' = [ofile EXCEPT ![p][d] = 0]
      /\ UNCHANGED <<inode, dino, dir, super, file, cdir, halted, stuck>>
    BY DEF Closef
<1>2. PICK f \in 1..NFILE : f = ofile[p][d] /\ file[f].count > 0 /\ file[f].inode \in Slots
    BY OpenFile
<1>3. PICK s \in Slots : s = file[f].inode
    BY <1>2
<1>4. PICK c \in Slots : c = cdir[p]
    BY Fitting
<1>5. PICK a : a = u[p]
    OBVIOUS
<1>6. Fits(a, c) /\ a.pc \in {"user", "exit"}
    BY <1>4, <1>5, Fitting
<1>7. CASE file[f].count <= 1
  <2>1. PICK r : r = CallIput(Closer(k, f), s, "closed")
      OBVIOUS
  <2>2. Fits(r, c) /\ Evens(a, c, r, c)
      BY <1>6, <2>1, ClosePuts
  <2>3. Closing(r) /\ r.slot = s /\ r.fd = f /\ a.fd = 0 /\ ~InExec(r) /\ ~InExec(a)
        /\ r.pc = "iput"
      BY <1>6, <2>1, ClosePuts
  <2>4. Go(p, r)
      BY <1>2, <1>3, <1>7, <2>1 DEF Closef, Closer
  <2>5. file[f].count = 1
    <3>1. file[f].count \in Nat
        BY DEF TypeOK
    <3> QED
        BY <1>2, <1>7, <3>1
  <2> QED
      BY <1>1, <1>2, <1>3, <1>4, <1>5, <2>2, <2>3, <2>4, <2>5, CloseLast
<1>8. CASE ~(file[f].count <= 1)
  <2>1. PICK r : r = Closer(k, f)
      OBVIOUS
  <2>2. Fits(r, c) /\ Evens(a, c, r, c)
      BY <1>6, <2>1, CloseCounts
  <2>3. r.pc = "closed" /\ r.fd = f /\ a.fd = 0 /\ ~InExec(r) /\ ~InExec(a)
    <3>1. r.pc = "closed"
        BY <1>6, <2>1, CloseCounts
    <3>2. r.fd = f /\ a.fd = 0
        BY <1>6, <2>1, CloseCounts
    <3>3. ~InExec(r) /\ ~InExec(a)
        BY <1>6, <2>1, CloseCounts
    <3> QED
        BY <3>1, <3>2, <3>3
  <2>4. Go(p, r)
      BY <1>2, <1>8, <2>1 DEF Closef, Closer
  <2>5. file[f].count # 1
      BY <1>8
  <2> QED
      BY <1>1, <1>2, <1>4, <1>5, <2>2, <2>3, <2>4, <2>5, CloseOther
<1> QED
    BY <1>7, <1>8

LEMMA CloseInv ==
    ASSUME TypeOK, Rest, NEW p \in Procs, NEW d \in Fds, Close(p, d) PROVE Inv'
<1>1. /\ u[p].pc = "user" /\ cpu \in {p, NoProc} /\ ofile[p][d] # 0
      /\ Closef(p, d, "close") /\ calls' \in 0..MaxCalls
    BY DEF Close, At, Getf, TypeOK
<1> QED
    BY <1>1, ClosefInv

LEMMA ExitCloseInv ==
    ASSUME TypeOK, Rest, NEW p \in Procs, ExitClose(p) PROVE Inv'
<1>1. PICK d : d = FirstOf(Fds \ Ufalloc(p))
    OBVIOUS
<1>2. d \in Fds /\ ofile[p][d] # 0
  <2>1. Fds \ Ufalloc(p) \in SUBSET Nat /\ Fds \ Ufalloc(p) # {}
      BY DEF ExitClose, Ufalloc, Fds
  <2>2. d \in Fds \ Ufalloc(p)
      BY <1>1, <2>1, LeastNatural
  <2> QED
      BY <2>2 DEF Ufalloc, Getf
<1>3. /\ u[p].pc = "exit" /\ cpu \in {p, NoProc}
      /\ Closef(p, d, "exit") /\ calls' \in 0..MaxCalls
    BY <1>1 DEF ExitClose, At, TypeOK
<1> QED
    BY <1>2, <1>3, ClosefInv

\* close has put the inode if it had to, and counts the file down.
LEMMA CloseDoneInv ==
    ASSUME TypeOK, Rest, NEW p \in Procs, CloseDone(p) PROVE Inv'
<1>1. /\ u[p].pc = "closed" /\ cpu \in {p, NoProc}
      /\ UNCHANGED <<inode, dino, dir, super, ofile, cdir, halted, stuck, calls>>
    BY DEF CloseDone, At
<1>2. PICK c \in Slots : c = cdir[p] /\ cdir'[p] = c
    BY <1>1, Fitting
<1>3. PICK a : a = u[p]
    OBVIOUS
<1>4. PICK l \in {"user", "exit"} : Go(p, [Idle EXCEPT !.pc = l])
  <2>1. [Idle EXCEPT !.pc = "user"] = Idle
      BY DEF Idle
  <2>2. Go(p, [Idle EXCEPT !.pc = "user"]) \/ Go(p, [Idle EXCEPT !.pc = "exit"])
      BY <2>1 DEF CloseDone
  <2> QED
      BY <2>2
<1>5. PICK r : r = [Idle EXCEPT !.pc = l]
    OBVIOUS
<1>6. Fits(a, c) /\ a.pc = "closed" /\ a \in URec
    BY <1>1, <1>2, <1>3, Fitting
<1>7. Fits(r, c) /\ (\A x \in Slots : Holds(r, c, x) = Holds(a, c, x))
    BY <1>5, <1>6, CloseEnds
<1>8. /\ r.fd = 0 /\ a.fd # 0 /\ ~InExec(r) /\ ~InExec(a)
      /\ ~Closing(r) /\ ~Leaving(r) /\ ~Sole(r) /\ r.pc \notin {"closed", "updwrite", "scan"}
    BY <1>5, <1>6, CloseEnds
<1>9. Shift(p, r)
    BY <1>1, <1>4, <1>5, Fitting, GoShift
<1>10. PICK f \in 1..NFILE : f = u[p].fd
  <2>1. a.fd \in 0..NFILE
      BY <1>6, RecordTypes
  <2> QED
      BY <1>3, <1>8, <2>1, Sizes
<1>11. /\ file[f].count \in Nat /\ file[f].count >= 1
       /\ file[f].count = Cardinality(Descs(f)) + Cardinality(Closers(f))
  <2>1. IsFiniteSet(Descs(f)) /\ IsFiniteSet(Closers(f)) /\ p \in Closers(f)
      BY <1>10, FiniteDescs, FiniteProcs DEF Descs, Closers
  <2>2. /\ Cardinality(Descs(f)) \in Nat /\ Cardinality(Closers(f)) \in Nat
        /\ Cardinality(Closers(f)) # 0
      BY <2>1, FS_CardinalityType, FS_EmptySet
  <2>3. file[f].count = Cardinality(Descs(f)) + Cardinality(Closers(f))
      BY DEF Rest, FilesOK
  <2> QED
      BY <2>2, <2>3
<1>12. /\ file' \in [1..NFILE -> [count : Nat, inode : 0..NINODE]]
       /\ \A x \in 1..NFILE : x # f => file'[x] = file[x]
       /\ file'[f].count = file[f].count - 1 /\ file'[f].inode = file[f].inode
  <2>1. file \in [1..NFILE -> [count : Nat, inode : 0..NINODE]]
      BY DEF TypeOK
  <2>2. PICK n \in Nat : n = file[f].count - 1
      BY <1>11
  <2>3. file' = [file EXCEPT ![f].count = n]
      BY <1>10, <2>2 DEF CloseDone
  <2> QED
      BY <2>1, <2>2, <2>3
<1>13. ASSUME NEW x \in 1..NFILE
       PROVE  file'[x].count = Cardinality(Descs(x)') + Cardinality(Closers(x)')
  <2>1. Descs(x)' = Descs(x)
      BY <1>1 DEF Descs
  <2>2. Cardinality(Descs(x)) \in Nat
    <3>1. IsFiniteSet(Descs(x))
        BY FiniteDescs DEF Descs
    <3> QED
        BY <3>1, FS_CardinalityType
  <2>3. /\ Cardinality(Closers(x)) \in Nat
        /\ Cardinality(Closers(x)') = Cardinality(Closers(x)) + B(r.fd = x) - B(u[p].fd = x)
      BY <1>9, ClosersStep
  <2>4. B(r.fd = x) = 0 /\ B(u[p].fd = x) = One(x, f)
      BY <1>8, <1>10 DEF B, One
  <2>5. file[x].count = Cardinality(Descs(x)) + Cardinality(Closers(x))
      BY DEF Rest, FilesOK
  <2>6. CASE x = f
      BY <1>12, <2>1, <2>2, <2>3, <2>4, <2>5, <2>6 DEF One
  <2>7. CASE x # f
      BY <1>12, <2>1, <2>2, <2>3, <2>4, <2>5, <2>7 DEF One
  <2> QED
      BY <2>6, <2>7
<1>14. FilesOK'
  <2>1. ASSUME NEW x \in 1..NFILE, file'[x].count > 0 PROVE file'[x].inode # 0
      BY <1>11, <1>12, <2>1 DEF Rest, FilesOK
  <2>2. ASSUME NEW q \in Procs, q # p, Closing(u[q]) PROVE file'[u[q].fd] = file[u[q].fd]
    <3>1. u[q].fd \in 1..NFILE /\ u[q].fd # f
        BY <1>10, <2>2, CloserRef DEF Rest, FileRefs
    <3> QED
        BY <1>12, <3>1
  <2>3. \A q \in Procs : q # p => ofile'[q] = ofile[q]
      BY <1>1
  <2> QED
      BY <1>8, <1>9, <1>13, <2>1, <2>2, <2>3, FilesMoved
<1>15. \A x \in Slots : FileRefs(x)' = FileRefs(x)
  <2>1. /\ \A q \in Procs : q # p => u[q].pc # "closed"
        /\ \A g : ~Put(g)'
      BY <1>8, <1>9, NoPut DEF Rest
  <2>2. ASSUME NEW g \in 1..NFILE, NEW x
        PROVE  (file'[g].count > 0 /\ file'[g].inode = x)
                  <=> (file[g].count > 0 /\ file[g].inode = x /\ ~Put(g))
    <3>1. CASE g = f
      <4>1. Put(f) <=> file[f].count = 1
          BY <1>1, <1>10 DEF Put
      <4> QED
          BY <1>11, <1>12, <3>1, <4>1
    <3>2. CASE g # f
      <4>1. ~Put(g)
          BY <1>10, <2>1, <3>2 DEF Put
      <4> QED
          BY <1>12, <3>2, <4>1
    <3> QED
        BY <3>1, <3>2
  <2> QED
      BY <2>1, <2>2 DEF FileRefs
<1>16. Counted'
  <2>1. \A x \in Slots : Holds(r, cdir'[p], x) = Holds(u[p], cdir[p], x)
      BY <1>2, <1>3, <1>7
  <2> QED
      BY <1>1, <1>9, <1>15, <2>1, EvenFiles
<1>17. Execs'
    BY <1>1, <1>3, <1>8, <1>9, ExecsStep DEF Rest, super
<1>18. RestTypes'
    BY <1>1, Fitting DEF RestTypes, super
<1>19. /\ ofile' \in [Procs -> [Fds -> 0..NFILE]] /\ stuck' \in Seq(Slots)
       /\ execnt' \in 0..NEXEC /\ cdir' \in [Procs -> Slots]
    BY <1>1 DEF TypeOK, super
<1>20. Fits(r, cdir'[p]) /\ ~Sole(r) /\ r.pc \notin {"updwrite", "scan"}
    BY <1>2, <1>7, <1>8
<1> QED
    BY <1>1, <1>9, <1>12, <1>14, <1>16, <1>17, <1>18, <1>19, <1>20, StillInv

\* A process in user mode sleeps as far as the others can tell.
LEMMA NobodyRuns ==
    ASSUME TypeOK, Rest, NEW p \in Procs, u[p].pc = "user", cpu \in {p, NoProc}
    PROVE  cpu = NoProc
BY DEF Rest, Parked, Sleeps

\* dup: one more descriptor.
LEMMA DupInv ==
    ASSUME TypeOK, Rest, NEW p \in Procs, NEW d \in Fds, Dup(p, d) PROVE Inv'
<1>1. /\ u[p].pc = "user" /\ cpu \in {p, NoProc} /\ ofile[p][d] # 0 /\ calls < MaxCalls
      /\ calls' = calls + 1 /\ Ufalloc(p) # {}
      /\ UNCHANGED <<inode, dino, dir, super, cdir, u, cpu, halted, stuck>>
    BY DEF Dup, At, Getf
<1>2. PICK f \in 1..NFILE : /\ f = ofile[p][d] /\ file[f].count > 0 /\ file[f].inode \in Slots
    BY <1>1, OpenFile
<1>3. PICK e \in Fds : e = FirstOf(Ufalloc(p)) /\ ofile[p][e] = 0
  <2>1. Ufalloc(p) \in SUBSET Nat
      BY DEF Ufalloc, Fds
  <2>2. FirstOf(Ufalloc(p)) \in Ufalloc(p)
      BY <1>1, <2>1, LeastNatural
  <2> QED
      BY <2>2 DEF Ufalloc, Getf
<1>4. /\ ofile' = [ofile EXCEPT ![p][e] = f]
      /\ file' = [file EXCEPT ![f].count = @ + 1]
    BY <1>2, <1>3 DEF Dup
<1>5. PICK r : r = u[p]
    OBVIOUS
<1>6. Fits(r, cdir'[p]) /\ r.pc = "user"
    BY <1>1, <1>5, Fitting
<1>7. Shift(p, r)
  <2>1. cpu = NoProc
      BY <1>1, NobodyRuns
  <2>2. CpuAfter(p, r) = NoProc
      BY <1>6 DEF CpuAfter, Sleeps
  <2>3. ASSUME NEW q \in Procs PROVE Alike(u[q], u[q], cdir[q])
      BY Fitting, Unmoved
  <2>4. u' = [q \in Procs |-> u'[q]]
      BY <1>1 DEF Rest, Users
  <2> QED
      BY <1>1, <1>5, <2>1, <2>2, <2>3, <2>4 DEF Shift, Others
<1>8. /\ file' \in [1..NFILE -> [count : Nat, inode : 0..NINODE]]
      /\ \A x \in 1..NFILE : x # f => file'[x] = file[x]
      /\ file'[f].count = file[f].count + 1 /\ file'[f].inode = file[f].inode
  <2>1. file \in [1..NFILE -> [count : Nat, inode : 0..NINODE]]
      BY DEF TypeOK
  <2>2. PICK n \in Nat : n = file[f].count + 1
      BY <2>1
  <2>3. file' = [file EXCEPT ![f].count = n]
      BY <1>4, <2>2
  <2> QED
      BY <2>1, <2>2, <2>3
<1>9. ASSUME NEW x \in 1..NFILE
      PROVE  file'[x].count = Cardinality(Descs(x)') + Cardinality(Closers(x)')
  <2>1. f \in 0..NFILE /\ x # 0
      BY Sizes
  <2>2. /\ Cardinality(Descs(x)) \in Nat /\ Cardinality(Descs(x)') \in Nat
        /\ Cardinality(Descs(x)') = Cardinality(Descs(x)) + One(x, f) - One(x, 0)
    <3>1. PICK a : a = ofile[p][e]
        OBVIOUS
    <3>2. a = 0 /\ f \in 0..NFILE
        BY <1>3, <2>1, <3>1
    <3>3. /\ Cardinality(Descs(x)) \in Nat /\ Cardinality(Descs(x)') \in Nat
          /\ Cardinality(Descs(x)') = Cardinality(Descs(x)) + One(x, f) - One(x, a)
        BY <1>4, <2>1, <3>1, DescsStep
    <3> QED
        BY <3>2, <3>3
  <2>3. Closers(x)' = Closers(x) /\ Cardinality(Closers(x)) \in Nat
    <3>1. IsFiniteSet(Closers(x))
        BY FiniteProcs DEF Closers
    <3>2. Closers(x)' = Closers(x)
        BY <1>1 DEF Closers
    <3> QED
        BY <3>1, <3>2, FS_CardinalityType
  <2>4. file[x].count = Cardinality(Descs(x)) + Cardinality(Closers(x))
      BY DEF Rest, FilesOK
  <2>5. CASE x = f
      BY <1>8, <2>1, <2>2, <2>3, <2>4, <2>5 DEF One
  <2>6. CASE x # f
      BY <1>8, <2>1, <2>2, <2>3, <2>4, <2>6 DEF One
  <2> QED
      BY <2>5, <2>6
<1>10. ofile' \in [Procs -> [Fds -> 0..NFILE]] /\ \A q \in Procs : q # p => ofile'[q] = ofile[q]
  <2>1. f \in 0..NFILE
      BY Sizes
  <2> QED
      BY <1>4, <2>1 DEF TypeOK
<1>11. \A g : ~Put(g) /\ ~Put(g)'
    BY <1>1, <1>6, <1>7, NoPut DEF Rest
<1>12. FilesOK'
  <2>1. ASSUME NEW x \in 1..NFILE, file'[x].count > 0 PROVE file'[x].inode # 0
      BY <1>2, <1>8, <2>1, Sizes DEF Rest, FilesOK, Slots
  <2>2. ASSUME NEW q \in Procs, q # p, Closing(u[q]) PROVE file'[u[q].fd] = file[u[q].fd]
    <3>1. u[q].fd \in 1..NFILE
        BY <2>2, CloserRef DEF Rest, FileRefs
    <3>2. ASSUME u[q].fd = f PROVE FALSE
      <4>1. IsFiniteSet(Descs(f)) /\ IsFiniteSet(Closers(f)) /\ q \in Closers(f)
          BY <3>2, FiniteDescs, FiniteProcs DEF Descs, Closers
      <4>2. <<p, d>> \in Descs(f)
          BY <1>2 DEF Descs
      <4>3. /\ Cardinality(Descs(f)) \in Nat /\ Cardinality(Closers(f)) \in Nat
            /\ Cardinality(Closers(f)) # 0 /\ Cardinality(Descs(f)) # 0
          BY <4>1, <4>2, FS_CardinalityType, FS_EmptySet
      <4>4. file[f].count = 1 /\ file[f].count = Cardinality(Descs(f)) + Cardinality(Closers(f))
          BY <2>2, <3>2 DEF Rest, FilesOK
      <4> QED
          BY <4>3, <4>4
    <3> QED
        BY <1>8, <3>1, <3>2
  <2>3. ~Closing(r) /\ ~Leaving(r)
      BY <1>6 DEF Closing, Leaving, Putting
  <2> QED
      BY <1>7, <1>9, <1>10, <2>1, <2>2, <2>3, FilesMoved
<1>13. \A x \in Slots : FileRefs(x)' = FileRefs(x)
  <2>1. ASSUME NEW g \in 1..NFILE
        PROVE  (file'[g].count > 0 <=> file[g].count > 0) /\ file'[g].inode = file[g].inode
    <3>1. file[f].count \in Nat
        BY DEF TypeOK
    <3> QED
        BY <1>2, <1>8, <3>1
  <2> QED
      BY <1>11, <2>1 DEF FileRefs
<1>14. Counted'
  <2>1. \A x \in Slots : Holds(r, cdir'[p], x) = Holds(u[p], cdir[p], x)
      BY <1>1, <1>5
  <2> QED
      BY <1>1, <1>7, <1>13, <2>1, EvenFiles
<1>15. Execs'
    BY <1>1, <1>5, <1>7, ExecsStep DEF Rest, super
<1>16. RestTypes'
  <2>1. calls' \in 0..MaxCalls
    <3>1. MaxCalls \in Nat /\ calls \in 0..MaxCalls
        BY NamesAssumption DEF TypeOK
    <3> QED
        BY <1>1, <3>1
  <2> QED
      BY <1>1, <2>1, Fitting DEF RestTypes, super
<1>17. stuck' \in Seq(Slots) /\ execnt' \in 0..NEXEC /\ cdir' \in [Procs -> Slots]
    BY <1>1 DEF TypeOK, super
<1>18. ~Sole(r) /\ r.pc \notin {"updwrite", "scan"}
    BY <1>6 DEF Sole
<1> QED
    BY <1>1, <1>6, <1>7, <1>8, <1>10, <1>12, <1>14, <1>15, <1>16, <1>17, <1>18, StillInv

-----------------------------------------------------------------------------
(* fork.                                                                    *)

\* The pairs of k with the members of a set are as many as these.
LEMMA Paired ==
    ASSUME NEW k, NEW S, IsFiniteSet(S), NEW T, \A y : y \in T <=> \E x \in S : y = <<k, x>>
    PROVE  IsFiniteSet(T) /\ Cardinality(T) = Cardinality(S)
<1>1. PICK h : h = [x \in S |-> <<k, x>>]
    OBVIOUS
<1>2. DOMAIN h = S /\ \A x \in S : h[x] = <<k, x>>
    BY <1>1
<1>3. h \in [S -> T]
    BY <1>1, <1>2
<1>4. \A y \in T : \E x \in S : h[x] = y
    BY <1>2
<1>5. \A x, y \in S : h[x] = h[y] => x = y
    BY <1>2
<1>6. h \in Surjection(S, T)
    BY <1>3, <1>4 DEF Surjection
<1>7. h \in Injection(S, T)
    BY <1>2, <1>3, <1>5 DEF Injection, IsInjective
<1> QED
    BY <1>6, <1>7, FS_Surjection

\* The descriptors of f that a child has of its father p.
Given(p, f) == {d \in Fds : ofile[p][d] = f}

LEMMA GivenCount ==
    ASSUME TypeOK, Rest, NEW p \in Procs, NEW q \in Procs, Leaving(u[q]),
           ofile' = [ofile EXCEPT ![q] = ofile[p]], NEW f \in 1..NFILE
    PROVE  /\ Cardinality(Given(p, f)) \in Nat /\ Cardinality(Descs(f)) \in Nat
           /\ Cardinality(Descs(f)') = Cardinality(Descs(f)) + Cardinality(Given(p, f))
           /\ Given(p, f) # {} => Cardinality(Descs(f)) > 0
           /\ Given(p, f) = {} => Cardinality(Given(p, f)) = 0
<1>1. PICK T : T = {<<q, d>> : d \in Given(p, f)}
    OBVIOUS
<1>2. IsFiniteSet(Given(p, f)) /\ IsFiniteSet(Descs(f))
  <2>1. IsFiniteSet(Fds)
      BY Sizes, FiniteRanges DEF Fds
  <2>2. IsFiniteSet(Given(p, f))
      BY <2>1, FS_Subset DEF Given
  <2> QED
      BY <2>2, FiniteDescs DEF Descs
<1>3. IsFiniteSet(T) /\ Cardinality(T) = Cardinality(Given(p, f))
  <2>1. PICK S : S = Given(p, f)
      OBVIOUS
  <2>2. IsFiniteSet(S) /\ \A y : y \in T <=> \E d \in S : y = <<q, d>>
      BY <1>1, <1>2, <2>1
  <2>3. IsFiniteSet(T) /\ Cardinality(T) = Cardinality(S)
      BY <2>2, Paired
  <2> QED
      BY <2>1, <2>3
<1>4. ofile'[q] = ofile[p] /\ \A y \in Procs : y # q => ofile'[y] = ofile[y]
    BY DEF TypeOK
<1>5. \A d \in Fds : ofile[q][d] # f
    BY Sizes DEF Rest, FilesOK
<1>6. Descs(f)' = Descs(f) \cup T
  <2>1. ASSUME NEW e \in Procs \X Fds PROVE e \in Descs(f)' <=> e \in Descs(f) \cup T
    <3>1. e[1] \in Procs /\ e[2] \in Fds /\ e = <<e[1], e[2]>>
        OBVIOUS
    <3>2. e \in T <=> e[1] = q /\ e[2] \in Given(p, f)
        BY <1>1, <3>1
    <3> QED
        BY <1>4, <1>5, <3>1, <3>2 DEF Descs, Given
  <2>2. T \subseteq Procs \X Fds
      BY <1>1 DEF Given
  <2> QED
      BY <2>1, <2>2 DEF Descs
<1>7. Descs(f) \cap T = {}
    BY <1>1, <1>5 DEF Descs, Given
<1>8. Cardinality(Descs(f) \cap T) = 0
    BY <1>7, FS_EmptySet
<1>9. /\ Cardinality(Given(p, f)) \in Nat /\ Cardinality(Descs(f)) \in Nat
      /\ Cardinality(Descs(f)') = Cardinality(Descs(f)) + Cardinality(Given(p, f))
  <2>1. PICK D : D = Descs(f)
      OBVIOUS
  <2>2. IsFiniteSet(D) /\ Descs(f)' = D \cup T /\ Cardinality(D \cap T) = 0
      BY <1>2, <1>6, <1>8, <2>1
  <2>3. Cardinality(D \cup T) = Cardinality(D) + Cardinality(T) - Cardinality(D \cap T)
      BY <1>3, <2>2, FS_Union
  <2>4. Cardinality(D) \in Nat /\ Cardinality(T) \in Nat
      BY <1>3, <2>2, FS_CardinalityType
  <2> QED
      BY <1>3, <2>1, <2>2, <2>3, <2>4
<1>10. ASSUME NEW d \in Given(p, f) PROVE Cardinality(Descs(f)) > 0
  <2>1. <<p, d>> \in Descs(f)
      BY DEF Given, Descs
  <2>2. Cardinality(Descs(f)) # 0
      BY <1>2, <2>1, FS_EmptySet
  <2> QED
      BY <1>9, <2>2
<1>11. Given(p, f) = {} => Cardinality(Given(p, f)) = 0
    BY FS_EmptySet
<1> QED
    BY <1>9, <1>10, <1>11

LEMMA ForkInv ==
    ASSUME TypeOK, Rest, NEW p \in Procs, NEW q \in Procs, Fork(p, q) PROVE Inv'
<1>1. /\ u[p].pc = "user" /\ cpu \in {p, NoProc} /\ u[q].pc = "dead" /\ calls < MaxCalls
      /\ calls' = calls + 1 /\ u' = [u EXCEPT ![q] = Idle]
      /\ ofile' = [ofile EXCEPT ![q] = ofile[p]]
      /\ UNCHANGED <<dino, dir, super, cpu, halted, stuck>>
    BY DEF Fork, At
<1>2. p # q /\ cpu = NoProc
    BY <1>1, NobodyRuns
<1>3. RestTypes /\ inode \in [Slots -> IRec] /\ cdir \in [Procs -> Slots]
         /\ u \in [Procs -> URec]
    BY Fitting DEF TypeOK, Users
<1>4. PICK c, c2 \in Slots : c = cdir[q] /\ c2 = cdir[p]
    BY <1>3
<1>5. PICK a, r : a = u[q] /\ r = Idle
    OBVIOUS
<1>6. Fits(a, c) /\ a.pc = "dead" /\ r.pc = "user" /\ r.fd = 0
    BY <1>1, <1>4, <1>5, Fitting DEF Idle
<1>7. /\ Fits(r, c2) /\ Takes(a, c, r, c2, c2) /\ Calm(a, r) /\ ~Sole(r)
      /\ r.pc \notin {"updwrite", "scan"}
    BY <1>5, <1>6, ForkBegins
<1>8. cdir' = [cdir EXCEPT ![q] = c2]
    BY <1>4 DEF Fork
<1>9. cdir' \in [Procs -> Slots] /\ cdir'[q] = c2
         /\ \A x \in Procs : x # q => cdir'[x] = cdir[x]
    BY <1>3, <1>4, <1>8
<1>10. Shift(q, r)
  <2>1. CpuAfter(q, r) = NoProc
      BY <1>6 DEF CpuAfter, Sleeps
  <2>2. ASSUME NEW x \in Procs PROVE Alike(u[x], u[x], cdir[x])
      BY Fitting, Unmoved
  <2>3. u' = [x \in Procs |-> u'[x]] /\ u'[q] = r /\ \A x \in Procs : x # q => u'[x] = u[x]
      BY <1>1, <1>3, <1>5
  <2> QED
      BY <1>1, <1>2, <1>9, <2>1, <2>2, <2>3 DEF Shift, Others
<1>11. /\ inode' \in [Slots -> IRec] /\ \A x \in Slots : x # c2 => inode'[x] = inode[x]
       /\ inode'[c2].count = inode[c2].count + 1
       /\ inode'[c2].num = inode[c2].num /\ inode'[c2].mode = inode[c2].mode
  <2>1. PICK n \in Nat : n = inode[c2].count + 1
      BY <1>3 DEF IRec
  <2>2. inode' = [inode EXCEPT ![c2].count = n]
      BY <1>4, <2>1 DEF Fork
  <2> QED
      BY <1>3, <2>1, <2>2 DEF IRec
<1>12. inode[c2].count \in Nat /\ inode[c2].count >= 1 /\ Has(p, c2)
  <2>1. Has(p, c2)
      BY <1>1, <1>4, Fitting, Holder
  <2> QED
      BY <2>1, OneHolder DEF Rest
<1>13. Alone(q, r, c2)
  <2>1. ASSUME NEW x \in Procs, Sole(u[x]) PROVE u[x].slot # c2
    <3>1. ~Sole(u[p])
        BY <1>1 DEF Sole
    <3> QED
        BY <1>12, <2>1, <3>1, NobodyElse
  <2>2. inode'[c2].num # 0 /\ \A x \in Slots : x # c2 => inode[x].num # inode'[c2].num
      BY <1>11, <1>12 DEF Rest, Unique, SlotsFree
  <2>3. inode'[c2].mode = "dir" => inode'[c2].num \in DirInos
      BY <1>11 DEF Rest, Dirs
  <2> QED
      BY <1>7, <1>11, <1>12, <2>1, <2>2, <2>3 DEF Alone
<1>14. Leaving(u[q])
    BY <1>1 DEF Leaving
<1>15. ASSUME NEW f \in 1..NFILE
       PROVE  /\ Cardinality(Given(p, f)) \in Nat /\ Cardinality(Descs(f)) \in Nat
              /\ Cardinality(Descs(f)') = Cardinality(Descs(f)) + Cardinality(Given(p, f))
              /\ Given(p, f) # {} => Cardinality(Descs(f)) > 0
              /\ Given(p, f) = {} => Cardinality(Given(p, f)) = 0
    BY <1>1, <1>14, GivenCount
<1>16. ASSUME NEW f \in 1..NFILE
       PROVE  file'[f] = [file[f] EXCEPT !.count = @ + Cardinality(Given(p, f))]
    BY DEF Fork, Given
<1>17. ASSUME NEW f \in 1..NFILE
       PROVE  /\ file[f].count \in Nat /\ file'[f] \in [count : Nat, inode : 0..NINODE]
              /\ file'[f].inode = file[f].inode
              /\ file'[f].count = file[f].count + Cardinality(Given(p, f))
              /\ Given(p, f) = {} => file'[f] = file[f]
  <2>1. file[f] \in [count : Nat, inode : 0..NINODE]
      BY DEF TypeOK
  <2>2. PICK n \in Nat : n = file[f].count + Cardinality(Given(p, f))
      BY <1>15, <2>1
  <2>3. file'[f] = [file[f] EXCEPT !.count = n]
      BY <1>16, <2>2
  <2>4. Given(p, f) = {} => n = file[f].count
      BY <1>15, <2>1, <2>2
  <2> QED
      BY <2>1, <2>2, <2>3, <2>4
<1>18. file' \in [1..NFILE -> [count : Nat, inode : 0..NINODE]]
  <2>1. file' = [f \in 1..NFILE |-> file'[f]]
      BY DEF Fork
  <2> QED
      BY <1>17, <2>1
<1>19. ASSUME NEW f \in 1..NFILE
       PROVE  /\ Cardinality(Closers(f)) \in Nat /\ Closers(f)' = Closers(f)
              /\ file[f].count = Cardinality(Descs(f)) + Cardinality(Closers(f))
  <2>1. a.fd = 0
      BY <1>6, <1>7 DEF Calm
  <2>2. Closers(f)' = Closers(f)
    <3>1. f # 0
        BY Sizes
    <3>2. \A x \in Procs : u'[x].fd = f <=> u[x].fd = f
        BY <1>1, <1>3, <1>5, <1>6, <2>1, <3>1
    <3> QED
        BY <3>2 DEF Closers
  <2>3. IsFiniteSet(Closers(f))
      BY FiniteProcs DEF Closers
  <2>4. Cardinality(Closers(f)) \in Nat
      BY <2>3, FS_CardinalityType
  <2>5. file[f].count = Cardinality(Descs(f)) + Cardinality(Closers(f))
      BY DEF Rest, FilesOK
  <2> QED
      BY <2>2, <2>4, <2>5
<1>20. FilesOK'
  <2>1. ASSUME NEW f \in 1..NFILE
        PROVE  file'[f].count = Cardinality(Descs(f)') + Cardinality(Closers(f)')
      BY <1>15, <1>17, <1>19
  <2>2. ASSUME NEW f \in 1..NFILE, file'[f].count > 0 PROVE file'[f].inode # 0
    <3>1. file[f].count > 0
        BY <1>15, <1>17, <1>19, <2>2
    <3> QED
        BY <1>17, <3>1 DEF Rest, FilesOK
  <2>3. \A x \in Procs : x # q => ofile'[x] = ofile[x]
      BY <1>1 DEF TypeOK
  <2>4. ASSUME NEW x \in Procs, x # q, Closing(u[x]) PROVE file'[u[x].fd] = file[u[x].fd]
    <3>1. PICK f \in 1..NFILE : f = u[x].fd
        BY <2>4, CloserRef DEF Rest, FileRefs
    <3>2. file[f].count = 1
        BY <2>4, <3>1 DEF Rest, FilesOK
    <3>3. Cardinality(Closers(f)) # 0
      <4>1. IsFiniteSet(Closers(f)) /\ x \in Closers(f)
          BY <3>1, FiniteProcs DEF Closers
      <4> QED
          BY <4>1, FS_EmptySet
    <3>4. Given(p, f) = {}
        BY <1>15, <1>19, <3>2, <3>3
    <3> QED
        BY <1>17, <3>1, <3>4
  <2>5. ~Closing(r) /\ ~Leaving(r)
      BY <1>6 DEF Closing, Leaving, Putting
  <2> QED
      BY <1>10, <2>1, <2>2, <2>3, <2>4, <2>5, FilesMoved
<1>21. \A x \in Slots : FileRefs(x)' = FileRefs(x)
  <2>1. \A g : ~Put(g) /\ ~Put(g)'
      BY <1>1, <1>6, <1>10, NoPut DEF Rest
  <2>2. ASSUME NEW f \in 1..NFILE
        PROVE  (file'[f].count > 0 <=> file[f].count > 0) /\ file'[f].inode = file[f].inode
      BY <1>15, <1>17, <1>19
  <2> QED
      BY <2>1, <2>2 DEF FileRefs
<1>22. Counted'
  <2>1. \A x \in Slots : Holds(r, cdir'[q], x) = Holds(u[q], cdir[q], x) + One(x, c2)
      BY <1>4, <1>5, <1>7, <1>9 DEF Takes
  <2>2. ASSUME NEW x \in Slots PROVE inode'[x].count = inode[x].count + One(x, c2)
    <3>1. inode[x].count \in Nat
        BY <1>3 DEF IRec
    <3> QED
        BY <1>11, <3>1 DEF One
  <2> QED
      BY <1>1, <1>10, <1>11, <1>21, <2>1, <2>2, SameFiles
<1>23. Execs'
    BY <1>1, <1>5, <1>7, <1>10, ExecsStep DEF Rest, Calm, super
<1>24. RestTypes'
  <2>1. calls' \in 0..MaxCalls
    <3>1. MaxCalls \in Nat /\ calls \in 0..MaxCalls
        BY NamesAssumption DEF TypeOK
    <3> QED
        BY <1>1, <3>1
  <2> QED
      BY <1>1, <1>3, <1>11, <2>1 DEF RestTypes, super
<1>25. /\ ofile' \in [Procs -> [Fds -> 0..NFILE]]
       /\ stuck' \in Seq(Slots) /\ execnt' \in 0..NEXEC
       /\ dir' = dir /\ \A i \in Ino : dino'[i].mode = "dir" => i \in DirInos
    BY <1>1 DEF TypeOK, super, Rest, Dirs
<1>26. Fits(r, cdir'[q])
    BY <1>7, <1>9
<1> QED
    BY <1>7, <1>9, <1>10, <1>13, <1>18, <1>20, <1>22, <1>23, <1>24, <1>25, <1>26, SlotInv

-----------------------------------------------------------------------------
(* A directory that stays behind.                                           *)

LEMMA StuckAppend ==
    ASSUME stuck \in Seq(Slots), NEW s \in Slots, stuck' = Append(stuck, s), NEW x
    PROVE  /\ stuck' \in Seq(Slots) /\ Cardinality(StuckRefs(x)) \in Nat
           /\ Cardinality(StuckRefs(x)') = Cardinality(StuckRefs(x)) + One(x, s)
<1>1. PICK n \in Nat : n = Len(stuck)
    OBVIOUS
<1>2. DOMAIN stuck = 1..n /\ DOMAIN stuck' = 1..(n + 1)
    BY <1>1
<1>3. stuck'[n + 1] = s /\ \A k \in 1..n : stuck'[k] = stuck[k]
    BY <1>1
<1>4. StuckRefs(x)' \ {n + 1} = StuckRefs(x) \ {n + 1}
    BY <1>2, <1>3 DEF StuckRefs
<1>5. n + 1 \notin StuckRefs(x) /\ (n + 1 \in StuckRefs(x)' <=> x = s)
    BY <1>2, <1>3 DEF StuckRefs
<1>6. IsFiniteSet(StuckRefs(x))
    BY FiniteStuck DEF StuckRefs
<1>7. /\ Cardinality(StuckRefs(x)) \in Nat
      /\ Cardinality(StuckRefs(x)')
           = Cardinality(StuckRefs(x)) + B(n + 1 \in StuckRefs(x)') - B(n + 1 \in StuckRefs(x))
    BY <1>4, <1>6, CardStep
<1>8. stuck' \in Seq(Slots)
    OBVIOUS
<1> QED
    BY <1>5, <1>7, <1>8 DEF B, One

LEMMA LeavesInv ==
    ASSUME TypeOK, Rest, NEW p \in Procs, Shift(p, Idle),
           u[p].pc = "ifill" \/ (u[p].pc = "iget" /\ u[p].ret = "igot"),
           stuck' = Append(stuck, u[p].pdir), UNCHANGED <<inode, dino, dir, files, execnt>>,
           RestTypes'
    PROVE  Inv'
<1>1. PICK c \in Slots : c = cdir[p] /\ cdir'[p] = c
    BY Fitting DEF files
<1>2. PICK a, r : a = u[p] /\ r = Idle
    OBVIOUS
<1>3. Fits(a, c) /\ (a.pc = "ifill" \/ (a.pc = "iget" /\ a.ret = "igot"))
    BY <1>1, <1>2, Fitting
<1>4. /\ Fits(r, c) /\ Gives(a, c, r, c, a.pdir) /\ Calm(a, r) /\ ~Sole(r)
      /\ r.pc \notin {"updwrite", "scan"} /\ a.pdir # 0
    BY <1>2, <1>3, LeavesPdir
<1>5. Shift(p, r)
    BY <1>2
<1>6. PICK s \in Slots : s = a.pdir
    BY <1>2, <1>4, Holder, Fitting
<1>7. stuck \in Seq(Slots) /\ stuck' = Append(stuck, s)
    BY <1>2, <1>6 DEF TypeOK
<1>8. FilesOK' /\ \A x \in Slots : FileRefs(x)' = FileRefs(x)
    BY <1>2, <1>4, <1>5, FilesStep DEF Rest, files
<1>9. ASSUME NEW x \in Slots PROVE inode'[x].count = Total(x)'
  <2>1. Cardinality(StuckRefs(x)') = Cardinality(StuckRefs(x)) + One(x, s)
      BY <1>7, StuckAppend
  <2>2. Cardinality(FileRefs(x)') = Cardinality(FileRefs(x)) + 0
      BY <1>8, RefSets
  <2>3. /\ Holds(r, cdir'[p], x) \in Nat /\ Holds(u[p], cdir[p], x) \in Nat
        /\ One(x, s) \in Int /\ 0 \in Int /\ inode[x].count \in Nat
      BY Fitting DEF Holds, B, One, IRec
  <2>4. Holds(r, cdir'[p], x) = Holds(u[p], cdir[p], x) - One(x, s)
      BY <1>1, <1>2, <1>4, <1>6 DEF Gives
  <2>5. inode'[x].count = inode[x].count + Holds(r, cdir'[p], x) - Holds(u[p], cdir[p], x)
                          + 0 + One(x, s)
      BY <2>3, <2>4
  <2> QED
      BY <1>5, <2>1, <2>2, <2>3, <2>5, TotalChange
<1>10. Counted'
    BY <1>9 DEF Counted
<1>11. Execs'
    BY <1>2, <1>4, <1>5, ExecsStep DEF Rest, Calm
<1>12. stuck' \in Seq(Slots)
    BY <1>7
<1>13. /\ file' \in [1..NFILE -> [count : Nat, inode : 0..NINODE]]
       /\ ofile' \in [Procs -> [Fds -> 0..NFILE]]
       /\ cdir' \in [Procs -> Slots] /\ execnt' \in 0..NEXEC
    BY DEF TypeOK, files
<1>14. Fits(r, cdir'[p])
    BY <1>1, <1>4
<1> QED
    BY <1>4, <1>5, <1>8, <1>10, <1>11, <1>12, <1>13, <1>14, StillInv

LEMMA FillsType ==
    ASSUME TypeOK, NEW fill \in Fills PROVE fill \in Seq(Ino)
<1>1. PICK free : free = {i \in Ino : dino[i].mode = "none" /\ Absent(i)}
    OBVIOUS
<1>2. Cardinality(free) \in Nat
  <2>1. IsFiniteSet(Ino)
      BY Sizes, FiniteRanges DEF Ino
  <2>2. IsFiniteSet(free)
      BY <1>1, <2>1, FS_Subset
  <2> QED
      BY <2>2, FS_CardinalityType
<1>3. NICINOD \in Nat /\ Len(s_inode) \in Nat
    BY NamesAssumption DEF TypeOK
<1>4. PICK room : room = IF Len(s_inode) < NICINOD THEN NICINOD - Len(s_inode) ELSE 1
    OBVIOUS
<1>5. PICK n : n = IF room < Cardinality(free) THEN room ELSE Cardinality(free)
    OBVIOUS
<1>6. n \in Nat
    BY <1>2, <1>3, <1>4, <1>5
<1>7. fill \in [1..n -> free]
    BY <1>1, <1>4, <1>5 DEF Fills
<1>8. fill \in [1..n -> Ino]
    BY <1>1, <1>7
<1> QED
    BY <1>6, <1>8

LEMMA IallocFillInv ==
    ASSUME TypeOK, Rest, NEW p \in Procs, IallocFill(p) PROVE Inv'
<1>1. /\ u[p].pc = "ifill" /\ cpu \in {p, NoProc} /\ s_ilock' = FALSE
      /\ UNCHANGED <<inode, dino, dir, updlock, execnt, files, calls>>
    BY DEF IallocFill, At
<1>2. PICK fill \in Fills, r \in {Idle, [u[p] EXCEPT !.pc = "iloop"]} :
         /\ s_inode' = s_inode \o fill /\ halted' = (Len(s_inode \o fill) > NICINOD)
         /\ u' = [q \in Procs |-> IF q = p THEN r
                                  ELSE IF u[q].pc = "ilock" THEN [u[q] EXCEPT !.pc = "ialloc"]
                                  ELSE u[q]]
         /\ \/ r = Idle /\ cpu' = NoProc /\ stuck' = Append(stuck, u[p].pdir)
            \/ r = [u[p] EXCEPT !.pc = "iloop"] /\ cpu' = p /\ stuck' = stuck
  <2>1. PICK fill \in Fills : LET none == s_inode \o fill = <<>>
          IN  /\ s_inode' = s_inode \o fill
              /\ halted' = (Len(s_inode \o fill) > NICINOD)
              /\ u' = [q \in Procs |->
                         IF q = p THEN IF none THEN Idle
                                       ELSE [u[p] EXCEPT !.pc = "iloop"]
                         ELSE IF u[q].pc = "ilock" THEN [u[q] EXCEPT !.pc = "ialloc"]
                         ELSE u[q]]
              /\ cpu' = IF none THEN NoProc ELSE p
              /\ stuck' = IF none THEN Append(stuck, u[p].pdir) ELSE stuck
      BY DEF IallocFill
  <2>2. CASE s_inode \o fill = <<>>
      BY <2>1, <2>2
  <2>3. CASE s_inode \o fill # <<>>
      BY <2>1, <2>3
  <2> QED
      BY <2>2, <2>3
<1>3. s_inode' \in Seq(Ino) /\ halted' \in BOOLEAN
  <2>1. s_inode \in Seq(Ino) /\ fill \in Seq(Ino)
      BY FillsType DEF TypeOK
  <2> QED
      BY <1>2, <2>1
<1>4. RestTypes'
    BY <1>1, <1>3, Fitting DEF RestTypes
<1>5. /\ \A q \in Procs : q # p => cdir'[q] = cdir[q] /\ Alike(u[q], u'[q], cdir[q])
      /\ u' = [q \in Procs |-> u'[q]] /\ u'[p] = r
  <2>1. ASSUME NEW q \in Procs, q # p PROVE Alike(u[q], u'[q], cdir[q])
    <3>1. Woken(u[q], u'[q])
        BY <1>2, <2>1 DEF Woken
    <3>2. Fits(u[q], cdir[q]) /\ cdir[q] \in Slots
        BY Fitting
    <3> QED
        BY <3>1, <3>2, WokenAlike
  <2>2. u' = [q \in Procs |-> u'[q]] /\ u'[p] = r
      BY <1>2
  <2> QED
      BY <1>1, <2>1, <2>2 DEF files
<1>6. CASE r = Idle /\ cpu' = NoProc /\ stuck' = Append(stuck, u[p].pdir)
  <2>1. Shift(p, Idle)
    <3>1. CpuAfter(p, Idle) = NoProc
        BY DEF CpuAfter, Sleeps, Idle
    <3> QED
        BY <1>1, <1>5, <1>6, <3>1 DEF Shift, Others
  <2> QED
      BY <1>1, <1>4, <1>6, <2>1, LeavesInv
<1>7. CASE r = [u[p] EXCEPT !.pc = "iloop"] /\ cpu' = p /\ stuck' = stuck
  <2>1. PICK c \in Slots : c = cdir[p]
      BY Fitting
  <2>2. PICK a : a = u[p]
      OBVIOUS
  <2>3. Fits(a, c) /\ a.pc = "ifill" /\ a \in URec /\ r = [a EXCEPT !.pc = "iloop"]
      BY <1>1, <1>7, <2>1, <2>2, Fitting
  <2>4. Keeps(a, r, c)
      BY <2>3, IallocMove
  <2>5. r.pc = "iloop"
      BY <2>3 DEF URec
  <2>6. Shift(p, r)
    <3>1. CpuAfter(p, r) = p
        BY <2>5 DEF CpuAfter, Sleeps
    <3> QED
        BY <1>1, <1>5, <1>7, <3>1 DEF Shift, Others
  <2>7. ~Sole(u[p])
      BY <1>1 DEF Sole
  <2>8. Tabled(p)
      BY <1>1 DEF Tabled
  <2>9. /\ dir' \in [DirInos -> Seq(Entry)]
              /\ \A i \in Ino : dino'[i].mode = "dir" => i \in DirInos
        /\ \A s \in Slots : inode'[s].mode = "dir" => inode[s].num \in DirInos
      BY <1>1 DEF Rest, Dirs
  <2> QED
      BY <1>1, <1>4, <1>7, <2>1, <2>2, <2>4, <2>5, <2>6, <2>7, <2>8, <2>9, TableInv
<1> QED
    BY <1>2, <1>6, <1>7

\* The table is full.
LEMMA IgetFullInv ==
    ASSUME TypeOK, Rest, NEW p \in Procs, IgetFull(p) PROVE Inv'
<1>1. /\ u[p].pc = "iget" /\ cpu \in {p, NoProc} /\ halted' = (u[p].ret = "uget")
      /\ UNCHANGED <<inode, dino, dir, super, files, calls>>
    BY DEF IgetFull, At
<1>2. PICK c \in Slots : c = cdir[p] /\ cdir'[p] = c
    BY <1>1, Fitting DEF files
<1>3. PICK a : a = u[p]
    OBVIOUS
<1>4. Fits(a, c) /\ a.pc = "iget" /\ a.ret \in {"comp", "igot", "uget"}
    BY <1>1, <1>2, <1>3, Fitting DEF Going, Fetching
<1>5. RestTypes'
    BY <1>1, Fitting DEF RestTypes, super
<1>6. CASE a.ret = "igot"
  <2>1. stuck' = Append(stuck, u[p].pdir) /\ Go(p, Idle)
      BY <1>3, <1>6 DEF IgetFull
  <2>2. Shift(p, Idle)
      BY <1>1, <2>1, Fitting, GoShift DEF files
  <2> QED
      BY <1>1, <1>3, <1>5, <1>6, <2>1, <2>2, LeavesInv DEF super
<1>7. CASE a.ret = "uget"
  <2>1. PICK r : Go(p, r) /\ stuck' = stuck
      BY <1>3, <1>7 DEF IgetFull
  <2>2. halted' /\ cpu' = CpuAfter(p, r) /\ stuck' \in Seq(Slots)
      BY <1>1, <1>3, <1>7, <2>1 DEF Go, TypeOK
  <2> QED
      BY <1>1, <1>5, <2>2, HaltedInv DEF super
<1>8. CASE a.ret = "comp" /\ a.ip = 0
  <2>1. PICK r : r = Idle
      OBVIOUS
  <2>2. Go(p, r) /\ stuck' = stuck
      BY <1>3, <1>8, <2>1 DEF IgetFull
  <2>3. Keeps(a, r, c) /\ r.pc # "scan"
      BY <1>4, <1>8, <2>1, IgetGivesUp DEF Idle
  <2> QED
      BY <1>1, <1>2, <1>3, <1>5, <2>2, <2>3, PlainInv DEF RestTypes, super
<1>9. CASE a.ret = "comp" /\ a.ip # 0
  <2>1. PICK r : r = After([a EXCEPT !.ret = "last"])
      OBVIOUS
  <2>2. Go(p, r) /\ stuck' = stuck
      BY <1>3, <1>9, <2>1 DEF IgetFull
  <2>3. Keeps(a, r, c)
      BY <1>4, <1>9, <2>1, LastPut
  <2>4. r.pc # "scan"
      BY <1>4, <2>1 DEF After, CallIput, Fits, URec
  <2> QED
      BY <1>1, <1>2, <1>3, <1>5, <2>2, <2>3, <2>4, PlainInv DEF RestTypes, super
<1> QED
    BY <1>4, <1>6, <1>7, <1>8, <1>9

-----------------------------------------------------------------------------
(* The volume as mkfs made it.                                              *)

LEMMA IdleFits == ASSUME NEW c PROVE Fits(Idle, c)
<1>1. PICK r : r = Idle
    OBVIOUS
<1>2. /\ r.pc = "user" /\ r.call = "none" /\ r.path = <<>> /\ r.slot = 0 /\ r.ret = "none"
      /\ r.ip = 0 /\ r.pdir = 0 /\ r.from = <<>> /\ r.fd = 0
    BY <1>1 DEF Idle
<1>3. r \in URec
    BY <1>1, IdleType
<1>4. Holding(r)
    BY <1>2 DEF Holding, WithSlot, WithPdir, WithIp, InNamei, Closing, Fetching, Putting,
       Allocating
<1>5. Going(r, c)
    BY <1>2 DEF Going, Fetching, Putting
<1>6. Naming(r)
    BY <1>2 DEF Naming, WithName, InNamei, InUnlink, Fetching, Putting, Allocating
<1> QED
    BY <1>1, <1>3, <1>4, <1>5, <1>6 DEF Fits

LEMMA EntriesFinite ==
    ASSUME dir \in [DirInos -> Seq(Entry)], NEW i
    PROVE  IsFiniteSet(Entries(i)) /\ Cardinality(Entries(i)) \in Nat
<1> DEFINE At_(d) == {k \in DOMAIN dir[d] : dir[d][k].ino = i}
           E(d) == {<<d, k>> : k \in At_(d)}
           Sets == {E(d) : d \in DirInos}
<1>1. IsFiniteSet(DirInos)
  <2>1. IsFiniteSet(Ino) /\ DirInos \subseteq Ino
      BY Sizes, FiniteRanges, NamesAssumption DEF Ino
  <2> QED
      BY <2>1, FS_Subset
<1>2. ASSUME NEW d \in DirInos PROVE IsFiniteSet(E(d))
  <2>1. PICK n \in Nat : DOMAIN dir[d] = 1..n
    <3>1. dir[d] \in Seq(Entry)
        OBVIOUS
    <3> QED
        BY <3>1
  <2>2. IsFiniteSet(At_(d))
      BY <2>1, FiniteRanges, FS_Subset
  <2>3. PICK S, T : S = At_(d) /\ T = E(d)
      OBVIOUS
  <2>4. IsFiniteSet(S) /\ \A y : y \in T <=> \E x \in S : y = <<d, x>>
      BY <2>2, <2>3
  <2>5. IsFiniteSet(T)
      BY <2>4, Paired
  <2> QED
      BY <2>3, <2>5
<1>3. IsFiniteSet(Sets)
  <2> HIDE DEF E, At_
  <2>1. PICK h : h = [d \in DirInos |-> E(d)]
      OBVIOUS
  <2>2. DOMAIN h = DirInos /\ \A d \in DirInos : h[d] = E(d)
      BY <2>1
  <2>3. PICK S : S = Sets
      OBVIOUS
  <2>4. (\A d \in DirInos : h[d] \in S) /\ \A y \in S : \E d \in DirInos : h[d] = y
      BY <2>2, <2>3
  <2>5. h = [d \in DirInos |-> h[d]]
      BY <2>1, <2>2
  <2>6. h \in [DirInos -> S]
      BY <2>4, <2>5
  <2>7. h \in Surjection(DirInos, S)
      BY <2>4, <2>6 DEF Surjection
  <2> QED
      BY <1>1, <2>3, <2>7, FS_Surjection
<1>4. IsFiniteSet(UNION Sets)
    BY <1>2, <1>3, FS_UNION
<1>5. Entries(i) = UNION Sets
    BY DEF Entries
<1> QED
    BY <1>4, <1>5, FS_CardinalityType

LEMMA InitInv == Init => Inv
<1> SUFFICES ASSUME Init PROVE TypeOK /\ Rest
    BY DEF Inv
<1>1. /\ NINODE \in Nat /\ 1 \in Slots /\ 1 \in Ino /\ 1 \in DirInos /\ DirInos \subseteq Ino
      /\ NFILE \in Nat /\ NEXEC \in Nat /\ MaxCalls \in Nat
    BY Sizes, NamesAssumption DEF Slots, Ino, ROOTINO
<1>2. dir \in [DirInos -> Seq(Entry)]
    BY NamesAssumption DEF Init, Entry
<1>3. PICK n \in Nat : n = Cardinality(Procs)
    BY NamesAssumption, FS_CardinalityType
<1>4. dino \in [Ino -> DRec] /\ \A i \in Ino : dino[i].mode = "dir" => i \in DirInos
  <2>1. ASSUME NEW i \in Ino PROVE Cardinality(Entries(i)) + (IF i = ROOTINO THEN 1 ELSE 0) \in Int
      BY <1>2, EntriesFinite
  <2>2. PICK h : h = [i \in Ino |-> Cardinality(Entries(i)) + (IF i = ROOTINO THEN 1 ELSE 0)]
      OBVIOUS
  <2>3. \A i \in Ino : h[i] \in Int
      BY <2>1, <2>2
  <2>4. dino = [i \in Ino |->
                 [mode |-> IF i \in DirInos THEN "dir"
                           ELSE IF Entries(i) # {} THEN "reg" ELSE "none", nlink |-> h[i]]]
      BY <2>2 DEF Init
  <2> QED
      BY <2>3, <2>4 DEF DRec, Mode
<1>5. PICK l \in Int : l = dino[1].nlink
    BY <1>1, <1>4 DEF DRec
<1>6. inode = [s \in Slots |-> IF s = 1 THEN [Free EXCEPT !.num = 1, !.mode = "dir",
            !.nlink = l,
                                                          !.count = n + 1]
                               ELSE Free]
  <2>1. inode = [s \in Slots |->
                  IF s = 1 THEN [Free EXCEPT !.num = ROOTINO, !.mode = "dir",
                                             !.nlink = dino[ROOTINO].nlink,
                                             !.count = Cardinality(Procs) + 1]
                  ELSE Free]
      BY DEF Init
  <2>2. ROOTINO = 1
      BY DEF ROOTINO
  <2> QED
      BY <1>3, <1>5, <2>1, <2>2
<1>7. /\ \A s \in Slots : s # 1 => inode[s] = Free
      /\ inode[1].num = 1 /\ inode[1].mode = "dir" /\ inode[1].count = n + 1
    BY <1>1, <1>6 DEF Free
<1>8. Free \in IRec /\ Free.num = 0 /\ Free.count = 0 /\ Free.mode = "none"
    BY Sizes DEF Free, IRec, Mode
<1>9. inode \in [Slots -> IRec]
  <2>1. 1 \in 0..NI /\ "dir" \in Mode /\ n + 1 \in Nat
      BY <1>1 DEF Ino, Mode
  <2>2. [Free EXCEPT !.num = 1, !.mode = "dir", !.nlink = l, !.count = n + 1] \in IRec
      BY <1>8, <2>1 DEF IRec
  <2> QED
      BY <1>6, <1>8, <2>2
<1>10. /\ u = [p \in Procs |-> Idle] /\ cdir = [p \in Procs |-> 1] /\ cpu = NoProc
       /\ halted = FALSE /\ stuck = <<>> /\ calls = 0 /\ execnt = 0 /\ s_inode = <<>>
       /\ s_ilock = FALSE /\ updlock = FALSE
       /\ file = [f \in 1..NFILE |-> [count |-> 0, inode |-> 0]]
       /\ ofile = [p \in Procs |-> [d \in Fds |-> 0]]
    BY DEF Init
<1>11. TypeOK
  <2>1. DOMAIN dir = DirInos /\ s_inode \in Seq(Ino) /\ stuck \in Seq(Slots)
      BY <1>2, <1>10
  <2>2. execnt \in 0..NEXEC /\ calls \in 0..MaxCalls
      BY <1>1, <1>10
  <2>3. file \in [1..NFILE -> [count : Nat, inode : 0..NINODE]]
      BY <1>1, <1>10
  <2>4. ofile \in [Procs -> [Fds -> 0..NFILE]] /\ cdir \in [Procs -> Slots]
      BY <1>1, <1>10
  <2> QED
      BY <1>4, <1>9, <1>10, <2>1, <2>2, <2>3, <2>4 DEF TypeOK, IRec, DRec
<1>12. \A p \in Procs : /\ u[p].pc = "user" /\ u[p].slot = 0 /\ u[p].ip = 0 /\ u[p].pdir = 0
                        /\ u[p].ret = "none" /\ u[p].fd = 0 /\ u[p] = Idle /\ cdir[p] = 1
    BY <1>10 DEF Idle
<1>13. Users
    BY <1>10, <1>12, IdleFits, IdleType DEF Users
<1>14. Parked
    BY <1>10, <1>12, NamesAssumption DEF Parked, Sleeps
<1>15. Unique /\ SlotsFree
    BY <1>3, <1>7, <1>8 DEF Unique, SlotsFree
<1>16. Counted
  <2>1. ASSUME NEW s \in Slots PROVE inode[s].count = Total(s)
    <3>1. s # 0
        BY Sizes DEF Slots
    <3>2. SlotRefs(s) = {} /\ IpRefs(s) = {} /\ PdirRefs(s) = {}
        BY <1>12, <3>1 DEF SlotRefs, SlotRef, IpRefs, PdirRefs
    <3>3. FileRefs(s) = {} /\ StuckRefs(s) = {}
        BY <1>10 DEF FileRefs, StuckRefs
    <3>4. CdirRefs(s) = IF s = 1 THEN Procs ELSE {}
        BY <1>12 DEF CdirRefs, CdirRef
    <3>5. Cardinality(CdirRefs(s)) = IF s = 1 THEN n ELSE 0
        BY <1>3, <3>4, FS_EmptySet
    <3>6. Cardinality({}) = 0
        BY FS_EmptySet
    <3> QED
        BY <1>7, <1>8, <3>2, <3>3, <3>5, <3>6 DEF Total, Held, B
  <2> QED
      BY <2>1 DEF Counted
<1>17. Exclusive
    BY <1>12 DEF Exclusive, Sole
<1>18. FilesOK
  <2>1. ASSUME NEW f \in 1..NFILE
        PROVE  file[f].count = Cardinality(Descs(f)) + Cardinality(Closers(f))
    <3>1. Descs(f) = {} /\ Closers(f) = {}
        BY <1>1, <1>10, <1>12 DEF Descs, Closers
    <3>2. Cardinality({}) = 0
        BY FS_EmptySet
    <3> QED
        BY <1>10, <3>1, <3>2
  <2> QED
      BY <1>10, <1>12, <2>1 DEF FilesOK, Closing, Leaving, Putting
<1>19. Execs
  <2>1. {p \in Procs : InExec(u[p])} = {}
      BY <1>12 DEF InExec
  <2> QED
      BY <1>10, <2>1, FS_EmptySet DEF Execs
<1>20. Dirs
    BY <1>1, <1>2, <1>4, <1>7, <1>8, <1>12 DEF Dirs
<1> QED
    BY <1>11, <1>13, <1>14, <1>15, <1>16, <1>17, <1>18, <1>19, <1>20 DEF Rest

-----------------------------------------------------------------------------
(* The invariant holds in every state.                                      *)

LEMMA StepInv ==
    ASSUME TypeOK, Rest, NEW p \in Procs, Step(p) PROVE Inv'
<1>1. CASE IgetLocked(p) \/ IgetHit(p) \/ IgetMiss(p) \/ IgetFull(p) \/ IgetRead(p)
    BY <1>1, IgetLockedInv, IgetHitInv, IgetMissInv, IgetFullInv, IgetReadInv
<1>2. CASE IputShared(p) \/ IputLast(p) \/ IputTrunc(p) \/ IputDone(p)
    BY <1>2, IputSharedInv, IputLastInv, IputTruncInv, IputDoneInv
<1>3. CASE Comp(p) \/ ScanFound(p) \/ ScanMissing(p)
    BY <1>3, CompInv, ScanFoundInv, ScanMissingInv
<1>4. CASE IallocEnter(p) \/ IallocPop(p) \/ IallocEmpty(p) \/ IallocFill(p)
    BY <1>4, IallocEnterInv, IallocPopInv, IallocEmptyInv, IallocFillInv
<1>5. CASE Maknode(p) \/ Wdir(p) \/ Wdone(p)
    BY <1>5, MaknodeInv, WdirInv, WdoneInv
<1>6. CASE OpenGot(p) \/ Open1Trunc(p) \/ Open1(p) \/ ChdirGot(p) \/ ChdirSet(p)
    BY <1>6, OpenGotInv, Open1TruncInv, Open1Inv, ChdirGotInv, ChdirSetInv
<1>7. CASE StatGot(p) \/ StatDone(p) \/ LinkGot(p)
    BY <1>7, StatGotInv, StatDoneInv, LinkGotInv
<1>8. CASE UnlinkGot(p) \/ UnlinkGet(p) \/ UnlinkWrite(p)
    BY <1>8, UnlinkGotInv, UnlinkGetInv, UnlinkWriteInv
<1>9. CASE FstatDone(p) \/ ExecGot(p) \/ ExecRead(p) \/ ExecDone(p)
    BY <1>9, FstatDoneInv, ExecGotInv, ExecReadInv, ExecDoneInv
<1>10. CASE CloseDone(p) \/ ExitClose(p) \/ ExitCdir(p)
    BY <1>10, CloseDoneInv, ExitCloseInv, ExitCdirInv
<1>11. CASE UpdateInode(p) \/ UpdateWritten(p) \/ UpdateDone(p)
    BY <1>11, UpdateInodeInv, UpdateWrittenInv, UpdateDoneInv
<1> QED
    BY <1>1, <1>2, <1>3, <1>4, <1>5, <1>6, <1>7, <1>8, <1>9, <1>10, <1>11 DEF Step

LEMMA RequestInv ==
    ASSUME TypeOK, Rest, NEW p \in Procs, Request(p) PROVE Inv'
<1>1. ASSUME NEW c \in Calls, CallName(p, c) PROVE Inv'
    BY <1>1, CallNameInv
<1>2. ASSUME NEW d \in Fds, Close(p, d) \/ Dup(p, d) \/ Fstat(p, d) PROVE Inv'
    BY <1>2, CloseInv, DupInv, FstatInv
<1>3. CASE Update(p) \/ Exit(p)
    BY <1>3, UpdateInv, ExitInv
<1>4. ASSUME NEW q \in Procs, Fork(p, q) PROVE Inv'
    BY <1>4, ForkInv
<1> QED
    BY <1>1, <1>2, <1>3, <1>4 DEF Request

LEMMA StutterInv == ASSUME Inv, UNCHANGED vars PROVE Inv'
<1>1. TypeOK'
    BY DEF Inv, TypeOK, vars, files, super
<1>2. ASSUME Rest PROVE Rest'
  <2>1. Users' /\ Parked' /\ Unique' /\ SlotsFree'
      BY <1>2 DEF Rest, vars, files, super, Users, Parked, Unique, SlotsFree
  <2>2. Counted' /\ Exclusive'
      BY <1>2 DEF Rest, vars, files, super, Counted, Exclusive, Total, Held, SlotRefs,
         IpRefs, PdirRefs, CdirRefs, FileRefs, StuckRefs, Put
  <2>3. FilesOK' /\ Execs' /\ Dirs'
      BY <1>2 DEF Rest, vars, files, super, FilesOK, Execs, Dirs, Descs, Closers
  <2> QED
      BY <2>1, <2>2, <2>3 DEF Rest
<1> QED
    BY <1>1, <1>2 DEF Inv, vars

LEMMA Invariance == Spec => []Inv
<1>1. Init => Inv
    BY InitInv
<1>2. Inv /\ [Next]_vars => Inv'
  <2>1. ASSUME Inv, NEW p \in Procs, Step(p) \/ Request(p) PROVE Inv'
    <3>1. TypeOK /\ Rest
        BY <2>1 DEF Inv, Step, Request
    <3> QED
        BY <2>1, <3>1, StepInv, RequestInv
  <2> QED
      BY <2>1, StutterInv DEF Next
<1> QED
    BY <1>1, <1>2, PTL DEF Spec

LEMMA HeldType ==
    ASSUME NEW s
    PROVE  /\ Held(s) \in Nat /\ Cardinality(SlotRefs(s)) \in Nat
                 /\ Cardinality(IpRefs(s)) \in Nat
           /\ Cardinality(PdirRefs(s)) \in Nat /\ Cardinality(CdirRefs(s)) \in Nat
           /\ IsFiniteSet(SlotRefs(s)) /\ IsFiniteSet(IpRefs(s)) /\ IsFiniteSet(PdirRefs(s))
           /\ IsFiniteSet(CdirRefs(s))
<1>1. /\ IsFiniteSet(SlotRefs(s)) /\ IsFiniteSet(IpRefs(s)) /\ IsFiniteSet(PdirRefs(s))
      /\ IsFiniteSet(CdirRefs(s))
    BY FiniteProcs DEF SlotRefs, IpRefs, PdirRefs, CdirRefs
<1>2. /\ Cardinality(SlotRefs(s)) \in Nat /\ Cardinality(IpRefs(s)) \in Nat
      /\ Cardinality(PdirRefs(s)) \in Nat /\ Cardinality(CdirRefs(s)) \in Nat
    BY <1>1, FS_CardinalityType
<1> QED
    BY <1>1, <1>2 DEF Held

\* Sets without common members.
LEMMA ApartTwo ==
    ASSUME NEW S, IsFiniteSet(S), NEW T, IsFiniteSet(T), S \cap T = {}
    PROVE  /\ IsFiniteSet(S \cup T) /\ Cardinality(S) \in Nat /\ Cardinality(T) \in Nat
           /\ Cardinality(S \cup T) = Cardinality(S) + Cardinality(T)
<1>1. Cardinality(S \cap T) = 0
    BY FS_EmptySet
<1>2. Cardinality(S) \in Nat /\ Cardinality(T) \in Nat
    BY FS_CardinalityType
<1>3. /\ IsFiniteSet(S \cup T)
      /\ Cardinality(S \cup T) = Cardinality(S) + Cardinality(T) - Cardinality(S \cap T)
    BY FS_Union
<1> QED
    BY <1>1, <1>2, <1>3

LEMMA Apart ==
    ASSUME NEW F, NEW C, NEW R, NEW S, NEW I, NEW P, NEW K,
           IsFiniteSet(F), IsFiniteSet(C), IsFiniteSet(R), IsFiniteSet(S), IsFiniteSet(I),
           IsFiniteSet(P), IsFiniteSet(K),
           F \cap C = {}, (F \cup C) \cap R = {}, (F \cup C \cup R) \cap S = {},
           (F \cup C \cup R \cup S) \cap I = {}, (F \cup C \cup R \cup S \cup I) \cap P = {},
           (F \cup C \cup R \cup S \cup I \cup P) \cap K = {}
    PROVE  Cardinality(F \cup C \cup R \cup S \cup I \cup P \cup K)
             = Cardinality(F) + Cardinality(C) + Cardinality(R) + Cardinality(S)
               + Cardinality(I) + Cardinality(P) + Cardinality(K)
<1>1. /\ IsFiniteSet(F \cup C) /\ Cardinality(F \cup C) = Cardinality(F) + Cardinality(C)
    BY ApartTwo
<1>2. PICK A2 : A2 = F \cup C
    OBVIOUS
<1>3. PICK A3 : A3 = A2 \cup R
    OBVIOUS
<1>4. PICK A4 : A4 = A3 \cup S
    OBVIOUS
<1>5. PICK A5 : A5 = A4 \cup I
    OBVIOUS
<1>6. PICK A6 : A6 = A5 \cup P
    OBVIOUS
<1>7. IsFiniteSet(A3) /\ Cardinality(A3) = Cardinality(A2) + Cardinality(R)
    BY <1>1, <1>2, <1>3, ApartTwo
<1>8. IsFiniteSet(A4) /\ Cardinality(A4) = Cardinality(A3) + Cardinality(S)
    BY <1>2, <1>3, <1>4, <1>7, ApartTwo
<1>9. IsFiniteSet(A5) /\ Cardinality(A5) = Cardinality(A4) + Cardinality(I)
    BY <1>2, <1>3, <1>4, <1>5, <1>8, ApartTwo
<1>10. IsFiniteSet(A6) /\ Cardinality(A6) = Cardinality(A5) + Cardinality(P)
    BY <1>2, <1>3, <1>4, <1>5, <1>6, <1>9, ApartTwo
<1>11. Cardinality(A6 \cup K) = Cardinality(A6) + Cardinality(K)
    BY <1>2, <1>3, <1>4, <1>5, <1>6, <1>10, ApartTwo
<1> QED
    BY <1>1, <1>2, <1>3, <1>4, <1>5, <1>6, <1>7, <1>8, <1>9, <1>10, <1>11

-----------------------------------------------------------------------------
(* The theorems.                                                            *)

\* Every variable keeps its type: slots, inode numbers, files and directory
\* entries that the calls pass on are ones that exist.
THEOREM TypeCorrect == Spec => []TypeOK
<1>1. Inv => TypeOK
    BY DEF Inv
<1> QED
    BY <1>1, Invariance, PTL

\* No inode is in two slots: iget looks again after it has slept for a lock
\* (iget.c:27-48), and takes a slot in the step in which it has searched all.
THEOREM InodesUnique == Spec => []UniqueInode
<1>1. Inv => UniqueInode
    BY DEF Inv, Rest, Unique, UniqueInode, Settled
<1> QED
    BY <1>1, Invariance, PTL

\* f_count is the number of descriptors, through falloc, dup, fork, close and
\* exit (fio.c:36-52), and an open file has its inode in core.
THEOREM DescriptorsRight == Spec => []DescriptorsCounted
<1>1. ASSUME Inv, Settled, NEW f \in 1..NFILE
      PROVE  /\ file[f].count = Cardinality({e \in Procs \X Fds : ofile[e[1]][e[2]] = f})
                                + Cardinality({p \in Procs : u[p].fd = f})
             /\ file[f].count > 0 => inode[file[f].inode].num # 0
  <2>1. TypeOK /\ Rest
      BY <1>1 DEF Inv, Settled
  <2>2. /\ file[f].count = Cardinality(Descs(f)) + Cardinality(Closers(f))
        /\ file[f].count > 0 => file[f].inode # 0
      BY <2>1 DEF Rest, FilesOK
  <2>3. ASSUME file[f].count > 0 PROVE inode[file[f].inode].num # 0
    <3>1. PICK s \in Slots : s = file[f].inode
      <4>1. file[f].inode \in 0..NINODE
          BY <2>1 DEF TypeOK
      <4> QED
          BY <2>2, <2>3, <4>1, Sizes DEF Slots
    <3>2. \A p \in Procs : u[p].pc # "closed"
        BY <1>1, <2>1, NamesAssumption DEF Settled, Rest, Parked, Sleeps
    <3>3. f \in FileRefs(s)
        BY <2>3, <3>1, <3>2 DEF FileRefs, Put
    <3>4. Cardinality(FileRefs(s)) # 0 /\ Cardinality(FileRefs(s)) \in Nat
        BY <2>1, <3>3, RefSets, FS_EmptySet
    <3>5. Held(s) \in Nat
        BY HeldType
    <3>6. Cardinality(StuckRefs(s)) \in Nat
        BY <2>1, RefSets
    <3>7. inode[s].count
            = Held(s) + Cardinality(FileRefs(s)) + Cardinality(StuckRefs(s)) + B(s = 1)
        BY <2>1 DEF Rest, Counted, Total
    <3>8. B(s = 1) \in Nat
        BY DEF B
    <3>9. inode[s].count # 0
        BY <3>4, <3>5, <3>6, <3>7, <3>8
    <3> QED
        BY <2>1, <3>1, <3>9 DEF Rest, SlotsFree
  <2> QED
      BY <2>2, <2>3 DEF Descs, Closers
<1>2. Inv => DescriptorsCounted
    BY <1>1 DEF DescriptorsCounted
<1> QED
    BY <1>2, Invariance, PTL

\* i_count is the number of references of every slot (iget.c:52, 104), on the
\* error paths of namei, open1, link, chdir and exec too.  The references are
\* counted by kind; CountIsReferences counts their union.
THEOREM CountsRight == Spec => []CountIsReferences
<1>1. ASSUME Inv, Settled, NEW s \in Slots PROVE inode[s].count = Cardinality(References(s))
  <2>1. TypeOK /\ Rest
      BY <1>1 DEF Inv, Settled
  <2>2. \A p \in Procs : u[p].pc \notin {"closed", "chdir"}
      BY <1>1, <2>1, NamesAssumption DEF Settled, Rest, Parked, Sleeps
  <2>3. PICK F, C, R, S, I, P, K :
           /\ F = {<<"file", f>> : f \in {f \in 1..NFILE : file[f].count > 0 /\ file[f].inode = s}}
           /\ C = {<<"cdir", p>> : p \in {p \in Procs : cdir[p] = s /\ u[p].pc # "dead"}}
           /\ R = {<<"root", 1>> : r \in {1} \cap {s}}
           /\ S = {<<"slot", p>> : p \in {p \in Procs :
                     /\ u[p].slot = s /\ u[p].pc # "isleep"
                     /\ u[p].ret \notin {"closed", "chdir", "dead"}}}
           /\ I = {<<"ip", p>> : p \in {p \in Procs : u[p].ip = s}}
           /\ P = {<<"pdir", p>> : p \in {p \in Procs : u[p].pdir = s}}
           /\ K = {<<"stuck", n>> : n \in {n \in DOMAIN stuck : stuck[n] = s}}
      OBVIOUS
  <2>4. References(s) = F \cup C \cup R \cup S \cup I \cup P \cup K
      BY <2>3 DEF References
  <2>5. IsFiniteSet(F) /\ Cardinality(F) = Cardinality(FileRefs(s))
    <3>1. FileRefs(s) = {f \in 1..NFILE : file[f].count > 0 /\ file[f].inode = s}
        BY <2>2 DEF FileRefs, Put
    <3>2. \A y : y \in F <=> \E f \in FileRefs(s) : y = <<"file", f>>
        BY <2>3, <3>1
    <3>3. PICK T : T = FileRefs(s)
        OBVIOUS
    <3> QED
        BY <2>1, <3>2, <3>3, RefSets, Paired
  <2>6. IsFiniteSet(C) /\ Cardinality(C) = Cardinality(CdirRefs(s))
    <3>1. CdirRefs(s) = {p \in Procs : cdir[p] = s /\ u[p].pc # "dead"}
        BY <2>2 DEF CdirRefs, CdirRef
    <3>2. \A y : y \in C <=> \E p \in CdirRefs(s) : y = <<"cdir", p>>
        BY <2>3, <3>1
    <3> QED
        BY <3>2, HeldType, Paired
  <2>7. IsFiniteSet(S) /\ Cardinality(S) = Cardinality(SlotRefs(s))
    <3>1. \A y : y \in S <=> \E p \in SlotRefs(s) : y = <<"slot", p>>
        BY <2>3 DEF SlotRefs, SlotRef
    <3> QED
        BY <3>1, HeldType, Paired
  <2>8. IsFiniteSet(I) /\ Cardinality(I) = Cardinality(IpRefs(s))
    <3>1. \A y : y \in I <=> \E p \in IpRefs(s) : y = <<"ip", p>>
        BY <2>3 DEF IpRefs
    <3> QED
        BY <3>1, HeldType, Paired
  <2>9. IsFiniteSet(P) /\ Cardinality(P) = Cardinality(PdirRefs(s))
    <3>1. \A y : y \in P <=> \E p \in PdirRefs(s) : y = <<"pdir", p>>
        BY <2>3 DEF PdirRefs
    <3> QED
        BY <3>1, HeldType, Paired
  <2>10. IsFiniteSet(K) /\ Cardinality(K) = Cardinality(StuckRefs(s))
    <3>1. \A y : y \in K <=> \E n \in StuckRefs(s) : y = <<"stuck", n>>
        BY <2>3 DEF StuckRefs
    <3> QED
        BY <2>1, <3>1, RefSets, Paired
  <2>11. IsFiniteSet(R) /\ Cardinality(R) = B(s = 1)
    <3>1. CASE s = 1
      <4>1. R = {<<"root", 1>>}
          BY <2>3, <3>1
      <4> QED
          BY <3>1, <4>1, FS_Singleton DEF B
    <3>2. CASE s # 1
      <4>1. R = {}
          BY <2>3, <3>2
      <4> QED
          BY <3>2, <4>1, FS_EmptySet DEF B
    <3> QED
        BY <3>1, <3>2
  <2>12. Cardinality(References(s))
           = Cardinality(F) + Cardinality(C) + Cardinality(R) + Cardinality(S) + Cardinality(I)
             + Cardinality(P) + Cardinality(K)
    <3>1. /\ F \cap C = {} /\ (F \cup C) \cap R = {} /\ (F \cup C \cup R) \cap S = {}
          /\ (F \cup C \cup R \cup S) \cap I = {} /\ (F \cup C \cup R \cup S \cup I) \cap P = {}
          /\ (F \cup C \cup R \cup S \cup I \cup P) \cap K = {}
      <4>1. PICK T : T = References(s)
          OBVIOUS
      <4>2. /\ \A y \in F : y[1] = "file"
            /\ \A y \in C : y[1] = "cdir"
            /\ \A y \in R : y[1] = "root"
            /\ \A y \in S : y[1] = "slot"
            /\ \A y \in I : y[1] = "ip"
            /\ \A y \in P : y[1] = "pdir"
            /\ \A y \in K : y[1] = "stuck"
          BY <2>3
      <4> HIDE <2>3
      <4> QED
          BY <4>2
    <3> QED
        BY <2>4, <2>5, <2>6, <2>7, <2>8, <2>9, <2>10, <2>11, <3>1, Apart
  <2>13. inode[s].count
           = Cardinality(SlotRefs(s)) + Cardinality(IpRefs(s)) + Cardinality(PdirRefs(s))
             + Cardinality(CdirRefs(s)) + Cardinality(FileRefs(s)) + Cardinality(StuckRefs(s))
             + B(s = 1)
      BY <2>1 DEF Rest, Counted, Total, Held
  <2>14. /\ Cardinality(FileRefs(s)) \in Nat /\ Cardinality(StuckRefs(s)) \in Nat
         /\ B(s = 1) \in Nat
      BY <2>1, RefSets DEF B
  <2> QED
      BY <2>5, <2>6, <2>7, <2>8, <2>9, <2>10, <2>11, <2>12, <2>13, <2>14, HeldType
<1>2. Inv => CountIsReferences
    BY <1>1 DEF CountIsReferences
<1> QED
    BY <1>2, Invariance, PTL
=============================================================================
