----------------------------- MODULE LinksProofs -----------------------------
(***************************************************************************)
(* What a directory names has its links and is allocated, for any number   *)
(* of processes, slots, files and inodes, any tree and any system calls.   *)
(*                                                                         *)
(* A behaviour that has halted is not followed further, as in NamesProofs. *)
(***************************************************************************)
EXTENDS NamesProofs

-----------------------------------------------------------------------------
(* Names and links.                                                         *)

\* creat and mknod have the inode, and not yet the entry that names it.
Makes(r) == r.pc = "wdir" /\ r.call # "link"
Making(i) == {p \in Procs : Makes(u[p]) /\ inode[u[p].ip].num = i}

\* link has written the entry and not yet counted it.
Pends(r) == r.call = "link" /\ r.ret = "wdone" /\ r.ip # 0

Tally(i) ==
    Cardinality(Entries(i)) + Cardinality(Making(i)) - Cardinality(LinkPending(i))

Named(i) == Entries(i) # {} \/ Making(i) # {}

\* An inode with this mode and this many links may have the names of i.
Backs(i, mode, nlink) == Tally(i) <= nlink /\ (Named(i) => mode # "none")

\* The links of an inode, in core or on disk, are no fewer than its names.
Linked ==
    \A i \in Ino : /\ \A s \in InCore(i) : Backs(i, inode[s].mode, inode[s].nlink)
                   /\ InCore(i) = {} => Backs(i, dino[i].mode, dino[i].nlink)

\* An inode that has not changed in core is on disk as it is in core.
Moving(r) == r.pc \in {"iread", "iupdat"}
Clean ==
    \A s \in Slots :
       /\ inode[s].num # 0 /\ ~inode[s].upd
       /\ \A p \in Procs : Moving(u[p]) => u[p].slot # s
       => /\ dino[inode[s].num].mode = inode[s].mode
          /\ dino[inode[s].num].nlink = inode[s].nlink

\* A process that leaves its current directory.
Departs(r) == r.pc \in {"dead", "chdir"} \/ (r.pc \in Putting /\ r.ret \in {"chdir", "dead"})

\* With inode table t, what a process with current directory c has found is
\* allocated.
Found(t, r, c) ==
    /\ r.call = "link" /\ r.pc \in {"comp", "scan", "got"} => t[r.slot].mode # "none"
    /\ r.call = "link" /\ r.ip # 0 => t[r.ip].mode # "none"
    /\ r.pc = "chdir" \/ (r.pc \in Putting /\ r.ret = "chdir") => t[r.ip].mode # "none"
    /\ ~Departs(r) => t[c].mode # "none"

\* The inodes are the ones it asked for.
Asked(t, r, c) ==
    /\ r.pc \in Fetching /\ r.ret = "comp" /\ r.from = <<>> => r.ino \in {ROOTINO, t[c].num}
    /\ r.pc \in {"iread", "uget"} => t[r.slot].num = r.ino
    /\ r.pc = "uwrite" => t[r.ip].num = r.ino
    /\ r.pc = "uget" \/ (r.pc \in Fetching /\ r.ret = "uget") => r.call = "unlink"
    /\ r.pc = "iread" => ~t[r.slot].upd
    /\ r.pc = "itrunc" => t[r.slot].nlink <= 0

Apt == \A p \in Procs : Found(inode, u[p], cdir[p]) /\ Asked(inode, u[p], cdir[p])

Rooted == inode[1].num = ROOTINO /\ inode[1].mode # "none"

Linkage == Linked /\ Clean /\ Apt /\ Rooted

\* p goes on with r, the others are woken or stay as they are.
Moves(p, r) ==
    /\ u'[p] = r
    /\ \A q \in Procs : q # p => cdir'[q] = cdir[q] /\ Woken(u[q], u'[q])

LEMMA GoMoves ==
    ASSUME Users, NEW p \in Procs, NEW r, Go(p, r),
           \A q \in Procs : q # p => cdir'[q] = cdir[q]
    PROVE  Moves(p, r)
BY DEF Users, Go, Moves, Woken

LEMMA WakeMoves ==
    ASSUME Users, NEW p \in Procs, NEW r, NEW s, GoAndWake(p, s, r),
           \A q \in Procs : q # p => cdir'[q] = cdir[q]
    PROVE  Moves(p, r)
<1>1. /\ u' = [q \in Procs |-> u'[q]] /\ u'[p] = r /\ cpu' = CpuAfter(p, r)
      /\ \A q \in Procs : q # p => Woken(u[q], u'[q])
    BY DEF GoAndWake, Woken
<1> QED
    BY <1>1 DEF Moves

\* What the others rely on: the inode of a slot they have is the same one, and
\* stays allocated.
Steady(p) ==
    \A q \in Procs : q # p => \A x \in Slots : Has(q, x) =>
       /\ inode'[x].num = inode[x].num
       /\ inode[x].mode # "none" => inode'[x].mode # "none"
       /\ Sole(u[q]) /\ u[q].slot = x => /\ inode'[x].upd = inode[x].upd
                                         /\ inode'[x].nlink = inode[x].nlink

LEMMA WokenFields ==
    ASSUME NEW c, NEW r, NEW r2, Fits(r, c), Woken(r, r2)
    PROVE  /\ r2.call = r.call /\ r2.ip = r.ip /\ r2.ret = r.ret /\ r2.from = r.from
           /\ r2.ino = r.ino
           /\ \/ r2 = r
              \/ r.pc = "isleep" /\ r2.pc = "iget"
              \/ r.pc = "ilock" /\ r2.pc = "ialloc"
              \/ r.pc = "exwait" /\ r2.pc = "got" /\ r.call = "exec"
<1>1. r \in URec /\ (r.pc = "exwait" => r.call = "exec")
    BY DEF Fits, Going
<1>2. ASSUME r2 = [r EXCEPT !.pc = "iget", !.slot = 0]
      PROVE  /\ r2.call = r.call /\ r2.ip = r.ip /\ r2.ret = r.ret /\ r2.from = r.from
             /\ r2.ino = r.ino /\ r2.pc = "iget"
    BY <1>1, <1>2 DEF URec
<1>3. ASSUME NEW k \in {"ialloc", "got"}, r2 = [r EXCEPT !.pc = k]
      PROVE  /\ r2.call = r.call /\ r2.ip = r.ip /\ r2.ret = r.ret /\ r2.from = r.from
             /\ r2.ino = r.ino /\ r2.pc = k
    BY <1>1, <1>3 DEF URec
<1> QED
    BY <1>1, <1>2, <1>3 DEF Woken

LEMMA WokenApt ==
    ASSUME NEW t, NEW c, NEW r, NEW r2, Fits(r, c), Woken(r, r2),
           Found(t, r, c), Asked(t, r, c)
    PROVE  Found(t, r2, c) /\ Asked(t, r2, c)
<1>1. /\ r2.call = r.call /\ r2.ip = r.ip /\ r2.ret = r.ret /\ r2.from = r.from
      /\ r2.ino = r.ino
      /\ \/ r2 = r
         \/ r.pc = "isleep" /\ r2.pc = "iget"
         \/ r.pc = "ilock" /\ r2.pc = "ialloc"
         \/ r.pc = "exwait" /\ r2.pc = "got" /\ r.call = "exec"
    BY WokenFields
<1>2. Found(t, r2, c)
    BY <1>1 DEF Found, Departs, Putting
<1>3. Asked(t, r2, c)
    BY <1>1 DEF Asked, Fetching
<1> QED
    BY <1>2, <1>3

\* Which of the slots in u[q] it has.
LEMMA Having ==
    ASSUME TypeOK, Rest, NEW q \in Procs
    PROVE  /\ u[q].pc \in {"comp", "scan", "got", "iread", "uget", "itrunc", "iupdat", "iput",
                           "igot", "open1", "trunc", "stat"}
                => u[q].slot \in Slots /\ Has(q, u[q].slot)
           /\ u[q].pc \in {"chdir", "uwrite", "wdir", "wdone"}
              \/ (u[q].pc \in Putting /\ u[q].ret = "chdir")
                => u[q].ip # 0
           /\ u[q].ip # 0 => u[q].ip \in Slots /\ Has(q, u[q].ip)
           /\ u[q].pc \in {"wdir", "uwrite", "uget"}
                => u[q].pdir \in Slots /\ Has(q, u[q].pdir)
           /\ u[q].pc \notin {"dead", "chdir"} => cdir[q] \in Slots /\ Has(q, cdir[q])
<1>1. Holding(u[q]) /\ cdir[q] \in Slots
    BY Fitting
<1>2. /\ u[q].slot # 0 /\ u[q].pc # "isleep" => u[q].slot \in Slots /\ Has(q, u[q].slot)
      /\ u[q].ip # 0 => u[q].ip \in Slots /\ Has(q, u[q].ip)
      /\ u[q].pdir # 0 => u[q].pdir \in Slots /\ Has(q, u[q].pdir)
      /\ u[q].pc \notin {"dead", "chdir"} => Has(q, cdir[q])
    BY Holder DEF Rest
<1> QED
    BY <1>1, <1>2 DEF Holding, WithSlot, WithIp, WithPdir, Allocating, Fetching, Putting

LEMMA OthersApt ==
    ASSUME TypeOK, Rest, Apt, NEW p \in Procs, NEW r, Moves(p, r), Steady(p),
           NEW q \in Procs, q # p
    PROVE  Found(inode', u'[q], cdir'[q]) /\ Asked(inode', u'[q], cdir'[q])
<1>1. /\ Fits(u[q], cdir[q]) /\ Found(inode, u[q], cdir[q]) /\ Asked(inode, u[q], cdir[q])
      /\ Woken(u[q], u'[q]) /\ cdir'[q] = cdir[q]
    BY Fitting DEF Apt, Moves
<1>2. \A x \in Slots : Has(q, x) =>
         /\ inode'[x].num = inode[x].num
         /\ inode[x].mode # "none" => inode'[x].mode # "none"
         /\ Sole(u[q]) /\ u[q].slot = x => /\ inode'[x].upd = inode[x].upd
                                           /\ inode'[x].nlink = inode[x].nlink
    BY DEF Steady
<1>3. /\ u[q].pc \in {"comp", "scan", "got", "iread", "uget", "itrunc"}
           => u[q].slot \in Slots /\ Has(q, u[q].slot)
      /\ u[q].pc \in {"chdir", "uwrite"} \/ (u[q].pc \in Putting /\ u[q].ret = "chdir")
           => u[q].ip # 0
      /\ u[q].ip # 0 => u[q].ip \in Slots /\ Has(q, u[q].ip)
      /\ u[q].pc \notin {"dead", "chdir"} => cdir[q] \in Slots /\ Has(q, cdir[q])
    BY Having
<1>4. Found(inode', u[q], cdir[q])
    BY <1>1, <1>2, <1>3 DEF Found, Departs
<1>5. Asked(inode', u[q], cdir[q])
    BY <1>1, <1>2, <1>3 DEF Asked, Sole, Fetching
<1> QED
    BY <1>1, <1>4, <1>5, WokenApt

LEMMA OthersMake ==
    ASSUME TypeOK, Rest, NEW p \in Procs, NEW r, Moves(p, r), Steady(p), NEW i
    PROVE  /\ Making(i)' \ {p} = Making(i) \ {p}
           /\ LinkPending(i)' \ {p} = LinkPending(i) \ {p}
<1>1. ASSUME NEW q \in Procs, q # p
      PROVE  /\ Makes(u'[q]) <=> Makes(u[q])
             /\ u'[q].call = u[q].call /\ u'[q].ret = u[q].ret /\ u'[q].ip = u[q].ip
             /\ Makes(u[q]) => u[q].ip # 0
             /\ u[q].ip # 0 => inode'[u[q].ip].num = inode[u[q].ip].num
  <2>1. Fits(u[q], cdir[q]) /\ Woken(u[q], u'[q])
      BY <1>1, Fitting DEF Moves
  <2>2. /\ u'[q].call = u[q].call /\ u'[q].ip = u[q].ip /\ u'[q].ret = u[q].ret
        /\ \/ u'[q] = u[q]
           \/ u[q].pc # "wdir" /\ u'[q].pc # "wdir"
      BY <2>1, WokenFields
  <2>3. /\ u[q].pc = "wdir" => u[q].ip # 0
        /\ u[q].ip # 0 => u[q].ip \in Slots /\ Has(q, u[q].ip)
      BY Having
  <2>4. u[q].ip # 0 => inode'[u[q].ip].num = inode[u[q].ip].num
      BY <1>1, <2>3 DEF Steady
  <2> QED
      BY <2>2, <2>3, <2>4 DEF Makes
<1>2. Making(i)' \ {p} = Making(i) \ {p}
    BY <1>1 DEF Making
<1>3. LinkPending(i)' \ {p} = LinkPending(i) \ {p}
    BY <1>1 DEF LinkPending
<1> QED
    BY <1>2, <1>3

\* The entries with a number.
LEMMA EntryIn ==
    ASSUME NEW i, NEW e
    PROVE  /\ e \in Entries(i) <=> \E d \in DirInos : \E k \in DOMAIN dir[d] :
                                      e = <<d, k>> /\ dir[d][k].ino = i
           /\ e \in Entries(i)' <=> \E d \in DirInos : \E k \in DOMAIN dir'[d] :
                                      e = <<d, k>> /\ dir'[d][k].ino = i
BY DEF Entries

LEMMA MakingCount ==
    ASSUME TypeOK, Rest, NEW p \in Procs, NEW r, Moves(p, r), Steady(p), NEW i
    PROVE  /\ Cardinality(Making(i)) \in Nat /\ Cardinality(Making(i)') \in Nat
           /\ Cardinality(Making(i)')
                = Cardinality(Making(i)) + B(p \in Making(i)') - B(p \in Making(i))
           /\ Cardinality(LinkPending(i)) \in Nat /\ Cardinality(LinkPending(i)') \in Nat
           /\ Cardinality(LinkPending(i)')
                = Cardinality(LinkPending(i)) + B(p \in LinkPending(i)')
                  - B(p \in LinkPending(i))
           /\ IsFiniteSet(Making(i)) /\ IsFiniteSet(Making(i)')
<1>1. IsFiniteSet(Making(i)) /\ IsFiniteSet(LinkPending(i))
    BY FiniteProcs DEF Making, LinkPending
<1>2. /\ Making(i)' \ {p} = Making(i) \ {p}
      /\ LinkPending(i)' \ {p} = LinkPending(i) \ {p}
    BY OthersMake
<1>3. PICK M, N : M = Making(i) /\ N = Making(i)'
    OBVIOUS
<1>4. PICK L, K : L = LinkPending(i) /\ K = LinkPending(i)'
    OBVIOUS
<1>5. /\ IsFiniteSet(N) /\ Cardinality(M) \in Nat /\ Cardinality(N) \in Nat
      /\ Cardinality(N) = Cardinality(M) + B(p \in N) - B(p \in M)
    BY <1>1, <1>2, <1>3, CardStep
<1>6. /\ IsFiniteSet(K) /\ Cardinality(L) \in Nat /\ Cardinality(K) \in Nat
      /\ Cardinality(K) = Cardinality(L) + B(p \in K) - B(p \in L)
    BY <1>1, <1>2, <1>4, CardStep
<1> QED
    BY <1>1, <1>3, <1>4, <1>5, <1>6

\* An inode has no more names than before, and none if it had none.
Less(i) == Tally(i)' \in Int /\ Tally(i)' <= Tally(i) /\ (Named(i)' => Named(i))

LEMMA TallyType ==
    ASSUME TypeOK, Rest, NEW i
    PROVE  /\ Cardinality(Entries(i)) \in Nat /\ Cardinality(Making(i)) \in Nat
           /\ Cardinality(LinkPending(i)) \in Nat /\ Tally(i) \in Int
           /\ IsFiniteSet(Entries(i)) /\ IsFiniteSet(Making(i)) /\ IsFiniteSet(LinkPending(i))
<1>1. /\ IsFiniteSet(Making(i)) /\ IsFiniteSet(LinkPending(i))
    BY FiniteProcs DEF Making, LinkPending
<1>2. /\ Cardinality(Making(i)) \in Nat /\ Cardinality(LinkPending(i)) \in Nat
    BY <1>1, FS_CardinalityType
<1>3. IsFiniteSet(Entries(i)) /\ Cardinality(Entries(i)) \in Nat
    BY EntriesFinite DEF Rest, Dirs
<1> QED
    BY <1>1, <1>2, <1>3 DEF Tally

\* p may have added the name it was about to add, or begun to owe a link.
LEMMA TallyLess ==
    ASSUME TypeOK, Rest, NEW p \in Procs, NEW r, Moves(p, r), Steady(p), NEW i,
           Entries(i)' \subseteq Entries(i),
           p \in Making(i)' => p \in Making(i),
           p \in LinkPending(i) => p \in LinkPending(i)'
    PROVE  Less(i)
<1>1. /\ Cardinality(Entries(i)) \in Nat /\ IsFiniteSet(Entries(i))
    BY TallyType
<1>2. Cardinality(Entries(i)') \in Nat /\ Cardinality(Entries(i)') <= Cardinality(Entries(i))
  <2>1. PICK E, F : E = Entries(i) /\ F = Entries(i)'
      OBVIOUS
  <2>2. IsFiniteSet(F) /\ Cardinality(F) <= Cardinality(E)
      BY <1>1, <2>1, FS_Subset
  <2> QED
      BY <2>1, <2>2, FS_CardinalityType
<1>3. /\ Cardinality(Making(i)) \in Nat /\ Cardinality(Making(i)') \in Nat
      /\ Cardinality(Making(i)')
           = Cardinality(Making(i)) + B(p \in Making(i)') - B(p \in Making(i))
      /\ Cardinality(LinkPending(i)) \in Nat /\ Cardinality(LinkPending(i)') \in Nat
      /\ Cardinality(LinkPending(i)')
           = Cardinality(LinkPending(i)) + B(p \in LinkPending(i)')
             - B(p \in LinkPending(i))
    BY MakingCount
<1>4. Tally(i)' \in Int /\ Tally(i)' <= Tally(i)
    BY <1>1, <1>2, <1>3 DEF Tally, B
<1>5. Making(i)' \ {p} = Making(i) \ {p}
    BY OthersMake
<1>6. Named(i)' => Named(i)
    BY <1>5 DEF Named
<1> QED
    BY <1>4, <1>6 DEF Less

-----------------------------------------------------------------------------
(* Inodes in core.                                                          *)

LEMMA OneInCore ==
    ASSUME TypeOK, Rest, NEW i \in Ino, NEW s \in Slots, inode[s].num = i
    PROVE  /\ \A x \in Slots : inode[x].num = i => x = s
           /\ InCore(i) \subseteq {s}
           /\ inode[s].count # 0
<1>1. i # 0
    BY Sizes DEF Ino
<1>2. \A x \in Slots : inode[x].num = i => x = s
    BY <1>1 DEF Rest, Unique
<1>3. inode[s].count # 0
    BY <1>1 DEF Rest, SlotsFree, Free
<1> QED
    BY <1>2, <1>3 DEF InCore

LEMMA MovingStep ==
    ASSUME TypeOK, Rest, NEW p \in Procs, NEW r, Moves(p, r), NEW q \in Procs, q # p
    PROVE  /\ Moving(u'[q]) <=> Moving(u[q])
           /\ u'[q].pc = "iread" <=> u[q].pc = "iread"
           /\ Moving(u[q]) => u'[q].slot = u[q].slot
<1>1. Fits(u[q], cdir[q]) /\ Woken(u[q], u'[q])
    BY Fitting DEF Moves
<1>2. \/ u'[q] = u[q]
      \/ u[q].pc = "isleep" /\ u'[q].pc = "iget"
      \/ u[q].pc = "ilock" /\ u'[q].pc = "ialloc"
      \/ u[q].pc = "exwait" /\ u'[q].pc = "got" /\ u[q].call = "exec"
    BY <1>1, WokenFields
<1> QED
    BY <1>2 DEF Moving

LEMMA CoreSame ==
    ASSUME TypeOK, Rest, NEW p \in Procs, NEW r, Moves(p, r), u[p].pc # "iread",
           r.pc # "iread", NEW i, \A s \in Slots : inode'[s].num = i <=> inode[s].num = i
    PROVE  InCore(i)' = InCore(i)
<1>1. ASSUME NEW q \in Procs
      PROVE  /\ u'[q].pc = "iread" <=> u[q].pc = "iread"
             /\ u[q].pc = "iread" => u'[q].slot = u[q].slot
  <2>1. CASE q = p
      BY <2>1 DEF Moves
  <2>2. CASE q # p
      BY <2>2, MovingStep DEF Moving
  <2> QED
      BY <2>1, <2>2
<1> QED
    BY <1>1 DEF InCore

LinkedAt(i) == /\ \A s \in InCore(i) : Backs(i, inode[s].mode, inode[s].nlink)
               /\ InCore(i) = {} => Backs(i, dino[i].mode, dino[i].nlink)

LEMMA BacksLess ==
    ASSUME TypeOK, Rest, NEW i, Less(i), NEW m, NEW n \in Int, Backs(i, m, n)
    PROVE  Tally(i)' <= n /\ (Named(i)' => m # "none")
<1>1. Tally(i) \in Int
    BY TallyType
<1> QED
    BY <1>1 DEF Less, Backs

LEMMA LinkedKept ==
    ASSUME TypeOK, Rest, NEW i \in Ino, LinkedAt(i), Less(i),
           InCore(i)' = InCore(i),
           \A s \in InCore(i) : inode'[s].mode = inode[s].mode
              /\ inode'[s].nlink = inode[s].nlink,
           dino'[i] = dino[i] \/ InCore(i) # {}
    PROVE  LinkedAt(i)'
<1>1. dino[i].nlink \in Int /\ \A s \in Slots : inode[s].nlink \in Int
    BY DEF TypeOK
<1>2. \A s \in InCore(i) : Tally(i)' <= inode[s].nlink /\ (Named(i)' => inode[s].mode # "none")
  <2>1. TAKE s \in InCore(i)
  <2>2. s \in Slots /\ Backs(i, inode[s].mode, inode[s].nlink)
      BY DEF LinkedAt, InCore
  <2> QED
      BY <1>1, <2>2, BacksLess
<1>3. InCore(i) = {} => Tally(i)' <= dino[i].nlink /\ (Named(i)' => dino[i].mode # "none")
    BY <1>1, BacksLess DEF LinkedAt
<1> QED
    BY <1>2, <1>3 DEF LinkedAt, Backs

-----------------------------------------------------------------------------
(* Steps that leave names and links alone.                                  *)

\* From r to r2 a process makes the same name and owes the same link.
Still(r, r2) ==
    /\ Makes(r2) <=> Makes(r)
    /\ Pends(r2) <=> Pends(r)
    /\ Makes(r) \/ Pends(r) => r2.ip = r.ip

\* Numbers, modes and links stay; p may mark the inodes it has.
Plain(p) ==
    \A s \in Slots :
       /\ inode'[s].num = inode[s].num /\ inode'[s].mode = inode[s].mode
       /\ inode'[s].nlink = inode[s].nlink
       /\ inode'[s].upd = inode[s].upd \/ (inode'[s].upd /\ Has(p, s))

\* An inode that has been read may go to the disk.
Written ==
    \/ dino' = dino
    \/ \E x \in Slots : /\ inode[x].num # 0 /\ Iupdat(x)
                        /\ \A q \in Procs : u[q].pc = "iread" => u[q].slot # x

LEMMA PlainSteady ==
    ASSUME TypeOK, Rest, NEW p \in Procs, Plain(p) PROVE Steady(p)
<1>1. ASSUME NEW q \in Procs, q # p, NEW x \in Slots, Sole(u[q]), u[q].slot = x
      PROVE  ~Has(p, x)
    BY <1>1, NobodyElse
<1> QED
    BY <1>1 DEF Plain, Steady

LEMMA FitSlots ==
    ASSUME NEW r, NEW c, Fits(r, c)
    PROVE  /\ r.pc \in {"comp", "scan", "got", "iread", "uget", "itrunc"} => r.slot \in Slots
           /\ r.pc \in {"chdir", "uwrite"} \/ (r.pc \in Putting /\ r.ret = "chdir")
                => r.ip \in Slots
           /\ r.ip # 0 => r.ip \in Slots
<1>1. Holding(r) /\ r.slot \in 0..NINODE /\ r.ip \in 0..NINODE
    BY DEF Fits, URec
<1>2. \A x \in 0..NINODE : x # 0 => x \in Slots
    BY Sizes DEF Slots
<1> QED
    BY <1>1, <1>2 DEF Holding, WithSlot, WithIp

\* A process that relies on the same inodes as before may.
LEMMA AptKept ==
    ASSUME NEW r, NEW c \in Slots, Fits(r, c), NEW t, NEW t2, Found(t, r, c), Asked(t, r, c),
           \A s \in Slots : t2[s].num = t[s].num /\ t2[s].mode = t[s].mode
                            /\ t2[s].nlink = t[s].nlink,
           r.pc # "iread"
    PROVE  Found(t2, r, c) /\ Asked(t2, r, c)
<1>1. /\ r.pc \in {"comp", "scan", "got", "iread", "uget", "itrunc"} => r.slot \in Slots
      /\ r.pc \in {"chdir", "uwrite"} \/ (r.pc \in Putting /\ r.ret = "chdir")
           => r.ip \in Slots
      /\ r.ip # 0 => r.ip \in Slots
    BY FitSlots
<1>2. Found(t2, r, c)
    BY <1>1 DEF Found
<1>3. Asked(t2, r, c)
    BY <1>1 DEF Asked
<1> QED
    BY <1>2, <1>3

LEMMA WrittenKept ==
    ASSUME TypeOK, Rest, Written, NEW i \in Ino
    PROVE  dino'[i] = dino[i] \/ InCore(i) # {}
<1>1. ASSUME NEW x \in Slots, inode[x].num # 0, Iupdat(x),
             \A q \in Procs : u[q].pc = "iread" => u[q].slot # x
      PROVE  dino'[i] = dino[i] \/ InCore(i) # {}
  <2>1. CASE inode[x].num = i
    <3>1. x \in InCore(i)
        BY <1>1, <2>1 DEF InCore
    <3> QED
        BY <3>1
  <2>2. CASE inode[x].num # i
    <3>1. dino'[i] = dino[i]
        BY <1>1, <2>2 DEF Iupdat, TypeOK
    <3> QED
        BY <3>1
  <2> QED
      BY <2>1, <2>2
<1> QED
    BY <1>1 DEF Written

LEMMA WrittenClean ==
    ASSUME TypeOK, Rest, Written, NEW s \in Slots, inode[s].num # 0,
           /\ dino[inode[s].num].mode = inode[s].mode
           /\ dino[inode[s].num].nlink = inode[s].nlink
    PROVE  /\ dino'[inode[s].num].mode = inode[s].mode
           /\ dino'[inode[s].num].nlink = inode[s].nlink
<1>1. inode[s].num \in Ino
    BY Sizes DEF TypeOK, Ino
<1>2. ASSUME NEW x \in Slots, inode[x].num # 0, Iupdat(x)
      PROVE  /\ dino'[inode[s].num].mode = inode[s].mode
             /\ dino'[inode[s].num].nlink = inode[s].nlink
  <2>1. CASE x = s
      BY <1>1, <1>2, <2>1 DEF Iupdat, TypeOK
  <2>2. CASE x # s
    <3>1. inode[x].num # inode[s].num
        BY <1>2, <2>2 DEF Rest, Unique
    <3>2. dino'[inode[s].num] = dino[inode[s].num]
        BY <1>1, <1>2, <3>1 DEF Iupdat, TypeOK
    <3> QED
        BY <3>2
  <2> QED
      BY <2>1, <2>2
<1> QED
    BY <1>2 DEF Written

LEMMA QuietLinks ==
    ASSUME TypeOK, Rest, Rest', Linkage, NEW p \in Procs, NEW r, Moves(p, r), Plain(p),
           dir' = dir, Written, Still(u[p], r), ~Moving(u[p]), r.pc # "iread",
           NEW c \in Slots, c = cdir'[p], Found(inode, r, c), Asked(inode, r, c)
    PROVE  Linkage'
<1>1. Steady(p) /\ u'[p] = r
    BY PlainSteady DEF Moves
<1>2. \A s \in Slots :
         /\ inode'[s].num = inode[s].num /\ inode'[s].mode = inode[s].mode
         /\ inode'[s].nlink = inode[s].nlink
    BY DEF Plain
<1>3. Linked'
  <2>1. ASSUME NEW i \in Ino PROVE LinkedAt(i)'
    <3>1. Entries(i)' \subseteq Entries(i)
        BY DEF Entries
    <3>2. /\ Makes(u[p]) => u[p].ip \in Slots
          /\ Pends(u[p]) => u[p].ip \in Slots
        BY Having DEF Makes, Pends
    <3>3. /\ p \in Making(i)' => p \in Making(i)
          /\ p \in LinkPending(i) => p \in LinkPending(i)'
      <4>1. /\ p \in Making(i) <=> Makes(u[p]) /\ inode[u[p].ip].num = i
            /\ p \in Making(i)' <=> Makes(r) /\ inode'[r.ip].num = i
            /\ p \in LinkPending(i) <=> Pends(u[p]) /\ inode[u[p].ip].num = i
            /\ p \in LinkPending(i)' <=> Pends(r) /\ inode'[r.ip].num = i
          BY <1>1 DEF Making, LinkPending, Pends
      <4> QED
          BY <1>2, <3>2, <4>1 DEF Still
    <3>4. Less(i)
        BY <1>1, <3>1, <3>3, TallyLess
    <3>5. InCore(i)' = InCore(i)
        BY <1>2, CoreSame DEF Moving
    <3>6. dino'[i] = dino[i] \/ InCore(i) # {}
        BY WrittenKept
    <3>7. \A s \in InCore(i) : inode'[s].mode = inode[s].mode
             /\ inode'[s].nlink = inode[s].nlink
        BY <1>2 DEF InCore
    <3>8. LinkedAt(i)
        BY DEF Linkage, Linked, LinkedAt
    <3> QED
        BY <3>4, <3>5, <3>6, <3>7, <3>8, LinkedKept
  <2> QED
      BY <2>1 DEF Linked, LinkedAt
<1>4. Clean'
  <2>1. ASSUME NEW s \in Slots, inode'[s].num # 0, ~inode'[s].upd,
               \A q \in Procs : Moving(u'[q]) => u'[q].slot # s
        PROVE  /\ dino'[inode'[s].num].mode = inode'[s].mode
               /\ dino'[inode'[s].num].nlink = inode'[s].nlink
    <3>1. inode[s].num # 0 /\ ~inode[s].upd
        BY <1>2, <2>1 DEF Plain
    <3>2. \A q \in Procs : Moving(u[q]) => u[q].slot # s
        BY <2>1, MovingStep
    <3>3. /\ dino[inode[s].num].mode = inode[s].mode
          /\ dino[inode[s].num].nlink = inode[s].nlink
        BY <3>1, <3>2 DEF Linkage, Clean
    <3> QED
        BY <1>2, <3>1, <3>3, WrittenClean
  <2> QED
      BY <2>1 DEF Clean
<1>5. Apt'
  <2>1. Found(inode', r, c) /\ Asked(inode', r, c)
    <3>1. Fits(r, c)
        BY <1>1 DEF Rest, Users
    <3> QED
        BY <1>2, <3>1, AptKept
  <2>2. \A q \in Procs : q # p =>
            Found(inode', u'[q], cdir'[q]) /\ Asked(inode', u'[q], cdir'[q])
      BY <1>1, OthersApt DEF Linkage
  <2> QED
      BY <1>1, <2>1, <2>2 DEF Apt
<1>6. Rooted'
  <2>1. 1 \in Slots
      BY NamesAssumption DEF Slots
  <2> QED
      BY <1>2, <2>1 DEF Linkage, Rooted
<1> QED
    BY <1>3, <1>4, <1>5, <1>6 DEF Linkage

\* From r to r2 a process relies on nothing new.
Easy(r, r2) ==
    /\ r2.call = r.call \/ r2.call # "link"
    /\ r2.pc \in {"comp", "scan", "got"} => r.pc \in {"comp", "scan", "got"} /\ r2.slot = r.slot
    /\ r2.ip \in {0, r.ip}
    /\ r2.pc = "chdir" \/ (r2.pc \in Putting /\ r2.ret = "chdir") =>
          r2.ip = r.ip /\ r.pc \in Putting /\ r.ret = "chdir"
    /\ Departs(r) => Departs(r2)
    /\ r2.pc \in Fetching /\ r2.ret = "comp" /\ r2.from = <<>> =>
          r.pc \in Fetching /\ r.ret = "comp" /\ r.from = <<>> /\ r2.ino = r.ino
    /\ r2.pc \in Fetching /\ r2.ret = "uget" => r2.call = "unlink"
    /\ r2.pc \notin {"iread", "uget", "uwrite", "itrunc"}

LEMMA EasyApt ==
    ASSUME NEW t, NEW c, NEW r, NEW r2, Found(t, r, c), Asked(t, r, c), Easy(r, r2)
    PROVE  Found(t, r2, c) /\ Asked(t, r2, c)
<1>1. Found(t, r2, c)
    BY DEF Easy, Found
<1>2. Asked(t, r2, c)
    BY DEF Easy, Asked
<1> QED
    BY <1>1, <1>2

LEMMA EasyLinks ==
    ASSUME TypeOK, Rest, Rest', Linkage, NEW p \in Procs, NEW r, Moves(p, r), Plain(p),
           dir' = dir, Written, cdir' = cdir, ~Moving(u[p]), Still(u[p], r), Easy(u[p], r)
    PROVE  Linkage'
<1>1. cdir[p] \in Slots /\ Found(inode, u[p], cdir[p]) /\ Asked(inode, u[p], cdir[p])
    BY Fitting DEF Linkage, Apt
<1>2. Found(inode, r, cdir[p]) /\ Asked(inode, r, cdir[p])
    BY <1>1, EasyApt
<1>3. r.pc # "iread"
    BY DEF Easy
<1> QED
    BY <1>1, <1>2, <1>3, QuietLinks

-----------------------------------------------------------------------------
(* The calls up to the change of a directory.                               *)

Light(r, r2) == Still(r, r2) /\ Easy(r, r2)

LEMMA GoLinks ==
    ASSUME TypeOK, Rest, Rest', Linkage, NEW p \in Procs, NEW r, Go(p, r), Plain(p),
           dir' = dir, Written, cdir' = cdir, ~Moving(u[p]), Light(u[p], r)
    PROVE  Linkage'
BY Fitting, GoMoves, EasyLinks DEF Light

LEMMA WakeLinks ==
    ASSUME TypeOK, Rest, Rest', Linkage, NEW p \in Procs, NEW r, NEW s, GoAndWake(p, s, r),
           Plain(p), dir' = dir, Written, cdir' = cdir, ~Moving(u[p]), Light(u[p], r)
    PROVE  Linkage'
BY Fitting, WakeMoves, EasyLinks DEF Light

LEMMA PlainSame ==
    ASSUME NEW p \in Procs, inode' = inode PROVE Plain(p)
BY DEF Plain

\* p marks an inode that it has.
LEMMA MarkPlain ==
    ASSUME TypeOK, NEW p \in Procs, NEW s \in Slots, Has(p, s), NEW b \in BOOLEAN,
           inode[s].upd => b, inode' = [inode EXCEPT ![s].upd = b]
    PROVE  Plain(p)
<1>1. inode \in [Slots -> IRec]
    BY DEF TypeOK, IRec
<1>2. \A x \in Slots : x # s => inode'[x] = inode[x]
    BY <1>1
<1>3. /\ inode'[s].num = inode[s].num /\ inode'[s].mode = inode[s].mode
      /\ inode'[s].nlink = inode[s].nlink /\ inode'[s].upd = b
    BY <1>1 DEF IRec
<1>4. inode[s].upd \in BOOLEAN
    BY <1>1 DEF IRec
<1> QED
    BY <1>2, <1>3, <1>4 DEF Plain

\* namei, or its caller, gives up.
LEMMA LightGiveUp ==
    ASSUME NEW c, NEW r, Fits(r, c), r.pc \in {"comp", "scan", "got", "open1", "stat"},
           NEW r2, r2 = GiveUp(r)
    PROVE  Light(r, r2)
<1>1. r \in URec /\ Going(r, c)
    BY DEF Fits
<1>2. PICK l \in {"user", "last"} : l = IF r.ip # 0 THEN "last" ELSE "user"
    OBVIOUS
<1>3. /\ r2.pc = "iput" /\ r2.call = r.call /\ r2.ip = r.ip /\ r2.ret = l
    BY <1>1, <1>2 DEF GiveUp, CallIput, URec
<1> QED
    BY <1>1, <1>2, <1>3 DEF Light, Still, Easy, Makes, Pends, Departs, Fetching, Putting,
       Going

LEMMA CompLinks ==
    ASSUME TypeOK, Rest, Rest', Linkage, NEW p \in Procs, Comp(p) PROVE Linkage'
<1>1. /\ u[p].pc = "comp" /\ Plain(p) /\ dir' = dir /\ Written /\ cdir' = cdir
    BY PlainSame DEF Comp, At, Written, files
<1>2. Fits(u[p], cdir[p]) /\ u[p] \in URec /\ Going(u[p], cdir[p])
    BY Fitting
<1>3. ASSUME NEW k \in {"got", "scan"}, Go(p, [u[p] EXCEPT !.pc = k]) PROVE Linkage'
  <2>1. PICK r : r = [u[p] EXCEPT !.pc = k]
      OBVIOUS
  <2>2. /\ r.pc = k /\ r.call = u[p].call /\ r.ip = u[p].ip /\ r.ret = u[p].ret
        /\ r.slot = u[p].slot
      BY <1>2, <2>1 DEF URec
  <2>3. Light(u[p], r)
      BY <1>1, <1>2, <1>3, <2>2 DEF Light, Still, Easy, Makes, Pends, Departs, Fetching,
         Putting, Going
  <2> QED
      BY <1>1, <1>3, <2>1, <2>3, GoLinks DEF Moving
<1>4. ASSUME Go(p, GiveUp(u[p])) PROVE Linkage'
  <2>1. PICK r : r = GiveUp(u[p])
      OBVIOUS
  <2> QED
      BY <1>1, <1>2, <1>4, <2>1, LightGiveUp, GoLinks DEF Moving
<1> QED
    BY <1>3, <1>4 DEF Comp

LEMMA ScanFoundLinks ==
    ASSUME TypeOK, Rest, Rest', Linkage, NEW p \in Procs, ScanFound(p) PROVE Linkage'
<1>1. /\ u[p].pc = "scan" /\ Plain(p) /\ dir' = dir /\ Written /\ cdir' = cdir
    BY PlainSame DEF ScanFound, At, Written, files
<1>2. Fits(u[p], cdir[p]) /\ u[p] \in URec /\ Going(u[p], cdir[p])
    BY Fitting
<1>3. ASSUME NEW f, NEW i, NEW P, f # <<>>, NEW r0,
             r0 = [u[p] EXCEPT !.from = f, !.ino = i, !.path = P],
             Go(p, [r0 EXCEPT !.pc = "got"]) \/ Go(p, CallIput(r0, u[p].slot, "iget"))
      PROVE  Linkage'
  <2>1. /\ [r0 EXCEPT !.pc = "got"]
             = [u[p] EXCEPT !.from = f, !.ino = i, !.path = P, !.pc = "got"]
        /\ CallIput(r0, u[p].slot, "iget")
             = [u[p] EXCEPT !.from = f, !.ino = i, !.path = P, !.pc = "iput",
                            !.slot = u[p].slot, !.ret = "iget"]
      BY <1>2, <1>3 DEF URec, CallIput
  <2>2. PICK r : /\ Go(p, r)
                 /\ \/ r = [u[p] EXCEPT !.from = f, !.ino = i, !.path = P, !.pc = "got"]
                    \/ r = [u[p] EXCEPT !.from = f, !.ino = i, !.path = P, !.pc = "iput",
                                        !.slot = u[p].slot, !.ret = "iget"]
      BY <1>3, <2>1
  <2>3. /\ r.call = u[p].call /\ r.ip = u[p].ip /\ r.slot = u[p].slot
        /\ (r.pc = "got" /\ r.ret = u[p].ret) \/ (r.pc = "iput" /\ r.ret = "iget")
    <3>1. ASSUME r = [u[p] EXCEPT !.from = f, !.ino = i, !.path = P, !.pc = "got"]
          PROVE  /\ r.call = u[p].call /\ r.ip = u[p].ip /\ r.slot = u[p].slot
                 /\ r.pc = "got" /\ r.ret = u[p].ret
        BY <1>2, <3>1 DEF URec
    <3>2. ASSUME r = [u[p] EXCEPT !.from = f, !.ino = i, !.path = P, !.pc = "iput",
                                  !.slot = u[p].slot, !.ret = "iget"]
          PROVE  /\ r.call = u[p].call /\ r.ip = u[p].ip /\ r.slot = u[p].slot
                 /\ r.pc = "iput" /\ r.ret = "iget"
        BY <1>2, <3>2 DEF URec
    <3> QED
        BY <2>2, <3>1, <3>2
  <2>4. Light(u[p], r)
      BY <1>1, <1>2, <2>3 DEF Light, Still, Easy, Makes, Pends, Departs, Fetching, Putting,
         Going
  <2> QED
      BY <1>1, <2>2, <2>4, GoLinks DEF Moving
<1>4. ASSUME Go(p, GiveUp(u[p])) PROVE Linkage'
  <2>1. PICK r : r = GiveUp(u[p])
      OBVIOUS
  <2> QED
      BY <1>1, <1>2, <1>4, <2>1, LightGiveUp, GoLinks DEF Moving
<1>5. PICK f, i, P, r0 :
         /\ f # <<>> /\ r0 = [u[p] EXCEPT !.from = f, !.ino = i, !.path = P]
         /\ \/ Go(p, [r0 EXCEPT !.pc = "got"]) \/ Go(p, CallIput(r0, u[p].slot, "iget"))
            \/ Go(p, GiveUp(u[p]))
  <2> DEFINE d == inode[u[p].slot].num
             k == FirstOf(Matches(d, Head(u[p].path)))
             hit == [u[p] EXCEPT !.from = <<d, k>>, !.ino = dir[d][k].ino, !.path = Tail(@)]
  <2>1. \/ Go(p, [hit EXCEPT !.pc = "got"]) \/ Go(p, CallIput(hit, u[p].slot, "iget"))
        \/ Go(p, GiveUp(u[p]))
      BY DEF ScanFound
  <2>2. hit = [u[p] EXCEPT !.from = <<d, k>>, !.ino = dir[d][k].ino, !.path = Tail(u[p].path)]
      OBVIOUS
  <2>3. <<d, k>> # <<>>
      OBVIOUS
  <2> QED
      BY <2>1, <2>2, <2>3
<1> QED
    BY <1>3, <1>4, <1>5

LEMMA ScanMissingLinks ==
    ASSUME TypeOK, Rest, Rest', Linkage, NEW p \in Procs, ScanMissing(p) PROVE Linkage'
<1>1. /\ u[p].pc = "scan" /\ dir' = dir /\ Written /\ cdir' = cdir
    BY DEF ScanMissing, At, Written, files
<1>2. Fits(u[p], cdir[p]) /\ u[p] \in URec /\ Going(u[p], cdir[p])
    BY Fitting
<1>3. PICK s \in Slots : s = u[p].slot /\ Has(p, s)
    BY <1>1, Having
<1>4. ASSUME NEW o, NEW b \in BOOLEAN, inode' = [inode EXCEPT ![s].upd = inode[s].upd \/ b],
             Go(p, [u[p] EXCEPT !.pc = IF u[p].call = "link" THEN "wdir" ELSE "ialloc",
                                !.off = o, !.pdir = u[p].slot, !.slot = 0])
      PROVE  Linkage'
  <2>1. PICK k \in {"wdir", "ialloc"} :
            k = (IF u[p].call = "link" THEN "wdir" ELSE "ialloc")
      OBVIOUS
  <2>2. PICK r : r = [u[p] EXCEPT !.pc = k, !.off = o, !.pdir = u[p].slot, !.slot = 0]
      OBVIOUS
  <2>3. /\ r.pc = k /\ r.call = u[p].call /\ r.ip = u[p].ip /\ r.ret = u[p].ret
      BY <1>2, <2>2 DEF URec
  <2>4. Light(u[p], r)
      BY <1>1, <1>2, <2>1, <2>3 DEF Light, Still, Easy, Makes, Pends, Departs, Fetching,
         Putting, Going
  <2>5. Plain(p)
    <3>1. PICK m \in BOOLEAN : m = (inode[s].upd \/ b)
        OBVIOUS
    <3> QED
        BY <1>3, <1>4, <3>1, MarkPlain
  <2> QED
      BY <1>1, <1>4, <2>1, <2>2, <2>4, <2>5, GoLinks DEF Moving
<1>5. ASSUME Go(p, GiveUp(u[p])), inode' = inode PROVE Linkage'
  <2>1. PICK r : r = GiveUp(u[p])
      OBVIOUS
  <2> QED
      BY <1>1, <1>2, <1>5, <2>1, LightGiveUp, PlainSame, GoLinks DEF Moving
<1>6. \/ Go(p, GiveUp(u[p])) /\ inode' = inode
      \/ \E o : \E b \in BOOLEAN :
            /\ inode' = [inode EXCEPT ![s].upd = inode[s].upd \/ b]
            /\ Go(p, [u[p] EXCEPT !.pc = IF u[p].call = "link" THEN "wdir" ELSE "ialloc",
                                  !.off = o, !.pdir = u[p].slot, !.slot = 0])
  <2> DEFINE d == inode[u[p].slot].num
             empty == {k \in DOMAIN dir[d] : dir[d][k].ino = 0}
             off == IF empty = {} THEN Len(dir[d]) + 1 ELSE FirstOf(empty)
  <2>1. PICK b \in BOOLEAN : b = (empty = {})
      OBVIOUS
  <2>2. \/ Go(p, GiveUp(u[p])) /\ inode' = inode
        \/ /\ inode' = [inode EXCEPT ![u[p].slot].upd = inode[u[p].slot].upd \/ empty = {}]
           /\ Go(p, [u[p] EXCEPT !.pc = IF u[p].call = "link" THEN "wdir" ELSE "ialloc",
                                 !.off = off, !.pdir = u[p].slot, !.slot = 0])
      BY DEF ScanMissing
  <2> HIDE DEF off, empty
  <2> QED
      BY <1>3, <2>1, <2>2
<1> QED
    BY <1>4, <1>5, <1>6

LEMMA LightIdle ==
    ASSUME NEW c, NEW r, Fits(r, c),
           r.pc \notin Putting \cup {"wdir", "wdone", "dead", "chdir"}
    PROVE  Light(r, Idle)
BY DEF Fits, Going, Idle, Light, Still, Easy, Makes, Pends, Departs, Fetching

\* r2 is r at another place, with the same slot.
LEMMA LightPlace ==
    ASSUME NEW c, NEW r, NEW r2, Fits(r, c), r2.call = r.call, r2.ip = r.ip, r2.ret = r.ret,
           r2.slot = r.slot, r.pc \notin Putting \cup {"wdir", "wdone", "dead", "chdir"},
           r2.pc \in {"got", "open1", "trunc", "stat", "exwait", "exbuf", "ialloc", "ilock",
                      "iloop", "ifill"},
           r2.pc = "got" => r.pc \in {"comp", "scan"}
    PROVE  Light(r, r2)
BY DEF Fits, Going, Light, Still, Easy, Makes, Pends, Departs, Fetching, Putting

LEMMA IallocEnterLinks ==
    ASSUME TypeOK, Rest, Rest', Linkage, NEW p \in Procs, IallocEnter(p) PROVE Linkage'
<1>1. /\ u[p].pc = "ialloc" /\ Plain(p) /\ dir' = dir /\ Written /\ cdir' = cdir
    BY PlainSame DEF IallocEnter, At, Written, files
<1>2. Fits(u[p], cdir[p]) /\ u[p] \in URec
    BY Fitting
<1>3. PICK k \in {"ilock", "iloop"} : Go(p, [u[p] EXCEPT !.pc = k])
    BY DEF IallocEnter
<1>4. PICK r : r = [u[p] EXCEPT !.pc = k]
    OBVIOUS
<1>5. /\ r.pc = k /\ r.call = u[p].call /\ r.ip = u[p].ip /\ r.ret = u[p].ret
      /\ r.slot = u[p].slot
    BY <1>2, <1>4 DEF URec
<1>6. Light(u[p], r)
    BY <1>1, <1>2, <1>3, <1>5, LightPlace DEF Putting
<1> QED
    BY <1>1, <1>3, <1>4, <1>6, GoLinks DEF Moving

LEMMA IallocPopLinks ==
    ASSUME TypeOK, Rest, Rest', Linkage, NEW p \in Procs, IallocPop(p) PROVE Linkage'
<1>1. /\ u[p].pc = "iloop" /\ Plain(p) /\ dir' = dir /\ Written /\ cdir' = cdir
    BY PlainSame DEF IallocPop, At, Written, files
<1>2. Fits(u[p], cdir[p]) /\ u[p] \in URec /\ Going(u[p], cdir[p])
    BY Fitting
<1>3. PICK i, r : Go(p, r) /\ r = CallIget([u[p] EXCEPT !.from = <<>>], i, "igot")
    BY DEF IallocPop
<1>4. /\ r.pc = "iget" /\ r.call = u[p].call /\ r.ip = u[p].ip /\ r.ret = "igot"
    BY <1>2, <1>3 DEF URec, CallIget
<1>5. Light(u[p], r)
    BY <1>1, <1>2, <1>4 DEF Light, Still, Easy, Makes, Pends, Departs, Fetching, Putting,
       Going
<1> QED
    BY <1>1, <1>3, <1>5, GoLinks DEF Moving

LEMMA IallocEmptyLinks ==
    ASSUME TypeOK, Rest, Rest', Linkage, NEW p \in Procs, IallocEmpty(p) PROVE Linkage'
<1>1. /\ u[p].pc = "iloop" /\ Plain(p) /\ dir' = dir /\ Written /\ cdir' = cdir
      /\ Go(p, [u[p] EXCEPT !.pc = "ifill"])
    BY PlainSame DEF IallocEmpty, At, Written, files
<1>2. Fits(u[p], cdir[p]) /\ u[p] \in URec
    BY Fitting
<1>3. PICK r : r = [u[p] EXCEPT !.pc = "ifill"]
    OBVIOUS
<1>4. /\ r.pc = "ifill" /\ r.call = u[p].call /\ r.ip = u[p].ip /\ r.ret = u[p].ret
      /\ r.slot = u[p].slot
    BY <1>2, <1>3 DEF URec
<1>5. Light(u[p], r)
    BY <1>1, <1>2, <1>4, LightPlace DEF Putting
<1> QED
    BY <1>1, <1>3, <1>5, GoLinks DEF Moving

LEMMA IallocFillLinks ==
    ASSUME TypeOK, Rest, Rest', Linkage, NEW p \in Procs, IallocFill(p) PROVE Linkage'
<1>1. /\ u[p].pc = "ifill" /\ Plain(p) /\ dir' = dir /\ Written /\ cdir' = cdir
    BY PlainSame DEF IallocFill, At, Written, files
<1>2. Fits(u[p], cdir[p]) /\ u[p] \in URec
    BY Fitting
<1>3. PICK r : /\ r = Idle \/ r = [u[p] EXCEPT !.pc = "iloop"]
               /\ u' = [q \in Procs |->
                          IF q = p THEN r
                          ELSE IF u[q].pc = "ilock" THEN [u[q] EXCEPT !.pc = "ialloc"]
                          ELSE u[q]]
    BY DEF IallocFill
<1>4. Moves(p, r)
  <2>1. u'[p] = r /\ \A q \in Procs : q # p => Woken(u[q], u'[q])
      BY <1>3 DEF Woken
  <2> QED
      BY <1>1, <2>1 DEF Moves
<1>5. Light(u[p], r)
  <2>1. CASE r = Idle
      BY <1>1, <1>2, <2>1, LightIdle DEF Putting
  <2>2. CASE r = [u[p] EXCEPT !.pc = "iloop"]
    <3>1. /\ r.pc = "iloop" /\ r.call = u[p].call /\ r.ip = u[p].ip /\ r.ret = u[p].ret
          /\ r.slot = u[p].slot
        BY <1>2, <2>2 DEF URec
    <3> QED
        BY <1>1, <1>2, <3>1, LightPlace DEF Putting
  <2> QED
      BY <1>3, <2>1, <2>2
<1> QED
    BY <1>1, <1>4, <1>5, EasyLinks DEF Light, Moving

-----------------------------------------------------------------------------
(* The calls with a file.                                                   *)

LEMMA OpenGotLinks ==
    ASSUME TypeOK, Rest, Rest', Linkage, NEW p \in Procs, OpenGot(p) PROVE Linkage'
<1>1. /\ u[p].pc = "got" /\ Plain(p) /\ dir' = dir /\ Written /\ cdir' = cdir
    BY PlainSame DEF OpenGot, At, Written, files
<1>2. Fits(u[p], cdir[p]) /\ u[p] \in URec
    BY Fitting
<1>3. ASSUME NEW k \in {"open1", "trunc"}, Go(p, [u[p] EXCEPT !.pc = k]) PROVE Linkage'
  <2>1. PICK r : r = [u[p] EXCEPT !.pc = k]
      OBVIOUS
  <2>2. /\ r.pc = k /\ r.call = u[p].call /\ r.ip = u[p].ip /\ r.ret = u[p].ret
        /\ r.slot = u[p].slot
      BY <1>2, <2>1 DEF URec
  <2>3. Light(u[p], r)
      BY <1>1, <1>2, <1>3, <2>2, LightPlace DEF Putting
  <2> QED
      BY <1>1, <1>3, <2>1, <2>3, GoLinks DEF Moving
<1>4. ASSUME Go(p, GiveUp(u[p])) PROVE Linkage'
  <2>1. PICK r : r = GiveUp(u[p])
      OBVIOUS
  <2> QED
      BY <1>1, <1>2, <1>4, <2>1, LightGiveUp, GoLinks DEF Moving
<1> QED
    BY <1>3, <1>4 DEF OpenGot

LEMMA Open1TruncLinks ==
    ASSUME TypeOK, Rest, Rest', Linkage, NEW p \in Procs, Open1Trunc(p) PROVE Linkage'
<1>1. /\ u[p].pc = "trunc" /\ dir' = dir /\ Written /\ cdir' = cdir
      /\ Go(p, [u[p] EXCEPT !.pc = "open1"])
    BY DEF Open1Trunc, At, Written, files
<1>2. Fits(u[p], cdir[p]) /\ u[p] \in URec
    BY Fitting
<1>3. PICK r : r = [u[p] EXCEPT !.pc = "open1"]
    OBVIOUS
<1>4. /\ r.pc = "open1" /\ r.call = u[p].call /\ r.ip = u[p].ip /\ r.ret = u[p].ret
      /\ r.slot = u[p].slot
    BY <1>2, <1>3 DEF URec
<1>5. Light(u[p], r)
    BY <1>1, <1>2, <1>4, LightPlace DEF Putting
<1>6. Plain(p)
  <2>1. PICK s \in Slots : s = u[p].slot /\ Has(p, s)
      BY <1>1, Having
  <2>2. PICK b \in BOOLEAN : b = (inode[s].upd \/ inode[s].mode # "spec")
      OBVIOUS
  <2>3. inode' = [inode EXCEPT ![s].upd = b]
      BY <2>1, <2>2 DEF Open1Trunc
  <2> QED
      BY <2>1, <2>2, <2>3, MarkPlain
<1> QED
    BY <1>1, <1>3, <1>5, <1>6, GoLinks DEF Moving

LEMMA UnlockPlain ==
    ASSUME TypeOK, NEW p \in Procs, NEW s, inode' = Unlock(inode, s) PROVE Plain(p)
<1>1. inode \in [Slots -> IRec]
    BY DEF TypeOK, IRec
<1>2. \A x \in Slots : /\ inode'[x].num = inode[x].num /\ inode'[x].mode = inode[x].mode
                       /\ inode'[x].nlink = inode[x].nlink /\ inode'[x].upd = inode[x].upd
    BY <1>1 DEF Unlock, IRec
<1> QED
    BY <1>2 DEF Plain

LEMMA Open1Links ==
    ASSUME TypeOK, Rest, Rest', Linkage, NEW p \in Procs, Open1(p) PROVE Linkage'
<1>1. /\ u[p].pc = "open1" /\ Plain(p) /\ dir' = dir /\ Written /\ cdir' = cdir
    BY UnlockPlain DEF Open1, At, Written
<1>2. Fits(u[p], cdir[p])
    BY Fitting
<1>3. PICK r : r \in {Idle, GiveUp(u[p])} /\ GoAndWake(p, u[p].slot, r)
    BY DEF Open1
<1>4. Light(u[p], r)
    BY <1>1, <1>2, <1>3, LightIdle, LightGiveUp DEF Putting
<1> QED
    BY <1>1, <1>3, <1>4, WakeLinks DEF Moving

\* p puts an inode.
LEMMA LightPut ==
    ASSUME NEW c, NEW r, NEW r2, Fits(r, c),
           r.pc \notin Putting \cup {"wdir", "wdone", "dead", "chdir"},
           r2.call = r.call, r2.ip \in {0, r.ip}, r2.pc = "iput",
           r2.ret \in {"user", "last", "iget", "iloop", "exdone", "closed", "dead"}
    PROVE  Light(r, r2)
BY DEF Fits, Going, Light, Still, Easy, Makes, Pends, Departs, Fetching, Putting

LEMMA ChdirGotLinks ==
    ASSUME TypeOK, Rest, Rest', Linkage, NEW p \in Procs, ChdirGot(p) PROVE Linkage'
<1>1. /\ u[p].pc = "got" /\ Plain(p) /\ dir' = dir /\ Written /\ cdir' = cdir
      /\ u[p].call = "chdir"
    BY PlainSame DEF ChdirGot, At, Written, files
<1>2. /\ Fits(u[p], cdir[p]) /\ u[p] \in URec /\ cdir[p] \in Slots /\ Users
      /\ Going(u[p], cdir[p])
    BY Fitting
<1>3. ASSUME inode[u[p].slot].mode = "dir",
             Go(p, CallIput([u[p] EXCEPT !.ip = u[p].slot], cdir[p], "chdir"))
      PROVE  Linkage'
  <2>1. PICK r : r = CallIput([u[p] EXCEPT !.ip = u[p].slot], cdir[p], "chdir")
      OBVIOUS
  <2>2. /\ r.pc = "iput" /\ r.call = "chdir" /\ r.ip = u[p].slot /\ r.ret = "chdir"
      BY <1>1, <1>2, <2>1 DEF URec, CallIput
  <2>3. Still(u[p], r)
      BY <1>1, <2>2 DEF Still, Makes, Pends
  <2>4. Found(inode, r, cdir[p]) /\ Asked(inode, r, cdir[p])
      BY <1>3, <2>2 DEF Found, Asked, Departs, Putting, Fetching
  <2>5. Moves(p, r)
      BY <1>1, <1>2, <1>3, <2>1, GoMoves
  <2> QED
      BY <1>1, <1>2, <2>2, <2>3, <2>4, <2>5, QuietLinks DEF Moving
<1>4. ASSUME Go(p, GiveUp(u[p])) PROVE Linkage'
  <2>1. PICK r : r = GiveUp(u[p])
      OBVIOUS
  <2> QED
      BY <1>1, <1>2, <1>4, <2>1, LightGiveUp, GoLinks DEF Moving
<1> QED
    BY <1>3, <1>4 DEF ChdirGot

LEMMA ChdirSetLinks ==
    ASSUME TypeOK, Rest, Rest', Linkage, NEW p \in Procs, ChdirSet(p) PROVE Linkage'
<1>1. /\ u[p].pc = "chdir" /\ Plain(p) /\ dir' = dir /\ Written
      /\ cdir' = [cdir EXCEPT ![p] = u[p].ip] /\ GoAndWake(p, u[p].ip, Idle)
    BY UnlockPlain DEF ChdirSet, At, Written
<1>2. /\ Fits(u[p], cdir[p]) /\ cdir \in [Procs -> Slots] /\ Users
      /\ Going(u[p], cdir[p])
    BY Fitting DEF TypeOK
<1>3. u[p].ip \in Slots /\ inode[u[p].ip].mode # "none"
    BY <1>1, <1>2, FitSlots DEF Linkage, Apt, Found
<1>4. /\ cdir'[p] = u[p].ip /\ \A q \in Procs : q # p => cdir'[q] = cdir[q]
    BY <1>1, <1>2
<1>5. Moves(p, Idle)
    BY <1>1, <1>2, <1>4, WakeMoves
<1>6. Still(u[p], Idle) /\ Idle.pc = "user"
    BY <1>1, <1>2 DEF Still, Makes, Pends, Idle, Going, Putting
<1>7. Found(inode, Idle, u[p].ip) /\ Asked(inode, Idle, u[p].ip)
    BY <1>3 DEF Found, Asked, Idle, Putting, Fetching
<1> QED
    BY <1>1, <1>3, <1>4, <1>5, <1>6, <1>7, QuietLinks DEF Moving

LEMMA StatGotLinks ==
    ASSUME TypeOK, Rest, Rest', Linkage, NEW p \in Procs, StatGot(p) PROVE Linkage'
<1>1. /\ u[p].pc = "got" /\ dir' = dir /\ Written /\ cdir' = cdir
    BY DEF StatGot, At, Written, files
<1>2. Fits(u[p], cdir[p]) /\ u[p] \in URec
    BY Fitting
<1>3. Plain(p)
  <2>1. u[p].slot \in Slots /\ Has(p, u[p].slot)
      BY <1>1, Having
  <2> QED
      BY <2>1, PlainSame, MarkPlain DEF StatGot
<1>4. ASSUME Go(p, [u[p] EXCEPT !.pc = "stat"]) PROVE Linkage'
  <2>1. PICK r : r = [u[p] EXCEPT !.pc = "stat"]
      OBVIOUS
  <2>2. /\ r.pc = "stat" /\ r.call = u[p].call /\ r.ip = u[p].ip /\ r.ret = u[p].ret
        /\ r.slot = u[p].slot
      BY <1>2, <2>1 DEF URec
  <2>3. Light(u[p], r)
      BY <1>1, <1>2, <2>2, LightPlace DEF Putting
  <2> QED
      BY <1>1, <1>3, <1>4, <2>1, <2>3, GoLinks DEF Moving
<1>5. ASSUME Go(p, GiveUp(u[p])) PROVE Linkage'
  <2>1. PICK r : r = GiveUp(u[p])
      OBVIOUS
  <2> QED
      BY <1>1, <1>2, <1>3, <1>5, <2>1, LightGiveUp, GoLinks DEF Moving
<1> QED
    BY <1>4, <1>5 DEF StatGot

\* A slot that is marked has an inode that has been read.
LEMMA Marked ==
    ASSUME TypeOK, Rest, Linkage, NEW s \in Slots, inode[s].upd
    PROVE  /\ inode[s].num # 0
           /\ \A q \in Procs : u[q].pc = "iread" => u[q].slot # s
<1>1. inode[s].num # 0
    BY DEF Rest, SlotsFree, Free
<1>2. ASSUME NEW q \in Procs, u[q].pc = "iread" PROVE ~inode[u[q].slot].upd
    BY <1>2 DEF Linkage, Apt, Asked
<1> QED
    BY <1>1, <1>2

LEMMA StatDoneLinks ==
    ASSUME TypeOK, Rest, Rest', Linkage, NEW p \in Procs, StatDone(p) PROVE Linkage'
<1>1. /\ u[p].pc = "stat" /\ Plain(p) /\ dir' = dir /\ cdir' = cdir
      /\ Go(p, GiveUp(u[p]))
    BY PlainSame DEF StatDone, At, files
<1>2. Fits(u[p], cdir[p])
    BY Fitting
<1>3. Written
  <2>1. u[p].slot \in Slots
      BY <1>1, Having
  <2>2. \/ inode[u[p].slot].upd /\ Iupdat(u[p].slot)
        \/ dino' = dino
      BY DEF StatDone
  <2> QED
      BY <2>1, <2>2, Marked DEF Written
<1>4. PICK r : r = GiveUp(u[p])
    OBVIOUS
<1> QED
    BY <1>1, <1>2, <1>3, <1>4, LightGiveUp, GoLinks DEF Moving

LEMMA FstatLinks ==
    ASSUME TypeOK, Rest, Rest', Linkage, NEW p \in Procs, NEW d \in Fds, Fstat(p, d)
    PROVE  Linkage'
<1>1. /\ u[p].pc = "user" /\ Plain(p) /\ dir' = dir /\ cdir' = cdir /\ Written
      /\ Go(p, [Idle EXCEPT !.pc = "fstat", !.off = file[ofile[p][d]].inode])
    BY PlainSame DEF Fstat, At, Written, files
<1>2. Fits(u[p], cdir[p]) /\ Going(u[p], cdir[p])
    BY Fitting
<1>3. PICK r : r = [Idle EXCEPT !.pc = "fstat", !.off = file[ofile[p][d]].inode]
    OBVIOUS
<1>4. r.pc = "fstat" /\ r.call = "none" /\ r.ip = 0
    BY <1>3 DEF Idle
<1>5. Light(u[p], r)
    BY <1>1, <1>2, <1>4 DEF Going, Light, Still, Easy, Makes, Pends, Departs, Fetching,
       Putting
<1> QED
    BY <1>1, <1>3, <1>5, GoLinks DEF Moving

LEMMA FstatDoneLinks ==
    ASSUME TypeOK, Rest, Rest', Linkage, NEW p \in Procs, FstatDone(p) PROVE Linkage'
<1>1. /\ u[p].pc = "fstat" /\ Plain(p) /\ dir' = dir /\ cdir' = cdir
      /\ Go(p, Idle)
    BY PlainSame DEF FstatDone, At, files
<1>2. Fits(u[p], cdir[p]) /\ Going(u[p], cdir[p])
    BY Fitting
<1>3. Written
  <2>1. u[p].off \in Slots
      BY <1>1, <1>2 DEF Going
  <2>2. \/ inode[u[p].off].upd /\ Iupdat(u[p].off)
        \/ dino' = dino
      BY DEF FstatDone
  <2> QED
      BY <2>1, <2>2, Marked DEF Written
<1> QED
    BY <1>1, <1>2, <1>3, LightIdle, GoLinks DEF Moving, Putting

LEMMA ExecGotLinks ==
    ASSUME TypeOK, Rest, Rest', Linkage, NEW p \in Procs, ExecGot(p) PROVE Linkage'
<1>1. /\ u[p].pc = "got" /\ Plain(p) /\ dir' = dir /\ Written /\ cdir' = cdir
    BY PlainSame DEF ExecGot, At, Written, files
<1>2. Fits(u[p], cdir[p]) /\ u[p] \in URec
    BY Fitting
<1>3. PICK k \in {"exwait", "exbuf"} : Go(p, [u[p] EXCEPT !.pc = k])
    BY DEF ExecGot
<1>4. PICK r : r = [u[p] EXCEPT !.pc = k]
    OBVIOUS
<1>5. /\ r.pc = k /\ r.call = u[p].call /\ r.ip = u[p].ip /\ r.ret = u[p].ret
      /\ r.slot = u[p].slot
    BY <1>2, <1>4 DEF URec
<1>6. Light(u[p], r)
    BY <1>1, <1>2, <1>3, <1>5, LightPlace DEF Putting
<1> QED
    BY <1>1, <1>3, <1>4, <1>6, GoLinks DEF Moving

LEMMA ExecReadLinks ==
    ASSUME TypeOK, Rest, Rest', Linkage, NEW p \in Procs, ExecRead(p) PROVE Linkage'
<1>1. /\ u[p].pc = "exbuf" /\ dir' = dir /\ Written /\ cdir' = cdir
      /\ Go(p, CallIput(u[p], u[p].slot, "exdone"))
    BY DEF ExecRead, At, Written, files
<1>2. Fits(u[p], cdir[p]) /\ u[p] \in URec
    BY Fitting
<1>3. Plain(p)
  <2>1. u[p].slot \in Slots /\ Has(p, u[p].slot)
      BY <1>1, Fitting, Holder DEF Holding, WithSlot
  <2> QED
      BY <2>1, PlainSame, MarkPlain DEF ExecRead
<1>4. PICK r : r = CallIput(u[p], u[p].slot, "exdone")
    OBVIOUS
<1>5. r.pc = "iput" /\ r.call = u[p].call /\ r.ip = u[p].ip /\ r.ret = "exdone"
    BY <1>2, <1>4 DEF URec, CallIput
<1>6. Light(u[p], r)
    BY <1>1, <1>2, <1>5, LightPut DEF Putting
<1> QED
    BY <1>1, <1>3, <1>4, <1>6, GoLinks DEF Moving

LEMMA ExecDoneLinks ==
    ASSUME TypeOK, Rest, Rest', Linkage, NEW p \in Procs, ExecDone(p) PROVE Linkage'
<1>1. /\ u[p].pc = "exdone" /\ Plain(p) /\ dir' = dir /\ Written /\ cdir' = cdir
    BY PlainSame DEF ExecDone, At, Written, files
<1>2. Fits(u[p], cdir[p])
    BY Fitting
<1>3. Moves(p, Idle)
  <2>1. u' = [q \in Procs |->
                IF q = p THEN Idle
                ELSE IF execnt >= NEXEC /\ u[q].pc = "exwait"
                THEN [u[q] EXCEPT !.pc = "got"] ELSE u[q]]
      BY DEF ExecDone
  <2>2. u'[p] = Idle /\ \A q \in Procs : q # p => Woken(u[q], u'[q])
      BY <2>1 DEF Woken
  <2> QED
      BY <1>1, <2>2 DEF Moves
<1>4. Light(u[p], Idle)
    BY <1>1, <1>2, LightIdle DEF Putting
<1> QED
    BY <1>1, <1>3, <1>4, EasyLinks DEF Light, Moving

\* p gives up a lock, with or without a wakeup.
LEMMA LockPlain ==
    ASSUME TypeOK, NEW p \in Procs, NEW s, NEW b \in BOOLEAN,
           inode' = [inode EXCEPT ![s].lock = b]
    PROVE  Plain(p)
<1>1. inode \in [Slots -> IRec]
    BY DEF TypeOK, IRec
<1>2. \A x \in Slots : /\ inode'[x].num = inode[x].num /\ inode'[x].mode = inode[x].mode
                       /\ inode'[x].nlink = inode[x].nlink /\ inode'[x].upd = inode[x].upd
    BY <1>1 DEF IRec
<1> QED
    BY <1>2 DEF Plain

LEMMA LinkGotLinks ==
    ASSUME TypeOK, Rest, Rest', Linkage, NEW p \in Procs, LinkGot(p) PROVE Linkage'
<1>1. /\ u[p].pc = "got" /\ dir' = dir /\ Written /\ cdir' = cdir /\ u[p].call = "link"
    BY DEF LinkGot, At, Written, files
<1>2. /\ Fits(u[p], cdir[p]) /\ u[p] \in URec /\ cdir[p] \in Slots /\ Users
      /\ Going(u[p], cdir[p])
    BY Fitting
<1>3. PICK s : s = u[p].slot
    OBVIOUS
<1>4. ASSUME inode' = [inode EXCEPT ![s].lock = FALSE],
             Go(p, CallNamei([u[p] EXCEPT !.ip = s], p, u[p].path2, 1))
      PROVE  Linkage'
  <2>1. PICK r : r = CallNamei([u[p] EXCEPT !.ip = s], p, u[p].path2, 1)
      OBVIOUS
  <2>2. PICK P, i : /\ i \in {ROOTINO, inode[cdir[p]].num}
                    /\ r = CallIget([[u[p] EXCEPT !.ip = s] EXCEPT !.path = P, !.flag = 1,
                                                                   !.from = <<>>], i, "comp")
      BY <2>1 DEF CallNamei
  <2>3. /\ r.pc = "iget" /\ r.call = "link" /\ r.ip = s /\ r.ret = "comp" /\ r.from = <<>>
        /\ r.ino = i
      BY <1>1, <1>2, <2>2 DEF URec, CallIget
  <2>4. Still(u[p], r)
      BY <1>1, <1>2, <2>3 DEF Still, Makes, Pends, Going, Putting
  <2>5. inode[s].mode # "none" /\ inode[cdir[p]].mode # "none"
      BY <1>1, <1>3 DEF Linkage, Apt, Found, Departs, Putting
  <2>6. Found(inode, r, cdir[p]) /\ Asked(inode, r, cdir[p])
      BY <2>2, <2>3, <2>5 DEF Found, Asked, Departs, Putting, Fetching
  <2>7. Moves(p, r)
      BY <1>1, <1>2, <1>4, <2>1, GoMoves
  <2>8. Plain(p)
      BY <1>4, LockPlain
  <2>9. r.pc # "iread" /\ ~Moving(u[p])
      BY <1>1, <2>3 DEF Moving
  <2> QED
      BY <1>1, <1>2, <2>4, <2>6, <2>7, <2>8, <2>9, QuietLinks
<1>5. ASSUME Go(p, GiveUp(u[p])), inode' = inode PROVE Linkage'
  <2>1. PICK r : r = GiveUp(u[p])
      OBVIOUS
  <2> QED
      BY <1>1, <1>2, <1>5, <2>1, LightGiveUp, PlainSame, GoLinks DEF Moving
<1> QED
    BY <1>3, <1>4, <1>5 DEF LinkGot

LEMMA UnlinkGotLinks ==
    ASSUME TypeOK, Rest, Rest', Linkage, NEW p \in Procs, UnlinkGot(p) PROVE Linkage'
<1>1. /\ u[p].pc = "got" /\ Plain(p) /\ dir' = dir /\ Written /\ cdir' = cdir
      /\ u[p].call = "unlink"
      /\ GoAndWake(p, u[p].slot, CallIget([u[p] EXCEPT !.pdir = u[p].slot], u[p].ino, "uget"))
    BY UnlockPlain DEF UnlinkGot, At, Written, files
<1>2. Fits(u[p], cdir[p]) /\ u[p] \in URec /\ Going(u[p], cdir[p])
    BY Fitting
<1>3. PICK r : r = CallIget([u[p] EXCEPT !.pdir = u[p].slot], u[p].ino, "uget")
    OBVIOUS
<1>4. /\ r.pc = "iget" /\ r.call = u[p].call /\ r.ip = u[p].ip /\ r.ret = "uget"
    BY <1>2, <1>3 DEF URec, CallIget
<1>5. Light(u[p], r)
    BY <1>1, <1>2, <1>4 DEF Light, Still, Easy, Makes, Pends, Departs, Fetching, Putting,
       Going
<1> QED
    BY <1>1, <1>3, <1>5, WakeLinks DEF Moving

LEMMA UnlinkGetLinks ==
    ASSUME TypeOK, Rest, Rest', Linkage, NEW p \in Procs, UnlinkGet(p) PROVE Linkage'
<1>1. /\ u[p].pc = "uget" /\ Plain(p) /\ dir' = dir /\ Written /\ cdir' = cdir
    BY PlainSame DEF UnlinkGet, At, Written, files
<1>2. /\ Fits(u[p], cdir[p]) /\ u[p] \in URec /\ cdir[p] \in Slots /\ Users
      /\ Going(u[p], cdir[p])
    BY Fitting
<1>3. PICK r : /\ Go(p, r)
               /\ \/ r = [u[p] EXCEPT !.ip = u[p].slot, !.slot = 0, !.pc = "uwrite"]
                  \/ r = [u[p] EXCEPT !.ip = u[p].slot, !.slot = u[p].pdir, !.pdir = 0,
                                      !.pc = "iput", !.ret = "last"]
  <2>1. PICK r0 : r0 = [u[p] EXCEPT !.ip = u[p].slot, !.slot = 0]
      OBVIOUS
  <2>2. \/ Go(p, [r0 EXCEPT !.pc = "uwrite"])
        \/ Go(p, CallIput([r0 EXCEPT !.pdir = 0], r0.pdir, "last"))
      BY <2>1 DEF UnlinkGet
  <2>3. /\ [r0 EXCEPT !.pc = "uwrite"]
              = [u[p] EXCEPT !.ip = u[p].slot, !.slot = 0, !.pc = "uwrite"]
        /\ CallIput([r0 EXCEPT !.pdir = 0], r0.pdir, "last")
              = [u[p] EXCEPT !.ip = u[p].slot, !.slot = u[p].pdir, !.pdir = 0,
                             !.pc = "iput", !.ret = "last"]
      BY <1>2, <2>1 DEF CallIput, URec
  <2> QED
      BY <2>2, <2>3
<1>4. /\ r.call = u[p].call /\ r.ip = u[p].slot /\ r.ino = u[p].ino
      /\ (r.pc = "uwrite" /\ r.ret = u[p].ret) \/ (r.pc = "iput" /\ r.ret = "last")
  <2>1. ASSUME r = [u[p] EXCEPT !.ip = u[p].slot, !.slot = 0, !.pc = "uwrite"]
        PROVE  /\ r.call = u[p].call /\ r.ip = u[p].slot /\ r.ino = u[p].ino
               /\ r.pc = "uwrite" /\ r.ret = u[p].ret
      BY <1>2, <2>1 DEF URec
  <2>2. ASSUME r = [u[p] EXCEPT !.ip = u[p].slot, !.slot = u[p].pdir, !.pdir = 0,
                                !.pc = "iput", !.ret = "last"]
        PROVE  /\ r.call = u[p].call /\ r.ip = u[p].slot /\ r.ino = u[p].ino
               /\ r.pc = "iput" /\ r.ret = "last"
      BY <1>2, <2>2 DEF URec
  <2> QED
      BY <1>3, <2>1, <2>2
<1>5. /\ u[p].call = "unlink" /\ inode[u[p].slot].num = u[p].ino
      /\ inode[cdir[p]].mode # "none"
    BY <1>1 DEF Linkage, Apt, Asked, Found, Departs, Putting
<1>6. Still(u[p], r)
    BY <1>1, <1>4, <1>5 DEF Still, Makes, Pends
<1>7. Found(inode, r, cdir[p]) /\ Asked(inode, r, cdir[p])
    BY <1>1, <1>2, <1>4, <1>5 DEF Found, Asked, Departs, Putting, Fetching, Going
<1>8. Moves(p, r) /\ r.pc # "iread" /\ ~Moving(u[p])
    BY <1>1, <1>2, <1>3, <1>4, GoMoves DEF Moving
<1> QED
    BY <1>1, <1>2, <1>6, <1>7, <1>8, QuietLinks

-----------------------------------------------------------------------------
(* The other calls.                                                         *)

LEMMA ClosefLinks ==
    ASSUME TypeOK, Rest, Rest', Linkage, NEW p \in Procs, u[p].pc \in {"user", "exit"},
           NEW d, NEW call \in {"close", "exit"}, Closef(p, d, call)
    PROVE  Linkage'
<1>1. Plain(p) /\ dir' = dir /\ Written /\ cdir' = cdir
    BY PlainSame DEF Closef, Written
<1>2. Fits(u[p], cdir[p]) /\ Going(u[p], cdir[p])
    BY Fitting
<1>3. PICK f, g, r : /\ Go(p, r)
                     /\ \/ r = [Idle EXCEPT !.call = call, !.fd = f, !.pc = "closed"]
                        \/ r = CallIput([Idle EXCEPT !.call = call, !.fd = f, !.pc = "closed"],
                                        g, "closed")
    BY DEF Closef
<1>4. r.call = call /\ r.ip = 0 /\ (r.pc = "closed" \/ (r.pc = "iput" /\ r.ret = "closed"))
    BY <1>3 DEF Idle, CallIput
<1>5. Light(u[p], r)
    BY <1>2, <1>4 DEF Light, Still, Easy, Makes, Pends, Departs, Fetching, Putting, Going
<1> QED
    BY <1>1, <1>3, <1>5, GoLinks DEF Moving

LEMMA CloseLinks ==
    ASSUME TypeOK, Rest, Rest', Linkage, NEW p \in Procs, NEW d, Close(p, d) PROVE Linkage'
BY ClosefLinks DEF Close, At

LEMMA ExitCloseLinks ==
    ASSUME TypeOK, Rest, Rest', Linkage, NEW p \in Procs, ExitClose(p) PROVE Linkage'
BY ClosefLinks DEF ExitClose, At

LEMMA CloseDoneLinks ==
    ASSUME TypeOK, Rest, Rest', Linkage, NEW p \in Procs, CloseDone(p) PROVE Linkage'
<1>1. /\ u[p].pc = "closed" /\ Plain(p) /\ dir' = dir /\ Written /\ cdir' = cdir
    BY PlainSame DEF CloseDone, At, Written
<1>2. Fits(u[p], cdir[p]) /\ Going(u[p], cdir[p])
    BY Fitting
<1>3. PICK r : Go(p, r) /\ (r = [Idle EXCEPT !.pc = "exit"] \/ r = Idle)
    BY DEF CloseDone
<1>4. r.call = "none" /\ r.ip = 0 /\ r.pc \in {"exit", "user"}
    BY <1>3 DEF Idle
<1>5. Light(u[p], r)
    BY <1>1, <1>2, <1>4 DEF Light, Still, Easy, Makes, Pends, Departs, Fetching, Putting,
       Going
<1> QED
    BY <1>1, <1>3, <1>5, GoLinks DEF Moving

LEMMA ExitLinks ==
    ASSUME TypeOK, Rest, Rest', Linkage, NEW p \in Procs, Exit(p) PROVE Linkage'
<1>1. /\ u[p].pc = "user" /\ Plain(p) /\ dir' = dir /\ Written /\ cdir' = cdir
      /\ Go(p, [Idle EXCEPT !.pc = "exit"])
    BY PlainSame DEF Exit, At, Written, files
<1>2. Fits(u[p], cdir[p]) /\ Going(u[p], cdir[p])
    BY Fitting
<1>3. PICK r : r = [Idle EXCEPT !.pc = "exit"]
    OBVIOUS
<1>4. r.call = "none" /\ r.ip = 0 /\ r.pc = "exit"
    BY <1>3 DEF Idle
<1>5. Light(u[p], r)
    BY <1>1, <1>2, <1>4 DEF Light, Still, Easy, Makes, Pends, Departs, Fetching, Putting,
       Going
<1> QED
    BY <1>1, <1>3, <1>5, GoLinks DEF Moving

LEMMA ExitCdirLinks ==
    ASSUME TypeOK, Rest, Rest', Linkage, NEW p \in Procs, ExitCdir(p) PROVE Linkage'
<1>1. /\ u[p].pc = "exit" /\ Plain(p) /\ dir' = dir /\ Written /\ cdir' = cdir
      /\ Go(p, CallIput(u[p], cdir[p], "dead"))
    BY PlainSame DEF ExitCdir, At, Written, files
<1>2. Fits(u[p], cdir[p]) /\ u[p] \in URec
    BY Fitting
<1>3. PICK r : r = CallIput(u[p], cdir[p], "dead")
    OBVIOUS
<1>4. r.pc = "iput" /\ r.call = u[p].call /\ r.ip = u[p].ip /\ r.ret = "dead"
    BY <1>2, <1>3 DEF URec, CallIput
<1>5. Light(u[p], r)
    BY <1>1, <1>2, <1>4, LightPut DEF Putting
<1> QED
    BY <1>1, <1>3, <1>5, GoLinks DEF Moving

LEMMA ForkLinks ==
    ASSUME TypeOK, Rest, Rest', Linkage, NEW p \in Procs, NEW q \in Procs, Fork(p, q)
    PROVE  Linkage'
<1>1. /\ u[p].pc = "user" /\ u[q].pc = "dead" /\ dir' = dir /\ Written
      /\ u' = [u EXCEPT ![q] = Idle] /\ cdir' = [cdir EXCEPT ![q] = cdir[p]]
      /\ inode' = [inode EXCEPT ![cdir[p]].count = @ + 1]
    BY DEF Fork, At, Written
<1>2. /\ Users /\ Fits(u[q], cdir[q]) /\ cdir \in [Procs -> Slots] /\ Going(u[q], cdir[q])
      /\ inode \in [Slots -> IRec]
    BY Fitting DEF TypeOK
<1>3. PICK c \in Slots : c = cdir[p] /\ c = cdir'[q]
    BY <1>1, <1>2
<1>4. Moves(q, Idle)
    BY <1>1, <1>2 DEF Moves, Users, Woken
<1>5. Plain(q)
  <2>1. \A x \in Slots : /\ inode'[x].num = inode[x].num /\ inode'[x].mode = inode[x].mode
                         /\ inode'[x].nlink = inode[x].nlink /\ inode'[x].upd = inode[x].upd
      BY <1>1, <1>2 DEF IRec
  <2> QED
      BY <2>1 DEF Plain
<1>6. Still(u[q], Idle) /\ Idle.pc = "user"
    BY <1>1, <1>2 DEF Still, Makes, Pends, Idle, Going, Putting
<1>7. Found(inode, Idle, c) /\ Asked(inode, Idle, c)
  <2>1. inode[c].mode # "none"
      BY <1>1, <1>3 DEF Linkage, Apt, Found, Departs, Putting
  <2> QED
      BY <2>1 DEF Found, Asked, Idle, Putting, Fetching
<1> QED
    BY <1>1, <1>3, <1>4, <1>5, <1>6, <1>7, QuietLinks DEF Moving

LEMMA DupLinks ==
    ASSUME TypeOK, Rest, Rest', Linkage, NEW p \in Procs, NEW d, Dup(p, d) PROVE Linkage'
<1>1. /\ u[p].pc = "user" /\ Plain(p) /\ dir' = dir /\ Written /\ cdir' = cdir /\ u' = u
    BY PlainSame DEF Dup, At, Written
<1>2. Fits(u[p], cdir[p]) /\ Going(u[p], cdir[p])
    BY Fitting
<1>3. Moves(p, u[p])
    BY <1>1 DEF Moves, Woken
<1>4. Light(u[p], u[p])
    BY <1>1, <1>2 DEF Light, Still, Easy, Fetching, Putting, Going
<1> QED
    BY <1>1, <1>3, <1>4, EasyLinks DEF Light, Moving

LEMMA CallNameLinks ==
    ASSUME TypeOK, Rest, Rest', Linkage, NEW p \in Procs, NEW c \in Calls, CallName(p, c)
    PROVE  Linkage'
<1>1. /\ u[p].pc = "user" /\ Plain(p) /\ dir' = dir /\ Written /\ cdir' = cdir
    BY PlainSame DEF CallName, At, Written, files
<1>2. /\ Fits(u[p], cdir[p]) /\ cdir[p] \in Slots /\ Users /\ Going(u[p], cdir[p])
    BY Fitting
<1>3. PICK r, r0, g : /\ Go(p, r) /\ r0 = [Idle EXCEPT !.call = c.call, !.path2 = c.path2]
                      /\ r = CallNamei(r0, p, c.path, g)
    BY DEF CallName
<1>4. PICK P, i : /\ i \in {ROOTINO, inode[cdir[p]].num}
                  /\ r = CallIget([r0 EXCEPT !.path = P, !.flag = g, !.from = <<>>], i, "comp")
    BY <1>3 DEF CallNamei
<1>5. /\ r.pc = "iget" /\ r.ip = 0 /\ r.ret = "comp" /\ r.from = <<>> /\ r.ino = i
    BY <1>3, <1>4 DEF Idle, CallIget
<1>6. Still(u[p], r)
    BY <1>1, <1>2, <1>5 DEF Still, Makes, Pends, Going, Putting
<1>7. inode[cdir[p]].mode # "none"
    BY <1>1 DEF Linkage, Apt, Found, Departs, Putting
<1>8. Found(inode, r, cdir[p]) /\ Asked(inode, r, cdir[p])
    BY <1>4, <1>5, <1>7 DEF Found, Asked, Departs, Putting, Fetching
<1>9. Moves(p, r) /\ r.pc # "iread" /\ ~Moving(u[p])
    BY <1>1, <1>2, <1>3, <1>5, GoMoves DEF Moving
<1> QED
    BY <1>1, <1>2, <1>6, <1>8, <1>9, QuietLinks

-----------------------------------------------------------------------------
(* update.                                                                  *)

\* update goes on.
LEMMA LightUpdate ==
    ASSUME NEW c, NEW r, NEW r2, Fits(r, c), r.pc \in {"user", "upd", "updwrite"},
           r2.pc \in {"upd", "updwrite"}, r2.call = r.call \/ r2.call = "none",
           r2.ip \in {0, r.ip}, r2.ret \in {"none", r.ret}
    PROVE  Light(r, r2)
BY DEF Fits, Going, Light, Still, Easy, Makes, Pends, Departs, Fetching, Putting

LEMMA UpdateLinks ==
    ASSUME TypeOK, Rest, Rest', Linkage, NEW p \in Procs, Update(p) PROVE Linkage'
<1>1. /\ u[p].pc = "user" /\ Plain(p) /\ dir' = dir /\ Written /\ cdir' = cdir
      /\ Go(p, [Idle EXCEPT !.pc = "upd", !.off = 1])
    BY PlainSame DEF Update, At, Written, files
<1>2. Fits(u[p], cdir[p])
    BY Fitting
<1>3. PICK r : r = [Idle EXCEPT !.pc = "upd", !.off = 1]
    OBVIOUS
<1>4. r.pc = "upd" /\ r.call = "none" /\ r.ip = 0 /\ r.ret = "none"
    BY <1>3 DEF Idle
<1>5. Light(u[p], r)
    BY <1>1, <1>2, <1>4, LightUpdate
<1> QED
    BY <1>1, <1>3, <1>5, GoLinks DEF Moving

LEMMA UpdateDoneLinks ==
    ASSUME TypeOK, Rest, Rest', Linkage, NEW p \in Procs, UpdateDone(p) PROVE Linkage'
<1>1. /\ u[p].pc = "upd" /\ Plain(p) /\ dir' = dir /\ Written /\ cdir' = cdir /\ Go(p, Idle)
    BY PlainSame DEF UpdateDone, At, Written, files
<1>2. Fits(u[p], cdir[p])
    BY Fitting
<1>3. Light(u[p], Idle)
    BY <1>1, <1>2, LightIdle DEF Putting
<1> QED
    BY <1>1, <1>3, GoLinks DEF Moving

LEMMA UpdateInodeLinks ==
    ASSUME TypeOK, Rest, Rest', Linkage, NEW p \in Procs, UpdateInode(p) PROVE Linkage'
<1>1. /\ u[p].pc = "upd" /\ dir' = dir /\ Written /\ cdir' = cdir
    BY DEF UpdateInode, At, Written, files
<1>2. Fits(u[p], cdir[p]) /\ u[p] \in URec
    BY Fitting
<1>3. PICK s, r : /\ r \in {[u[p] EXCEPT !.off = s + 1], [u[p] EXCEPT !.pc = "updwrite"]}
                  /\ \/ inode' = inode
                     \/ inode' = [inode EXCEPT ![s].lock = TRUE]
                     \/ inode' = Unlock(inode, s)
                  /\ Go(p, r) \/ GoAndWake(p, s, r)
    BY DEF UpdateInode
<1>4. r.pc \in {"upd", "updwrite"} /\ r.call = u[p].call /\ r.ip = u[p].ip /\ r.ret = u[p].ret
    BY <1>1, <1>2, <1>3 DEF URec
<1>5. Light(u[p], r)
    BY <1>1, <1>2, <1>4, LightUpdate
<1>6. Plain(p)
    BY <1>3, PlainSame, LockPlain, UnlockPlain
<1> QED
    BY <1>1, <1>3, <1>5, <1>6, GoLinks, WakeLinks DEF Moving

LEMMA UpdateWrittenLinks ==
    ASSUME TypeOK, Rest, Rest', Linkage, NEW p \in Procs, UpdateWritten(p) PROVE Linkage'
<1>1. /\ u[p].pc = "updwrite" /\ dir' = dir /\ cdir' = cdir
    BY DEF UpdateWritten, At, files
<1>2. Fits(u[p], cdir[p]) /\ u[p] \in URec /\ Going(u[p], cdir[p])
    BY Fitting
<1>3. PICK s \in Slots : s = u[p].off
    BY <1>1, <1>2 DEF Going
<1>4. /\ Iupdat(s) /\ inode' = Unlock(inode, s)
      /\ GoAndWake(p, s, [u[p] EXCEPT !.pc = "upd", !.off = s + 1])
    BY <1>3 DEF UpdateWritten
<1>5. PICK r : r = [u[p] EXCEPT !.pc = "upd", !.off = s + 1]
    OBVIOUS
<1>6. r.pc = "upd" /\ r.call = u[p].call /\ r.ip = u[p].ip /\ r.ret = u[p].ret
    BY <1>2, <1>5 DEF URec
<1>7. Light(u[p], r)
    BY <1>1, <1>2, <1>6, LightUpdate
<1>8. Written
  <2>1. inode[s].count > 0 /\ \A q \in Procs : Sole(u[q]) => u[q].slot # s
      BY <1>1, <1>3 DEF Rest, Exclusive
  <2>2. inode[s].num # 0
      BY <2>1 DEF Rest, SlotsFree
  <2> QED
      BY <1>4, <2>1, <2>2 DEF Written, Sole
<1>9. Plain(p)
    BY <1>4, UnlockPlain
<1> QED
    BY <1>1, <1>4, <1>5, <1>7, <1>8, <1>9, WakeLinks DEF Moving

-----------------------------------------------------------------------------
(* iget that finds nothing, and iput.                                       *)

LEMMA IgetLockedLinks ==
    ASSUME TypeOK, Rest, Rest', Linkage, NEW p \in Procs, IgetLocked(p) PROVE Linkage'
<1>1. /\ u[p].pc = "iget" /\ dir' = dir /\ Written /\ cdir' = cdir
    BY DEF IgetLocked, At, Written, files
<1>2. /\ Fits(u[p], cdir[p]) /\ u[p] \in URec /\ Going(u[p], cdir[p])
      /\ inode \in [Slots -> IRec]
    BY Fitting
<1>3. PICK s : /\ inode' = [inode EXCEPT ![s].want = TRUE]
               /\ Go(p, [u[p] EXCEPT !.pc = "isleep", !.slot = s])
    BY DEF IgetLocked
<1>4. PICK r : r = [u[p] EXCEPT !.pc = "isleep", !.slot = s]
    OBVIOUS
<1>5. /\ r.pc = "isleep" /\ r.call = u[p].call /\ r.ip = u[p].ip /\ r.ret = u[p].ret
      /\ r.from = u[p].from /\ r.ino = u[p].ino
    BY <1>2, <1>4 DEF URec
<1>6. Asked(inode, u[p], cdir[p])
    BY DEF Linkage, Apt
<1>7. Light(u[p], r)
    BY <1>1, <1>2, <1>5, <1>6 DEF Light, Still, Easy, Makes, Pends, Departs, Fetching,
       Putting, Going, Asked
<1>8. Plain(p)
  <2>1. \A x \in Slots : /\ inode'[x].num = inode[x].num /\ inode'[x].mode = inode[x].mode
                         /\ inode'[x].nlink = inode[x].nlink /\ inode'[x].upd = inode[x].upd
      BY <1>2, <1>3 DEF IRec
  <2> QED
      BY <2>1 DEF Plain
<1> QED
    BY <1>1, <1>3, <1>4, <1>7, <1>8, GoLinks DEF Moving

LEMMA IgetFullLinks ==
    ASSUME TypeOK, Rest, Rest', Linkage, NEW p \in Procs, IgetFull(p) PROVE Linkage'
<1>1. /\ u[p].pc = "iget" /\ Plain(p) /\ dir' = dir /\ Written /\ cdir' = cdir
    BY PlainSame DEF IgetFull, At, Written, files
<1>2. Fits(u[p], cdir[p]) /\ u[p] \in URec
    BY Fitting
<1>3. PICK r : Go(p, r) /\ (r = Idle \/ r = After([u[p] EXCEPT !.ret = "last"]))
    BY DEF IgetFull
<1>4. Light(u[p], r)
  <2>1. CASE r = Idle
      BY <1>1, <1>2, <2>1, LightIdle DEF Putting
  <2>2. CASE r = After([u[p] EXCEPT !.ret = "last"])
    <3>1. r = CallIput([[u[p] EXCEPT !.ret = "last"] EXCEPT !.ip = 0], u[p].ip, "user")
        BY <1>2, <2>2 DEF After, URec
    <3>2. r.pc = "iput" /\ r.call = u[p].call /\ r.ip = 0 /\ r.ret = "user"
        BY <1>2, <3>1 DEF CallIput, URec
    <3> QED
        BY <1>1, <1>2, <3>2, LightPut DEF Putting
  <2> QED
      BY <1>3, <2>1, <2>2
<1> QED
    BY <1>1, <1>3, <1>4, GoLinks DEF Moving

\* Where iput returns to.
LEMMA AfterPut ==
    ASSUME NEW c, NEW r, Fits(r, c), r.pc \in Putting, NEW r2, r2 = After(r)
    PROVE  /\ Light(r, r2)
           /\ r2.pc \in {"user", "dead", "iput", "iget", "wdone", "iloop", "closed", "chdir",
                         "exdone"}
           /\ r2.ip \in {0, r.ip}
           /\ r2.pc = "iget" => r2.from # <<>>
<1>1. r \in URec /\ Going(r, c) /\ Naming(r)
    BY DEF Fits
<1>2. r.ret \in {"user", "dead", "last", "iget", "wdone", "iloop", "closed", "chdir", "exdone"}
    BY <1>1 DEF Going
<1>3. CASE r.ret \in {"user", "dead"}
  <2>1. r2.call = "none" /\ r2.ip = 0 /\ r2.ret = "none"
        /\ r2.pc = r.ret
      BY <1>3, <1>2 DEF After, Idle
  <2>2. Light(r, r2)
      BY <1>1, <1>3, <2>1 DEF Light, Still, Easy, Makes, Pends, Departs, Fetching, Putting
  <2> QED
      BY <1>3, <2>1, <2>2
<1>4. CASE r.ret = "last"
  <2>1. r2 = CallIput([r EXCEPT !.ip = 0], r.ip, "user")
      BY <1>4 DEF After
  <2>2. r2.call = r.call /\ r2.ip = 0 /\ r2.ret = "user" /\ r2.pc = "iput"
      BY <1>1, <2>1 DEF CallIput, URec
  <2>3. Light(r, r2)
      BY <1>1, <1>4, <2>2 DEF Light, Still, Easy, Makes, Pends, Departs, Fetching, Putting
  <2> QED
      BY <2>2, <2>3
<1>5. CASE r.ret = "iget"
  <2>1. r2 = CallIget(r, r.ino, "comp")
      BY <1>5 DEF After
  <2>2. /\ r2.call = r.call /\ r2.ip = r.ip /\ r2.ret = "comp" /\ r2.pc = "iget"
        /\ r2.from = r.from
      BY <1>1, <2>1 DEF CallIget, URec
  <2>3. r.from # <<>>
      BY <1>1, <1>5 DEF Naming
  <2>4. Light(r, r2)
      BY <1>1, <1>5, <2>2, <2>3 DEF Light, Still, Easy, Makes, Pends, Departs, Fetching,
         Putting
  <2> QED
      BY <2>2, <2>3, <2>4
<1>6. CASE r.ret \in {"wdone", "iloop", "closed", "chdir", "exdone"}
  <2>1. r2 = [r EXCEPT !.pc = r.ret, !.slot = 0]
      BY <1>6 DEF After
  <2>2. /\ r2.call = r.call /\ r2.ip = r.ip /\ r2.ret = r.ret /\ r2.pc = r.ret
      BY <1>1, <2>1 DEF URec
  <2>3. Light(r, r2)
      BY <1>1, <1>6, <2>2 DEF Light, Still, Easy, Makes, Pends, Departs, Fetching, Putting
  <2> QED
      BY <1>6, <2>2, <2>3
<1> QED
    BY <1>2, <1>3, <1>4, <1>5, <1>6

LEMMA IputSharedLinks ==
    ASSUME TypeOK, Rest, Rest', Linkage, NEW p \in Procs, IputShared(p) PROVE Linkage'
<1>1. /\ u[p].pc = "iput" /\ dir' = dir /\ Written /\ cdir' = cdir
    BY DEF IputShared, At, Written, files
<1>2. Fits(u[p], cdir[p]) /\ inode \in [Slots -> IRec]
    BY Fitting
<1>3. PICK s : /\ inode' = [Unlock(inode, s) EXCEPT ![s].count = @ - 1]
               /\ GoAndWake(p, s, After(u[p]))
    BY DEF IputShared
<1>4. PICK r : r = After(u[p])
    OBVIOUS
<1>5. Light(u[p], r)
    BY <1>1, <1>2, <1>4, AfterPut DEF Putting
<1>6. Plain(p)
  <2>1. \A x \in Slots : /\ inode'[x].num = inode[x].num /\ inode'[x].mode = inode[x].mode
                         /\ inode'[x].nlink = inode[x].nlink /\ inode'[x].upd = inode[x].upd
      BY <1>2, <1>3 DEF IRec, Unlock
  <2> QED
      BY <2>1 DEF Plain
<1> QED
    BY <1>1, <1>3, <1>4, <1>5, <1>6, WakeLinks DEF Moving

\* The only reference to an inode is the one of the process that reads it or
\* puts it.
LEMMA OnlyOne ==
    ASSUME TypeOK, Rest, NEW p \in Procs, u[p].pc \in Putting \cup {"iread"}, NEW s \in Slots,
           s = u[p].slot, inode[s].count = 1
    PROVE  /\ Has(p, s) /\ u[p].ip # s /\ s # 1 /\ (cdir[p] = s => Departs(u[p]))
           /\ \A q \in Procs : q # p => ~Has(q, s)
           /\ \A q \in Procs : q # p /\ Sole(u[q]) => u[q].slot # s
<1>1. Fits(u[p], cdir[p]) /\ Going(u[p], cdir[p]) /\ Users /\ FilesOK /\ Counted
    BY Fitting DEF Rest
<1>2. Has(p, s)
    BY <1>1, Sizes, Holder DEF Slots, Putting
<1>3. \A q \in Procs : q # p => ~Has(q, s)
    BY <1>1, <1>2, TwoHolders
<1>4. 1 = Held(s) + Cardinality(FileRefs(s)) + Cardinality(StuckRefs(s)) + B(s = 1)
    BY <1>1 DEF Counted, Total
<1>5. /\ Cardinality(FileRefs(s)) \in Nat /\ Cardinality(StuckRefs(s)) \in Nat
      /\ IsFiniteSet(FileRefs(s))
    BY RefSets
<1>6. /\ Held(s) \in Nat /\ Held(s) >= Holds(u[p], cdir[p], s)
            /\ Holds(u[p], cdir[p], s) \in Nat
      /\ B(s = 1) \in Nat
    BY HeldByOne DEF Holds, B
<1>7. Holds(u[p], cdir[p], s) + Cardinality(FileRefs(s)) + B(s = 1) <= 1
    BY <1>4, <1>5, <1>6
<1>8. CASE Closing(u[p])
  <2>1. Cardinality(FileRefs(s)) # 0
      BY <1>1, <1>5, <1>8, CloserRef, FS_EmptySet
  <2>2. Holds(u[p], cdir[p], s) = 0 /\ B(s = 1) = 0
      BY <1>5, <1>6, <1>7, <2>1
  <2> QED
      BY <1>2, <1>3, <1>8, <2>2, NobodyElse DEF Holds, B, CdirRef, Closing, Putting
<1>9. CASE ~Closing(u[p])
  <2>1. SlotRef(u[p], s) \/ CdirRef(u[p], cdir[p], s)
      BY <1>1, <1>9 DEF SlotRef, CdirRef, Closing, Going, Putting, Fetching
  <2>2. SlotRef(u[p], s) <=> u[p].ret \notin {"closed", "chdir", "dead"}
      BY DEF SlotRef, Putting
  <2>3. CdirRef(u[p], cdir[p], s) <=> cdir[p] = s
      BY DEF CdirRef, Putting
  <2>4. /\ B(SlotRef(u[p], s)) + B(u[p].ip = s) + B(u[p].pdir = s) + B(CdirRef(u[p], cdir[p],
                 s))
           + B(s = 1) <= 1
      BY <1>5, <1>6, <1>7 DEF Holds
  <2>5. u[p].ip # s /\ s # 1
      BY <2>1, <2>4 DEF B
  <2>6. cdir[p] = s => ~SlotRef(u[p], s)
      BY <2>3, <2>4 DEF B
  <2>7. ASSUME cdir[p] = s PROVE Departs(u[p])
    <3>1. u[p].ret \in {"closed", "chdir", "dead"}
        BY <2>2, <2>6, <2>7
    <3> QED
        BY <1>1, <1>9, <3>1 DEF Departs, Closing, Going, Putting, Fetching
  <2> QED
      BY <1>2, <1>3, <2>5, <2>7, NobodyElse
<1> QED
    BY <1>8, <1>9

LEMMA InCoreOf ==
    ASSUME TypeOK, Rest, NEW s \in Slots, inode[s].num # 0,
           \A q \in Procs : u[q].pc = "iread" => u[q].slot # s
    PROVE  inode[s].num \in Ino /\ InCore(inode[s].num) = {s}
<1>1. inode[s].num \in Ino
    BY Sizes DEF TypeOK, Ino
<1>2. InCore(inode[s].num) \subseteq {s}
    BY <1>1, OneInCore
<1>3. s \in InCore(inode[s].num)
    BY DEF InCore
<1> QED
    BY <1>1, <1>2, <1>3

\* The last iput empties slot s; the inode is on disk as it was in core.
LEMMA PutAwayLinks ==
    ASSUME TypeOK, Rest, Rest', Linkage, NEW p \in Procs, NEW s \in Slots, s = u[p].slot,
           u[p].pc \in Putting, inode[s].count = 1, inode' = [inode EXCEPT ![s] = Free],
           GoAndWake(p, s, After(u[p])), dir' = dir, cdir' = cdir,
           dino'[inode[s].num].mode = inode[s].mode,
           dino'[inode[s].num].nlink = inode[s].nlink,
           \A i \in Ino : i # inode[s].num => dino'[i] = dino[i]
    PROVE  Linkage'
<1>1. /\ Has(p, s) /\ u[p].ip # s /\ s # 1 /\ (cdir[p] = s => Departs(u[p]))
      /\ \A q \in Procs : q # p => ~Has(q, s)
      /\ \A q \in Procs : q # p /\ Sole(u[q]) => u[q].slot # s
    BY OnlyOne
<1>2. /\ Fits(u[p], cdir[p]) /\ Users /\ inode \in [Slots -> IRec] /\ cdir[p] \in Slots
    BY Fitting
<1>3. /\ inode'[s].num = 0 /\ \A x \in Slots : x # s => inode'[x] = inode[x]
    BY <1>2 DEF Free
<1>4. PICK r : r = After(u[p])
    OBVIOUS
<1>5. Moves(p, r)
    BY <1>2, <1>4, WakeMoves
<1>6. /\ Light(u[p], r) /\ r.ip \in {0, u[p].ip} /\ (r.pc = "iget" => r.from # <<>>)
      /\ r.pc \in {"user", "dead", "iput", "iget", "wdone", "iloop", "closed", "chdir",
               "exdone"}
    BY <1>2, <1>4, AfterPut
<1>7. Steady(p)
    BY <1>1, <1>3 DEF Steady
<1>8. u'[p] = r
    BY <1>5 DEF Moves
<1>9. inode[s].num # 0
    BY DEF Rest, SlotsFree, Free
<1>10. /\ inode[s].num \in Ino /\ InCore(inode[s].num) = {s}
  <2>1. \A q \in Procs : u[q].pc = "iread" => u[q].slot # s
      BY <1>1 DEF Sole, Putting
  <2> QED
      BY <1>9, <2>1, InCoreOf
<1>11. ASSUME NEW i \in Ino PROVE Less(i)
  <2>1. Entries(i)' \subseteq Entries(i)
      BY DEF Entries
  <2>2. p \notin Making(i)'
      BY <1>6, <1>8 DEF Making, Makes
  <2>3. p \in LinkPending(i) => p \in LinkPending(i)'
    <3>1. ASSUME p \in LinkPending(i) PROVE p \in LinkPending(i)'
      <4>1. Pends(u[p]) /\ inode[u[p].ip].num = i
          BY <3>1 DEF LinkPending, Pends
      <4>2. Pends(r) /\ r.ip = u[p].ip
          BY <1>6, <4>1 DEF Light, Still
      <4>3. u[p].ip \in Slots
          BY <4>1, Having DEF Pends
      <4>4. inode'[r.ip].num = i
          BY <1>1, <1>3, <4>1, <4>2, <4>3
      <4> QED
          BY <1>8, <4>2, <4>4 DEF LinkPending, Pends
    <3> QED
        BY <3>1
  <2> QED
      BY <1>5, <1>7, <2>1, <2>2, <2>3, TallyLess
<1>12. Linked'
  <2>1. ASSUME NEW i \in Ino, i # inode[s].num PROVE LinkedAt(i)'
    <3>1. \A x \in Slots : inode'[x].num = i <=> inode[x].num = i
        BY <1>3, <2>1, Sizes DEF Ino
    <3>2. InCore(i)' = InCore(i)
        BY <1>5, <1>6, <3>1, CoreSame DEF Putting
    <3>3. \A x \in InCore(i) : inode'[x].mode = inode[x].mode
             /\ inode'[x].nlink = inode[x].nlink
        BY <1>3, <2>1 DEF InCore
    <3>4. LinkedAt(i) /\ dino'[i] = dino[i]
        BY <2>1 DEF Linkage, Linked, LinkedAt
    <3> QED
        BY <1>11, <3>2, <3>3, <3>4, LinkedKept
  <2>2. ASSUME NEW i \in Ino, i = inode[s].num PROVE LinkedAt(i)'
    <3>1. InCore(i)' = {}
      <4>1. \A x \in Slots : x # s => inode[x].num # i
          BY <1>9, <2>2 DEF Rest, Unique
      <4> QED
          BY <1>3, <1>9, <2>2, <4>1 DEF InCore
    <3>2. Backs(i, inode[s].mode, inode[s].nlink) /\ inode[s].nlink \in Int
        BY <1>2, <1>10, <2>2 DEF Linkage, Linked, IRec
    <3>3. Tally(i)' <= inode[s].nlink /\ (Named(i)' => inode[s].mode # "none")
        BY <1>11, <3>2, BacksLess
    <3> QED
        BY <2>2, <3>1, <3>3 DEF LinkedAt, Backs
  <2> QED
      BY <2>1, <2>2 DEF Linked, LinkedAt
<1>13. Clean'
  <2>1. ASSUME NEW x \in Slots, inode'[x].num # 0, ~inode'[x].upd,
               \A q \in Procs : Moving(u'[q]) => u'[q].slot # x
        PROVE  /\ dino'[inode'[x].num].mode = inode'[x].mode
               /\ dino'[inode'[x].num].nlink = inode'[x].nlink
    <3>1. x # s /\ inode'[x] = inode[x]
        BY <1>3, <2>1
    <3>2. \A q \in Procs : Moving(u[q]) => u[q].slot # x
        BY <1>5, <2>1, <3>1, MovingStep
    <3>3. /\ dino[inode[x].num].mode = inode[x].mode
          /\ dino[inode[x].num].nlink = inode[x].nlink
        BY <2>1, <3>1, <3>2 DEF Linkage, Clean
    <3>4. inode[x].num \in Ino /\ inode[x].num # inode[s].num
      <4>1. inode[x].num \in Ino
          BY <2>1, <3>1, Sizes DEF TypeOK, Ino
      <4> QED
          BY <2>1, <3>1, <4>1 DEF Rest, Unique
    <3>5. dino'[inode[x].num] = dino[inode[x].num]
        BY <3>4
    <3> QED
        BY <3>1, <3>3, <3>5
  <2> QED
      BY <2>1 DEF Clean
<1>14. Apt'
  <2>1. Found(inode, u[p], cdir[p]) /\ Asked(inode, u[p], cdir[p])
      BY DEF Linkage, Apt
  <2>2. Found(inode, r, cdir[p]) /\ (Departs(u[p]) => Departs(r))
      BY <1>6, <2>1, EasyApt DEF Light, Easy
  <2>3. r.ip # 0 => r.ip \in Slots /\ r.ip # s
      BY <1>1, <1>6, Having
  <2>4. r.pc = "chdir" \/ (r.pc \in Putting /\ r.ret = "chdir") => r.ip # 0
    <3>1. Fits(r, cdir'[p])
        BY <1>8 DEF Rest, Users
    <3> QED
        BY <3>1 DEF Fits, Holding, WithIp
  <2>5. Found(inode', r, cdir[p])
      BY <1>1, <1>2, <1>3, <1>6, <2>2, <2>3, <2>4 DEF Found
  <2>6. Asked(inode', r, cdir[p])
    <3>1. r.pc \in Fetching => r.pc = "iget" /\ r.from # <<>> /\ r.ret # "uget"
      <4>1. Going(r, cdir'[p]) /\ Easy(u[p], r)
          BY <1>6, <1>8 DEF Rest, Users, Fits, Light
      <4>2. r.pc = "iget" => r.ret = "comp"
        <5>1. r.pc = "iget" => u[p].ret = "iget"
            BY <1>2, <1>4 DEF After, CallIput, Idle, Putting, Fits, URec, Going
        <5>2. u[p].ret = "iget" => r = CallIget(u[p], u[p].ino, "comp")
            BY <1>4 DEF After
        <5>3. u[p].ret = "iget" => r.ret = "comp"
            BY <1>2, <5>2 DEF CallIget, Fits, URec
        <5> QED
            BY <5>1, <5>3
      <4> QED
          BY <1>6, <4>2 DEF Fetching
    <3> QED
        BY <1>6, <3>1 DEF Asked, Fetching
  <2>7. \A q \in Procs : q # p =>
            Found(inode', u'[q], cdir'[q]) /\ Asked(inode', u'[q], cdir'[q])
      BY <1>5, <1>7, OthersApt DEF Linkage
  <2> QED
      BY <1>8, <2>5, <2>6, <2>7 DEF Apt
<1>15. Rooted'
  <2>1. 1 \in Slots
      BY NamesAssumption DEF Slots
  <2> QED
      BY <1>1, <1>3, <2>1 DEF Linkage, Rooted
<1> QED
    BY <1>12, <1>13, <1>14, <1>15 DEF Linkage

LEMMA IputDoneLinks ==
    ASSUME TypeOK, Rest, Rest', Linkage, NEW p \in Procs, IputDone(p) PROVE Linkage'
<1>1. /\ u[p].pc = "iupdat" /\ dir' = dir /\ cdir' = cdir
    BY DEF IputDone, At, files
<1>2. PICK s \in Slots : s = u[p].slot /\ inode[s].count = 1
    BY <1>1, Having DEF Rest, Exclusive, Sole
<1>3. /\ Iupdat(s) /\ inode' = [inode EXCEPT ![s] = Free] /\ GoAndWake(p, s, After(u[p]))
    BY <1>2 DEF IputDone
<1>4. inode[s].num \in Ino
  <2>1. inode[s].num # 0
      BY <1>2 DEF Rest, SlotsFree
  <2> QED
      BY <2>1, Sizes DEF TypeOK, Ino
<1>5. /\ dino'[inode[s].num].mode = inode[s].mode
      /\ dino'[inode[s].num].nlink = inode[s].nlink
      /\ \A i \in Ino : i # inode[s].num => dino'[i] = dino[i]
    BY <1>3, <1>4 DEF Iupdat, TypeOK
<1> QED
    BY <1>1, <1>2, <1>3, <1>5, PutAwayLinks DEF Putting

LEMMA IputLastLinks ==
    ASSUME TypeOK, Rest, Rest', Linkage, NEW p \in Procs, IputLast(p) PROVE Linkage'
<1>1. /\ u[p].pc = "iput" /\ dir' = dir /\ Written /\ cdir' = cdir /\ dino' = dino
    BY DEF IputLast, At, Written, files
<1>2. PICK s \in Slots : s = u[p].slot /\ inode[s].count = 1
    BY <1>1, Having DEF IputLast
<1>3. /\ Fits(u[p], cdir[p]) /\ u[p] \in URec /\ cdir[p] \in Slots /\ Users
    BY Fitting
<1>4. ASSUME inode[s].nlink > 0, ~inode[s].upd, inode' = [inode EXCEPT ![s] = Free],
             GoAndWake(p, s, After(u[p]))
      PROVE  Linkage'
  <2>1. \A q \in Procs : Moving(u[q]) => u[q].slot # s
    <3>1. \A q \in Procs : q # p /\ Sole(u[q]) => u[q].slot # s
        BY <1>1, <1>2, OnlyOne DEF Putting
    <3> QED
        BY <1>1, <3>1 DEF Moving, Sole
  <2>2. inode[s].num # 0
      BY <1>2 DEF Rest, SlotsFree
  <2>3. dino[inode[s].num].mode = inode[s].mode /\ dino[inode[s].num].nlink = inode[s].nlink
      BY <1>4, <2>1, <2>2 DEF Linkage, Clean
  <2> QED
      BY <1>1, <1>2, <1>4, <2>3, PutAwayLinks DEF Putting
<1>5. ASSUME NEW k \in {"itrunc", "iupdat"}, inode' = [inode EXCEPT ![s].lock = TRUE],
             k = "itrunc" => ~(inode[s].nlink > 0), Go(p, [u[p] EXCEPT !.pc = k])
      PROVE  Linkage'
  <2>1. PICK r : r = [u[p] EXCEPT !.pc = k]
      OBVIOUS
  <2>2. /\ r.pc = k /\ r.call = u[p].call /\ r.ip = u[p].ip /\ r.ret = u[p].ret
        /\ r.slot = s
      BY <1>2, <1>3, <2>1 DEF URec
  <2>3. Still(u[p], r)
      BY <1>1, <2>2 DEF Still, Makes, Pends
  <2>4. Found(inode, u[p], cdir[p])
      BY DEF Linkage, Apt
  <2>5. Found(inode, r, cdir[p])
      BY <1>1, <2>2, <2>4 DEF Found, Departs, Putting
  <2>6. inode[s].nlink \in Int
      BY DEF TypeOK
  <2>7. Asked(inode, r, cdir[p])
      BY <1>5, <2>2, <2>6 DEF Asked, Fetching
  <2>8. Plain(p)
      BY <1>5, LockPlain
  <2>9. Moves(p, r) /\ r.pc # "iread" /\ ~Moving(u[p])
      BY <1>1, <1>3, <1>5, <2>1, <2>2, GoMoves DEF Moving
  <2> QED
      BY <1>1, <1>3, <2>3, <2>5, <2>7, <2>8, <2>9, QuietLinks
<1>6. \/ /\ inode[s].nlink > 0 /\ ~inode[s].upd /\ inode' = [inode EXCEPT ![s] = Free]
         /\ GoAndWake(p, s, After(u[p]))
      \/ /\ inode' = [inode EXCEPT ![s].lock = TRUE]
         /\ Go(p, [u[p] EXCEPT !.pc = IF inode[s].nlink > 0 THEN "iupdat" ELSE "itrunc"])
    BY <1>2 DEF IputLast
<1> QED
    BY <1>4, <1>5, <1>6

\* Steps that change modes and links of inodes that p has, and mark them.
Touched(p) ==
    \A s \in Slots :
       /\ inode'[s].num = inode[s].num
       /\ inode[s].mode # "none" => inode'[s].mode # "none"
       /\ \/ /\ inode'[s].mode = inode[s].mode /\ inode'[s].nlink = inode[s].nlink
             /\ inode'[s].upd = inode[s].upd
          \/ Has(p, s) /\ inode'[s].upd

LEMMA TouchedSteady ==
    ASSUME TypeOK, Rest, NEW p \in Procs, Touched(p) PROVE Steady(p)
<1>1. ASSUME NEW q \in Procs, q # p, NEW x \in Slots, Sole(u[q]), u[q].slot = x
      PROVE  ~Has(p, x)
    BY <1>1, NobodyElse
<1> QED
    BY <1>1 DEF Touched, Steady

LEMMA TouchLinks ==
    ASSUME TypeOK, Rest, Linkage, NEW p \in Procs, NEW r, Moves(p, r), Touched(p),
           dino' = dino, ~Moving(u[p]), NEW c, c = cdir'[p], Found(inode', r, c),
           Asked(inode', r, c), \A i \in Ino : LinkedAt(i)'
    PROVE  Linkage'
<1>1. Steady(p) /\ u'[p] = r
    BY TouchedSteady DEF Moves
<1>2. Linked'
    BY DEF Linked, LinkedAt
<1>3. Clean'
  <2>1. ASSUME NEW s \in Slots, inode'[s].num # 0, ~inode'[s].upd,
               \A q \in Procs : Moving(u'[q]) => u'[q].slot # s
        PROVE  /\ dino'[inode'[s].num].mode = inode'[s].mode
               /\ dino'[inode'[s].num].nlink = inode'[s].nlink
    <3>1. /\ inode'[s].num = inode[s].num /\ inode'[s].mode = inode[s].mode
          /\ inode'[s].nlink = inode[s].nlink /\ inode'[s].upd = inode[s].upd
        BY <2>1 DEF Touched
    <3>2. \A q \in Procs : Moving(u[q]) => u[q].slot # s
        BY <2>1, MovingStep
    <3>3. /\ dino[inode[s].num].mode = inode[s].mode
          /\ dino[inode[s].num].nlink = inode[s].nlink
        BY <2>1, <3>1, <3>2 DEF Linkage, Clean
    <3> QED
        BY <3>1, <3>3
  <2> QED
      BY <2>1 DEF Clean
<1>4. Apt'
  <2>1. \A q \in Procs : q # p =>
            Found(inode', u'[q], cdir'[q]) /\ Asked(inode', u'[q], cdir'[q])
      BY <1>1, OthersApt DEF Linkage
  <2> QED
      BY <1>1, <2>1 DEF Apt
<1>5. Rooted'
  <2>1. 1 \in Slots
      BY NamesAssumption DEF Slots
  <2> QED
      BY <2>1 DEF Linkage, Rooted, Touched
<1> QED
    BY <1>2, <1>3, <1>4, <1>5 DEF Linkage

\* An inode that the step leaves alone.
LEMMA TouchedAt ==
    ASSUME TypeOK, Rest, Linkage, NEW p \in Procs, NEW r, Moves(p, r), Touched(p),
           dino' = dino, u[p].pc # "iread", r.pc # "iread", NEW i \in Ino,
           \A s \in Slots : inode[s].num = i =>
              inode'[s].mode = inode[s].mode /\ inode'[s].nlink = inode[s].nlink,
           Less(i)
    PROVE  LinkedAt(i)'
<1>1. \A s \in Slots : inode'[s].num = i <=> inode[s].num = i
    BY DEF Touched
<1>2. InCore(i)' = InCore(i)
    BY <1>1, CoreSame
<1>3. \A s \in InCore(i) : inode'[s].mode = inode[s].mode /\ inode'[s].nlink = inode[s].nlink
    BY DEF InCore
<1>4. LinkedAt(i)
    BY DEF Linkage, Linked, LinkedAt
<1> QED
    BY <1>2, <1>3, <1>4, LinkedKept

\* An inode without links that its last holder puts has no names.
LEMMA NoNames ==
    ASSUME TypeOK, Rest, Linkage, NEW p \in Procs, u[p].pc = "itrunc", NEW s \in Slots,
           s = u[p].slot, inode[s].count = 1
    PROVE  /\ inode[s].num \in Ino /\ InCore(inode[s].num) = {s} /\ ~Named(inode[s].num)
           /\ Backs(inode[s].num, inode[s].mode, inode[s].nlink)
<1>1. /\ u[p].ip # s /\ \A q \in Procs : q # p => ~Has(q, s)
      /\ \A q \in Procs : q # p /\ Sole(u[q]) => u[q].slot # s
    BY OnlyOne DEF Putting
<1>2. inode[s].num # 0
    BY DEF Rest, SlotsFree
<1>3. /\ inode[s].num \in Ino /\ InCore(inode[s].num) = {s}
  <2>1. \A q \in Procs : u[q].pc = "iread" => u[q].slot # s
      BY <1>1 DEF Sole
  <2> QED
      BY <1>2, <2>1, InCoreOf
<1>4. Backs(inode[s].num, inode[s].mode, inode[s].nlink)
    BY <1>3 DEF Linkage, Linked
<1>5. inode[s].nlink <= 0 /\ inode[s].nlink \in Int
    BY DEF Linkage, Apt, Asked, TypeOK
<1>6. LinkPending(inode[s].num) = {}
  <2>1. ASSUME NEW q \in LinkPending(inode[s].num) PROVE FALSE
    <3>1. q \in Procs /\ u[q].ip # 0 /\ inode[u[q].ip].num = inode[s].num
        BY <2>1 DEF LinkPending
    <3>2. u[q].ip \in Slots /\ Has(q, u[q].ip)
        BY <3>1, Having
    <3>3. u[q].ip = s
        BY <1>2, <3>1, <3>2 DEF Rest, Unique
    <3> QED
        BY <1>1, <3>1, <3>2, <3>3
  <2> QED
      BY <2>1
<1>7. ~Named(inode[s].num)
  <2>1. PICK i : i = inode[s].num
      OBVIOUS
  <2>2. /\ Cardinality(Entries(i)) \in Nat /\ Cardinality(Making(i)) \in Nat
        /\ IsFiniteSet(Entries(i)) /\ IsFiniteSet(Making(i))
      BY TallyType
  <2>3. Cardinality(LinkPending(i)) = 0
      BY <1>6, <2>1, FS_EmptySet
  <2>4. Cardinality(Entries(i)) + Cardinality(Making(i)) <= 0
    <3>1. Tally(i) <= inode[s].nlink /\ Tally(i) \in Int
        BY <1>4, <2>1, TallyType DEF Backs
    <3> QED
        BY <1>5, <2>2, <2>3, <3>1 DEF Tally
  <2>5. Cardinality(Entries(i)) = 0 /\ Cardinality(Making(i)) = 0
      BY <2>2, <2>4
  <2>6. Entries(i) = {} /\ Making(i) = {}
      BY <2>2, <2>5, FS_EmptySet
  <2> QED
      BY <2>1, <2>6 DEF Named
<1> QED
    BY <1>3, <1>4, <1>7

LEMMA IputTruncLinks ==
    ASSUME TypeOK, Rest, Rest', Linkage, NEW p \in Procs, IputTrunc(p) PROVE Linkage'
<1>1. /\ u[p].pc = "itrunc" /\ cdir' = cdir /\ dino' = dino
      /\ Go(p, [u[p] EXCEPT !.pc = "iupdat"])
    BY DEF IputTrunc, At, files
<1>2. PICK s \in Slots : s = u[p].slot /\ inode[s].count = 1
    BY <1>1, Having DEF Rest, Exclusive, Sole
<1>3. /\ Fits(u[p], cdir[p]) /\ u[p] \in URec /\ cdir[p] \in Slots /\ Users
      /\ inode \in [Slots -> IRec]
    BY Fitting
<1>4. /\ Has(p, s) /\ u[p].ip # s /\ s # 1 /\ (cdir[p] = s => Departs(u[p]))
      /\ \A q \in Procs : q # p => ~Has(q, s)
    BY <1>1, <1>2, OnlyOne DEF Putting
<1>5. /\ inode[s].num \in Ino /\ InCore(inode[s].num) = {s} /\ ~Named(inode[s].num)
      /\ Backs(inode[s].num, inode[s].mode, inode[s].nlink)
    BY <1>1, <1>2, NoNames
<1>6. PICK b \in BOOLEAN : b = (inode[s].upd \/ inode[s].mode # "spec")
    OBVIOUS
<1>7. inode' = [inode EXCEPT ![s].mode = "none", ![s].upd = b]
    BY <1>2, <1>6 DEF IputTrunc
<1>8. /\ \A x \in Slots : x # s => inode'[x] = inode[x]
      /\ \A x \in Slots : inode'[x].num = inode[x].num /\ inode'[x].nlink = inode[x].nlink
    BY <1>3, <1>7 DEF IRec
<1>9. PICK r : r = [u[p] EXCEPT !.pc = "iupdat"]
    OBVIOUS
<1>10. /\ r.pc = "iupdat" /\ r.call = u[p].call /\ r.ip = u[p].ip /\ r.ret = u[p].ret
       /\ r.slot = s
    BY <1>2, <1>3, <1>9 DEF URec
<1>11. Moves(p, r)
    BY <1>1, <1>3, <1>9, GoMoves
<1>12. Steady(p) /\ u'[p] = r
    BY <1>4, <1>8, <1>11 DEF Steady, Moves
<1>13. ASSUME NEW i \in Ino PROVE Less(i)
  <2>1. Entries(i)' \subseteq Entries(i)
    <3>1. \A d \in DirInos : dir'[d] = <<>> \/ dir'[d] = dir[d]
        BY DEF IputTrunc
    <3>2. ASSUME NEW e \in Entries(i)' PROVE e \in Entries(i)
      <4>1. PICK d \in DirInos : \E k \in DOMAIN dir'[d] : e = <<d, k>> /\ dir'[d][k].ino = i
          BY <3>2, EntryIn
      <4>2. dir'[d] = dir[d]
          BY <3>1, <4>1
      <4> QED
          BY <4>1, <4>2, EntryIn
    <3> QED
        BY <3>2
  <2>2. p \notin Making(i)'
      BY <1>10, <1>12 DEF Making, Makes
  <2>3. ASSUME p \in LinkPending(i) PROVE p \in LinkPending(i)'
    <3>1. u[p].ip \in Slots
        BY <2>3, Having DEF LinkPending
    <3> QED
        BY <1>8, <1>10, <1>12, <2>3, <3>1 DEF LinkPending
  <2> QED
      BY <1>11, <1>12, <2>1, <2>2, <2>3, TallyLess
<1>14. Linked'
  <2>1. ASSUME NEW i \in Ino PROVE LinkedAt(i)'
    <3>1. InCore(i)' = InCore(i)
        BY <1>1, <1>8, <1>10, <1>11, CoreSame
    <3>2. CASE i # inode[s].num
      <4>1. \A x \in InCore(i) : inode'[x].mode = inode[x].mode
               /\ inode'[x].nlink = inode[x].nlink
          BY <1>8, <3>2 DEF InCore
      <4>2. LinkedAt(i)
          BY DEF Linkage, Linked, LinkedAt
      <4> QED
          BY <1>1, <1>13, <3>1, <4>1, <4>2, LinkedKept
    <3>3. CASE i = inode[s].num
      <4>1. inode[s].nlink \in Int
          BY DEF TypeOK
      <4>2. Tally(i)' <= inode[s].nlink
          BY <1>5, <1>13, <3>3, <4>1, BacksLess
      <4>3. ~Named(i)'
          BY <1>5, <1>13, <3>3 DEF Less
      <4>4. InCore(i)' = {s} /\ inode'[s].nlink = inode[s].nlink
          BY <1>5, <1>8, <3>1, <3>3
      <4> QED
          BY <4>2, <4>3, <4>4 DEF LinkedAt, Backs
    <3> QED
        BY <3>2, <3>3
  <2> QED
      BY <2>1 DEF Linked, LinkedAt
<1>15. Clean'
  <2>1. ASSUME NEW x \in Slots, inode'[x].num # 0, ~inode'[x].upd,
               \A q \in Procs : Moving(u'[q]) => u'[q].slot # x
        PROVE  /\ dino'[inode'[x].num].mode = inode'[x].mode
               /\ dino'[inode'[x].num].nlink = inode'[x].nlink
    <3>1. x # s
        BY <1>10, <1>12, <2>1 DEF Moving
    <3>2. inode'[x] = inode[x]
        BY <1>8, <3>1
    <3>3. \A q \in Procs : Moving(u[q]) => u[q].slot # x
        BY <1>1, <1>11, <2>1, MovingStep DEF Moving
    <3> QED
        BY <1>1, <2>1, <3>2, <3>3 DEF Linkage, Clean
  <2> QED
      BY <2>1 DEF Clean
<1>16. Apt'
  <2>1. Found(inode, u[p], cdir[p])
      BY DEF Linkage, Apt
  <2>2. u[p].ip # 0 => u[p].ip \in Slots
      BY Having
  <2>3. r.pc \in Putting /\ r.ret = "chdir" => u[p].ip # 0
      BY <1>1, <1>10, Having DEF Putting
  <2>4. Departs(u[p]) => Departs(r)
      BY <1>1, <1>10 DEF Departs, Putting
  <2>5. Found(inode', r, cdir[p])
    <3>1. r.ip # 0 => inode'[r.ip] = inode[u[p].ip]
        BY <1>4, <1>8, <1>10, <2>2
    <3>2. ~Departs(r) => inode'[cdir[p]] = inode[cdir[p]]
        BY <1>3, <1>4, <1>8, <2>4
    <3> QED
        BY <1>1, <1>10, <2>1, <2>3, <2>4, <3>1, <3>2 DEF Found, Putting
  <2>6. Asked(inode', r, cdir[p])
      BY <1>10 DEF Asked, Fetching
  <2>7. \A q \in Procs : q # p =>
            Found(inode', u'[q], cdir'[q]) /\ Asked(inode', u'[q], cdir'[q])
      BY <1>11, <1>12, OthersApt DEF Linkage
  <2> QED
      BY <1>1, <1>12, <2>5, <2>6, <2>7 DEF Apt
<1>17. Rooted'
  <2>1. 1 \in Slots
      BY NamesAssumption DEF Slots
  <2> QED
      BY <1>4, <1>8, <2>1 DEF Linkage, Rooted
<1> QED
    BY <1>14, <1>15, <1>16, <1>17 DEF Linkage

-----------------------------------------------------------------------------
(* iget.                                                                    *)

\* What namei found is still there, and the inode has a name.
LEMMA StillNamed ==
    ASSUME NEW r \in URec, ~NameGone(r), r.from # <<>>
    PROVE  Named(r.ino)
<1>1. PICK d \in DirInos, k \in Nat : r.from = <<d, k>>
    BY DEF URec
<1>2. r.from[1] = d
    BY <1>1
<1>3. PICK j \in DOMAIN dir[d] : dir[d][j].ino = r.ino
    BY <1>2 DEF NameGone
<1>4. <<d, j>> \in Entries(r.ino)
    BY <1>3, EntryIn
<1> QED
    BY <1>4 DEF Named

LEMMA IgetHitLinks ==
    ASSUME TypeOK, Rest, Rest', Linkage, NEW p \in Procs, IgetHit(p), ~halted' PROVE Linkage'
<1>1. /\ u[p].pc = "iget" /\ dir' = dir /\ Written /\ cdir' = cdir /\ ~NameGone(u[p])
    BY DEF IgetHit, At, Written, files
<1>2. /\ Fits(u[p], cdir[p]) /\ u[p] \in URec /\ Going(u[p], cdir[p]) /\ Naming(u[p])
      /\ inode \in [Slots -> IRec] /\ cdir[p] \in Slots /\ Users
    BY Fitting
<1>3. PICK s \in Slots : /\ inode[s].num = u[p].ino /\ ~inode[s].lock
                         /\ inode' = [inode EXCEPT ![s].count = @ + 1, ![s].lock = TRUE]
                         /\ Go(p, [u[p] EXCEPT !.pc = u[p].ret, !.slot = s])
    BY DEF IgetHit
<1>4. u[p].ret \in {"comp", "igot", "uget"} /\ u[p].ino # 0
    BY <1>1, <1>2 DEF Going, Naming, Fetching
<1>5. PICK k \in {"comp", "igot", "uget"} : k = u[p].ret
    BY <1>4
<1>6. PICK r : r = [u[p] EXCEPT !.pc = k, !.slot = s]
    OBVIOUS
<1>7. /\ r.pc = k /\ r.call = u[p].call /\ r.ip = u[p].ip /\ r.ret = k
      /\ r.slot = s /\ r.ino = u[p].ino
    BY <1>2, <1>5, <1>6 DEF URec
<1>8. Found(inode, u[p], cdir[p]) /\ Asked(inode, u[p], cdir[p])
    BY DEF Linkage, Apt
<1>9. ~Departs(u[p]) /\ ~Departs(r)
    BY <1>1, <1>7 DEF Departs, Putting
<1>10. Still(u[p], r)
    BY <1>1, <1>4, <1>5, <1>7 DEF Still, Makes, Pends
<1>11. ASSUME k = "comp" PROVE inode[s].mode # "none"
  <2>1. CASE u[p].from = <<>>
    <3>1. inode[s].num \in {ROOTINO, inode[cdir[p]].num}
        BY <1>1, <1>3, <1>5, <1>8, <1>11, <2>1 DEF Asked, Fetching
    <3>2. s = 1 \/ s = cdir[p]
      <4>1. 1 \in Slots /\ inode[1].num = ROOTINO
          BY NamesAssumption DEF Linkage, Rooted, Slots
      <4> QED
          BY <1>2, <1>3, <1>4, <3>1, <4>1 DEF Rest, Unique
    <3>3. inode[1].mode # "none" /\ inode[cdir[p]].mode # "none"
        BY <1>8, <1>9 DEF Linkage, Rooted, Found
    <3> QED
        BY <3>2, <3>3
  <2>2. CASE u[p].from # <<>>
    <3>1. Named(u[p].ino)
        BY <1>1, <1>2, <2>2, StillNamed
    <3>2. \A q \in Procs : u[q].pc = "iread" => u[q].slot # s
        BY <1>3, SoleLocked DEF Sole
    <3>3. inode[s].num \in Ino /\ InCore(inode[s].num) = {s}
        BY <1>3, <1>4, <3>2, InCoreOf
    <3> QED
        BY <1>3, <3>1, <3>3 DEF Linkage, Linked, Backs
  <2> QED
      BY <2>1, <2>2
<1>12. Found(inode, r, cdir[p])
    BY <1>1, <1>5, <1>7, <1>8, <1>9, <1>11 DEF Found, Putting
<1>13. Asked(inode, r, cdir[p])
    BY <1>1, <1>3, <1>5, <1>7, <1>8 DEF Asked, Fetching
<1>14. Plain(p)
  <2>1. \A x \in Slots : /\ inode'[x].num = inode[x].num /\ inode'[x].mode = inode[x].mode
                         /\ inode'[x].nlink = inode[x].nlink /\ inode'[x].upd = inode[x].upd
      BY <1>2, <1>3 DEF IRec
  <2> QED
      BY <2>1 DEF Plain
<1>15. Moves(p, r) /\ r.pc # "iread" /\ ~Moving(u[p])
    BY <1>1, <1>2, <1>3, <1>5, <1>6, <1>7, GoMoves DEF Moving
<1> QED
    BY <1>1, <1>2, <1>10, <1>12, <1>13, <1>14, <1>15, QuietLinks

LEMMA IgetMissLinks ==
    ASSUME TypeOK, Rest, Rest', Linkage, NEW p \in Procs, IgetMiss(p) PROVE Linkage'
<1>1. /\ u[p].pc = "iget" /\ dir' = dir /\ dino' = dino /\ cdir' = cdir
      /\ Absent(u[p].ino) /\ FreeSlots # {}
    BY DEF IgetMiss, At, files
<1>2. /\ Fits(u[p], cdir[p]) /\ u[p] \in URec /\ Going(u[p], cdir[p]) /\ Naming(u[p])
      /\ inode \in [Slots -> IRec] /\ cdir[p] \in Slots /\ Users /\ u[p].ino \in Ino
  <2>1. u[p].ino # 0 /\ u[p].ino \in 0..NI
      BY <1>1, Fitting, RecordTypes DEF Naming, Fetching
  <2> QED
      BY <2>1, Fitting, Sizes DEF Ino
<1>3. PICK s \in FreeSlots :
         /\ inode' = [inode EXCEPT ![s] = [@ EXCEPT !.num = u[p].ino, !.lock = TRUE,
                                                    !.want = FALSE, !.upd = FALSE, !.count = 1]]
         /\ Go(p, [u[p] EXCEPT !.pc = "iread", !.slot = s])
  <2>1. PICK s : s = FirstOf(FreeSlots)
      OBVIOUS
  <2>2. s \in FreeSlots
    <3>1. FreeSlots \in SUBSET Nat
        BY DEF FreeSlots, Slots
    <3> QED
        BY <1>1, <2>1, <3>1, LeastNatural
  <2>3. /\ inode' = [inode EXCEPT ![s] = [@ EXCEPT !.num = u[p].ino, !.lock = TRUE,
                                                   !.want = FALSE, !.upd = FALSE, !.count = 1]]
        /\ Go(p, [u[p] EXCEPT !.pc = "iread", !.slot = s])
      BY <2>1 DEF IgetMiss, FirstOf
  <2> QED
      BY <2>2, <2>3
<1>4. s \in Slots /\ inode[s].count = 0 /\ inode[s].num = 0
    BY DEF FreeSlots, Rest, SlotsFree, Free
<1>5. PICK r : r = [u[p] EXCEPT !.pc = "iread", !.slot = s]
    OBVIOUS
<1>6. /\ r.pc = "iread" /\ r.call = u[p].call /\ r.ip = u[p].ip /\ r.ret = u[p].ret
      /\ r.slot = s /\ r.ino = u[p].ino /\ r.from = u[p].from
    BY <1>2, <1>5 DEF URec
<1>7. /\ inode'[s].num = u[p].ino /\ ~inode'[s].upd
      /\ \A x \in Slots : x # s => inode'[x] = inode[x]
  <2>1. PICK e : e = [inode[s] EXCEPT !.num = u[p].ino, !.lock = TRUE, !.want = FALSE,
                                      !.upd = FALSE, !.count = 1]
      OBVIOUS
  <2>2. e.num = u[p].ino /\ ~e.upd
      BY <1>2, <1>4, <2>1 DEF IRec
  <2>3. inode' = [inode EXCEPT ![s] = e]
      BY <1>3, <2>1
  <2> QED
      BY <1>2, <1>4, <2>2, <2>3
<1>8. \A q \in Procs : ~Has(q, s)
    BY <1>4, OneHolder DEF Rest
<1>9. Moves(p, r)
    BY <1>1, <1>2, <1>3, <1>5, GoMoves
<1>10. Steady(p) /\ u'[p] = r
    BY <1>7, <1>8, <1>9 DEF Steady, Moves
<1>11. u[p].ip # 0 => u[p].ip \in Slots /\ u[p].ip # s
    BY <1>8, Having
<1>12. cdir[p] # s /\ s # 1
  <2>1. Has(p, cdir[p])
      BY <1>1, Having
  <2>2. inode[1].num # 0
      BY DEF Linkage, Rooted, ROOTINO
  <2> QED
      BY <1>4, <1>8, <2>1, <2>2
<1>13. ASSUME NEW i \in Ino PROVE Less(i)
  <2>1. Entries(i)' \subseteq Entries(i)
      BY <1>1 DEF Entries
  <2>2. p \notin Making(i)'
      BY <1>6, <1>10 DEF Making, Makes
  <2>3. p \in LinkPending(i) => p \in LinkPending(i)'
      BY <1>6, <1>7, <1>10, <1>11 DEF LinkPending
  <2> QED
      BY <1>9, <1>10, <2>1, <2>2, <2>3, TallyLess
<1>14. Linked'
  <2>1. ASSUME NEW i \in Ino PROVE LinkedAt(i)'
    <3>1. InCore(i)' = InCore(i)
      <4>1. ASSUME NEW x \in Slots PROVE x \in InCore(i)' <=> x \in InCore(i)
        <5>1. CASE x = s
          <6>1. x \notin InCore(i)
              BY <1>4, <5>1, Sizes DEF InCore, Ino
          <6>2. x \notin InCore(i)'
              BY <1>6, <1>10, <5>1 DEF InCore
          <6> QED
              BY <6>1, <6>2
        <5>2. CASE x # s
          <6>1. ASSUME NEW q \in Procs
                PROVE  (u'[q].pc = "iread" /\ u'[q].slot = x)
                          <=> (u[q].pc = "iread" /\ u[q].slot = x)
            <7>1. CASE q = p
                BY <1>1, <1>6, <1>10, <5>2, <7>1
            <7>2. CASE q # p
                BY <1>9, <7>2, MovingStep DEF Moving
            <7> QED
                BY <7>1, <7>2
          <6>2. inode'[x].num = inode[x].num
              BY <1>7, <5>2
          <6> QED
              BY <6>1, <6>2 DEF InCore
        <5> QED
            BY <5>1, <5>2
      <4>2. InCore(i)' \subseteq Slots /\ InCore(i) \subseteq Slots
          BY DEF InCore
      <4> QED
          BY <4>1, <4>2
    <3>2. \A x \in InCore(i) : inode'[x].mode = inode[x].mode
             /\ inode'[x].nlink = inode[x].nlink
      <4>1. s \notin InCore(i)
          BY <1>4, Sizes DEF InCore, Ino
      <4> QED
          BY <1>7, <4>1 DEF InCore
    <3>3. LinkedAt(i) /\ dino'[i] = dino[i]
        BY <1>1 DEF Linkage, Linked, LinkedAt
    <3> QED
        BY <1>13, <3>1, <3>2, <3>3, LinkedKept
  <2> QED
      BY <2>1 DEF Linked, LinkedAt
<1>15. Clean'
  <2>1. ASSUME NEW x \in Slots, inode'[x].num # 0, ~inode'[x].upd,
               \A q \in Procs : Moving(u'[q]) => u'[q].slot # x
        PROVE  /\ dino'[inode'[x].num].mode = inode'[x].mode
               /\ dino'[inode'[x].num].nlink = inode'[x].nlink
    <3>1. x # s
        BY <1>6, <1>10, <2>1 DEF Moving
    <3>2. inode'[x] = inode[x]
        BY <1>7, <3>1
    <3>3. \A q \in Procs : Moving(u[q]) => u[q].slot # x
        BY <1>1, <1>9, <2>1, MovingStep DEF Moving
    <3> QED
        BY <1>1, <2>1, <3>2, <3>3 DEF Linkage, Clean
  <2> QED
      BY <2>1 DEF Clean
<1>16. Apt'
  <2>1. Found(inode, u[p], cdir[p]) /\ Asked(inode, u[p], cdir[p])
      BY DEF Linkage, Apt
  <2>2. inode'[cdir[p]] = inode[cdir[p]] /\ (u[p].ip # 0 => inode'[u[p].ip] = inode[u[p].ip])
      BY <1>2, <1>7, <1>11, <1>12
  <2>3. ~Departs(u[p])
      BY <1>1 DEF Departs, Putting
  <2>4. Found(inode', r, cdir[p])
      BY <1>6, <2>1, <2>2, <2>3 DEF Found, Putting
  <2>5. Asked(inode', r, cdir[p])
      BY <1>1, <1>6, <1>7, <2>1, <2>2 DEF Asked, Fetching
  <2>6. \A q \in Procs : q # p =>
            Found(inode', u'[q], cdir'[q]) /\ Asked(inode', u'[q], cdir'[q])
      BY <1>9, <1>10, OthersApt DEF Linkage
  <2> QED
      BY <1>1, <1>10, <2>4, <2>5, <2>6 DEF Apt
<1>17. Rooted'
  <2>1. 1 \in Slots
      BY NamesAssumption DEF Slots
  <2> QED
      BY <1>7, <1>12, <2>1 DEF Linkage, Rooted
<1> QED
    BY <1>14, <1>15, <1>16, <1>17 DEF Linkage

LEMMA IgetReadLinks ==
    ASSUME TypeOK, Rest, Rest', Linkage, NEW p \in Procs, IgetRead(p), ~halted' PROVE Linkage'
<1>1. /\ u[p].pc = "iread" /\ dir' = dir /\ dino' = dino /\ cdir' = cdir /\ ~NameGone(u[p])
      /\ Go(p, [u[p] EXCEPT !.pc = u[p].ret])
    BY DEF IgetRead, At, files
<1>2. /\ Fits(u[p], cdir[p]) /\ u[p] \in URec /\ Going(u[p], cdir[p]) /\ Naming(u[p])
      /\ inode \in [Slots -> IRec] /\ cdir[p] \in Slots /\ Users
    BY Fitting
<1>3. PICK s \in Slots : s = u[p].slot /\ inode[s].count = 1
    BY <1>1, Having DEF Rest, Exclusive, Sole
<1>4. /\ u[p].ip # s /\ s # 1 /\ cdir[p] # s /\ Has(p, s)
      /\ \A q \in Procs : q # p => ~Has(q, s)
      /\ \A q \in Procs : q # p /\ Sole(u[q]) => u[q].slot # s
    BY <1>1, <1>3, OnlyOne DEF Departs, Putting
<1>5. PICK i0 \in Ino : i0 = inode[s].num /\ i0 # 0
  <2>1. inode[s].num # 0
      BY <1>3 DEF Rest, SlotsFree
  <2>2. inode[s].num \in Ino
      BY <2>1, Sizes DEF TypeOK, Ino
  <2> QED
      BY <2>1, <2>2
<1>6. PICK m \in Mode, n \in Int : m = dino[i0].mode /\ n = dino[i0].nlink
    BY DEF TypeOK
<1>7. inode' = [inode EXCEPT ![s].mode = m, ![s].nlink = n]
    BY <1>3, <1>5, <1>6 DEF IgetRead
<1>8. /\ \A x \in Slots : x # s => inode'[x] = inode[x]
      /\ \A x \in Slots : inode'[x].num = inode[x].num /\ inode'[x].upd = inode[x].upd
      /\ inode'[s].mode = m /\ inode'[s].nlink = n
    BY <1>2, <1>7 DEF IRec
<1>9. PICK k \in {"comp", "igot", "uget"} : k = u[p].ret
    BY <1>1, <1>2 DEF Going, Fetching
<1>10. PICK r : r = [u[p] EXCEPT !.pc = k]
    OBVIOUS
<1>11. /\ r.pc = k /\ r.call = u[p].call /\ r.ip = u[p].ip /\ r.ret = k
       /\ r.slot = s /\ r.ino = u[p].ino
    BY <1>2, <1>3, <1>9, <1>10 DEF URec
<1>12. Moves(p, r)
    BY <1>1, <1>2, <1>9, <1>10, GoMoves
<1>13. Steady(p) /\ u'[p] = r
    BY <1>4, <1>8, <1>12 DEF Steady, Moves
<1>14. Found(inode, u[p], cdir[p]) /\ Asked(inode, u[p], cdir[p])
    BY DEF Linkage, Apt
<1>15. InCore(i0) = {} /\ u[p].ino = i0
    BY <1>1, <1>3, <1>5, <1>14 DEF InCore, Asked, Rest, Unique
<1>16. Backs(i0, m, n)
    BY <1>6, <1>15 DEF Linkage, Linked
<1>17. ASSUME NEW i \in Ino PROVE Less(i)
  <2>1. Entries(i)' \subseteq Entries(i)
      BY <1>1 DEF Entries
  <2>2. p \notin Making(i)'
      BY <1>9, <1>11, <1>13 DEF Making, Makes
  <2>3. p \notin LinkPending(i)
      BY <1>9 DEF LinkPending
  <2> QED
      BY <1>12, <1>13, <2>1, <2>2, <2>3, TallyLess
<1>18. Linked'
  <2>1. ASSUME NEW i \in Ino, i # i0 PROVE LinkedAt(i)'
    <3>1. InCore(i)' = InCore(i)
      <4>1. ASSUME NEW q \in Procs, NEW x \in Slots, x # s
            PROVE  (u'[q].pc = "iread" /\ u'[q].slot = x)
                      <=> (u[q].pc = "iread" /\ u[q].slot = x)
        <5>1. CASE q = p
            BY <1>3, <1>9, <1>11, <1>13, <4>1, <5>1
        <5>2. CASE q # p
            BY <1>12, <5>2, MovingStep DEF Moving
        <5> QED
            BY <5>1, <5>2
      <4>2. inode[s].num # i /\ \A x \in Slots : inode'[x].num = inode[x].num
          BY <1>5, <1>8, <2>1
      <4> QED
          BY <4>1, <4>2 DEF InCore
    <3>2. \A x \in InCore(i) : inode'[x].mode = inode[x].mode
             /\ inode'[x].nlink = inode[x].nlink
        BY <1>5, <1>8, <2>1 DEF InCore
    <3>3. LinkedAt(i) /\ dino'[i] = dino[i]
        BY <1>1 DEF Linkage, Linked, LinkedAt
    <3> QED
        BY <1>17, <3>1, <3>2, <3>3, LinkedKept
  <2>2. LinkedAt(i0)'
    <3>1. Tally(i0)' <= n /\ (Named(i0)' => m # "none")
        BY <1>16, <1>17, BacksLess
    <3>2. InCore(i0)' \subseteq {s}
        BY <1>5, <1>8 DEF InCore, Rest, Unique
    <3>3. dino'[i0].mode = m /\ dino'[i0].nlink = n
        BY <1>1, <1>6
    <3> QED
        BY <1>8, <3>1, <3>2, <3>3 DEF LinkedAt, Backs
  <2> QED
      BY <2>1, <2>2 DEF Linked, LinkedAt
<1>19. Clean'
  <2>1. ASSUME NEW x \in Slots, inode'[x].num # 0, ~inode'[x].upd,
               \A q \in Procs : Moving(u'[q]) => u'[q].slot # x
        PROVE  /\ dino'[inode'[x].num].mode = inode'[x].mode
               /\ dino'[inode'[x].num].nlink = inode'[x].nlink
    <3>1. CASE x = s
        BY <1>1, <1>5, <1>6, <1>8, <3>1
    <3>2. CASE x # s
      <4>1. inode'[x] = inode[x]
          BY <1>8, <3>2
      <4>2. \A q \in Procs : Moving(u[q]) => u[q].slot # x
          BY <1>3, <1>12, <2>1, <3>2, MovingStep
      <4> QED
          BY <1>1, <2>1, <4>1, <4>2 DEF Linkage, Clean
    <3> QED
        BY <3>1, <3>2
  <2> QED
      BY <2>1 DEF Clean
<1>20. ASSUME k = "comp" PROVE m # "none"
  <2>1. CASE u[p].from = <<>>
    <3>1. i0 \in {ROOTINO, inode[cdir[p]].num}
        BY <1>1, <1>9, <1>14, <1>15, <1>20, <2>1 DEF Asked, Fetching
    <3>2. 1 \in Slots /\ inode[1].num = ROOTINO
        BY NamesAssumption DEF Linkage, Rooted, Slots
    <3> QED
        BY <1>2, <1>4, <1>5, <3>1, <3>2 DEF Rest, Unique
  <2>2. CASE u[p].from # <<>>
    <3>1. Named(i0)
        BY <1>1, <1>2, <1>15, <2>2, StillNamed
    <3> QED
        BY <1>16, <3>1 DEF Backs
  <2> QED
      BY <2>1, <2>2
<1>21. Apt'
  <2>1. u[p].ip # 0 => u[p].ip \in Slots
      BY Having
  <2>2. Found(inode', r, cdir[p])
    <3>1. r.ip # 0 => inode'[r.ip] = inode[u[p].ip]
        BY <1>4, <1>8, <1>11, <2>1
    <3>2. inode'[cdir[p]] = inode[cdir[p]] /\ ~Departs(u[p])
        BY <1>1, <1>2, <1>4, <1>8 DEF Departs, Putting
    <3>3. r.pc \in {"comp", "scan", "got"} => inode'[r.slot].mode # "none"
        BY <1>8, <1>9, <1>11, <1>20
    <3> QED
        BY <1>9, <1>11, <1>14, <3>1, <3>2, <3>3 DEF Found, Putting
  <2>3. Asked(inode', r, cdir[p])
      BY <1>1, <1>3, <1>5, <1>8, <1>9, <1>11, <1>14, <1>15 DEF Asked, Fetching
  <2>4. \A q \in Procs : q # p =>
            Found(inode', u'[q], cdir'[q]) /\ Asked(inode', u'[q], cdir'[q])
      BY <1>12, <1>13, OthersApt DEF Linkage
  <2> QED
      BY <1>1, <1>13, <2>2, <2>3, <2>4 DEF Apt
<1>22. Rooted'
  <2>1. 1 \in Slots
      BY NamesAssumption DEF Slots
  <2> QED
      BY <1>4, <1>8, <2>1 DEF Linkage, Rooted
<1> QED
    BY <1>18, <1>19, <1>21, <1>22 DEF Linkage

-----------------------------------------------------------------------------
(* maknode, wdir, link and unlink.                                          *)

LEMMA TallyStep ==
    ASSUME TypeOK, Rest, NEW p \in Procs, NEW r, Moves(p, r), Steady(p), NEW i, NEW e,
           Entries(i)' \ {e} = Entries(i) \ {e}
    PROVE  /\ Tally(i) \in Int /\ Tally(i)' \in Int
           /\ Tally(i)' = Tally(i) + B(e \in Entries(i)') - B(e \in Entries(i))
                          + B(p \in Making(i)') - B(p \in Making(i))
                          - B(p \in LinkPending(i)') + B(p \in LinkPending(i))
<1>1. IsFiniteSet(Entries(i)) /\ Tally(i) \in Int
    BY TallyType
<1>2. PICK E, F : E = Entries(i) /\ F = Entries(i)'
    OBVIOUS
<1>3. /\ Cardinality(E) \in Nat /\ Cardinality(F) \in Nat
      /\ Cardinality(F) = Cardinality(E) + B(e \in F) - B(e \in E)
    BY <1>1, <1>2, CardStep
<1>4. /\ Cardinality(Making(i)) \in Nat /\ Cardinality(Making(i)') \in Nat
      /\ Cardinality(Making(i)')
           = Cardinality(Making(i)) + B(p \in Making(i)') - B(p \in Making(i))
      /\ Cardinality(LinkPending(i)) \in Nat /\ Cardinality(LinkPending(i)') \in Nat
      /\ Cardinality(LinkPending(i)')
           = Cardinality(LinkPending(i)) + B(p \in LinkPending(i)')
             - B(p \in LinkPending(i))
    BY MakingCount
<1>5. Tally(i)' = Cardinality(F) + Cardinality(Making(i)') - Cardinality(LinkPending(i)')
    BY <1>2 DEF Tally
<1>6. Tally(i) = Cardinality(E) + Cardinality(Making(i)) - Cardinality(LinkPending(i))
    BY <1>2 DEF Tally
<1>7. PICK a, b, c, d, f, g \in {0, 1} :
         /\ a = B(e \in F) /\ b = B(e \in E)
         /\ c = B(p \in Making(i)') /\ d = B(p \in Making(i))
         /\ f = B(p \in LinkPending(i)') /\ g = B(p \in LinkPending(i))
    BY DEF B
<1> QED
    BY <1>1, <1>2, <1>3, <1>4, <1>5, <1>6, <1>7

\* A process that relies on no count of links may go on when one changes.
LEMMA AptTouched ==
    ASSUME NEW r, NEW c \in Slots, Fits(r, c), NEW t, NEW t2, Found(t, r, c), Asked(t, r, c),
           \A s \in Slots : t2[s].num = t[s].num /\ (t[s].mode # "none" => t2[s].mode # "none"),
           r.pc \notin {"iread", "itrunc"}
    PROVE  Found(t2, r, c) /\ Asked(t2, r, c)
<1>1. /\ r.pc \in {"comp", "scan", "got", "iread", "uget", "itrunc"} => r.slot \in Slots
      /\ r.pc \in {"chdir", "uwrite"} \/ (r.pc \in Putting /\ r.ret = "chdir")
           => r.ip \in Slots
      /\ r.ip # 0 => r.ip \in Slots
    BY FitSlots
<1>2. Found(t2, r, c)
    BY <1>1 DEF Found
<1>3. Asked(t2, r, c)
    BY <1>1 DEF Asked
<1> QED
    BY <1>2, <1>3

\* The inode that p has in slot s is in core.
LEMMA HeldInCore ==
    ASSUME TypeOK, Rest, NEW p \in Procs, NEW s \in Slots, Has(p, s), u[p].pc # "iread"
    PROVE  /\ inode[s].num \in Ino /\ inode[s].num # 0 /\ InCore(inode[s].num) = {s}
<1>1. inode[s].num # 0
    BY OneHolder DEF Rest, SlotsFree
<1>2. \A q \in Procs : u[q].pc = "iread" => u[q].slot # s
    BY NobodyElse DEF Sole
<1> QED
    BY <1>1, <1>2, InCoreOf

LEMMA MaknodeLinks ==
    ASSUME TypeOK, Rest, Rest', Linkage, NEW p \in Procs, Maknode(p) PROVE Linkage'
<1>1. /\ u[p].pc = "igot" /\ dir' = dir /\ dino' = dino /\ cdir' = cdir
    BY DEF Maknode, At, files
<1>2. /\ Fits(u[p], cdir[p]) /\ u[p] \in URec /\ Holding(u[p]) /\ inode \in [Slots -> IRec]
      /\ cdir[p] \in Slots /\ Users
    BY Fitting
<1>3. PICK s \in Slots : s = u[p].slot /\ Has(p, s)
    BY <1>1, Having
<1>4. ASSUME inode' = inode, Go(p, CallIput(u[p], s, "iloop")) PROVE Linkage'
  <2>1. PICK r : r = CallIput(u[p], s, "iloop")
      OBVIOUS
  <2>2. r.pc = "iput" /\ r.call = u[p].call /\ r.ip = u[p].ip /\ r.ret = "iloop"
      BY <1>2, <2>1 DEF URec, CallIput
  <2>3. Light(u[p], r)
      BY <1>1, <1>2, <2>2, LightPut DEF Putting
  <2> QED
      BY <1>1, <1>4, <2>1, <2>3, PlainSame, GoLinks DEF Moving, Written
<1>5. ASSUME inode[s].mode = "none", NEW m \in Mode \ {"none"},
             inode' = [inode EXCEPT ![s] = [@ EXCEPT !.mode = m, !.nlink = 1, !.upd = TRUE]],
             Go(p, [u[p] EXCEPT !.pc = "wdir", !.ip = s, !.slot = 0])
      PROVE  Linkage'
  <2>1. PICK r : r = [u[p] EXCEPT !.pc = "wdir", !.ip = s, !.slot = 0]
      OBVIOUS
  <2>2. r.pc = "wdir" /\ r.call = u[p].call /\ r.ip = s /\ r.ret = u[p].ret
      BY <1>2, <2>1 DEF URec
  <2>3. Moves(p, r) /\ u'[p] = r
      BY <1>1, <1>2, <1>5, <2>1, GoMoves DEF Moves
  <2>4. /\ \A x \in Slots : x # s => inode'[x] = inode[x]
        /\ inode'[s].num = inode[s].num /\ inode'[s].mode = m /\ inode'[s].nlink = 1
        /\ inode'[s].upd
    <3>1. PICK e : e = [inode[s] EXCEPT !.mode = m, !.nlink = 1, !.upd = TRUE]
        OBVIOUS
    <3>2. e.num = inode[s].num /\ e.mode = m /\ e.nlink = 1 /\ e.upd
        BY <1>2, <3>1 DEF IRec
    <3>3. inode' = [inode EXCEPT ![s] = e]
        BY <1>5, <3>1
    <3> QED
        BY <1>2, <3>2, <3>3
  <2>5. Touched(p) /\ Steady(p)
    <3>1. Touched(p)
        BY <1>3, <1>5, <2>4 DEF Touched
    <3> QED
        BY <3>1, TouchedSteady
  <2>6. PICK i0 \in Ino : i0 = inode[s].num /\ InCore(i0) = {s}
      BY <1>1, <1>3, HeldInCore
  <2>7. p \notin Making(i0) /\ \A i \in Ino : p \notin LinkPending(i)
    <3>1. u[p].ip = 0
        BY <1>1, <1>2 DEF Holding, WithIp, InNamei, Fetching, Putting
    <3> QED
        BY <1>1, <3>1 DEF Making, Makes, LinkPending
  <2>8. \A i \in Ino : Entries(i)' = Entries(i)
      BY <1>1 DEF Entries
  <2>9. ASSUME NEW i \in Ino, i # i0 PROVE LinkedAt(i)'
    <3>1. p \notin Making(i)'
        BY <2>2, <2>3, <2>4, <2>6, <2>9 DEF Making
    <3>2. Less(i)
        BY <2>3, <2>5, <2>7, <2>8, <3>1, TallyLess
    <3>3. \A x \in Slots : inode[x].num = i =>
             inode'[x].mode = inode[x].mode /\ inode'[x].nlink = inode[x].nlink
        BY <2>4, <2>6, <2>9
    <3>4. u[p].pc # "iread" /\ r.pc # "iread"
        BY <1>1, <2>2
    <3> QED
        BY <1>1, <2>3, <2>5, <3>2, <3>3, <3>4, TouchedAt
  <2>10. LinkedAt(i0)'
    <3>1. ~Named(i0)
        BY <1>5, <2>6 DEF Linkage, Linked, Backs
    <3>2. Tally(i0) <= 0
      <4>1. Cardinality(Entries(i0)) = 0 /\ Cardinality(Making(i0)) = 0
          BY <3>1, FS_EmptySet DEF Named
      <4>2. Cardinality(LinkPending(i0)) \in Nat
          BY TallyType
      <4> QED
          BY <4>1, <4>2 DEF Tally
    <3>3. Tally(i0)' <= 1
      <4>1. /\ Tally(i0) \in Int /\ Tally(i0)' \in Int
            /\ Tally(i0)' = Tally(i0) + B(p \in Entries(i0)') - B(p \in Entries(i0))
                            + B(p \in Making(i0)') - B(p \in Making(i0))
                            - B(p \in LinkPending(i0)') + B(p \in LinkPending(i0))
        <5>1. Entries(i0)' \ {p} = Entries(i0) \ {p}
            BY <2>8
        <5> QED
            BY <2>3, <2>5, <5>1, TallyStep
      <4>2. PICK a \in {0, 1}, b \in {0, 1}, c \in {0, 1} :
               /\ a = B(p \in Entries(i0)) /\ a = B(p \in Entries(i0)')
               /\ b = B(p \in Making(i0)') /\ c = B(p \in LinkPending(i0)')
          BY <2>8 DEF B
      <4>3. B(p \in Making(i0)) = 0 /\ B(p \in LinkPending(i0)) = 0
          BY <2>7 DEF B
      <4> QED
          BY <3>2, <4>1, <4>2, <4>3
    <3>4. InCore(i0)' = {s}
      <4>1. \A x \in Slots : inode'[x].num = i0 <=> inode[x].num = i0
          BY <2>4
      <4>2. u[p].pc # "iread" /\ r.pc # "iread"
          BY <1>1, <2>2
      <4>3. InCore(i0)' = InCore(i0)
          BY <2>3, <4>1, <4>2, CoreSame
      <4> QED
          BY <2>6, <4>3
    <3> QED
        BY <1>5, <2>4, <3>3, <3>4 DEF LinkedAt, Backs
  <2>11. Found(inode', r, cdir[p]) /\ Asked(inode', r, cdir[p])
    <3>1. inode[cdir[p]].mode # "none"
        BY <1>1 DEF Linkage, Apt, Found, Departs, Putting
    <3>2. inode'[cdir[p]].mode # "none" /\ inode'[s].mode # "none"
        BY <1>2, <1>5, <2>4, <3>1
    <3>3. Found(inode', r, cdir[p])
        BY <2>2, <3>2 DEF Found, Putting
    <3>4. Asked(inode', r, cdir[p])
        BY <2>2 DEF Asked, Fetching
    <3> QED
        BY <3>3, <3>4
  <2>12. ~Moving(u[p]) /\ \A i \in Ino : LinkedAt(i)'
      BY <1>1, <2>9, <2>10 DEF Moving
  <2> QED
      BY <1>1, <2>3, <2>5, <2>11, <2>12, TouchLinks
<1>6. CASE inode[s].mode = "none"
  <2>1. PICK m \in Mode \ {"none"} : m = IF u[p].call = "creat" THEN "reg" ELSE "spec"
      BY DEF Mode
  <2>2. /\ inode' = [inode EXCEPT ![s] = [@ EXCEPT !.mode = m, !.nlink = 1, !.upd = TRUE]]
        /\ Go(p, [u[p] EXCEPT !.pc = "wdir", !.ip = s, !.slot = 0])
      BY <1>3, <1>6, <2>1 DEF Maknode
  <2> QED
      BY <1>5, <1>6, <2>2
<1>7. CASE inode[s].mode # "none"
    BY <1>3, <1>4, <1>7 DEF Maknode
<1> QED
    BY <1>6, <1>7

\* Directories that are the same, up to the inode of entry k.
AlikeBut(v, q, k) ==
    /\ \A j : j # k => (j \in DOMAIN v <=> j \in DOMAIN q)
    /\ \A j \in DOMAIN v : j # k => v[j].ino = q[j].ino

\* Entry k of directory d is written.
LEMMA EntriesPut ==
    ASSUME dir \in [DirInos -> Seq(Entry)], NEW d \in DirInos, NEW v,
           dir' = [dir EXCEPT ![d] = v], NEW k \in Nat, AlikeBut(v, dir[d], k), NEW i
    PROVE  /\ Entries(i)' \ {<<d, k>>} = Entries(i) \ {<<d, k>>}
           /\ <<d, k>> \in Entries(i)' <=> k \in DOMAIN v /\ v[k].ino = i
           /\ <<d, k>> \in Entries(i) <=> k \in DOMAIN dir[d] /\ dir[d][k].ino = i
<1>1. dir'[d] = v /\ \A b \in DirInos : b # d => dir'[b] = dir[b]
    OBVIOUS
<1>2. ASSUME NEW e
      PROVE  /\ e \in Entries(i) <=> \E b \in DirInos : \E j \in DOMAIN dir[b] :
                                        e = <<b, j>> /\ dir[b][j].ino = i
             /\ e \in Entries(i)' <=> \E b \in DirInos : \E j \in DOMAIN dir'[b] :
                                        e = <<b, j>> /\ dir'[b][j].ino = i
    BY EntryIn
<1>3. ASSUME NEW b \in DirInos, NEW j, b # d \/ j # k
      PROVE  /\ j \in DOMAIN dir'[b] <=> j \in DOMAIN dir[b]
             /\ j \in DOMAIN dir[b] => dir'[b][j].ino = dir[b][j].ino
    BY <1>1, <1>3 DEF AlikeBut
<1>4. ASSUME NEW e, e # <<d, k>> PROVE e \in Entries(i)' <=> e \in Entries(i)
  <2>1. ASSUME e \in Entries(i)' PROVE e \in Entries(i)
    <3>1. PICK b \in DirInos : \E j \in DOMAIN dir'[b] : e = <<b, j>> /\ dir'[b][j].ino = i
        BY <1>2, <2>1
    <3>2. PICK j : j \in DOMAIN dir'[b] /\ e = <<b, j>> /\ dir'[b][j].ino = i
        BY <3>1
    <3>3. j \in DOMAIN dir[b] /\ dir[b][j].ino = i
        BY <1>3, <1>4, <3>2
    <3> QED
        BY <1>2, <3>2, <3>3
  <2>2. ASSUME e \in Entries(i) PROVE e \in Entries(i)'
    <3>1. PICK b \in DirInos : \E j \in DOMAIN dir[b] : e = <<b, j>> /\ dir[b][j].ino = i
        BY <1>2, <2>2
    <3>2. PICK j : j \in DOMAIN dir[b] /\ e = <<b, j>> /\ dir[b][j].ino = i
        BY <3>1
    <3>3. j \in DOMAIN dir'[b] /\ dir'[b][j].ino = i
        BY <1>3, <1>4, <3>2
    <3> QED
        BY <1>2, <3>2, <3>3
  <2> QED
      BY <2>1, <2>2
<1>5. Entries(i)' \ {<<d, k>>} = Entries(i) \ {<<d, k>>}
    BY <1>4
<1>6. <<d, k>> \in Entries(i)' <=> k \in DOMAIN v /\ v[k].ino = i
    BY <1>1, <1>2
<1>7. <<d, k>> \in Entries(i) <=> k \in DOMAIN dir[d] /\ dir[d][k].ino = i
    BY <1>2
<1> QED
    BY <1>5, <1>6, <1>7

\* wdir puts an entry at the end or over another one.
LEMMA EntryPut ==
    ASSUME NEW q \in Seq(Entry), NEW e, NEW off \in Nat, NEW v,
           v = IF off > Len(q) THEN Append(q, e) ELSE [q EXCEPT ![off] = e]
    PROVE  \E k \in Nat : AlikeBut(v, q, k) /\ (k \in DOMAIN v => v[k] = e)
<1>1. PICK n \in Nat : n = Len(q) /\ DOMAIN q = 1..n
    OBVIOUS
<1>2. CASE off > n
  <2>1. v = Append(q, e)
      BY <1>1, <1>2
  <2>2. DOMAIN v = 1..(n + 1) /\ v[n + 1] = e /\ \A j \in 1..n : v[j] = q[j]
      BY <1>1, <2>1
  <2>3. \A j : j # n + 1 => (j \in 1..(n + 1) <=> j \in 1..n)
      OBVIOUS
  <2> QED
      BY <1>1, <2>2, <2>3 DEF AlikeBut
<1>3. CASE off <= n
  <2>1. v = [q EXCEPT ![off] = e]
      BY <1>1, <1>3
  <2>2. DOMAIN v = DOMAIN q /\ \A j \in DOMAIN v : v[j] = IF j = off THEN e ELSE q[j]
      BY <2>1
  <2> QED
      BY <2>2 DEF AlikeBut
<1>4. off > n \/ off <= n
    BY <1>1
<1> QED
    BY <1>2, <1>3, <1>4

LEMMA WdirLinks ==
    ASSUME TypeOK, Rest, Rest', Linkage, NEW p \in Procs, Wdir(p) PROVE Linkage'
<1>1. /\ u[p].pc = "wdir" /\ dino' = dino /\ cdir' = cdir
      /\ inode' = [inode EXCEPT ![u[p].pdir].upd = TRUE]
    BY DEF Wdir, At, files
<1>2. /\ Fits(u[p], cdir[p]) /\ u[p] \in URec /\ Going(u[p], cdir[p])
      /\ inode \in [Slots -> IRec] /\ cdir[p] \in Slots /\ Users
    BY Fitting
<1>3. PICK s \in Slots, t \in Slots : /\ s = u[p].pdir /\ Has(p, s)
                                      /\ t = u[p].ip /\ t # 0 /\ Has(p, t)
    BY <1>1, Having
<1>4. PICK i0 \in Ino : i0 = inode[t].num /\ InCore(i0) = {t}
    BY <1>1, <1>3, HeldInCore
<1>5. PICK r : /\ Go(p, r)
               /\ r.pc = "iput" /\ r.call = u[p].call /\ r.ip = t /\ r.ret = "wdone"
  <2>1. PICK r0 : r0 = CallIput([u[p] EXCEPT !.pdir = 0], u[p].pdir, "wdone")
      OBVIOUS
  <2>2. PICK r1 : r1 = [r0 EXCEPT !.err = TRUE]
      OBVIOUS
  <2>3. Go(p, r0) \/ Go(p, r1)
      BY <2>1, <2>2 DEF Wdir
  <2>4. r0.pc = "iput" /\ r0.call = u[p].call /\ r0.ip = t /\ r0.ret = "wdone"
      BY <1>2, <1>3, <2>1 DEF URec, CallIput
  <2>5. r1.pc = "iput" /\ r1.call = u[p].call /\ r1.ip = t /\ r1.ret = "wdone"
    <3>1. r1 = [u[p] EXCEPT !.pdir = 0, !.pc = "iput", !.slot = u[p].pdir, !.ret = "wdone",
                            !.err = TRUE]
        BY <1>2, <2>1, <2>2 DEF URec, CallIput
    <3> QED
        BY <1>2, <1>3, <3>1 DEF URec
  <2> QED
      BY <2>3, <2>4, <2>5
<1>6. Moves(p, r) /\ u'[p] = r
    BY <1>1, <1>2, <1>5, GoMoves DEF Moves
<1>7. /\ \A x \in Slots : /\ inode'[x].num = inode[x].num /\ inode'[x].mode = inode[x].mode
                          /\ inode'[x].nlink = inode[x].nlink
                          /\ x # s => inode'[x].upd = inode[x].upd
      /\ inode'[s].upd
    BY <1>1, <1>2, <1>3 DEF IRec
<1>8. Touched(p) /\ Steady(p)
  <2>1. Touched(p)
      BY <1>3, <1>7 DEF Touched
  <2> QED
      BY <2>1, TouchedSteady
<1>9. /\ \A i \in Ino : p \notin Making(i)' /\ p \notin LinkPending(i)
      /\ u[p].call = "link" => p \in LinkPending(i0)' /\ inode[t].mode # "none"
      /\ u[p].call # "link" => p \in Making(i0)
  <2>1. \A i \in Ino : p \notin Making(i)' /\ p \notin LinkPending(i)
      BY <1>1, <1>2, <1>5, <1>6 DEF Making, Makes, LinkPending, Going, Putting
  <2>2. ASSUME u[p].call = "link" PROVE p \in LinkPending(i0)' /\ inode[t].mode # "none"
    <3>1. inode[t].mode # "none"
        BY <1>3, <2>2 DEF Linkage, Apt, Found
    <3>2. u'[p].call = "link" /\ u'[p].ret = "wdone" /\ u'[p].ip = t /\ inode'[t].num = i0
        BY <1>4, <1>5, <1>6, <1>7, <2>2
    <3> QED
        BY <1>3, <3>1, <3>2 DEF LinkPending
  <2>3. u[p].call # "link" => p \in Making(i0)
      BY <1>1, <1>3, <1>4 DEF Making, Makes
  <2> QED
      BY <2>1, <2>2, <2>3
<1>10. \A i \in Ino : InCore(i)' = InCore(i)
  <2>1. u[p].pc # "iread" /\ r.pc # "iread"
      BY <1>1, <1>5
  <2> QED
      BY <1>6, <1>7, <2>1, CoreSame
<1>11. \E d, k : \A i \in Ino :
          /\ Entries(i)' \ {<<d, k>>} = Entries(i) \ {<<d, k>>}
          /\ i # i0 => Entries(i)' \subseteq Entries(i)
  <2>1. CASE dir' = dir
    <3>1. \A i \in Ino : Entries(i)' = Entries(i)
        BY <2>1 DEF Entries
    <3> QED
        BY <3>1
  <2>2. CASE dir' # dir
    <3>1. PICK d, e, v :
             /\ d = inode[s].num /\ e = [name |-> Last(u[p].path), ino |-> i0]
             /\ v = (IF u[p].off > Len(dir[d]) THEN Append(dir[d], e)
                     ELSE [dir[d] EXCEPT ![u[p].off] = e])
             /\ dir' = [dir EXCEPT ![d] = v]
        BY <1>3, <1>4, <2>2 DEF Wdir
    <3>2. dir \in [DirInos -> Seq(Entry)]
        BY DEF Rest, Dirs
    <3>3. d \in DirInos
        BY <2>2, <3>1, <3>2
    <3>4. u[p].off \in Nat /\ dir[d] \in Seq(Entry)
        BY <1>2, <3>2, <3>3 DEF URec
    <3>5. PICK k \in Nat : AlikeBut(v, dir[d], k) /\ (k \in DOMAIN v => v[k].ino = i0)
      <4>1. PICK q \in Seq(Entry), off \in Nat : q = dir[d] /\ off = u[p].off
          BY <3>4
      <4>2. v = IF off > Len(q) THEN Append(q, e) ELSE [q EXCEPT ![off] = e]
          BY <3>1, <4>1
      <4>3. PICK k \in Nat : AlikeBut(v, q, k) /\ (k \in DOMAIN v => v[k] = e)
          BY <4>2, EntryPut
      <4>4. e.ino = i0
          BY <3>1
      <4> QED
          BY <4>1, <4>3, <4>4
    <3>6. dir' = [dir EXCEPT ![d] = v]
        BY <3>1
    <3>7. ASSUME NEW i \in Ino
          PROVE  /\ Entries(i)' \ {<<d, k>>} = Entries(i) \ {<<d, k>>}
                 /\ i # i0 => Entries(i)' \subseteq Entries(i)
      <4>1. /\ Entries(i)' \ {<<d, k>>} = Entries(i) \ {<<d, k>>}
            /\ <<d, k>> \in Entries(i)' <=> k \in DOMAIN v /\ v[k].ino = i
          BY <3>2, <3>3, <3>5, <3>6, EntriesPut
      <4> QED
          BY <3>5, <4>1
    <3> QED
        BY <3>7
  <2> QED
      BY <2>1, <2>2
<1>12. ASSUME NEW i \in Ino, i # i0 PROVE LinkedAt(i)'
  <2>1. Entries(i)' \subseteq Entries(i)
      BY <1>11, <1>12
  <2>2. Less(i)
      BY <1>6, <1>8, <1>9, <2>1, TallyLess
  <2>3. u[p].pc # "iread" /\ r.pc # "iread"
      BY <1>1, <1>5
  <2> QED
      BY <1>1, <1>6, <1>7, <1>8, <2>2, <2>3, TouchedAt
<1>13. LinkedAt(i0)'
  <2>1. Tally(i0) \in Int /\ Tally(i0)' \in Int /\ Tally(i0)' <= Tally(i0)
    <3>1. PICK d, k : Entries(i0)' \ {<<d, k>>} = Entries(i0) \ {<<d, k>>}
        BY <1>11
    <3>2. PICK e : e = <<d, k>>
        OBVIOUS
    <3>3. /\ Tally(i0) \in Int /\ Tally(i0)' \in Int
          /\ Tally(i0)' = Tally(i0) + B(e \in Entries(i0)') - B(e \in Entries(i0))
                          + B(p \in Making(i0)') - B(p \in Making(i0))
                          - B(p \in LinkPending(i0)') + B(p \in LinkPending(i0))
      <4>1. Entries(i0)' \ {e} = Entries(i0) \ {e}
          BY <3>1, <3>2
      <4> QED
          BY <1>6, <1>8, <4>1, TallyStep
    <3>4. PICK a, b, c, f \in {0, 1} :
             /\ a = B(e \in Entries(i0)') /\ b = B(e \in Entries(i0))
             /\ c = B(p \in Making(i0)) /\ f = B(p \in LinkPending(i0)')
             /\ c + f >= 1
        BY <1>9 DEF B
    <3>5. B(p \in Making(i0)') = 0 /\ B(p \in LinkPending(i0)) = 0
        BY <1>9 DEF B
    <3> QED
        BY <3>3, <3>4, <3>5
  <2>2. Backs(i0, inode[t].mode, inode[t].nlink) /\ inode[t].nlink \in Int
      BY <1>4 DEF Linkage, Linked, TypeOK
  <2>3. inode[t].mode # "none"
      BY <1>9, <2>2 DEF Backs, Named
  <2>4. Tally(i0)' <= inode[t].nlink
      BY <2>1, <2>2 DEF Backs
  <2>5. InCore(i0)' = {t}
      BY <1>4, <1>10
  <2> QED
      BY <1>7, <2>3, <2>4, <2>5 DEF LinkedAt, Backs
<1>14. Found(inode', r, cdir[p]) /\ Asked(inode', r, cdir[p])
  <2>1. Found(inode, u[p], cdir[p])
      BY DEF Linkage, Apt
  <2>2. inode'[t].mode = inode[t].mode /\ inode'[cdir[p]].mode = inode[cdir[p]].mode
      BY <1>2, <1>7
  <2>3. Found(inode', r, cdir[p])
      BY <1>1, <1>3, <1>5, <2>1, <2>2 DEF Found, Departs, Putting
  <2>4. Asked(inode', r, cdir[p])
      BY <1>5 DEF Asked, Fetching
  <2> QED
      BY <2>3, <2>4
<1>15. ~Moving(u[p]) /\ \A i \in Ino : LinkedAt(i)'
    BY <1>1, <1>12, <1>13 DEF Moving
<1> QED
    BY <1>1, <1>6, <1>8, <1>14, <1>15, TouchLinks

LEMMA WdoneLinks ==
    ASSUME TypeOK, Rest, Rest', Linkage, NEW p \in Procs, Wdone(p) PROVE Linkage'
<1>1. /\ u[p].pc = "wdone" /\ dir' = dir /\ dino' = dino /\ cdir' = cdir
    BY DEF Wdone, At, files
<1>2. /\ Fits(u[p], cdir[p]) /\ u[p] \in URec /\ Going(u[p], cdir[p])
      /\ inode \in [Slots -> IRec] /\ cdir[p] \in Slots /\ Users
    BY Fitting
<1>3. PICK t \in Slots : t = u[p].ip /\ t # 0 /\ Has(p, t)
    BY <1>1, Having
<1>4. PICK r : /\ Go(p, r) /\ r.call = u[p].call /\ r.ip = 0
               /\ \/ r.pc = "iput" /\ r.ret = "user"
                  \/ r.pc = "open1" /\ r.ret = u[p].ret /\ u[p].call = "creat"
  <2>1. PICK r1, r2 : /\ r1 = [u[p] EXCEPT !.pc = "open1", !.slot = u[p].ip, !.ip = 0]
                      /\ r2 = After([u[p] EXCEPT !.ret = "last"])
      OBVIOUS
  <2>2. (u[p].call = "creat" /\ Go(p, r1)) \/ Go(p, r2)
      BY <2>1 DEF Wdone
  <2>3. r1.pc = "open1" /\ r1.call = u[p].call /\ r1.ip = 0 /\ r1.ret = u[p].ret
      BY <1>2, <2>1 DEF URec
  <2>4. r2 = CallIput([[u[p] EXCEPT !.ret = "last"] EXCEPT !.ip = 0], u[p].ip, "user")
      BY <1>2, <2>1 DEF After, URec
  <2>5. r2.pc = "iput" /\ r2.call = u[p].call /\ r2.ip = 0 /\ r2.ret = "user"
      BY <1>2, <2>4 DEF CallIput, URec
  <2> QED
      BY <2>2, <2>3, <2>5
<1>5. Moves(p, r) /\ u'[p] = r
    BY <1>1, <1>2, <1>4, GoMoves DEF Moves
<1>6. Easy(u[p], r)
    BY <1>1, <1>4 DEF Easy, Departs, Putting, Fetching
<1>7. CASE u[p].call # "link"
  <2>1. inode' = inode
      BY <1>7 DEF Wdone
  <2>2. Still(u[p], r)
      BY <1>1, <1>4, <1>7 DEF Still, Makes, Pends
  <2>3. Light(u[p], r)
      BY <1>6, <2>2 DEF Light
  <2> QED
      BY <1>1, <1>4, <2>1, <2>3, PlainSame, GoLinks DEF Moving, Written
<1>8. CASE u[p].call = "link"
  <2>1. PICK n \in Int : n = inode[t].nlink + 1
      BY DEF TypeOK
  <2>2. inode' = [inode EXCEPT ![t].nlink = n, ![t].upd = TRUE]
      BY <1>3, <1>8, <2>1 DEF Wdone
  <2>3. /\ \A x \in Slots : inode'[x].num = inode[x].num /\ inode'[x].mode = inode[x].mode
        /\ \A x \in Slots : x # t => inode'[x] = inode[x]
        /\ inode'[t].nlink = n /\ inode'[t].upd
      BY <1>2, <2>2 DEF IRec
  <2>4. Touched(p) /\ Steady(p)
    <3>1. Touched(p)
        BY <1>3, <2>3 DEF Touched
    <3> QED
        BY <3>1, TouchedSteady
  <2>5. PICK i0 \in Ino : i0 = inode[t].num /\ InCore(i0) = {t}
      BY <1>1, <1>3, HeldInCore
  <2>6. \A i \in Ino : Entries(i)' = Entries(i)
      BY <1>1 DEF Entries
  <2>7. \A i \in Ino : p \notin Making(i)' /\ p \notin Making(i)
      BY <1>1, <1>4, <1>5 DEF Making, Makes
  <2>8. u[p].pc # "iread" /\ r.pc # "iread"
      BY <1>1, <1>4
  <2>9. ASSUME NEW i \in Ino, i # i0 PROVE LinkedAt(i)'
    <3>1. p \notin LinkPending(i)
        BY <1>3, <2>5, <2>9 DEF LinkPending
    <3>2. Less(i)
        BY <1>5, <2>4, <2>6, <2>7, <3>1, TallyLess
    <3>3. \A x \in Slots : inode[x].num = i =>
             inode'[x].mode = inode[x].mode /\ inode'[x].nlink = inode[x].nlink
        BY <2>3, <2>5, <2>9
    <3> QED
        BY <1>1, <1>5, <2>4, <2>8, <3>2, <3>3, TouchedAt
  <2>10. LinkedAt(i0)'
    <3>1. /\ Tally(i0) \in Int /\ Tally(i0)' \in Int
          /\ Tally(i0)' = Tally(i0) + B(p \in Entries(i0)') - B(p \in Entries(i0))
                          + B(p \in Making(i0)') - B(p \in Making(i0))
                          - B(p \in LinkPending(i0)') + B(p \in LinkPending(i0))
      <4>1. Entries(i0)' \ {p} = Entries(i0) \ {p}
          BY <2>6
      <4> QED
          BY <1>5, <2>4, <4>1, TallyStep
    <3>2. PICK a, b, c \in {0, 1} :
             /\ a = B(p \in Entries(i0)) /\ a = B(p \in Entries(i0)')
             /\ b = B(p \in LinkPending(i0)') /\ c = B(p \in LinkPending(i0))
        BY <2>6 DEF B
    <3>3. B(p \in Making(i0)') = 0 /\ B(p \in Making(i0)) = 0
        BY <2>7 DEF B
    <3>4. Backs(i0, inode[t].mode, inode[t].nlink) /\ inode[t].nlink \in Int
        BY <2>5 DEF Linkage, Linked, TypeOK
    <3>5. Tally(i0)' <= n
        BY <2>1, <3>1, <3>2, <3>3, <3>4 DEF Backs
    <3>6. Making(i0)' \ {p} = Making(i0) \ {p}
        BY <1>5, <2>4, OthersMake
    <3>7. Named(i0)' => inode'[t].mode # "none"
        BY <2>3, <2>6, <2>7, <3>4, <3>6 DEF Named, Backs
    <3>8. InCore(i0)' = {t}
      <4>1. InCore(i0)' = InCore(i0)
          BY <1>5, <2>3, <2>8, CoreSame
      <4> QED
          BY <2>5, <4>1
    <3> QED
        BY <2>3, <3>5, <3>7, <3>8 DEF LinkedAt, Backs
  <2>11. Found(inode', r, cdir[p]) /\ Asked(inode', r, cdir[p])
    <3>1. Fits(r, cdir[p])
        BY <1>1, <1>5 DEF Rest, Users
    <3>2. Found(inode, r, cdir[p]) /\ Asked(inode, r, cdir[p])
        BY <1>6, EasyApt DEF Linkage, Apt
    <3>3. r.pc \notin {"iread", "itrunc"}
        BY <1>4
    <3> QED
        BY <1>2, <2>3, <3>1, <3>2, <3>3, AptTouched
  <2>12. ~Moving(u[p]) /\ \A i \in Ino : LinkedAt(i)'
      BY <1>1, <2>9, <2>10 DEF Moving
  <2> QED
      BY <1>1, <1>5, <2>4, <2>11, <2>12, TouchLinks
<1> QED
    BY <1>7, <1>8

\* unlink clears the entry that it found.
LEMMA EntryOff ==
    ASSUME NEW q \in Seq(Entry), NEW k \in DOMAIN q, NEW v, v = [q EXCEPT ![k].ino = 0]
    PROVE  AlikeBut(v, q, k) /\ k \in DOMAIN v /\ v[k].ino = 0
<1>1. DOMAIN v = DOMAIN q /\ \A j \in DOMAIN v : j # k => v[j] = q[j]
    OBVIOUS
<1>2. v[k] = [q[k] EXCEPT !.ino = 0] /\ q[k] \in Entry
    OBVIOUS
<1>3. v[k].ino = 0
    BY <1>2 DEF Entry
<1> QED
    BY <1>1, <1>3 DEF AlikeBut

LEMMA UnlinkWriteLinks ==
    ASSUME TypeOK, Rest, Rest', Linkage, NEW p \in Procs, UnlinkWrite(p), ~halted'
    PROVE  Linkage'
<1>1. /\ u[p].pc = "uwrite" /\ dino' = dino /\ cdir' = cdir /\ ~NameGone(u[p])
    BY DEF UnlinkWrite, At, files
<1>2. /\ Fits(u[p], cdir[p]) /\ u[p] \in URec /\ Going(u[p], cdir[p]) /\ Naming(u[p])
      /\ inode \in [Slots -> IRec] /\ cdir[p] \in Slots /\ Users
    BY Fitting
<1>3. PICK s \in Slots, t \in Slots : /\ s = u[p].pdir /\ Has(p, s)
                                      /\ t = u[p].ip /\ t # 0 /\ Has(p, t)
    BY <1>1, Having
<1>4. PICK i0 \in Ino : i0 = inode[t].num /\ InCore(i0) = {t} /\ i0 # 0
    BY <1>1, <1>3, HeldInCore
<1>5. PICK r : /\ Go(p, r)
               /\ r.pc = "iput" /\ r.call = u[p].call /\ r.ip = u[p].ip /\ r.ret = "last"
  <2>1. PICK r : r = CallIput([u[p] EXCEPT !.pdir = 0], u[p].pdir, "last")
      OBVIOUS
  <2>2. Go(p, r)
      BY <2>1 DEF UnlinkWrite
  <2>3. r.pc = "iput" /\ r.call = u[p].call /\ r.ip = u[p].ip /\ r.ret = "last"
      BY <1>2, <2>1 DEF URec, CallIput
  <2> QED
      BY <2>2, <2>3
<1>6. Moves(p, r) /\ u'[p] = r
    BY <1>1, <1>2, <1>5, GoMoves DEF Moves
<1>7. PICK n \in Int : n = inode[t].nlink - 1
    BY DEF TypeOK
<1>8. inode' = [inode EXCEPT ![s].upd = TRUE, ![t].upd = TRUE, ![t].nlink = n]
  <2>1. inode' = [inode EXCEPT ![s].upd = TRUE, ![t].upd = TRUE, ![t].nlink = @ - 1]
      BY <1>3 DEF UnlinkWrite
  <2> QED
      BY <1>2, <1>7, <2>1 DEF IRec
<1>9. /\ \A x \in Slots : inode'[x].num = inode[x].num /\ inode'[x].mode = inode[x].mode
      /\ \A x \in Slots : x # t => inode'[x].nlink = inode[x].nlink
      /\ \A x \in Slots : x # s /\ x # t => inode'[x] = inode[x]
      /\ inode'[t].nlink = n /\ inode'[t].upd /\ inode'[s].upd
  <2>1. PICK w : w = [inode EXCEPT ![s].upd = TRUE]
      OBVIOUS
  <2>2. PICK e : e = [inode[s] EXCEPT !.upd = TRUE]
      OBVIOUS
  <2>3. e \in IRec /\ e.upd /\ e.num = inode[s].num /\ e.mode = inode[s].mode
         /\ e.nlink = inode[s].nlink
      BY <1>2, <2>2 DEF IRec
  <2>4. w = [inode EXCEPT ![s] = e]
      BY <2>1, <2>2
  <2>5. w \in [Slots -> IRec] /\ w[s] = e /\ \A x \in Slots : x # s => w[x] = inode[x]
      BY <1>2, <2>3, <2>4, TableSet
  <2>6. /\ w \in [Slots -> IRec] /\ w[s].upd /\ \A x \in Slots : x # s => w[x] = inode[x]
        /\ \A x \in Slots : /\ w[x].num = inode[x].num /\ w[x].mode = inode[x].mode
                             /\ w[x].nlink = inode[x].nlink
      BY <2>3, <2>5
  <2>7. inode' = [w EXCEPT ![t].upd = TRUE, ![t].nlink = n]
      BY <1>8, <2>1
  <2>8. /\ \A x \in Slots : x # t => inode'[x] = w[x]
        /\ inode'[t].num = w[t].num /\ inode'[t].mode = w[t].mode
        /\ inode'[t].nlink = n /\ inode'[t].upd
      BY <2>6, <2>7 DEF IRec
  <2> QED
      BY <2>6, <2>8
<1>10. Touched(p) /\ Steady(p)
  <2>1. Touched(p)
      BY <1>3, <1>9 DEF Touched
  <2> QED
      BY <2>1, TouchedSteady
<1>11. PICK a \in DirInos, k \in Nat : a = u[p].from[1] /\ k = u[p].from[2]
  <2>1. u[p].from # <<>> /\ u[p].from \in {<<>>} \cup (DirInos \X Nat)
      BY <1>1, <1>2 DEF Naming, InUnlink, URec
  <2> QED
      BY <2>1
<1>12. k \in DOMAIN dir[a] /\ dir[a][k].ino = i0
  <2>1. u[p].from # <<>>
      BY <1>1, <1>2 DEF Naming, InUnlink
  <2>2. u[p].ino = i0
      BY <1>1, <1>3, <1>4 DEF Linkage, Apt, Asked
  <2> QED
      BY <1>1, <1>11, <2>1, <2>2 DEF NameGone
<1>13. dir \in [DirInos -> Seq(Entry)] /\ dir[a] \in Seq(Entry)
    BY DEF Rest, Dirs
<1>14. PICK v : v = [dir[a] EXCEPT ![k].ino = 0]
    OBVIOUS
<1>15. dir' = [dir EXCEPT ![a] = v]
  <2>1. dir' = [dir EXCEPT ![a][k].ino = 0]
      BY <1>11 DEF UnlinkWrite
  <2> QED
      BY <1>14, <2>1
<1>16. AlikeBut(v, dir[a], k) /\ k \in DOMAIN v /\ v[k].ino = 0
  <2>1. PICK q \in Seq(Entry) : q = dir[a]
      BY <1>13
  <2>2. k \in DOMAIN q /\ v = [q EXCEPT ![k].ino = 0]
      BY <1>12, <1>14, <2>1
  <2>3. AlikeBut(v, q, k) /\ k \in DOMAIN v /\ v[k].ino = 0
      BY <2>2, EntryOff
  <2> QED
      BY <2>1, <2>3
<1>17. PICK e : e = <<a, k>>
    OBVIOUS
<1>18. ASSUME NEW i \in Ino
       PROVE  /\ Entries(i)' \ {e} = Entries(i) \ {e}
              /\ e \notin Entries(i)'
              /\ e \in Entries(i) <=> i = i0
  <2>1. i # 0
      BY Sizes DEF Ino
  <2>2. /\ Entries(i)' \ {<<a, k>>} = Entries(i) \ {<<a, k>>}
        /\ <<a, k>> \in Entries(i)' <=> k \in DOMAIN v /\ v[k].ino = i
        /\ <<a, k>> \in Entries(i) <=> k \in DOMAIN dir[a] /\ dir[a][k].ino = i
      BY <1>13, <1>15, <1>16, EntriesPut
  <2> QED
      BY <1>12, <1>16, <1>17, <2>1, <2>2
<1>19. \A i \in Ino : /\ p \notin Making(i)' /\ p \notin Making(i)
                      /\ p \notin LinkPending(i)' /\ p \notin LinkPending(i)
    BY <1>1, <1>2, <1>5, <1>6 DEF Making, Makes, LinkPending, Going
<1>20. u[p].pc # "iread" /\ r.pc # "iread"
    BY <1>1, <1>5
<1>21. ASSUME NEW i \in Ino, i # i0 PROVE LinkedAt(i)'
  <2>1. Entries(i)' \subseteq Entries(i)
      BY <1>18, <1>21
  <2>2. Less(i)
      BY <1>6, <1>10, <1>19, <2>1, TallyLess
  <2>3. \A x \in Slots : inode[x].num = i =>
           inode'[x].mode = inode[x].mode /\ inode'[x].nlink = inode[x].nlink
      BY <1>4, <1>9, <1>21
  <2> QED
      BY <1>1, <1>6, <1>10, <1>20, <2>2, <2>3, TouchedAt
<1>22. LinkedAt(i0)'
  <2>1. /\ Tally(i0) \in Int /\ Tally(i0)' \in Int
        /\ Tally(i0)' = Tally(i0) + B(e \in Entries(i0)') - B(e \in Entries(i0))
                        + B(p \in Making(i0)') - B(p \in Making(i0))
                        - B(p \in LinkPending(i0)') + B(p \in LinkPending(i0))
      BY <1>6, <1>10, <1>18, TallyStep
  <2>2. /\ B(e \in Entries(i0)') = 0 /\ B(e \in Entries(i0)) = 1
        /\ B(p \in Making(i0)') = 0 /\ B(p \in Making(i0)) = 0
        /\ B(p \in LinkPending(i0)') = 0 /\ B(p \in LinkPending(i0)) = 0
      BY <1>18, <1>19 DEF B
  <2>3. Tally(i0)' = Tally(i0) - 1
      BY <2>1, <2>2
  <2>4. Backs(i0, inode[t].mode, inode[t].nlink) /\ inode[t].nlink \in Int
      BY <1>4 DEF Linkage, Linked, TypeOK
  <2>5. Tally(i0)' <= n
      BY <1>7, <2>1, <2>3, <2>4 DEF Backs
  <2>6. inode'[t].mode # "none"
    <3>1. Named(i0)
        BY <1>18 DEF Named
    <3> QED
        BY <1>9, <2>4, <3>1 DEF Backs
  <2>7. InCore(i0)' = {t}
    <3>1. InCore(i0)' = InCore(i0)
        BY <1>6, <1>9, <1>20, CoreSame
    <3> QED
        BY <1>4, <3>1
  <2> QED
      BY <1>9, <2>5, <2>6, <2>7 DEF LinkedAt, Backs
<1>23. Found(inode', r, cdir[p]) /\ Asked(inode', r, cdir[p])
  <2>1. Fits(r, cdir[p])
      BY <1>1, <1>6 DEF Rest, Users
  <2>2. Easy(u[p], r)
      BY <1>1, <1>5 DEF Easy, Departs, Putting, Fetching
  <2>3. Found(inode, r, cdir[p]) /\ Asked(inode, r, cdir[p])
      BY <2>2, EasyApt DEF Linkage, Apt
  <2>4. r.pc \notin {"iread", "itrunc"}
      BY <1>5
  <2> QED
      BY <1>2, <1>9, <2>1, <2>3, <2>4, AptTouched
<1>24. ~Moving(u[p]) /\ \A i \in Ino : LinkedAt(i)'
    BY <1>1, <1>21, <1>22 DEF Moving
<1> QED
    BY <1>1, <1>6, <1>10, <1>23, <1>24, TouchLinks

-----------------------------------------------------------------------------
(* Names and links are right in every state.                                *)

LEMMA InitLinks == ASSUME Init, TypeOK, Rest PROVE Linkage
<1>1. /\ 1 \in Slots /\ 1 \in Ino /\ 1 \in DirInos
    BY Sizes, NamesAssumption DEF Slots, Ino, ROOTINO
<1>2. /\ inode[1].num = 1 /\ inode[1].mode = "dir" /\ inode[1].nlink = dino[1].nlink
      /\ \A s \in Slots : s # 1 => inode[s].num = 0
    BY <1>1 DEF Init, Free, ROOTINO
<1>3. \A i \in Ino :
         /\ dino[i].mode = IF i \in DirInos THEN "dir"
                           ELSE IF Entries(i) # {} THEN "reg" ELSE "none"
         /\ dino[i].nlink = Cardinality(Entries(i)) + (IF i = ROOTINO THEN 1 ELSE 0)
  <2>1. dino = [i \in Ino |->
                  [mode |-> IF i \in DirInos THEN "dir"
                            ELSE IF Entries(i) # {} THEN "reg" ELSE "none",
                   nlink |-> Cardinality(Entries(i)) + (IF i = ROOTINO THEN 1 ELSE 0)]]
      BY DEF Init
  <2> QED
      BY <2>1
<1>4. \A p \in Procs : /\ u[p].pc = "user" /\ u[p].call = "none" /\ u[p].ret = "none"
                       /\ u[p].ip = 0 /\ cdir[p] = 1
    BY DEF Init, Idle
<1>5. ASSUME NEW i \in Ino PROVE Backs(i, dino[i].mode, dino[i].nlink)
  <2>1. Making(i) = {} /\ LinkPending(i) = {}
      BY <1>4 DEF Making, Makes, LinkPending
  <2>2. Cardinality(Making(i)) = 0 /\ Cardinality(LinkPending(i)) = 0
      BY <2>1, FS_EmptySet
  <2>3. Cardinality(Entries(i)) \in Nat
      BY TallyType
  <2>4. Tally(i) <= dino[i].nlink
      BY <1>3, <2>2, <2>3 DEF Tally
  <2>5. Named(i) => dino[i].mode # "none"
      BY <1>3, <2>1 DEF Named
  <2> QED
      BY <2>4, <2>5 DEF Backs
<1>6. Linked
  <2>1. ASSUME NEW i \in Ino, NEW s \in InCore(i)
        PROVE  Backs(i, inode[s].mode, inode[s].nlink)
    <3>1. s = 1 /\ i = 1
        BY <1>2, Sizes DEF InCore, Ino
    <3>2. inode[s].mode = dino[i].mode /\ inode[s].nlink = dino[i].nlink
        BY <1>1, <1>2, <1>3, <3>1
    <3> QED
        BY <1>5, <3>2
  <2> QED
      BY <1>5, <2>1 DEF Linked
<1>7. Clean
    BY <1>1, <1>2, <1>3 DEF Clean
<1>8. Apt
    BY <1>2, <1>4 DEF Apt, Found, Asked, Departs, Putting, Fetching
<1>9. Rooted
    BY <1>2 DEF Rooted, ROOTINO
<1> QED
    BY <1>6, <1>7, <1>8, <1>9 DEF Linkage

LEMMA StepLinks ==
    ASSUME TypeOK, Rest, Rest', Linkage, NEW p \in Procs, Step(p), ~halted' PROVE Linkage'
<1>1. CASE IgetLocked(p) \/ IgetHit(p) \/ IgetMiss(p) \/ IgetFull(p) \/ IgetRead(p)
    BY <1>1, IgetLockedLinks, IgetHitLinks, IgetMissLinks, IgetFullLinks, IgetReadLinks
<1>2. CASE IputShared(p) \/ IputLast(p) \/ IputTrunc(p) \/ IputDone(p)
    BY <1>2, IputSharedLinks, IputLastLinks, IputTruncLinks, IputDoneLinks
<1>3. CASE Comp(p) \/ ScanFound(p) \/ ScanMissing(p)
    BY <1>3, CompLinks, ScanFoundLinks, ScanMissingLinks
<1>4. CASE IallocEnter(p) \/ IallocPop(p) \/ IallocEmpty(p) \/ IallocFill(p)
    BY <1>4, IallocEnterLinks, IallocPopLinks, IallocEmptyLinks, IallocFillLinks
<1>5. CASE Maknode(p) \/ Wdir(p) \/ Wdone(p)
    BY <1>5, MaknodeLinks, WdirLinks, WdoneLinks
<1>6. CASE OpenGot(p) \/ Open1Trunc(p) \/ Open1(p) \/ ChdirGot(p) \/ ChdirSet(p)
    BY <1>6, OpenGotLinks, Open1TruncLinks, Open1Links, ChdirGotLinks, ChdirSetLinks
<1>7. CASE StatGot(p) \/ StatDone(p) \/ LinkGot(p)
    BY <1>7, StatGotLinks, StatDoneLinks, LinkGotLinks
<1>8. CASE UnlinkGot(p) \/ UnlinkGet(p) \/ UnlinkWrite(p)
    BY <1>8, UnlinkGotLinks, UnlinkGetLinks, UnlinkWriteLinks
<1>9. CASE FstatDone(p) \/ ExecGot(p) \/ ExecRead(p) \/ ExecDone(p)
    BY <1>9, FstatDoneLinks, ExecGotLinks, ExecReadLinks, ExecDoneLinks
<1>10. CASE CloseDone(p) \/ ExitClose(p) \/ ExitCdir(p)
    BY <1>10, CloseDoneLinks, ExitCloseLinks, ExitCdirLinks
<1>11. CASE UpdateInode(p) \/ UpdateWritten(p) \/ UpdateDone(p)
    BY <1>11, UpdateInodeLinks, UpdateWrittenLinks, UpdateDoneLinks
<1> QED
    BY <1>1, <1>2, <1>3, <1>4, <1>5, <1>6, <1>7, <1>8, <1>9, <1>10, <1>11 DEF Step

LEMMA RequestLinks ==
    ASSUME TypeOK, Rest, Rest', Linkage, NEW p \in Procs, Request(p) PROVE Linkage'
<1>1. ASSUME NEW c \in Calls, CallName(p, c) PROVE Linkage'
    BY <1>1, CallNameLinks
<1>2. ASSUME NEW d \in Fds, Close(p, d) \/ Dup(p, d) \/ Fstat(p, d) PROVE Linkage'
    BY <1>2, CloseLinks, DupLinks, FstatLinks
<1>3. CASE Update(p) \/ Exit(p)
    BY <1>3, UpdateLinks, ExitLinks
<1>4. ASSUME NEW q \in Procs, Fork(p, q) PROVE Linkage'
    BY <1>4, ForkLinks
<1> QED
    BY <1>1, <1>2, <1>3, <1>4 DEF Request

LinkInv == Inv /\ (halted \/ Linkage)

LEMMA LinkInvariance == Spec => []LinkInv
<1>1. Init => LinkInv
  <2>1. ASSUME Init PROVE LinkInv
    <3>1. Inv /\ ~halted
        BY <2>1, InitInv DEF Init
    <3> QED
        BY <2>1, <3>1, InitLinks DEF Inv, LinkInv
  <2> QED
      BY <2>1
<1>2. LinkInv /\ [Next]_vars => LinkInv'
  <2>1. ASSUME LinkInv, NEW p \in Procs, Step(p) \/ Request(p) PROVE LinkInv'
    <3>1. TypeOK /\ Rest /\ Linkage
        BY <2>1 DEF LinkInv, Inv, Step, Request
    <3>2. Inv'
        BY <2>1, <3>1, StepInv, RequestInv
    <3>3. ASSUME ~halted' PROVE Linkage'
      <4>1. Rest'
          BY <3>2, <3>3 DEF Inv
      <4> QED
          BY <2>1, <3>1, <3>3, <4>1, StepLinks, RequestLinks
    <3> QED
        BY <3>2, <3>3 DEF LinkInv
  <2>2. ASSUME LinkInv, UNCHANGED vars PROVE LinkInv'
    <3>1. Inv'
        BY <2>2, StutterInv DEF LinkInv
    <3>2. ASSUME Linkage PROVE Linkage'
      <4>1. \A i : /\ InCore(i)' = InCore(i) /\ Entries(i)' = Entries(i)
                   /\ Making(i)' = Making(i) /\ LinkPending(i)' = LinkPending(i)
          BY <2>2 DEF vars, files, InCore, Entries, Making, LinkPending
      <4>2. Linked'
          BY <2>2, <3>2, <4>1 DEF Linkage, Linked, Backs, Tally, Named, vars
      <4>3. Clean' /\ Apt' /\ Rooted'
          BY <2>2, <3>2 DEF Linkage, Clean, Apt, Rooted, vars, files
      <4> QED
          BY <4>2, <4>3 DEF Linkage
    <3> QED
        BY <2>2, <3>1, <3>2 DEF LinkInv, vars
  <2> QED
      BY <2>1, <2>2 DEF Next
<1> QED
    BY <1>1, <1>2, PTL DEF Spec

\* An inode has no fewer links than names, so iput frees it only when no
\* directory names it (iget.c:92); and what a directory names is allocated, in
\* core, or on disk when it is not in core.
THEOREM NamesBacked == Spec => []NamedInodesLive
<1>1. ASSUME TypeOK, Rest, Linkage, NEW i \in Ino
      PROVE  /\ Links(i) + Cardinality(LinkPending(i)) >= Cardinality(Entries(i))
             /\ Cardinality(Entries(i)) > 0 => \A s \in InCore(i) : inode[s].mode # "none"
             /\ Cardinality(Entries(i)) > 0 /\ InCore(i) = {} => dino[i].mode # "none"
  <2>1. /\ Cardinality(Entries(i)) \in Nat /\ Cardinality(Making(i)) \in Nat
        /\ Cardinality(LinkPending(i)) \in Nat /\ Tally(i) \in Int
      BY <1>1, TallyType
  <2>2. Links(i) \in Int /\ Tally(i) <= Links(i)
    <3>1. CASE InCore(i) = {}
        BY <1>1, <3>1 DEF Links, Linkage, Linked, Backs, TypeOK
    <3>2. CASE InCore(i) # {}
      <4>1. PICK s : s = CHOOSE x \in InCore(i) : TRUE
          OBVIOUS
      <4>2. s \in InCore(i) /\ s \in Slots
          BY <3>2, <4>1 DEF InCore
      <4>3. Links(i) = inode[s].nlink
          BY <3>2, <4>1 DEF Links
      <4> QED
          BY <1>1, <4>2, <4>3 DEF Linkage, Linked, Backs, TypeOK
    <3> QED
        BY <3>1, <3>2
  <2>3. Cardinality(Entries(i)) > 0 => Named(i)
      BY FS_EmptySet DEF Named
  <2>4. Links(i) + Cardinality(LinkPending(i)) >= Cardinality(Entries(i))
      BY <2>1, <2>2 DEF Tally
  <2> QED
      BY <1>1, <2>3, <2>4 DEF Linkage, Linked, Backs
<1>2. LinkInv => NamedInodesLive
    BY <1>1 DEF LinkInv, Inv, NamedInodesLive, Settled
<1> QED
    BY <1>2, LinkInvariance, PTL
=============================================================================
