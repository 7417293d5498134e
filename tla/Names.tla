------------------------------- MODULE Names -------------------------------
(***************************************************************************)
(* Inodes and names: the inode table (iget, iput, iupdat and maknode of    *)
(* ken/iget.c), the free inodes of the super block (ialloc and ifree of    *)
(* ken/alloc.c), namei (ken/nami.c), the file table (ken/fio.c) and the    *)
(* system calls that use them (ken/sys2.c, sys3.c, sys4.c), with the part  *)
(* of update that writes the inodes.                                       *)
(*                                                                         *)
(* The kernel is not preempted: cpu is the process that goes on until it   *)
(* sleeps.  One volume is mounted; a directory and the i list fit a block  *)
(* each, so that reading them is one sleep.  Owners, permissions and times *)
(* are left out: whether access and suser grant a request is left open.    *)
(*                                                                         *)
(* A panic, and what the code does not guard against, ends a behaviour     *)
(* with halted set: a directory entry that changes between namei's look at *)
(* it and its use (nami.c:162, sys4.c:93, iget.c:223), and a last iput of  *)
(* an inode that update is writing (alloc.c:304, iget.c:92).               *)
(***************************************************************************)
EXTENDS Integers, Sequences, FiniteSets, SequencesExt

CONSTANTS
    Procs,
    NINODE,     \* slots of the inode table
    NFILE,      \* slots of the file table
    NOFILE,     \* descriptors of a process
    NI,         \* inodes of the volume
    NICINOD,    \* free inodes in the super block, 100 in the code
    DirInos,    \* the inodes that are directories
    Tree,       \* the directories as mkfs made them
    Calls,      \* the system calls with a name, and their arguments
    MaxLinks,   \* links of an inode, 127 in the code
    NEXEC,      \* processes that may be in exec
    NoProc,
    MaxCalls    \* bound on the system calls

Slots == 1..NINODE
Ino == 1..NI
ROOTINO == 1
Fds == 1..NOFILE
CallNames == {"open", "creat", "mknod", "link", "unlink", "chdir", "stat", "chmod",
              "exec"}

ASSUME NamesAssumption ==
    /\ IsFiniteSet(Procs)
    /\ NINODE \in Nat \ {0} /\ NFILE \in Nat /\ NOFILE \in Nat
    /\ NI \in Nat /\ NICINOD \in Nat \ {0} /\ MaxCalls \in Nat /\ MaxLinks \in Nat
    /\ NEXEC \in Nat \ {0}
    /\ NoProc \notin Procs
    /\ ROOTINO \in DirInos /\ DirInos \subseteq Ino
    /\ Tree \in [DirInos -> Seq([name : STRING, ino : 0..NI])]
    /\ Calls \subseteq [call : CallNames, path : Seq(STRING), path2 : Seq(STRING)]

VARIABLES
    inode,      \* the inode table
    dino,       \* the inodes on disk
    dir,        \* contents of the directories: entries with a name and an inode
    s_inode, s_ilock,
    file,       \* the file table: f_count and f_inode
    ofile,      \* u_ofile of each process
    cdir,       \* u_cdir of each process
    updlock, execnt,
    u,          \* where each process is, and what it has at hand
    cpu,        \* the process that runs, or NoProc when all of them sleep
    halted,
    stuck,      \* the slots that failed maknodes leave locked
    calls

vars == <<inode, dino, dir, s_inode, s_ilock, file, ofile, cdir, updlock, execnt, u,
          cpu, halted, stuck, calls>>
files == <<file, ofile, cdir>>
super == <<s_inode, s_ilock, updlock, execnt>>

\* A slot that is not in use; 0 stands for NULL.
Free == [num |-> 0, lock |-> FALSE, want |-> FALSE, upd |-> FALSE, count |-> 0,
         mode |-> "none", nlink |-> 0]

\* A process that is not in a system call.  slot, ip and pdir are the inodes
\* it holds: the one at hand, the one of the call, and u_pdir.
Idle == [pc |-> "user", call |-> "none", flag |-> 0, path |-> <<>>,
         path2 |-> <<>>, ino |-> 0, slot |-> 0, ret |-> "none", ip |-> 0,
         pdir |-> 0, off |-> 0, from |-> <<>>, fd |-> 0, err |-> FALSE]

\* Where a process sleeps, or may sleep for a block.
Sleeps == {"user", "dead", "exwait", "exbuf", "fstat", "isleep", "iread", "itrunc", "iupdat", "scan", "trunc",
           "stat", "uwrite", "ilock", "ifill", "wdir", "updwrite"}

At(p, l) == u[p].pc = l /\ cpu \in {p, NoProc}

\* p goes on with r, or sleeps.
CpuAfter(p, r) == IF r.pc \in Sleeps THEN NoProc ELSE p
Go(p, r) == u' = [u EXCEPT ![p] = r] /\ cpu' = CpuAfter(p, r)

\* prele of slot s by p, which goes on with r.
Unlock(t, s) == [t EXCEPT ![s].lock = FALSE, ![s].want = FALSE]

\* A slip: prele clears IWANT and wakes nobody.
GoAndForget(p, s, r) == Go(p, r)

GoAndWake(p, s, r) ==
    /\ u' = [q \in Procs |->
              IF q = p THEN r
              ELSE IF inode[s].want /\ u[q].pc = "isleep" /\ u[q].slot = s
              THEN [u[q] EXCEPT !.pc = "iget", !.slot = 0] ELSE u[q]]
    /\ cpu' = CpuAfter(p, r)

\* iget(ino) by a process with r, and then on to ret.
CallIget(r, ino, ret) ==
    [r EXCEPT !.pc = "iget", !.ino = ino, !.slot = 0, !.ret = ret]

\* iput(s), and then on to ret.
CallIput(r, s, ret) == [r EXCEPT !.pc = "iput", !.slot = s, !.ret = ret]

\* namei(path, flag), from the root or from the current directory.
CallNamei(r, p, path, flag) ==
    LET abs == path # <<>> /\ path[1] = "/"
    IN  CallIget([r EXCEPT !.path = IF abs THEN Tail(path) ELSE path,
                           !.flag = flag, !.from = <<>>],
                 IF abs THEN ROOTINO ELSE inode[cdir[p]].num, "comp")

\* Where iput returns to.
After(r) ==
    CASE r.ret = "user" -> Idle
      [] r.ret = "dead" -> [Idle EXCEPT !.pc = "dead"]
      [] r.ret = "last" -> CallIput([r EXCEPT !.ip = 0], r.ip, "user")
      [] r.ret = "iget" -> CallIget(r, r.ino, "comp")
      [] OTHER -> [r EXCEPT !.pc = r.ret, !.slot = 0]

-----------------------------------------------------------------------------
\* iget: the inode is in the table and locked.
IgetLocked(p) ==
    /\ At(p, "iget")
    /\ \E s \in Slots :
          /\ inode[s].num = u[p].ino /\ inode[s].lock
          /\ inode' = [inode EXCEPT ![s].want = TRUE]
          /\ Go(p, [u[p] EXCEPT !.pc = "isleep", !.slot = s])
    /\ UNCHANGED <<dino, dir, super, files, halted, stuck, calls>>

\* The entry that namei found is not there any more.
NameGone(r) ==
    /\ r.from # <<>>
    /\ ~\E k \in DOMAIN dir[r.from[1]] :
           k = r.from[2] /\ dir[r.from[1]][k].ino = r.ino

\* iget: the inode is in the table and free to be locked.
IgetHit(p) ==
    /\ At(p, "iget")
    /\ \E s \in Slots :
          /\ inode[s].num = u[p].ino /\ ~inode[s].lock
          /\ inode' = [inode EXCEPT ![s].count = @ + 1, ![s].lock = TRUE]
          /\ Go(p, [u[p] EXCEPT !.pc = u[p].ret, !.slot = s])
    /\ halted' = NameGone(u[p])
    /\ UNCHANGED <<dino, dir, super, files, stuck, calls>>

Absent(ino) == \A s \in Slots : inode[s].num # ino
FreeSlots == {s \in Slots : inode[s].count = 0}

\* A slip: the search passes over locked slots.
IgetMissLocked(p) ==
    /\ At(p, "iget") /\ FreeSlots # {}
    /\ \A s \in Slots : inode[s].num = u[p].ino => inode[s].lock
    /\ LET s == CHOOSE x \in FreeSlots : \A y \in FreeSlots : x <= y
       IN  /\ inode' = [inode EXCEPT ![s] =
                  [Free EXCEPT !.num = u[p].ino, !.lock = TRUE, !.count = 1]]
           /\ Go(p, [u[p] EXCEPT !.pc = "iread", !.slot = s])
    /\ UNCHANGED <<dino, dir, super, files, halted, stuck, calls>>

\* iget: not in the table; the first free slot is taken and the inode read.
IgetMiss(p) ==
    /\ At(p, "iget") /\ Absent(u[p].ino) /\ FreeSlots # {}
    /\ LET s == CHOOSE x \in FreeSlots : \A y \in FreeSlots : x <= y
       IN  /\ inode' = [inode EXCEPT ![s] =
                  [@ EXCEPT !.num = u[p].ino, !.lock = TRUE, !.want = FALSE,
                            !.upd = FALSE, !.count = 1]]
           /\ Go(p, [u[p] EXCEPT !.pc = "iread", !.slot = s])
    /\ UNCHANGED <<dino, dir, super, files, halted, stuck, calls>>

\* iget: the table is full (ENFILE).  namei has put its directory already;
\* for the second name of link the first inode is put, and the directory of a
\* file that is to be made stays as it is; unlink panics.
IgetFull(p) ==
    /\ At(p, "iget") /\ Absent(u[p].ino) /\ FreeSlots = {}
    /\ halted' = (u[p].ret = "uget")
    /\ IF u[p].ret = "igot"
       THEN stuck' = Append(stuck, u[p].pdir) /\ Go(p, Idle)
       ELSE /\ UNCHANGED stuck
            /\ Go(p, IF u[p].ip # 0 THEN After([u[p] EXCEPT !.ret = "last"])
                     ELSE Idle)
    /\ UNCHANGED <<inode, dino, dir, super, files, calls>>

\* iget: the block of the inode has been read.
IgetRead(p) ==
    /\ At(p, "iread")
    /\ LET s == u[p].slot
           d == dino[inode[s].num]
       IN  inode' = [inode EXCEPT ![s].mode = d.mode, ![s].nlink = d.nlink]
    /\ Go(p, [u[p] EXCEPT !.pc = u[p].ret])
    /\ halted' = NameGone(u[p])
    /\ UNCHANGED <<dino, dir, super, files, stuck, calls>>

-----------------------------------------------------------------------------
\* iput of an inode that has other references: it is unlocked, even if it was
\* one of the others who locked it.
IputShared(p) ==
    /\ At(p, "iput")
    /\ LET s == u[p].slot
       IN  /\ inode[s].count # 1
           /\ inode' = [Unlock(inode, s) EXCEPT ![s].count = @ - 1]
           /\ GoAndWake(p, s, After(u[p]))
    /\ UNCHANGED <<dino, dir, super, files, halted, stuck, calls>>

\* The last iput, of an inode with links: written out if it has changed.
IputLast(p) ==
    /\ At(p, "iput")
    /\ LET s == u[p].slot
       IN  /\ inode[s].count = 1
           /\ halted' = \E q \in Procs : u[q].pc = "updwrite" /\ u[q].off = s
           /\ IF inode[s].nlink > 0 /\ ~inode[s].upd
              THEN /\ inode' = [inode EXCEPT ![s] = Free]
                   /\ GoAndWake(p, s, After(u[p]))
              ELSE /\ inode' = [inode EXCEPT ![s].lock = TRUE]
                   /\ Go(p, [u[p] EXCEPT !.pc = IF inode[s].nlink > 0
                                                THEN "iupdat" ELSE "itrunc"])
    /\ UNCHANGED <<dino, dir, super, files, stuck, calls>>

\* ifree: dropped while ialloc fills the list, or when the list is full.
Ifree(ino) ==
    IF s_ilock \/ Len(s_inode) >= NICINOD THEN s_inode ELSE Append(s_inode, ino)

\* The last iput of an inode without links: itrunc has freed the blocks, and
\* with them the entries of a directory.
IputTrunc(p) ==
    /\ At(p, "itrunc")
    /\ LET s == u[p].slot
       IN  /\ inode' = [inode EXCEPT ![s].mode = "none",
                                      ![s].upd = @ \/ inode[s].mode # "spec"]
           /\ s_inode' = Ifree(inode[s].num)
           /\ dir' = [d \in DirInos |-> IF d = inode[s].num THEN <<>> ELSE dir[d]]
    /\ Go(p, [u[p] EXCEPT !.pc = "iupdat"])
    /\ UNCHANGED <<dino, s_ilock, updlock, execnt, files, halted, stuck, calls>>

\* iupdat: the inode goes into its block.
Iupdat(s) ==
    dino' = [dino EXCEPT ![inode[s].num] =
                [mode |-> inode[s].mode, nlink |-> inode[s].nlink]]

\* The last iput: the inode is written, its slot is free.
IputDone(p) ==
    /\ At(p, "iupdat")
    /\ LET s == u[p].slot
       IN  /\ Iupdat(s)
           /\ inode' = [inode EXCEPT ![s] = Free]
           /\ GoAndWake(p, s, After(u[p]))
    /\ UNCHANGED <<dir, super, files, halted, stuck, calls>>

-----------------------------------------------------------------------------
\* A slip: link does not put its first inode when the second name fails.
GiveUpOne(r) == CallIput(r, r.slot, "user")

\* namei gives up: the inode at hand is put, and the first inode of link.
GiveUp(r) == CallIput(r, r.slot, IF r.ip # 0 THEN "last" ELSE "user")

\* namei, cloop: the name is used up, or the next component is looked for in a
\* directory that may be searched, or there is an error.
Comp(p) ==
    /\ At(p, "comp")
    /\ LET r == u[p]
       IN  \/ /\ r.path = <<>>
              /\ Go(p, IF r.flag = 0 \/ r.from # <<>>
                       THEN [r EXCEPT !.pc = "got"] ELSE GiveUp(r))
           \/ /\ r.path # <<>> /\ inode[r.slot].mode = "dir"
              /\ Go(p, [r EXCEPT !.pc = "scan"])
           \/ r.path # <<>> /\ Go(p, GiveUp(r))
    /\ UNCHANGED <<inode, dino, dir, super, files, halted, stuck, calls>>

\* The entries of d that hold name, and those that are empty.
Matches(d, name) ==
    {k \in DOMAIN dir[d] : dir[d][k].name = name /\ dir[d][k].ino # 0}
FirstOf(S) == CHOOSE k \in S : \A j \in S : k <= j

\* namei, eloop: the component is in the directory.
ScanFound(p) ==
    /\ At(p, "scan")
    /\ LET r == u[p]
           d == inode[r.slot].num
           found == Matches(d, Head(r.path))
           k == FirstOf(found)
           hit == [r EXCEPT !.from = <<d, k>>, !.ino = dir[d][k].ino,
                            !.path = Tail(@)]
       IN  /\ found # {}
           /\ IF r.flag = 2 /\ Len(r.path) = 1
              THEN \/ Go(p, [hit EXCEPT !.pc = "got"])
                   \/ Go(p, GiveUp(r))
              ELSE Go(p, CallIput(hit, r.slot, "iget"))
    /\ UNCHANGED <<inode, dino, dir, super, files, halted, stuck, calls>>

\* namei, eloop: the component is not there.  For a name that is to be made
\* the directory is left locked in u_pdir, with the place of the entry.
ScanMissing(p) ==
    /\ At(p, "scan")
    /\ LET r == u[p]
           d == inode[r.slot].num
           empty == {k \in DOMAIN dir[d] : dir[d][k].ino = 0}
       IN  /\ Matches(d, Head(r.path)) = {}
           /\ \/ /\ r.flag = 1 /\ Len(r.path) = 1
                 /\ inode' = [inode EXCEPT ![r.slot].upd = @ \/ empty = {}]
                 /\ Go(p, [r EXCEPT
                        !.pc = IF r.call = "link" THEN "wdir" ELSE "ialloc",
                        !.off = IF empty = {} THEN Len(dir[d]) + 1
                                ELSE FirstOf(empty),
                        !.pdir = r.slot, !.slot = 0])
              \/ UNCHANGED inode /\ Go(p, GiveUp(r))
    /\ UNCHANGED <<dino, dir, super, files, halted, stuck, calls>>

-----------------------------------------------------------------------------
\* ialloc waits for the list of free inodes, but only when it is called.
IallocEnter(p) ==
    /\ At(p, "ialloc")
    /\ Go(p, [u[p] EXCEPT !.pc = IF s_ilock THEN "ilock" ELSE "iloop"])
    /\ UNCHANGED <<inode, dino, dir, super, files, halted, stuck, calls>>

\* ialloc takes the last of the free inodes.
IallocPop(p) ==
    /\ At(p, "iloop") /\ s_inode # <<>>
    /\ s_inode' = Front(s_inode)
    /\ Go(p, CallIget([u[p] EXCEPT !.from = <<>>], Last(s_inode), "igot"))
    /\ UNCHANGED <<inode, dino, dir, s_ilock, updlock, execnt, files, halted, stuck,
                   calls>>

\* ialloc has none, and reads the i list.
IallocEmpty(p) ==
    /\ At(p, "iloop") /\ s_inode = <<>>
    /\ s_ilock' = TRUE
    /\ Go(p, [u[p] EXCEPT !.pc = "ifill"])
    /\ UNCHANGED <<inode, dino, dir, s_inode, updlock, execnt, files, halted, stuck,
                   calls>>

\* What ialloc finds in the i list: the inodes that are free there and not in
\* core, from the first on, until the list is full; one of them even if it is
\* full already.
Fills ==
    LET free == {i \in Ino : dino[i].mode = "none" /\ Absent(i)}
        room == IF Len(s_inode) < NICINOD THEN NICINOD - Len(s_inode) ELSE 1
        n == IF room < Cardinality(free) THEN room ELSE Cardinality(free)
    IN  {fill \in [1..n -> free] :
            /\ \A j, k \in 1..n : j < k => fill[j] < fill[k]
            /\ \A i \in free : \A k \in 1..n :
                  i < fill[k] => \E j \in 1..n : fill[j] = i}

\* ialloc has read the i list.  Another ialloc may have filled the list
\* meanwhile: then the array is written beyond its end.
IallocFill(p) ==
    /\ At(p, "ifill")
    /\ \E fill \in Fills :
          LET none == s_inode \o fill = <<>>
          IN  /\ s_inode' = s_inode \o fill
              /\ halted' = (Len(s_inode \o fill) > NICINOD)
              /\ u' = [q \in Procs |->
                         IF q = p THEN IF none THEN Idle
                                       ELSE [u[p] EXCEPT !.pc = "iloop"]
                         ELSE IF u[q].pc = "ilock" THEN [u[q] EXCEPT !.pc = "ialloc"]
                         ELSE u[q]]
              /\ cpu' = IF none THEN NoProc ELSE p
              /\ stuck' = IF none THEN Append(stuck, u[p].pdir) ELSE stuck
    /\ s_ilock' = FALSE
    /\ UNCHANGED <<inode, dino, dir, updlock, execnt, files, calls>>

\* A slip: ialloc takes the inode without a look at its mode.
MaknodeUnchecked(p) ==
    /\ At(p, "igot")
    /\ inode' = [inode EXCEPT ![u[p].slot] =
                    [@ EXCEPT !.mode = "reg", !.nlink = 1, !.upd = TRUE]]
    /\ Go(p, [u[p] EXCEPT !.pc = "wdir", !.ip = u[p].slot, !.slot = 0])
    /\ UNCHANGED <<dino, dir, super, files, halted, stuck, calls>>

\* ialloc has the inode; maknode makes a file of it, unless it was allocated
\* after all.
Maknode(p) ==
    /\ At(p, "igot")
    /\ LET s == u[p].slot
       IN  IF inode[s].mode = "none"
           THEN /\ inode' = [inode EXCEPT ![s] =
                     [@ EXCEPT !.mode = IF u[p].call = "creat" THEN "reg"
                                        ELSE "spec",
                               !.nlink = 1, !.upd = TRUE]]
                /\ Go(p, [u[p] EXCEPT !.pc = "wdir", !.ip = s, !.slot = 0])
           ELSE UNCHANGED inode /\ Go(p, CallIput(u[p], s, "iloop"))
    /\ UNCHANGED <<dino, dir, super, files, halted, stuck, calls>>

\* wdir: the entry is written, or there is no block for it; the directory is
\* put.
Wdir(p) ==
    /\ At(p, "wdir")
    /\ LET r == u[p]
           d == inode[r.pdir].num
           e == [name |-> Last(r.path), ino |-> inode[r.ip].num]
           new == r.off > Len(dir[d])
           put == CallIput([r EXCEPT !.pdir = 0], r.pdir, "wdone")
       IN  \/ /\ dir' = [dir EXCEPT ![d] = IF new THEN Append(@, e)
                                           ELSE [@ EXCEPT ![r.off] = e]]
              /\ halted' = IF new THEN FALSE ELSE dir[d][r.off].ino # 0
              /\ Go(p, put)
           \/ /\ new /\ Go(p, [put EXCEPT !.err = TRUE])
              /\ UNCHANGED <<dir, halted>>
    /\ inode' = [inode EXCEPT ![u[p].pdir].upd = TRUE]
    /\ UNCHANGED <<dino, super, files, stuck, calls>>

\* The entry is written: creat goes on to open1, mknod is done, and link counts
\* the new name, even if there is none.
Wdone(p) ==
    /\ At(p, "wdone")
    /\ LET r == u[p]
       IN  /\ inode' = IF r.call = "link"
                       THEN [inode EXCEPT ![r.ip].nlink = @ + 1, ![r.ip].upd = TRUE]
                       ELSE inode
           /\ Go(p, IF r.call = "creat" /\ ~r.err
                    THEN [r EXCEPT !.pc = "open1", !.slot = r.ip, !.ip = 0]
                    ELSE After([r EXCEPT !.ret = "last"]))
    /\ UNCHANGED <<dino, dir, super, files, halted, stuck, calls>>

-----------------------------------------------------------------------------
\* namei has found a file for open or creat; access may refuse it, and creat a
\* directory.
OpenGot(p) ==
    /\ At(p, "got") /\ u[p].call \in {"open", "creat"}
    /\ \/ /\ u[p].call = "open" \/ inode[u[p].slot].mode # "dir"
          /\ Go(p, [u[p] EXCEPT !.pc = IF u[p].call = "open" THEN "open1"
                                       ELSE "trunc"])
       \/ Go(p, GiveUp(u[p]))
    /\ UNCHANGED <<inode, dino, dir, super, files, halted, stuck, calls>>

\* open1: itrunc of a file that was there.
Open1Trunc(p) ==
    /\ At(p, "trunc")
    /\ inode' = [inode EXCEPT ![u[p].slot].upd = @ \/ inode[u[p].slot].mode # "spec"]
    /\ Go(p, [u[p] EXCEPT !.pc = "open1"])
    /\ UNCHANGED <<dino, dir, super, files, halted, stuck, calls>>

\* getf, ufalloc and falloc: an open file, the descriptors and the files that
\* are free; openi may not know a device.
Getf(p, d) == ofile[p][d] # 0
Ufalloc(p) == {d \in Fds : ~Getf(p, d)}
Falloc == {f \in 1..NFILE : file[f].count = 0}
OpeniFails(s) == inode[s].mode = "spec"

\* open1: the inode is unlocked and falloc finds a descriptor and a file; if it
\* finds none, or openi does not know the device, the inode is put.
Open1(p) ==
    /\ At(p, "open1")
    /\ LET s == u[p].slot
           fds == Ufalloc(p)
           fs == Falloc
           full == fds = {} \/ fs = {}
       IN  /\ inode' = Unlock(inode, s)
           /\ \/ /\ ~full
                 /\ ofile' = [ofile EXCEPT ![p][FirstOf(fds)] = FirstOf(fs)]
                 /\ file' = [file EXCEPT ![FirstOf(fs)] = [count |-> 1, inode |-> s]]
                 /\ GoAndWake(p, s, Idle)
              \/ /\ full \/ OpeniFails(s)
                 /\ GoAndWake(p, s, GiveUp(u[p]))
                 /\ UNCHANGED <<file, ofile>>
    /\ UNCHANGED <<dino, dir, super, cdir, halted, stuck, calls>>

\* chdir: the old directory is put while the new one is locked.
ChdirGot(p) ==
    /\ At(p, "got") /\ u[p].call = "chdir"
    /\ \/ /\ inode[u[p].slot].mode = "dir"
          /\ Go(p, CallIput([u[p] EXCEPT !.ip = u[p].slot], cdir[p], "chdir"))
       \/ Go(p, GiveUp(u[p]))
    /\ UNCHANGED <<inode, dino, dir, super, files, halted, stuck, calls>>

ChdirSet(p) ==
    /\ At(p, "chdir")
    /\ cdir' = [cdir EXCEPT ![p] = u[p].ip]
    /\ inode' = Unlock(inode, u[p].ip)
    /\ GoAndWake(p, u[p].ip, Idle)
    /\ UNCHANGED <<dino, dir, super, file, ofile, halted, stuck, calls>>

\* stat: iupdat and the inode's block; chmod and chown: a change.
StatGot(p) ==
    /\ At(p, "got") /\ u[p].call \in {"stat", "chmod", "mknod"}
    /\ \/ /\ u[p].call = "stat"
          /\ Go(p, [u[p] EXCEPT !.pc = "stat"])
          /\ UNCHANGED inode
       \/ /\ u[p].call = "chmod"
          /\ inode' = [inode EXCEPT ![u[p].slot].upd = TRUE]
          /\ Go(p, GiveUp(u[p]))
       \/ /\ u[p].call # "stat"
          /\ Go(p, GiveUp(u[p]))
          /\ UNCHANGED inode
    /\ UNCHANGED <<dino, dir, super, files, halted, stuck, calls>>

StatDone(p) ==
    /\ At(p, "stat")
    /\ IF inode[u[p].slot].upd THEN Iupdat(u[p].slot) ELSE UNCHANGED dino
    /\ Go(p, GiveUp(u[p]))
    /\ UNCHANGED <<inode, dir, super, files, halted, stuck, calls>>

\* fstat: the same for the inode of an open file, which is not locked.
Fstat(p, d) ==
    /\ At(p, "user") /\ Getf(p, d) /\ calls < MaxCalls
    /\ calls' = calls + 1
    /\ Go(p, [Idle EXCEPT !.pc = "fstat", !.off = file[ofile[p][d]].inode])
    /\ UNCHANGED <<inode, dino, dir, super, files, halted, stuck>>

FstatDone(p) ==
    /\ At(p, "fstat")
    /\ IF inode[u[p].off].upd THEN Iupdat(u[p].off) ELSE UNCHANGED dino
    /\ Go(p, Idle)
    /\ UNCHANGED <<inode, dir, super, files, halted, stuck, calls>>

\* exec: at most NEXEC processes go on, each with the file locked; then the
\* buffer for the arguments.
ExecGot(p) ==
    /\ At(p, "got") /\ u[p].call = "exec"
    /\ IF execnt >= NEXEC
       THEN Go(p, [u[p] EXCEPT !.pc = "exwait"]) /\ UNCHANGED execnt
       ELSE Go(p, [u[p] EXCEPT !.pc = "exbuf"]) /\ execnt' = execnt + 1
    /\ UNCHANGED <<inode, dino, dir, s_inode, s_ilock, updlock, files, halted,
                   stuck, calls>>

\* exec: a file that may be executed is read, any other refused.
ExecRead(p) ==
    /\ At(p, "exbuf")
    /\ LET s == u[p].slot
       IN  \/ inode[s].mode = "reg" /\ inode' = [inode EXCEPT ![s].upd = TRUE]
           \/ UNCHANGED inode
    /\ Go(p, CallIput(u[p], u[p].slot, "exdone"))
    /\ UNCHANGED <<dino, dir, super, files, halted, stuck, calls>>

ExecDone(p) ==
    /\ At(p, "exdone")
    /\ execnt' = execnt - 1
    /\ u' = [q \in Procs |->
                IF q = p THEN Idle
                ELSE IF execnt >= NEXEC /\ u[q].pc = "exwait"
                THEN [u[q] EXCEPT !.pc = "got"] ELSE u[q]]
    /\ cpu' = NoProc
    /\ UNCHANGED <<inode, dino, dir, s_inode, s_ilock, updlock, files, halted,
                   stuck, calls>>

\* link: the file is found.  It is unlocked, without a wakeup, while the new
\* name is looked for; and the new name must not exist.
LinkGot(p) ==
    /\ At(p, "got") /\ u[p].call = "link"
    /\ LET s == u[p].slot
       IN  \/ /\ u[p].ip = 0 /\ inode[s].nlink < MaxLinks
              /\ inode' = [inode EXCEPT ![s].lock = FALSE]
              /\ Go(p, CallNamei([u[p] EXCEPT !.ip = s], p, u[p].path2, 1))
           \/ /\ u[p].ip # 0 \/ inode[s].nlink >= MaxLinks \/ inode[s].mode = "dir"
              /\ Go(p, GiveUp(u[p]))
              /\ UNCHANGED inode
    /\ UNCHANGED <<dino, dir, super, files, halted, stuck, calls>>

\* unlink: the directory is unlocked while the inode is fetched.
UnlinkGot(p) ==
    /\ At(p, "got") /\ u[p].call = "unlink"
    /\ LET s == u[p].slot
       IN  /\ inode' = Unlock(inode, s)
           /\ GoAndWake(p, s,
                  CallIget([u[p] EXCEPT !.pdir = s], u[p].ino, "uget"))
    /\ UNCHANGED <<dino, dir, super, files, halted, stuck, calls>>

\* unlink: a directory is the super user's to unlink.
UnlinkGet(p) ==
    /\ At(p, "uget")
    /\ LET r == [u[p] EXCEPT !.ip = u[p].slot, !.slot = 0]
       IN  \/ Go(p, [r EXCEPT !.pc = "uwrite"])
           \/ /\ inode[r.ip].mode = "dir"
              /\ Go(p, CallIput([r EXCEPT !.pdir = 0], r.pdir, "last"))
    /\ UNCHANGED <<inode, dino, dir, super, files, halted, stuck, calls>>

\* unlink: the entry is cleared, the link is taken off, both inodes are put.
UnlinkWrite(p) ==
    /\ At(p, "uwrite")
    /\ LET r == u[p]
       IN  /\ halted' = NameGone(r)
           /\ dir' = [dir EXCEPT ![r.from[1]][r.from[2]].ino = 0]
           /\ inode' = [inode EXCEPT ![r.pdir].upd = TRUE, ![r.ip].upd = TRUE,
                                     ![r.ip].nlink = @ - 1]
           /\ Go(p, CallIput([r EXCEPT !.pdir = 0], r.pdir, "last"))
    /\ UNCHANGED <<dino, super, files, stuck, calls>>

-----------------------------------------------------------------------------
\* closef: the descriptor goes; the last one of a file puts the inode first.
Closef(p, d, call) ==
    LET f == ofile[p][d]
        r == [Idle EXCEPT !.call = call, !.fd = f, !.pc = "closed"]
    IN  /\ ofile' = [ofile EXCEPT ![p][d] = 0]
        /\ Go(p, IF file[f].count <= 1 THEN CallIput(r, file[f].inode, "closed")
                 ELSE r)
        /\ UNCHANGED <<inode, dino, dir, super, file, cdir, halted, stuck>>

Close(p, d) ==
    /\ At(p, "user") /\ Getf(p, d)
    /\ Closef(p, d, "close")
    /\ UNCHANGED calls

CloseDone(p) ==
    /\ At(p, "closed")
    /\ file' = [file EXCEPT ![u[p].fd].count = @ - 1]
    /\ Go(p, IF u[p].call = "exit" THEN [Idle EXCEPT !.pc = "exit"] ELSE Idle)
    /\ UNCHANGED <<inode, dino, dir, super, ofile, cdir, halted, stuck, calls>>

\* exit: the open files are closed, the first one first, and the current
\* directory is put.
Exit(p) ==
    /\ At(p, "user") /\ calls < MaxCalls
    /\ calls' = calls + 1
    /\ Go(p, [Idle EXCEPT !.pc = "exit"])
    /\ UNCHANGED <<inode, dino, dir, super, files, halted, stuck>>

ExitClose(p) ==
    /\ At(p, "exit") /\ Ufalloc(p) # Fds
    /\ Closef(p, FirstOf(Fds \ Ufalloc(p)), "exit")
    /\ UNCHANGED calls

ExitCdir(p) ==
    /\ At(p, "exit") /\ Ufalloc(p) = Fds
    /\ Go(p, CallIput(u[p], cdir[p], "dead"))
    /\ UNCHANGED <<inode, dino, dir, super, files, halted, stuck, calls>>

\* newproc: the child q shares the open files and the current directory.
Fork(p, q) ==
    /\ At(p, "user") /\ u[q].pc = "dead" /\ calls < MaxCalls
    /\ calls' = calls + 1
    /\ file' = [f \in 1..NFILE |-> [file[f] EXCEPT !.count =
                    @ + Cardinality({d \in Fds : ofile[p][d] = f})]]
    /\ inode' = [inode EXCEPT ![cdir[p]].count = @ + 1]
    /\ ofile' = [ofile EXCEPT ![q] = ofile[p]]
    /\ cdir' = [cdir EXCEPT ![q] = cdir[p]]
    /\ u' = [u EXCEPT ![q] = Idle]
    /\ UNCHANGED <<dino, dir, super, cpu, halted, stuck>>

\* A slip: dup does not count the descriptor.
DupUncounted(p, d) ==
    /\ At(p, "user") /\ Getf(p, d) /\ calls < MaxCalls
    /\ calls' = calls + 1
    /\ LET free == Ufalloc(p)
       IN  free # {} /\ ofile' = [ofile EXCEPT ![p][FirstOf(free)] = ofile[p][d]]
    /\ UNCHANGED <<inode, dino, dir, super, file, cdir, u, cpu, halted, stuck>>

Dup(p, d) ==
    /\ At(p, "user") /\ Getf(p, d) /\ calls < MaxCalls
    /\ calls' = calls + 1
    /\ LET free == Ufalloc(p)
       IN  /\ free # {}
           /\ ofile' = [ofile EXCEPT ![p][FirstOf(free)] = ofile[p][d]]
           /\ file' = [file EXCEPT ![ofile[p][d]].count = @ + 1]
    /\ UNCHANGED <<inode, dino, dir, super, cdir, u, cpu, halted, stuck>>

\* The calls with a name.
Flag(call) == CASE call \in {"creat", "mknod"} -> 1
                [] call = "unlink" -> 2
                [] OTHER -> 0

CallName(p, c) ==
    /\ At(p, "user") /\ calls < MaxCalls
    /\ calls' = calls + 1
    /\ Go(p, CallNamei([Idle EXCEPT !.call = c.call, !.path2 = c.path2],
                       p, c.path, Flag(c.call)))
    /\ UNCHANGED <<inode, dino, dir, super, files, halted, stuck>>

\* update, one at a time.
Update(p) ==
    /\ At(p, "user") /\ calls < MaxCalls /\ ~updlock
    /\ calls' = calls + 1 /\ updlock' = TRUE
    /\ Go(p, [Idle EXCEPT !.pc = "upd", !.off = 1])
    /\ UNCHANGED <<inode, dino, dir, s_inode, s_ilock, execnt, files, halted, stuck>>

\* update, one slot: a locked one is passed over, one that has changed is
\* locked and written.
UpdateInode(p) ==
    /\ At(p, "upd") /\ u[p].off <= NINODE
    /\ LET s == u[p].off
           next == [u[p] EXCEPT !.off = s + 1]
       IN  CASE inode[s].lock -> Go(p, next) /\ UNCHANGED inode
             [] ~inode[s].lock /\ inode[s].upd ->
                  /\ inode' = [inode EXCEPT ![s].lock = TRUE]
                  /\ Go(p, [u[p] EXCEPT !.pc = "updwrite"])
             [] OTHER -> inode' = Unlock(inode, s) /\ GoAndWake(p, s, next)
    /\ UNCHANGED <<dino, dir, super, files, halted, stuck, calls>>

UpdateWritten(p) ==
    /\ At(p, "updwrite")
    /\ LET s == u[p].off
       IN  /\ Iupdat(s)
           /\ inode' = Unlock(inode, s)
           /\ GoAndWake(p, s, [u[p] EXCEPT !.pc = "upd", !.off = s + 1])
    /\ UNCHANGED <<dir, super, files, halted, stuck, calls>>

UpdateDone(p) ==
    /\ At(p, "upd") /\ u[p].off > NINODE
    /\ updlock' = FALSE
    /\ Go(p, Idle)
    /\ UNCHANGED <<inode, dino, dir, s_inode, s_ilock, execnt, files, halted, stuck, calls>>

-----------------------------------------------------------------------------
\* Directory entries that name inode i.
Entries(i) == UNION {{<<d, k>> : k \in {j \in DOMAIN dir[d] : dir[d][j].ino = i}} :
                        d \in DirInos}

\* The volume as mkfs made it, with every process in the root.  The root has a
\* link more than names, for its own "..".
Init ==
    /\ dir = Tree
    /\ dino = [i \in Ino |->
                 [mode |-> IF i \in DirInos THEN "dir"
                           ELSE IF Entries(i) # {} THEN "reg" ELSE "none",
                  nlink |-> Cardinality(Entries(i)) + (IF i = ROOTINO THEN 1 ELSE 0)]]
    /\ inode = [s \in Slots |->
                  IF s = 1 THEN [Free EXCEPT !.num = ROOTINO, !.mode = "dir",
                                             !.nlink = dino[ROOTINO].nlink,
                                             !.count = Cardinality(Procs) + 1]
                  ELSE Free]
    /\ s_inode = <<>> /\ s_ilock = FALSE /\ updlock = FALSE /\ execnt = 0
    /\ file = [f \in 1..NFILE |-> [count |-> 0, inode |-> 0]]
    /\ ofile = [p \in Procs |-> [d \in Fds |-> 0]]
    /\ cdir = [p \in Procs |-> 1]
    /\ u = [p \in Procs |-> Idle]
    /\ cpu = NoProc /\ halted = FALSE /\ stuck = <<>> /\ calls = 0

Step(p) ==
    /\ ~halted
    /\ \/ IgetLocked(p) \/ IgetHit(p) \/ IgetMiss(p) \/ IgetFull(p) \/ IgetRead(p)
       \/ IputShared(p) \/ IputLast(p) \/ IputTrunc(p) \/ IputDone(p)
       \/ Comp(p) \/ ScanFound(p) \/ ScanMissing(p)
       \/ IallocEnter(p) \/ IallocPop(p) \/ IallocEmpty(p) \/ IallocFill(p)
       \/ Maknode(p) \/ Wdir(p) \/ Wdone(p)
       \/ OpenGot(p) \/ Open1Trunc(p) \/ Open1(p) \/ ChdirGot(p) \/ ChdirSet(p)
       \/ StatGot(p) \/ StatDone(p) \/ LinkGot(p)
       \/ UnlinkGot(p) \/ UnlinkGet(p) \/ UnlinkWrite(p)
       \/ FstatDone(p) \/ ExecGot(p) \/ ExecRead(p) \/ ExecDone(p)
       \/ CloseDone(p) \/ ExitClose(p) \/ ExitCdir(p)
       \/ UpdateInode(p) \/ UpdateWritten(p) \/ UpdateDone(p)

Request(p) ==
    /\ ~halted
    /\ \/ \E c \in Calls : CallName(p, c)
       \/ \E d \in Fds : Close(p, d) \/ Dup(p, d) \/ Fstat(p, d)
       \/ Update(p) \/ Exit(p)
       \/ \E q \in Procs : Fork(p, q)

Next == \E p \in Procs : Step(p) \/ Request(p)

\* A process that has been woken, or whose block has been read, is run.
Spec == Init /\ [][Next]_vars /\ \A p \in Procs : WF_vars(Step(p))

-----------------------------------------------------------------------------
Mode == {"none", "reg", "dir", "spec"}

\* Every variable has its type.
TypeOK ==
    /\ inode \in [Slots -> [num : 0..NI, lock : BOOLEAN, want : BOOLEAN,
                            upd : BOOLEAN, count : Nat, mode : Mode, nlink : Int]]
    /\ dino \in [Ino -> [mode : Mode, nlink : Int]]
    /\ DOMAIN dir = DirInos
    /\ s_inode \in Seq(Ino)
    /\ execnt \in 0..NEXEC /\ s_ilock \in BOOLEAN /\ updlock \in BOOLEAN /\ halted \in BOOLEAN
    /\ file \in [1..NFILE -> [count : Nat, inode : 0..NINODE]]
    /\ ofile \in [Procs -> [Fds -> 0..NFILE]]
    /\ cdir \in [Procs -> Slots]
    /\ cpu \in Procs \cup {NoProc}
    /\ stuck \in Seq(Slots) /\ calls \in 0..MaxCalls

\* What follows is about the states in which the processes see each other.
Settled == cpu = NoProc /\ ~halted

\* "There is a unique inode allocated for each active file" (h/inode.h): two
\* slots of the table never hold one inode, though iget sleeps for a locked
\* slot and looks again, and the slot may have been given away meanwhile.
UniqueInode ==
    Settled => \A s, t \in Slots : inode[s].num = inode[t].num /\ s # t
                                      => inode[s].num = 0

\* The references to slot s: open files, current directories, the root, what
\* the processes have at hand, and a directory that a failed maknode left.
\* While close and chdir put an inode the file and u_cdir still name it.
References(s) ==
    {<<"file", f>> : f \in {f \in 1..NFILE : file[f].count > 0 /\ file[f].inode = s}}
    \cup {<<"cdir", p>> : p \in {p \in Procs : cdir[p] = s /\ u[p].pc # "dead"}}
    \cup {<<"root", 1>> : r \in {1} \cap {s}}
    \cup {<<"slot", p>> : p \in {p \in Procs : /\ u[p].slot = s /\ u[p].pc # "isleep"
                                                /\ u[p].ret \notin {"closed", "chdir", "dead"}}}
    \cup {<<"ip", p>> : p \in {p \in Procs : u[p].ip = s}}
    \cup {<<"pdir", p>> : p \in {p \in Procs : u[p].pdir = s}}
    \cup {<<"stuck", n>> : n \in {n \in DOMAIN stuck : stuck[n] = s}}

\* i_count of every slot is the number of its references (iget.c:52, 104), so
\* no slot is given away under a file or a process that uses it, and none is
\* lost, on the error paths of namei, open1, link and chdir too.
CountIsReferences ==
    Settled => \A s \in Slots : inode[s].count = Cardinality(References(s))

\* The links of inode i: in core if it has been read, else on disk.
InCore(i) == {s \in Slots : inode[s].num = i /\
                            \A p \in Procs : ~(u[p].pc = "iread" /\ u[p].slot = s)}
Links(i) == IF InCore(i) # {} THEN inode[CHOOSE s \in InCore(i) : TRUE].nlink
            ELSE dino[i].nlink

\* link between wdir and the count (sys2.c:230).
LinkPending(i) ==
    {p \in Procs : /\ u[p].call = "link" /\ u[p].ret = "wdone"
                   /\ u[p].ip # 0 /\ inode[u[p].ip].num = i}

\* An inode has as many links as there are entries with its number, or more: a
\* file is freed (iget.c:92) only when no directory names it.  An inode that is
\* named is allocated.
NamedInodesLive ==
    Settled => \A i \in Ino :
        LET n == Cardinality(Entries(i))
        IN  /\ Links(i) + Cardinality(LinkPending(i)) >= n
            /\ n > 0 => \A s \in InCore(i) : inode[s].mode # "none"
            /\ n > 0 /\ InCore(i) = {} => dino[i].mode # "none"

\* f_count of a file is the number of its descriptors, with the one that close
\* is about to give up (fio.c:48), and an open file has an inode in core.
DescriptorsCounted ==
    Settled => \A f \in 1..NFILE :
        /\ file[f].count = Cardinality({e \in Procs \X Fds : ofile[e[1]][e[2]] = f})
                           + Cardinality({p \in Procs : u[p].fd = f})
        /\ file[f].count > 0 => inode[file[f].inode].num # 0

\* Every call returns: nobody waits for ever for the lock of an inode or of
\* the free inodes, even though link gives up a lock without a wakeup
\* (sys2.c:216).  What a failed maknode leaves locked is excepted.
CallsReturn ==
    \A p \in Procs :
        u[p].pc # "user" ~> (u[p].pc \in {"user", "dead"} \/ halted \/ stuck # <<>>)
=============================================================================
