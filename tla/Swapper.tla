------------------------------ MODULE Swapper -------------------------------
(***************************************************************************)
(* Processes, their images in core and on the swap device, and the         *)
(* swapping process that moves them: sched, newproc, setrun (ken/slp.c),   *)
(* xswap (ken/text.c), fork, exit and wait (ken/sys1.c), and the part of   *)
(* clock (ken/clock.c) that ages processes.                                *)
(*                                                                         *)
(* A step is what one process, or the swapping process 0, does between two *)
(* places where it gives up the processor; only a process that is SRUN and *)
(* SLOAD can take one.  The rendezvous on the swap buffer inside swap() is *)
(* the one checked in BufCache; here a transfer is the time between two    *)
(* steps of its caller.  All images have the same size, as in this kernel  *)
(* (p_size is PSIZE from main on), and swap space does not run out in      *)
(* newproc or exit: SwapperRaces adds what happens when it does.           *)
(***************************************************************************)
EXTENDS RMap, FiniteSets

CONSTANTS
    NPROC,      \* slots of proc[] besides proc[0]
    PSIZE,      \* size of an image in core, in coremap units
    SSIZE,      \* its size on the swap device, in swapmap units
    CoreSize,   \* units in coremap
    SwapSize,   \* units in swapmap
    TimeMax     \* where p_time stops (127 in the code)

ASSUME SwapperAssumption ==
    /\ NPROC \in Nat \ {0} /\ PSIZE \in Nat \ {0} /\ SSIZE \in Nat \ {0}
    /\ CoreSize \in Nat /\ CoreSize >= PSIZE
    /\ SwapSize \in Nat /\ SwapSize >= SSIZE
    /\ TimeMax \in Nat /\ TimeMax >= 3

VARIABLES
    p_stat, p_flag, p_addr, p_time,
    p_ppid,     \* slot of the parent
    pc,         \* where a process is in the kernel
    arg,        \* newproc: the parent; exit: the block for its u; wait: the child
    coremap, swapmap,
    spc,        \* where the swapping process is
    sproc, sa   \* its locals: the process it moves, where to

vars == <<p_stat, p_flag, p_addr, p_time, p_ppid, pc, arg, coremap, swapmap,
          spc, sproc, sa>>
schedVars == <<sproc, sa>>

Slot == 1..NPROC
Init1 == 1      \* the slot of /etc/init

Stat == {"NULL", "SRUN", "SSLEEP", "SWAIT", "SIDL", "SZOMB"}
PC   == {"user", "asleep", "newproc", "exit", "wait", "reap"}
SPC  == {"loop", "runin", "runout", "out", "in"}

\* The arenas main() gives to the maps; address 0 is never part of one.
Core == 1..CoreSize
Swap == 1..SwapSize

-----------------------------------------------------------------------------
CanRun(p) == p_stat[p] = "SRUN" /\ "SLOAD" \in p_flag[p]

\* A process at the system call interface.
InUser(p) == CanRun(p) /\ pc[p] = "user"

\* setrun of every process in S, and the swapping process is told if one of
\* them is out of core.  runout is nonzero while it sleeps on it.
Setrun(S) ==
    /\ p_stat' = [p \in Slot |-> IF p \in S THEN "SRUN" ELSE p_stat[p]]
    /\ spc' = IF spc = "runout" /\ \E p \in S : "SLOAD" \notin p_flag[p]
              THEN "loop" ELSE spc

\* A low priority sleep also prods the swapping process: runin is nonzero
\* while it sleeps on it.
ProdSched == spc' = IF spc = "runin" THEN "loop" ELSE spc

FreeSlots == {p \in Slot : p_stat[p] = "NULL"}
FirstOf(S) == CHOOSE p \in S : \A q \in S : p <= q

\* What newproc writes in the slot of the child, whatever it does about core.
NewSlot(p, c) ==
    /\ p_time' = [p_time EXCEPT ![c] = 0]
    /\ p_ppid' = [p_ppid EXCEPT ![c] = p]

\* fork, when there is core for the child: copy the image.
ForkCore(p) ==
    LET c == FirstOf(FreeSlots)
        a == MallocAddr(coremap, PSIZE)
    IN  /\ InUser(p) /\ FreeSlots # {} /\ a # NoAddr
        /\ NewSlot(p, c)
        /\ p_stat' = [p_stat EXCEPT ![c] = "SRUN"]
        /\ p_flag' = [p_flag EXCEPT ![c] = {"SLOAD"}]
        /\ p_addr' = [p_addr EXCEPT ![c] = a]
        /\ pc' = [pc EXCEPT ![c] = "user"]
        /\ coremap' = MallocMap(coremap, PSIZE)
        /\ UNCHANGED <<arg, swapmap, spc, schedVars>>

\* fork, when there is none: the parent idles, the child stands on the
\* parent's image, locked by xswap, and the transfer to swap begins.
ForkSwap(p) ==
    LET c == FirstOf(FreeSlots)
        a == MallocAddr(swapmap, SSIZE)
    IN  /\ InUser(p) /\ FreeSlots # {}
        /\ MallocAddr(coremap, PSIZE) = NoAddr /\ a # NoAddr
        /\ NewSlot(p, c)
        /\ p_stat' = [p_stat EXCEPT ![p] = "SIDL", ![c] = "SSLEEP"]
        /\ p_flag' = [p_flag EXCEPT ![c] = {"SLOAD", "SLOCK"}]
        /\ p_addr' = [p_addr EXCEPT ![c] = p_addr[p]]
        /\ pc' = [pc EXCEPT ![c] = "newproc"]
        /\ arg' = [arg EXCEPT ![c] = a]
        /\ swapmap' = MallocMap(swapmap, SSIZE)
        /\ UNCHANGED <<coremap, spc, schedVars>>

\* A slip: xswap is called with ff on and frees the parent's core.
NewprocDoneFrees(c) ==
    /\ pc[c] = "newproc" /\ p_stat[c] = "SSLEEP" /\ "SLOCK" \in p_flag[c]
    /\ p_stat' = [p_stat EXCEPT ![c] = "SRUN", ![p_ppid[c]] = "SRUN"]
    /\ p_flag' = [p_flag EXCEPT ![c] = {"SSWAP"}]
    /\ coremap' = MfreeMap(coremap, PSIZE, p_addr[c])
    /\ p_addr' = [p_addr EXCEPT ![c] = arg[c]]
    /\ p_time' = [p_time EXCEPT ![c] = 0]
    /\ pc' = [pc EXCEPT ![c] = "asleep"]
    /\ arg' = [arg EXCEPT ![c] = 0]
    /\ spc' = IF spc = "runout" THEN "loop" ELSE spc
    /\ UNCHANGED <<p_ppid, swapmap, schedVars>>

\* A slip: xswap does not look at runout.
NewprocDoneSilent(c) ==
    /\ pc[c] = "newproc" /\ p_stat[c] = "SSLEEP" /\ "SLOCK" \in p_flag[c]
    /\ p_stat' = [p_stat EXCEPT ![c] = "SRUN", ![p_ppid[c]] = "SRUN"]
    /\ p_flag' = [p_flag EXCEPT ![c] = {"SSWAP"}]
    /\ p_addr' = [p_addr EXCEPT ![c] = arg[c]]
    /\ p_time' = [p_time EXCEPT ![c] = 0]
    /\ pc' = [pc EXCEPT ![c] = "asleep"]
    /\ arg' = [arg EXCEPT ![c] = 0]
    /\ UNCHANGED <<p_ppid, coremap, swapmap, spc, schedVars>>

\* The transfer is done: xswap finishes without freeing core, the child is
\* out of core and ready to run, and the parent goes on.
NewprocDone(c) ==
    /\ pc[c] = "newproc" /\ p_stat[c] = "SSLEEP" /\ "SLOCK" \in p_flag[c]
    /\ p_stat' = [p_stat EXCEPT ![c] = "SRUN", ![p_ppid[c]] = "SRUN"]
    /\ p_flag' = [p_flag EXCEPT ![c] = {"SSWAP"}]
    /\ p_addr' = [p_addr EXCEPT ![c] = arg[c]]
    /\ p_time' = [p_time EXCEPT ![c] = 0]
    /\ pc' = [pc EXCEPT ![c] = "asleep"]
    /\ arg' = [arg EXCEPT ![c] = 0]
    /\ spc' = IF spc = "runout" THEN "loop" ELSE spc
    /\ UNCHANGED <<p_ppid, coremap, swapmap, schedVars>>

\* p goes to sleep in the kernel, at l.
Block(p, stat, l) ==
    /\ p_stat' = [p_stat EXCEPT ![p] = stat]
    /\ pc' = [pc EXCEPT ![p] = l]

\* exit, up to the write of the u area to its block of swap.
ExitBegin(p) ==
    /\ InUser(p) /\ p # Init1
    /\ MallocAddr(swapmap, 1) # NoAddr
    /\ arg' = [arg EXCEPT ![p] = MallocAddr(swapmap, 1)]
    /\ swapmap' = MallocMap(swapmap, 1)
    /\ Block(p, "SSLEEP", "exit")
    /\ UNCHANGED <<p_flag, p_addr, p_time, p_ppid, coremap, spc, schedVars>>

\* Those who are asleep in wait: the parent's channel is its own slot.
Waiting(S) == {p \in S : pc[p] = "wait" /\ p_stat[p] = "SWAIT"}

\* exit after the write: core is freed, the slot is a zombie that keeps the
\* block, parent and init are woken, and init inherits the children.
ExitEnd(p) ==
    /\ CanRun(p) /\ pc[p] = "exit"
    /\ coremap' = MfreeMap(coremap, PSIZE, p_addr[p])
    /\ p_addr' = [p_addr EXCEPT ![p] = arg[p]]
    /\ arg' = [arg EXCEPT ![p] = 0]
    /\ pc' = [pc EXCEPT ![p] = "user"]
    /\ LET W == Waiting({p_ppid[p], Init1})
       IN  /\ p_stat' = [q \in Slot |-> IF q = p THEN "SZOMB"
                                        ELSE IF q \in W THEN "SRUN"
                                        ELSE p_stat[q]]
           /\ spc' = IF spc = "runout" /\ \E q \in W : "SLOAD" \notin p_flag[q]
                     THEN "loop" ELSE spc
    /\ p_ppid' = [q \in Slot |-> IF p_ppid[q] = p THEN Init1 ELSE p_ppid[q]]
    /\ UNCHANGED <<p_flag, p_time, swapmap, schedVars>>

Children(p) == {c \in Slot : p_ppid[c] = p /\ p_stat[c] # "NULL"}
Zombies(p)  == {c \in Children(p) : p_stat[c] = "SZOMB"}

InWait(p) == CanRun(p) /\ pc[p] \in {"user", "wait"}

\* wait finds a zombie and reads its u area.
WaitReap(p) ==
    /\ InWait(p) /\ Zombies(p) # {}
    /\ arg' = [arg EXCEPT ![p] = FirstOf(Zombies(p))]
    /\ Block(p, "SSLEEP", "reap")
    /\ UNCHANGED <<p_flag, p_addr, p_time, p_ppid, coremap, swapmap, spc,
                   schedVars>>

\* wait finds children but no zombie and sleeps.
WaitSleep(p) ==
    /\ InWait(p) /\ Children(p) # {} /\ Zombies(p) = {}
    /\ Block(p, "SWAIT", "wait")
    /\ ProdSched
    /\ UNCHANGED <<p_flag, p_addr, p_time, p_ppid, arg, coremap, swapmap,
                   schedVars>>

\* A slip: wait keeps the block.
ReapEndKeepsBlock(p) ==
    LET c == arg[p]
    IN  /\ CanRun(p) /\ pc[p] = "reap"
        /\ p_stat' = [p_stat EXCEPT ![c] = "NULL"]
        /\ p_flag' = [p_flag EXCEPT ![c] = {}]
        /\ p_ppid' = [p_ppid EXCEPT ![c] = 0]
        /\ pc' = [pc EXCEPT ![p] = "user"]
        /\ arg' = [arg EXCEPT ![p] = 0]
        /\ p_addr' = [p_addr EXCEPT ![c] = 0]
        /\ p_time' = [p_time EXCEPT ![c] = 0]
        /\ UNCHANGED <<swapmap, coremap, spc, schedVars>>

\* wait has read the u area: the block and the slot are free.  p_addr and
\* p_time mean nothing in a free slot; newproc sets them.
ReapEnd(p) ==
    LET c == arg[p]
    IN  /\ CanRun(p) /\ pc[p] = "reap"
        /\ swapmap' = MfreeMap(swapmap, 1, p_addr[c])
        /\ p_stat' = [p_stat EXCEPT ![c] = "NULL"]
        /\ p_flag' = [p_flag EXCEPT ![c] = {}]
        /\ p_ppid' = [p_ppid EXCEPT ![c] = 0]
        /\ pc' = [pc EXCEPT ![p] = "user"]
        /\ arg' = [arg EXCEPT ![p] = 0]
        /\ p_addr' = [p_addr EXCEPT ![c] = 0]
        /\ p_time' = [p_time EXCEPT ![c] = 0]
        /\ UNCHANGED <<coremap, spc, schedVars>>

\* Any other sleep: at low priority, for a terminal, a pipe or the clock, or
\* at high priority, for the disk.
SleepLow(p) ==
    /\ InUser(p)
    /\ Block(p, "SWAIT", "asleep")
    /\ ProdSched
    /\ UNCHANGED <<p_flag, p_addr, p_time, p_ppid, arg, coremap, swapmap,
                   schedVars>>

SleepDisk(p) ==
    /\ InUser(p)
    /\ Block(p, "SSLEEP", "asleep")
    /\ UNCHANGED <<p_flag, p_addr, p_time, p_ppid, arg, coremap, swapmap, spc,
                   schedVars>>

\* What such a process waits for happens.
Wake(p) ==
    /\ p_stat[p] \in {"SWAIT", "SSLEEP"} /\ pc[p] \in {"asleep", "exit", "reap"}
    /\ Setrun({p})
    /\ UNCHANGED <<p_flag, p_addr, p_time, p_ppid, pc, arg, coremap, swapmap,
                   schedVars>>

\* swtch picks the woken process, or a child that newproc made in swap space,
\* and it returns to user mode.
Continue(p) ==
    /\ CanRun(p) /\ pc[p] = "asleep"
    /\ pc' = [pc EXCEPT ![p] = "user"]
    /\ p_flag' = [p_flag EXCEPT ![p] = @ \ {"SSWAP"}]
    /\ UNCHANGED <<p_stat, p_addr, p_time, p_ppid, arg, coremap,
                   swapmap, spc, schedVars>>

\* A slip: p_time is counted without a limit.
TickUnlimited ==
    /\ p_time' = [p \in Slot |->
                    IF p_stat[p] # "NULL" THEN p_time[p] + 1 ELSE p_time[p]]
    /\ ProdSched
    /\ UNCHANGED <<p_stat, p_flag, p_addr, p_ppid, pc, arg, coremap, swapmap,
                   schedVars>>

\* clock, once a second: everybody is a second older, and runin is served.
Tick ==
    /\ p_time' = [p \in Slot |->
                    IF p_stat[p] # "NULL" /\ p_time[p] # TimeMax
                    THEN p_time[p] + 1 ELSE p_time[p]]
    /\ ProdSched
    /\ UNCHANGED <<p_stat, p_flag, p_addr, p_ppid, pc, arg, coremap, swapmap,
                   schedVars>>

-----------------------------------------------------------------------------
(* sched.  spc = "loop" is the label loop; "runin" and "runout" are the     *)
(* sleeps on those flags, "out" and "in" the transfers of sproc to sa.      *)

\* The first of the processes of S with the greatest p_time.
Eldest(S) ==
    FirstOf({p \in S : \A q \in S : p_time[q] <= p_time[p]})

\* Who is ready and not in core.
WantsIn == {p \in Slot : p_stat[p] = "SRUN" /\ "SLOAD" \notin p_flag[p]}

\* A slip: a process that is locked can be swapped out.
SwappableUnlocked == {p \in Slot : "SLOAD" \in p_flag[p]}

\* Processes in core that no transfer has locked.
Swappable == {p \in Slot : "SLOAD" \in p_flag[p] /\ "SLOCK" \notin p_flag[p]}
EasyCore  == {p \in Swappable : p_stat[p] = "SWAIT"}
OldCore   == {p \in Swappable : p_stat[p] \in {"SRUN", "SSLEEP"}}

\* Who has to make room: a process in a low priority sleep, or, if the one
\* outside has been there for 3 seconds, the oldest that has been inside for 2.
Victims ==
    IF EasyCore # {} THEN {FirstOf(EasyCore)}
    ELSE IF p_time[Eldest(WantsIn)] < 3 \/ OldCore = {} THEN {}
    ELSE {p \in {Eldest(OldCore)} : p_time[p] >= 2}

\* Nobody wants to come in: sleep on runout.
SchedNone ==
    /\ spc = "loop" /\ WantsIn = {}
    /\ spc' = "runout"
    /\ UNCHANGED <<p_stat, p_flag, p_addr, p_time, p_ppid, pc, arg, coremap,
                   swapmap, schedVars>>

\* There is core for the one outside longest: start to read its image.
SchedIn ==
    /\ spc = "loop" /\ WantsIn # {}
    /\ MallocAddr(coremap, PSIZE) # NoAddr
    /\ sproc' = Eldest(WantsIn)
    /\ sa' = MallocAddr(coremap, PSIZE)
    /\ coremap' = MallocMap(coremap, PSIZE)
    /\ spc' = "in"
    /\ UNCHANGED <<p_stat, p_flag, p_addr, p_time, p_ppid, pc, arg, swapmap>>

\* There is none: start to write the image of a victim.
SchedOut ==
    /\ spc = "loop" /\ WantsIn # {}
    /\ MallocAddr(coremap, PSIZE) = NoAddr
    /\ MallocAddr(swapmap, SSIZE) # NoAddr
    /\ \E p \in Victims :
          /\ sproc' = p
          /\ p_flag' = [p_flag EXCEPT ![p] = (@ \ {"SLOAD"}) \cup {"SLOCK"}]
    /\ sa' = MallocAddr(swapmap, SSIZE)
    /\ swapmap' = MallocMap(swapmap, SSIZE)
    /\ spc' = "out"
    /\ UNCHANGED <<p_stat, p_addr, p_time, p_ppid, pc, arg, coremap>>

\* There is neither core nor a victim that could be written: sleep on runin.
SchedPass ==
    /\ spc = "loop" /\ WantsIn # {}
    /\ MallocAddr(coremap, PSIZE) = NoAddr
    /\ Victims = {} \/ MallocAddr(swapmap, SSIZE) = NoAddr
    /\ spc' = "runin"
    /\ UNCHANGED <<p_stat, p_flag, p_addr, p_time, p_ppid, pc, arg, coremap,
                   swapmap, schedVars>>

\* Those who sleep in newproc for swap space, with no transfer to wait for.
SwapWaiters == {c \in Slot : pc[c] = "newproc" /\ arg[c] = 0}

\* The image is read: its swap space is free, and those who wait for swap
\* space are told.
SchedInDone ==
    /\ spc = "in"
    /\ p_stat' = [c \in Slot |-> IF c \in SwapWaiters THEN "SRUN" ELSE p_stat[c]]
    /\ swapmap' = MfreeMap(swapmap, SSIZE, p_addr[sproc])
    /\ p_addr' = [p_addr EXCEPT ![sproc] = sa]
    /\ p_flag' = [p_flag EXCEPT ![sproc] = @ \cup {"SLOAD"}]
    /\ p_time' = [p_time EXCEPT ![sproc] = 0]
    /\ spc' = "loop"
    /\ sproc' = 0 /\ sa' = 0
    /\ UNCHANGED <<p_ppid, pc, arg, coremap>>

\* The image is written (the end of xswap): its core is free.
SchedOutDone ==
    /\ spc = "out"
    /\ coremap' = MfreeMap(coremap, PSIZE, p_addr[sproc])
    /\ p_addr' = [p_addr EXCEPT ![sproc] = sa]
    /\ p_flag' = [p_flag EXCEPT ![sproc] = @ \ {"SLOAD", "SLOCK"}]
    /\ p_time' = [p_time EXCEPT ![sproc] = 0]
    /\ spc' = "loop"
    /\ sproc' = 0 /\ sa' = 0
    /\ UNCHANGED <<p_stat, p_ppid, pc, arg, swapmap>>

Sched == \/ SchedNone \/ SchedIn \/ SchedOut \/ SchedPass
         \/ SchedInDone \/ SchedOutDone

-----------------------------------------------------------------------------
\* After main: init is in core, everything else is free.
Init ==
    /\ p_stat = [p \in Slot |-> IF p = Init1 THEN "SRUN" ELSE "NULL"]
    /\ p_flag = [p \in Slot |-> IF p = Init1 THEN {"SLOAD"} ELSE {}]
    /\ p_addr = [p \in Slot |-> IF p = Init1 THEN 1 ELSE 0]
    /\ p_time = [p \in Slot |-> 0]
    /\ p_ppid = [p \in Slot |-> 0]
    /\ pc = [p \in Slot |-> "user"]
    /\ arg = [p \in Slot |-> 0]
    /\ coremap = MallocMap(MfreeMap(<<>>, CoreSize, 1), PSIZE)
    /\ swapmap = MfreeMap(<<>>, SwapSize, 1)
    /\ spc = "loop" /\ sproc = 0 /\ sa = 0

Calls(p) ==
    \/ ForkCore(p) \/ ForkSwap(p) \/ ExitBegin(p)
    \/ WaitReap(p) \/ WaitSleep(p) \/ SleepLow(p) \/ SleepDisk(p)

Next ==
    \/ Sched
    \/ Tick
    \/ \E p \in Slot : \/ Calls(p) \/ NewprocDone(p) \/ Wake(p)
                       \/ Continue(p) \/ ExitEnd(p) \/ ReapEnd(p)

Spec == Init /\ [][Next]_vars

-----------------------------------------------------------------------------
TypeOK ==
    /\ p_stat \in [Slot -> Stat]
    /\ p_flag \in [Slot -> SUBSET {"SLOAD", "SLOCK", "SSWAP"}]
    /\ p_addr \in [Slot -> Nat]
    /\ p_time \in [Slot -> 0..TimeMax]
    /\ p_ppid \in [Slot -> Slot \cup {0}]
    /\ pc \in [Slot -> PC]
    /\ arg \in [Slot -> Nat]
    /\ coremap \in Seq(Entry) /\ swapmap \in Seq(Entry)
    /\ spc \in SPC /\ sproc \in Slot \cup {0} /\ sa \in Nat

Live(p) == p_stat[p] \notin {"NULL", "SZOMB"}

\* p has an image of its own in core: it is loaded, or on its way out.
Resident(p) ==
    /\ Live(p) /\ pc[p] # "newproc"
    /\ "SLOAD" \in p_flag[p] \/ (spc = "out" /\ sproc = p)

Run(o, a, n) == [owner |-> o, run |-> a..(a + n - 1)]

\* Who uses which units of core.
CoreUse ==
    {Run(p, p_addr[p], PSIZE) : p \in {q \in Slot : Resident(q)}} \cup
    (IF spc = "in" THEN {Run(0, sa, PSIZE)} ELSE {})

\* Who uses which units of swap space: images that are out or going out, the
\* copy newproc makes, the u areas of zombies and of processes that exit.
SwapUse ==
    {Run(p, p_addr[p], SSIZE) :
        p \in {q \in Slot : Live(q) /\ ~Resident(q) /\ pc[q] # "newproc"}} \cup
    {Run(p, arg[p], SSIZE) : p \in {q \in Slot : pc[q] = "newproc" /\ arg[q] # 0}}
    \cup
    {Run(p, p_addr[p], 1) : p \in {q \in Slot : p_stat[q] = "SZOMB"}} \cup
    {Run(-p, arg[p], 1) : p \in {q \in Slot : pc[q] = "exit"}} \cup
    (IF spc = "out" THEN {Run(0, sa, SSIZE)} ELSE {})

\* Every unit belongs to exactly one user or is free.
Partition(use, mp, arena) ==
    /\ \A d, e \in use : d # e => d.run \cap e.run = {}
    /\ \A d \in use : d.run \cap FreeUnits(mp) = {}
    /\ FreeUnits(mp) \cup UNION {d.run : d \in use} = arena

\* p_addr is the "address of swappable image" (proc.h:22): no two processes
\* share core, no process sits in free core, none is lost, through any order
\* of forks, exits and swaps, each of which sleeps half way.
CoreOwned == Partition(CoreUse, coremap, Core)

\* The same for swap space, with zombies and images in transit.
SwapOwned == Partition(SwapUse, swapmap, Swap)

\* While newproc copies the parent to swap space the parent's image stays
\* where it is: the child's p_addr is the parent's and both are out of reach
\* of the swapping process.
ParentStays ==
    \A c \in Slot : pc[c] = "newproc" =>
        LET p == p_ppid[c]
        IN  /\ Resident(p) /\ sproc \notin {p, c}
            /\ p_addr[c] = p_addr[p]

\* Nobody who is ready is forgotten outside: the swapping process is not
\* asleep on runout while a process wants to come in.  Whoever makes a process
\* ready or takes it out of core has to see to it (setrun, xswap).
ReadyIsNoticed == spc = "runout" => WantsIn = {}
=============================================================================
