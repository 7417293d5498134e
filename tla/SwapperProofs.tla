---------------------------- MODULE SwapperProofs ----------------------------
(***************************************************************************)
(* Core and swap space belong to one process each, through any number of   *)
(* forks, exits and swaps (ken/slp.c, text.c, sys1.c), and nobody who is   *)
(* ready is forgotten outside, for any number of processes and any sizes.  *)
(***************************************************************************)
EXTENDS Swapper, RMapProofs

-----------------------------------------------------------------------------
\* The units in the hands of each owner: for core, the processes and, as 0,
\* the transfer of the swapping process; for swap space also, as -p, the block
\* for the u area that p writes in exit.
CoreOwners == 0..NPROC
SwapOwners == (-NPROC)..NPROC

CoreOf ==
    [o \in CoreOwners |->
        IF o = 0 THEN (IF spc = "in" THEN RunOf(sa, PSIZE) ELSE {})
        ELSE IF Resident(o) THEN RunOf(p_addr[o], PSIZE) ELSE {}]

SwapOf ==
    [o \in SwapOwners |->
        IF o = 0 THEN (IF spc = "out" THEN RunOf(sa, SSIZE) ELSE {})
        ELSE IF o < 0 THEN (IF pc[-o] = "exit" THEN RunOf(arg[-o], 1) ELSE {})
        ELSE IF p_stat[o] = "SZOMB" THEN RunOf(p_addr[o], 1)
        ELSE IF pc[o] = "newproc" THEN RunOf(arg[o], SSIZE)
        ELSE IF Live(o) /\ ~Resident(o) THEN RunOf(p_addr[o], SSIZE) ELSE {}]

\* F gives each of the owners O units of their own; with the free ones they
\* are the arena.
Shared(F, O, free, arena) ==
    /\ \A o, q \in O : o # q => F[o] \cap F[q] = {}
    /\ \A o \in O : F[o] \cap free = {}
    /\ \A x : x \in arena <=> (x \in free \/ \E o \in O : x \in F[o])

CoreShared == InForm(coremap) /\ Shared(CoreOf, CoreOwners, FreeUnits(coremap), Core)
SwapShared == InForm(swapmap) /\ Shared(SwapOf, SwapOwners, FreeUnits(swapmap), Swap)

-----------------------------------------------------------------------------
\* What a process can be doing in each state, and what it relies on.
Shape(p) ==
    /\ p_stat[p] \in {"NULL", "SZOMB", "SIDL"} => pc[p] = "user"
    /\ p_stat[p] = "SIDL" => "SLOAD" \in p_flag[p]
    /\ pc[p] = "user" => p_stat[p] \in {"NULL", "SZOMB", "SIDL", "SRUN"}
    /\ pc[p] = "exit" => p # Init1

\* A child that newproc copies: nobody else runs it, and its parent idles.
Copying(c) ==
    pc[c] = "newproc" =>
        /\ p_stat[c] = "SSLEEP" /\ {"SLOAD", "SLOCK"} \subseteq p_flag[c]
        /\ arg[c] # 0
        /\ p_ppid[c] \in Slot /\ p_stat[p_ppid[c]] = "SIDL"
        /\ p_addr[c] = p_addr[p_ppid[c]]
        /\ \A d \in Slot : pc[d] = "newproc" /\ p_ppid[d] = p_ppid[c] => d = c

\* The zombie that a process in wait reads stays its own.
Reaping(p) ==
    pc[p] = "reap" =>
        /\ arg[p] \in Slot /\ p_stat[arg[p]] = "SZOMB" /\ p_ppid[arg[p]] = p
        /\ p_stat[p] \in {"SSLEEP", "SRUN"}

\* What the swapping process moves keeps still.
Moving ==
    /\ spc = "in" => /\ sproc \in Slot /\ p_stat[sproc] = "SRUN"
                     /\ "SLOAD" \notin p_flag[sproc]
    /\ spc = "out" => /\ sproc \in Slot /\ Live(sproc)
                      /\ "SLOAD" \notin p_flag[sproc]
    /\ spc \notin {"in", "out"} => sproc = 0

\* init is there for good.
InitLives == Live(Init1) /\ p_ppid[Init1] = 0

Shapes ==
    /\ \A p \in Slot : Shape(p) /\ Copying(p) /\ Reaping(p)
    /\ Moving /\ InitLives

\* The inductive invariant.
Inv == TypeOK /\ Shapes /\ ReadyIsNoticed /\ CoreShared /\ SwapShared

-----------------------------------------------------------------------------
(* Sharing an arena.                                                        *)

\* The owners keep what they have.
LEMMA Kept ==
    ASSUME NEW O, NEW free, NEW A, NEW F, NEW G, Shared(F, O, free, A),
           \A o \in O : G[o] = F[o]
    PROVE  Shared(G, O, free, A)
BY DEF Shared

\* One owner hands all it has to another.
LEMMA Moved ==
    ASSUME NEW O, NEW free, NEW A, NEW F, NEW G, Shared(F, O, free, A),
           NEW x \in O, NEW y \in O, x # y, F[y] = {}, G[y] = F[x], G[x] = {},
           \A o \in O : o # x /\ o # y => G[o] = F[o]
    PROVE  Shared(G, O, free, A)
<1>1. \A o, q \in O : o # q => G[o] \cap G[q] = {}
    BY DEF Shared
<1>2. \A o \in O : G[o] \cap free = {}
    BY DEF Shared
<1>3. ASSUME NEW z PROVE (\E o \in O : z \in F[o]) <=> (\E o \in O : z \in G[o])
    <2>1. ASSUME NEW o \in O, z \in F[o] PROVE \E q \in O : z \in G[q]
        BY <2>1
    <2>2. ASSUME NEW o \in O, z \in G[o] PROVE \E q \in O : z \in F[q]
        BY <2>2
    <2> QED
        BY <2>1, <2>2
<1> QED
    BY <1>1, <1>2, <1>3 DEF Shared

\* malloc gives an owner that has nothing a run of its own.
LEMMA Taken ==
    ASSUME NEW m, InForm(m), NEW O, NEW A, NEW F, NEW G,
           Shared(F, O, FreeUnits(m), A), NEW size \in Nat \ {0},
           MallocAddr(m, size) # NoAddr, NEW x \in O, F[x] = {},
           G[x] = RunOf(MallocAddr(m, size), size),
           \A o \in O : o # x => G[o] = F[o]
    PROVE  /\ InForm(MallocMap(m, size))
           /\ Shared(G, O, FreeUnits(MallocMap(m, size)), A)
<1> DEFINE R == RunOf(MallocAddr(m, size), size)
           free == FreeUnits(m)
           left == FreeUnits(MallocMap(m, size))
<1>1. InForm(MallocMap(m, size)) /\ R \subseteq free /\ left = free \ R
    BY MallocSome
<1>2. G[x] = R /\ Shared(F, O, free, A)
    OBVIOUS
<1> HIDE DEF R, free, left
<1>3. \A o, q \in O : o # q => G[o] \cap G[q] = {}
    BY <1>1, <1>2 DEF Shared
<1>4. \A o \in O : G[o] \cap left = {}
    BY <1>1, <1>2 DEF Shared
<1>5. ASSUME NEW z
      PROVE  (z \in free \/ \E o \in O : z \in F[o]) <=>
             (z \in left \/ \E o \in O : z \in G[o])
    <2>1. ASSUME NEW o \in O, z \in F[o] PROVE \E q \in O : z \in G[q]
        BY <2>1
    <2>2. ASSUME NEW o \in O, z \in G[o] PROVE z \in free \/ \E q \in O : z \in F[q]
        BY <2>2, <1>1, <1>2
    <2> QED
        BY <2>1, <2>2, <1>1, <1>2
<1> QED
    BY <1>1, <1>2, <1>3, <1>4, <1>5 DEF Shared, left

\* mfree takes an owner's run back.
LEMMA Given ==
    ASSUME NEW m, InForm(m), NEW O, NEW A, A \subseteq Nat \ {0}, NEW F, NEW G,
           Shared(F, O, FreeUnits(m), A), NEW size \in Nat \ {0}, NEW a \in Nat,
           NEW x \in O, F[x] = RunOf(a, size), G[x] = {},
           \A o \in O : o # x => G[o] = F[o]
    PROVE  /\ InForm(MfreeMap(m, size, a))
           /\ Shared(G, O, FreeUnits(MfreeMap(m, size, a)), A)
<1> DEFINE free == FreeUnits(m)
           left == FreeUnits(MfreeMap(m, size, a))
<1>1. a \in F[x]
    BY DEF RunOf
<1>2. a \in Nat \ {0}
    BY <1>1 DEF Shared
<1>3. F[x] \cap free = {}
    BY DEF Shared
<1>4. InForm(MfreeMap(m, size, a)) /\ left = free \cup F[x]
    BY <1>2, <1>3, MfreeRun
<1>5. Shared(F, O, free, A)
    OBVIOUS
<1> HIDE DEF free, left
<1>6. \A o, q \in O : o # q => G[o] \cap G[q] = {}
    BY <1>5 DEF Shared
<1>7. \A o \in O : G[o] \cap left = {}
    BY <1>4, <1>5 DEF Shared
<1>8. ASSUME NEW z
      PROVE  (z \in free \/ \E o \in O : z \in F[o]) <=>
             (z \in left \/ \E o \in O : z \in G[o])
    <2>1. ASSUME NEW o \in O, z \in F[o] PROVE z \in left \/ \E q \in O : z \in G[q]
        BY <2>1, <1>4
    <2>2. ASSUME NEW o \in O, z \in G[o] PROVE \E q \in O : z \in F[q]
        BY <2>2
    <2> QED
        BY <2>1, <2>2, <1>4
<1> QED
    BY <1>4, <1>5, <1>6, <1>7, <1>8 DEF Shared, left

-----------------------------------------------------------------------------
(* Who is chosen.                                                           *)

\* A loop over proc[] for the first of some finds one.
LEMMA FirstFound ==
    ASSUME NEW S \in SUBSET Slot, S # {}
    PROVE  FirstOf(S) \in S
<1>1. \E m \in S : \A k \in S : m <= k
    BY SwapperAssumption, FirstIndex DEF Slot
<1> QED
    BY <1>1 DEF FirstOf

\* sched's loop for the oldest of some finds one.
LEMMA EldestFound ==
    ASSUME TypeOK, NEW S \in SUBSET Slot, S # {}
    PROVE  Eldest(S) \in S
<1> DEFINE Ages == {TimeMax - p_time[p] : p \in S}
<1>1. Ages \in SUBSET Nat /\ Ages # {}
    BY SwapperAssumption DEF TypeOK
<1>2. PICK m \in Ages : \A k \in Ages : m <= k
    BY <1>1, LeastNatural
<1>3. PICK p \in S : m = TimeMax - p_time[p]
    BY <1>2
<1>4. \A q \in S : p_time[q] <= p_time[p]
    <2>1. ASSUME NEW q \in S PROVE p_time[q] <= p_time[p]
        <3>1. TimeMax - p_time[q] \in Ages
            OBVIOUS
        <3>2. TimeMax - p_time[p] <= TimeMax - p_time[q]
            BY <1>2, <1>3, <3>1
        <3>3. p_time[p] \in Nat /\ p_time[q] \in Nat /\ TimeMax \in Nat
            BY SwapperAssumption DEF TypeOK
        <3> QED
            BY <3>2, <3>3
    <2> QED
        BY <2>1
<1> DEFINE E == {r \in S : \A q \in S : p_time[q] <= p_time[r]}
<1>5. E \in SUBSET Slot /\ E # {}
    BY <1>4
<1>6. FirstOf(E) \in E
    BY <1>5, FirstFound
<1> QED
    BY <1>6 DEF Eldest

\* The swapping process takes out only what is in core, is not in a transfer
\* and is not the parent of one.
LEMMA VictimFacts ==
    ASSUME TypeOK, NEW p \in Victims
    PROVE  /\ p \in Slot /\ "SLOAD" \in p_flag[p] /\ "SLOCK" \notin p_flag[p]
           /\ p_stat[p] \in {"SWAIT", "SRUN", "SSLEEP"}
<1>1. EasyCore \in SUBSET Slot /\ OldCore \in SUBSET Slot
    BY DEF EasyCore, OldCore, Swappable
<1>2. CASE EasyCore # {}
    <2>1. p \in EasyCore
        BY <1>1, <1>2, FirstFound DEF Victims
    <2> QED
        BY <2>1 DEF EasyCore, Swappable
<1>3. CASE EasyCore = {}
    <2>1. OldCore # {} /\ p = Eldest(OldCore)
        BY <1>3 DEF Victims
    <2>2. p \in OldCore
        BY <2>1, <1>1, EldestFound
    <2> QED
        BY <2>2 DEF OldCore, Swappable
<1> QED
    BY <1>2, <1>3

-----------------------------------------------------------------------------
(* The owners, one by one.                                                  *)

\* The swapping process, the slots and their blocks are all the owners.
LEMMA Owners ==
    /\ 0 \in CoreOwners /\ 0 \in SwapOwners /\ 0 \notin Slot
    /\ \A o \in CoreOwners : o = 0 \/ o \in Slot
    /\ \A o \in SwapOwners : o = 0 \/ o \in Slot \/ \E p \in Slot : o = -p
    /\ \A p \in Slot : /\ p \in CoreOwners /\ p \in SwapOwners /\ -p \in SwapOwners
                       /\ p # 0 /\ -p # 0 /\ -p < 0 /\ ~(p < 0) /\ -(-p) = p
    /\ \A p, q \in Slot : p # -q /\ (-p = -q => p = q)
<1>1. NPROC \in Nat
    BY SwapperAssumption
<1>2. ASSUME NEW o \in SwapOwners, o # 0, o \notin Slot PROVE \E p \in Slot : o = -p
    <2>1. -o \in Slot /\ o = -(-o)
        BY <1>1, <1>2 DEF SwapOwners, Slot
    <2> QED
        BY <2>1
<1> QED
    BY <1>1, <1>2 DEF CoreOwners, SwapOwners, Slot

\* Who has which units of core.
LEMMA CoreAt ==
    /\ CoreOf[0] = IF spc = "in" THEN RunOf(sa, PSIZE) ELSE {}
    /\ \A p \in Slot :
          CoreOf[p] = IF Resident(p) THEN RunOf(p_addr[p], PSIZE) ELSE {}
BY Owners DEF CoreOf

\* Who has which units of swap space.
LEMMA SwapAt ==
    /\ SwapOf[0] = IF spc = "out" THEN RunOf(sa, SSIZE) ELSE {}
    /\ \A p \in Slot :
          /\ SwapOf[p] = IF p_stat[p] = "SZOMB" THEN RunOf(p_addr[p], 1)
                         ELSE IF pc[p] = "newproc" THEN RunOf(arg[p], SSIZE)
                         ELSE IF Live(p) /\ ~Resident(p)
                         THEN RunOf(p_addr[p], SSIZE) ELSE {}
          /\ SwapOf[-p] = IF pc[p] = "exit" THEN RunOf(arg[p], 1) ELSE {}
<1>1. SwapOf[0] = IF spc = "out" THEN RunOf(sa, SSIZE) ELSE {}
    BY Owners DEF SwapOf
<1>2. ASSUME NEW p \in Slot
      PROVE  SwapOf[-p] = IF pc[p] = "exit" THEN RunOf(arg[p], 1) ELSE {}
    <2>1. -p \in SwapOwners /\ -p # 0 /\ -p < 0 /\ -(-p) = p
        BY Owners
    <2>2. SwapOf[-p] = IF pc[-(-p)] = "exit" THEN RunOf(arg[-(-p)], 1) ELSE {}
        BY <2>1 DEF SwapOf
    <2> QED
        BY <2>1, <2>2
<1>3. ASSUME NEW p \in Slot
      PROVE  SwapOf[p] = IF p_stat[p] = "SZOMB" THEN RunOf(p_addr[p], 1)
                         ELSE IF pc[p] = "newproc" THEN RunOf(arg[p], SSIZE)
                         ELSE IF Live(p) /\ ~Resident(p)
                         THEN RunOf(p_addr[p], SSIZE) ELSE {}
    BY Owners DEF SwapOf
<1> QED
    BY <1>1, <1>2, <1>3

\* The same after a step.
LEMMA CoreAtNext ==
    /\ CoreOf'[0] = IF spc' = "in" THEN RunOf(sa', PSIZE) ELSE {}
    /\ \A p \in Slot :
          CoreOf'[p] = IF Resident(p)' THEN RunOf(p_addr'[p], PSIZE) ELSE {}
BY Owners DEF CoreOf, RunOf

\* The same for swap space.
LEMMA SwapAtNext ==
    /\ SwapOf'[0] = IF spc' = "out" THEN RunOf(sa', SSIZE) ELSE {}
    /\ \A p \in Slot :
          /\ SwapOf'[p] = IF p_stat'[p] = "SZOMB" THEN RunOf(p_addr'[p], 1)
                          ELSE IF pc'[p] = "newproc" THEN RunOf(arg'[p], SSIZE)
                          ELSE IF Live(p)' /\ ~Resident(p)'
                          THEN RunOf(p_addr'[p], SSIZE) ELSE {}
          /\ SwapOf'[-p] = IF pc'[p] = "exit" THEN RunOf(arg'[p], 1) ELSE {}
<1>1. SwapOf'[0] = IF spc' = "out" THEN RunOf(sa', SSIZE) ELSE {}
    BY Owners DEF SwapOf, RunOf
<1>2. ASSUME NEW p \in Slot
      PROVE  SwapOf'[-p] = IF pc'[p] = "exit" THEN RunOf(arg'[p], 1) ELSE {}
    <2>1. -p \in SwapOwners /\ -p # 0 /\ -p < 0 /\ -(-p) = p
        BY Owners
    <2>2. SwapOf'[-p] = IF pc'[-(-p)] = "exit" THEN RunOf(arg'[-(-p)], 1) ELSE {}
        BY <2>1 DEF SwapOf, RunOf
    <2> QED
        BY <2>1, <2>2
<1>3. ASSUME NEW p \in Slot
      PROVE  SwapOf'[p] = IF p_stat'[p] = "SZOMB" THEN RunOf(p_addr'[p], 1)
                          ELSE IF pc'[p] = "newproc" THEN RunOf(arg'[p], SSIZE)
                          ELSE IF Live(p)' /\ ~Resident(p)'
                          THEN RunOf(p_addr'[p], SSIZE) ELSE {}
    BY Owners DEF SwapOf, RunOf
<1> QED
    BY <1>1, <1>2, <1>3

\* A step that moves no image.
CoreStays(p) ==
    /\ Resident(p)' <=> Resident(p)
    /\ Resident(p) => p_addr'[p] = p_addr[p]

SwapStays(p) ==
    /\ (p_stat'[p] = "SZOMB") <=> (p_stat[p] = "SZOMB")
    /\ (pc'[p] = "newproc") <=> (pc[p] = "newproc")
    /\ Live(p)' <=> Live(p)
    /\ Resident(p)' <=> Resident(p)
    /\ p_stat[p] = "SZOMB" => p_addr'[p] = p_addr[p]
    /\ pc[p] = "newproc" => arg'[p] = arg[p]
    /\ Live(p) /\ ~Resident(p) => p_addr'[p] = p_addr[p]

BlockStays(p) ==
    /\ (pc'[p] = "exit") <=> (pc[p] = "exit")
    /\ pc[p] = "exit" => arg'[p] = arg[p]

\* A step that moves nobody in or out leaves core shared as it was.
LEMMA CoreStill ==
    ASSUME CoreShared, UNCHANGED coremap, \A p \in Slot : CoreStays(p),
           (spc' = "in") <=> (spc = "in"), spc = "in" => sa' = sa
    PROVE  CoreShared'
<1>1. \A o \in CoreOwners : CoreOf'[o] = CoreOf[o]
    <2>1. CoreOf'[0] = CoreOf[0]
        BY CoreAt, CoreAtNext
    <2>2. \A p \in Slot : CoreOf'[p] = CoreOf[p]
        BY CoreAt, CoreAtNext DEF CoreStays
    <2> QED
        BY <2>1, <2>2, Owners
<1>2. Shared(CoreOf', CoreOwners, FreeUnits(coremap), Core)
    BY <1>1, Kept DEF CoreShared
<1> QED
    BY <1>2 DEF CoreShared

\* The same for swap space.
LEMMA SwapStill ==
    ASSUME SwapShared, UNCHANGED swapmap,
           \A p \in Slot : SwapStays(p) /\ BlockStays(p),
           (spc' = "out") <=> (spc = "out"), spc = "out" => sa' = sa
    PROVE  SwapShared'
<1>1. \A o \in SwapOwners : SwapOf'[o] = SwapOf[o]
    <2>1. SwapOf'[0] = SwapOf[0]
        BY SwapAt, SwapAtNext
    <2>2. \A p \in Slot : SwapOf'[p] = SwapOf[p]
        BY SwapAt, SwapAtNext DEF SwapStays
    <2>3. \A p \in Slot : SwapOf'[-p] = SwapOf[-p]
        BY SwapAt, SwapAtNext DEF BlockStays
    <2> QED
        BY <2>1, <2>2, <2>3, Owners
<1>2. Shared(SwapOf', SwapOwners, FreeUnits(swapmap), Swap)
    BY <1>1, Kept DEF SwapShared
<1> QED
    BY <1>2 DEF SwapShared

-----------------------------------------------------------------------------
(* After main.                                                              *)

\* mfree of an arena into an empty map, and malloc from it.
LEMMA FirstMap ==
    ASSUME NEW n \in Nat \ {0}, NEW size \in Nat, size <= n
    PROVE  /\ InForm(MfreeMap(<<>>, n, 1)) /\ FreeUnits(MfreeMap(<<>>, n, 1)) = 1..n
           /\ MallocAddr(MfreeMap(<<>>, n, 1), size) = 1
<1> DEFINE e == [m_size |-> n, m_addr |-> 1]
           m == MfreeMap(<<>>, n, 1)
<1>1. RunOf(1, n) \cap FreeUnits(<<>>) = {} /\ RunOf(1, n) = 1..n
    BY EmptyMap DEF RunOf
<1>2. InForm(m) /\ FreeUnits(m) = 1..n
    <2>1. /\ InForm(<<>>) /\ FreeUnits(<<>>) = {} /\ 1 \in Nat \ {0}
          /\ RunOf(1, n) \cap FreeUnits(<<>>) = {}
        BY <1>1, EmptyMap
    <2>2. InForm(m) /\ FreeUnits(m) = FreeUnits(<<>>) \cup RunOf(1, n)
        BY <2>1, MfreeRun
    <2> HIDE DEF m
    <2> QED
        BY <1>1, <2>1, <2>2
<1>3. m = [k \in 1..1 |-> e]
    <2>1. Len(<<>>) = 0
        OBVIOUS
    <2>2. ScanStop(<<>>, 1) = 1
        BY <2>1 DEF ScanStop
    <2>3. m = PutAt(<<>>, 1, e)
        BY <2>1, <2>2 DEF MfreeMap
    <2> QED
        BY <2>1, <2>3 DEF PutAt
<1>4. DOMAIN m = {1} /\ m[1] = e
    BY <1>3
<1> HIDE DEF m
<1>5. Fits(m, size) = {1}
    BY <1>4 DEF Fits
<1>6. FirstFit(m, size) = 1
    BY <1>5 DEF FirstFit
<1>7. m[1].m_addr = 1
    BY <1>4
<1>8. MallocAddr(m, size) = 1
    BY <1>5, <1>6, <1>7 DEF MallocAddr
<1> QED
    BY <1>2, <1>8, Zenon DEF m

\* main leaves init alone in core and the rest of both arenas free.
LEMMA InitInv == Init => Inv
<1> SUFFICES ASSUME Init PROVE Inv
    OBVIOUS
<1> DEFINE whole == MfreeMap(<<>>, CoreSize, 1)
<1>1. /\ CoreSize \in Nat \ {0} /\ PSIZE \in Nat \ {0} /\ PSIZE <= CoreSize
      /\ SwapSize \in Nat \ {0} /\ SSIZE \in Nat \ {0} /\ SSIZE <= SwapSize
      /\ Init1 \in Slot
    BY SwapperAssumption DEF Init1, Slot
<1>2. /\ InForm(whole) /\ FreeUnits(whole) = Core
      /\ MallocAddr(whole, PSIZE) = 1 /\ MallocAddr(whole, PSIZE) # NoAddr
    BY <1>1, FirstMap DEF Core, NoAddr
<1>3. InForm(swapmap) /\ FreeUnits(swapmap) = Swap
    BY <1>1, FirstMap DEF Swap, Init
<1>4. coremap = MallocMap(whole, PSIZE)
    BY DEF Init
<1> HIDE DEF whole
<1>5. /\ \A p \in Slot : p # Init1 => ~Live(p) /\ ~Resident(p) /\ p_stat[p] # "SZOMB"
      /\ \A p \in Slot : pc[p] = "user" /\ arg[p] = 0
      /\ Live(Init1) /\ Resident(Init1) /\ p_addr[Init1] = 1 /\ spc = "loop"
      /\ p_stat[Init1] = "SRUN"
    BY <1>1 DEF Init, Live, Resident
<1>6. CoreShared
    <2> DEFINE F == [o \in CoreOwners |-> {}]
    <2>1. Shared(F, CoreOwners, FreeUnits(whole), Core)
        BY <1>2 DEF Shared
    <2>2. Init1 \in CoreOwners /\ F[Init1] = {}
        BY <1>1, Owners
    <2>3. CoreOf[Init1] = RunOf(MallocAddr(whole, PSIZE), PSIZE)
        BY <1>1, <1>2, <1>5, CoreAt
    <2>4. \A o \in CoreOwners : o # Init1 => CoreOf[o] = F[o]
        BY <1>5, CoreAt, Owners
    <2> HIDE DEF F
    <2> QED
        BY <1>1, <1>2, <1>4, <2>1, <2>2, <2>3, <2>4, Taken DEF CoreShared
<1>7. SwapShared
    <2>1. \A o \in SwapOwners : SwapOf[o] = {}
        <3>1. SwapOf[0] = {}
            BY <1>5, SwapAt
        <3>2. \A p \in Slot : SwapOf[p] = {} /\ SwapOf[-p] = {}
            BY <1>5, SwapAt
        <3> QED
            BY <3>1, <3>2, Owners
    <2> QED
        BY <1>3, <2>1 DEF SwapShared, Shared
<1>8. coremap \in Seq(Entry) /\ swapmap \in Seq(Entry)
    BY <1>6, <1>7 DEF CoreShared, SwapShared, InForm
<1>9. TypeOK
    BY <1>1, <1>8, SwapperAssumption DEF Init, TypeOK, Stat, PC, SPC
<1>10. Shapes
    BY <1>1, <1>5 DEF Init, Shapes, Shape, Copying, Reaping, Moving, InitLives, Live
<1>11. ReadyIsNoticed
    BY DEF Init, ReadyIsNoticed
<1> QED
    BY <1>6, <1>7, <1>9, <1>10, <1>11 DEF Inv

-----------------------------------------------------------------------------
(* Steps that move no image.                                                *)

\* The swapping process stays where it is, or is prodded.
SpcStays == spc' = spc \/ (spc \in {"runin", "runout"} /\ spc' = "loop")

\* A process that runs goes to sleep.
LEMMA BlockShapes ==
    ASSUME TypeOK, Shapes, NEW p \in Slot, CanRun(p), pc[p] \in {"user", "wait"},
           NEW stat \in {"SWAIT", "SSLEEP"}, NEW l \in {"asleep", "wait", "reap", "exit"},
           Block(p, stat, l), l = "exit" => p # Init1, l = "reap" => Reaping(p)',
           UNCHANGED <<p_flag, p_addr, p_ppid, schedVars>>,
           \A q \in Slot : q # p => arg'[q] = arg[q], SpcStays
    PROVE  /\ Shapes' /\ \A q \in Slot : CoreStays(q) /\ SwapStays(q)
           /\ \A q \in Slot : (q = p /\ l = "exit") \/ BlockStays(q)
           /\ p_stat' \in [Slot -> Stat] /\ pc' \in [Slot -> PC]
           /\ WantsIn' \subseteq WantsIn
<1>1. /\ p_stat' = [p_stat EXCEPT ![p] = stat] /\ pc' = [pc EXCEPT ![p] = l]
      /\ p_flag' = p_flag /\ p_addr' = p_addr /\ p_ppid' = p_ppid
      /\ sproc' = sproc /\ sa' = sa
      /\ p_stat[p] = "SRUN" /\ "SLOAD" \in p_flag[p]
      /\ p_stat \in [Slot -> Stat] /\ pc \in [Slot -> PC] /\ Init1 \in Slot
    BY SwapperAssumption DEF Block, CanRun, TypeOK, schedVars, Init1, Slot
<1>2. p_stat' \in [Slot -> Stat] /\ pc' \in [Slot -> PC]
    BY <1>1 DEF Stat, PC
<1>3. /\ p_stat'[p] = stat /\ pc'[p] = l
      /\ \A q \in Slot : q # p => p_stat'[q] = p_stat[q] /\ pc'[q] = pc[q]
    BY <1>1
<1>4. \A q \in Slot : Live(q)' <=> Live(q)
    BY <1>1, <1>3 DEF Live
<1>5. \A q \in Slot : Resident(q)' <=> Resident(q)
    BY <1>1, <1>3, <1>4 DEF Resident, SpcStays
<1>6. \A q \in Slot : CoreStays(q) /\ SwapStays(q)
    BY <1>1, <1>3, <1>4, <1>5 DEF CoreStays, SwapStays
<1>7. \A q \in Slot : (q = p /\ l = "exit") \/ BlockStays(q)
    BY <1>3 DEF BlockStays
<1>8. \A q \in Slot : Shape(q)'
    BY <1>1, <1>3 DEF Shapes, Shape
<1>9. ASSUME NEW q \in Slot PROVE Copying(q)'
    <2>1. pc'[q] = "newproc" => pc[q] = "newproc" /\ q # p
        BY <1>3
    <2>2. pc[q] = "newproc" => p_ppid[q] # p
        BY <1>1 DEF Shapes, Copying
    <2> QED
        BY <1>1, <1>3, <2>1, <2>2 DEF Shapes, Copying
<1>10. ASSUME NEW q \in Slot PROVE Reaping(q)'
    <2>1. CASE q = p
        BY <2>1, <1>3 DEF Reaping
    <2>2. CASE q # p
        BY <2>2, <1>1, <1>3 DEF Shapes, Reaping
    <2> QED
        BY <2>1, <2>2
<1>11. Moving'
    <2>1. spc \in {"in", "out"} => sproc # p
        BY <1>1 DEF Shapes, Moving
    <2> QED
        BY <1>1, <1>3, <1>4, <2>1 DEF Shapes, Moving, SpcStays
<1>12. InitLives'
    BY <1>1, <1>4 DEF Shapes, InitLives
<1>13. WantsIn' \subseteq WantsIn
    BY <1>1, <1>3 DEF WantsIn
<1> QED
    BY <1>2, <1>6, <1>7, <1>8, <1>9, <1>10, <1>11, <1>12, <1>13 DEF Shapes

\* wait finds a zombie; wait, and any other sleep.
LEMMA SleepInv ==
    ASSUME Inv, NEW p \in Slot,
           WaitReap(p) \/ WaitSleep(p) \/ SleepLow(p) \/ SleepDisk(p)
    PROVE  Inv'
<1>1. PICK stat \in {"SWAIT", "SSLEEP"}, l \in {"asleep", "wait", "reap"} :
         /\ Block(p, stat, l)
         /\ l = "reap" => WaitReap(p)
         /\ l # "reap" => arg' = arg
    BY DEF WaitReap, WaitSleep, SleepLow, SleepDisk
<1>2. /\ CanRun(p) /\ pc[p] \in {"user", "wait"}
      /\ UNCHANGED <<p_flag, p_addr, p_time, p_ppid, coremap, swapmap, schedVars>>
    BY DEF WaitReap, WaitSleep, SleepLow, SleepDisk, InWait, InUser
<1>3. SpcStays
    BY DEF WaitReap, WaitSleep, SleepLow, SleepDisk, ProdSched, SpcStays
<1>4. CASE WaitReap(p)
    <2>1. Zombies(p) \in SUBSET Slot /\ Zombies(p) # {}
        BY <1>4 DEF WaitReap, Zombies, Children
    <2>2. FirstOf(Zombies(p)) \in Zombies(p)
        BY <2>1, FirstFound
    <2>3. PICK c \in Slot : c \in Zombies(p) /\ arg' = [arg EXCEPT ![p] = c]
        BY <1>4, <2>1, <2>2 DEF WaitReap
    <2>4. p_stat[c] = "SZOMB" /\ p_ppid[c] = p /\ c # p /\ c \in Nat
        BY <1>2, <2>3 DEF Zombies, Children, CanRun, Slot
    <2>5. arg' \in [Slot -> Nat] /\ arg'[p] = c /\ \A q \in Slot : q # p => arg'[q] = arg[q]
        BY <2>3, <2>4 DEF Inv, TypeOK
    <2>6. Block(p, "SSLEEP", "reap") /\ spc' = spc
        BY <1>4 DEF WaitReap
    <2>7. p_stat'[p] = "SSLEEP" /\ p_stat'[c] = p_stat[c] /\ p_ppid' = p_ppid
        BY <1>2, <2>4, <2>6 DEF Block, Inv, TypeOK
    <2>8. Reaping(p)'
        BY <2>4, <2>5, <2>7 DEF Reaping
    <2>9. /\ Shapes' /\ \A q \in Slot : CoreStays(q) /\ SwapStays(q) /\ BlockStays(q)
          /\ p_stat' \in [Slot -> Stat] /\ pc' \in [Slot -> PC]
          /\ WantsIn' \subseteq WantsIn
        BY <1>2, <1>3, <2>5, <2>6, <2>8, BlockShapes DEF Inv
    <2>10. TypeOK'
        BY <1>2, <2>5, <2>6, <2>9 DEF Inv, TypeOK, schedVars
    <2>11. CoreShared' /\ SwapShared'
        BY <1>2, <2>6, <2>9, CoreStill, SwapStill DEF Inv, schedVars
    <2> QED
        BY <2>6, <2>9, <2>10, <2>11 DEF Inv, ReadyIsNoticed
<1>5. CASE ~WaitReap(p)
    <2>1. /\ Shapes' /\ \A q \in Slot : CoreStays(q) /\ SwapStays(q) /\ BlockStays(q)
          /\ p_stat' \in [Slot -> Stat] /\ pc' \in [Slot -> PC]
          /\ WantsIn' \subseteq WantsIn
        BY <1>1, <1>2, <1>3, <1>5, BlockShapes DEF Inv
    <2>2. arg' = arg
        BY <1>1, <1>5
    <2>3. TypeOK'
        BY <1>2, <1>3, <2>1, <2>2 DEF Inv, TypeOK, schedVars, SpcStays, SPC
    <2>4. CoreShared' /\ SwapShared'
        BY <1>2, <1>3, <2>1, CoreStill, SwapStill DEF Inv, schedVars, SpcStays
    <2> QED
        BY <1>3, <2>1, <2>3, <2>4 DEF Inv, ReadyIsNoticed, SpcStays
<1> QED
    BY <1>4, <1>5

\* A process that sleeps is woken.
LEMMA WakeInv ==
    ASSUME Inv, NEW p \in Slot, Wake(p)
    PROVE  Inv'
<1>1. /\ p_stat[p] \in {"SWAIT", "SSLEEP"} /\ pc[p] \in {"asleep", "exit", "reap"}
      /\ p_stat' = [q \in Slot |-> IF q = p THEN "SRUN" ELSE p_stat[q]]
      /\ UNCHANGED <<p_flag, p_addr, p_time, p_ppid, pc, arg, coremap, swapmap,
                     sproc, sa>>
      /\ spc' = IF spc = "runout" /\ "SLOAD" \notin p_flag[p] THEN "loop" ELSE spc
    BY DEF Wake, Setrun, schedVars
<1>2. p_stat'[p] = "SRUN" /\ \A q \in Slot : q # p => p_stat'[q] = p_stat[q]
    BY <1>1
<1>3. /\ \A q \in Slot : Live(q)' <=> Live(q)
      /\ \A q \in Slot : Resident(q)' <=> Resident(q)
    <2>1. \A q \in Slot : Live(q)' <=> Live(q)
        BY <1>1, <1>2 DEF Live
    <2> QED
        BY <1>1, <2>1 DEF Resident
<1>4. \A q \in Slot : CoreStays(q) /\ SwapStays(q) /\ BlockStays(q)
    BY <1>1, <1>2, <1>3 DEF CoreStays, SwapStays, BlockStays
<1>5. CoreShared' /\ SwapShared'
    BY <1>1, <1>4, CoreStill, SwapStill DEF Inv
<1>6. TypeOK'
    BY <1>1 DEF Inv, TypeOK, Stat, SPC
<1>7. Shapes'
    <2>1. \A q \in Slot : Shape(q)' /\ Reaping(q)'
        BY <1>1, <1>2 DEF Inv, Shapes, Shape, Reaping
    <2>2. \A q \in Slot : Copying(q)'
        BY <1>1, <1>2 DEF Inv, Shapes, Copying
    <2>3. Moving' /\ InitLives'
        BY <1>1, <1>2, <1>3, SwapperAssumption
           DEF Inv, Shapes, Moving, InitLives, Init1, Slot
    <2> QED
        BY <2>1, <2>2, <2>3 DEF Shapes
<1>8. ReadyIsNoticed'
    BY <1>1, <1>2 DEF Inv, ReadyIsNoticed, WantsIn
<1> QED
    BY <1>5, <1>6, <1>7, <1>8 DEF Inv

\* It goes on.
LEMMA ContinueInv ==
    ASSUME Inv, NEW p \in Slot, Continue(p)
    PROVE  Inv'
<1>1. /\ p_stat[p] = "SRUN" /\ "SLOAD" \in p_flag[p] /\ pc[p] = "asleep"
      /\ pc' = [pc EXCEPT ![p] = "user"]
      /\ p_flag' = [p_flag EXCEPT ![p] = p_flag[p] \ {"SSWAP"}]
      /\ UNCHANGED <<p_stat, p_addr, p_time, p_ppid, arg, coremap, swapmap, spc,
                     sproc, sa>>
    BY DEF Continue, CanRun, schedVars
<1>2. /\ pc'[p] = "user" /\ \A q \in Slot : q # p => pc'[q] = pc[q]
      /\ \A q \in Slot : p_flag'[q] \in SUBSET p_flag[q]
      /\ \A q \in Slot : /\ "SLOAD" \in p_flag'[q] <=> "SLOAD" \in p_flag[q]
                         /\ "SLOCK" \in p_flag'[q] <=> "SLOCK" \in p_flag[q]
    BY <1>1 DEF Inv, TypeOK
<1>3. \A q \in Slot : (Live(q)' <=> Live(q)) /\ (Resident(q)' <=> Resident(q))
    BY <1>1, <1>2 DEF Live, Resident
<1>4. \A q \in Slot : CoreStays(q) /\ SwapStays(q) /\ BlockStays(q)
    BY <1>1, <1>2, <1>3 DEF CoreStays, SwapStays, BlockStays
<1>5. CoreShared' /\ SwapShared'
    BY <1>1, <1>4, CoreStill, SwapStill DEF Inv
<1>6. TypeOK'
    BY <1>1 DEF Inv, TypeOK, PC
<1>7. Shapes'
    <2>1. \A q \in Slot : Shape(q)' /\ Reaping(q)'
        BY <1>1, <1>2 DEF Inv, Shapes, Shape, Reaping
    <2>2. \A q \in Slot : Copying(q)'
        BY <1>1, <1>2 DEF Inv, Shapes, Copying
    <2>3. Moving' /\ InitLives'
        BY <1>1, <1>2, <1>3, SwapperAssumption
           DEF Inv, Shapes, Moving, InitLives, Init1, Slot
    <2> QED
        BY <2>1, <2>2, <2>3 DEF Shapes
<1>8. ReadyIsNoticed'
    BY <1>1, <1>2 DEF Inv, ReadyIsNoticed, WantsIn
<1> QED
    BY <1>5, <1>6, <1>7, <1>8 DEF Inv

\* The clock ticks, and the swapping process goes to sleep.
LEMMA IdleInv ==
    ASSUME Inv, Tick \/ SchedNone \/ SchedPass
    PROVE  Inv'
<1>1. /\ UNCHANGED <<p_stat, p_flag, p_addr, p_ppid, pc, arg, coremap, swapmap,
                     sproc, sa>>
      /\ spc' = spc \/ {spc, spc'} \subseteq {"loop", "runin", "runout"}
      /\ spc' = "runout" => spc = "runout" \/ WantsIn = {}
    BY DEF Tick, SchedNone, SchedPass, ProdSched, schedVars
<1>2. p_time' \in [Slot -> 0..TimeMax]
    <2>1. CASE Tick
        <3>1. \A p \in Slot : p_time[p] \in 0..TimeMax
            BY DEF Inv, TypeOK
        <3>2. \A p \in Slot : p_time[p] # TimeMax => p_time[p] + 1 \in 0..TimeMax
            BY <3>1, SwapperAssumption
        <3> QED
            BY <2>1, <3>1, <3>2 DEF Tick
    <2>2. CASE SchedNone \/ SchedPass
        BY <2>2 DEF SchedNone, SchedPass, Inv, TypeOK
    <2> QED
        BY <2>1, <2>2
<1>3. \A q \in Slot : (Live(q)' <=> Live(q)) /\ (Resident(q)' <=> Resident(q))
    BY <1>1 DEF Live, Resident
<1>4. \A q \in Slot : CoreStays(q) /\ SwapStays(q) /\ BlockStays(q)
    BY <1>1, <1>3 DEF CoreStays, SwapStays, BlockStays
<1>5. CoreShared' /\ SwapShared'
    BY <1>1, <1>4, CoreStill, SwapStill DEF Inv
<1>6. TypeOK'
    BY <1>1, <1>2 DEF Inv, TypeOK, SPC
<1>7. Shapes'
    BY <1>1 DEF Inv, Shapes, Shape, Reaping, Copying, Moving, InitLives, Live
<1>8. ReadyIsNoticed'
    BY <1>1 DEF Inv, ReadyIsNoticed, WantsIn
<1> QED
    BY <1>5, <1>6, <1>7, <1>8 DEF Inv

-----------------------------------------------------------------------------
(* exit and wait.                                                           *)

\* exit takes a block for its u area.
LEMMA ExitBeginInv ==
    ASSUME Inv, NEW p \in Slot, ExitBegin(p)
    PROVE  Inv'
<1>1. /\ CanRun(p) /\ pc[p] = "user" /\ p # Init1
      /\ MallocAddr(swapmap, 1) # NoAddr
      /\ arg' = [arg EXCEPT ![p] = MallocAddr(swapmap, 1)]
      /\ swapmap' = MallocMap(swapmap, 1)
      /\ Block(p, "SSLEEP", "exit")
      /\ UNCHANGED <<p_flag, p_addr, p_time, p_ppid, coremap, spc, sproc, sa>>
    BY DEF ExitBegin, InUser, schedVars
<1>2. MallocAddr(swapmap, 1) \in Nat
    BY MallocNone DEF Inv, SwapShared
<1>3. /\ arg' \in [Slot -> Nat] /\ arg'[p] = MallocAddr(swapmap, 1)
      /\ \A q \in Slot : q # p => arg'[q] = arg[q]
    BY <1>1, <1>2 DEF Inv, TypeOK
<1>4. /\ Shapes' /\ \A q \in Slot : CoreStays(q) /\ SwapStays(q)
      /\ \A q \in Slot : q = p \/ BlockStays(q)
      /\ p_stat' \in [Slot -> Stat] /\ pc' \in [Slot -> PC]
      /\ WantsIn' \subseteq WantsIn
    BY <1>1, <1>3, BlockShapes DEF Inv, SpcStays, schedVars
<1>5. pc'[p] = "exit"
    BY <1>1 DEF Block, Inv, TypeOK
<1>6. SwapShared'
    <2>1. -p \in SwapOwners /\ SwapOf[-p] = {}
        BY <1>1, SwapAt, Owners
    <2>2. SwapOf'[-p] = RunOf(MallocAddr(swapmap, 1), 1)
        BY <1>3, <1>5, SwapAtNext
    <2>3. \A o \in SwapOwners : o # -p => SwapOf'[o] = SwapOf[o]
        <3>1. SwapOf'[0] = SwapOf[0]
            BY <1>1, SwapAt, SwapAtNext
        <3>2. \A q \in Slot : SwapOf'[q] = SwapOf[q]
            BY <1>4, SwapAt, SwapAtNext DEF SwapStays
        <3>3. \A q \in Slot : q # p => SwapOf'[-q] = SwapOf[-q]
            BY <1>4, SwapAt, SwapAtNext DEF BlockStays
        <3> QED
            BY <3>1, <3>2, <3>3, Owners
    <2>4. InForm(swapmap) /\ Shared(SwapOf, SwapOwners, FreeUnits(swapmap), Swap)
        BY DEF Inv, SwapShared
    <2>5. /\ InForm(MallocMap(swapmap, 1))
          /\ Shared(SwapOf', SwapOwners, FreeUnits(MallocMap(swapmap, 1)), Swap)
        BY <1>1, <2>1, <2>2, <2>3, <2>4, Taken
    <2> QED
        BY <1>1, <2>5 DEF SwapShared
<1>7. CoreShared'
    BY <1>1, <1>4, CoreStill DEF Inv
<1>8. TypeOK'
    BY <1>1, <1>3, <1>4, <1>6 DEF Inv, TypeOK, SwapShared, InForm
<1> QED
    BY <1>1, <1>4, <1>6, <1>7, <1>8 DEF Inv, ReadyIsNoticed

\* exit gives its core back and leaves the block to whoever waits for it.
LEMMA ExitEndInv ==
    ASSUME Inv, NEW p \in Slot, ExitEnd(p)
    PROVE  Inv'
<1> DEFINE W == Waiting({p_ppid[p], Init1})
<1>1. /\ p_stat[p] = "SRUN" /\ "SLOAD" \in p_flag[p] /\ pc[p] = "exit"
      /\ coremap' = MfreeMap(coremap, PSIZE, p_addr[p])
      /\ p_addr' = [p_addr EXCEPT ![p] = arg[p]]
      /\ arg' = [arg EXCEPT ![p] = 0]
      /\ pc' = [pc EXCEPT ![p] = "user"]
      /\ p_stat' = [q \in Slot |-> IF q = p THEN "SZOMB" ELSE IF q \in W THEN "SRUN"
                                   ELSE p_stat[q]]
      /\ spc' = IF spc = "runout" /\ \E q \in W : "SLOAD" \notin p_flag[q]
                THEN "loop" ELSE spc
      /\ p_ppid' = [q \in Slot |-> IF p_ppid[q] = p THEN Init1 ELSE p_ppid[q]]
      /\ UNCHANGED <<p_flag, p_time, swapmap, sproc, sa>>
    BY DEF ExitEnd, CanRun, schedVars
<1>2. /\ \A q \in W : pc[q] = "wait" /\ p_stat[q] = "SWAIT"
      /\ Init1 \in Slot /\ 0 \notin Slot /\ p # Init1
    BY <1>1, SwapperAssumption DEF Waiting, Init1, Slot, Inv, Shapes, Shape
<1> HIDE DEF W
<1>3. /\ p_stat'[p] = "SZOMB" /\ pc'[p] = "user" /\ p_addr'[p] = arg[p]
      /\ \A q \in Slot : q # p =>
            /\ p_stat'[q] = IF q \in W THEN "SRUN" ELSE p_stat[q]
            /\ pc'[q] = pc[q] /\ arg'[q] = arg[q] /\ p_addr'[q] = p_addr[q]
      /\ \A q \in Slot : p_ppid'[q] = IF p_ppid[q] = p THEN Init1 ELSE p_ppid[q]
    BY <1>1 DEF Inv, TypeOK
<1>4. /\ Live(p) /\ Resident(p) /\ ~Live(p)' /\ ~Resident(p)'
      /\ \A q \in Slot : q # p => (Live(q)' <=> Live(q)) /\ (Resident(q)' <=> Resident(q))
    <2>1. \A q \in Slot : q # p => (Live(q)' <=> Live(q))
        BY <1>2, <1>3 DEF Live
    <2> QED
        BY <1>1, <1>3, <2>1 DEF Live, Resident
<1>5. \A q \in Slot : q # p => CoreStays(q) /\ SwapStays(q) /\ BlockStays(q)
    <2>1. \A q \in Slot : q # p => ((p_stat'[q] = "SZOMB") <=> (p_stat[q] = "SZOMB"))
        BY <1>2, <1>3
    <2> QED
        BY <1>3, <1>4, <2>1 DEF CoreStays, SwapStays, BlockStays
<1>6. (spc' = "in" <=> spc = "in") /\ (spc' = "out" <=> spc = "out") /\ spc' \in SPC
    BY <1>1 DEF Inv, TypeOK, SPC
<1>7. CoreShared'
    <2>1. p \in CoreOwners /\ CoreOf[p] = RunOf(p_addr[p], PSIZE) /\ CoreOf'[p] = {}
        BY <1>4, CoreAt, CoreAtNext, Owners
    <2>2. \A o \in CoreOwners : o # p => CoreOf'[o] = CoreOf[o]
        <3>1. CoreOf'[0] = CoreOf[0]
            BY <1>1, <1>6, CoreAt, CoreAtNext
        <3>2. \A q \in Slot : q # p => CoreOf'[q] = CoreOf[q]
            BY <1>5, CoreAt, CoreAtNext DEF CoreStays
        <3> QED
            BY <3>1, <3>2, Owners
    <2>3. /\ InForm(coremap) /\ Shared(CoreOf, CoreOwners, FreeUnits(coremap), Core)
          /\ p_addr[p] \in Nat /\ Core \subseteq Nat \ {0} /\ PSIZE \in Nat \ {0}
        BY SwapperAssumption DEF Inv, CoreShared, TypeOK, Core
    <2>4. /\ InForm(MfreeMap(coremap, PSIZE, p_addr[p]))
          /\ Shared(CoreOf', CoreOwners,
                    FreeUnits(MfreeMap(coremap, PSIZE, p_addr[p])), Core)
        BY <2>1, <2>2, <2>3, Given
    <2> QED
        BY <1>1, <2>4 DEF CoreShared
<1>8. SwapShared'
    <2>1. /\ p \in SwapOwners /\ -p \in SwapOwners /\ p # -p
          /\ SwapOf[p] = {} /\ SwapOf[-p] = RunOf(arg[p], 1)
        BY <1>1, <1>4, SwapAt, Owners
    <2>2. SwapOf'[p] = RunOf(arg[p], 1) /\ SwapOf'[-p] = {}
        BY <1>3, SwapAtNext
    <2>3. \A o \in SwapOwners : o # p /\ o # -p => SwapOf'[o] = SwapOf[o]
        <3>1. SwapOf'[0] = SwapOf[0]
            BY <1>1, <1>6, SwapAt, SwapAtNext
        <3>2. \A q \in Slot : q # p => SwapOf'[q] = SwapOf[q]
            BY <1>5, SwapAt, SwapAtNext DEF SwapStays
        <3>3. \A q \in Slot : q # p => SwapOf'[-q] = SwapOf[-q]
            BY <1>5, SwapAt, SwapAtNext DEF BlockStays
        <3> QED
            BY <3>1, <3>2, <3>3, Owners
    <2>4. Shared(SwapOf', SwapOwners, FreeUnits(swapmap), Swap)
        BY <2>1, <2>2, <2>3, Moved DEF Inv, SwapShared
    <2> QED
        BY <1>1, <2>4 DEF Inv, SwapShared
<1>9. TypeOK'
    <2>1. p_stat' \in [Slot -> Stat] /\ pc' \in [Slot -> PC]
        BY <1>1 DEF Inv, TypeOK, Stat, PC
    <2>2. /\ p_addr' \in [Slot -> Nat] /\ arg' \in [Slot -> Nat]
          /\ p_ppid' \in [Slot -> Slot \cup {0}]
        BY <1>1, <1>2 DEF Inv, TypeOK
    <2> QED
        BY <1>1, <1>6, <1>7, <2>1, <2>2 DEF Inv, TypeOK, CoreShared, InForm
<1>10. Shapes'
    <2>1. \A q \in Slot : Shape(q)'
        BY <1>1, <1>2, <1>3 DEF Inv, Shapes, Shape
    <2>2. ASSUME NEW q \in Slot PROVE Copying(q)'
        <3>1. ASSUME NEW c \in Slot, pc'[c] = "newproc"
              PROVE  /\ pc[c] = "newproc" /\ c # p /\ p_ppid[c] # p /\ p_ppid[c] \in Slot
                     /\ p_ppid'[c] = p_ppid[c] /\ p_ppid[c] \notin W /\ c \notin W
            BY <1>1, <1>2, <1>3, <3>1 DEF Inv, Shapes, Copying
        <3> QED
            BY <1>1, <1>3, <3>1 DEF Inv, Shapes, Copying
    <2>3. ASSUME NEW q \in Slot PROVE Reaping(q)'
        <3>1. ASSUME pc'[q] = "reap"
              PROVE  /\ pc[q] = "reap" /\ q # p /\ arg[q] \in Slot /\ arg[q] # p
                     /\ p_ppid[arg[q]] = q /\ arg[q] \notin W /\ q \notin W
                     /\ p_stat[arg[q]] = "SZOMB" /\ p_stat[q] \in {"SSLEEP", "SRUN"}
            BY <1>1, <1>2, <1>3, <3>1 DEF Inv, Shapes, Reaping
        <3> QED
            BY <1>3, <3>1 DEF Reaping
    <2>4. Moving'
        <3>1. spc \in {"in", "out"} => sproc # p /\ sproc \in Slot
            BY <1>1 DEF Inv, Shapes, Moving
        <3> QED
            BY <1>1, <1>2, <1>3, <1>4, <1>6, <3>1 DEF Inv, Shapes, Moving
    <2>5. InitLives'
        BY <1>2, <1>3, <1>4 DEF Inv, Shapes, InitLives
    <2> QED
        BY <2>1, <2>2, <2>3, <2>4, <2>5 DEF Shapes
<1>11. ReadyIsNoticed'
    BY <1>1, <1>2, <1>3 DEF Inv, ReadyIsNoticed, WantsIn
<1> QED
    BY <1>7, <1>8, <1>9, <1>10, <1>11 DEF Inv

\* wait gives the block and the slot of the zombie back.
LEMMA ReapEndInv ==
    ASSUME Inv, NEW p \in Slot, ReapEnd(p)
    PROVE  Inv'
<1>1. PICK c \in Slot : c = arg[p]
    BY DEF ReapEnd, Inv, Shapes, Reaping
<1>2. /\ p_stat[p] = "SRUN" /\ "SLOAD" \in p_flag[p] /\ pc[p] = "reap"
      /\ p_stat[c] = "SZOMB" /\ p_ppid[c] = p /\ c # p
    BY <1>1 DEF ReapEnd, CanRun, Inv, Shapes, Reaping
<1>3. /\ swapmap' = MfreeMap(swapmap, 1, p_addr[c])
      /\ p_stat' = [p_stat EXCEPT ![c] = "NULL"]
      /\ p_flag' = [p_flag EXCEPT ![c] = {}]
      /\ p_ppid' = [p_ppid EXCEPT ![c] = 0]
      /\ pc' = [pc EXCEPT ![p] = "user"]
      /\ arg' = [arg EXCEPT ![p] = 0]
      /\ p_addr' = [p_addr EXCEPT ![c] = 0]
      /\ p_time' = [p_time EXCEPT ![c] = 0]
      /\ UNCHANGED <<coremap, spc, sproc, sa>>
    BY <1>1 DEF ReapEnd, schedVars
<1>4. /\ p_stat'[c] = "NULL" /\ pc'[p] = "user" /\ pc[c] = "user" /\ pc'[c] = "user"
      /\ \A q \in Slot : q # c =>
            /\ p_stat'[q] = p_stat[q] /\ p_flag'[q] = p_flag[q]
            /\ p_ppid'[q] = p_ppid[q] /\ p_addr'[q] = p_addr[q]
      /\ \A q \in Slot : q # p => pc'[q] = pc[q] /\ arg'[q] = arg[q]
      /\ p_ppid'[c] = 0
    BY <1>2, <1>3 DEF Inv, TypeOK, Shapes, Shape
<1>5. /\ ~Live(c) /\ ~Resident(c) /\ ~Live(c)' /\ ~Resident(c)'
      /\ \A q \in Slot : q # c => (Live(q)' <=> Live(q)) /\ (Resident(q)' <=> Resident(q))
    BY <1>2, <1>3, <1>4 DEF Live, Resident
<1>6. /\ \A q \in Slot : CoreStays(q) /\ BlockStays(q)
      /\ \A q \in Slot : q # c => SwapStays(q)
    BY <1>2, <1>4, <1>5 DEF CoreStays, SwapStays, BlockStays
<1>7. CoreShared'
    BY <1>3, <1>6, CoreStill DEF Inv
<1>8. SwapShared'
    <2>1. c \in SwapOwners /\ SwapOf[c] = RunOf(p_addr[c], 1) /\ SwapOf'[c] = {}
        BY <1>2, <1>4, <1>5, SwapAt, SwapAtNext, Owners
    <2>2. \A o \in SwapOwners : o # c => SwapOf'[o] = SwapOf[o]
        <3>1. SwapOf'[0] = SwapOf[0]
            BY <1>3, SwapAt, SwapAtNext
        <3>2. \A q \in Slot : q # c => SwapOf'[q] = SwapOf[q]
            BY <1>6, SwapAt, SwapAtNext DEF SwapStays
        <3>3. \A q \in Slot : SwapOf'[-q] = SwapOf[-q]
            BY <1>6, SwapAt, SwapAtNext DEF BlockStays
        <3> QED
            BY <3>1, <3>2, <3>3, Owners
    <2>3. /\ InForm(swapmap) /\ Shared(SwapOf, SwapOwners, FreeUnits(swapmap), Swap)
          /\ p_addr[c] \in Nat /\ Swap \subseteq Nat \ {0} /\ 1 \in Nat \ {0}
        BY SwapperAssumption DEF Inv, SwapShared, TypeOK, Swap
    <2>4. /\ InForm(MfreeMap(swapmap, 1, p_addr[c]))
          /\ Shared(SwapOf', SwapOwners, FreeUnits(MfreeMap(swapmap, 1, p_addr[c])), Swap)
        BY <2>1, <2>2, <2>3, Given
    <2> QED
        BY <1>3, <2>4 DEF SwapShared
<1>9. TypeOK'
    <2>1. p_stat' \in [Slot -> Stat] /\ pc' \in [Slot -> PC]
        BY <1>3 DEF Inv, TypeOK, Stat, PC
    <2>2. /\ p_addr' \in [Slot -> Nat] /\ arg' \in [Slot -> Nat]
          /\ p_ppid' \in [Slot -> Slot \cup {0}]
        BY <1>3 DEF Inv, TypeOK
    <2>3. /\ p_flag' \in [Slot -> SUBSET {"SLOAD", "SLOCK", "SSWAP"}]
          /\ p_time' \in [Slot -> 0..TimeMax]
        BY <1>3, SwapperAssumption DEF Inv, TypeOK
    <2> QED
        BY <1>3, <1>8, <2>1, <2>2, <2>3 DEF Inv, TypeOK, SwapShared, InForm
<1>10. Shapes'
    <2>1. \A q \in Slot : Shape(q)'
        BY <1>2, <1>3, <1>4 DEF Inv, Shapes, Shape
    <2>2. ASSUME NEW q \in Slot PROVE Copying(q)'
        <3>1. ASSUME NEW d \in Slot, pc'[d] = "newproc"
              PROVE  /\ pc[d] = "newproc" /\ d # p /\ d # c /\ p_ppid[d] \in Slot
                     /\ p_ppid[d] # c
            BY <1>2, <1>4, <3>1 DEF Inv, Shapes, Copying
        <3> QED
            BY <1>3, <1>4, <3>1 DEF Inv, Shapes, Copying
    <2>3. ASSUME NEW q \in Slot PROVE Reaping(q)'
        <3>1. ASSUME pc'[q] = "reap"
              PROVE  /\ pc[q] = "reap" /\ q # p /\ q # c /\ arg[q] \in Slot /\ arg[q] # c
                     /\ p_ppid[arg[q]] = q
                     /\ p_stat[arg[q]] = "SZOMB" /\ p_stat[q] \in {"SSLEEP", "SRUN"}
            BY <1>2, <1>4, <3>1 DEF Inv, Shapes, Reaping
        <3> QED
            BY <1>4, <3>1 DEF Reaping
    <2>4. Moving'
        <3>1. spc \in {"in", "out"} => sproc # c /\ sproc \in Slot
            BY <1>2, <1>5 DEF Inv, Shapes, Moving
        <3> QED
            BY <1>3, <1>4, <1>5, <3>1 DEF Inv, Shapes, Moving
    <2>5. InitLives'
        <3>1. Init1 \in Slot /\ Live(Init1) /\ p_ppid[Init1] = 0
            BY SwapperAssumption DEF Inv, Shapes, InitLives, Init1, Slot
        <3> QED
            BY <1>4, <1>5, <3>1 DEF InitLives
    <2> QED
        BY <2>1, <2>2, <2>3, <2>4, <2>5 DEF Shapes
<1>11. ReadyIsNoticed'
    BY <1>3, <1>4 DEF Inv, ReadyIsNoticed, WantsIn
<1> QED
    BY <1>7, <1>8, <1>9, <1>10, <1>11 DEF Inv

-----------------------------------------------------------------------------
(* fork.                                                                    *)

\* newproc finds a free slot.
LEMMA FreeSlotFound ==
    ASSUME Inv, FreeSlots # {}
    PROVE  LET c == FirstOf(FreeSlots)
           IN  /\ c \in Slot /\ p_stat[c] = "NULL" /\ pc[c] = "user" /\ c # Init1
               /\ ~Live(c) /\ ~Resident(c)
               /\ spc \in {"in", "out"} => sproc # c
               /\ \A q \in Slot : pc[q] = "newproc" => q # c /\ p_ppid[q] # c
               /\ \A q \in Slot : pc[q] = "reap" => q # c /\ arg[q] # c
<1>1. FreeSlots \in SUBSET Slot
    BY DEF FreeSlots
<1>2. PICK c \in Slot : c = FirstOf(FreeSlots) /\ c \in FreeSlots
    BY <1>1, FirstFound
<1>3. p_stat[c] = "NULL" /\ pc[c] = "user" /\ ~Live(c) /\ ~Resident(c)
    BY <1>2 DEF FreeSlots, Inv, Shapes, Shape, Live, Resident
<1>4. c # Init1
    BY <1>3 DEF Inv, Shapes, InitLives
<1>5. spc \in {"in", "out"} => sproc # c
    BY <1>3 DEF Inv, Shapes, Moving
<1>6. \A q \in Slot : pc[q] = "newproc" => q # c /\ p_ppid[q] # c
    BY <1>3 DEF Inv, Shapes, Copying
<1>7. \A q \in Slot : pc[q] = "reap" => q # c /\ arg[q] # c
    BY <1>3 DEF Inv, Shapes, Reaping
<1> QED
    BY <1>2, <1>3, <1>4, <1>5, <1>6, <1>7

\* The child gets core of its own.
LEMMA ForkCoreInv ==
    ASSUME Inv, NEW p \in Slot, ForkCore(p)
    PROVE  Inv'
<1>1. FreeSlots # {}
    BY DEF ForkCore
<1>2. PICK c : c = FirstOf(FreeSlots)
    OBVIOUS
<1>3. /\ c \in Slot /\ p_stat[c] = "NULL" /\ pc[c] = "user" /\ c # Init1
      /\ ~Live(c) /\ ~Resident(c)
      /\ spc \in {"in", "out"} => sproc # c
      /\ \A q \in Slot : pc[q] = "newproc" => q # c /\ p_ppid[q] # c
      /\ \A q \in Slot : pc[q] = "reap" => q # c /\ arg[q] # c
    BY <1>1, <1>2, FreeSlotFound
<1>4. PICK a : a = MallocAddr(coremap, PSIZE)
    OBVIOUS
<1>5. /\ p_stat[p] = "SRUN" /\ a # NoAddr /\ c # p
      /\ p_time' = [p_time EXCEPT ![c] = 0]
      /\ p_ppid' = [p_ppid EXCEPT ![c] = p]
      /\ p_stat' = [p_stat EXCEPT ![c] = "SRUN"]
      /\ p_flag' = [p_flag EXCEPT ![c] = {"SLOAD"}]
      /\ p_addr' = [p_addr EXCEPT ![c] = a]
      /\ pc' = [pc EXCEPT ![c] = "user"]
      /\ coremap' = MallocMap(coremap, PSIZE)
      /\ UNCHANGED <<arg, swapmap, spc, sproc, sa>>
    BY <1>2, <1>3, <1>4 DEF ForkCore, InUser, CanRun, NewSlot, schedVars
<1>6. a \in Nat
    BY <1>4, MallocNone DEF Inv, CoreShared
<1>7. /\ p_stat'[c] = "SRUN" /\ p_flag'[c] = {"SLOAD"} /\ p_addr'[c] = a
      /\ pc' = pc /\ p_ppid'[c] = p
      /\ \A q \in Slot : q # c =>
            /\ p_stat'[q] = p_stat[q] /\ p_flag'[q] = p_flag[q]
            /\ p_ppid'[q] = p_ppid[q] /\ p_addr'[q] = p_addr[q]
    BY <1>3, <1>5 DEF Inv, TypeOK
<1>8. /\ Live(c)' /\ Resident(c)'
      /\ \A q \in Slot : q # c => (Live(q)' <=> Live(q)) /\ (Resident(q)' <=> Resident(q))
    BY <1>3, <1>5, <1>7 DEF Live, Resident
<1>9. /\ \A q \in Slot : q # c => CoreStays(q) /\ SwapStays(q)
      /\ \A q \in Slot : BlockStays(q)
    BY <1>5, <1>7, <1>8 DEF CoreStays, SwapStays, BlockStays
<1>10. CoreShared'
    <2>1. c \in CoreOwners /\ CoreOf[c] = {} /\ CoreOf'[c] = RunOf(a, PSIZE)
        BY <1>3, <1>7, <1>8, CoreAt, CoreAtNext, Owners
    <2>2. \A o \in CoreOwners : o # c => CoreOf'[o] = CoreOf[o]
        <3>1. CoreOf'[0] = CoreOf[0]
            BY <1>5, CoreAt, CoreAtNext
        <3>2. \A q \in Slot : q # c => CoreOf'[q] = CoreOf[q]
            BY <1>9, CoreAt, CoreAtNext DEF CoreStays
        <3> QED
            BY <3>1, <3>2, Owners
    <2>3. /\ InForm(coremap) /\ Shared(CoreOf, CoreOwners, FreeUnits(coremap), Core)
          /\ PSIZE \in Nat \ {0}
        BY SwapperAssumption DEF Inv, CoreShared
    <2>4. /\ InForm(MallocMap(coremap, PSIZE))
          /\ Shared(CoreOf', CoreOwners, FreeUnits(MallocMap(coremap, PSIZE)), Core)
        BY <1>4, <1>5, <2>1, <2>2, <2>3, Taken
    <2> QED
        BY <1>5, <2>4 DEF CoreShared
<1>11. SwapShared'
    <2>1. \A o \in SwapOwners : SwapOf'[o] = SwapOf[o]
        <3>1. SwapOf'[0] = SwapOf[0]
            BY <1>5, SwapAt, SwapAtNext
        <3>2. \A q \in Slot : q # c => SwapOf'[q] = SwapOf[q]
            BY <1>9, SwapAt, SwapAtNext DEF SwapStays
        <3>3. SwapOf[c] = {} /\ SwapOf'[c] = {}
            BY <1>3, <1>7, <1>8, SwapAt, SwapAtNext
        <3>4. \A q \in Slot : SwapOf'[-q] = SwapOf[-q]
            BY <1>9, SwapAt, SwapAtNext DEF BlockStays
        <3> QED
            BY <3>1, <3>2, <3>3, <3>4, Owners, SMTT(40)
    <2>2. Shared(SwapOf', SwapOwners, FreeUnits(swapmap), Swap)
        BY <2>1, Kept DEF Inv, SwapShared
    <2> QED
        BY <1>5, <2>2 DEF Inv, SwapShared
<1>12. TypeOK'
    <2>1. p_stat' \in [Slot -> Stat] /\ pc' \in [Slot -> PC]
        BY <1>5 DEF Inv, TypeOK, Stat, PC
    <2>2. p_addr' \in [Slot -> Nat] /\ p_ppid' \in [Slot -> Slot \cup {0}]
        BY <1>5, <1>6 DEF Inv, TypeOK
    <2>3. /\ p_flag' \in [Slot -> SUBSET {"SLOAD", "SLOCK", "SSWAP"}]
          /\ p_time' \in [Slot -> 0..TimeMax]
        <3>1. 0 \in 0..TimeMax
            BY SwapperAssumption
        <3> QED
            BY <1>5, <3>1 DEF Inv, TypeOK
    <2> QED
        BY <1>5, <1>10, <2>1, <2>2, <2>3 DEF Inv, TypeOK, CoreShared, InForm
<1>13. Shapes'
    <2>1. \A q \in Slot : Shape(q)'
        BY <1>3, <1>7 DEF Inv, Shapes, Shape
    <2>2. \A q \in Slot : Copying(q)'
        BY <1>3, <1>5, <1>7 DEF Inv, Shapes, Copying
    <2>3. \A q \in Slot : Reaping(q)'
        BY <1>3, <1>5, <1>7 DEF Inv, Shapes, Reaping
    <2>4. Moving'
        BY <1>3, <1>5, <1>7, <1>8 DEF Inv, Shapes, Moving
    <2>5. InitLives'
        <3>1. Init1 \in Slot /\ Live(Init1) /\ p_ppid[Init1] = 0
            BY SwapperAssumption DEF Inv, Shapes, InitLives, Init1, Slot
        <3> QED
            BY <1>3, <1>7, <1>8, <3>1 DEF InitLives
    <2> QED
        BY <2>1, <2>2, <2>3, <2>4, <2>5 DEF Shapes
<1>14. ReadyIsNoticed'
    BY <1>5, <1>7 DEF Inv, ReadyIsNoticed, WantsIn
<1> QED
    BY <1>10, <1>11, <1>12, <1>13, <1>14 DEF Inv

\* The child stands on its parent's image while it is copied to swap space.
LEMMA ForkSwapInv ==
    ASSUME Inv, NEW p \in Slot, ForkSwap(p)
    PROVE  Inv'
<1>1. FreeSlots # {}
    BY DEF ForkSwap
<1>2. PICK c : c = FirstOf(FreeSlots)
    OBVIOUS
<1>3. /\ c \in Slot /\ p_stat[c] = "NULL" /\ pc[c] = "user" /\ c # Init1
      /\ ~Live(c) /\ ~Resident(c)
      /\ spc \in {"in", "out"} => sproc # c
      /\ \A q \in Slot : pc[q] = "newproc" => q # c /\ p_ppid[q] # c
      /\ \A q \in Slot : pc[q] = "reap" => q # c /\ arg[q] # c
    BY <1>1, <1>2, FreeSlotFound
<1>4. PICK a : a = MallocAddr(swapmap, SSIZE)
    OBVIOUS
<1>5. /\ p_stat[p] = "SRUN" /\ "SLOAD" \in p_flag[p] /\ pc[p] = "user"
      /\ a # NoAddr /\ c # p
      /\ p_time' = [p_time EXCEPT ![c] = 0]
      /\ p_ppid' = [p_ppid EXCEPT ![c] = p]
      /\ p_stat' = [p_stat EXCEPT ![p] = "SIDL", ![c] = "SSLEEP"]
      /\ p_flag' = [p_flag EXCEPT ![c] = {"SLOAD", "SLOCK"}]
      /\ p_addr' = [p_addr EXCEPT ![c] = p_addr[p]]
      /\ pc' = [pc EXCEPT ![c] = "newproc"]
      /\ arg' = [arg EXCEPT ![c] = a]
      /\ swapmap' = MallocMap(swapmap, SSIZE)
      /\ UNCHANGED <<coremap, spc, sproc, sa>>
    BY <1>2, <1>3, <1>4 DEF ForkSwap, InUser, CanRun, NewSlot, schedVars
<1>15. /\ p_stat[p] = "SRUN" /\ "SLOAD" \in p_flag[p] /\ pc[p] = "user" /\ c # p
       /\ UNCHANGED <<spc, sproc, sa>>
    BY <1>5
<1>6. a \in Nat /\ a # 0
    BY <1>4, <1>5, MallocNone DEF Inv, SwapShared, NoAddr
<1>7. /\ p_stat'[c] = "SSLEEP" /\ p_flag'[c] = {"SLOAD", "SLOCK"}
      /\ p_addr'[c] = p_addr[p] /\ pc'[c] = "newproc" /\ p_ppid'[c] = p /\ arg'[c] = a
      /\ p_stat'[p] = "SIDL"
      /\ \A q \in Slot : q # c =>
            /\ p_flag'[q] = p_flag[q] /\ p_ppid'[q] = p_ppid[q]
            /\ p_addr'[q] = p_addr[q] /\ pc'[q] = pc[q] /\ arg'[q] = arg[q]
      /\ \A q \in Slot : q # c /\ q # p => p_stat'[q] = p_stat[q]
    BY <1>3, <1>5 DEF Inv, TypeOK
<1>8. /\ Live(c)' /\ ~Resident(c)'
      /\ \A q \in Slot : q # c => (Live(q)' <=> Live(q)) /\ (Resident(q)' <=> Resident(q))
    <2>1. \A q \in Slot : q # c => (Live(q)' <=> Live(q))
        BY <1>5, <1>7 DEF Live
    <2> QED
        BY <1>5, <1>7, <2>1 DEF Live, Resident
<1>9. /\ \A q \in Slot : CoreStays(q)
      /\ \A q \in Slot : q # c => SwapStays(q)
      /\ \A q \in Slot : BlockStays(q)
    <2>1. \A q \in Slot : q # c => ((p_stat'[q] = "SZOMB") <=> (p_stat[q] = "SZOMB"))
        BY <1>5, <1>7
    <2> QED
        BY <1>3, <1>7, <1>8, <2>1 DEF CoreStays, SwapStays, BlockStays
<1>10. CoreShared'
    BY <1>5, <1>9, CoreStill DEF Inv
<1>11. SwapShared'
    <2>1. c \in SwapOwners /\ SwapOf[c] = {} /\ SwapOf'[c] = RunOf(a, SSIZE)
        BY <1>3, <1>7, SwapAt, SwapAtNext, Owners
    <2>2. \A o \in SwapOwners : o # c => SwapOf'[o] = SwapOf[o]
        <3>1. SwapOf'[0] = SwapOf[0]
            BY <1>5, SwapAt, SwapAtNext
        <3>2. \A q \in Slot : q # c => SwapOf'[q] = SwapOf[q]
            BY <1>9, SwapAt, SwapAtNext DEF SwapStays
        <3>3. \A q \in Slot : SwapOf'[-q] = SwapOf[-q]
            BY <1>9, SwapAt, SwapAtNext DEF BlockStays
        <3> QED
            BY <3>1, <3>2, <3>3, Owners
    <2>3. /\ InForm(swapmap) /\ Shared(SwapOf, SwapOwners, FreeUnits(swapmap), Swap)
          /\ SSIZE \in Nat \ {0}
        BY SwapperAssumption DEF Inv, SwapShared
    <2>4. /\ InForm(MallocMap(swapmap, SSIZE))
          /\ Shared(SwapOf', SwapOwners, FreeUnits(MallocMap(swapmap, SSIZE)), Swap)
        BY <1>4, <1>5, <2>1, <2>2, <2>3, Taken
    <2> QED
        BY <1>5, <2>4 DEF SwapShared
<1>12. TypeOK'
    <2>1. p_stat' \in [Slot -> Stat] /\ pc' \in [Slot -> PC]
        BY <1>5 DEF Inv, TypeOK, Stat, PC
    <2>2. /\ p_addr' \in [Slot -> Nat] /\ arg' \in [Slot -> Nat]
          /\ p_ppid' \in [Slot -> Slot \cup {0}]
        BY <1>5, <1>6 DEF Inv, TypeOK
    <2>3. /\ p_flag' \in [Slot -> SUBSET {"SLOAD", "SLOCK", "SSWAP"}]
          /\ p_time' \in [Slot -> 0..TimeMax]
        <3>1. 0 \in 0..TimeMax
            BY SwapperAssumption
        <3> QED
            BY <1>5, <3>1 DEF Inv, TypeOK
    <2> QED
        BY <1>5, <1>11, <2>1, <2>2, <2>3 DEF Inv, TypeOK, SwapShared, InForm
<1>13. Shapes'
    <2>1. \A q \in Slot : Shape(q)'
        BY <1>3, <1>15, <1>7 DEF Inv, Shapes, Shape
    <2>2. ASSUME NEW q \in Slot PROVE Copying(q)'
        <3>1. \A d \in Slot : pc[d] = "newproc" => p_ppid[d] # p /\ d # p
            BY <1>15 DEF Inv, Shapes, Copying
        <3>2. CASE q = c
            BY <1>3, <1>6, <1>7, <3>1, <3>2 DEF Copying
        <3>3. CASE q # c
            BY <1>3, <1>7, <3>1, <3>3 DEF Inv, Shapes, Copying
        <3> QED
            BY <3>2, <3>3
    <2>3. \A q \in Slot : Reaping(q)'
        BY <1>3, <1>15, <1>7 DEF Inv, Shapes, Reaping
    <2>4. Moving'
        <3>1. spc \in {"in", "out"} => sproc # p /\ sproc \in Slot
            BY <1>15 DEF Inv, Shapes, Moving
        <3> QED
            BY <1>3, <1>15, <1>7, <1>8, <3>1 DEF Inv, Shapes, Moving
    <2>5. InitLives'
        <3>1. Init1 \in Slot /\ Live(Init1) /\ p_ppid[Init1] = 0
            BY SwapperAssumption DEF Inv, Shapes, InitLives, Init1, Slot
        <3> QED
            BY <1>3, <1>7, <1>8, <3>1 DEF InitLives
    <2> QED
        BY <2>1, <2>2, <2>3, <2>4, <2>5 DEF Shapes
<1>14. ReadyIsNoticed'
    BY <1>15, <1>7 DEF Inv, ReadyIsNoticed, WantsIn
<1> QED
    BY <1>10, <1>11, <1>12, <1>13, <1>14 DEF Inv

\* The copy is made: the child is in swap space, and the parent goes on.
LEMMA NewprocDoneInv ==
    ASSUME Inv, NEW c \in Slot, NewprocDone(c)
    PROVE  Inv'
<1>1. PICK p \in Slot : p = p_ppid[c]
    BY DEF NewprocDone, Inv, Shapes, Copying
<1>2. /\ pc[c] = "newproc" /\ p_stat[c] = "SSLEEP" /\ p_stat[p] = "SIDL"
      /\ "SLOAD" \in p_flag[c] /\ "SLOAD" \in p_flag[p] /\ pc[p] = "user" /\ p # c
      /\ \A d \in Slot : pc[d] = "newproc" /\ d # c => p_ppid[d] # p
    BY <1>1 DEF NewprocDone, Inv, Shapes, Copying, Shape
<1>3. /\ p_stat' = [p_stat EXCEPT ![c] = "SRUN", ![p] = "SRUN"]
      /\ p_flag' = [p_flag EXCEPT ![c] = {"SSWAP"}]
      /\ p_addr' = [p_addr EXCEPT ![c] = arg[c]]
      /\ p_time' = [p_time EXCEPT ![c] = 0]
      /\ pc' = [pc EXCEPT ![c] = "asleep"]
      /\ arg' = [arg EXCEPT ![c] = 0]
      /\ spc' = IF spc = "runout" THEN "loop" ELSE spc
      /\ UNCHANGED <<p_ppid, coremap, swapmap, sproc, sa>>
    BY <1>1 DEF NewprocDone, schedVars
<1>4. /\ p_stat'[c] = "SRUN" /\ p_stat'[p] = "SRUN" /\ p_flag'[c] = {"SSWAP"}
      /\ p_addr'[c] = arg[c] /\ pc'[c] = "asleep"
      /\ \A q \in Slot : q # c =>
            /\ p_flag'[q] = p_flag[q] /\ p_addr'[q] = p_addr[q]
            /\ pc'[q] = pc[q] /\ arg'[q] = arg[q]
      /\ \A q \in Slot : q # c /\ q # p => p_stat'[q] = p_stat[q]
    BY <1>2, <1>3 DEF Inv, TypeOK
<1>5. /\ UNCHANGED <<p_ppid, coremap, swapmap, sproc, sa>>
      /\ (spc' = "in" <=> spc = "in") /\ (spc' = "out" <=> spc = "out")
      /\ spc' # "runout" /\ spc' \in SPC
    BY <1>3 DEF Inv, TypeOK, SPC
<1>6. spc \in {"in", "out"} => sproc # c /\ sproc # p /\ sproc \in Slot
    BY <1>2 DEF Inv, Shapes, Moving
<1>7. /\ Live(c) /\ Live(c)' /\ ~Resident(c) /\ ~Resident(c)'
      /\ \A q \in Slot : q # c => (Live(q)' <=> Live(q)) /\ (Resident(q)' <=> Resident(q))
    <2>1. \A q \in Slot : Live(q)' <=> Live(q)
        BY <1>2, <1>4 DEF Live
    <2>2. \A q \in Slot : q # c => (Resident(q)' <=> Resident(q))
        BY <1>4, <1>5, <2>1 DEF Resident
    <2> QED
        BY <1>2, <1>4, <1>5, <1>6, <2>1, <2>2 DEF Live, Resident
<1>8. /\ \A q \in Slot : CoreStays(q)
      /\ \A q \in Slot : q # c => SwapStays(q)
      /\ \A q \in Slot : BlockStays(q)
    <2>1. \A q \in Slot : q # c => ((p_stat'[q] = "SZOMB") <=> (p_stat[q] = "SZOMB"))
        BY <1>2, <1>4
    <2> QED
        BY <1>2, <1>4, <1>7, <2>1 DEF CoreStays, SwapStays, BlockStays
<1>9. CoreShared'
    BY <1>5, <1>8, CoreStill DEF Inv
<1>10. SwapShared'
    <2>1. \A o \in SwapOwners : SwapOf'[o] = SwapOf[o]
        <3>1. SwapOf'[0] = SwapOf[0]
            BY <1>5, SwapAt, SwapAtNext
        <3>2. \A q \in Slot : q # c => SwapOf'[q] = SwapOf[q]
            BY <1>8, SwapAt, SwapAtNext DEF SwapStays
        <3>3. SwapOf[c] = RunOf(arg[c], SSIZE)
            BY <1>2, SwapAt
        <3>4. SwapOf'[c] = RunOf(arg[c], SSIZE)
            BY <1>4, <1>7, SwapAtNext
        <3>5. \A q \in Slot : SwapOf'[-q] = SwapOf[-q]
            BY <1>8, SwapAt, SwapAtNext DEF BlockStays
        <3> QED
            BY <3>1, <3>2, <3>3, <3>4, <3>5, Owners
    <2>2. Shared(SwapOf', SwapOwners, FreeUnits(swapmap), Swap)
        BY <2>1, Kept DEF Inv, SwapShared
    <2> QED
        BY <1>5, <2>2 DEF Inv, SwapShared
<1>11. TypeOK'
    <2>1. p_stat' \in [Slot -> Stat] /\ pc' \in [Slot -> PC]
        BY <1>3 DEF Inv, TypeOK, Stat, PC
    <2>2. p_addr' \in [Slot -> Nat] /\ arg' \in [Slot -> Nat]
        BY <1>3 DEF Inv, TypeOK
    <2>3. /\ p_flag' \in [Slot -> SUBSET {"SLOAD", "SLOCK", "SSWAP"}]
          /\ p_time' \in [Slot -> 0..TimeMax]
        <3>1. 0 \in 0..TimeMax
            BY SwapperAssumption
        <3> QED
            BY <1>3, <3>1 DEF Inv, TypeOK
    <2> QED
        BY <1>5, <2>1, <2>2, <2>3 DEF Inv, TypeOK
<1>12. Shapes'
    <2>1. \A q \in Slot : Shape(q)'
        BY <1>2, <1>4 DEF Inv, Shapes, Shape
    <2>2. \A q \in Slot : Copying(q)'
        BY <1>2, <1>4, <1>5 DEF Inv, Shapes, Copying
    <2>3. \A q \in Slot : Reaping(q)'
        BY <1>2, <1>4, <1>5 DEF Inv, Shapes, Reaping
    <2>4. Moving'
        BY <1>4, <1>5, <1>6, <1>7 DEF Inv, Shapes, Moving
    <2>5. InitLives'
        <3>1. Init1 \in Slot /\ Live(Init1) /\ p_ppid[Init1] = 0
            BY SwapperAssumption DEF Inv, Shapes, InitLives, Init1, Slot
        <3> QED
            BY <1>5, <1>7, <3>1 DEF InitLives
    <2> QED
        BY <2>1, <2>2, <2>3, <2>4, <2>5 DEF Shapes
<1> QED
    BY <1>5, <1>9, <1>10, <1>11, <1>12 DEF Inv, ReadyIsNoticed

-----------------------------------------------------------------------------
(* The swapping process.                                                    *)

\* It takes core for the one that has been outside longest.
LEMMA SchedInInv ==
    ASSUME Inv, SchedIn
    PROVE  Inv'
<1>1. PICK p : p = Eldest(WantsIn)
    OBVIOUS
<1>2. PICK a : a = MallocAddr(coremap, PSIZE)
    OBVIOUS
<1>3. p \in Slot /\ p_stat[p] = "SRUN" /\ "SLOAD" \notin p_flag[p]
    <2>1. WantsIn \in SUBSET Slot /\ WantsIn # {}
        BY DEF SchedIn, WantsIn
    <2>2. p \in WantsIn
        BY <1>1, <2>1, EldestFound DEF Inv
    <2> QED
        BY <2>2 DEF WantsIn
<1>4. /\ spc = "loop" /\ spc' = "in" /\ a # NoAddr /\ sproc' = p /\ sa' = a
      /\ coremap' = MallocMap(coremap, PSIZE)
      /\ UNCHANGED <<p_stat, p_flag, p_addr, p_time, p_ppid, pc, arg, swapmap>>
    BY <1>1, <1>2 DEF SchedIn
<1>5. a \in Nat
    BY <1>2, MallocNone DEF Inv, CoreShared
<1>6. \A q \in Slot : (Live(q)' <=> Live(q)) /\ (Resident(q)' <=> Resident(q))
    BY <1>4 DEF Live, Resident
<1>7. \A q \in Slot : CoreStays(q) /\ SwapStays(q) /\ BlockStays(q)
    BY <1>4, <1>6 DEF CoreStays, SwapStays, BlockStays
<1>8. SwapShared'
    BY <1>4, <1>7, SwapStill DEF Inv
<1>9. CoreShared'
    <2>1. 0 \in CoreOwners /\ CoreOf[0] = {} /\ CoreOf'[0] = RunOf(a, PSIZE)
        BY <1>4, CoreAt, CoreAtNext, Owners
    <2>2. \A o \in CoreOwners : o # 0 => CoreOf'[o] = CoreOf[o]
        BY <1>7, CoreAt, CoreAtNext, Owners DEF CoreStays
    <2>3. /\ InForm(coremap) /\ Shared(CoreOf, CoreOwners, FreeUnits(coremap), Core)
          /\ PSIZE \in Nat \ {0}
        BY SwapperAssumption DEF Inv, CoreShared
    <2>4. /\ InForm(MallocMap(coremap, PSIZE))
          /\ Shared(CoreOf', CoreOwners, FreeUnits(MallocMap(coremap, PSIZE)), Core)
        BY <1>2, <1>4, <2>1, <2>2, <2>3, Taken
    <2> QED
        BY <1>4, <2>4 DEF CoreShared
<1>10. TypeOK'
    BY <1>3, <1>4, <1>5, <1>9 DEF Inv, TypeOK, SPC, CoreShared, InForm
<1>11. Shapes'
    BY <1>3, <1>4, <1>6
       DEF Inv, Shapes, Shape, Copying, Reaping, Moving, InitLives, Live
<1> QED
    BY <1>4, <1>8, <1>9, <1>10, <1>11 DEF Inv, ReadyIsNoticed

\* It takes swap space for a victim.
LEMMA SchedOutInv ==
    ASSUME Inv, SchedOut
    PROVE  Inv'
<1>1. PICK p \in Victims :
         /\ sproc' = p
         /\ p_flag' = [p_flag EXCEPT ![p] = (p_flag[p] \ {"SLOAD"}) \cup {"SLOCK"}]
    BY DEF SchedOut
<1>2. PICK a : a = MallocAddr(swapmap, SSIZE)
    OBVIOUS
<1>3. /\ p \in Slot /\ "SLOAD" \in p_flag[p] /\ "SLOCK" \notin p_flag[p]
      /\ p_stat[p] \in {"SWAIT", "SRUN", "SSLEEP"}
    BY VictimFacts DEF Inv
<1>4. /\ spc = "loop" /\ spc' = "out" /\ a # NoAddr /\ sproc' = p /\ sa' = a
      /\ swapmap' = MallocMap(swapmap, SSIZE)
      /\ UNCHANGED <<p_stat, p_addr, p_time, p_ppid, pc, arg, coremap>>
    BY <1>1, <1>2 DEF SchedOut
<1>5. a \in Nat
    BY <1>2, MallocNone DEF Inv, SwapShared
<1>6. /\ p_flag' \in [Slot -> SUBSET {"SLOAD", "SLOCK", "SSWAP"}]
      /\ "SLOAD" \notin p_flag'[p] /\ \A q \in Slot : q # p => p_flag'[q] = p_flag[q]
    BY <1>1, <1>3 DEF Inv, TypeOK
<1>7. /\ pc[p] # "newproc" /\ Live(p)
      /\ \A q \in Slot : pc[q] = "newproc" => q # p /\ p_ppid[q] # p
    BY <1>3 DEF Inv, Shapes, Copying, Live
<1>8. \A q \in Slot : (Live(q)' <=> Live(q)) /\ (Resident(q)' <=> Resident(q))
    <2>1. \A q \in Slot : Live(q)' <=> Live(q)
        BY <1>4 DEF Live
    <2>2. Resident(p) /\ Resident(p)'
        BY <1>3, <1>4, <1>7, <2>1 DEF Resident
    <2> QED
        BY <1>4, <1>6, <2>1, <2>2 DEF Resident
<1>9. \A q \in Slot : CoreStays(q) /\ SwapStays(q) /\ BlockStays(q)
    BY <1>4, <1>8 DEF CoreStays, SwapStays, BlockStays
<1>10. CoreShared'
    BY <1>4, <1>9, CoreStill DEF Inv
<1>11. SwapShared'
    <2>1. 0 \in SwapOwners /\ SwapOf[0] = {} /\ SwapOf'[0] = RunOf(a, SSIZE)
        BY <1>4, SwapAt, SwapAtNext, Owners
    <2>2. \A o \in SwapOwners : o # 0 => SwapOf'[o] = SwapOf[o]
        <3>1. \A q \in Slot : SwapOf'[q] = SwapOf[q]
            BY <1>9, SwapAt, SwapAtNext DEF SwapStays
        <3>2. \A q \in Slot : SwapOf'[-q] = SwapOf[-q]
            BY <1>9, SwapAt, SwapAtNext DEF BlockStays
        <3> QED
            BY <3>1, <3>2, Owners
    <2>3. /\ InForm(swapmap) /\ Shared(SwapOf, SwapOwners, FreeUnits(swapmap), Swap)
          /\ SSIZE \in Nat \ {0}
        BY SwapperAssumption DEF Inv, SwapShared
    <2>4. /\ InForm(MallocMap(swapmap, SSIZE))
          /\ Shared(SwapOf', SwapOwners, FreeUnits(MallocMap(swapmap, SSIZE)), Swap)
        BY <1>2, <1>4, <2>1, <2>2, <2>3, Taken
    <2> QED
        BY <1>4, <2>4 DEF SwapShared
<1>12. TypeOK'
    BY <1>3, <1>4, <1>5, <1>6, <1>11 DEF Inv, TypeOK, SPC, SwapShared, InForm
<1>13. Shapes'
    <2>1. \A q \in Slot : Shape(q)' /\ Reaping(q)'
        BY <1>3, <1>4, <1>6 DEF Inv, Shapes, Shape, Reaping
    <2>2. \A q \in Slot : Copying(q)'
        BY <1>4, <1>6, <1>7 DEF Inv, Shapes, Copying
    <2>3. Moving' /\ InitLives'
        BY <1>3, <1>4, <1>6, <1>7 DEF Inv, Shapes, Moving, InitLives, Live
    <2> QED
        BY <2>1, <2>2, <2>3 DEF Shapes
<1> QED
    BY <1>4, <1>10, <1>11, <1>12, <1>13 DEF Inv, ReadyIsNoticed

\* The image is in core: its swap space is free.
LEMMA SchedInDoneInv ==
    ASSUME Inv, SchedInDone
    PROVE  Inv'
<1>1. PICK x \in Slot : x = sproc
    BY DEF SchedInDone, Inv, Shapes, Moving
<1>2. PICK a \in Nat : a = sa
    BY DEF Inv, TypeOK
<1>3. PICK b \in Nat : b = p_addr[x]
    BY <1>1 DEF Inv, TypeOK
<1>4. spc = "in" /\ Live(x) /\ "SLOAD" \notin p_flag[x]
    BY <1>1 DEF SchedInDone, Inv, Shapes, Moving, Live
<1>5. /\ pc[x] # "newproc"
      /\ \A q \in Slot : pc[q] = "newproc" => q # x /\ p_ppid[q] # x
    BY <1>4 DEF Inv, Shapes, Shape, Copying
<1>6. /\ swapmap' = MfreeMap(swapmap, SSIZE, b)
      /\ p_addr' = [p_addr EXCEPT ![x] = a]
      /\ p_flag' = [p_flag EXCEPT ![x] = p_flag[x] \cup {"SLOAD"}]
      /\ p_time' = [p_time EXCEPT ![x] = 0]
    BY <1>1, <1>2, <1>3 DEF SchedInDone
<1>7. /\ spc' = "loop" /\ sproc' = 0 /\ sa' = 0
      /\ UNCHANGED <<p_stat, p_ppid, pc, arg, coremap>>
    <2>1. SwapWaiters = {}
        BY DEF SwapWaiters, Inv, Shapes, Copying
    <2>2. p_stat' = p_stat
        BY <2>1 DEF SchedInDone, Inv, TypeOK
    <2> QED
        BY <2>2 DEF SchedInDone
<1>8. /\ p_addr'[x] = a /\ "SLOAD" \in p_flag'[x]
      /\ \A q \in Slot : q # x => p_addr'[q] = p_addr[q] /\ p_flag'[q] = p_flag[q]
    BY <1>6 DEF Inv, TypeOK
<1>9. /\ ~Resident(x) /\ Resident(x)' /\ \A q \in Slot : Live(q)' <=> Live(q)
      /\ \A q \in Slot : q # x => (Resident(q)' <=> Resident(q))
    <2>1. \A q \in Slot : Live(q)' <=> Live(q)
        BY <1>7 DEF Live
    <2>2. ~Resident(x) /\ Resident(x)'
        BY <1>1, <1>4, <1>5, <1>7, <1>8, <2>1, Owners DEF Resident
    <2>3. \A q \in Slot : q # x => (Resident(q)' <=> Resident(q))
        BY <1>1, <1>4, <1>7, <1>8, <2>1 DEF Resident
    <2> QED
        BY <2>1, <2>2, <2>3
<1>10. /\ \A q \in Slot : q # x => CoreStays(q) /\ SwapStays(q)
       /\ \A q \in Slot : BlockStays(q)
    BY <1>7, <1>8, <1>9 DEF CoreStays, SwapStays, BlockStays
<1>11. p_stat[x] # "SZOMB"
    BY <1>4 DEF Live
<1>12. CoreShared'
    <2>1. /\ 0 \in CoreOwners /\ x \in CoreOwners /\ x # 0
          /\ CoreOf[0] = RunOf(a, PSIZE) /\ CoreOf[x] = {}
        BY <1>2, <1>4, <1>5, <1>9, <1>11, CoreAt, Owners
    <2>2. CoreOf'[0] = {} /\ CoreOf'[x] = RunOf(a, PSIZE)
        BY <1>4, <1>5, <1>7, <1>8, <1>9, <1>11, CoreAtNext
    <2>3. \A o \in CoreOwners : o # 0 /\ o # x => CoreOf'[o] = CoreOf[o]
        <3>1. \A q \in Slot : q # x => CoreOf'[q] = CoreOf[q]
            BY <1>10, CoreAt, CoreAtNext DEF CoreStays
        <3> QED
            BY <3>1, Owners
    <2>4. Shared(CoreOf', CoreOwners, FreeUnits(coremap), Core)
        BY <2>1, <2>2, <2>3, Moved DEF Inv, CoreShared
    <2> QED
        BY <1>7, <2>4 DEF Inv, CoreShared
<1>13. SwapShared'
    <2>1. x \in SwapOwners /\ SwapOf[x] = RunOf(b, SSIZE) /\ SwapOf'[x] = {}
        BY <1>3, <1>4, <1>5, <1>7, <1>9, <1>11, SwapAt, SwapAtNext, Owners
    <2>2. \A o \in SwapOwners : o # x => SwapOf'[o] = SwapOf[o]
        <3>1. SwapOf'[0] = SwapOf[0]
            BY <1>4, <1>7, SwapAt, SwapAtNext
        <3>2. \A q \in Slot : q # x => SwapOf'[q] = SwapOf[q]
            BY <1>10, SwapAt, SwapAtNext DEF SwapStays
        <3>3. \A q \in Slot : SwapOf'[-q] = SwapOf[-q]
            BY <1>10, SwapAt, SwapAtNext DEF BlockStays
        <3> QED
            BY <3>1, <3>2, <3>3, Owners
    <2>3. /\ InForm(swapmap) /\ Shared(SwapOf, SwapOwners, FreeUnits(swapmap), Swap)
          /\ Swap \subseteq Nat \ {0} /\ SSIZE \in Nat \ {0}
        BY SwapperAssumption DEF Inv, SwapShared, Swap
    <2>4. /\ InForm(MfreeMap(swapmap, SSIZE, b))
          /\ Shared(SwapOf', SwapOwners, FreeUnits(MfreeMap(swapmap, SSIZE, b)), Swap)
        BY <2>1, <2>2, <2>3, Given
    <2> QED
        BY <1>6, <2>4 DEF SwapShared
<1>14. TypeOK'
    <2>1. p_addr' \in [Slot -> Nat]
        BY <1>6 DEF Inv, TypeOK
    <2>2. /\ p_flag' \in [Slot -> SUBSET {"SLOAD", "SLOCK", "SSWAP"}]
          /\ p_time' \in [Slot -> 0..TimeMax]
        <3>1. 0 \in 0..TimeMax
            BY SwapperAssumption
        <3> QED
            BY <1>6, <3>1 DEF Inv, TypeOK
    <2> QED
        BY <1>7, <1>13, <2>1, <2>2 DEF Inv, TypeOK, SPC, SwapShared, InForm
<1>15. Shapes'
    <2>1. \A q \in Slot : Shape(q)' /\ Reaping(q)'
        <3>1. p_stat[x] # "SIDL"
            BY <1>4 DEF Inv, Shapes, Shape
        <3> QED
            BY <1>7, <1>8, <3>1 DEF Inv, Shapes, Shape, Reaping
    <2>2. \A q \in Slot : Copying(q)'
        BY <1>5, <1>7, <1>8 DEF Inv, Shapes, Copying
    <2>3. Moving' /\ InitLives'
        <3>1. Init1 \in Slot
            BY SwapperAssumption DEF Init1, Slot
        <3> QED
            BY <1>7, <1>9, <3>1 DEF Inv, Shapes, Moving, InitLives
    <2> QED
        BY <2>1, <2>2, <2>3 DEF Shapes
<1> QED
    BY <1>7, <1>12, <1>13, <1>14, <1>15 DEF Inv, ReadyIsNoticed

\* The image is in swap space: its core is free.
LEMMA SchedOutDoneInv ==
    ASSUME Inv, SchedOutDone
    PROVE  Inv'
<1>1. PICK x \in Slot : x = sproc
    BY DEF SchedOutDone, Inv, Shapes, Moving
<1>2. PICK a \in Nat : a = sa
    BY DEF Inv, TypeOK
<1>3. PICK b \in Nat : b = p_addr[x]
    BY <1>1 DEF Inv, TypeOK
<1>4. spc = "out" /\ Live(x) /\ "SLOAD" \notin p_flag[x]
    BY <1>1 DEF SchedOutDone, Inv, Shapes, Moving, Live
<1>5. /\ pc[x] # "newproc"
      /\ \A q \in Slot : pc[q] = "newproc" => q # x /\ p_ppid[q] # x
    BY <1>4 DEF Inv, Shapes, Shape, Copying
<1>6. /\ coremap' = MfreeMap(coremap, PSIZE, b)
      /\ p_addr' = [p_addr EXCEPT ![x] = a]
      /\ p_flag' = [p_flag EXCEPT ![x] = p_flag[x] \ {"SLOAD", "SLOCK"}]
      /\ p_time' = [p_time EXCEPT ![x] = 0]
    BY <1>1, <1>2, <1>3 DEF SchedOutDone
<1>7. /\ spc' = "loop" /\ sproc' = 0 /\ sa' = 0
      /\ UNCHANGED <<p_stat, p_ppid, pc, arg, swapmap>>
    BY DEF SchedOutDone
<1>8. /\ p_addr'[x] = a /\ "SLOAD" \notin p_flag'[x]
      /\ \A q \in Slot : q # x => p_addr'[q] = p_addr[q] /\ p_flag'[q] = p_flag[q]
    BY <1>6 DEF Inv, TypeOK
<1>9. /\ Resident(x) /\ ~Resident(x)' /\ \A q \in Slot : Live(q)' <=> Live(q)
      /\ \A q \in Slot : q # x => (Resident(q)' <=> Resident(q))
    <2>1. \A q \in Slot : Live(q)' <=> Live(q)
        BY <1>7 DEF Live
    <2>2. Resident(x) /\ ~Resident(x)'
        BY <1>1, <1>4, <1>5, <1>7, <1>8, <2>1, Owners DEF Resident
    <2>3. \A q \in Slot : q # x => (Resident(q)' <=> Resident(q))
        BY <1>1, <1>4, <1>7, <1>8, <2>1 DEF Resident
    <2> QED
        BY <2>1, <2>2, <2>3
<1>10. /\ \A q \in Slot : q # x => CoreStays(q) /\ SwapStays(q)
       /\ \A q \in Slot : BlockStays(q)
    BY <1>7, <1>8, <1>9 DEF CoreStays, SwapStays, BlockStays
<1>11. p_stat[x] # "SZOMB"
    BY <1>4 DEF Live
<1>12. SwapShared'
    <2>1. /\ 0 \in SwapOwners /\ x \in SwapOwners /\ x # 0
          /\ SwapOf[0] = RunOf(a, SSIZE) /\ SwapOf[x] = {}
        BY <1>2, <1>4, <1>5, <1>9, <1>11, SwapAt, Owners
    <2>2. SwapOf'[0] = {} /\ SwapOf'[x] = RunOf(a, SSIZE)
        BY <1>4, <1>5, <1>7, <1>8, <1>9, <1>11, SwapAtNext
    <2>3. \A o \in SwapOwners : o # 0 /\ o # x => SwapOf'[o] = SwapOf[o]
        <3>1. \A q \in Slot : q # x => SwapOf'[q] = SwapOf[q]
            BY <1>10, SwapAt, SwapAtNext DEF SwapStays
        <3>2. \A q \in Slot : SwapOf'[-q] = SwapOf[-q]
            BY <1>10, SwapAt, SwapAtNext DEF BlockStays
        <3> QED
            BY <3>1, <3>2, Owners
    <2>4. Shared(SwapOf', SwapOwners, FreeUnits(swapmap), Swap)
        BY <2>1, <2>2, <2>3, Moved DEF Inv, SwapShared
    <2> QED
        BY <1>7, <2>4 DEF Inv, SwapShared
<1>13. CoreShared'
    <2>1. x \in CoreOwners /\ CoreOf[x] = RunOf(b, PSIZE) /\ CoreOf'[x] = {}
        BY <1>3, <1>4, <1>5, <1>7, <1>9, <1>11, CoreAt, CoreAtNext, Owners
    <2>2. \A o \in CoreOwners : o # x => CoreOf'[o] = CoreOf[o]
        <3>1. CoreOf'[0] = CoreOf[0]
            BY <1>4, <1>7, CoreAt, CoreAtNext
        <3>2. \A q \in Slot : q # x => CoreOf'[q] = CoreOf[q]
            BY <1>10, CoreAt, CoreAtNext DEF CoreStays
        <3> QED
            BY <3>1, <3>2, Owners
    <2>3. /\ InForm(coremap) /\ Shared(CoreOf, CoreOwners, FreeUnits(coremap), Core)
          /\ Core \subseteq Nat \ {0} /\ PSIZE \in Nat \ {0}
        BY SwapperAssumption DEF Inv, CoreShared, Core
    <2>4. /\ InForm(MfreeMap(coremap, PSIZE, b))
          /\ Shared(CoreOf', CoreOwners, FreeUnits(MfreeMap(coremap, PSIZE, b)), Core)
        BY <2>1, <2>2, <2>3, Given
    <2> QED
        BY <1>6, <2>4 DEF CoreShared
<1>14. TypeOK'
    <2>1. p_addr' \in [Slot -> Nat]
        BY <1>6 DEF Inv, TypeOK
    <2>2. /\ p_flag' \in [Slot -> SUBSET {"SLOAD", "SLOCK", "SSWAP"}]
          /\ p_time' \in [Slot -> 0..TimeMax]
        <3>1. 0 \in 0..TimeMax
            BY SwapperAssumption
        <3> QED
            BY <1>6, <3>1 DEF Inv, TypeOK
    <2> QED
        BY <1>7, <1>13, <2>1, <2>2 DEF Inv, TypeOK, SPC, CoreShared, InForm
<1>15. Shapes'
    <2>1. \A q \in Slot : Shape(q)' /\ Reaping(q)'
        <3>1. p_stat[x] # "SIDL"
            BY <1>4 DEF Inv, Shapes, Shape
        <3> QED
            BY <1>7, <1>8, <3>1 DEF Inv, Shapes, Shape, Reaping
    <2>2. \A q \in Slot : Copying(q)'
        BY <1>5, <1>7, <1>8 DEF Inv, Shapes, Copying
    <2>3. Moving' /\ InitLives'
        <3>1. Init1 \in Slot
            BY SwapperAssumption DEF Init1, Slot
        <3> QED
            BY <1>7, <1>9, <3>1 DEF Inv, Shapes, Moving, InitLives
    <2> QED
        BY <2>1, <2>2, <2>3 DEF Shapes
<1> QED
    BY <1>7, <1>12, <1>13, <1>14, <1>15 DEF Inv, ReadyIsNoticed

-----------------------------------------------------------------------------
(* What holds in every state.                                               *)

\* Every step keeps the invariant.
LEMMA Step ==
    ASSUME Inv, [Next]_vars
    PROVE  Inv'
<1>1. CASE Sched
    BY <1>1, SchedInInv, SchedOutInv, SchedInDoneInv, SchedOutDoneInv, IdleInv DEF Sched
<1>2. CASE Tick
    BY <1>2, IdleInv
<1>3. ASSUME NEW p \in Slot, Calls(p) PROVE Inv'
    BY <1>3, ForkCoreInv, ForkSwapInv, ExitBeginInv, SleepInv DEF Calls
<1>4. ASSUME NEW p \in Slot,
             NewprocDone(p) \/ Wake(p) \/ Continue(p) \/ ExitEnd(p) \/ ReapEnd(p)
      PROVE  Inv'
    BY <1>4, NewprocDoneInv, WakeInv, ContinueInv, ExitEndInv, ReapEndInv
<1>5. CASE UNCHANGED vars
    <2>1. \A q \in Slot : (Live(q)' <=> Live(q)) /\ (Resident(q)' <=> Resident(q))
        BY <1>5 DEF vars, Live, Resident
    <2>2. \A q \in Slot : CoreStays(q) /\ SwapStays(q) /\ BlockStays(q)
        BY <1>5, <2>1 DEF vars, CoreStays, SwapStays, BlockStays
    <2>3. CoreShared' /\ SwapShared'
        BY <1>5, <2>2, CoreStill, SwapStill DEF vars, Inv
    <2>4. TypeOK' /\ ReadyIsNoticed'
        BY <1>5 DEF vars, Inv, TypeOK, ReadyIsNoticed, WantsIn
    <2>5. Shapes'
        <3>1. UNCHANGED <<p_stat, p_flag, p_addr, p_ppid, pc, arg, spc, sproc>>
            BY <1>5 DEF vars
        <3>2. \A q \in Slot : Shape(q)' /\ Copying(q)' /\ Reaping(q)'
            BY <3>1 DEF Inv, Shapes, Shape, Copying, Reaping
        <3>3. Moving' /\ InitLives'
            BY <3>1 DEF Inv, Shapes, Moving, InitLives, Live
        <3> QED
            BY <3>2, <3>3 DEF Shapes
    <2> QED
        BY <2>3, <2>4, <2>5 DEF Inv
<1> QED
    BY <1>1, <1>2, <1>3, <1>4, <1>5 DEF Next

\* The invariant holds in every state.
LEMMA Invariance == Spec => []Inv
BY InitInv, Step, PTL DEF Spec

\* Every variable has its type: p_time in particular stops at its limit, and
\* the maps hold entries with a size (clock.c, malloc.c).
THEOREM TypeCorrect == Spec => []TypeOK
BY Invariance, PTL DEF Inv

\* The swapping process never sleeps on runout while somebody who is ready is
\* outside: setrun and xswap wake it in time (slp.c, text.c).
THEOREM ReadyNoticed == Spec => []ReadyIsNoticed
BY Invariance, PTL DEF Inv

\* No unit of core has two owners or is lost, whatever the order of forks,
\* exits and swaps, each of which sleeps half way (slp.c, text.c, sys1.c).
THEOREM CoreHasOneOwner == Spec => []CoreOwned
<1>1. ASSUME Inv PROVE CoreOwned
    <2> DEFINE free == FreeUnits(coremap)
    <2>1. \A d \in CoreUse : d.owner \in CoreOwners /\ d.run = CoreOf[d.owner]
        BY CoreAt, Owners DEF CoreUse, Run, RunOf
    <2>2. \A d, e \in CoreUse : d # e => d.owner # e.owner
        BY Owners DEF CoreUse, Run
    <2>3. \A o \in CoreOwners : \A x \in CoreOf[o] : \E d \in CoreUse : x \in d.run
        <3>1. ASSUME NEW x \in CoreOf[0] PROVE \E d \in CoreUse : x \in d.run
            <4>1. Run(0, sa, PSIZE) \in CoreUse /\ x \in Run(0, sa, PSIZE).run
                BY <3>1, CoreAt DEF CoreUse, Run, RunOf
            <4> QED
                BY <4>1
        <3>2. ASSUME NEW p \in Slot, NEW x \in CoreOf[p] PROVE \E d \in CoreUse : x \in d.run
            <4>1. Run(p, p_addr[p], PSIZE) \in CoreUse /\ x \in Run(p, p_addr[p], PSIZE).run
                BY <3>2, CoreAt DEF CoreUse, Run, RunOf
            <4> QED
                BY <4>1
        <3> QED
            BY <3>1, <3>2, Owners
    <2>4. Shared(CoreOf, CoreOwners, free, Core)
        BY <1>1 DEF Inv, CoreShared
    <2> HIDE DEF free
    <2>5. \A d, e \in CoreUse : d # e => d.run \cap e.run = {}
        BY <2>1, <2>2, <2>4 DEF Shared
    <2>6. \A d \in CoreUse : d.run \cap free = {}
        BY <2>1, <2>4 DEF Shared
    <2>7. free \cup UNION {d.run : d \in CoreUse} = Core
        BY <2>1, <2>3, <2>4 DEF Shared
    <2> QED
        BY <2>5, <2>6, <2>7 DEF CoreOwned, Partition, free
<1> QED
    BY <1>1, Invariance, PTL

\* The same for swap space: images outside or in transit, the copy that newproc
\* makes, and the blocks with the u areas of zombies (text.c, slp.c, sys1.c).
THEOREM SwapHasOneOwner == Spec => []SwapOwned
<1>1. ASSUME Inv PROVE SwapOwned
    <2> DEFINE free == FreeUnits(swapmap)
               Away  == {q \in Slot : Live(q) /\ ~Resident(q) /\ pc[q] # "newproc"}
               Copies == {q \in Slot : pc[q] = "newproc" /\ arg[q] # 0}
               Dead  == {q \in Slot : p_stat[q] = "SZOMB"}
               Exits == {q \in Slot : pc[q] = "exit"}
    <2>1. \A q \in Slot : pc[q] = "newproc" => arg[q] # 0 /\ p_stat[q] # "SZOMB"
        BY <1>1 DEF Inv, Shapes, Copying
    <2>2. \A d : d \in SwapUse <=>
             \/ \E q \in Away : d = Run(q, p_addr[q], SSIZE)
             \/ \E q \in Copies : d = Run(q, arg[q], SSIZE)
             \/ \E q \in Dead : d = Run(q, p_addr[q], 1)
             \/ \E q \in Exits : d = Run(-q, arg[q], 1)
             \/ spc = "out" /\ d = Run(0, sa, SSIZE)
        BY DEF SwapUse
    <2>3. /\ \A q \in Away : q \in Slot /\ q \notin Copies /\ q \notin Dead
          /\ \A q \in Copies : q \in Slot /\ q \notin Dead
          /\ \A q \in Dead : q \in Slot
          /\ \A q \in Exits : q \in Slot
        BY <2>1 DEF Live
    <2>4. /\ \A q \in Away : SwapOf[q] = RunOf(p_addr[q], SSIZE)
          /\ \A q \in Copies : SwapOf[q] = RunOf(arg[q], SSIZE)
          /\ \A q \in Dead : SwapOf[q] = RunOf(p_addr[q], 1)
          /\ \A q \in Exits : SwapOf[-q] = RunOf(arg[q], 1)
          /\ spc = "out" => SwapOf[0] = RunOf(sa, SSIZE)
        BY <2>1, SwapAt DEF Live
    <2>5. /\ \A q \in Slot : q \in Away \/ q \in Copies \/ q \in Dead \/ SwapOf[q] = {}
          /\ \A q \in Slot : q \in Exits \/ SwapOf[-q] = {}
          /\ spc = "out" \/ SwapOf[0] = {}
        BY <2>1, SwapAt
    <2>6. \A o, a, n : Run(o, a, n).owner = o /\ Run(o, a, n).run = RunOf(a, n)
        BY DEF Run, RunOf
    <2> HIDE DEF Away, Copies, Dead, Exits
    <2>7. \A d \in SwapUse : d.owner \in SwapOwners /\ d.run = SwapOf[d.owner]
        BY <2>2, <2>3, <2>4, <2>6, Owners
    <2>8. ASSUME NEW d \in SwapUse, NEW e \in SwapUse, d.owner = e.owner
          PROVE  d = e
        BY <2>2, <2>3, <2>6, <2>8, Owners
    <2>9. \A o \in SwapOwners : \A x \in SwapOf[o] : \E d \in SwapUse : x \in d.run
        <3>1. ASSUME NEW q \in Slot, NEW x, x \in SwapOf[q]
              PROVE  \E d \in SwapUse : x \in d.run
            BY <2>2, <2>4, <2>5, <2>6, <3>1
        <3>2. ASSUME NEW q \in Slot, NEW x, x \in SwapOf[-q]
              PROVE  \E d \in SwapUse : x \in d.run
            BY <2>2, <2>4, <2>5, <2>6, <3>2
        <3>3. ASSUME NEW x, x \in SwapOf[0] PROVE \E d \in SwapUse : x \in d.run
            BY <2>2, <2>4, <2>5, <2>6, <3>3
        <3> QED
            BY <3>1, <3>2, <3>3, Owners
    <2>10. Shared(SwapOf, SwapOwners, free, Swap)
        BY <1>1 DEF Inv, SwapShared
    <2> HIDE DEF free
    <2>11. \A d, e \in SwapUse : d # e => d.run \cap e.run = {}
        BY <2>7, <2>8, <2>10 DEF Shared
    <2>12. \A d \in SwapUse : d.run \cap free = {}
        BY <2>7, <2>10 DEF Shared
    <2>13. free \cup UNION {d.run : d \in SwapUse} = Swap
        BY <2>7, <2>9, <2>10 DEF Shared
    <2> QED
        BY <2>11, <2>12, <2>13 DEF SwapOwned, Partition, free
<1> QED
    BY <1>1, Invariance, PTL

\* While newproc copies a process to swap space its image stays in core, where
\* the child's p_addr says it is (slp.c:409-423).
THEOREM ParentStaysPut == Spec => []ParentStays
<1>1. ASSUME Inv PROVE ParentStays
    <2>1. ASSUME NEW c \in Slot, pc[c] = "newproc"
          PROVE  /\ Resident(p_ppid[c]) /\ sproc \notin {p_ppid[c], c}
                 /\ p_addr[c] = p_addr[p_ppid[c]]
        <3>1. PICK p \in Slot : p = p_ppid[c]
            BY <1>1, <2>1 DEF Inv, Shapes, Copying
        <3>2. /\ p_stat[p] = "SIDL" /\ p_addr[c] = p_addr[p] /\ "SLOAD" \in p_flag[c]
              /\ pc[p] = "user" /\ "SLOAD" \in p_flag[p]
            BY <1>1, <2>1, <3>1 DEF Inv, Shapes, Copying, Shape
        <3>3. Resident(p)
            BY <3>2 DEF Resident, Live
        <3>4. sproc # p /\ sproc # c
            BY <1>1, <3>2, Owners DEF Inv, Shapes, Moving
        <3> QED
            BY <3>1, <3>2, <3>3, <3>4
    <2> QED
        BY <2>1 DEF ParentStays
<1> QED
    BY <1>1, Invariance, PTL

=============================================================================
