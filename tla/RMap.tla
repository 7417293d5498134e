-------------------------------- MODULE RMap --------------------------------
(***************************************************************************)
(* The resource map allocator of ken/malloc.c, which hands out core pages  *)
(* (coremap) and swap blocks (swapmap).                                    *)
(*                                                                         *)
(* A map is the array of (m_size, m_addr) pairs up to the first zero       *)
(* m_size, written here as the sequence of its nonzero entries.  Entries   *)
(* that the C code shifts up or down by one place are the tail of that     *)
(* sequence.  Addresses are units: pages in coremap, disk blocks in        *)
(* swapmap.                                                                *)
(***************************************************************************)
EXTENDS Integers, Sequences

\* What malloc returns when no entry is large enough.
NoAddr == 0

\* struct map: a run of m_size free units that starts at m_addr.
Entry == [m_size : Nat, m_addr : Nat]

\* The units an entry stands for.
Units(e) == e.m_addr .. (e.m_addr + e.m_size - 1)

\* The free units of a map.
FreeUnits(mp) == UNION {Units(mp[i]) : i \in DOMAIN mp}

\* A slip: an entry one unit too small is taken.
FitsShort(mp, size) == {i \in DOMAIN mp : mp[i].m_size >= size - 1}

\* The indexes of the entries that can satisfy a request for size units.
Fits(mp, size) == {i \in DOMAIN mp : mp[i].m_size >= size}

\* First fit: the lowest such index.
FirstFit(mp, size) ==
    CHOOSE i \in Fits(mp, size) : \A j \in Fits(mp, size) : i <= j

\* mp without its i-th entry: the loop that moves the later entries down.
DropAt(mp, i) ==
    [k \in 1..(Len(mp) - 1) |-> IF k < i THEN mp[k] ELSE mp[k + 1]]

\* mp with the entry e in front of its i-th entry: the loop that moves the
\* later entries up.
PutAt(mp, i, e) ==
    [k \in 1..(Len(mp) + 1) |->
        IF k < i THEN mp[k] ELSE IF k = i THEN e ELSE mp[k - 1]]

\* The address malloc returns.
MallocAddr(mp, size) ==
    IF Fits(mp, size) = {} THEN NoAddr ELSE mp[FirstFit(mp, size)].m_addr

\* A slip: the entry shrinks and keeps its address.
MallocMapAtEnd(mp, size) ==
    IF Fits(mp, size) = {} THEN mp
    ELSE LET i == FirstFit(mp, size)
         IN  IF mp[i].m_size = size
             THEN DropAt(mp, i)
             ELSE [mp EXCEPT ![i].m_size = @ - size]

\* The map malloc leaves behind.
MallocMap(mp, size) ==
    IF Fits(mp, size) = {} THEN mp
    ELSE LET i == FirstFit(mp, size)
         IN  IF mp[i].m_size = size
             THEN DropAt(mp, i)
             ELSE [mp EXCEPT ![i] = [m_size |-> mp[i].m_size - size,
                                     m_addr |-> mp[i].m_addr + size]]

\* Where mfree's scan stops: the first entry above address a, or one past the
\* last entry.
ScanStop(mp, a) ==
    CHOOSE i \in 1..(Len(mp) + 1) :
        /\ \A j \in 1..(i - 1) : mp[j].m_addr <= a
        /\ i <= Len(mp) => mp[i].m_addr > a

\* A slip: the freed run is joined to the entry below it only.
MfreeMapBelow(mp, size, a) ==
    LET i == ScanStop(mp, a)
    IN  IF i > 1 /\ mp[i - 1].m_addr + mp[i - 1].m_size = a
        THEN [mp EXCEPT ![i - 1].m_size = @ + size]
        ELSE PutAt(mp, i, [m_size |-> size, m_addr |-> a])

\* A slip: the freed run always becomes an entry of its own.
MfreeMapNoJoin(mp, size, a) ==
    PutAt(mp, ScanStop(mp, a), [m_size |-> size, m_addr |-> a])

\* The map mfree leaves behind: the freed run is joined to the entry below it,
\* to the entry above it, to both, or becomes an entry of its own.
MfreeMap(mp, size, a) ==
    LET i     == ScanStop(mp, a)
        below == i > 1 /\ mp[i - 1].m_addr + mp[i - 1].m_size = a
        above == i <= Len(mp) /\ a + size = mp[i].m_addr
    IN  CASE below /\ above ->
                DropAt([mp EXCEPT ![i - 1].m_size =
                                      @ + size + mp[i].m_size], i)
          [] below /\ ~above -> [mp EXCEPT ![i - 1].m_size = @ + size]
          [] ~below /\ above ->
                [mp EXCEPT ![i] = [m_size |-> @.m_size + size,
                                   m_addr |-> a]]
          [] OTHER ->
                IF size = 0 THEN mp
                ELSE PutAt(mp, i, [m_size |-> size, m_addr |-> a])

-----------------------------------------------------------------------------

\* The form every map keeps: nonzero sizes, increasing addresses, and a gap
\* between neighbours (touching runs are always joined).
WellFormed(mp) ==
    /\ \A i \in DOMAIN mp : mp[i].m_size > 0 /\ mp[i].m_addr > 0
    /\ \A i, j \in DOMAIN mp :
          i < j => mp[i].m_addr + mp[i].m_size < mp[j].m_addr
=============================================================================
