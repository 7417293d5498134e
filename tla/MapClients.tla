----------------------------- MODULE MapClients -----------------------------
(***************************************************************************)
(* A resource map and the clients that allocate from it and free to it.    *)
(* main() makes the map from the one run of units the machine has          *)
(* (ken/main.c); from then on every change is a malloc, or an mfree of a   *)
(* run that an earlier malloc returned (newproc, xswap, sched, exit, wait). *)
(* A malloc that finds no room changes nothing.                            *)
(***************************************************************************)
EXTENDS RMap, FiniteSets

CONSTANTS
    Base,       \* first unit of the arena
    Extent,     \* number of units in the arena
    Sizes       \* sizes that are asked for

ASSUME ArenaAssumption ==
    /\ Base \in Nat \ {0}
    /\ Extent \in Nat \ {0}
    /\ Sizes \subseteq Nat \ {0}

VARIABLES
    mp,         \* coremap or swapmap
    live        \* the runs that are allocated

vars == <<mp, live>>

Arena == Base .. (Base + Extent - 1)

\* main: mfree of the whole arena into the zeroed map array.
Init ==
    /\ mp = MfreeMap(<<>>, Extent, Base)
    /\ live = {}

\* A caller of malloc that finds room.
Malloc(size) ==
    /\ MallocAddr(mp, size) # NoAddr
    /\ live' = live \cup {[m_size |-> size, m_addr |-> MallocAddr(mp, size)]}
    /\ mp' = MallocMap(mp, size)

\* A caller of mfree gives back the run it holds.
Mfree(e) ==
    /\ live' = live \ {e}
    /\ mp' = MfreeMap(mp, e.m_size, e.m_addr)

Next ==
    \/ \E size \in Sizes : Malloc(size)
    \/ \E e \in live : Mfree(e)

Spec == Init /\ [][Next]_vars

-----------------------------------------------------------------------------
TypeOK ==
    /\ mp \in Seq(Entry)
    /\ live \subseteq Entry

\* No unit is handed out twice: the allocated runs are disjoint from each
\* other and from the free units, and no unit of the arena is lost
\* (ken/malloc.c malloc and mfree between them).
Conserved ==
    /\ \A d, e \in live : d # e => Units(d) \cap Units(e) = {}
    /\ \A e \in live : e.m_size > 0 /\ Units(e) \cap FreeUnits(mp) = {}
    /\ FreeUnits(mp) \cup UNION {Units(e) : e \in live} = Arena

\* The map's header comment: "The addresses are increasing", the counts are
\* nonzero, and neighbours that touch have been combined (mfree).
Sorted == WellFormed(mp)

\* malloc fails only when no run of size adjacent free units exists: mfree's
\* combining leaves no run split over two entries.
FailsOnlyWhenFull ==
    \A size \in Sizes :
        MallocAddr(mp, size) = NoAddr =>
            ~ \E a \in Arena : a .. (a + size - 1) \subseteq FreeUnits(mp)

\* The fixed array is large enough if it has one entry more than there can be
\* allocations (and one for the terminator): mfree inserts without a check.
EntriesBounded == Len(mp) <= Cardinality(live) + 1
=============================================================================
