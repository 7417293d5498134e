-------------------------- MODULE MapClientsProofs --------------------------
(***************************************************************************)
(* The resource maps (ken/malloc.c) keep their promises to any clients,    *)
(* for an arena and requests of any size.                                  *)
(***************************************************************************)
EXTENDS MapClients, RMapProofs, FiniteSetTheorems

\* The inductive invariant: the map is in order, the clients hold runs that
\* are not empty, and every unit of the arena has one place.
Inv ==
    /\ InForm(mp)
    /\ live \subseteq Entry /\ IsFiniteSet(live)
    /\ \A e \in live : e.m_addr > 0
    /\ Conserved

\* The units of a run, by address and size.
LEMMA UnitsAreRun == \A e : Units(e) = RunOf(e.m_addr, e.m_size)
BY DEF Units, RunOf

\* main leaves a map in order that holds the whole arena.
LEMMA InitInv == Init => Inv
<1> SUFFICES ASSUME Init PROVE Inv
    OBVIOUS
<1>1. Base \in Nat \ {0} /\ Extent \in Nat \ {0}
    BY ArenaAssumption
<1>2. RunOf(Base, Extent) \cap FreeUnits(<<>>) = {}
    BY EmptyMap
<1>3. InForm(mp) /\ FreeUnits(mp) = {} \cup RunOf(Base, Extent)
    BY <1>1, <1>2, EmptyMap, MfreeRun DEF Init
<1>4. live = {} /\ IsFiniteSet(live)
    BY FS_EmptySet DEF Init
<1>5. FreeUnits(mp) = Arena
    BY <1>3 DEF Arena, RunOf
<1> QED
    BY <1>3, <1>4, <1>5 DEF Inv, Conserved

\* malloc moves units from the map to a client.
LEMMA MallocInv ==
    ASSUME Inv, NEW size \in Sizes, Malloc(size)
    PROVE  Inv'
<1> DEFINE a == MallocAddr(mp, size)
           e == [m_size |-> size, m_addr |-> a]
<1>1. size \in Nat \ {0} /\ InForm(mp) /\ a # NoAddr
    BY ArenaAssumption DEF Inv, Malloc
<1>2. /\ a \in Nat \ {0} /\ InForm(mp')
      /\ RunOf(a, size) \subseteq FreeUnits(mp)
      /\ FreeUnits(mp') = FreeUnits(mp) \ RunOf(a, size)
    BY <1>1, MallocSome DEF Malloc
<1>3. live' = live \cup {e}
    BY DEF Malloc
<1> HIDE DEF a
<1>4. e \in Entry /\ e.m_size = size /\ e.m_addr = a
    BY <1>1, <1>2 DEF Entry
<1>5. Units(e) = RunOf(a, size)
    BY <1>4, UnitsAreRun
<1> HIDE DEF e
<1>6. IsFiniteSet(live') /\ live' \subseteq Entry /\ \A d \in live' : d.m_addr > 0
    BY <1>2, <1>3, <1>4, FS_AddElement DEF Inv
<1>7. ASSUME NEW d \in live PROVE Units(d) \cap Units(e) = {}
    BY <1>2, <1>5 DEF Inv, Conserved
<1>8. \A d, f \in live' : d # f => Units(d) \cap Units(f) = {}
    BY <1>3, <1>7 DEF Inv, Conserved
<1>9. \A d \in live' : d.m_size > 0 /\ Units(d) \cap FreeUnits(mp') = {}
    <2>1. ASSUME NEW d \in live PROVE d.m_size > 0 /\ Units(d) \cap FreeUnits(mp') = {}
        BY <1>2 DEF Inv, Conserved
    <2>2. e.m_size > 0 /\ Units(e) \cap FreeUnits(mp') = {}
        BY <1>1, <1>2, <1>4, <1>5
    <2> QED
        BY <1>3, <2>1, <2>2
<1>10. FreeUnits(mp') \cup UNION {Units(d) : d \in live'} = Arena
    <2>1. UNION {Units(d) : d \in live'} =
             (UNION {Units(d) : d \in live}) \cup Units(e)
        BY <1>3
    <2>2. FreeUnits(mp) \cup UNION {Units(d) : d \in live} = Arena
        BY DEF Inv, Conserved
    <2> QED
        BY <1>2, <1>5, <2>1, <2>2
<1> QED
    BY <1>2, <1>6, <1>8, <1>9, <1>10 DEF Inv, Conserved, Arena

\* mfree moves them back.
LEMMA MfreeInv ==
    ASSUME Inv, NEW e \in live, Mfree(e)
    PROVE  Inv'
<1>1. /\ e \in Entry /\ e.m_size > 0 /\ e.m_addr > 0
      /\ Units(e) \cap FreeUnits(mp) = {} /\ InForm(mp)
    BY DEF Inv, Conserved
<1>2. e.m_size \in Nat \ {0} /\ e.m_addr \in Nat \ {0}
    BY <1>1 DEF Entry
<1>3. Units(e) = RunOf(e.m_addr, e.m_size)
    BY UnitsAreRun
<1>4. InForm(mp') /\ FreeUnits(mp') = FreeUnits(mp) \cup Units(e)
    BY <1>1, <1>2, <1>3, MfreeRun DEF Mfree
<1>5. live' = live \ {e} /\ live' \subseteq live
    BY DEF Mfree
<1>6. IsFiniteSet(live')
    BY <1>5, FS_RemoveElement DEF Inv
<1>7. \A d, f \in live' : d # f => Units(d) \cap Units(f) = {}
    BY <1>5 DEF Inv, Conserved
<1>8. ASSUME NEW d \in live'
      PROVE  d.m_size > 0 /\ Units(d) \cap FreeUnits(mp') = {}
    <2>1. d \in live /\ d # e /\ Units(d) \cap Units(e) = {}
        BY <1>5 DEF Inv, Conserved
    <2> QED
        BY <2>1, <1>4 DEF Inv, Conserved
<1>9. FreeUnits(mp') \cup UNION {Units(d) : d \in live'} = Arena
    <2>1. UNION {Units(d) : d \in live} =
             (UNION {Units(d) : d \in live'}) \cup Units(e)
        BY <1>5
    <2>2. FreeUnits(mp) \cup UNION {Units(d) : d \in live} = Arena
        BY DEF Inv, Conserved
    <2> QED
        BY <1>4, <2>1, <2>2
<1> QED
    BY <1>4, <1>5, <1>6, <1>7, <1>8, <1>9 DEF Inv, Conserved, Arena

\* The inductive invariant holds of every behaviour.
LEMMA Invariance == Spec => []Inv
<1>1. Init => Inv
    BY InitInv
<1>2. Inv /\ [Next]_vars => Inv'
    <2> SUFFICES ASSUME Inv, [Next]_vars PROVE Inv'
        OBVIOUS
    <2>1. CASE \E size \in Sizes : Malloc(size)
        BY <2>1, MallocInv
    <2>2. CASE \E e \in live : Mfree(e)
        BY <2>2, MfreeInv
    <2>3. CASE UNCHANGED vars
        BY <2>3 DEF vars, Inv, Conserved, Arena
    <2> QED
        BY <2>1, <2>2, <2>3 DEF Next
<1> QED
    BY <1>1, <1>2, PTL DEF Spec

-----------------------------------------------------------------------------
\* Every variable of the clients' model has its type.
THEOREM TypeCorrect == Spec => []TypeOK
<1>1. Inv => TypeOK
    BY DEF Inv, TypeOK, InForm
<1> QED
    BY <1>1, Invariance, PTL

\* No unit is handed out twice and none is lost: malloc and mfree keep the
\* runs of the clients disjoint from each other and from the map, and all of
\* them together are the arena.
THEOREM NoUnitLost == Spec => []Conserved
<1>1. Inv => Conserved
    BY DEF Inv
<1> QED
    BY <1>1, Invariance, PTL

\* The map keeps the form its header comment promises.
THEOREM StaysSorted == Spec => []Sorted
<1>1. Inv => Sorted
    BY DEF Inv, InForm, Sorted
<1> QED
    BY <1>1, Invariance, PTL

\* malloc fails only when there is no run of free units that is long enough.
THEOREM FailsOnlyWhenItMust == Spec => []FailsOnlyWhenFull
<1>1. ASSUME Inv PROVE FailsOnlyWhenFull
    <2> SUFFICES ASSUME NEW size \in Sizes, MallocAddr(mp, size) = NoAddr,
                        NEW a \in Arena, a..(a + size - 1) \subseteq FreeUnits(mp)
                 PROVE  FALSE
        BY DEF FailsOnlyWhenFull
    <2>1. size \in Nat \ {0} /\ a \in Int /\ InForm(mp)
        BY <1>1, ArenaAssumption DEF Arena, Inv
    <2>2. RunOf(a, size) \subseteq FreeUnits(mp)
        BY DEF RunOf
    <2>3. Fits(mp, size) # {}
        BY <2>1, <2>2, FreeRunInEntry
    <2>4. Fits(mp, size) = {}
        BY <2>1, MallocNone
    <2> QED
        BY <2>3, <2>4
<1> QED
    BY <1>1, Invariance, PTL

\* mfree never needs more entries than there are runs in use, and one: each
\* gap between two entries is in the hands of a client of its own.
THEOREM ArrayLargeEnough == Spec => []EntriesBounded
<1>1. ASSUME Inv PROVE EntriesBounded
    <2> DEFINE L == Len(mp)
               Gap(k) == mp[k].m_addr + mp[k].m_size
               f == [k \in 1..(L - 1) |-> CHOOSE e \in live : Gap(k) \in Units(e)]
    <2>1. /\ InForm(mp) /\ L \in Nat
          /\ \A k \in 1..L : /\ mp[k].m_addr \in Nat
                             /\ mp[k].m_size \in Nat /\ mp[k].m_size > 0
          /\ \A j, k \in 1..L : j < k => Gap(j) < mp[k].m_addr
        BY <1>1, FormFacts DEF Inv
    <2>2. ASSUME NEW x, x \in FreeUnits(mp) PROVE x \in Arena
        BY <1>1, <2>2 DEF Inv, Conserved
    <2>10. ASSUME NEW j \in 1..L PROVE mp[j].m_addr \in FreeUnits(mp)
        <3> DEFINE y == mp[j].m_addr
        <3>1. y \in Int /\ mp[j].m_addr <= y /\ y < mp[j].m_addr + mp[j].m_size
            BY <2>1
        <3> HIDE DEF y
        <3>2. y \in FreeUnits(mp)
            BY <2>1, <3>1, InFree
        <3> QED
            BY <3>2 DEF y
    <2>3. ASSUME NEW k \in 1..(L - 1)
          PROVE  Gap(k) \in Int /\ \E e \in live : Gap(k) \in Units(e)
        <3>1. k \in 1..L /\ k + 1 \in 1..L /\ k < k + 1 /\ Gap(k) \in Int
            BY <2>1
        <3>2. Gap(k) < mp[k + 1].m_addr
            BY <2>1, <3>1
        <3>3. mp[k].m_addr \in FreeUnits(mp) /\ mp[k + 1].m_addr \in FreeUnits(mp)
            BY <3>1, <2>10
        <3>4. mp[k].m_addr \in Arena /\ mp[k + 1].m_addr \in Arena
            BY <2>2, <3>3
        <3>5. Gap(k) \in Arena
            BY <2>1, <3>1, <3>2, <3>4, ArenaAssumption, SMTT(40) DEF Arena
        <3>6. Gap(k) \notin FreeUnits(mp)
            <4>1. ASSUME NEW j \in 1..L, mp[j].m_addr <= Gap(k),
                         Gap(k) < mp[j].m_addr + mp[j].m_size
                  PROVE  FALSE
                <5>1. j = k
                    BY <4>1, <2>1, <3>1, OneEntry, SMTT(40)
                <5> QED
                    BY <4>1, <5>1, <2>1, <3>1
            <4> QED
                BY <4>1, <2>1, InFree
        <3> QED
            BY <1>1, <3>1, <3>5, <3>6 DEF Inv, Conserved
    <2>4. \A k \in 1..(L - 1) : f[k] \in live /\ Gap(k) \in Units(f[k])
        BY <2>3
    <2> HIDE DEF f
    <2>5. ASSUME NEW j \in 1..(L - 1), NEW k \in 1..(L - 1), j < k
          PROVE  f[j] # f[k]
        <3> SUFFICES ASSUME f[j] = f[k] PROVE FALSE
            OBVIOUS
        <3> DEFINE e == f[j]
                   x == mp[k].m_addr
        <3>1. /\ e \in live /\ e.m_addr \in Nat /\ e.m_size \in Nat
              /\ Gap(j) \in Units(e) /\ Gap(k) \in Units(e)
            BY <1>1, <2>4 DEF Inv, Entry
        <3>2. /\ j \in 1..L /\ k \in 1..L /\ x \in Nat
              /\ Gap(j) \in Int /\ Gap(j) < x /\ x < Gap(k)
            BY <2>1, <2>5
        <3> HIDE DEF e
        <3>3. x \in Units(e)
            BY <3>1, <3>2, SMTT(40) DEF Units
        <3>4. x \in FreeUnits(mp)
            BY <3>2, <2>10
        <3> QED
            BY <1>1, <3>1, <3>3, <3>4 DEF Inv, Conserved
    <2>6. f \in Injection(1..(L - 1), live)
        <3>1. f \in [1..(L - 1) -> live]
            BY <2>4 DEF f
        <3>2. ASSUME NEW j \in 1..(L - 1), NEW k \in 1..(L - 1), f[j] = f[k]
              PROVE  j = k
            BY <2>5, <3>2
        <3> QED
            BY <3>1, <3>2 DEF Injection, IsInjective
    <2>7. /\ IsFiniteSet(live) /\ Cardinality(live) \in Nat
          /\ Cardinality(1..(L - 1)) <= Cardinality(live)
        BY <1>1, <2>6, FS_Injection, FS_CardinalityType DEF Inv
    <2>8. Cardinality(1..(L - 1)) = IF 1 > L - 1 THEN 0 ELSE (L - 1) - 1 + 1
        BY <2>1, FS_Interval, SMTT(40)
    <2> QED
        BY <2>1, <2>7, <2>8 DEF EntriesBounded
<1> QED
    BY <1>1, Invariance, PTL
=============================================================================
