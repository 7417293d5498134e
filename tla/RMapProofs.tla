----------------------------- MODULE RMapProofs -----------------------------
(***************************************************************************)
(* What malloc and mfree (ken/malloc.c) do to a map that is in order, for  *)
(* maps of any length and runs of any size.                                *)
(***************************************************************************)
EXTENDS RMap, WellFoundedInduction, TLAPS

-----------------------------------------------------------------------------
\* A set of natural numbers that is not empty has a least element: what the
\* scans of malloc and mfree stop at exists.
LEMMA LeastNatural ==
    ASSUME NEW S \in SUBSET Nat, S # {}
    PROVE  \E m \in S : \A n \in S : m <= n
<1> DEFINE R == OpToRel(<, Nat)
<1>1. \E x \in S : \A y \in S : ~(<<y, x>> \in R)
    BY NatLessThanWellFounded, WFMin
<1>2. PICK x \in S : \A y \in S : <<y, x>> \notin R
    BY <1>1
<1>3. ASSUME NEW y \in S PROVE x <= y
    <2>1. <<y, x>> \notin {ss \in Nat \X Nat : ss[1] < ss[2]}
        BY <1>2 DEF OpToRel
    <2> QED
        BY <2>1
<1> QED
    BY <1>3

\* The same for a set of indexes that the code scans upwards.
LEMMA FirstIndex ==
    ASSUME NEW n \in Nat, NEW S \in SUBSET (1..n), S # {}
    PROVE  \E m \in S : \A k \in S : m <= k
BY LeastNatural

-----------------------------------------------------------------------------
(* Maps in order.                                                           *)

\* The form of a map between two calls: entries as the header comment of
\* malloc.c says, "increasing" and apart.
InForm(mp) == mp \in Seq(Entry) /\ WellFormed(mp)

\* The units of a run of n units from a.
RunOf(a, n) == a .. (a + n - 1)

\* What is known of a map in order, entry by entry.
LEMMA FormFacts ==
    ASSUME NEW mp, InForm(mp)
    PROVE  /\ Len(mp) \in Nat /\ DOMAIN mp = 1..Len(mp)
           /\ \A k \in 1..Len(mp) :
                 /\ mp[k] \in Entry
                 /\ mp[k] = [m_size |-> mp[k].m_size, m_addr |-> mp[k].m_addr]
                 /\ mp[k].m_addr \in Nat /\ mp[k].m_addr > 0
                 /\ mp[k].m_size \in Nat /\ mp[k].m_size > 0
           /\ \A j, k \in 1..Len(mp) :
                 j < k => mp[j].m_addr + mp[j].m_size < mp[k].m_addr
<1>1. mp \in Seq(Entry)
    BY DEF InForm
<1>2. /\ Len(mp) \in Nat /\ DOMAIN mp = 1..Len(mp)
      /\ \A k \in 1..Len(mp) : mp[k] \in Entry
    BY <1>1
<1>3. ASSUME NEW e \in Entry
      PROVE  /\ e = [m_size |-> e.m_size, m_addr |-> e.m_addr]
             /\ e.m_addr \in Nat /\ e.m_size \in Nat
    BY DEF Entry
<1> QED
    BY <1>2, <1>3 DEF InForm, WellFormed

\* A sequence of entries with the properties of a map in order is one.
LEMMA FormIntro ==
    ASSUME NEW n \in Nat, NEW mp, DOMAIN mp = 1..n, mp = [k \in 1..n |-> mp[k]],
           \A k \in 1..n : /\ mp[k] \in Entry
                           /\ mp[k].m_size > 0 /\ mp[k].m_addr > 0,
           \A j, k \in 1..n :
               j < k => mp[j].m_addr + mp[j].m_size < mp[k].m_addr
    PROVE  InForm(mp) /\ Len(mp) = n
<1>1. mp \in [1..n -> Entry]
    OBVIOUS
<1>2. mp \in Seq(Entry) /\ Len(mp) = n
    BY <1>1
<1>3. WellFormed(mp)
    BY DEF WellFormed
<1> QED
    BY <1>2, <1>3 DEF InForm

\* A unit is free when an entry covers it.
LEMMA InFree ==
    ASSUME NEW mp, InForm(mp), NEW x
    PROVE  x \in FreeUnits(mp) <=>
              /\ x \in Int
              /\ \E k \in 1..Len(mp) :
                    /\ mp[k].m_addr <= x
                    /\ x < mp[k].m_addr + mp[k].m_size
<1>0. /\ DOMAIN mp = 1..Len(mp)
      /\ \A k \in 1..Len(mp) : mp[k].m_addr \in Nat /\ mp[k].m_size \in Nat
    BY FormFacts
<1>1. x \in FreeUnits(mp) <=> \E k \in 1..Len(mp) : x \in Units(mp[k])
    BY <1>0 DEF FreeUnits
<1>2. ASSUME NEW k \in 1..Len(mp)
      PROVE  x \in Units(mp[k]) <=> /\ x \in Int
                                    /\ mp[k].m_addr <= x
                                    /\ x < mp[k].m_addr + mp[k].m_size
    BY <1>0 DEF Units
<1> QED
    BY <1>1, <1>2

\* Two entries that cover one unit are the same.
LEMMA OneEntry ==
    ASSUME NEW mp, InForm(mp), NEW x \in Int,
           NEW j \in 1..Len(mp), NEW k \in 1..Len(mp),
           mp[j].m_addr <= x, x <= mp[j].m_addr + mp[j].m_size,
           mp[k].m_addr <= x, x < mp[k].m_addr + mp[k].m_size
    PROVE  j = k
<1>1. /\ Len(mp) \in Nat
      /\ \A i \in 1..Len(mp) : mp[i].m_addr \in Nat /\ mp[i].m_size \in Nat
      /\ j < k => mp[j].m_addr + mp[j].m_size < mp[k].m_addr
      /\ k < j => mp[k].m_addr + mp[k].m_size < mp[j].m_addr
    BY FormFacts
<1>2. PICK a \in Nat, s \in Nat : a = mp[j].m_addr /\ s = mp[j].m_size
    BY <1>1
<1>3. PICK b \in Nat, t \in Nat : b = mp[k].m_addr /\ t = mp[k].m_size
    BY <1>1
<1>4. a <= x /\ x <= a + s /\ b <= x /\ x < b + t
    BY <1>2, <1>3
<1>5. (j < k => a + s < b) /\ (k < j => b + t < a)
    BY <1>1, <1>2, <1>3
<1>6. ~(j < k) /\ ~(k < j)
    BY <1>4, <1>5
<1> QED
    BY <1>1, <1>6

-----------------------------------------------------------------------------
(* malloc.                                                                  *)

\* The scan of malloc stops at an entry that is large enough.
LEMMA FirstFitFound ==
    ASSUME NEW mp, InForm(mp), NEW size, Fits(mp, size) # {}
    PROVE  /\ FirstFit(mp, size) \in 1..Len(mp)
           /\ mp[FirstFit(mp, size)].m_size >= size
<1>1. Len(mp) \in Nat /\ DOMAIN mp = 1..Len(mp)
    BY FormFacts
<1>2. Fits(mp, size) \in SUBSET (1..Len(mp))
    BY <1>1 DEF Fits
<1>3. \E i \in Fits(mp, size) : \A j \in Fits(mp, size) : i <= j
    BY <1>1, <1>2, FirstIndex
<1>4. FirstFit(mp, size) \in Fits(mp, size)
    BY <1>3 DEF FirstFit
<1> QED
    BY <1>1, <1>4 DEF Fits

\* malloc returns 0 exactly when no entry is large enough, and then changes
\* nothing.
LEMMA MallocNone ==
    ASSUME NEW mp, InForm(mp), NEW size
    PROVE  /\ (MallocAddr(mp, size) = NoAddr) <=> (Fits(mp, size) = {})
           /\ MallocAddr(mp, size) = NoAddr => MallocMap(mp, size) = mp
           /\ MallocAddr(mp, size) \in Nat
<1>1. CASE Fits(mp, size) = {}
    BY <1>1 DEF MallocAddr, MallocMap, NoAddr
<1>2. CASE Fits(mp, size) # {}
    <2>1. mp[FirstFit(mp, size)].m_addr \in Nat /\ mp[FirstFit(mp, size)].m_addr > 0
        BY <1>2, FirstFitFound, FormFacts
    <2> QED
        BY <2>1, <1>2 DEF MallocAddr, NoAddr
<1> QED
    BY <1>1, <1>2

\* An entry taken out of a map.
LEMMA DropForm ==
    ASSUME NEW mp, InForm(mp), NEW i \in 1..Len(mp)
    PROVE  /\ InForm(DropAt(mp, i)) /\ Len(DropAt(mp, i)) = Len(mp) - 1
           /\ \A k \in 1..(Len(mp) - 1) :
                 DropAt(mp, i)[k] = IF k < i THEN mp[k] ELSE mp[k + 1]
<1> DEFINE n == DropAt(mp, i)
           L == Len(mp) - 1
<1>1. L \in Nat /\ Len(mp) = L + 1 /\ i \in 1..(L + 1)
    BY FormFacts
<1>2. /\ DOMAIN n = 1..L /\ n = [k \in 1..L |-> n[k]]
      /\ \A k \in 1..L : n[k] = IF k < i THEN mp[k] ELSE mp[k + 1]
    BY DEF DropAt
<1> HIDE DEF n
<1>3. ASSUME NEW k \in 1..L
      PROVE  n[k] \in Entry /\ n[k].m_size > 0 /\ n[k].m_addr > 0
    <2> DEFINE kk == IF k < i THEN k ELSE k + 1
    <2>1. kk \in 1..Len(mp) /\ n[k] = mp[kk]
        BY <1>1, <1>2
    <2>2. mp[kk] \in Entry /\ mp[kk].m_size > 0 /\ mp[kk].m_addr > 0
        BY <2>1, FormFacts
    <2> QED
        BY <2>1, <2>2
<1>4. ASSUME NEW j \in 1..L, NEW k \in 1..L, j < k
      PROVE  n[j].m_addr + n[j].m_size < n[k].m_addr
    <2> DEFINE jj == IF j < i THEN j ELSE j + 1
               kk == IF k < i THEN k ELSE k + 1
    <2>1. /\ jj \in 1..Len(mp) /\ kk \in 1..Len(mp) /\ jj < kk
          /\ n[j] = mp[jj] /\ n[k] = mp[kk]
        BY <1>1, <1>2, <1>4
    <2> QED
        BY <2>1, FormFacts
<1>5. InForm(n) /\ Len(n) = L
    BY <1>1, <1>2, <1>3, <1>4, FormIntro
<1> QED
    BY <1>2, <1>5 DEF n

\* malloc of an entry that fits exactly: the entry goes.
LEMMA MallocExact ==
    ASSUME NEW mp, InForm(mp), NEW i \in 1..Len(mp), NEW x
    PROVE  x \in FreeUnits(DropAt(mp, i)) <=>
              /\ x \in FreeUnits(mp)
              /\ x \notin RunOf(mp[i].m_addr, mp[i].m_size)
<1> DEFINE n == DropAt(mp, i)
<1>1. /\ Len(mp) \in Nat
      /\ \A k \in 1..Len(mp) : mp[k].m_addr \in Nat /\ mp[k].m_size \in Nat
    BY FormFacts
<1>2. /\ InForm(n) /\ Len(n) = Len(mp) - 1
      /\ \A k \in 1..(Len(mp) - 1) : n[k] = IF k < i THEN mp[k] ELSE mp[k + 1]
    BY DropForm
<1> HIDE DEF n
<1>3. ASSUME x \in FreeUnits(n)
      PROVE  x \in FreeUnits(mp) /\ x \notin RunOf(mp[i].m_addr, mp[i].m_size)
    <2>1. PICK k \in 1..Len(n) : /\ x \in Int /\ n[k].m_addr <= x
                                 /\ x < n[k].m_addr + n[k].m_size
        BY <1>2, <1>3, InFree
    <2> DEFINE kk == IF k < i THEN k ELSE k + 1
    <2>2. kk \in 1..Len(mp) /\ kk # i /\ n[k] = mp[kk]
        BY <1>1, <1>2
    <2>3. x \in FreeUnits(mp)
        BY <2>1, <2>2, InFree
    <2>4. ~(mp[i].m_addr <= x /\ x < mp[i].m_addr + mp[i].m_size)
        BY <2>1, <2>2, <1>1, OneEntry, SMTT(40)
    <2> QED
        BY <2>1, <2>3, <2>4, <1>1 DEF RunOf
<1>4. ASSUME x \in FreeUnits(mp), x \notin RunOf(mp[i].m_addr, mp[i].m_size)
      PROVE  x \in FreeUnits(n)
    <2>1. PICK k \in 1..Len(mp) : /\ x \in Int /\ mp[k].m_addr <= x
                                  /\ x < mp[k].m_addr + mp[k].m_size
        BY <1>4, InFree
    <2>2. k # i
        BY <2>1, <1>1, <1>4 DEF RunOf
    <2> DEFINE kk == IF k < i THEN k ELSE k - 1
    <2>3. kk \in 1..Len(n) /\ n[kk] = mp[k]
        <3>1. CASE k < i
            <4>1. k \in 1..(Len(mp) - 1)
                BY <3>1, <1>1
            <4> QED
                BY <3>1, <4>1, <1>2
        <3>2. CASE k > i
            <4>1. k - 1 \in 1..(Len(mp) - 1) /\ ~(k - 1 < i) /\ (k - 1) + 1 = k
                BY <3>2, <1>1
            <4>2. n[k - 1] = mp[k]
                BY <4>1, <1>2
            <4> QED
                BY <3>2, <4>1, <4>2, <1>2
        <3> QED
            BY <2>2, <3>1, <3>2, <1>1
    <2> QED
        BY <2>1, <2>3, <1>2, InFree
<1> QED
    BY <1>3, <1>4 DEF n

\* malloc of a part of an entry: the entry keeps its end.
Shrunk(mp, i, size) ==
    [mp EXCEPT ![i] = [m_size |-> mp[i].m_size - size,
                       m_addr |-> mp[i].m_addr + size]]

\* malloc of a part takes it from the low end of the entry.
LEMMA MallocPart ==
    ASSUME NEW mp, InForm(mp), NEW i \in 1..Len(mp),
           NEW size \in Nat \ {0}, mp[i].m_size > size
    PROVE  /\ InForm(Shrunk(mp, i, size))
           /\ \A x : x \in FreeUnits(Shrunk(mp, i, size)) <=>
                       /\ x \in FreeUnits(mp)
                       /\ x \notin RunOf(mp[i].m_addr, size)
<1> DEFINE L == Len(mp)
           n == Shrunk(mp, i, size)
<1>1. /\ L \in Nat /\ DOMAIN mp = 1..L
      /\ \A k \in 1..L :
            /\ mp[k] \in Entry
            /\ mp[k].m_addr \in Nat /\ mp[k].m_addr > 0
            /\ mp[k].m_size \in Nat /\ mp[k].m_size > 0
      /\ \A j, k \in 1..L :
            j < k => mp[j].m_addr + mp[j].m_size < mp[k].m_addr
    BY FormFacts
<1>2. /\ DOMAIN n = 1..L /\ n = [k \in 1..L |-> n[k]]
      /\ \A k \in 1..L : k # i => n[k] = mp[k]
      /\ n[i].m_size = mp[i].m_size - size /\ n[i].m_addr = mp[i].m_addr + size
      /\ n[i] = [m_size |-> mp[i].m_size - size, m_addr |-> mp[i].m_addr + size]
    BY <1>1 DEF Shrunk
<1> HIDE DEF n
<1>3. n[i] \in Entry
    <2>1. mp[i].m_size - size \in Nat /\ mp[i].m_addr + size \in Nat
        BY <1>1
    <2> QED
        BY <1>2, <2>1 DEF Entry
<1>4. \A k \in 1..L : n[k] \in Entry /\ n[k].m_size > 0 /\ n[k].m_addr > 0
    <2>1. PICK a \in Nat, s \in Nat : a = mp[i].m_addr /\ s = mp[i].m_size
        BY <1>1
    <2>2. s - size > 0 /\ a + size > 0 /\ n[i].m_size = s - size /\ n[i].m_addr = a + size
        BY <1>2, <2>1
    <2>3. n[i] \in Entry /\ n[i].m_size > 0 /\ n[i].m_addr > 0
        BY <1>3, <2>2
    <2>4. ASSUME NEW k \in 1..L, k # i
          PROVE  n[k] \in Entry /\ n[k].m_size > 0 /\ n[k].m_addr > 0
        BY <1>1, <1>2, <2>4
    <2> QED
        BY <2>3, <2>4
<1>5. ASSUME NEW j \in 1..L, NEW k \in 1..L, j < k
      PROVE  n[j].m_addr + n[j].m_size < n[k].m_addr
    <2>1. mp[j].m_addr + mp[j].m_size < mp[k].m_addr
        BY <1>1, <1>5
    <2>2. PICK a \in Nat, s \in Nat : a = mp[i].m_addr /\ s = mp[i].m_size
        BY <1>1
    <2>3. n[i].m_addr = a + size /\ n[i].m_size = s - size
        BY <1>2, <2>2
    <2>4. n[i].m_addr + n[i].m_size = a + s /\ a < a + size
        <3>1. (a + size) + (s - size) = a + s /\ a < a + size
            OBVIOUS
        <3> QED
            BY <2>3, <3>1, Zenon
    <2>5. CASE j = i
        BY <2>1, <2>5, <2>2, <2>4, <1>2, <1>5
    <2>6. CASE k = i
        <3>1. j # i /\ n[j] = mp[j]
            BY <1>2, <1>5, <2>6
        <3>2. PICK z \in Nat : z = mp[j].m_addr + mp[j].m_size
            BY <1>1
        <3>3. z < a
            BY <2>1, <2>6, <2>2, <3>2
        <3> QED
            BY <2>6, <2>3, <2>4, <3>1, <3>2, <3>3
    <2>7. CASE j # i /\ k # i
        BY <2>1, <2>7, <1>2
    <2> QED
        BY <2>5, <2>6, <2>7
<1>6. InForm(n) /\ Len(n) = L
    BY <1>1, <1>2, <1>4, <1>5, FormIntro
<1>7. ASSUME NEW x \in Int
      PROVE  (\E k \in 1..L : /\ n[k].m_addr <= x
                              /\ x < n[k].m_addr + n[k].m_size)
             <=> /\ \E k \in 1..L : /\ mp[k].m_addr <= x
                                    /\ x < mp[k].m_addr + mp[k].m_size
                 /\ ~(mp[i].m_addr <= x /\ x < mp[i].m_addr + size)
    <2>1. ASSUME NEW k \in 1..L, n[k].m_addr <= x, x < n[k].m_addr + n[k].m_size
          PROVE  /\ mp[k].m_addr <= x /\ x < mp[k].m_addr + mp[k].m_size
                 /\ ~(mp[i].m_addr <= x /\ x < mp[i].m_addr + size)
        <3>1. CASE k = i
            BY <2>1, <3>1, <1>1, <1>2
        <3>2. CASE k # i
            <4>1. mp[k].m_addr <= x /\ x < mp[k].m_addr + mp[k].m_size
                BY <2>1, <3>2, <1>2
            <4>2. ~(mp[i].m_addr <= x /\ x < mp[i].m_addr + mp[i].m_size)
                BY <4>1, <3>2, <1>1, OneEntry, SMTT(40)
            <4> QED
                BY <4>1, <4>2, <1>1
        <3> QED
            BY <3>1, <3>2
    <2>2. ASSUME NEW k \in 1..L, mp[k].m_addr <= x, x < mp[k].m_addr + mp[k].m_size,
                 ~(mp[i].m_addr <= x /\ x < mp[i].m_addr + size)
          PROVE  n[k].m_addr <= x /\ x < n[k].m_addr + n[k].m_size
        <3>1. CASE k = i
            <4>1. PICK a \in Nat, s \in Nat : a = mp[i].m_addr /\ s = mp[i].m_size
                BY <1>1
            <4>2. n[i].m_addr = a + size /\ n[i].m_size = s - size
                BY <1>2, <4>1
            <4>3. a <= x /\ x < a + s /\ ~(x < a + size)
                BY <2>2, <3>1, <4>1
            <4> QED
                BY <3>1, <4>2, <4>3
        <3>2. CASE k # i
            BY <2>2, <3>2, <1>2
        <3> QED
            BY <3>1, <3>2
    <2> QED
        BY <2>1, <2>2
<1>8. ASSUME NEW x
      PROVE  x \in FreeUnits(n) <=> /\ x \in FreeUnits(mp)
                                    /\ x \notin RunOf(mp[i].m_addr, size)
    <2>1. x \in RunOf(mp[i].m_addr, size) <=>
             x \in Int /\ mp[i].m_addr <= x /\ x < mp[i].m_addr + size
        BY <1>1 DEF RunOf
    <2>2. x \in FreeUnits(mp) <=>
             /\ x \in Int
             /\ \E k \in 1..L : /\ mp[k].m_addr <= x
                                /\ x < mp[k].m_addr + mp[k].m_size
        BY InFree
    <2>3. x \in FreeUnits(n) <=>
             /\ x \in Int
             /\ \E k \in 1..L : /\ n[k].m_addr <= x
                                /\ x < n[k].m_addr + n[k].m_size
        BY <1>6, InFree
    <2> QED
        BY <2>1, <2>2, <2>3, <1>7
<1> QED
    BY <1>6, <1>8 DEF n

\* malloc hands out a run of free units and takes exactly these off the map,
\* which stays in order.
LEMMA MallocSome ==
    ASSUME NEW mp, InForm(mp), NEW size \in Nat \ {0},
           MallocAddr(mp, size) # NoAddr
    PROVE  /\ MallocAddr(mp, size) \in Nat \ {0}
           /\ InForm(MallocMap(mp, size))
           /\ RunOf(MallocAddr(mp, size), size) \subseteq FreeUnits(mp)
           /\ FreeUnits(MallocMap(mp, size)) =
                 FreeUnits(mp) \ RunOf(MallocAddr(mp, size), size)
<1> DEFINE i == FirstFit(mp, size)
           n == MallocMap(mp, size)
           a == mp[i].m_addr
<1>1. Fits(mp, size) # {}
    BY MallocNone
<1>2. i \in 1..Len(mp) /\ mp[i].m_size >= size
    BY <1>1, FirstFitFound
<1>3. /\ MallocAddr(mp, size) = a
      /\ n = IF mp[i].m_size = size THEN DropAt(mp, i)
             ELSE [mp EXCEPT ![i] = [m_size |-> mp[i].m_size - size,
                                     m_addr |-> mp[i].m_addr + size]]
    BY <1>1 DEF MallocAddr, MallocMap
<1> HIDE DEF i, n
<1>4. /\ Len(mp) \in Nat /\ a \in Nat /\ a > 0
      /\ mp[i].m_size \in Nat
    BY <1>2, FormFacts
<1>5. InForm(n) /\ \A x : x \in FreeUnits(n) <=> /\ x \in FreeUnits(mp)
                                                 /\ x \notin RunOf(a, size)
    <2>1. CASE mp[i].m_size = size
        BY <2>1, <1>2, <1>3, DropForm, MallocExact
    <2>2. CASE mp[i].m_size # size
        <3>1. mp[i].m_size > size /\ n = Shrunk(mp, i, size)
            BY <2>2, <1>2, <1>3, <1>4 DEF Shrunk
        <3> QED
            BY <3>1, <1>2, MallocPart
    <2> QED
        BY <2>1, <2>2
<1>6. RunOf(a, size) \subseteq FreeUnits(mp)
    <2>1. ASSUME NEW x \in RunOf(a, size) PROVE x \in FreeUnits(mp)
        <3>1. x \in Int /\ mp[i].m_addr <= x /\ x < mp[i].m_addr + mp[i].m_size
            BY <1>2, <1>4 DEF RunOf
        <3> QED
            BY <3>1, <1>2, InFree
    <2> QED
        BY <2>1
<1>7. FreeUnits(n) = FreeUnits(mp) \ RunOf(a, size)
    BY <1>5
<1>8. MallocAddr(mp, size) = a
    BY <1>3
<1> HIDE DEF a
<1> QED
    BY <1>4, <1>5, <1>6, <1>7, <1>8 DEF n

-----------------------------------------------------------------------------
(* mfree.                                                                   *)

\* Entry e covers unit x.
Covers(e, x) == e.m_addr <= x /\ x < e.m_addr + e.m_size

\* n is mp with entry e in the place of entries c to c + d; e covers what they
\* did and the units of U, and keeps clear of the others.
IsSplice(mp, n, N, c, d, e, U) ==
    /\ N \in Nat /\ c \in 1..N /\ d \in {-1, 0, 1} /\ Len(mp) = N + d
    /\ e \in Entry /\ e.m_size > 0 /\ e.m_addr > 0
    /\ DOMAIN n = 1..N /\ n = [k \in 1..N |-> n[k]]
    /\ \A k \in 1..N : n[k] = IF k < c THEN mp[k]
                              ELSE IF k = c THEN e ELSE mp[k + d]
    /\ \A k \in 1..(c - 1) : mp[k].m_addr + mp[k].m_size < e.m_addr
    /\ \A k \in (c + d + 1)..(N + d) : e.m_addr + e.m_size < mp[k].m_addr
    /\ U \in SUBSET Int
    /\ \A x \in Int : Covers(e, x) <=>
           x \in U \/ \E k \in c..(c + d) : Covers(mp[k], x)

\* What mfree does to the map, with d = 1 when the run joins two entries,
\* d = 0 when it joins one, d = -1 when it becomes an entry.
LEMMA Splice ==
    ASSUME NEW mp, InForm(mp), NEW n, NEW N, NEW c, NEW d, NEW e, NEW U,
           IsSplice(mp, n, N, c, d, e, U)
    PROVE  InForm(n) /\ FreeUnits(n) = FreeUnits(mp) \cup U
<1> USE DEF IsSplice
<1> DEFINE L == N + d
           At(k) == IF k < c THEN k ELSE k + d
<1>0. /\ Len(mp) \in Nat
      /\ \A k \in 1..Len(mp) :
            /\ mp[k] \in Entry
            /\ mp[k].m_addr \in Nat /\ mp[k].m_addr > 0
            /\ mp[k].m_size \in Nat /\ mp[k].m_size > 0
      /\ \A j, k \in 1..Len(mp) :
            j < k => mp[j].m_addr + mp[j].m_size < mp[k].m_addr
    BY FormFacts
<1>1. /\ L \in Nat /\ N \in Nat /\ c \in Nat /\ d \in Int
      /\ \A k \in 1..L :
            /\ mp[k] \in Entry
            /\ mp[k].m_addr \in Nat /\ mp[k].m_addr > 0
            /\ mp[k].m_size \in Nat /\ mp[k].m_size > 0
      /\ \A j, k \in 1..L :
            j < k => mp[j].m_addr + mp[j].m_size < mp[k].m_addr
    BY <1>0
<1>2. e.m_addr \in Nat /\ e.m_size \in Nat
    BY DEF Entry
<1>3. ASSUME NEW k \in 1..N, k # c
      PROVE  At(k) \in 1..L /\ n[k] = mp[At(k)]
    BY <1>3
<1>4. ASSUME NEW k \in 1..N
      PROVE  n[k] \in Entry /\ n[k].m_size > 0 /\ n[k].m_addr > 0
    <2>1. CASE k = c
        BY <2>1
    <2>2. CASE k # c
        BY <2>2, <1>1, <1>3
    <2> QED
        BY <2>1, <2>2
<1>5. ASSUME NEW j \in 1..N, NEW k \in 1..N, j < k
      PROVE  n[j].m_addr + n[j].m_size < n[k].m_addr
    <2>1. CASE k = c
        BY <2>1, <1>5
    <2>2. CASE j = c
        BY <2>2, <1>5
    <2>3. CASE j # c /\ k # c
        <3>1. At(j) \in 1..L /\ At(k) \in 1..L /\ At(j) < At(k)
            BY <1>3, <1>5, <2>3
        <3> QED
            BY <3>1, <1>1, <1>3, <2>3
    <2> QED
        BY <2>1, <2>2, <2>3
<1>6. InForm(n) /\ Len(n) = N
    BY <1>4, <1>5, FormIntro
<1>7. ASSUME NEW x \in Int
      PROVE  (\E k \in 1..N : Covers(n[k], x)) <=>
                (\E k \in 1..L : Covers(mp[k], x)) \/ x \in U
    <2>1. ASSUME NEW k \in 1..N, Covers(n[k], x)
          PROVE  (\E j \in 1..L : Covers(mp[j], x)) \/ x \in U
        <3>1. CASE k = c
            <4>1. Covers(e, x)
                BY <2>1, <3>1
            <4>2. c..(c + d) \subseteq 1..L
                BY <1>1
            <4> QED
                BY <4>1, <4>2
        <3>2. CASE k # c
            BY <3>2, <1>3, <2>1
        <3> QED
            BY <3>1, <3>2
    <2>2. ASSUME NEW k \in 1..L, Covers(mp[k], x)
          PROVE  \E j \in 1..N : Covers(n[j], x)
        <3>1. CASE k \in c..(c + d)
            <4>1. Covers(e, x) /\ n[c] = e
                BY <2>2, <3>1
            <4> QED
                BY <4>1
        <3>2. CASE k < c
            <4>1. k \in 1..N /\ n[k] = mp[k]
                BY <3>2, <1>1
            <4> QED
                BY <4>1, <2>2
        <3>3. CASE k > c + d /\ ~(k < c)
            <4>1. k - d \in 1..N /\ k - d > c /\ (k - d) + d = k
                BY <3>3, <1>1
            <4>2. n[k - d] = mp[k]
                BY <4>1
            <4> QED
                BY <4>1, <4>2, <2>2
        <3> QED
            BY <3>1, <3>2, <3>3, <1>1
    <2>3. ASSUME x \in U PROVE \E j \in 1..N : Covers(n[j], x)
        <3>1. Covers(e, x) /\ n[c] = e
            BY <2>3
        <3> QED
            BY <3>1
    <2> QED
        BY <2>1, <2>2, <2>3
<1>8. ASSUME NEW x PROVE x \in FreeUnits(n) <=> x \in FreeUnits(mp) \cup U
    <2>1. x \in FreeUnits(mp) <=> x \in Int /\ \E k \in 1..L : Covers(mp[k], x)
        BY InFree DEF Covers
    <2>2. x \in FreeUnits(n) <=> x \in Int /\ \E k \in 1..N : Covers(n[k], x)
        BY <1>6, InFree DEF Covers
    <2>3. x \in U => x \in Int
        OBVIOUS
    <2> QED
        BY <2>1, <2>2, <2>3, <1>7
<1> QED
    BY <1>6, <1>8

\* The scan of mfree stops between the entries below and above the run.
LEMMA ScanStopFound ==
    ASSUME NEW mp, InForm(mp), NEW a \in Nat
    PROVE  /\ ScanStop(mp, a) \in 1..(Len(mp) + 1)
           /\ \A j \in 1..(ScanStop(mp, a) - 1) : mp[j].m_addr <= a
           /\ \A j \in ScanStop(mp, a)..Len(mp) : mp[j].m_addr > a
<1> DEFINE L == Len(mp)
           S == {i \in 1..(L + 1) : i <= L => mp[i].m_addr > a}
           P(i) == /\ \A j \in 1..(i - 1) : mp[j].m_addr <= a
                   /\ i <= L => mp[i].m_addr > a
           s == ScanStop(mp, a)
<1>0. /\ L \in Nat
      /\ \A k \in 1..L : mp[k].m_addr \in Nat /\ mp[k].m_size \in Nat
      /\ \A j, k \in 1..L :
            j < k => mp[j].m_addr + mp[j].m_size < mp[k].m_addr
    BY FormFacts
<1>1. L + 1 \in Nat
    BY <1>0
<1>2. S \in SUBSET (1..(L + 1)) /\ L + 1 \in S
    BY <1>0, <1>1
<1>3. PICK i \in S : \A k \in S : i <= k
    BY <1>0, <1>1, <1>2, FirstIndex
<1>4. i \in 1..(L + 1) /\ P(i)
    BY <1>0, <1>1, <1>2, <1>3
<1>5. s \in 1..(L + 1) /\ P(s)
    BY <1>4 DEF ScanStop
<1>6. ASSUME NEW j \in s..L PROVE mp[j].m_addr > a
    <2>1. s \in 1..L /\ j \in 1..L /\ mp[s].m_addr > a
        BY <1>0, <1>1, <1>5
    <2>2. j = s \/ mp[s].m_addr + mp[s].m_size < mp[j].m_addr
        BY <1>0, <1>1, <2>1
    <2> QED
        BY <1>0, <1>1, <2>1, <2>2
<1> QED
    BY <1>5, <1>6

\* What mfree finds: the entries below the place where the scan stops end at
\* or before the run, those from there on begin at or after its end.
LEMMA RunFits ==
    ASSUME NEW mp, InForm(mp), NEW size \in Nat \ {0}, NEW a \in Nat \ {0},
           RunOf(a, size) \cap FreeUnits(mp) = {}
    PROVE  /\ \A k \in 1..(ScanStop(mp, a) - 1) :
                 k \in 1..Len(mp) /\ mp[k].m_addr + mp[k].m_size <= a
           /\ \A k \in ScanStop(mp, a)..Len(mp) :
                 k \in 1..Len(mp) /\ a + size <= mp[k].m_addr
<1> DEFINE i == ScanStop(mp, a)
           L == Len(mp)
<1>0. /\ L \in Nat
      /\ \A k \in 1..L : /\ mp[k].m_addr \in Nat
                         /\ mp[k].m_size \in Nat /\ mp[k].m_size > 0
    BY FormFacts
<1>1. /\ i \in 1..(L + 1)
      /\ \A j \in 1..(i - 1) : mp[j].m_addr <= a
      /\ \A j \in i..L : mp[j].m_addr > a
    BY ScanStopFound
<1> HIDE DEF i
<1>2. ASSUME NEW k \in 1..L, NEW x \in Int, a <= x, x < a + size
      PROVE  ~(mp[k].m_addr <= x /\ x < mp[k].m_addr + mp[k].m_size)
    <2>1. x \in RunOf(a, size)
        BY <1>2 DEF RunOf
    <2>2. x \notin FreeUnits(mp)
        BY <2>1
    <2> QED
        BY <2>2, InFree
<1>3. ASSUME NEW k \in 1..(i - 1)
      PROVE  k \in 1..L /\ mp[k].m_addr + mp[k].m_size <= a
    <2>1. k \in 1..L /\ mp[k].m_addr <= a
        BY <1>0, <1>1
    <2>2. ~(mp[k].m_addr <= a /\ a < mp[k].m_addr + mp[k].m_size)
        BY <2>1, <1>2
    <2> QED
        BY <2>1, <2>2, <1>0
<1>4. ASSUME NEW k \in i..L
      PROVE  k \in 1..L /\ a + size <= mp[k].m_addr
    <2>1. k \in 1..L /\ mp[k].m_addr > a
        BY <1>0, <1>1
    <2>2. mp[k].m_addr \in Int /\ mp[k].m_addr < mp[k].m_addr + mp[k].m_size
        BY <2>1, <1>0
    <2>3. ~(mp[k].m_addr < a + size)
        BY <2>1, <2>2, <1>0, <1>2
    <2> QED
        BY <2>1, <2>3, <1>0
<1> QED
    BY <1>3, <1>4 DEF i

-----------------------------------------------------------------------------
(* The four maps that mfree can leave, each of them a splice.               *)

\* The run joins entries c and i = c + 1.
JoinBoth(mp, c, i, size) ==
    DropAt([mp EXCEPT ![c].m_size = @ + size + mp[i].m_size], i)

\* mfree of a run that fills the gap joins both neighbours.
LEMMA MfreeBoth ==
    ASSUME NEW mp, InForm(mp), NEW size \in Nat \ {0}, NEW a \in Nat \ {0},
           NEW c \in 1..Len(mp), NEW i \in 1..Len(mp), i = c + 1,
           mp[c].m_addr + mp[c].m_size = a, a + size = mp[i].m_addr
    PROVE  /\ InForm(JoinBoth(mp, c, i, size))
           /\ FreeUnits(JoinBoth(mp, c, i, size)) =
                 FreeUnits(mp) \cup RunOf(a, size)
<1> DEFINE L == Len(mp)
           N == L - 1
           e == [m_size |-> mp[c].m_size + size + mp[i].m_size,
                 m_addr |-> mp[c].m_addr]
           m == [mp EXCEPT ![c].m_size = @ + size + mp[i].m_size]
           n == DropAt(m, i)
<1>0. /\ L \in Nat /\ DOMAIN mp = 1..L
      /\ \A k \in 1..L :
            /\ mp[k] \in Entry
            /\ mp[k] = [m_size |-> mp[k].m_size, m_addr |-> mp[k].m_addr]
            /\ mp[k].m_addr \in Nat /\ mp[k].m_addr > 0
            /\ mp[k].m_size \in Nat /\ mp[k].m_size > 0
      /\ \A j, k \in 1..L :
            j < k => mp[j].m_addr + mp[j].m_size < mp[k].m_addr
    BY FormFacts
<1>1. N \in Nat /\ c \in 1..N /\ L = N + 1
    BY <1>0
<1>2. /\ mp[c].m_addr \in Nat /\ mp[c].m_size \in Nat /\ mp[c].m_addr > 0
      /\ mp[i].m_addr \in Nat /\ mp[i].m_size \in Nat
      /\ e \in Entry /\ e.m_size = mp[c].m_size + size + mp[i].m_size
      /\ e.m_addr = mp[c].m_addr
    <2>1. /\ mp[c].m_addr \in Nat /\ mp[c].m_size \in Nat /\ mp[c].m_addr > 0
          /\ mp[i].m_addr \in Nat /\ mp[i].m_size \in Nat
        BY <1>0
    <2>2. mp[c].m_size + size + mp[i].m_size \in Nat
        BY <2>1, SMTT(40)
    <2> QED
        BY <2>1, <2>2 DEF Entry
<1>3. /\ DOMAIN m = 1..L /\ Len(m) = L
      /\ \A k \in 1..L : m[k] = IF k = c THEN e ELSE mp[k]
    BY <1>0
<1> HIDE DEF m, e
<1>4. n = [k \in 1..N |-> IF k < i THEN m[k] ELSE m[k + 1]]
    BY <1>3 DEF DropAt
<1>5. /\ DOMAIN n = 1..N /\ n = [k \in 1..N |-> n[k]]
      /\ \A k \in 1..N : n[k] = IF k < i THEN m[k] ELSE m[k + 1]
    BY <1>4
<1> HIDE DEF n
<1>6. ASSUME NEW k \in 1..N
      PROVE  n[k] = IF k < c THEN mp[k] ELSE IF k = c THEN e ELSE mp[k + 1]
    <2>1. CASE k < c
        BY <2>1, <1>0, <1>1, <1>3, <1>5
    <2>2. CASE k = c
        BY <2>2, <1>0, <1>1, <1>3, <1>5
    <2>3. CASE k > c
        <3>1. ~(k < i) /\ k + 1 \in 1..L /\ k + 1 # c /\ k # c /\ ~(k < c)
            BY <2>3, <1>0, <1>1
        <3> QED
            BY <3>1, <1>3, <1>5
    <2> QED
        BY <2>1, <2>2, <2>3, <1>0, <1>1
<1>7. \A k \in 1..(c - 1) : mp[k].m_addr + mp[k].m_size < e.m_addr
    BY <1>0, <1>2
<1>8. \A k \in (c + 1 + 1)..(N + 1) : e.m_addr + e.m_size < mp[k].m_addr
    <2>1. e.m_addr + e.m_size = (mp[c].m_addr + mp[c].m_size) + size + mp[i].m_size
        BY <1>2, SMTT(40)
    <2>2. e.m_addr + e.m_size = mp[i].m_addr + mp[i].m_size
        BY <2>1
    <2> QED
        BY <2>2, <1>0, <1>1
<1>9. ASSUME NEW x \in Int
      PROVE  Covers(e, x) <=>
                x \in RunOf(a, size) \/ \E k \in c..(c + 1) : Covers(mp[k], x)
    <2>1. c..(c + 1) = {c, i}
        <3>1. c \in Int /\ i = c + 1
            BY <1>0
        <3>2. \A k \in Int : k \in c..(c + 1) <=> k = c \/ k = c + 1
            BY <3>1
        <3> QED
            BY <3>1, <3>2
    <2>2. Covers(e, x) <=> \/ x \in RunOf(a, size)
                           \/ Covers(mp[c], x) \/ Covers(mp[i], x)
        BY <1>0, <1>2, SMTT(40) DEF Covers, RunOf
    <2> QED
        BY <2>1, <2>2
<1>10. RunOf(a, size) \in SUBSET Int /\ e.m_size > 0 /\ e.m_addr > 0
    BY <1>0, <1>2 DEF RunOf
<1>11. IsSplice(mp, n, N, c, 1, e, RunOf(a, size))
    BY <1>1, <1>2, <1>5, <1>6, <1>7, <1>8, <1>9, <1>10 DEF IsSplice
<1>12. InForm(n) /\ FreeUnits(n) = FreeUnits(mp) \cup RunOf(a, size)
    BY <1>11, Splice
<1> QED
    BY <1>12 DEF n, m, JoinBoth

\* The run joins entry c below it, and ends before entry c + 1.
LEMMA MfreeBelow ==
    ASSUME NEW mp, InForm(mp), NEW size \in Nat \ {0}, NEW a \in Nat \ {0},
           NEW c \in 1..Len(mp), mp[c].m_addr + mp[c].m_size = a,
           \A k \in (c + 1)..Len(mp) : a + size < mp[k].m_addr
    PROVE  LET n == [mp EXCEPT ![c].m_size = @ + size]
           IN  InForm(n) /\ FreeUnits(n) = FreeUnits(mp) \cup RunOf(a, size)
<1> DEFINE L == Len(mp)
           e == [m_size |-> mp[c].m_size + size, m_addr |-> mp[c].m_addr]
           n == [mp EXCEPT ![c].m_size = @ + size]
<1>0. /\ L \in Nat /\ DOMAIN mp = 1..L
      /\ \A k \in 1..L :
            /\ mp[k] \in Entry
            /\ mp[k] = [m_size |-> mp[k].m_size, m_addr |-> mp[k].m_addr]
            /\ mp[k].m_addr \in Nat /\ mp[k].m_addr > 0
            /\ mp[k].m_size \in Nat /\ mp[k].m_size > 0
      /\ \A j, k \in 1..L :
            j < k => mp[j].m_addr + mp[j].m_size < mp[k].m_addr
    BY FormFacts
<1>1. /\ mp[c].m_addr \in Nat /\ mp[c].m_size \in Nat /\ mp[c].m_addr > 0
      /\ e \in Entry /\ e.m_size = mp[c].m_size + size
      /\ e.m_addr = mp[c].m_addr
    <2>1. mp[c].m_addr \in Nat /\ mp[c].m_size \in Nat /\ mp[c].m_addr > 0
        BY <1>0
    <2>2. mp[c].m_size + size \in Nat
        BY <2>1
    <2> QED
        BY <2>1, <2>2 DEF Entry
<1>2. /\ DOMAIN n = 1..L /\ n = [k \in 1..L |-> n[k]]
      /\ \A k \in 1..L : n[k] = IF k = c THEN e ELSE mp[k]
    <2>1. \A k \in 1..L : n[k] = IF k = c THEN e ELSE mp[k]
        BY <1>0
    <2>2. DOMAIN n = 1..L /\ n = [k \in 1..L |-> n[k]]
        BY <1>0
    <2> QED
        BY <2>1, <2>2
<1> HIDE DEF n, e
<1>3. \A k \in 1..L : n[k] = IF k < c THEN mp[k]
                             ELSE IF k = c THEN e ELSE mp[k + 0]
    BY <1>0, <1>2
<1>4. \A k \in 1..(c - 1) : mp[k].m_addr + mp[k].m_size < e.m_addr
    BY <1>0, <1>1
<1>5. \A k \in (c + 0 + 1)..(L + 0) : e.m_addr + e.m_size < mp[k].m_addr
    <2>1. e.m_addr + e.m_size = (mp[c].m_addr + mp[c].m_size) + size
        BY <1>1
    <2> QED
        BY <2>1, <1>0
<1>6. ASSUME NEW x \in Int
      PROVE  Covers(e, x) <=>
                x \in RunOf(a, size) \/ \E k \in c..(c + 0) : Covers(mp[k], x)
    <2>1. c..(c + 0) = {c}
        BY <1>0
    <2>2. Covers(e, x) <=> x \in RunOf(a, size) \/ Covers(mp[c], x)
        BY <1>0, <1>1 DEF Covers, RunOf
    <2> QED
        BY <2>1, <2>2
<1>7. RunOf(a, size) \in SUBSET Int /\ e.m_size > 0 /\ e.m_addr > 0
    BY <1>1 DEF RunOf
<1>8. IsSplice(mp, n, L, c, 0, e, RunOf(a, size))
    BY <1>0, <1>1, <1>2, <1>3, <1>4, <1>5, <1>6, <1>7 DEF IsSplice
<1>9. InForm(n) /\ FreeUnits(n) = FreeUnits(mp) \cup RunOf(a, size)
    BY <1>8, Splice
<1> QED
    BY <1>9 DEF n

\* The run joins entry c above it, and begins after the end of entry c - 1.
LEMMA MfreeAbove ==
    ASSUME NEW mp, InForm(mp), NEW size \in Nat \ {0}, NEW a \in Nat \ {0},
           NEW c \in 1..Len(mp), a + size = mp[c].m_addr,
           \A k \in 1..(c - 1) : mp[k].m_addr + mp[k].m_size < a
    PROVE  LET n == [mp EXCEPT ![c] = [m_size |-> @.m_size + size, m_addr |-> a]]
           IN  InForm(n) /\ FreeUnits(n) = FreeUnits(mp) \cup RunOf(a, size)
<1> DEFINE L == Len(mp)
           e == [m_size |-> mp[c].m_size + size, m_addr |-> a]
           n == [mp EXCEPT ![c] = [m_size |-> @.m_size + size, m_addr |-> a]]
<1>0. /\ L \in Nat /\ DOMAIN mp = 1..L
      /\ \A k \in 1..L :
            /\ mp[k] \in Entry
            /\ mp[k] = [m_size |-> mp[k].m_size, m_addr |-> mp[k].m_addr]
            /\ mp[k].m_addr \in Nat /\ mp[k].m_addr > 0
            /\ mp[k].m_size \in Nat /\ mp[k].m_size > 0
      /\ \A j, k \in 1..L :
            j < k => mp[j].m_addr + mp[j].m_size < mp[k].m_addr
    BY FormFacts
<1>1. /\ mp[c].m_addr \in Nat /\ mp[c].m_size \in Nat /\ mp[c].m_size > 0
      /\ e \in Entry /\ e.m_size = mp[c].m_size + size /\ e.m_addr = a
    <2>1. mp[c].m_addr \in Nat /\ mp[c].m_size \in Nat /\ mp[c].m_size > 0
        BY <1>0
    <2>2. mp[c].m_size + size \in Nat
        BY <2>1
    <2> QED
        BY <2>1, <2>2 DEF Entry
<1>2. /\ DOMAIN n = 1..L /\ n = [k \in 1..L |-> n[k]]
      /\ \A k \in 1..L : n[k] = IF k = c THEN e ELSE mp[k]
    <2>1. \A k \in 1..L : n[k] = IF k = c THEN e ELSE mp[k]
        BY <1>0
    <2>2. DOMAIN n = 1..L /\ n = [k \in 1..L |-> n[k]]
        BY <1>0
    <2> QED
        BY <2>1, <2>2
<1> HIDE DEF n, e
<1>3. \A k \in 1..L : n[k] = IF k < c THEN mp[k]
                             ELSE IF k = c THEN e ELSE mp[k + 0]
    BY <1>0, <1>2
<1>4. \A k \in 1..(c - 1) : mp[k].m_addr + mp[k].m_size < e.m_addr
    BY <1>1
<1>5. \A k \in (c + 0 + 1)..(L + 0) : e.m_addr + e.m_size < mp[k].m_addr
    <2>1. e.m_addr + e.m_size = mp[c].m_addr + mp[c].m_size
        BY <1>1
    <2> QED
        BY <2>1, <1>0, SMTT(40)
<1>6. ASSUME NEW x \in Int
      PROVE  Covers(e, x) <=>
                x \in RunOf(a, size) \/ \E k \in c..(c + 0) : Covers(mp[k], x)
    <2>1. c..(c + 0) = {c}
        BY <1>0
    <2>2. Covers(e, x) <=> x \in RunOf(a, size) \/ Covers(mp[c], x)
        BY <1>0, <1>1 DEF Covers, RunOf
    <2> QED
        BY <2>1, <2>2
<1>7. RunOf(a, size) \in SUBSET Int /\ e.m_size > 0 /\ e.m_addr > 0
    BY <1>1 DEF RunOf
<1>8. IsSplice(mp, n, L, c, 0, e, RunOf(a, size))
    BY <1>0, <1>1, <1>2, <1>3, <1>4, <1>5, <1>6, <1>7 DEF IsSplice
<1>9. InForm(n) /\ FreeUnits(n) = FreeUnits(mp) \cup RunOf(a, size)
    BY <1>8, Splice
<1> QED
    BY <1>9 DEF n

\* The run touches no entry and becomes entry c.
LEMMA MfreeAlone ==
    ASSUME NEW mp, InForm(mp), NEW size \in Nat \ {0}, NEW a \in Nat \ {0},
           NEW c \in 1..(Len(mp) + 1),
           \A k \in 1..(c - 1) : mp[k].m_addr + mp[k].m_size < a,
           \A k \in c..Len(mp) : a + size < mp[k].m_addr
    PROVE  LET n == PutAt(mp, c, [m_size |-> size, m_addr |-> a])
           IN  InForm(n) /\ FreeUnits(n) = FreeUnits(mp) \cup RunOf(a, size)
<1> DEFINE L == Len(mp)
           N == L + 1
           e == [m_size |-> size, m_addr |-> a]
           n == PutAt(mp, c, e)
<1>0. /\ L \in Nat /\ DOMAIN mp = 1..L
      /\ \A k \in 1..L :
            /\ mp[k] \in Entry
            /\ mp[k] = [m_size |-> mp[k].m_size, m_addr |-> mp[k].m_addr]
            /\ mp[k].m_addr \in Nat /\ mp[k].m_addr > 0
            /\ mp[k].m_size \in Nat /\ mp[k].m_size > 0
      /\ \A j, k \in 1..L :
            j < k => mp[j].m_addr + mp[j].m_size < mp[k].m_addr
    BY FormFacts
<1>1. e \in Entry /\ e.m_size = size /\ e.m_addr = a
    BY DEF Entry
<1> HIDE DEF e
<1>2. /\ DOMAIN n = 1..N /\ n = [k \in 1..N |-> n[k]]
      /\ \A k \in 1..N : n[k] = IF k < c THEN mp[k]
                                ELSE IF k = c THEN e ELSE mp[k - 1]
    BY DEF PutAt
<1> HIDE DEF n
<1>3. \A k \in 1..N : n[k] = IF k < c THEN mp[k]
                             ELSE IF k = c THEN e ELSE mp[k + (-1)]
    BY <1>0, <1>2
<1>4. \A k \in 1..(c - 1) : mp[k].m_addr + mp[k].m_size < e.m_addr
    BY <1>1
<1>5. \A k \in (c + (-1) + 1)..(N + (-1)) : e.m_addr + e.m_size < mp[k].m_addr
    BY <1>0, <1>1
<1>6. ASSUME NEW x \in Int
      PROVE  Covers(e, x) <=>
                x \in RunOf(a, size) \/ \E k \in c..(c + (-1)) : Covers(mp[k], x)
    <2>1. c..(c + (-1)) = {}
        BY <1>0
    <2>2. Covers(e, x) <=> x \in RunOf(a, size)
        BY <1>1 DEF Covers, RunOf
    <2> QED
        BY <2>1, <2>2
<1>7. RunOf(a, size) \in SUBSET Int /\ e.m_size > 0 /\ e.m_addr > 0
    BY <1>1 DEF RunOf
<1>8. N \in Nat /\ c \in 1..N /\ Len(mp) = N + (-1)
    BY <1>0
<1>9. IsSplice(mp, n, N, c, -1, e, RunOf(a, size))
    BY <1>1, <1>2, <1>3, <1>4, <1>5, <1>6, <1>7, <1>8 DEF IsSplice
<1>10. InForm(n) /\ FreeUnits(n) = FreeUnits(mp) \cup RunOf(a, size)
    BY <1>9, Splice
<1> QED
    BY <1>10 DEF n, e

\* mfree of a run of units that are not free adds exactly these to the map,
\* which stays in order.
LEMMA MfreeRun ==
    ASSUME NEW mp, InForm(mp), NEW size \in Nat \ {0}, NEW a \in Nat \ {0},
           RunOf(a, size) \cap FreeUnits(mp) = {}
    PROVE  /\ InForm(MfreeMap(mp, size, a))
           /\ FreeUnits(MfreeMap(mp, size, a)) = FreeUnits(mp) \cup RunOf(a, size)
<1> DEFINE i     == ScanStop(mp, a)
           L     == Len(mp)
           below == i > 1 /\ mp[i - 1].m_addr + mp[i - 1].m_size = a
           above == i <= L /\ a + size = mp[i].m_addr
           both  == DropAt([mp EXCEPT ![i - 1].m_size = @ + size + mp[i].m_size], i)
           lower == [mp EXCEPT ![i - 1].m_size = @ + size]
           upper == [mp EXCEPT ![i] = [m_size |-> @.m_size + size, m_addr |-> a]]
           alone == PutAt(mp, i, [m_size |-> size, m_addr |-> a])
           Good(n) == /\ InForm(n)
                      /\ FreeUnits(n) = FreeUnits(mp) \cup RunOf(a, size)
<1>0. /\ L \in Nat
      /\ \A k \in 1..L : /\ mp[k].m_addr \in Nat
                         /\ mp[k].m_size \in Nat /\ mp[k].m_size > 0
      /\ \A j, k \in 1..L :
            j < k => mp[j].m_addr + mp[j].m_size < mp[k].m_addr
    BY FormFacts
<1>1. i \in 1..(L + 1)
    BY ScanStopFound
<1>2. /\ \A k \in 1..(i - 1) : k \in 1..L /\ mp[k].m_addr + mp[k].m_size <= a
      /\ \A k \in i..L : k \in 1..L /\ a + size <= mp[k].m_addr
    BY RunFits
<1>3. MfreeMap(mp, size, a) = CASE below /\ above -> both
                                [] below /\ ~above -> lower
                                [] ~below /\ above -> upper
                                [] OTHER -> IF size = 0 THEN mp ELSE alone
    BY DEF MfreeMap
<1> HIDE DEF i
<1>4. ASSUME ~above, NEW k \in i..L PROVE a + size < mp[k].m_addr
    <2>1. /\ k \in 1..L /\ i \in 1..L /\ i \in i..L /\ i <= L
          /\ mp[i].m_addr \in Nat /\ a + size <= mp[i].m_addr
        BY <1>0, <1>1, <1>2
    <2>2. a + size < mp[i].m_addr
        BY <1>4, <2>1
    <2>3. k = i \/ mp[i].m_addr + mp[i].m_size < mp[k].m_addr
        BY <1>0, <2>1
    <2> QED
        BY <1>0, <2>1, <2>2, <2>3
<1>5. ASSUME ~below, NEW k \in 1..(i - 1)
      PROVE  mp[k].m_addr + mp[k].m_size < a
    <2>1. /\ k \in 1..L /\ i - 1 \in 1..L /\ i - 1 \in 1..(i - 1)
          /\ mp[i - 1].m_addr + mp[i - 1].m_size <= a
        BY <1>0, <1>1, <1>2
    <2>2. mp[i - 1].m_addr + mp[i - 1].m_size < a
        <3>1. PICK z : z = mp[i - 1].m_addr + mp[i - 1].m_size
            OBVIOUS
        <3>2. z \in Int
            BY <1>0, <2>1, <3>1
        <3>3. z # a /\ z <= a
            BY <1>1, <1>5, <2>1, <3>1
        <3> QED
            BY <3>1, <3>2, <3>3
    <2>3. k = i - 1 \/ mp[k].m_addr + mp[k].m_size < mp[i - 1].m_addr
        BY <1>0, <1>1, <2>1
    <2> QED
        BY <1>0, <2>1, <2>2, <2>3, SMTT(40)
<1>6. CASE below /\ above
    <2>1. Good(both)
        <3>1. i - 1 \in 1..Len(mp) /\ i \in 1..Len(mp) /\ i = (i - 1) + 1
            BY <1>0, <1>1, <1>6
        <3>2. Good(JoinBoth(mp, i - 1, i, size))
            BY <3>1, <1>6, MfreeBoth
        <3> QED
            BY <3>2 DEF JoinBoth
    <2> QED
        BY <2>1, <1>3, <1>6
<1>7. CASE below /\ ~above
    <2>1. Good(lower)
        <3>1. i - 1 \in 1..Len(mp) /\ (i - 1) + 1 = i
            BY <1>0, <1>1, <1>7
        <3> QED
            BY <3>1, <1>4, <1>7, MfreeBelow
    <2> QED
        BY <2>1, <1>3, <1>7
<1>8. CASE ~below /\ above
    <2>1. Good(upper)
        <3>1. i \in 1..Len(mp)
            BY <1>0, <1>1, <1>8
        <3> QED
            BY <3>1, <1>5, <1>8, MfreeAbove
    <2> QED
        BY <2>1, <1>3, <1>8
<1>9. CASE ~below /\ ~above
    <2>1. Good(alone)
        BY <1>1, <1>4, <1>5, <1>9, MfreeAlone
    <2>2. MfreeMap(mp, size, a) = alone
        BY <1>3, <1>9
    <2> QED
        BY <2>1, <2>2
<1> QED
    BY <1>6, <1>7, <1>8, <1>9

\* The zeroed map array that main starts from.
LEMMA EmptyMap == InForm(<<>>) /\ FreeUnits(<<>>) = {}
<1>1. <<>> \in Seq(Entry) /\ DOMAIN <<>> = {}
    OBVIOUS
<1> QED
    BY <1>1 DEF InForm, WellFormed, FreeUnits

\* A run of free units lies in one entry: what malloc cannot find is not there.
LEMMA FreeRunInEntry ==
    ASSUME NEW mp, InForm(mp), NEW size \in Nat \ {0}, NEW a \in Int,
           RunOf(a, size) \subseteq FreeUnits(mp)
    PROVE  Fits(mp, size) # {}
<1> DEFINE L == Len(mp)
<1>1. /\ L \in Nat /\ DOMAIN mp = 1..L
      /\ \A k \in 1..L : /\ mp[k].m_addr \in Nat
                         /\ mp[k].m_size \in Nat /\ mp[k].m_size > 0
    BY FormFacts
<1>2. a \in RunOf(a, size)
    BY DEF RunOf
<1>3. PICK k \in 1..L : mp[k].m_addr <= a /\ a < mp[k].m_addr + mp[k].m_size
    BY <1>2, InFree
<1> DEFINE x == mp[k].m_addr + mp[k].m_size
<1>4. ASSUME x < a + size PROVE FALSE
    <2>1. x \in Int /\ x \in RunOf(a, size)
        BY <1>1, <1>3, <1>4 DEF RunOf
    <2>2. PICK j \in 1..L : mp[j].m_addr <= x /\ x < mp[j].m_addr + mp[j].m_size
        BY <2>1, InFree
    <2>3. /\ mp[k].m_addr <= x /\ x <= mp[k].m_addr + mp[k].m_size
          /\ mp[j].m_addr <= x /\ x <= mp[j].m_addr + mp[j].m_size
        BY <2>1, <2>2, <1>1
    <2> HIDE DEF x
    <2>4. j = k
        BY <2>1, <2>2, <2>3, <1>1, OneEntry
    <2> QED
        BY <2>2, <2>4, <1>1 DEF x
<1>5. mp[k].m_size >= size
    BY <1>1, <1>3, <1>4
<1> QED
    BY <1>1, <1>5 DEF Fits

=============================================================================
