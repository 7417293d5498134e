----------------------------- MODULE PipeProofs -----------------------------
(***************************************************************************)
(* The pipe (ken/pipe.c) keeps its promises for any number of readers and  *)
(* writers, any size and any counts.  What the lock protects is proved for *)
(* as long as the code's lock really excludes: while the write side is     *)
(* open, or if one process reads (see LockExcludes for what is lost        *)
(* without).                                                               *)
(***************************************************************************)
EXTENDS Pipe, FiniteSetTheorems, TLAPS

\* The processes that still have their side open.
Alive(s) == {p \in Proc : Side(p) = s /\ pc[p] # "closed"}

One(b) == IF b THEN 1 ELSE 0

\* The references are those of the processes.
Counted ==
    /\ \A s \in Sides : f_count[s] = Cardinality(Alive(s))
    /\ i_count = One(f_count["r"] > 0) + One(f_count["w"] > 0)

BothOpen == f_count["r"] > 0 /\ f_count["w"] > 0

\* Who can be where, and the bounds of a transfer.
Placed ==
    \A p \in Proc :
        /\ pc[p] \in {"iempty", "eof"} => p \in Readers
        /\ pc[p] \in {"ifull", "epipe"} => p \in Writers
        /\ pc[p] = "xfer" => offset[p] < PIPSIZ
        /\ pc[p] = "xfer" /\ p \in Writers =>
              count[p] > 0 /\ offset[p] + count[p] <= PIPSIZ

\* A lock has a holder, and while both sides are open one that is alone.
Locked ==
    /\ "ILOCK" \in i_flag => \E p \in Proc : pc[p] = "xfer"
    /\ BothOpen => /\ \A p \in Proc : pc[p] = "xfer" => "ILOCK" \in i_flag
                   /\ LockExcludes

\* While a reader waits for data no other reads.
Idle ==
    (\E p \in Readers : pc[p] = "iempty") => \A p \in Readers : pc[p] # "xfer"

\* One process reads.
OneReader == \A p, q \in Readers : p = q

\* When the lock excludes.
Guarded == f_count["w"] > 0 \/ OneReader

\* h is where the next byte will be read: the head, or the place that the
\* reader in readi has reached.
IsHead(h) ==
    \/ \E p \in Readers : pc[p] = "xfer" /\ h = offset[p]
    \/ h = f_offset /\ \A p \in Readers : pc[p] # "xfer"

\* What lies between h and the tail is what was put and not yet got.
Between(h) ==
    /\ h <= i_size1
    /\ put = Len(got) + (i_size1 - h)
    /\ \A o \in h..(i_size1 - 1) : data[o] = Len(got) + (o - h)

\* The bytes are in order and in place.
Held ==
    /\ LockExcludes
    /\ \A p \in Readers : pc[p] = "xfer" => offset[p] < i_size1
    /\ \A p \in Writers : pc[p] = "xfer" => offset[p] = i_size1
    /\ \A h \in 0..PIPSIZ : IsHead(h) => Between(h)
    /\ InOrder

\* End of file is returned when the write side is closed, to a lone reader
\* when it has read everything.
EofMeans ==
    \A p \in Readers :
        pc[p] = "eof" => f_count["w"] = 0 /\ (OneReader => Len(got) = put)

\* The inductive invariant.
Inv ==
    /\ TypeOK /\ Placed /\ Counted /\ Locked /\ Idle /\ SleepIsJustified
    /\ Guarded => Held
    /\ EofMeans

-----------------------------------------------------------------------------
\* What a wakeup does to the places.
LEMMA WakeFacts ==
    ASSUME TypeOK, NEW L, NEW p \in Proc, NEW l, Wake(L, p, l)
    PROVE  /\ pc'[p] = l
           /\ \A q \in Proc : q # p => pc'[q] = IF pc[q] \in L THEN "plock" ELSE pc[q]
BY DEF Wake

\* A side is open while a process has it open.
LEMMA AliveCounted ==
    ASSUME TypeOK, Counted, NEW p \in Proc, pc[p] # "closed"
    PROVE  f_count[Side(p)] \in Nat /\ f_count[Side(p)] > 0
<1>1. Side(p) \in Sides /\ p \in Alive(Side(p))
    BY DEF Alive, Side, Sides
<1>2. IsFiniteSet(Proc)
    BY PipeAssumption, FS_Union DEF Proc
<1>3. IsFiniteSet(Alive(Side(p)))
    BY <1>2, FS_Subset DEF Alive
<1> QED
    BY <1>1, <1>3, FS_EmptySet, FS_CardinalityType DEF Counted, TypeOK

\* pipe() leaves a pipe that is in order.
LEMMA InitInv == Init => Inv
<1> SUFFICES ASSUME Init PROVE Inv
    OBVIOUS
<1>1. IsFiniteSet(Readers) /\ IsFiniteSet(Writers) /\ PIPSIZ \in Nat \ {0}
    BY PipeAssumption
<1>2. Alive("r") = Readers /\ Alive("w") = Writers
    BY PipeAssumption DEF Init, Alive, Proc, Side
<1>3. /\ Cardinality(Readers) \in Nat /\ Cardinality(Readers) > 0
      /\ Cardinality(Writers) \in Nat /\ Cardinality(Writers) > 0
    BY PipeAssumption, FS_EmptySet, FS_CardinalityType
<1>4. f_count["r"] = Cardinality(Readers) /\ f_count["w"] = Cardinality(Writers)
    BY DEF Init, Sides
<1>5. TypeOK
    BY <1>1, <1>3, PipeAssumption DEF Init, TypeOK, Sides, PC
<1>6. Counted
    BY <1>2, <1>3, <1>4 DEF Counted, Sides, One, Init
<1>7. Placed /\ Locked /\ Idle /\ SleepIsJustified /\ EofMeans /\ LockExcludes
    BY DEF Init, Placed, Locked, Idle, SleepIsJustified, EofMeans, LockExcludes,
           Proc
<1>8. Held
    BY <1>1, <1>7 DEF Init, Held, IsHead, Between, InOrder, Proc
<1> QED
    BY <1>5, <1>6, <1>7, <1>8 DEF Inv

-----------------------------------------------------------------------------
\* Each step keeps the types and the bounds of the transfers.
LEMMA TypedStep ==
    ASSUME TypeOK, Placed, Counted, NEW p \in Proc,
           (\E n \in 1..MaxCount : Call(p, n)) \/ Step(p) \/ Interrupt(p) \/ Close(p)
    PROVE  TypeOK' /\ Placed'
<1> USE PipeAssumption
<1>0. p \in Readers \/ p \in Writers
    BY DEF Proc
<1>1. ASSUME NEW n \in 1..MaxCount, Call(p, n) PROVE TypeOK' /\ Placed'
    <2>1. pc' \in [Proc -> PC]
        BY <1>1 DEF Call, Goto, Wake, TypeOK, PC
    <2>2. count' \in [Proc -> 0..MaxCount] /\ c' \in [Proc -> 0..MaxCount]
        <3>1. n \in 0..MaxCount
            OBVIOUS
        <3>2. CASE p \in Readers
            <4>1. count' = [count EXCEPT ![p] = n] /\ c' = c
                BY <1>1, <3>2 DEF Call
            <4> QED
                BY <3>1, <4>1 DEF TypeOK
        <3>3. CASE p \notin Readers
            <4>1. c' = [c EXCEPT ![p] = n] /\ count' = count
                BY <1>1, <3>3 DEF Call
            <4> QED
                BY <3>1, <4>1 DEF TypeOK
        <3> QED
            BY <3>2, <3>3
    <2>3. TypeOK'
        BY <1>1, <2>1, <2>2 DEF Call, inode, TypeOK
    <2>4. \A q \in Proc : q # p => count'[q] = count[q] /\ pc'[q] = pc[q]
        BY <1>1 DEF Call, Goto, Wake, TypeOK
    <2>5. pc'[p] = "plock" /\ offset' = offset
        BY <1>1 DEF Call, Goto, Wake
    <2> QED
        BY <2>3, <2>4, <2>5 DEF Placed
<1>2. CASE PlockWait(p)
    BY <1>2 DEF PlockWait, Goto, Wake, TypeOK, Placed, PC
<1>3. CASE ReadEmpty(p)
    <2>1. pc' \in [Proc -> PC]
        BY <1>3 DEF ReadEmpty, Wake, TypeOK, PC
    <2>2. i_mode' \subseteq {"IREAD", "IWRITE"}
        BY <1>3 DEF ReadEmpty, TypeOK
    <2>3. TypeOK'
        BY <1>3, <2>1, <2>2 DEF ReadEmpty, TypeOK
    <2>4. /\ \A q \in Proc : q # p => pc'[q] \in {pc[q], "plock"}
          /\ pc'[p] \in {"eof", "iempty"} /\ p \in Readers
        BY <1>3 DEF ReadEmpty, Unlocked, Wake
    <2> QED
        BY <1>3, <2>3, <2>4 DEF ReadEmpty, Placed
<1>4. CASE ReadStart(p)
    <2>1. pc' \in [Proc -> PC]
        BY <1>4 DEF ReadStart, Goto, Wake, TypeOK, PC
    <2>2. i_flag' \subseteq {"ILOCK", "IWANT"}
        BY <1>4 DEF ReadStart, TypeOK
    <2>3. count' \in [Proc -> 0..MaxCount] /\ offset' \in [Proc -> 0..PIPSIZ]
        <3>1. CASE f_offset < i_size1
            <4>1. count' = count /\ offset' = [offset EXCEPT ![p] = f_offset]
                BY <1>4, <3>1 DEF ReadStart
            <4> QED
                BY <4>1 DEF TypeOK
        <3>2. CASE ~(f_offset < i_size1)
            <4>1. offset' = offset /\ count' = [count EXCEPT ![p] = 0]
                BY <1>4, <3>2 DEF ReadStart
            <4> QED
                BY <4>1 DEF TypeOK
        <3> QED
            BY <3>1, <3>2
    <2>4. TypeOK'
        BY <1>4, <2>1, <2>2, <2>3 DEF ReadStart, TypeOK
    <2>5. \A q \in Proc : q # p =>
             pc'[q] = pc[q] /\ offset'[q] = offset[q] /\ count'[q] = count[q]
        BY <1>4 DEF ReadStart, Goto, Wake, TypeOK
    <2>6. /\ p \in Readers /\ p \notin Writers
          /\ pc'[p] \in {"xfer", "eof"}
          /\ pc'[p] = "xfer" => offset'[p] < PIPSIZ
        BY <1>4 DEF ReadStart, Unlocked, Goto, Wake, TypeOK
    <2> QED
        BY <2>4, <2>5, <2>6 DEF Placed
<1>5. CASE ReadMove(p)
    <2>1. /\ p \in Readers /\ p \notin Writers /\ pc[p] = "xfer"
          /\ offset[p] \in 0..PIPSIZ /\ count[p] \in 0..MaxCount
          /\ count[p] > 1 /\ i_size1 > offset[p] + 1 /\ i_size1 \in 0..PIPSIZ
        BY <1>5 DEF ReadMove, InXfer, ReadMore, TypeOK
    <2>2. /\ count' = [count EXCEPT ![p] = count[p] - 1]
          /\ offset' = [offset EXCEPT ![p] = offset[p] + 1]
          /\ UNCHANGED <<inode, f_offset, data, pc, c, put>>
          /\ got' = Append(got, data[offset[p]])
        BY <1>5 DEF ReadMove
    <2>3. /\ count[p] - 1 \in 0..MaxCount /\ offset[p] + 1 \in 0..PIPSIZ
          /\ offset[p] + 1 < PIPSIZ /\ data[offset[p]] \in Nat
        BY <2>1, SMTT(40) DEF TypeOK
    <2>4. TypeOK'
        <3>1. got' \in Seq(Nat)
            BY <2>2, <2>3 DEF TypeOK
        <3>2. count' \in [Proc -> 0..MaxCount] /\ offset' \in [Proc -> 0..PIPSIZ]
            BY <2>2, <2>3 DEF TypeOK
        <3> QED
            BY <2>2, <3>1, <3>2 DEF inode, TypeOK
    <2> QED
        BY <2>1, <2>2, <2>3, <2>4 DEF Placed, TypeOK
<1>6. CASE ReadLast(p)
    <2>1. /\ p \in Readers /\ p \notin Writers /\ pc[p] = "xfer"
          /\ offset[p] \in 0..PIPSIZ /\ offset[p] < PIPSIZ
        BY <1>6 DEF ReadLast, InXfer, TypeOK, Placed
    <2>2. pc' \in [Proc -> PC]
        BY <1>6 DEF ReadLast, Wake, TypeOK, PC
    <2>3. offset[p] + 1 \in 0..PIPSIZ /\ data[offset[p]] \in Nat
        BY <2>1 DEF TypeOK
    <2>4. TypeOK'
        <3>1. got' \in Seq(Nat)
            BY <1>6, <2>3 DEF ReadLast, TypeOK
        <3>2. count' \in [Proc -> 0..MaxCount] /\ offset' \in [Proc -> 0..PIPSIZ]
            BY <1>6 DEF ReadLast, TypeOK
        <3> QED
            BY <1>6, <2>2, <2>3, <3>1, <3>2 DEF ReadLast, TypeOK
    <2>5. /\ \A q \in Proc : q # p => /\ pc'[q] \in {pc[q], "plock"}
                                      /\ count'[q] = count[q]
                                      /\ offset'[q] = offset[q]
          /\ pc'[p] = "user"
        BY <1>6 DEF ReadLast, Wake, TypeOK
    <2> QED
        BY <2>4, <2>5 DEF Placed
<1>7. CASE WriteDone(p)
    BY <1>7 DEF WriteDone, Unlocked, Goto, Wake, inode, TypeOK, Placed, PC
<1>8. CASE WriteEpipe(p)
    BY <1>8, SMTT(40) DEF WriteEpipe, Unlocked, Goto, Wake, inode, TypeOK, Placed, PC
<1>9. CASE WriteFull(p)
    BY <1>9 DEF WriteFull, Unlocked, Goto, Wake, TypeOK, Placed, PC
<1>10. CASE WriteStart(p)
    <2> DEFINE n == IF c[p] < PIPSIZ - i_size1 THEN c[p] ELSE PIPSIZ - i_size1
    <2>1. /\ p \in Writers /\ c[p] \in 0..MaxCount /\ c[p] # 0
          /\ i_size1 \in 0..PIPSIZ /\ i_size1 # PIPSIZ
        BY <1>10 DEF WriteStart, Unlocked, TypeOK
    <2>2. /\ n \in 0..MaxCount /\ c[p] - n \in 0..MaxCount
          /\ n > 0 /\ i_size1 + n <= PIPSIZ /\ i_size1 < PIPSIZ
        BY <2>1
    <2>3. /\ count' = [count EXCEPT ![p] = n]
          /\ c' = [c EXCEPT ![p] = c[p] - n]
          /\ offset' = [offset EXCEPT ![p] = i_size1]
          /\ i_flag' = i_flag \cup {"ILOCK"}
          /\ Goto(p, "xfer")
          /\ UNCHANGED <<i_mode, i_count, i_size1, f_offset, f_count, data, put, got>>
        BY <1>10 DEF WriteStart
    <2> HIDE DEF n
    <2>4. pc' \in [Proc -> PC]
        BY <2>3 DEF Goto, Wake, TypeOK, PC
    <2>5. TypeOK'
        BY <2>1, <2>2, <2>3, <2>4 DEF TypeOK
    <2>6. \A q \in Proc : q # p => /\ pc'[q] = pc[q] /\ count'[q] = count[q]
                                   /\ offset'[q] = offset[q]
        BY <2>3 DEF Goto, Wake, TypeOK
    <2>7. pc'[p] = "xfer" /\ count'[p] = n /\ offset'[p] = i_size1
        BY <2>3 DEF Goto, Wake, TypeOK
    <2> QED
        BY <2>1, <2>2, <2>5, <2>6, <2>7 DEF Placed
<1>11. CASE WriteMove(p)
    <2>1. /\ p \in Writers /\ pc[p] = "xfer"
          /\ count[p] \in 0..MaxCount /\ count[p] > 1
          /\ offset[p] \in 0..PIPSIZ /\ offset[p] + count[p] <= PIPSIZ
        BY <1>11 DEF WriteMove, InXfer, TypeOK, Placed
    <2>2. /\ offset[p] \in 0..(PIPSIZ - 1) /\ offset[p] + 1 \in 0..PIPSIZ
          /\ offset[p] + 1 < PIPSIZ /\ count[p] - 1 \in 0..MaxCount
          /\ count[p] - 1 > 0 /\ (offset[p] + 1) + (count[p] - 1) <= PIPSIZ
        BY <2>1
    <2>3. /\ count' = [count EXCEPT ![p] = count[p] - 1]
          /\ offset' = [offset EXCEPT ![p] = offset[p] + 1]
          /\ data' = [data EXCEPT ![offset[p]] = put] /\ put' = put + 1
          /\ i_size1' \in {i_size1, offset[p] + 1}
          /\ UNCHANGED <<i_flag, i_mode, i_count, f_offset, f_count, pc, c, got>>
        BY <1>11 DEF WriteMove, Write1
    <2>4. TypeOK'
        <3>1. data' \in [0..(PIPSIZ - 1) -> Nat] /\ put' \in Nat
            BY <2>2, <2>3 DEF TypeOK
        <3>2. count' \in [Proc -> 0..MaxCount] /\ offset' \in [Proc -> 0..PIPSIZ]
            BY <2>2, <2>3 DEF TypeOK
        <3>3. i_size1' \in 0..PIPSIZ
            BY <2>2, <2>3 DEF TypeOK
        <3> QED
            BY <2>3, <3>1, <3>2, <3>3 DEF TypeOK
    <2>5. /\ \A q \in Proc : q # p => count'[q] = count[q] /\ offset'[q] = offset[q]
          /\ count'[p] = count[p] - 1 /\ offset'[p] = offset[p] + 1
        BY <2>3 DEF TypeOK
    <2> QED
        BY <2>1, <2>2, <2>3, <2>4, <2>5 DEF Placed
<1>12. CASE WriteLast(p)
    BY <1>12, SMTT(40) DEF WriteLast, Write1, WriteEnd, InXfer, Wake, TypeOK, Placed, PC
<1>13. CASE WriteNoSpace(p)
    BY <1>13, SMTT(40) DEF WriteNoSpace, WriteEnd, InXfer, Wake, TypeOK, Placed, PC
<1>14. CASE Interrupt(p)
    BY <1>14, SMTT(40) DEF Interrupt, Goto, Wake, inode, TypeOK, Placed, PC
<1>15. CASE Close(p)
    <2>1. Side(p) \in Sides /\ f_count[Side(p)] \in Nat /\ f_count[Side(p)] > 0
        BY <1>15, AliveCounted DEF Close, Side, Sides
    <2>2. f_count' \in [Sides -> Nat]
        BY <1>15, <2>1 DEF Close, TypeOK
    <2>3. i_count' \in 0..2
        BY <1>15, <2>1, SMTT(40) DEF Close, TypeOK, Counted, One, Sides
    <2>4. pc' \in [Proc -> PC]
        BY <1>15 DEF Close, Wake, TypeOK, PC
    <2>5. TypeOK'
        BY <1>15, <2>2, <2>3, <2>4 DEF Close, TypeOK
    <2>6. /\ \A q \in Proc : q # p => pc'[q] \in {pc[q], "plock"}
          /\ pc'[p] = "closed" /\ count' = count /\ offset' = offset
        BY <1>15 DEF Close, Wake
    <2> QED
        BY <2>5, <2>6 DEF Placed
<1> QED
    BY <1>1, <1>2, <1>3, <1>4, <1>5, <1>6, <1>7, <1>8, <1>9, <1>10, <1>11,
       <1>12, <1>13, <1>14, <1>15 DEF Step

-----------------------------------------------------------------------------
\* A step other than close leaves the references alone.
LEMMA CountedSame ==
    ASSUME TypeOK, Counted, UNCHANGED <<f_count, i_count>>,
           \A q \in Proc : (pc'[q] = "closed") <=> (pc[q] = "closed")
    PROVE  Counted'
<1>1. \A s \in Sides : Alive(s)' = Alive(s)
    BY DEF Alive
<1> QED
    BY <1>1 DEF Counted

\* close drops one reference to its side, and the last one that of the inode.
LEMMA CountedClose ==
    ASSUME TypeOK, Counted, NEW p \in Proc, Close(p)
    PROVE  Counted' /\ f_count'[Side(p)] = f_count[Side(p)] - 1
<1>0. PICK s, t : /\ s = Side(p) /\ s # t
                  /\ (s = "r" /\ t = "w") \/ (s = "w" /\ t = "r")
    BY DEF Side
<1>1. /\ s \in Sides /\ t \in Sides /\ s # t /\ Sides = {s, t}
      /\ {s, t} = {"r", "w"} /\ s = Side(p)
    BY <1>0 DEF Sides
<1>2. /\ pc[p] # "closed" /\ pc'[p] = "closed"
      /\ \A q \in Proc : q # p => (pc'[q] = "closed" <=> pc[q] = "closed")
    <2>1. PICK L : Wake(L, p, "closed") /\ "closed" \notin L
        BY DEF Close, Prele
    <2> QED
        <3>1. pc[p] # "closed"
            BY DEF Close
        <3>2. pc' = [q \in Proc |-> IF q = p THEN "closed"
                                    ELSE IF pc[q] \in L THEN "plock" ELSE pc[q]]
            BY <2>1 DEF Wake
        <3> QED
            BY <2>1, <3>1, <3>2
<1>3. f_count[s] \in Nat /\ f_count[s] > 0 /\ f_count[t] \in Nat
    BY <1>1, <1>2, AliveCounted DEF TypeOK
<1>4. Alive(s)' = Alive(s) \ {p} /\ Alive(t)' = Alive(t) /\ p \in Alive(s)
    <2>1. ASSUME NEW q \in Proc
          PROVE  /\ q \in Alive(s)' <=> q \in Alive(s) /\ q # p
                 /\ q \in Alive(t)' <=> q \in Alive(t)
        BY <1>1, <1>2 DEF Alive
    <2> QED
        BY <1>1, <1>2, <2>1 DEF Alive
<1>5. f_count'[s] = f_count[s] - 1 /\ f_count'[t] = f_count[t]
    BY <1>1 DEF Close, TypeOK
<1>6. IsFiniteSet(Alive(s))
    BY PipeAssumption, FS_Union, FS_Subset DEF Proc, Alive
<1>7. Cardinality(Alive(s) \ {p}) = Cardinality(Alive(s)) - 1
    BY <1>4, <1>6, FS_RemoveElement
<1>8. i_count' = One(f_count'[s] > 0) + One(f_count'[t] > 0)
    <2>1. i_count = One(f_count[s] > 0) + One(f_count[t] > 0)
        BY <1>1, <1>3 DEF Counted, One
    <2>2. i_count' = IF f_count[s] <= 1 THEN i_count - 1 ELSE i_count
        BY <1>1 DEF Close
    <2> QED
        BY <2>1, <2>2, <1>3, <1>5 DEF One
<1>9. i_count' = One(f_count'["r"] > 0) + One(f_count'["w"] > 0)
    BY <1>1, <1>8 DEF One
<1>10. \A x \in Sides : f_count'[x] = Cardinality(Alive(x)')
    BY <1>1, <1>4, <1>5, <1>7 DEF Counted
<1> QED
    BY <1>1, <1>5, <1>9, <1>10 DEF Counted

\* Each step keeps the count of the references; only close changes f_count.
LEMMA CountedStep ==
    ASSUME TypeOK, Placed, Counted, NEW p \in Proc,
           (\E n \in 1..MaxCount : Call(p, n)) \/ Step(p) \/ Interrupt(p) \/ Close(p)
    PROVE  Counted' /\ (~Close(p) => UNCHANGED <<f_count, i_count>>)
<1>1. CASE Close(p)
    BY <1>1, CountedClose
<1>2. CASE ~Close(p)
    <2> USE DEF inode, Goto, Wake, Unlocked, InXfer
    <2>1. ASSUME NEW n \in 1..MaxCount, Call(p, n)
          PROVE  /\ UNCHANGED <<f_count, i_count>>
                 /\ \A q \in Proc : (pc'[q] = "closed") <=> (pc[q] = "closed")
        BY <2>1 DEF Call
    <2>2. ASSUME Step(p)
          PROVE  /\ UNCHANGED <<f_count, i_count>>
                 /\ \A q \in Proc : (pc'[q] = "closed") <=> (pc[q] = "closed")
        <3>1. CASE PlockWait(p) \/ ReadStart(p) \/ ReadMove(p) \/ ReadLast(p)
            <4>1. CASE PlockWait(p) \/ ReadMove(p)
                BY <4>1 DEF PlockWait, ReadMove
            <4>2. CASE ReadStart(p)
                BY <4>2 DEF ReadStart
            <4>3. CASE ReadLast(p)
                <5> HIDE DEF Wake
                <5>1. PICK L : Wake(L, p, "user") /\ "closed" \notin L
                    BY <4>3 DEF ReadLast, Prele
                <5>2. pc[p] # "closed" /\ UNCHANGED <<f_count, i_count>>
                    BY <4>3 DEF ReadLast
                <5> QED
                    BY <5>1, <5>2, WakeFacts
            <4> QED
                BY <3>1, <4>1, <4>2, <4>3
        <3>2. CASE ReadEmpty(p)
            BY <3>2 DEF ReadEmpty
        <3>3. CASE WriteDone(p) \/ WriteEpipe(p) \/ WriteFull(p) \/ WriteStart(p)
            BY <3>3 DEF WriteDone, WriteEpipe, WriteFull, WriteStart
        <3>4. CASE WriteMove(p) \/ WriteLast(p) \/ WriteNoSpace(p)
            <4>1. CASE WriteMove(p)
                BY <4>1 DEF WriteMove
            <4>2. CASE WriteLast(p)
                <5> HIDE DEF Wake
                <5>1. PICK L : Wake(L, p, "plock") /\ "closed" \notin L
                    BY <4>2 DEF WriteLast, WriteEnd, Prele
                <5>2. pc[p] # "closed" /\ UNCHANGED <<f_count, i_count>>
                    BY <4>2 DEF WriteLast
                <5> QED
                    BY <5>1, <5>2, WakeFacts
            <4>3. CASE WriteNoSpace(p)
                <5> HIDE DEF Wake
                <5>1. PICK L : Wake(L, p, "plock") /\ "closed" \notin L
                    BY <4>3 DEF WriteNoSpace, WriteEnd, Prele
                <5>2. pc[p] # "closed" /\ UNCHANGED <<f_count, i_count>>
                    BY <4>3 DEF WriteNoSpace
                <5> QED
                    BY <5>1, <5>2, WakeFacts
            <4> QED
                BY <3>4, <4>1, <4>2, <4>3
        <3> QED
            BY <2>2, <3>1, <3>2, <3>3, <3>4 DEF Step
    <2>3. ASSUME Interrupt(p)
          PROVE  /\ UNCHANGED <<f_count, i_count>>
                 /\ \A q \in Proc : (pc'[q] = "closed") <=> (pc[q] = "closed")
        BY <2>3 DEF Interrupt
    <2> QED
        BY <1>2, <2>1, <2>2, <2>3, CountedSame
<1> QED
    BY <1>1, <1>2

\* No side is opened again.
LEMMA SidesFall ==
    ASSUME TypeOK, Placed, Counted, NEW p \in Proc,
           (\E n \in 1..MaxCount : Call(p, n)) \/ Step(p) \/ Interrupt(p) \/ Close(p)
    PROVE  /\ f_count["r"] \in Nat /\ f_count'["r"] \in Nat
           /\ f_count["w"] \in Nat /\ f_count'["w"] \in Nat
           /\ f_count'["r"] <= f_count["r"] /\ f_count'["w"] <= f_count["w"]
<1>1. TypeOK /\ TypeOK'
    BY TypedStep
<1>2. /\ f_count["r"] \in Nat /\ f_count'["r"] \in Nat
      /\ f_count["w"] \in Nat /\ f_count'["w"] \in Nat
    BY <1>1 DEF TypeOK, Sides
<1>3. CASE ~Close(p)
    BY <1>2, <1>3, CountedStep
<1>4. CASE Close(p)
    <2>1. \A s \in Sides : f_count'[s] = IF s = Side(p) THEN f_count[s] - 1 ELSE f_count[s]
        BY <1>4 DEF Close, TypeOK
    <2> QED
        BY <1>2, <2>1 DEF Sides
<1> QED
    BY <1>3, <1>4

\* Two references to the inode: both sides are open.
LEMMA TwoRefs ==
    ASSUME TypeOK, Counted
    PROVE  (i_count < 2) <=> ~BothOpen
BY DEF TypeOK, Counted, BothOpen, One, Sides

-----------------------------------------------------------------------------
\* The processes in readi or writei.
InX == {q \in Proc : pc[q] = "xfer"}

\* What a step does to the lock: nothing, take it, leave it, or clear it when
\* a side is closed for the last time.
LEMMA LockMoves ==
    ASSUME TypeOK, NEW p \in Proc,
           (\E n \in 1..MaxCount : Call(p, n)) \/ Step(p) \/ Interrupt(p) \/ Close(p)
    PROVE  \/ InX' = InX /\ ("ILOCK" \in i_flag' <=> "ILOCK" \in i_flag)
           \/ /\ ReadStart(p) \/ WriteStart(p)
              /\ InX' = InX \cup {p} /\ pc[p] = "plock"
              /\ "ILOCK" \in i_flag' /\ "ILOCK" \notin i_flag
           \/ /\ ReadLast(p) \/ WriteLast(p) \/ WriteNoSpace(p)
              /\ InX' = InX \ {p} /\ i_flag' = {}
           \/ /\ Close(p) /\ f_count[Side(p)] <= 1
              /\ InX' = InX /\ i_flag' = {}
<1> USE DEF Goto, Unlocked, InXfer, inode
<1>1. ASSUME NEW n \in 1..MaxCount, Call(p, n)
      PROVE  InX' = InX /\ i_flag' = i_flag
    BY <1>1 DEF Call, Wake, InX
<1>2. CASE PlockWait(p)
    BY <1>2 DEF PlockWait, Wake, InX
<1>3. CASE ReadEmpty(p)
    BY <1>3 DEF ReadEmpty, Wake, InX
<1>4. CASE ReadStart(p)
    <2>1. CASE f_offset < i_size1
        BY <1>4, <2>1 DEF ReadStart, Wake, InX
    <2>2. CASE ~(f_offset < i_size1)
        BY <1>4, <2>2 DEF ReadStart, Wake, InX
    <2> QED
        BY <2>1, <2>2
<1>5. CASE ReadMove(p) \/ WriteMove(p)
    BY <1>5 DEF ReadMove, WriteMove, InX
<1>6. CASE ReadLast(p)
    BY <1>6 DEF ReadLast, Wake, Prele, InX
<1>7. CASE WriteDone(p) \/ WriteEpipe(p) \/ WriteFull(p)
    BY <1>7 DEF WriteDone, WriteEpipe, WriteFull, Wake, InX
<1>8. CASE WriteStart(p)
    BY <1>8 DEF WriteStart, Wake, InX
<1>9. CASE WriteLast(p) \/ WriteNoSpace(p)
    BY <1>9 DEF WriteLast, WriteNoSpace, WriteEnd, Wake, Prele, InX
<1>10. CASE Interrupt(p)
    BY <1>10 DEF Interrupt, Wake, InX
<1>11. CASE Close(p)
    <2>1. CASE f_count[Side(p)] <= 1
        BY <1>11, <2>1 DEF Close, Wake, Prele, InX
    <2>2. CASE ~(f_count[Side(p)] <= 1)
        BY <1>11, <2>2 DEF Close, Wake, InX
    <2> QED
        BY <2>1, <2>2
<1> QED
    BY <1>1, <1>2, <1>3, <1>4, <1>5, <1>6, <1>7, <1>8, <1>9, <1>10, <1>11
       DEF Step

\* While both sides are open the lock has one holder.
LEMMA LockedStep ==
    ASSUME TypeOK, Placed, Counted, Locked, NEW p \in Proc,
           (\E n \in 1..MaxCount : Call(p, n)) \/ Step(p) \/ Interrupt(p) \/ Close(p)
    PROVE  Locked'
<1>1. BothOpen' => BothOpen
    BY SidesFall DEF BothOpen
<1>2. CASE InX' = InX /\ ("ILOCK" \in i_flag' <=> "ILOCK" \in i_flag)
    BY <1>1, <1>2 DEF Locked, LockExcludes, InX
<1>3. CASE /\ InX' = InX \cup {p} /\ "ILOCK" \in i_flag' /\ "ILOCK" \notin i_flag
    BY <1>1, <1>3 DEF Locked, LockExcludes, InX
<1>4. CASE InX' = InX \ {p} /\ i_flag' = {} /\ p \in InX
    BY <1>1, <1>4 DEF Locked, LockExcludes, InX
<1>5. CASE Close(p) /\ f_count[Side(p)] <= 1 /\ i_flag' = {}
    <2>1. ~BothOpen'
        BY <1>5, SidesFall, CountedClose DEF BothOpen, Side
    <2> QED
        BY <1>5, <2>1 DEF Locked
<1> QED
    BY <1>2, <1>3, <1>4, <1>5, LockMoves
       DEF ReadLast, WriteLast, WriteNoSpace, InXfer, InX

\* Who sleeps for data or for room has both sides open.
LEMMA SleeperOpen ==
    ASSUME TypeOK, Placed, Counted, SleepIsJustified, NEW q \in Proc,
           pc[q] \in {"iempty", "ifull"}
    PROVE  BothOpen
<1>1. f_count[Side(q)] > 0
    BY AliveCounted
<1>2. CASE pc[q] = "iempty"
    BY <1>1, <1>2 DEF Placed, SleepIsJustified, BothOpen, Side
<1>3. CASE pc[q] = "ifull"
    BY <1>1, <1>3, PipeAssumption DEF Placed, SleepIsJustified, BothOpen, Side
<1> QED
    BY <1>2, <1>3

\* Nobody is left asleep, step by step.
LEMMA SleepStep ==
    ASSUME TypeOK, Placed, Counted, Locked, Idle, SleepIsJustified, NEW p \in Proc,
           (\E n \in 1..MaxCount : Call(p, n)) \/ Step(p) \/ Interrupt(p) \/ Close(p)
    PROVE  SleepIsJustified' /\ Idle'
<1> USE DEF Goto, Unlocked, InXfer
<1>0. /\ Readers \cap Writers = {} /\ PIPSIZ > 0 /\ PIPSIZ \in Nat
      /\ f_offset \in 0..PIPSIZ /\ i_size1 \in 0..PIPSIZ
      /\ Readers \subseteq Proc /\ Writers \subseteq Proc
    BY PipeAssumption DEF TypeOK, Proc
<1>1. ASSUME NEW n \in 1..MaxCount, Call(p, n)
      PROVE  SleepIsJustified' /\ Idle'
    BY <1>0, <1>1 DEF Call, Wake, inode, SleepIsJustified, Idle
<1>2. CASE PlockWait(p)
    <2>1. i_flag' = {"ILOCK", "IWANT"} /\ \E q \in Proc : pc[q] = "xfer"
        BY <1>2 DEF PlockWait, TypeOK, Locked
    <2> QED
        BY <1>0, <1>2, <2>1 DEF PlockWait, Wake, SleepIsJustified, Idle
<1>3. CASE ReadEmpty(p)
    <2>1. p \in Readers /\ f_count["r"] > 0 /\ p \notin Writers
        BY <1>0, <1>3, AliveCounted DEF ReadEmpty, Side
    <2>2. ~BothOpen \/ \A q \in Proc : pc[q] # "xfer"
        BY <1>3 DEF ReadEmpty, Locked
    <2>3. \A q \in Proc : pc[q] # "ilock"
        BY <1>3 DEF ReadEmpty, SleepIsJustified
    <2>4. ASSUME NEW q \in Proc, pc[q] = "ifull" PROVE pc'[q] = "plock"
        <3>1. /\ f_offset # 0 /\ "IWRITE" \in i_mode /\ q # p
            BY <1>0, <1>3, <2>4 DEF ReadEmpty, SleepIsJustified
        <3> QED
            BY <1>3, <2>4, <3>1 DEF ReadEmpty, Wake
    <2>5. \A q \in Proc : q # p => pc'[q] \in {pc[q], "plock"}
        BY <1>3 DEF ReadEmpty, Wake
    <2>6. CASE i_count < 2
        <3>1. pc'[p] = "eof" /\ \A q \in Proc : pc[q] \notin {"iempty", "ifull"}
            BY <1>3, <2>6, TwoRefs, SleeperOpen DEF ReadEmpty, Wake
        <3> QED
            BY <1>0, <2>3, <2>5, <3>1 DEF SleepIsJustified, Idle
    <2>7. CASE ~(i_count < 2)
        <3>1. /\ pc'[p] = "iempty" /\ "IREAD" \in i_mode'
              /\ f_offset' = i_size1' /\ UNCHANGED f_count
            BY <1>3, <2>7 DEF ReadEmpty, Wake
        <3>2. BothOpen
            BY <2>7, TwoRefs
        <3> QED
            BY <1>0, <2>2, <2>3, <2>4, <2>5, <3>1, <3>2
               DEF SleepIsJustified, Idle, BothOpen
    <2> QED
        BY <2>6, <2>7
<1>4. CASE ReadStart(p)
    <2>1. \A q \in Proc : pc[q] \notin {"ilock", "iempty"}
        <3>1. \A q \in Proc : pc[q] # "ilock"
            BY <1>4 DEF ReadStart, SleepIsJustified
        <3>2. ASSUME NEW q \in Proc, pc[q] = "iempty" PROVE FALSE
            <4>1. BothOpen
                BY <3>2, SleeperOpen
            <4>2. \A w \in Writers : pc[w] # "xfer"
                BY <1>0, <1>4, <4>1 DEF ReadStart, Locked
            <4> QED
                BY <1>4, <3>2, <4>2 DEF ReadStart, SleepIsJustified
        <3> QED
            BY <3>1, <3>2
    <2>2. /\ \A q \in Proc : q # p => pc'[q] = pc[q]
          /\ pc'[p] \in {"xfer", "eof"}
        BY <1>4 DEF ReadStart, Wake
    <2> QED
        BY <1>0, <1>4, <2>1, <2>2 DEF ReadStart, SleepIsJustified, Idle
<1>5. CASE ReadMove(p)
    BY <1>0, <1>5 DEF ReadMove, inode, SleepIsJustified, Idle
<1>6. CASE ReadLast(p)
    <2>1. /\ \A q \in Proc : pc[q] # "iempty"
          /\ \A q \in Proc : pc[q] = "ilock" => pc'[q] = "plock"
          /\ \A q \in Proc : q # p => pc'[q] \in {pc[q], "plock"}
          /\ pc'[p] = "user"
        <3>1. p \in Readers /\ pc[p] = "xfer"
            BY <1>6 DEF ReadLast
        <3>2. ASSUME NEW q \in Proc, pc[q] = "ilock" PROVE pc'[q] = "plock"
            BY <1>6, <3>1, <3>2 DEF ReadLast, Wake, Prele, SleepIsJustified
        <3>3. \A q \in Proc : pc[q] # "iempty"
            BY <3>1 DEF Placed, Idle
        <3> QED
            BY <1>6, <3>2, <3>3 DEF ReadLast, Wake
    <2> QED
        BY <1>0, <1>6, <2>1 DEF ReadLast, SleepIsJustified, Idle
<1>7. CASE WriteDone(p)
    BY <1>0, <1>7 DEF WriteDone, Wake, inode, SleepIsJustified, Idle
<1>8. CASE WriteEpipe(p)
    BY <1>0, <1>8 DEF WriteEpipe, Wake, inode, SleepIsJustified, Idle
<1>9. CASE WriteFull(p)
    <2>1. BothOpen
        BY <1>9, TwoRefs DEF WriteFull, TypeOK
    <2> QED
        BY <1>0, <1>9, <2>1 DEF WriteFull, Wake, SleepIsJustified, Idle, BothOpen
<1>10. CASE WriteStart(p)
    <2>1. /\ \A q \in Proc : q # p => pc'[q] = pc[q]
          /\ pc'[p] = "xfer" /\ p \in Writers /\ p \notin Readers
          /\ \A q \in Proc : pc[q] # "ilock"
        BY <1>0, <1>10 DEF WriteStart, Wake, SleepIsJustified
    <2> QED
        BY <1>0, <1>10, <2>1 DEF WriteStart, SleepIsJustified, Idle
<1>11. CASE WriteMove(p)
    <2>1. /\ offset[p] \in 0..PIPSIZ /\ offset[p] < PIPSIZ /\ p \in Writers
          /\ pc[p] = "xfer"
        BY <1>11 DEF WriteMove, TypeOK, Placed
    <2>2. i_size1 = PIPSIZ => i_size1' = PIPSIZ
        BY <1>0, <1>11, <2>1 DEF WriteMove, Write1
    <2> QED
        BY <1>0, <1>11, <2>1, <2>2 DEF WriteMove, SleepIsJustified, Idle
<1>12. CASE WriteLast(p) \/ WriteNoSpace(p)
    <2>1. /\ offset[p] \in 0..PIPSIZ /\ offset[p] < PIPSIZ /\ p \in Writers
          /\ pc[p] = "xfer" /\ WriteEnd(p)
        BY <1>12 DEF WriteLast, WriteNoSpace, TypeOK, Placed
    <2>2. i_size1 = PIPSIZ => i_size1' = PIPSIZ
        BY <1>0, <1>12, <2>1 DEF WriteLast, WriteNoSpace, Write1
    <2>3. ASSUME NEW q \in Proc, pc[q] \in {"ilock", "iempty"} PROVE pc'[q] = "plock"
        BY <2>1, <2>3 DEF WriteEnd, Wake, Prele, SleepIsJustified
    <2>4. /\ \A q \in Proc : q # p => pc'[q] \in {pc[q], "plock"}
          /\ pc'[p] = "plock" /\ i_mode' = i_mode \ {"IREAD"}
        BY <2>1 DEF WriteEnd, Wake
    <2>5. UNCHANGED f_count
        BY <1>12 DEF WriteLast, WriteNoSpace
    <2> QED
        BY <1>0, <2>2, <2>3, <2>4, <2>5 DEF SleepIsJustified, Idle
<1>13. CASE Interrupt(p)
    BY <1>0, <1>13 DEF Interrupt, Wake, inode, SleepIsJustified, Idle
<1>14. CASE Close(p)
    <2>1. /\ \A q \in Proc : q # p => pc'[q] \in {pc[q], "plock"}
          /\ \A q \in Proc : pc[q] \in {"ifull", "iempty"} => pc'[q] = "plock"
          /\ pc'[p] = "closed" /\ pc[p] # "xfer"
        BY <1>14 DEF Close, Wake
    <2>2. \A q \in Proc : pc'[q] \notin {"ifull", "iempty"}
        BY <2>1
    <2>3. CASE f_count[Side(p)] <= 1
        <3>1. \A q \in Proc : pc[q] = "ilock" => pc'[q] = "plock"
            BY <1>14, <2>3 DEF Close, Wake, Prele, SleepIsJustified
        <3> QED
            BY <1>0, <2>1, <2>2, <3>1 DEF SleepIsJustified, Idle
    <2>4. CASE ~(f_count[Side(p)] <= 1)
        <3>1. /\ i_flag' = i_flag
              /\ \A q \in Proc : pc[q] = "xfer" => pc'[q] = "xfer"
            BY <1>14, <2>4 DEF Close, Wake
        <3> QED
            BY <1>0, <2>1, <2>2, <3>1 DEF SleepIsJustified, Idle
    <2> QED
        BY <2>3, <2>4
<1> QED
    BY <1>1, <1>2, <1>3, <1>4, <1>5, <1>6, <1>7, <1>8, <1>9, <1>10, <1>11,
       <1>12, <1>13, <1>14 DEF Step

-----------------------------------------------------------------------------
\* A reader that finds the pipe unlocked is alone, as long as the lock excludes.
LEMMA ReaderAlone ==
    ASSUME TypeOK, Counted, Locked, Guarded, NEW p \in Proc, Unlocked(p, Readers)
    PROVE  \A q \in Proc : pc[q] # "xfer"
<1>1. p \in Readers /\ pc[p] = "plock" /\ "ILOCK" \notin i_flag /\ f_count["r"] > 0
    BY AliveCounted DEF Unlocked, Side
<1>2. CASE f_count["w"] > 0
    BY <1>1, <1>2 DEF Locked, BothOpen
<1>3. CASE OneReader /\ ~(f_count["w"] > 0)
    <2>1. \A q \in Writers : pc[q] = "closed"
        BY <1>3, PipeAssumption, AliveCounted DEF Side, Proc
    <2> QED
        BY <1>1, <1>3, <2>1 DEF OneReader, Proc
<1> QED
    BY <1>2, <1>3 DEF Guarded

\* The head while nobody reads, and while p reads.
LEMMA HeadAtRest ==
    ASSUME TypeOK, Held, \A q \in Readers : pc[q] # "xfer"
    PROVE  Between(f_offset) /\ f_offset \in 0..PIPSIZ
BY DEF Held, IsHead, TypeOK

\* The reader in readi is at the head.
LEMMA HeadInRead ==
    ASSUME TypeOK, Placed, Held, NEW p \in Readers, pc[p] = "xfer"
    PROVE  /\ Between(offset[p]) /\ offset[p] \in 0..PIPSIZ
           /\ offset[p] < i_size1 /\ offset[p] < PIPSIZ
           /\ \A q \in Proc : q # p => pc[q] # "xfer"
<1>1. p \in Proc
    BY DEF Proc
<1> QED
    BY <1>1 DEF Held, IsHead, TypeOK, Placed, LockExcludes

\* How the two are put back together.
LEMMA AtRestHeld ==
    ASSUME \A q \in Proc : pc'[q] # "xfer", Between(f_offset)', InOrder'
    PROVE  Held'
BY DEF Held, IsHead, LockExcludes, Proc

\* What Held says while a reader is in readi.
LEMMA InReadHeld ==
    ASSUME NEW p \in Readers, pc'[p] = "xfer",
           \A q \in Proc : q # p => pc'[q] # "xfer",
           Between(offset[p])', offset'[p] < i_size1', InOrder'
    PROVE  Held'
<1>1. p \in Proc /\ p \notin Writers
    BY PipeAssumption DEF Proc
<1> QED
    BY <1>1 DEF Held, IsHead, LockExcludes, Proc

\* What Held says while a writer is in writei.
LEMMA InWriteHeld ==
    ASSUME NEW p \in Writers, pc'[p] = "xfer",
           \A q \in Proc : q # p => pc'[q] # "xfer",
           Between(f_offset)', offset'[p] = i_size1', InOrder'
    PROVE  Held'
<1>1. p \in Proc /\ p \notin Readers
    BY PipeAssumption DEF Proc
<1> QED
    BY <1>1 DEF Held, IsHead, LockExcludes, Proc

\* A step that moves no byte and nobody in or out of a transfer.
LEMMA HeldSame ==
    ASSUME Held, InX' = InX,
           UNCHANGED <<i_size1, f_offset, data, offset, put, got>>
    PROVE  Held'
<1>1. \A q \in Proc : (pc'[q] = "xfer") <=> (pc[q] = "xfer")
    BY DEF InX
<1>2. LockExcludes' /\ InOrder'
    BY <1>1 DEF Held, LockExcludes, InOrder
<1>3. \A h : (IsHead(h)' <=> IsHead(h)) /\ (Between(h)' <=> Between(h))
    BY <1>1 DEF IsHead, Between, Proc
<1> QED
    BY <1>1, <1>2, <1>3 DEF Held, Proc

\* The byte at the head is the next one in order.
LEMMA NextByte ==
    ASSUME TypeOK, NEW h \in 0..PIPSIZ, h < i_size1, Between(h), InOrder,
           got' = Append(got, data[h]), UNCHANGED <<data, i_size1, put>>
    PROVE  InOrder' /\ Between(h + 1)'
<1>1. /\ i_size1 \in 0..PIPSIZ /\ got \in Seq(Nat) /\ Len(got) \in Nat
      /\ put \in Nat
    BY DEF TypeOK
<1>2. data[h] = Len(got)
    BY <1>1 DEF Between
<1>3. /\ Len(got') = Len(got) + 1 /\ got'[Len(got) + 1] = Len(got)
      /\ \A i \in 1..Len(got) : got'[i] = got[i]
    BY <1>1, <1>2
<1>4. InOrder'
    BY <1>1, <1>3 DEF InOrder
<1>5. /\ h + 1 <= i_size1 /\ put = (Len(got) + 1) + (i_size1 - (h + 1))
      /\ \A o \in (h + 1)..(i_size1 - 1) : data[o] = (Len(got) + 1) + (o - (h + 1))
    BY <1>1 DEF Between
<1> QED
    BY <1>3, <1>4, <1>5 DEF Between

\* The byte that writei puts at the tail.
LEMMA PutByte ==
    ASSUME TypeOK, Placed, Held, NEW p \in Writers, pc[p] = "xfer", Write1(p),
           UNCHANGED <<f_offset, got>>
    PROVE  /\ Between(f_offset)' /\ InOrder' /\ i_size1' = offset[p] + 1
           /\ \A q \in Proc : q # p => pc[q] # "xfer"
<1>1. /\ p \in Proc /\ offset[p] = i_size1 /\ offset[p] < PIPSIZ /\ PIPSIZ \in Nat
      /\ i_size1 \in 0..PIPSIZ /\ put \in Nat /\ Len(got) \in Nat
      /\ data \in [0..(PIPSIZ - 1) -> Nat]
    BY PipeAssumption, SMTT(40) DEF TypeOK, Placed, Held, Proc
<1>2. \A q \in Proc : q # p => pc[q] # "xfer"
    BY <1>1 DEF Held, LockExcludes
<1>3. Between(f_offset) /\ f_offset \in 0..PIPSIZ
    <2>1. \A q \in Readers : q \in Proc /\ q # p
        BY PipeAssumption DEF Proc
    <2> QED
        BY <1>2, <2>1, HeadAtRest
<1>4. /\ i_size1' = i_size1 + 1 /\ put' = put + 1
      /\ data' = [data EXCEPT ![i_size1] = put]
    BY <1>1 DEF Write1
<1>5. /\ data'[i_size1] = put
      /\ \A o \in f_offset..(i_size1 - 1) : data'[o] = data[o]
    BY <1>1, <1>3, <1>4
<1>6. \A o \in f_offset..i_size1 : data'[o] = Len(got) + (o - f_offset)
    <2>1. ASSUME NEW o \in f_offset..(i_size1 - 1)
          PROVE  data'[o] = Len(got) + (o - f_offset)
        BY <1>3, <1>5 DEF Between
    <2>2. put = Len(got) + (i_size1 - f_offset)
        BY <1>3 DEF Between
    <2>3. \A o \in f_offset..i_size1 : o = i_size1 \/ o \in f_offset..(i_size1 - 1)
        BY <1>1, <1>3
    <2> QED
        BY <1>5, <2>1, <2>2, <2>3
<1>7. Between(f_offset)'
    BY <1>1, <1>3, <1>4, <1>6 DEF Between
<1> QED
    BY <1>1, <1>2, <1>4, <1>7 DEF Held, InOrder

\* Each step keeps the bytes in order, as long as the lock excludes.
LEMMA HeldStep ==
    ASSUME TypeOK, Placed, Counted, Locked, Held, Guarded, NEW p \in Proc,
           (\E n \in 1..MaxCount : Call(p, n)) \/ Step(p) \/ Interrupt(p) \/ Close(p)
    PROVE  Held'
<1> USE DEF Goto, InXfer
<1>0. Readers \subseteq Proc /\ Writers \subseteq Proc /\ InOrder
    BY DEF Proc, Held
<1>1. ASSUME NEW n \in 1..MaxCount, Call(p, n) PROVE Held'
    BY <1>1, HeldSame DEF Call, Wake, inode, InX
<1>2. CASE PlockWait(p)
    BY <1>2, HeldSame DEF PlockWait, Wake, InX
<1>3. CASE ReadEmpty(p)
    <2>1. \A q \in Proc : pc[q] # "xfer"
        BY <1>3, ReaderAlone DEF ReadEmpty
    <2>2. Between(f_offset) /\ f_offset = i_size1 /\ f_offset \in 0..PIPSIZ
        BY <1>0, <1>3, <2>1, HeadAtRest DEF ReadEmpty
    <2>3. /\ f_offset' = 0 /\ i_size1' = 0 /\ UNCHANGED <<data, put, got>>
          /\ \A q \in Proc : pc'[q] # "xfer"
        BY <1>3, <2>1 DEF ReadEmpty, Wake
    <2>4. put = Len(got) /\ put \in Nat
        BY <2>2 DEF Between, TypeOK
    <2>5. Between(f_offset)' /\ InOrder'
        BY <1>0, <2>3, <2>4 DEF Between, InOrder
    <2> QED
        BY <2>3, <2>5, AtRestHeld
<1>4. CASE ReadStart(p)
    <2>1. p \in Readers /\ \A q \in Proc : pc[q] # "xfer"
        BY <1>4, ReaderAlone DEF ReadStart, Unlocked
    <2>2. Between(f_offset) /\ f_offset \in 0..PIPSIZ /\ f_offset < i_size1
        <3>1. Between(f_offset) /\ f_offset \in 0..PIPSIZ /\ i_size1 \in 0..PIPSIZ
            BY <1>0, <2>1, HeadAtRest DEF TypeOK
        <3> QED
            BY <1>4, <3>1 DEF ReadStart, Between
    <2>3. /\ offset'[p] = f_offset /\ pc'[p] = "xfer"
          /\ \A q \in Proc : q # p => pc'[q] # "xfer"
          /\ UNCHANGED <<i_size1, data, put, got>>
        BY <1>4, <2>1, <2>2 DEF ReadStart, Wake, TypeOK
    <2>4. Between(offset[p])' /\ InOrder' /\ offset'[p] < i_size1'
        BY <1>0, <2>2, <2>3 DEF Between, InOrder
    <2> QED
        BY <2>1, <2>3, <2>4, InReadHeld
<1>5. CASE ReadMove(p)
    <2>1. p \in Readers /\ pc[p] = "xfer"
        BY <1>5 DEF ReadMove
    <2>2. /\ Between(offset[p]) /\ offset[p] \in 0..PIPSIZ /\ offset[p] < i_size1
          /\ \A q \in Proc : q # p => pc[q] # "xfer"
        BY <2>1, HeadInRead
    <2>3. /\ got' = Append(got, data[offset[p]]) /\ pc' = pc
          /\ UNCHANGED <<data, i_size1, put>> /\ offset'[p] = offset[p] + 1
          /\ offset[p] + 1 < i_size1
        BY <1>5, <2>2 DEF ReadMove, ReadMore, inode, TypeOK
    <2>4. InOrder' /\ Between(offset[p])'
        <3>1. PICK h \in 0..PIPSIZ : h = offset[p]
            BY <2>2
        <3>2. InOrder' /\ Between(h + 1)'
            BY <1>0, <2>2, <2>3, <3>1, NextByte
        <3>3. offset'[p] = h + 1
            BY <2>3, <3>1
        <3> QED
            BY <3>2, <3>3 DEF Between
    <2> QED
        BY <2>1, <2>2, <2>3, <2>4, InReadHeld
<1>6. CASE ReadLast(p)
    <2>1. p \in Readers /\ pc[p] = "xfer"
        BY <1>6 DEF ReadLast
    <2>2. /\ Between(offset[p]) /\ offset[p] \in 0..PIPSIZ /\ offset[p] < i_size1
          /\ \A q \in Proc : q # p => pc[q] # "xfer"
        BY <2>1, HeadInRead
    <2>3. /\ got' = Append(got, data[offset[p]])
          /\ UNCHANGED <<data, i_size1, put>> /\ f_offset' = offset[p] + 1
          /\ \A q \in Proc : pc'[q] # "xfer"
        BY <1>6, <2>2 DEF ReadLast, Wake
    <2>4. InOrder' /\ Between(f_offset)'
        <3>1. PICK h \in 0..PIPSIZ : h = offset[p]
            BY <2>2
        <3>2. InOrder' /\ Between(h + 1)' /\ f_offset' = h + 1
            BY <1>0, <2>2, <2>3, <3>1, NextByte
        <3> QED
            BY <3>2 DEF Between
    <2> QED
        BY <2>3, <2>4, AtRestHeld
<1>7. CASE WriteDone(p) \/ WriteEpipe(p) \/ WriteFull(p)
    BY <1>7, HeldSame DEF WriteDone, WriteEpipe, WriteFull, Unlocked, Wake, inode, InX
<1>8. CASE WriteStart(p)
    <2>1. BothOpen
        BY <1>8, TwoRefs DEF WriteStart, TypeOK
    <2>2. p \in Writers /\ \A q \in Proc : pc[q] # "xfer"
        BY <1>8, <2>1 DEF WriteStart, Unlocked, Locked
    <2>3. Between(f_offset)
        BY <1>0, <2>2, HeadAtRest
    <2>4. /\ offset'[p] = i_size1' /\ pc'[p] = "xfer"
          /\ \A q \in Proc : q # p => pc'[q] # "xfer"
          /\ UNCHANGED <<f_offset, i_size1, data, put, got>>
        BY <1>8, <2>2 DEF WriteStart, Wake, TypeOK
    <2>5. Between(f_offset)' /\ InOrder'
        BY <1>0, <2>3, <2>4 DEF Between, InOrder
    <2> QED
        BY <2>2, <2>4, <2>5, InWriteHeld
<1>9. CASE WriteMove(p)
    <2>1. /\ p \in Writers /\ pc[p] = "xfer" /\ Write1(p) /\ UNCHANGED <<f_offset, got>>
          /\ pc' = pc /\ offset'[p] = offset[p] + 1
        BY <1>9 DEF WriteMove, TypeOK
    <2> QED
        BY <2>1, PutByte, InWriteHeld
<1>10. CASE WriteLast(p)
    <2>1. /\ p \in Writers /\ pc[p] = "xfer" /\ Write1(p) /\ UNCHANGED <<f_offset, got>>
          /\ WriteEnd(p)
        BY <1>10 DEF WriteLast
    <2>2. \A q \in Proc : pc'[q] # "xfer"
        BY <2>1, PutByte DEF WriteEnd, Wake
    <2> QED
        BY <2>1, <2>2, PutByte, AtRestHeld
<1>11. CASE WriteNoSpace(p)
    <2>1. /\ p \in Writers /\ pc[p] = "xfer" /\ WriteEnd(p)
          /\ UNCHANGED <<i_size1, f_offset, data, put, got>>
        BY <1>11 DEF WriteNoSpace
    <2>2. \A q \in Proc : q # p => pc[q] # "xfer"
        BY <2>1 DEF Held, LockExcludes
    <2>3. Between(f_offset)
        <3>1. \A q \in Readers : q \in Proc /\ q # p
            BY <2>1, PipeAssumption DEF Proc
        <3> QED
            BY <2>2, <3>1, HeadAtRest
    <2>4. \A q \in Proc : pc'[q] # "xfer"
        BY <2>1, <2>2 DEF WriteEnd, Wake
    <2>5. Between(f_offset)' /\ InOrder'
        BY <1>0, <2>1, <2>3 DEF Between, InOrder
    <2> QED
        BY <2>4, <2>5, AtRestHeld
<1>12. CASE Interrupt(p)
    BY <1>12, HeldSame DEF Interrupt, Wake, inode, InX
<1>13. CASE Close(p)
    <2>1. InX' = InX
        BY <1>13, LockMoves DEF Close, ReadStart, WriteStart, Unlocked, ReadLast,
              WriteLast, WriteNoSpace
    <2> QED
        BY <1>13, <2>1, HeldSame DEF Close
<1> QED
    BY <1>1, <1>2, <1>3, <1>4, <1>5, <1>6, <1>7, <1>8, <1>9, <1>10, <1>11,
       <1>12, <1>13 DEF Step

\* End of file stays the truth.
LEMMA EofStep ==
    ASSUME TypeOK, Placed, Counted, Locked, Guarded => Held, EofMeans, NEW p \in Proc,
           (\E n \in 1..MaxCount : Call(p, n)) \/ Step(p) \/ Interrupt(p) \/ Close(p)
    PROVE  EofMeans'
<1> SUFFICES ASSUME NEW q \in Readers, pc'[q] = "eof"
             PROVE  f_count'["w"] = 0 /\ (OneReader => Len(got') = put')
    BY DEF EofMeans, OneReader
<1> USE DEF Goto, InXfer
<1>0. q \in Proc /\ q \notin Writers /\ Writers \subseteq Proc /\ f_count["w"] \in Nat
    BY PipeAssumption DEF Proc, TypeOK, Sides
<1>1. f_count["w"] = 0 => f_count'["w"] = 0
    BY SidesFall
<1>2. CASE pc[q] = "eof"
    <2>1. f_count["w"] = 0 /\ (OneReader => Len(got) = put)
        BY <1>2 DEF EofMeans
    <2>2. \A w \in Writers : pc[w] = "closed"
        BY <1>0, <2>1, PipeAssumption, AliveCounted DEF Side
    <2>3. OneReader => got' = got /\ put' = put
        <3> SUFFICES ASSUME OneReader PROVE got' = got /\ put' = put
            OBVIOUS
        <3>1. p \in Readers => pc[p] = "eof"
            BY <1>2 DEF OneReader
        <3>2. pc[p] \in {"eof", "closed"}
            BY <2>2, <3>1 DEF Proc
        <3>3. Close(p)
            BY <3>2 DEF Step, Call, PlockWait, ReadEmpty, ReadStart, ReadMove,
               ReadLast, WriteDone, WriteEpipe, WriteFull, WriteStart, WriteMove,
               WriteLast, WriteNoSpace, Interrupt, Unlocked
        <3> QED
            BY <3>3 DEF Close
    <2> QED
        BY <1>1, <2>1, <2>3
<1>3. CASE pc[q] # "eof"
    <2>1. p = q /\ (ReadEmpty(p) \/ ReadStart(p))
        <3>1. ASSUME NEW L, NEW l, Wake(L, p, l), l # "eof" PROVE FALSE
            BY <1>0, <1>3, <3>1 DEF Wake
        <3>2. ASSUME pc' = pc PROVE FALSE
            BY <1>3, <3>2
        <3>3. CASE ReadEmpty(p) \/ ReadStart(p)
            BY <1>0, <1>3, <3>3 DEF ReadEmpty, ReadStart, Wake
        <3>4. CASE ~(ReadEmpty(p) \/ ReadStart(p))
            BY <3>1, <3>2, <3>4 DEF Call, Step, PlockWait, ReadMove, ReadLast,
               WriteDone, WriteEpipe, WriteFull, WriteStart, WriteMove,
               WriteLast, WriteNoSpace, WriteEnd, Interrupt, Close
        <3> QED
            BY <3>3, <3>4
    <2>2. f_count["r"] > 0 /\ Unlocked(p, Readers) /\ UNCHANGED <<got, put, f_count>>
        BY <2>1, AliveCounted DEF ReadEmpty, ReadStart, Unlocked, Side
    <2>3. ASSUME Guarded
          PROVE  Between(f_offset) /\ f_offset \in 0..PIPSIZ /\ i_size1 \in 0..PIPSIZ
        <3>1. \A x \in Readers : pc[x] # "xfer"
            BY <2>2, <2>3, ReaderAlone DEF Proc
        <3> QED
            BY <2>3, <3>1, HeadAtRest DEF TypeOK
    <2>4. CASE ReadEmpty(p)
        <3>1. i_count < 2
            BY <2>1, <2>4, <1>0 DEF ReadEmpty, Wake
        <3>2. f_count["w"] = 0
            BY <2>2, <3>1, <1>0, TwoRefs DEF BothOpen
        <3>3. OneReader => Len(got) = put
            BY <2>3, <2>4 DEF Guarded, ReadEmpty, Between, TypeOK
        <3> QED
            BY <2>2, <3>2, <3>3
    <2>5. CASE ReadStart(p)
        <3>1. ~(f_offset < i_size1) /\ f_offset # i_size1
            BY <2>1, <2>5, <1>0 DEF ReadStart, Wake
        <3>2. ~Guarded
            BY <2>3, <3>1 DEF Between
        <3> QED
            BY <2>2, <3>2, <1>0 DEF Guarded
    <2> QED
        BY <2>1, <2>4, <2>5
<1> QED
    BY <1>2, <1>3

-----------------------------------------------------------------------------
\* The inductive invariant holds of every behaviour.
LEMMA Invariance == Spec => []Inv
<1>1. Init => Inv
    BY InitInv
<1>2. Inv /\ [Next]_vars => Inv'
    <2> SUFFICES ASSUME Inv, [Next]_vars PROVE Inv'
        OBVIOUS
    <2>1. ASSUME NEW p \in Proc,
                 \/ \E n \in 1..MaxCount : Call(p, n)
                 \/ Step(p) \/ Interrupt(p) \/ Close(p)
          PROVE  Inv'
        <3>1. TypeOK' /\ Placed' /\ Counted' /\ Locked'
            BY <2>1, TypedStep, CountedStep, LockedStep DEF Inv
        <3>2. SleepIsJustified' /\ Idle'
            BY <2>1, SleepStep DEF Inv
        <3>3. Guarded' => Guarded
            BY <2>1, SidesFall DEF Inv, Guarded, OneReader
        <3>4. Guarded' => Held'
            BY <2>1, <3>3, HeldStep DEF Inv
        <3>5. EofMeans'
            BY <2>1, EofStep DEF Inv
        <3> QED
            BY <3>1, <3>2, <3>4, <3>5 DEF Inv
    <2>2. CASE UNCHANGED vars
        BY <2>2, SMTT(40)
           DEF vars, Inv, TypeOK, Placed, Counted, Alive, Locked, LockExcludes,
           BothOpen, Idle, SleepIsJustified, Guarded, OneReader, Held, IsHead,
           Between, InOrder, EofMeans
    <2> QED
        BY <2>1, <2>2 DEF Next
<1>3. Spec => Init /\ [][Next]_vars
    BY DEF Spec
<1> QED
    BY <1>1, <1>2, <1>3, PTL

\* Every variable of the pipe has its type: the transfers stay in the file,
\* and the counts of references never go below zero.
THEOREM TypeCorrect == Spec => []TypeOK
<1>1. Inv => TypeOK
    BY DEF Inv
<1> QED
    BY <1>1, Invariance, PTL

\* Nobody is left asleep (readp, writep, plock, closef), with any number of
\* readers and writers, whatever is closed and whoever is interrupted.
THEOREM NoLostWakeup == Spec => []SleepIsJustified
<1>1. Inv => SleepIsJustified
    BY DEF Inv
<1> QED
    BY <1>1, Invariance, PTL

\* Until a side is closed plock keeps the processes apart, with any number of
\* readers and writers.
THEOREM LockHolds == Spec => [](BothOpen => LockExcludes)
<1>1. Inv => (BothOpen => LockExcludes)
    BY DEF Inv, Locked
<1> QED
    BY <1>1, Invariance, PTL

\* With any number of readers the bytes come out in order for as long as
\* somebody can write; with one reader, always.
THEOREM OrderKept == Spec => [](f_count["w"] > 0 \/ OneReader => InOrder)
<1>1. Inv => (f_count["w"] > 0 \/ OneReader => InOrder)
    BY DEF Inv, Guarded, Held
<1> QED
    BY <1>1, Invariance, PTL

\* One reader is told of the end of the file only when all writers have closed
\* the pipe and everything that was written has been read.
THEOREM EofHonest == OneReader /\ Spec => []EofIsTrue
<1>1. OneReader /\ Inv => EofIsTrue
    BY DEF Inv, EofMeans, EofIsTrue
<1>2. OneReader => []OneReader
    <2>1. OneReader => OneReader'
        BY DEF OneReader
    <2> QED
        BY <2>1, PTL
<1> QED
    BY <1>1, <1>2, Invariance, PTL
=============================================================================
