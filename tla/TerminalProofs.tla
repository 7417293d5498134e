--------------------------- MODULE TerminalProofs ---------------------------
(***************************************************************************)
(* The character blocks and the delimiters of a terminal (dmr/tty.c), for  *)
(* any number of processes, blocks and keys.                               *)
(***************************************************************************)
EXTENDS Terminal, FiniteSetTheorems, SequenceTheorems, TLAPS

-----------------------------------------------------------------------------
Mode == [raw : BOOLEAN, delay : BOOLEAN]
Char == 0..127

\* The terminal and its lists.
Tty == [rawq : Clists, canq : Clists, outq : Clists, cfree : Nat, delct : Int,
        mode : Mode, timeout : BOOLEAN, done : BOOLEAN]

\* Blocks, free or not.
Total(x) == x.cfree + Blocks(x.rawq) + Blocks(x.canq) + Blocks(x.outq)

\* What is put out is a character of 7 bits or a delay.
OutChars(s) == \A i \in DOMAIN s : s[i] \in Char \cup {DELAY}

Good(x) == x \in Tty /\ Total(x) = NCLIST /\ OutChars(x.outq.s)

PCs == {"user", "rawq", "outq", "drain", "dead", "canon1", "write1", "stty1",
        "ret", "canon", "cget", "cdel", "ccopy", "pass", "passget", "write",
        "newline", "delay", "tstart", "stty"}

User == [pc : PCs, buf : Seq(0..255), count : Int, text : Seq(Char), mode : Mode]

\* A callout is set while TIMEOUT is.
Timed(x, n) == n \in Nat /\ (x.timeout <=> n # 0)

Kernel ==
    /\ u \in [Procs -> User]
    /\ p_sig \in [Procs -> {0, SIGINT, SIGKIL}]
    /\ u_signal \in [Procs -> {"default", "ignore", "catch"}]
    /\ cpu \in Procs \cup {NoProc}
    /\ backend \in Backends
    /\ nkeys \in 0..MaxTyped[backend] /\ calls \in 0..MaxCalls[backend]

\* Only one process is between the two halves of taking a delimiter.
Alone == \A p \in Procs : u[p].pc = "cdel" => cpu = p

\* The inductive invariant.
Inv == Good(t) /\ Timed(t, callout) /\ Kernel /\ Alone /\ DelimitersCounted
-----------------------------------------------------------------------------
(* Sequences and blocks.                                                    *)

\* The constants are numbers of the expected size.
LEMMA Sizes == CBSIZE \in Nat \ {0} /\ NCLIST \in Nat /\ DELAY \in 129..254 /\ Ticks \in 1..126
BY TerminalAssumption DEF DELAY

\* What putc makes of the characters of a list.
LEMMA AppendFacts ==
    ASSUME NEW S, NEW s \in Seq(S), NEW c \in S
    PROVE  /\ Append(s, c) \in Seq(S) /\ Append(s, c) # <<>>
           /\ Len(Append(s, c)) = Len(s) + 1 /\ Len(s) \in Nat
           /\ DOMAIN Append(s, c) = 1..(Len(s) + 1) /\ DOMAIN s = 1..Len(s)
           /\ \A i \in 1..Len(s) : Append(s, c)[i] = s[i]
           /\ Append(s, c)[Len(s) + 1] = c
BY AppendProperties, LenProperties

\* What getc makes of them.
LEMMA TailFacts ==
    ASSUME NEW S, NEW s \in Seq(S), s # <<>>
    PROVE  /\ Len(s) \in Nat \ {0} /\ Head(s) \in S /\ Head(s) = s[1]
           /\ Tail(s) \in Seq(S) /\ Len(Tail(s)) = Len(s) - 1
           /\ DOMAIN s = 1..Len(s) /\ DOMAIN Tail(s) = 1..(Len(s) - 1)
           /\ \A i \in 1..(Len(s) - 1) : Tail(s)[i] = s[i + 1]
           /\ Tail(s) = <<>> <=> Len(s) = 1
<1>1. /\ Len(s) \in Nat \ {0} /\ Head(s) \in S
      /\ Tail(s) \in Seq(S) /\ Len(Tail(s)) = Len(s) - 1
      /\ \A i \in 1..Len(Tail(s)) : Tail(s)[i] = s[i + 1]
    BY HeadTailProperties, EmptySeq
<1>2. DOMAIN s = 1..Len(s) /\ DOMAIN Tail(s) = 1..(Len(s) - 1)
    BY <1>1, LenProperties
<1>3. Tail(s) = <<>> <=> Len(s) = 1
    <2>1. Len(<<>>) = 0
        BY EmptySeq
    <2>2. Tail(s) # <<>> => Len(Tail(s)) \in Nat \ {0}
        BY <1>1, EmptySeq
    <2>3. ASSUME Tail(s) = <<>> PROVE Len(s) = 1
        <3>1. Len(Tail(s)) = 0
            BY <2>1, <2>3, Zenon
        <3>2. Len(s) - 1 = 0
            BY <1>1, <3>1, Zenon
        <3>3. Len(s) \in Nat
            BY <1>1
        <3> QED
            BY <3>2, <3>3
    <2>4. ASSUME Len(s) = 1 PROVE Tail(s) = <<>>
        <3>1. Len(Tail(s)) = 0
            BY <1>1, <2>4
        <3> QED
            BY <2>2, <3>1
    <2> QED
        BY <2>3, <2>4
<1> QED
    BY <1>1, <1>2, <1>3

\* Rounding up to blocks.
LEMMA Divided ==
    ASSUME NEW c \in Nat \ {0}, NEW n \in Nat
    PROVE  /\ n \div c \in Nat
           /\ (n + c) \div c = (n \div c) + 1
           /\ (n + c - 1) \div c = (n \div c) + (IF n % c = 0 THEN 0 ELSE 1)
           /\ n < c => n \div c = 0
OBVIOUS

\* A step in a block, and the last one of it.
LEMMA Stepped ==
    ASSUME NEW c \in Nat \ {0}, NEW f \in 0..(c-1), NEW k \in Nat \ {0}
    PROVE  /\ (f + 1 + c - 1) \div c = 1
           /\ (f + 1) % c = IF f + 1 = c THEN 0 ELSE f + 1
           /\ f + 1 = c => (0 + (k - 1) + c - 1) \div c = ((f + k + c - 1) \div c) - 1
OBVIOUS

\* The number of blocks of a list that is not empty.
LEMMA BlocksOf ==
    ASSUME NEW l \in Clists, l.s # <<>>
    PROVE  Blocks(l) = (l.cf + Len(l.s) + CBSIZE - 1) \div CBSIZE
BY DEF Blocks

\* The parts of a list.
LEMMA ClistFacts ==
    ASSUME NEW l \in Clists
    PROVE  /\ l.s \in Seq(0..255) /\ Len(l.s) \in Nat /\ DOMAIN l.s = 1..Len(l.s)
           /\ l.cf \in 0..(CBSIZE-1) /\ l.cf \in Nat
<1>1. l.s \in Seq(0..255) /\ l.cf \in 0..(CBSIZE-1)
    BY DEF Clists
<1>2. Len(l.s) \in Nat /\ DOMAIN l.s = 1..Len(l.s)
    BY <1>1, LenProperties
<1> QED
    BY <1>1, <1>2, Sizes

\* A list has a number of blocks.
LEMMA BlocksNat ==
    ASSUME NEW l \in Clists
    PROVE  Blocks(l) \in Nat
<1>1. CASE l.s = <<>>
    BY <1>1 DEF Blocks
<1>2. CASE l.s # <<>>
    <2>1. PICK n \in Nat : n = l.cf + Len(l.s) + CBSIZE - 1
        BY Sizes, ClistFacts
    <2>2. n \div CBSIZE \in Nat
        BY Divided, Sizes
    <2> QED
        BY <1>2, <2>1, <2>2, BlocksOf
<1> QED
    BY <1>1, <1>2

\* putc takes a block exactly when it needs one.
LEMMA OneMore ==
    ASSUME NEW l \in Clists, NEW c \in 0..255, NEW m \in Clists,
           m.s = Append(l.s, c), m.cf = l.cf
    PROVE  Blocks(m) = Blocks(l) + (IF NeedsBlock(l) THEN 1 ELSE 0)
<1>1. PICK n \in Nat : n = l.cf + Len(l.s)
    BY ClistFacts
<1>2. m.s # <<>> /\ Len(m.s) = Len(l.s) + 1 /\ Len(l.s) \in Nat /\ l.cf \in Nat
    BY AppendFacts, ClistFacts
<1>3. Blocks(m) = (l.cf + (Len(l.s) + 1) + CBSIZE - 1) \div CBSIZE
    BY <1>2, BlocksOf
<1>4. Blocks(m) = (n + CBSIZE) \div CBSIZE
    BY <1>1, <1>2, <1>3, Sizes
<1>5. Blocks(m) = (n \div CBSIZE) + 1 /\ n \div CBSIZE \in Nat
    BY <1>1, <1>4, Divided, Sizes
<1>6. CASE l.s = <<>>
    <2>1. n < CBSIZE
        BY <1>1, <1>6, Sizes, EmptySeq, ClistFacts
    <2>2. n \div CBSIZE = 0
        BY <2>1, Divided, Sizes
    <2> QED
        BY <1>5, <1>6, <2>2 DEF Blocks, NeedsBlock
<1>7. CASE l.s # <<>>
    <2>1. Blocks(l) = (n + CBSIZE - 1) \div CBSIZE
        BY <1>1, <1>7, BlocksOf
    <2>2. Blocks(l) = (n \div CBSIZE) + (IF n % CBSIZE = 0 THEN 0 ELSE 1)
        BY <2>1, Divided, Sizes
    <2>3. NeedsBlock(l) <=> n % CBSIZE = 0
        BY <1>1, <1>7 DEF NeedsBlock
    <2> QED
        BY <1>5, <2>2, <2>3
<1> QED
    BY <1>6, <1>7

\* A list after getc.
Rest(l) == IF Len(l.s) = 1 THEN Empty
           ELSE [s |-> Tail(l.s), cf |-> (l.cf + 1) % CBSIZE]

\* getc frees a block exactly when the list has one less.
LEMMA OneLess ==
    ASSUME NEW l \in Clists, l.s # <<>>
    PROVE  /\ Rest(l) \in Clists /\ Rest(l).s = Tail(l.s)
           /\ Blocks(Rest(l)) =
                 Blocks(l) - (IF l.cf + 1 = CBSIZE \/ Len(l.s) = 1 THEN 1 ELSE 0)
<1>1. PICK c \in Nat \ {0} : c = CBSIZE
    BY Sizes
<1>2. PICK f \in 0..(c-1) : f = l.cf
    BY <1>1, ClistFacts
<1>3. PICK k \in Nat \ {0} : k = Len(l.s)
    BY ClistFacts, TailFacts
<1>4. /\ Tail(l.s) \in Seq(0..255) /\ Len(Tail(l.s)) = k - 1
      /\ Tail(l.s) = <<>> <=> k = 1
    BY <1>3, ClistFacts, TailFacts
<1>5. Blocks(l) = (f + k + c - 1) \div c /\ Blocks(l) \in Nat
    BY <1>1, <1>2, <1>3, BlocksOf, BlocksNat
<1>6. CASE k = 1
    <2>1. Rest(l) = Empty /\ Tail(l.s) = <<>>
        BY <1>3, <1>4, <1>6 DEF Rest
    <2>2. Empty \in Clists /\ Empty.s = <<>> /\ Blocks(Empty) = 0
        BY Sizes, EmptySeq DEF Empty, Clists, Blocks
    <2>3. Blocks(l) = 1
        BY <1>5, <1>6, Stepped
    <2> QED
        BY <1>3, <1>6, <2>1, <2>2, <2>3
<1>7. CASE k # 1
    <2>1. (f + 1) % c = IF f + 1 = c THEN 0 ELSE f + 1
        BY Stepped
    <2>2. PICK g \in 0..(c-1) : g = IF f + 1 = c THEN 0 ELSE f + 1
        OBVIOUS
    <2>3. Rest(l) = [s |-> Tail(l.s), cf |-> g]
        BY <1>1, <1>2, <1>3, <1>7, <2>1, <2>2 DEF Rest
    <2>4. Rest(l) \in Clists /\ Rest(l).s = Tail(l.s) /\ Rest(l).cf = g
        BY <1>1, <1>4, <2>3 DEF Clists
    <2>5. Blocks(Rest(l)) = (g + (k - 1) + c - 1) \div c
        BY <1>1, <1>4, <1>7, <2>4, BlocksOf
    <2>6. CASE f + 1 = c
        <3>1. (0 + (k - 1) + c - 1) \div c = ((f + k + c - 1) \div c) - 1
            BY <2>6, Stepped
        <3>2. g = 0
            BY <2>2, <2>6
        <3> QED
            BY <1>1, <1>2, <1>5, <2>4, <2>5, <2>6, <3>1, <3>2
    <2>7. CASE f + 1 # c
        <3>1. g + (k - 1) + c - 1 = f + k + c - 1
            BY <2>2, <2>7
        <3>2. ~(l.cf + 1 = CBSIZE \/ Len(l.s) = 1)
            BY <1>1, <1>2, <1>3, <1>7, <2>7
        <3>3. PICK n \in Nat : n = Blocks(l)
            BY <1>5
        <3>4. Blocks(Rest(l)) = n /\ n = n - 0
            BY <1>5, <2>5, <3>1, <3>3
        <3> QED
            BY <2>4, <3>2, <3>3, <3>4
    <2> QED
        BY <2>6, <2>7
<1> QED
    BY <1>6, <1>7

-----------------------------------------------------------------------------
(* The lists of a terminal.                                                 *)

\* What only the lists and the free blocks differ in.
Frame(x, y) == /\ y.delct = x.delct /\ y.mode = x.mode
               /\ y.timeout = x.timeout /\ y.done = x.done

Others(x, y, q) == Frame(x, y) /\ \A r \in Queues : r # q => y[r] = x[r]

Updated(x, q, l, n) == [x EXCEPT ![q] = l, !.cfree = n]

\* A new list in one queue leaves the others alone.
LEMMA UpdatedFacts ==
    ASSUME NEW x \in Tty, NEW q \in Queues, NEW l \in Clists, NEW n \in Nat
    PROVE  LET y == Updated(x, q, l, n)
           IN  y \in Tty /\ y[q] = l /\ y.cfree = n /\ Others(x, y, q)
<1>1. CASE q = "rawq"
    BY <1>1 DEF Updated, Tty, Others, Frame, Queues
<1>2. CASE q = "canq"
    BY <1>2 DEF Updated, Tty, Others, Frame, Queues
<1>3. CASE q = "outq"
    BY <1>3 DEF Updated, Tty, Others, Frame, Queues
<1> QED
    BY <1>1, <1>2, <1>3 DEF Queues

\* Every queue of a terminal is a list.
LEMMA ListsOf ==
    ASSUME NEW x \in Tty
    PROVE  /\ \A q \in Queues : x[q] \in Clists /\ Blocks(x[q]) \in Nat
           /\ x.cfree \in Nat
<1>1. \A q \in Queues : x[q] \in Clists
    BY DEF Tty, Queues
<1> QED
    BY <1>1, BlocksNat DEF Tty

\* A list and the free blocks share what they had together.
LEMMA UpdatedGood ==
    ASSUME NEW x, Good(x), NEW q \in Queues, NEW l \in Clists, NEW n \in Nat,
           n + Blocks(l) = x.cfree + Blocks(x[q]),
           q = "outq" => OutChars(l.s)
    PROVE  Good(Updated(x, q, l, n))
<1> DEFINE y == Updated(x, q, l, n)
<1>1. y \in Tty /\ y[q] = l /\ y.cfree = n /\ \A r \in Queues : r # q => y[r] = x[r]
    BY UpdatedFacts DEF Good, Others
<1>2. /\ \A r \in Queues : Blocks(x[r]) \in Nat /\ Blocks(y[r]) \in Nat
      /\ x.cfree \in Nat /\ y.cfree \in Nat
    BY <1>1, ListsOf DEF Good
<1> HIDE DEF y
<1>3. Total(y) = Total(x)
    <2>1. /\ Total(x) = x.cfree + Blocks(x["rawq"]) + Blocks(x["canq"]) + Blocks(x["outq"])
          /\ Total(y) = y.cfree + Blocks(y["rawq"]) + Blocks(y["canq"]) + Blocks(y["outq"])
        BY DEF Total
    <2>2. CASE q = "rawq"
        BY <1>1, <1>2, <2>1, <2>2 DEF Queues
    <2>3. CASE q = "canq"
        BY <1>1, <1>2, <2>1, <2>3 DEF Queues
    <2>4. CASE q = "outq"
        BY <1>1, <1>2, <2>1, <2>4 DEF Queues
    <2> QED
        BY <2>2, <2>3, <2>4 DEF Queues
<1>4. OutChars(y.outq.s)
    BY <1>1 DEF Good, Queues
<1> QED
    BY <1>1, <1>3, <1>4 DEF Good, y

\* putc: the character is added, or there was no block for it.
LEMMA PutcGood ==
    ASSUME NEW x, Good(x), NEW q \in Queues, NEW c \in 0..255,
           q = "outq" => c \in Char \cup {DELAY}
    PROVE  LET y == Putc(x, q, c)
           IN  /\ Good(y) /\ Others(x, y, q)
               /\ y[q].s = IF PutcFails(x, q) THEN x[q].s ELSE Append(x[q].s, c)
<1>1. CASE PutcFails(x, q)
    BY <1>1 DEF Putc, Others, Frame
<1>2. CASE ~PutcFails(x, q)
    <2>1. PICK m : m = [x[q] EXCEPT !.s = Append(x[q].s, c)]
        OBVIOUS
    <2>2. PICK n : n = IF NeedsBlock(x[q]) THEN x.cfree - 1 ELSE x.cfree
        OBVIOUS
    <2>3. Putc(x, q, c) = Updated(x, q, m, n)
        BY <1>2, <2>1, <2>2 DEF Putc, Updated
    <2>4. x \in Tty /\ x[q] \in Clists /\ Blocks(x[q]) \in Nat /\ x.cfree \in Nat
        BY ListsOf DEF Good
    <2>5. x[q].s \in Seq(0..255) /\ Append(x[q].s, c) \in Seq(0..255)
        BY <2>4, ClistFacts, AppendFacts
    <2>6. m \in Clists /\ m.s = Append(x[q].s, c) /\ m.cf = x[q].cf
        BY <2>1, <2>4, <2>5 DEF Clists
    <2>7. n \in Nat /\ n + Blocks(m) = x.cfree + Blocks(x[q])
        <3>1. Blocks(m) = Blocks(x[q]) + (IF NeedsBlock(x[q]) THEN 1 ELSE 0)
            BY <2>4, <2>6, OneMore
        <3> QED
            BY <1>2, <2>2, <2>4, <3>1 DEF PutcFails
    <2>8. q = "outq" => OutChars(m.s)
        <3>1. /\ DOMAIN m.s = 1..(Len(x[q].s) + 1) /\ DOMAIN x[q].s = 1..Len(x[q].s)
              /\ Len(x[q].s) \in Nat /\ m.s[Len(x[q].s) + 1] = c
              /\ \A i \in 1..Len(x[q].s) : m.s[i] = x[q].s[i]
            BY <2>5, <2>6, AppendFacts
        <3>2. q = "outq" => \A i \in DOMAIN x[q].s : x[q].s[i] \in Char \cup {DELAY}
            BY DEF Good, OutChars
        <3> QED
            BY <3>1, <3>2, SMTT(40) DEF OutChars
    <2>9. Good(Updated(x, q, m, n))
        BY <2>6, <2>7, <2>8, UpdatedGood
    <2>10. Updated(x, q, m, n)[q] = m /\ Others(x, Updated(x, q, m, n), q)
        BY <2>4, <2>6, <2>7, UpdatedFacts
    <2> QED
        BY <1>2, <2>3, <2>6, <2>9, <2>10
<1> QED
    BY <1>1, <1>2

\* getc: the first character is taken.
LEMMA GetcGood ==
    ASSUME NEW x, Good(x), NEW q \in Queues, x[q].s # <<>>
    PROVE  LET y == Getc(x, q)
           IN  Good(y) /\ Others(x, y, q) /\ y[q].s = Tail(x[q].s)
<1>1. x \in Tty /\ x[q] \in Clists /\ Blocks(x[q]) \in Nat /\ x.cfree \in Nat
    BY ListsOf DEF Good
<1>2. PICK m : m = Rest(x[q])
    OBVIOUS
<1>3. PICK n : n = IF x[q].cf + 1 = CBSIZE \/ Len(x[q].s) = 1
                   THEN x.cfree + 1 ELSE x.cfree
    OBVIOUS
<1>4. Getc(x, q) = Updated(x, q, m, n)
    BY <1>2, <1>3 DEF Getc, Updated, Rest
<1>5. /\ m \in Clists /\ m.s = Tail(x[q].s)
      /\ Blocks(m) = Blocks(x[q]) - (IF x[q].cf + 1 = CBSIZE \/ Len(x[q].s) = 1
                                     THEN 1 ELSE 0)
    BY <1>1, <1>2, OneLess
<1>6. n \in Nat /\ n + Blocks(m) = x.cfree + Blocks(x[q])
    BY <1>1, <1>3, <1>5
<1>7. q = "outq" => OutChars(m.s)
    <2>1. /\ DOMAIN x[q].s = 1..Len(x[q].s) /\ DOMAIN m.s = 1..(Len(x[q].s) - 1)
          /\ Len(x[q].s) \in Nat
          /\ \A i \in 1..(Len(x[q].s) - 1) : m.s[i] = x[q].s[i + 1]
        BY <1>1, <1>5, ClistFacts, TailFacts
    <2>2. q = "outq" => \A i \in DOMAIN x[q].s : x[q].s[i] \in Char \cup {DELAY}
        BY DEF Good, OutChars
    <2>3. \A i \in 1..(Len(x[q].s) - 1) : i + 1 \in 1..Len(x[q].s)
        BY <2>1
    <2> QED
        BY <2>1, <2>2, <2>3 DEF OutChars
<1>8. Good(Updated(x, q, m, n))
    BY <1>5, <1>6, <1>7, UpdatedGood
<1> QED
    BY <1>1, <1>4, <1>5, <1>6, <1>8, UpdatedFacts

\* Emptying a queue frees its blocks.
LEMMA DrainGood ==
    ASSUME NEW x, Good(x), NEW q \in Queues
    PROVE  LET y == Drain(x, q)
           IN  Good(y) /\ Others(x, y, q) /\ y[q] = Empty
<1>1. x \in Tty /\ x[q] \in Clists /\ Blocks(x[q]) \in Nat /\ x.cfree \in Nat
    BY ListsOf DEF Good
<1>2. PICK n : n = x.cfree + Blocks(x[q])
    OBVIOUS
<1>3. Drain(x, q) = Updated(x, q, Empty, n)
    BY <1>2 DEF Drain, Updated
<1>4. Empty \in Clists /\ Empty.s = <<>> /\ Blocks(Empty) = 0 /\ OutChars(Empty.s)
    BY Sizes, EmptySeq DEF Empty, Clists, Blocks, OutChars
<1>5. n \in Nat /\ n + Blocks(Empty) = x.cfree + Blocks(x[q])
    BY <1>1, <1>2, <1>4
<1>6. Good(Updated(x, q, Empty, n))
    BY <1>4, <1>5, UpdatedGood
<1> QED
    BY <1>1, <1>3, <1>4, <1>5, <1>6, UpdatedFacts

\* The blocks depend on the lists and the free ones only.
LEMMA SameLists ==
    ASSUME NEW x, Good(x), NEW y \in Tty, y.cfree = x.cfree,
           \A q \in Queues : y[q] = x[q]
    PROVE  Good(y)
<1>1. y.rawq = x.rawq /\ y.canq = x.canq /\ y.outq = x.outq
    BY DEF Queues
<1> QED
    BY <1>1 DEF Good, Total

\* flushtty frees the blocks of all three and forgets the delimiters.
LEMMA FlushedGood ==
    ASSUME NEW x, Good(x)
    PROVE  LET y == Flushed(x)
           IN  /\ Good(y) /\ y.rawq = Empty /\ y.delct = 0
               /\ y.mode = x.mode /\ y.timeout = x.timeout
<1>1. PICK a : a = Drain(x, "canq")
    OBVIOUS
<1>2. PICK b : b = Drain(a, "outq")
    OBVIOUS
<1>3. PICK c : c = Drain(b, "rawq")
    OBVIOUS
<1>4. Good(a) /\ Frame(x, a)
    BY <1>1, DrainGood DEF Queues, Others
<1>5. Good(b) /\ Frame(a, b)
    BY <1>2, <1>4, DrainGood DEF Queues, Others
<1>6. Good(c) /\ Frame(b, c) /\ c.rawq = Empty
    BY <1>3, <1>5, DrainGood DEF Queues, Others
<1>7. PICK y : y = [c EXCEPT !.delct = 0]
    OBVIOUS
<1>8. /\ y \in Tty /\ y.cfree = c.cfree /\ y.rawq = c.rawq /\ y.canq = c.canq
      /\ y.outq = c.outq /\ y.delct = 0 /\ y.mode = c.mode /\ y.timeout = c.timeout
    BY <1>6, <1>7 DEF Good, Tty
<1>9. Good(y)
    BY <1>6, <1>8, SameLists DEF Queues
<1>10. Flushed(x) = y
    BY <1>1, <1>2, <1>3, <1>7 DEF Flushed
<1> QED
    BY <1>4, <1>5, <1>6, <1>8, <1>9, <1>10 DEF Frame

\* Two operations on one queue leave the others alone.
LEMMA OthersTwice ==
    ASSUME NEW x, NEW y, NEW z, NEW q, Others(x, y, q), Others(y, z, q)
    PROVE  Others(x, z, q)
BY DEF Others, Frame

\* ttyoutput adds to outq only.
LEMMA TtyoutputGood ==
    ASSUME NEW x, Good(x), NEW c \in Char
    PROVE  Good(Ttyoutput(x, c)) /\ Others(x, Ttyoutput(x, c), "outq")
<1>1. /\ "outq" \in Queues /\ CR \in Char /\ CR \in 0..255 /\ c \in 0..255
      /\ DELAY \in 0..255 /\ Others(x, x, "outq")
    BY Sizes DEF Queues, CR, Char, Others, Frame
<1>2. PICK a : a = IF c = NL THEN Putc(x, "outq", CR) ELSE x
    OBVIOUS
<1>3. Good(a) /\ Others(x, a, "outq")
    BY <1>1, <1>2, PutcGood
<1>4. PICK b : b = Putc(a, "outq", c)
    OBVIOUS
<1>5. Good(b) /\ Others(a, b, "outq")
    BY <1>1, <1>3, <1>4, PutcGood
<1>6. PICK d : d = Putc(b, "outq", DELAY)
    OBVIOUS
<1>7. Good(d) /\ Others(b, d, "outq")
    BY <1>1, <1>5, <1>6, PutcGood
<1>8. Ttyoutput(x, c) \in {x, b, d}
    BY <1>2, <1>4, <1>6 DEF Ttyoutput
<1>9. Others(x, b, "outq") /\ Others(x, d, "outq")
    BY <1>3, <1>5, <1>7, OthersTwice
<1> QED
    BY <1>1, <1>5, <1>7, <1>8, <1>9

\* ttstart takes from outq only, and sets TIMEOUT with a callout.
LEMMA TtstartGood ==
    ASSUME NEW x, Good(x), NEW n, Timed(x, n)
    PROVE  LET y == Ttstart(x)
           IN  /\ Good(y) /\ y.rawq = x.rawq /\ y.delct = x.delct
               /\ Timed(y, Callout(x, n))
<1> DEFINE y == Ttstart(x)
<1>1. CASE ~Startable(x)
    BY <1>1 DEF Ttstart, Callout, DelayNext
<1>2. CASE Startable(x)
    <2>1. /\ "outq" \in Queues /\ "rawq" \in Queues /\ x["outq"].s # <<>> /\ x["outq"] \in Clists
          /\ x["outq"].s = x.outq.s /\ ~x.timeout
        BY <1>2, ListsOf DEF Startable, Queues, Good
    <2>2. PICK g : g = Getc(x, "outq")
        OBVIOUS
    <2>3. /\ Good(g) /\ g.rawq = x.rawq /\ g.delct = x.delct
          /\ g.timeout = x.timeout
        BY <2>1, <2>2, GetcGood DEF Others, Frame
    <2>4. CASE DelayNext(x)
        <3>1. y = [g EXCEPT !.timeout = TRUE]
            BY <1>2, <2>2, <2>4 DEF Ttstart
        <3>2. /\ y \in Tty /\ y.cfree = g.cfree /\ y.rawq = g.rawq /\ y.canq = g.canq
              /\ y.outq = g.outq /\ y.delct = g.delct /\ y.timeout = TRUE
            BY <2>3, <3>1 DEF Good, Tty
        <3>3. Good(y)
            BY <2>3, <3>2, SameLists DEF Queues
        <3>4. Head(x.outq.s) = DELAY
            <4>1. 1 \in DOMAIN x.outq.s /\ Head(x.outq.s) = x.outq.s[1]
                BY <2>1, ClistFacts, TailFacts
            <4>2. x.outq.s[1] \in Char \cup {DELAY}
                BY <4>1 DEF Good, OutChars
            <4>3. Head(x.outq.s) > 127
                BY <2>4 DEF DelayNext
            <4> QED
                BY <4>1, <4>2, <4>3 DEF Char
        <3>5. Callout(x, n) = Ticks
            BY <2>4, <3>4, Sizes DEF Callout, DELAY
        <3> QED
            BY <2>3, <3>2, <3>3, <3>5, Sizes DEF Timed
    <2>5. CASE ~DelayNext(x)
        <3>1. y = Send(x) /\ Callout(x, n) = n
            BY <1>2, <2>5 DEF Ttstart, Callout
        <3>2. CASE backend = "uart"
            <4>1. y = [g EXCEPT !.done = FALSE]
                BY <2>2, <3>1, <3>2 DEF Send
            <4>2. /\ y \in Tty /\ y.cfree = g.cfree /\ y.rawq = g.rawq /\ y.canq = g.canq
                  /\ y.outq = g.outq /\ y.delct = g.delct /\ y.timeout = g.timeout
                BY <2>3, <4>1 DEF Good, Tty
            <4>3. Good(y)
                BY <2>3, <4>2, SameLists DEF Queues
            <4> QED
                BY <2>3, <3>1, <4>2, <4>3 DEF Timed
        <3>3. CASE backend # "uart"
            <4>1. y = Drain(x, "outq")
                BY <3>1, <3>3 DEF Send
            <4>2. Good(y) /\ y.rawq = x.rawq /\ y.delct = x.delct /\ y.timeout = x.timeout
                BY <2>1, <4>1, DrainGood DEF Others, Frame
            <4> QED
                BY <3>1, <4>2 DEF Timed
        <3> QED
            BY <3>2, <3>3
    <2> QED
        BY <2>4, <2>5
<1> QED
    BY <1>1, <1>2

-----------------------------------------------------------------------------
(* Delimiters.                                                              *)

NDelim(s) == Cardinality(Delimiters(s))

\* The delimiters of a list can be counted.
LEMMA DelimitersFinite ==
    ASSUME NEW s \in Seq(0..255)
    PROVE  IsFiniteSet(Delimiters(s)) /\ NDelim(s) \in Nat
<1>1. Len(s) \in Int /\ DOMAIN s = 1..Len(s)
    BY LenProperties
<1>2. IsFiniteSet(1..Len(s))
    BY <1>1, FS_Interval
<1>3. Delimiters(s) \in SUBSET (1..Len(s))
    BY <1>1 DEF Delimiters
<1> QED
    BY <1>2, <1>3, FS_Subset, FS_CardinalityType DEF NDelim

\* An empty list has none.
LEMMA NoDelimiters == NDelim(<<>>) = 0
<1>1. Delimiters(<<>>) = {}
    BY DEF Delimiters
<1> QED
    BY <1>1, FS_EmptySet DEF NDelim

\* putc adds a delimiter if it puts one.
LEMMA DelimiterPut ==
    ASSUME NEW s \in Seq(0..255), NEW c \in 0..255
    PROVE  NDelim(Append(s, c)) = NDelim(s) + (IF c = DELIM THEN 1 ELSE 0)
<1>1. /\ DOMAIN Append(s, c) = 1..(Len(s) + 1) /\ DOMAIN s = 1..Len(s) /\ Len(s) \in Nat
      /\ \A i \in 1..Len(s) : Append(s, c)[i] = s[i]
      /\ Append(s, c)[Len(s) + 1] = c
    BY AppendFacts
<1>2. IsFiniteSet(Delimiters(s)) /\ NDelim(s) \in Nat
    BY DelimitersFinite
<1>3. Len(s) + 1 \notin Delimiters(s)
    BY <1>1 DEF Delimiters
<1>4. CASE c = DELIM
    <2>1. Delimiters(Append(s, c)) = Delimiters(s) \cup {Len(s) + 1}
        BY <1>1, <1>4 DEF Delimiters
    <2> QED
        BY <1>2, <1>3, <1>4, <2>1, FS_AddElement, ZenonT(40) DEF NDelim
<1>5. CASE c # DELIM
    <2>1. Delimiters(Append(s, c)) = Delimiters(s)
        BY <1>1, <1>5 DEF Delimiters
    <2> QED
        BY <1>2, <1>5, <2>1 DEF NDelim
<1> QED
    BY <1>4, <1>5

\* getc takes one if the first character is one.
LEMMA DelimiterTaken ==
    ASSUME NEW s \in Seq(0..255), s # <<>>
    PROVE  NDelim(s) = NDelim(Tail(s)) + (IF Head(s) = DELIM THEN 1 ELSE 0)
<1> DEFINE S == Delimiters(Tail(s))
           T == Delimiters(s) \ {1}
<1>1. /\ Len(s) \in Nat \ {0} /\ Head(s) = s[1] /\ Tail(s) \in Seq(0..255)
      /\ DOMAIN s = 1..Len(s) /\ DOMAIN Tail(s) = 1..(Len(s) - 1)
      /\ \A i \in 1..(Len(s) - 1) : Tail(s)[i] = s[i + 1]
    BY TailFacts
<1>2. IsFiniteSet(S) /\ NDelim(Tail(s)) \in Nat /\ IsFiniteSet(Delimiters(s))
    BY <1>1, DelimitersFinite
<1>3. \A i : i \in S <=> i \in 1..(Len(s) - 1) /\ s[i + 1] = DELIM
    BY <1>1 DEF Delimiters
<1>4. \A i : i \in T <=> i \in 2..Len(s) /\ s[i] = DELIM
    BY <1>1 DEF Delimiters
<1>5. ExistsBijection(S, T)
    <2> DEFINE f == [i \in S |-> i + 1]
    <2>1. \A i \in S : i \in Int /\ i + 1 \in T
        BY <1>1, <1>3, <1>4
    <2>2. \A j \in T : j - 1 \in S /\ (j - 1) + 1 = j
        BY <1>1, <1>3, <1>4
    <2> HIDE DEF S, T
    <2>3. f \in [S -> T]
        BY <2>1
    <2>4. \A a, b \in S : f[a] = f[b] => a = b
        BY <2>1
    <2>5. \A j \in T : \E i \in S : f[i] = j
        BY <2>2
    <2>6. f \in Bijection(S, T)
        <3>1. IsInjective(f)
            BY <2>4 DEF IsInjective
        <3> QED
            BY <2>3, <2>5, <3>1 DEF Bijection, Injection, Surjection
    <2> QED
        BY <2>6 DEF ExistsBijection
<1>6. Cardinality(T) = NDelim(Tail(s))
    BY <1>2, <1>5, FS_Bijection DEF NDelim
<1>7. 1 \in Delimiters(s) <=> Head(s) = DELIM
    BY <1>1 DEF Delimiters
<1>8. NDelim(s) \in Nat
    BY DelimitersFinite
<1>9. Cardinality(T) = IF 1 \in Delimiters(s) THEN NDelim(s) - 1 ELSE NDelim(s)
    BY <1>2, FS_RemoveElement DEF NDelim
<1> QED
    BY <1>2, <1>6, <1>7, <1>8, <1>9

\* Who has taken a delimiter and not counted it off.
Takers == {p \in Procs : u[p].pc = "cdel"}

\* DelimitersCounted in terms of NDelim.
LEMMA Counted == DelimitersCounted <=>
    (~race => t.delct = NDelim(t.rawq.s) + Cardinality(Takers))
BY DEF DelimitersCounted, NDelim, Takers

-----------------------------------------------------------------------------
(* Where the processes are.                                                 *)

\* A process outside the kernel has its type.
LEMMA IdleUser == Idle \in User
BY EmptySeq DEF Idle, User, PCs, Mode

\* A process that goes elsewhere keeps its type.
LEMMA MovedUser ==
    ASSUME NEW r \in User, NEW l \in PCs
    PROVE  [r EXCEPT !.pc = l] \in User /\ [r EXCEPT !.pc = l].pc = l
BY DEF User

\* So does one that has a new line at hand.
LEMMA NewBufUser ==
    ASSUME NEW r \in User, NEW b \in Seq(0..255)
    PROVE  [r EXCEPT !.buf = b] \in User
BY DEF User

\* And one that goes on or returns.
LEMMA ResumeUser ==
    ASSUME NEW r \in User, NEW l \in PCs
    PROVE  Resume(l, r) \in User /\ Resume(l, r).pc = l
<1>1. PICK s \in User : s = IF l = "ret" THEN Idle ELSE r
    BY IdleUser
<1> QED
    BY <1>1, MovedUser DEF Resume

\* A wakeup moves nobody to or from the middle of a delimiter.
LEMMA WokenUser ==
    ASSUME NEW r \in User
    PROVE  Woken(r) \in User /\ (Woken(r).pc = "cdel" <=> r.pc = "cdel")
<1>1. PICK l \in PCs : /\ Woken(r) = [r EXCEPT !.pc = l]
                       /\ l = "cdel" <=> r.pc = "cdel"
    <2>1. CASE r.pc = "rawq"
        BY <2>1 DEF Woken, PCs
    <2>2. CASE r.pc = "outq"
        BY <2>2 DEF Woken, PCs
    <2>3. CASE r.pc = "drain"
        BY <2>3 DEF Woken, PCs
    <2>4. CASE r.pc \notin {"rawq", "outq", "drain"}
        <3>1. Woken(r) = [r EXCEPT !.pc = r.pc]
            BY <2>4 DEF Woken
        <3>2. r.pc \in PCs
            BY DEF User
        <3> QED
            BY <3>1, <3>2
    <2> QED
        BY <2>1, <2>2, <2>3, <2>4
<1> QED
    BY <1>1 DEF User

\* wakeup neither puts a process into the taking of a delimiter nor out of it.
LEMMA WakeUser ==
    ASSUME NEW f \in [Procs -> User], NEW ps
    PROVE  /\ Wake(f, ps) \in [Procs -> User]
           /\ WakeAll(f, ps) \in [Procs -> User]
           /\ \A q \in Procs : /\ Wake(f, ps)[q].pc = "cdel" <=> f[q].pc = "cdel"
                               /\ WakeAll(f, ps)[q].pc = "cdel" <=> f[q].pc = "cdel"
<1>1. \A q \in Procs : /\ Woken(f[q]) \in User
                       /\ Woken(f[q]).pc = "cdel" <=> f[q].pc = "cdel"
    BY WokenUser
<1> QED
    BY <1>1 DEF Wake, WakeAll

\* Going on moves one process and keeps the processor unless it sleeps.
LEMMA GoFacts ==
    ASSUME Inv, NEW p \in Procs, NEW l \in PCs, NEW r \in User, Go(p, l, r)
    PROVE  /\ u' \in [Procs -> User] /\ cpu' \in {p, NoProc}
           /\ u'[p].pc = l /\ \A q \in Procs : q # p => u'[q] = u[q]
           /\ l \notin Sleeps => cpu' = p
<1>1. PICK k \in User : k = Resume(l, r) /\ k.pc = l
    BY ResumeUser
<1>2. u' = [u EXCEPT ![p] = k] /\ cpu' = IF l \in Sleeps THEN NoProc ELSE p
    BY <1>1 DEF Go, CpuAfter
<1> QED
    BY <1>1, <1>2 DEF Inv, Kernel

\* A process that has the processor is the only one in the kernel's lists.
LEMMA NoTakers ==
    ASSUME Inv, NEW p \in Procs, cpu \in {p, NoProc}, u[p].pc # "cdel"
    PROVE  Takers = {} /\ (~race => t.delct = NDelim(t.rawq.s))
<1>1. Takers = {}
    BY TerminalAssumption DEF Inv, Alone, Takers
<1>2. NDelim(t.rawq.s) \in Nat
    BY DelimitersFinite, ListsOf, ClistFacts DEF Inv, Good, Queues
<1> QED
    BY <1>1, <1>2, Counted, FS_EmptySet DEF Inv

CountersOK == /\ backend \in Backends
              /\ nkeys \in 0..MaxTyped[backend] /\ calls \in 0..MaxCalls[backend]

\* The bounds of the device there is.
LEMMA Bounds ==
    ASSUME NEW b \in Backends
    PROVE  MaxTyped[b] \in Nat /\ MaxCalls[b] \in Nat /\ Keys[b] \subseteq 0..127
<1>1. /\ MaxTyped \in [Backends -> Nat] /\ MaxCalls \in [Backends -> Nat]
      /\ Keys \in [Backends -> SUBSET (0..127)]
    BY TerminalAssumption
<1> QED
    BY <1>1

\* A key or a call more.
LEMMA CountersStep ==
    ASSUME CountersOK, backend' = backend,
           nkeys' = nkeys \/ (nkeys < MaxTyped[backend] /\ nkeys' = nkeys + 1),
           calls' = calls \/ (calls < MaxCalls[backend] /\ calls' = calls + 1)
    PROVE  CountersOK'
<1>1. PICK m \in Nat, n \in Nat : m = MaxTyped[backend] /\ n = MaxCalls[backend]
    BY Bounds DEF CountersOK
<1>2. /\ nkeys \in 0..m /\ calls \in 0..n
      /\ nkeys' = nkeys \/ (nkeys < m /\ nkeys' = nkeys + 1)
      /\ calls' = calls \/ (calls < n /\ calls' = calls + 1)
    BY <1>1 DEF CountersOK
<1>3. nkeys' \in 0..m /\ calls' \in 0..n
    BY <1>2
<1>4. backend' \in Backends /\ m = MaxTyped[backend'] /\ n = MaxCalls[backend']
    BY <1>1 DEF CountersOK
<1> QED
    BY <1>3, <1>4 DEF CountersOK

SignalsOK == /\ p_sig \in [Procs -> {0, SIGINT, SIGKIL}]
             /\ u_signal \in [Procs -> {"default", "ignore", "catch"}]

\* A step of p that does not take a delimiter.
LEMMA StepInv ==
    ASSUME Inv, ~race, NEW p \in Procs, cpu \in {p, NoProc}, u[p].pc # "cdel",
           u' \in [Procs -> User], cpu' \in {p, NoProc},
           \A q \in Procs : u'[q].pc = "cdel" => u[q].pc = "cdel",
           Good(t'), Timed(t', callout'),
           t.delct = NDelim(t.rawq.s) => t'.delct = NDelim(t'.rawq.s),
           SignalsOK', CountersOK'
    PROVE  Inv'
<1>1. Takers = {} /\ t.delct = NDelim(t.rawq.s)
    BY NoTakers
<1>2. Takers' = {}
    BY <1>1 DEF Takers
<1>3. Alone'
    BY <1>2 DEF Alone, Takers
<1>4. t'.delct = NDelim(t'.rawq.s) /\ NDelim(t'.rawq.s) \in Nat
    BY <1>1, DelimitersFinite, ListsOf, ClistFacts DEF Good, Queues
<1>5. Cardinality(Takers') = 0
    BY <1>2, FS_EmptySet
<1>6. t'.delct = Cardinality(Delimiters(t'.rawq.s)) + Cardinality(Takers')
    BY <1>4, <1>5 DEF NDelim
<1>7. DelimitersCounted'
    BY <1>6 DEF DelimitersCounted, Delimiters, DELIM, Takers
<1>8. Kernel'
    BY DEF Kernel, SignalsOK, CountersOK
<1> QED
    BY <1>3, <1>7, <1>8 DEF Inv, Good, Timed

\* An interrupt that does not flush.
LEMMA InterruptInv ==
    ASSUME Inv, ~race, u' \in [Procs -> User], cpu' = cpu,
           \A q \in Procs : u'[q].pc = "cdel" <=> u[q].pc = "cdel",
           Good(t'), Timed(t', callout'),
           t'.delct - t.delct = NDelim(t'.rawq.s) - NDelim(t.rawq.s),
           SignalsOK', CountersOK'
    PROVE  Inv'
<1>1. Takers' = Takers
    BY DEF Takers
<1>2. Alone'
    BY DEF Alone, Inv
<1>3. /\ NDelim(t.rawq.s) \in Nat /\ NDelim(t'.rawq.s) \in Nat
      /\ t.delct \in Int /\ t'.delct \in Int
    BY DelimitersFinite, ListsOf, ClistFacts DEF Inv, Good, Queues, Tty
<1>4. t.delct = NDelim(t.rawq.s) + Cardinality(Takers) /\ Cardinality(Takers) \in Nat
    <2>1. IsFiniteSet(Takers)
        BY TerminalAssumption, FS_Subset DEF Takers
    <2> QED
        BY <2>1, Counted, FS_CardinalityType DEF Inv
<1>5. t'.delct = NDelim(t'.rawq.s) + Cardinality(Takers)
    BY <1>3, <1>4
<1>6. t'.delct = Cardinality(Delimiters(t'.rawq.s)) + Cardinality(Takers')
    BY <1>1, <1>5 DEF NDelim
<1>7. DelimitersCounted'
    BY <1>6 DEF DelimitersCounted, Delimiters, DELIM, Takers
<1>8. Kernel'
    BY DEF Kernel, SignalsOK, CountersOK, Inv
<1> QED
    BY <1>2, <1>7, <1>8 DEF Inv, Good, Timed

-----------------------------------------------------------------------------
(* The steps of a process.                                                  *)

\* The parts of the invariant that the steps use.
LEMMA InvFacts ==
    ASSUME Inv
    PROVE  /\ Good(t) /\ Timed(t, callout) /\ SignalsOK /\ CountersOK
           /\ \A p \in Procs : u[p] \in User
           /\ u \in [Procs -> User] /\ cpu \in Procs \cup {NoProc}
BY DEF Inv, Kernel, SignalsOK, CountersOK

\* Steps that go on elsewhere and leave the terminal alone.
LEMMA QuietInv ==
    ASSUME Inv, ~race, NEW p \in Procs, cpu \in {p, NoProc}, u[p].pc # "cdel",
           NEW l \in PCs \ {"cdel"}, NEW r \in User, Go(p, l, r),
           UNCHANGED <<t, callout>>, SignalsOK', CountersOK'
    PROVE  Inv'
<1>1. /\ u' \in [Procs -> User] /\ cpu' \in {p, NoProc}
      /\ \A q \in Procs : u'[q].pc = "cdel" => u[q].pc = "cdel"
    BY GoFacts
<1>2. Good(t') /\ Timed(t', callout')
    BY InvFacts
<1>3. t.delct = NDelim(t.rawq.s) => t'.delct = NDelim(t'.rawq.s)
    OBVIOUS
<1> QED
    BY <1>1, <1>2, <1>3, StepInv

\* Looks at a condition, sleeps and returns.
LEMMA SleepingInv ==
    ASSUME Inv, ~race, NEW p \in Procs,
           WakeUp(p) \/ Canon(p) \/ Pass(p) \/ WriteEnd(p) \/ SttyWait(p)
    PROVE  Inv'
<1>1. /\ UNCHANGED <<backend, t, callout, p_sig, u_signal, nkeys, calls>>
      /\ cpu \in {p, NoProc} /\ u[p].pc # "cdel"
    BY DEF WakeUp, Canon, Pass, WriteEnd, SttyWait, At, signals
<1>2. PICK l \in PCs \ {"cdel"} : Go(p, l, u[p])
    BY DEF WakeUp, Canon, Pass, WriteEnd, SttyWait, Sleep, PCs
<1>3. SignalsOK' /\ CountersOK' /\ u[p] \in User
    BY <1>1, InvFacts DEF SignalsOK, CountersOK
<1> QED
    BY <1>1, <1>2, <1>3, QuietInv

\* The beginnings of read, write and stty.
LEMMA CallInv ==
    ASSUME Inv, ~race, NEW p \in Procs,
           \/ \E n \in Counts : Read(p, n)
           \/ \E text \in Texts : Write(p, text)
           \/ \E m \in Modes : Stty(p, m)
    PROVE  Inv'
<1>1. /\ UNCHANGED <<backend, t, callout, p_sig, u_signal, nkeys>>
      /\ cpu \in {p, NoProc} /\ u[p].pc # "cdel"
      /\ calls < MaxCalls[backend] /\ calls' = calls + 1
    BY DEF Read, Write, Stty, At, signals
<1>2. PICK l \in PCs \ {"cdel"}, r \in User : Go(p, l, r)
    <2>1. CASE \E n \in Counts : Read(p, n)
        <3>1. PICK n \in Counts : Read(p, n)
            BY <2>1
        <3>2. PICK l \in {"pass", "canon"} : Go(p, l, [Idle EXCEPT !.count = n])
            BY <3>1 DEF Read
        <3>3. n \in Int
            BY TerminalAssumption
        <3>4. [Idle EXCEPT !.count = n] \in User
            BY <3>3, IdleUser DEF User
        <3> QED
            BY <3>2, <3>4 DEF PCs
    <2>2. CASE \E text \in Texts : Write(p, text)
        <3>1. PICK text \in Texts : Write(p, text)
            BY <2>2
        <3>2. PICK l \in {"write", "ret"} : Go(p, l, [Idle EXCEPT !.text = text])
            BY <3>1 DEF Write
        <3>3. text \in Seq(Char)
            BY TerminalAssumption DEF Char
        <3>4. [Idle EXCEPT !.text = text] \in User
            BY <3>3, IdleUser DEF User
        <3> QED
            BY <3>2, <3>4 DEF PCs
    <2>3. CASE \E m \in Modes : Stty(p, m)
        <3>1. PICK m \in Modes : Stty(p, m)
            BY <2>3
        <3>2. Go(p, "stty", [Idle EXCEPT !.mode = m])
            BY <3>1 DEF Stty
        <3>3. m \in Mode
            BY TerminalAssumption DEF Mode
        <3>4. [Idle EXCEPT !.mode = m] \in User
            BY <3>3, IdleUser DEF User
        <3> QED
            BY <3>2, <3>4 DEF PCs
    <2> QED
        BY <2>1, <2>2, <2>3
<1>3. SignalsOK' /\ CountersOK'
    BY <1>1, InvFacts, CountersStep DEF SignalsOK
<1> QED
    BY <1>1, <1>2, <1>3, QuietInv

\* Signals that are taken or asked for.
LEMMA SignalInv ==
    ASSUME Inv, ~race, NEW p \in Procs,
           Trap(p) \/ ClockSignal(p) \/ \E act \in Actions : Ssig(p, act)
    PROVE  Inv'
<1>1. /\ UNCHANGED <<backend, t, callout, nkeys>>
      /\ cpu \in {p, NoProc} /\ u[p].pc # "cdel"
      /\ calls' = calls \/ (calls < MaxCalls[backend] /\ calls' = calls + 1)
    BY DEF Trap, ClockSignal, Ssig, At
<1>2. PICK l \in PCs \ {"cdel"}, r \in User : Go(p, l, r)
    BY IdleUser DEF Trap, ClockSignal, Ssig, Psig, PCs
<1>3. SignalsOK'
    <2>1. SignalsOK /\ Actions \subseteq {"default", "catch", "ignore"}
        BY InvFacts, TerminalAssumption
    <2>2. CASE Trap(p)
        BY <2>1, <2>2 DEF Trap, Psig, SignalsOK, signals
    <2>3. CASE ClockSignal(p)
        BY <2>1, <2>3 DEF ClockSignal, Psig, SignalsOK
    <2>4. CASE \E act \in Actions : Ssig(p, act)
        BY <2>1, <2>4 DEF Ssig, SignalsOK
    <2> QED
        BY <2>2, <2>3, <2>4
<1>4. CountersOK'
    BY <1>1, InvFacts, CountersStep
<1> QED
    BY <1>1, <1>2, <1>3, <1>4, QuietInv

\* psignal sends a signal there is.
LEMMA PsignalOK ==
    ASSUME SignalsOK, NEW ps, NEW sig \in {SIGINT, SIGKIL}, Psignal(ps, sig)
    PROVE  p_sig' \in [Procs -> {0, SIGINT, SIGKIL}]
BY DEF SignalsOK, Psignal

\* kill marks and wakes one process.
LEMMA KillInv ==
    ASSUME Inv, ~race, NEW p \in Procs, NEW q \in Procs, NEW sig \in Signals,
           Kill(p, q, sig)
    PROVE  Inv'
<1>1. /\ UNCHANGED <<backend, t, callout, u_signal, nkeys>> /\ cpu \in {p, NoProc}
      /\ u[p].pc # "cdel" /\ cpu' = p
      /\ calls < MaxCalls[backend] /\ calls' = calls + 1
      /\ u' = WakeAll([u EXCEPT ![p].pc = "ret"], {q}) /\ Psignal({q}, sig)
    BY DEF Kill, At
<1>2. PICK f : f = [u EXCEPT ![p].pc = "ret"]
    OBVIOUS
<1>3. f \in [Procs -> User] /\ \A k \in Procs : f[k].pc = "cdel" => u[k].pc = "cdel"
    <2>1. u \in [Procs -> User]
        BY InvFacts
    <2>2. PICK k : k = [u[p] EXCEPT !.pc = "ret"]
        OBVIOUS
    <2>3. k \in User /\ k.pc = "ret"
        BY <2>1, <2>2, MovedUser, ZenonT(40) DEF PCs
    <2>4. f = [u EXCEPT ![p] = k]
        BY <1>2, <2>2
    <2> QED
        BY <2>1, <2>3, <2>4
<1>4. /\ u' \in [Procs -> User]
      /\ \A k \in Procs : u'[k].pc = "cdel" => u[k].pc = "cdel"
    BY <1>1, <1>2, <1>3, WakeUser, ZenonT(40)
<1>5. SignalsOK' /\ CountersOK'
    <2>1. sig \in {SIGINT, SIGKIL}
        BY TerminalAssumption DEF SIGINT, SIGKIL
    <2>2. p_sig' \in [Procs -> {0, SIGINT, SIGKIL}]
        BY <1>1, <2>1, InvFacts, PsignalOK
    <2> QED
        BY <1>1, <2>2, InvFacts, CountersStep DEF SignalsOK
<1>6. Good(t') /\ Timed(t', callout')
    BY <1>1, InvFacts
<1>7. t.delct = NDelim(t.rawq.s) => t'.delct = NDelim(t'.rawq.s)
    BY <1>1
<1> QED
    BY <1>1, <1>4, <1>5, <1>6, <1>7, StepInv

\* A line stays a sequence of characters.
LEMMA CanonCharSeq ==
    ASSUME NEW b \in Seq(0..255), NEW c \in 0..255, NEW raw
    PROVE  CanonChar(b, c, raw) \in Seq(0..255)
<1>1. Append(b, c) \in Seq(0..255) /\ <<>> \in Seq(0..255)
    BY AppendFacts, EmptySeq
<1>2. b # <<>> => Front(b) \in Seq(0..255)
    <2>1. ASSUME b # <<>> PROVE Front(b) \in Seq(0..255)
        <3>1. Len(b) \in Nat \ {0}
            BY <2>1, EmptySeq
        <3>2. \A i \in 1..(Len(b) - 1) : b[i] \in 0..255
            <4>1. \A i \in 1..Len(b) : b[i] \in 0..255
                BY ElementOfSeq
            <4> QED
                BY <3>1, <4>1
        <3> QED
            <4>1. Len(b) - 1 \in Int /\ 1 \in Int
                BY <3>1
            <4>2. SubSeq(b, 1, Len(b) - 1) \in Seq(0..255)
                BY <3>2, <4>1, SubSeqProperties
            <4> QED
                BY <4>2 DEF Front
    <2> QED
        BY <2>1
<1>3. b # <<>> => Append(Front(b), c) \in Seq(0..255)
    BY <1>2, AppendFacts
<1>4. CanonChar(b, c, raw) \in {b, <<>>, Append(b, c)} \/
      (b # <<>> /\ CanonChar(b, c, raw) \in {Front(b), Append(Front(b), c)})
    BY DEF CanonChar
<1> QED
    BY <1>1, <1>2, <1>3, <1>4

\* The characters of the input queues.
LEMMA RawFacts ==
    ASSUME NEW x, Good(x)
    PROVE  /\ x.rawq.s \in Seq(0..255) /\ NDelim(x.rawq.s) \in Nat /\ x.delct \in Int
           /\ x.canq.s \in Seq(0..255)
<1>1. x.rawq.s \in Seq(0..255) /\ x.canq.s \in Seq(0..255)
    BY ListsOf, ClistFacts DEF Good, Queues
<1> QED
    BY <1>1, DelimitersFinite DEF Good, Tty

\* canon takes a character; with a delimiter it becomes the one taker.
LEMMA CanonGetInv ==
    ASSUME Inv, ~race, NEW p \in Procs, CanonGet(p)
    PROVE  Inv'
<1>1. /\ u[p].pc = "cget" /\ cpu \in {p, NoProc}
      /\ UNCHANGED <<backend, callout, p_sig, u_signal, nkeys, calls>>
    BY DEF CanonGet, At, signals
<1>2. SignalsOK' /\ CountersOK' /\ u[p] \in User /\ Good(t) /\ Timed(t, callout)
    BY <1>1, InvFacts DEF SignalsOK, CountersOK
<1>3. CASE t.rawq.s = <<>>
    <2>1. Go(p, "ccopy", u[p]) /\ t' = t
        BY <1>3 DEF CanonGet
    <2> QED
        BY <1>1, <1>2, <2>1, QuietInv DEF PCs
<1>4. CASE t.rawq.s # <<>>
    <2>1. PICK c : c = Head(t.rawq.s)
        OBVIOUS
    <2>2. t' = Getc(t, "rawq")
        BY <1>4 DEF CanonGet
    <2>3. /\ Good(t') /\ t'.rawq.s = Tail(t.rawq.s) /\ t'.delct = t.delct
          /\ t'.timeout = t.timeout
        BY <1>2, <1>4, <2>2, GetcGood DEF Queues, Others, Frame
    <2>4. /\ NDelim(t.rawq.s) = NDelim(t'.rawq.s) + (IF c = DELIM THEN 1 ELSE 0)
          /\ c \in 0..255 /\ NDelim(t'.rawq.s) \in Nat /\ t.delct \in Int
        BY <1>2, <1>4, <2>1, <2>3, RawFacts, DelimiterTaken, TailFacts, ZenonT(40)
    <2>5. Timed(t', callout')
        BY <1>1, <1>2, <2>3 DEF Timed
    <2>6. CASE c = DELIM
        <3>1. Go(p, "cdel", u[p])
            BY <1>4, <2>1, <2>6 DEF CanonGet
        <3>2. /\ u' \in [Procs -> User] /\ cpu' = p /\ u'[p].pc = "cdel"
              /\ \A q \in Procs : q # p => u'[q] = u[q]
            BY <1>2, <3>1, GoFacts DEF PCs, Sleeps
        <3>3. Takers = {} /\ t.delct = NDelim(t.rawq.s)
            BY <1>1, NoTakers
        <3>4. Takers' = {p}
            BY <3>2, <3>3 DEF Takers
        <3>5. Alone'
            BY <3>2, <3>4 DEF Alone, Takers
        <3>6. Cardinality(Takers') = 1
            BY <3>4, FS_Singleton
        <3>7. t'.delct = Cardinality(Delimiters(t'.rawq.s)) + Cardinality(Takers')
            BY <2>3, <2>4, <2>6, <3>3, <3>6 DEF NDelim
        <3>8. DelimitersCounted'
            BY <3>7 DEF DelimitersCounted, Delimiters, DELIM, Takers
        <3>9. Kernel'
            BY <1>2, <3>2 DEF Kernel, SignalsOK, CountersOK
        <3> QED
            BY <2>3, <2>5, <3>5, <3>8, <3>9 DEF Inv, Good, Timed
    <2>7. CASE c # DELIM
        <3>1. PICK b : b = CanonChar(u[p].buf, c, t.mode.raw)
            OBVIOUS
        <3>2. PICK l \in {"ccopy", "cget"} : Go(p, l, [u[p] EXCEPT !.buf = b])
            BY <1>4, <2>1, <2>7, <3>1 DEF CanonGet
        <3>3. u[p].buf \in Seq(0..255)
            BY <1>2 DEF User
        <3>4. b \in Seq(0..255)
            BY <2>4, <3>1, <3>3, CanonCharSeq
        <3>5. [u[p] EXCEPT !.buf = b] \in User
            BY <1>2, <3>4 DEF User
        <3>6. /\ u' \in [Procs -> User] /\ cpu' \in {p, NoProc}
              /\ \A q \in Procs : u'[q].pc = "cdel" => u[q].pc = "cdel"
            BY <3>2, <3>5, GoFacts DEF PCs
        <3>7. t.delct = NDelim(t.rawq.s) => t'.delct = NDelim(t'.rawq.s)
            BY <2>3, <2>4, <2>7
        <3> QED
            BY <1>1, <1>2, <2>3, <2>5, <3>6, <3>7, StepInv
    <2> QED
        BY <2>6, <2>7
<1> QED
    BY <1>3, <1>4

\* The taker counts its delimiter off.
LEMMA CanonDelInv ==
    ASSUME Inv, ~race, NEW p \in Procs, CanonDel(p)
    PROVE  Inv'
<1>1. /\ u[p].pc = "cdel" /\ cpu \in {p, NoProc} /\ t' = [t EXCEPT !.delct = t.delct - 1]
      /\ UNCHANGED <<backend, callout, p_sig, u_signal, nkeys, calls>> /\ Go(p, "ccopy", u[p])
    BY DEF CanonDel, At, signals
<1>2. SignalsOK' /\ CountersOK' /\ u[p] \in User /\ Good(t) /\ Timed(t, callout)
    BY <1>1, InvFacts DEF SignalsOK, CountersOK
<1>3. /\ t' \in Tty /\ t'.cfree = t.cfree /\ t'.rawq = t.rawq /\ t'.canq = t.canq
      /\ t'.outq = t.outq /\ t'.delct = t.delct - 1 /\ t'.timeout = t.timeout
    BY <1>1, <1>2 DEF Good, Tty
<1>4. Good(t') /\ Timed(t', callout')
    BY <1>1, <1>2, <1>3, SameLists DEF Queues, Timed
<1>5. /\ u' \in [Procs -> User] /\ cpu' \in {p, NoProc} /\ u'[p].pc = "ccopy"
      /\ \A q \in Procs : q # p => u'[q] = u[q]
    BY <1>1, <1>2, GoFacts DEF PCs
<1>6. Takers = {p} /\ Takers' = {}
    BY <1>1, <1>5 DEF Inv, Alone, Takers
<1>7. Alone'
    BY <1>6 DEF Alone, Takers
<1>8. NDelim(t.rawq.s) \in Nat /\ t.delct = NDelim(t.rawq.s) + 1
    BY <1>2, <1>6, RawFacts, Counted, FS_Singleton DEF Inv
<1>9. Cardinality(Takers') = 0
    BY <1>6, FS_EmptySet
<1>10. t'.delct = Cardinality(Delimiters(t'.rawq.s)) + Cardinality(Takers')
    BY <1>3, <1>8, <1>9 DEF NDelim
<1>11. DelimitersCounted'
    BY <1>10 DEF DelimitersCounted, Delimiters, DELIM, Takers
<1>12. Kernel'
    BY <1>2, <1>5 DEF Kernel, SignalsOK, CountersOK
<1> QED
    BY <1>4, <1>7, <1>11, <1>12 DEF Inv, Good, Timed

\* canon fills canq, ttread empties it.
LEMMA CanqInv ==
    ASSUME Inv, ~race, NEW p \in Procs, CanonCopy(p) \/ PassGet(p)
    PROVE  Inv'
<1>1. /\ u[p].pc # "cdel" /\ cpu \in {p, NoProc}
      /\ UNCHANGED <<backend, callout, p_sig, u_signal, nkeys, calls>>
    BY DEF CanonCopy, PassGet, At, signals
<1>2. /\ SignalsOK' /\ CountersOK' /\ u[p] \in User /\ Good(t) /\ Timed(t, callout)
      /\ u[p].buf \in Seq(0..255) /\ u[p].count \in Int
    BY <1>1, InvFacts DEF SignalsOK, CountersOK, User
<1>3. CASE CanonCopy(p) /\ u[p].buf = <<>>
    <2>1. Go(p, "pass", u[p]) /\ t' = t
        BY <1>3 DEF CanonCopy
    <2> QED
        BY <1>1, <1>2, <2>1, QuietInv DEF PCs
<1>4. CASE CanonCopy(p) /\ u[p].buf # <<>>
    <2>1. PICK b : b = Tail(u[p].buf)
        OBVIOUS
    <2>2. /\ t' = Putc(t, "canq", Head(u[p].buf))
          /\ Go(p, "ccopy", [u[p] EXCEPT !.buf = b])
        BY <1>4, <2>1 DEF CanonCopy
    <2>3. b \in Seq(0..255) /\ Head(u[p].buf) \in 0..255
        <3>1. PICK s \in Seq(0..255) : s = u[p].buf /\ s # <<>>
            BY <1>2, <1>4
        <3>2. Tail(s) \in Seq(0..255) /\ Head(s) \in 0..255
            BY <3>1, TailFacts
        <3> QED
            BY <2>1, <3>1, <3>2
    <2>4. Good(t') /\ t'.rawq = t.rawq /\ t'.delct = t.delct /\ t'.timeout = t.timeout
        <3>1. "canq" \in Queues /\ "rawq" \in Queues
            BY DEF Queues
        <3>2. Good(t') /\ Others(t, t', "canq")
            BY <1>2, <2>2, <2>3, <3>1, PutcGood
        <3> QED
            BY <3>1, <3>2 DEF Others, Frame
    <2>5. [u[p] EXCEPT !.buf = b] \in User
        BY <1>2, <2>3, NewBufUser
    <2>6. /\ u' \in [Procs -> User] /\ cpu' \in {p, NoProc}
          /\ \A q \in Procs : u'[q].pc = "cdel" => u[q].pc = "cdel"
        BY <2>2, <2>5, GoFacts DEF PCs
    <2>7. Timed(t', callout')
        BY <1>1, <1>2, <2>4 DEF Timed
    <2> QED
        BY <1>1, <1>2, <2>4, <2>6, <2>7, StepInv
<1>5. CASE PassGet(p)
    <2>1. PICK n : n = u[p].count - 1
        OBVIOUS
    <2>2. PICK l \in {"ret", "pass"} : Go(p, l, [u[p] EXCEPT !.count = n])
        BY <1>5, <2>1 DEF PassGet
    <2>3. t' = Getc(t, "canq") /\ t.canq.s # <<>> /\ n \in Int
        BY <1>2, <1>5, <2>1 DEF PassGet
    <2>4. Good(t') /\ t'.rawq = t.rawq /\ t'.delct = t.delct /\ t'.timeout = t.timeout
        BY <1>2, <2>3, GetcGood DEF Queues, Others, Frame
    <2>5. [u[p] EXCEPT !.count = n] \in User
        BY <1>2, <2>3 DEF User
    <2>6. /\ u' \in [Procs -> User] /\ cpu' \in {p, NoProc}
          /\ \A q \in Procs : u'[q].pc = "cdel" => u[q].pc = "cdel"
        BY <2>2, <2>5, GoFacts DEF PCs
    <2>7. Timed(t', callout')
        BY <1>1, <1>2, <2>4 DEF Timed
    <2> QED
        BY <1>1, <1>2, <2>4, <2>6, <2>7, StepInv
<1> QED
    BY <1>3, <1>4, <1>5

\* The process that goes on with its text.
LEMMA NextCharUser ==
    ASSUME Inv, NEW p \in Procs, u[p].text # <<>>
    PROVE  Head(u[p].text) \in Char /\ NextChar(p) \in User
<1>1. u[p] \in User /\ u[p].text \in Seq(Char)
    BY InvFacts DEF User
<1>2. PICK b \in Seq(Char) : b = Tail(u[p].text)
    BY <1>1, TailFacts
<1>3. NextChar(p) = [u[p] EXCEPT !.text = b]
    BY <1>2 DEF NextChar
<1> QED
    BY <1>1, <1>2, <1>3, TailFacts DEF User

\* Steps of a write leave the input alone.
LEMMA WritesInv ==
    ASSUME Inv, ~race, NEW p \in Procs, cpu \in {p, NoProc}, u[p].pc # "cdel",
           NEW l \in PCs \ {"cdel"}, NEW r \in User, Go(p, l, r),
           UNCHANGED <<backend, p_sig, u_signal, nkeys, calls>>,
           Good(t'), Timed(t', callout'), t'.rawq = t.rawq, t'.delct = t.delct
    PROVE  Inv'
<1>1. SignalsOK' /\ CountersOK'
    BY InvFacts DEF SignalsOK, CountersOK
<1>2. /\ u' \in [Procs -> User] /\ cpu' \in {p, NoProc}
      /\ \A q \in Procs : u'[q].pc = "cdel" => u[q].pc = "cdel"
    BY GoFacts
<1> QED
    BY <1>1, <1>2, StepInv

\* A putc to the output leaves the rest alone.
LEMMA OutPut ==
    ASSUME Inv, NEW c \in Char \cup {DELAY}, t' = Putc(t, "outq", c), callout' = callout
    PROVE  /\ Good(t') /\ Timed(t', callout') /\ t'.rawq = t.rawq /\ t'.delct = t.delct
<1>1. c \in 0..127 \/ c = DELAY
    BY DEF Char
<1>2. c \in 0..255
    BY <1>1, Sizes
<1>3. "outq" \in Queues /\ Good(t) /\ Timed(t, callout)
    BY InvFacts DEF Queues
<1> QED
    <2>1. Good(t') /\ Others(t, t', "outq")
        BY <1>2, <1>3, PutcGood
    <2> QED
        BY <1>3, <2>1 DEF Others, Frame, Queues, Timed

\* ttwrite puts out and starts.
LEMMA WriteInv ==
    ASSUME Inv, ~race, NEW p \in Procs,
           \/ WriteFull(p) \/ WriteChar(p) \/ WriteNewline(p) \/ WriteDelay(p)
           \/ WriteStart(p)
    PROVE  Inv'
<1>1. /\ u[p].pc # "cdel" /\ cpu \in {p, NoProc}
      /\ UNCHANGED <<backend, p_sig, u_signal, nkeys, calls>>
    BY DEF WriteFull, WriteChar, WriteNewline, WriteDelay, WriteStart, At, signals
<1>2. /\ u[p] \in User /\ Good(t) /\ Timed(t, callout)
      /\ {CR, NL} \subseteq Char \cup {DELAY} /\ DELAY \in Char \cup {DELAY}
    BY InvFacts DEF CR, NL, Char
<1>3. CASE WriteFull(p) \/ WriteStart(p)
    <2>1. t' = Ttstart(t) /\ callout' = Callout(t, callout)
        BY <1>3 DEF WriteFull, WriteStart
    <2>2. PICK l \in PCs \ {"cdel"} : Go(p, l, u[p])
        BY <1>3 DEF WriteFull, WriteStart, Sleep, PCs
    <2>3. Good(t') /\ Timed(t', callout') /\ t'.rawq = t.rawq /\ t'.delct = t.delct
        BY <1>2, <2>1, TtstartGood
    <2> QED
        BY <1>1, <1>2, <2>2, <2>3, WritesInv
<1>4. CASE WriteChar(p)
    <2>1. u[p].text # <<>> /\ callout' = callout
        BY <1>4 DEF WriteChar
    <2>2. PICK c \in Char : c = Head(u[p].text)
        BY <2>1, NextCharUser
    <2>3. CASE c = NL
        <3>1. t' = Putc(t, "outq", CR) /\ Go(p, "newline", u[p])
            BY <1>4, <2>2, <2>3 DEF WriteChar
        <3>2. Good(t') /\ Timed(t', callout') /\ t'.rawq = t.rawq /\ t'.delct = t.delct
            BY <1>2, <2>1, <3>1, OutPut
        <3> QED
            BY <1>1, <1>2, <3>1, <3>2, WritesInv DEF PCs
    <2>4. CASE c # NL
        <3>1. t' = Ttyoutput(t, c) /\ Go(p, "write", NextChar(p))
            BY <1>4, <2>2, <2>4 DEF WriteChar
        <3>2. Good(t') /\ Timed(t', callout') /\ t'.rawq = t.rawq /\ t'.delct = t.delct
            BY <1>2, <2>1, <3>1, TtyoutputGood DEF Others, Frame, Queues, Timed
        <3>3. NextChar(p) \in User
            BY <2>1, NextCharUser
        <3> QED
            BY <1>1, <3>1, <3>2, <3>3, WritesInv DEF PCs
    <2> QED
        BY <2>3, <2>4
<1>5. CASE WriteNewline(p) \/ WriteDelay(p)
    <2>1. PICK c \in Char \cup {DELAY} : t' = Putc(t, "outq", c) /\ callout' = callout
        BY <1>2, <1>5 DEF WriteNewline, WriteDelay
    <2>2. Good(t') /\ Timed(t', callout') /\ t'.rawq = t.rawq /\ t'.delct = t.delct
        BY <2>1, OutPut
    <2>3. PICK l \in {"delay", "write"}, r \in {u[p], NextChar(p)} : Go(p, l, r)
        BY <1>5 DEF WriteNewline, WriteDelay
    <2>4. u[p].text # <<>>
        BY <1>5 DEF WriteNewline, WriteDelay
    <2>5. r \in User
        BY <1>2, <2>3, <2>4, NextCharUser
    <2> QED
        BY <1>1, <2>2, <2>3, <2>5, WritesInv DEF PCs
<1> QED
    BY <1>3, <1>4, <1>5

\* ttystty flushes the lists.
LEMMA SttyFlushInv ==
    ASSUME Inv, ~race, NEW p \in Procs, SttyFlush(p)
    PROVE  Inv'
<1>1. /\ u[p].pc # "cdel" /\ cpu \in {p, NoProc} /\ cpu' = p
      /\ UNCHANGED <<backend, callout, p_sig, u_signal, nkeys, calls>>
      /\ t' = [Flushed(t) EXCEPT !.mode = u[p].mode]
      /\ u' = Wake([u EXCEPT ![p] = Resume("ret", u[p])], Sleepers)
    BY DEF SttyFlush, At, signals
<1>2. /\ SignalsOK' /\ CountersOK' /\ u \in [Procs -> User] /\ Good(t)
      /\ Timed(t, callout) /\ u[p] \in User /\ u[p].mode \in Mode
    BY <1>1, InvFacts DEF SignalsOK, CountersOK, User
<1>3. PICK k : k = Resume("ret", u[p])
    OBVIOUS
<1>4. k \in User /\ k.pc = "ret"
    BY <1>2, <1>3, ResumeUser DEF PCs
<1>5. PICK f : f = [u EXCEPT ![p] = k]
    OBVIOUS
<1>6. f \in [Procs -> User] /\ \A q \in Procs : f[q].pc = "cdel" => u[q].pc = "cdel"
    BY <1>2, <1>4, <1>5
<1>7. /\ u' \in [Procs -> User]
      /\ \A q \in Procs : u'[q].pc = "cdel" => u[q].pc = "cdel"
    BY <1>1, <1>3, <1>5, <1>6, WakeUser, ZenonT(40)
<1>8. PICK x : x = Flushed(t)
    OBVIOUS
<1>9. Good(x) /\ x.rawq = Empty /\ x.delct = 0 /\ x.timeout = t.timeout
    BY <1>2, <1>8, FlushedGood
<1>10. /\ t' \in Tty /\ t'.cfree = x.cfree /\ t'.rawq = x.rawq /\ t'.canq = x.canq
       /\ t'.outq = x.outq /\ t'.delct = x.delct /\ t'.timeout = x.timeout
    <2>1. t' = [x EXCEPT !.mode = u[p].mode]
        BY <1>1, <1>8
    <2> QED
        BY <1>2, <1>9, <2>1 DEF Good, Tty
<1>11. Good(t') /\ Timed(t', callout')
    BY <1>1, <1>2, <1>9, <1>10, SameLists DEF Queues, Timed
<1>12. t'.delct = NDelim(t'.rawq.s)
    BY <1>9, <1>10, NoDelimiters DEF Empty
<1> QED
    BY <1>1, <1>2, <1>7, <1>11, <1>12, StepInv

-----------------------------------------------------------------------------
(* Interrupts.                                                              *)

\* A key is a character of 7 bits, and never the delimiter itself.
LEMMA KeyChar ==
    ASSUME CountersOK, NEW k \in Keys[backend]
    PROVE  Key(k) \in Char /\ Key(k) # DELIM
<1>1. k \in 0..127 /\ nkeys \in Nat
    BY Bounds DEF CountersOK
<1>2. nkeys % 26 \in 0..25
    BY <1>1
<1> QED
    BY <1>1, <1>2 DEF Key, Letter, Char, CR, NL, DELIM

\* A key that flushes: interrupt, or too much input.
LEMMA KeyFlushInv ==
    ASSUME Inv, ~race, NEW k \in Keys[backend], KeyFlush(k)
    PROVE  Inv'
<1>1. /\ UNCHANGED <<backend, callout, u_signal, cpu, calls>>
      /\ nkeys' = nkeys + 1 /\ nkeys < MaxTyped[backend]
      /\ t' = Flushed(t) /\ race' = InHand
      /\ u' = WakeAll(u, Procs) \/ u' = Wake(u, Sleepers)
      /\ Psignal(Procs, SIGINT) \/ p_sig' = p_sig
    BY DEF KeyFlush
<1>2. SignalsOK /\ CountersOK /\ u \in [Procs -> User] /\ Good(t) /\ Timed(t, callout)
    BY InvFacts
<1>3. SignalsOK' /\ CountersOK'
    <2>1. p_sig' \in [Procs -> {0, SIGINT, SIGKIL}]
        <3>1. CASE Psignal(Procs, SIGINT)
            BY <1>2, <3>1, PsignalOK
        <3>2. CASE p_sig' = p_sig
            BY <1>2, <3>2 DEF SignalsOK
        <3> QED
            BY <1>1, <3>1, <3>2
    <2> QED
        BY <1>1, <1>2, <2>1, CountersStep DEF SignalsOK
<1>4. /\ u' \in [Procs -> User]
      /\ \A q \in Procs : u'[q].pc = "cdel" <=> u[q].pc = "cdel"
    BY <1>1, <1>2, WakeUser
<1>5. Good(t') /\ t'.rawq = Empty /\ t'.delct = 0 /\ Timed(t', callout')
    BY <1>1, <1>2, FlushedGood DEF Timed
<1>6. Alone'
    BY <1>1, <1>4 DEF Alone, Inv
<1>7. DelimitersCounted'
    <2>1. ASSUME ~race' PROVE Takers' = {}
        BY <1>1, <1>4, <2>1 DEF InHand, Takers
    <2>2. NDelim(t'.rawq.s) = 0
        BY <1>5, NoDelimiters DEF Empty
    <2>3. ~race' => t'.delct = Cardinality(Delimiters(t'.rawq.s)) + Cardinality(Takers')
        BY <1>5, <2>1, <2>2, FS_EmptySet DEF NDelim
    <2> QED
        BY <2>3 DEF DelimitersCounted, Delimiters, DELIM, Takers
<1>8. Kernel'
    BY <1>1, <1>3, <1>4, InvFacts DEF Kernel, SignalsOK, CountersOK
<1> QED
    BY <1>5, <1>6, <1>7, <1>8 DEF Inv, Good, Timed

\* A character, its delimiter if it ends a line and there is a block, the echo.
LEMMA KeyInInv ==
    ASSUME Inv, ~race, NEW k \in Keys[backend], KeyIn(k)
    PROVE  Inv'
<1>1. PICK c : c = Key(k)
    OBVIOUS
<1>2. PICK x1 : x1 = Putc(t, "rawq", c)
    OBVIOUS
<1>3. PICK x2 : x2 = IF ~Ends(c) \/ PutcFails(x1, "rawq") THEN x1
                     ELSE [Putc(x1, "rawq", DELIM) EXCEPT !.delct = @ + 1]
    OBVIOUS
<1>4. PICK x3 : x3 = Ttyoutput(x2, c)
    OBVIOUS
<1>5. /\ t' = Ttstart(x3) /\ callout' = Callout(x3, callout)
      /\ u' = Wake(u, {"rawq"}) \/ u' = u
      /\ nkeys < MaxTyped[backend] /\ nkeys' = nkeys + 1
      /\ UNCHANGED <<backend, p_sig, u_signal, cpu, calls>>
    BY <1>1, <1>2, <1>3, <1>4 DEF KeyIn, signals
<1>6. SignalsOK /\ CountersOK /\ u \in [Procs -> User] /\ Good(t) /\ Timed(t, callout)
    BY InvFacts
<1>7. SignalsOK' /\ CountersOK'
    BY <1>5, <1>6, CountersStep DEF SignalsOK
<1>8. c \in Char /\ c # DELIM /\ c \in 0..255 /\ DELIM \in 0..255 /\ "rawq" \in Queues
    BY <1>1, <1>6, KeyChar DEF Char, DELIM, Queues
<1>9. /\ Good(x1) /\ NDelim(x1.rawq.s) = NDelim(t.rawq.s) /\ x1.delct = t.delct
      /\ x1.timeout = t.timeout
    <2>1. /\ Good(x1) /\ Others(t, x1, "rawq")
          /\ x1.rawq.s = t.rawq.s \/ x1.rawq.s = Append(t.rawq.s, c)
        BY <1>2, <1>6, <1>8, PutcGood
    <2>2. NDelim(Append(t.rawq.s, c)) = NDelim(t.rawq.s)
        <3>1. t.rawq.s \in Seq(0..255) /\ NDelim(t.rawq.s) \in Nat
            BY <1>6, RawFacts
        <3>2. NDelim(Append(t.rawq.s, c)) = NDelim(t.rawq.s) + (IF c = DELIM THEN 1 ELSE 0)
            BY <1>8, <3>1, DelimiterPut
        <3> QED
            BY <1>8, <3>1, <3>2
    <2> QED
        BY <2>1, <2>2 DEF Others, Frame
<1>10. /\ Good(x2) /\ x2.timeout = x1.timeout
       /\ x2.delct - x1.delct = NDelim(x2.rawq.s) - NDelim(x1.rawq.s)
    <2>1. CASE ~Ends(c) \/ PutcFails(x1, "rawq")
        BY <1>3, <1>9, <2>1, RawFacts
    <2>2. CASE ~(~Ends(c) \/ PutcFails(x1, "rawq"))
        <3>1. PICK y : y = Putc(x1, "rawq", DELIM)
            OBVIOUS
        <3>2. /\ Good(y) /\ Others(x1, y, "rawq") /\ y.rawq.s = Append(x1.rawq.s, DELIM)
            BY <1>8, <1>9, <2>2, <3>1, PutcGood
        <3>3. x2 = [y EXCEPT !.delct = y.delct + 1]
            BY <1>3, <2>2, <3>1
        <3>4. /\ x2 \in Tty /\ x2.cfree = y.cfree /\ x2.rawq = y.rawq /\ x2.canq = y.canq
              /\ x2.outq = y.outq /\ x2.delct = y.delct + 1 /\ x2.timeout = y.timeout
            BY <3>2, <3>3 DEF Good, Tty
        <3>5. Good(x2)
            BY <3>2, <3>4, SameLists DEF Queues
        <3>6. NDelim(y.rawq.s) = NDelim(x1.rawq.s) + 1
            BY <1>8, <1>9, <3>2, RawFacts, DelimiterPut
        <3>7. y.delct = x1.delct /\ y.timeout = x1.timeout
            BY <3>2 DEF Others, Frame
        <3>8. NDelim(x1.rawq.s) \in Nat /\ x1.delct \in Int
            BY <1>9, RawFacts
        <3> QED
            BY <3>4, <3>5, <3>6, <3>7, <3>8
    <2> QED
        BY <2>1, <2>2
<1>11. Good(x3) /\ x3.timeout = x2.timeout /\ x3.delct = x2.delct /\ x3.rawq = x2.rawq
    BY <1>4, <1>8, <1>10, TtyoutputGood DEF Others, Frame, Queues
<1>12. Timed(x3, callout)
    BY <1>6, <1>9, <1>10, <1>11 DEF Timed
<1>13. /\ Good(t') /\ Timed(t', callout') /\ t'.rawq = x3.rawq /\ t'.delct = x3.delct
    BY <1>5, <1>11, <1>12, TtstartGood
<1>14. t'.delct - t.delct = NDelim(t'.rawq.s) - NDelim(t.rawq.s)
    BY <1>9, <1>10, <1>11, <1>13
<1>15. /\ u' \in [Procs -> User]
       /\ \A q \in Procs : u'[q].pc = "cdel" <=> u[q].pc = "cdel"
    BY <1>5, <1>6, WakeUser
<1> QED
    BY <1>5, <1>7, <1>13, <1>14, <1>15, InterruptInv

\* The device and the clock.
LEMMA DeviceInv ==
    ASSUME Inv, ~race, TxInt \/ Clock
    PROVE  Inv'
<1>1. /\ UNCHANGED <<backend, p_sig, u_signal, cpu, nkeys, calls>>
      /\ u' = Wake(u, {"outq", "drain"}) \/ u' = u
    BY DEF TxInt, Clock, signals
<1>2. SignalsOK /\ CountersOK /\ u \in [Procs -> User] /\ Good(t) /\ Timed(t, callout)
    BY InvFacts
<1>3. SignalsOK' /\ CountersOK'
    BY <1>1, <1>2 DEF SignalsOK, CountersOK
<1>4. /\ u' \in [Procs -> User]
      /\ \A q \in Procs : u'[q].pc = "cdel" <=> u[q].pc = "cdel"
    BY <1>1, <1>2, WakeUser
<1>5. Good(t') /\ Timed(t', callout') /\ t'.rawq = t.rawq /\ t'.delct = t.delct
    <2>1. CASE TxInt
        <3>1. PICK x : x = [t EXCEPT !.done = TRUE]
            OBVIOUS
        <3>2. t' = Ttstart(x) /\ callout' = Callout(x, callout)
            BY <2>1, <3>1 DEF TxInt
        <3>3. /\ x \in Tty /\ x.cfree = t.cfree /\ x.rawq = t.rawq /\ x.canq = t.canq
              /\ x.outq = t.outq /\ x.delct = t.delct /\ x.timeout = t.timeout
            BY <1>2, <3>1 DEF Good, Tty
        <3>4. Good(x) /\ Timed(x, callout)
            BY <1>2, <3>3, SameLists DEF Queues, Timed
        <3> QED
            BY <3>2, <3>3, <3>4, TtstartGood
    <2>2. CASE Clock /\ callout > 1
        <3>1. callout' = callout - 1 /\ t' = t
            BY <2>2 DEF Clock
        <3> QED
            BY <1>2, <2>2, <3>1 DEF Timed
    <2>3. CASE Clock /\ ~(callout > 1)
        <3>1. PICK x : x = Restarted(t)
            OBVIOUS
        <3>2. t' = Ttstart(x) /\ callout' = Callout(x, 0)
            BY <2>3, <3>1 DEF Clock
        <3>3. /\ x \in Tty /\ x.cfree = t.cfree /\ x.rawq = t.rawq /\ x.canq = t.canq
              /\ x.outq = t.outq /\ x.delct = t.delct /\ x.timeout = FALSE
            BY <1>2, <3>1 DEF Good, Tty, Restarted
        <3>4. Good(x) /\ Timed(x, 0)
            BY <1>2, <3>3, SameLists DEF Queues, Timed
        <3> QED
            BY <3>2, <3>3, <3>4, TtstartGood
    <2> QED
        BY <2>1, <2>2, <2>3
<1>6. t'.delct - t.delct = NDelim(t'.rawq.s) - NDelim(t.rawq.s)
    BY <1>2, <1>5, RawFacts
<1> QED
    BY <1>1, <1>3, <1>4, <1>5, <1>6, InterruptInv
-----------------------------------------------------------------------------
(* What holds in every state.                                               *)

\* The terminal starts with all blocks free.
LEMMA InitInv == Init => Inv
<1> SUFFICES ASSUME Init PROVE Inv
    OBVIOUS
<1>1. Empty \in Clists /\ Empty.s = <<>> /\ Blocks(Empty) = 0 /\ OutChars(Empty.s)
    BY Sizes, EmptySeq DEF Empty, Clists, Blocks, OutChars
<1>2. /\ t.rawq = Empty /\ t.canq = Empty /\ t.outq = Empty /\ t.cfree = NCLIST
      /\ t.delct = 0 /\ t.timeout = FALSE /\ callout = 0
    BY DEF Init
<1>3. t \in Tty
    BY <1>1, Sizes DEF Init, Tty, Mode
<1>4. Good(t)
    BY <1>1, <1>2, <1>3, Sizes DEF Good, Total
<1>5. Kernel
    <2>1. u \in [Procs -> User]
        BY IdleUser DEF Init
    <2> QED
        BY <2>1, TerminalAssumption DEF Init, Kernel
<1>6. \A p \in Procs : u[p].pc = "user"
    BY DEF Init, Idle
<1>7. Takers = {} /\ Alone
    BY <1>6 DEF Takers, Alone
<1>8. DelimitersCounted
    BY <1>1, <1>2, <1>7, Counted, NoDelimiters, FS_EmptySet
<1> QED
    BY <1>2, <1>4, <1>5, <1>7, <1>8 DEF Inv, Timed

\* Every step keeps the invariant.
LEMMA NextInv ==
    ASSUME Inv, [Next]_vars
    PROVE  Inv'
<1>1. ASSUME NEW p \in Procs, Step(p) PROVE Inv'
    BY <1>1, SleepingInv, SignalInv, CanonGetInv, CanonDelInv, CanqInv, WriteInv,
       SttyFlushInv DEF Step
<1>2. ASSUME NEW p \in Procs, Request(p) PROVE Inv'
    BY <1>2, CallInv, SignalInv, KillInv DEF Request
<1>3. CASE Type
    BY <1>3, KeyFlushInv, KeyInInv DEF Type
<1>4. CASE Device
    BY <1>4, DeviceInv DEF Device
<1>5. CASE UNCHANGED vars
    <2>1. Good(t)' /\ Timed(t, callout)'
        BY <1>5 DEF vars, Inv, Good, Timed
    <2>2. Kernel' /\ Alone'
        BY <1>5 DEF vars, Inv, Kernel, Alone
    <2>3. DelimitersCounted'
        BY <1>5 DEF vars, Inv, DelimitersCounted
    <2> QED
        BY <2>1, <2>2, <2>3 DEF Inv
<1> QED
    BY <1>1, <1>2, <1>3, <1>4, <1>5 DEF Next

\* The invariant holds in every state.
LEMMA Invariance == Spec => []Inv
<1>1. Spec => Init /\ [][Next]_vars
    BY PTL DEF Spec
<1> QED
    BY <1>1, InitInv, NextInv, PTL

\* Every variable has its type; in particular a callout is set exactly while
\* TIMEOUT is, so that output which waits for a delay is restarted (tty.c:474).
THEOREM TypeCorrect == Spec => []TypeOK
<1>1. ASSUME Inv PROVE TypeOK
    <2>1. t.rawq \in Clists /\ t.canq \in Clists /\ t.outq \in Clists
        BY <1>1, ListsOf DEF Inv, Good, Queues
    <2>2. t.cfree \in 0..NCLIST
        <3>1. /\ Blocks(t.rawq) \in Nat /\ Blocks(t.canq) \in Nat
              /\ Blocks(t.outq) \in Nat /\ t.cfree \in Nat
            BY <1>1, <2>1, BlocksNat, ListsOf DEF Inv, Good
        <3>2. t.cfree + Blocks(t.rawq) + Blocks(t.canq) + Blocks(t.outq) = NCLIST
            BY <1>1 DEF Inv, Good, Total
        <3> QED
            BY <3>1, <3>2, Sizes
    <2>3. /\ t.delct \in Int /\ t.mode \in [raw : BOOLEAN, delay : BOOLEAN]
          /\ t.timeout \in BOOLEAN
        BY <1>1 DEF Inv, Good, Tty, Mode
    <2>4. callout \in Nat /\ t.timeout = (callout # 0)
        BY <1>1, <2>3 DEF Inv, Timed
    <2> QED
        BY <1>1, <2>1, <2>2, <2>3, <2>4 DEF Inv, Kernel, TypeOK
<1> QED
    BY <1>1, Invariance, PTL

\* No character block is lost or in two lists, whatever order getc, putc and
\* the flushes come in, from processes and from interrupts (tty.c:552-630).
THEOREM BlocksKept == Spec => []BlocksConserved
<1>1. ASSUME Inv PROVE BlocksConserved
    BY <1>1 DEF Inv, Good, Total, BlocksConserved
<1> QED
    BY <1>1, Invariance, PTL

\* t_delct is the number of delimiters in rawq (h/tty.h), except between the
\* two halves of taking one (tty.c:222), for any number of readers.
THEOREM DelimitersRight == Spec => []DelimitersCounted
BY Invariance, PTL DEF Inv

=============================================================================
