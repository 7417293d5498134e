------------------------------ MODULE Terminal ------------------------------
(***************************************************************************)
(* A terminal: the character lists and the line discipline (dmr/tty.c),    *)
(* the driver (dmr/kl.c) with either of its devices, the keyboard and the  *)
(* BIOS or a UART, the callout that ends a delay (ken/clock.c), and the    *)
(* signals it sends, from psignal to psig (ken/sig.c, slp.c, trap.c).      *)
(*                                                                         *)
(* The kernel is not preempted: cpu is the process that goes on until it   *)
(* sleeps.  Interrupts come between its steps; what the code does under    *)
(* spl5 is one step, and so is getc or putc.  Characters are ASCII codes.  *)
(* Left out: upper-case terminals, tabs, parity, and the column of the     *)
(* output.                                                                 *)
(*                                                                         *)
(* Two things the code does not guard against end a behaviour, with race   *)
(* set: an interrupt that flushes the queues while a process is in canon   *)
(* or takes characters off canq at priority 0 (tty.c:219, 494), and one    *)
(* that starts the output while ttwrite is starting it (tty.c:519).        *)
(***************************************************************************)
EXTENDS Integers, Sequences, FiniteSets, SequencesExt

CONSTANTS
    Procs, NoProc,
    Backends,   \* "kbd" or "uart", the device of the build (h/pc.h)
    NCLIST,     \* character blocks
    CBSIZE,     \* characters of a block, 6 in the code
    CANBSIZ,    \* characters of canonb that a line can use, 254 in the code
    TTYHOG, TTHIWAT, TTLOWAT,
    Keys,       \* what is typed on each device, 7 bits, as ttyinput leaves it;
                \* 0 stands for the next letter
    Modes,      \* t_flags for stty: raw, and delay for a delay after a line
    Texts,      \* what is written; 7 bits, as ttyoutput leaves it
    Counts,     \* how much is read
    Ticks,      \* the delay after a line, 6 in the code for a vt05
    Actions,    \* what signal is asked to do: "catch", "ignore"
    Signals,    \* what kill sends
    MaxTyped,   \* bound on the keys, for each device
    MaxCalls    \* bound on the system calls, for each device

ASSUME TerminalAssumption ==
    /\ NoProc \notin Procs /\ IsFiniteSet(Procs)
    /\ Backends \subseteq {"kbd", "uart"}
    /\ NCLIST \in Nat /\ CBSIZE \in Nat \ {0} /\ CANBSIZ \in Nat \ {0}
    /\ TTYHOG \in Nat /\ TTHIWAT \in Nat /\ TTLOWAT \in 0..TTHIWAT
    /\ Modes \subseteq [raw : BOOLEAN, delay : BOOLEAN]
    /\ Counts \subseteq Nat \ {0}
    /\ Keys \in [Backends -> SUBSET (0..127)]
    /\ \A text \in Texts : text \in Seq(0..127)
    /\ Ticks \in 1..126 /\ Signals \subseteq {2, 9}
    /\ Actions \subseteq {"default", "catch", "ignore"}
    /\ MaxTyped \in [Backends -> Nat] /\ MaxCalls \in [Backends -> Nat]

CINTR == 3
CEOT == 4
NL == 10
CR == 13
CERASE == 35
CKILL == 64
ESCAPE == 92
DELIM == 255
DELAY == 128 + Ticks    \* a delay is marked by 0200
Letter(n) == 97 + (n % 26)
SIGINT == 2
SIGKIL == 9

VARIABLES
    backend,
    t,          \* the tty structure, the free character blocks, the device
    callout,    \* ticks until ttrstrt is called; 0 when it is not to be
    u,          \* where each process is, and what it has at hand
    p_sig,      \* the signal that each process is to take
    u_signal,   \* what it does about SIGINT
    cpu,
    typed, got, \* since the last flush: what went into rawq, what was read
    dropped,    \* since the last flush: a character found no block
    race,
    nkeys, calls

vars == <<backend, t, callout, u, p_sig, u_signal, cpu, typed, got, dropped,
          race, nkeys, calls>>
signals == <<p_sig, u_signal>>
ghosts == <<typed, got, dropped>>

-----------------------------------------------------------------------------
\* A character list: the characters, and the place of the first one in its
\* block.
Empty == [s |-> <<>>, cf |-> 0]
Queues == {"rawq", "canq", "outq"}
Count(x, q) == Len(x[q].s)

\* The blocks of a list.
Blocks(l) == IF l.s = <<>> THEN 0
             ELSE (l.cf + Len(l.s) + CBSIZE - 1) \div CBSIZE

\* putc needs a block for an empty list and when the last block is full.
NeedsBlock(l) == l.s = <<>> \/ (l.cf + Len(l.s)) % CBSIZE = 0
PutcFails(x, q) == NeedsBlock(x[q]) /\ x.cfree = 0

Putc(x, q, c) ==
    IF PutcFails(x, q) THEN x
    ELSE [x EXCEPT ![q].s = Append(@, c),
                   !.cfree = IF NeedsBlock(x[q]) THEN @ - 1 ELSE @]

\* A slip: getc frees a block when it has gone through it, and not when the
\* list becomes empty.
GetcKeeps(x, q) ==
    LET l == x[q]
        cross == l.cf + 1 = CBSIZE
    IN  [x EXCEPT ![q] = IF Len(l.s) = 1 THEN Empty
                         ELSE [s |-> Tail(l.s), cf |-> (l.cf + 1) % CBSIZE],
                  !.cfree = IF cross THEN @ + 1 ELSE @]

\* getc of a list that is not empty: its block is free when the list becomes
\* empty or when the last character of the block was taken.
Getc(x, q) ==
    LET l == x[q]
        cross == l.cf + 1 = CBSIZE
    IN  [x EXCEPT ![q] = IF Len(l.s) = 1 THEN Empty
                         ELSE [s |-> Tail(l.s), cf |-> (l.cf + 1) % CBSIZE],
                  !.cfree = IF cross \/ Len(l.s) = 1 THEN @ + 1 ELSE @]

\* getc until the list is empty.
Drain(x, q) == [x EXCEPT ![q] = Empty, !.cfree = @ + Blocks(x[q])]

\* The queues after flushtty.
Flushed(x) ==
    [Drain(Drain(Drain(x, "canq"), "outq"), "rawq") EXCEPT !.delct = 0]

-----------------------------------------------------------------------------
\* ttyoutput of an echo, which nothing interrupts: the end of a file is not
\* shown, a line ends with both of its characters, and a delay follows a
\* newline that found room.
Ttyoutput(x, c) ==
    LET x1 == IF c = NL THEN Putc(x, "outq", CR) ELSE x
    IN  IF c = CEOT /\ ~x.mode.raw THEN x
        ELSE IF c = NL /\ x.mode.delay /\ ~PutcFails(x1, "outq")
        THEN Putc(Putc(x1, "outq", c), "outq", DELAY)
        ELSE Putc(x1, "outq", c)

\* ttstart: the next character goes to the UART, or all of them to the BIOS; a
\* delay sets TIMEOUT and a callout.
Startable(x) == x.done /\ ~x.timeout /\ x.outq.s # <<>>
DelayNext(x) == Startable(x) /\ Head(x.outq.s) > 127

Send(x) == IF backend = "uart" THEN [Getc(x, "outq") EXCEPT !.done = FALSE]
           ELSE Drain(x, "outq")

Ttstart(x) ==
    IF ~Startable(x) THEN x
    ELSE IF DelayNext(x) THEN [Getc(x, "outq") EXCEPT !.timeout = TRUE]
    ELSE Send(x)

\* ttrstrt: the delay is over.
Restarted(x) == [x EXCEPT !.timeout = FALSE]

\* timeout(ttrstrt) of a ttstart in x.
Callout(x, n) == IF DelayNext(x) THEN Head(x.outq.s) - 128 ELSE n

-----------------------------------------------------------------------------
\* A process that is not in a system call.
Idle == [pc |-> "user", buf |-> <<>>, count |-> 0, text |-> <<>>,
         mode |-> [raw |-> FALSE, delay |-> FALSE]]

Sleeps == {"user", "rawq", "outq", "drain", "dead"}
At(p, l) == u[p].pc = l /\ cpu \in {p, NoProc}
CpuAfter(p, l) == IF l \in Sleeps THEN NoProc ELSE p

\* p goes on at l with r; at the end of the call it has nothing at hand.
Resume(l, r) == [(IF l = "ret" THEN Idle ELSE r) EXCEPT !.pc = l]
Go(p, l, r) == u' = [u EXCEPT ![p] = Resume(l, r)] /\ cpu' = CpuAfter(p, l)

\* Where the sleepers on a queue go when they are woken: sleep looks for a
\* signal before it returns.
Woken(r) == [r EXCEPT !.pc = CASE r.pc = "rawq" -> "canon1"
                               [] r.pc = "outq" -> "write1"
                               [] r.pc = "drain" -> "stty1"
                               [] OTHER -> r.pc]

\* wakeup of those who sleep at one of pcs.
Wake(f, pcs) == [q \in Procs |-> IF f[q].pc \in pcs THEN Woken(f[q]) ELSE f[q]]

\* issig.
Pending(p) == p_sig[p] = SIGKIL \/ (p_sig[p] = SIGINT /\ u_signal[p] # "ignore")

\* psignal of sig to the processes ps: SIGKIL stays, a sleeper is woken.
Psignal(ps, sig) ==
    p_sig' = [q \in Procs |->
                IF q \in ps /\ p_sig[q] # SIGKIL /\ u[q].pc # "dead" THEN sig
                ELSE p_sig[q]]
WakeAll(f, ps) == [q \in Procs |-> IF q \in ps THEN Woken(f[q]) ELSE f[q]]

\* psig: the handler is called and forgotten, or the process exits.
Psig(p) ==
    /\ p_sig' = [p_sig EXCEPT ![p] = 0]
    /\ u_signal' = [u_signal EXCEPT ![p] = "default"]
    /\ Go(p, IF p_sig[p] = SIGINT /\ u_signal[p] = "catch" THEN "user" ELSE "dead",
          Idle)

\* trap, at the end of a system call.
Trap(p) ==
    /\ At(p, "ret")
    /\ IF Pending(p) THEN Psig(p) ELSE Go(p, "user", Idle) /\ UNCHANGED signals
    /\ UNCHANGED <<backend, t, callout, ghosts, race, nkeys, calls>>

\* clock, for a process that is not in the kernel.
ClockSignal(p) ==
    /\ At(p, "user") /\ Pending(p)
    /\ Psig(p)
    /\ UNCHANGED <<backend, t, callout, ghosts, race, nkeys, calls>>

\* sleep on a queue at l, under spl5, unless there is a signal (EINTR).
Sleep(p, l, r) == Go(p, IF Pending(p) THEN "ret" ELSE l, r)

\* sleep returns at l + "1": a signal ends the call.
WakeUp(p) ==
    \E w \in {<<"canon1", "canon">>, <<"write1", "write">>, <<"stty1", "stty">>} :
        /\ At(p, w[1])
        /\ Go(p, IF Pending(p) THEN "ret" ELSE w[2], u[p])
        /\ UNCHANGED <<backend, t, callout, signals, ghosts, race, nkeys, calls>>

-----------------------------------------------------------------------------
\* read: ttread.
Read(p, n) ==
    /\ At(p, "user") /\ calls < MaxCalls[backend]
    /\ calls' = calls + 1
    /\ Go(p, IF Count(t, "canq") > 0 THEN "pass" ELSE "canon",
          [Idle EXCEPT !.count = n])
    /\ UNCHANGED <<backend, t, callout, signals, ghosts, race, nkeys>>

\* canon waits for a delimiter.
Canon(p) ==
    /\ At(p, "canon")
    /\ IF t.delct = 0 THEN Sleep(p, "rawq", u[p]) ELSE Go(p, "cget", u[p])
    /\ UNCHANGED <<backend, t, callout, signals, ghosts, race, nkeys, calls>>

\* The characters that maptab maps to themselves: a "\" before them is taken
\* off the line.
Escaped == {CEOT, CERASE, CKILL}

\* What canon makes of character c after line b.
CanonChar(b, c, raw) ==
    IF raw THEN Append(b, c)
    ELSE IF b # <<>> /\ Last(b) = ESCAPE
    THEN IF c \in Escaped THEN Append(Front(b), c) ELSE Append(b, c)
    ELSE CASE c = CERASE -> IF b = <<>> THEN b ELSE Front(b)
           [] c = CKILL -> <<>>
           [] c = CEOT -> b
           [] OTHER -> Append(b, c)

\* canon takes a character off rawq, at priority 0.
CanonGet(p) ==
    /\ At(p, "cget")
    /\ IF t.rawq.s = <<>> THEN Go(p, "ccopy", u[p]) /\ UNCHANGED t
       ELSE LET c == Head(t.rawq.s)
                b == CanonChar(u[p].buf, c, t.mode.raw)
            IN  /\ t' = Getc(t, "rawq")
                /\ IF c = DELIM THEN Go(p, "cdel", u[p])
                   ELSE Go(p, IF Len(b) >= CANBSIZ THEN "ccopy" ELSE "cget",
                           [u[p] EXCEPT !.buf = b])
    /\ UNCHANGED <<backend, callout, signals, ghosts, race, nkeys, calls>>

CanonDel(p) ==
    /\ At(p, "cdel")
    /\ t' = [t EXCEPT !.delct = @ - 1]
    /\ Go(p, "ccopy", u[p])
    /\ UNCHANGED <<backend, callout, signals, ghosts, race, nkeys, calls>>

\* canon puts the line on canq; what finds no block is lost.
CanonCopy(p) ==
    /\ At(p, "ccopy")
    /\ IF u[p].buf = <<>>
       THEN Go(p, "pass", u[p]) /\ UNCHANGED <<t, dropped>>
       ELSE /\ t' = Putc(t, "canq", Head(u[p].buf))
            /\ dropped' = (dropped \/ PutcFails(t, "canq"))
            /\ Go(p, "ccopy", [u[p] EXCEPT !.buf = Tail(@)])
    /\ UNCHANGED <<backend, callout, signals, typed, got, race, nkeys, calls>>

\* ttread: is there a character on canq?
Pass(p) ==
    /\ At(p, "pass")
    /\ Go(p, IF Count(t, "canq") = 0 THEN "ret" ELSE "passget", u[p])
    /\ UNCHANGED <<backend, t, callout, signals, ghosts, race, nkeys, calls>>

\* A slip: a character is taken off canq before the count is looked at, and
\* lost when the count is used up.
PassGetEager(p) ==
    /\ At(p, "passget") /\ t.canq.s # <<>>
    /\ t' = Getc(t, "canq")
    /\ got' = IF u[p].count = 0 THEN got ELSE Append(got, Head(t.canq.s))
    /\ Go(p, IF u[p].count = 0 THEN "ret" ELSE "pass", [u[p] EXCEPT !.count = @ - 1])
    /\ UNCHANGED <<backend, callout, signals, typed, dropped, race, nkeys, calls>>

\* ttread: passc gives it to the user.
PassGet(p) ==
    /\ At(p, "passget") /\ t.canq.s # <<>>
    /\ t' = Getc(t, "canq")
    /\ got' = Append(got, Head(t.canq.s))
    /\ Go(p, IF u[p].count = 1 THEN "ret" ELSE "pass", [u[p] EXCEPT !.count = @ - 1])
    /\ UNCHANGED <<backend, callout, signals, typed, dropped, race, nkeys, calls>>

-----------------------------------------------------------------------------
\* write: klwrite hands the text to the BIOS, or calls ttwrite.
Write(p, text) ==
    /\ At(p, "user") /\ calls < MaxCalls[backend]
    /\ calls' = calls + 1
    /\ Go(p, IF backend = "uart" THEN "write" ELSE "ret", [Idle EXCEPT !.text = text])
    /\ UNCHANGED <<backend, t, callout, signals, ghosts, race, nkeys>>

\* p, with the rest of its text to write.
NextChar(p) == [u[p] EXCEPT !.text = Tail(@)]

\* ttwrite: with too much on outq it starts the output and sleeps, under spl5.
WriteFull(p) ==
    /\ At(p, "write") /\ u[p].text # <<>> /\ Count(t, "outq") > TTHIWAT
    /\ t' = Ttstart(t) /\ callout' = Callout(t, callout)
    /\ Sleep(p, "outq", u[p])
    /\ UNCHANGED <<backend, signals, ghosts, race, nkeys, calls>>

\* ttyoutput of the next character, at priority 0, up to its first putc: a line
\* begins to end with CR.
WriteChar(p) ==
    /\ At(p, "write") /\ u[p].text # <<>> /\ Count(t, "outq") <= TTHIWAT
    /\ LET c == Head(u[p].text)
       IN  IF c = NL
           THEN t' = Putc(t, "outq", CR) /\ Go(p, "newline", u[p])
           ELSE t' = Ttyoutput(t, c) /\ Go(p, "write", NextChar(p))
    /\ UNCHANGED <<backend, callout, signals, ghosts, race, nkeys, calls>>

\* The newline itself, if there is room for it; an echo may have come before it.
WriteNewline(p) ==
    /\ At(p, "newline") /\ u[p].text # <<>>
    /\ t' = Putc(t, "outq", NL)
    /\ IF t.mode.delay /\ ~PutcFails(t, "outq")
       THEN Go(p, "delay", u[p]) ELSE Go(p, "write", NextChar(p))
    /\ UNCHANGED <<backend, callout, signals, ghosts, race, nkeys, calls>>

\* And its delay; an echo may have come between the two.
WriteDelay(p) ==
    /\ At(p, "delay") /\ u[p].text # <<>>
    /\ t' = Putc(t, "outq", DELAY)
    /\ Go(p, "write", NextChar(p))
    /\ UNCHANGED <<backend, callout, signals, ghosts, race, nkeys, calls>>

\* ttwrite is done and calls ttstart, at priority 0.
WriteEnd(p) ==
    /\ At(p, "write") /\ u[p].text = <<>>
    /\ Go(p, IF t.done /\ ~t.timeout THEN "tstart" ELSE "ret", u[p])
    /\ UNCHANGED <<backend, t, callout, signals, ghosts, race, nkeys, calls>>

\* ttstart goes on; an interrupt may have started the output meanwhile.
WriteStart(p) ==
    /\ At(p, "tstart")
    /\ race' = ~(t.done /\ ~t.timeout)
    /\ t' = Ttstart(t) /\ callout' = Callout(t, callout)
    /\ Go(p, "ret", u[p])
    /\ UNCHANGED <<backend, signals, ghosts, nkeys, calls>>

-----------------------------------------------------------------------------
\* The ghosts and the sleepers after a flush.
FlushGhosts == typed' = <<>> /\ got' = <<>> /\ dropped' = FALSE
Sleepers == {"rawq", "outq", "drain"}

\* stty, and klclose, which leaves the modes: ttystty.
Stty(p, m) ==
    /\ At(p, "user") /\ calls < MaxCalls[backend]
    /\ calls' = calls + 1
    /\ Go(p, "stty", [Idle EXCEPT !.mode = m])
    /\ UNCHANGED <<backend, t, callout, signals, ghosts, race, nkeys>>

\* wflushtty waits until the output is out.
SttyWait(p) ==
    /\ At(p, "stty") /\ Count(t, "outq") > 0
    /\ Sleep(p, "drain", u[p])
    /\ UNCHANGED <<backend, t, callout, signals, ghosts, race, nkeys, calls>>

SttyFlush(p) ==
    /\ At(p, "stty") /\ Count(t, "outq") = 0
    /\ t' = [Flushed(t) EXCEPT !.mode = u[p].mode]
    /\ FlushGhosts
    /\ u' = Wake([u EXCEPT ![p] = Resume("ret", @)], Sleepers) /\ cpu' = p
    /\ UNCHANGED <<backend, callout, signals, race, nkeys, calls>>

\* signal(SIGINT) of ssig: what is pending is forgotten.
Ssig(p, act) ==
    /\ At(p, "user") /\ calls < MaxCalls[backend]
    /\ calls' = calls + 1
    /\ u_signal' = [u_signal EXCEPT ![p] = act]
    /\ p_sig' = [p_sig EXCEPT ![p] = IF @ = SIGINT THEN 0 ELSE @]
    /\ Go(p, "ret", Idle)
    /\ UNCHANGED <<backend, t, callout, ghosts, race, nkeys>>

\* kill of another process.
Kill(p, q, sig) ==
    /\ At(p, "user") /\ calls < MaxCalls[backend] /\ q # p
    /\ calls' = calls + 1
    /\ Psignal({q}, sig)
    /\ u' = WakeAll([u EXCEPT ![p].pc = "ret"], {q}) /\ cpu' = p
    /\ UNCHANGED <<backend, t, callout, u_signal, ghosts, race, nkeys>>

-----------------------------------------------------------------------------
\* A process that a flush of the queues would catch with a line in hand.
InHand == \E p \in Procs : \/ u[p].pc \in {"cget", "cdel", "passget"}
                           \/ u[p].pc = "ccopy" /\ u[p].buf # <<>>

\* The character that was typed: a key of Keys, or the next letter.
Key(k) == IF k = 0 THEN Letter(nkeys) ELSE IF k = CR THEN NL ELSE k

\* ttyinput: an interrupt, or too much, flushes the queues.
Interrupting(c) == c = CINTR /\ ~t.mode.raw
KeyFlush(k) ==
    /\ nkeys < MaxTyped[backend] /\ nkeys' = nkeys + 1
    /\ Interrupting(Key(k)) \/ Count(t, "rawq") >= TTYHOG
    /\ IF Interrupting(Key(k)) THEN Psignal(Procs, SIGINT) ELSE UNCHANGED p_sig
    /\ u' = IF Interrupting(Key(k)) THEN WakeAll(u, Procs) ELSE Wake(u, Sleepers)
    /\ t' = Flushed(t)
    /\ race' = InHand
    /\ FlushGhosts
    /\ UNCHANGED <<backend, callout, u_signal, cpu, calls>>

Ends(c) == c \in {NL, CEOT} \/ t.mode.raw

\* A slip: a delimiter is counted also when it found no block.
KeyInCounts(k) ==
    /\ nkeys < MaxTyped[backend] /\ nkeys' = nkeys + 1
    /\ ~Interrupting(Key(k)) /\ Count(t, "rawq") < TTYHOG
    /\ LET x1 == Putc(t, "rawq", Key(k))
           x2 == IF Ends(Key(k))
                 THEN [Putc(x1, "rawq", DELIM) EXCEPT !.delct = @ + 1] ELSE x1
           x3 == Ttyoutput(x2, Key(k))
       IN  /\ t' = Ttstart(x3) /\ callout' = Callout(x3, callout)
           /\ dropped' = (dropped \/ PutcFails(t, "rawq"))
    /\ typed' = Append(typed, Key(k))
    /\ u' = IF Ends(Key(k)) THEN Wake(u, {"rawq"}) ELSE u
    /\ UNCHANGED <<backend, signals, cpu, got, race, calls>>

\* ttyinput: the character goes on rawq, with a delimiter after a line, and is
\* echoed.
KeyIn(k) ==
    /\ nkeys < MaxTyped[backend] /\ nkeys' = nkeys + 1
    /\ ~Interrupting(Key(k)) /\ Count(t, "rawq") < TTYHOG
    /\ LET c == Key(k)
           x1 == Putc(t, "rawq", c)
           full == PutcFails(x1, "rawq")
           x2 == IF ~Ends(c) \/ full THEN x1
                 ELSE [Putc(x1, "rawq", DELIM) EXCEPT !.delct = @ + 1]
           x3 == Ttyoutput(x2, c)
       IN  /\ t' = Ttstart(x3) /\ callout' = Callout(x3, callout)
           /\ dropped' = (dropped \/ PutcFails(t, "rawq") \/ (Ends(c) /\ full))
    /\ typed' = Append(typed, Key(k))
    /\ u' = IF Ends(Key(k)) THEN Wake(u, {"rawq"}) ELSE u
    /\ UNCHANGED <<backend, signals, cpu, got, race, calls>>

\* A slip: the writers are woken at the low-water mark only.
TxIntLow ==
    /\ ~t.done
    /\ LET x == [t EXCEPT !.done = TRUE]
       IN  t' = Ttstart(x) /\ callout' = Callout(x, callout)
    /\ u' = IF Count(t', "outq") = TTLOWAT THEN Wake(u, {"outq", "drain"}) ELSE u
    /\ UNCHANGED <<backend, signals, cpu, ghosts, race, nkeys, calls>>

\* klxint: the UART has sent its character.
TxInt ==
    /\ ~t.done
    /\ LET x == [t EXCEPT !.done = TRUE]
       IN  t' = Ttstart(x) /\ callout' = Callout(x, callout)
    /\ u' = IF Count(t', "outq") \in {0, TTLOWAT} THEN Wake(u, {"outq", "drain"}) ELSE u
    /\ UNCHANGED <<backend, signals, cpu, ghosts, race, nkeys, calls>>

\* A slip: ttrstrt restarts the output and leaves TIMEOUT on.
ClockLeaves ==
    /\ callout > 0
    /\ IF callout > 1 THEN callout' = callout - 1 /\ UNCHANGED t
       ELSE t' = Ttstart(t) /\ callout' = Callout(t, 0)
    /\ UNCHANGED <<backend, u, signals, cpu, ghosts, race, nkeys, calls>>

\* clock: the callout's time goes down, and ttrstrt is called when it is over.
Clock ==
    /\ callout > 0
    /\ IF callout > 1 THEN callout' = callout - 1 /\ UNCHANGED t
       ELSE t' = Ttstart(Restarted(t)) /\ callout' = Callout(Restarted(t), 0)
    /\ UNCHANGED <<backend, u, signals, cpu, ghosts, race, nkeys, calls>>

-----------------------------------------------------------------------------
\* The terminal as klopen leaves it: echo, no delays.
Init ==
    /\ backend \in Backends
    /\ t = [rawq |-> Empty, canq |-> Empty, outq |-> Empty, cfree |-> NCLIST,
            delct |-> 0, mode |-> [raw |-> FALSE, delay |-> FALSE],
            timeout |-> FALSE, done |-> TRUE]
    /\ callout = 0
    /\ u = [p \in Procs |-> Idle]
    /\ p_sig = [p \in Procs |-> 0]
    /\ u_signal = [p \in Procs |-> "default"]
    /\ cpu = NoProc
    /\ typed = <<>> /\ got = <<>> /\ dropped = FALSE /\ race = FALSE
    /\ nkeys = 0 /\ calls = 0

Step(p) ==
    /\ ~race
    /\ \/ Trap(p) \/ ClockSignal(p) \/ WakeUp(p)
       \/ Canon(p) \/ CanonGet(p) \/ CanonDel(p) \/ CanonCopy(p)
       \/ Pass(p) \/ PassGet(p)
       \/ WriteFull(p) \/ WriteChar(p) \/ WriteNewline(p) \/ WriteDelay(p)
       \/ WriteEnd(p) \/ WriteStart(p)
       \/ SttyWait(p) \/ SttyFlush(p)

Request(p) ==
    /\ ~race
    /\ \/ \E n \in Counts : Read(p, n)
       \/ \E text \in Texts : Write(p, text)
       \/ \E m \in Modes : Stty(p, m)
       \/ \E act \in Actions : Ssig(p, act)
       \/ \E q \in Procs, sig \in Signals : Kill(p, q, sig)

Type == ~race /\ \E k \in Keys[backend] : KeyFlush(k) \/ KeyIn(k)
Device == ~race /\ (TxInt \/ Clock)

Next == (\E p \in Procs : Step(p) \/ Request(p)) \/ Type \/ Device

\* A process that can run is run, the UART sends, the clock ticks.
Spec == /\ Init /\ [][Next]_vars
        /\ \A p \in Procs : WF_vars(Step(p))
        /\ WF_vars(Device)

-----------------------------------------------------------------------------
Clists == [s : Seq(0..255), cf : 0..CBSIZE-1]

\* Every variable has its type; a callout is set exactly while TIMEOUT is, so
\* that output that waits for a delay is restarted (tty.c:474).
TypeOK ==
    /\ t.rawq \in Clists /\ t.canq \in Clists /\ t.outq \in Clists
    /\ t.cfree \in 0..NCLIST /\ t.delct \in Int
    /\ t.mode \in [raw : BOOLEAN, delay : BOOLEAN]
    /\ callout \in Nat /\ t.timeout = (callout # 0)
    /\ p_sig \in [Procs -> {0, SIGINT, SIGKIL}]
    /\ u_signal \in [Procs -> {"default", "ignore", "catch"}]
    /\ cpu \in Procs \cup {NoProc}
    /\ backend \in Backends
    /\ nkeys \in 0..MaxTyped[backend] /\ calls \in 0..MaxCalls[backend]

\* The character blocks are the free ones and those of the lists: getc and
\* putc (tty.c:552-630), called by processes and by interrupts, neither lose a
\* block nor use one twice.
BlocksConserved ==
    t.cfree + Blocks(t.rawq) + Blocks(t.canq) + Blocks(t.outq) = NCLIST

\* Where the delimiters are.
Delimiters(s) == {i \in DOMAIN s : s[i] = DELIM}

\* "number of delimiters in raw q" (h/tty.h): t_delct is that number, with the
\* one that canon has taken and not yet counted off (tty.c:222), also when the
\* blocks run out between a line and its delimiter.
DelimitersCounted ==
    ~race => t.delct = Cardinality(Delimiters(t.rawq.s))
                       + Cardinality({p \in Procs : u[p].pc = "cdel"})

\* The line of the process that is in canon, at one of pcs.
Hand(pcs) == IF cpu # NoProc /\ u[cpu].pc \in pcs THEN u[cpu].buf ELSE <<>>

\* Complete lines and the rest, after character c, which may end a line.  A
\* line that fills canonb is delivered as it is, and what follows is a line of
\* its own, that an erase, a kill or an escape does not reach back from.
Edit(st, c, ends) ==
    LET b == CanonChar(st.line, c, t.mode.raw)
    IN  IF ends \/ Len(b) >= CANBSIZ
        THEN [out |-> st.out \o b, line |-> <<>>] ELSE [st EXCEPT !.line = b]

\* What the text that was typed is to become.
Edited == FoldLeft(LAMBDA st, c : Edit(st, c, Ends(c)),
                   [out |-> <<>>, line |-> <<>>], typed)

\* What it has become and what canon will make of the rest.
Delivered ==
    FoldLeft(LAMBDA st, c : IF c = DELIM
                            THEN [out |-> st.out \o st.line, line |-> <<>>]
                            ELSE Edit(st, c, FALSE),
             [out |-> got \o t.canq.s \o Hand({"cdel", "ccopy"}),
              line |-> Hand({"cget"})],
             t.rawq.s)

\* What was read, what is on canq, what canon has in hand and what it will make
\* of rawq is what was typed, with erase, kill and escapes done, line by line:
\* no character is lost, doubled or out of order between the interrupt, canon
\* and several readers that each take a part of a line (tty.c:212-253, 493), as
\* long as the blocks last.
InOrder == ~race /\ ~dropped => Delivered = Edited

\* p is in a write, a stty or a close, or sleeps for a line that is there, or
\* has a signal that it does not ignore.
Owed(p) ==
    /\ u[p].pc # "dead" /\ ~race
    /\ \/ u[p].pc \in {"write", "newline", "delay", "outq", "write1", "tstart",
                       "stty", "drain", "stty1", "ret"}
       \/ u[p].pc = "rawq" /\ t.delct # 0
       \/ Pending(p)

\* All that is left of the output is a delay, while another delay runs: an echo
\* came between a newline and its delay (tty.c:347, 419).
DelayMeetsDelay == t.timeout /\ t.outq.s = <<DELAY>>

\* What a process is owed it gets: writes and stty return once the output is
\* out (tty.c:151, 514), though the writers are woken only when outq has
\* exactly TTLOWAT or no characters (kl.c:82) and a delay may pass over that;
\* a line wakes its reader, and a signal is taken.  It does not hold when a
\* delay meets a delay: ttrstrt, which wakes nobody, takes the last of the
\* output, and wflushtty sleeps on.
CallsReturn == []~DelayMeetsDelay => \A p \in Procs : Owed(p) ~> ~Owed(p)
=============================================================================
