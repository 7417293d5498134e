-------------------------------- MODULE Pipe --------------------------------
(***************************************************************************)
(* A pipe (ken/pipe.c) from the pipe system call to the last close: readp, *)
(* writep, plock and prele, the transfers of readi and writei              *)
(* (ken/rdwri.c) between them, and closef, closei and iput (ken/fio.c,     *)
(* ken/iget.c) at the end.                                                 *)
(*                                                                         *)
(* The processes of Readers share the file structure of the read side, as  *)
(* after fork, and those of Writers that of the write side.  A step is     *)
(* what a process does between two sleeps; a transfer may sleep before     *)
(* every block, and the block is one byte.  A byte is the number of bytes  *)
(* that were put in the pipe before it, so bytes can be told apart.        *)
(***************************************************************************)
EXTENDS Integers, Sequences, FiniteSets

CONSTANTS
    Readers, Writers,
    PIPSIZ,     \* size of the pipe
    MaxCount,   \* largest count of a read or write
    MaxBytes    \* no write is called that could take put past it

ASSUME PipeAssumption ==
    /\ Readers \cap Writers = {}
    /\ IsFiniteSet(Readers) /\ Readers # {}
    /\ IsFiniteSet(Writers) /\ Writers # {}
    /\ PIPSIZ \in Nat \ {0} /\ MaxCount \in Nat \ {0} /\ MaxBytes \in Nat

VARIABLES
    i_flag,     \* subset of ILOCK, IWANT
    i_mode,     \* subset of IREAD, IWRITE
    i_count,    \* references to the inode: one for each side that is open
    i_size1,    \* the tail: where the next byte is written
    f_offset,   \* the head: where the next byte is read
    f_count,    \* references to each file structure
    data,       \* contents of the file
    pc,
    count,      \* u.u_count: what is left of the transfer
    c,          \* writep: what is left after the transfer
    offset,     \* u.u_offset
    put,        \* bytes written so far
    got         \* bytes read so far, in the order they were read

vars == <<i_flag, i_mode, i_count, i_size1, f_offset, f_count, data, pc, count,
          c, offset, put, got>>
inode == <<i_flag, i_mode, i_count, i_size1, f_count>>

Proc == Readers \cup Writers
Sides == {"r", "w"}
Side(p) == IF p \in Readers THEN "r" ELSE "w"

\* "plock" is the top of the loop of readp and writep, where the lock is
\* asked for; "ilock", "ifull" and "iempty" are the sleeps on ip, ip+1, ip+2;
\* "xfer" is readi or writei; "eof" and "epipe" are the returns.
PC == {"user", "plock", "ilock", "ifull", "iempty", "xfer", "eof", "epipe",
       "closed"}

\* wakeup of those who sleep at the places L; me moves to l.
Wake(L, me, l) ==
    pc' = [p \in Proc |-> IF p = me THEN l
                          ELSE IF pc[p] \in L THEN "plock" ELSE pc[p]]

Goto(p, l) == Wake({}, p, l)

\* Whom prele wakes.
Prele == IF "IWANT" \in i_flag THEN {"ilock"} ELSE {}

\* read(n) and write(n).
Call(p, n) ==
    /\ pc[p] = "user"
    /\ p \in Writers => put + n <= MaxBytes
    /\ IF p \in Readers
       THEN count' = [count EXCEPT ![p] = n] /\ UNCHANGED c
       ELSE c' = [c EXCEPT ![p] = n] /\ UNCHANGED count
    /\ Goto(p, "plock")
    /\ UNCHANGED <<inode, f_offset, data, offset, put, got>>

\* plock: the pipe is locked.
PlockWait(p) ==
    /\ pc[p] = "plock" /\ "ILOCK" \in i_flag
    /\ i_flag' = i_flag \cup {"IWANT"}
    /\ Goto(p, "ilock")
    /\ UNCHANGED <<i_mode, i_count, i_size1, f_offset, f_count, data, count, c,
                   offset, put, got>>

\* A slip: plock does not look at ILOCK.
UnlockedUnchecked(p, S) == p \in S /\ pc[p] = "plock"

\* plock: the pipe is free.
Unlocked(p, S) == p \in S /\ pc[p] = "plock" /\ "ILOCK" \notin i_flag

-----------------------------------------------------------------------------
\* A slip: an empty pipe is taken for the end of the file.
ReadEmptyIsEof(p) ==
    /\ Unlocked(p, Readers)
    /\ f_offset = i_size1
    /\ Goto(p, "eof")
    /\ f_offset' = 0 /\ i_size1' = 0
    /\ UNCHANGED <<i_flag, i_mode, i_count, f_count, data, count, c, offset,
                   put, got>>

\* readp finds nothing: head and tail go back to 0 and writers that wait for
\* room are woken; then it returns if the write side is closed, or sleeps.
ReadEmpty(p) ==
    /\ Unlocked(p, Readers)
    /\ f_offset = i_size1
    /\ LET L == IF f_offset # 0 /\ "IWRITE" \in i_mode THEN {"ifull"} ELSE {}
           m == IF f_offset # 0 THEN i_mode \ {"IWRITE"} ELSE i_mode
       IN  IF i_count < 2
           THEN Wake(L, p, "eof") /\ i_mode' = m
           ELSE Wake(L, p, "iempty") /\ i_mode' = m \cup {"IREAD"}
    /\ f_offset' = 0 /\ i_size1' = 0
    /\ UNCHANGED <<i_flag, i_count, f_count, data, count, c, offset, put, got>>

\* readp finds something: lock the pipe and call readi.  readi sees the size
\* before it sleeps; should the head be past it, it returns at once.
ReadStart(p) ==
    /\ Unlocked(p, Readers)
    /\ f_offset # i_size1
    /\ IF f_offset < i_size1
       THEN /\ i_flag' = i_flag \cup {"ILOCK"}
            /\ offset' = [offset EXCEPT ![p] = f_offset]
            /\ Goto(p, "xfer")
            /\ UNCHANGED count
       ELSE /\ count' = [count EXCEPT ![p] = 0]
            /\ Goto(p, "eof")
            /\ UNCHANGED <<i_flag, offset>>
    /\ UNCHANGED <<i_mode, i_count, i_size1, f_offset, f_count, data, c, put,
                   got>>

InXfer(p, S) == p \in S /\ pc[p] = "xfer"

\* readi moves a block and goes round again if more is wanted and there.
ReadMore(p) == count[p] > 1 /\ i_size1 > offset[p] + 1

ReadMove(p) ==
    /\ InXfer(p, Readers) /\ ReadMore(p)
    /\ got' = Append(got, data[offset[p]])
    /\ count' = [count EXCEPT ![p] = @ - 1]
    /\ offset' = [offset EXCEPT ![p] = @ + 1]
    /\ UNCHANGED <<inode, f_offset, data, pc, c, put>>

\* readi moves the last block and returns: the head moves, the pipe is
\* unlocked, readp returns.
ReadLast(p) ==
    /\ InXfer(p, Readers) /\ ~ReadMore(p)
    /\ got' = Append(got, data[offset[p]])
    /\ f_offset' = offset[p] + 1
    /\ i_flag' = {}
    /\ Wake(Prele, p, "user")
    /\ count' = [count EXCEPT ![p] = 0]
    /\ offset' = [offset EXCEPT ![p] = 0]
    /\ UNCHANGED <<i_mode, i_count, i_size1, f_count, data, c, put>>

-----------------------------------------------------------------------------
\* writep is done.
WriteDone(p) ==
    /\ Unlocked(p, Writers)
    /\ c[p] = 0
    /\ Goto(p, "user")
    /\ UNCHANGED <<inode, f_offset, data, count, c, offset, put, got>>

\* The read side is closed: EPIPE, and SIGPIPE for the caller.
WriteEpipe(p) ==
    /\ Unlocked(p, Writers)
    /\ c[p] # 0 /\ i_count < 2
    /\ Goto(p, "epipe")
    /\ c' = [c EXCEPT ![p] = 0]
    /\ UNCHANGED <<inode, f_offset, data, count, offset, put, got>>

\* The pipe is full: wait for readers to empty it.
WriteFull(p) ==
    /\ Unlocked(p, Writers)
    /\ c[p] # 0 /\ i_count >= 2 /\ i_size1 = PIPSIZ
    /\ i_mode' = i_mode \cup {"IWRITE"}
    /\ Goto(p, "ifull")
    /\ UNCHANGED <<i_flag, i_count, i_size1, f_offset, f_count, data, count, c,
                   offset, put, got>>

\* A slip: the transfer is not cut to the room there is.
WriteStartUncut(p) ==
    /\ Unlocked(p, Writers)
    /\ c[p] # 0 /\ i_count >= 2 /\ i_size1 # PIPSIZ
    /\ i_flag' = i_flag \cup {"ILOCK"}
    /\ count' = [count EXCEPT ![p] = c[p]]
    /\ c' = [c EXCEPT ![p] = 0]
    /\ offset' = [offset EXCEPT ![p] = i_size1]
    /\ Goto(p, "xfer")
    /\ UNCHANGED <<i_mode, i_count, i_size1, f_offset, f_count, data, put, got>>

\* There is room: lock the pipe and call writei for what fits.
WriteStart(p) ==
    /\ Unlocked(p, Writers)
    /\ c[p] # 0 /\ i_count >= 2 /\ i_size1 # PIPSIZ
    /\ i_flag' = i_flag \cup {"ILOCK"}
    /\ LET n == IF c[p] < PIPSIZ - i_size1 THEN c[p] ELSE PIPSIZ - i_size1
       IN  /\ count' = [count EXCEPT ![p] = n]
           /\ c' = [c EXCEPT ![p] = @ - n]
    /\ offset' = [offset EXCEPT ![p] = i_size1]
    /\ Goto(p, "xfer")
    /\ UNCHANGED <<i_mode, i_count, i_size1, f_offset, f_count, data, put, got>>

\* writei moves a block and grows the file.
Write1(p) ==
    /\ data' = [data EXCEPT ![offset[p]] = put]
    /\ put' = put + 1
    /\ i_size1' = IF i_size1 < offset[p] + 1 THEN offset[p] + 1 ELSE i_size1

\* A slip: writep forgets the readers that wait for data.
WriteEndNoWakeup(p) ==
    /\ i_flag' = {}
    /\ Wake(Prele, p, "plock")
    /\ i_mode' = i_mode
    /\ count' = [count EXCEPT ![p] = 0]
    /\ offset' = [offset EXCEPT ![p] = 0]

\* writei returns: unlock, wake readers that wait for data, and loop.
WriteEnd(p) ==
    /\ i_flag' = {}
    /\ Wake(Prele \cup (IF "IREAD" \in i_mode THEN {"iempty"} ELSE {}),
            p, "plock")
    /\ i_mode' = i_mode \ {"IREAD"}
    /\ count' = [count EXCEPT ![p] = 0]
    /\ offset' = [offset EXCEPT ![p] = 0]

\* A block that is not the last.
WriteMove(p) ==
    /\ InXfer(p, Writers) /\ count[p] > 1
    /\ Write1(p)
    /\ count' = [count EXCEPT ![p] = @ - 1]
    /\ offset' = [offset EXCEPT ![p] = @ + 1]
    /\ UNCHANGED <<i_flag, i_mode, i_count, f_offset, f_count, pc, c, got>>

\* The last block.
WriteLast(p) ==
    /\ InXfer(p, Writers) /\ count[p] = 1
    /\ Write1(p)
    /\ WriteEnd(p)
    /\ UNCHANGED <<i_count, f_offset, f_count, c, got>>

\* bmap finds no free block (ENOSPC): the rest of this transfer is dropped,
\* and writep loops as if it had been written.
WriteNoSpace(p) ==
    /\ InXfer(p, Writers)
    /\ WriteEnd(p)
    /\ UNCHANGED <<i_count, i_size1, f_offset, f_count, data, c, put, got>>

-----------------------------------------------------------------------------
\* A step that the kernel takes for p once p is in read or write.
Step(p) ==
    \/ PlockWait(p)
    \/ ReadEmpty(p) \/ ReadStart(p) \/ ReadMove(p) \/ ReadLast(p)
    \/ WriteDone(p) \/ WriteEpipe(p) \/ WriteFull(p)
    \/ WriteStart(p) \/ WriteMove(p) \/ WriteLast(p) \/ WriteNoSpace(p)

\* A signal ends a sleep at PPIPE: the system call returns EINTR.
Interrupt(p) ==
    /\ pc[p] \in {"ilock", "ifull", "iempty"}
    /\ Goto(p, "user")
    /\ count' = [count EXCEPT ![p] = 0]
    /\ c' = [c EXCEPT ![p] = 0]
    /\ UNCHANGED <<inode, f_offset, data, offset, put, got>>

\* A slip: closef leaves the other side asleep.
CloseSilently(p) ==
    /\ pc[p] \in {"user", "eof", "epipe"}
    /\ f_count' = [f_count EXCEPT ![Side(p)] = @ - 1]
    /\ IF f_count[Side(p)] <= 1
       THEN /\ i_count' = i_count - 1
            /\ i_flag' = {}
            /\ Wake(Prele, p, "closed")
       ELSE Goto(p, "closed") /\ UNCHANGED <<i_count, i_flag>>
    /\ UNCHANGED <<i_mode, i_size1, f_offset, data, count, c, offset, put, got>>

\* closef, and the last one of its side closei and iput, which drops the
\* reference to the inode and unlocks it.
Close(p) ==
    /\ pc[p] \in {"user", "eof", "epipe"}
    /\ f_count' = [f_count EXCEPT ![Side(p)] = @ - 1]
    /\ i_mode' = i_mode \ {"IREAD", "IWRITE"}
    /\ IF f_count[Side(p)] <= 1
       THEN /\ i_count' = i_count - 1
            /\ i_flag' = {}
            /\ Wake({"ifull", "iempty"} \cup Prele, p, "closed")
       ELSE /\ Wake({"ifull", "iempty"}, p, "closed")
            /\ UNCHANGED <<i_count, i_flag>>
    /\ UNCHANGED <<i_size1, f_offset, data, count, c, offset, put, got>>

-----------------------------------------------------------------------------
\* pipe(), and the forks after it.
Init ==
    /\ i_flag = {} /\ i_mode = {} /\ i_count = 2 /\ i_size1 = 0
    /\ f_offset = 0
    /\ f_count = [s \in Sides |-> Cardinality(IF s = "r" THEN Readers
                                                       ELSE Writers)]
    /\ data = [o \in 0..(PIPSIZ - 1) |-> 0]
    /\ pc = [p \in Proc |-> "user"]
    /\ count = [p \in Proc |-> 0]
    /\ c = [p \in Proc |-> 0]
    /\ offset = [p \in Proc |-> 0]
    /\ put = 0 /\ got = <<>>

Next ==
    \E p \in Proc :
        \/ \E n \in 1..MaxCount : Call(p, n)
        \/ Step(p)
        \/ Interrupt(p)
        \/ Close(p)

\* A process in the kernel that can run does run: it is not preempted, and
\* swtch finds it when it is ready.  Nothing makes a process call read, write
\* or close, and no signal need come.
Fairness == \A p \in Proc : WF_vars(Step(p))

Spec == Init /\ [][Next]_vars /\ Fairness

-----------------------------------------------------------------------------
TypeOK ==
    /\ i_flag \subseteq {"ILOCK", "IWANT"}
    /\ i_mode \subseteq {"IREAD", "IWRITE"}
    /\ i_count \in 0..2
    /\ i_size1 \in 0..PIPSIZ
    /\ f_offset \in 0..PIPSIZ
    /\ f_count \in [Sides -> Nat]
    /\ data \in [0..(PIPSIZ - 1) -> Nat]
    /\ pc \in [Proc -> PC]
    /\ count \in [Proc -> 0..MaxCount]
    /\ c \in [Proc -> 0..MaxCount]
    /\ offset \in [Proc -> 0..PIPSIZ]
    /\ put \in Nat
    /\ got \in Seq(Nat)

\* The pipe loses, repeats and reorders nothing, whatever the sides do and
\* whenever the head and the tail go back to 0 (readp, writep).
InOrder == \A i \in 1..Len(got) : got[i] = i - 1

\* read returns end of file only when the write side is closed and everything
\* that was written has been read (readp: "return without satisfying read").
EofIsTrue ==
    \A p \in Readers : pc[p] = "eof" => f_count["w"] = 0 /\ Len(got) = put

\* Between plock and prele a process is alone with the pipe (plock: "Lock a
\* pipe. If its already locked, set the WANT bit and sleep.").
LockExcludes ==
    \A p, q \in Proc : pc[p] = "xfer" /\ pc[q] = "xfer" => p = q

\* Nobody sleeps for a reason that has gone away: a reader waits for data only
\* while the pipe is empty, or a writer that will wake it is filling it, and a
\* writer waits for room only while the pipe is full; each has left the mark
\* that makes the other side wake it, and the other side is open (the IREAD
\* and IWRITE bits of readp, writep and closef).
SleepIsJustified ==
    \A p \in Proc :
        /\ pc[p] = "iempty" =>
              /\ f_count["w"] > 0 /\ "IREAD" \in i_mode
              /\ \/ f_offset = i_size1
                 \/ \E w \in Writers : pc[w] = "xfer"
        /\ pc[p] = "ifull" =>
              f_count["r"] > 0 /\ "IWRITE" \in i_mode /\ i_size1 = PIPSIZ
        /\ pc[p] = "ilock" =>
              /\ i_flag = {"ILOCK", "IWANT"}
              /\ \E q \in Proc : pc[q] = "xfer"

\* Closing one side for the last time sets free whoever is in read or write
\* on the other (closef: "make sure the pipe protocol does not constipate").
HangupUnblocks ==
    \A p \in Proc :
        f_count[IF p \in Readers THEN "w" ELSE "r"] = 0
            ~> pc[p] \in {"user", "eof", "epipe", "closed"}
=============================================================================
