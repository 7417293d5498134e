---------------------------- MODULE SwapperRaces ----------------------------
(***************************************************************************)
(* Two things Swapper leaves out, because with them core is no longer      *)
(* owned by one process: fork when swap space is full as well as core      *)
(* (ken/slp.c newproc), and the text read of exec (ken/sys1.c).            *)
(***************************************************************************)
EXTENDS Swapper

CONSTANT DSIZE  \* how far exec moves p_addr

-----------------------------------------------------------------------------
\* fork, when there is neither core nor swap space: the child stands on the
\* parent's image and sleeps on swapmap.  It is SLOAD and not SLOCK.
ForkSleeps(p) ==
    LET c == FirstOf(FreeSlots)
    IN  /\ InUser(p) /\ FreeSlots # {}
        /\ MallocAddr(coremap, PSIZE) = NoAddr
        /\ MallocAddr(swapmap, SSIZE) = NoAddr
        /\ NewSlot(p, c)
        /\ p_stat' = [p_stat EXCEPT ![p] = "SIDL", ![c] = "SSLEEP"]
        /\ p_flag' = [p_flag EXCEPT ![c] = {"SLOAD"}]
        /\ p_addr' = [p_addr EXCEPT ![c] = p_addr[p]]
        /\ pc' = [pc EXCEPT ![c] = "newproc"]
        /\ UNCHANGED <<arg, coremap, swapmap, spc, schedVars>>

\* The child is woken and tries again: xswap locks it, or it sleeps again.
NewprocRetry(c) ==
    LET a == MallocAddr(swapmap, SSIZE)
    IN  /\ CanRun(c) /\ c \in SwapWaiters
        /\ p_stat' = [p_stat EXCEPT ![c] = "SSLEEP"]
        /\ p_flag' = IF a = NoAddr THEN p_flag
                     ELSE [p_flag EXCEPT ![c] = {"SLOAD", "SLOCK"}]
        /\ arg' = [arg EXCEPT ![c] = a]
        /\ swapmap' = MallocMap(swapmap, SSIZE)
        /\ UNCHANGED <<p_addr, p_time, p_ppid, pc, coremap, spc, schedVars>>

NextFull ==
    \/ Next
    \/ \E p \in Slot : ForkSleeps(p) \/ NewprocRetry(p)

SpecFull == Init /\ [][NextFull]_vars

-----------------------------------------------------------------------------
\* exec moves p_addr up and reads the text, which sleeps for the disk.
ExecText(p) ==
    /\ InUser(p)
    /\ p_addr' = [p_addr EXCEPT ![p] = @ + DSIZE]
    /\ Block(p, "SSLEEP", "exec")
    /\ UNCHANGED <<p_flag, p_time, p_ppid, arg, coremap, swapmap, spc, schedVars>>

\* The block is there and the process is made ready.
ExecWake(p) ==
    /\ p_stat[p] = "SSLEEP" /\ pc[p] = "exec"
    /\ Setrun({p})
    /\ UNCHANGED <<p_flag, p_addr, p_time, p_ppid, pc, arg, coremap, swapmap,
                   schedVars>>

\* The text is read and exec moves p_addr back.
ExecDone(p) ==
    /\ CanRun(p) /\ pc[p] = "exec"
    /\ p_addr' = [p_addr EXCEPT ![p] = @ - DSIZE]
    /\ pc' = [pc EXCEPT ![p] = "user"]
    /\ UNCHANGED <<p_stat, p_flag, p_time, p_ppid, arg, coremap, swapmap, spc,
                   schedVars>>

NextExec ==
    \/ Next
    \/ \E p \in Slot : ExecText(p) \/ ExecWake(p) \/ ExecDone(p)

SpecExec == Init /\ [][NextExec]_vars

\* proc.h:22 says of p_addr "address of swappable image": whoever the swapping
\* process moves is moved from where its image is.  So core is owned by one
\* process each whenever nobody is in exec.
CoreOwnedAfterExec == (\A p \in Slot : pc[p] # "exec") => CoreOwned
=============================================================================
