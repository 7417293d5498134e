----------------------------- MODULE BlockStore -----------------------------
(***************************************************************************)
(* What the buffer cache promises its callers (the comment that opens      *)
(* dmr/bio.c): a caller that asks for a block gets it to itself, with the  *)
(* contents the last writer left, until it gives the block back, with or   *)
(* without new contents.  No buffers, no queue, no disk.                   *)
(***************************************************************************)
CONSTANTS Proc, Blk, BadBlk, Val, NoBlk, Unread

VARIABLES
    store,      \* the contents of every block of the disk
    view        \* for each process, the block it has been given

vars == <<store, view>>

None == [blk |-> NoBlk, val |-> Unread]

Init ==
    /\ store \in [Blk \ BadBlk -> Val]
    /\ view = [p \in Proc |-> None]

\* bread, breada, getblk return.  A block asked for only to be overwritten may
\* come without contents, and one past the end of the disk has none that last.
Acquire(p, b) ==
    /\ view[p] = None
    /\ \A q \in Proc : view[q].blk # b
    /\ \E v \in {Unread} \cup (IF b \in BadBlk THEN Val ELSE {store[b]}) :
          view' = [view EXCEPT ![p] = [blk |-> b, val |-> v]]
    /\ UNCHANGED store

\* brelse, or a write past the end of the disk.
Release(p) ==
    /\ view[p] # None
    /\ view' = [view EXCEPT ![p] = None]
    /\ UNCHANGED store

\* bwrite, bawrite, bdwrite.
Write(p, v) ==
    /\ view[p] # None
    /\ view[p].blk \notin BadBlk
    /\ store' = [store EXCEPT ![view[p].blk] = v]
    /\ view' = [view EXCEPT ![p] = None]

Next ==
    \E p \in Proc :
        \/ \E b \in Blk : Acquire(p, b)
        \/ Release(p)
        \/ \E v \in Val : Write(p, v)

Spec == Init /\ [][Next]_vars
=============================================================================
