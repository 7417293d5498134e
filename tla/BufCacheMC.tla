----------------------------- MODULE BufCacheMC -----------------------------
(***************************************************************************)
(* Instances of BufCache for TLC.                                          *)
(***************************************************************************)
EXTENDS BufCache

\* Two processes that read and write blocks, while either may flush.
MCProc == {"p", "q"}
DataCalls == [r \in MCProc |->
                {"bread", "getblk", "bflush", "bwrite", "bawrite", "bdwrite"}]

\* One process reads ahead and writes behind, the other keeps a scratch buffer
\* or a block of addresses while it gets more; both swap.
WaitCalls == [r \in MCProc |->
                IF r = "p" THEN {"breada", "bawrite", "swap"}
                           ELSE {"bread", "nodev", "keep", "swap"}]
=============================================================================
