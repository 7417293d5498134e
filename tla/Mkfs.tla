-------------------------------- MODULE Mkfs --------------------------------
(***************************************************************************)
(* How usr/mkfs.c lays out an empty volume and fills it from a prototype:  *)
(* the free list of bflist, the block allocator that the program has of    *)
(* its own, and the blocks of the regular files that cfile copies.         *)
(* tools/mkfs.c is the same program for the host.                          *)
(*                                                                         *)
(* A block is an array of BSIZE words; what a word means depends on who    *)
(* reads the block: file data, addresses, or a piece of the free list.     *)
(* The free list is written as the sequence of the s_nfree entries of      *)
(* s_free that are in use.                                                 *)
(***************************************************************************)
EXTENDS Integers, Sequences, SequencesExt

CONSTANTS
    FSize,      \* s_fsize: blocks of the volume
    ISize,      \* s_isize: blocks of the i list
    BSIZE,      \* words of a block, 256 in the code
    NADDR,      \* addresses in an inode, 8 in the code
    NICFREE,    \* free blocks in the super block, 100 in the code
    f_n, f_m    \* interleaving of the free list

\* The sizes that pass "bad ratio", and a free list that fits a block.
ASSUME MkfsAssumption ==
    /\ FSize \in Nat /\ ISize \in Nat \ {0} /\ ISize <= FSize - ISize - 2
    /\ NICFREE \in Nat \ {0, 1} /\ BSIZE \in Nat /\ NICFREE < BSIZE
    /\ NADDR \in Nat \ {0} /\ NADDR <= BSIZE
    /\ f_n \in Nat \ {0} /\ f_m \in Nat \ {0}

Low == ISize + 2
High == FSize - 1
Data == Low..High
Words == 0..(BSIZE - 1)
Addrs == 0..(NADDR - 1)

Zero == [w \in Words |-> 0]

\* A piece of the free list as it is written to a block: the count, then the
\* entries.
Pack(list) ==
    [w \in Words |-> IF w = 0 THEN Len(list)
                     ELSE IF w <= Len(list) THEN list[w] ELSE 0]

Unpack(block) == [i \in 1..block[0] |-> block[i]]

-----------------------------------------------------------------------------
\* adr: the order in which a group of f_n blocks is freed, f_m apart, each
\* time the next one that has not been taken.
Adr ==
    LET Take(s, j) ==
            LET from == IF s = <<>> THEN 0 ELSE (Last(s) + f_m) % f_n
                free == {d \in 0..(f_n - 1) : (from + d) % f_n \notin ToSet(s)}
                d0 == CHOOSE d \in free : \A e \in free : d <= e
            IN  Append(s, (from + d0) % f_n)
    IN  FoldLeft(Take, <<>>, [j \in 1..f_n |-> j])

\* The order in which bflist frees the blocks: singly down to a multiple of
\* f_n, then in groups, then singly again.
FreeOrder ==
    LET Rest(i) == [k \in 1..(i - Low + 1) |-> i - k + 1]
        Groups[i \in 0..High] ==
            IF i >= Low + f_n
            THEN [j \in 1..f_n |-> i - Adr[j]] \o Groups[i - f_n]
            ELSE Rest(i)
        Singly[i \in 0..High] ==
            IF (i + 1) % f_n # 0 /\ i >= Low
            THEN <<i>> \o Singly[i - 1] ELSE Groups[i]
    IN  Singly[High]

\* bfree: when the list is full it goes into the block that is freed.
Bfree(img, b) ==
    IF Len(img.free) >= NICFREE
    THEN [img EXCEPT !.words[b] = Pack(img.free), !.free = <<b>>]
    ELSE [img EXCEPT !.free = Append(@, b)]

\* bflist on a volume of zeros; the first entry, 0, ends the list.
Bflist ==
    FoldLeft(Bfree, [free |-> <<0>>, words |-> [b \in Data |-> Zero],
                     ok |-> TRUE, inode |-> <<>>], FreeOrder)

-----------------------------------------------------------------------------
\* alloc: the last entry, and the list in that block when it was the only
\* one; the program gives up when it meets the 0.
Alloc(img) ==
    LET b == Last(img.free)
    IN  IF b = 0 THEN [img EXCEPT !.ok = FALSE]
        ELSE IF Len(img.free) = 1
             THEN [img EXCEPT !.free = Unpack(img.words[b])]
             ELSE [img EXCEPT !.free = Front(@)]

\* newblk: db goes to a new block, whose number is added to ib.
Newblk(img, ib, db) ==
    LET a == Alloc(img)
        b == Last(img.free)
    IN  IF img.ok /\ a.ok /\ Len(ib) + 1 < BSIZE
        THEN <<[a EXCEPT !.words[b] = db], Append(ib, b)>>
        ELSE <<[img EXCEPT !.ok = FALSE], ib>>

\* cfile for a regular file of n words that all are v: a block at a time, the
\* last one filled up with zeros.  The volume, and the blocks of the file.
CopyFile(img, n, v) ==
    LET nblk == (n + BSIZE - 1) \div BSIZE
        Block(k) == [w \in Words |-> IF (k - 1) * BSIZE + w < n THEN v ELSE 0]
        Copy(s, k) == Newblk(s[1], s[2], Block(k))
    IN  FoldLeft(Copy, <<img, <<>>>>, [k \in 1..nblk |-> k])

\* The end of cfile: with more than NADDR blocks the inode holds the address of
\* the block of addresses.
Cfile(img, n, v) ==
    LET r == CopyFile(img, n, v)
        ib == r[2]
        a == Alloc(r[1])
        b == Last(r[1].free)
        Addresses(D) == [i \in D |-> IF i < Len(ib) THEN ib[i + 1] ELSE 0]
        Add(m, addr, large) ==
            [m EXCEPT !.inode = Append(@, [addr |-> addr, large |-> large,
                                           size |-> n])]
    IN  IF Len(ib) <= NADDR THEN Add(r[1], Addresses(Addrs), FALSE)
        ELSE IF ~a.ok THEN Add(a, [i \in Addrs |-> 0], TRUE)
        ELSE Add([a EXCEPT !.words[b] = Addresses(Words)],
                 [i \in Addrs |-> IF i = 0 THEN b ELSE 0], TRUE)
=============================================================================
