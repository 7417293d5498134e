---------------------------- MODULE FileBlocksMC ----------------------------
(***************************************************************************)
(* The instance of FileBlocks for TLC: a volume of nine blocks with two    *)
(* files from the prototype, of a block and of a block and a word.         *)
(***************************************************************************)
EXTENDS FileBlocks

MCProto == <<3, 4>>

\* Two words across the first and the second block of a small file; five from
\* the third, which makes the file large, over the fourth, which is two levels
\* below the last address, to the fifth, which is one too many.
MCTransfers == {<<2, 2>>, <<8, 5>>}
=============================================================================
