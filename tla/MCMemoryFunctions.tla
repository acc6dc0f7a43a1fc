------------------------- MODULE MCMemoryFunctions -------------------------
(***************************************************************************)
(* MemoryFunctions with paragraphs of two bytes: alignments to every part  *)
(* of the largest register, distances on both sides of the threshold, and  *)
(* sizes around every multiple that a routine distinguishes.               *)
(***************************************************************************)
EXTENDS MemoryFunctions

MCStarts == {8, 9, 10, 11, 13, 15, 16, 18, 25}

MCSizes == {0, 1, 3, 7, 8, 9, 15, 16, 17, 24, 33, 41}

MCBlockSizes == {0, 1, 2, 3, 4, 5, 7, 8, 12}
=============================================================================
