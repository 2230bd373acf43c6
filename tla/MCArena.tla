------------------------------- MODULE MCArena -------------------------------
(***************************************************************************)
(* Arena with alignments scaled down by four: 2 stands for the default of  *)
(* 8, 4 for the 16 that the heap guarantees, and 8 for 32.                 *)
(***************************************************************************)
EXTENDS Arena

SizesAround == {1, ChunkSize, ChunkSize + 2}
=============================================================================
