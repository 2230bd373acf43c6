------------------------------ MODULE MCMemHeap ------------------------------
(***************************************************************************)
(* A small instance of MemHeap: two size classes of two and four bytes,    *)
(* two blocks a slab, and pages of four bytes for the larger requests.     *)
(***************************************************************************)
EXTENDS MemHeap

CONSTANTS t1, t2

MCSymmetry == Permutations({t1, t2})
=============================================================================
