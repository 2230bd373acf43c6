-------------------------- MODULE MCParallelThreads ---------------------------
(***************************************************************************)
(* Thread counts given as text: unset, garbage, a small number, and one on *)
(* each side of 16 and of 64, on machines of one and of eight cores.       *)
(***************************************************************************)
EXTENDS ParallelThreads

MCTexts == {<<>>, <<Other, 3>>, <<Blank, 2>>, <<1, 6>>, <<1, 7>>, <<6, 4>>, <<6, 5>>}
MCHardware == {1, 8}
=============================================================================
