--------------------------- MODULE MCRuntimeThread ---------------------------
(***************************************************************************)
(* Two threads that share out two handles in every way.                    *)
(***************************************************************************)
EXTENDS RuntimeThread

CONSTANTS t1, t2, h1, h2
=============================================================================
