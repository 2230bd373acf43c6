----------------------------- MODULE MCDebugAgent -----------------------------
(* Instances of DebugAgent for TLC. *)
EXTENDS DebugAgent

CONSTANTS main, f, main_file, f_file

\* The called function is in a file of its own, the only one with breakpoints.
MCFileOf == [fn \in {main, f} |-> IF fn = main THEN main_file ELSE f_file]
MCEdits == {Setbp(f_file, {1}), Setbp(f_file, {}), Bpadd(f_file, 1, "x > 0")}
===============================================================================
