--------------------------- MODULE ParallelThreads ----------------------------
(***************************************************************************)
(* The number of threads a process uses for its parallel ranges: read by   *)
(* the first call from the environment or the hardware, and kept for all   *)
(* later ones (mtp_threads).                                               *)
(***************************************************************************)
EXTENDS ParallelPlan

CONSTANTS
  Texts,      \* contents METTLE_PARALLEL_THREADS may have (<<>> when unset)
  Hardware    \* counts mtp_os_hardware_threads may answer

VARIABLES
  text, hardware,   \* what the process finds
  threads           \* g_pool.threads, 0 until the first call

vars == <<text, hardware, threads>>

Init ==
  /\ text \in Texts /\ hardware \in Hardware
  /\ threads = 0

Dispatch ==
  /\ threads' = IF threads = 0 THEN mtp_threads(text, hardware) ELSE threads
  /\ UNCHANGED <<text, hardware>>

Spec == Init /\ [][Dispatch]_vars

-----------------------------------------------------------------------------
\* The documentation of METTLE_PARALLEL_THREADS: "overrides the core count at run
\* time, capped at 16".  mtp_threads caps at METTLE_PARALLEL_MAX_THREADS.
ThreadsCapped == threads <= 16
=============================================================================
