--------------------------- MODULE MCFutexMonitor ---------------------------
(***************************************************************************)
(* Producers and consumers for FutexMonitor.  Liveness is checked, so the  *)
(* threads are not declared symmetric.                                     *)
(***************************************************************************)
EXTENDS FutexMonitor

CONSTANTS p1, p2, c1, c2

\* Three items, two of them from one producer and two to one consumer.
SignalRounds == [t \in Threads |-> IF t \in {p1, c1} THEN 2 ELSE 1]
=============================================================================
