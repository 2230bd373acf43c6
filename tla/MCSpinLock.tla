------------------------------ MODULE MCSpinLock ------------------------------
(***************************************************************************)
(* Three threads that make up to two calls each, in any order.             *)
(***************************************************************************)
EXTENDS SpinLock, TLC

CONSTANTS t1, t2, t3

MCThreads == {t1, t2, t3}
=============================================================================
