----------------------------- MODULE ParallelFor ------------------------------
(***************************************************************************)
(* What mettle_parallel_range promises its callers, whatever runs it: a    *)
(* call hands out every index of its range to exactly one body, bodies may *)
(* overlap, and the call returns only when all of them have.  "remaining"  *)
(* and "running" are the indices no body has been given yet, and those a   *)
(* body is working on.                                                     *)
(***************************************************************************)
EXTENDS Integers

CONSTANTS Callers, Requests

VARIABLES active, remaining, running

vars == <<active, remaining, running>>

Init ==
  /\ active = [c \in Callers |-> FALSE]
  /\ remaining = [c \in Callers |-> {}]
  /\ running = [c \in Callers |-> {}]

\* A call may hand out its first range at once.
Call(c, r, given) ==
  /\ ~active[c]
  /\ active' = [active EXCEPT ![c] = TRUE]
  /\ remaining' = [remaining EXCEPT ![c] = (r.lo..(r.hi - 1)) \ given]
  /\ running' = [running EXCEPT ![c] = given]

Start(c, given) ==
  /\ active[c] /\ given # {} /\ given \subseteq remaining[c]
  /\ remaining' = [remaining EXCEPT ![c] = @ \ given]
  /\ running' = [running EXCEPT ![c] = @ \cup given]
  /\ UNCHANGED active

Finish(c, given) ==
  /\ active[c] /\ given # {} /\ given \subseteq running[c]
  /\ running' = [running EXCEPT ![c] = @ \ given]
  /\ UNCHANGED <<active, remaining>>

\* The caller may return out of the last body.
Return(c, given) ==
  /\ active[c] /\ remaining[c] = {} /\ running[c] = given
  /\ active' = [active EXCEPT ![c] = FALSE]
  /\ running' = [running EXCEPT ![c] = {}]
  /\ UNCHANGED remaining

Next ==
  \E c \in Callers :
    \/ \E r \in Requests : Call(c, r, {}) \/ Call(c, r, r.lo..(r.hi - 1))
    \/ \E given \in SUBSET remaining[c] : Start(c, given)
    \/ \E given \in SUBSET running[c] : Finish(c, given) \/ Return(c, given)

Spec == Init /\ [][Next]_vars /\ \A c \in Callers : []<>(~active[c])
=============================================================================
