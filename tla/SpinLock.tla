------------------------------- MODULE SpinLock -------------------------------
(***************************************************************************)
(* The spin lock of the standard library, and the reference count of the   *)
(* network modules that it guards.  The lock exists twice: spin_lock of    *)
(* std/thread, built on a compare-and-exchange that returns the old value, *)
(* and posix_spin_lock of std/thread_posix and std/net_posix, built on one *)
(* that returns whether it succeeded.  Both take a result of 0 for "the    *)
(* lock is mine".                                                          *)
(***************************************************************************)
EXTENDS Integers

CONSTANTS
  Threads,     \* the threads that call the network module
  Primitive,   \* which compare-and-exchange the lock is built on
  MaxCalls     \* bound: the calls each thread makes

Operations == {"net_init", "net_cleanup", "net_is_initialized"}

VARIABLES
  lock,        \* net_ref_lock
  count,       \* net_ref_count
  pc,          \* where each thread is
  operation,   \* the call a thread is in
  seen,        \* net_ref_count as the call loaded it
  calls,       \* bound: the calls made so far
  balance      \* history: the count, had every call run alone

vars == <<lock, count, pc, operation, seen, calls, balance>>

Init ==
  /\ lock = 0 /\ count = 0
  /\ pc = [t \in Threads |-> "idle"]
  /\ operation = [t \in Threads |-> "net_init"]
  /\ seen = [t \in Threads |-> 0]
  /\ calls = [t \in Threads |-> 0]
  /\ balance = 0

Goto(t, from, to) == pc[t] = from /\ pc' = [pc EXCEPT ![t] = to]

Call(t, op) ==
  /\ calls[t] < MaxCalls
  /\ Goto(t, "idle", "try")
  /\ calls' = [calls EXCEPT ![t] = @ + 1]
  /\ operation' = [operation EXCEPT ![t] = op]
  /\ UNCHANGED <<lock, count, seen, balance>>

\* mettle_atomic_compare_exchange_i32 returns the value it found, posix_cas_i32
\* whether it stored.
CasResult == IF Primitive = "interlocked" THEN lock
             ELSE IF lock = 0 THEN 1 ELSE 0

\* One compare-and-exchange of lock from 0 to 1; on failure spin_lock yields
\* and tries again.
spin_try_lock(t) ==
  /\ Goto(t, "try", IF CasResult = 0 THEN "load" ELSE "try")
  /\ lock' = IF lock = 0 THEN 1 ELSE lock
  /\ UNCHANGED <<count, operation, seen, calls, balance>>

After(op, n) == CASE op = "net_init"           -> n + 1
                  [] op = "net_cleanup"        -> IF n > 0 THEN n - 1 ELSE n
                  [] op = "net_is_initialized" -> n

\* The first load of net_ref_count in the critical section: for a test that may
\* find nothing to do, or for the update itself.
LoadCount(t) ==
  LET op      == operation[t]
      updates == op = "net_init" \/ (op = "net_cleanup" /\ count > 0)
      tested  == op = "net_cleanup" \/ (Primitive = "interlocked" /\ count > 0)
  IN  /\ Goto(t, "load", IF ~updates THEN "unlock" ELSE IF tested THEN "again" ELSE "store")
      /\ seen' = [seen EXCEPT ![t] = count]
      /\ balance' = IF updates THEN balance ELSE After(op, balance)
      /\ UNCHANGED <<lock, count, operation, calls>>

\* The update behind a test names the count once more: it is loaded again, unless
\* the compiler has kept the value.
LoadAgain(t) ==
  /\ Goto(t, "again", "store")
  /\ \E n \in {seen[t], count} : seen' = [seen EXCEPT ![t] = n]
  /\ UNCHANGED <<lock, count, operation, calls, balance>>

\* net_init of std/net stores 1 where it found 0.
StoreCount(t) ==
  /\ Goto(t, "store", "unlock")
  /\ count' = IF operation[t] = "net_init" THEN seen[t] + 1 ELSE seen[t] - 1
  /\ balance' = After(operation[t], balance)
  /\ UNCHANGED <<lock, operation, seen, calls>>

spin_unlock(t) ==
  /\ Goto(t, "unlock", "idle")
  /\ lock' = 0
  /\ UNCHANGED <<count, operation, seen, calls, balance>>

-----------------------------------------------------------------------------
Step(t) == spin_try_lock(t) \/ LoadCount(t) \/ LoadAgain(t) \/ StoreCount(t)
           \/ spin_unlock(t)

Done == /\ \A t \in Threads : pc[t] = "idle" /\ calls[t] = MaxCalls
        /\ UNCHANGED vars

Next == \/ \E t \in Threads : Step(t) \/ \E op \in Operations : Call(t, op)
        \/ Done

Spec == Init /\ [][Next]_vars

-----------------------------------------------------------------------------
Inside == {t \in Threads : pc[t] \in {"load", "again", "store", "unlock"}}

\* The words of the lock, the count and the threads keep their types; the count of
\* net_init and net_cleanup does not go below zero.
TypeOK ==
  /\ lock \in {0, 1} /\ count \in Nat /\ balance \in Nat
  /\ pc \in [Threads -> {"idle", "try", "load", "again", "store", "unlock"}]
  /\ operation \in [Threads -> Operations]
  /\ seen \in [Threads -> Nat] /\ calls \in [Threads -> Nat]

\* spin_lock keeps all but one thread out of the section it guards, and the
\* word is 1 exactly while somebody is in it.
MutualExclusion ==
  /\ \A t, u \in Inside : t = u
  /\ lock = 1 <=> Inside # {}

\* "net_init and net_cleanup are reference counted and safe to call from more
\* than one thread." (docs/standard-library.md, std/net): the count is the one
\* the calls would have left had they run one after the other.
RefCounted == count = balance
=============================================================================
