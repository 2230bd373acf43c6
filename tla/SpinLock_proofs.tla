---------------------------- MODULE SpinLock_proofs ----------------------------
(***************************************************************************)
(* The lock of std/thread, whose compare-and-exchange returns the value it *)
(* found, keeps any number of threads apart, and the reference count of    *)
(* std/net that it guards is exact.  The lock of std/thread_posix differs  *)
(* only in what its primitive returns, and is the subject of a run.        *)
(***************************************************************************)
EXTENDS SpinLock, TLAPS

\* What a thread loaded is the count until it stores: nobody else is inside.  A
\* thread that is going to store has something to do.
SeenIsCurrent ==
  \A t \in Threads : pc[t] \in {"again", "store"} =>
    /\ seen[t] = count
    /\ operation[t] = "net_init" \/ (operation[t] = "net_cleanup" /\ count > 0)

IInv == TypeOK /\ MutualExclusion /\ RefCounted /\ SeenIsCurrent

\* One call keeps the count a natural number.
LEMMA AfterNat ==
  ASSUME NEW op \in Operations, NEW n \in Nat
  PROVE  After(op, n) \in Nat
  BY DEF After, Operations

\* The four facts are inductive for the primitive that returns the old value.
LEMMA LockStep ==
  ASSUME Primitive = "interlocked", IInv, [Next]_vars
  PROVE  IInv'
<1> USE DEF IInv, TypeOK
<1>1. ASSUME NEW t \in Threads, NEW op \in Operations, Call(t, op)
      PROVE  IInv'
  BY <1>1 DEF Call, Goto, MutualExclusion, RefCounted, SeenIsCurrent, Inside
<1>2. ASSUME NEW t \in Threads, spin_try_lock(t)
      PROVE  IInv'
  <2>1. CASE lock = 0
    BY <1>2, <2>1 DEF spin_try_lock, CasResult, Goto, MutualExclusion, RefCounted,
                      SeenIsCurrent, Inside
  <2>2. CASE lock = 1
    BY <1>2, <2>2 DEF spin_try_lock, CasResult, Goto, MutualExclusion, RefCounted,
                      SeenIsCurrent, Inside
  <2> QED
    BY <2>1, <2>2
<1>3. ASSUME NEW t \in Threads, LoadCount(t)
      PROVE  IInv'
  <2>1. count \in Nat /\ balance = count /\ operation[t] \in Operations
    BY DEF RefCounted
  <2>2. balance' = count
    BY <1>3, <2>1 DEF LoadCount, After, Operations
  <2>3. pc[t] = "load" /\ lock' = lock /\ count' = count /\ operation' = operation
        /\ calls' = calls /\ seen' = [seen EXCEPT ![t] = count]
    BY <1>3 DEF LoadCount, Goto
  <2>4. PICK to \in {"again", "store", "unlock"} :
          /\ pc' = [pc EXCEPT ![t] = to]
          /\ to # "unlock" => operation[t] = "net_init" \/ (operation[t] = "net_cleanup" /\ count > 0)
    BY <1>3 DEF LoadCount, Goto
  <2>5. Inside' = Inside
    BY <2>3, <2>4 DEF Inside
  <2>6. MutualExclusion'
    BY <2>3, <2>5 DEF MutualExclusion
  <2>7. SeenIsCurrent'
    BY <2>3, <2>4 DEF SeenIsCurrent
  <2> QED
    BY <2>1, <2>2, <2>3, <2>4, <2>6, <2>7 DEF RefCounted
<1>4. ASSUME NEW t \in Threads, LoadAgain(t)
      PROVE  IInv'
  <2>1. seen[t] = count /\ seen' = seen
    BY <1>4 DEF LoadAgain, Goto, SeenIsCurrent
  <2> QED
    BY <1>4, <2>1 DEF LoadAgain, Goto, MutualExclusion, RefCounted, SeenIsCurrent, Inside
<1>5. ASSUME NEW t \in Threads, StoreCount(t)
      PROVE  IInv'
  <2>1. seen[t] = count /\ balance = count /\ t \in Inside
        /\ (operation[t] = "net_init" \/ (operation[t] = "net_cleanup" /\ count > 0))
    BY <1>5 DEF StoreCount, Goto, SeenIsCurrent, RefCounted, Inside
  <2>2. count' = After(operation[t], count) /\ balance' = After(operation[t], count)
    BY <1>5, <2>1 DEF StoreCount, After
  <2>3. count' \in Nat /\ balance' \in Nat
    BY <2>2, AfterNat
  <2>4. \A u \in Threads : pc[u] \in {"again", "store"} => u = t
    BY <2>1 DEF MutualExclusion, Inside
  <2>5. pc' = [pc EXCEPT ![t] = "unlock"] /\ pc[t] = "store" /\ lock' = lock
        /\ operation' = operation /\ seen' = seen /\ calls' = calls
    BY <1>5 DEF StoreCount, Goto
  <2>6. Inside' = Inside
    BY <2>5 DEF Inside
  <2>7. MutualExclusion'
    BY <2>5, <2>6 DEF MutualExclusion
  <2>8. SeenIsCurrent'
    BY <2>4, <2>5 DEF SeenIsCurrent
  <2> QED
    BY <2>2, <2>3, <2>5, <2>7, <2>8 DEF RefCounted
<1>6. ASSUME NEW t \in Threads, spin_unlock(t)
      PROVE  IInv'
  BY <1>6 DEF spin_unlock, Goto, MutualExclusion, RefCounted, SeenIsCurrent, Inside
<1>7. CASE UNCHANGED vars
  BY <1>7 DEF vars, MutualExclusion, RefCounted, SeenIsCurrent, Inside
<1> QED
  BY <1>1, <1>2, <1>3, <1>4, <1>5, <1>6, <1>7 DEF Next, Step, Done

\* For any threads and any calls, spin_lock of std/thread lets one thread at a
\* time into the section, its word is set exactly then, and net_init and
\* net_cleanup of std/net count as if they ran one after the other.
THEOREM SpinLockSafe ==
  ASSUME Primitive = "interlocked"
  PROVE  Spec => [](MutualExclusion /\ RefCounted)
<1>1. Init => IInv
  BY DEF Init, IInv, TypeOK, MutualExclusion, RefCounted, SeenIsCurrent, Inside, Operations
<1>2. IInv /\ [Next]_vars => IInv'
  BY LockStep
<1>3. IInv => MutualExclusion /\ RefCounted
  BY DEF IInv
<1> QED
  BY <1>1, <1>2, <1>3, PTL DEF Spec
================================================================================
