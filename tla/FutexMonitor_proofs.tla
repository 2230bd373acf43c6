-------------------------- MODULE FutexMonitor_proofs --------------------------
(***************************************************************************)
(* The mutex of the freestanding runtime, for any number of threads, locks *)
(* and condition waits: one holder at a time, and no unlock is lost.       *)
(***************************************************************************)
EXTENDS FutexMonitor, TLAPS

Places ==
  {"outside", "lock", "lock_wait", "lock_asleep", "critical", "unlock", "unlock_wake",
   "cond_wait", "cond_asleep", "cond_add", "cond_wake"}

TypeInv ==
  /\ state \in {0, 1}
  /\ pc \in [Threads -> Places]
  /\ ret \in [Threads -> {"outside", "cond_wait", "cond_add", "unlock"}]

\* An unlock never returns to an unlock, and a call that is over has no return.
Returns ==
  \A t \in Threads :
    CASE pc[t] \in {"unlock", "unlock_wake"}   -> ret[t] # "unlock"
      [] pc[t] \in {"cond_add", "cond_wake"}   -> ret[t] \in {"outside", "unlock"}
      [] OTHER                                 -> ret[t] = "outside"

IInv == TypeInv /\ Returns /\ MutualExclusion /\ NoUnlockLost

Holds(t) ==
  \/ pc[t] \in {"critical", "unlock"}
  \/ pc[t] \in {"cond_add", "cond_wake"} /\ ret[t] = "unlock"

\* The mutex as its users see it.
Excluded ==
  /\ \A t, u \in Threads : Holds(t) /\ Holds(u) => t = u
  /\ \A t \in Threads : Holds(t) => state = 1
  /\ state = 1 => \E t \in Threads : Holds(t)

(* Exclusion, thread by thread.                                                           *)
LEMMA ThreadByThread ==
  ASSUME TypeInv
  PROVE  MutualExclusion <=> Excluded
  BY DEF TypeInv, MutualExclusion, Excluded, Holders, Holds

USE DEF At, To, client

(* A step of a thread that touches neither the word nor who holds it, nor leaves the      *)
(* places from which a free mutex is taken or handed on, keeps the invariant.             *)
LEMMA Aside ==
  ASSUME IInv, TypeInv', Returns', state' = state,
         \A t \in Threads : Holds(t)' <=> Holds(t),
         NoUnlockLost'
  PROVE  IInv'
<1>1. Excluded
  BY ThreadByThread DEF IInv
<1>2. Excluded'
  BY <1>1 DEF Excluded
<1>3. TypeInv' => (MutualExclusion' <=> Excluded')
  BY DEF TypeInv, MutualExclusion, Excluded, Holders, Holds
<1> QED
  BY <1>2, <1>3 DEF IInv

(* pthread_mutex_lock and pthread_mutex_trylock.                                          *)
LEMMA LockStep ==
  ASSUME IInv, NEW t \in Threads, LockExchange(t) \/ TryLock(t)
  PROVE  IInv'
<1> USE DEF IInv, TypeInv, Places
<1>1. Excluded
  BY ThreadByThread
<1>2. TypeInv'
  BY DEF LockExchange, TryLock
<1>3. Returns'
  BY DEF LockExchange, TryLock, Returns
<1>4. CASE state = 0
  <2>1. /\ state' = 1 /\ pc' = [pc EXCEPT ![t] = "critical"] /\ ret' = ret
    BY <1>4 DEF LockExchange, TryLock
  <2>2. \A u \in Threads : Holds(u)' <=> u = t
    BY <1>1, <1>4, <2>1 DEF Excluded, Holds
  <2>3. MutualExclusion'
    BY <2>1, <2>2 DEF MutualExclusion, Holders, Holds
  <2>4. NoUnlockLost'
    BY <2>1 DEF NoUnlockLost
  <2> QED
    BY <1>2, <1>3, <2>3, <2>4
<1>5. CASE state = 1
  <2>1. /\ state' = 1 /\ ret' = ret
        /\ pc' = pc \/ (pc[t] = "lock" /\ pc' = [pc EXCEPT ![t] = "lock_wait"])
    BY <1>5 DEF LockExchange, TryLock
  <2>2. \A u \in Threads : Holds(u)' <=> Holds(u)
    BY <2>1 DEF Holds
  <2>3. NoUnlockLost'
    BY <2>1 DEF NoUnlockLost
  <2> QED
    BY <1>2, <1>3, <1>5, <2>1, <2>2, <2>3, Aside
<1> QED
  BY <1>4, <1>5

(* The exchange of pthread_mutex_unlock, whose caller holds the mutex.                    *)
LEMMA UnlockStep ==
  ASSUME IInv, NEW t \in Threads, Unlock(t)
  PROVE  IInv'
<1> USE DEF IInv, TypeInv, Places
<1>1. Excluded
  BY ThreadByThread
<1>2. pc[t] = "unlock" /\ state = 1
  BY <1>1 DEF Unlock, Excluded, Holds
<1>3. state' = 0 /\ pc' = [pc EXCEPT ![t] = "unlock_wake"] /\ ret' = ret
  BY <1>2 DEF Unlock
<1>4. TypeInv'
  BY <1>3
<1>5. Returns'
  BY <1>2, <1>3 DEF Returns
<1>6. \A u \in Threads : ~Holds(u)'
  BY <1>1, <1>2, <1>3 DEF Excluded, Holds
<1>7. MutualExclusion'
  BY <1>3, <1>6 DEF MutualExclusion, Holders, Holds
<1>8. NoUnlockLost'
  BY <1>3 DEF NoUnlockLost
<1> QED
  BY <1>4, <1>5, <1>7, <1>8

(* The wakes of pthread_mutex_unlock, pthread_cond_signal and pthread_cond_broadcast: the *)
(* caller returns, and what it woke tries for the mutex.                                  *)
LEMMA WakeStep ==
  ASSUME IInv, NEW t \in Threads, UnlockWake(t) \/ CondWake(t)
  PROVE  IInv'
<1> USE DEF IInv, TypeInv, Places
<1>1. PICK woken \in SUBSET Threads :
        /\ \A u \in woken : pc[u] \in {"lock_asleep", "cond_asleep"}
        /\ pc[t] = "unlock_wake" /\ (\E u \in Threads : At(u, "lock_asleep")) => woken # {}
        /\ pc[t] \in {"unlock_wake", "cond_wake"} /\ state' = state
        /\ pc' = [u \in Threads |-> IF u = t THEN ret[t]
                                    ELSE IF u \in woken THEN "lock" ELSE pc[u]]
        /\ ret' = [ret EXCEPT ![t] = "outside"]
  BY DEF UnlockWake, CondWake, OneOf, Wake, Return
<1>2. t \notin woken
  BY <1>1
<1>3. /\ pc'[t] = ret[t] /\ ret'[t] = "outside"
      /\ \A u \in woken : pc'[u] = "lock" /\ ret'[u] = ret[u]
      /\ \A u \in Threads \ (woken \cup {t}) : pc'[u] = pc[u] /\ ret'[u] = ret[u]
  BY <1>1, <1>2
<1>4. TypeInv'
  BY <1>1
<1>5. Returns'
  BY <1>1, <1>2, <1>3 DEF Returns
<1>6. \A u \in Threads : Holds(u)' <=> Holds(u)
  <2>1. Holds(t)' <=> Holds(t)
    BY <1>1, <1>3 DEF Holds, Returns
  <2>2. \A u \in Threads \ {t} : Holds(u)' <=> Holds(u)
    BY <1>1, <1>3 DEF Holds
  <2> QED
    BY <2>1, <2>2
<1>7. NoUnlockLost'
  <2> SUFFICES ASSUME state' = 0, NEW s \in Threads, pc'[s] = "lock_asleep"
               PROVE  \E u \in Threads : pc'[u] \in {"unlock_wake", "lock", "lock_wait"}
    BY DEF NoUnlockLost
  <2>1. pc[s] = "lock_asleep" /\ state = 0
    BY <1>1, <1>3
  <2>2. PICK u \in Threads : pc[u] \in {"unlock_wake", "lock", "lock_wait"}
    BY <2>1 DEF NoUnlockLost
  <2>3. CASE woken # {}
    BY <1>3, <2>3
  <2>4. CASE woken = {}
    <3>1. u # t
      BY <1>1, <2>1, <2>2, <2>4
    <3> QED
      BY <1>3, <2>2, <2>4, <3>1
  <2> QED
    BY <2>3, <2>4
<1> QED
  BY <1>1, <1>4, <1>5, <1>6, <1>7, Aside

(* Everything else a thread does leaves the word and its holder alone.                    *)
LEMMA OtherStep ==
  ASSUME IInv, NEW t \in Threads,
         \/ Enter(t) \/ LockWait(t) \/ Timeout(t) \/ Interrupt(t) \/ CondEnter(t) \/ CondWait(t)
         \/ CondAdd(t) \/ Produce(t) \/ Consume(t)
  PROVE  IInv'
<1> USE DEF IInv, TypeInv, Places, Threads
<1>1. /\ state' = state
      /\ TypeInv'
  BY DEF Enter, LockWait, Timeout, Interrupt, CondEnter, CondWait, CondAdd, Produce, Consume
<1>2. Returns'
  BY DEF Returns, Enter, LockWait, Timeout, Interrupt, CondEnter, CondWait, CondAdd, Produce,
         Consume
<1>3. \A u \in Threads : Holds(u)' <=> Holds(u)
  BY DEF Returns, Holds, Enter, LockWait, Timeout, Interrupt, CondEnter, CondWait, CondAdd,
         Produce, Consume
<1>4. NoUnlockLost'
  BY DEF NoUnlockLost, Enter, LockWait, Timeout, Interrupt, CondEnter, CondWait, CondAdd,
         Produce, Consume
<1> QED
  BY <1>1, <1>2, <1>3, <1>4, Aside

(* The four facts hold in every state, whoever times out, is interrupted or barges in.    *)
THEOREM MonitorInvariant == Spec => []IInv
<1>1. Init => IInv
  BY DEF Init, IInv, TypeInv, Places, Returns, MutualExclusion, Holders, NoUnlockLost
<1>2. IInv /\ [Next]_vars => IInv'
  <2> SUFFICES ASSUME IInv, [Next]_vars PROVE IInv'
    OBVIOUS
  <2>1. CASE UNCHANGED vars
    BY <2>1 DEF vars, IInv, TypeInv, Returns, MutualExclusion, Holders, NoUnlockLost
  <2>2. CASE \E t \in Threads : Step(t) \/ Timeout(t) \/ Interrupt(t)
    BY <2>2, LockStep, UnlockStep, WakeStep, OtherStep DEF Step
  <2> QED
    BY <2>1, <2>2 DEF Next
<1> QED
  BY <1>1, <1>2, PTL DEF Spec

(* One thread at a time is inside, and the word says whether one is                       *)
(* (pthread_mutex_lock, pthread_mutex_trylock, mettle_mutex_wait, pthread_cond_wait).     *)
THEOREM MutexExcludes == Spec => []MutualExclusion
<1>1. IInv => MutualExclusion
  BY DEF IInv
<1> QED
  BY <1>1, MonitorInvariant, PTL

(* A free mutex that somebody sleeps on is about to be taken or handed on, though         *)
(* pthread_mutex_unlock wakes one thread and only after it has released the word.         *)
THEOREM UnlocksReach == Spec => []NoUnlockLost
<1>1. IInv => NoUnlockLost
  BY DEF IInv
<1> QED
  BY <1>1, MonitorInvariant, PTL
================================================================================
