---------------------------- MODULE FutexMonitor ----------------------------
(***************************************************************************)
(* Mutexes and condition variables of the freestanding runtime, on Linux   *)
(* futexes: pthread_mutex_lock, _trylock and _unlock, their timed form     *)
(* mettle_mutex_wait, and pthread_cond_wait, _signal and _broadcast, one   *)
(* action per access to shared memory or system call.  The client is the   *)
(* monitor these calls exist for: producers that add an item and announce  *)
(* it, consumers that wait in a loop until there is one.                   *)
(*                                                                         *)
(* A FUTEX_WAKE wakes any of the sleepers: nothing below relies on the     *)
(* kernel's queue order.  A thread asleep on a futex is one whose pc says  *)
(* so.                                                                     *)
(***************************************************************************)
EXTENDS Naturals, FiniteSets

CONSTANTS
  Producers, Consumers,
  Timed,        \* the threads that lock with mettle_mutex_wait and a timeout
  Rounds,       \* bound: the items each thread adds or takes
  SequenceWords \* the values of MtCondition.sequence: 2^32 in the code

Threads == Producers \union Consumers

ASSUME FutexMonitorAssumption ==
  /\ IsFiniteSet(Threads)
  /\ Producers \cap Consumers = {}
  /\ Timed \subseteq Threads
  /\ Rounds \in [Threads -> Nat]
  /\ SequenceWords \in Nat \ {0}

VARIABLES
  state,        \* MtMutex.state
  sequence,     \* MtCondition.sequence
  pc,           \* where each thread is
  ret,          \* where the call it is in returns to
  snapshot,     \* the sequence its pthread_cond_wait loaded
  announce,     \* how the client announces items; never changes
  items,        \* the client's condition, guarded by the mutex
  left          \* the rounds a thread still has to make

vars == <<state, sequence, pc, ret, snapshot, announce, items, left>>
client == <<announce, items, left>>

Init ==
  /\ state = 0 /\ sequence = 0 /\ items = 0
  /\ pc = [t \in Threads |-> "outside"]
  /\ ret = [t \in Threads |-> "outside"]
  /\ snapshot = [t \in Threads |-> 0]
  /\ announce \in {"signal", "broadcast"}
  /\ left = Rounds

At(t, from) == pc[t] = from
To(t, to) == pc' = [pc EXCEPT ![t] = to]

\* A call returns: the caller goes on at ret[t].
Return(t) == ret' = [ret EXCEPT ![t] = "outside"]

\* The kernel's FUTEX_WAKE of t's call: the threads of woken, asleep on the
\* word, return from FUTEX_WAIT to where they try again.
Wake(t, woken, to) ==
  /\ pc' = [u \in Threads |-> IF u = t THEN ret[t]
                              ELSE IF u \in woken THEN to ELSE pc[u]]
  /\ Return(t)

\* What FUTEX_WAKE 1 may wake of a set of sleepers.
OneOf(sleepers) == IF sleepers = {} THEN {{}} ELSE {{u} : u \in sleepers}

-----------------------------------------------------------------------------
\* The mutex.

Enter(t) ==
  /\ At(t, "outside") /\ left[t] > 0
  /\ To(t, "lock")
  /\ UNCHANGED <<state, sequence, ret, snapshot, client>>

\* Mutant: a load and a store in place of the compare-and-exchange.
LockExchange_Blind(t) ==
  /\ At(t, "lock")
  /\ state' = 1
  /\ To(t, "critical")
  /\ UNCHANGED <<sequence, ret, snapshot, client>>

\* The compare-and-exchange at the head of the loop of pthread_mutex_lock.
LockExchange(t) ==
  /\ At(t, "lock")
  /\ IF state = 0 THEN state' = 1 /\ To(t, "critical")
     ELSE UNCHANGED state /\ To(t, "lock_wait")
  /\ UNCHANGED <<sequence, ret, snapshot, client>>

\* Mutant: the wait does not compare the word with 1 before it sleeps.
LockWait_Blind(t) ==
  /\ At(t, "lock_wait")
  /\ To(t, "lock_asleep")
  /\ UNCHANGED <<state, sequence, ret, snapshot, client>>

\* Mutant: EAGAIN repeats the wait instead of the exchange.
LockWait_Again(t) ==
  /\ At(t, "lock_wait")
  /\ To(t, IF state = 1 THEN "lock_asleep" ELSE "lock_wait")
  /\ UNCHANGED <<state, sequence, ret, snapshot, client>>

\* pthread_mutex_trylock, by a thread that comes back later when it fails: it
\* overtakes the threads that sleep or have just been woken.
TryLock(t) ==
  /\ At(t, "outside") /\ left[t] > 0
  /\ IF state = 0 THEN state' = 1 /\ To(t, "critical")
     ELSE UNCHANGED <<state, pc>>
  /\ UNCHANGED <<sequence, ret, snapshot, client>>

\* FUTEX_WAIT on the word while it is 1; EAGAIN tries again at once.
LockWait(t) ==
  /\ At(t, "lock_wait")
  /\ To(t, IF state = 1 THEN "lock_asleep" ELSE "lock")
  /\ UNCHANGED <<state, sequence, ret, snapshot, client>>

\* ETIMEDOUT: mettle_mutex_wait returns without the mutex, the client comes
\* back later.
Timeout(t) ==
  /\ t \in Timed /\ At(t, "lock_asleep")
  /\ To(t, "outside")
  /\ UNCHANGED <<state, sequence, ret, snapshot, client>>

\* EINTR: both loops wait again, the one of the condition with its old
\* snapshot.
Interrupt(t) ==
  /\ \/ At(t, "lock_asleep") /\ To(t, "lock")
     \/ At(t, "cond_asleep") /\ To(t, "cond_wait")
  /\ UNCHANGED <<state, sequence, ret, snapshot, client>>

\* The exchange of pthread_mutex_unlock.  A mutex found unlocked is an error,
\* returned without a wake: pthread_cond_wait returns it to its caller.
Unlock(t) ==
  /\ At(t, "unlock")
  /\ state' = 0
  /\ To(t, CASE state = 1                            -> "unlock_wake"
             [] state = 0 /\ ret[t] = "cond_wait"    -> "critical"
             [] state = 0 /\ ret[t] # "cond_wait"    -> ret[t])
  /\ UNCHANGED <<sequence, ret, snapshot, client>>

UnlockWake(t) ==
  /\ At(t, "unlock_wake")
  /\ \E woken \in OneOf({u \in Threads : At(u, "lock_asleep")}) :
       Wake(t, woken, "lock")
  /\ UNCHANGED <<state, sequence, snapshot, client>>

-----------------------------------------------------------------------------
\* The condition variable.

\* pthread_cond_wait loads the sequence while its caller holds the mutex.
CondEnter(t) ==
  /\ At(t, "critical") /\ t \in Consumers /\ items = 0
  /\ snapshot' = [snapshot EXCEPT ![t] = sequence]
  /\ To(t, "unlock")
  /\ ret' = [ret EXCEPT ![t] = "cond_wait"]
  /\ UNCHANGED <<state, sequence, client>>

\* FUTEX_WAIT on the sequence; EAGAIN when it has moved on.
CondWait(t) ==
  /\ At(t, "cond_wait")
  /\ To(t, IF sequence = snapshot[t] THEN "cond_asleep" ELSE "lock")
  /\ UNCHANGED <<state, sequence, ret, snapshot, client>>

CondAdd(t) ==
  /\ At(t, "cond_add")
  /\ sequence' = (sequence + 1) % SequenceWords
  /\ To(t, "cond_wake")
  /\ UNCHANGED <<state, ret, snapshot, client>>

\* Mutant: a broadcast wakes one waiter.
CondWake_One(t) ==
  /\ At(t, "cond_wake")
  /\ \E woken \in OneOf({u \in Threads : At(u, "cond_asleep")}) :
       Wake(t, woken, "lock")
  /\ UNCHANGED <<state, sequence, snapshot, client>>

\* pthread_cond_signal wakes one waiter, pthread_cond_broadcast all.
CondWake(t) ==
  LET sleepers == {u \in Threads : At(u, "cond_asleep")}
  IN  /\ At(t, "cond_wake")
      /\ \E woken \in IF announce = "signal" THEN OneOf(sleepers)
                      ELSE {sleepers} : Wake(t, woken, "lock")
      /\ UNCHANGED <<state, sequence, snapshot, client>>

-----------------------------------------------------------------------------
\* The client.  A producer announces its item before or after it unlocks; a
\* broadcast announces a gate that stays open.

Produce(t) ==
  /\ At(t, "critical") /\ t \in Producers
  /\ items' = items + 1
  /\ left' = [left EXCEPT ![t] = @ - 1]
  /\ \/ To(t, "unlock") /\ ret' = [ret EXCEPT ![t] = "cond_add"]
     \/ To(t, "cond_add") /\ ret' = [ret EXCEPT ![t] = "unlock"]
  /\ UNCHANGED <<state, sequence, snapshot, announce>>

Consume(t) ==
  /\ At(t, "critical") /\ t \in Consumers /\ items > 0
  /\ items' = IF announce = "signal" THEN items - 1 ELSE items
  /\ left' = [left EXCEPT ![t] = @ - 1]
  /\ To(t, "unlock")
  /\ UNCHANGED <<state, sequence, ret, snapshot, announce>>

-----------------------------------------------------------------------------
Step(t) ==
  \/ Enter(t) \/ TryLock(t) \/ LockExchange(t) \/ LockWait(t) \/ Unlock(t) \/ UnlockWake(t)
  \/ CondEnter(t) \/ CondWait(t) \/ CondAdd(t) \/ CondWake(t)
  \/ Produce(t) \/ Consume(t)

Finished == \A t \in Threads : At(t, "outside") /\ left[t] = 0

Next == \/ \E t \in Threads : Step(t) \/ Timeout(t) \/ Interrupt(t)
        \/ Finished /\ UNCHANGED vars

\* The scheduler runs every thread that is not asleep; nothing is assumed of
\* timeouts and interrupts.
Spec == Init /\ [][Next]_vars /\ \A t \in Threads : WF_vars(Step(t))

-----------------------------------------------------------------------------
\* A producer that announces inside the mutex still holds it.
Holders ==
  {t \in Threads : \/ pc[t] \in {"critical", "unlock"}
                   \/ pc[t] \in {"cond_add", "cond_wake"} /\ ret[t] = "unlock"}

\* pthread_mutex_lock and mettle_mutex_wait let one thread in at a time, and
\* the word is 1 exactly while one is.
MutualExclusion ==
  /\ \A t, u \in Holders : t = u
  /\ state = 1 <=> Holders # {}

\* An unlock is never lost, although pthread_mutex_unlock wakes one thread only
\* and does so after it has released the word: if the mutex is free and
\* somebody sleeps on it, somebody else is about to wake one or to lock it.
NoUnlockLost ==
  state = 0 /\ (\E t \in Threads : At(t, "lock_asleep"))
    => \E t \in Threads : pc[t] \in {"unlock_wake", "lock", "lock_wait"}

\* The consumers that will sleep unless the sequence moves, or do sleep.
Waiting ==
  {t \in Consumers : \/ At(t, "cond_asleep")
                     \/ /\ At(t, "cond_wait") \/ ret[t] = "cond_wait"
                        /\ snapshot[t] = sequence}

\* The consumers that will look at the items again by themselves.
Looking ==
  {t \in Consumers \ Waiting :
     \/ pc[t] \in {"lock", "lock_wait", "lock_asleep", "critical", "cond_wait"}
     \/ ret[t] = "cond_wait"
     \/ At(t, "outside") /\ left[t] > 0}

\* The producers whose announcement is still to come.
Announcing ==
  {t \in Producers : pc[t] \in {"cond_add", "cond_wake"} \/ ret[t] = "cond_add"}

\* No signal is lost: while a consumer waits, every item in the buffer has a
\* consumer that is up or an announcement under way, whatever the order of the
\* loads, wakes, barging consumers and interrupts.
NoSignalLost ==
  Waiting # {} =>
    IF announce = "signal"
    THEN items <= Cardinality(Announcing) + Cardinality(Looking)
    ELSE items > 0 => Announcing # {}

\* Every producer and consumer completes its rounds: nobody sleeps for ever.
Completes == <>Finished
=============================================================================
