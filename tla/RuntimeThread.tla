---------------------------- MODULE RuntimeThread ----------------------------
(***************************************************************************)
(* Threads of the freestanding runtime on Linux: mettle_thread_create,     *)
(* _wait and _close, and pthread_create, _join, _detach and _exit on top   *)
(* of them.                                                                *)
(* A handle is a block that holds the futex word tid, which the kernel     *)
(* sets in clone and clears when the child is gone, and the child's result *)
(* and stack.  The client follows the contract of handles: the thread that *)
(* created one uses it, and does not use it after closing it.              *)
(***************************************************************************)
EXTENDS Naturals, FiniteSets

CONSTANTS
  Threads,    \* the threads that create, wait for and close others
  Handles,    \* bound: the handles there are to create, one child each
  Nobody      \* no thread, no handle

ASSUME RuntimeThreadAssumption ==
  /\ IsFiniteSet(Threads) /\ IsFiniteSet(Handles)
  /\ Nobody \notin Threads \union Handles

\* What a create call allocates, and a close gives back.
Pieces == {"thread", "stack", "tls"}

VARIABLES
  owned,      \* the pieces of each handle that are allocated
  tid,        \* MtThread.tid: 1 from clone to the end of the child, else 0
  detached,   \* MtThread.detached
  result,     \* MtThread.result: 0, or 1 once the child has stored it
  child,      \* where the child of each handle is
  ending,     \* history: how it ended, by "return" or by "exit"
  owner,      \* the thread that holds the handle
  pc,         \* where each thread is
  using,      \* the handle its call is about
  kind,       \* the call: "wait", "timed" or "join"
  answer      \* what its last call returned

vars == <<owned, tid, detached, result, child, ending, owner, pc, using, kind, answer>>
handle == <<owned, tid, detached, result, child, ending, owner>>
call == <<pc, using, kind>>

Init ==
  /\ owned = [h \in Handles |-> {}]
  /\ tid = [h \in Handles |-> 0]
  /\ detached = [h \in Handles |-> FALSE]
  /\ result = [h \in Handles |-> 0]
  /\ child = [h \in Handles |-> "none"]
  /\ ending = [h \in Handles |-> "none"]
  /\ owner = [h \in Handles |-> Nobody]
  /\ pc = [t \in Threads |-> "idle"]
  /\ using = [t \in Threads |-> Nobody]
  /\ kind = [t \in Threads |-> "wait"]
  /\ answer = [t \in Threads |-> "none"]

Answer(t, a) == answer' = [answer EXCEPT ![t] = a]

-----------------------------------------------------------------------------
\* mettle_thread_create and mt_pthread_create.

\* The pieces in hand when each step fails, and the ones its cleanup frees.
Obtained(failing) ==
  CASE failing = "thread" -> {"stack"}
    [] failing = "stack"  -> {"thread"}
    [] failing = "tls"    -> {"thread", "stack"}
    [] failing = "clone"  -> Pieces

\* Mutant: a failed clone leaves the thread-local block behind.
Released_NoTls(failing) == {"thread", "stack"}

Released(failing) ==
  IF failing \in {"thread", "stack"} THEN {"thread", "stack"} ELSE Pieces

CreateFails(t, h, failing) ==
  /\ pc[t] = "idle" /\ child[h] = "none" /\ owned[h] = {}
  /\ owned' = [owned EXCEPT ![h] = Obtained(failing) \ Released(failing)]
  /\ Answer(t, "no_handle")
  /\ UNCHANGED <<tid, detached, result, child, ending, owner, call>>

\* Mutant: CLONE_CHILD_SETTID in place of CLONE_PARENT_SETTID, so that the
\* word is still 0 when the handle is returned.
Create_ChildSets(t, h) ==
  /\ pc[t] = "idle" /\ child[h] = "none" /\ owned[h] = {}
  /\ owned' = [owned EXCEPT ![h] = Pieces]
  /\ child' = [child EXCEPT ![h] = "running"]
  /\ owner' = [owner EXCEPT ![h] = t]
  /\ Answer(t, "handle")
  /\ UNCHANGED <<tid, detached, result, ending, call>>

\* clone with CLONE_PARENT_SETTID: the kernel stores tid before the child
\* runs and before the call returns.
Create(t, h) ==
  /\ pc[t] = "idle" /\ child[h] = "none" /\ owned[h] = {}
  /\ owned' = [owned EXCEPT ![h] = Pieces]
  /\ tid' = [tid EXCEPT ![h] = 1]
  /\ child' = [child EXCEPT ![h] = "running"]
  /\ owner' = [owner EXCEPT ![h] = t]
  /\ Answer(t, "handle")
  /\ UNCHANGED <<detached, result, ending, call>>

-----------------------------------------------------------------------------
\* The child: mt_thread_child, then the kernel at the end of the thread.

\* The function of the thread returns.
StoreResult(h) ==
  /\ child[h] = "running"
  /\ child' = [child EXCEPT ![h] = "exiting"]
  /\ result' = [result EXCEPT ![h] = 1]
  /\ ending' = [ending EXCEPT ![h] = "return"]
  /\ UNCHANGED <<owned, tid, detached, owner, call, answer>>

\* The value given to pthread_exit is dropped.
pthread_exit(h) ==
  /\ child[h] = "running"
  /\ child' = [child EXCEPT ![h] = "exiting"]
  /\ ending' = [ending EXCEPT ![h] = "exit"]
  /\ UNCHANGED <<owned, tid, detached, result, owner, call, answer>>

\* CLONE_CHILD_CLEARTID: once the child no longer uses its stack, the word is
\* cleared, and then one waiter is woken.
ClearTid(h) ==
  /\ child[h] = "exiting"
  /\ child' = [child EXCEPT ![h] = "cleared"]
  /\ tid' = [tid EXCEPT ![h] = 0]
  /\ UNCHANGED <<owned, detached, result, ending, owner, call, answer>>

Asleep(h) == {t \in Threads : pc[t] = "asleep" /\ using[t] = h}

WakeOne(h) ==
  /\ child[h] = "cleared"
  /\ child' = [child EXCEPT ![h] = "gone"]
  /\ IF Asleep(h) = {} THEN UNCHANGED pc
     ELSE \E t \in Asleep(h) : pc' = [pc EXCEPT ![t] = "load"]
  /\ UNCHANGED <<owned, tid, detached, result, ending, owner, using, kind, answer>>

-----------------------------------------------------------------------------
\* mettle_thread_wait, and pthread_join, which waits and then closes.

Wait(t, h, k) ==
  /\ pc[t] = "idle" /\ owner[h] = t
  /\ pc' = [pc EXCEPT ![t] = "load"]
  /\ using' = [using EXCEPT ![t] = h]
  /\ kind' = [kind EXCEPT ![t] = k]
  /\ UNCHANGED <<handle, answer>>

\* The end of a wait: mettle_thread_wait returns, pthread_join goes on.
WaitEnds(t, a) ==
  IF kind[t] = "join"
  THEN /\ pc' = [pc EXCEPT ![t] = "collect"] /\ UNCHANGED <<using, answer>>
  ELSE /\ pc' = [pc EXCEPT ![t] = "idle"]
       /\ using' = [using EXCEPT ![t] = Nobody]
       /\ Answer(t, a)

\* The load of tid at the head of the loop.
LoadTid(t) ==
  /\ pc[t] = "load"
  /\ IF tid[using[t]] = 0 THEN WaitEnds(t, "object_0")
     ELSE /\ pc' = [pc EXCEPT ![t] = "futex_wait"]
          /\ UNCHANGED <<using, answer>>
  /\ UNCHANGED <<handle, kind>>

\* Mutant: the kernel is not asked to compare the word again.
FutexWait_Blind(t) ==
  /\ pc[t] = "futex_wait"
  /\ pc' = [pc EXCEPT ![t] = "asleep"]
  /\ UNCHANGED <<handle, using, kind, answer>>

\* FUTEX_WAIT for the tid that was loaded; EAGAIN loads again.
FutexWait(t) ==
  /\ pc[t] = "futex_wait"
  /\ pc' = [pc EXCEPT ![t] = IF tid[using[t]] = 0 THEN "load" ELSE "asleep"]
  /\ UNCHANGED <<handle, using, kind, answer>>

\* ETIMEDOUT ends a timed wait.
Timeout(t) ==
  /\ pc[t] = "asleep" /\ kind[t] = "timed"
  /\ WaitEnds(t, "timeout")
  /\ UNCHANGED <<handle, kind>>

\* EINTR: the loop goes round, with the whole timeout again.
Interrupt(t) ==
  /\ pc[t] = "asleep"
  /\ pc' = [pc EXCEPT ![t] = "load"]
  /\ UNCHANGED <<handle, using, kind, answer>>

\* pthread_join reads the result and closes the handle.
Collect(t) ==
  /\ pc[t] = "collect"
  /\ pc' = [pc EXCEPT ![t] = "close"]
  /\ Answer(t, IF result[using[t]] = 1 THEN "result" ELSE "no_result")
  /\ UNCHANGED <<handle, using, kind>>

-----------------------------------------------------------------------------
\* mettle_thread_close, pthread_detach and thread_detach.

StartClose(t, h) ==
  /\ pc[t] = "idle" /\ owner[h] = t
  /\ pc' = [pc EXCEPT ![t] = "close"]
  /\ using' = [using EXCEPT ![t] = h]
  /\ Answer(t, "none")
  /\ UNCHANGED <<handle, kind>>

\* Mutant: a close frees the handle of a running thread too.
Close_Always(t) ==
  /\ pc[t] = "close"
  /\ owned' = [owned EXCEPT ![using[t]] = {}]
  /\ detached' = detached
  /\ owner' = [owner EXCEPT ![using[t]] = Nobody]
  /\ pc' = [pc EXCEPT ![t] = "idle"]
  /\ using' = [using EXCEPT ![t] = Nobody]
  /\ UNCHANGED <<tid, result, child, ending, kind, answer>>

\* The handle of a running thread is marked, and nobody frees it later.
Close(t) ==
  LET h == using[t]
  IN  /\ pc[t] = "close"
      /\ IF tid[h] # 0
         THEN /\ detached' = [detached EXCEPT ![h] = TRUE] /\ UNCHANGED owned
         ELSE /\ owned' = [owned EXCEPT ![h] = {}] /\ UNCHANGED detached
      /\ owner' = [owner EXCEPT ![h] = Nobody]
      /\ pc' = [pc EXCEPT ![t] = "idle"]
      /\ using' = [using EXCEPT ![t] = Nobody]
      /\ UNCHANGED <<tid, result, child, ending, kind, answer>>

-----------------------------------------------------------------------------
InCall(t) == LoadTid(t) \/ FutexWait(t) \/ Collect(t) \/ Close(t)
Child(h) == StoreResult(h) \/ pthread_exit(h) \/ ClearTid(h) \/ WakeOne(h)

Next ==
  \/ \E t \in Threads : InCall(t) \/ Timeout(t) \/ Interrupt(t)
  \/ \E h \in Handles : Child(h)
  \/ \E t \in Threads, h \in Handles :
       \/ Create(t, h)
       \/ \E failing \in Pieces \union {"clone"} : CreateFails(t, h, failing)
       \/ \E k \in {"wait", "timed", "join"} : Wait(t, h, k)
       \/ StartClose(t, h)

\* Threads run, and a child ends by itself; nothing is assumed of timeouts.
Spec == /\ Init /\ [][Next]_vars
        /\ \A t \in Threads : WF_vars(InCall(t))
        /\ \A h \in Handles : WF_vars(Child(h))

-----------------------------------------------------------------------------
\* The stack, the thread-local block and the handle of a child stay allocated
\* as long as the child may touch them, whoever closes the handle and when.
ChildKeepsItsMemory ==
  \A h \in Handles : child[h] \in {"running", "exiting"} => owned[h] = Pieces

\* A wait that finds the thread ended, and the wait inside a join, return only
\* after the child has left its stack.  What pthread_join hands out is the
\* result when the thread's function returned, and 0 when the thread called
\* pthread_exit.
JoinSeesResult ==
  [][\A t \in Threads :
       LET h == using[t]
       IN  /\ pc[t] = "load" /\ pc'[t] \in {"idle", "collect"} =>
                child[h] \in {"cleared", "gone"}
           /\ pc[t] = "collect" /\ pc'[t] = "close" =>
                answer'[t] = IF ending[h] = "return" THEN "result" ELSE "no_result"]_vars

\* A failed create leaves nothing allocated, and a handle of a finished thread
\* is given back whole: memory without an owner belongs to a handle that was
\* closed while its thread was running.
OnlyDetachedLeaks ==
  \A h \in Handles :
    owner[h] = Nobody /\ owned[h] # {} => detached[h] /\ owned[h] = Pieces

\* An infinite wait and a join return once the child has ended, although the
\* kernel clears the word and wakes in two steps.
WaitReturns ==
  \A t \in Threads : pc[t] \in {"load", "futex_wait", "asleep"} ~> pc[t] = "idle"
=============================================================================
