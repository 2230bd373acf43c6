-------------------------- MODULE RuntimeThread_proofs --------------------------
(***************************************************************************)
(* Handles of the freestanding runtime's threads, for any number of        *)
(* threads and handles: a child keeps its memory, a wait ends after its    *)
(* child and a join hands out what the child left, and only what was       *)
(* detached while it ran stays allocated.                                  *)
(***************************************************************************)
EXTENDS RuntimeThread, TLAPS

TypeInv ==
  /\ owned \in [Handles -> SUBSET Pieces]
  /\ tid \in [Handles -> {0, 1}]
  /\ detached \in [Handles -> BOOLEAN]
  /\ result \in [Handles -> {0, 1}]
  /\ child \in [Handles -> {"none", "running", "exiting", "cleared", "gone"}]
  /\ ending \in [Handles -> {"none", "return", "exit"}]
  /\ owner \in [Handles -> Threads \cup {Nobody}]
  /\ pc \in [Threads -> {"idle", "load", "futex_wait", "asleep", "collect", "close"}]
  /\ using \in [Threads -> Handles \cup {Nobody}]
  /\ answer \in [Threads -> {"none", "handle", "no_handle", "object_0", "timeout",
                             "result", "no_result"}]

\* The word tells whether the child still uses its stack, and the result is there
\* exactly when the child ended by returning.
ChildInv ==
  \A h \in Handles :
    /\ child[h] = "none" => tid[h] = 0 /\ owned[h] = {} /\ owner[h] = Nobody
    /\ child[h] \in {"running", "exiting"} => tid[h] = 1 /\ owned[h] = Pieces
    /\ child[h] \in {"cleared", "gone"} => tid[h] = 0
    /\ result[h] = 1 <=> ending[h] = "return"
    /\ child[h] \in {"none", "running"} => ending[h] = "none"

\* A handle has one owner, who alone calls for it and finds it allocated.
OwnerInv ==
  /\ \A h \in Handles : owner[h] # Nobody => owned[h] = Pieces
  /\ \A t \in Threads : pc[t] # "idle" => using[t] \in Handles /\ owner[using[t]] = t

\* A join that goes on to the result has a child that has ended.
CollectInv ==
  \A t \in Threads : pc[t] = "collect" => child[using[t]] \in {"cleared", "gone"}

IInv == TypeInv /\ ChildInv /\ OwnerInv /\ CollectInv /\ OnlyDetachedLeaks

USE RuntimeThreadAssumption DEF handle, call, Answer

(* A create that fails gives back what it had obtained, whichever step failed.            *)
LEMMA FailedCreateFrees ==
  ASSUME NEW failing \in Pieces \cup {"clone"}
  PROVE  Obtained(failing) \ Released(failing) = {}
  BY DEF Obtained, Released, Pieces

(* mettle_thread_create, whether it fails or not.                                         *)
LEMMA CreateStep ==
  ASSUME IInv, NEW t \in Threads, NEW h \in Handles,
         Create(t, h) \/ \E failing \in Pieces \cup {"clone"} : CreateFails(t, h, failing)
  PROVE  IInv'
<1> USE DEF IInv, TypeInv
<1>1. CASE Create(t, h)
  <2>1. TypeInv'
    BY <1>1 DEF Create
  <2>2. ChildInv'
    BY <1>1 DEF Create, ChildInv
  <2>3. OwnerInv'
    BY <1>1 DEF Create, ChildInv, OwnerInv
  <2>4. CollectInv'
    <3>1. \A u \in Threads : pc[u] = "collect" => using[u] # h
      BY <1>1 DEF Create, ChildInv, OwnerInv
    <3> QED
      BY <1>1, <3>1 DEF Create, CollectInv, OwnerInv
  <2>5. OnlyDetachedLeaks'
    BY <1>1 DEF Create, OnlyDetachedLeaks
  <2> QED
    BY <2>1, <2>2, <2>3, <2>4, <2>5
<1>2. CASE \E failing \in Pieces \cup {"clone"} : CreateFails(t, h, failing)
  <2>1. /\ owned' = owned /\ UNCHANGED <<tid, detached, result, child, ending, owner, pc, using>>
        /\ answer' = [answer EXCEPT ![t] = "no_handle"]
    <3> PICK failing \in Pieces \cup {"clone"} : CreateFails(t, h, failing)
      BY <1>2
    <3>1. owned' = [owned EXCEPT ![h] = {}] /\ owned[h] = {}
      BY FailedCreateFrees DEF CreateFails
    <3> QED
      BY <3>1 DEF CreateFails
  <2> QED
    BY <2>1 DEF ChildInv, OwnerInv, CollectInv, OnlyDetachedLeaks
<1> QED
  BY <1>1, <1>2

(* The child returns or exits, the kernel clears the word and wakes a waiter.             *)
LEMMA ChildStep ==
  ASSUME IInv, NEW h \in Handles, Child(h)
  PROVE  IInv'
<1> USE DEF IInv, TypeInv
<1>1. CASE StoreResult(h) \/ pthread_exit(h)
  <2>1. /\ child[h] = "running" /\ child' = [child EXCEPT ![h] = "exiting"]
        /\ UNCHANGED <<owned, tid, detached, owner, pc, using, answer>>
        /\ \/ /\ result' = [result EXCEPT ![h] = 1]
              /\ ending' = [ending EXCEPT ![h] = "return"]
           \/ result' = result /\ ending' = [ending EXCEPT ![h] = "exit"]
    BY <1>1 DEF StoreResult, pthread_exit
  <2>2. TypeInv' /\ OwnerInv' /\ CollectInv' /\ OnlyDetachedLeaks'
    BY <2>1 DEF OwnerInv, CollectInv, OnlyDetachedLeaks
  <2>3. result[h] = 0 /\ ending[h] # "return"
    BY <2>1 DEF ChildInv
  <2>4. ChildInv'
    BY <2>1, <2>3 DEF ChildInv
  <2> QED
    BY <2>2, <2>4
<1>2. CASE ClearTid(h)
  BY <1>2 DEF ClearTid, ChildInv, OwnerInv, CollectInv, OnlyDetachedLeaks
<1>3. CASE WakeOne(h)
  <2>1. /\ child[h] = "cleared" /\ child' = [child EXCEPT ![h] = "gone"]
        /\ UNCHANGED <<owned, tid, detached, result, ending, owner, using, answer>>
        /\ pc' \in [Threads -> {"idle", "load", "futex_wait", "asleep", "collect", "close"}]
        /\ \A t \in Threads : pc'[t] = pc[t] \/ (pc[t] = "asleep" /\ pc'[t] = "load")
    BY <1>3 DEF WakeOne, Asleep
  <2>2. ChildInv' /\ OnlyDetachedLeaks'
    BY <2>1 DEF ChildInv, OnlyDetachedLeaks
  <2>3. OwnerInv' /\ CollectInv'
    BY <2>1 DEF OwnerInv, CollectInv
  <2> QED
    BY <2>1, <2>2, <2>3
<1> QED
  BY <1>1, <1>2, <1>3 DEF Child

(* mettle_thread_wait and pthread_join up to the close: the handle is only read.          *)
LEMMA WaitStep ==
  ASSUME IInv, NEW t \in Threads,
         \/ LoadTid(t) \/ FutexWait(t) \/ Collect(t) \/ Timeout(t) \/ Interrupt(t)
         \/ \E h \in Handles : StartClose(t, h)
         \/ \E h \in Handles, k \in {"wait", "timed", "join"} : Wait(t, h, k)
  PROVE  IInv'
<1> USE DEF IInv, TypeInv
<1>1. UNCHANGED handle
  BY DEF LoadTid, FutexWait, Collect, Timeout, Interrupt, StartClose, Wait
<1>2. ChildInv' /\ OnlyDetachedLeaks'
  BY <1>1 DEF ChildInv, OnlyDetachedLeaks
<1>3. CASE LoadTid(t)
  <2>1. using[t] \in Handles /\ owner[using[t]] = t
    BY <1>3 DEF LoadTid, OwnerInv
  <2>2. CASE tid[using[t]] # 0
    BY <1>1, <1>2, <1>3, <2>1, <2>2 DEF LoadTid, OwnerInv, CollectInv
  <2>3. CASE tid[using[t]] = 0
    <3>1. child[using[t]] \in {"cleared", "gone"}
      BY <2>1, <2>3 DEF ChildInv
    <3> QED
      BY <1>1, <1>2, <1>3, <2>1, <2>3, <3>1 DEF LoadTid, WaitEnds, OwnerInv, CollectInv
  <2> QED
    BY <2>2, <2>3
<1>4. CASE FutexWait(t) \/ Interrupt(t)
  BY <1>1, <1>2, <1>4 DEF FutexWait, Interrupt, OwnerInv, CollectInv
<1>5. CASE Timeout(t)
  BY <1>1, <1>2, <1>5 DEF Timeout, WaitEnds, OwnerInv, CollectInv
<1>6. CASE Collect(t)
  BY <1>1, <1>2, <1>6 DEF Collect, OwnerInv, CollectInv
<1>7. CASE \E h \in Handles : StartClose(t, h)
  BY <1>1, <1>2, <1>7 DEF StartClose, OwnerInv, CollectInv
<1>8. CASE \E h \in Handles, k \in {"wait", "timed", "join"} : Wait(t, h, k)
  BY <1>1, <1>2, <1>8 DEF Wait, OwnerInv, CollectInv
<1> QED
  BY <1>3, <1>4, <1>5, <1>6, <1>7, <1>8

(* mettle_thread_close: the word decides whether the memory is freed or left.             *)
LEMMA CloseStep ==
  ASSUME IInv, NEW t \in Threads, Close(t)
  PROVE  IInv'
<1> USE DEF IInv, TypeInv
<1> DEFINE h == using[t]
<1>1. h \in Handles /\ owner[h] = t /\ owned[h] = Pieces /\ t # Nobody
  BY DEF Close, OwnerInv
<1>2. /\ owner' = [owner EXCEPT ![h] = Nobody]
      /\ pc' = [pc EXCEPT ![t] = "idle"] /\ using' = [using EXCEPT ![t] = Nobody]
      /\ UNCHANGED <<tid, result, child, ending, answer>>
      /\ \/ tid[h] = 1 /\ detached' = [detached EXCEPT ![h] = TRUE] /\ owned' = owned
         \/ tid[h] = 0 /\ owned' = [owned EXCEPT ![h] = {}] /\ detached' = detached
  BY <1>1 DEF Close
<1> HIDE DEF h
<1>3. TypeInv'
  BY <1>1, <1>2
<1>4. ChildInv'
  BY <1>1, <1>2 DEF ChildInv
<1>5. OwnerInv'
  <2>1. \A u \in Threads \ {t} : pc[u] # "idle" => using[u] # h
    BY <1>1 DEF OwnerInv
  <2> QED
    BY <1>1, <1>2, <2>1 DEF OwnerInv
<1>6. CollectInv'
  BY <1>1, <1>2 DEF CollectInv
<1>7. OnlyDetachedLeaks'
  BY <1>1, <1>2 DEF OnlyDetachedLeaks
<1> QED
  BY <1>3, <1>4, <1>5, <1>6, <1>7

(* The invariant holds in every state, however creations, exits and closes fall together. *)
THEOREM HandleInvariant == Spec => []IInv
<1>1. Init => IInv
  BY DEF Init, IInv, TypeInv, ChildInv, OwnerInv, CollectInv, OnlyDetachedLeaks
<1>2. IInv /\ [Next]_vars => IInv'
  <2> SUFFICES ASSUME IInv, [Next]_vars PROVE IInv'
    OBVIOUS
  <2>1. CASE UNCHANGED vars
    BY <2>1 DEF vars, IInv, TypeInv, ChildInv, OwnerInv, CollectInv, OnlyDetachedLeaks
  <2>2. CASE Next
    BY <2>2, CreateStep, ChildStep, WaitStep, CloseStep DEF Next, InCall
  <2> QED
    BY <2>1, <2>2
<1> QED
  BY <1>1, <1>2, PTL DEF Spec

(* The stack and the block of a child outlive it, whoever closes the handle and when      *)
(* (mettle_thread_close against mt_thread_child).                                          *)
THEOREM ChildrenKeepMemory == Spec => []ChildKeepsItsMemory
<1>1. IInv => ChildKeepsItsMemory
  BY DEF IInv, ChildInv, ChildKeepsItsMemory
<1> QED
  BY <1>1, HandleInvariant, PTL

(* A wait that does not time out, and a join, end after the child has left its stack, and *)
(* a join hands out the result of a child that returned and 0 of one that exited          *)
(* (mettle_thread_wait, pthread_join, mt_thread_child, pthread_exit).                     *)
THEOREM JoinsSeeResults == Spec => JoinSeesResult
<1> DEFINE Sees ==
      \A t \in Threads :
        LET h == using[t]
        IN  /\ pc[t] = "load" /\ pc'[t] \in {"idle", "collect"} =>
                 child[h] \in {"cleared", "gone"}
            /\ pc[t] = "collect" /\ pc'[t] = "close" =>
                 answer'[t] = IF ending[h] = "return" THEN "result" ELSE "no_result"
<1>1. IInv /\ [Next]_vars => [Sees]_vars
  <2> SUFFICES ASSUME IInv, Next, NEW t \in Threads, pc'[t] # pc[t] \/ pc[t] = "idle"
               PROVE  /\ pc[t] = "load" /\ pc'[t] \in {"idle", "collect"} =>
                           child[using[t]] \in {"cleared", "gone"}
                      /\ pc[t] = "collect" /\ pc'[t] = "close" =>
                           answer'[t] = IF ending[using[t]] = "return" THEN "result"
                                        ELSE "no_result"
    OBVIOUS
  <2>1. ASSUME pc[t] = "load", pc'[t] \in {"idle", "collect"}
        PROVE  child[using[t]] \in {"cleared", "gone"}
    <3>1. LoadTid(t)
      BY <2>1 DEF Next, InCall, LoadTid, FutexWait, Collect, Close, Timeout, Interrupt, WaitEnds,
                  Child, StoreResult, pthread_exit, ClearTid, WakeOne, Asleep, Create, CreateFails,
                  Wait, StartClose, IInv, TypeInv
    <3>2. using[t] \in Handles /\ tid[using[t]] = 0
      BY <2>1, <3>1 DEF LoadTid, IInv, TypeInv, OwnerInv
    <3>3. owner[using[t]] = t
      BY <2>1 DEF IInv, OwnerInv
    <3> QED
      BY <3>2, <3>3 DEF IInv, TypeInv, ChildInv
  <2>2. ASSUME pc[t] = "collect", pc'[t] = "close"
        PROVE  answer'[t] = IF ending[using[t]] = "return" THEN "result" ELSE "no_result"
    <3>1. Collect(t)
      BY <2>2 DEF Next, InCall, LoadTid, FutexWait, Collect, Close, Timeout, Interrupt, WaitEnds,
                  Child, StoreResult, pthread_exit, ClearTid, WakeOne, Asleep, Create, CreateFails,
                  Wait, StartClose, IInv, TypeInv
    <3>2. using[t] \in Handles
      BY <2>2 DEF IInv, OwnerInv
    <3> QED
      BY <3>1, <3>2 DEF Collect, IInv, TypeInv, ChildInv
  <2> QED
    BY <2>1, <2>2
<1> QED
  BY <1>1, HandleInvariant, PTL DEF Spec, JoinSeesResult

(* Memory without an owner belongs to a handle closed while its thread ran                *)
(* (mettle_thread_create's failures, mettle_thread_close).                                *)
THEOREM LeaksAreDetached == Spec => []OnlyDetachedLeaks
<1>1. IInv => OnlyDetachedLeaks
  BY DEF IInv
<1> QED
  BY <1>1, HandleInvariant, PTL
================================================================================
