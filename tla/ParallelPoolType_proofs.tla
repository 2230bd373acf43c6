------------------------ MODULE ParallelPoolType_proofs ------------------------
(***************************************************************************)
(* Type correctness of the worker pool, for every set of callers, thread   *)
(* count, set of requests and width of the generation word.  The types     *)
(* alone are not inductive: "parked" stays a natural number because it     *)
(* counts the workers inside mtp_park, and the number of a chunk because   *)
(* a published count is part of "dispatched".                              *)
(***************************************************************************)
EXTENDS ParallelPoolInv, ParallelPlan_proofs, FiniteSetTheorems

\* Callers are not worker indices.
LEMMA Disjoint == Callers \cap Workers = {} /\ NoCtx \notin Callers
  BY ConstantsAssumption DEF Workers, NoCtx

\* What mtp_plan makes of a request that mtp_dispatch does not refuse.
LEMMA PlanOf ==
  ASSUME NEW r \in Requests, r.hi - r.lo > 0
  PROVE  /\ CountOf(r) \in Nat \ {0}
         /\ SpanOf(r) \in Nat \ {0}
         /\ r.lo \in Int /\ r.hi \in Int
<1>1. /\ r.lo \in Int /\ r.hi \in Int /\ r.min_chunk \in Int
      /\ r.hi - r.lo \in Nat \ {0} /\ Threads \in Nat \ {0}
  BY ConstantsAssumption
<1> QED
  BY <1>1, PlanBounds DEF CountOf, SpanOf

-----------------------------------------------------------------------------
(***************************************************************************)
(* Layer 1: types, and what they rest on.                                  *)
(***************************************************************************)
\* The parked workers can be counted.
LEMMA ParkedFinite == IsFiniteSet(ParkedWorkers)
<1>1. IsFiniteSet(Workers)
  BY ConstantsAssumption, FS_Interval DEF Workers
<1> QED
  BY <1>1, FS_Subset DEF ParkedWorkers

\* The zeroed g_pool and g_slots have their types.
LEMMA TypeInit == Init => TypeInv
<1> SUFFICES ASSUME Init PROVE TypeInv
  OBVIOUS
<1>1. SharedOK /\ LocalOK /\ HistoryOK
  BY ConstantsAssumption, Disjoint
  DEF Init, SharedOK, LocalOK, HistoryOK, PCs, Thread, Workers, Slots,
      NoRequest, NoArgs, NoCtx
<1>5. FlagsOK
  BY DEF Init, FlagsOK
<1>2. PCsOK /\ StaffOK /\ RequestOK
  BY ConstantsAssumption, Disjoint
  DEF Init, PCsOK, StaffOK, RequestOK, CallerPCs, WorkerPCs, OwnerPCs, Thread,
      Workers
<1>3. ParkedOK
  <2>1. ParkedWorkers = {}
    BY Disjoint DEF Init, ParkedWorkers, ParkedPCs, Thread
  <2> QED BY <2>1, FS_EmptySet DEF ParkedOK, Init
<1>4. CountOK
  BY DEF CountOK, Init, Thread
<1> QED
  BY <1>1, <1>2, <1>3, <1>4, <1>5 DEF TypeInv, TypeOK

\* The slot mtp_work is given is an entry of g_slots.
LEMMA SlotInArray ==
  ASSUME SharedOK, NEW t \in Thread
  PROVE  SlotOf(t) \in Slots
<1>1. t \notin Callers => t \in Workers
  BY DEF Thread
<1>2. Workers \subseteq Slots
  BY ConstantsAssumption DEF Workers, Slots
<1> QED
  BY <1>1, <1>2 DEF SharedOK, SlotOf

\* The index mtp_pool_spawn_once hands to the next thread.
LEMMA SpawnIndex ==
  ASSUME SharedOK, workers + 1 < Threads
  PROVE  workers \in Workers /\ workers \in Int /\ workers \notin Callers
  BY ConstantsAssumption DEF SharedOK, Workers, Slots

\* Every step keeps the types of the fields of g_pool and g_slots.
LEMMA SharedStep ==
  ASSUME TypeInv, [Next]_vars
  PROVE  SharedOK'
<1>1. SharedOK /\ LocalOK /\ PCsOK /\ RequestOK /\ StaffOK
  BY DEF TypeInv, TypeOK
<1>2. CASE UNCHANGED shared
  BY <1>1, <1>2 DEF SharedOK, shared
<1>3. ASSUME NEW c \in Callers, mtp_pool_acquire(c)
      PROVE  SharedOK'
  BY <1>1, <1>3 DEF SharedOK, mtp_pool_acquire
<1>4. ASSUME NEW c \in Callers, mtp_pool_spawn_once(c)
      PROVE  SharedOK'
  BY <1>1, <1>4, ConstantsAssumption
  DEF SharedOK, mtp_pool_spawn_once, Slots
<1>5. ASSUME NEW c \in Callers, CheckWorkers(c)
      PROVE  SharedOK'
  BY <1>1, <1>5 DEF SharedOK, CheckWorkers
<1>6. ASSUME NEW c \in Callers, SetJob(c)
      PROVE  SharedOK'
  <2>1. /\ request[c] \in Requests /\ request[c].hi - request[c].lo > 0
    BY <1>1, <1>6 DEF SetJob, Goto, RequestOK
  <2>2. /\ CountOf(request[c]) \in Nat /\ SpanOf(request[c]) \in Int
        /\ request[c].lo \in Int /\ request[c].hi \in Int
    BY <2>1, PlanOf
  <2> QED
    BY SMTT(30), Z3T(30), <1>1, <1>6, <2>2 DEF SharedOK, SetJob
<1>7. ASSUME NEW c \in Callers, StoreTicket(c)
      PROVE  SharedOK'
  <2>1. /\ request[c] \in Requests /\ request[c].hi - request[c].lo > 0
    BY <1>1, <1>7 DEF StoreTicket, Goto, RequestOK
  <2>2. CountOf(request[c]) \in Nat
    BY <2>1, PlanOf
  <2> QED
    BY <1>1, <1>7, <2>2 DEF SharedOK, StoreTicket
<1>8. ASSUME NEW c \in Callers, StoreGeneration(c)
      PROVE  SharedOK'
  <2>1. (generation + 1) % Generations \in 0..(Generations - 1)
    BY <1>1, ConstantsAssumption DEF SharedOK
  <2> QED
    BY <1>1, <1>8, <2>1 DEF SharedOK, StoreGeneration
<1>9. ASSUME NEW c \in Callers, StoreBudget(c)
      PROVE  SharedOK'
  BY <1>1, <1>9 DEF SharedOK, LocalOK, StoreBudget, Thread
<1>10. ASSUME NEW c \in Callers, mtp_pool_release(c)
      PROVE  SharedOK'
  BY <1>1, <1>10 DEF SharedOK, mtp_pool_release
<1>11. ASSUME NEW t \in Thread, ClaimAdd(t)
      PROVE  SharedOK'
  BY <1>1, <1>11 DEF SharedOK, ClaimAdd
<1>12. ASSUME NEW t \in Thread, CompleteChunk(t)
      PROVE  SharedOK'
  BY SMTT(30), Z3T(30), <1>1, <1>12, SlotInArray DEF SharedOK, CompleteChunk
<1>13. ASSUME NEW t \in Thread, WakeCas(t)
      PROVE  SharedOK'
  BY SMTT(30), Z3T(30), <1>1, <1>13 DEF SharedOK, LocalOK, WakeCas, Share, MTP_WAKE_FANOUT
<1>14. ASSUME NEW t \in Thread, mtp_os_wake(t)
      PROVE  SharedOK'
  BY SMTT(30), Z3T(30), <1>1, <1>14 DEF SharedOK, LocalOK, mtp_os_wake
<1>15. ASSUME NEW w \in Workers, Park(w)
      PROVE  SharedOK'
  BY <1>1, <1>15 DEF SharedOK, Park
<1>16. ASSUME NEW w \in Workers, WaitForSingleObject(w)
      PROVE  SharedOK'
  BY <1>1, <1>16 DEF SharedOK, WaitForSingleObject
<1>17. ASSUME NEW w \in Workers, Unpark(w)
      PROVE  SharedOK'
  <2>1. parked # 0
    <3>1. w \in ParkedWorkers
      BY <1>17 DEF Unpark, Goto, ParkedWorkers, ParkedPCs
    <3>2. IsFiniteSet(ParkedWorkers)
      BY ParkedFinite
    <3> QED
      BY <3>1, <3>2, FS_EmptySet DEF TypeInv, ParkedOK
  <2> QED
    BY <1>1, <1>17, <2>1 DEF SharedOK, Unpark
<1> QED
  BY <1>2, <1>3, <1>4, <1>5, <1>6, <1>7, <1>8, <1>9, <1>10, <1>11, <1>12,
      <1>13, <1>14, <1>15, <1>16, <1>17
  DEF Next, CallerStep, WorkerStep, Work, Thread, vars, mtp_dispatch,
      InlineReturn, LoadParked, ClaimLoad, RunChunk, WakeLoad, mtp_join,
      mtp_await_generation, mtp_os_wait, Interrupt

(***************************************************************************)
(* One thread moves, everybody else stays where it is.                     *)
(***************************************************************************)
Move(t, q) == pc' = [pc EXCEPT ![t] = q]

\* A thread that moves within its own points of the code keeps control sound.
LEMMA MoveControl ==
  ASSUME pc \in [Thread -> PCs], PCsOK, StaffOK, UNCHANGED <<workers, spawned>>,
         NEW t \in Thread, NEW q, Move(t, q),
         t \in Callers => /\ q \in CallerPCs
                          /\ q \in OwnerPCs => pc[t] \in OwnerPCs,
         t \in Workers => q \in WorkerPCs \ {"unborn"} /\ pc[t] # "unborn"
  PROVE  pc' \in [Thread -> PCs] /\ PCsOK' /\ StaffOK'
<1>1. CallerPCs \subseteq PCs /\ WorkerPCs \subseteq PCs
  BY DEF CallerPCs, WorkerPCs, PCs
<1>2. t \in Callers \/ t \in Workers
  BY DEF Thread
<1>3. q \in PCs
  BY <1>1, <1>2
<1>4. \A u \in Thread : pc'[u] = IF u = t THEN q ELSE pc[u]
  BY DEF Move
<1>5. PCsOK'
  BY <1>4 DEF PCsOK, Thread
<1>6. StaffOK'
  BY <1>4 DEF StaffOK, Thread
<1> QED
  BY <1>3, <1>5, <1>6 DEF Move

\* A thread that moves without entering the pool or leaving "idle" keeps the
\* facts about requests.
LEMMA MoveRequest ==
  ASSUME pc \in [Thread -> PCs], RequestOK, UNCHANGED request,
         NEW t \in Thread, NEW q, Move(t, q),
         t \in Callers => /\ q = "idle" \/ pc[t] # "idle"
                          /\ q \in OwnerPCs \cup {"acquire"} =>
                               pc[t] \in OwnerPCs \cup {"acquire"}
  PROVE  RequestOK'
<1>1. \A c \in Callers : pc'[c] = IF c = t THEN q ELSE pc[c]
  BY DEF Move, Thread
<1> QED
  BY <1>1 DEF RequestOK, CountOf

\* Control: pc moves only between the points of the code, and a worker leaves
\* "unborn" when mtp_pool_spawn_once counts it.
LEMMA ControlStep ==
  ASSUME TypeInv, [Next]_vars
  PROVE  pc' \in [Thread -> PCs] /\ PCsOK' /\ StaffOK'
<1>0. /\ pc \in [Thread -> PCs] /\ PCsOK /\ StaffOK
      /\ workers \in Slots
  BY DEF TypeInv, TypeOK, SharedOK, LocalOK
<1>a. ASSUME NEW t \in Thread, NEW q, Move(t, q),
             UNCHANGED <<workers, spawned>>,
             t \in Callers => /\ q \in CallerPCs
                              /\ q \in OwnerPCs => pc[t] \in OwnerPCs,
             t \in Workers => q \in WorkerPCs \ {"unborn"} /\ pc[t] # "unborn"
      PROVE  pc' \in [Thread -> PCs] /\ PCsOK' /\ StaffOK'
  BY <1>0, <1>a, MoveControl
<1>b. ASSUME NEW c \in Callers PROVE c \in Thread /\ c \notin Workers
  BY Disjoint DEF Thread
<1>11. ASSUME NEW c \in Callers, mtp_join(c)
      PROVE  pc' \in [Thread -> PCs] /\ PCsOK' /\ StaffOK'
  <2>1. PICK q \in {"join", "release"} : Move(c, q)
    BY <1>11 DEF mtp_join, Goto, Move
  <2>2. pc[c] = "join" /\ UNCHANGED <<workers, spawned>>
    BY <1>11 DEF mtp_join, Goto, shared
  <2> QED
    BY <1>a, <1>b, <2>1, <2>2 DEF CallerPCs, OwnerPCs
<1>18. ASSUME NEW t \in Thread, WakeCas(t)
      PROVE  pc' \in [Thread -> PCs] /\ PCsOK' /\ StaffOK'
  <2>1. PICK q \in {"wake_os", "wake_cas", AfterWake(t)} : Move(t, q)
    BY <1>18 DEF WakeCas, Goto, Move
  <2>2. pc[t] = "wake_cas" /\ UNCHANGED <<workers, spawned>>
    BY <1>18 DEF WakeCas, Goto
  <2>3. /\ t \in Callers => q \in {"wake_os", "wake_cas", "claim"}
        /\ t \in Workers => q \in {"wake_os", "wake_cas", "await"}
    BY <1>b, <2>1 DEF AfterWake
  <2> QED
    BY <1>a, <2>1, <2>2, <2>3 DEF CallerPCs, OwnerPCs, WorkerPCs
<1>c. ASSUME NEW t \in Thread, mtp_os_wake(t), WaitKind = "semaphore"
      PROVE  pc' \in [Thread -> PCs] /\ PCsOK' /\ StaffOK'
  <2>1. Move(t, AfterWake(t))
    BY <1>c DEF mtp_os_wake, Move
  <2>2. pc[t] = "wake_os" /\ UNCHANGED <<workers, spawned>>
    BY <1>c DEF mtp_os_wake
  <2>3. /\ t \in Callers => AfterWake(t) = "claim"
        /\ t \in Workers => AfterWake(t) = "await"
    BY <1>b DEF AfterWake
  <2> QED
    BY <1>a, <2>1, <2>2, <2>3 DEF CallerPCs, OwnerPCs, WorkerPCs
<1> USE <1>0, Disjoint
    DEF Goto, shared, PCs, PCsOK, CallerPCs, WorkerPCs, StaffOK, OwnerPCs, Thread
<1>1. ASSUME NEW c \in Callers, NEW r \in Requests, mtp_dispatch(c, r)
      PROVE  pc' \in [Thread -> PCs] /\ PCsOK' /\ StaffOK'
  BY SMTT(30), Z3T(30), <1>1 DEF mtp_dispatch
<1>2. ASSUME NEW c \in Callers, mtp_pool_acquire(c)
      PROVE  pc' \in [Thread -> PCs] /\ PCsOK' /\ StaffOK'
  BY SMTT(30), Z3T(30), <1>2 DEF mtp_pool_acquire
<1>3. ASSUME NEW c \in Callers, mtp_pool_spawn_once(c)
      PROVE  pc' \in [Thread -> PCs] /\ PCsOK' /\ StaffOK'
  <2>1. CASE pc' = [pc EXCEPT ![c] = "staffed"] /\ UNCHANGED workers
    BY <1>3, <2>1 DEF mtp_pool_spawn_once
  <2>2. CASE /\ workers + 1 < Threads /\ workers' = workers + 1
             /\ pc' = [pc EXCEPT ![workers] = "await"]
    <3>1. workers \in Workers /\ workers \in Int
      BY <2>2, SpawnIndex DEF TypeInv, TypeOK
    <3>2. \A w \in Workers : w \in Int
      BY DEF Workers
    <3>3. pc[workers] = "unborn"
      BY <3>1
    <3>4. spawned' = spawned
      BY <1>3, SpawnIndex DEF mtp_pool_spawn_once, TypeInv, TypeOK
    <3> QED
      BY SMTT(30), Z3T(30), <2>2, <3>1, <3>2, <3>3, <3>4
  <2> QED
    BY <1>3, <2>1, <2>2 DEF mtp_pool_spawn_once
<1>4. ASSUME NEW c \in Callers, CheckWorkers(c)
      PROVE  pc' \in [Thread -> PCs] /\ PCsOK' /\ StaffOK'
  BY <1>4 DEF CheckWorkers
<1>5. ASSUME NEW c \in Callers, InlineReturn(c)
      PROVE  pc' \in [Thread -> PCs] /\ PCsOK' /\ StaffOK'
  BY <1>5 DEF InlineReturn
<1>6. ASSUME NEW c \in Callers, SetJob(c)
      PROVE  pc' \in [Thread -> PCs] /\ PCsOK' /\ StaffOK'
  BY <1>6 DEF SetJob
<1>7. ASSUME NEW c \in Callers, StoreTicket(c)
      PROVE  pc' \in [Thread -> PCs] /\ PCsOK' /\ StaffOK'
  BY <1>7 DEF StoreTicket
<1>8. ASSUME NEW c \in Callers, StoreGeneration(c)
      PROVE  pc' \in [Thread -> PCs] /\ PCsOK' /\ StaffOK'
  BY <1>8 DEF StoreGeneration
<1>9. ASSUME NEW c \in Callers, LoadParked(c)
      PROVE  pc' \in [Thread -> PCs] /\ PCsOK' /\ StaffOK'
  BY <1>9 DEF LoadParked
<1>10. ASSUME NEW c \in Callers, StoreBudget(c)
      PROVE  pc' \in [Thread -> PCs] /\ PCsOK' /\ StaffOK'
  BY <1>10 DEF StoreBudget
<1>12. ASSUME NEW c \in Callers, mtp_pool_release(c)
      PROVE  pc' \in [Thread -> PCs] /\ PCsOK' /\ StaffOK'
  BY <1>12 DEF mtp_pool_release
<1>13. ASSUME NEW t \in Thread, ClaimLoad(t)
      PROVE  pc' \in [Thread -> PCs] /\ PCsOK' /\ StaffOK'
  BY <1>13 DEF ClaimLoad, AfterWork
<1>14. ASSUME NEW t \in Thread, ClaimAdd(t)
      PROVE  pc' \in [Thread -> PCs] /\ PCsOK' /\ StaffOK'
  BY <1>14 DEF ClaimAdd, AfterWork
<1>15. ASSUME NEW t \in Thread, RunChunk(t)
      PROVE  pc' \in [Thread -> PCs] /\ PCsOK' /\ StaffOK'
  BY <1>15 DEF RunChunk
<1>16. ASSUME NEW t \in Thread, CompleteChunk(t)
      PROVE  pc' \in [Thread -> PCs] /\ PCsOK' /\ StaffOK'
  BY <1>16 DEF CompleteChunk
<1>17. ASSUME NEW t \in Thread, WakeLoad(t)
      PROVE  pc' \in [Thread -> PCs] /\ PCsOK' /\ StaffOK'
  BY <1>17 DEF WakeLoad, AfterWake
<1>19. ASSUME NEW t \in Thread, mtp_os_wake(t)
      PROVE  pc' \in [Thread -> PCs] /\ PCsOK' /\ StaffOK'
  <2>1. CASE WaitKind = "semaphore"
    BY <1>19, <1>c, <2>1
  <2>2. CASE WaitKind # "semaphore"
    <3>1. PICK woken \in SUBSET Sleepers :
            pc' = [u \in Thread |-> IF u = t THEN AfterWake(t)
                                    ELSE IF u \in woken THEN "unpark"
                                    ELSE pc[u]]
      BY <1>19, <2>2 DEF mtp_os_wake
    <3>2. \A u \in woken : u \in Workers /\ pc[u] = "asleep"
      BY DEF Sleepers
    <3>3. UNCHANGED <<workers, spawned>> /\ pc[t] = "wake_os"
      BY <1>19 DEF mtp_os_wake
    <3> QED
      BY SMTT(30), Z3T(30), <3>1, <3>2, <3>3 DEF AfterWake
  <2> QED
    BY <2>1, <2>2
<1>20. ASSUME NEW w \in Workers, mtp_await_generation(w)
      PROVE  pc' \in [Thread -> PCs] /\ PCsOK' /\ StaffOK'
  BY SMTT(30), Z3T(30), <1>20 DEF mtp_await_generation
<1>21. ASSUME NEW w \in Workers, Park(w)
      PROVE  pc' \in [Thread -> PCs] /\ PCsOK' /\ StaffOK'
  BY <1>21 DEF Park
<1>22. ASSUME NEW w \in Workers, mtp_os_wait(w)
      PROVE  pc' \in [Thread -> PCs] /\ PCsOK' /\ StaffOK'
  BY SMTT(30), Z3T(30), <1>22 DEF mtp_os_wait
<1>23. ASSUME NEW w \in Workers, WaitForSingleObject(w)
      PROVE  pc' \in [Thread -> PCs] /\ PCsOK' /\ StaffOK'
  BY <1>23 DEF WaitForSingleObject
<1>24. ASSUME NEW w \in Workers, Interrupt(w)
      PROVE  pc' \in [Thread -> PCs] /\ PCsOK' /\ StaffOK'
  BY <1>24 DEF Interrupt
<1>25. ASSUME NEW w \in Workers, Unpark(w)
      PROVE  pc' \in [Thread -> PCs] /\ PCsOK' /\ StaffOK'
  BY <1>25 DEF Unpark
<1>26. CASE UNCHANGED vars
  BY <1>26 DEF vars, shared
<1> QED
  BY <1>1, <1>2, <1>3, <1>4, <1>5, <1>6, <1>7, <1>8, <1>9, <1>10, <1>11,
      <1>12, <1>13, <1>14, <1>15, <1>16, <1>17, <1>18, <1>19, <1>20, <1>21,
      <1>22, <1>23, <1>24, <1>25, <1>26 DEF Next, CallerStep, WorkerStep,
      Work

\* The locals of the threads, other than pc.
LEMMA LocalStep ==
  ASSUME TypeInv, [Next]_vars
  PROVE  LocalOK'
<1>1. SharedOK /\ LocalOK
  BY DEF TypeInv, TypeOK
<1>2. pc' \in [Thread -> PCs]
  BY ControlStep
<1>3. CASE UNCHANGED local
  BY <1>1, <1>2, <1>3 DEF LocalOK, local
<1>4. ASSUME NEW c \in Callers, NEW r \in Requests, mtp_dispatch(c, r)
      PROVE  LocalOK'
  BY <1>1, <1>2, <1>4 DEF LocalOK, mtp_dispatch
<1>5. ASSUME NEW c \in Callers, InlineReturn(c) \/ mtp_pool_release(c)
      PROVE  LocalOK'
  BY <1>1, <1>2, <1>5 DEF LocalOK, InlineReturn, mtp_pool_release
<1>6. ASSUME NEW c \in Callers, LoadParked(c)
      PROVE  LocalOK'
  BY <1>1, <1>2, <1>6 DEF LocalOK, SharedOK, LoadParked, Thread
<1>7. ASSUME NEW c \in Callers, mtp_join(c)
      PROVE  LocalOK'
  <2>1. slot[c] \in Slots /\ workers \in Slots /\ completed \in [Slots -> Nat]
    BY <1>1 DEF LocalOK, SharedOK
  <2>2. slot[c] < workers => slot[c] + 1 \in Slots
    BY <2>1, ConstantsAssumption DEF Slots
  <2>3. completed[slot[c]] \in Nat /\ 0 \in Slots
    BY <2>1, ConstantsAssumption DEF Slots
  <2>4. CASE slot[c] < workers
    <3>1. /\ slot' = [slot EXCEPT ![c] = @ + 1]
          /\ total' = [total EXCEPT ![c] = @ + completed[slot[c]]]
          /\ UNCHANGED <<request, seen, chunk, budget>>
      BY SMTT(30), Z3T(30), <1>7, <2>1, <2>4 DEF mtp_join, Slots
    <3> QED
      BY <1>1, <1>2, <2>2, <2>3, <2>4, <3>1 DEF LocalOK
  <2>5. CASE ~(slot[c] < workers)
    <3>1. /\ slot' = [slot EXCEPT ![c] = 0] /\ total' = [total EXCEPT ![c] = 0]
          /\ UNCHANGED <<request, seen, chunk, budget>>
      BY <1>7, <2>5 DEF mtp_join
    <3> QED
      BY <1>1, <1>2, <2>3, <3>1 DEF LocalOK
  <2> QED
    BY <2>4, <2>5
<1>8. ASSUME NEW t \in Thread, ClaimAdd(t)
      PROVE  LocalOK'
  BY <1>1, <1>2, <1>8 DEF LocalOK, SharedOK, ClaimAdd
<1>9. ASSUME NEW t \in Thread, CompleteChunk(t)
      PROVE  LocalOK'
  BY <1>1, <1>2, <1>9 DEF LocalOK, CompleteChunk
<1>10. ASSUME NEW t \in Thread, WakeLoad(t) \/ mtp_os_wake(t)
      PROVE  LocalOK'
  <2>1. \E b \in Nat : budget' = [budget EXCEPT ![t] = b]
    BY <1>1, <1>10 DEF SharedOK, WakeLoad, mtp_os_wake
  <2>2. UNCHANGED <<request, seen, chunk, slot, total>>
    BY <1>10 DEF WakeLoad, mtp_os_wake
  <2> QED
    BY <1>1, <1>2, <2>1, <2>2 DEF LocalOK
<1>11. ASSUME NEW t \in Thread, WakeCas(t)
      PROVE  LocalOK'
  BY SMTT(30), Z3T(30), <1>1, <1>2, <1>11 DEF LocalOK, SharedOK, WakeCas, Share, MTP_WAKE_FANOUT
<1>12. ASSUME NEW w \in Workers, mtp_await_generation(w)
      PROVE  LocalOK'
  BY <1>1, <1>2, <1>12 DEF LocalOK, SharedOK, mtp_await_generation
<1> QED
  BY <1>3, <1>4, <1>5, <1>6, <1>7, <1>8, <1>9, <1>10, <1>11, <1>12
  DEF Next, CallerStep, WorkerStep, Work, Thread, vars, mtp_pool_acquire,
      mtp_pool_spawn_once, CheckWorkers, SetJob, StoreTicket, StoreGeneration,
      StoreBudget, ClaimLoad, RunChunk, mtp_os_wait, Park, Unpark,
      WaitForSingleObject, Interrupt

\* What a body is given, and the history of what was run.
LEMMA RunType ==
  ASSUME HistoryOK, NEW t \in Thread, NEW ctx \in Callers \cup {NoCtx},
         NEW range \in SUBSET Int, NEW s \in Slots, mtp_run(t, ctx, range, s)
  PROVE  /\ args' \in [Thread -> [ctx : Callers \cup {NoCtx},
                                  range : SUBSET Int, slot : Slots]]
         /\ exec' \in [Callers -> [Index -> Nat]]
<1>1. CASE ctx \in Callers
  BY SMTT(30), Z3T(30), <1>1 DEF mtp_run, HistoryOK
<1>2. CASE ctx \notin Callers
  BY <1>2 DEF mtp_run, HistoryOK
<1> QED
  BY <1>1, <1>2

\* The body of an inline call is given the whole range and slot 0.
LEMMA InlineType ==
  ASSUME TypeInv, NEW c \in Callers, NEW r \in Requests, RunInline(c, r)
  PROVE  /\ args' \in [Thread -> [ctx : Callers \cup {NoCtx},
                                  range : SUBSET Int, slot : Slots]]
         /\ exec' \in [Callers -> [Index -> Nat]]
<1>1. r.lo..(r.hi - 1) \in SUBSET Int /\ 0 \in Slots /\ c \in Thread
  BY ConstantsAssumption DEF Slots, Thread
<1> QED
  BY <1>1, RunType DEF RunInline, TypeInv, TypeOK

\* The empty arguments of a thread outside any body.
LEMMA NoArgsType ==
  NoArgs \in [ctx : Callers \cup {NoCtx}, range : SUBSET Int, slot : Slots]
<1>1. 0 \in Slots
  BY ConstantsAssumption DEF Slots
<1> QED
  BY <1>1 DEF NoArgs

\* Every step keeps the types of what bodies are given and have run.
LEMMA HistoryStep ==
  ASSUME TypeInv, [Next]_vars
  PROVE  HistoryOK'
<1>1. SharedOK /\ LocalOK /\ HistoryOK /\ RequestOK /\ PCsOK /\ CountOK
  BY DEF TypeInv, TypeOK
<1>2. CASE UNCHANGED <<args, exec, finished, summed>>
  BY <1>1, <1>2 DEF HistoryOK
<1>3. ASSUME NEW c \in Callers, NEW r \in Requests, mtp_dispatch(c, r)
      PROVE  HistoryOK'
  BY <1>1, <1>3, InlineType DEF HistoryOK, mtp_dispatch
<1>4. ASSUME NEW c \in Callers, mtp_pool_acquire(c) \/ CheckWorkers(c)
      PROVE  HistoryOK'
  <2>1. request[c] \in Requests
    BY <1>1, <1>4 DEF RequestOK, mtp_pool_acquire, CheckWorkers, Goto
  <2> QED
    BY <1>1, <1>4, <2>1, InlineType
    DEF HistoryOK, mtp_pool_acquire, CheckWorkers
<1>5. ASSUME NEW c \in Callers, InlineReturn(c)
      PROVE  HistoryOK'
  <2>1. NoArgs \in [ctx : Callers \cup {NoCtx}, range : SUBSET Int,
                    slot : Slots]
    BY NoArgsType
  <2> QED
    BY <1>1, <1>5, <2>1 DEF HistoryOK, InlineReturn, Thread
<1>6. ASSUME NEW c \in Callers, mtp_join(c)
      PROVE  HistoryOK'
  <2>1. finished[slot[c]] \in SUBSET Nat /\ summed[c] \in SUBSET Nat
    BY <1>1 DEF HistoryOK, LocalOK
  <2>2. \/ summed' = [summed EXCEPT ![c] = @ \cup finished[slot[c]]]
        \/ summed' = [summed EXCEPT ![c] = {}]
    BY <1>6 DEF mtp_join
  <2>3. UNCHANGED <<args, exec, finished>>
    BY <1>6 DEF mtp_join
  <2> QED
    BY <1>1, <2>1, <2>2, <2>3 DEF HistoryOK
<1>7. ASSUME NEW c \in Callers, mtp_pool_release(c)
      PROVE  HistoryOK'
  BY <1>1, <1>7 DEF HistoryOK, mtp_pool_release
<1>8. ASSUME NEW t \in Thread, RunChunk(t)
      PROVE  HistoryOK'
  <2>1. /\ job.ctx \in Callers \cup {NoCtx}
        /\ ChunkRange(job, chunk[t]) \in SUBSET Int
    BY <1>1 DEF SharedOK, LocalOK, ChunkRange
  <2>2. SlotOf(t) \in Slots
    BY <1>1, SlotInArray
  <2> QED
    BY <1>1, <1>8, <2>1, <2>2, RunType DEF HistoryOK, RunChunk
<1>9. ASSUME NEW t \in Thread, CompleteChunk(t)
      PROVE  HistoryOK'
  <2>1. NoArgs \in [ctx : Callers \cup {NoCtx}, range : SUBSET Int,
                    slot : Slots]
    BY NoArgsType
  <2>2. ChunkNumber(t) \in Nat
    BY SMTT(30), Z3T(30), <1>1 DEF SharedOK, LocalOK, CountOK, ChunkNumber
  <2>3. SlotOf(t) \in Slots
    BY <1>1, SlotInArray
  <2> QED
    BY <1>1, <1>9, <2>1, <2>2, <2>3 DEF HistoryOK, CompleteChunk
<1>10. ASSUME NEW t \in Thread, Work(t)
      PROVE  HistoryOK'
  BY <1>2, <1>8, <1>9, <1>10
  DEF Work, history, ClaimLoad, ClaimAdd, WakeLoad, WakeCas, mtp_os_wake
<1>11. ASSUME NEW c \in Callers, CallerStep(c)
      PROVE  HistoryOK'
  <2>1. c \in Thread
    BY DEF Thread
  <2> QED
    BY <1>2, <1>4, <1>5, <1>6, <1>7, <1>10, <1>11, <2>1
    DEF CallerStep, history, mtp_pool_spawn_once, SetJob, StoreTicket,
        StoreGeneration, LoadParked, StoreBudget
<1>12. ASSUME NEW w \in Workers, WorkerStep(w) \/ Interrupt(w)
      PROVE  HistoryOK'
  <2>1. w \in Thread
    BY DEF Thread
  <2> QED
    BY <1>2, <1>10, <1>12, <2>1
    DEF WorkerStep, history, mtp_await_generation, mtp_os_wait, Park, Unpark,
        WaitForSingleObject, Interrupt
<1>13. CASE UNCHANGED vars
  BY <1>2, <1>13 DEF vars, history
<1> QED
  BY <1>3, <1>11, <1>12, <1>13 DEF Next

\* The call a caller is in keeps its request, and only one that is worth
\* splitting reaches the pool.
LEMMA RequestStep ==
  ASSUME TypeInv, [Next]_vars
  PROVE  RequestOK'
<1>0. /\ pc \in [Thread -> PCs] /\ PCsOK /\ RequestOK
      /\ request \in [Callers -> Requests \cup {NoRequest}]
  BY DEF TypeInv, TypeOK, LocalOK
<1>a. ASSUME NEW t \in Thread, NEW q, Move(t, q), UNCHANGED request,
             t \in Callers => /\ q = "idle" \/ pc[t] # "idle"
                              /\ q \in OwnerPCs \cup {"acquire"} =>
                                   pc[t] \in OwnerPCs \cup {"acquire"}
      PROVE  RequestOK'
  BY <1>0, <1>a, MoveRequest
<1>b. /\ \A c \in Callers : c \in Thread
      /\ \A w \in Workers : w \in Thread /\ w \notin Callers
  BY Disjoint DEF Thread
<1>2. ASSUME NEW c \in Callers, mtp_pool_acquire(c)
      PROVE  RequestOK'
  <2>1. PICK q : Move(c, q)
    BY <1>2 DEF mtp_pool_acquire, Goto, Move
  <2>2. pc[c] = "acquire" /\ UNCHANGED request
    BY <1>2 DEF mtp_pool_acquire, Goto, local
  <2> QED
    BY <1>a, <1>b, <2>1, <2>2
<1>3. ASSUME NEW c \in Callers, mtp_pool_spawn_once(c)
      PROVE  RequestOK'
  <2>1. pc[c] = "spawn" /\ UNCHANGED request
    BY <1>3 DEF mtp_pool_spawn_once, local
  <2>2. CASE Move(c, "staffed")
    BY <1>a, <1>b, <2>1, <2>2 DEF OwnerPCs, CallerPCs
  <2>3. CASE workers + 1 < Threads /\ Move(workers, "await")
    <3>1. workers \in Workers
      BY <2>3, SpawnIndex DEF TypeInv, TypeOK
    <3> QED
      BY <1>a, <1>b, <2>1, <2>3, <3>1
  <2> QED
    BY <1>3, <2>2, <2>3 DEF mtp_pool_spawn_once, Move
<1>4. ASSUME NEW c \in Callers, CheckWorkers(c)
      PROVE  RequestOK'
  <2>1. PICK q : Move(c, q)
    BY <1>4 DEF CheckWorkers, Goto, Move
  <2>2. pc[c] = "staffed" /\ UNCHANGED request
    BY <1>4 DEF CheckWorkers, Goto, local
  <2> QED
    BY <1>a, <1>b, <2>1, <2>2 DEF OwnerPCs, CallerPCs
<1>11. ASSUME NEW c \in Callers, mtp_join(c)
      PROVE  RequestOK'
  <2>1. PICK q : Move(c, q)
    BY <1>11 DEF mtp_join, Goto, Move
  <2>2. pc[c] = "join" /\ UNCHANGED request
    BY <1>11 DEF mtp_join, Goto
  <2> QED
    BY <1>a, <1>b, <2>1, <2>2 DEF OwnerPCs, CallerPCs
<1>18. ASSUME NEW t \in Thread, WakeCas(t)
      PROVE  RequestOK'
  <2>1. PICK q : Move(t, q)
    BY <1>18 DEF WakeCas, Goto, Move
  <2>2. pc[t] = "wake_cas" /\ UNCHANGED request
    BY <1>18 DEF WakeCas, Goto
  <2> QED
    BY <1>a, <2>1, <2>2 DEF OwnerPCs, CallerPCs
<1>20. ASSUME NEW w \in Workers, mtp_await_generation(w)
      PROVE  RequestOK'
  <2>1. PICK q : Move(w, q)
    BY <1>20 DEF mtp_await_generation, Goto, Move
  <2>2. UNCHANGED request
    BY <1>20 DEF mtp_await_generation
  <2> QED
    BY <1>a, <1>b, <2>1, <2>2
<1>22. ASSUME NEW w \in Workers, mtp_os_wait(w)
      PROVE  RequestOK'
  <2>1. PICK q : Move(w, q)
    BY <1>22 DEF mtp_os_wait, Goto, Move
  <2>2. UNCHANGED request
    BY <1>22 DEF mtp_os_wait, local
  <2> QED
    BY <1>a, <1>b, <2>1, <2>2
<1> USE <1>0, Disjoint
    DEF Goto, local, RequestOK, CallerPCs, OwnerPCs, Thread
<1>1. ASSUME NEW c \in Callers, NEW r \in Requests, mtp_dispatch(c, r)
      PROVE  RequestOK'
  BY SMTT(30), Z3T(30), <1>1 DEF mtp_dispatch
<1>5. ASSUME NEW c \in Callers, InlineReturn(c)
      PROVE  RequestOK'
  BY <1>5 DEF InlineReturn
<1>6. ASSUME NEW c \in Callers, SetJob(c)
      PROVE  RequestOK'
  BY <1>6 DEF SetJob
<1>7. ASSUME NEW c \in Callers, StoreTicket(c)
      PROVE  RequestOK'
  BY <1>7 DEF StoreTicket
<1>8. ASSUME NEW c \in Callers, StoreGeneration(c)
      PROVE  RequestOK'
  BY <1>8 DEF StoreGeneration
<1>9. ASSUME NEW c \in Callers, LoadParked(c)
      PROVE  RequestOK'
  BY <1>9 DEF LoadParked
<1>10. ASSUME NEW c \in Callers, StoreBudget(c)
      PROVE  RequestOK'
  BY <1>10 DEF StoreBudget
<1>12. ASSUME NEW c \in Callers, mtp_pool_release(c)
      PROVE  RequestOK'
  BY <1>12 DEF mtp_pool_release
<1>13. ASSUME NEW t \in Thread, ClaimLoad(t)
      PROVE  RequestOK'
  BY <1>13 DEF ClaimLoad, AfterWork
<1>14. ASSUME NEW t \in Thread, ClaimAdd(t)
      PROVE  RequestOK'
  BY <1>14 DEF ClaimAdd, AfterWork
<1>15. ASSUME NEW t \in Thread, RunChunk(t)
      PROVE  RequestOK'
  BY <1>15 DEF RunChunk
<1>16. ASSUME NEW t \in Thread, CompleteChunk(t)
      PROVE  RequestOK'
  BY <1>16 DEF CompleteChunk
<1>17. ASSUME NEW t \in Thread, WakeLoad(t)
      PROVE  RequestOK'
  BY <1>17 DEF WakeLoad, AfterWake
<1>19. ASSUME NEW t \in Thread, mtp_os_wake(t)
      PROVE  RequestOK'
  <2>1. /\ pc[t] = "wake_os" /\ UNCHANGED request
        /\ \A c \in Callers : pc'[c] = IF c = t THEN AfterWake(c) ELSE pc[c]
    BY ZenonT(40), <1>19 DEF mtp_os_wake, Sleepers
  <2> QED
    BY <2>1 DEF AfterWake
<1>21. ASSUME NEW w \in Workers, Park(w)
      PROVE  RequestOK'
  BY <1>21 DEF Park
<1>23. ASSUME NEW w \in Workers, WaitForSingleObject(w)
      PROVE  RequestOK'
  BY <1>23 DEF WaitForSingleObject
<1>24. ASSUME NEW w \in Workers, Interrupt(w)
      PROVE  RequestOK'
  BY <1>24 DEF Interrupt
<1>25. ASSUME NEW w \in Workers, Unpark(w)
      PROVE  RequestOK'
  BY <1>25 DEF Unpark
<1>26. CASE UNCHANGED vars
  BY <1>26 DEF vars
<1> QED
  BY <1>1, <1>2, <1>3, <1>4, <1>5, <1>6, <1>7, <1>8, <1>9, <1>10, <1>11,
      <1>12, <1>13, <1>14, <1>15, <1>16, <1>17, <1>18, <1>19, <1>20, <1>21,
      <1>22, <1>23, <1>24, <1>25, <1>26 DEF Next, CallerStep, WorkerStep,
      Work

\* Every step keeps the flags busy and spawned, and unwoken, of their types.
LEMMA FlagsStep ==
  ASSUME TypeInv, [Next]_vars
  PROVE  FlagsOK'
<1>1. FlagsOK
  BY DEF TypeInv, TypeOK
<1>2. CASE UNCHANGED <<busy, spawned, unwoken>>
  BY <1>1, <1>2 DEF FlagsOK
<1>3. ASSUME NEW c \in Callers, mtp_pool_acquire(c)
      PROVE  FlagsOK'
  BY <1>1, <1>3 DEF FlagsOK, mtp_pool_acquire
<1>4. ASSUME NEW c \in Callers, CheckWorkers(c)
      PROVE  FlagsOK'
  BY <1>1, <1>4 DEF FlagsOK, CheckWorkers
<1>5. ASSUME NEW c \in Callers, SetJob(c)
      PROVE  FlagsOK'
  BY <1>1, <1>5 DEF FlagsOK, SetJob
<1>6. ASSUME NEW c \in Callers, LoadParked(c)
      PROVE  FlagsOK'
  BY <1>1, <1>6 DEF FlagsOK, LoadParked, shared
<1>7. ASSUME NEW c \in Callers, mtp_pool_release(c)
      PROVE  FlagsOK'
  BY <1>1, <1>7 DEF FlagsOK, mtp_pool_release
<1> QED
  BY ZenonT(40), <1>2, <1>3, <1>4, <1>5, <1>6, <1>7
  DEF Next, vars, shared, history, CallerStep, WorkerStep, Work, mtp_dispatch,
      mtp_pool_spawn_once, InlineReturn, StoreTicket, StoreGeneration,
      StoreBudget, WakeLoad, WakeCas, mtp_os_wake, ClaimLoad, ClaimAdd,
      RunChunk, CompleteChunk, mtp_join, mtp_await_generation, Park,
      mtp_os_wait, WaitForSingleObject, Interrupt, Unpark

-----------------------------------------------------------------------------
(***************************************************************************)
(* Most steps leave the ledger alone: the job, the ticket, the counters    *)
(* and the threads that hold a chunk stay what they are.                   *)
(***************************************************************************)
QuietStep ==
  /\ UNCHANGED <<job, ticket, dispatched, completed, chunk, slot, total,
                 finished, summed>>
  /\ workers' = workers \/
       (workers' = workers + 1 /\ \E c \in Callers : pc[c] = "spawn")
  /\ \A t \in Thread : \A p \in {"run", "body"} : pc'[t] = p <=> pc[t] = p
  /\ \A c \in Callers :
       /\ \A p \in {"store_ticket", "release"} : pc'[c] = p <=> pc[c] = p
       /\ pc'[c] \in PublishedPCs <=> pc[c] \in PublishedPCs
       /\ pc[c] = "join" => pc'[c] = "join"
       /\ pc[c] \in PublishedPCs \cup {"store_ticket"} =>
            request'[c] = request[c]

\* The steps that do write in the ledger.
LedgerStep ==
  \/ \E c \in Callers : \/ SetJob(c) \/ StoreTicket(c)
                        \/ mtp_join(c) \/ mtp_pool_release(c)
  \/ \E t \in Thread : ClaimAdd(t) \/ RunChunk(t) \/ CompleteChunk(t)

\* A thread that moves without taking, ending or publishing a chunk leaves the
\* ledger alone.
LEMMA MoveQuiet ==
  ASSUME pc \in [Thread -> PCs],
         UNCHANGED <<job, ticket, dispatched, completed, chunk, slot, total,
                     finished, summed, workers>>,
         NEW t \in Thread, NEW q, Move(t, q),
         pc[t] \notin {"run", "body"}, q \notin {"run", "body"},
         t \in Callers => /\ pc[t] \notin {"store_ticket", "release", "join"}
                          /\ q \notin {"store_ticket", "release"}
                          /\ q \in PublishedPCs <=> pc[t] \in PublishedPCs,
         \A c \in Callers : pc[c] \in PublishedPCs \cup {"store_ticket"} =>
                             request'[c] = request[c]
  PROVE  QuietStep
<1>1. \A u \in Thread : pc'[u] = IF u = t THEN q ELSE pc[u]
  BY DEF Move
<1>2. \A u \in Thread : \A p \in {"run", "body"} : pc'[u] = p <=> pc[u] = p
  BY <1>1
<1>3. \A c \in Callers : pc'[c] = IF c = t THEN q ELSE pc[c]
  BY <1>1 DEF Thread
<1>4. \A c \in Callers :
        /\ \A p \in {"store_ticket", "release"} : pc'[c] = p <=> pc[c] = p
        /\ pc'[c] \in PublishedPCs <=> pc[c] \in PublishedPCs
        /\ pc[c] = "join" => pc'[c] = "join"
  BY <1>3
<1> QED
  BY <1>2, <1>4 DEF QuietStep

\* A step either leaves the ledger alone or is one of the seven that write it.
LEMMA QuietOrLedger ==
  ASSUME TypeInv, [Next]_vars
  PROVE  QuietStep \/ LedgerStep
<1>0. /\ SharedOK /\ PCsOK /\ StaffOK /\ pc \in [Thread -> PCs]
      /\ request \in [Callers -> Requests \cup {NoRequest}]
  BY DEF TypeInv, TypeOK, LocalOK
<1>a. ASSUME NEW t \in Thread, NEW q, Move(t, q),
             UNCHANGED <<job, ticket, dispatched, completed, chunk, slot, total,
                         finished, summed, workers>>,
             pc[t] \notin {"run", "body"}, q \notin {"run", "body"},
             t \in Callers =>
               /\ pc[t] \notin {"store_ticket", "release", "join"}
               /\ q \notin {"store_ticket", "release"}
               /\ q \in PublishedPCs <=> pc[t] \in PublishedPCs,
             \A c \in Callers : pc[c] \in PublishedPCs \cup {"store_ticket"} =>
                                 request'[c] = request[c]
      PROVE  QuietStep
  BY <1>0, <1>a, MoveQuiet
<1>b. /\ \A c \in Callers : c \in Thread
      /\ \A w \in Workers : w \in Thread /\ w \notin Callers
  BY Disjoint DEF Thread
<1>1. ASSUME NEW c \in Callers, NEW r \in Requests, mtp_dispatch(c, r)
      PROVE  QuietStep
  <2>1. PICK q \in {"inline", "acquire"} : Move(c, q)
    BY <1>1 DEF mtp_dispatch, Goto, Move
  <2>2. /\ pc[c] = "idle" /\ request' = [request EXCEPT ![c] = r]
        /\ UNCHANGED <<job, ticket, dispatched, completed, chunk, slot, total,
                       finished, summed, workers>>
    BY <1>1 DEF mtp_dispatch, Goto, shared
  <2>3. \A d \in Callers : pc[d] \in PublishedPCs \cup {"store_ticket"} =>
                             request'[d] = request[d]
    BY <1>0, <2>2 DEF PublishedPCs, OwnerPCs
  <2> QED
    BY <1>a, <1>b, <2>1, <2>2, <2>3 DEF PublishedPCs, OwnerPCs
<1>2. ASSUME NEW c \in Callers, mtp_pool_acquire(c)
      PROVE  QuietStep
  <2>1. PICK q \in {"spawn", "staffed", "inline"} : Move(c, q)
    BY <1>2 DEF mtp_pool_acquire, Goto, Move
  <2>2. /\ pc[c] = "acquire" /\ UNCHANGED request
        /\ UNCHANGED <<job, ticket, dispatched, completed, chunk, slot, total,
                       finished, summed, workers>>
    BY <1>2 DEF mtp_pool_acquire, Goto, local, history
  <2> QED
    BY <1>a, <1>b, <2>1, <2>2 DEF PublishedPCs, OwnerPCs
<1>4. ASSUME NEW c \in Callers, CheckWorkers(c)
      PROVE  QuietStep
  <2>1. PICK q \in {"inline", "set_job"} : Move(c, q)
    BY <1>4 DEF CheckWorkers, Goto, Move
  <2>2. /\ pc[c] = "staffed" /\ UNCHANGED request
        /\ UNCHANGED <<job, ticket, dispatched, completed, chunk, slot, total,
                       finished, summed, workers>>
    BY <1>4 DEF CheckWorkers, Goto, local
  <2> QED
    BY <1>a, <1>b, <2>1, <2>2 DEF PublishedPCs, OwnerPCs
<1>11. ASSUME NEW t \in Thread, WakeCas(t)
      PROVE  QuietStep
  <2>1. PICK q \in {"wake_os", "wake_cas", AfterWake(t)} : Move(t, q)
    BY <1>11 DEF WakeCas, Goto, Move
  <2>2. /\ pc[t] = "wake_cas" /\ UNCHANGED request
        /\ UNCHANGED <<job, ticket, dispatched, completed, chunk, slot, total,
                       finished, summed, workers>>
    BY <1>11 DEF WakeCas, Goto, history
  <2>3. /\ q \in {"wake_os", "wake_cas", "claim", "await"}
        /\ t \in Callers => q # "await"
    BY <2>1 DEF AfterWake
  <2> QED
    BY <1>a, <2>1, <2>2, <2>3 DEF PublishedPCs, OwnerPCs, CallerPCs
<1>c. ASSUME NEW t \in Thread, mtp_os_wake(t)
      PROVE  /\ pc[t] = "wake_os" /\ UNCHANGED request
             /\ UNCHANGED <<job, ticket, dispatched, completed, chunk, slot, total,
                       finished, summed, workers>>
  BY <1>c DEF mtp_os_wake, history
<1>d. ASSUME NEW t \in Thread, mtp_os_wake(t), WaitKind = "semaphore"
      PROVE  QuietStep
  <2>1. Move(t, AfterWake(t))
    BY <1>d DEF mtp_os_wake, Move
  <2>2. /\ AfterWake(t) \in {"claim", "await"}
        /\ t \in Callers => AfterWake(t) # "await"
    BY DEF AfterWake
  <2>3. /\ pc[t] = "wake_os" /\ UNCHANGED request
        /\ UNCHANGED <<job, ticket, dispatched, completed, chunk, slot, total,
                       finished, summed, workers>>
    BY <1>c, <1>d
  <2> QED
    BY <1>a, <2>1, <2>2, <2>3 DEF PublishedPCs, OwnerPCs, CallerPCs
<1>13. ASSUME NEW w \in Workers, mtp_await_generation(w)
      PROVE  QuietStep
  <2>1. PICK q \in {"claim", "park"} : Move(w, q)
    BY <1>13 DEF mtp_await_generation, Goto, Move
  <2>2. /\ pc[w] = "await" /\ UNCHANGED request
        /\ UNCHANGED <<job, ticket, dispatched, completed, chunk, slot, total,
                       finished, summed, workers>>
    BY <1>13 DEF mtp_await_generation, Goto, shared, history
  <2> QED
    BY <1>a, <1>b, <2>1, <2>2
<1>15. ASSUME NEW w \in Workers, mtp_os_wait(w)
      PROVE  QuietStep
  <2>1. PICK q \in {"asleep", "queued", "unpark"} : Move(w, q)
    BY <1>15 DEF mtp_os_wait, Goto, Move
  <2>2. /\ pc[w] = "wait" /\ UNCHANGED request
        /\ UNCHANGED <<job, ticket, dispatched, completed, chunk, slot, total,
                       finished, summed, workers>>
    BY <1>15 DEF mtp_os_wait, Goto, shared, local, history
  <2> QED
    BY <1>a, <1>b, <2>1, <2>2
<1>19. CASE UNCHANGED vars
  <2>1. UNCHANGED <<pc, shared, local, history>>
    BY <1>19 DEF vars
  <2> QED
    BY <2>1 DEF shared, local, history, QuietStep
<1> USE <1>0, Disjoint
    DEF QuietStep, Goto, shared, local, history, PCsOK, CallerPCs, WorkerPCs,
        OwnerPCs, PublishedPCs, Thread
<1>3. ASSUME NEW c \in Callers, mtp_pool_spawn_once(c)
      PROVE  QuietStep
  <2>1. CASE pc' = [pc EXCEPT ![c] = "staffed"] /\ UNCHANGED workers
    BY <1>3, <2>1 DEF mtp_pool_spawn_once
  <2>2. CASE /\ workers + 1 < Threads /\ workers' = workers + 1
             /\ pc' = [pc EXCEPT ![workers] = "await"]
    <3>1. workers \in Workers /\ workers \in Int /\ workers \notin Callers
      BY <2>2, SpawnIndex
    <3>2. pc[workers] = "unborn"
      BY SMTT(30), Z3T(30), <3>1 DEF StaffOK
    <3>3. \A d \in Callers : pc'[d] = pc[d]
      BY <2>2, <3>1
    <3>4. \A u \in Thread : \A p \in {"run", "body"} : pc'[u] = p <=> pc[u] = p
      BY <2>2, <3>1, <3>2
    <3> QED
      BY <1>3, <2>2, <3>3, <3>4 DEF mtp_pool_spawn_once
  <2> QED
    BY <1>3, <2>1, <2>2 DEF mtp_pool_spawn_once
<1>5. ASSUME NEW c \in Callers, InlineReturn(c)
      PROVE  QuietStep
  BY <1>5 DEF InlineReturn
<1>6. ASSUME NEW c \in Callers, StoreGeneration(c)
      PROVE  QuietStep
  BY <1>6 DEF StoreGeneration
<1>7. ASSUME NEW c \in Callers, LoadParked(c)
      PROVE  QuietStep
  BY <1>7 DEF LoadParked
<1>8. ASSUME NEW c \in Callers, StoreBudget(c)
      PROVE  QuietStep
  BY <1>8 DEF StoreBudget
<1>9. ASSUME NEW t \in Thread, ClaimLoad(t)
      PROVE  QuietStep
  BY <1>9 DEF ClaimLoad, AfterWork
<1>10. ASSUME NEW t \in Thread, WakeLoad(t)
      PROVE  QuietStep
  BY <1>10 DEF WakeLoad, AfterWake
<1>12. ASSUME NEW t \in Thread, mtp_os_wake(t)
      PROVE  QuietStep
  <2>1. CASE WaitKind = "semaphore"
    BY <1>12, <1>d, <2>1
  <2>2. CASE WaitKind # "semaphore"
    <3>1. PICK woken \in SUBSET Sleepers :
            pc' = [u \in Thread |-> IF u = t THEN AfterWake(t)
                                    ELSE IF u \in woken THEN "unpark"
                                    ELSE pc[u]]
      BY <1>12, <2>2 DEF mtp_os_wake
    <3>2. \A u \in woken : u \in Workers /\ pc[u] = "asleep"
      BY DEF Sleepers
    <3>3. /\ pc[t] = "wake_os" /\ UNCHANGED request
          /\ UNCHANGED <<job, ticket, dispatched, completed, chunk, slot, total,
                         finished, summed, workers>>
      BY <1>12, <1>c
    <3>4. \A u \in Thread : \A p \in {"run", "body"} : pc'[u] = p <=> pc[u] = p
      BY <3>1, <3>2, <3>3 DEF AfterWake
    <3>5. \A d \in Callers : pc'[d] = IF d = t THEN "claim" ELSE pc[d]
      BY <3>1, <3>2 DEF AfterWake
    <3>6. \A d \in Callers :
            /\ \A p \in {"store_ticket", "release"} : pc'[d] = p <=> pc[d] = p
            /\ pc'[d] \in PublishedPCs <=> pc[d] \in PublishedPCs
            /\ pc[d] = "join" => pc'[d] = "join"
      BY SMTT(30), Z3T(30), SMTT(60), <3>3, <3>5
    <3> QED
      BY <3>3, <3>4, <3>6
  <2> QED
    BY <2>1, <2>2
<1>14. ASSUME NEW w \in Workers, Park(w)
      PROVE  QuietStep
  BY <1>14 DEF Park
<1>16. ASSUME NEW w \in Workers, WaitForSingleObject(w)
      PROVE  QuietStep
  BY <1>16 DEF WaitForSingleObject
<1>17. ASSUME NEW w \in Workers, Interrupt(w)
      PROVE  QuietStep
  BY <1>17 DEF Interrupt
<1>18. ASSUME NEW w \in Workers, Unpark(w)
      PROVE  QuietStep
  BY <1>18 DEF Unpark
<1> QED
  BY <1>1, <1>2, <1>3, <1>4, <1>5, <1>6, <1>7, <1>8, <1>9, <1>10, <1>11,
      <1>12, <1>13, <1>14, <1>15, <1>16, <1>17, <1>18, <1>19 DEF LedgerStep,
      Next, CallerStep, WorkerStep, Work

\* The chunks of the ticket were counted in "dispatched" before it was stored.
LEMMA CountStep ==
  ASSUME TypeInv, [Next]_vars
  PROVE  CountOK'
<1>0. /\ SharedOK /\ CountOK /\ RequestOK /\ PCsOK
      /\ pc \in [Thread -> PCs] /\ Callers \subseteq Thread
      /\ request \in [Callers -> Requests \cup {NoRequest}]
  BY DEF TypeInv, TypeOK, LocalOK, Thread
<1>1. ASSUME NEW c \in Callers, SetJob(c)
      PROVE  CountOK'
  <2>1. \A d \in Callers : pc[d] # "idle" => CountOf(request[d]) \in Nat
    BY <1>0, PlanOf DEF RequestOK
  <2>2. /\ dispatched' = dispatched + CountOf(request[c])
        /\ UNCHANGED <<ticket, request>>
        /\ pc[c] # "idle" /\ pc' = [pc EXCEPT ![c] = "store_ticket"]
    BY <1>1 DEF SetJob, Goto, local
  <2>3. dispatched \in Nat /\ ticket.count \in Nat
    BY <1>0 DEF SharedOK
  <2>4. \A d \in Callers :
          pc'[d] = "store_ticket" => d = c \/ pc[d] = "store_ticket"
    BY <1>0, <2>2
  <2> QED
    BY SMTT(30), Z3T(30), <1>0, <2>1, <2>2, <2>3, <2>4 DEF CountOK
<1>2. ASSUME NEW c \in Callers, StoreTicket(c)
      PROVE  CountOK'
  BY <1>0, <1>2 DEF CountOK, StoreTicket, Goto, local
<1>3. ASSUME NEW t \in Thread, ClaimAdd(t)
      PROVE  CountOK'
  BY <1>0, <1>3 DEF CountOK, SharedOK, ClaimAdd, Goto, AfterWork
<1>4. ASSUME NEW t \in Thread, RunChunk(t) \/ CompleteChunk(t)
      PROVE  CountOK'
  BY <1>0, <1>4 DEF CountOK, RunChunk, CompleteChunk, Goto, shared, local
<1>5. ASSUME NEW c \in Callers, mtp_join(c) \/ mtp_pool_release(c)
      PROVE  CountOK'
  <2>1. UNCHANGED <<ticket, dispatched>>
    BY <1>5 DEF mtp_join, mtp_pool_release, shared
  <2>2. \A d \in Callers :
          pc'[d] = "store_ticket" => /\ pc[d] = "store_ticket"
                                     /\ request'[d] = request[d]
    BY <1>0, <1>5 DEF mtp_join, mtp_pool_release, Goto
  <2> QED
    BY <1>0, <2>1, <2>2 DEF CountOK
<1>6. CASE QuietStep
  BY <1>0, <1>6 DEF CountOK, QuietStep
<1> QED
  BY <1>1, <1>2, <1>3, <1>4, <1>5, <1>6, QuietOrLedger DEF LedgerStep

\* parked counts the workers inside mtp_park.
LEMMA ParkedStep ==
  ASSUME TypeInv, [Next]_vars
  PROVE  ParkedOK'
<1>0. /\ SharedOK /\ ParkedOK /\ PCsOK /\ StaffOK /\ pc \in [Thread -> PCs]
  BY DEF TypeInv, TypeOK, LocalOK
<1>1. ASSUME NEW w \in Workers, Park(w)
      PROVE  ParkedOK'
  <2>1. ParkedWorkers' = ParkedWorkers \cup {w} /\ w \notin ParkedWorkers
    BY <1>0, <1>1 DEF Park, Goto, ParkedWorkers, ParkedPCs, Thread
  <2> QED
    BY <1>0, <1>1, <2>1, ParkedFinite, FS_AddElement DEF Park, ParkedOK
<1>2. ASSUME NEW w \in Workers, Unpark(w)
      PROVE  ParkedOK'
  <2>1. ParkedWorkers' = ParkedWorkers \ {w} /\ w \in ParkedWorkers
    BY <1>0, <1>2 DEF Unpark, Goto, ParkedWorkers, ParkedPCs, Thread
  <2> QED
    BY <1>0, <1>2, <2>1, ParkedFinite, FS_RemoveElement DEF Unpark, ParkedOK
<1>3. ASSUME UNCHANGED parked,
             \A w \in Workers : pc'[w] \in ParkedPCs <=> pc[w] \in ParkedPCs
      PROVE  ParkedOK'
  <2>1. ParkedWorkers' = ParkedWorkers
    BY <1>3 DEF ParkedWorkers
  <2> QED
    BY <1>0, <1>3, <2>1 DEF ParkedOK
<1>4. ASSUME UNCHANGED parked, \A w \in Workers : pc'[w] = pc[w]
      PROVE  ParkedOK'
  BY <1>3, <1>4
<1>5. ASSUME NEW c \in Callers, mtp_pool_spawn_once(c)
      PROVE  ParkedOK'
  <2>1. UNCHANGED parked
    BY <1>5 DEF mtp_pool_spawn_once
  <2>2. CASE pc' = [pc EXCEPT ![c] = "staffed"]
    BY <1>0, <1>4, <2>1, <2>2, Disjoint DEF Thread
  <2>3. CASE workers + 1 < Threads /\ pc' = [pc EXCEPT ![workers] = "await"]
    <3>1. workers \in Workers /\ pc[workers] = "unborn"
      BY <1>0, <2>3, SpawnIndex DEF StaffOK
    <3> QED
      BY <1>0, <1>3, <2>1, <2>3, <3>1 DEF ParkedPCs, Thread
  <2> QED
    BY <1>5, <2>2, <2>3 DEF mtp_pool_spawn_once
<1>6. ASSUME NEW c \in Callers, NEW r \in Requests, mtp_dispatch(c, r)
      PROVE  ParkedOK'
  BY <1>0, <1>4, <1>6, Disjoint DEF mtp_dispatch, Goto, shared, Thread
<1>7. ASSUME NEW c \in Callers,
             \/ mtp_pool_acquire(c) \/ CheckWorkers(c) \/ InlineReturn(c)
             \/ SetJob(c) \/ StoreTicket(c) \/ StoreGeneration(c)
             \/ LoadParked(c) \/ StoreBudget(c) \/ mtp_join(c)
             \/ mtp_pool_release(c)
      PROVE  ParkedOK'
  <2>1. UNCHANGED parked /\ \A w \in Workers : pc'[w] = pc[w]
    BY <1>0, <1>7, Disjoint
    DEF mtp_pool_acquire, CheckWorkers, InlineReturn, SetJob, StoreTicket,
        StoreGeneration, LoadParked, StoreBudget, mtp_join, mtp_pool_release,
        Goto, shared, Thread
  <2> QED
    BY <1>4, <2>1
<1>8. ASSUME NEW t \in Thread,
             \/ ClaimLoad(t) \/ ClaimAdd(t) \/ RunChunk(t) \/ CompleteChunk(t)
             \/ WakeLoad(t) \/ WakeCas(t)
      PROVE  ParkedOK'
  <2>1. /\ UNCHANGED parked
        /\ pc[t] \notin ParkedPCs
        /\ \E p \in {"claim", "await", "join", "take", "run", "body",
                     "wake_cas", "wake_os"} : pc' = [pc EXCEPT ![t] = p]
    BY <1>8
    DEF ClaimLoad, ClaimAdd, RunChunk, CompleteChunk, WakeLoad, WakeCas, Goto,
        shared, AfterWork, AfterWake, ParkedPCs
  <2> QED
    BY <1>0, <1>3, <2>1 DEF ParkedPCs
<1>9. ASSUME NEW t \in Thread, mtp_os_wake(t)
      PROVE  ParkedOK'
  <2>1. UNCHANGED parked /\ pc[t] = "wake_os"
    BY <1>9 DEF mtp_os_wake
  <2>2. CASE WaitKind = "semaphore"
    BY <1>0, <1>3, <1>9, <2>1, <2>2
    DEF mtp_os_wake, AfterWake, ParkedPCs, Thread
  <2>3. CASE WaitKind # "semaphore"
    <3>1. PICK woken \in SUBSET Sleepers :
            pc' = [u \in Thread |-> IF u = t THEN AfterWake(t)
                                    ELSE IF u \in woken THEN "unpark"
                                    ELSE pc[u]]
      BY <1>9, <2>3 DEF mtp_os_wake
    <3>2. \A u \in woken : pc[u] = "asleep"
      BY DEF Sleepers
    <3> QED
      BY <1>3, <2>1, <3>1, <3>2 DEF AfterWake, ParkedPCs, Thread
  <2> QED
    BY <2>2, <2>3
<1>10. ASSUME NEW w \in Workers,
              \/ mtp_await_generation(w) \/ mtp_os_wait(w)
              \/ WaitForSingleObject(w) \/ Interrupt(w)
       PROVE  ParkedOK'
  <2>1. /\ UNCHANGED parked
        /\ \E p, q \in PCs : /\ pc[w] = p /\ pc' = [pc EXCEPT ![w] = q]
                             /\ p \in ParkedPCs <=> q \in ParkedPCs
    BY <1>10
    DEF mtp_await_generation, mtp_os_wait, WaitForSingleObject, Interrupt,
        Goto, shared, PCs, ParkedPCs
  <2> QED
    BY <1>0, <1>3, <2>1 DEF Thread
<1>11. CASE UNCHANGED vars
  BY <1>3, <1>11 DEF vars, shared
<1> QED
  BY <1>1, <1>2, <1>5, <1>6, <1>7, <1>8, <1>9, <1>10, <1>11
  DEF Next, CallerStep, WorkerStep, Work, Thread

\* Every step keeps the first layer.
LEMMA TypeStep ==
  ASSUME TypeInv, [Next]_vars
  PROVE  TypeInv'
  BY SharedStep, ControlStep, LocalStep, HistoryStep, FlagsStep, RequestStep,
     ParkedStep, CountStep
  DEF TypeInv, TypeOK

\* Types, control points, the staff of the pool, requests and the count of
\* parked workers are invariants of the pool.
THEOREM TypeInvariant == Spec => []TypeInv
<1>1. Init => TypeInv
  BY TypeInit
<1>2. TypeInv /\ [Next]_vars => TypeInv'
  BY TypeStep
<1> QED
  BY <1>1, <1>2, PTL DEF Spec

\* The type invariant of the pool holds for every set of callers, thread
\* count, set of requests, way of waiting and width of the generation word.
THEOREM TypeCorrect == Spec => []TypeOK
  BY TypeInvariant, PTL DEF TypeInv
=============================================================================
