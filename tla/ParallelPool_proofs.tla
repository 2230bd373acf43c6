-------------------------- MODULE ParallelPool_proofs -------------------------
(***************************************************************************)
(* The safety of the worker pool, in layers on top of the types: OwnerOK   *)
(* (one caller owns the pool), LedgerInv (which chunks are claimed, held   *)
(* and completed), BodyOK (what a body was given).                         *)
(***************************************************************************)
EXTENDS ParallelPoolType_proofs

(***************************************************************************)
(* Layer 2: busy is a lock.                                                *)
(***************************************************************************)
\* At the start nobody owns the pool.
LEMMA OwnerInit == Init => OwnerOK
  BY Disjoint DEF Init, OwnerOK, OwnerPCs, CallerPCs, Thread

\* busy is taken by one compare-and-exchange and given back by its owner only.
LEMMA OwnerStep ==
  ASSUME TypeInv, OwnerOK, [Next]_vars
  PROVE  OwnerOK'
<1>0. /\ SharedOK /\ PCsOK /\ pc \in [Thread -> PCs] /\ FlagsOK
      /\ Callers \subseteq Thread
  BY DEF TypeInv, TypeOK, LocalOK, Thread
<1>1. ASSUME UNCHANGED busy,
             \A c \in Callers : pc'[c] \in OwnerPCs <=> pc[c] \in OwnerPCs
      PROVE  OwnerOK'
  BY <1>1 DEF OwnerOK
<1>2. ASSUME NEW c \in Callers, mtp_pool_acquire(c), ~busy
      PROVE  OwnerOK'
  <2>1. \A d \in Callers : pc[d] \notin OwnerPCs
    BY <1>2 DEF OwnerOK
  <2>2. busy' = TRUE
    BY <1>2 DEF mtp_pool_acquire
  <2>3. pc' = [pc EXCEPT ![c] = "staffed"] \/ pc' = [pc EXCEPT ![c] = "spawn"]
    BY <1>2 DEF mtp_pool_acquire, Goto
  <2>4. /\ pc'[c] \in OwnerPCs
        /\ \A d \in Callers : d # c => pc'[d] \notin OwnerPCs
    BY <1>0, <2>1, <2>3 DEF OwnerPCs, CallerPCs
  <2> QED
    BY <2>2, <2>4 DEF OwnerOK
<1>3. ASSUME NEW c \in Callers, mtp_pool_acquire(c), busy
      PROVE  OwnerOK'
  BY <1>0, <1>1, <1>3 DEF mtp_pool_acquire, Goto, OwnerPCs
<1>4. ASSUME NEW c \in Callers, NEW p \in {"inline", "idle"},
             pc[c] \in OwnerPCs, pc' = [pc EXCEPT ![c] = p], busy' = FALSE
      PROVE  OwnerOK'
  <2>1. \A d \in Callers : pc[d] \in OwnerPCs => d = c
    BY <1>4 DEF OwnerOK
  <2>2. \A d \in Callers : pc'[d] \notin OwnerPCs
    BY <1>0, <1>4, <2>1 DEF OwnerPCs
  <2> QED
    BY <1>4, <2>2 DEF OwnerOK
<1>5. ASSUME NEW c \in Callers, CheckWorkers(c), workers = 0
      PROVE  OwnerOK'
  <2>1. ~(workers > 0)
    BY <1>5
  <2>2. pc[c] = "staffed" /\ pc' = [pc EXCEPT ![c] = "inline"] /\ busy' = FALSE
    BY <1>5, <2>1, Zenon DEF CheckWorkers, Goto
  <2> QED
    BY <1>4, <2>2 DEF OwnerPCs, CallerPCs
<1>6. ASSUME NEW c \in Callers, mtp_pool_release(c)
      PROVE  OwnerOK'
  BY <1>4, <1>6 DEF mtp_pool_release, Goto, OwnerPCs, CallerPCs
<1>7. ASSUME NEW c \in Callers, CheckWorkers(c), workers > 0
      PROVE  OwnerOK'
  BY <1>0, <1>1, <1>7 DEF CheckWorkers, Goto, OwnerPCs, CallerPCs
<1>8. ASSUME NEW c \in Callers, mtp_pool_spawn_once(c)
      PROVE  OwnerOK'
  BY <1>0, <1>1, <1>8, SpawnIndex
  DEF mtp_pool_spawn_once, OwnerPCs, CallerPCs
<1>9. ASSUME NEW c \in Callers, NEW r \in Requests, mtp_dispatch(c, r)
      PROVE  OwnerOK'
  BY <1>0, <1>1, <1>9 DEF mtp_dispatch, Goto, shared, OwnerPCs, CallerPCs
<1>a. ASSUME NEW t \in Thread, NEW q, Move(t, q), UNCHANGED busy,
             t \in Callers => (q \in OwnerPCs <=> pc[t] \in OwnerPCs)
      PROVE  OwnerOK'
  <2>1. \A c \in Callers : pc'[c] = IF c = t THEN q ELSE pc[c]
    BY <1>0, <1>a DEF Move
  <2> QED
    BY <1>1, <1>a, <2>1
<1>b. \A q \in {"store_ticket", "store_generation", "load_parked",
                "store_budget", "wake_load", "wake_cas", "wake_os", "claim",
                "take", "run", "body", "join", "release", "set_job"} :
        q \in OwnerPCs
  BY DEF OwnerPCs, CallerPCs
<1>10. ASSUME NEW c \in Callers,
              \/ InlineReturn(c) \/ SetJob(c) \/ StoreTicket(c)
              \/ StoreGeneration(c) \/ LoadParked(c) \/ StoreBudget(c)
              \/ mtp_join(c)
       PROVE  OwnerOK'
  <2>1. CASE InlineReturn(c)
    <3>1. pc[c] = "inline" /\ Move(c, "idle") /\ UNCHANGED busy
      BY <2>1 DEF InlineReturn, Goto, Move, shared
    <3> QED
      BY <1>0, <1>a, <3>1 DEF OwnerPCs
  <2>2. CASE SetJob(c) \/ StoreTicket(c) \/ StoreGeneration(c)
    <3>1. /\ pc[c] \in {"set_job", "store_ticket", "store_generation"}
          /\ UNCHANGED busy
          /\ \E q \in {"store_ticket", "store_generation", "load_parked"} :
               Move(c, q)
      BY <2>2 DEF SetJob, StoreTicket, StoreGeneration, Goto, Move
    <3> QED
      BY <1>0, <1>a, <1>b, <3>1
  <2>3. CASE LoadParked(c) \/ StoreBudget(c)
    <3>1. /\ pc[c] \in {"load_parked", "store_budget"} /\ UNCHANGED busy
          /\ \E q \in {"store_budget", "claim", "wake_load"} : Move(c, q)
      BY <2>3 DEF LoadParked, StoreBudget, Goto, Move, shared
    <3> QED
      BY <1>0, <1>a, <1>b, <3>1
  <2>4. CASE mtp_join(c)
    <3>1. /\ pc[c] = "join" /\ UNCHANGED busy
          /\ \E q \in {"join", "release"} : Move(c, q)
      BY <2>4 DEF mtp_join, Goto, Move, shared
    <3> QED
      BY <1>0, <1>a, <1>b, <3>1
  <2> QED
    BY <1>10, <2>1, <2>2, <2>3, <2>4
<1>11. ASSUME NEW t \in Thread,
              \/ ClaimLoad(t) \/ ClaimAdd(t) \/ RunChunk(t)
              \/ CompleteChunk(t) \/ WakeLoad(t) \/ WakeCas(t)
       PROVE  OwnerOK'
  <2>1. UNCHANGED busy
    BY <1>11 DEF ClaimLoad, ClaimAdd, RunChunk, CompleteChunk, WakeLoad, WakeCas,
                 shared
  <2>2. pc[t] \in {"claim", "take", "run", "body", "wake_load", "wake_cas"}
    BY <1>11 DEF ClaimLoad, ClaimAdd, RunChunk, CompleteChunk, WakeLoad, WakeCas,
                 Goto
  <2>3. PICK q \in {"take", "run", "body", "claim", "wake_cas", "wake_os",
                    AfterWork(t), AfterWake(t)} : Move(t, q)
    BY <1>11 DEF ClaimLoad, ClaimAdd, RunChunk, CompleteChunk, WakeLoad, WakeCas,
                 Goto, Move
  <2>4. t \in Callers => AfterWork(t) = "join" /\ AfterWake(t) = "claim"
    BY DEF AfterWork, AfterWake
  <2>5. t \in Callers => q \in OwnerPCs /\ pc[t] \in OwnerPCs
    BY <1>b, <2>2, <2>3, <2>4
  <2> QED
    BY <1>a, <2>1, <2>3, <2>5
<1>12. ASSUME NEW t \in Thread, mtp_os_wake(t)
       PROVE  OwnerOK'
  <2>1. UNCHANGED busy /\ pc[t] = "wake_os"
    BY <1>12 DEF mtp_os_wake
  <2>2. \A d \in Callers : pc'[d] = IF d = t THEN "claim" ELSE pc[d]
    BY <1>0, <1>12, Disjoint DEF mtp_os_wake, AfterWake, Sleepers, Thread
  <2> QED
    BY <1>1, <2>1, <2>2 DEF OwnerPCs, CallerPCs
<1>13. ASSUME NEW w \in Workers, WorkerStep(w) \/ Interrupt(w), ~Work(w)
       PROVE  OwnerOK'
  <2>1. UNCHANGED busy /\ \A d \in Callers : pc'[d] = pc[d]
    BY <1>0, <1>13, Disjoint
    DEF WorkerStep, mtp_await_generation, Park, mtp_os_wait,
        WaitForSingleObject, Unpark, Interrupt, Goto, shared
  <2> QED
    BY <1>1, <2>1
<1>14. CASE UNCHANGED vars
  BY <1>1, <1>14 DEF vars, shared
<1>15. ASSUME NEW c \in Callers, mtp_pool_acquire(c) \/ CheckWorkers(c)
       PROVE  OwnerOK'
  BY <1>0, <1>2, <1>3, <1>5, <1>7, <1>15 DEF CheckWorkers
<1> QED
  BY <1>6, <1>8, <1>9, <1>10, <1>11, <1>12, <1>13, <1>14, <1>15
  DEF Next, CallerStep, WorkerStep, Work, Thread

-----------------------------------------------------------------------------
(***************************************************************************)
(* Layer 3: the ledger.                                                    *)
(***************************************************************************)
\* At the start nothing is dispatched, claimed or completed.
LEMMA LedgerInit == Init => LedgerInv
<1> SUFFICES ASSUME Init PROVE LedgerInv
  OBVIOUS
<1>1. \A s \in Slots : finished[s] = {} /\ completed[s] = 0
  BY DEF Init
<1>2. \A t \in Thread : pc[t] \in {"idle", "unborn"}
  BY DEF Init
<1>3. Callers \subseteq Thread /\ dispatched = 0
  BY DEF Thread, Init
<1>4. Done = {}
  BY <1>1 DEF Done
<1>5. Holders = {}
  BY <1>2 DEF Holders
<1>6. LedgerOK
  BY <1>1, FS_EmptySet DEF LedgerOK
<1>7. QuietOK
  <2>1. Exhausted
    BY DEF Exhausted, Init
  <2>2. 0..(dispatched - 1) = {}
    BY <1>3
  <2> QED
    BY <1>4, <1>5, <2>1, <2>2 DEF QuietOK
<1>8. StoreTicketOK /\ PublishedOK
  BY <1>2, <1>3
  DEF StoreTicketOK, PublishedOK, PublishedPCs, OwnerPCs, CallerPCs
<1>9. JoinOK
  <2>1. \A c \in Callers : summed[c] = {} /\ total[c] = 0 /\ slot[c] = 0
    BY DEF Init
  <2>2. workers = 0
    BY DEF Init
  <2>3. \A c \in Callers : pc[c] \notin {"join", "release"}
    BY <1>2, <1>3
  <2>4. IsFiniteSet({}) /\ Cardinality({}) = 0
    BY FS_EmptySet
  <2>5. \A c \in Callers : /\ IsFiniteSet(summed[c])
                            /\ total[c] = Cardinality(summed[c])
    BY <2>1, <2>4
  <2>6. \A c \in Callers : /\ slot[c] <= workers /\ slot[c] = 0
                            /\ summed[c] \subseteq
                                 UNION {finished[s] : s \in 0..(slot[c] - 1)}
    BY <2>1, <2>2
  <2> QED
    BY <2>3, <2>5, <2>6 DEF JoinOK, JoinOf
<1> QED
  BY <1>6, <1>7, <1>8, <1>9 DEF LedgerInv

\* The types of what the ledger talks about.
LEMMA LedgerTypes ==
  ASSUME TypeInv
  PROVE  /\ dispatched \in Nat /\ ticket.next \in Nat /\ ticket.count \in Nat
         /\ ticket.count <= dispatched /\ workers \in Slots
         /\ Base \in Nat /\ Base + ticket.count = dispatched
         /\ Claimed \in Nat /\ Claimed <= ticket.count
         /\ \A t \in Thread : chunk[t] \in Nat /\ ChunkNumber(t) = Base + chunk[t]
         /\ Callers \subseteq Thread
         /\ pc \in [Thread -> PCs]
         /\ \A s \in Slots : s \in Int
<1>1. SharedOK /\ LocalOK /\ ticket.count <= dispatched
  BY DEF TypeInv, TypeOK, CountOK
<1>2. /\ dispatched \in Nat /\ ticket.next \in Nat /\ ticket.count \in Nat
      /\ workers \in Slots
  BY <1>1 DEF SharedOK
<1>3. \A t \in Thread : chunk[t] \in Nat
  BY <1>1 DEF LocalOK
<1>4. Base \in Nat /\ Base + ticket.count = dispatched
  BY <1>1, <1>2 DEF Base
<1>5. Claimed \in Nat /\ Claimed <= ticket.count
  BY <1>2 DEF Claimed
<1>6. \A t \in Thread : ChunkNumber(t) = Base + chunk[t]
  BY DEF ChunkNumber, Base
<1>7. \A s \in Slots : s \in Int
  BY DEF Slots
<1> QED
  BY <1>1, <1>2, <1>3, <1>4, <1>5, <1>6, <1>7 DEF LocalOK, Thread

\* A thread that holds a chunk does so for a caller that published it.
LEMMA Publisher ==
  ASSUME LedgerInv, Holders # {} \/ ~Exhausted
  PROVE  \E c \in Callers : pc[c] \in PublishedPCs
  BY DEF LedgerInv, QuietOK

\* A step that leaves a caller's sum and the counters alone, and takes it
\* neither out of the join nor to the release, keeps its part of JoinOK.
LEMMA SameJoin ==
  ASSUME NEW c \in Callers, JoinOf(c),
         slot'[c] = slot[c], total'[c] = total[c], summed'[c] = summed[c],
         finished' = finished, slot[c] <= workers',
         pc'[c] = "release" => pc[c] = "release" /\ dispatched' = dispatched,
         pc[c] = "join" => pc'[c] = "join"
  PROVE  JoinOf(c)'
<1>1. Done' = Done
  BY DEF Done
<1>2. UNION {finished'[s] : s \in 0..(slot'[c] - 1)} =
        UNION {finished[s] : s \in 0..(slot[c] - 1)}
  OBVIOUS
<1>3. /\ IsFiniteSet(summed'[c]) /\ total'[c] = Cardinality(summed'[c])
      /\ summed'[c] \subseteq UNION {finished'[s] : s \in 0..(slot'[c] - 1)}
  BY <1>2 DEF JoinOf
<1>4. /\ slot'[c] <= workers'
      /\ pc'[c] # "join" => slot'[c] = 0
      /\ pc'[c] = "release" => Done' = 0..(dispatched' - 1)
  BY <1>1 DEF JoinOf
<1> QED
  BY <1>3, <1>4 DEF JoinOf

\* A step that leaves the ticket, the counters and the holders alone, and
\* publishes nothing, keeps PublishedOK.
LEMMA SamePublished ==
  ASSUME PublishedOK, UNCHANGED <<job, ticket, dispatched, chunk, finished>>,
         Holders' = Holders,
         \A c \in Callers : pc'[c] \in PublishedPCs =>
                             pc[c] \in PublishedPCs /\ request'[c] = request[c]
  PROVE  PublishedOK'
<1>1. /\ Done' = Done /\ Base' = Base /\ Claimed' = Claimed
      /\ \A t : ChunkNumber(t)' = ChunkNumber(t)
  BY DEF Done, Base, Claimed, ChunkNumber
<1> SUFFICES ASSUME NEW c \in Callers, pc'[c] \in PublishedPCs
             PROVE  /\ ticket'.count = CountOf(request'[c])
                    /\ job' = JobOf(c)'
                    /\ \A n \in 0..(dispatched' - 1) :
                         n \in Done' <=> /\ n < Base' + Claimed'
                                         /\ \A t \in Holders' :
                                              ChunkNumber(t)' # n
                    /\ \A t \in Holders' : chunk'[t] < Claimed'
                    /\ \A t, u \in Holders' : chunk'[t] = chunk'[u] => t = u
  BY DEF PublishedOK
<1>2. pc[c] \in PublishedPCs /\ request'[c] = request[c]
  OBVIOUS
<1>3. JobOf(c)' = JobOf(c)
  BY <1>2 DEF JobOf
<1>4. ticket'.count = CountOf(request'[c]) /\ job' = JobOf(c)'
  BY <1>2, <1>3 DEF PublishedOK
<1>5. /\ \A n \in 0..(dispatched - 1) :
           n \in Done <=> /\ n < Base + Claimed
                          /\ \A t \in Holders : ChunkNumber(t) # n
      /\ \A t \in Holders : chunk[t] < Claimed
      /\ \A t, u \in Holders : chunk[t] = chunk[u] => t = u
  BY <1>2 DEF PublishedOK
<1> QED
  BY <1>1, <1>4, <1>5

\* A step that leaves the ledger's variables alone keeps the ledger.
LEMMA QuietLedger ==
  ASSUME TypeInv, OwnerOK, LedgerInv, QuietStep
  PROVE  LedgerInv'
<1>0. /\ workers \in Int
      /\ UNCHANGED <<job, ticket, dispatched, completed, chunk, slot, total,
                     finished, summed>>
  BY LedgerTypes DEF QuietStep
<1>1. Holders' = Holders
  BY DEF QuietStep, Holders
<1>2. Done' = Done /\ Base' = Base /\ Claimed' = Claimed /\ Exhausted' = Exhausted
  BY <1>0 DEF Done, Base, Claimed, Exhausted
<1>3. \A t : ChunkNumber(t)' = ChunkNumber(t)
  BY <1>0 DEF ChunkNumber
<1>4. \A c \in Callers : pc[c] \in PublishedPCs \cup {"store_ticket"} =>
        JobOf(c)' = JobOf(c) /\ request'[c] = request[c]
  BY DEF QuietStep, JobOf
<1>5. LedgerOK'
  BY <1>0 DEF LedgerInv, LedgerOK
<1>6. QuietOK'
  BY <1>0, <1>1, <1>2 DEF LedgerInv, QuietOK, QuietStep
<1>7. StoreTicketOK'
  BY <1>0, <1>2, <1>4 DEF LedgerInv, StoreTicketOK, QuietStep
<1>8. PublishedOK'
  BY <1>0, <1>1, SamePublished DEF LedgerInv, QuietStep
<1>9. JoinOK'
  <2>1. \A c \in Callers : JoinOf(c) /\ slot[c] \in Int
    BY LedgerTypes DEF LedgerInv, JoinOK, TypeInv, TypeOK, LocalOK
  <2>2. workers' >= workers /\ workers' \in Int
    BY SMTT(30), Z3T(30), <1>0 DEF QuietStep
  <2>3. \A c \in Callers : slot[c] <= workers'
    BY SMTT(30), Z3T(30), <1>0, <2>1, <2>2 DEF JoinOf
  <2>4. \A c \in Callers : JoinOf(c)'
    BY <1>0, <2>1, <2>3, SameJoin DEF QuietStep
  <2> QED
    BY <2>4 DEF JoinOK
<1> QED
  BY <1>5, <1>6, <1>7, <1>8, <1>9 DEF LedgerInv

\* The owner is alone: the pool of a caller that is about to publish is quiet.
LEMMA OnlyOwner ==
  ASSUME OwnerOK, NEW c \in Callers, pc[c] \in OwnerPCs,
         NEW d \in Callers, pc[d] \in OwnerPCs
  PROVE  d = c
  BY DEF OwnerOK

\* mtp_dispatch copies the job while nobody holds a chunk.
LEMMA SetJobLedger ==
  ASSUME TypeInv, OwnerOK, LedgerInv, NEW c \in Callers, SetJob(c)
  PROVE  LedgerInv'
<1> DEFINE N == CountOf(request[c])
<1>0. /\ pc[c] = "set_job" /\ pc' = [pc EXCEPT ![c] = "store_ticket"]
      /\ job' = JobOf(c) /\ dispatched' = dispatched + N
      /\ UNCHANGED <<ticket, workers, completed, request, chunk, slot, total,
                     finished, summed>>
  BY DEF SetJob, Goto, JobOf, local
<1>1. N \in Nat /\ N >= 2
  <2>1. pc[c] \in OwnerPCs /\ pc[c] # "idle"
    BY <1>0 DEF OwnerPCs, CallerPCs
  <2> QED
    BY <2>1, PlanOf DEF TypeInv, RequestOK
<1>2. \A d \in Callers :
        d # c => pc[d] \notin OwnerPCs /\ pc'[d] = pc[d]
  BY <1>0, OnlyOwner, LedgerTypes DEF OwnerPCs, CallerPCs
<1>3. \A d \in Callers : pc[d] \notin PublishedPCs /\ pc[d] # "store_ticket"
  BY <1>0, <1>2 DEF PublishedPCs, OwnerPCs, CallerPCs
<1>4. Holders = {} /\ Exhausted /\ Done = 0..(dispatched - 1)
  BY <1>3 DEF LedgerInv, QuietOK
<1>5. Holders' = {}
  BY <1>0, <1>4, LedgerTypes DEF Holders
<1>6. Exhausted' /\ Done' = Done
  BY <1>0, <1>4 DEF Exhausted, Done
<1>7. pc'[c] = "store_ticket"
  BY <1>0, LedgerTypes
<1>8. \A d \in Callers : pc'[d] \notin PublishedPCs \cup {"join", "release"}
  BY <1>2, <1>3, <1>7 DEF PublishedPCs, OwnerPCs, CallerPCs
<1>9. LedgerOK'
  <2>1. 0..(dispatched - 1) \subseteq 0..(dispatched' - 1)
    <3>1. dispatched \in Nat /\ dispatched' = dispatched + N
      BY <1>0, LedgerTypes
    <3> HIDE DEF N
    <3> QED
      BY <1>1, <3>1
  <2>2. \A s \in Slots : finished[s] \subseteq 0..(dispatched' - 1)
    BY <2>1 DEF LedgerInv, LedgerOK
  <2> QED
    BY <1>0, <2>2 DEF LedgerInv, LedgerOK
<1>10. QuietOK'
  BY <1>5, <1>6, <1>7 DEF QuietOK
<1>11. StoreTicketOK'
  <2>1. Done = 0..(dispatched' - CountOf(request'[c]) - 1)
    <3>1. /\ dispatched \in Nat /\ dispatched' = dispatched + N
          /\ CountOf(request'[c]) = N
      BY <1>0, LedgerTypes
    <3> HIDE DEF N
    <3>2. dispatched' - CountOf(request'[c]) - 1 = dispatched - 1
      BY <1>1, <3>1
    <3> QED
      BY <1>4, <3>2
  <2>2. job' = JobOf(c)'
    BY <1>0 DEF JobOf
  <2>3. \A d \in Callers : pc'[d] = "store_ticket" => d = c
    BY <1>2, <1>3
  <2> QED
    BY <1>6, <2>1, <2>2, <2>3 DEF StoreTicketOK
<1>12. PublishedOK'
  BY <1>8 DEF PublishedOK
<1>13. JoinOK'
  <2>1. \A d \in Callers : pc[d] # "join"
    BY <1>3 DEF PublishedPCs, OwnerPCs, CallerPCs
  <2>2. \A d \in Callers : JoinOf(d) /\ slot[d] <= workers
    BY DEF LedgerInv, JoinOK, JoinOf
  <2>3. \A d \in Callers : pc'[d] # "release"
    BY <1>8
  <2>4. \A d \in Callers : JoinOf(d)'
    BY <1>0, <2>1, <2>2, <2>3, SameJoin
  <2> QED
    BY <2>4 DEF JoinOK
<1> QED
  BY <1>9, <1>10, <1>11, <1>12, <1>13 DEF LedgerInv

\* mtp_publish stores the ticket: the new chunks are numbered after all before.
LEMMA StoreTicketLedger ==
  ASSUME TypeInv, OwnerOK, LedgerInv, NEW c \in Callers, StoreTicket(c)
  PROVE  LedgerInv'
<1> DEFINE N == CountOf(request[c])
<1>0. /\ pc[c] = "store_ticket" /\ pc' = [pc EXCEPT ![c] = "store_generation"]
      /\ ticket' = [next |-> 0, count |-> N]
      /\ UNCHANGED <<job, dispatched, workers, completed, request, chunk, slot,
                     total, finished, summed>>
  BY DEF StoreTicket, Goto, local, history
<1>1. N \in Nat /\ N >= 2 /\ N <= dispatched
  <2>1. pc[c] \in OwnerPCs /\ pc[c] # "idle"
    BY <1>0 DEF OwnerPCs, CallerPCs
  <2> QED
    BY <1>0, <2>1, PlanOf DEF TypeInv, RequestOK, CountOK
<1>2. \A d \in Callers :
        d # c => pc[d] \notin OwnerPCs /\ pc'[d] = pc[d]
  BY <1>0, OnlyOwner, LedgerTypes DEF OwnerPCs, CallerPCs
<1>3. \A d \in Callers : pc[d] \notin PublishedPCs
  BY <1>0, <1>2 DEF PublishedPCs, OwnerPCs, CallerPCs
<1>4. Holders = {} /\ Done = 0..(dispatched - N - 1) /\ job = JobOf(c)
  BY <1>0, <1>3 DEF LedgerInv, QuietOK, StoreTicketOK
<1>5. Holders' = {}
  BY <1>0, <1>4, LedgerTypes DEF Holders
<1>6. Done' = Done /\ Base' = dispatched - N /\ Claimed' = 0
  <2>1. Done' = Done
    BY <1>0 DEF Done
  <2>2. /\ ticket'.next = 0 /\ ticket'.count = N /\ dispatched' = dispatched
        /\ 0 < N
    <3>1. 0 < N
      BY <1>1
    <3> QED
      BY <1>0, <3>1
  <2> HIDE DEF N
  <2>3. Base' = dispatched - N
    BY <2>2 DEF Base
  <2>4. Claimed' = 0
    BY <2>2 DEF Claimed
  <2> QED
    BY <2>1, <2>3, <2>4
<1>7. pc'[c] = "store_generation"
  BY <1>0, LedgerTypes
<1>8. \A d \in Callers :
        /\ pc'[d] \notin {"store_ticket", "join", "release"}
        /\ d # c => pc'[d] \notin PublishedPCs
  BY <1>2, <1>3, <1>7 DEF PublishedPCs, OwnerPCs, CallerPCs
<1>9. LedgerOK'
  BY <1>0 DEF LedgerInv, LedgerOK
<1>10. QuietOK'
  BY <1>7 DEF QuietOK, PublishedPCs, OwnerPCs, CallerPCs
<1>11. StoreTicketOK'
  BY <1>8 DEF StoreTicketOK
<1>12. PublishedOK'
  <2>1. job' = JobOf(c)' /\ ticket'.count = CountOf(request'[c])
    BY <1>0, <1>4 DEF JobOf
  <2>2. \A n \in 0..(dispatched' - 1) : n \in Done' <=> n < Base' + Claimed'
    <3>1. dispatched \in Nat /\ dispatched' = dispatched
      BY <1>0, LedgerTypes
    <3> HIDE DEF N
    <3>2. \A n \in 0..(dispatched - 1) :
            n \in 0..(dispatched - N - 1) <=> n < dispatched - N + 0
      BY <1>1, <3>1
    <3> QED
      BY <1>4, <1>6, <3>1, <3>2
  <2> QED
    BY <1>5, <1>8, <2>1, <2>2 DEF PublishedOK
<1>13. JoinOK'
  <2>1. \A d \in Callers : pc[d] # "join"
    BY <1>3 DEF PublishedPCs, OwnerPCs, CallerPCs
  <2>2. \A d \in Callers : JoinOf(d) /\ slot[d] <= workers
    BY DEF LedgerInv, JoinOK, JoinOf
  <2>3. \A d \in Callers : pc'[d] # "release"
    BY <1>7, <1>8, <1>3 DEF PublishedPCs, OwnerPCs, CallerPCs
  <2>4. \A d \in Callers : JoinOf(d)'
    BY <1>0, <2>1, <2>2, <2>3, SameJoin
  <2> QED
    BY <2>4 DEF JoinOK
<1> QED
  BY <1>9, <1>10, <1>11, <1>12, <1>13 DEF LedgerInv

\* mtp_claim's fetch-and-add gives its chunk to one thread, or to none.
LEMMA ClaimAddLedger ==
  ASSUME TypeInv, OwnerOK, LedgerInv, NEW t \in Thread, ClaimAdd(t)
  PROVE  LedgerInv'
<1>0. /\ pc[t] = "take"
      /\ pc' = [pc EXCEPT ![t] = IF Exhausted THEN AfterWork(t) ELSE "run"]
      /\ ticket' = [ticket EXCEPT !.next = @ + 1]
      /\ chunk' = [chunk EXCEPT ![t] = IF Exhausted THEN @ ELSE ticket.next]
      /\ UNCHANGED <<job, dispatched, workers, completed, request, slot, total,
                     finished, summed>>
  BY DEF ClaimAdd, Goto, history
<1>1. /\ ticket'.next = ticket.next + 1 /\ ticket'.count = ticket.count
      /\ \A u \in Thread : u # t => chunk'[u] = chunk[u] /\ pc'[u] = pc[u]
  BY <1>0, LedgerTypes DEF TypeInv, TypeOK, SharedOK, LocalOK
<1>2. Done' = Done /\ Base' = Base
  BY <1>0, <1>1 DEF Done, Base
<1>3. /\ pc'[t] \notin {"store_ticket", "release", "body"}
      /\ t \in Callers => pc[t] \in PublishedPCs /\ pc'[t] \in PublishedPCs
  BY <1>0, LedgerTypes
  DEF AfterWork, PublishedPCs, OwnerPCs, CallerPCs
<1>4. \A d \in Callers :
        /\ pc'[d] \in PublishedPCs <=> pc[d] \in PublishedPCs
        /\ pc'[d] = "store_ticket" <=> pc[d] = "store_ticket"
        /\ pc'[d] = "release" <=> pc[d] = "release"
        /\ pc[d] = "join" => pc'[d] = "join"
  BY <1>0, <1>1, <1>3, LedgerTypes
<1>5. \A d : JobOf(d)' = JobOf(d)
  BY <1>0 DEF JobOf
<1>6. LedgerOK' /\ StoreTicketOK' /\ JoinOK'
  BY <1>0, <1>2, <1>4, <1>5 DEF LedgerInv, LedgerOK, StoreTicketOK, JoinOK, JoinOf
<1>7. CASE Exhausted
  <2>1. Exhausted' /\ Claimed' = Claimed
    <3>1. /\ ticket.next \in Nat /\ ticket.count \in Nat
          /\ ticket.next >= ticket.count
      BY <1>7, LedgerTypes DEF Exhausted
    <3> QED
      BY SMTT(30), Z3T(30), SMTT(60), <1>1, <3>1 DEF Exhausted, Claimed
  <2>2. Holders' = Holders
    BY <1>0, <1>1, <1>7, LedgerTypes DEF Holders, AfterWork
  <2>3. \A u \in Thread : chunk'[u] = chunk[u] /\ ChunkNumber(u)' = ChunkNumber(u)
    BY <1>0, <1>1, <1>7, LedgerTypes DEF ChunkNumber
  <2>4. \A u \in Holders : u \in Thread
    BY DEF Holders
  <2>5. QuietOK'
    BY <1>0, <1>2, <1>4, <2>1, <2>2 DEF LedgerInv, QuietOK
  <2>6. PublishedOK'
    BY <1>0, <1>1, <1>2, <1>4, <1>5, <2>1, <2>2, <2>3, <2>4
    DEF LedgerInv, PublishedOK
  <2> QED
    BY <1>6, <2>5, <2>6 DEF LedgerInv
<1>8. CASE ~Exhausted
  <2>1. Claimed = ticket.next /\ Claimed' = ticket.next + 1
    <3>1. /\ ticket.next \in Nat /\ ticket.count \in Nat
          /\ ~(ticket.next >= ticket.count)
      BY <1>8, LedgerTypes DEF Exhausted
    <3> QED
      BY SMTT(30), Z3T(30), SMTT(60), <1>1, <3>1 DEF Claimed
  <2>2. Holders' = Holders \cup {t} /\ t \notin Holders
    BY <1>0, <1>1, <1>8, LedgerTypes DEF Holders
  <2>3. \A u \in Holders : /\ u \in Thread /\ u # t /\ chunk'[u] = chunk[u]
                           /\ ChunkNumber(u)' = ChunkNumber(u)
    BY <1>0, <1>1, <2>2 DEF ChunkNumber, Holders
  <2>4. chunk'[t] = ticket.next /\ ChunkNumber(t)' = Base + ticket.next
    BY <1>0, <1>1, <1>8 DEF ChunkNumber, Base, TypeInv, TypeOK, LocalOK
  <2>5. PICK c \in Callers : pc[c] \in PublishedPCs
    BY <1>8, Publisher
  <2>6. QuietOK'
    BY <1>4, <2>5 DEF QuietOK
  <2>7. ASSUME NEW d \in Callers, pc'[d] \in PublishedPCs
        PROVE  /\ \A n \in 0..(dispatched' - 1) :
                    n \in Done' <=> /\ n < Base' + Claimed'
                                    /\ \A u \in Holders' : ChunkNumber(u)' # n
               /\ \A u \in Holders' : chunk'[u] < Claimed'
               /\ \A u, v \in Holders' : chunk'[u] = chunk'[v] => u = v
    <3>1. /\ \A n \in 0..(dispatched - 1) :
               n \in Done <=> /\ n < Base + Claimed
                              /\ \A u \in Holders : ChunkNumber(u) # n
          /\ \A u \in Holders : chunk[u] < Claimed
          /\ \A u, v \in Holders : chunk[u] = chunk[v] => u = v
      BY <1>4, <2>7 DEF LedgerInv, PublishedOK
    <3>2. \A u \in Holders : chunk[u] \in Nat
      BY <2>3, LedgerTypes
    <3>a. ticket.next \in Nat
      BY LedgerTypes
    <3>b. \A u \in Holders : chunk'[u] \in Nat /\ chunk'[u] < ticket.next
      BY <2>1, <2>3, <3>1, <3>2
    <3>c. \A u \in Holders' : u = t \/ u \in Holders
      BY <2>2
    <3>3. \A u \in Holders' : chunk'[u] < Claimed'
      BY <2>1, <2>4, <3>a, <3>b, <3>c
    <3>d. \A u \in Holders : chunk'[u] # chunk'[t]
      BY <2>4, <3>a, <3>b
    <3>e. \A u, v \in Holders : chunk'[u] = chunk'[v] => u = v
      BY <2>3, <3>1
    <3>4. \A u, v \in Holders' : chunk'[u] = chunk'[v] => u = v
      BY Zenon, <3>c, <3>d, <3>e
    <3>5. ASSUME NEW n \in 0..(dispatched - 1)
          PROVE  n \in Done <=> /\ n < Base + ticket.next + 1
                                /\ \A u \in Holders' : ChunkNumber(u)' # n
      <4>1. n \in Done <=> /\ n < Base + ticket.next
                           /\ \A u \in Holders : ChunkNumber(u) # n
        BY <2>1, <3>1
      <4>2. (\A u \in Holders' : ChunkNumber(u)' # n) <=>
              /\ \A u \in Holders : ChunkNumber(u) # n
              /\ n # Base + ticket.next
        BY <2>2, <2>3, <2>4
      <4>3. n < Base + ticket.next + 1 /\ n # Base + ticket.next
              <=> n < Base + ticket.next
        BY SMTT(30), Z3T(30), LedgerTypes
      <4> QED
        BY <4>1, <4>2, <4>3
    <3>6. Base' + Claimed' = Base + ticket.next + 1
      BY SMTT(30), Z3T(30), <1>2, <2>1, LedgerTypes
    <3> QED
      BY <1>0, <1>2, <3>3, <3>4, <3>5, <3>6
  <2>8. PublishedOK'
    BY <1>0, <1>1, <1>4, <1>5, <2>7 DEF LedgerInv, PublishedOK
  <2> QED
    BY <1>6, <2>6, <2>8 DEF LedgerInv
<1> QED
  BY <1>7, <1>8

\* Running a chunk neither claims nor completes one.
LEMMA RunChunkLedger ==
  ASSUME TypeInv, OwnerOK, LedgerInv, NEW t \in Thread, RunChunk(t)
  PROVE  LedgerInv'
<1>0. /\ pc[t] = "run" /\ pc' = [pc EXCEPT ![t] = "body"]
      /\ UNCHANGED <<job, ticket, dispatched, workers, completed, request,
                     chunk, slot, total, finished, summed>>
  BY DEF RunChunk, Goto, shared, local
<1>1. Holders' = Holders
  BY <1>0, LedgerTypes DEF Holders
<1>2. /\ Done' = Done /\ Base' = Base /\ Claimed' = Claimed
      /\ Exhausted' = Exhausted
  BY <1>0 DEF Done, Base, Claimed, Exhausted
<1>3. \A u : ChunkNumber(u)' = ChunkNumber(u) /\ JobOf(u)' = JobOf(u)
  BY <1>0 DEF ChunkNumber, JobOf
<1>4. \A d \in Callers :
        /\ pc'[d] \in PublishedPCs <=> pc[d] \in PublishedPCs
        /\ pc'[d] = "store_ticket" <=> pc[d] = "store_ticket"
        /\ pc'[d] = "release" <=> pc[d] = "release"
        /\ pc[d] = "join" => pc'[d] = "join"
  BY <1>0, LedgerTypes DEF PublishedPCs, OwnerPCs, CallerPCs
<1>5. LedgerOK'
  BY <1>0 DEF LedgerInv, LedgerOK
<1>6. StoreTicketOK'
  BY <1>0, <1>2, <1>3, <1>4 DEF LedgerInv, StoreTicketOK
<1>7. JoinOK'
  <2>1. \A d \in Callers : JoinOf(d) /\ slot[d] <= workers
    BY DEF LedgerInv, JoinOK, JoinOf
  <2>2. \A d \in Callers : JoinOf(d)'
    BY <1>0, <1>4, <2>1, SameJoin
  <2> QED
    BY <2>2 DEF JoinOK
<1>8. QuietOK'
  BY <1>0, <1>1, <1>2, <1>4 DEF LedgerInv, QuietOK
<1>9. PublishedOK'
  BY <1>0, <1>1, <1>4, SamePublished DEF LedgerInv
<1> QED
  BY <1>5, <1>6, <1>7, <1>8, <1>9 DEF LedgerInv

\* mtp_work counts the chunk in its own slot and lets go of it.
LEMMA CompleteChunkLedger ==
  ASSUME TypeInv, OwnerOK, LedgerInv, NEW t \in Thread, CompleteChunk(t)
  PROVE  LedgerInv'
<1> DEFINE s0 == SlotOf(t)
           n0 == ChunkNumber(t)
<1>0. /\ pc[t] = "body" /\ pc' = [pc EXCEPT ![t] = "claim"]
      /\ completed' = [completed EXCEPT ![s0] = @ + 1]
      /\ chunk' = [chunk EXCEPT ![t] = 0]
      /\ finished' = [finished EXCEPT ![s0] = @ \cup {n0}]
      /\ UNCHANGED <<job, ticket, dispatched, workers, request, slot, total,
                     summed>>
  BY DEF CompleteChunk, Goto
<1>1. /\ s0 \in Slots /\ completed \in [Slots -> Nat]
      /\ finished \in [Slots -> SUBSET Nat] /\ chunk \in [Thread -> Nat]
  BY SlotInArray DEF TypeInv, TypeOK, SharedOK, LocalOK, HistoryOK
<1>2. /\ Holders' = Holders \ {t} /\ t \in Holders
      /\ \A u \in Holders' : u \in Holders /\ u # t /\ u \in Thread
  BY <1>0, LedgerTypes DEF Holders
<1>3. PICK c \in Callers : pc[c] \in PublishedPCs
  BY <1>2, Publisher
<1>4. /\ \A n \in 0..(dispatched - 1) :
           n \in Done <=> /\ n < Base + Claimed
                          /\ \A u \in Holders : ChunkNumber(u) # n
      /\ \A u \in Holders : chunk[u] < Claimed
      /\ \A u, v \in Holders : chunk[u] = chunk[v] => u = v
  BY <1>3 DEF LedgerInv, PublishedOK
<1>5. n0 = Base + chunk[t] /\ chunk[t] \in Nat /\ chunk[t] < Claimed
  BY <1>2, <1>4, LedgerTypes
<1>6. n0 \in 0..(dispatched - 1) /\ n0 < Base + Claimed
  <2>1. /\ Base \in Nat /\ Claimed \in Nat /\ dispatched \in Nat
        /\ Base + Claimed <= dispatched
    BY LedgerTypes
  <2> HIDE DEF n0
  <2> QED
    BY <1>5, <2>1
<1>7. n0 \notin Done
  BY <1>2, <1>4, <1>6
<1>8. \A s \in Slots : n0 \notin finished[s]
  BY <1>7 DEF Done
<1> HIDE DEF s0, n0
<1>9. \A s \in Slots :
        /\ finished'[s] = IF s = s0 THEN finished[s] \cup {n0} ELSE finished[s]
        /\ completed'[s] = IF s = s0 THEN completed[s] + 1 ELSE completed[s]
  BY <1>0, <1>1
<1>10. Done' = Done \cup {n0}
  <2>1. \A n : n \in Done' <=> \E s \in Slots : n \in finished'[s]
    BY DEF Done
  <2>2. \A n : n \in Done <=> \E s \in Slots : n \in finished[s]
    BY DEF Done
  <2> QED
    BY <1>1, <1>9, <2>1, <2>2
<1>11. /\ Base' = Base /\ Claimed' = Claimed /\ Exhausted' = Exhausted
       /\ \A d : JobOf(d)' = JobOf(d)
  BY <1>0 DEF Base, Claimed, Exhausted, JobOf
<1>12. \A u \in Holders' : chunk'[u] = chunk[u] /\ ChunkNumber(u)' = ChunkNumber(u)
  BY <1>0, <1>1, <1>2 DEF ChunkNumber
<1>13. \A d \in Callers :
         /\ pc'[d] \in PublishedPCs <=> pc[d] \in PublishedPCs
         /\ pc'[d] = "store_ticket" <=> pc[d] = "store_ticket"
         /\ pc'[d] = "release" <=> pc[d] = "release"
         /\ pc[d] = "join" => pc'[d] = "join"
  BY <1>0, LedgerTypes DEF PublishedPCs, OwnerPCs, CallerPCs
<1>14. LedgerOK'
  <2>1. ASSUME NEW s \in Slots
        PROVE  /\ IsFiniteSet(finished'[s])
               /\ completed'[s] = Cardinality(finished'[s])
               /\ finished'[s] \subseteq 0..(dispatched' - 1)
    <3>1. /\ IsFiniteSet(finished[s]) /\ completed[s] = Cardinality(finished[s])
          /\ finished[s] \subseteq 0..(dispatched - 1)
      BY DEF LedgerInv, LedgerOK
    <3>2. /\ IsFiniteSet(finished[s] \cup {n0})
          /\ Cardinality(finished[s] \cup {n0}) = Cardinality(finished[s]) + 1
      BY <1>8, <3>1, FS_AddElement
    <3>3. dispatched' = dispatched
      BY <1>0
    <3> QED
      BY <1>6, <1>9, <3>1, <3>2, <3>3
  <2>2. \A r, s \in Slots : r # s => finished'[r] \cap finished'[s] = {}
    BY <1>8, <1>9 DEF LedgerInv, LedgerOK
  <2> QED
    BY <2>1, <2>2 DEF LedgerOK
<1>15. QuietOK'
  BY <1>3, <1>13 DEF QuietOK
<1>16. StoreTicketOK'
  <2>1. \A d \in Callers : pc[d] # "store_ticket"
    BY <1>3, OnlyOwner DEF PublishedPCs, OwnerPCs, CallerPCs
  <2> QED
    BY <1>13, <2>1 DEF StoreTicketOK
<1>17. PublishedOK'
  <2>1. ASSUME NEW n \in 0..(dispatched - 1)
        PROVE  n \in Done' <=> /\ n < Base + Claimed
                               /\ \A u \in Holders' : ChunkNumber(u) # n
    <3>1. CASE n = n0
      <4>1. \A u \in Holders' : ChunkNumber(u) # n0
        <5>1. \A u \in Holders' : ChunkNumber(u) = Base + chunk[u]
                                  /\ chunk[u] \in Nat /\ chunk[u] # chunk[t]
          BY <1>2, <1>4, LedgerTypes
        <5> QED
          BY SMTT(30), Z3T(30), <1>5, <5>1, LedgerTypes
      <4> QED
        BY <1>6, <1>10, <3>1, <4>1
    <3>2. CASE n # n0
      <4>1. (\A u \in Holders' : ChunkNumber(u) # n) <=>
              \A u \in Holders : ChunkNumber(u) # n
        BY <1>2, <3>2 DEF n0
      <4> QED
        BY <1>4, <1>10, <3>2, <4>1
    <3> QED
      BY <3>1, <3>2
  <2>2. \A u \in Holders' : chunk'[u] < Claimed'
    BY <1>2, <1>4, <1>11, <1>12
  <2>3. \A u, v \in Holders' : chunk'[u] = chunk'[v] => u = v
    BY <1>2, <1>4, <1>12
  <2>4. \A n \in 0..(dispatched' - 1) :
          n \in Done' <=> /\ n < Base' + Claimed'
                          /\ \A u \in Holders' : ChunkNumber(u)' # n
    BY <1>0, <1>11, <1>12, <2>1
  <2> QED
    BY <1>0, <1>11, <1>13, <2>2, <2>3, <2>4 DEF LedgerInv, PublishedOK
<1>18. JoinOK'
  <2>1. ASSUME NEW d \in Callers
        PROVE  summed[d] \subseteq
                 UNION {finished'[s] : s \in 0..(slot[d] - 1)}
    <3>1. /\ summed[d] \subseteq UNION {finished[s] : s \in 0..(slot[d] - 1)}
          /\ slot[d] \in Slots
      BY DEF LedgerInv, JoinOK, JoinOf, TypeInv, TypeOK, LocalOK
    <3>2. \A s \in 0..(slot[d] - 1) : s \in Slots
      <4>1. Threads \in Int /\ slot[d] \in 0..(Threads - 1)
        <5>1. slot[d] \in Slots
          BY <3>1
        <5> QED
          BY <5>1, ConstantsAssumption DEF Slots
      <4> QED
        BY <4>1 DEF Slots
    <3>3. \A s \in 0..(slot[d] - 1) : finished[s] \subseteq finished'[s]
      BY <1>9, <3>2
    <3> QED
      BY <3>1, <3>3
  <2>2. \A d \in Callers : pc'[d] = "release" => Done' = 0..(dispatched' - 1)
    BY <1>0, <1>6, <1>10, <1>13 DEF LedgerInv, JoinOK, JoinOf
  <2> QED
    BY <1>0, <1>13, <2>1, <2>2 DEF LedgerInv, JoinOK, JoinOf
<1> QED
  BY <1>14, <1>15, <1>16, <1>17, <1>18 DEF LedgerInv

\* One load of mtp_completed adds the chunks of one slot, none of which the sum
\* has counted already.
LEMMA SumOneSlot ==
  ASSUME TypeInv, LedgerInv, NEW c \in Callers
  PROVE  /\ IsFiniteSet(summed[c] \cup finished[slot[c]])
         /\ Cardinality(summed[c] \cup finished[slot[c]]) =
              total[c] + completed[slot[c]]
         /\ summed[c] \cup finished[slot[c]] \subseteq
              UNION {finished[s] : s \in 0..slot[c]}
         /\ summed[c] \cup finished[slot[c]] \subseteq Done
<1>1. slot[c] \in Slots /\ \A s \in 0..slot[c] : s \in Slots
  BY SMTT(30), Z3T(30), ConstantsAssumption DEF TypeInv, TypeOK, LocalOK, Slots
<1>2. /\ IsFiniteSet(summed[c]) /\ total[c] = Cardinality(summed[c])
      /\ summed[c] \subseteq UNION {finished[s] : s \in 0..(slot[c] - 1)}
  BY DEF LedgerInv, JoinOK, JoinOf
<1>3. /\ IsFiniteSet(finished[slot[c]])
      /\ completed[slot[c]] = Cardinality(finished[slot[c]])
  BY <1>1 DEF LedgerInv, LedgerOK
<1>4. \A s \in 0..(slot[c] - 1) : /\ s \in Slots /\ s # slot[c]
                                  /\ s \in 0..slot[c]
  BY <1>1 DEF Slots
<1>5. \A s \in 0..(slot[c] - 1) : finished[s] \cap finished[slot[c]] = {}
  BY <1>1, <1>4 DEF LedgerInv, LedgerOK
<1>6. summed[c] \cap finished[slot[c]] = {}
  BY SMTT(30), Z3T(30), <1>2, <1>5
<1>7. Cardinality(summed[c] \cap finished[slot[c]]) = 0
  BY <1>6, FS_EmptySet
<1>8. total[c] \in Nat /\ completed[slot[c]] \in Nat
  BY <1>1 DEF TypeInv, TypeOK, LocalOK, SharedOK
<1>9. slot[c] \in 0..slot[c]
  BY <1>1 DEF Slots
<1>10. summed[c] \cup finished[slot[c]] \subseteq
         UNION {finished[s] : s \in 0..slot[c]}
  BY <1>2, <1>4, <1>9
<1>11. UNION {finished[s] : s \in 0..slot[c]} \subseteq Done
  BY <1>1 DEF Done
<1> QED
  <2>1. /\ IsFiniteSet(summed[c] \cup finished[slot[c]])
        /\ Cardinality(summed[c] \cup finished[slot[c]]) =
             Cardinality(summed[c]) + Cardinality(finished[slot[c]])
             - Cardinality(summed[c] \cap finished[slot[c]])
    BY <1>2, <1>3, FS_Union
  <2>2. Cardinality(summed[c] \cup finished[slot[c]]) =
          total[c] + completed[slot[c]]
    <3>1. Cardinality(summed[c] \cup finished[slot[c]]) =
            total[c] + completed[slot[c]] - 0
      BY Zenon, <1>2, <1>3, <1>7, <2>1
    <3> QED
      BY SMTT(30), Z3T(30), SMTT(60), <1>8, <3>1
  <2> QED
    BY <1>10, <1>11, <2>1, <2>2

\* An interval of integers grows by its new end.
LEMMA NextInterval ==
  ASSUME NEW n \in Int
  PROVE  0..((n + 1) - 1) = 0..n
  OBVIOUS

\* One load of mtp_completed, or the comparison after the last, keeps the sum a
\* lower bound of what is completed.
LEMMA JoinLedger ==
  ASSUME TypeInv, OwnerOK, LedgerInv, NEW c \in Callers, mtp_join(c)
  PROVE  LedgerInv'
<1> DEFINE sum == total[c] + completed[slot[c]]
<1>0. /\ pc[c] = "join" /\ UNCHANGED <<job, ticket, dispatched, workers,
                                       completed, request, chunk, finished>>
      /\ \/ /\ slot[c] < workers
            /\ pc' = [pc EXCEPT ![c] = "join"]
            /\ slot' = [slot EXCEPT ![c] = @ + 1]
            /\ total' = [total EXCEPT ![c] = sum]
            /\ summed' = [summed EXCEPT ![c] = @ \cup finished[slot[c]]]
         \/ /\ slot[c] = workers
            /\ pc' = [pc EXCEPT ![c] = IF sum = dispatched THEN "release"
                                       ELSE "join"]
            /\ slot' = [slot EXCEPT ![c] = 0]
            /\ total' = [total EXCEPT ![c] = 0]
            /\ summed' = [summed EXCEPT ![c] = {}]
  BY DEF mtp_join, Goto, shared
<1>1. /\ pc'[c] \in {"join", "release"}
      /\ \A u \in Thread : u # c => pc'[u] = pc[u]
      /\ \A d \in Callers : d # c => /\ slot'[d] = slot[d]
                                     /\ total'[d] = total[d]
                                     /\ summed'[d] = summed[d]
  BY <1>0, LedgerTypes DEF TypeInv, TypeOK, LocalOK, HistoryOK
<1>2. Holders' = Holders
  BY <1>0, <1>1 DEF Holders
<1>3. /\ Done' = Done /\ Base' = Base /\ Claimed' = Claimed
      /\ Exhausted' = Exhausted
  BY <1>0 DEF Done, Base, Claimed, Exhausted
<1>4. \A u : ChunkNumber(u)' = ChunkNumber(u) /\ JobOf(u)' = JobOf(u)
  BY <1>0 DEF ChunkNumber, JobOf
<1>5. \A d \in Callers :
        /\ pc'[d] \in PublishedPCs <=> pc[d] \in PublishedPCs
        /\ pc'[d] = "store_ticket" <=> pc[d] = "store_ticket"
  <2>1. pc[c] \in PublishedPCs /\ pc'[c] \in PublishedPCs
    BY <1>0, <1>1 DEF PublishedPCs, OwnerPCs, CallerPCs
  <2>2. pc[c] # "store_ticket" /\ pc'[c] # "store_ticket"
    BY <1>0, <1>1
  <2>3. \A d \in Callers : d # c => pc'[d] = pc[d]
    BY <1>1 DEF Thread
  <2> QED
    BY <2>1, <2>2, <2>3
<1>6. LedgerOK' /\ StoreTicketOK'
  BY <1>0, <1>3, <1>4, <1>5 DEF LedgerInv, LedgerOK, StoreTicketOK
<1>7. QuietOK'
  BY <1>0, <1>2, <1>3, <1>5 DEF LedgerInv, QuietOK
<1>8. PublishedOK'
  BY <1>0, <1>2, <1>5, SamePublished DEF LedgerInv
<1>9. ASSUME NEW d \in Callers, d # c
      PROVE  JoinOf(d)'
  <2>1. JoinOf(d) /\ slot[d] <= workers
    BY DEF LedgerInv, JoinOK, JoinOf
  <2>2. pc'[d] = pc[d]
    BY <1>1, <1>9 DEF Thread
  <2> QED
    BY <1>0, <1>1, <1>9, <2>1, <2>2, SameJoin
<1>10. /\ slot[c] \in Slots /\ workers \in Slots
       /\ slot[c] \in Nat /\ workers \in Nat
  BY SMTT(30), Z3T(30) DEF Slots, TypeInv, TypeOK, LocalOK, SharedOK
<1>11. CASE slot[c] < workers
  <2>1. /\ slot'[c] = slot[c] + 1 /\ total'[c] = sum /\ pc'[c] = "join"
        /\ summed'[c] = summed[c] \cup finished[slot[c]]
    <3>1. /\ slot' = [slot EXCEPT ![c] = @ + 1]
          /\ total' = [total EXCEPT ![c] = sum]
          /\ pc' = [pc EXCEPT ![c] = "join"]
          /\ summed' = [summed EXCEPT ![c] = @ \cup finished[slot[c]]]
      <4>1. slot[c] # workers
        BY <1>10, <1>11
      <4> QED
        BY Zenon, <1>0, <4>1
    <3> QED
      BY <3>1, LedgerTypes DEF TypeInv, TypeOK, LocalOK, HistoryOK
  <2>2. 0..(slot'[c] - 1) = 0..slot[c] /\ slot'[c] <= workers'
    <3>1. workers' = workers /\ slot'[c] = slot[c] + 1
      BY <1>0, <2>1
    <3>2. slot[c] \in Int /\ workers \in Int /\ slot[c] < workers
      BY <1>10, <1>11
    <3>3. 0..(slot'[c] - 1) = 0..slot[c]
      BY <3>1, <3>2, NextInterval
    <3>4. slot[c] + 1 <= workers
      BY <3>2
    <3> QED
      BY Zenon, <3>1, <3>3, <3>4
  <2>3. /\ IsFiniteSet(summed'[c]) /\ total'[c] = Cardinality(summed'[c])
        /\ summed'[c] \subseteq UNION {finished'[s] : s \in 0..(slot'[c] - 1)}
    <3>1. finished' = finished
      BY <1>0
    <3>2. summed'[c] \subseteq UNION {finished[s] : s \in 0..slot[c]}
      BY <2>1, SumOneSlot
    <3>3. IsFiniteSet(summed'[c]) /\ Cardinality(summed'[c]) = sum
      BY <2>1, SumOneSlot
    <3> QED
      BY <2>1, <2>2, <3>1, <3>2, <3>3
  <2>4. JoinOK'
    <3>1. JoinOf(c)'
      BY <2>1, <2>2, <2>3 DEF JoinOf
    <3> QED
      BY <1>9, <3>1 DEF JoinOK
  <2> QED
    BY <1>6, <1>7, <1>8, <2>4 DEF LedgerInv
<1>12. CASE slot[c] = workers
  <2>1. /\ slot'[c] = 0 /\ total'[c] = 0 /\ summed'[c] = {}
        /\ pc'[c] = "release" => sum = dispatched
    <3>1. /\ slot' = [slot EXCEPT ![c] = 0]
          /\ total' = [total EXCEPT ![c] = 0]
          /\ pc' = [pc EXCEPT ![c] = IF sum = dispatched THEN "release"
                                     ELSE "join"]
          /\ summed' = [summed EXCEPT ![c] = {}]
      <4>1. ~(slot[c] < workers)
        BY <1>10, <1>12
      <4> QED
        BY Zenon, <1>0, <4>1
    <3> QED
      BY <3>1, LedgerTypes DEF TypeInv, TypeOK, LocalOK, HistoryOK
  <2>2. Done \subseteq 0..(dispatched - 1)
    BY DEF LedgerInv, LedgerOK, Done
  <2>3. sum = dispatched => Done = 0..(dispatched - 1)
    <3>1. /\ IsFiniteSet(0..(dispatched - 1))
          /\ Cardinality(0..(dispatched - 1)) = dispatched
      <4>1. dispatched \in Nat /\ 0 \in Int /\ dispatched - 1 \in Int
        BY LedgerTypes
      <4>2. /\ IsFiniteSet(0..(dispatched - 1))
            /\ Cardinality(0..(dispatched - 1)) =
                 IF 0 > dispatched - 1 THEN 0 ELSE (dispatched - 1) - 0 + 1
        BY <4>1, FS_Interval
      <4> QED
        BY <4>1, <4>2
    <3>2. summed[c] \cup finished[slot[c]] \in SUBSET (0..(dispatched - 1))
      BY <2>2, SumOneSlot
    <3>3. sum = dispatched =>
            summed[c] \cup finished[slot[c]] = 0..(dispatched - 1)
      BY <3>1, <3>2, SumOneSlot, FS_Subset
    <3> QED
      BY <2>2, <3>3, SumOneSlot
  <2>4. /\ IsFiniteSet(summed'[c]) /\ total'[c] = Cardinality(summed'[c])
        /\ summed'[c] \subseteq UNION {finished'[s] : s \in 0..(slot'[c] - 1)}
        /\ slot'[c] <= workers'
    <3>1. IsFiniteSet(summed'[c]) /\ total'[c] = Cardinality(summed'[c])
      BY <2>1, FS_EmptySet
    <3>2. slot'[c] <= workers'
      <4>1. workers' = workers /\ 0 <= workers
        BY SMTT(30), Z3T(30), SMTT(60), <1>0, <1>10
      <4> QED
        BY <2>1, <4>1
    <3> QED
      BY <2>1, <3>1, <3>2
  <2>5. pc'[c] = "release" => Done' = 0..(dispatched' - 1)
    BY <1>0, <1>3, <2>1, <2>3
  <2>6. JoinOK'
    <3>1. JoinOf(c)'
      BY <2>1, <2>4, <2>5 DEF JoinOf
    <3> QED
      BY <1>9, <3>1 DEF JoinOK
  <2> QED
    BY <1>6, <1>7, <1>8, <2>6 DEF LedgerInv
<1> QED
  BY <1>0, <1>11, <1>12

\* When the sum has reached "dispatched" nobody holds a chunk and none is left.
LEMMA NothingLeft ==
  ASSUME TypeInv, LedgerInv, NEW c \in Callers, pc[c] = "release"
  PROVE  Holders = {} /\ Exhausted /\ Done = 0..(dispatched - 1)
<1>1. /\ Done = 0..(dispatched - 1)
      /\ \A n \in 0..(dispatched - 1) :
           n \in Done <=> /\ n < Base + Claimed
                          /\ \A u \in Holders : ChunkNumber(u) # n
      /\ \A u \in Holders : chunk[u] < Claimed
  BY DEF LedgerInv, JoinOK, JoinOf, PublishedOK, PublishedPCs, OwnerPCs, CallerPCs
<1>2. ASSUME NEW u \in Holders PROVE FALSE
  <2>1. u \in Thread /\ ChunkNumber(u) = Base + chunk[u] /\ chunk[u] \in Nat
    BY LedgerTypes DEF Holders
  <2>2. ChunkNumber(u) \in 0..(dispatched - 1)
    BY SMTT(30), Z3T(30), <1>1, <2>1, LedgerTypes
  <2> QED
    BY <1>1, <2>2
<1>3. ASSUME ~Exhausted PROVE FALSE
  <2>1. Claimed = ticket.next /\ ticket.next < ticket.count
    BY <1>3, LedgerTypes DEF Exhausted, Claimed
  <2>2. Base + ticket.next \in 0..(dispatched - 1)
    BY <2>1, LedgerTypes
  <2> QED
    BY SMTT(30), Z3T(30), <1>1, <2>1, <2>2, LedgerTypes
<1> QED
  BY <1>1, <1>2, <1>3

\* mtp_pool_release comes when no chunk is held or left to claim.
LEMMA ReleaseLedger ==
  ASSUME TypeInv, OwnerOK, LedgerInv, NEW c \in Callers, mtp_pool_release(c)
  PROVE  LedgerInv'
<1>0. /\ pc[c] = "release" /\ pc' = [pc EXCEPT ![c] = "idle"]
      /\ UNCHANGED <<job, ticket, dispatched, workers, completed, chunk, slot,
                     total, finished, summed>>
  BY DEF mtp_pool_release, Goto
<1>1. \A d \in Callers :
        d # c => pc[d] \notin OwnerPCs /\ pc'[d] = pc[d]
  BY <1>0, OnlyOwner, LedgerTypes DEF OwnerPCs, CallerPCs
<1>2. pc'[c] = "idle"
  BY <1>0, LedgerTypes
<1>3. \A d \in Callers :
        pc'[d] \notin PublishedPCs \cup {"store_ticket", "join", "release"}
  BY <1>1, <1>2 DEF PublishedPCs, OwnerPCs, CallerPCs
<1>4. Holders = {} /\ Exhausted /\ Done = 0..(dispatched - 1)
  BY <1>0, NothingLeft
<1>5. Holders' = {}
  BY <1>0, <1>4, LedgerTypes DEF Holders
<1>6. Exhausted' /\ Done' = 0..(dispatched' - 1)
  BY <1>0, <1>4 DEF Exhausted, Done
<1>7. LedgerOK'
  BY <1>0 DEF LedgerInv, LedgerOK
<1>8. QuietOK' /\ StoreTicketOK' /\ PublishedOK'
  BY <1>3, <1>5, <1>6 DEF QuietOK, StoreTicketOK, PublishedOK
<1>9. JoinOK'
  <2>1. \A d \in Callers : pc[d] # "join"
    BY <1>0, <1>1 DEF OwnerPCs, CallerPCs
  <2>2. \A d \in Callers : JoinOf(d) /\ slot[d] <= workers
    BY DEF LedgerInv, JoinOK, JoinOf
  <2>3. \A d \in Callers : JoinOf(d)'
    BY <1>0, <1>3, <2>1, <2>2, SameJoin
  <2> QED
    BY <2>3 DEF JoinOK
<1> QED
  BY <1>7, <1>8, <1>9 DEF LedgerInv

\* Every step keeps the ledger.
LEMMA LedgerStepLemma ==
  ASSUME TypeInv, OwnerOK, LedgerInv, [Next]_vars
  PROVE  LedgerInv'
  BY QuietOrLedger, QuietLedger, SetJobLedger, StoreTicketLedger, JoinLedger,
     ReleaseLedger, ClaimAddLedger, RunChunkLedger, CompleteChunkLedger
  DEF LedgerStep

\* One caller at a time owns the pool, and the chunks in the completion
\* counters are exactly those claimed and no longer held.
THEOREM LedgerInvariant == Spec => [](TypeInv /\ OwnerOK /\ LedgerInv)
<1> DEFINE I == TypeInv /\ OwnerOK /\ LedgerInv
<1>1. Init => I
  BY TypeInit, OwnerInit, LedgerInit
<1>2. I /\ [Next]_vars => I'
  BY TypeStep, OwnerStep, LedgerStepLemma
<1> QED
  BY <1>1, <1>2, PTL DEF Spec

\* g_pool.job is never overwritten while a thread has claimed a chunk of it
\* that it has not counted.
THEOREM JobIsStable == Spec => []JobStable
<1>1. TypeInv /\ OwnerOK /\ LedgerInv => JobStable
  <2> SUFFICES ASSUME TypeInv, OwnerOK, LedgerInv,
                      NEW c \in Callers, pc[c] \in {"set_job", "store_ticket"},
                      NEW t \in Thread
               PROVE  pc[t] \notin {"run", "body"}
    BY DEF JobStable
  <2>1. \A d \in Callers : pc[d] \notin PublishedPCs
    BY OnlyOwner DEF PublishedPCs, OwnerPCs, CallerPCs
  <2>2. Holders = {}
    BY <2>1 DEF LedgerInv, QuietOK
  <2> QED
    BY <2>2 DEF Holders
<1> QED
  BY <1>1, LedgerInvariant, PTL

\* While a chunk can still be claimed, or is being run, the pool is held.
THEOREM PoolHeldWhileRunning == Spec => []HeldWhileRunning
<1>1. TypeInv /\ OwnerOK /\ LedgerInv => HeldWhileRunning
  <2> SUFFICES ASSUME TypeInv, OwnerOK, LedgerInv,
                      ~Exhausted \/ Holders # {}
               PROVE  busy
    BY DEF HeldWhileRunning, Holders
  <2>1. PICK c \in Callers : pc[c] \in PublishedPCs
    BY Publisher
  <2>2. pc[c] \in OwnerPCs
    BY <2>1 DEF PublishedPCs
  <2> QED
    BY <2>2 DEF OwnerOK
<1> QED
  BY <1>1, LedgerInvariant, PTL
=============================================================================
