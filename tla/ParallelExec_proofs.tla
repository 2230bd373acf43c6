-------------------------- MODULE ParallelExec_proofs -------------------------
(***************************************************************************)
(* What the bodies run: on top of the ledger, BodyOK says what a body was  *)
(* given and ExecOK which indices have been handed out.  From them follow  *)
(* the exclusive slots, that no index is run twice, and that a call which  *)
(* returns has run them all.                                               *)
(***************************************************************************)
EXTENDS ParallelPool_proofs

Ledger == TypeInv /\ OwnerOK /\ LedgerInv

\* A chunk that is held belongs to the published job, and its caller's plan
\* satisfies the bounds of mtp_plan.
LEMMA HeldJob ==
  ASSUME Ledger, Holders # {} \/ ~Exhausted
  PROVE  \E c \in Callers : /\ pc[c] \in PublishedPCs /\ job = JobOf(c)
                            /\ ticket.count = CountOf(request[c])
  BY Publisher DEF Ledger, LedgerInv, PublishedOK

\* The job of a caller inside mtp_dispatch satisfies the bounds of mtp_plan.
LEMMA PlannedRequest ==
  ASSUME TypeInv, NEW c \in Callers, pc[c] # "idle"
  PROVE  /\ PlannedJob(JobOf(c), CountOf(request[c]))
         /\ RangeOf(c) = JobOf(c).lo..(JobOf(c).hi - 1)
         /\ RangeOf(c) \subseteq Index
<1> DEFINE r == request[c]
<1>1. r \in Requests /\ r.hi - r.lo > 0
  BY DEF TypeInv, RequestOK
<1>2. /\ r.lo \in Int /\ r.hi \in Int /\ r.min_chunk \in Int
      /\ r.hi - r.lo \in Nat \ {0} /\ Threads \in Nat \ {0}
  BY <1>1, ConstantsAssumption
<1>3. /\ SpanOf(r) \in Nat \ {0} /\ CountOf(r) \in Nat \ {0}
      /\ SpanOf(r) * (CountOf(r) - 1) < r.hi - r.lo
      /\ r.hi - r.lo <= SpanOf(r) * CountOf(r)
  BY <1>2, PlanBounds DEF SpanOf, CountOf
<1>4. /\ JobOf(c).lo = r.lo /\ JobOf(c).hi = r.hi
      /\ JobOf(c).span = SpanOf(r)
  BY DEF JobOf
<1>5. PlannedJob(JobOf(c), CountOf(r))
  BY <1>2, <1>3, <1>4 DEF PlannedJob
<1>6. RangeOf(c) = r.lo..(r.hi - 1)
  BY DEF RangeOf
<1>7. RangeOf(c) \subseteq Index
  BY <1>1, <1>6 DEF Index
<1> QED
  BY <1>4, <1>5, <1>6, <1>7

-----------------------------------------------------------------------------
(***************************************************************************)
(* The steps, by what they do to bodies: those that write in the ledger,   *)
(* those that start or end an inline body, and the rest.                   *)
(***************************************************************************)
InlineStep(c) ==
  \/ \E r \in Requests : mtp_dispatch(c, r)
  \/ mtp_pool_acquire(c) \/ CheckWorkers(c) \/ InlineReturn(c)

RestStep ==
  /\ QuietStep
  /\ UNCHANGED <<args, exec, request>>
  /\ \A t \in Thread : /\ pc'[t] = "inline" <=> pc[t] = "inline"
                       /\ pc'[t] = "idle" <=> pc[t] = "idle"

\* The steps of a call that runs inline leave the ledger of chunks alone.
LEMMA InlineQuiet ==
  ASSUME TypeInv, NEW c \in Callers, InlineStep(c)
  PROVE  QuietStep
<1>0. /\ PCsOK /\ pc \in [Thread -> PCs] /\ Callers \subseteq Thread
      /\ request \in [Callers -> Requests \cup {NoRequest}]
  BY DEF TypeInv, TypeOK, LocalOK, Thread
<1> USE <1>0 DEF QuietStep, Goto, shared, local, CallerPCs, OwnerPCs,
                 PublishedPCs
<1>1. ASSUME NEW r \in Requests, mtp_dispatch(c, r) PROVE QuietStep
  BY SMTT(30), Z3T(30), <1>1 DEF mtp_dispatch
<1>2. CASE mtp_pool_acquire(c)
  BY <1>2 DEF mtp_pool_acquire
<1>3. CASE CheckWorkers(c)
  BY <1>3 DEF CheckWorkers
<1>4. CASE InlineReturn(c)
  BY <1>4 DEF InlineReturn
<1> QED
  BY <1>1, <1>2, <1>3, <1>4 DEF InlineStep

\* Every step of the pool is of one of the kinds the layers treat apart.
LEMMA StepKinds ==
  ASSUME TypeInv, [Next]_vars
  PROVE  LedgerStep \/ (\E c \in Callers : InlineStep(c)) \/ RestStep
<1> DEFINE Same == /\ UNCHANGED <<args, exec, request>>
                   /\ \A t \in Thread :
                        /\ pc'[t] = "inline" <=> pc[t] = "inline"
                        /\ pc'[t] = "idle" <=> pc[t] = "idle"
<1>0. /\ SharedOK /\ PCsOK /\ StaffOK /\ pc \in [Thread -> PCs]
      /\ Callers \subseteq Thread /\ Workers \subseteq Thread
  BY DEF TypeInv, TypeOK, LocalOK, Thread
<1>1. ASSUME NEW c \in Callers,
             \/ StoreGeneration(c) \/ LoadParked(c) \/ StoreBudget(c)
      PROVE  Same
  BY <1>0, <1>1
  DEF StoreGeneration, LoadParked, StoreBudget, Goto, local, history
<1>2. ASSUME NEW c \in Callers, mtp_pool_spawn_once(c)
      PROVE  Same
  <2>1. UNCHANGED <<args, exec, request>> /\ pc[c] = "spawn"
    BY <1>2 DEF mtp_pool_spawn_once, local, history
  <2>2. \/ pc' = [pc EXCEPT ![c] = "staffed"]
        \/ /\ workers \in Workers /\ pc[workers] = "unborn"
           /\ pc' = [pc EXCEPT ![workers] = "await"]
    BY <1>0, <1>2, SpawnIndex DEF mtp_pool_spawn_once, StaffOK
  <2> QED
    BY <1>0, <2>1, <2>2
<1>3. ASSUME NEW t \in Thread, ClaimLoad(t) \/ WakeLoad(t) \/ WakeCas(t)
      PROVE  Same
  BY <1>0, <1>3
  DEF ClaimLoad, WakeLoad, WakeCas, Goto, local, history, AfterWork, AfterWake
<1>4. ASSUME NEW t \in Thread, mtp_os_wake(t)
      PROVE  Same
  <2>1. UNCHANGED <<args, exec, request>> /\ pc[t] = "wake_os"
    BY <1>4 DEF mtp_os_wake, history
  <2>2. \A u \in Thread : \/ pc'[u] = pc[u]
                          \/ u = t /\ pc'[u] \in {"claim", "await"}
                          \/ pc[u] = "asleep" /\ pc'[u] = "unpark"
    BY <1>0, <1>4 DEF mtp_os_wake, AfterWake, Sleepers
  <2> QED
    BY <2>1, <2>2
<1>5. ASSUME NEW w \in Workers,
             \/ mtp_await_generation(w) \/ Park(w) \/ mtp_os_wait(w)
             \/ WaitForSingleObject(w) \/ Unpark(w) \/ Interrupt(w)
      PROVE  Same
  BY <1>0, <1>5
  DEF mtp_await_generation, Park, mtp_os_wait, WaitForSingleObject, Unpark,
      Interrupt, Goto, local, history
<1>6. ASSUME UNCHANGED vars PROVE Same
  BY <1>6 DEF vars, shared, local, history
<1>7. LedgerStep \/ (\E c \in Callers : InlineStep(c)) \/ Same
  <2> HIDE DEF Same
  <2> DEFINE Kinds == LedgerStep \/ (\E c \in Callers : InlineStep(c)) \/ Same
  <2>1. ASSUME NEW t \in Thread, Work(t) PROVE Kinds
    BY <1>3, <1>4, <2>1 DEF Work, LedgerStep
  <2>2. ASSUME NEW c \in Callers, CallerStep(c) PROVE Kinds
    BY <1>0, <1>1, <1>2, <2>1, <2>2 DEF CallerStep, LedgerStep, InlineStep
  <2>3. ASSUME NEW w \in Workers, WorkerStep(w) \/ Interrupt(w) PROVE Kinds
    BY <1>0, <1>5, <2>1, <2>3 DEF WorkerStep
  <2>4. ASSUME NEW c \in Callers, NEW r \in Requests, mtp_dispatch(c, r)
        PROVE  Kinds
    BY <2>4 DEF InlineStep
  <2> HIDE DEF Kinds
  <2>5. Kinds
    BY <1>6, <2>2, <2>3, <2>4 DEF Next, Kinds
  <2> QED
    BY <2>5 DEF Kinds
<1> QED
  BY <1>7, QuietOrLedger DEF RestStep

-----------------------------------------------------------------------------
(***************************************************************************)
(* Layer 4: what a body was given.                                         *)
(***************************************************************************)
\* A thread that was in a chunk's body and still is keeps what it was given.
LEMMA SameBody ==
  ASSUME Ledger, QuietStep, NEW t \in Thread, pc[t] = "body"
  PROVE  SlotOf(t)' = SlotOf(t) /\ job' = job /\ chunk'[t] = chunk[t]
<1>1. job' = job /\ chunk'[t] = chunk[t]
  BY DEF QuietStep
<1>2. CASE t \in Callers
  <2>1. \A c \in Callers : pc[c] # "spawn"
    BY <1>2, OnlyOwner DEF Ledger, OwnerPCs, CallerPCs
  <2> QED
    BY <1>1, <2>1 DEF QuietStep, SlotOf
<1>3. CASE t \notin Callers
  BY <1>1, <1>3 DEF SlotOf
<1> QED
  BY <1>2, <1>3

\* At the start nobody is in a body.
LEMMA BodyInit == Init => BodyOK
  BY DEF Init, BodyOK

\* Every step keeps what a body was given: its call, its slot and its chunk.
LEMMA BodyStep ==
  ASSUME Ledger, BodyOK, [Next]_vars
  PROVE  BodyOK'
<1> DEFINE Given(t) == [ctx |-> job.ctx, slot |-> SlotOf(t),
                        range |-> ChunkRange(job, chunk[t])]
<1>0. /\ pc \in [Thread -> PCs] /\ Callers \subseteq Thread /\ TypeInv
      /\ chunk \in [Thread -> Nat] /\ PCsOK
      /\ args \in [Thread -> [ctx : Callers \cup {NoCtx}, range : SUBSET Int,
                              slot : Slots]]
  BY DEF Ledger, TypeInv, TypeOK, LocalOK, HistoryOK, Thread
<1>1. \A t \in Thread : /\ pc[t] = "body" => args[t] = Given(t)
                        /\ pc[t] = "inline" => args[t].ctx = t
  BY DEF BodyOK
<1>2. ASSUME \A t \in Thread :
               /\ pc'[t] = "body" => args'[t] = Given(t)'
               /\ pc'[t] = "inline" => args'[t].ctx = t
      PROVE  BodyOK'
  BY <1>2 DEF BodyOK
<1>3. CASE RestStep
  <2>1. \A t \in Thread : pc[t] = "body" => Given(t)' = Given(t)
    BY <1>3, SameBody DEF RestStep
  <2> HIDE DEF Given
  <2> QED
    BY <1>1, <1>2, <1>3, <2>1 DEF RestStep, QuietStep
<1>4. ASSUME NEW c \in Callers, InlineStep(c)
      PROVE  BodyOK'
  <2>1. QuietStep
    BY <1>0, <1>4, InlineQuiet
  <2>2. \A t \in Thread : pc[t] = "body" => Given(t)' = Given(t)
    BY <2>1, SameBody
  <2>3. /\ \A t \in Thread : t # c => args'[t] = args[t] /\ pc'[t] = pc[t]
        /\ pc'[c] = "inline" => args'[c].ctx = c
        /\ pc'[c] # "body"
    <3>1. PICK q : /\ Move(c, q)
                   /\ \/ q = "inline" /\ \E r : RunInline(c, r)
                      \/ /\ q \in {"idle", "acquire", "spawn", "staffed", "set_job"}
                         /\ args' \in {args, [args EXCEPT ![c] = NoArgs]}
      BY <1>4
      DEF InlineStep, mtp_dispatch, mtp_pool_acquire, CheckWorkers, InlineReturn,
          Goto, Move
    <3>2. /\ pc'[c] = q /\ q # "body"
          /\ \A t \in Thread : t # c => pc'[t] = pc[t]
      BY <1>0, <3>1 DEF Move
    <3>3. CASE q = "inline" /\ \E r : RunInline(c, r)
      <4>1. PICK r : RunInline(c, r)
        BY <3>3
      <4>2. args' = [args EXCEPT ![c] = [ctx |-> c, range |-> r.lo..(r.hi - 1),
                                         slot |-> 0]]
        BY <4>1 DEF RunInline, mtp_run
      <4> QED
        BY <1>0, <3>2, <4>2
    <3>4. CASE /\ q \in {"idle", "acquire", "spawn", "staffed", "set_job"}
               /\ args' \in {args, [args EXCEPT ![c] = NoArgs]}
      BY <1>0, <3>2, <3>4
    <3> QED
      BY <3>1, <3>3, <3>4
  <2> HIDE DEF Given
  <2> QED
    BY <1>1, <1>2, <2>2, <2>3
<1>5. ASSUME NEW c \in Callers, SetJob(c)
      PROVE  BodyOK'
  <2>1. pc[c] = "set_job" /\ pc' = [pc EXCEPT ![c] = "store_ticket"]
        /\ args' = args
    BY <1>5 DEF SetJob, Goto
  <2>2. \A d \in Callers : pc[d] \notin PublishedPCs
    BY <2>1, OnlyOwner DEF Ledger, PublishedPCs, OwnerPCs, CallerPCs
  <2>3. Holders = {}
    BY <2>2 DEF Ledger, LedgerInv, QuietOK
  <2>4. \A t \in Thread : /\ pc'[t] # "body"
                          /\ pc'[t] = "inline" => pc[t] = "inline"
    BY <1>0, <2>1, <2>3 DEF Holders
  <2> HIDE DEF Given
  <2> QED
    BY <1>1, <1>2, <2>1, <2>4
<1>6. ASSUME NEW c \in Callers,
             StoreTicket(c) \/ mtp_join(c) \/ mtp_pool_release(c)
      PROVE  BodyOK'
  <2>1. UNCHANGED <<args, job, chunk, workers>>
    BY <1>6
    DEF StoreTicket, mtp_join, mtp_pool_release, shared, local, history
  <2>2. \A t \in Thread : /\ pc'[t] = "body" => pc[t] = "body"
                          /\ pc'[t] = "inline" => pc[t] = "inline"
    BY <1>0, <1>6 DEF StoreTicket, mtp_join, mtp_pool_release, Goto
  <2>3. \A t \in Thread : Given(t)' = Given(t)
    BY <2>1 DEF SlotOf
  <2> HIDE DEF Given
  <2> QED
    BY <1>1, <1>2, <2>1, <2>2, <2>3
<1>7. ASSUME NEW t \in Thread, RunChunk(t)
      PROVE  BodyOK'
  <2>1. /\ pc' = [pc EXCEPT ![t] = "body"]
        /\ args' = [args EXCEPT ![t] = Given(t)]
        /\ UNCHANGED <<job, chunk, workers>>
    BY <1>7 DEF RunChunk, mtp_run, Goto, shared, local
  <2>2. \A u \in Thread : Given(u)' = Given(u)
    BY <2>1 DEF SlotOf
  <2> HIDE DEF Given
  <2>3. /\ args'[t] = Given(t) /\ pc'[t] = "body"
        /\ \A u \in Thread : u # t => args'[u] = args[u] /\ pc'[u] = pc[u]
    BY <1>0, <2>1
  <2> QED
    BY <1>1, <1>2, <2>2, <2>3
<1>8. ASSUME NEW t \in Thread, ClaimAdd(t) \/ CompleteChunk(t)
      PROVE  BodyOK'
  <2>1. /\ pc'[t] \notin {"body", "inline"}
        /\ \A u \in Thread : u # t => /\ args'[u] = args[u] /\ pc'[u] = pc[u]
                                      /\ chunk'[u] = chunk[u]
        /\ UNCHANGED <<job, workers>>
    BY <1>0, <1>8 DEF ClaimAdd, CompleteChunk, Goto, AfterWork, history
  <2>2. \A u \in Thread : u # t => Given(u)' = Given(u)
    BY <2>1 DEF SlotOf
  <2> HIDE DEF Given
  <2> QED
    BY <1>1, <1>2, <2>1, <2>2
<1> QED
  BY <1>0, <1>3, <1>4, <1>5, <1>6, <1>7, <1>8, StepKinds DEF LedgerStep

\* No two bodies of one call that overlap share a slot.
LEMMA SlotsDiffer ==
  ASSUME Ledger, BodyOK
  PROVE  SlotExclusive
<1> SUFFICES ASSUME NEW t \in Thread, NEW u \in Thread, t # u,
                    InBody(t), InBody(u), args[t].ctx = args[u].ctx,
                    args[t].slot = args[u].slot
             PROVE  FALSE
  BY DEF SlotExclusive
<1>0. /\ PCsOK /\ StaffOK /\ workers \in Int /\ OwnerOK /\ TypeInv
      /\ Callers \cap Workers = {} /\ Thread = Callers \cup Workers
      /\ \A w \in Workers : w \in Int
  BY SMTT(30), Z3T(30), Disjoint, LedgerTypes DEF Ledger, TypeInv, Thread, Workers
<1>1. ASSUME NEW v \in Thread, pc[v] = "inline"
      PROVE  v \in Callers /\ args[v].ctx = v
  BY <1>0, <1>1 DEF PCsOK, WorkerPCs, BodyOK
<1>2. ASSUME NEW v \in Thread, pc[v] = "body"
      PROVE  /\ args[v].slot = SlotOf(v)
             /\ args[v].ctx \in Callers /\ pc[args[v].ctx] \in PublishedPCs
  <2>1. v \in Holders
    BY <1>2 DEF Holders
  <2>2. PICK c \in Callers : pc[c] \in PublishedPCs /\ job = JobOf(c)
    BY <2>1, HeldJob
  <2>3. job.ctx = c
    BY <2>2 DEF JobOf
  <2>4. args[v] = [ctx |-> job.ctx, slot |-> SlotOf(v),
                   range |-> ChunkRange(job, chunk[v])]
    BY <1>2 DEF BodyOK
  <2>5. args[v].slot = SlotOf(v) /\ args[v].ctx = job.ctx
    BY SMTT(30), Z3T(30), <2>4
  <2> QED
    BY <2>2, <2>3, <2>5
<1>3. CASE pc[t] = "inline" /\ pc[u] = "inline"
  BY <1>1, <1>3
<1>4. CASE pc[t] = "body" /\ pc[u] = "inline"
  BY <1>1, <1>2, <1>4 DEF PublishedPCs, OwnerPCs
<1>5. CASE pc[t] = "inline" /\ pc[u] = "body"
  BY <1>1, <1>2, <1>5 DEF PublishedPCs, OwnerPCs
<1>6. CASE pc[t] = "body" /\ pc[u] = "body"
  <2>1. SlotOf(t) = SlotOf(u)
    BY <1>2, <1>6
  <2>2. ~(t \in Callers /\ u \in Callers)
    BY <1>0, <1>6, OnlyOwner DEF OwnerPCs, CallerPCs
  <2>3. \A w \in Workers : pc[w] = "body" => w < workers
    BY <1>0 DEF StaffOK
  <2>4. t \in Workers \/ u \in Workers
    BY <1>0, <2>2
  <2>5. CASE t \in Workers /\ u \in Workers
    BY <1>0, <2>1, <2>5 DEF SlotOf
  <2>6. CASE t \in Workers /\ u \in Callers
    <3>1. SlotOf(t) = t /\ SlotOf(u) = workers
      BY <1>0, <2>6 DEF SlotOf
    <3>2. t < workers /\ t \in Int
      BY <1>0, <1>6, <2>3, <2>6
    <3>3. t = workers
      BY <2>1, <3>1
    <3>4. workers \in Int /\ ~(workers < workers)
      BY <1>0
    <3> QED
      BY <3>2, <3>3, <3>4
  <2>7. CASE t \in Callers /\ u \in Workers
    <3>1. SlotOf(u) = u /\ SlotOf(t) = workers
      BY <1>0, <2>7 DEF SlotOf
    <3>2. u < workers /\ u \in Int
      BY <1>0, <1>6, <2>3, <2>7
    <3> QED
      BY SMTT(30), Z3T(30), <1>0, <2>1, <3>1, <3>2
  <2> QED
    BY <1>0, <2>4, <2>5, <2>6, <2>7
<1> QED
  BY <1>3, <1>4, <1>5, <1>6 DEF InBody

-----------------------------------------------------------------------------
(***************************************************************************)
(* Layer 5: which indices have been handed to a body.                      *)
(***************************************************************************)
\* At the start no index has been handed out.
LEMMA ExecInit == Init => ExecOK
<1> SUFFICES ASSUME Init PROVE ExecOK
  OBVIOUS
<1>1. \A c \in Callers : pc[c] = "idle"
  BY DEF Init, Thread
<1>2. \A c \in Callers, i \in Index : exec[c][i] = 0
  BY DEF Init
<1> QED
  BY <1>1, <1>2 DEF ExecOK, PublishedPCs, OwnerPCs

\* Steps that hand out nothing and start nothing.
LEMMA ExecFrame ==
  ASSUME ExecOK, UNCHANGED <<exec, request>>, ticket'.count = ticket.count,
         \A k \in 0..(ticket.count - 1) : Started(k)' <=> Started(k),
         \A c \in Callers :
           /\ pc'[c] \in PublishedPCs <=> pc[c] \in PublishedPCs
           /\ pc'[c] = "inline" <=> pc[c] = "inline"
  PROVE  ExecOK'
<1>1. \A c : JobOf(c)' = JobOf(c) /\ RangeOf(c)' = RangeOf(c)
  BY DEF JobOf, RangeOf
<1>2. \A c : \A k : ChunkRange(JobOf(c), k)' = ChunkRange(JobOf(c), k)
  BY <1>1 DEF ChunkRange, ChunkStart, ChunkEnd
<1> QED
  BY <1>1, <1>2 DEF ExecOK

\* Steps that neither touch the ledger nor run inline hand out nothing.
LEMMA RestExec ==
  ASSUME Ledger, ExecOK, RestStep
  PROVE  ExecOK'
<1>1. \A k : Started(k)' <=> Started(k)
  BY DEF RestStep, QuietStep, Started, Claimed
<1>2. /\ UNCHANGED <<exec, request, ticket>>
      /\ \A c \in Callers :
           /\ pc'[c] \in PublishedPCs <=> pc[c] \in PublishedPCs
           /\ pc'[c] = "inline" <=> pc[c] = "inline"
  BY DEF RestStep, QuietStep, Thread
<1> QED
  BY <1>1, <1>2, ExecFrame

\* Storing the job and joining hand out nothing.
LEMMA CallerExec ==
  ASSUME Ledger, ExecOK, NEW c \in Callers, SetJob(c) \/ mtp_join(c)
  PROVE  ExecOK'
<1>0. pc \in [Thread -> PCs] /\ Callers \subseteq Thread
  BY LedgerTypes DEF Ledger
<1>1. /\ UNCHANGED <<exec, request, ticket, chunk>>
      /\ \A t \in Thread : pc'[t] = "run" <=> pc[t] = "run"
      /\ \A d \in Callers :
           /\ pc'[d] \in PublishedPCs <=> pc[d] \in PublishedPCs
           /\ pc'[d] = "inline" <=> pc[d] = "inline"
  <2>1. UNCHANGED <<exec, request, ticket, chunk>>
    BY DEF SetJob, mtp_join, shared, local
  <2>2. PICK q : /\ Move(c, q)
                 /\ \/ pc[c] = "set_job" /\ q = "store_ticket"
                    \/ pc[c] = "join" /\ q \in {"join", "release"}
    BY DEF SetJob, mtp_join, Goto, Move
  <2>3. \A t \in Thread : pc'[t] = IF t = c THEN q ELSE pc[t]
    BY <1>0, <2>2 DEF Move
  <2>4. \A t \in Thread : pc'[t] = "run" <=> pc[t] = "run"
    BY <2>2, <2>3
  <2>5. /\ q \in PublishedPCs <=> pc[c] \in PublishedPCs
        /\ q # "inline" /\ pc[c] # "inline"
    BY <2>2 DEF PublishedPCs, OwnerPCs, CallerPCs
  <2> QED
    BY <1>0, <2>1, <2>3, <2>4, <2>5
<1>2. \A k : Started(k)' <=> Started(k)
  BY <1>1 DEF Started, Claimed
<1> QED
  BY <1>1, <1>2, ExecFrame

\* Counting a chunk as completed hands out nothing.
LEMMA CompleteExec ==
  ASSUME Ledger, ExecOK, NEW t \in Thread, CompleteChunk(t)
  PROVE  ExecOK'
<1>0. /\ pc \in [Thread -> PCs] /\ Callers \subseteq Thread
      /\ chunk \in [Thread -> Nat]
  BY LedgerTypes DEF Ledger, TypeInv, TypeOK, LocalOK
<1>1. /\ UNCHANGED <<exec, request, ticket>>
      /\ \A u \in Thread : /\ pc'[u] = "run" <=> pc[u] = "run"
                           /\ pc[u] = "run" => chunk'[u] = chunk[u]
      /\ \A d \in Callers :
           /\ pc'[d] \in PublishedPCs <=> pc[d] \in PublishedPCs
           /\ pc'[d] = "inline" <=> pc[d] = "inline"
  BY <1>0 DEF CompleteChunk, Goto, PublishedPCs, OwnerPCs, CallerPCs
<1>2. \A k : Started(k)' <=> Started(k)
  BY <1>1 DEF Started, Claimed
<1> QED
  BY <1>1, <1>2, ExecFrame

\* A claimed chunk is not started before its body is entered.
LEMMA ClaimExec ==
  ASSUME Ledger, ExecOK, NEW t \in Thread, ClaimAdd(t)
  PROVE  ExecOK'
<1>0. /\ pc \in [Thread -> PCs] /\ Callers \subseteq Thread /\ TypeInv
      /\ chunk \in [Thread -> Nat] /\ ticket \in [next : Nat, count : Nat]
  BY LedgerTypes DEF Ledger, TypeInv, TypeOK, LocalOK, SharedOK
<1>1. /\ UNCHANGED <<exec, request>> /\ pc[t] = "take"
      /\ ticket'.next = ticket.next + 1 /\ ticket'.count = ticket.count
      /\ pc'[t] = IF Exhausted THEN AfterWork(t) ELSE "run"
      /\ chunk'[t] = IF Exhausted THEN chunk[t] ELSE ticket.next
      /\ \A u \in Thread : u # t => pc'[u] = pc[u] /\ chunk'[u] = chunk[u]
  BY <1>0 DEF ClaimAdd, Goto, history
<1>2. \A d \in Callers :
        /\ pc'[d] \in PublishedPCs <=> pc[d] \in PublishedPCs
        /\ pc'[d] = "inline" <=> pc[d] = "inline"
  BY SMTT(30), Z3T(30), SMTT(60), <1>0, <1>1 DEF AfterWork, PublishedPCs, OwnerPCs, CallerPCs
<1>3. ASSUME NEW k \in 0..(ticket.count - 1)
      PROVE  Started(k)' <=> Started(k)
  <2>1. CASE Exhausted
    <3>1. Claimed' = Claimed
      BY SMTT(30), Z3T(30), <1>0, <1>1, <2>1 DEF Claimed, Exhausted
    <3>2. \A u \in Thread : /\ pc'[u] = "run" <=> pc[u] = "run"
                            /\ pc[u] = "run" => chunk'[u] = chunk[u]
      BY <1>1, <2>1 DEF AfterWork
    <3> QED
      BY <3>1, <3>2 DEF Started
  <2>2. CASE ~Exhausted
    <3>1. Claimed = ticket.next /\ Claimed' = ticket.next + 1
      BY SMTT(30), Z3T(30), <1>0, <1>1, <2>2 DEF Claimed, Exhausted
    <3>2. /\ pc'[t] = "run" /\ chunk'[t] = ticket.next /\ pc[t] # "run"
          /\ \A u \in Thread : u # t => pc'[u] = pc[u] /\ chunk'[u] = chunk[u]
      BY <1>1, <2>2
    <3>3. (\A u \in Thread : pc'[u] = "run" => chunk'[u] # k) <=>
            /\ \A u \in Thread : pc[u] = "run" => chunk[u] # k
            /\ ticket.next # k
      BY <3>2
    <3>4. k < ticket.next + 1 /\ ticket.next # k <=> k < ticket.next
      BY <1>0
    <3> QED
      BY <3>1, <3>3, <3>4 DEF Started
  <2> QED
    BY <2>1, <2>2
<1> QED
  BY <1>1, <1>2, <1>3, ExecFrame

\* A callers' own part of ExecOK, to prove it caller by caller.
ExecOf(c) ==
  /\ pc[c] \in PublishedPCs =>
       /\ \A k \in 0..(ticket.count - 1) : \A i \in ChunkRange(JobOf(c), k) :
            exec[c][i] = IF Started(k) THEN 1 ELSE 0
       /\ \A i \in Index \ RangeOf(c) : exec[c][i] = 0
  /\ pc[c] \notin PublishedPCs \cup {"inline"} =>
       \A i \in Index : exec[c][i] = 0
  /\ pc[c] = "inline" =>
       \A i \in Index : exec[c][i] = IF i \in RangeOf(c) THEN 1 ELSE 0

\* ExecOK is a fact about each caller.
LEMMA ExecParts == ExecOK <=> \A c \in Callers : ExecOf(c)
  BY DEF ExecOK, ExecOf

\* The same after a step.
LEMMA ExecPartsNext == ExecOK' <=> \A c \in Callers : ExecOf(c)'
  BY DEF ExecOK, ExecOf

\* A caller outside the pool is not concerned by what its owner does.
LEMMA OutsideExec ==
  ASSUME NEW d \in Callers, ExecOf(d), pc[d] \notin PublishedPCs,
         pc'[d] = pc[d], exec'[d] = exec[d], request'[d] = request[d]
  PROVE  ExecOf(d)'
<1>1. RangeOf(d)' = RangeOf(d)
  BY DEF RangeOf
<1> QED
  BY <1>1 DEF ExecOf

\* mtp_publish stores the ticket: all chunks of the job are still to be run.
LEMMA StoreTicketExec ==
  ASSUME Ledger, ExecOK, NEW c \in Callers, StoreTicket(c)
  PROVE  ExecOK'
<1>0. /\ pc \in [Thread -> PCs] /\ Callers \subseteq Thread /\ TypeInv
      /\ OwnerOK /\ Ledger'
  <2>1. [Next]_vars
    BY DEF Next, CallerStep
  <2> QED
    BY <2>1, LedgerTypes, TypeStep, OwnerStep, LedgerStepLemma DEF Ledger
<1>1. /\ pc[c] = "store_ticket" /\ pc' = [pc EXCEPT ![c] = "store_generation"]
      /\ ticket' = [next |-> 0, count |-> CountOf(request[c])]
      /\ UNCHANGED <<exec, request, chunk>>
  BY DEF StoreTicket, Goto, local, history
<1>2. \A d \in Callers : d # c => pc[d] \notin PublishedPCs /\ pc'[d] = pc[d]
  BY <1>0, <1>1, OnlyOwner DEF PublishedPCs, OwnerPCs, CallerPCs
<1>3. \A i \in Index : exec[c][i] = 0
  BY <1>1 DEF ExecOK, PublishedPCs, OwnerPCs, CallerPCs
<1>4. pc'[c] = "store_generation" /\ pc'[c] # "idle"
  BY <1>0, <1>1
<1>5. Claimed' = 0 /\ ticket'.count = CountOf(request'[c])
  <2>1. CountOf(request[c]) \in Nat
    BY <1>1, PlanOf DEF Ledger, TypeInv, RequestOK
  <2> QED
    BY <1>1, <2>1 DEF Claimed
<1>6. \A k \in 0..(ticket'.count - 1) : ~Started(k)'
  BY <1>5 DEF Started
<1>7. \A k \in 0..(ticket'.count - 1) : ChunkRange(JobOf(c), k)' \subseteq Index
  <2>1. /\ PlannedJob(JobOf(c), CountOf(request[c]))'
        /\ (RangeOf(c) = JobOf(c).lo..(JobOf(c).hi - 1))'
        /\ (RangeOf(c) \subseteq Index)'
    <3>1. TypeInv' /\ pc'[c] # "idle"
      BY <1>0, <1>4 DEF Ledger
    <3>2. /\ JobOf(c)' = JobOf(c) /\ RangeOf(c)' = RangeOf(c)
          /\ request' = request
      BY <1>1 DEF JobOf, RangeOf
    <3>3. pc[c] # "idle"
      BY <1>1
    <3> QED
      BY <1>0, <3>2, <3>3, PlannedRequest
  <2>2. \A k \in 0..(CountOf(request'[c]) - 1) :
          ChunkRange(JobOf(c)', k) \subseteq JobOf(c)'.lo..(JobOf(c)'.hi - 1)
    BY <2>1, ChunkInside
  <2> QED
    BY <1>5, <2>1, <2>2
<1>8. ExecOf(c)'
  BY <1>1, <1>3, <1>4, <1>6, <1>7 DEF ExecOf, PublishedPCs, OwnerPCs, CallerPCs
<1>9. \A d \in Callers : d # c => ExecOf(d)'
  BY <1>1, <1>2, ExecParts, OutsideExec
<1> QED
  BY <1>8, <1>9, ExecPartsNext

\* mtp_pool_release: the counters added up, so every chunk was run.
LEMMA ReleaseExec ==
  ASSUME Ledger, ExecOK, NEW c \in Callers, mtp_pool_release(c)
  PROVE  ExecOK'
<1>0. /\ pc \in [Thread -> PCs] /\ Callers \subseteq Thread /\ OwnerOK
      /\ exec \in [Callers -> [Index -> Nat]]
      /\ request \in [Callers -> Requests \cup {NoRequest}]
  BY LedgerTypes DEF Ledger, TypeInv, TypeOK, HistoryOK, LocalOK
<1>1. /\ pc[c] = "release" /\ pc' = [pc EXCEPT ![c] = "idle"]
      /\ exec' = [exec EXCEPT ![c] = [i \in Index |-> 0]]
      /\ request' = [request EXCEPT ![c] = NoRequest]
  BY DEF mtp_pool_release, Goto
<1>2. \A d \in Callers : d # c => pc[d] \notin PublishedPCs
  BY <1>1, OnlyOwner, <1>0 DEF PublishedPCs, OwnerPCs, CallerPCs
<1>3. \A d \in Callers : d # c => /\ pc'[d] = pc[d] /\ exec'[d] = exec[d]
                                  /\ request'[d] = request[d]
  BY <1>0, <1>1
<1>4. pc'[c] = "idle" /\ \A i \in Index : exec'[c][i] = 0
  BY <1>0, <1>1
<1>5. ExecOf(c)'
  BY <1>4 DEF ExecOf, PublishedPCs, OwnerPCs
<1>6. \A d \in Callers : d # c => ExecOf(d)'
  BY <1>2, <1>3, ExecParts, OutsideExec
<1> QED
  BY <1>5, <1>6, ExecPartsNext

\* mtp_dispatch without the pool runs the whole range at once.
LEMMA InlineExec ==
  ASSUME Ledger, ExecOK, NEW c \in Callers, InlineStep(c)
  PROVE  ExecOK'
<1>0. /\ pc \in [Thread -> PCs] /\ Callers \subseteq Thread /\ TypeInv
      /\ exec \in [Callers -> [Index -> Nat]]
      /\ request \in [Callers -> Requests \cup {NoRequest}]
  BY LedgerTypes DEF Ledger, TypeInv, TypeOK, HistoryOK, LocalOK
<1>1. QuietStep
  BY <1>0, InlineQuiet
<1>2. \A k : Started(k)' <=> Started(k)
  BY <1>1 DEF QuietStep, Started, Claimed
<1>3. ticket' = ticket
  BY <1>1 DEF QuietStep
<1>4. \A d \in Callers : d # c => /\ pc'[d] = pc[d] /\ exec'[d] = exec[d]
                                  /\ request'[d] = request[d]
  BY <1>0
  DEF InlineStep, mtp_dispatch, mtp_pool_acquire, CheckWorkers, InlineReturn,
      RunInline, mtp_run, Goto, local
<1>5. ASSUME NEW d \in Callers, d # c
      PROVE  ExecOf(d)'
  <2>1. RangeOf(d)' = RangeOf(d) /\ JobOf(d)' = JobOf(d)
    BY <1>4, <1>5 DEF RangeOf, JobOf
  <2>2. \A k : ChunkRange(JobOf(d), k)' = ChunkRange(JobOf(d), k)
    BY <2>1 DEF ChunkRange, ChunkStart, ChunkEnd
  <2>3. ExecOf(d)
    BY ExecParts
  <2>4. ASSUME pc[d] \in PublishedPCs,
               NEW k \in 0..(ticket'.count - 1), NEW i \in ChunkRange(JobOf(d), k)'
        PROVE  exec'[d][i] = IF Started(k)' THEN 1 ELSE 0
    <3>1. k \in 0..(ticket.count - 1) /\ i \in ChunkRange(JobOf(d), k)
      BY <1>3, <2>2, <2>4
    <3>2. exec[d][i] = IF Started(k) THEN 1 ELSE 0
      BY <2>3, <2>4, <3>1 DEF ExecOf
    <3> QED
      BY <1>2, <1>4, <1>5, <3>2
  <2>5. exec'[d] = exec[d] /\ pc'[d] = pc[d]
    BY <1>4, <1>5
  <2> QED
    BY <2>1, <2>3, <2>4, <2>5 DEF ExecOf
<1>6. pc[c] \in {"idle", "acquire", "staffed", "inline"}
  BY DEF InlineStep, mtp_dispatch, mtp_pool_acquire, CheckWorkers,
         InlineReturn, Goto
<1>7. /\ pc'[c] \in {"inline", "acquire", "spawn", "staffed", "set_job", "idle"}
      /\ pc'[c] \notin PublishedPCs
  BY <1>0
  DEF InlineStep, mtp_dispatch, mtp_pool_acquire, CheckWorkers, InlineReturn,
      Goto, PublishedPCs, OwnerPCs, CallerPCs
<1>8. CASE InlineReturn(c)
  <2>1. pc'[c] = "idle" /\ \A i \in Index : exec'[c][i] = 0
    BY <1>0, <1>8 DEF InlineReturn, Goto
  <2>2. ExecOf(c)'
    BY <1>7, <2>1 DEF ExecOf
  <2> QED
    BY <1>5, <2>2, ExecPartsNext
<1>9. CASE ~InlineReturn(c)
  <2>1. pc[c] \in {"idle", "acquire", "staffed"}
    BY <1>9
    DEF InlineStep, mtp_dispatch, mtp_pool_acquire, CheckWorkers, Goto
  <2>2. \A i \in Index : exec[c][i] = 0
    BY <2>1 DEF ExecOK, PublishedPCs, OwnerPCs, CallerPCs
  <2>3. \/ pc'[c] = "inline" /\ RunInline(c, request'[c])
        \/ pc'[c] # "inline" /\ exec' = exec
    <3>1. ASSUME NEW r \in Requests, mtp_dispatch(c, r)
          PROVE  \/ pc'[c] = "inline" /\ RunInline(c, request'[c])
                 \/ pc'[c] # "inline" /\ exec' = exec
      BY <1>0, <3>1 DEF mtp_dispatch, Goto
    <3>2. ASSUME mtp_pool_acquire(c)
          PROVE  \/ pc'[c] = "inline" /\ RunInline(c, request'[c])
                 \/ pc'[c] # "inline" /\ exec' = exec
      BY <1>0, <3>2 DEF mtp_pool_acquire, Goto, local
    <3>3. ASSUME CheckWorkers(c)
          PROVE  \/ pc'[c] = "inline" /\ RunInline(c, request'[c])
                 \/ pc'[c] # "inline" /\ exec' = exec
      BY <1>0, <3>3 DEF CheckWorkers, Goto, local
    <3> QED
      BY <1>9, <3>1, <3>2, <3>3 DEF InlineStep
  <2>4. CASE pc'[c] = "inline" /\ RunInline(c, request'[c])
    <3>1. exec'[c] = [i \in Index |-> IF i \in RangeOf(c)' THEN exec[c][i] + 1
                                      ELSE exec[c][i]]
      BY <1>0, <2>4 DEF RunInline, mtp_run, RangeOf
    <3>2. ExecOf(c)'
      <4>1. \A i \in Index : exec'[c][i] = IF i \in RangeOf(c)' THEN 1 ELSE 0
        BY <2>2, <3>1
      <4>2. pc'[c] \notin PublishedPCs /\ pc'[c] = "inline"
        BY <1>7, <2>4
      <4> QED
        BY Zenon, <4>1, <4>2 DEF ExecOf
    <3> QED
      BY <1>5, <3>2, ExecPartsNext
  <2>5. CASE pc'[c] # "inline" /\ exec' = exec
    <3>1. ExecOf(c)'
      BY <1>7, <2>2, <2>5 DEF ExecOf
    <3> QED
      BY <1>5, <3>1, ExecPartsNext
  <2> QED
    BY <2>3, <2>4, <2>5
<1> QED
  BY <1>8, <1>9

\* Entering the body of a chunk hands out its indices, for the first time.
LEMMA RunExec ==
  ASSUME Ledger, BodyOK, ExecOK, NEW t \in Thread, RunChunk(t)
  PROVE  ExecOK'
<1> DEFINE m == chunk[t]
<1>0. /\ pc \in [Thread -> PCs] /\ Callers \subseteq Thread /\ TypeInv
      /\ OwnerOK /\ exec \in [Callers -> [Index -> Nat]]
      /\ ticket.count \in Nat /\ Claimed \in Nat /\ Claimed <= ticket.count
      /\ m \in Nat
  BY LedgerTypes DEF Ledger, TypeInv, TypeOK, HistoryOK, LocalOK
<1>1. /\ pc[t] = "run" /\ pc' = [pc EXCEPT ![t] = "body"]
      /\ UNCHANGED <<job, ticket, chunk, request>>
      /\ exec' = [exec EXCEPT ![job.ctx] =
                    [i \in Index |-> IF i \in ChunkRange(job, m)
                                     THEN @[i] + 1 ELSE @[i]]]
  BY DEF RunChunk, mtp_run, Goto, shared, local
<1>2. t \in Holders
  BY <1>1 DEF Holders
<1>3. PICK c \in Callers : /\ pc[c] \in PublishedPCs /\ job = JobOf(c)
                           /\ ticket.count = CountOf(request[c])
  BY <1>2, HeldJob
<1>4. /\ m < Claimed
      /\ \A u \in Thread : pc[u] = "run" /\ chunk[u] = m => u = t
  BY <1>2, <1>3 DEF Ledger, LedgerInv, PublishedOK, Holders
<1>5. job.ctx = c
  BY <1>1, <1>3 DEF JobOf
<1>6. exec'[c] = [i \in Index |-> IF i \in ChunkRange(JobOf(c), m)
                                  THEN exec[c][i] + 1 ELSE exec[c][i]]
  BY <1>0, <1>1, <1>3, <1>5
<1>7. \A k \in 0..(ticket.count - 1) :
        Started(k)' <=> Started(k) \/ k = m
  BY <1>0, <1>1, <1>4 DEF Started, Claimed
<1>8. ~Started(m)
  BY <1>1 DEF Started
<1>9. /\ PlannedJob(JobOf(c), ticket.count)
      /\ RangeOf(c) = JobOf(c).lo..(JobOf(c).hi - 1)
      /\ RangeOf(c) \subseteq Index
  BY <1>0, <1>3, PlannedRequest DEF PublishedPCs, OwnerPCs
<1>10. m \in 0..(ticket.count - 1)
  BY <1>0, <1>4
<1>11. /\ \A k \in 0..(ticket.count - 1) : \A i \in ChunkRange(JobOf(c), k) :
            exec[c][i] = IF Started(k) THEN 1 ELSE 0
       /\ \A i \in Index \ RangeOf(c) : exec[c][i] = 0
  BY <1>3 DEF ExecOK
<1>12. ASSUME NEW k \in 0..(ticket.count - 1),
              NEW i \in ChunkRange(JobOf(c), k)
       PROVE  exec'[c][i] = IF Started(k)' THEN 1 ELSE 0
  <2>1. i \in Index
    BY <1>9, ChunkInside
  <2>2. CASE k = m
    <3>1. Started(k)' /\ ~Started(k)
      BY <1>7, <1>8, <2>2
    <3>2. exec[c][i] = 0
      BY <1>11, <3>1
    <3>3. exec'[c][i] = exec[c][i] + 1
      BY <1>6, <2>1, <2>2
    <3> QED
      BY SMTT(30), Z3T(30), <3>1, <3>2, <3>3
  <2>3. CASE k # m
    <3>1. i \notin ChunkRange(JobOf(c), m)
      BY <1>9, <1>10, <2>3, ChunkDisjoint
    <3>2. exec'[c][i] = exec[c][i]
      BY <1>6, <2>1, <3>1
    <3> QED
      BY <1>7, <1>11, <2>3, <3>2
  <2> QED
    BY <2>2, <2>3
<1>13. \A i \in Index \ RangeOf(c) : exec'[c][i] = 0
  <2>1. ChunkRange(JobOf(c), m) \subseteq RangeOf(c)
    BY <1>9, <1>10, ChunkInside
  <2> QED
    BY <1>6, <1>11, <2>1
<1>14. /\ pc'[c] \in PublishedPCs /\ pc'[c] # "inline"
       /\ \A d \in Callers : d # c => /\ pc[d] \notin PublishedPCs
                                      /\ pc'[d] = pc[d] /\ exec'[d] = exec[d]
  <2>1. \A d \in Callers : d # c => pc[d] \notin PublishedPCs /\ d # t
    BY <1>0, <1>1, <1>3, OnlyOwner DEF PublishedPCs, OwnerPCs, CallerPCs
  <2>2. pc'[c] \in PublishedPCs
    BY <1>0, <1>1, <1>3 DEF PublishedPCs, OwnerPCs, CallerPCs
  <2> QED
    BY <1>0, <1>1, <1>5, <2>1, <2>2 DEF PublishedPCs, OwnerPCs
<1>15. ExecOf(c)'
  <2>1. JobOf(c)' = JobOf(c) /\ RangeOf(c)' = RangeOf(c) /\ ticket' = ticket
    BY <1>1 DEF JobOf, RangeOf
  <2>2. \A k : ChunkRange(JobOf(c), k)' = ChunkRange(JobOf(c), k)
    BY <2>1 DEF ChunkRange, ChunkStart, ChunkEnd
  <2> QED
    BY <1>12, <1>13, <1>14, <2>1, <2>2 DEF ExecOf
<1>16. \A d \in Callers : d # c => ExecOf(d)'
  BY <1>1, <1>14, ExecParts, OutsideExec
<1> QED
  BY <1>15, <1>16, ExecPartsNext

\* Every step keeps the account of what was handed out.
LEMMA ExecStep ==
  ASSUME Ledger, BodyOK, ExecOK, [Next]_vars
  PROVE  ExecOK'
<1>1. TypeInv
  BY DEF Ledger
<1>2. LedgerStep \/ (\E c \in Callers : InlineStep(c)) \/ RestStep
  BY <1>1, StepKinds
<1>3. CASE LedgerStep
  BY <1>3, CallerExec, StoreTicketExec, ReleaseExec, ClaimExec, RunExec,
     CompleteExec
  DEF LedgerStep
<1> QED
  BY <1>2, <1>3, InlineExec, RestExec

-----------------------------------------------------------------------------
(***************************************************************************)
(* The theorems.                                                           *)
(***************************************************************************)
\* The whole inductive invariant holds in every reachable state of the pool.
THEOREM Inductive == Spec => []IInv
<1>1. Init => IInv
  BY TypeInit, OwnerInit, LedgerInit, BodyInit, ExecInit DEF IInv
<1>2. IInv /\ [Next]_vars => IInv'
  BY TypeStep, OwnerStep, LedgerStepLemma, BodyStep, ExecStep DEF IInv, Ledger
<1> QED
  BY <1>1, <1>2, PTL DEF Spec

\* Two bodies of one call that overlap never get the same slot.
THEOREM SlotsExclusive == Spec => []SlotExclusive
<1>1. IInv => SlotExclusive
  BY SlotsDiffer DEF IInv, Ledger
<1> QED
  BY <1>1, Inductive, PTL

\* Every index of a published range is in a chunk, and counts 1 once that
\* chunk is started.
LEMMA IndexCount ==
  ASSUME IInv, NEW c \in Callers, pc[c] \in PublishedPCs, NEW i \in RangeOf(c)
  PROVE  \E k \in 0..(ticket.count - 1) :
           exec[c][i] = IF Started(k) THEN 1 ELSE 0
<1>1. TypeInv /\ pc[c] # "idle" /\ ticket.count = CountOf(request[c])
  BY DEF IInv, LedgerInv, PublishedOK, PublishedPCs, OwnerPCs
<1>2. /\ PlannedJob(JobOf(c), ticket.count)
      /\ RangeOf(c) = JobOf(c).lo..(JobOf(c).hi - 1)
  BY <1>1, PlannedRequest
<1>3. PICK k \in 0..(ticket.count - 1) : i \in ChunkRange(JobOf(c), k)
  BY <1>2, ChunkCover
<1> QED
  BY <1>3 DEF IInv, ExecOK

\* No index is handed to two bodies, and none outside the range to any.
THEOREM RunsAtMostOnce == Spec => []AtMostOnce
<1>1. IInv => AtMostOnce
  <2> SUFFICES ASSUME IInv, NEW c \in Callers, NEW i \in Index
               PROVE  exec[c][i] <= IF i \in RangeOf(c) THEN 1 ELSE 0
    BY DEF AtMostOnce
  <2>1. CASE pc[c] \in PublishedPCs /\ i \in RangeOf(c)
    BY SMTT(30), Z3T(30), <2>1, IndexCount
  <2>2. CASE pc[c] \in PublishedPCs /\ i \notin RangeOf(c)
    <3>1. exec[c][i] = 0
      BY <2>2 DEF IInv, ExecOK
    <3> QED
      BY <2>2, <3>1
  <2>3. CASE pc[c] \notin PublishedPCs
    <3>1. CASE pc[c] = "inline"
      <4>1. exec[c][i] = IF i \in RangeOf(c) THEN 1 ELSE 0
        BY <3>1 DEF IInv, ExecOK
      <4> QED
        BY SMTT(30), Z3T(30), <4>1
    <3>2. CASE pc[c] # "inline"
      <4>1. exec[c][i] = 0
        BY <2>3, <3>2 DEF IInv, ExecOK
      <4> QED
        BY SMTT(30), Z3T(30), <4>1
    <3> QED
      BY <3>1, <3>2
  <2> QED
    BY <2>1, <2>2, <2>3
<1> QED
  BY <1>1, Inductive, PTL

\* A body belongs to the publisher or, inline, to its own thread.
LEMMA BodyOwner ==
  ASSUME IInv, NEW t \in Thread, InBody(t), NEW c \in Callers, t # c,
         Holders = {} \/ pc[c] \notin PublishedPCs
  PROVE  args[t].ctx # c
<1>1. CASE pc[t] = "inline"
  BY <1>1 DEF IInv, BodyOK
<1>2. CASE pc[t] = "body"
  <2>1. t \in Holders /\ pc[c] \notin PublishedPCs
    BY <1>2 DEF Holders
  <2>2. PICK d \in Callers : pc[d] \in PublishedPCs /\ job = JobOf(d)
    BY <2>1, HeldJob DEF IInv, Ledger
  <2>3. args[t] = [ctx |-> job.ctx, slot |-> SlotOf(t),
                   range |-> ChunkRange(job, chunk[t])]
    BY <1>2 DEF IInv, BodyOK
  <2>4. args[t].ctx = job.ctx /\ job.ctx = d
    <3>1. args[t].ctx = job.ctx
      BY SMTT(30), Z3T(30), SMTT(60), <2>3
    <3>2. job.ctx = d
      BY <2>2 DEF JobOf
    <3> QED
      BY <3>1, <3>2
  <2> QED
    BY <2>1, <2>2, <2>4
<1> QED
  BY <1>1, <1>2 DEF InBody

\* The only ways out of mtp_dispatch.
LEMMA Returning ==
  ASSUME IInv, [Next]_vars, NEW c \in Callers, pc[c] # "idle", pc'[c] = "idle"
  PROVE  pc[c] \in {"inline", "release"}
<1>0. /\ TypeInv /\ pc \in [Thread -> PCs] /\ Callers \subseteq Thread
      /\ PCsOK
  BY LedgerTypes DEF IInv, Ledger, TypeInv
<1>1. LedgerStep \/ (\E d \in Callers : InlineStep(d)) \/ RestStep
  BY <1>0, StepKinds
<1>2. ASSUME NEW d \in Callers, InlineStep(d) PROVE pc[c] = "inline"
  BY <1>0, <1>2
  DEF InlineStep, mtp_dispatch, mtp_pool_acquire, CheckWorkers, InlineReturn,
      Goto
<1>3. ASSUME NEW d \in Callers,
             \/ SetJob(d) \/ StoreTicket(d) \/ mtp_join(d)
             \/ mtp_pool_release(d)
      PROVE  pc[c] = "release"
  BY <1>0, <1>3 DEF SetJob, StoreTicket, mtp_join, mtp_pool_release, Goto
<1>4. ASSUME NEW t \in Thread,
             ClaimAdd(t) \/ RunChunk(t) \/ CompleteChunk(t)
      PROVE  FALSE
  BY <1>0, <1>4 DEF ClaimAdd, RunChunk, CompleteChunk, AfterWork, Goto
<1>5. ~RestStep
  BY <1>0 DEF RestStep
<1> QED
  BY <1>1, <1>2, <1>3, <1>4, <1>5 DEF LedgerStep

\* A call that returns has had every index of its range run, and no other
\* thread is still in a body that uses its context.
THEOREM ReturnsWhenComplete == Spec => ReturnsComplete
<1> DEFINE Complete(c) == /\ \A i \in RangeOf(c) : exec[c][i] = 1
                          /\ \A t \in Thread \ {c} :
                               InBody(t) => args[t].ctx # c
           A == \A c \in Callers :
                  pc[c] # "idle" /\ pc'[c] = "idle" => Complete(c)
<1>1. ASSUME IInv, NEW c \in Callers, pc[c] = "inline" PROVE Complete(c)
  <2>1. pc[c] \notin PublishedPCs /\ pc[c] # "idle" /\ TypeInv
    BY <1>1 DEF IInv, PublishedPCs, OwnerPCs
  <2>2. RangeOf(c) \subseteq Index
    BY <2>1, PlannedRequest
  <2>3. \A i \in RangeOf(c) : exec[c][i] = 1
    BY <1>1, <2>2 DEF IInv, ExecOK
  <2> QED
    BY <1>1, <2>1, <2>3, BodyOwner
<1>2. ASSUME IInv, NEW c \in Callers, pc[c] = "release" PROVE Complete(c)
  <2>1. pc[c] \in PublishedPCs
    BY <1>2 DEF PublishedPCs, OwnerPCs, CallerPCs
  <2>2. Holders = {} /\ Exhausted
    BY <1>2, NothingLeft DEF IInv
  <2>3. \A k \in 0..(ticket.count - 1) : Started(k)
    <3>1. Claimed = ticket.count
      BY SMTT(30), Z3T(30), <1>2, <2>2, LedgerTypes DEF Exhausted, Claimed, IInv
    <3>2. \A t \in Thread : pc[t] # "run"
      BY <2>2 DEF Holders
    <3> QED
      BY SMTT(30), Z3T(30), <1>2, <3>1, <3>2, LedgerTypes DEF Started, IInv
  <2>4. \A i \in RangeOf(c) : exec[c][i] = 1
    BY <1>2, <2>1, <2>3, IndexCount
  <2> QED
    BY <1>2, <2>2, <2>4, BodyOwner
<1>3. IInv /\ [Next]_vars => A
  <2> HIDE DEF Complete
  <2> QED
    BY <1>1, <1>2, Returning
<1>4. A => [A]_vars
  OBVIOUS
<1>5. ReturnsComplete <=> [][A]_vars
  BY DEF ReturnsComplete
<1> HIDE DEF A
<1> QED
  BY <1>3, <1>5, Inductive, PTL DEF Spec
=============================================================================
