----------------------------- MODULE ParallelPool -----------------------------
(***************************************************************************)
(* The worker pool behind parallel_range and @parallel loops               *)
(* (src/runtime/parallel.c).  A caller that finds the pool free publishes  *)
(* its job, and the caller and the workers claim chunks of it from one     *)
(* 64-bit ticket (next chunk in the high half, chunk count in the low).    *)
(* Workers that find no new generation park on the generation word.  The   *)
(* caller joins by summing the per-slot completion counters, one load at a *)
(* time, until they reach the number of chunks ever dispatched.  A caller  *)
(* that finds the pool busy runs its whole range by itself.                *)
(*                                                                         *)
(* One action is one shared access (atomic operation, store another thread *)
(* can see, system call, entry to or return from the body).  The accesses  *)
(* are taken to be sequentially consistent.                                *)
(***************************************************************************)
EXTENDS ParallelPlan, FiniteSets

CONSTANTS
  Callers,        \* threads that call mettle_parallel_range[_slots]
  Threads,        \* what mtp_threads() answers
  Requests,       \* the ranges asked for: records [lo, hi, min_chunk]
  Generations,    \* number of values of the generation word (2^32 in the code)
  WaitKind,       \* how mtp_os_wait sleeps: "futex", "semaphore" or "nap"
  MaxDispatched   \* bound: no call starts once this many chunks were published

ASSUME ConstantsAssumption ==
  /\ Callers # {} /\ IsFiniteSet(Callers) /\ Callers \cap Int = {}
  /\ Threads \in 1..METTLE_PARALLEL_MAX_THREADS
  /\ Requests \subseteq [lo : Int, hi : Int, min_chunk : Int]
  /\ Generations \in Nat /\ Generations > 1
  /\ WaitKind \in {"futex", "semaphore", "nap"}
  /\ MaxDispatched \in Nat

MTP_WAKE_FANOUT == 2

Workers == 0..(Threads - 2)   \* the indices mtp_pool_spawn_once can hand out
Slots   == 0..(Threads - 1)   \* the entries of g_slots the pool can use
Thread  == Callers \cup Workers
Index   == UNION {r.lo..(r.hi - 1) : r \in Requests}

VARIABLES
  job,          \* g_pool.job: ctx is the caller whose stack it points into
  ticket,       \* g_pool.ticket, split into its halves [next, count]
  generation,   \* g_pool.generation
  parked,       \* g_pool.parked
  wake_budget,  \* g_pool.wake_budget
  busy,         \* g_pool.busy
  spawned,      \* g_pool.spawned
  workers,      \* g_pool.workers
  dispatched,   \* g_pool.dispatched
  completed,    \* g_slots[_].completed
  semaphore     \* the count of g_semaphore (Windows)

VARIABLES
  pc,           \* where each thread is
  request,      \* the arguments of a caller's current call
  seen,         \* mtp_worker's seen
  chunk,        \* mtp_work's chunk
  budget,       \* mtp_wake_some's budget, and then its share
  slot,         \* mtp_completed's loop counter
  total         \* mtp_completed's sum

VARIABLES
  args,         \* history: the ctx, range and slot of the body a thread is in
  exec,         \* history: how often a caller's current call ran each index
  finished,     \* history: the chunks each slot completed, numbered in the
                \*   order of publication since the start of the program
  summed,       \* history: the chunks counted by the sum a caller is taking
  unwoken       \* history: the current job was published without a wake

shared  == <<job, ticket, generation, parked, wake_budget, busy, spawned,
             workers, dispatched, completed, semaphore>>
local   == <<request, seen, chunk, budget, slot, total>>
history == <<args, exec, finished, summed, unwoken>>
vars    == <<shared, pc, local, history>>

NoCtx     == -1
NoRequest == [lo |-> 0, hi |-> 0, min_chunk |-> 0]
NoArgs    == [ctx |-> NoCtx, range |-> {}, slot |-> 0]

Init ==
  /\ job = [ctx |-> NoCtx, lo |-> 0, hi |-> 0, span |-> 0]
  /\ ticket = [next |-> 0, count |-> 0]
  /\ generation = 0 /\ parked = 0 /\ wake_budget = 0
  /\ busy = FALSE /\ spawned = FALSE /\ workers = 0
  /\ dispatched = 0 /\ completed = [s \in Slots |-> 0]
  /\ semaphore = 0
  /\ pc = [t \in Thread |-> IF t \in Callers THEN "idle" ELSE "unborn"]
  /\ request = [c \in Callers |-> NoRequest]
  /\ seen = [w \in Workers |-> 0]
  /\ chunk = [t \in Thread |-> 0]
  /\ budget = [t \in Thread |-> 0]
  /\ slot = [c \in Callers |-> 0] /\ total = [c \in Callers |-> 0]
  /\ args = [t \in Thread |-> NoArgs]
  /\ exec = [c \in Callers |-> [i \in Index |-> 0]]
  /\ finished = [s \in Slots |-> {}]
  /\ summed = [c \in Callers |-> {}]
  /\ unwoken = FALSE

Goto(t, from, to) == pc[t] = from /\ pc' = [pc EXCEPT ![t] = to]

-----------------------------------------------------------------------------
(***************************************************************************)
(* Running a body.  Entering it counts the indices of its range for the    *)
(* call its ctx belongs to.                                                *)
(***************************************************************************)
mtp_run(t, ctx, range, s) ==
  /\ args' = [args EXCEPT ![t] = [ctx |-> ctx, range |-> range, slot |-> s]]
  /\ exec' = [exec EXCEPT ![ctx] =
                [i \in Index |-> IF i \in range THEN @[i] + 1 ELSE @[i]]]

RunInline(c, r) == mtp_run(c, c, r.lo..(r.hi - 1), 0)

-----------------------------------------------------------------------------
(***************************************************************************)
(* mtp_dispatch, up to the point where the caller owns the pool or runs    *)
(* its range inline.                                                       *)
(***************************************************************************)
SpanOf(r)  == PlanSpan(Threads, r.hi - r.lo, r.min_chunk)
CountOf(r) == PlanCount(Threads, r.hi - r.lo, r.min_chunk)

mtp_dispatch(c, r) ==
  /\ dispatched < MaxDispatched
  /\ r.hi - r.lo > 0
  /\ request' = [request EXCEPT ![c] = r]
  /\ \/ /\ CountOf(r) < 2
        /\ Goto(c, "idle", "inline")
        /\ RunInline(c, r)
     \/ /\ CountOf(r) >= 2
        /\ Goto(c, "idle", "acquire")
        /\ UNCHANGED <<args, exec>>
  /\ UNCHANGED <<shared, seen, chunk, budget, slot, total, finished, summed,
                 unwoken>>

\* Mutant: the pool is taken without looking whether it is busy.
mtp_pool_acquire_NoTest(c) ==
  /\ Goto(c, "acquire", IF spawned THEN "staffed" ELSE "spawn")
  /\ busy' = TRUE /\ spawned' = TRUE
  /\ UNCHANGED <<job, ticket, generation, parked, wake_budget, workers,
                 dispatched, completed, semaphore, local, history>>

\* Mutant: a caller that finds a staffed pool busy publishes its job all the same.
mtp_pool_acquire_Publish(c) ==
  /\ \/ /\ ~busy
        /\ Goto(c, "acquire", IF spawned THEN "staffed" ELSE "spawn")
        /\ busy' = TRUE /\ spawned' = TRUE
        /\ UNCHANGED <<args, exec>>
     \/ /\ busy /\ workers > 0
        /\ Goto(c, "acquire", "set_job")
        /\ UNCHANGED <<busy, spawned, args, exec>>
     \/ /\ busy /\ workers = 0
        /\ Goto(c, "acquire", "inline")
        /\ RunInline(c, request[c])
        /\ UNCHANGED <<busy, spawned>>
  /\ UNCHANGED <<job, ticket, generation, parked, wake_budget, workers,
                 dispatched, completed, semaphore, local, finished, summed,
                 unwoken>>

mtp_pool_acquire(c) ==
  /\ \/ /\ ~busy
        /\ Goto(c, "acquire", IF spawned THEN "staffed" ELSE "spawn")
        /\ busy' = TRUE /\ spawned' = TRUE
        /\ UNCHANGED <<args, exec>>
     \/ /\ busy
        /\ Goto(c, "acquire", "inline")
        /\ RunInline(c, request[c])
        /\ UNCHANGED <<busy, spawned>>
  /\ UNCHANGED <<job, ticket, generation, parked, wake_budget, workers,
                 dispatched, completed, semaphore, local, finished, summed,
                 unwoken>>

\* The loop of mtp_pool_spawn_once: it stops at the thread count or at the
\* first thread the system refuses.
mtp_pool_spawn_once(c) ==
  /\ pc[c] = "spawn"
  /\ \/ /\ workers + 1 < Threads
        /\ workers' = workers + 1
        /\ pc' = [pc EXCEPT ![workers] = "await"]
     \/ /\ pc' = [pc EXCEPT ![c] = "staffed"]
        /\ UNCHANGED workers
  /\ UNCHANGED <<job, ticket, generation, parked, wake_budget, busy, spawned,
                 dispatched, completed, semaphore, local, history>>

\* The end of mtp_pool_acquire: without workers the pool is given back.
CheckWorkers(c) ==
  /\ \/ /\ workers = 0
        /\ Goto(c, "staffed", "inline")
        /\ busy' = FALSE
        /\ RunInline(c, request[c])
     \/ /\ workers > 0
        /\ Goto(c, "staffed", "set_job")
        /\ UNCHANGED <<busy, args, exec>>
  /\ UNCHANGED <<job, ticket, generation, parked, wake_budget, spawned,
                 workers, dispatched, completed, semaphore, local, finished,
                 summed, unwoken>>

\* Return from an inline body, and with it from mtp_dispatch.
InlineReturn(c) ==
  /\ Goto(c, "inline", "idle")
  /\ request' = [request EXCEPT ![c] = NoRequest]
  /\ args' = [args EXCEPT ![c] = NoArgs]
  /\ exec' = [exec EXCEPT ![c] = [i \in Index |-> 0]]
  /\ UNCHANGED <<shared, seen, chunk, budget, slot, total, finished, summed,
                 unwoken>>

-----------------------------------------------------------------------------
(***************************************************************************)
(* Publishing: g_pool.job = *job, then mtp_publish.                        *)
(***************************************************************************)
SetJob(c) ==
  /\ Goto(c, "set_job", "store_ticket")
  /\ job' = [ctx |-> c, lo |-> request[c].lo, hi |-> request[c].hi,
             span |-> SpanOf(request[c])]
  /\ dispatched' = dispatched + CountOf(request[c])
  /\ unwoken' = FALSE
  /\ UNCHANGED <<ticket, generation, parked, wake_budget, busy, spawned,
                 workers, completed, semaphore, local, args, exec, finished,
                 summed>>

StoreTicket(c) ==
  /\ Goto(c, "store_ticket", "store_generation")
  /\ ticket' = [next |-> 0, count |-> CountOf(request[c])]
  /\ UNCHANGED <<job, generation, parked, wake_budget, busy, spawned, workers,
                 dispatched, completed, semaphore, local, history>>

StoreGeneration(c) ==
  /\ Goto(c, "store_generation", "load_parked")
  /\ generation' = (generation + 1) % Generations
  /\ UNCHANGED <<job, ticket, parked, wake_budget, busy, spawned, workers,
                 dispatched, completed, semaphore, local, history>>

LoadParked(c) ==
  /\ Goto(c, "load_parked", IF parked > 0 THEN "store_budget" ELSE "claim")
  /\ budget' = [budget EXCEPT ![c] = parked]
  /\ unwoken' = (parked = 0)
  /\ UNCHANGED <<shared, request, seen, chunk, slot, total, args, exec,
                 finished, summed>>

StoreBudget(c) ==
  /\ Goto(c, "store_budget", "wake_load")
  /\ wake_budget' = budget[c]
  /\ UNCHANGED <<job, ticket, generation, parked, busy, spawned, workers,
                 dispatched, completed, semaphore, local, history>>

-----------------------------------------------------------------------------
(***************************************************************************)
(* mtp_wake_some: take a share of the budget, wake that many sleepers.     *)
(***************************************************************************)
AfterWake(t) == IF t \in Callers THEN "claim" ELSE "await"
Share(n) == IF n > MTP_WAKE_FANOUT THEN MTP_WAKE_FANOUT ELSE n
Sleepers == {w \in Workers : pc[w] = "asleep"}

WakeLoad(t) ==
  /\ Goto(t, "wake_load", IF wake_budget > 0 THEN "wake_cas" ELSE AfterWake(t))
  /\ budget' = [budget EXCEPT ![t] = wake_budget]
  /\ UNCHANGED <<shared, request, seen, chunk, slot, total, history>>

\* A weak compare-and-swap may also fail without cause; it then leaves
\* everything as it was, which is a stuttering step.
WakeCas(t) ==
  /\ \/ /\ wake_budget = budget[t]
        /\ Goto(t, "wake_cas", "wake_os")
        /\ wake_budget' = wake_budget - Share(budget[t])
        /\ budget' = [budget EXCEPT ![t] = Share(@)]
     \/ /\ wake_budget # budget[t]
        /\ Goto(t, "wake_cas",
                IF wake_budget > 0 THEN "wake_cas" ELSE AfterWake(t))
        /\ budget' = [budget EXCEPT ![t] = wake_budget]
        /\ UNCHANGED wake_budget
  /\ UNCHANGED <<job, ticket, generation, parked, busy, spawned, workers,
                 dispatched, completed, semaphore, request, seen, chunk, slot,
                 total, history>>

\* FUTEX_WAKE wakes any share of the sleepers; ReleaseSemaphore adds to the
\* count.
mtp_os_wake(t) ==
  /\ pc[t] = "wake_os"
  /\ \/ /\ WaitKind # "semaphore"
        /\ \E woken \in SUBSET Sleepers :
             /\ IF Cardinality(Sleepers) <= budget[t]
                THEN woken = Sleepers
                ELSE Cardinality(woken) = budget[t]
             /\ pc' = [u \in Thread |-> IF u = t THEN AfterWake(t)
                                        ELSE IF u \in woken THEN "unpark"
                                        ELSE pc[u]]
        /\ UNCHANGED semaphore
     \/ /\ WaitKind = "semaphore"
        /\ semaphore' = semaphore + budget[t]
        /\ pc' = [pc EXCEPT ![t] = AfterWake(t)]
  /\ budget' = [budget EXCEPT ![t] = 0]
  /\ UNCHANGED <<job, ticket, generation, parked, wake_budget, busy, spawned,
                 workers, dispatched, completed, request, seen, chunk, slot,
                 total, history>>

-----------------------------------------------------------------------------
(***************************************************************************)
(* mtp_work: claim a chunk, run it, count it.                              *)
(***************************************************************************)
Exhausted == ticket.next >= ticket.count

AfterWork(t) == IF t \in Callers THEN "join" ELSE "await"

\* Mutant: the caller shares the slot of worker 0.
SlotOf_CallerFirst(t) == IF t \in Callers THEN 0 ELSE t

SlotOf(t) == IF t \in Callers THEN workers ELSE t

ChunkNumber(t) == dispatched - ticket.count + chunk[t]

ClaimLoad(t) ==
  /\ Goto(t, "claim", IF Exhausted THEN AfterWork(t) ELSE "take")
  /\ UNCHANGED <<shared, local, history>>

ClaimAdd(t) ==
  /\ Goto(t, "take", IF Exhausted THEN AfterWork(t) ELSE "run")
  /\ ticket' = [ticket EXCEPT !.next = @ + 1]
  /\ chunk' = [chunk EXCEPT ![t] = IF Exhausted THEN @ ELSE ticket.next]
  /\ UNCHANGED <<job, generation, parked, wake_budget, busy, spawned, workers,
                 dispatched, completed, semaphore, request, seen, budget, slot,
                 total, history>>

RunChunk(t) ==
  /\ Goto(t, "run", "body")
  /\ mtp_run(t, job.ctx, ChunkRange(job, chunk[t]), SlotOf(t))
  /\ UNCHANGED <<shared, local, finished, summed, unwoken>>

CompleteChunk(t) ==
  /\ Goto(t, "body", "claim")
  /\ completed' = [completed EXCEPT ![SlotOf(t)] = @ + 1]
  /\ chunk' = [chunk EXCEPT ![t] = 0]
  /\ args' = [args EXCEPT ![t] = NoArgs]
  /\ finished' = [finished EXCEPT ![SlotOf(t)] = @ \cup {ChunkNumber(t)}]
  /\ UNCHANGED <<job, ticket, generation, parked, wake_budget, busy, spawned,
                 workers, dispatched, semaphore, request, seen, budget, slot,
                 total, exec, summed, unwoken>>

-----------------------------------------------------------------------------
(***************************************************************************)
(* mtp_join and the end of mtp_dispatch.                                   *)
(***************************************************************************)
\* Mutant: the sum leaves out the slot of the caller.
mtp_join_WorkersOnly(c) ==
  LET sum == total[c] + completed[slot[c]]
  IN  /\ Goto(c, "join", IF slot[c] = workers - 1 /\ sum = dispatched
                         THEN "release" ELSE "join")
      /\ slot' = [slot EXCEPT ![c] = IF @ < workers - 1 THEN @ + 1 ELSE 0]
      /\ total' = [total EXCEPT ![c] = IF slot[c] < workers - 1 THEN sum ELSE 0]
      /\ UNCHANGED <<shared, request, seen, chunk, budget, history>>

\* Mutant: the join waits until every chunk has been claimed, not completed.
mtp_join_Claimed(c) ==
  /\ Exhausted
  /\ Goto(c, "join", "release")
  /\ UNCHANGED <<shared, local, history>>

\* Mutant: the sum goes one slot past the caller's.
mtp_join_PastCaller(c) ==
  LET sum == total[c] + completed[slot[c]]
  IN  /\ \/ /\ slot[c] <= workers
            /\ Goto(c, "join", "join")
            /\ slot' = [slot EXCEPT ![c] = @ + 1]
            /\ total' = [total EXCEPT ![c] = sum]
            /\ summed' = [summed EXCEPT ![c] = @ \cup finished[slot[c]]]
         \/ /\ slot[c] = workers + 1
            /\ Goto(c, "join", IF sum = dispatched THEN "release" ELSE "join")
            /\ slot' = [slot EXCEPT ![c] = 0]
            /\ total' = [total EXCEPT ![c] = 0]
            /\ summed' = [summed EXCEPT ![c] = {}]
      /\ UNCHANGED <<shared, request, seen, chunk, budget, args, exec,
                     finished, unwoken>>

mtp_join(c) ==
  LET sum == total[c] + completed[slot[c]]
  IN  /\ \/ /\ slot[c] < workers
            /\ Goto(c, "join", "join")
            /\ slot' = [slot EXCEPT ![c] = @ + 1]
            /\ total' = [total EXCEPT ![c] = sum]
            /\ summed' = [summed EXCEPT ![c] = @ \cup finished[slot[c]]]
         \/ /\ slot[c] = workers
            /\ Goto(c, "join", IF sum = dispatched THEN "release" ELSE "join")
            /\ slot' = [slot EXCEPT ![c] = 0]
            /\ total' = [total EXCEPT ![c] = 0]
            /\ summed' = [summed EXCEPT ![c] = {}]
      /\ UNCHANGED <<shared, request, seen, chunk, budget, args, exec,
                     finished, unwoken>>

mtp_pool_release(c) ==
  /\ Goto(c, "release", "idle")
  /\ busy' = FALSE
  /\ request' = [request EXCEPT ![c] = NoRequest]
  /\ exec' = [exec EXCEPT ![c] = [i \in Index |-> 0]]
  /\ UNCHANGED <<job, ticket, generation, parked, wake_budget, spawned,
                 workers, dispatched, completed, semaphore, seen, chunk,
                 budget, slot, total, args, finished, summed, unwoken>>

-----------------------------------------------------------------------------
(***************************************************************************)
(* mtp_worker: await a new generation, spinning first and then parked.     *)
(* The spin loads the same word again, so only its end is a step.          *)
(***************************************************************************)
mtp_await_generation(w) ==
  /\ \/ /\ generation # seen[w]
        /\ Goto(w, "await", "claim")
        /\ seen' = [seen EXCEPT ![w] = generation]
     \/ /\ generation = seen[w]
        /\ Goto(w, "await", "park")
        /\ UNCHANGED seen
  /\ UNCHANGED <<shared, request, chunk, budget, slot, total, history>>

Park(w) ==
  /\ Goto(w, "park", "wait")
  /\ parked' = parked + 1
  /\ UNCHANGED <<job, ticket, generation, wake_budget, busy, spawned, workers,
                 dispatched, completed, semaphore, local, history>>

\* Mutant: the worker sleeps without comparing the generation again.
mtp_os_wait_Blind(w) ==
  /\ Goto(w, "wait", IF WaitKind = "futex" THEN "asleep" ELSE "queued")
  /\ UNCHANGED <<shared, local, history>>

\* The kernel compares the futex word and puts the thread to sleep in one
\* step; on Windows the comparison and the wait are two.
mtp_os_wait(w) ==
  /\ \/ /\ generation = seen[w] /\ WaitKind = "futex"
        /\ Goto(w, "wait", "asleep")
     \/ /\ generation = seen[w] /\ WaitKind = "semaphore"
        /\ Goto(w, "wait", "queued")
     \/ /\ generation # seen[w] \/ WaitKind = "nap"
        /\ Goto(w, "wait", "unpark")
  /\ UNCHANGED <<shared, local, history>>

WaitForSingleObject(w) ==
  /\ Goto(w, "queued", "unpark")
  /\ semaphore > 0
  /\ semaphore' = semaphore - 1
  /\ UNCHANGED <<job, ticket, generation, parked, wake_budget, busy, spawned,
                 workers, dispatched, completed, local, history>>

\* A futex wait may return without a wake.
Interrupt(w) ==
  /\ Goto(w, "asleep", "unpark")
  /\ UNCHANGED <<shared, local, history>>

Unpark(w) ==
  /\ Goto(w, "unpark", "wake_load")
  /\ parked' = parked - 1
  /\ UNCHANGED <<job, ticket, generation, wake_budget, busy, spawned, workers,
                 dispatched, completed, semaphore, local, history>>

-----------------------------------------------------------------------------
Work(t) ==
  \/ ClaimLoad(t) \/ ClaimAdd(t) \/ RunChunk(t) \/ CompleteChunk(t)
  \/ WakeLoad(t) \/ WakeCas(t) \/ mtp_os_wake(t)

CallerStep(c) ==
  \/ mtp_pool_acquire(c) \/ mtp_pool_spawn_once(c) \/ CheckWorkers(c)
  \/ InlineReturn(c)
  \/ SetJob(c) \/ StoreTicket(c) \/ StoreGeneration(c) \/ LoadParked(c)
  \/ StoreBudget(c)
  \/ Work(c)
  \/ mtp_join(c) \/ mtp_pool_release(c)

WorkerStep(w) ==
  \/ mtp_await_generation(w) \/ Park(w) \/ mtp_os_wait(w)
  \/ WaitForSingleObject(w) \/ Unpark(w)
  \/ Work(w)

Next ==
  \/ \E c \in Callers, r \in Requests : mtp_dispatch(c, r)
  \/ \E c \in Callers : CallerStep(c)
  \/ \E w \in Workers : WorkerStep(w) \/ Interrupt(w)

Spec == Init /\ [][Next]_vars

\* Every thread that is not blocked keeps running; bodies return.  Nothing is
\* assumed of new calls, of interrupted sleeps or of which sleeper is woken.
Fairness ==
  /\ \A c \in Callers : WF_vars(CallerStep(c))
  /\ \A w \in Workers : WF_vars(WorkerStep(w))

FairSpec == Spec /\ Fairness

-----------------------------------------------------------------------------
(***************************************************************************)
(* Correctness.                                                            *)
(***************************************************************************)
PCs == {"idle", "inline", "acquire", "spawn", "staffed", "set_job",
        "store_ticket", "store_generation", "load_parked", "store_budget",
        "join", "release", "unborn", "await", "park", "wait", "asleep",
        "queued", "unpark", "claim", "take", "run", "body", "wake_load",
        "wake_cas", "wake_os"}

SharedOK ==
  /\ job \in [ctx : Callers \cup {NoCtx}, lo : Int, hi : Int, span : Int]
  /\ ticket \in [next : Nat, count : Nat]
  /\ generation \in 0..(Generations - 1)
  /\ parked \in Nat /\ wake_budget \in Nat /\ semaphore \in Nat
  /\ workers \in Slots
  /\ dispatched \in Nat /\ completed \in [Slots -> Nat]

LocalOK ==
  /\ pc \in [Thread -> PCs]
  /\ request \in [Callers -> Requests \cup {NoRequest}]
  /\ seen \in [Workers -> 0..(Generations - 1)]
  /\ chunk \in [Thread -> Nat] /\ budget \in [Thread -> Nat]
  /\ slot \in [Callers -> Slots] /\ total \in [Callers -> Nat]

HistoryOK ==
  /\ args \in [Thread -> [ctx : Callers \cup {NoCtx}, range : SUBSET Int,
                          slot : Slots]]
  /\ exec \in [Callers -> [Index -> Nat]]
  /\ finished \in [Slots -> SUBSET Nat]
  /\ summed \in [Callers -> SUBSET Nat]

FlagsOK == busy \in BOOLEAN /\ spawned \in BOOLEAN /\ unwoken \in BOOLEAN

\* Every variable keeps its type; in particular the entries of g_slots that
\* workers, callers and the sum of mtp_completed use are those of the threads the
\* pool was made for, however many of them could be created, and neither parked,
\* the wake budget nor the semaphore's count goes below zero.
TypeOK == SharedOK /\ LocalOK /\ HistoryOK /\ FlagsOK

InBody(t)  == pc[t] \in {"inline", "body"}
RangeOf(c) == request[c].lo..(request[c].hi - 1)

\* No index is handed to two bodies, and none outside [lo, hi) to any: the
\* tickets of mtp_claim, also those of a worker that loaded the ticket of one
\* job and adds to the ticket of the next, never name a chunk twice.
AtMostOnce ==
  \A c \in Callers, i \in Index :
    exec[c][i] <= IF i \in RangeOf(c) THEN 1 ELSE 0

\* mtp_dispatch returns only when every index of its range has been run and no
\* thread is still inside a body that uses its ctx, which lives on the stack
\* of the caller.
ReturnsComplete ==
  [][\A c \in Callers :
       pc[c] # "idle" /\ pc'[c] = "idle" =>
         /\ \A i \in RangeOf(c) : exec[c][i] = 1
         /\ \A t \in Thread \ {c} : InBody(t) => args[t].ctx # c]_vars

\* g_pool.job is overwritten only while no thread holds a chunk it has claimed
\* and not yet counted: mtp_work reads the job through a pointer, after the
\* claim.
JobStable ==
  \A c \in Callers, t \in Thread :
    pc[c] \in {"set_job", "store_ticket"} => pc[t] \notin {"run", "body"}

\* While a chunk is unclaimed or being run the pool is held, so a nested call
\* made by a body takes the inline path and never waits for the pool it runs
\* in.
HeldWhileRunning ==
  ~Exhausted \/ (\E t \in Thread : pc[t] \in {"run", "body"}) => busy

\* Two bodies that run at the same time for one call were given different
\* slots: mettle_parallel_range_slots lets each accumulate in its own.
SlotExclusive ==
  \A t, u \in Thread :
    t # u /\ InBody(t) /\ InBody(u) /\ args[t].ctx = args[u].ctx =>
      args[t].slot # args[u].slot

\* A publisher that loads parked = 0 after storing the generation has left no
\* worker asleep on the generation before: mtp_park raises parked before it
\* compares the generation, and mtp_publish stores the generation before it
\* loads parked.
NoSleeperMissed ==
  unwoken => \A w \in Workers :
               pc[w] \in {"asleep", "queued"} => seen[w] = generation

\* Every call returns, also when every worker sleeps through it, when a wake
\* reaches the wrong sleeper and when the generation word comes round to the
\* value a worker has already seen.
DispatchReturns ==
  \A c \in Callers : pc[c] # "idle" ~> pc[c] = "idle"

(***************************************************************************)
(* The pool keeps the promise of ParallelFor.                              *)
(***************************************************************************)
BodiesOf(c) == {t \in Thread : InBody(t) /\ args[t].ctx = c}

PF == INSTANCE ParallelFor WITH
        active    <- [c \in Callers |-> pc[c] # "idle"],
        remaining <- [c \in Callers |-> {i \in RangeOf(c) : exec[c][i] = 0}],
        running   <- [c \in Callers |->
                        UNION {args[t].range : t \in BodiesOf(c)}]

\* Every behaviour of the pool is one of the abstract parallel loop: each
\* index goes to one body, and a call returns after its last body.
ImplementsParallelFor == PF!Spec
=============================================================================
