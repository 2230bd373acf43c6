---------------------------- MODULE ParallelPoolInv ---------------------------
(***************************************************************************)
(* The inductive invariant of ParallelPool.  Its core is the ledger: the   *)
(* chunks ever published are numbered, each completion counter is the      *)
(* number of chunks in a set, the sets of the slots are disjoint, and a    *)
(* number is in one of them exactly when its chunk was claimed and nobody  *)
(* holds it any more.  A sum of counters, read one by one while they grow, *)
(* is then the size of a set of completed chunks; when it equals the       *)
(* number of published chunks, all of them are completed.                  *)
(***************************************************************************)
EXTENDS ParallelPool

\* Where a caller and a worker can be, where a caller owns the pool, and where
\* the ticket is the one of its own job.
CallerPCs == {"idle", "inline", "acquire", "spawn", "staffed", "set_job",
              "store_ticket", "store_generation", "load_parked",
              "store_budget", "wake_load", "wake_cas", "wake_os", "claim",
              "take", "run", "body", "join", "release"}
WorkerPCs == {"unborn", "await", "park", "wait", "asleep", "queued", "unpark",
              "wake_load", "wake_cas", "wake_os", "claim", "take", "run",
              "body"}
ParkedPCs == {"wait", "asleep", "queued", "unpark"}
OwnerPCs  == CallerPCs \ {"idle", "inline", "acquire"}
PublishedPCs == OwnerPCs \ {"spawn", "staffed", "set_job", "store_ticket"}

JobOf(c) == [ctx |-> c, lo |-> request[c].lo, hi |-> request[c].hi,
             span |-> SpanOf(request[c])]
Done     == UNION {finished[s] : s \in Slots}
Holders  == {t \in Thread : pc[t] \in {"run", "body"}}
Base     == dispatched - ticket.count
Claimed  == IF ticket.next < ticket.count THEN ticket.next ELSE ticket.count
ParkedWorkers == {w \in Workers : pc[w] \in ParkedPCs}

PCsOK ==
  /\ \A c \in Callers : pc[c] \in CallerPCs
  /\ \A w \in Workers : pc[w] \in WorkerPCs

OwnerOK ==
  /\ busy <=> \E c \in Callers : pc[c] \in OwnerPCs
  /\ \A c, d \in Callers : pc[c] \in OwnerPCs /\ pc[d] \in OwnerPCs => c = d

StaffOK ==
  /\ \A w \in Workers : pc[w] = "unborn" <=> w >= workers
  /\ \A c \in Callers : pc[c] \in OwnerPCs => spawned

RequestOK ==
  \A c \in Callers :
    /\ pc[c] # "idle" => /\ request[c] \in Requests
                         /\ request[c].hi - request[c].lo > 0
    /\ pc[c] \in OwnerPCs \cup {"acquire"} => CountOf(request[c]) >= 2

ParkedOK == parked = Cardinality(ParkedWorkers)

\* The published count is part of the running total.
CountOK ==
  /\ ticket.count <= dispatched
  /\ \A c \in Callers : pc[c] = "store_ticket" =>
       CountOf(request[c]) <= dispatched

LedgerOK ==
  /\ \A s \in Slots : /\ IsFiniteSet(finished[s])
                      /\ completed[s] = Cardinality(finished[s])
                      /\ finished[s] \subseteq 0..(dispatched - 1)
  /\ \A r, s \in Slots : r # s => finished[r] \cap finished[s] = {}

QuietOK ==
  (\A c \in Callers : pc[c] \notin PublishedPCs) =>
    /\ Holders = {}
    /\ Exhausted
    /\ (\A c \in Callers : pc[c] # "store_ticket") => Done = 0..(dispatched - 1)

StoreTicketOK ==
  \A c \in Callers : pc[c] = "store_ticket" =>
    /\ Done = 0..(dispatched - CountOf(request[c]) - 1)
    /\ job = JobOf(c)

PublishedOK ==
  \A c \in Callers : pc[c] \in PublishedPCs =>
    /\ ticket.count = CountOf(request[c])
    /\ job = JobOf(c)
    /\ \A n \in 0..(dispatched - 1) :
         n \in Done <=> /\ n < Base + Claimed
                        /\ \A t \in Holders : ChunkNumber(t) # n
    /\ \A t \in Holders : chunk[t] < Claimed
    /\ \A t, u \in Holders : chunk[t] = chunk[u] => t = u

JoinOf(c) ==
  /\ IsFiniteSet(summed[c]) /\ total[c] = Cardinality(summed[c])
  /\ summed[c] \subseteq UNION {finished[s] : s \in 0..(slot[c] - 1)}
  /\ slot[c] <= workers
  /\ pc[c] # "join" => slot[c] = 0
  /\ pc[c] = "release" => Done = 0..(dispatched - 1)

JoinOK == \A c \in Callers : JoinOf(c)

BodyOK ==
  \A t \in Thread :
    /\ pc[t] = "body" => args[t] = [ctx |-> job.ctx, slot |-> SlotOf(t),
                                    range |-> ChunkRange(job, chunk[t])]
    /\ pc[t] = "inline" => args[t].ctx = t

\* A chunk counts as started once it is claimed and its claimant has entered
\* the body.
Started(k) == /\ k < Claimed
              /\ \A t \in Thread : pc[t] = "run" => chunk[t] # k

ExecOK ==
  \A c \in Callers :
    /\ pc[c] \in PublishedPCs =>
         /\ \A k \in 0..(ticket.count - 1) : \A i \in ChunkRange(JobOf(c), k) :
              exec[c][i] = IF Started(k) THEN 1 ELSE 0
         /\ \A i \in Index \ RangeOf(c) : exec[c][i] = 0
    /\ pc[c] \notin PublishedPCs \cup {"inline"} =>
         \A i \in Index : exec[c][i] = 0
    /\ pc[c] = "inline" =>
         \A i \in Index : exec[c][i] = IF i \in RangeOf(c) THEN 1 ELSE 0

TypeInv   == TypeOK /\ PCsOK /\ StaffOK /\ RequestOK /\ ParkedOK /\ CountOK
LedgerInv == LedgerOK /\ QuietOK /\ StoreTicketOK /\ PublishedOK /\ JoinOK

\* The inductive invariant: types, one owner, the ledger, and what the bodies
\* were given and have run.
IInv == TypeInv /\ OwnerOK /\ LedgerInv /\ BodyOK /\ ExecOK
=============================================================================
