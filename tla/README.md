# TLA+ models of the Mettle runtime

Mettle is a compiler for a systems language, written in C (`src/src`), with its
own optimizer, code generators and linker, and a runtime and standard library
that are linked into the programs it builds.  This directory holds TLA+ modules
for the parts of it where several actors share state, or where a long sequence
of legal calls could reach an illegal state; TLC runs that check them on small
instances; and TLAPS proofs of results that hold on all instances.

## The parts of the system

| Part | Source | What can go wrong | Modules |
| --- | --- | --- | --- |
| Worker pool of parallel loops | `runtime/parallel.c` | one published job, a ticket, a generation word, sleepers, counters summed while they grow | `ParallelPlan`, `ParallelThreads`, `ParallelPool`, `ParallelFor`, `ParallelPoolInv` |
| Spin locks and the network reference count | `std/thread*.mettle`, `std/net*.mettle` | two implementations of one primitive with different results | `SpinLock` |
| Mutexes and condition variables | `runtime/freestanding.c` 3155-3278 | lost wake-ups, timeouts, barging | `FutexMonitor` |
| Threads | `runtime/freestanding.c` 2836-3150 | a handle closed while its child ends | `RuntimeThread` |
| Arena | `std/arena.mettle` | savepoints, reused chunks, alignment | `Arena` |
| Size-class heap | `std/alloc.mettle` | double frees, quarantine, an unlocked read in realloc | `MemHeap` |
| Region registry and pointer identities of `--safe` builds | `runtime/safety.c`, `safety_provenance.inc`, the calls `ir_optimize_safety.c` inserts | descriptors used again, granules with two owners, calls of several locked sections | `SafetyRegistry`, `SafeProgram` |
| Debug agent of `--debug-hooks` builds | `runtime/debug.c` | a reader and a program that stops, a bounded queue between them, a client that leaves | `DebugAgent` |
| Heap, streams and effect stacks of the C runtime, profiler, tracer, hot swap, linker, IR analyses, register allocation | `runtime/`, `linker/`, `ir/`, `semantic/` | see the end | not modelled |
| Lexer, parser, type checker, lowering, optimizer, encoders, diagnostics | the rest | large sequential transformations | not modelled |

The pool is the core: it is the one place of the runtime where user code runs
on several threads without taking part in the synchronization.  Programs reach
the other parts through the standard library: `std/alloc` guards its heap with
the spin lock, `std/arena` takes its chunks from `std/alloc`, `std/thread` and
the pthread functions end in the futex code.  The registry and the agent are
called by code the compiler adds to a program under `--safe` and
`--debug-hooks`.

In all modules an action is one access to memory that other threads can see, or
one system call; what a thread does alone is folded into the access before it.
Accesses are sequentially consistent.  The pool orders what matters (the ticket
is released and acquired, generation and parked are sequentially consistent);
the weaker orders the C code allows elsewhere are not explored.

## The worker pool

`parallel_range`, `parallel_range_slots` and every `@parallel` loop end in
`mtp_dispatch`.

- `ParallelPlan` holds the arithmetic: the thread count from
  `METTLE_PARALLEL_THREADS` or the hardware, the chunk count and span of
  `mtp_plan`, and the indices of chunk `k`.
- `ParallelThreads` is a process that reads the thread count at its first call
  and keeps it.
- `ParallelPool` is the pool.  `job`, `ticket`, `generation`, `parked`,
  `wake_budget`, `busy`, `spawned`, `workers`, `dispatched` are the fields of
  `g_pool`, `completed` that of `g_slots`; `pc` says where each thread is.
  - A caller: `mtp_dispatch`, `mtp_pool_acquire`, `mtp_pool_spawn_once`,
    `CheckWorkers`, then `SetJob`, `StoreTicket`, `StoreGeneration`,
    `LoadParked`, `StoreBudget` (`mtp_publish`), then work, `mtp_join` slot by
    slot, and `mtp_pool_release`.
  - A worker: `mtp_await_generation`, `Park`, `mtp_os_wait` or the Windows
    semaphore, `Unpark`, then `WakeLoad`, `WakeCas`, `mtp_os_wake` (the share of
    the wake-up tree it passes on), and work.
  - Work: `ClaimLoad`, `ClaimAdd`, `RunChunk`, `CompleteChunk`.  The load of the
    ticket and the fetch-and-add are apart, since a worker may load the ticket
    of one job and add to the ticket of the next.
  - Any number of workers may fail to start.
  - `WaitKind` selects futex, semaphore, or yielding on systems without either.
- `ParallelFor` is what a caller relies on: a call hands out sets of indices not
  handed out before, and returns when all have been run.  `ParallelPool`
  implements it under a refinement mapping from the history of what bodies got.

| Run | Instance | Shows |
| --- | --- | --- |
| `ThreadsCap` | 7 texts, 2 machines | more threads than the 16 the documentation allows (see the end) |
| `PoolWorkers` | 1 caller, 2 workers, futex | types, at most once, slots, no sleeper missed, complete on return |
| `PoolRefines` | 2 callers, 1 worker, semaphore, fair | the job is stable, the pool held while chunks run, every call returns; the pool implements `ParallelFor` |

What `mtp_parse_count` makes of a text is compared with the number in it by
`ParseAssumption` of `MCParallelPool`, which both pool runs evaluate: 2801 texts
of up to four characters, on both sides of the cap, with blanks and garbage.
That the chunks of a plan partition the range is proved for all of them (below).

Bounds.  Two values of the generation word make it come round within two jobs,
which 2^32 jobs would do in the code.  Two jobs in a row (`MaxDispatched`)
suffice for a thread left over from the one to meet the other.  Two callers
compete; a third adds nothing to a lock that is tried once.  Two workers are
needed for the wake-up tree.  The proofs below have none of these bounds.

Fairness.  Weak fairness of each thread's own steps: the scheduler runs every
runnable thread, and bodies return.  Nothing is assumed of new calls, of
interrupts, or of which sleeper a wake reaches.

## Spin locks

`SpinLock` has the two forms of `spin_try_lock`: over
`mettle_atomic_compare_exchange_i32`, which returns the value it found, and over
`posix_cas_i32`, which returns whether it stored.  Its client is the reference
count of `net_init` and `net_cleanup`.  These test the count and then name it
again in the update, which are two loads unless the compiler keeps the value; the
model allows both.  For the first form, exclusion and an
exact count are proved for any number of threads and calls (below).  `SpinPosix`
shows that with the second primitive the count is lost: the caller takes 0 for
success in both cases.

## Mutexes and condition variables

`FutexMonitor` models `pthread_mutex_lock`, `_trylock`, `_unlock`, `mettle_mutex_wait`,
`pthread_cond_wait`, `_signal` and `_broadcast`, with spurious returns, timeouts
and `EAGAIN`, under a monitor client.  `Monitor`: two producers, one of which
locks with a timeout and tries again, two consumers, three items, announced by
signals or by broadcasts, before or after the unlock.  One thread holds the
mutex; a free mutex with sleepers has a wake under way; an item with waiters has
an announcement under way; everybody finishes under weak fairness of threads.
A futex wake may reach any sleeper.  The sequence word has more values than
there are announcements; a wait that 2^32 announcements overtake is lost in the
code too.

## Threads

`RuntimeThread` models creation with each of its failures, the child up to its
return or its `pthread_exit`, the kernel's clearing of `tid` and its wake, waiting with and without timeout, join,
close and detach.  `ThreadHandles`: two threads, two handles.  The child's stack
and block outlive it; only what was detached before its child ended stays
allocated; a wait without timeout returns once the child has ended.
`JoinSeesResult` is about each answer: a wait that finds the thread ended, and
the wait in a join, answer only after the child has left its stack, and the join
hands out the result when the function returned.  `pthread_exit` drops its
argument, so a join hands out 0 behind it.  The owner of a handle alone uses it, as in `std/thread`.

## Arena

`Arena` models `arena_alloc_aligned` with its three paths (head chunk, free
list, new chunk), savepoints, restores and resets.  Addresses are
numbers, so alignment is computed.  `ArenaHeapAligned`: alignments up to that of
the heap; live blocks are disjoint and within their chunks, a restore keeps what
was live at the save, no chunk is lost or listed twice, `total_used` is exact.
`ArenaOverAligned`: with an alignment above the heap's, a block that starts a
chunk can end behind it.  `total_cap` is left out: every installation of a chunk
adds to it, also of one that comes back from the free list, nothing but
`arena_stats` reads it, and no property depends on it.

## Size-class heap

`MemHeap` models the operations of `std/alloc`, which run under the spin lock
and are one action each, except `mem_realloc`, whose header read comes before
the lock.  Clients free twice, write to quarantined blocks, and free what others
reallocate.  `MemHeap` (the run): two threads, two classes, slabs of two blocks,
a quarantine of two and one of a single large block, four allocations, memory
for five blocks, so that maps fail too.  Every small block is in one place;
counters and mappings add up, also after `mem_heap_destroy`; a damaged block is
not used again; reuse waits for a full quarantine; a failed growth keeps the old
block.  Not covered: a write to a block that has left the quarantine, which
damages the free list in the code and which the heap does not claim to detect.

## Memory safety of --safe builds

`SafetyRegistry` is the registry: `slot` is the granule map (`g_safety_l1` and
what hangs below it), `region` the descriptors, `free` the list of recycled
ones, `generation` and `live` the counters.  An operator is the body of one
section under `g_safety_lock`, so that a call of several sections is several
steps.  An identity is the number the code makes, generation times `IdSpan` plus
descriptor, and is taken apart again when it is checked; the identity that each
byte of a stored pointer carries is kept with the region it was stored in.

`SafeProgram` is the other side: threads that allocate, resize, free, enter and
leave a frame, use a literal and store a pointer, with the calls the compiler
puts around each of these.  `mettle_safety_reregister` is its five locked
sections, `mettle_safety_literal_identity` its two.  The allocator is external:
it hands out any free block, and a resize fails, stays or moves.  The threads
are correct programs.  What the properties ask is what the checks would answer
for every pointer a thread ever held, at every offset and size.

`Safety`: two threads, two blocks of four bytes, two one-byte locals that share
a granule, one literal.  An accepted access is inside the object its pointer was
made for, and that object is alive, although the address and the descriptor may
have been used again (`ChecksSound`).  A correct access is accepted
(`ChecksComplete`), unless two calls on one address overlapped.  The registry's
counters and free list agree with its tables (`RegistryExact`).  A load finds
the identity of what was stored, across resizes, none in bytes that a shrink cut
off and a growth gave back, and a rejected one where two stored pointers meet
(`ValuesFollowBytes`); for this one thread stores at two places that overlap.
`SafetyOverlap`: without the exception, a correct program can be rejected.

Bounds.  Three generations: an object, one that takes its place, and one beside
them; the run ends where `MaxGeneration` refuses the fourth, as the code does at
2^40.  Four descriptors are more than three registrations need, so that one is
taken from the free list because it is there and not because the table is full.
A granule of two bytes is the smallest that two objects can share.

## The debug agent

`DebugAgent` has three actors.  The main thread runs `mettle_dbg_enter`,
`mettle_dbg_exit` and `mettle_dbg_line`, and stops in `dbg_pause_here`, whose
reset of the mode, announcement, wait, drain and answers are steps of their own.
The reader thread takes a command from the pipe and, under `g_lock`, queues it
(a query, or any command while the program is stopped) or applies it.  The
client is external: it resumes once per stop it was told of, and otherwise
sends, detaches and disconnects as it likes.  `queue` is `g_cmd_queue` from head
to tail, with room for one entry less than its size.  `calls` are the real
calls, `g_stack` is the shadow stack, which ignores calls beyond its size.

`Debug`: room for two queued commands, one breakpoint, two frames and three real
calls, three commands from the client.  Each table overflows in some behaviour;
the properties say what holds then.  Commands of a stop reach that stop and no
later one; breakpoints are what the client's commands add up to, whichever
thread applied them; a step ends where it was asked to end, counted in real
calls; a resume takes effect; a client that leaves leaves a running program; a
pause stops the program.  The exceptions are written into the properties, and
each is needed:

- `lost`: a breakpoint command, a resume or a detach that finds the queue full is
  dropped, and so is a breakpoint that finds the table full.  Only the property
  about that kind of command is excused.
- `Overtakes`: a resume leaves what is behind it in the queue for the next stop,
  while the reader applies newer commands at once.  Breakpoint commands left
  behind still count; only one that overtakes such a command excuses
  `BreakpointsAsAsked`.
- `DetachLeftBehind`: a detach behind a resume waits for the next stop too, and
  is carried out there; until then the program runs with its hooks on.
- `undone`: start-up switches the hooks on after the reader may have switched
  them off.
- Calls deeper than the shadow stack: `StepsLandWhereAsked` holds until then,
  and `PauseTakesEffect` until the shadow stack is empty.

The test of `g_bp_count` in `mettle_dbg_line`, made without the lock, is one step
with the look at the table: a line can miss a breakpoint while the reader edits
the table, and no property says that it cannot.

Bounds.  Three commands are a breakpoint, a resume behind it, and one that
overtakes or follows the resume.  One command in the pipe at a time: the reader
takes them in order, and a longer pipe only delays.

Fairness.  Weak fairness of the hooks and stops (`Hooks`) and of the reader: the
scheduler runs both, and neither waits on the other outside `dbg_pause_here`.
Nothing is assumed of the client, nor of the program, which may go from line to
line for ever and need not call, return or fault.

## What is proved

`ParallelPlan_proofs`, `ParallelPoolType_proofs`, `ParallelPool_proofs` and
`ParallelExec_proofs` prove, for every finite set of callers, thread count, set
of requests, way of waiting and width of the generation word:

| Theorem | States |
| --- | --- |
| `PlanPartitions` | for every thread count, range and `min_chunk`, the chunks cover the range once, none is empty, and a split range has at most four chunks a thread, of a span not below `min_chunk` |
| `TypeCorrect` | `TypeOK` |
| `LedgerInvariant` | one owner; the counters are those of the completed chunks |
| `JobIsStable`, `PoolHeldWhileRunning` | `JobStable`, `HeldWhileRunning` |
| `Inductive` | the whole inductive invariant `IInv` |
| `SlotsExclusive` | `SlotExclusive` |
| `RunsAtMostOnce` | `AtMostOnce` |
| `ReturnsWhenComplete` | the action property `ReturnsComplete` |

The assumptions are `ConstantsAssumption` of `ParallelPool`.  None of the
properties is inductive: that the join may let the caller go when a sum of
counters, read one by one while they grow, equals `dispatched` depends on what
the counters count.  `ParallelPoolInv` therefore numbers all chunks ever
published, and keeps, as history, the set of numbers each slot has completed.
`LedgerOK` says the sets are disjoint and the counters are their sizes,
`PublishedOK` that a number is in one of them exactly when its chunk was claimed
and nobody holds it, `JoinOK` that the partial sum is the size of a set of
completed numbers.  When the sum reaches `dispatched` that set is everything.
The layers are proved one on the other: types and control, one owner, the
ledger, what a body was given, what was run.  `ParallelPlan_proofs` supplies the
arithmetic: chunks are non-empty, disjoint, ordered, and cover the range.

`SpinLock_proofs` proves `SpinLockSafe`: with the primitive that returns the old
value, for every set of threads, at most one is inside, the word is set exactly
then, and the count is that of a sequential run.  The invariant adds that what a
thread loaded is still the count when it loads it again and when it stores
(`SeenIsCurrent`), which is what exclusion is for.

`FutexMonitor_proofs` proves `MutexExcludes` (`MutualExclusion`) and
`UnlocksReach` (`NoUnlockLost`) for every set of threads.  Neither is inductive
alone: a wake ends where its caller's `ret` says, so the invariant adds that an
unlock never returns to an unlock (`Returns`); and that an unlock finds the word
set, which `NoUnlockLost` needs, is exclusion.

`RuntimeThread_proofs` proves the three safety properties of `ThreadHandles` for every
set of threads and handles: `ChildrenKeepMemory`, `JoinsSeeResults`,
`LeaksAreDetached`.  `ChildInv` ties the word `tid` to where the child is, which
is what `mettle_thread_close` decides by; `OwnerInv` says that a call is about a
handle its caller owns and that an owned handle is allocated, so that no two
closes meet.  For `JoinSeesResult`, `ChildInv` also ties the stored result to the
way the child ended, and `CollectInv` says that a join about to read it has seen
the child gone.

`DebugAgent_proofs` proves two properties of the `Debug` run, for every size of
queue, table and stack, every program and any number of commands:

| Theorem | States |
| --- | --- |
| `StopCommandsSafe` | `StopCommandsMeetTheirStop` |
| `StepsSafe` | the action property `StepsLandWhereAsked` |

Its assumption `DebugConstants` says that the shadow stack has room for a frame
and that edits are breakpoint commands.  `StopCommandsMeetTheirStop` is not
inductive: nothing in it keeps a resume from following a resume.  `StopInv` adds
that in queue and pipe, read in this order, nothing meant for a stop comes after
a resume, and that the client does not know of a stop once it has sent one; so
the tail of the queue that a resume leaves behind is harmless.  `Depths` says
that the shadow stack is as deep as the real calls until they outgrow it, and
`ModeInv` that the mode and depth the hooks compare with are those of the last
resume; the second needs `StopInv`, since a resume applied by the reader while
the program runs would break it.

Only model-checked: liveness (`DispatchReturns`, `Completes`, `WaitReturns`,
`ResumeCarriedOut`, `DetachedRunsOn`, `PauseTakesEffect`), which is out of the
prover's reach, and the refinement of `ParallelFor`, whose fairness part is
liveness; `NoSleeperMissed`; `BreakpointsAsAsked`; what `mtp_parse_count`
computes, which needs induction over the text; the registry, whose granule loops
are folds; `NoSignalLost`, which counts; and the arena and the heap.

## Where code and text disagree

- `std/net_posix` and `std/thread_posix` take the result of `posix_cas_i32` for
  its opposite: run `SpinPosix`.
- An over-aligned block at the start of a chunk is not compared with the
  chunk's capacity: run `ArenaOverAligned`.
- Two threads that first use one literal together both find it unregistered, and
  the second registration retires the identity of the first; a comment of the
  tests says that `--safe` must not reject a correct program: run
  `SafetyOverlap`.
- `docs/standard-library.md:391` says that the caller always runs the last
  chunk.  In the code, and in `ParallelPool`, whoever claims it runs it; no
  property depends on it.
- The documentation caps `METTLE_PARALLEL_THREADS` at 16
  (`docs/standard-library.md:393`, `docs/compilation.md:280`), the code at 64
  (`runtime/parallel.h:4`): run `ThreadsCap`.

## What is not modelled

- The byte loops of `mettle_parallel_fill` and `mettle_parallel_copy_bytes`:
  bodies of loops, not synchronization.
- 64-bit overflow of chunk bounds: only for ranges within one span of 2^63.
- Weak memory, and durations: a timeout may strike at any moment of a sleep.
- A second waiter on one thread handle, and a shared `errno` word.
- Of `runtime/safety.c`: the frames that carry identities into callees,
  `mettle_safety_reset`, the allocator depth, foreign regions, deadlines, the
  checks of captured tasks, the checks hoisted out of loops, and a failure of the
  operating system to map a page.
- Of `runtime/debug.c`: the table of locals, the text of requests and replies,
  conditions (one holds or does not), the failure of start-up, and the FIFO of
  POSIX systems, which never shows that its other end closed, so that
  `DetachedRunsOn` speaks of the named pipe only.
- The heap of `runtime/freestanding.c` (lines 2538-2695), its buffered streams
  (3466-3778) and effect stacks (3885-4038); the profiler, the tracer and hot
  swap; symbol resolution; the effect fixpoint and the register allocator.  These
  have state or algorithms of a size a model could hold, and are where this
  development would grow next.
- The compiler proper, more than nine tenths of the repository: sequential phases
  over trees, tables and bytes whose correctness is about the meaning of
  programs.  A model would be a second compiler; the repository checks them by
  tests and translation validation.  The share of its lines these modules map is
  small for this reason, and stays so.
