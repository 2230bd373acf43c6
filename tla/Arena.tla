-------------------------------- MODULE Arena --------------------------------
(***************************************************************************)
(* The arena of std/arena: bump allocation in a list of chunks, savepoints *)
(* that roll it back, and a free list of chunks to use again.  Addresses   *)
(* are numbers, so that alignment is what it is in the code.  The client   *)
(* restores only savepoints that are still in force: restoring one ends    *)
(* the ones taken after it, and a reset ends them all.  Left out is        *)
(* total_cap, which no operation reads: arena_install_chunk adds to it and *)
(* nothing ever subtracts.                                                 *)
(***************************************************************************)
EXTENDS Integers, Sequences, SequencesExt

CONSTANTS
  ChunkSize,     \* chunk_size, as arena_init sets it
  DefaultAlign,  \* arena_default_alignment
  HeapAlign,     \* the alignment of what mem_alloc returns
  Offsets,       \* bound: where mem_alloc puts a chunk, in steps of HeapAlign
  Sizes,         \* bound: the sizes asked for
  Alignments,    \* bound: the alignments asked for, powers of two
  MaxChunks,     \* bound: the chunks that are ever created
  MaxSaves       \* bound: the savepoints in force

Span == 64       \* bound: chunk k lies in the addresses from k * Span on

ASSUME ArenaAssumption ==
  /\ {ChunkSize, DefaultAlign, HeapAlign} \subseteq Nat \ {0}
  /\ Sizes \subseteq Int /\ Alignments \subseteq Nat
  /\ MaxChunks \in Nat /\ MaxSaves \in Nat
  /\ Offsets \subseteq Nat
  /\ \A n \in Sizes, a \in Alignments, i \in Offsets :
       n + 2 * a + HeapAlign * i <= Span

VARIABLES
  active,         \* the chunks from head on
  free_list,      \* the chunks of the free list, first one first
  next_chunk_id, total_used,
  blocks,         \* history: the live blocks, as [lo, hi) of addresses
  saves           \* history: the savepoints in force, with the blocks then live

vars == <<active, free_list, next_chunk_id, total_used, blocks, saves>>

Init ==
  /\ active = <<>> /\ free_list = <<>>
  /\ next_chunk_id = 1 /\ total_used = 0
  /\ blocks = {} /\ saves = <<>>

\* Mutant: rounds down.
arena_align_up_Down(value, align) == (value \div align) * align

arena_align_up(value, align) == ((value + align - 1) \div align) * align

EffectiveAlign(align) == IF align <= 1 THEN DefaultAlign ELSE align

\* What arena_chunk_new may return: a chunk at any address mem_alloc gives.
NewChunks(cap) ==
  {[id |-> next_chunk_id, base |-> next_chunk_id * Span + HeapAlign * i,
    cap |-> cap, used |-> 0] : i \in Offsets}

\* Where the next block of a chunk starts, and the chunk's use with it.
Start(chunk, align) ==
  arena_align_up(chunk.base + chunk.used, EffectiveAlign(align))
NewUsed(chunk, n, align) == (Start(chunk, align) - chunk.base) + n
Block(chunk, n, align) ==
  [lo |-> Start(chunk, align), hi |-> Start(chunk, align) + n]

\* Mutant: every path adds the whole use of the chunk, as the last one does.
Take_WholeUse(chunk, rest, n, align) ==
  /\ active' = <<[chunk EXCEPT !.used = NewUsed(chunk, n, align)]>> \o rest
  /\ total_used' = total_used + NewUsed(chunk, n, align)
  /\ blocks' = blocks \union {Block(chunk, n, align)}
  /\ UNCHANGED saves

\* Taking n bytes from chunk, in front of the chunks rest.
Take(chunk, rest, n, align) ==
  /\ active' = <<[chunk EXCEPT !.used = NewUsed(chunk, n, align)]>> \o rest
  /\ total_used' = total_used + NewUsed(chunk, n, align) - chunk.used
  /\ blocks' = blocks \union {Block(chunk, n, align)}
  /\ UNCHANGED saves

-----------------------------------------------------------------------------
\* arena_alloc_aligned, by the path it takes.  A failing allocation returns 0
\* and changes nothing.

\* A request larger than a chunk gets one of its own.
AllocDedicated(n, align) ==
  /\ n > ChunkSize
  /\ next_chunk_id <= MaxChunks
  /\ \E chunk \in NewChunks(n + EffectiveAlign(align)) :
       Take(chunk, active, n, align)
  /\ next_chunk_id' = next_chunk_id + 1
  /\ UNCHANGED free_list

\* Mutant: the chunk is filled without looking at where its end is.
HeadFits_Raw(n, align) ==
  active # <<>> /\ Head(active).used + n <= Head(active).cap

HeadFits(n, align) ==
  active # <<>> /\ NewUsed(Head(active), n, align) <= Head(active).cap

AllocHead(n, align) ==
  /\ n \in 0..ChunkSize
  /\ HeadFits(n, align)
  /\ Take(Head(active), Tail(active), n, align)
  /\ UNCHANGED <<free_list, next_chunk_id>>

\* arena_pop_free_chunk: the first free chunk of at least min_cap bytes.
PopIndex(min_cap) == SelectInSeq(free_list, LAMBDA chunk : chunk.cap >= min_cap)

\* Mutant: the chunk is used without being taken off the free list.
AllocReused_StaysFree(n, align) ==
  LET i == PopIndex(ChunkSize)
  IN  /\ n \in 0..ChunkSize /\ ~HeadFits(n, align) /\ i # 0
      /\ Take([free_list[i] EXCEPT !.used = 0], active, n, align)
      /\ UNCHANGED <<free_list, next_chunk_id>>

AllocReused(n, align) ==
  LET i == PopIndex(ChunkSize)
  IN  /\ n \in 0..ChunkSize /\ ~HeadFits(n, align) /\ i # 0
      /\ Take([free_list[i] EXCEPT !.used = 0], active, n, align)
      /\ free_list' = RemoveAt(free_list, i)
      /\ UNCHANGED next_chunk_id

AllocFresh(n, align) ==
  /\ n \in 0..ChunkSize /\ ~HeadFits(n, align) /\ PopIndex(ChunkSize) = 0
  /\ next_chunk_id <= MaxChunks
  /\ \E chunk \in NewChunks(ChunkSize) : Take(chunk, active, n, align)
  /\ next_chunk_id' = next_chunk_id + 1
  /\ UNCHANGED free_list

arena_alloc_aligned(n, align) ==
  \/ AllocDedicated(n, align) \/ AllocHead(n, align)
  \/ AllocReused(n, align) \/ AllocFresh(n, align)

-----------------------------------------------------------------------------
arena_save ==
  /\ Len(saves) < MaxSaves
  /\ saves' = Append(saves,
       [chunk_id |-> IF active = <<>> THEN 0 ELSE Head(active).id,
        used |-> IF active = <<>> THEN 0 ELSE Head(active).used,
        blocks |-> blocks])
  /\ UNCHANGED <<active, free_list, next_chunk_id, total_used, blocks>>

Used(chunks) == FoldLeft(LAMBDA sum, chunk : sum + chunk.used, 0, chunks)

\* The free list once the chunks of doomed are pushed onto it one by one.
Pushed(doomed) ==
  Reverse([i \in 1..Len(doomed) |-> [doomed[i] EXCEPT !.used = 0]]) \o free_list

\* Mutant: the chunk that is left is emptied.
CutBack_Always(chunk, used) == [chunk EXCEPT !.used = 0]

CutBack(chunk, used) ==
  IF used < chunk.used THEN [chunk EXCEPT !.used = used] ELSE chunk

arena_restore(save) ==
  LET k == SelectInSeq(active, LAMBDA chunk : chunk.id = save.chunk_id)
      kept == IF k = 0 THEN <<>> ELSE SubSeq(active, k, Len(active))
      doomed == SubSeq(active, 1, Len(active) - Len(kept))
  IN  /\ active' = IF kept = <<>> THEN <<>>
                   ELSE <<CutBack(Head(kept), save.used)>> \o Tail(kept)
      /\ free_list' = Pushed(doomed)
      /\ total_used' = total_used - Used(doomed)
                         - (IF kept = <<>> THEN 0
                            ELSE Head(kept).used
                                   - CutBack(Head(kept), save.used).used)
      /\ UNCHANGED next_chunk_id

Restore(i) ==
  /\ i \in DOMAIN saves
  /\ arena_restore(saves[i])
  /\ blocks' = saves[i].blocks
  /\ saves' = SubSeq(saves, 1, i)

arena_reset ==
  /\ free_list' = Pushed(active)
  /\ active' = <<>>
  /\ total_used' = 0
  /\ blocks' = {} /\ saves' = <<>>
  /\ UNCHANGED next_chunk_id

-----------------------------------------------------------------------------
Next == \/ \E n \in Sizes, align \in Alignments : arena_alloc_aligned(n, align)
        \/ arena_save
        \/ \E i \in 1..MaxSaves : Restore(i)
        \/ arena_reset

Spec == Init /\ [][Next]_vars

-----------------------------------------------------------------------------
\* No two live blocks share a byte, whatever was rolled back, reset and used
\* again in between.
BlocksDisjoint ==
  \A b, c \in blocks : b # c => b.hi <= c.lo \/ c.hi <= b.lo

\* Every live block lies in the used part of an active chunk: a restore keeps
\* what was allocated before its savepoint ("Allocations made before the save
\* survive", tests/test_arena_savepoint.mettle), and no later allocation can
\* reach it.
BlocksKept ==
  \A b \in blocks : \E i \in DOMAIN active :
    active[i].base <= b.lo /\ b.hi <= active[i].base + active[i].used

\* A chunk is never filled past its end: "arena_alloc_aligned honors explicit
\* alignment requests up to 64." (tests/test_arena_align.mettle)
ChunksNotOverrun == \A i \in DOMAIN active : active[i].used <= active[i].cap

\* Every chunk that was created is on exactly one of the two lists, so
\* arena_free gives all of them back, each once.
EveryChunkOnce ==
  LET chunks == active \o free_list
  IN  /\ \A i, j \in DOMAIN chunks : chunks[i].id = chunks[j].id => i = j
      /\ {chunks[i].id : i \in DOMAIN chunks} = 1..(next_chunk_id - 1)

\* total_used, which arena_stats reports, is the sum over the active chunks,
\* kept up by differences along six paths.
TotalUsedExact == total_used = Used(active)
=============================================================================
