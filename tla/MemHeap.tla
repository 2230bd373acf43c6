------------------------------- MODULE MemHeap -------------------------------
(***************************************************************************)
(* The heap of std/alloc: size classes with free lists, one mapping per    *)
(* large block, and the two quarantines that keep freed blocks out of use  *)
(* for a while.  Every public operation runs under the heap's spin lock    *)
(* (module SpinLock) and is one action, except mem_realloc, which reads    *)
(* the block's header before it takes the lock.                            *)
(*                                                                         *)
(* The clients make the mistakes the heap claims to handle: they free a    *)
(* small block twice, write to one after freeing it, and free a block that *)
(* another thread is reallocating.                                         *)
(***************************************************************************)
EXTENDS Integers, FiniteSets, Sequences, SequencesExt

CONSTANTS
  Threads,
  Requests,         \* the sizes clients ask for
  Granule,          \* the step between size classes: 16 in the code
  NumClasses,       \* mem_num_classes: 256 in the code
  Header,           \* mem_header_bytes: 16 in the code
  PageSize,
  SlabBytes,        \* mem_slab_bytes: 65536 in the code
  SlabBlocks,       \* the blocks a slab holds at least: 8 in the code
  QuarantineSlots,  \* mem_quarantine_slots: 32 in the code
  LargeSlots,       \* mem_large_quarantine_slots: 8 in the code
  MaxBlocks,        \* bound: the blocks that memory has room for
  MaxAllocs,        \* bound: successful allocations
  MaxInvalid        \* bound: frees of dead blocks

ASSUME MemHeapAssumption ==
  /\ Requests \subseteq Nat \ {0} /\ IsFiniteSet(Requests)
  /\ {Granule, NumClasses, Header, PageSize, SlabBytes, SlabBlocks,
      QuarantineSlots, LargeSlots} \subseteq Nat \ {0}
  /\ {MaxBlocks, MaxAllocs, MaxInvalid} \subseteq Nat

ClassIndices == 0..(NumClasses - 1)
Blocks == 1..MaxBlocks

mem_class_size(idx) == (idx + 1) * Granule
mem_max_small == mem_class_size(NumClasses - 1)
mem_round_up_page(n) == ((n + PageSize - 1) \div PageSize) * PageSize

VARIABLES
  class_idx,     \* BlockHeader.class_idx of each block so far; -1 when large
  size,          \* BlockHeader.size
  magic,         \* BlockHeader.magic: "live" or "dead"
  written,       \* the poison of a freed block has been overwritten
  free_lists,    \* a sequence of blocks for each class
  slabs,         \* the slab list: the first block of each slab
  mappings,      \* what is mapped: first block |-> bytes
  quarantine, large_quarantine,   \* the two rings, oldest block first
  bytes_in_use, bytes_reserved, live_allocs, total_allocs, total_frees,
  invalid_frees,
  growing,       \* the mem_realloc a thread is in: <<block, new size>> or <<>>
  status,        \* "up", "reported", "faulted" or "destroyed"
  released       \* history: small frees made since each block was freed

vars == <<class_idx, size, magic, written, free_lists, slabs, mappings,
          quarantine, large_quarantine, bytes_in_use, bytes_reserved,
          live_allocs, total_allocs, total_frees, invalid_frees, growing,
          status, released>>

Init ==
  /\ class_idx = <<>> /\ size = <<>> /\ magic = <<>> /\ written = <<>>
  /\ free_lists = [c \in ClassIndices |-> <<>>]
  /\ slabs = {} /\ mappings = <<>>
  /\ quarantine = <<>> /\ large_quarantine = <<>>
  /\ bytes_in_use = 0 /\ bytes_reserved = 0 /\ live_allocs = 0
  /\ total_allocs = 0 /\ total_frees = 0 /\ invalid_frees = 0
  /\ growing = [t \in Threads |-> <<>>]
  /\ status = "up"
  /\ released = <<>>

\* The heap as the operations see it: mem_alloc_nolock and mem_free_nolock are
\* functions of it, since mem_realloc runs one after the other.
Heap ==
  [class_idx |-> class_idx, size |-> size, magic |-> magic,
   written |-> written, free_lists |-> free_lists, slabs |-> slabs,
   mappings |-> mappings, quarantine |-> quarantine,
   large_quarantine |-> large_quarantine, bytes_in_use |-> bytes_in_use,
   bytes_reserved |-> bytes_reserved, live_allocs |-> live_allocs,
   total_allocs |-> total_allocs, total_frees |-> total_frees,
   invalid_frees |-> invalid_frees, status |-> status, released |-> released]

Becomes(h) ==
  /\ class_idx' = h.class_idx /\ size' = h.size /\ magic' = h.magic
  /\ written' = h.written /\ free_lists' = h.free_lists
  /\ slabs' = h.slabs /\ mappings' = h.mappings
  /\ quarantine' = h.quarantine /\ large_quarantine' = h.large_quarantine
  /\ bytes_in_use' = h.bytes_in_use /\ bytes_reserved' = h.bytes_reserved
  /\ live_allocs' = h.live_allocs /\ total_allocs' = h.total_allocs
  /\ total_frees' = h.total_frees /\ invalid_frees' = h.invalid_frees
  /\ status' = h.status /\ released' = h.released

-----------------------------------------------------------------------------
\* os_mem_map of count new dead blocks of one class, in one mapping of the
\* given bytes; it fails when memory is full.
CanMap(h, count) == Len(h.size) + count <= MaxBlocks

Map(h, count, idx, bytes, block_size) ==
  LET first == Len(h.size) + 1
      all(x) == [i \in 1..count |-> x]
  IN  [h EXCEPT !.class_idx = @ \o all(idx), !.size = @ \o all(block_size),
                !.magic = @ \o all("dead"), !.written = @ \o all(FALSE),
                !.released = @ \o all(QuarantineSlots),
                !.mappings = @ @@ (first :> bytes),
                !.bytes_reserved = @ + bytes]

Stride(idx) == Header + mem_class_size(idx)

SlabSize(idx) ==
  LET min_bytes == Header + Stride(idx) * SlabBlocks
  IN  IF min_bytes > SlabBytes THEN mem_round_up_page(min_bytes) ELSE SlabBytes

SlabCount(idx) == (SlabSize(idx) - Header) \div Stride(idx)

\* mem_refill_class: a slab of dead blocks, each pushed on the free list.
mem_refill_class(h, idx) ==
  LET first == Len(h.size) + 1
      carved == [i \in 1..SlabCount(idx) |-> first + i - 1]
  IN  [Map(h, SlabCount(idx), idx, SlabSize(idx), mem_class_size(idx))
         EXCEPT !.slabs = @ \union {first},
                !.free_lists[idx] = Reverse(carved) \o @]

\* Block b is handed out.
Usable(h, b) == IF h.class_idx[b] < 0 THEN h.size[b] - Header ELSE h.size[b]

HandOut(h, b) ==
  [h EXCEPT !.magic[b] = "live", !.bytes_in_use = @ + Usable(h, b),
            !.live_allocs = @ + 1, !.total_allocs = @ + 1]

ClassOf(n) == (n + Granule - 1) \div Granule - 1

\* The block mem_alloc_nolock returns, and the heap it leaves; no block when
\* os_mem_map fails.
mem_alloc_nolock(h, n) ==
  LET total == mem_round_up_page(Header + n)
      idx == ClassOf(n)
      refill == h.free_lists[idx] = <<>>
      full == IF refill THEN mem_refill_class(h, idx) ELSE h
      list == full.free_lists[idx]
      none == [block |-> 0, heap |-> h]
  IN  IF n > mem_max_small
      THEN IF ~CanMap(h, 1) THEN none
           ELSE [block |-> Len(h.size) + 1,
                 heap |-> HandOut(Map(h, 1, -1, total, total),
                                  Len(h.size) + 1)]
      ELSE IF refill /\ ~CanMap(h, SlabCount(idx)) THEN none
           ELSE [block |-> Head(list),
                 heap |-> HandOut([full EXCEPT !.free_lists[idx] = Tail(list)],
                                  Head(list))]

\* Mutant: the poison is not looked at.
mem_quarantine_release_Unchecked(h, b) ==
  [h EXCEPT !.free_lists[h.class_idx[b]] = <<b>> \o @]

\* mem_quarantine_release: a block whose poison is damaged ends the program.
mem_quarantine_release(h, b) ==
  IF h.written[b] THEN [h EXCEPT !.status = "reported"]
  ELSE [h EXCEPT !.free_lists[h.class_idx[b]] = <<b>> \o @]

\* Mutant: the newest block of a full ring is released.
mem_quarantine_push_Newest(h, b) ==
  IF Len(h.quarantine) = QuarantineSlots
  THEN [mem_quarantine_release(h, Last(h.quarantine))
          EXCEPT !.quarantine = Append(Front(@), b)]
  ELSE [h EXCEPT !.quarantine = Append(@, b)]

\* mem_quarantine_push: a full ring releases its oldest block.
mem_quarantine_push(h, b) ==
  IF Len(h.quarantine) = QuarantineSlots
  THEN [mem_quarantine_release(h, Head(h.quarantine))
          EXCEPT !.quarantine = Append(Tail(@), b)]
  ELSE [h EXCEPT !.quarantine = Append(@, b)]

\* Mutant: the mapping that is given back stays counted.
mem_large_quarantine_push_Counted(h, b) ==
  IF Len(h.large_quarantine) = LargeSlots
  THEN [h EXCEPT !.large_quarantine = Append(Tail(@), b),
                 !.mappings = Restrict(@, DOMAIN @ \ {h.large_quarantine[1]})]
  ELSE [h EXCEPT !.large_quarantine = Append(@, b)]

\* mem_large_quarantine_push: a full ring unmaps its oldest block.
mem_large_quarantine_push(h, b) ==
  LET oldest == Head(h.large_quarantine)
  IN  IF Len(h.large_quarantine) = LargeSlots
      THEN [h EXCEPT !.large_quarantine = Append(Tail(@), b),
                     !.bytes_reserved = @ - h.size[oldest],
                     !.mappings = Restrict(@, DOMAIN @ \ {oldest})]
      ELSE [h EXCEPT !.large_quarantine = Append(@, b)]

\* A large block becomes inaccessible, header and all, when it is freed; here
\* its magic stands for that.  A small one is poisoned.
Retire(h, b) ==
  [h EXCEPT !.magic[b] = "dead", !.written[b] = FALSE,
            !.bytes_in_use = @ - Usable(h, b),
            !.live_allocs = @ - 1, !.total_frees = @ + 1]

\* One more small free has been made since each of the others.
Passed(h, b) ==
  [h EXCEPT !.released = [x \in DOMAIN @ |->
                            IF x = b THEN 0
                            ELSE Min({@[x] + 1, QuarantineSlots})]]

Push(h, b) ==
  IF h.class_idx[b] < 0 THEN mem_large_quarantine_push(h, b)
  ELSE mem_quarantine_push(Passed(h, b), b)

\* Mutant: the magic is not looked at.
mem_free_nolock_Trusting(h, b) == Push(Retire(h, b), b)

mem_free_nolock(h, b) ==
  IF h.magic[b] # "live" THEN [h EXCEPT !.invalid_frees = @ + 1]
  ELSE Push(Retire(h, b), b)

-----------------------------------------------------------------------------
\* The blocks a client may pass: a large block only while it is in use, since
\* its header cannot be read afterwards.
Pointers == {b \in DOMAIN size : magic[b] = "live" \/ class_idx[b] >= 0}

Idle(t) == status = "up" /\ growing[t] = <<>>
MayAlloc == total_allocs < MaxAllocs
MayFree(b) == magic[b] = "live" \/ invalid_frees < MaxInvalid

mem_alloc(t, n) ==
  /\ Idle(t) /\ MayAlloc
  /\ Becomes(mem_alloc_nolock(Heap, n).heap)
  /\ UNCHANGED growing

mem_free(t, b) ==
  /\ Idle(t) /\ MayFree(b)
  /\ Becomes(mem_free_nolock(Heap, b))
  /\ UNCHANGED growing

\* mem_realloc up to the lock: the header of a dead block is reported, a
\* request that fits is answered in place.
ReallocRead(t, b, n) ==
  /\ Idle(t) /\ MayFree(b)
  /\ IF magic[b] # "live"
     THEN Becomes([Heap EXCEPT !.invalid_frees = @ + 1]) /\ UNCHANGED growing
     ELSE /\ Usable(Heap, b) < n
          /\ growing' = [growing EXCEPT ![t] = <<b, n>>]
          /\ Becomes(Heap)

\* Mutant: the old block is freed before the new one is allocated.
Grown_FreeFirst(h, b, n) ==
  mem_alloc_nolock(mem_free_nolock(h, b), n).heap

\* The locked part: allocate, copy, free the old block, which another thread
\* may have freed in between; copying from a large one then faults.
Grown(h, b, n) ==
  LET new == mem_alloc_nolock(h, n)
  IN  IF new.block = 0 THEN h
      ELSE IF h.magic[b] # "live" /\ h.class_idx[b] < 0
           THEN [new.heap EXCEPT !.status = "faulted"]
           ELSE mem_free_nolock(new.heap, b)

ReallocGrow(t) ==
  /\ status = "up" /\ growing[t] # <<>>
  /\ MayAlloc /\ MayFree(growing[t][1])
  /\ Becomes(Grown(Heap, growing[t][1], growing[t][2]))
  /\ growing' = [growing EXCEPT ![t] = <<>>]

\* Mutant: the quarantined large blocks are forgotten.
mem_heap_destroy_SlabsOnly ==
  /\ \A t \in Threads : Idle(t)
  /\ Becomes([Heap EXCEPT !.status = "destroyed",
                           !.mappings = Restrict(@, DOMAIN @ \ slabs)])
  /\ UNCHANGED growing

\* mem_heap_destroy: the slabs and the quarantined large blocks are unmapped.
mem_heap_destroy ==
  /\ \A t \in Threads : Idle(t)
  /\ Becomes([Heap EXCEPT !.status = "destroyed",
                 !.mappings = Restrict(@, DOMAIN @ \ (slabs \union
                                                   ToSet(large_quarantine)))])
  /\ UNCHANGED growing

\* The client writes to a small block that it has freed and that is still in
\* quarantine.
WriteAfterFree(b) ==
  /\ status = "up" /\ Contains(quarantine, b) /\ ~written[b]
  /\ Becomes([Heap EXCEPT !.written[b] = TRUE])
  /\ UNCHANGED growing

Next ==
  \/ \E t \in Threads :
       \/ \E n \in Requests : mem_alloc(t, n)
       \/ \E b \in Pointers : mem_free(t, b)
       \/ \E b \in Pointers, n \in Requests : ReallocRead(t, b, n)
       \/ ReallocGrow(t)
  \/ \E b \in Pointers : WriteAfterFree(b)
  \/ mem_heap_destroy

Spec == Init /\ [][Next]_vars

-----------------------------------------------------------------------------
Live == {b \in DOMAIN size : magic[b] = "live"}
LargeLive == {b \in Live : class_idx[b] < 0}
Total(f, S) == FoldSet(LAMBDA b, sum : sum + f[b], 0, S)

\* Every small block is in use, on the free list of its own class or in
\* quarantine, in one of them and once, however often it is freed and whatever
\* mem_realloc read before it got the lock.
EveryBlockOnce ==
  status = "up" =>
    \A b \in {x \in DOMAIN size : class_idx[x] >= 0} :
      LET places == SelectSeq(free_lists[class_idx[b]] \o quarantine,
                              LAMBDA x : x = b)
      IN  Len(places) = IF b \in Live THEN 0 ELSE 1

\* What mem_heap_stats reports is what the blocks and mappings add up to.
CountersExact ==
  status = "up" =>
    /\ bytes_in_use = Total([b \in Live |-> Usable(Heap, b)], Live)
    /\ live_allocs = Cardinality(Live)
    /\ live_allocs = total_allocs - total_frees
    /\ bytes_reserved = Total(mappings, DOMAIN mappings)

\* No mapping is forgotten or given back early: mapped are the slabs, the
\* large blocks in use and those in quarantine; and mem_heap_destroy leaves
\* only the large blocks that were never freed.
MappingsAccounted ==
  DOMAIN mappings =
    LargeLive \union IF status = "destroyed" THEN {}
                     ELSE slabs \union ToSet(large_quarantine)

\* A block that was written to after it was freed never comes back into use:
\* "A heap block was written through a dangling pointer after it was freed" is
\* reported when it leaves the quarantine.
WrittenNeverReused ==
  status = "up" =>
    \A idx \in ClassIndices : \A b \in ToSet(free_lists[idx]) : ~written[b]

\* A freed small block is handed out again only when a full quarantine of other
\* frees has gone by.
ReuseIsDelayed ==
  [][\A b \in DOMAIN magic : magic[b] = "dead" /\ magic'[b] = "live"
                               => released[b] >= QuarantineSlots]_vars

\* A mem_realloc that finds no memory leaves the old block in use.
FailedGrowthKeeps ==
  [][\A t \in Threads :
       growing[t] # <<>> /\ growing'[t] = <<>> /\ total_allocs' = total_allocs
         => magic' = magic]_vars
=============================================================================
