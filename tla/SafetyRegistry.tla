---------------------------- MODULE SafetyRegistry ----------------------------
(***************************************************************************)
(* The registry behind --safe: which memory region owns each granule, what *)
(* a region's extent and lifetime are, and which allocation identity every *)
(* stored pointer byte carries (src/runtime/safety.c and                   *)
(* src/runtime/safety_provenance.inc).                                     *)
(*                                                                         *)
(* Each operator below is the body of one section the code runs under      *)
(* g_safety_lock, as a function from the registry (and the byte metadata)  *)
(* to its next value.  A byte with no metadata entry and a byte whose      *)
(* entry has identity zero are one case here: no reader tells them apart.  *)
(***************************************************************************)
EXTENDS Integers, SequencesExt

CONSTANTS
  AddressLimit,   \* the last address of the supported range
  Granule,        \* METTLE_SAFETY_GRANULE
  MaxRegions,     \* SAFETY_MAX_BLOCKS * SAFETY_BLOCK_SIZE, the end of the ids
  MaxGeneration,  \* 2^40 - 1 in the code
  IdSpan          \* 2^24: an identity is generation * IdSpan + id

ASSUME RegistryConstants ==
  /\ {AddressLimit, Granule, MaxRegions, MaxGeneration, IdSpan} \subseteq Nat
  /\ Granule > 0 /\ MaxRegions > 2 /\ IdSpan > MaxRegions

Unowned == 0
Contested == 1
FirstId == 2
Ids == FirstId .. MaxRegions - 1

Null == 0
Addresses == 1 .. AddressLimit
Slots == 0 .. AddressLimit \div Granule

NoIdentity == 0
Mixed == -1       \* UINT64_MAX: bytes of two different pointers

Zeroed == [start |-> 0, size |-> 0, granules |-> 0, state |-> "freelist",
           identity |-> NoIdentity, heap |-> FALSE]

EmptyRegistry ==
  [slot |-> [g \in Slots |-> Unowned], region |-> [id \in Ids |-> Zeroed],
   next |-> FirstId, free |-> <<>>, generation |-> 0, live |-> 0]

------------------------------------------------------------------------------
(* Descriptors and granules                                                *)

Covers(x, a) == a >= x.start /\ a - x.start < x.size

Newest(r, ids) ==
  CHOOSE id \in ids : \A other \in ids : r.region[other].identity <= r.region[id].identity

\* Mutant: a contested granule belongs to nobody.
safety_lookup_NoScan(r, a) ==
  LET id == r.slot[a \div Granule] IN IF id = Contested THEN Unowned ELSE id

safety_lookup(r, a) ==
  LET id == r.slot[a \div Granule]
      around == {c \in FirstId .. r.next - 1 :
                   r.region[c].state = "live" /\ Covers(r.region[c], a)}
  IN  CASE id # Contested -> id
        [] around # {}    -> Newest(r, around)
        [] OTHER          -> Unowned

\* The descriptor a registration takes, or zero when there is none left.
AcquiredId(r) ==
  CASE r.generation = MaxGeneration -> 0
    [] r.free # <<>>                -> Head(r.free)
    [] r.next < MaxRegions          -> r.next
    [] OTHER                        -> 0

\* Mutant: a descriptor taken from the free list keeps its generation.
safety_region_acquire_SameIdentity(r, id, start, size, heap) ==
  LET generation == r.generation + 1
  IN  [r EXCEPT !.generation = generation,
                !.free = IF @ # <<>> THEN Tail(@) ELSE @,
                !.next = IF r.free # <<>> THEN @ ELSE @ + 1,
                !.region[id] = [start |-> start, size |-> size, granules |-> 0,
                                state |-> "live", heap |-> heap,
                                identity |-> IF r.free # <<>> THEN r.region[id].identity
                                             ELSE generation * IdSpan + id]]

safety_region_acquire(r, id, start, size, heap) ==
  LET generation == r.generation + 1
  IN  [r EXCEPT !.generation = generation,
                !.free = IF @ # <<>> THEN Tail(@) ELSE @,
                !.next = IF r.free # <<>> THEN @ ELSE @ + 1,
                !.region[id] = [start |-> start, size |-> size, granules |-> 0,
                                state |-> "live", heap |-> heap,
                                identity |-> generation * IdSpan + id]]

safety_region_recycle(r, id) ==
  [r EXCEPT !.region[id] = [@ EXCEPT !.size = 0, !.granules = 0, !.state = "freelist"],
            !.free = <<id>> \o @]

\* Mutant: a live region that loses its last granule is recycled too.
safety_region_drop_granule_AnyState(r, id) ==
  LET left == r.region[id].granules - 1
      dropped == [r EXCEPT !.region[id].granules = left]
  IN  CASE left < 0 -> r
        [] left = 0 -> safety_region_recycle(dropped, id)
        [] OTHER -> dropped

safety_region_drop_granule(r, id) ==
  LET left == r.region[id].granules - 1
      dropped == [r EXCEPT !.region[id].granules = left]
  IN  CASE left < 0 -> r
        [] left = 0 /\ r.region[id].state = "dead" -> safety_region_recycle(dropped, id)
        [] OTHER -> dropped

\* A granule a live region already has becomes contested, and stays so.
ClaimGranule(r, id, g) ==
  LET current == r.slot[g]
      taken == [r EXCEPT !.slot[g] = id, !.region[id].granules = @ + 1]
  IN  CASE current \in {id, Contested} -> r
        [] current = Unowned -> taken
        [] r.region[current].state = "live" ->
             safety_region_drop_granule([r EXCEPT !.slot[g] = Contested], current)
        [] OTHER -> safety_region_drop_granule(taken, current)

safety_claim_granules(r, start, size, id) ==
  LET first == start \div Granule
      last == (start + size - 1) \div Granule
  IN  FoldLeft(LAMBDA s, g : ClaimGranule(s, id, g), r,
               [i \in 1 .. last - first + 1 |-> first + i - 1])

------------------------------------------------------------------------------
(* Registration and retirement                                             *)

LiveAt(r, start) ==
  LET id == safety_lookup(r, start)
  IN  id >= FirstId /\ r.region[id].start = start /\ r.region[id].state = "live"

Retire(r, id) ==
  LET dead == [r EXCEPT !.region[id].state = "dead", !.live = @ - 1]
  IN  IF r.region[id].granules = 0 THEN safety_region_recycle(dead, id) ELSE dead

Retired(r, start) ==
  IF LiveAt(r, start) THEN Retire(r, safety_lookup(r, start)) ELSE r

\* The call stops the program instead of registering.
RegisterFails(r, start, size) ==
  \/ start > AddressLimit \/ size - 1 > AddressLimit - start
  \/ AcquiredId(Retired(r, start)) = 0

safety_register_region(r, start, size, heap) ==
  LET before == Retired(r, start)
      id == AcquiredId(before)
      claimed == safety_claim_granules(
                   safety_region_acquire(before, id, start, size, heap), start, size, id)
  IN  [claimed EXCEPT !.live = @ + 1]

safety_snapshot(r, a) ==
  LET id == safety_lookup(r, a) IN IF id >= FirstId THEN r.region[id] ELSE Zeroed

mettle_safety_identity(r, p) ==
  IF p = Null \/ safety_snapshot(r, p).state = "freelist"
    THEN NoIdentity ELSE safety_snapshot(r, p).identity

\* A recycled descriptor, or one of another generation, is dead to its identity.
safety_identity_snapshot(r, identity) ==
  LET id == identity % IdSpan
      known == identity # Mixed /\ id \in Ids /\ r.region[id].identity = identity
      found == IF known THEN r.region[id] ELSE Zeroed
  IN  [found EXCEPT !.state = IF @ = "freelist" THEN "dead" ELSE @]

------------------------------------------------------------------------------
(* Checks                                                                  *)

\* mettle_safety_check_identity returns rather than stopping the program.
AccessAccepted(r, base, offset, size, identity) ==
  LET x == safety_identity_snapshot(r, identity)
      address == base + offset
  IN  \/ size <= 0
      \/ /\ identity # NoIdentity /\ base # Null /\ x.state = "live"
         /\ size <= x.size /\ address >= x.start
         /\ address - x.start <= x.size - size

\* mettle_safety_free_identity returns rather than stopping the program.
FreeAccepted(r, p, identity) ==
  LET x == safety_identity_snapshot(r, identity)
  IN  \/ p = Null
      \/ identity # NoIdentity /\ x.state = "live" /\ x.heap /\ x.start = p

mettle_safety_span_identity(r, base, identity) ==
  LET x == safety_identity_snapshot(r, identity)
  IN  IF identity # NoIdentity /\ base # Null /\ x.state = "live" /\ Covers(x, base)
        THEN x.size - (base - x.start) ELSE 0

------------------------------------------------------------------------------
(* The identity each byte of stored pointers carries                       *)

NoValue == [identity |-> NoIdentity, owner |-> NoIdentity]
NoValues == [a \in Addresses |-> NoValue]

safety_owner_identity(r, a) ==
  LET id == safety_lookup(r, a)
  IN  IF id >= FirstId THEN r.region[id].identity ELSE NoIdentity

Bytes(a, size) == a .. a + size - 1

safety_value_set(r, a, identity) ==
  IF identity = NoIdentity THEN NoValue
  ELSE [identity |-> identity, owner |-> safety_owner_identity(r, a)]

\* An entry counts only while the region it was written in still owns the byte.
Current(r, v, a) ==
  IF v[a].owner = safety_owner_identity(r, a) THEN v[a].identity ELSE NoIdentity

mettle_safety_merge_identity(x, y) ==
  CASE x = NoIdentity -> y
    [] y = NoIdentity \/ x = y -> x
    [] OTHER -> Mixed

mettle_safety_value_load(r, v, a, size) ==
  FoldLeft(LAMBDA identity, i : mettle_safety_merge_identity(identity, Current(r, v, a + i - 1)),
           NoIdentity, [i \in 1 .. size |-> i])

mettle_safety_value_store(r, v, a, identity, size) ==
  [b \in Addresses |->
     IF b \in Bytes(a, size) THEN safety_value_set(r, b, identity) ELSE v[b]]

safety_values_clear_locked(v, a, size) ==
  [b \in Addresses |-> IF b \in Bytes(a, size) THEN NoValue ELSE v[b]]

\* Mutant: an in-place resize hands over what an earlier one had cut off.
safety_values_reown_AnyOwner(r, v, p, size, old) ==
  [b \in Addresses |->
     IF b \in Bytes(p, size) /\ v[b] # NoValue
       THEN [v[b] EXCEPT !.owner = safety_owner_identity(r, p)] ELSE v[b]]

safety_values_reown(r, v, p, size, old) ==
  [b \in Addresses |->
     IF b \in Bytes(p, size) /\ v[b].owner = old /\ v[b] # NoValue
       THEN [v[b] EXCEPT !.owner = safety_owner_identity(r, p)] ELSE v[b]]

mettle_safety_value_copy(r, v, dst, src, size) ==
  [b \in Addresses |->
     IF b \in Bytes(dst, size)
       THEN safety_value_set(r, b, Current(r, v, src + (b - dst))) ELSE v[b]]

\* mettle_safety_unregister: the values of the region it retires go with it.
UnregisteredValues(r, v, p) ==
  IF LiveAt(r, p)
    THEN LET x == r.region[safety_lookup(r, p)]
         IN  safety_values_clear_locked(v, x.start, x.size)
    ELSE v
==============================================================================
