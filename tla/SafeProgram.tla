------------------------------ MODULE SafeProgram ------------------------------
(***************************************************************************)
(* Threads of a program compiled with --safe, and the calls the compiler   *)
(* puts around their allocations, locals, literals and pointer stores      *)
(* (src/ir/optimizer/ir_optimize_safety.c, ir_safety_provenance.inc).      *)
(* Every step below that names the registry runs under g_safety_lock;      *)
(* between two steps any other thread may run.                             *)
(*                                                                         *)
(* The threads are correct programs: a thread frees and resizes only its   *)
(* own block, once, and keeps its stale pointers without using them.  What *)
(* the registry would answer for every pointer a thread ever held is what  *)
(* the properties are about.                                               *)
(***************************************************************************)
EXTENDS SafetyRegistry, FiniteSets

CONSTANTS
  Threads,
  Blocks,      \* the addresses the allocator hands out
  Capacity,    \* the bytes behind each of them
  Sizes,       \* the sizes a program asks for
  Locals,      \* the stack variables of each thread's function, in order
  Literals,    \* the string literals each thread's function uses
  Resizes,     \* the sizes each thread's function resizes its block to
  Stores,      \* where in its block each thread's function stores its pointer
  Word         \* the bytes of a stored pointer

VARIABLES
  reg,         \* the registry
  values,      \* the identity and owner of each pointer byte
  heap,        \* external: the object each block holds, zero when free
  objects,     \* how many heap and stack objects there have been
  pc, work,    \* where each thread is, and the operands of its call
  own,         \* the pointer to the block the thread holds
  frame,       \* how many locals have been registered and retired
  pointers,    \* history: every pointer the thread obtained
  mem,         \* history: the identity really stored in each byte
  overlapped,  \* history: two calls on one address overlapped
  status       \* running, trapped by a check, or out of descriptors

tables == <<reg, values>>
machine == <<heap, objects, mem>>
program == <<own, frame, pointers>>
vars == <<tables, machine, program, pc, work, overlapped, status>>

NoObject == 0
NoPointer == [start |-> Null, size |-> 0, identity |-> NoIdentity, object |-> NoObject]
LiteralObject == -1
Idle == [old |-> Null, new |-> Null, size |-> 0, object |-> NoObject,
         heap |-> FALSE, identity |-> NoIdentity, span |-> 0]

Init ==
  /\ reg = EmptyRegistry /\ values = NoValues
  /\ heap = [b \in Blocks |-> NoObject] /\ objects = 0
  /\ mem = [a \in Addresses |-> NoIdentity]
  /\ pc = [t \in Threads |-> "idle"] /\ work = [t \in Threads |-> Idle]
  /\ own = [t \in Threads |-> NoPointer]
  /\ frame = [t \in Threads |-> 0]
  /\ pointers = [t \in Threads |-> {}]
  /\ overlapped = FALSE /\ status = "running"

Goto(t, from, to) ==
  status = "running" /\ pc[t] = from /\ pc' = [pc EXCEPT ![t] = to]

Begin(t, to, operands) ==
  Goto(t, "idle", to) /\ work' = [work EXCEPT ![t] = operands]

Stop(how) ==
  status' = how /\ UNCHANGED <<tables, machine, program, work, overlapped>>

------------------------------------------------------------------------------
(* The allocator's side: blocks are handed out, moved and given back       *)

\* Thread u has given block b back and has yet to retire its old region.
RetireDue(u, b) ==
  /\ pc[u] \in {"old_identity", "old_span", "reregister", "carry", "retire"}
  /\ work[u].old = b /\ work[u].new # b

HandedOut(t, b) ==
  overlapped' = (overlapped \/ \E u \in Threads \ {t} : RetireDue(u, b))

Moved(from, size, to) ==
  [a \in Addresses |->
     CASE a \in Bytes(to, Capacity) ->
            IF a - to < size THEN mem[from + (a - to)] ELSE NoIdentity
       [] OTHER -> mem[a]]

malloc(t, b, n) ==
  /\ own[t] = NoPointer /\ heap[b] = NoObject
  /\ Begin(t, "register", [Idle EXCEPT !.new = b, !.size = n, !.heap = TRUE,
                                       !.object = objects + 1])
  /\ heap' = [heap EXCEPT ![b] = objects + 1] /\ objects' = objects + 1
  /\ mem' = Moved(b, 0, b)
  /\ HandedOut(t, b)
  /\ UNCHANGED <<tables, program, status>>

free(t) ==
  /\ Goto(t, "free", "idle")
  /\ heap' = [heap EXCEPT ![own[t].start] = NoObject]
  /\ own' = [own EXCEPT ![t] = NoPointer]
  /\ UNCHANGED <<tables, objects, mem, frame, pointers, work, overlapped, status>>

\* A resize fails, gives the block back, keeps its address, or moves.
realloc(t) ==
  LET w == work[t] IN
  \/ /\ w.size # 0 /\ Goto(t, "realloc", "idle")
     /\ work' = [work EXCEPT ![t] = Idle]
     /\ UNCHANGED <<tables, machine, program, overlapped, status>>
  \/ /\ w.size = 0 /\ Goto(t, "realloc", "old_identity")
     /\ heap' = [heap EXCEPT ![w.old] = NoObject]
     /\ UNCHANGED <<tables, objects, mem, program, work, overlapped, status>>
  \/ /\ w.size # 0 /\ Goto(t, "realloc", "old_identity")
     /\ objects' = objects + 1
     /\ \E b \in {c \in Blocks : c = w.old \/ heap[c] = NoObject} :
          LET kept == IF own[t].size < w.size THEN own[t].size ELSE w.size IN
          /\ heap' = [[heap EXCEPT ![w.old] = NoObject] EXCEPT ![b] = objects + 1]
          /\ mem' = Moved(w.old, kept, b)
          /\ work' = [work EXCEPT ![t].new = b, ![t].object = objects + 1]
          /\ HandedOut(t, b)
     /\ UNCHANGED <<tables, program, status>>

------------------------------------------------------------------------------
(* The calls the compiler adds                                             *)

\* mettle_safety_register and mettle_safety_register_static
Register(t) ==
  LET w == work[t] IN
  /\ Goto(t, "register", "capture")
  /\ IF RegisterFails(reg, w.new, w.size)
       THEN Stop("exhausted")
       ELSE /\ reg' = safety_register_region(reg, w.new, w.size, w.heap)
            /\ UNCHANGED <<values, machine, program, work, overlapped, status>>

\* The pointer the program goes on with, and the identity found at its address.
Capture(t) ==
  LET w == work[t]
      p == [start |-> w.new, size |-> w.size, object |-> w.object,
            identity |-> mettle_safety_identity(reg, w.new)]
  IN  /\ Goto(t, "capture", "idle")
      /\ pointers' = [pointers EXCEPT ![t] = @ \cup {p}]
      /\ own' = IF w.heap THEN [own EXCEPT ![t] = p] ELSE own
      /\ work' = [work EXCEPT ![t] = Idle]
      /\ UNCHANGED <<tables, machine, frame, overlapped, status>>

\* mettle_safety_free_identity, before a free and before a realloc
FreeIdentity(t, next, operands) ==
  /\ own[t] # NoPointer
  /\ IF FreeAccepted(reg, own[t].start, own[t].identity)
       THEN /\ Begin(t, next, operands)
            /\ UNCHANGED <<tables, machine, program, overlapped, status>>
       ELSE Goto(t, "idle", "idle") /\ Stop("trapped")

CallFree(t) == FreeIdentity(t, "unregister", Idle)

CallRealloc(t, n) ==
  FreeIdentity(t, "realloc", [Idle EXCEPT !.old = own[t].start, !.size = n, !.heap = TRUE])

Unregister(t, p) ==
  /\ reg' = Retired(reg, p)
  /\ values' = UnregisteredValues(reg, values, p)

UnregisterOwn(t) ==
  /\ Goto(t, "unregister", "free")
  /\ Unregister(t, own[t].start)
  /\ UNCHANGED <<machine, program, work, overlapped, status>>

\* mettle_safety_reregister: five sections, each under the lock by itself.
OldIdentity(t) ==
  /\ Goto(t, "old_identity", "old_span")
  /\ work' = [work EXCEPT ![t].identity = mettle_safety_identity(reg, work[t].old)]
  /\ UNCHANGED <<tables, machine, program, overlapped, status>>

OldSpan(t) ==
  /\ Goto(t, "old_span", "reregister")
  /\ work' = [work EXCEPT ![t].span =
                mettle_safety_span_identity(reg, work[t].old, work[t].identity)]
  /\ UNCHANGED <<tables, machine, program, overlapped, status>>

RegisterNew(t) ==
  LET w == work[t] IN
  /\ Goto(t, "reregister", "carry")
  /\ CASE w.new = Null -> UNCHANGED <<tables, machine, program, work, overlapped, status>>
       [] RegisterFails(reg, w.new, w.size) -> Stop("exhausted")
       [] OTHER -> /\ reg' = safety_register_region(reg, w.new, w.size, TRUE)
                   /\ UNCHANGED <<values, machine, program, work, overlapped, status>>

CarryValues(t) ==
  LET w == work[t]
      copied == IF w.span < w.size THEN w.span ELSE w.size
  IN  /\ Goto(t, "carry", IF w.old = w.new THEN "capture" ELSE "retire")
      /\ values' = CASE w.old = w.new ->
                          safety_values_reown(reg, values, w.new, w.size, w.identity)
                     [] w.new # Null /\ w.span > 0 ->
                          mettle_safety_value_copy(reg, values, w.new, w.old, copied)
                     [] OTHER -> values
      /\ UNCHANGED <<reg, machine, program, work, overlapped, status>>

RetireOld(t) ==
  LET w == work[t] IN
  /\ Goto(t, "retire", IF w.new = Null THEN "idle" ELSE "capture")
  /\ Unregister(t, w.old)
  /\ own' = [own EXCEPT ![t] = NoPointer]
  /\ work' = [work EXCEPT ![t] = IF w.new = Null THEN Idle ELSE w]
  /\ UNCHANGED <<machine, frame, pointers, overlapped, status>>

------------------------------------------------------------------------------
(* Locals, literals and stored pointers                                    *)

\* The locals of a frame are registered in order, and retired in order.
OpenLocal(t, i) == frame[t] \in i .. Len(Locals[t]) + i - 1

EnterLocal(t) ==
  LET x == Locals[t][frame[t] + 1] IN
  /\ frame[t] < Len(Locals[t])
  /\ Begin(t, "capture", [Idle EXCEPT !.new = x.start, !.size = x.size,
                                      !.object = objects + 1])
  /\ IF RegisterFails(reg, x.start, x.size)
       THEN status' = "exhausted" /\ UNCHANGED <<tables, machine, program, overlapped>>
       ELSE /\ reg' = safety_register_region(reg, x.start, x.size, FALSE)
            /\ objects' = objects + 1
            /\ frame' = [frame EXCEPT ![t] = @ + 1]
            /\ UNCHANGED <<values, heap, mem, own, pointers, overlapped, status>>

LeaveLocal(t) ==
  LET n == Len(Locals[t])
      x == Locals[t][frame[t] - n + 1]
  IN  /\ n > 0 /\ frame[t] >= n
      /\ Goto(t, "idle", "idle")
      /\ Unregister(t, x.start)
      /\ frame' = [frame EXCEPT ![t] = (@ + 1) % (2 * n)]
      /\ UNCHANGED <<machine, own, pointers, work, overlapped, status>>

\* mettle_safety_literal_identity: look, and register what is not yet there.
Literal(t, x) ==
  LET known == safety_snapshot(reg, x.start)
      p == [start |-> x.start, size |-> x.size, object |-> LiteralObject,
            identity |-> known.identity]
  IN  IF /\ known.state = "live" /\ x.start >= known.start /\ x.size <= known.size
         /\ x.start - known.start <= known.size - x.size
        THEN /\ Goto(t, "idle", "idle")
             /\ pointers' = [pointers EXCEPT ![t] = @ \cup {p}]
             /\ UNCHANGED <<tables, machine, own, frame, work, overlapped, status>>
        ELSE /\ Begin(t, "register", [Idle EXCEPT !.new = x.start, !.size = x.size,
                                                  !.object = LiteralObject])
             /\ overlapped' = (overlapped \/ \E u \in Threads \ {t} :
                                 pc[u] = "register" /\ work[u].new = x.start)
             /\ UNCHANGED <<tables, machine, program, status>>

\* A checked store of the thread's pointer into its own block, at any place in it.
StorePointer(t, offset) ==
  LET at == own[t].start + offset IN
  /\ Goto(t, "idle", "idle")
  /\ offset + Word <= own[t].size
  /\ IF AccessAccepted(reg, own[t].start, offset, Word, own[t].identity)
       THEN /\ values' = mettle_safety_value_store(reg, values, at, own[t].identity, Word)
            /\ mem' = [a \in Addresses |->
                         IF a \in Bytes(at, Word) THEN own[t].identity ELSE mem[a]]
            /\ UNCHANGED <<reg, heap, objects, program, work, overlapped, status>>
       ELSE Stop("trapped")

Stopped == status # "running" /\ UNCHANGED vars

Next ==
  \/ \E t \in Threads :
       \/ \E b \in Blocks, n \in Sizes : malloc(t, b, n)
       \/ free(t) \/ realloc(t)
       \/ Register(t) \/ Capture(t) \/ CallFree(t) \/ UnregisterOwn(t)
       \/ \E n \in Resizes[t] : CallRealloc(t, n)
       \/ OldIdentity(t) \/ OldSpan(t) \/ RegisterNew(t) \/ CarryValues(t) \/ RetireOld(t)
       \/ EnterLocal(t) \/ LeaveLocal(t)
       \/ \E x \in Literals[t] : Literal(t, x)
       \/ \E offset \in Stores[t] : StorePointer(t, offset)
  \/ Stopped

Spec == Init /\ [][Next]_vars

------------------------------------------------------------------------------
(* Properties                                                              *)

Accesses == {<<o, n>> \in (0 - Capacity .. Capacity) \X (1 .. Capacity) : TRUE}

InExtent(p, o, n) == o >= 0 /\ o + n <= p.size

\* The object a pointer was made for is still there.
Alive(t, p) ==
  CASE p.object = LiteralObject -> TRUE
    [] p.start \in Blocks       -> heap[p.start] = p.object
    [] OTHER -> \E i \in DOMAIN Locals[t] :
                  /\ Locals[t][i].start = p.start /\ OpenLocal(t, i)
                  /\ \A q \in pointers[t] : q.start = p.start => q.object <= p.object

Asking == {t \in Threads : pc[t] = "idle"}

(* A check lets an access through only when the object the pointer was made for is still *)
(* there and the access lies inside it, and a free only when it is that object's first:  *)
(* a stale pointer stays rejected however often its address and its descriptor have been *)
(* given out again, and a granule shared by two live objects widens neither of them.     *)
ChecksSound ==
  status = "running" => \A t \in Asking : \A p \in pointers[t] :
    /\ \A a \in Accesses : AccessAccepted(reg, p.start, a[1], a[2], p.identity)
                             => Alive(t, p) /\ InExtent(p, a[1], a[2])
    /\ FreeAccepted(reg, p.start, p.identity) => Alive(t, p) /\ p.start \in Blocks

(* "--safe must not change what a correct program computes and must not reject one."     *)
(* (tests/run_tests.ps1): every access inside a live object is let through, and no free, *)
(* resize or store the threads make is refused.                                          *)
CorrectNeverRejected ==
  /\ status # "trapped"
  /\ status = "running" => \A t \in Asking : \A p \in pointers[t] :
       Alive(t, p) => \A a \in Accesses :
         InExtent(p, a[1], a[2]) => AccessAccepted(reg, p.start, a[1], a[2], p.identity)

(* The same, as long as no two calls on one address overlapped: the first uses of one    *)
(* literal by two threads, or a resize that moves a block and an allocation of the       *)
(* address it gave back.  No sharing of granules and no order of calls rejects a correct *)
(* program otherwise.                                                                    *)
ChecksComplete == ~overlapped => CorrectNeverRejected

(* The registry's own books agree: a region's granule count is the number of granules    *)
(* that name it, the live count is the number of live regions, and the free list holds   *)
(* each recycled descriptor once and no other.                                           *)
RegistryExact ==
  LET used == FirstId .. reg.next - 1 IN
  /\ \A id \in used :
       reg.region[id].granules = Cardinality({g \in Slots : reg.slot[g] = id})
  /\ reg.live = Cardinality({id \in used : reg.region[id].state = "live"})
  /\ IsInjective(reg.free)
  /\ ToSet(reg.free) = {id \in used : reg.region[id].state = "freelist"}

\* The identity a load should find in bytes that really hold these identities.
OnlyOne(identities) ==
  CASE identities = {} -> NoIdentity
    [] Cardinality(identities) = 1 -> CHOOSE i \in identities : TRUE
    [] OTHER -> Mixed

(* Unless two calls on one address overlapped, a load from any bytes of a thread's block *)
(* finds the identity of the pointer stored in them, across in-place and moving resizes; *)
(* none where no pointer was stored, and a rejected one where two pointers meet.         *)
ValuesFollowBytes ==
  ~overlapped => \A t \in Asking : own[t] # NoPointer =>
    \A n \in 1 .. Word : \A a \in Bytes(own[t].start, own[t].size - n + 1) :
      mettle_safety_value_load(reg, values, a, n)
        = OnlyOne({mem[b] : b \in Bytes(a, n)} \ {NoIdentity})
==============================================================================
