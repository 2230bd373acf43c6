----------------------------- MODULE MCSafeProgram -----------------------------
(* Instances of SafeProgram for TLC. *)
EXTENDS SafeProgram

CONSTANTS t1, t2

\* Two blocks of four bytes, two one-byte locals of t2 in one granule, and a
\* literal both threads use.  Only t1 resizes its block.  Its stores overlap, so
\* that two pointers meet once a resize has given it a new identity, and a resize to
\* two bytes cuts one of them in half and the other off.
MCLocals == (t1 :> <<>>) @@
            (t2 :> <<[start |-> 10, size |-> 1], [start |-> 11, size |-> 1]>>)
MCLiterals == [t \in Threads |-> {[start |-> 12, size |-> 2]}]
MCResizes == (t1 :> {0, 2, 4}) @@ (t2 :> {})
MCStores == (t1 :> {1, 2}) @@ (t2 :> {0})
==============================================================================
