-------------------------------- MODULE Ring --------------------------------
(***************************************************************************)
(* The bounded buffer that audit.Store and learning.Engine both keep: a    *)
(* slice that grows to its maximum and is then overwritten in a circle     *)
(* from its oldest element on.                                             *)
(***************************************************************************)
EXTENDS Integers

CONSTANT MaxSize   \* maxSize: 5000 and 2000 events, 2000 learning records

ASSUME MaxSizeAssumption == MaxSize \in Nat \ {0}

Slots == 0 .. MaxSize - 1

(* A buffer: the slots in use are 0 .. len - 1.                            *)
NewRing(blank) == [slot |-> [i \in Slots |-> blank], len |-> 0, pos |-> 0]

\* Mutant: the cursor is not brought back to the start.
PushOn(ring, e) ==
    IF ring.len < MaxSize
    THEN [ring EXCEPT !.slot[ring.len] = e, !.len = ring.len + 1]
    ELSE [ring EXCEPT !.slot[ring.pos] = e, !.pos = ring.pos + 1]

\* Mutant: the cursor moves while the slice still grows.
PushEager(ring, e) ==
    IF ring.len < MaxSize
    THEN [ring EXCEPT !.slot[ring.len] = e, !.len = ring.len + 1,
                      !.pos = IF ring.pos + 1 < MaxSize THEN ring.pos + 1 ELSE ring.pos]
    ELSE [ring EXCEPT !.slot[ring.pos] = e, !.pos = (ring.pos + 1) % MaxSize]

Push(ring, e) ==
    IF ring.len < MaxSize
    THEN [ring EXCEPT !.slot[ring.len] = e, !.len = ring.len + 1]
    ELSE [ring EXCEPT !.slot[ring.pos] = e, !.pos = (ring.pos + 1) % MaxSize]

Used(ring) == 0 .. ring.len - 1
=============================================================================
