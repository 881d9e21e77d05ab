------------------------------ MODULE SlotPool ------------------------------
(***************************************************************************)
(* What a pool allocator promises: a set of free slots, of which the       *)
(* lowest is handed out, and to which slots are returned.                  *)
(***************************************************************************)
EXTENDS Integers

CONSTANTS Slots, None

VARIABLES
  free,    \* the slots nobody holds
  result   \* what the last allocation returned

vars == <<free, result>>

Init == free = Slots /\ result = None

Alloc ==
  \E s \in free :
    /\ \A t \in free : s <= t
    /\ result' = s
    /\ free' = free \ {s}

AllocNothing == free = {} /\ result' = None /\ UNCHANGED free

Free(s) == free' = free \cup {s} /\ UNCHANGED result

Next == Alloc \/ AllocNothing \/ \E s \in Slots : Free(s)

Spec == Init /\ [][Next]_vars
=============================================================================
