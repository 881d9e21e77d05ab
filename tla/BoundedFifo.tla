----------------------------- MODULE BoundedFifo -----------------------------
(***************************************************************************)
(* What util::RingBuffer promises: a first-in first-out queue of at most   *)
(* Capacity values.  out is what the last pop returned.                    *)
(***************************************************************************)
EXTENDS Naturals, Sequences

CONSTANTS Capacity, Values, Null

VARIABLES queue, out

vars == <<queue, out>>

Init == queue = <<>> /\ out = Null

Push(v) ==
  /\ Len(queue) < Capacity
  /\ queue' = Append(queue, v)
  /\ UNCHANGED out

Pop ==
  /\ queue # <<>>
  /\ out' = Head(queue)
  /\ queue' = Tail(queue)

PopEmpty ==
  /\ queue = <<>>
  /\ out' = Null
  /\ UNCHANGED queue

Next == (\E v \in Values : Push(v)) \/ Pop \/ PopEmpty

Spec == Init /\ [][Next]_vars
=============================================================================
