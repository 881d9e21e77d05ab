-------------------------- MODULE SuspendableThread --------------------------
(***************************************************************************)
(* What a client that stops the processing thread, to release a mount or   *)
(* to destroy the context, can rely on.  The thread finishes the item it   *)
(* has in hand and begins at most one more, which it was already about to  *)
(* take; then it is gone.  It comes back only after it has gone, so there  *)
(* is never a second one, and never once the context is destroyed.         *)
(***************************************************************************)

VARIABLES
  thread,    \* "idle", "busy" with an item, or "gone"
  stopping,  \* it was asked to stop and was not started again
  spare,     \* it was about to take an item then, and may still do so
  final      \* it was asked to stop for good

vars == <<thread, stopping, spare, final>>

Init == thread = "idle" /\ ~stopping /\ ~spare /\ ~final

Take ==
  /\ thread = "idle" /\ thread' = "busy"
  /\ stopping => spare
  /\ spare' = FALSE
  /\ UNCHANGED <<stopping, final>>

\* The queue was empty.
TakeNothing ==
  /\ spare /\ spare' = FALSE
  /\ UNCHANGED <<thread, stopping, final>>

Finish ==
  /\ thread = "busy" /\ thread' = "idle"
  /\ UNCHANGED <<stopping, spare, final>>

\* The thread may be gone at once where it has nothing in hand.
Stop ==
  /\ ~stopping /\ stopping'
  /\ spare' \in BOOLEAN /\ final' \in BOOLEAN
  /\ spare' => thread = "idle"
  /\ \/ UNCHANGED thread
     \/ thread = "idle" /\ ~spare' /\ thread' = "gone"

Exit ==
  /\ thread = "idle" /\ stopping /\ ~spare
  /\ thread' = "gone"
  /\ UNCHANGED <<stopping, spare, final>>

Restart ==
  /\ thread = "gone" /\ ~final
  /\ thread' = "idle" /\ ~stopping'
  /\ UNCHANGED <<spare, final>>

Next == Take \/ TakeNothing \/ Finish \/ Stop \/ Exit \/ Restart

Spec == Init /\ [][Next]_vars
=============================================================================
