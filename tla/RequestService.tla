---------------------------- MODULE RequestService ----------------------------
(***************************************************************************)
(* What a FileContext promises of the requests made to it: they are        *)
(* carried out one at a time in the order they were queued, and the        *)
(* callback of a request is called once, after it was carried out and      *)
(* before the next one is, or when it was refused.                         *)
(***************************************************************************)
EXTENDS Naturals, Sequences, SequencesExt

CONSTANT Requests

VARIABLES
  wants,    \* the requests with a callback
  pending,  \* the requests queued, in that order
  done,     \* those carried out
  refused,  \* those there was no work item for
  called    \* how often the callback of each was called

vars == <<wants, pending, done, refused, called>>

Init ==
  /\ wants = {} /\ pending = <<>> /\ done = {} /\ refused = {}
  /\ called = [r \in Requests |-> 0]

New(r) == r \notin ToSet(pending) \cup done \cup refused

\* A request is made, and refused at once or queued some time later.
Make(r) ==
  /\ New(r)
  /\ wants' \in {wants, wants \cup {r}}
  /\ refused' \in {refused, refused \cup {r}}
  /\ UNCHANGED <<pending, done, called>>

Queue(r) ==
  /\ New(r)
  /\ pending' = Append(pending, r)
  /\ UNCHANGED <<wants, done, refused, called>>

CarryOut ==
  /\ pending # <<>>
  /\ \A r \in done \cap wants : called[r] = 1
  /\ done' = done \cup {Head(pending)}
  /\ pending' = Tail(pending)
  /\ UNCHANGED <<wants, refused, called>>

Call(r) ==
  /\ r \in wants \cap (done \cup refused)
  /\ called[r] = 0
  /\ called' = [called EXCEPT ![r] = 1]
  /\ UNCHANGED <<wants, pending, done, refused>>

Next == CarryOut \/ \E r \in Requests : Make(r) \/ Queue(r) \/ Call(r)

Spec == Init /\ [][Next]_vars
=============================================================================
