------------------------------ MODULE Semaphore ------------------------------
(***************************************************************************)
(* util::Semaphore (src/util/Semaphore.h): a counter under a mutex and a   *)
(* condition variable.  Each action is one critical section, or the signal *)
(* that notify() sends after it has left its own.                          *)
(***************************************************************************)
EXTENDS Integers

CONSTANT SemLimit   \* 2^32: _value is a uint32_t

ASSUME SemLimitAssumption == SemLimit \in Nat \ {0}

VARIABLES
  value,     \* _value
  waiting    \* the threads blocked in _cond.wait()

semVars == <<value, waiting>>

SemInit == value = 0 /\ waiting = {}

\* notify(): the increment under _mutex.
Post == value' = (value + 1) % SemLimit /\ UNCHANGED waiting

\* notify(): _cond.notify_one(), after _mutex is released.
NotifyOne ==
  /\ \/ waiting = {} /\ UNCHANGED waiting
     \/ \E t \in waiting : waiting' = waiting \ {t}
  /\ UNCHANGED value

\* wait(): the counter is not zero, so a token is taken.
TakeToken(t) ==
  /\ t \notin waiting
  /\ value # 0
  /\ value' = value - 1
  /\ UNCHANGED waiting

\* wait(): the counter is zero, so the thread blocks and releases _mutex.
Block(t) ==
  /\ t \notin waiting
  /\ value = 0
  /\ waiting' = waiting \cup {t}
  /\ UNCHANGED value

\* wait(): a condition variable may wake a thread without a notification.
SpuriousWake(t) ==
  /\ t \in waiting
  /\ waiting' = waiting \ {t}
  /\ UNCHANGED value
=============================================================================
