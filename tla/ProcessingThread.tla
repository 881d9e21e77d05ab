-------------------------- MODULE ProcessingThread --------------------------
(***************************************************************************)
(* The hand-off between client threads and the processing thread of a      *)
(* FileContext: RingBuffer::push() with its spin and its notification, the *)
(* loop of processingFunc(), Semaphore::wait(), and the threads that stop  *)
(* and restart processing through releaseMount() or stop it for good       *)
(* through the destructor.  What the loop does with an item is WorkItems.  *)
(***************************************************************************)
EXTENDS RingBuffer, Semaphore, FiniteSets

CONSTANTS
  Producers,     \* client threads that submit work
  Controllers,   \* client threads that call releaseMount() or the destructor
  Worker,        \* the processing thread
  MaxCalls,      \* bound of the model: calls of push()
  MaxStops       \* bound of the model: calls of releaseMount() and destructor

ASSUME ThreadAssumption ==
  /\ IsFiniteSet(Producers) /\ IsFiniteSet(Controllers)
  /\ Producers \cap Controllers = {}
  /\ Worker \notin Producers \cup Controllers

\* Fewer notifications than the semaphore's counter can hold.
ASSUME BoundAssumption ==
  MaxCalls \in Nat /\ MaxStops \in Nat /\ MaxCalls + MaxStops < SemLimit

VARIABLES
  ppc,         \* where each producer is in push()
  arg,         \* the argument of its push()
  calls,       \* pushes begun so far
  tpc,         \* where the processing thread is in processingFunc()
  processing,  \* _processing
  joinable,    \* _processingThread has a thread to join
  mpc,         \* where each controller is in releaseMount()/~FileContext()
  stops,       \* stops begun so far
  alive,       \* the destructor has not begun
  aborted      \* std::thread misuse has ended the process

pushVars == <<ppc, arg, calls>>
threadVars == <<tpc, joinable, aborted>>
stopVars == <<mpc, stops, alive>>
vars == <<rbVars, semVars, pushVars, threadVars, processing, stopVars>>

PushPC == {"idle", "spin", "lock", "post", "signal"}
ThreadPC == {"check", "pop", "run", "wait", "exited"}
StopPC == {"idle", "clear", "post", "signal", "join", "release",
           "start", "set", "spawn", "destroyed"}

\* The constructor has run: the queue is empty and the thread is started.
Init ==
  /\ RBInit
  /\ SemInit
  /\ ppc = [p \in Producers |-> "idle"]
  /\ arg = [p \in Producers |-> Null]
  /\ calls = 0
  /\ tpc = "check"
  /\ processing = TRUE
  /\ joinable = TRUE
  /\ mpc = [c \in Controllers |-> "idle"]
  /\ stops = 0
  /\ alive = TRUE
  /\ aborted = FALSE

-----------------------------------------------------------------------------
(* RingBuffer::push(), called by a producer.                               *)

GoPush(p, from, to) == ppc[p] = from /\ ppc' = [ppc EXCEPT ![p] = to]

PushCall(p, v) ==
  /\ alive
  /\ calls < MaxCalls
  /\ GoPush(p, "idle", "spin")
  /\ arg' = [arg EXCEPT ![p] = v]
  /\ calls' = calls + 1
  /\ UNCHANGED <<rbVars, semVars, threadVars, processing, stopVars>>

\* The spin on _full reads it without the lock.
PushSpin(p) ==
  /\ ~full
  /\ GoPush(p, "spin", "lock")
  /\ UNCHANGED <<rbVars, semVars, arg, calls, threadVars, processing, stopVars>>

\* Mistake: the test for an empty buffer is made after the item went in.
PushItemTestsLate(p) ==
  /\ Push(arg[p])
  /\ GoPush(p, "lock", IF writePos' = readPos' THEN "post" ELSE "idle")
  /\ UNCHANGED <<semVars, arg, calls, threadVars, processing, stopVars>>

\* The item goes in; only a push onto an empty buffer will notify.
PushItem(p) ==
  /\ Push(arg[p])
  /\ GoPush(p, "lock", IF writePos = readPos THEN "post" ELSE "idle")
  /\ UNCHANGED <<semVars, arg, calls, threadVars, processing, stopVars>>

\* Another producer filled the buffer between the spin and the lock.
PushRetry(p) ==
  /\ full
  /\ GoPush(p, "lock", "spin")
  /\ UNCHANGED <<rbVars, semVars, arg, calls, threadVars, processing, stopVars>>

PushPost(p) ==
  /\ Post
  /\ GoPush(p, "post", "signal")
  /\ UNCHANGED <<rbVars, arg, calls, threadVars, processing, stopVars>>

PushSignal(p) ==
  /\ NotifyOne
  /\ GoPush(p, "signal", "idle")
  /\ UNCHANGED <<rbVars, arg, calls, threadVars, processing, stopVars>>

PushStep(p) ==
  PushSpin(p) \/ PushItem(p) \/ PushRetry(p) \/ PushPost(p) \/ PushSignal(p)

-----------------------------------------------------------------------------
(* processingFunc().                                                       *)

GoThread(from, to) ==
  tpc = from /\ tpc' = to /\ UNCHANGED <<joinable, aborted>>

ThreadCheck ==
  /\ GoThread("check", IF processing THEN "pop" ELSE "exited")
  /\ UNCHANGED <<rbVars, semVars, pushVars, processing, stopVars>>

ThreadPop ==
  /\ PopItem
  /\ GoThread("pop", "run")
  /\ UNCHANGED <<semVars, pushVars, processing, stopVars>>

ThreadPopNothing ==
  /\ PopNothing
  /\ GoThread("pop", "wait")
  /\ UNCHANGED <<semVars, pushVars, processing, stopVars>>

\* The body of the loop for one item, callback included; it returns.
ThreadRun ==
  /\ GoThread("run", "check")
  /\ UNCHANGED <<rbVars, semVars, pushVars, processing, stopVars>>

ThreadTake ==
  /\ TakeToken(Worker)
  /\ GoThread("wait", "check")
  /\ UNCHANGED <<rbVars, pushVars, processing, stopVars>>

ThreadBlock ==
  /\ tpc = "wait"
  /\ Block(Worker)
  /\ UNCHANGED <<rbVars, pushVars, threadVars, processing, stopVars>>

ThreadWake ==
  /\ SpuriousWake(Worker)
  /\ UNCHANGED <<rbVars, pushVars, threadVars, processing, stopVars>>

ThreadStep ==
  \/ ThreadCheck \/ ThreadPop \/ ThreadPopNothing \/ ThreadRun
  \/ ThreadTake \/ ThreadBlock

-----------------------------------------------------------------------------
(* stopProcessingThread() and startProcessingThread().                     *)

GoStop(c, from, to) == mpc[c] = from /\ mpc' = [mpc EXCEPT ![c] = to]

\* stopProcessingThread() reads _processing.
StopCheck(c) ==
  /\ stops < MaxStops
  /\ stops' = stops + 1
  /\ GoStop(c, "idle", IF processing THEN "clear" ELSE "release")
  /\ UNCHANGED <<rbVars, semVars, pushVars, threadVars, processing>>

ReleaseMount(c) == alive /\ StopCheck(c) /\ UNCHANGED alive

\* The context is destroyed when no other thread is using it.
Destroy(c) ==
  /\ alive
  /\ \A p \in Producers : ppc[p] = "idle"
  /\ \A d \in Controllers : mpc[d] = "idle"
  /\ StopCheck(c)
  /\ alive' = FALSE

\* Mistake: the thread is not notified of the stop.
StopClearSilently(c) ==
  /\ GoStop(c, "clear", "join")
  /\ processing' = FALSE
  /\ UNCHANGED <<rbVars, semVars, pushVars, threadVars, stops, alive>>

StopClear(c) ==
  /\ GoStop(c, "clear", "post")
  /\ processing' = FALSE
  /\ UNCHANGED <<rbVars, semVars, pushVars, threadVars, stops, alive>>

StopPost(c) ==
  /\ Post
  /\ GoStop(c, "post", "signal")
  /\ UNCHANGED <<rbVars, pushVars, threadVars, processing, stops, alive>>

\* Mistake: the thread is not joined.
StopSignalOnly(c) ==
  /\ NotifyOne
  /\ GoStop(c, "signal", "release")
  /\ UNCHANGED <<rbVars, pushVars, threadVars, processing, stops, alive>>

StopSignal(c) ==
  /\ NotifyOne
  /\ GoStop(c, "signal", "join")
  /\ UNCHANGED <<rbVars, pushVars, threadVars, processing, stops, alive>>

\* join() waits for the thread; without one it throws std::system_error.
StopJoin(c) ==
  /\ joinable => tpc = "exited"
  /\ joinable' = FALSE
  /\ aborted' = ~joinable
  /\ GoStop(c, "join", "release")
  /\ UNCHANGED <<rbVars, semVars, pushVars, tpc, processing, stops, alive>>

\* The section under _mountLock that frees one mount, or all of them.
Release(c) ==
  /\ GoStop(c, "release", IF alive THEN "start" ELSE "destroyed")
  /\ UNCHANGED <<rbVars, semVars, pushVars, threadVars, processing, stops, alive>>

\* startProcessingThread() reads _processing.
StartCheck(c) ==
  /\ GoStop(c, "start", IF processing THEN "idle" ELSE "set")
  /\ UNCHANGED <<rbVars, semVars, pushVars, threadVars, processing, stops, alive>>

StartSet(c) ==
  /\ GoStop(c, "set", "spawn")
  /\ processing' = TRUE
  /\ UNCHANGED <<rbVars, semVars, pushVars, threadVars, stops, alive>>

\* Assigning a new thread to a joinable std::thread calls std::terminate().
StartSpawn(c) ==
  /\ tpc' = IF joinable THEN tpc ELSE "check"
  /\ joinable' = TRUE
  /\ aborted' = joinable
  /\ GoStop(c, "spawn", "idle")
  /\ UNCHANGED <<rbVars, semVars, pushVars, processing, stops, alive>>

StopStep(c) ==
  \/ StopClear(c) \/ StopPost(c) \/ StopSignal(c) \/ StopJoin(c)
  \/ Release(c) \/ StartCheck(c) \/ StartSet(c) \/ StartSpawn(c)

-----------------------------------------------------------------------------
\* Nothing is left to do: every call was made and served, or the context is
\* gone.  An item still queued here is not a quiescent state but a hang.
Quiescent ==
  /\ \/ /\ calls = MaxCalls /\ \A p \in Producers : ppc[p] = "idle"
        /\ stops = MaxStops /\ \A c \in Controllers : mpc[c] = "idle"
        /\ Worker \in waiting /\ ~HasItem
     \/ \E c \in Controllers : mpc[c] = "destroyed"
  /\ UNCHANGED vars

Next ==
  /\ ~aborted
  /\ \/ \E p \in Producers : (\E v \in Values : PushCall(p, v)) \/ PushStep(p)
     \/ ThreadStep \/ ThreadWake
     \/ \E c \in Controllers : ReleaseMount(c) \/ Destroy(c) \/ StopStep(c)
     \/ Quiescent

\* The scheduler runs every thread that can take a step; when clients call
\* and when a condition variable wakes spuriously is not promised.
Fairness ==
  /\ \A p \in Producers : WF_vars(~aborted /\ PushStep(p))
  /\ WF_vars(~aborted /\ ThreadStep)
  /\ \A c \in Controllers : WF_vars(~aborted /\ StopStep(c))

Spec == Init /\ [][Next]_vars
FairSpec == Spec /\ Fairness
-----------------------------------------------------------------------------
\* Types, and the worker blocks in the semaphore only (FileContext.cpp:788).
TypeOK ==
  /\ RBTypeOK
  /\ value \in 0 .. SemLimit - 1
  /\ waiting \subseteq {Worker}
  /\ waiting # {} => tpc = "wait"
  /\ ppc \in [Producers -> PushPC]
  /\ arg \in [Producers -> Values \cup {Null}]
  /\ \A p \in Producers : ppc[p] \in {"spin", "lock"} => arg[p] \in Values
  /\ calls \in 0 .. MaxCalls
  /\ tpc \in ThreadPC
  /\ processing \in BOOLEAN /\ joinable \in BOOLEAN
  /\ mpc \in [Controllers -> StopPC]
  /\ stops \in 0 .. MaxStops
  /\ alive \in BOOLEAN /\ aborted \in BOOLEAN

\* Some thread has yet to execute step s of Semaphore::notify().
Pending(s) ==
  \/ \E p \in Producers : ppc[p] = s
  \/ \E c \in Controllers : mpc[c] = s

\* No wake-up is lost.  push() notifies only when it found the buffer empty
\* and after it has left the lock (RingBuffer.h:50, 61), yet whenever the
\* thread is headed for or blocked in wait() while an item is queued, a
\* token is there or on its way; and once it is there, so is the signal.
NoLostWakeup ==
  /\ tpc = "wait" /\ HasItem => value > 0 \/ Pending("post")
  /\ Worker \in waiting /\ value > 0 => Pending("signal")

\* A stop is always noticed: a thread that may still go to sleep after
\* _processing was cleared finds the token stopProcessingThread() leaves
\* (FileContext.cpp:197-198), so join() does not wait for a sleeper.
StopNoticed ==
  ~processing /\ tpc \in {"pop", "wait"} => value > 0 \/ Pending("post")

\* While releaseMount() erases a mount or the destructor frees them all,
\* no processing thread runs (FileContext.cpp:271-285): releaseMount()
\* "suspends processing while it runs" (FileContext.h:155).  It holds of one
\* controller; of two, one may find _processing cleared and not wait (line 196).
SuspendedWhileReleasing ==
  \A c \in Controllers : mpc[c] \in {"release", "destroyed"} => tpc = "exited"

\* The thread object is never joined twice nor overwritten while it still
\* has a thread (FileContext.cpp:191, 199): the process is not terminated.
NoAbort == ~aborted

\* Every queued item is taken by the loop, however pushes, stops and restarts
\* of the thread interleave, unless the context is destroyed: as MaxCalls
\* bounds the pushes, the queue is empty again after each
\* (RingBuffer.h:50, 61; FileContext.cpp:191, 660, 788).
QueuedIsTaken == HasItem ~> (~HasItem \/ ~alive)

\* push() returns, although it spins while the buffer is full and the
\* thread may be suspended (RingBuffer.h:43).
PushReturns == \A p \in Producers : ppc[p] = "spin" ~> ppc[p] = "idle"

\* releaseMount() and the destructor return (FileContext.cpp:199, join).
ReleaseReturns ==
  \A c \in Controllers : mpc[c] = "clear" ~> mpc[c] \in {"idle", "destroyed"}
=============================================================================
