---------------------------- MODULE ThreadControl ----------------------------
(***************************************************************************)
(* _processing, _processingThread and the calls that stop and start the    *)
(* thread: stopProcessingThread() and startProcessingThread() read         *)
(* _processing and change it without a lock, so any number of clients may  *)
(* be in releaseMount() at once, and trip over each other.  WorkItems and  *)
(* MountTable extend this module; ProcessingThread, with the semaphore the *)
(* thread sleeps on, implements it.                                        *)
(***************************************************************************)

CONSTANT Clients  \* client threads

VARIABLES
  tpc,         \* where the processing thread is, and whether it was joined
  processing,  \* _processing
  alive,       \* the destructor has not begun
  rel,         \* where each client is in releaseMount()
  aborted      \* std::thread misuse has ended the process

controlVars == <<processing, alive, rel, aborted>>

ReleasePC == {"none", "clear", "join", "erase", "start", "set", "spawn"}

ControlInit ==
  /\ tpc = "loop"
  /\ processing = TRUE /\ alive = TRUE
  /\ rel = [c \in Clients |-> "none"]
  /\ aborted = FALSE

GoRelease(c, from, to) == rel[c] = from /\ rel' = [rel EXCEPT ![c] = to]

\* stopProcessingThread() reads _processing: a client that finds it cleared
\* by another does not wait for the thread.
StopCheck(c) ==
  /\ alive
  /\ GoRelease(c, "none", IF processing THEN "clear" ELSE "erase")
  /\ UNCHANGED <<tpc, processing, alive, aborted>>

StopClear(c) ==
  /\ GoRelease(c, "clear", "join")
  /\ processing' = FALSE
  /\ UNCHANGED <<tpc, alive, aborted>>

\* Mistake: the thread is not waited for.
StopJoinNot(c) ==
  /\ GoRelease(c, "join", "erase")
  /\ UNCHANGED <<tpc, processing, alive, aborted>>

\* join() waits for the thread; one that was joined already is an error.
StopJoin(c) ==
  /\ GoRelease(c, "join", "erase")
  /\ tpc \in {"exited", "joined"} /\ tpc' = "joined"
  /\ aborted' = (tpc = "joined")
  /\ UNCHANGED <<processing, alive>>

\* The section under _mountLock that erases the mount.
Erase(c) ==
  /\ GoRelease(c, "erase", "start")
  /\ UNCHANGED <<tpc, processing, alive, aborted>>

\* startProcessingThread() reads _processing.
StartCheck(c) ==
  /\ GoRelease(c, "start", IF processing THEN "none" ELSE "set")
  /\ UNCHANGED <<tpc, processing, alive, aborted>>

StartSet(c) ==
  /\ GoRelease(c, "set", "spawn")
  /\ processing' = TRUE
  /\ UNCHANGED <<tpc, alive, aborted>>

\* A new thread assigned to one that was not joined ends the process.
StartSpawn(c) ==
  /\ GoRelease(c, "spawn", "none")
  /\ tpc' = IF tpc = "joined" THEN "loop" ELSE tpc
  /\ aborted' = (tpc # "joined")
  /\ UNCHANGED <<processing, alive>>

\* What releaseMount() does to the thread once it was called.
ReleaseStep(c) ==
  StopClear(c) \/ StopJoin(c) \/ StartCheck(c) \/ StartSet(c) \/ StartSpawn(c)

\* ~FileContext() stops the thread, when no client uses the context.
DestroyClear ==
  /\ alive /\ alive' = FALSE
  /\ \A c \in Clients : rel[c] = "none"
  /\ processing' = FALSE
  /\ UNCHANGED <<tpc, rel, aborted>>

DestroyJoin ==
  /\ ~alive
  /\ tpc = "exited" /\ tpc' = "joined"
  /\ UNCHANGED controlVars

-----------------------------------------------------------------------------
(* processingFunc().                                                       *)

GoThread(from, to) == tpc = from /\ tpc' = to

Test ==
  /\ GoThread("loop", IF processing THEN "pop" ELSE "exited")
  /\ UNCHANGED controlVars

\* The queue is empty: the thread sleeps until it is notified.
PopEmpty == GoThread("pop", "loop") /\ UNCHANGED controlVars

BeginItem == GoThread("pop", "item") /\ UNCHANGED controlVars
EndItem == GoThread("item", "loop") /\ UNCHANGED controlVars
-----------------------------------------------------------------------------
ControlNext ==
  /\ ~aborted
  /\ \/ \E c \in Clients : StopCheck(c) \/ Erase(c) \/ ReleaseStep(c)
     \/ DestroyClear \/ DestroyJoin
     \/ Test \/ PopEmpty \/ BeginItem \/ EndItem

ControlSpec == ControlInit /\ [][ControlNext]_<<tpc, controlVars>>
=============================================================================
