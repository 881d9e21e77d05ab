------------------------------ MODULE WorkItems ------------------------------
(***************************************************************************)
(* The life of a work item (FileContext.cpp): a client takes it from the   *)
(* pool, fills it in and queues it; the processing thread executes it,     *)
(* marks it completed, and either runs its callback, frees its buffer and  *)
(* returns it to the pool, or wakes the clients that wait for it, one of   *)
(* which frees the buffer and returns the item.  Clients may stop and      *)
(* restart the thread meanwhile, several at once, to release mounts, or    *)
(* destroy the context.  The queue and the thread are the ones that        *)
(* ProcessingThread is proved to implement, the pool is PoolAllocator's.   *)
(***************************************************************************)
EXTENDS Integers, Sequences, FiniteSets, FiniteSetsExt, SequencesExt, ThreadControl

CONSTANTS
  Worker,       \* the processing thread
  PoolSize,     \* workItemPoolSize
  Capacity,     \* maxQueuedWorkItems
  Calls,        \* the functions clients call, of FileContext or of the C interface
  NestedCalls,  \* the functions callbacks call
  MaxRequests,  \* bound of the model: calls made
  MaxReleases,  \* bound of the model: calls of releaseMount()
  Null

Plain(operation) == [op |-> operation, callback |-> FALSE]
Calling(operation) == [op |-> operation, callback |-> TRUE]

\* The functions of FileContext that submit an item: the operation they ask
\* for, and whether they take a callback.
Entry ==
  [readFile         |-> Plain("READ"),          readFileWithCallback         |-> Calling("READ"),
   readFileSegment  |-> Plain("READ"),          readFileSegmentWithCallback  |-> Calling("READ"),
   writeFile        |-> Plain("WRITE"),         writeFileWithCallback        |-> Calling("WRITE"),
   writeFileSegment |-> Plain("WRITE_SEGMENT"), writeFileSegmentWithCallback |-> Calling("WRITE_SEGMENT"),
   appendFile       |-> Plain("APPEND"),        appendFileWithCallback       |-> Calling("APPEND"),
   fileExists       |-> Plain("EXISTS"),        fileExistsWithCallback       |-> Calling("EXISTS"),
   fileSize         |-> Plain("SIZE"),          fileSizeWithCallback         |-> Calling("SIZE"),
   deleteFile       |-> Plain("DELETE"),        deleteFileWithCallback       |-> Calling("DELETE"),
   createDir        |-> Plain("CREATE_DIR"),    createDirWithCallback        |-> Calling("CREATE_DIR"),
   deleteDir        |-> Plain("DELETE_DIR"),    deleteDirWithCallback        |-> Calling("DELETE_DIR")]

\* The functions of the C interface, and the one each of them calls.
Forwards ==
  [lfs_read_file            |-> "readFile",
   lfs_read_file_ctx_alloc  |-> "readFile",
   lfs_read_file_segment    |-> "readFileSegment",
   lfs_read_file_segment_ctx_alloc |-> "readFileSegment",
   lfs_write_file           |-> "writeFile",
   lfs_write_file_segment   |-> "writeFileSegment",
   lfs_append_file          |-> "appendFile",
   lfs_file_exists          |-> "fileExists",
   lfs_file_size            |-> "fileSize",
   lfs_delete_file          |-> "deleteFile",
   lfs_create_dir           |-> "createDir",
   lfs_delete_dir           |-> "deleteDir",
   lfs_read_file_with_callback           |-> "readFileWithCallback",
   lfs_read_file_ctx_alloc_with_callback |-> "readFileWithCallback",
   lfs_read_file_segment_with_callback   |-> "readFileSegmentWithCallback",
   lfs_read_file_segment_ctx_alloc_with_callback |-> "readFileSegmentWithCallback",
   lfs_write_file_with_callback          |-> "writeFileWithCallback",
   lfs_write_file_segment_with_callback  |-> "writeFileSegmentWithCallback",
   lfs_append_file_with_callback         |-> "appendFileWithCallback",
   lfs_file_exists_with_callback         |-> "fileExistsWithCallback",
   lfs_file_size_with_callback           |-> "fileSizeWithCallback",
   lfs_delete_file_with_callback         |-> "deleteFileWithCallback",
   lfs_create_dir_with_callback          |-> "createDirWithCallback",
   lfs_delete_dir_with_callback          |-> "deleteDirWithCallback"]

\* The function of FileContext a call ends up in.
Function(call) == IF call \in DOMAIN Forwards THEN Forwards[call] ELSE call

\* Callbacks submit with callbacks only: nobody would release the item else.
ASSUME CallsAssumption ==
  /\ Calls \subseteq DOMAIN Entry \cup DOMAIN Forwards
  /\ NestedCalls \subseteq {f \in DOMAIN Entry : Entry[f].callback}

ASSUME SizeAssumption ==
  /\ PoolSize \in Nat \ {0} /\ Capacity \in Nat \ {0}
  /\ MaxRequests \in Nat /\ MaxReleases \in Nat

ASSUME ClientsAssumption == Worker \notin Clients /\ IsFiniteSet(Clients)

ASSUME NullAssumption == Null \notin 0 .. PoolSize - 1

VARIABLES
  avail,      \* the pool: slots whose bit is set
  work,       \* the pool: its storage
  queue,      \* _workItemQueue, as slots
  sub,        \* where each thread is in the function that submits
  client,     \* where each client is between submissions, and the items it holds
  cur,        \* item
  asked,      \* _operation, each time it was read to carry out the item
  crashed,    \* a null function pointer was called
  releases,   \* history: calls of releaseMount()
  log         \* history: what became of every request, in the order made

threadVars == <<tpc, cur, asked>>
contextVars == <<controlVars, releases>>
vars == <<avail, work, queue, sub, client, threadVars, contextVars, crashed, log>>

Slots == 0 .. PoolSize - 1
Requests == 1 .. MaxRequests
Threads == Clients \cup {Worker}
Operations == {Entry[f].op : f \in DOMAIN Entry}
Actions == {"LFS_DO_NOT_FREE_BUFFER", "LFS_FREE_BUFFER"}

\* PoolAllocator::alloc() value-initialises the item.
Constructed ==
  [op |-> "EXISTS", callback |-> FALSE, action |-> "LFS_DO_NOT_FREE_BUFFER",
   allocator |-> FALSE, buffer |-> "null", completed |-> FALSE, request |-> 0]

NotSubmitting ==
  [pc |-> "none", fn |-> Null, action |-> Null, request |-> 0, slot |-> Null]

\* The last request was refused, and its callback may go on yet.
Answered == [NotSubmitting EXCEPT !.pc = "answered"]

\* A client holds `mine`, oldest first, knows the first `seen` of them to be
\* completed, and waits for the one at `target`.
Init ==
  /\ avail = Slots
  /\ work = [s \in Slots |-> Constructed]
  /\ queue = <<>>
  /\ sub = [t \in Threads |-> NotSubmitting]
  /\ client = [c \in Clients |-> [pc |-> "idle", mine |-> <<>>, seen |-> 0, target |-> 0]]
  /\ ControlInit
  /\ cur = Null /\ asked = {} /\ crashed = FALSE
  /\ releases = 0 /\ log = <<>>

-----------------------------------------------------------------------------
(* Submitting an item, by a client or by a callback on the worker.         *)

Ready(t) == sub[t] \in {NotSubmitting, Answered}

GoSub(t, from, to) == sub[t].pc = from /\ sub' = [sub EXCEPT ![t].pc = to]

\* Mistake: the bit of the slot handed out stays set.
TakeSlotAgain(s) == s = Min(avail) /\ UNCHANGED avail

\* PoolAllocator::alloc() hands out its lowest free slot.
TakeSlot(s) == s = Min(avail) /\ avail' = avail \ {s}

\* allocWorkItemCommon().  A refused request is called back from here; without
\* a callback the function returns null.
AllocItem(t, f, a) ==
  /\ Len(log) < MaxRequests
  /\ Ready(t)
  /\ log' = Append(log, [fn |-> f, refused |-> avail = {}, done |-> FALSE, called |-> 0, heap |-> FALSE])
  /\ LET next(pc, s) == [pc |-> pc, fn |-> f, action |-> a, request |-> Len(log) + 1, slot |-> s]
     IN  \/ \E s \in avail :
            /\ TakeSlot(s)
            /\ work' = [work EXCEPT ![s] = Constructed]
            /\ sub' = [sub EXCEPT ![t] = next("init", s)]
         \/ /\ avail = {}
            /\ sub' = [sub EXCEPT ![t] =
                         IF Entry[f].callback THEN next("refused", Null) ELSE NotSubmitting]
            /\ UNCHANGED <<avail, work>>
  /\ UNCHANGED <<queue, client, threadVars, contextVars, crashed>>

\* The callback of a refused request runs on the thread that made it.
RefusedCallback(t) ==
  /\ sub[t].pc = "refused"
  /\ log' = [log EXCEPT ![sub[t].request].called = @ + 1]
  /\ sub' = [sub EXCEPT ![t] = Answered]
  /\ UNCHANGED <<avail, work, queue, client, threadVars, contextVars, crashed>>

\* writeFile() submits as writeFileSegment() and corrects the operation later.
SubmittedOp(f) == IF f = "writeFile" THEN "WRITE_SEGMENT" ELSE Entry[f].op

Writes == {"WRITE", "WRITE_SEGMENT", "APPEND"}

\* initWorkItem() and the assignments of the function before it pushes: only
\* the reads set _allocator, and the writes take the caller's buffer.
InitItem(t) ==
  LET op == SubmittedOp(sub[t].fn)
  IN  /\ GoSub(t, "init", "push")
      /\ work' = [work EXCEPT ![sub[t].slot] =
           [op |-> op,
            callback |-> Entry[sub[t].fn].callback,
            action |-> sub[t].action,
            allocator |-> op = "READ",
            buffer |-> IF op \in Writes THEN "user" ELSE "null",
            completed |-> FALSE,
            request |-> sub[t].request]]
      /\ UNCHANGED <<avail, queue, client, threadVars, contextVars, crashed, log>>

\* The function returns its item to the client, unless it took a callback.
Return(t) ==
  /\ sub' = [sub EXCEPT ![t] = NotSubmitting]
  /\ client' = IF Entry[sub[t].fn].callback THEN client
               ELSE [client EXCEPT ![t].mine = Append(@, sub[t].slot)]

\* Mistake: the queue takes one item too many.
RoomForMore == Len(queue) <= Capacity

Room == Len(queue) < Capacity

\* _workItemQueue.push(): it returns once the item is in.
PushItem(t) ==
  /\ Room
  /\ queue' = Append(queue, sub[t].slot)
  /\ IF sub[t].fn = "writeFile"
     THEN GoSub(t, "push", "correct") /\ UNCHANGED client
     ELSE sub[t].pc = "push" /\ Return(t)
  /\ UNCHANGED <<avail, work, threadVars, contextVars, crashed, log>>

\* writeFile() assigns the operation of the item it has already queued.
CorrectOp(t) ==
  /\ sub[t].pc = "correct"
  /\ work' = [work EXCEPT ![sub[t].slot].op = "WRITE"]
  /\ Return(t)
  /\ UNCHANGED <<avail, queue, threadVars, contextVars, crashed, log>>

SubmitStep(t) == RefusedCallback(t) \/ InitItem(t) \/ PushItem(t) \/ CorrectOp(t)

-----------------------------------------------------------------------------
(* What a client does between submissions.                                 *)

Idle(c) == alive /\ client[c].pc = "idle" /\ Ready(c) /\ rel[c] = "none"

\* What becomes of the buffer is the caller's to say where there may be one.
ActionsOf(f) ==
  IF Entry[f].callback /\ Entry[f].op \in Writes \cup {"READ"}
  THEN Actions ELSE {"LFS_DO_NOT_FREE_BUFFER"}

Submit(c) ==
  /\ Idle(c)
  /\ \E call \in Calls :
       \E a \in ActionsOf(Function(call)) : AllocItem(c, Function(call), a)

\* WaitForWorkItem() and WorkItemCompleted() on any item not known completed.
Await(c) ==
  /\ Idle(c)
  /\ \E i \in client[c].seen + 1 .. Len(client[c].mine) :
       client' = [client EXCEPT ![c].pc = "await", ![c].target = i]
  /\ UNCHANGED <<avail, work, queue, sub, threadVars, contextVars, crashed, log>>

\* The item is completed.  As items are processed in order, the client takes
\* the ones it submitted before it for completed too.  Or it is not, and the
\* client waits for the condition variable with _completionMutex released.
AwaitTest(c) ==
  /\ client[c].pc = "await"
  /\ client' = IF work[client[c].mine[client[c].target]].completed
               THEN [client EXCEPT ![c].pc = "idle", ![c].seen = client[c].target, ![c].target = 0]
               ELSE [client EXCEPT ![c].pc = "blocked"]
  /\ UNCHANGED <<avail, work, queue, sub, threadVars, contextVars, crashed, log>>

SpuriousWake(c) ==
  /\ client[c].pc = "blocked"
  /\ client' = [client EXCEPT ![c].pc = "await"]
  /\ UNCHANGED <<avail, work, queue, sub, threadVars, contextVars, crashed, log>>

\* Mistake: the pointer to the freed buffer is kept.
FreedKept(s) == work[s].buffer

\* What is left of the buffer.
Freed(s) == IF work[s].allocator THEN "null" ELSE work[s].buffer

\* WorkItemFreeBuffer(): without an allocator it calls a null pointer.
FreeBuffer(s) ==
  /\ work' = [work EXCEPT ![s].buffer = Freed(s)]
  /\ crashed' = (~work[s].allocator /\ work[s].buffer # "null")
  /\ log' = IF work[s].buffer = "heap" THEN [log EXCEPT ![work[s].request].heap = FALSE] ELSE log

\* A client may call it for any item it knows completed; without a buffer
\* nothing happens.
ClientFreeBuffer(c) ==
  /\ Idle(c)
  /\ \E i \in 1 .. client[c].seen :
       /\ work[client[c].mine[i]].buffer # "null"
       /\ FreeBuffer(client[c].mine[i])
  /\ UNCHANGED <<avail, queue, sub, client, threadVars, contextVars>>

\* releaseWorkItem() of an item known completed, after the buffer it
\* allocated was freed.
ReleaseWorkItem(c) ==
  /\ Idle(c)
  /\ \E i \in 1 .. client[c].seen :
       LET s == client[c].mine[i]
       IN  /\ work[s].buffer # "heap"
           /\ avail' = IF work[s].callback THEN avail ELSE avail \cup {s}
           /\ client' = [client EXCEPT ![c].mine = RemoveAt(@, i), ![c].seen = @ - 1]
  /\ UNCHANGED <<work, queue, sub, threadVars, contextVars, crashed, log>>

itemVars == <<avail, work, queue, sub, client, cur, asked, crashed, log>>

ReleaseMount(c) ==
  /\ Idle(c)
  /\ releases < MaxReleases /\ releases' = releases + 1
  /\ StopCheck(c)
  /\ UNCHANGED itemVars

ReleaseMountStep(c) == (ReleaseStep(c) \/ Erase(c)) /\ UNCHANGED <<itemVars, releases>>

\* ~FileContext(), called when no client uses the context or owes it an item.
Destroy ==
  /\ \A c \in Clients : Idle(c) /\ client[c].mine = <<>>
  /\ DestroyClear
  /\ UNCHANGED <<itemVars, releases>>

Destroyed == DestroyJoin /\ UNCHANGED <<itemVars, releases>>

ClientStep(c) == SubmitStep(c) \/ AwaitTest(c) \/ ReleaseMountStep(c)

-----------------------------------------------------------------------------
(* processingFunc().                                                       *)

TestProcessing == Test /\ UNCHANGED <<itemVars, releases>>

\* Mistake: the newest item is taken first.
FirstNewest == Len(queue)

First == 1

PopItem ==
  /\ GoThread("pop", "find")
  /\ queue # <<>>
  /\ cur' = queue[First]
  /\ queue' = RemoveAt(queue, First)
  /\ UNCHANGED <<avail, work, sub, client, asked, contextVars, crashed, log>>

PopNothing == queue = <<>> /\ PopEmpty /\ UNCHANGED <<itemVars, releases>>

\* The switch over _operation and the search for a mount.
FindMount ==
  /\ GoThread("find", "device")
  /\ asked' = {work[cur].op}
  /\ UNCHANGED <<avail, work, queue, sub, client, cur, contextVars, crashed, log>>

\* The operation on the device.  The write mode is taken from _operation
\* again; a read may allocate a buffer.
RunOperation ==
  /\ GoThread("device", "complete")
  /\ \E heap \in IF asked = {"READ"} THEN BOOLEAN ELSE {FALSE} :
       /\ work' = IF heap THEN [work EXCEPT ![cur].buffer = "heap"] ELSE work
       /\ log' = [log EXCEPT ![work[cur].request].heap = heap]
  /\ asked' = asked \cup {work[cur].op}
  /\ UNCHANGED <<avail, queue, sub, client, cur, contextVars, crashed>>

\* Mistake: only items without a callback are marked completed.
CompletesPlain == ~work[cur].callback

Completes == TRUE

\* _completed is set under _completionMutex.
Complete ==
  /\ GoThread("complete", "choose")
  /\ work' = [work EXCEPT ![cur].completed = Completes]
  /\ log' = [log EXCEPT ![work[cur].request].done = Completes]
  /\ asked' = {}
  /\ UNCHANGED <<avail, queue, sub, client, cur, contextVars, crashed>>

\* The mutex is released when the thread reads _callback.
Choose ==
  /\ GoThread("choose", IF work[cur].callback THEN "callback" ELSE "notify")
  /\ UNCHANGED <<avail, work, queue, sub, client, cur, asked, contextVars, crashed, log>>

\* The callback begins, with the item as it is now.
Callback ==
  /\ GoThread("callback", "called")
  /\ log' = [log EXCEPT ![work[cur].request].called = @ + 1]
  /\ UNCHANGED <<avail, work, queue, sub, client, cur, asked, contextVars, crashed>>

\* A callback submits a request of its own, on the thread it runs on.
NestedSubmit(t) ==
  /\ IF t = Worker THEN tpc = "called" ELSE Idle(t) /\ sub[t] = Answered
  /\ \E f \in NestedCalls : \E a \in ActionsOf(f) : AllocItem(t, f, a)

\* Mistake: the two buffer actions are mixed up.
FreesOther == work[cur].action # "LFS_FREE_BUFFER"

Frees == work[cur].action = "LFS_FREE_BUFFER"

\* The callback returns; a buffer it is to keep is the client's from now on.
CallbackReturns ==
  /\ GoThread("called", IF Frees THEN "free" ELSE "release")
  /\ Ready(Worker)
  /\ log' = [log EXCEPT ![work[cur].request].heap = @ /\ work[cur].action = "LFS_FREE_BUFFER"]
  /\ UNCHANGED <<avail, work, queue, sub, client, cur, asked, contextVars, crashed>>

ThreadFreeBuffer ==
  /\ GoThread("free", "release")
  /\ FreeBuffer(cur)
  /\ UNCHANGED <<avail, queue, sub, client, cur, asked, contextVars>>

\* Mistake: the slot is not returned to the pool.
ReturnedNot == {}

Returned == {cur}

\* releaseWorkItemInternal()
ThreadRelease ==
  /\ GoThread("release", "loop")
  /\ avail' = avail \cup Returned
  /\ cur' = Null
  /\ UNCHANGED <<work, queue, sub, client, asked, contextVars, crashed, log>>

Blocked == {c \in Clients : client[c].pc = "blocked"}

\* Mistake: one waiting client is notified.
WokenOne == IF Blocked = {} THEN {} ELSE {CHOOSE c \in Blocked : TRUE}

\* notify_all() on the completion condition variable.
Woken == Blocked

NotifyAll ==
  /\ GoThread("notify", "loop")
  /\ client' = [c \in Clients |-> IF c \in Woken THEN [client[c] EXCEPT !.pc = "await"]
                                                 ELSE client[c]]
  /\ cur' = Null
  /\ UNCHANGED <<avail, work, queue, sub, asked, contextVars, crashed, log>>

ThreadStep ==
  \/ TestProcessing \/ PopItem \/ PopNothing \/ FindMount \/ RunOperation \/ Complete \/ Choose
  \/ Callback \/ SubmitStep(Worker) \/ CallbackReturns
  \/ ThreadFreeBuffer \/ ThreadRelease \/ NotifyAll

-----------------------------------------------------------------------------
\* A callback submits to the full queue of the thread it runs on: nobody
\* will ever make room.
Stuck == sub[Worker].pc = "push" /\ Len(queue) = Capacity

\* The process has ended.
Over == crashed \/ aborted

\* Every call was made and served, or the context is gone, or nothing will
\* ever happen again.
Quiescent ==
  /\ \/ /\ Len(log) = MaxRequests /\ queue = <<>> /\ tpc = "pop"
        /\ \A c \in Clients : Idle(c) /\ client[c].mine = <<>>
     \/ ~alive /\ tpc = "joined"
     \/ Stuck \/ Over
  /\ UNCHANGED vars

Next ==
  \/ /\ ~Over
     /\ \/ \E c \in Clients :
             \/ Submit(c) \/ Await(c) \/ SpuriousWake(c) \/ ClientFreeBuffer(c)
             \/ ReleaseWorkItem(c) \/ ReleaseMount(c) \/ ClientStep(c)
        \/ \E t \in Threads : NestedSubmit(t)
        \/ ThreadStep \/ Destroy \/ Destroyed
  \/ Quiescent

\* A call that has begun goes on, and the processing thread is scheduled;
\* which calls clients make is up to them.
Fairness ==
  /\ \A c \in Clients : WF_vars(~Over /\ ClientStep(c))
  /\ WF_vars(~Over /\ ThreadStep)

Spec == Init /\ [][Next]_vars
FairSpec == Spec /\ Fairness
-----------------------------------------------------------------------------
Records ==
  [fn : DOMAIN Entry, refused : BOOLEAN, done : BOOLEAN, called : 0 .. 2, heap : BOOLEAN]

\* Every variable has its type, and the thread has an item in hand exactly
\* from the pop to the end of the pass (FileContext.cpp:670-786).
TypeOK ==
  /\ avail \subseteq Slots
  /\ work \in [Slots -> [op : Operations, callback : BOOLEAN, action : Actions,
                         allocator : BOOLEAN, buffer : {"null", "user", "heap"},
                         completed : BOOLEAN, request : {0} \cup Requests]]
  /\ queue \in Seq(Slots) /\ Len(queue) <= Capacity
  /\ sub \in [Threads -> [pc : {"none", "init", "push", "correct", "refused", "answered"},
                          fn : DOMAIN Entry \cup {Null}, action : Actions \cup {Null},
                          request : {0} \cup Requests, slot : Slots \cup {Null}]]
  /\ client \in [Clients -> [pc : {"idle", "await", "blocked"},
                             mine : Seq(Slots), seen : 0 .. PoolSize, target : 0 .. PoolSize]]
  /\ \A c \in Clients : {client[c].seen, client[c].target} \subseteq 0 .. Len(client[c].mine)
  /\ tpc \in {"loop", "pop", "find", "device", "complete", "choose", "callback", "called",
              "free", "release", "notify", "exited", "joined"}
  /\ cur \in Slots \cup {Null} /\ (cur = Null <=> tpc \in {"loop", "pop", "exited", "joined"})
  /\ asked \subseteq Operations
  /\ rel \in [Clients -> ReleasePC]
  /\ {processing, alive, aborted, crashed} \subseteq BOOLEAN /\ releases \in 0 .. MaxReleases
  /\ log \in Seq(Records) /\ Len(log) <= MaxRequests

\* Thread t is filling in the item in slot s, or returning it completed.
Submitting(t, s) ==
  /\ sub[t].slot = s
  /\ \/ sub[t].pc \in {"init", "push"}
     \/ sub[t].pc = "correct" /\ work[s].completed

\* The thread lets go of an item without a callback when it completes it.
Processing(s) ==
  /\ cur = s
  /\ tpc # "notify"
  /\ tpc = "choose" => work[s].callback

\* The places from which slot s may be used: the pool, a thread that submits
\* it, the queue, the processing thread, the client it was returned to.
Holders(s) ==
  {<<"pool">> : x \in avail \cap {s}}
  \cup {<<"submitting", t>> : t \in {u \in Threads : Submitting(u, s)}}
  \cup {<<"queue", i>> : i \in {j \in DOMAIN queue : queue[j] = s}}
  \cup {<<"thread">> : x \in {y \in {s} : Processing(y)}}
  \cup UNION {{<<"client", c, i>> :
                 i \in {j \in DOMAIN client[c].mine : client[c].mine[j] = s /\ work[s].completed}} :
               c \in Clients}

\* An item is in exactly one hand at any time: no slot is leaked, handed out
\* or returned twice, or queued while another party still has it
\* (FileContext.h:96-100; FileContext.cpp:406-417, 436-458, 775-785).
OneHolder == \A s \in Slots : \E h \in Holders(s) : Holders(s) = {h}

\* A callback runs once, after its request was carried out or refused
\* (FileContext.cpp:445-454, 775-776).
CallbackOnce ==
  \A r \in DOMAIN log :
    log[r].called > 0 => log[r].called = 1 /\ (log[r].done \/ log[r].refused)

\* A client that waited for its last item may use the earlier ones without
\* waiting for them: "Work items are sequential, only need to wait on the last
\* one" (tests/tests_cpp.cpp:188).
WaitForLast ==
  \A c \in Clients : \A i \in 1 .. client[c].seen : work[client[c].mine[i]].completed

\* Request r is in the work item of slot s, which is in use.
InUse(s, r) == s \notin avail /\ work[s].request = r

\* A buffer a read allocated is in reach of whoever has to free it, and no
\* item in use points to a buffer that was freed (FileContext.cpp:106-111,
\* 778-781).
BuffersInReach ==
  \A r \in DOMAIN log :
    log[r].heap <=> \E s \in Slots : /\ InUse(s, r) /\ work[s].buffer = "heap"
                                     /\ ~(tpc = "release" /\ cur = s)

\* The device is asked for the operation the client called
\* (FileContext.cpp:497-501, 711, 714).
RunsAsCalled == cur # Null => asked \subseteq {Entry[log[work[cur].request].fn].op}

\* A client that waits for an item comes back, although the thread sets
\* _completed and notifies in two steps (FileContext.cpp:770-784) and clients
\* stop and restart it meanwhile (FileContext.cpp:188-201, 269-289), unless
\* the process ends: two of them did so at once, or a client freed the buffer
\* of a write (line 108).
WaitReturns == \A c \in Clients : client[c].pc = "await" ~> client[c].pc = "idle" \/ Over

\* A request with a callback has it called, and its slot is returned to the
\* pool (FileContext.cpp:774-782), unless the context is destroyed first, the
\* process ends, or a callback waits for its own thread.
CallbackServed ==
  \A r \in Requests :
    (r \in DOMAIN log /\ Entry[log[r].fn].callback)
      ~> (alive /\ ~Over /\ ~Stuck =>
            /\ r \in DOMAIN log /\ log[r].called = 1
            /\ \A s \in Slots : ~InUse(s, r))

\* The request in hand, until it completes, and the queued ones.
Pending ==
  (IF tpc \in {"find", "device", "complete"} THEN <<work[cur].request>> ELSE <<>>)
  \o [i \in DOMAIN queue |-> work[queue[i]].request]

Service == INSTANCE RequestService WITH
  wants   <- {r \in DOMAIN log : Entry[log[r].fn].callback},
  pending <- Pending,
  done    <- {r \in DOMAIN log : log[r].done},
  refused <- {r \in DOMAIN log : log[r].refused},
  called  <- [r \in Requests |-> IF r \in DOMAIN log THEN log[r].called ELSE 0]

\* Requests are carried out in the order they were queued, across a stop and
\* restart of the thread, and each callback is called once, before the next
\* request is carried out or on a refusal (FileContext.cpp:436-458, 667-786).
RequestSpec == Service!Spec
=============================================================================
