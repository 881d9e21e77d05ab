--------------------------- MODULE WorkItemsProofs ---------------------------
(***************************************************************************)
(* For any number of clients, slots and places in the queue: what becomes  *)
(* of the slots and the requests of a context whose clients and callbacks  *)
(* submit with callbacks only.                                             *)
(***************************************************************************)
EXTENDS WorkItems, SequenceFacts, FiniteSetTheorems, TLAPS

\* The second method of ownership of FileContext.h:99-100.
AllCallbacks == \A call \in Calls : Entry[Function(call)].callback

-----------------------------------------------------------------------------
LEMMA EntryFacts ==
  /\ {"EXISTS", "WRITE", "WRITE_SEGMENT"} \subseteq Operations
  /\ \A f \in DOMAIN Entry : /\ Entry[f].op \in Operations
                             /\ Entry[f].callback \in BOOLEAN
                             /\ SubmittedOp(f) \in Operations
  /\ ~Entry["writeFile"].callback
  /\ \A call \in Calls : Function(call) \in DOMAIN Entry
<1>1. \A f \in DOMAIN Entry : Entry[f].op \in Operations
  BY DEF Operations
<1>2. {"fileExists", "writeFile", "writeFileSegment"} \subseteq DOMAIN Entry
  BY DEF Entry
<1>3. /\ Entry["fileExists"].op = "EXISTS" /\ Entry["writeFile"].op = "WRITE"
      /\ Entry["writeFileSegment"].op = "WRITE_SEGMENT"
      /\ Entry["writeFile"].callback = FALSE
  BY DEF Entry, Plain, Calling
<1>4. {"EXISTS", "WRITE", "WRITE_SEGMENT"} \subseteq Operations
  BY <1>1, <1>2, <1>3
<1>5. \A f \in DOMAIN Entry : Entry[f].callback \in BOOLEAN
  <2>1. \A f \in DOMAIN Entry : Entry[f].callback = TRUE \/ Entry[f].callback = FALSE
    BY SMTT(60) DEF Entry, Plain, Calling
  <2>2. QED
    BY <2>1
<1>6. \A f \in DOMAIN Entry : SubmittedOp(f) \in Operations
  BY <1>1, <1>4 DEF SubmittedOp
<1>7. \A call \in Calls : Function(call) \in DOMAIN Entry
  <2>1. \A call \in DOMAIN Forwards : Forwards[call] \in DOMAIN Entry
    BY DEF Forwards, Entry
  <2>2. QED
    BY <2>1, CallsAssumption DEF Function
<1>8. QED
  BY <1>1, <1>3, <1>4, <1>5, <1>6, <1>7

-----------------------------------------------------------------------------
Busy(t) == sub[t].pc \in {"init", "push"}
Asking(t) == sub[t].pc \notin {"none", "answered"}

\* Clients hold no items, and the thread notifies nobody.
Typed ==
  /\ TypeOK
  /\ \A c \in Clients : client[c].mine = <<>> /\ client[c].pc = "idle"
  /\ tpc # "notify"

\* A thread that submits has a slot of its own and a request with a callback.
Prepared(t) ==
  /\ sub[t].pc # "correct"
  /\ Asking(t) => /\ sub[t].fn \in DOMAIN Entry /\ Entry[sub[t].fn].callback
                  /\ sub[t].request \in DOMAIN log
  /\ Busy(t) => sub[t].slot \in Slots \ avail /\ sub[t].action \in Actions
  /\ sub[t].pc = "push" => /\ work[sub[t].slot].callback
                           /\ work[sub[t].slot].request = sub[t].request

SubInv == \A t \in Threads : Prepared(t)

\* The pool, the threads that submit, the queue and the item in hand share the
\* slots.
SlotInv ==
  /\ cur \notin avail
  /\ \A t \in Threads : Busy(t) => sub[t].slot # cur
  /\ \A t, u \in Threads : Busy(t) /\ Busy(u) /\ sub[t].slot = sub[u].slot => t = u
  /\ \A i \in DOMAIN queue : queue[i] \notin avail /\ queue[i] # cur
  /\ \A i \in DOMAIN queue, t \in Threads : Busy(t) => queue[i] # sub[t].slot
  /\ \A i, j \in DOMAIN queue : queue[i] = queue[j] => i = j
  /\ \A s \in Slots : \/ s \in avail \/ s = cur
                      \/ \E t \in Threads : Busy(t) /\ sub[t].slot = s
                      \/ \E i \in DOMAIN queue : queue[i] = s

\* Every item on its way is filled in for a request.
FilledInv ==
  /\ \A i \in DOMAIN queue : work[queue[i]].callback /\ work[queue[i]].request \in DOMAIN log
  /\ cur # Null => work[cur].callback /\ work[cur].request \in DOMAIN log

\* No request is in two places.
ReqInv ==
  /\ \A t, u \in Threads : Asking(t) /\ Asking(u) /\ sub[t].request = sub[u].request => t = u
  /\ \A i, j \in DOMAIN queue : work[queue[i]].request = work[queue[j]].request => i = j
  /\ \A i \in DOMAIN queue, t \in Threads : Asking(t) => work[queue[i]].request # sub[t].request
  /\ cur # Null => /\ \A i \in DOMAIN queue : work[queue[i]].request # work[cur].request
                   /\ \A t \in Threads : Asking(t) => sub[t].request # work[cur].request

Open(r) == ~log[r].refused /\ ~log[r].done /\ log[r].called = 0

\* What has become of a request, by the place it is in.
LogInv ==
  /\ \A t \in Threads : Busy(t) => Open(sub[t].request)
  /\ \A t \in Threads : sub[t].pc = "refused" =>
       LET r == sub[t].request IN log[r].refused /\ ~log[r].done /\ log[r].called = 0
  /\ \A i \in DOMAIN queue : Open(work[queue[i]].request)
  /\ tpc \in {"find", "device", "complete"} => Open(work[cur].request)
  /\ tpc \in {"choose", "callback"} =>
       log[work[cur].request].done /\ log[work[cur].request].called = 0
  /\ \A r \in DOMAIN log :
       /\ Entry[log[r].fn].callback
       /\ log[r].called \in 0 .. 1
       /\ log[r].called = 1 => log[r].done \/ log[r].refused
       /\ log[r].done /\ log[r].called = 0 =>
            tpc \in {"choose", "callback"} /\ r = work[cur].request

CallInv == Typed /\ SubInv /\ SlotInv /\ FilledInv /\ ReqInv /\ LogInv

-----------------------------------------------------------------------------
(* The steps such a context can take.                                      *)

PushCalling(t) ==
  /\ Room /\ sub[t].pc = "push"
  /\ queue' = Append(queue, sub[t].slot)
  /\ sub' = [sub EXCEPT ![t] = NotSubmitting]
  /\ UNCHANGED <<avail, work, client, threadVars, contextVars, crashed, log>>

\* The thread has nothing in hand, or a client stops or restarts it.
Pause ==
  /\ UNCHANGED <<avail, work, queue, sub, client, cur, asked, crashed, log>>
  /\ tpc' = tpc \/ {tpc, tpc'} \subseteq {"loop", "pop", "exited", "joined"}
  /\ rel' \in [Clients -> ReleasePC]
  /\ {processing', alive', aborted'} \subseteq BOOLEAN /\ releases' \in 0 .. MaxReleases

ThreadWorks ==
  \/ PopItem \/ FindMount \/ RunOperation \/ Complete \/ Choose
  \/ Callback \/ CallbackReturns \/ ThreadFreeBuffer \/ ThreadRelease

LEMMA ActionsFacts == \A f : ActionsOf(f) \subseteq Actions
BY DEF ActionsOf, Actions

LEMMA ControlTypes ==
  ASSUME rel \in [Clients -> ReleasePC], {processing, alive, aborted} \subseteq BOOLEAN,
         NEW c \in Clients, ReleaseStep(c) \/ Erase(c)
  PROVE  /\ rel' \in [Clients -> ReleasePC]
         /\ {processing', alive', aborted'} \subseteq BOOLEAN
         /\ tpc' = tpc \/ {tpc, tpc'} \subseteq {"loop", "pop", "exited", "joined"}
BY DEF ReleaseStep, StopClear, StopJoin, Erase, StartCheck, StartSet, StartSpawn, GoRelease, ReleasePC

\* The steps that leave every item alone.
Pausing ==
  \/ \E c \in Clients : ReleaseMount(c) \/ ReleaseMountStep(c)
  \/ TestProcessing \/ PopNothing \/ Destroy \/ Destroyed \/ UNCHANGED vars

LEMMA Pauses ==
  ASSUME TypeOK, Pausing
  PROVE  Pause
<1>t. /\ rel \in [Clients -> ReleasePC] /\ {processing, alive, aborted} \subseteq BOOLEAN
      /\ releases \in 0 .. MaxReleases /\ MaxReleases \in Nat
  BY SizeAssumption DEF TypeOK
<1>1. ASSUME NEW c \in Clients, ReleaseMount(c) PROVE Pause
  <2>1. releases' \in 0 .. MaxReleases
    BY <1>1, <1>t DEF ReleaseMount
  <2>2. rel' \in [Clients -> ReleasePC]
    BY <1>1, <1>t DEF ReleaseMount, StopCheck, GoRelease, ReleasePC
  <2>3. QED
    BY <1>1, <1>t, <2>1, <2>2 DEF ReleaseMount, StopCheck, itemVars, Pause
<1>2. ASSUME NEW c \in Clients, ReleaseMountStep(c) PROVE Pause
  BY <1>t, ControlTypes, <1>2 DEF ReleaseMountStep, itemVars, Pause
<1>3. ASSUME TestProcessing \/ PopNothing PROVE Pause
  BY <1>3, <1>t DEF TestProcessing, PopNothing, Test, PopEmpty, GoThread, controlVars, itemVars, Pause
<1>4. ASSUME Destroy \/ Destroyed PROVE Pause
  BY <1>4, <1>t DEF Destroy, Destroyed, DestroyClear, DestroyJoin, controlVars, itemVars, Pause
<1>5. ASSUME UNCHANGED vars PROVE Pause
  BY <1>5, <1>t DEF vars, threadVars, contextVars, controlVars, Pause
<1>6. QED
  BY <1>1, <1>2, <1>3, <1>4, <1>5 DEF Pausing

LEMMA SubmitCases ==
  ASSUME SubInv, NEW t \in Threads, SubmitStep(t)
  PROVE  RefusedCallback(t) \/ InitItem(t) \/ PushCalling(t)
<1>1. ~CorrectOp(t)
  BY DEF SubInv, Prepared, CorrectOp
<1>2. ASSUME PushItem(t) PROVE PushCalling(t)
  <2>1. sub[t].pc = "push"
    BY <1>2 DEF PushItem, GoSub
  <2>2. Entry[sub[t].fn].callback
    BY <2>1 DEF SubInv, Prepared, Asking
  <2>3. sub[t].fn # "writeFile"
    BY <2>2, EntryFacts
  <2>4. QED
    BY <1>2, <2>1, <2>2, <2>3 DEF PushItem, PushCalling, Return
<1>3. QED
  BY <1>1, <1>2 DEF SubmitStep

LEMMA StepCases ==
  ASSUME AllCallbacks, Typed, SubInv, [Next]_vars
  PROVE  \/ \E t \in Threads, f \in DOMAIN Entry, a \in Actions :
              Entry[f].callback /\ AllocItem(t, f, a)
         \/ \E t \in Threads : RefusedCallback(t) \/ InitItem(t) \/ PushCalling(t)
         \/ ThreadWorks
         \/ Pause
<1> DEFINE Goal ==
         \/ \E t \in Threads, f \in DOMAIN Entry, a \in Actions :
              Entry[f].callback /\ AllocItem(t, f, a)
         \/ \E t \in Threads : RefusedCallback(t) \/ InitItem(t) \/ PushCalling(t)
         \/ ThreadWorks
         \/ Pause
<1>t. /\ Clients \subseteq Threads /\ Worker \in Threads
      /\ \A c \in Clients : /\ client[c].mine = <<>> /\ client[c].pc = "idle"
                            /\ client[c].seen \in 0 .. Len(client[c].mine)
  BY DEF Typed, TypeOK, Threads
<1>m. \A c \in Clients : client[c].seen = 0 /\ Len(client[c].mine) = 0
  BY <1>t
<1>1. ASSUME NEW c \in Clients, Submit(c) PROVE Goal
  <2>1. PICK call \in Calls : \E a \in ActionsOf(Function(call)) : AllocItem(c, Function(call), a)
    BY <1>1 DEF Submit
  <2>2. Function(call) \in DOMAIN Entry /\ Entry[Function(call)].callback
    BY EntryFacts, AllCallbacks DEF AllCallbacks
  <2>3. QED
    BY <2>1, <2>2, <1>t, ActionsFacts
<1>2. ASSUME NEW c \in Clients, \/ Await(c) \/ SpuriousWake(c) \/ ClientFreeBuffer(c)
                                \/ ReleaseWorkItem(c) \/ AwaitTest(c)
      PROVE Goal
  <2>1. client[c].pc = "idle" /\ 1 .. client[c].seen = {} /\ client[c].seen + 1 .. Len(client[c].mine) = {}
    BY <1>t, <1>m
  <2>2. QED
    BY <1>2, <2>1 DEF Await, SpuriousWake, ClientFreeBuffer, ReleaseWorkItem, AwaitTest
<1>3. Pausing => Pause
  BY Pauses DEF Typed
<1>4. ASSUME NEW c \in Clients, ClientStep(c) PROVE Goal
  BY <1>2, <1>3, <1>4, <1>t, SubmitCases DEF ClientStep, Pausing
<1>5. ASSUME ThreadStep PROVE Goal
  <2>1. ~NotifyAll
    BY DEF NotifyAll, GoThread, Typed
  <2>2. QED
    BY <1>3, <1>5, <1>t, <2>1, SubmitCases DEF ThreadStep, ThreadWorks, Pausing
<1>6. ASSUME NEW t \in Threads, NestedSubmit(t) PROVE Goal
  <2>1. PICK f \in NestedCalls : \E a \in ActionsOf(f) : AllocItem(t, f, a)
    BY <1>6 DEF NestedSubmit
  <2>2. f \in DOMAIN Entry /\ Entry[f].callback
    BY CallsAssumption
  <2>3. QED
    BY <2>1, <2>2, <1>t, ActionsFacts
<1>7. QED
  BY <1>1, <1>2, <1>3, <1>4, <1>5, <1>6 DEF Next, Quiescent, Pausing

-----------------------------------------------------------------------------
(* Types.                                                                  *)

Item == [op : Operations, callback : BOOLEAN, action : Actions,
         allocator : BOOLEAN, buffer : {"null", "user", "heap"},
         completed : BOOLEAN, request : {0} \cup Requests]

Call == [pc : {"none", "init", "push", "correct", "refused", "answered"},
         fn : DOMAIN Entry \cup {Null}, action : Actions \cup {Null},
         request : {0} \cup Requests, slot : Slots \cup {Null}]

LEMMA CallInit == Init => CallInv
<1> SUFFICES ASSUME Init PROVE CallInv
  OBVIOUS
<1> USE DEF Init, ControlInit
<1>c. Constructed \in Item
  BY EntryFacts DEF Constructed, Item, Actions
<1>n. NotSubmitting \in Call
  BY DEF NotSubmitting, Call
<1>p. Len(<<>>) = 0 /\ PoolSize \in Nat \ {0} /\ Capacity \in Nat \ {0} /\ MaxRequests \in Nat /\ MaxReleases \in Nat
  BY SizeAssumption
<1>1. Typed
  <2>1. TypeOK
    <3>1. work \in [Slots -> Item]
      BY <1>c
    <3>2. sub \in [Threads -> Call]
      BY <1>n
    <3>3. /\ client \in [Clients -> [pc : {"idle", "await", "blocked"},
                             mine : Seq(Slots), seen : 0 .. PoolSize, target : 0 .. PoolSize]]
          /\ \A c \in Clients : {client[c].seen, client[c].target} \subseteq 0 .. Len(client[c].mine)
      BY <1>p
    <3>4. queue \in Seq(Slots) /\ Len(queue) <= Capacity /\ log \in Seq(Records) /\ Len(log) <= MaxRequests
      BY <1>p
    <3>5. avail \subseteq Slots /\ cur = Null /\ tpc = "loop" /\ asked \subseteq Operations
          /\ releases \in 0 .. MaxReleases
      BY <1>p
    <3>6. /\ rel \in [Clients -> ReleasePC]
          /\ {processing, alive, aborted, crashed} \subseteq BOOLEAN
      BY DEF ReleasePC
    <3> HIDE DEF Init, ControlInit
    <3>7. QED
      BY <3>1, <3>2, <3>3, <3>4, <3>5, <3>6 DEF TypeOK, Item, Call, ReleasePC
  <2>2. QED
    BY <2>1 DEF Typed
<1>2. SubInv
  BY DEF SubInv, Prepared, NotSubmitting, Asking, Busy
<1>3. SlotInv
  BY NullAssumption DEF SlotInv, NotSubmitting, Busy, Slots
<1>4. FilledInv
  BY DEF FilledInv
<1>5. ReqInv
  BY DEF ReqInv, Asking, NotSubmitting
<1>6. LogInv
  BY DEF LogInv, Busy, NotSubmitting
<1>7. QED
  BY <1>1, <1>2, <1>3, <1>4, <1>5, <1>6 DEF CallInv

\* A step that changes nothing but what a submission may change keeps the types.
LEMMA TypedAlloc ==
  ASSUME Typed, NEW t \in Threads, NEW f \in DOMAIN Entry, NEW a \in Actions, AllocItem(t, f, a)
  PROVE  Typed'
<1>s. /\ work \in [Slots -> Item] /\ sub \in [Threads -> Call] /\ avail \subseteq Slots
      /\ log \in Seq(Records) /\ Len(log) < MaxRequests /\ MaxRequests \in Nat
  BY SizeAssumption DEF Typed, TypeOK, Item, Call, AllocItem
<1>1. log' \in Seq(Records) /\ Len(log') <= MaxRequests
  <2>1. [fn |-> f, refused |-> avail = {}, done |-> FALSE, called |-> 0, heap |-> FALSE] \in Records
    BY DEF Records
  <2>2. QED
    BY <1>s, <2>1 DEF AllocItem
<1>2. work' \in [Slots -> Item]
  <2>1. Constructed \in Item
    BY EntryFacts DEF Constructed, Item, Actions
  <2>2. QED
    BY <1>s, <2>1 DEF AllocItem
<1>3. sub' \in [Threads -> Call]
  <2>1. Len(log) + 1 \in Requests
    BY <1>s DEF Requests
  <2>2. \A pc \in {"init", "refused"}, s \in Slots \cup {Null} :
          [pc |-> pc, fn |-> f, action |-> a, request |-> Len(log) + 1, slot |-> s] \in Call
    BY <2>1 DEF Call
  <2>3. NotSubmitting \in Call
    BY DEF NotSubmitting, Call
  <2>4. ASSUME NEW call \in Call, sub' = [sub EXCEPT ![t] = call]
        PROVE  sub' \in [Threads -> Call]
    BY <1>s, <2>4
  <2>5. CASE avail # {}
    <3>1. PICK s \in avail : sub' = [sub EXCEPT ![t] =
            [pc |-> "init", fn |-> f, action |-> a, request |-> Len(log) + 1, slot |-> s]]
      BY <2>5 DEF AllocItem
    <3>2. s \in Slots
      BY <1>s, <3>1
    <3>3. QED
      BY <2>2, <2>4, <3>1, <3>2
  <2>6. CASE avail = {}
    <3>1. sub' = [sub EXCEPT ![t] = IF Entry[f].callback
            THEN [pc |-> "refused", fn |-> f, action |-> a, request |-> Len(log) + 1, slot |-> Null]
            ELSE NotSubmitting]
      BY <2>6 DEF AllocItem
    <3>2. QED
      BY <2>2, <2>3, <2>4, <3>1
  <2>7. QED
    BY <2>5, <2>6
<1>4. avail' \subseteq Slots
  BY <1>s DEF AllocItem, TakeSlot
<1>5. UNCHANGED <<queue, client, tpc, cur, asked, processing, alive, rel, aborted, releases, crashed>>
  BY DEF AllocItem, threadVars, contextVars, controlVars
<1>6. QED
  BY <1>1, <1>2, <1>3, <1>4, <1>5 DEF Typed, TypeOK, Item, Call

LEMMA TypedSubmit ==
  ASSUME Typed, SubInv, LogInv, NEW t \in Threads,
         RefusedCallback(t) \/ InitItem(t) \/ PushCalling(t)
  PROVE  Typed'
<1>s. /\ work \in [Slots -> Item] /\ sub \in [Threads -> Call] /\ log \in Seq(Records)
      /\ Len(log) <= MaxRequests /\ queue \in Seq(Slots) /\ Capacity \in Nat
  BY SizeAssumption DEF Typed, TypeOK, Item, Call
<1>n. NotSubmitting \in Call /\ Answered \in Call
  BY DEF NotSubmitting, Answered, Call
<1>1. CASE RefusedCallback(t)
  <2>1. sub[t].request \in DOMAIN log /\ log[sub[t].request].called = 0
    BY <1>1 DEF RefusedCallback, SubInv, Prepared, LogInv, Asking
  <2>2. [log[sub[t].request] EXCEPT !.called = @ + 1] \in Records
    <3>1. log[sub[t].request] \in Records
      BY <1>s, <2>1
    <3>2. log[sub[t].request].called + 1 \in 0 .. 2
      BY <2>1
    <3>3. QED
      BY <3>1, <3>2 DEF Records
  <2>3. log' \in Seq(Records) /\ Len(log') = Len(log)
    BY <1>1, <1>s, <2>1, <2>2 DEF RefusedCallback
  <2>4. sub' \in [Threads -> Call]
    BY <1>1, <1>s, <1>n DEF RefusedCallback
  <2>5. UNCHANGED <<avail, work, queue, client, tpc, cur, asked, processing, alive, rel, aborted, releases, crashed>>
    BY <1>1 DEF RefusedCallback, threadVars, contextVars, controlVars
  <2>6. QED
    BY <1>s, <2>3, <2>4, <2>5 DEF Typed, TypeOK, Item, Call
<1>2. CASE InitItem(t)
  <2>1. /\ sub[t].slot \in Slots /\ sub[t].action \in Actions /\ sub[t].fn \in DOMAIN Entry
        /\ sub[t].request \in {0} \cup Requests
    BY <1>2, <1>s DEF InitItem, GoSub, SubInv, Prepared, Busy, Asking, Call
  <2>2. work' \in [Slots -> Item]
    BY <1>2, <1>s, <2>1, EntryFacts DEF InitItem, Item
  <2>3. sub' \in [Threads -> Call]
    BY <1>2, <1>s DEF InitItem, GoSub, Call
  <2>4. UNCHANGED <<avail, queue, client, tpc, cur, asked, processing, alive, rel, aborted, releases, crashed, log>>
    BY <1>2 DEF InitItem, threadVars, contextVars, controlVars
  <2>5. QED
    BY <2>2, <2>3, <2>4 DEF Typed, TypeOK, Item, Call
<1>3. CASE PushCalling(t)
  <2>1. sub[t].slot \in Slots
    BY <1>3 DEF PushCalling, SubInv, Prepared, Busy
  <2>2. queue' \in Seq(Slots) /\ Len(queue') <= Capacity
    BY <1>3, <1>s, <2>1 DEF PushCalling, Room
  <2>3. sub' \in [Threads -> Call]
    BY <1>3, <1>s, <1>n DEF PushCalling
  <2>4. UNCHANGED <<avail, work, client, tpc, cur, asked, processing, alive, rel, aborted, releases, crashed, log>>
    BY <1>3 DEF PushCalling, threadVars, contextVars, controlVars
  <2>5. QED
    BY <2>2, <2>3, <2>4 DEF Typed, TypeOK, Item, Call
<1>4. QED
  BY <1>1, <1>2, <1>3

LEMMA TypedPause ==
  ASSUME Typed, Pause
  PROVE  Typed'
BY DEF Typed, TypeOK, Pause, ReleasePC

LEMMA TypedWorks ==
  ASSUME Typed, FilledInv, LogInv, ThreadWorks
  PROVE  Typed'
<1> DEFINE r == work[cur].request
<1>s. /\ work \in [Slots -> Item] /\ log \in Seq(Records)
      /\ Len(log) <= MaxRequests /\ queue \in Seq(Slots) /\ Len(queue) <= Capacity
      /\ Capacity \in Nat /\ avail \subseteq Slots /\ cur \in Slots \cup {Null} /\ Null \notin Slots
      /\ (cur = Null <=> tpc \in {"loop", "pop", "exited", "joined"})
      /\ asked \subseteq Operations
  BY SizeAssumption, NullAssumption DEF Typed, TypeOK, Item, Slots
<1>u. cur # Null => /\ r \in DOMAIN log /\ log[r] \in Records /\ work[cur].callback /\ cur \in Slots
                    /\ work[cur] \in Item
  BY <1>s DEF FilledInv
<1> HIDE DEF r
<1>1. CASE PopItem
  <2>1. queue' \in Seq(Slots) /\ Len(queue') <= Capacity /\ cur' \in Slots /\ cur' # Null
    BY <1>1, <1>s, PopFacts DEF PopItem, First
  <2>2. UNCHANGED <<avail, work, sub, client, asked, processing, alive, rel, aborted, releases, crashed, log>>
    BY <1>1 DEF PopItem, contextVars, controlVars
  <2>3. tpc' = "find"
    BY <1>1 DEF PopItem, GoThread
  <2>4. QED
    BY <2>1, <2>2, <2>3 DEF Typed, TypeOK
<1>2. CASE FindMount \/ Choose
  <2>1. UNCHANGED <<avail, work, queue, sub, client, cur, processing, alive, rel, aborted, releases, crashed, log>>
    BY <1>2 DEF FindMount, Choose, contextVars, controlVars
  <2>2. cur # Null /\ tpc' \in {"device", "callback"} /\ asked' \subseteq Operations
    BY <1>2, <1>s, <1>u DEF FindMount, Choose, GoThread, Item
  <2>3. QED
    BY <2>1, <2>2 DEF Typed, TypeOK
<1>3. CASE RunOperation
  <2>1. cur # Null /\ tpc' = "complete"
    BY <1>3, <1>s DEF RunOperation, GoThread
  <2>2. PICK heap \in BOOLEAN :
          /\ work' = IF heap THEN [work EXCEPT ![cur].buffer = "heap"] ELSE work
          /\ log' = [log EXCEPT ![r].heap = heap]
    BY <1>3 DEF RunOperation, r
  <2>3. work' \in [Slots -> Item]
    BY <1>s, <2>2, ZenonT(30) DEF Item
  <2>4. [log[r] EXCEPT !.heap = heap] \in Records
    BY <1>u, <2>1 DEF Records
  <2>5. log' \in Seq(Records) /\ Len(log') <= MaxRequests
    BY <1>s, <1>u, <2>1, <2>2, <2>4, UpdateFacts
  <2>6. asked' \subseteq Operations
    BY <1>3, <1>s, <1>u, <2>1 DEF RunOperation, Item
  <2>7. UNCHANGED <<avail, queue, sub, client, cur, processing, alive, rel, aborted, releases, crashed>>
    BY <1>3 DEF RunOperation, contextVars, controlVars
  <2>8. QED
    BY <2>1, <2>3, <2>5, <2>6, <2>7 DEF Typed, TypeOK, Item
<1>4. CASE Complete
  <2>1. cur # Null /\ tpc' = "choose"
    BY <1>4, <1>s DEF Complete, GoThread
  <2>2. work' \in [Slots -> Item]
    BY <1>4, <1>s, ZenonT(30) DEF Complete, Completes, Item
  <2>3. [log[r] EXCEPT !.done = TRUE] \in Records
    BY <1>u, <2>1 DEF Records
  <2>4. log' \in Seq(Records) /\ Len(log') <= MaxRequests
    BY <1>4, <1>s, <1>u, <2>1, <2>3, UpdateFacts DEF Complete, Completes, r
  <2>5. UNCHANGED <<avail, queue, sub, client, cur, processing, alive, rel, aborted, releases, crashed>> /\ asked' = {}
    BY <1>4 DEF Complete, contextVars, controlVars
  <2>6. QED
    BY <2>1, <2>2, <2>4, <2>5 DEF Typed, TypeOK, Item
<1>5. CASE Callback
  <2>1. cur # Null /\ tpc' = "called" /\ log[r].called = 0
    BY <1>5, <1>s DEF Callback, GoThread, LogInv, r
  <2>2. [log[r] EXCEPT !.called = @ + 1] \in Records
    <3>1. log[r].called + 1 \in 0 .. 2
      BY <2>1
    <3>2. QED
      BY <1>u, <2>1, <3>1 DEF Records
  <2>3. log' \in Seq(Records) /\ Len(log') <= MaxRequests
    BY <1>5, <1>s, <1>u, <2>1, <2>2, UpdateFacts DEF Callback, r
  <2>4. UNCHANGED <<avail, work, queue, sub, client, cur, asked, processing, alive, rel, aborted, releases, crashed>>
    BY <1>5 DEF Callback, contextVars, controlVars
  <2>5. QED
    BY <2>1, <2>3, <2>4 DEF Typed, TypeOK
<1>6. CASE CallbackReturns
  <2>1. cur # Null /\ tpc' \in {"free", "release"}
    BY <1>6, <1>s DEF CallbackReturns, GoThread
  <2>2. [log[r] EXCEPT !.heap = @ /\ work[cur].action = "LFS_FREE_BUFFER"] \in Records
    <3>1. (log[r].heap /\ work[cur].action = "LFS_FREE_BUFFER") \in BOOLEAN
      OBVIOUS
    <3>2. QED
      BY <1>u, <2>1, <3>1 DEF Records
  <2>3. log' \in Seq(Records) /\ Len(log') <= MaxRequests
    BY <1>6, <1>s, <1>u, <2>1, <2>2, UpdateFacts DEF CallbackReturns, r
  <2>4. UNCHANGED <<avail, work, queue, sub, client, cur, asked, processing, alive, rel, aborted, releases, crashed>>
    BY <1>6 DEF CallbackReturns, contextVars, controlVars
  <2>5. QED
    BY <2>1, <2>3, <2>4 DEF Typed, TypeOK
<1>7. CASE ThreadFreeBuffer
  <2>1. cur # Null /\ tpc' = "release"
    BY <1>7, <1>s DEF ThreadFreeBuffer, GoThread
  <2>2. work' \in [Slots -> Item]
    BY <1>7, <1>s, <1>u, <2>1 DEF ThreadFreeBuffer, FreeBuffer, Freed, Item
  <2>3. [log[r] EXCEPT !.heap = FALSE] \in Records
    BY <1>u, <2>1 DEF Records
  <2>4. log' \in Seq(Records) /\ Len(log') <= MaxRequests
    BY <1>7, <1>s, <1>u, <2>1, <2>3, UpdateFacts DEF ThreadFreeBuffer, FreeBuffer, r
  <2>5. crashed' \in BOOLEAN
    BY <1>7 DEF ThreadFreeBuffer, FreeBuffer
  <2>6. UNCHANGED <<avail, queue, sub, client, cur, asked, processing, alive, rel, aborted, releases>>
    BY <1>7 DEF ThreadFreeBuffer, contextVars, controlVars
  <2>7. QED
    BY <2>1, <2>2, <2>4, <2>5, <2>6 DEF Typed, TypeOK, Item
<1>8. CASE ThreadRelease
  <2>1. cur # Null /\ cur' = Null /\ tpc' = "loop" /\ avail' \subseteq Slots
    BY <1>8, <1>s DEF ThreadRelease, GoThread, Returned
  <2>2. UNCHANGED <<work, queue, sub, client, asked, processing, alive, rel, aborted, releases, crashed, log>>
    BY <1>8 DEF ThreadRelease, contextVars, controlVars
  <2>3. QED
    BY <2>1, <2>2 DEF Typed, TypeOK
<1>9. QED
  BY <1>1, <1>2, <1>3, <1>4, <1>5, <1>6, <1>7, <1>8 DEF ThreadWorks

LEMMA TypedStep ==
  ASSUME AllCallbacks, CallInv, [Next]_vars
  PROVE  Typed'
BY StepCases, TypedAlloc, TypedSubmit, TypedWorks, TypedPause DEF CallInv

-----------------------------------------------------------------------------
(* What the steps change and leave alone.                                  *)

LEMMA AllocFrame ==
  ASSUME Typed, NEW t \in Threads, NEW f \in DOMAIN Entry, NEW a \in Actions,
         Entry[f].callback, AllocItem(t, f, a)
  PROVE  /\ sub[t].pc \in {"none", "answered"} /\ UNCHANGED <<queue, cur, tpc>>
         /\ Len(log) + 1 \notin DOMAIN log /\ DOMAIN log' = DOMAIN log \cup {Len(log) + 1}
         /\ \A r \in DOMAIN log : log'[r] = log[r]
         /\ log'[Len(log) + 1] =
              [fn |-> f, refused |-> avail = {}, done |-> FALSE, called |-> 0, heap |-> FALSE]
         /\ \A u \in Threads : u # t => sub'[u] = sub[u]
         /\ sub'[t].request = Len(log) + 1 /\ sub'[t].fn = f /\ sub'[t].action = a
         /\ \/ \E s \in avail : /\ avail' = avail \ {s}
                                /\ sub'[t].pc = "init" /\ sub'[t].slot = s
                                /\ \A x \in Slots : x # s => work'[x] = work[x]
            \/ avail = {} /\ sub'[t].pc = "refused" /\ UNCHANGED <<avail, work>>
<1>s. /\ work \in [Slots -> Item] /\ sub \in [Threads -> Call] /\ log \in Seq(Records)
      /\ Len(log) \in Nat
  BY DEF Typed, TypeOK, Item, Call
<1> DEFINE e == [fn |-> f, refused |-> avail = {}, done |-> FALSE, called |-> 0, heap |-> FALSE]
<1>1. e \in Records
  BY DEF Records
<1>2. log' = Append(log, e)
  BY DEF AllocItem
<1> HIDE DEF e
<1>3. /\ Len(log) + 1 \notin DOMAIN log /\ DOMAIN log' = DOMAIN log \cup {Len(log) + 1}
      /\ \A r \in DOMAIN log : log'[r] = log[r]
      /\ log'[Len(log) + 1] = e
  BY <1>s, <1>1, <1>2
<1>4. sub[t].pc \in {"none", "answered"} /\ UNCHANGED <<queue, cur, tpc>>
  BY DEF AllocItem, Ready, NotSubmitting, Answered, threadVars
<1>5. /\ \A u \in Threads : u # t => sub'[u] = sub[u]
      /\ sub'[t].request = Len(log) + 1 /\ sub'[t].fn = f /\ sub'[t].action = a
      /\ \/ \E s \in avail : /\ avail' = avail \ {s}
                             /\ sub'[t].pc = "init" /\ sub'[t].slot = s
                             /\ \A x \in Slots : x # s => work'[x] = work[x]
         \/ avail = {} /\ sub'[t].pc = "refused" /\ UNCHANGED <<avail, work>>
  BY <1>s, SMTT(30) DEF AllocItem, TakeSlot
<1>6. QED
  BY <1>3, <1>4, <1>5 DEF e

\* The thread takes an item, returns one, or goes on with the one it has.
LEMMA WorksFrame ==
  ASSUME Typed, FilledInv, ThreadWorks
  PROVE  /\ sub' = sub /\ DOMAIN log' = DOMAIN log
         /\ \A s \in Slots : /\ work'[s].callback = work[s].callback
                             /\ work'[s].request = work[s].request
         /\ \A r \in DOMAIN log : log'[r].fn = log[r].fn /\ log'[r].refused = log[r].refused
         /\ \/ /\ cur = Null /\ queue # <<>> /\ cur' = queue[1] /\ queue' = RemoveAt(queue, 1)
               /\ avail' = avail
            \/ /\ cur \in Slots /\ cur' = Null /\ queue' = queue
               /\ avail' = avail \cup {cur}
            \/ cur \in Slots /\ UNCHANGED <<avail, queue, cur>>
<1>s. /\ work \in [Slots -> Item] /\ log \in Seq(Records)
      /\ cur \in Slots \cup {Null} /\ Null \notin Slots
      /\ (cur = Null <=> tpc \in {"loop", "pop", "exited", "joined"})
  BY NullAssumption DEF Typed, TypeOK, Item, Slots
<1>u. cur # Null => work[cur].request \in DOMAIN log
  BY DEF FilledInv
<1>1. CASE PopItem
  BY <1>1, <1>s DEF PopItem, GoThread, First
<1>2. CASE FindMount \/ Choose
  BY <1>2, <1>s DEF FindMount, Choose, GoThread
<1>3. CASE RunOperation
  BY <1>3, <1>s, <1>u DEF RunOperation, GoThread, Item, Records
<1>4. CASE Complete
  BY <1>4, <1>s, <1>u DEF Complete, GoThread, Item, Records
<1>5. CASE Callback
  BY <1>5, <1>s, <1>u DEF Callback, GoThread, Records
<1>6. CASE CallbackReturns
  BY <1>6, <1>s, <1>u DEF CallbackReturns, GoThread, Records
<1>7. CASE ThreadFreeBuffer
  BY <1>7, <1>s, <1>u DEF ThreadFreeBuffer, FreeBuffer, GoThread, Item, Records
<1>8. CASE ThreadRelease
  BY <1>8, <1>s DEF ThreadRelease, GoThread, Returned
<1>9. QED
  BY <1>1, <1>2, <1>3, <1>4, <1>5, <1>6, <1>7, <1>8 DEF ThreadWorks

\* A thread gets on with its submission.
LEMMA SubmitFrame ==
  ASSUME Typed, SubInv, NEW t \in Threads,
         RefusedCallback(t) \/ InitItem(t) \/ PushCalling(t)
  PROVE  /\ UNCHANGED <<avail, cur, tpc>>
         /\ \A u \in Threads : u # t => sub'[u] = sub[u]
         /\ DOMAIN log' = DOMAIN log
         /\ \/ /\ sub[t].pc = "refused" /\ sub'[t].pc \in {"none", "answered"} /\ UNCHANGED <<work, queue>>
               /\ log' = [log EXCEPT ![sub[t].request].called = @ + 1]
            \/ /\ sub[t].pc = "init" /\ sub'[t].pc = "push" /\ UNCHANGED <<queue, log>>
               /\ sub'[t].slot = sub[t].slot /\ sub'[t].request = sub[t].request
               /\ sub'[t].fn = sub[t].fn /\ sub'[t].action = sub[t].action
               /\ work'[sub[t].slot].callback = Entry[sub[t].fn].callback
               /\ work'[sub[t].slot].request = sub[t].request
               /\ \A s \in Slots : s # sub[t].slot => work'[s] = work[s]
            \/ /\ sub[t].pc = "push" /\ sub'[t].pc \in {"none", "answered"} /\ UNCHANGED <<work, log>>
               /\ queue' = Append(queue, sub[t].slot)
<1>s. work \in [Slots -> Item] /\ sub \in [Threads -> Call] /\ log \in Seq(Records)
  BY DEF Typed, TypeOK, Item, Call
<1>1. CASE RefusedCallback(t)
  BY <1>1, <1>s DEF RefusedCallback, NotSubmitting, Answered, threadVars
<1>2. CASE InitItem(t)
  <2>1. sub[t].pc = "init" /\ sub[t].slot \in Slots
    BY <1>2 DEF InitItem, GoSub, SubInv, Prepared, Busy
  <2>2. QED
    BY <1>2, <1>s, <2>1 DEF InitItem, GoSub, threadVars, Call
<1>3. CASE PushCalling(t)
  BY <1>3, <1>s DEF PushCalling, NotSubmitting, threadVars
<1>4. QED
  BY <1>1, <1>2, <1>3

-----------------------------------------------------------------------------
(* The steps keep the invariant.                                           *)

LEMMA SubStep ==
  ASSUME AllCallbacks, CallInv, [Next]_vars
  PROVE  SubInv'
<1> USE DEF CallInv
<1>t. avail \subseteq Slots
  BY DEF Typed, TypeOK
<1>1. ASSUME NEW t \in Threads, NEW f \in DOMAIN Entry, NEW a \in Actions,
             Entry[f].callback, AllocItem(t, f, a)
      PROVE  SubInv'
  <2>a. \/ \E s \in avail : /\ avail' = avail \ {s}
                            /\ sub'[t].pc = "init" /\ sub'[t].slot = s
                            /\ \A x \in Slots : x # s => work'[x] = work[x]
        \/ avail = {} /\ sub'[t].pc = "refused" /\ UNCHANGED <<avail, work>>
    BY <1>1, AllocFrame
  <2>1. ASSUME NEW u \in Threads, u # t PROVE Prepared(u)'
    <3>1. sub'[u] = sub[u] /\ DOMAIN log \subseteq DOMAIN log' /\ Prepared(u)
      BY <1>1, <2>1, AllocFrame DEF SubInv
    <3>2. \A x \in Slots \ avail : x \notin avail' /\ work'[x] = work[x]
      BY <2>a
    <3>3. QED
      BY <3>1, <3>2 DEF Prepared, Busy, Asking
  <2>2. Prepared(t)'
    <3>1. /\ sub'[t].request \in DOMAIN log' /\ sub'[t].fn = f /\ sub'[t].action = a
          /\ \/ sub'[t].pc = "refused"
             \/ sub'[t].pc = "init" /\ sub'[t].slot \in Slots \ avail'
      <4>1. sub'[t].request \in DOMAIN log' /\ sub'[t].fn = f /\ sub'[t].action = a
        BY <1>1, AllocFrame
      <4>2. QED
        BY <1>t, <2>a, <4>1
    <3>2. QED
      BY <1>1, <3>1 DEF Prepared, Busy, Asking
  <2>3. QED
    BY <2>1, <2>2 DEF SubInv
<1>2. ASSUME NEW t \in Threads, RefusedCallback(t) \/ InitItem(t) \/ PushCalling(t)
      PROVE  SubInv'
  <2>1. ASSUME NEW u \in Threads, u # t PROVE Prepared(u)'
    <3>1. sub'[u] = sub[u] /\ DOMAIN log' = DOMAIN log /\ avail' = avail /\ Prepared(u)
      BY <1>2, <2>1, SubmitFrame DEF SubInv
    <3>2. \/ work' = work
          \/ sub[t].pc = "init" /\ \A s \in Slots : s # sub[t].slot => work'[s] = work[s]
      BY <1>2, SubmitFrame
    <3>3. Busy(u) => work'[sub[u].slot] = work[sub[u].slot]
      BY <2>1, <3>1, <3>2 DEF SlotInv, Busy, Prepared
    <3>4. QED
      BY <3>1, <3>3 DEF Prepared, Busy, Asking
  <2>2. Prepared(t)'
    BY <1>2, SubmitFrame DEF SubInv, Prepared, Busy, Asking
  <2>3. QED
    BY <2>1, <2>2 DEF SubInv
<1>3. ASSUME ThreadWorks PROVE SubInv'
  <2>1. ASSUME NEW u \in Threads PROVE Prepared(u)'
    BY <1>3, <2>1, WorksFrame DEF SubInv, Prepared, SlotInv, Busy, Asking
  <2>2. QED
    BY <2>1 DEF SubInv
<1>4. ASSUME Pause PROVE SubInv'
  BY <1>4 DEF Pause, SubInv, Prepared, Busy, Asking
<1>5. QED
  BY <1>1, <1>2, <1>3, <1>4, StepCases

LEMMA SlotStep ==
  ASSUME AllCallbacks, CallInv, [Next]_vars
  PROVE  SlotInv'
<1> USE DEF CallInv
<1>t. /\ avail \subseteq Slots /\ queue \in Seq(Slots) /\ cur \in Slots \cup {Null} /\ Null \notin Slots
      /\ \A i \in DOMAIN queue : queue[i] \in Slots
  <2>1. /\ avail \subseteq Slots /\ queue \in Seq(Slots) /\ cur \in Slots \cup {Null}
    BY DEF Typed, TypeOK
  <2>2. Null \notin Slots
    BY NullAssumption DEF Slots
  <2>3. QED
    BY <2>1, <2>2
<1>1. ASSUME NEW t \in Threads, NEW f \in DOMAIN Entry, NEW a \in Actions,
             Entry[f].callback, AllocItem(t, f, a)
      PROVE  SlotInv'
  <2>1. /\ sub[t].pc \in {"none", "answered"} /\ UNCHANGED <<queue, cur>>
        /\ \A u \in Threads : u # t => sub'[u] = sub[u]
    BY <1>1, AllocFrame
  <2>2. CASE \E s \in avail : avail' = avail \ {s} /\ sub'[t].pc = "init" /\ sub'[t].slot = s
    BY <1>t, <2>1, <2>2 DEF SlotInv, SubInv, Prepared, Busy
  <2>3. CASE sub'[t].pc = "refused" /\ avail' = avail
    BY <1>t, <2>1, <2>3 DEF SlotInv, Busy
  <2>4. QED
    BY <1>1, <2>2, <2>3, AllocFrame
<1>2. ASSUME NEW t \in Threads, RefusedCallback(t) \/ InitItem(t) \/ PushCalling(t)
      PROVE  SlotInv'
  <2>1. /\ UNCHANGED <<avail, cur>>
        /\ \A u \in Threads : u # t => sub'[u] = sub[u]
    BY <1>2, SubmitFrame
  <2>2. CASE sub[t].pc = "refused" /\ sub'[t].pc \in {"none", "answered"} /\ queue' = queue
    BY <2>1, <2>2 DEF SlotInv, Busy
  <2>3. CASE /\ sub[t].pc = "init" /\ sub'[t].pc = "push" /\ queue' = queue
             /\ sub'[t].slot = sub[t].slot
    BY <2>1, <2>3 DEF SlotInv, Busy
  <2>4. CASE sub[t].pc = "push" /\ sub'[t].pc \in {"none", "answered"} /\ queue' = Append(queue, sub[t].slot)
    <3>1. Busy(t) /\ ~Busy(t)' /\ sub[t].slot \in Slots \ avail
      BY <2>4 DEF Busy, SubInv, Prepared
    <3>2. /\ DOMAIN queue' = DOMAIN queue \cup {Len(queue) + 1} /\ Len(queue) + 1 \notin DOMAIN queue
          /\ queue'[Len(queue) + 1] = sub[t].slot
          /\ \A i \in DOMAIN queue : queue'[i] = queue[i]
      BY <1>t, <2>4, <3>1
    <3>3. \A u \in Threads : Busy(u)' => Busy(u) /\ u # t /\ sub'[u] = sub[u]
      BY <2>1, <3>1 DEF Busy
    <3>4. \A u \in Threads : Busy(u) /\ u # t => Busy(u)' /\ sub'[u] = sub[u]
      BY <2>1 DEF Busy
    <3>5. \A s \in Slots : \/ s \in avail' \/ s = cur'
                           \/ \E u \in Threads : Busy(u)' /\ sub'[u].slot = s
                           \/ \E i \in DOMAIN queue' : queue'[i] = s
      BY <2>1, <3>1, <3>2, <3>4 DEF SlotInv
    <3>6. /\ cur' \notin avail'
          /\ \A u \in Threads : Busy(u)' => sub'[u].slot # cur'
          /\ \A u, v \in Threads : Busy(u)' /\ Busy(v)' /\ sub'[u].slot = sub'[v].slot => u = v
      BY <2>1, <3>3 DEF SlotInv
    <3>7. /\ \A i \in DOMAIN queue' : queue'[i] \notin avail' /\ queue'[i] # cur'
          /\ \A i \in DOMAIN queue', u \in Threads : Busy(u)' => queue'[i] # sub'[u].slot
          /\ \A i, j \in DOMAIN queue' : queue'[i] = queue'[j] => i = j
      BY <2>1, <3>1, <3>2, <3>3 DEF SlotInv
    <3>8. QED
      BY <3>5, <3>6, <3>7 DEF SlotInv
  <2>5. QED
    BY <1>2, <2>2, <2>3, <2>4, SubmitFrame
<1>3. ASSUME ThreadWorks PROVE SlotInv'
  <2>1. sub' = sub
    BY <1>3, WorksFrame
  <2>2. CASE /\ cur = Null /\ queue # <<>> /\ cur' = queue[1] /\ queue' = RemoveAt(queue, 1)
             /\ avail' = avail
    <3>1. /\ DOMAIN queue' = 1 .. Len(queue) - 1 /\ DOMAIN queue = 1 .. Len(queue)
          /\ \A i \in DOMAIN queue' : queue'[i] = queue[i + 1] /\ i + 1 \in DOMAIN queue /\ i + 1 # 1
          /\ Len(queue) \in Nat /\ 1 \in DOMAIN queue
      BY <1>t, <2>2, PopFacts
    <3>2. \A i \in DOMAIN queue : i = 1 \/ (i - 1 \in DOMAIN queue' /\ queue'[i - 1] = queue[i])
      BY <3>1
    <3>3. \A i, j \in DOMAIN queue' : i + 1 = j + 1 => i = j
      BY <3>1
    <3>4. \A s \in Slots : \/ s \in avail' \/ s = cur'
                           \/ \E u \in Threads : Busy(u)' /\ sub'[u].slot = s
                           \/ \E i \in DOMAIN queue' : queue'[i] = s
      <4>1. SUFFICES ASSUME NEW s \in Slots, NEW i \in DOMAIN queue, queue[i] = s
                     PROVE  s = cur' \/ \E j \in DOMAIN queue' : queue'[j] = s
        BY <1>t, <2>1, <2>2 DEF SlotInv, Busy
      <4>2. QED
        BY <2>2, <3>2, <4>1
    <3>5. /\ cur' \notin avail'
          /\ \A u \in Threads : Busy(u)' => sub'[u].slot # cur'
          /\ \A u, v \in Threads : Busy(u)' /\ Busy(v)' /\ sub'[u].slot = sub'[v].slot => u = v
      BY <2>1, <2>2, <3>1 DEF SlotInv, Busy
    <3>6. \A i \in DOMAIN queue' : queue'[i] \notin avail' /\ queue'[i] # cur'
      BY <2>2, <3>1 DEF SlotInv
    <3>7. \A i \in DOMAIN queue', u \in Threads : Busy(u)' => queue'[i] # sub'[u].slot
      BY <2>1, <3>1 DEF SlotInv, Busy
    <3>8. \A i, j \in DOMAIN queue' : queue'[i] = queue'[j] => i = j
      BY <3>1, <3>3 DEF SlotInv
    <3>9. QED
      BY <3>4, <3>5, <3>6, <3>7, <3>8 DEF SlotInv
  <2>3. CASE cur \in Slots /\ cur' = Null /\ queue' = queue /\ avail' = avail \cup {cur}
    BY <1>t, <2>1, <2>3 DEF SlotInv, SubInv, Prepared, Busy
  <2>4. CASE UNCHANGED <<avail, queue, cur>>
    BY <2>1, <2>4 DEF SlotInv, Busy
  <2>5. QED
    BY <1>3, <2>2, <2>3, <2>4, WorksFrame
<1>4. ASSUME Pause PROVE SlotInv'
  BY <1>4 DEF Pause, SlotInv, Busy
<1>5. QED
  BY <1>1, <1>2, <1>3, <1>4, StepCases

\* Requests and the callback of the items in the queue and in hand do not
\* change while they are there.
LEMMA ItemsStay ==
  ASSUME AllCallbacks, CallInv, [Next]_vars
  PROVE  /\ \A i \in DOMAIN queue : /\ work'[queue[i]].callback = work[queue[i]].callback
                                    /\ work'[queue[i]].request = work[queue[i]].request
         /\ cur # Null => /\ work'[cur].callback = work[cur].callback
                          /\ work'[cur].request = work[cur].request
         /\ DOMAIN log \subseteq DOMAIN log'
<1> USE DEF CallInv
<1>t. cur \in Slots \cup {Null} /\ \A i \in DOMAIN queue : queue[i] \in Slots
  BY DEF Typed, TypeOK
<1>1. ASSUME NEW t \in Threads, NEW f \in DOMAIN Entry, NEW a \in Actions,
             Entry[f].callback, AllocItem(t, f, a)
      PROVE  DOMAIN log \subseteq DOMAIN log' /\ \A s \in Slots \ avail : work'[s] = work[s]
  <2>1. \/ \E s \in avail : /\ avail' = avail \ {s}
                            /\ sub'[t].pc = "init" /\ sub'[t].slot = s
                            /\ \A x \in Slots : x # s => work'[x] = work[x]
        \/ avail = {} /\ sub'[t].pc = "refused" /\ UNCHANGED <<avail, work>>
    BY <1>1, AllocFrame
  <2>2. DOMAIN log \subseteq DOMAIN log'
    BY <1>1, AllocFrame
  <2>3. QED
    BY <2>1, <2>2
<1>2. ASSUME NEW t \in Threads, RefusedCallback(t) \/ InitItem(t) \/ PushCalling(t)
      PROVE  /\ DOMAIN log' = DOMAIN log
             /\ \/ work' = work
                \/ Busy(t) /\ \A s \in Slots : s # sub[t].slot => work'[s] = work[s]
  BY <1>2, SubmitFrame DEF Busy
<1>3. CASE ThreadWorks
  BY <1>3, <1>t, WorksFrame
<1>4. CASE Pause
  BY <1>4 DEF Pause
<1>5. QED
  BY <1>1, <1>2, <1>3, <1>4, <1>t, StepCases DEF SlotInv

\* The queue after an item was put in, and the one after it was taken out.
LEMMA QueueAppended ==
  ASSUME Typed, NEW s \in Slots, queue' = Append(queue, s)
  PROVE  /\ DOMAIN queue' = DOMAIN queue \cup {Len(queue) + 1}
         /\ Len(queue) + 1 \notin DOMAIN queue
         /\ queue'[Len(queue) + 1] = s
         /\ \A i \in DOMAIN queue : queue'[i] = queue[i]
BY DEF Typed, TypeOK

LEMMA QueuePopped ==
  ASSUME Typed, queue # <<>>, queue' = RemoveAt(queue, 1)
  PROVE  /\ 1 \in DOMAIN queue
         /\ \A i \in DOMAIN queue' : /\ i + 1 \in DOMAIN queue /\ i + 1 # 1
                                     /\ queue'[i] = queue[i + 1]
         /\ \A i, j \in DOMAIN queue' : i + 1 = j + 1 => i = j
<1>1. queue \in Seq(Slots)
  BY DEF Typed, TypeOK
<1>2. /\ DOMAIN queue' = 1 .. Len(queue) - 1 /\ DOMAIN queue = 1 .. Len(queue)
      /\ \A i \in 1 .. Len(queue) - 1 : queue'[i] = queue[i + 1]
      /\ Len(queue) \in Nat /\ Len(queue) >= 1
  <2>1. RemoveAt(queue, 1) \in Seq(Slots)
    BY <1>1, PopFacts
  <2>2. QED
    BY <1>1, <2>1, PopFacts
<1>3. QED
  BY <1>2

LEMMA FilledStep ==
  ASSUME AllCallbacks, CallInv, [Next]_vars
  PROVE  FilledInv'
<1> USE DEF CallInv
<1>i. /\ \A i \in DOMAIN queue : /\ work'[queue[i]].callback
                                 /\ work'[queue[i]].request \in DOMAIN log'
      /\ cur # Null => work'[cur].callback /\ work'[cur].request \in DOMAIN log'
  BY ItemsStay DEF FilledInv
<1>1. ASSUME NEW t \in Threads, NEW f \in DOMAIN Entry, NEW a \in Actions,
             Entry[f].callback, AllocItem(t, f, a)
      PROVE  FilledInv'
  <2>1. UNCHANGED <<queue, cur>>
    BY <1>1, AllocFrame
  <2>2. QED
    BY <1>i, <2>1 DEF FilledInv
<1>2. ASSUME NEW t \in Threads, RefusedCallback(t) \/ InitItem(t) \/ PushCalling(t)
      PROVE  FilledInv'
  <2>1. /\ cur' = cur /\ DOMAIN log' = DOMAIN log
        /\ \/ queue' = queue
           \/ sub[t].pc = "push" /\ UNCHANGED work /\ queue' = Append(queue, sub[t].slot)
    BY <1>2, SubmitFrame
  <2>2. CASE queue' = queue
    BY <1>i, <2>1, <2>2 DEF FilledInv
  <2>3. CASE sub[t].pc = "push" /\ UNCHANGED work /\ queue' = Append(queue, sub[t].slot)
    <3>1. /\ sub[t].slot \in Slots /\ work'[sub[t].slot].callback
          /\ work'[sub[t].slot].request \in DOMAIN log'
      BY <2>1, <2>3 DEF SubInv, Prepared, Busy, Asking
    <3>2. QED
      BY <1>i, <2>1, <2>3, <3>1, QueueAppended DEF FilledInv
  <2>4. QED
    BY <2>1, <2>2, <2>3
<1>3. ASSUME ThreadWorks PROVE FilledInv'
  <2>1. CASE /\ queue # <<>> /\ cur' = queue[1] /\ queue' = RemoveAt(queue, 1)
    BY <1>i, <2>1, QueuePopped DEF FilledInv
  <2>2. CASE queue' = queue /\ cur' \in {cur, Null}
    BY <1>i, <2>2 DEF FilledInv
  <2>3. QED
    BY <1>3, <2>1, <2>2, WorksFrame
<1>4. ASSUME Pause PROVE FilledInv'
  BY <1>4 DEF Pause, FilledInv
<1>5. QED
  BY <1>1, <1>2, <1>3, <1>4, StepCases

LEMMA ReqStep ==
  ASSUME AllCallbacks, CallInv, [Next]_vars
  PROVE  ReqInv'
<1> USE DEF CallInv
<1>i. /\ \A i \in DOMAIN queue : work'[queue[i]].request = work[queue[i]].request
      /\ cur # Null => work'[cur].request = work[cur].request
  BY ItemsStay
<1>1. ASSUME NEW t \in Threads, NEW f \in DOMAIN Entry, NEW a \in Actions,
             Entry[f].callback, AllocItem(t, f, a)
      PROVE  ReqInv'
  <2>1. /\ sub[t].pc \in {"none", "answered"} /\ sub'[t].request \notin DOMAIN log /\ UNCHANGED <<queue, cur>>
        /\ \A u \in Threads : u # t => sub'[u] = sub[u]
    BY <1>1, AllocFrame
  <2>2. \A u \in Threads : u # t /\ Asking(u) => sub'[u].request \in DOMAIN log
    BY <2>1 DEF SubInv, Prepared, Asking
  <2>3. QED
    BY <1>i, <2>1, <2>2 DEF ReqInv, FilledInv, Asking
<1>2. ASSUME NEW t \in Threads, RefusedCallback(t) \/ InitItem(t) \/ PushCalling(t)
      PROVE  ReqInv'
  <2>1. cur' = cur /\ \A u \in Threads : u # t => sub'[u] = sub[u]
    BY <1>2, SubmitFrame
  <2>2. CASE sub'[t].pc \in {"none", "answered"} /\ queue' = queue
    BY <1>i, <2>1, <2>2 DEF ReqInv, Asking
  <2>3. CASE sub[t].pc = "init" /\ sub'[t].request = sub[t].request /\ queue' = queue
    BY <1>i, <2>1, <2>3 DEF ReqInv, Asking
  <2>4. CASE sub[t].pc = "push" /\ sub'[t].pc \in {"none", "answered"} /\ UNCHANGED work /\ queue' = Append(queue, sub[t].slot)
    <3>1. sub[t].slot \in Slots /\ work[sub[t].slot].request = sub[t].request /\ Asking(t)
      BY <2>4 DEF SubInv, Prepared, Busy, Asking
    <3>2. /\ DOMAIN queue' = DOMAIN queue \cup {Len(queue) + 1}
          /\ queue'[Len(queue) + 1] = sub[t].slot
          /\ \A i \in DOMAIN queue : queue'[i] = queue[i]
      BY <2>4, <3>1, QueueAppended
    <3>3. \A u \in Threads : Asking(u)' => u # t /\ Asking(u) /\ sub'[u] = sub[u]
      BY <2>1, <2>4 DEF Asking
    <3>4. \A u, v \in Threads : Asking(u)' /\ Asking(v)' /\ sub'[u].request = sub'[v].request => u = v
      BY <3>3 DEF ReqInv
    <3>5. /\ \A i, j \in DOMAIN queue' : work'[queue'[i]].request = work'[queue'[j]].request => i = j
          /\ \A i \in DOMAIN queue', u \in Threads :
               Asking(u)' => work'[queue'[i]].request # sub'[u].request
      BY <2>4, <3>1, <3>2, <3>3 DEF ReqInv
    <3>6. cur' # Null => /\ \A i \in DOMAIN queue' : work'[queue'[i]].request # work'[cur'].request
                         /\ \A u \in Threads : Asking(u)' => sub'[u].request # work'[cur'].request
      BY <2>1, <2>4, <3>1, <3>2, <3>3 DEF ReqInv
    <3>7. QED
      BY <3>4, <3>5, <3>6 DEF ReqInv
  <2>5. QED
    BY <1>2, <2>2, <2>3, <2>4, SubmitFrame
<1>3. ASSUME ThreadWorks PROVE ReqInv'
  <2>0. sub' = sub
    BY <1>3, WorksFrame
  <2>1. CASE /\ queue # <<>> /\ cur' = queue[1] /\ queue' = RemoveAt(queue, 1)
    <3>1. /\ 1 \in DOMAIN queue
          /\ \A i \in DOMAIN queue' : /\ i + 1 \in DOMAIN queue /\ i + 1 # 1
                                      /\ queue'[i] = queue[i + 1]
          /\ \A i, j \in DOMAIN queue' : i + 1 = j + 1 => i = j
      BY <2>1, QueuePopped
    <3>2. \A i \in DOMAIN queue' : work'[queue'[i]].request = work[queue[i + 1]].request
      BY <1>i, <3>1
    <3>3. work'[cur'].request = work[queue[1]].request
      BY <1>i, <2>1, <3>1
    <3>4. \A i, j \in DOMAIN queue' : work'[queue'[i]].request = work'[queue'[j]].request => i = j
      BY <3>1, <3>2 DEF ReqInv
    <3>5. \A i \in DOMAIN queue' : work'[queue'[i]].request # work'[cur'].request
      BY <3>1, <3>2, <3>3 DEF ReqInv
    <3>6. QED
      BY <2>0, <3>1, <3>2, <3>3, <3>4, <3>5 DEF ReqInv, Asking
  <2>2. CASE queue' = queue /\ cur' \in {cur, Null}
    BY <1>i, <2>0, <2>2 DEF ReqInv, Asking
  <2>3. QED
    BY <1>3, <2>1, <2>2, WorksFrame
<1>4. ASSUME Pause PROVE ReqInv'
  BY <1>4 DEF Pause, ReqInv, Asking
<1>5. QED
  BY <1>1, <1>2, <1>3, <1>4, StepCases

\* What the requests were asked and what became of them does not change.
SameFate(r) ==
  /\ log'[r].fn = log[r].fn /\ log'[r].refused = log[r].refused
  /\ log'[r].done = log[r].done /\ log'[r].called = log[r].called

LEMMA WorksLog ==
  ASSUME Typed, FilledInv, ThreadWorks
  PROVE  \/ /\ tpc = "pop" /\ tpc' = "find" /\ cur' # Null
            /\ queue # <<>> /\ cur' = queue[1] /\ queue' = RemoveAt(queue, 1)
            /\ \A r \in DOMAIN log : SameFate(r)
         \/ /\ cur # Null /\ UNCHANGED <<cur, queue>>
            /\ \/ tpc = "find" /\ tpc' = "device"
               \/ tpc = "device" /\ tpc' = "complete"
               \/ tpc = "choose" /\ tpc' = "callback"
            /\ \A r \in DOMAIN log : SameFate(r)
         \/ /\ cur # Null /\ UNCHANGED <<cur, queue>>
            /\ tpc = "complete" /\ tpc' = "choose"
            /\ log'[work[cur].request].done
            /\ log'[work[cur].request].fn = log[work[cur].request].fn
            /\ log'[work[cur].request].called = log[work[cur].request].called
            /\ \A r \in DOMAIN log : r # work[cur].request => SameFate(r)
         \/ /\ cur # Null /\ UNCHANGED <<cur, queue>>
            /\ tpc = "callback" /\ tpc' = "called"
            /\ log'[work[cur].request].done = log[work[cur].request].done
            /\ log'[work[cur].request].fn = log[work[cur].request].fn
            /\ log'[work[cur].request].called = log[work[cur].request].called + 1
            /\ \A r \in DOMAIN log : r # work[cur].request => SameFate(r)
         \/ /\ tpc \in {"called", "free", "release"} /\ tpc' \in {"free", "release", "loop"}
            /\ queue' = queue /\ \A r \in DOMAIN log : SameFate(r)
<1>s. /\ work \in [Slots -> Item] /\ log \in Seq(Records) /\ queue \in Seq(Slots)
      /\ cur \in Slots \cup {Null} /\ Null \notin Slots
      /\ (cur = Null <=> tpc \in {"loop", "pop", "exited", "joined"})
  BY NullAssumption DEF Typed, TypeOK, Item, Slots
<1>u. cur # Null => work[cur].request \in DOMAIN log /\ work[cur].callback
  BY DEF FilledInv
<1>1. CASE PopItem
  BY <1>1, <1>s, PopFacts DEF PopItem, GoThread, First, SameFate
<1>2. CASE FindMount \/ Choose
  <2>1. \A r \in DOMAIN log : SameFate(r)
    BY <1>2 DEF FindMount, Choose, SameFate
  <2>2. cur # Null /\ UNCHANGED <<cur, queue>>
    BY <1>2, <1>s DEF FindMount, Choose, GoThread
  <2>3. (tpc = "find" /\ tpc' = "device") \/ (tpc = "choose" /\ tpc' = "callback")
    BY <1>2, <1>u, <2>2 DEF FindMount, Choose, GoThread
  <2>4. QED
    BY <2>1, <2>2, <2>3
<1>3. CASE RunOperation
  <2>1. \A r \in DOMAIN log : SameFate(r)
    BY <1>3, <1>s, <1>u DEF RunOperation, GoThread, Item, Records, SameFate
  <2>2. QED
    BY <1>3, <1>s, <2>1 DEF RunOperation, GoThread
<1>4. CASE Complete
  BY <1>4, <1>s, <1>u DEF Complete, Completes, GoThread, Item, Records, SameFate
<1>5. CASE Callback
  BY <1>5, <1>s, <1>u DEF Callback, GoThread, Records, SameFate
<1>6. CASE CallbackReturns
  <2>1. \A r \in DOMAIN log : SameFate(r)
    BY <1>6, <1>s, <1>u DEF CallbackReturns, GoThread, Records, SameFate
  <2>2. QED
    BY <1>6, <1>s, <2>1 DEF CallbackReturns, GoThread
<1>7. CASE ThreadFreeBuffer
  <2>1. \A r \in DOMAIN log : SameFate(r)
    BY <1>7, <1>s, <1>u DEF ThreadFreeBuffer, FreeBuffer, GoThread, Item, Records, SameFate
  <2>2. QED
    BY <1>7, <1>s, <2>1 DEF ThreadFreeBuffer, GoThread
<1>8. CASE ThreadRelease
  BY <1>8, <1>s DEF ThreadRelease, GoThread, SameFate
<1>9. QED
  BY <1>1, <1>2, <1>3, <1>4, <1>5, <1>6, <1>7, <1>8 DEF ThreadWorks

LEMMA LogAlloc ==
  ASSUME AllCallbacks, CallInv, [Next]_vars,
         NEW t \in Threads, NEW f \in DOMAIN Entry, NEW a \in Actions,
         Entry[f].callback, AllocItem(t, f, a)
  PROVE  LogInv'
<1> USE DEF CallInv
<1> DEFINE n == Len(log) + 1
<1>1. /\ sub[t].pc \in {"none", "answered"} /\ UNCHANGED <<queue, cur, tpc>> /\ DOMAIN log' = DOMAIN log \cup {n}
      /\ \A r \in DOMAIN log : log'[r] = log[r]
      /\ \A u \in Threads : u # t => sub'[u] = sub[u]
      /\ sub'[t].request = n
  BY AllocFrame
<1>2. /\ log'[n].fn = f /\ ~log'[n].done /\ log'[n].called = 0
      /\ IF avail = {} THEN log'[n].refused ELSE ~log'[n].refused
  <2>1. log'[n] = [fn |-> f, refused |-> avail = {}, done |-> FALSE, called |-> 0, heap |-> FALSE]
    BY AllocFrame
  <2>2. log'[n].refused = (avail = {})
    BY <2>1
  <2>3. log'[n].fn = f /\ log'[n].done = FALSE /\ log'[n].called = 0
    BY <2>1
  <2>4. QED
    BY <2>2, <2>3
<1>3. \/ sub'[t].pc = "init" /\ avail # {}
      \/ sub'[t].pc = "refused" /\ avail = {}
  BY AllocFrame
<1>i. /\ \A i \in DOMAIN queue : /\ work'[queue[i]].request = work[queue[i]].request
                                 /\ work[queue[i]].request \in DOMAIN log
      /\ cur # Null => /\ work'[cur].request = work[cur].request
                       /\ work[cur].request \in DOMAIN log
  BY ItemsStay DEF FilledInv
<1>c. cur # Null <=> tpc \notin {"loop", "pop", "exited", "joined"}
  BY DEF Typed, TypeOK
<1> HIDE DEF n
<1>4. \A u \in Threads : u # t /\ Asking(u) => sub'[u].request \in DOMAIN log
  BY <1>1 DEF SubInv, Prepared, Asking
<1>5. /\ \A u \in Threads : Busy(u)' => Open(sub[u].request)'
      /\ \A u \in Threads : sub'[u].pc = "refused" =>
           LET r == sub'[u].request IN log'[r].refused /\ ~log'[r].done /\ log'[r].called = 0
  <2>1. ASSUME NEW u \in Threads, u # t, Asking(u)
        PROVE  log'[sub'[u].request] = log[sub[u].request] /\ sub'[u] = sub[u]
    BY <1>1, <1>4, <2>1
  <2>2. Busy(t)' => Open(sub[t].request)'
    BY <1>1, <1>2, <1>3 DEF Busy, Open
  <2>3. sub'[t].pc = "refused" => log'[n].refused /\ ~log'[n].done /\ log'[n].called = 0
    BY <1>2, <1>3
  <2>4. ASSUME NEW u \in Threads, u # t, Busy(u)' PROVE Open(sub[u].request)'
    <3>1. Busy(u) /\ Asking(u)
      BY <1>1, <2>4 DEF Busy, Asking
    <3>2. QED
      BY <2>1, <2>4, <3>1 DEF LogInv, Open
  <2>5. ASSUME NEW u \in Threads, u # t, sub'[u].pc = "refused"
        PROVE  LET r == sub'[u].request IN log'[r].refused /\ ~log'[r].done /\ log'[r].called = 0
    <3>1. sub[u].pc = "refused" /\ Asking(u)
      BY <1>1, <2>5 DEF Asking
    <3>2. QED
      BY <2>1, <2>5, <3>1 DEF LogInv
  <2>6. QED
    BY <1>1, <2>2, <2>3, <2>4, <2>5
<1>6. /\ \A i \in DOMAIN queue' : Open(work[queue[i]].request)'
      /\ tpc' \in {"find", "device", "complete"} => Open(work[cur].request)'
      /\ tpc' \in {"choose", "callback"} =>
           log'[work'[cur'].request].done /\ log'[work'[cur'].request].called = 0
  BY <1>1, <1>i, <1>c DEF LogInv, Open
<1>7. ASSUME NEW r \in DOMAIN log'
      PROVE  /\ Entry[log'[r].fn].callback
             /\ log'[r].called \in 0 .. 1
             /\ log'[r].called = 1 => log'[r].done \/ log'[r].refused
             /\ log'[r].done /\ log'[r].called = 0 =>
                  tpc' \in {"choose", "callback"} /\ r = work'[cur'].request
  BY <1>1, <1>2, <1>i, <1>c DEF LogInv
<1>8. QED
  BY <1>5, <1>6, <1>7 DEF LogInv

LEMMA LogSubmit ==
  ASSUME AllCallbacks, CallInv, [Next]_vars, NEW t \in Threads,
         RefusedCallback(t) \/ InitItem(t) \/ PushCalling(t)
  PROVE  LogInv'
<1> USE DEF CallInv
<1>1. /\ UNCHANGED <<cur, tpc>> /\ DOMAIN log' = DOMAIN log
      /\ \A u \in Threads : u # t => sub'[u] = sub[u]
  BY SubmitFrame
<1>i. /\ \A i \in DOMAIN queue : /\ work'[queue[i]].request = work[queue[i]].request
                                 /\ work[queue[i]].request \in DOMAIN log
      /\ cur # Null => /\ work'[cur].request = work[cur].request
                       /\ work[cur].request \in DOMAIN log
  BY ItemsStay DEF FilledInv
<1>c. cur # Null <=> tpc \notin {"loop", "pop", "exited", "joined"}
  BY DEF Typed, TypeOK
<1>2. CASE /\ sub[t].pc = "refused" /\ sub'[t].pc \in {"none", "answered"} /\ UNCHANGED <<work, queue>>
           /\ log' = [log EXCEPT ![sub[t].request].called = @ + 1]
  <2> DEFINE n == sub[t].request
  <2>1. n \in DOMAIN log /\ Asking(t) /\ log[n].refused /\ ~log[n].done /\ log[n].called = 0
    BY <1>2 DEF SubInv, Prepared, Asking, LogInv
  <2>2. log \in Seq(Records)
    BY DEF Typed, TypeOK
  <2>3. /\ \A r \in DOMAIN log : r # n => log'[r] = log[r]
        /\ log'[n].fn = log[n].fn /\ log'[n].refused = log[n].refused
        /\ log'[n].done = log[n].done /\ log'[n].called = 1
    <3>1. log[n] \in Records
      BY <2>1, <2>2
    <3>2. log' = [log EXCEPT ![n] = [log[n] EXCEPT !.called = @ + 1]]
      BY <1>2
    <3>3. /\ \A r \in DOMAIN log : r # n => log'[r] = log[r]
          /\ log'[n] = [log[n] EXCEPT !.called = @ + 1]
      BY <2>1, <2>2, <3>2
    <3>4. log'[n].called = 1
      BY <2>1, <3>1, <3>3 DEF Records
    <3>5. /\ log'[n].fn = log[n].fn /\ log'[n].refused = log[n].refused
          /\ log'[n].done = log[n].done
      BY <3>1, <3>3 DEF Records
    <3>6. QED
      BY <3>3, <3>4, <3>5
  <2> HIDE DEF n
  <2>n. n = sub[t].request
    BY DEF n
  <2>4. /\ \A u \in Threads : Asking(u) /\ u # t => sub[u].request # n
        /\ \A i \in DOMAIN queue : work[queue[i]].request # n
        /\ cur # Null => work[cur].request # n
    BY <2>1, <2>n DEF ReqInv
  <2>5. ASSUME NEW u \in Threads, Asking(u)'
        PROVE  /\ sub'[u] = sub[u] /\ Asking(u) /\ u # t
               /\ sub[u].request \in DOMAIN log /\ log'[sub[u].request] = log[sub[u].request]
    <3>1. u # t /\ sub'[u] = sub[u] /\ Asking(u)
      BY <1>1, <1>2, <2>5 DEF Asking
    <3>2. QED
      BY <2>3, <2>4, <3>1 DEF SubInv, Prepared
  <2>6. \A u \in Threads : Busy(u)' => Open(sub[u].request)'
    BY <2>5 DEF LogInv, Busy, Asking, Open
  <2>7. \A u \in Threads : sub'[u].pc = "refused" =>
          LET r == sub'[u].request IN log'[r].refused /\ ~log'[r].done /\ log'[r].called = 0
    BY <2>5 DEF LogInv, Asking
  <2>8. /\ \A i \in DOMAIN queue' : Open(work[queue[i]].request)'
        /\ tpc' \in {"find", "device", "complete"} => Open(work[cur].request)'
        /\ tpc' \in {"choose", "callback"} =>
             log'[work'[cur'].request].done /\ log'[work'[cur'].request].called = 0
    BY <1>1, <1>2, <1>i, <1>c, <2>3, <2>4 DEF LogInv, Open
  <2>9. ASSUME NEW r \in DOMAIN log'
        PROVE  /\ Entry[log'[r].fn].callback
               /\ log'[r].called \in 0 .. 1
               /\ log'[r].called = 1 => log'[r].done \/ log'[r].refused
               /\ log'[r].done /\ log'[r].called = 0 =>
                    tpc' \in {"choose", "callback"} /\ r = work'[cur'].request
    BY <1>1, <1>2, <2>1, <2>3 DEF LogInv
  <2>10. QED
    BY <2>6, <2>7, <2>8, <2>9 DEF LogInv
<1>3. CASE /\ log' = log
           /\ \/ /\ sub[t].pc = "init" /\ sub'[t].pc = "push" /\ UNCHANGED queue
                 /\ sub'[t].request = sub[t].request
              \/ /\ sub[t].pc = "push" /\ sub'[t].pc \in {"none", "answered"} /\ UNCHANGED work
                 /\ queue' = Append(queue, sub[t].slot)
  <2>1. ASSUME NEW u \in Threads
        PROVE  /\ Busy(u)' => Busy(u) /\ sub'[u].request = sub[u].request
               /\ sub'[u].pc = "refused" => sub[u].pc = "refused" /\ sub'[u].request = sub[u].request
    BY <1>1, <1>3 DEF Busy
  <2>2. \A i \in DOMAIN queue' : Open(work[queue[i]].request)'
    <3>1. CASE queue' = queue
      BY <1>3, <1>i, <3>1 DEF LogInv, Open
    <3>2. CASE sub[t].pc = "push" /\ UNCHANGED work /\ queue' = Append(queue, sub[t].slot)
      <4>1. /\ sub[t].slot \in Slots /\ work[sub[t].slot].request = sub[t].request
            /\ Open(sub[t].request)
        BY <3>2 DEF SubInv, Prepared, Busy, LogInv
      <4>2. QED
        BY <1>3, <3>2, <4>1, QueueAppended DEF LogInv, Open
    <3>3. QED
      BY <1>3, <3>1, <3>2
  <2>3. QED
    BY <1>1, <1>3, <1>i, <1>c, <2>1, <2>2 DEF LogInv, Open
<1>4. QED
  BY <1>2, <1>3, SubmitFrame

LEMMA LogWorks ==
  ASSUME AllCallbacks, CallInv, [Next]_vars, ThreadWorks
  PROVE  LogInv'
<1> USE DEF CallInv
<1> DEFINE n == work[cur].request
           StillOpen(r) == ~log'[r].refused /\ ~log'[r].done /\ log'[r].called = 0
<1>1. sub' = sub /\ DOMAIN log' = DOMAIN log /\ \A r \in DOMAIN log : log'[r].refused = log[r].refused
  BY WorksFrame
<1>i. /\ \A i \in DOMAIN queue : /\ work'[queue[i]].request = work[queue[i]].request
                                 /\ work[queue[i]].request \in DOMAIN log
      /\ cur # Null => /\ work'[cur].request = n
                       /\ n \in DOMAIN log
  BY ItemsStay DEF FilledInv
<1>s. /\ \A u \in Threads : Asking(u) => sub[u].request \in DOMAIN log
      /\ cur # Null => /\ \A u \in Threads : Asking(u) => sub[u].request # n
                       /\ \A i \in DOMAIN queue : work[queue[i]].request # n
  BY DEF SubInv, Prepared, ReqInv
<1>b. \A u \in Threads : Busy(u) \/ sub[u].pc = "refused" => Asking(u)
  BY DEF Busy, Asking
<1>n. n = work[cur].request
  BY DEF n
<1> HIDE DEF n
\* A request no thread, no queued item has keeps the rest of the invariant.
<1>r. ASSUME \A r \in DOMAIN log : SameFate(r) \/ (cur # Null /\ r = n)
      PROVE  /\ \A u \in Threads : Busy(u)' => Open(sub[u].request)'
             /\ \A u \in Threads : sub'[u].pc = "refused" =>
                  LET r == sub'[u].request IN log'[r].refused /\ ~log'[r].done /\ log'[r].called = 0
             /\ \A i \in DOMAIN queue : StillOpen(work'[queue[i]].request)
  <2>1. \A u \in Threads : Busy(u)' => Open(sub[u].request)'
    <3>1. \A u \in Threads : Busy(u)' => Busy(u) /\ SameFate(sub[u].request) /\ sub'[u] = sub[u]
      BY <1>1, <1>r, <1>s, <1>b DEF Busy
    <3>2. QED
      BY <3>1, <1>1, <1>s, <1>b DEF LogInv, Open, SameFate
  <2>2. \A u \in Threads : sub'[u].pc = "refused" =>
          LET r == sub'[u].request IN log'[r].refused /\ ~log'[r].done /\ log'[r].called = 0
    BY <1>1, <1>r, <1>s, <1>b DEF LogInv, SameFate
  <2>3. \A i \in DOMAIN queue : StillOpen(work'[queue[i]].request)
    <3>1. \A i \in DOMAIN queue : SameFate(work[queue[i]].request)
      BY <1>i, <1>r, <1>s
    <3>2. QED
      BY <3>1, <1>i DEF LogInv, Open, SameFate
  <2>4. QED
    BY <2>1, <2>2, <2>3
<1>2. CASE /\ tpc = "pop" /\ tpc' = "find" /\ cur' # Null
           /\ queue # <<>> /\ cur' = queue[1] /\ queue' = RemoveAt(queue, 1)
           /\ \A r \in DOMAIN log : SameFate(r)
  <2>1. \A i \in DOMAIN queue' : Open(work[queue[i]].request)'
    BY <1>2, <1>r, QueuePopped DEF Open
  <2>2. Open(work[cur].request)'
    BY <1>2, <1>r, QueuePopped DEF Open
  <2>3. \A r \in DOMAIN log' :
       /\ Entry[log'[r].fn].callback /\ log'[r].called \in 0 .. 1
       /\ log'[r].called = 1 => log'[r].done \/ log'[r].refused
       /\ ~(log'[r].done /\ log'[r].called = 0)
    BY <1>1, <1>2 DEF LogInv, SameFate
  <2>4. QED
    BY <1>2, <1>r, <2>1, <2>2, <2>3 DEF LogInv
<1>3. CASE /\ cur # Null /\ UNCHANGED <<cur, queue>>
           /\ \/ tpc = "find" /\ tpc' = "device"
              \/ tpc = "device" /\ tpc' = "complete"
              \/ tpc = "choose" /\ tpc' = "callback"
           /\ \A r \in DOMAIN log : SameFate(r)
  <2>1. \A i \in DOMAIN queue' : Open(work[queue[i]].request)'
    BY <1>3, <1>r DEF Open
  <2>2. SameFate(n) /\ n \in DOMAIN log /\ work'[cur'].request = n
    BY <1>3, <1>i
  <2>3. /\ tpc' \in {"find", "device", "complete"} => Open(work[cur].request)'
        /\ tpc' \in {"choose", "callback"} =>
             log'[work'[cur'].request].done /\ log'[work'[cur'].request].called = 0
    BY <1>1, <1>n, <1>3, <2>2 DEF LogInv, Open, SameFate
  <2>4. \A r \in DOMAIN log' :
       /\ Entry[log'[r].fn].callback /\ log'[r].called \in 0 .. 1
       /\ log'[r].called = 1 => log'[r].done \/ log'[r].refused
       /\ log'[r].done /\ log'[r].called = 0 =>
            tpc' \in {"choose", "callback"} /\ r = work'[cur'].request
    BY <1>1, <1>n, <1>3, <2>2 DEF LogInv, SameFate
  <2>5. QED
    BY <1>3, <1>r, <2>1, <2>3, <2>4 DEF LogInv
<1>4. CASE /\ cur # Null /\ UNCHANGED <<cur, queue>>
           /\ tpc = "complete" /\ tpc' = "choose"
           /\ log'[n].done /\ log'[n].fn = log[n].fn /\ log'[n].called = log[n].called
           /\ \A r \in DOMAIN log : r # n => SameFate(r)
  <2>1. \A i \in DOMAIN queue' : Open(work[queue[i]].request)'
    BY <1>4, <1>r DEF Open
  <2>2. n \in DOMAIN log /\ work'[cur'].request = n /\ log[n].called = 0
    BY <1>n, <1>4, <1>i DEF LogInv, Open
  <2>3. ASSUME NEW r \in DOMAIN log'
        PROVE  /\ Entry[log'[r].fn].callback /\ log'[r].called \in 0 .. 1
               /\ log'[r].called = 1 => log'[r].done \/ log'[r].refused
               /\ log'[r].done /\ log'[r].called = 0 => r = n
    <3>1. CASE r = n
      BY <1>1, <1>4, <2>2, <3>1 DEF LogInv
    <3>2. CASE r # n
      BY <1>1, <1>4, <3>2 DEF LogInv, SameFate
    <3>3. QED
      BY <3>1, <3>2
  <2>4. QED
    BY <1>4, <1>r, <2>1, <2>2, <2>3 DEF LogInv
<1>5. CASE /\ cur # Null /\ UNCHANGED <<cur, queue>>
           /\ tpc = "callback" /\ tpc' = "called"
           /\ log'[n].done = log[n].done /\ log'[n].fn = log[n].fn
           /\ log'[n].called = log[n].called + 1
           /\ \A r \in DOMAIN log : r # n => SameFate(r)
  <2>1. \A i \in DOMAIN queue' : Open(work[queue[i]].request)'
    BY <1>5, <1>r DEF Open
  <2>2. n \in DOMAIN log /\ log[n].called = 0 /\ log[n].done
    BY <1>n, <1>5, <1>i DEF LogInv
  <2>a. log'[n].called = 1 /\ log'[n].done
    BY <1>5, <2>2
  <2>3. ASSUME NEW r \in DOMAIN log'
        PROVE  /\ Entry[log'[r].fn].callback /\ log'[r].called \in 0 .. 1
               /\ log'[r].called = 1 => log'[r].done \/ log'[r].refused
               /\ ~(log'[r].done /\ log'[r].called = 0)
    <3>1. CASE r = n
      BY <1>1, <1>5, <2>2, <2>a, <3>1 DEF LogInv
    <3>2. CASE r # n
      BY <1>1, <1>n, <1>5, <3>2 DEF LogInv, SameFate
    <3>3. QED
      BY <3>1, <3>2
  <2>4. QED
    BY <1>5, <1>r, <2>1, <2>3 DEF LogInv
<1>6. CASE /\ tpc \in {"called", "free", "release"} /\ tpc' \in {"free", "release", "loop"}
           /\ queue' = queue /\ \A r \in DOMAIN log : SameFate(r)
  <2>1. \A i \in DOMAIN queue' : Open(work[queue[i]].request)'
    BY <1>6, <1>r DEF Open
  <2>2. \A r \in DOMAIN log' :
       /\ Entry[log'[r].fn].callback /\ log'[r].called \in 0 .. 1
       /\ log'[r].called = 1 => log'[r].done \/ log'[r].refused
       /\ ~(log'[r].done /\ log'[r].called = 0)
    BY <1>1, <1>6 DEF LogInv, SameFate
  <2>3. QED
    BY <1>6, <1>r, <2>1, <2>2 DEF LogInv
<1>7. QED
  BY <1>n, <1>2, <1>3, <1>4, <1>5, <1>6, WorksLog

LEMMA LogStep ==
  ASSUME AllCallbacks, CallInv, [Next]_vars
  PROVE  LogInv'
<1>1. ASSUME Pause PROVE LogInv'
  <2>1. UNCHANGED <<work, queue, sub, cur, log>>
    BY <1>1 DEF Pause
  <2>2. tpc' = tpc \/ {tpc, tpc'} \subseteq {"loop", "pop", "exited", "joined"}
    BY <1>1 DEF Pause
  <2>3. QED
    BY <2>1, <2>2 DEF CallInv, LogInv, Open, Busy
<1>2. QED
  BY <1>1, LogAlloc, LogSubmit, LogWorks, StepCases DEF CallInv

-----------------------------------------------------------------------------
\* The inductive invariant of a context whose clients and callbacks submit
\* with callbacks only.
LEMMA CallInvariant ==
  ASSUME AllCallbacks
  PROVE  Spec => []CallInv
<1>1. CallInv /\ [Next]_vars => CallInv'
  <2> SUFFICES ASSUME CallInv, [Next]_vars PROVE CallInv'
    OBVIOUS
  <2>1. Typed'
    BY TypedStep DEF CallInv
  <2>2. SubInv' /\ SlotInv' /\ FilledInv' /\ ReqInv' /\ LogInv'
    BY SubStep, SlotStep, FilledStep, ReqStep, LogStep DEF CallInv
  <2>3. QED
    BY <2>1, <2>2 DEF CallInv
<1>2. QED
  BY <1>1, CallInit, PTL DEF Spec

\* Every variable has its type, and the thread has an item in hand exactly
\* from the pop to the end of the pass (FileContext.cpp:670-786).
THEOREM CallTypesCorrect ==
  ASSUME AllCallbacks
  PROVE  Spec => []TypeOK
<1>1. CallInv => TypeOK
  BY DEF CallInv, Typed
<1>2. QED
  BY <1>1, CallInvariant, PTL

\* However many requests are made, by clients or by callbacks, no callback
\* runs twice, and none before its request was carried out or refused
\* (FileContext.cpp:445-454, 775-776).
THEOREM CallbackOnceHolds ==
  ASSUME AllCallbacks
  PROVE  Spec => []CallbackOnce
<1>1. CallInv => CallbackOnce
  BY DEF CallInv, LogInv, CallbackOnce
<1>2. QED
  BY <1>1, CallInvariant, PTL

\* No slot of the pool is leaked, handed out or returned twice, or queued
\* while another party has it: it is in the pool, with one thread that
\* submits, at one place of the queue, or with the processing thread
\* (FileContext.cpp:406-417, 436-458, 775-785).
THEOREM OneHolderHolds ==
  ASSUME AllCallbacks
  PROVE  Spec => []OneHolder
<1>1. ASSUME CallInv, NEW s \in Slots PROVE \E h \in Holders(s) : Holders(s) = {h}
  <2> DEFINE pool == {<<"pool">> : x \in avail \cap {s}}
             submitting == {<<"submitting", t>> : t \in {u \in Threads : Submitting(u, s)}}
             queued == {<<"queue", i>> : i \in {j \in DOMAIN queue : queue[j] = s}}
             thread == {<<"thread">> : x \in {y \in {s} : Processing(y)}}
  <2> USE <1>1 DEF CallInv
  <2>1. Holders(s) = pool \cup submitting \cup queued \cup thread
    <3>1. UNION {{<<"client", c, i>> :
                    i \in {j \in DOMAIN client[c].mine : client[c].mine[j] = s /\ work[s].completed}} :
                  c \in Clients} = {}
      BY DEF Typed
    <3>2. QED
      BY <3>1 DEF Holders
  <2>2. \A t \in Threads : Submitting(t, s) <=> Busy(t) /\ sub[t].slot = s
    BY DEF SubInv, Prepared, Submitting, Busy
  <2>3. Processing(s) <=> cur = s
    <3>1. cur = s => s # Null /\ work[s].callback
      BY NullAssumption DEF FilledInv, Slots
    <3>2. QED
      BY <3>1 DEF Typed, Processing
  <2>4. CASE s \in avail
    <3>1. submitting = {} /\ queued = {} /\ thread = {} /\ pool = {<<"pool">>}
      BY <2>2, <2>3, <2>4 DEF SlotInv, SubInv, Prepared
    <3>2. QED
      BY <2>1, <3>1
  <2>5. CASE s = cur
    <3>1. submitting = {} /\ queued = {} /\ pool = {} /\ thread = {<<"thread">>}
      BY <2>2, <2>3, <2>5 DEF SlotInv
    <3>2. QED
      BY <2>1, <3>1
  <2>6. ASSUME NEW t \in Threads, Busy(t), sub[t].slot = s
        PROVE  \E h \in Holders(s) : Holders(s) = {h}
    <3>1. queued = {} /\ thread = {} /\ pool = {}
      BY <2>3, <2>6 DEF SlotInv, SubInv, Prepared
    <3>2. submitting = {<<"submitting", t>>}
      BY <2>2, <2>6 DEF SlotInv
    <3>3. QED
      BY <2>1, <3>1, <3>2
  <2>7. ASSUME NEW i \in DOMAIN queue, queue[i] = s
        PROVE  \E h \in Holders(s) : Holders(s) = {h}
    <3>1. submitting = {} /\ thread = {} /\ pool = {}
      BY <2>2, <2>3, <2>7 DEF SlotInv
    <3>2. queued = {<<"queue", i>>}
      BY <2>7 DEF SlotInv
    <3>3. QED
      BY <2>1, <3>1, <3>2
  <2>8. QED
    BY <2>4, <2>5, <2>6, <2>7 DEF SlotInv
<1>2. CallInv => OneHolder
  BY <1>1 DEF OneHolder
<1>3. QED
  BY <1>2, CallInvariant, PTL

-----------------------------------------------------------------------------
(* The context implements the service.                                     *)

Wanting == {r \in DOMAIN log : Entry[log[r].fn].callback}
Finished == {r \in DOMAIN log : log[r].done}
Refused == {r \in DOMAIN log : log[r].refused}
Called == [r \in Requests |-> IF r \in DOMAIN log THEN log[r].called ELSE 0]

InHand == IF tpc \in {"find", "device", "complete"} THEN <<work[cur].request>> ELSE <<>>
Queued == [i \in DOMAIN queue |-> work[queue[i]].request]

ServiceVars == <<Wanting, Pending, Finished, Refused, Called>>

\* What is queued or in hand was asked for.
Asks ==
  /\ queue \in Seq(Slots) /\ log \in Seq(Records) /\ Len(log) <= MaxRequests
  /\ (cur = Null <=> tpc \in {"loop", "pop", "exited", "joined"})
  /\ \A i \in DOMAIN queue : work[queue[i]].request \in DOMAIN log
  /\ tpc \in {"find", "device", "complete"} => work[cur].request \in DOMAIN log

LEMMA CallAsks == CallInv => Asks
BY DEF CallInv, Typed, TypeOK, FilledInv, Asks

LEMMA PendingFacts ==
  ASSUME Asks
  PROVE  /\ Pending = InHand \o Queued
         /\ InHand \in Seq(Requests) /\ Queued \in Seq(Requests) /\ Len(Queued) = Len(queue)
         /\ DOMAIN log \subseteq Requests
         /\ \A r \in ToSet(Pending) : \/ \E i \in DOMAIN queue : r = work[queue[i]].request
                                      \/ /\ tpc \in {"find", "device", "complete"}
                                         /\ cur # Null /\ r = work[cur].request
<1>1. /\ queue \in Seq(Slots) /\ log \in Seq(Records) /\ Len(log) <= MaxRequests
      /\ MaxRequests \in Nat /\ (cur = Null <=> tpc \in {"loop", "pop", "exited", "joined"})
  BY SizeAssumption DEF Asks
<1>2. DOMAIN log \subseteq Requests
  BY <1>1 DEF Requests
<1>3. \A i \in DOMAIN queue : work[queue[i]].request \in Requests
  BY <1>2 DEF Asks
<1>4. tpc \in {"find", "device", "complete"} => cur # Null /\ work[cur].request \in Requests
  BY <1>1, <1>2 DEF Asks
<1>5. Queued \in Seq(Requests) /\ Len(Queued) = Len(queue) /\ DOMAIN Queued = DOMAIN queue
  BY <1>1, <1>3 DEF Queued
<1>6. InHand \in Seq(Requests)
  BY <1>4 DEF InHand
<1>7. Pending = InHand \o Queued
  BY DEF Pending, InHand, Queued
<1>8. ASSUME NEW r \in ToSet(Pending)
      PROVE  \/ \E i \in DOMAIN queue : r = work[queue[i]].request
             \/ /\ tpc \in {"find", "device", "complete"}
                /\ cur # Null /\ r = work[cur].request
  <2>1. PICK k \in DOMAIN Pending : r = Pending[k]
    BY <1>8 DEF ToSet
  <2>2. /\ Len(Pending) = Len(InHand) + Len(Queued)
        /\ \A i \in 1 .. Len(InHand) + Len(Queued) :
             Pending[i] = IF i <= Len(InHand) THEN InHand[i] ELSE Queued[i - Len(InHand)]
        /\ Pending \in Seq(Requests)
    BY <1>5, <1>6, <1>7, ConcatProperties, ZenonT(30)
  <2>3. k \in 1 .. Len(InHand) + Len(Queued) /\ Len(InHand) \in Nat /\ Len(Queued) \in Nat
    BY <1>5, <1>6, <2>1, <2>2
  <2>4. CASE k <= Len(InHand)
    <3>1. r = InHand[k] /\ k \in 1 .. Len(InHand)
      BY <2>1, <2>2, <2>3, <2>4
    <3>2. QED
      BY <1>4, <3>1 DEF InHand
  <2>5. CASE ~(k <= Len(InHand))
    <3>1. k - Len(InHand) \in DOMAIN queue /\ r = Queued[k - Len(InHand)]
      BY <1>5, <2>1, <2>2, <2>3, <2>5
    <3>2. QED
      BY <3>1 DEF Queued
  <2>6. QED
    BY <2>4, <2>5
<1>9. QED
  BY <1>2, <1>5, <1>6, <1>7, <1>8

\* The queue and the item in hand as they were.
LEMMA PendingKept ==
  ASSUME queue' = queue, InHand' = InHand,
         \A i \in DOMAIN queue : work'[queue[i]].request = work[queue[i]].request
  PROVE  Pending' = Pending
BY DEF Pending, InHand

\* The requests as they were.
LEMMA FatesKept ==
  ASSUME DOMAIN log' = DOMAIN log, \A r \in DOMAIN log : SameFate(r)
  PROVE  UNCHANGED <<Wanting, Finished, Refused, Called>>
BY DEF Wanting, Finished, Refused, Called, SameFate

LEMMA AllocMakes ==
  ASSUME AllCallbacks, CallInv, [Next]_vars,
         NEW t \in Threads, NEW f \in DOMAIN Entry, NEW a \in Actions,
         Entry[f].callback, AllocItem(t, f, a)
  PROVE  \E r \in Requests : Service!Make(r)
<1>a. Asks
  BY CallAsks
<1>0. Len(log) + 1 \in Requests
  BY SizeAssumption DEF CallInv, Typed, TypeOK, AllocItem, Requests
<1>n. PICK n \in Requests : n = Len(log) + 1
  BY <1>0
<1>1. /\ UNCHANGED <<queue, cur, tpc>> /\ n \notin DOMAIN log
      /\ DOMAIN log' = DOMAIN log \cup {n} /\ \A r \in DOMAIN log : log'[r] = log[r]
  BY <1>n, AllocFrame DEF CallInv
<1>2. log'[n] = [fn |-> f, refused |-> avail = {}, done |-> FALSE, called |-> 0, heap |-> FALSE]
  BY <1>n, AllocFrame DEF CallInv
<1>3. log'[n].fn = f /\ log'[n].done = FALSE /\ log'[n].called = 0
  BY <1>2
<1>i. /\ \A i \in DOMAIN queue : /\ work'[queue[i]].request = work[queue[i]].request
                                 /\ work[queue[i]].request \in DOMAIN log
      /\ cur # Null => /\ work'[cur].request = work[cur].request
                       /\ work[cur].request \in DOMAIN log
  BY ItemsStay DEF CallInv, FilledInv
<1>c. cur = Null <=> tpc \in {"loop", "pop", "exited", "joined"}
  BY DEF CallInv, Typed, TypeOK
<1>4. n \notin ToSet(Pending) \cup Finished \cup Refused
  <2>1. n \notin ToSet(Pending)
    BY <1>1, <1>i, <1>a, PendingFacts
  <2>2. QED
    BY <1>1, <2>1 DEF Finished, Refused
<1>5. Pending' = Pending
  <2>1. InHand' = InHand
    BY <1>1, <1>i, <1>c DEF InHand
  <2>2. QED
    BY <1>1, <1>i, <2>1, PendingKept
<1>6. Wanting' = Wanting \cup {n} /\ Finished' = Finished
  BY <1>1, <1>3 DEF Wanting, Finished
<1>7. Refused' \in {Refused, Refused \cup {n}}
  BY <1>1 DEF Refused
<1>8. Called' = Called
  BY <1>1, <1>3 DEF Called
<1>9. Service!Make(n)
  <2>1. Service!New(n)
    BY <1>4 DEF Service!New, Service!ToSet, ToSet, Finished, Refused
  <2>2. UNCHANGED <<Pending, Finished, Called>>
    BY <1>5, <1>6, <1>8
  <2>3. Wanting' \in {Wanting, Wanting \cup {n}}
    BY <1>6
  <2>4. QED
    BY <1>7, <2>1, <2>2, <2>3 DEF Service!Make, Wanting, Finished, Refused, Called
<1>10. QED
  BY <1>9

\* The request that is queued comes last.
LEMMA PushAppends ==
  ASSUME Asks, InHand' = InHand, work' = work, NEW s \in Slots, queue' = Append(queue, s),
         NEW n \in Requests, work[s].request = n
  PROVE  Pending' = Append(Pending, n)
<1>1. /\ queue \in Seq(Slots) /\ InHand \in Seq(Requests) /\ Queued \in Seq(Requests)
      /\ Len(Queued) = Len(queue) /\ Pending = InHand \o Queued
  BY PendingFacts DEF Asks
<1>2. Queued' = Append(Queued, n)
  <2>1. /\ DOMAIN queue' = DOMAIN queue \cup {Len(queue) + 1}
        /\ queue'[Len(queue) + 1] = s /\ Len(queue) + 1 \notin DOMAIN queue
        /\ \A i \in DOMAIN queue : queue'[i] = queue[i]
    BY <1>1, QueueAppended
  <2>2. DOMAIN queue' = 1 .. Len(queue) + 1
    BY <1>1, <2>1
  <2>3. Queued' = [i \in 1 .. Len(queue) + 1 |-> work[queue'[i]].request]
    BY <2>2 DEF Queued
  <2>4. /\ Append(Queued, n) \in Seq(Requests) /\ Len(Append(Queued, n)) = Len(queue) + 1
        /\ Append(Queued, n)[Len(queue) + 1] = n
        /\ \A i \in 1 .. Len(queue) : Append(Queued, n)[i] = Queued[i]
    BY <1>1, AppendProperties
  <2>5. \A i \in 1 .. Len(queue) + 1 : Queued'[i] = Append(Queued, n)[i]
    <3>1. Queued'[Len(queue) + 1] = n
      BY <1>1, <2>1, <2>3
    <3>2. \A i \in 1 .. Len(queue) : Queued'[i] = Queued[i]
      BY <1>1, <2>1, <2>3 DEF Queued
    <3>3. \A i \in 1 .. Len(queue) + 1 : i = Len(queue) + 1 \/ i \in 1 .. Len(queue)
      BY <1>1
    <3>4. QED
      BY <2>4, <3>1, <3>2, <3>3
  <2>6. Queued' \in Seq(Requests) /\ Len(Queued') = Len(queue) + 1
    <3>1. \A i \in 1 .. Len(queue) + 1 : Queued'[i] \in Requests
      BY <1>1, <2>4, <2>5
    <3>2. Len(queue) + 1 \in Nat
      BY <1>1
    <3>3. QED
      BY <2>3, <3>1, <3>2
  <2>7. QED
    BY <2>4, <2>5, <2>6, SeqEqual
<1>3. Pending' = InHand \o Append(Queued, n)
  BY <1>2 DEF Pending, InHand, Queued
<1>4. /\ Append(Queued, n) = Queued \o <<n>>
      /\ Append(Pending, n) = Pending \o <<n>>
      /\ <<n>> \in Seq(Requests)
  BY <1>1, AppendIsConcat, ConcatProperties
<1>5. QED
  BY <1>1, <1>3, <1>4, ConcatAssociative

LEMMA SubmitServes ==
  ASSUME AllCallbacks, CallInv, [Next]_vars, NEW t \in Threads,
         RefusedCallback(t) \/ InitItem(t) \/ PushCalling(t)
  PROVE  \/ \E r \in Requests : Service!Queue(r) \/ Service!Call(r)
         \/ UNCHANGED ServiceVars
<1>a. Asks
  BY CallAsks
<1> USE DEF CallInv
<1>1. UNCHANGED <<cur, tpc>> /\ DOMAIN log' = DOMAIN log
  BY SubmitFrame
<1>i. /\ \A i \in DOMAIN queue : work'[queue[i]].request = work[queue[i]].request
      /\ cur # Null => work'[cur].request = work[cur].request
  BY ItemsStay
<1>c. cur = Null <=> tpc \in {"loop", "pop", "exited", "joined"}
  BY DEF Typed, TypeOK
<1>h. InHand' = InHand
  BY <1>1, <1>i, <1>c DEF InHand
<1>2. CASE /\ sub[t].pc = "refused" /\ UNCHANGED <<work, queue>>
           /\ log' = [log EXCEPT ![sub[t].request].called = @ + 1]
  <2>0. /\ sub[t].request \in DOMAIN log /\ log[sub[t].request].refused
        /\ log[sub[t].request].called = 0
    BY <1>2 DEF SubInv, Prepared, Asking, LogInv
  <2>n. PICK n \in Requests : n = sub[t].request
    BY <2>0, <1>a, PendingFacts
  <2>1. /\ \A r \in DOMAIN log : r # n => log'[r] = log[r]
        /\ log'[n].fn = log[n].fn /\ log'[n].refused = log[n].refused
        /\ log'[n].done = log[n].done /\ log'[n].called = 1
    <3>1. log \in Seq(Records) /\ log[n] \in Records
      BY <2>0, <2>n DEF Typed, TypeOK
    <3>2. log' = [log EXCEPT ![n] = [log[n] EXCEPT !.called = @ + 1]]
      BY <1>2, <2>n
    <3>3. /\ \A r \in DOMAIN log : r # n => log'[r] = log[r]
          /\ log'[n] = [log[n] EXCEPT !.called = @ + 1]
      BY <2>0, <2>n, <3>1, <3>2
    <3>4. log'[n].called = 1
      BY <2>0, <2>n, <3>1, <3>3 DEF Records
    <3>5. /\ log'[n].fn = log[n].fn /\ log'[n].refused = log[n].refused
          /\ log'[n].done = log[n].done
      BY <3>1, <3>3 DEF Records
    <3>6. QED
      BY <3>3, <3>4, <3>5
  <2>2. UNCHANGED <<Wanting, Finished, Refused>>
    BY <1>1, <2>1 DEF Wanting, Finished, Refused
  <2>3. UNCHANGED Pending
    BY <1>2, <1>h, PendingKept
  <2>4. Called' = [Called EXCEPT ![n] = 1] /\ Called[n] = 0
    BY <1>1, <2>0, <2>n, <2>1 DEF Called
  <2>5. n \in Wanting \cap (Finished \cup Refused)
    BY <2>0, <2>n DEF Wanting, Finished, Refused, LogInv
  <2>6. Service!Call(n)
    BY <2>2, <2>3, <2>4, <2>5 DEF Service!Call, Wanting, Finished, Refused, Called
  <2>7. QED
    BY <2>6
<1>3. CASE sub[t].pc = "init" /\ UNCHANGED <<queue, log>>
  <2>1. UNCHANGED Pending
    BY <1>3, <1>h, <1>i, PendingKept
  <2>2. UNCHANGED <<Wanting, Finished, Refused, Called>>
    BY <1>3 DEF Wanting, Finished, Refused, Called
  <2>3. QED
    BY <2>1, <2>2 DEF ServiceVars
<1>4. CASE sub[t].pc = "push" /\ UNCHANGED <<work, log>> /\ queue' = Append(queue, sub[t].slot)
  <2>0. /\ sub[t].request \in DOMAIN log /\ Open(sub[t].request) /\ sub[t].slot \in Slots
        /\ work[sub[t].slot].request = sub[t].request /\ Asking(t)
    BY <1>4 DEF SubInv, Prepared, Asking, Busy, LogInv
  <2>n. PICK n \in Requests : n = sub[t].request
    BY <2>0, <1>a, PendingFacts
  <2>1. n \notin Finished \cup Refused
    BY <2>0, <2>n DEF Open, Finished, Refused
  <2>2. n \notin ToSet(Pending)
    <3>1. SUFFICES ASSUME n \in ToSet(Pending) PROVE FALSE
      OBVIOUS
    <3>2. \/ \E i \in DOMAIN queue : n = work[queue[i]].request
          \/ cur # Null /\ n = work[cur].request
      BY <3>1, <1>a, PendingFacts
    <3>3. QED
      BY <2>0, <2>n, <3>2 DEF ReqInv
  <2>3. Pending' = Append(Pending, n)
    BY <1>4, <1>a, <1>h, <2>0, <2>n, PushAppends
  <2>4. UNCHANGED <<Wanting, Finished, Refused, Called>>
    BY <1>4 DEF Wanting, Finished, Refused, Called
  <2>5. Service!New(n)
    BY <2>1, <2>2 DEF Service!New, Service!ToSet, ToSet, Finished, Refused
  <2>6. Service!Queue(n)
    BY <2>3, <2>4, <2>5 DEF Service!Queue, Wanting, Finished, Refused, Called
  <2>7. QED
    BY <2>6
<1>5. QED
  BY <1>2, <1>3, <1>4, SubmitFrame

\* The item the thread takes was the first that was queued.
LEMMA PopKeepsPending ==
  ASSUME Asks, tpc = "pop", tpc' = "find", queue # <<>>,
         cur' = queue[1], queue' = RemoveAt(queue, 1),
         \A i \in DOMAIN queue : work'[queue[i]].request = work[queue[i]].request
  PROVE  Pending' = Pending
<1>1. /\ queue \in Seq(Slots) /\ Queued \in Seq(Requests) /\ Len(Queued) = Len(queue)
      /\ Pending = InHand \o Queued
  BY PendingFacts DEF Asks
<1>2. Pending = Queued
  <2>1. InHand = <<>>
    BY DEF InHand
  <2>2. QED
    BY <1>1, <2>1, ConcatEmptySeq
<1>3. /\ DOMAIN queue = 1 .. Len(queue) /\ DOMAIN queue' = 1 .. Len(queue) - 1
      /\ \A i \in 1 .. Len(queue) - 1 : queue'[i] = queue[i + 1]
      /\ Len(queue) \in Nat /\ Len(queue) >= 1
  BY <1>1, PopFacts
<1>4. Queued' = [i \in 1 .. Len(queue) - 1 |-> work'[queue'[i]].request]
  BY <1>3 DEF Queued
<1>5. \A i \in 1 .. Len(queue) - 1 : i + 1 \in 1 .. Len(queue) /\ Queued'[i] = Queued[i + 1]
  BY <1>3, <1>4 DEF Queued
<1>6. Queued' \in Seq(Requests) /\ Len(Queued') = Len(queue) - 1
  <2>1. \A i \in 1 .. Len(queue) - 1 : Queued'[i] \in Requests
    BY <1>1, <1>5
  <2>2. Len(queue) - 1 \in Nat
    BY <1>3
  <2>3. QED
    BY <1>4, <2>1, <2>2
<1>7. <<Queued[1]>> \in Seq(Requests)
  BY <1>1, <1>3
<1>8. Pending' = <<Queued[1]>> \o Queued'
  <2>1. InHand' = <<Queued[1]>>
    BY <1>3 DEF InHand, Queued
  <2>2. Pending' = InHand' \o Queued'
    BY DEF Pending, InHand, Queued
  <2>3. QED
    BY <2>1, <2>2
<1>9. /\ Pending' \in Seq(Requests) /\ Len(Pending') = 1 + (Len(queue) - 1)
      /\ \A i \in 1 .. 1 + (Len(queue) - 1) :
           Pending'[i] = IF i <= 1 THEN <<Queued[1]>>[i] ELSE Queued'[i - 1]
  <2>1. Len(<<Queued[1]>>) = 1
    OBVIOUS
  <2>2. QED
    BY <1>6, <1>7, <1>8, <2>1, ConcatProperties
<1>10. ASSUME NEW i \in 1 .. Len(queue) PROVE Pending'[i] = Queued[i]
  <2>1. CASE i = 1
    BY <1>3, <1>9, <2>1
  <2>2. CASE i # 1
    <3>1. i - 1 \in 1 .. Len(queue) - 1 /\ (i - 1) + 1 = i /\ ~(i <= 1)
      BY <1>3, <2>2
    <3>2. Queued'[i - 1] = Queued[i]
      BY <1>5, <3>1
    <3>3. QED
      BY <1>3, <1>9, <3>1, <3>2
  <2>3. QED
    BY <2>1, <2>2
<1>11. Len(Pending') = Len(queue)
  BY <1>3, <1>9
<1>12. QED
  BY <1>1, <1>2, <1>9, <1>10, <1>11, SeqEqual

LEMMA CompleteCarriesOut ==
  ASSUME Asks, cur # Null, UNCHANGED <<cur, queue>>, tpc = "complete", tpc' = "choose",
         \A i \in DOMAIN queue : work'[queue[i]].request = work[queue[i]].request
  PROVE  /\ Pending # <<>> /\ Head(Pending) = work[cur].request
         /\ Pending' = Tail(Pending)
<1> DEFINE h == <<work[cur].request>>
<1>1. /\ Queued \in Seq(Requests) /\ h \in Seq(Requests) /\ Pending = h \o Queued
      /\ Len(h) = 1 /\ h[1] = work[cur].request
  BY PendingFacts DEF InHand
<1>2. Queued' = Queued /\ Pending' = Queued
  <2>1. Queued' = Queued
    BY DEF Queued
  <2>2. Pending' = <<>> \o Queued'
    BY DEF Pending, Queued
  <2>3. QED
    BY <1>1, <2>1, <2>2, ConcatEmptySeq
<1> HIDE DEF h
<1>3. /\ Pending \in Seq(Requests) /\ Len(Pending) = 1 + Len(Queued) /\ Len(Queued) \in Nat
      /\ \A i \in 1 .. 1 + Len(Queued) : Pending[i] = IF i <= 1 THEN h[i] ELSE Queued[i - 1]
  <2>1. /\ h \o Queued \in Seq(Requests) /\ Len(h \o Queued) = Len(h) + Len(Queued)
        /\ \A i \in 1 .. Len(h) + Len(Queued) :
             (h \o Queued)[i] = IF i <= Len(h) THEN h[i] ELSE Queued[i - Len(h)]
    BY <1>1, ConcatProperties
  <2>2. Len(Queued) \in Nat
    BY <1>1
  <2>3. Len(h) = 1 /\ Pending = h \o Queued
    BY <1>1
  <2>4. QED
    BY <2>1, <2>2, <2>3
<1>4. Pending # <<>> /\ Head(Pending) = Pending[1]
  BY <1>3
<1>5. Pending[1] = work[cur].request
  BY <1>1, <1>3
<1>6. /\ Tail(Pending) \in Seq(Requests) /\ Len(Tail(Pending)) = Len(Queued)
      /\ \A i \in 1 .. Len(Queued) : Tail(Pending)[i] = Pending[i + 1]
  BY <1>3, <1>4, HeadTailProperties
<1>7. ASSUME NEW i \in 1 .. Len(Queued) PROVE Tail(Pending)[i] = Queued[i]
  <2>1. i + 1 \in 1 .. 1 + Len(Queued) /\ ~(i + 1 <= 1) /\ (i + 1) - 1 = i
    BY <1>3
  <2>2. Pending[i + 1] = Queued[i]
    BY <1>3, <2>1
  <2>3. QED
    BY <1>6, <2>2
<1>8. Tail(Pending) = Queued
  BY <1>1, <1>6, <1>7, SeqEqual
<1>9. QED
  BY <1>2, <1>4, <1>5, <1>8

LEMMA WorksServes ==
  ASSUME AllCallbacks, CallInv, [Next]_vars, ThreadWorks
  PROVE  \/ Service!CarryOut
         \/ \E r \in Requests : Service!Call(r)
         \/ UNCHANGED ServiceVars
<1>a. Asks
  BY CallAsks
<1> USE DEF CallInv
<1>1. DOMAIN log' = DOMAIN log /\ \A r \in DOMAIN log : log'[r].refused = log[r].refused
  BY WorksFrame
<1>i. /\ \A i \in DOMAIN queue : work'[queue[i]].request = work[queue[i]].request
      /\ cur # Null => work'[cur].request = work[cur].request /\ work[cur].request \in DOMAIN log
  BY ItemsStay DEF FilledInv
<1>2. ASSUME Pending' = Pending, \A r \in DOMAIN log : SameFate(r)
      PROVE  UNCHANGED ServiceVars
  BY <1>1, <1>2, FatesKept DEF ServiceVars
<1>3. CASE /\ tpc = "pop" /\ tpc' = "find"
           /\ queue # <<>> /\ cur' = queue[1] /\ queue' = RemoveAt(queue, 1)
           /\ \A r \in DOMAIN log : SameFate(r)
  BY <1>2, <1>3, <1>i, <1>a, PopKeepsPending
<1>4. CASE /\ cur # Null /\ UNCHANGED <<cur, queue>>
           /\ \/ tpc = "find" /\ tpc' = "device"
              \/ tpc = "device" /\ tpc' = "complete"
              \/ tpc = "choose" /\ tpc' = "callback"
           /\ \A r \in DOMAIN log : SameFate(r)
  <2>1. InHand' = InHand
    BY <1>4, <1>i DEF InHand
  <2>2. QED
    BY <1>2, <1>4, <1>i, <2>1, PendingKept
<1>5. CASE /\ cur # Null /\ UNCHANGED <<cur, queue>>
           /\ tpc = "complete" /\ tpc' = "choose"
           /\ log'[work[cur].request].done
           /\ log'[work[cur].request].fn = log[work[cur].request].fn
           /\ log'[work[cur].request].called = log[work[cur].request].called
           /\ \A r \in DOMAIN log : r # work[cur].request => SameFate(r)
  <2>1. Pending # <<>> /\ Head(Pending) = work[cur].request /\ Pending' = Tail(Pending)
    BY <1>5, <1>i, <1>a, CompleteCarriesOut
  <2>2. UNCHANGED <<Wanting, Refused, Called>>
    BY <1>1, <1>5, <1>i DEF Wanting, Refused, Called, SameFate
  <2>3. Finished' = Finished \cup {work[cur].request}
    BY <1>1, <1>5, <1>i DEF Finished, SameFate
  <2>4. \A r \in Finished \cap Wanting : Called[r] = 1
    <3>1. ASSUME NEW r \in DOMAIN log, log[r].done PROVE log[r].called = 1
      <4>1. log[r].called # 0 /\ log[r].called \in 0 .. 1
        BY <1>5, <3>1 DEF LogInv
      <4>2. QED
        BY <4>1
    <3>2. QED
      BY <3>1, <1>a, PendingFacts DEF Finished, Called
  <2>5. Service!CarryOut
    BY <2>1, <2>2, <2>3, <2>4 DEF Service!CarryOut, Wanting, Finished, Refused, Called
  <2>6. QED
    BY <2>5
<1>6. CASE /\ cur # Null /\ UNCHANGED <<cur, queue>>
           /\ tpc = "callback" /\ tpc' = "called"
           /\ log'[work[cur].request].done = log[work[cur].request].done
           /\ log'[work[cur].request].fn = log[work[cur].request].fn
           /\ log'[work[cur].request].called = log[work[cur].request].called + 1
           /\ \A r \in DOMAIN log : r # work[cur].request => SameFate(r)
  <2>n. PICK n \in Requests : n = work[cur].request
    BY <1>6, <1>i, <1>a, PendingFacts
  <2>0. n \in DOMAIN log /\ log[n].done /\ log[n].called = 0
    BY <1>6, <1>i, <2>n DEF LogInv
  <2>1. log'[n].called = 1
    BY <1>6, <2>n, <2>0
  <2>2. UNCHANGED Pending
    <3>1. InHand' = InHand
      BY <1>6 DEF InHand
    <3>2. QED
      BY <1>6, <1>i, <3>1, PendingKept
  <2>3. UNCHANGED <<Wanting, Finished, Refused>>
    BY <1>1, <1>6, <2>n DEF Wanting, Finished, Refused, SameFate
  <2>4. Called' = [Called EXCEPT ![n] = 1] /\ Called[n] = 0
    BY <1>1, <1>6, <2>n, <2>0, <2>1 DEF Called, SameFate
  <2>5. n \in Wanting \cap (Finished \cup Refused)
    BY <2>0 DEF Wanting, Finished, LogInv
  <2>6. Service!Call(n)
    BY <2>2, <2>3, <2>4, <2>5 DEF Service!Call, Wanting, Finished, Refused, Called
  <2>7. QED
    BY <2>6
<1>7. CASE /\ tpc \in {"called", "free", "release"} /\ tpc' \in {"free", "release", "loop"}
           /\ queue' = queue /\ \A r \in DOMAIN log : SameFate(r)
  <2>1. InHand' = InHand
    BY <1>7 DEF InHand
  <2>2. QED
    BY <1>2, <1>7, <1>i, <2>1, PendingKept
<1>8. QED
  BY <1>3, <1>4, <1>5, <1>6, <1>7, WorksLog

\* Every request with a callback is carried out in the order it was queued,
\* and called back once, before the next one is carried out or on a refusal,
\* whatever the interleaving with stops and restarts of the thread
\* (FileContext.cpp:436-458, 667-786).
THEOREM CallbacksServed ==
  ASSUME AllCallbacks
  PROVE  Spec => RequestSpec
<1>1. Init => Service!Init
  <2> SUFFICES ASSUME Init PROVE Service!Init
    OBVIOUS
  <2>1. Pending = <<>> \o <<>>
    BY DEF Init, ControlInit, Pending
  <2>2. Pending = <<>>
    BY <2>1, ConcatEmptySeq
  <2>3. QED
    BY <2>2 DEF Init, Service!Init
<1>2. CallInv /\ [Next]_vars => [Service!Next]_(Service!vars)
  <2> SUFFICES ASSUME CallInv, [Next]_vars PROVE Service!Next \/ UNCHANGED Service!vars
    OBVIOUS
  <2>1. ASSUME UNCHANGED ServiceVars PROVE UNCHANGED Service!vars
    BY <2>1 DEF ServiceVars, Service!vars, Wanting, Finished, Refused, Called
  <2>2. ASSUME Pause PROVE UNCHANGED ServiceVars
    <3>1. UNCHANGED <<work, queue, cur, log>>
      BY <2>2 DEF Pause
    <3>2. InHand' = InHand
      BY <2>2, <3>1 DEF Pause, InHand
    <3>3. Pending' = Pending
      BY <3>1, <3>2, PendingKept
    <3>4. QED
      BY <3>1, <3>3 DEF ServiceVars, Wanting, Finished, Refused, Called
  <2>3. QED
    BY <2>1, <2>2, AllocMakes, SubmitServes, WorksServes, StepCases DEF CallInv, Service!Next
<1>3. QED
  BY <1>1, <1>2, CallInvariant, PTL DEF Spec, RequestSpec, Service!Spec

-----------------------------------------------------------------------------
(* The buffers that reads allocate.                                        *)

\* Only the item in hand can have one, from its operation to the end of the
\* pass, and until then the request of that item alone is said to have it.
BufferInv ==
  /\ \A s \in Slots \ avail : work[s].buffer = "heap" => s = cur
  /\ tpc \in {"find", "device"} => work[cur].buffer # "heap"
  /\ \A r \in DOMAIN log :
       log[r].heap <=> /\ cur # Null /\ r = work[cur].request
                       /\ work[cur].buffer = "heap" /\ tpc # "release"

LEMMA BufferAlloc ==
  ASSUME AllCallbacks, CallInv, BufferInv, [Next]_vars,
         NEW t \in Threads, NEW f \in DOMAIN Entry, NEW a \in Actions,
         Entry[f].callback, AllocItem(t, f, a)
  PROVE  BufferInv'
<1> USE DEF CallInv
<1>s. /\ work \in [Slots -> Item] /\ avail \subseteq Slots /\ cur \in Slots \cup {Null}
      /\ (cur = Null <=> tpc \in {"loop", "pop", "exited", "joined"})
  BY DEF Typed, TypeOK, Item
<1>1. /\ UNCHANGED <<cur, tpc>> /\ DOMAIN log' = DOMAIN log \cup {Len(log) + 1}
      /\ \A r \in DOMAIN log : log'[r] = log[r]
      /\ Len(log) + 1 \notin DOMAIN log
  BY AllocFrame
<1>h. log'[Len(log) + 1].heap = FALSE
  <2>1. log'[Len(log) + 1] = [fn |-> f, refused |-> avail = {}, done |-> FALSE, called |-> 0, heap |-> FALSE]
    BY AllocFrame
  <2>2. QED
    BY <2>1
<1>2. \A s \in Slots \ avail' : \/ s \notin avail /\ work'[s] = work[s]
                                \/ work'[s].buffer = "null"
  BY <1>s DEF AllocItem, TakeSlot, Constructed
<1>3. cur # Null => work'[cur] = work[cur] /\ work[cur].request \in DOMAIN log
  BY <1>s DEF AllocItem, TakeSlot, SlotInv, FilledInv
<1>4. \A s \in Slots \ avail' : work'[s].buffer = "heap" => s = cur'
  BY <1>1, <1>2 DEF BufferInv
<1>5. tpc' \in {"find", "device"} => work'[cur'].buffer # "heap"
  BY <1>s, <1>1, <1>3 DEF BufferInv
<1>6. ASSUME NEW r \in DOMAIN log'
      PROVE  log'[r].heap <=> /\ cur' # Null /\ r = work'[cur'].request
                              /\ work'[cur'].buffer = "heap" /\ tpc' # "release"
  <2>1. CASE r \in DOMAIN log
    BY <1>1, <1>3, <2>1 DEF BufferInv
  <2>2. CASE r = Len(log) + 1
    BY <1>1, <1>h, <1>3, <2>2
  <2>3. QED
    BY <1>1, <2>1, <2>2
<1>7. QED
  BY <1>4, <1>5, <1>6 DEF BufferInv

LEMMA BufferSubmit ==
  ASSUME AllCallbacks, CallInv, BufferInv, [Next]_vars, NEW t \in Threads,
         RefusedCallback(t) \/ InitItem(t) \/ PushCalling(t)
  PROVE  BufferInv'
<1> USE DEF CallInv
<1>s. /\ work \in [Slots -> Item] /\ log \in Seq(Records) /\ cur \in Slots \cup {Null}
      /\ (cur = Null <=> tpc \in {"loop", "pop", "exited", "joined"})
  BY DEF Typed, TypeOK, Item
<1>1. UNCHANGED <<avail, cur, tpc>> /\ DOMAIN log' = DOMAIN log
  BY SubmitFrame
<1>2. \A r \in DOMAIN log : log'[r].heap = log[r].heap
  <2>1. CASE RefusedCallback(t)
    <3>1. sub[t].request \in DOMAIN log
      BY <2>1 DEF RefusedCallback, SubInv, Prepared, Asking
    <3>2. QED
      BY <1>s, <2>1, <3>1 DEF RefusedCallback, Records
  <2>2. CASE InitItem(t) \/ PushCalling(t)
    BY <2>2 DEF InitItem, PushCalling
  <2>3. QED
    BY <2>1, <2>2
<1>3. /\ \A s \in Slots : work'[s] = work[s] \/ work'[s].buffer # "heap"
      /\ cur # Null => work'[cur] = work[cur]
  <2>1. CASE InitItem(t)
    <3>1. sub[t].slot \in Slots /\ sub[t].slot # cur
      BY <2>1 DEF InitItem, GoSub, SubInv, Prepared, Busy, SlotInv
    <3>2. QED
      BY <1>s, <2>1, <3>1 DEF InitItem
  <2>2. CASE RefusedCallback(t) \/ PushCalling(t)
    BY <2>2 DEF RefusedCallback, PushCalling
  <2>3. QED
    BY <2>1, <2>2
<1>4. QED
  BY <1>s, <1>1, <1>2, <1>3 DEF BufferInv

LEMMA BufferWorks ==
  ASSUME AllCallbacks, CallInv, BufferInv, [Next]_vars, ThreadWorks
  PROVE  BufferInv'
<1> USE DEF CallInv
<1> DEFINE n == work[cur].request
<1>s. /\ work \in [Slots -> Item] /\ log \in Seq(Records) /\ queue \in Seq(Slots)
      /\ cur \in Slots \cup {Null} /\ Null \notin Slots /\ cur \notin avail
      /\ (cur = Null <=> tpc \in {"loop", "pop", "exited", "joined"})
  BY NullAssumption DEF Typed, TypeOK, Item, Slots, SlotInv
<1>q. \A i \in DOMAIN queue : queue[i] \in Slots \ avail /\ queue[i] # cur
  BY <1>s DEF SlotInv
<1>u. cur # Null => n \in DOMAIN log
  BY DEF FilledInv
<1>n. n = work[cur].request
  OBVIOUS
<1> HIDE DEF n
<1>1. CASE PopItem
  <2>1. UNCHANGED <<avail, work, log>> /\ cur = Null /\ cur' = queue[1] /\ queue # <<>> /\ tpc' = "find"
    BY <1>1, <1>s DEF PopItem, First, GoThread
  <2>2. 1 \in DOMAIN queue
    BY <1>s, <2>1
  <2>3. \A s \in Slots \ avail : work[s].buffer # "heap"
    BY <1>s, <2>1 DEF BufferInv
  <2>4. QED
    BY <1>s, <1>q, <2>1, <2>2, <2>3 DEF BufferInv
<1>2. CASE FindMount \/ Choose
  <2>1. UNCHANGED <<avail, work, log, cur>>
    BY <1>2 DEF FindMount, Choose
  <2>2. \/ tpc = "find" /\ tpc' = "device"
        \/ tpc = "choose" /\ tpc' \in {"callback", "notify"}
    BY <1>2 DEF FindMount, Choose, GoThread
  <2>3. QED
    BY <2>1, <2>2 DEF BufferInv
<1>3. CASE RunOperation
  <2>1. PICK heap \in BOOLEAN :
          /\ work' = IF heap THEN [work EXCEPT ![cur].buffer = "heap"] ELSE work
          /\ log' = [log EXCEPT ![n].heap = heap]
    BY <1>3 DEF RunOperation, n
  <2>2. UNCHANGED <<avail, cur>> /\ tpc = "device" /\ tpc' = "complete" /\ cur \in Slots
    BY <1>3, <1>s DEF RunOperation, GoThread
  <2>3. /\ DOMAIN log' = DOMAIN log /\ n \in DOMAIN log
        /\ log'[n].heap = heap /\ \A r \in DOMAIN log : r # n => log'[r] = log[r]
    BY <1>s, <1>u, <2>1, <2>2 DEF Records
  <2>4. /\ \A s \in Slots : s # cur => work'[s] = work[s]
        /\ work'[cur].request = n /\ (work'[cur].buffer = "heap" <=> heap)
    BY <1>s, <1>n, <2>1, <2>2 DEF Item, BufferInv
  <2>5. \A s \in Slots \ avail' : work'[s].buffer = "heap" => s = cur'
    BY <2>2, <2>4 DEF BufferInv
  <2>6. ASSUME NEW r \in DOMAIN log'
        PROVE  log'[r].heap <=> /\ cur' # Null /\ r = work'[cur'].request
                                /\ work'[cur'].buffer = "heap" /\ tpc' # "release"
    <3>1. CASE r = n
      BY <1>s, <2>2, <2>3, <2>4, <3>1
    <3>2. CASE r # n
      BY <1>n, <2>2, <2>3, <2>4, <3>2 DEF BufferInv
    <3>3. QED
      BY <3>1, <3>2
  <2>7. QED
    BY <2>2, <2>5, <2>6 DEF BufferInv
\* The steps that leave the buffers and what is said of them alone.
<1>4. CASE Complete \/ Callback
  <2>1. UNCHANGED <<avail, cur>> /\ tpc' \in {"choose", "called"} /\ cur \in Slots
        /\ tpc \in {"complete", "callback"}
    BY <1>4, <1>s DEF Complete, Callback, GoThread
  <2>2. DOMAIN log' = DOMAIN log /\ \A r \in DOMAIN log : log'[r].heap = log[r].heap
    <3>1. n \in DOMAIN log /\ log[n] \in Records
      BY <1>s, <1>u, <2>1
    <3>2. \/ log' = [log EXCEPT ![n] = [log[n] EXCEPT !.done = TRUE]]
          \/ log' = [log EXCEPT ![n] = [log[n] EXCEPT !.called = @ + 1]]
      BY <1>4 DEF Complete, Completes, Callback, n
    <3>3. /\ [log[n] EXCEPT !.done = TRUE].heap = log[n].heap
          /\ [log[n] EXCEPT !.called = @ + 1].heap = log[n].heap
      BY <3>1 DEF Records
    <3>4. QED
      BY <1>s, <3>1, <3>2, <3>3
  <2>3. \A s \in Slots : work'[s].request = work[s].request /\ work'[s].buffer = work[s].buffer
    <3>1. work' = work \/ work' = [work EXCEPT ![cur].completed = TRUE]
      BY <1>4 DEF Complete, Completes, Callback
    <3>2. QED
      BY <1>s, <2>1, <3>1 DEF Item
  <2>4. QED
    BY <1>s, <2>1, <2>2, <2>3 DEF BufferInv
<1>5. CASE CallbackReturns
  <2>1. UNCHANGED <<avail, cur, work>> /\ tpc = "called" /\ cur \in Slots
        /\ tpc' = IF Frees THEN "free" ELSE "release"
    BY <1>5, <1>s DEF CallbackReturns, GoThread
  <2>2. /\ DOMAIN log' = DOMAIN log /\ n \in DOMAIN log
        /\ \A r \in DOMAIN log : r # n => log'[r] = log[r]
        /\ log'[n].heap <=> log[n].heap /\ Frees
    <3>1. log' = [log EXCEPT ![n].heap = @ /\ work[cur].action = "LFS_FREE_BUFFER"]
      BY <1>5 DEF CallbackReturns, n
    <3>2. n \in DOMAIN log /\ log[n] \in Records
      BY <1>s, <1>u, <2>1
    <3>3. log'[n] = [log[n] EXCEPT !.heap = @ /\ work[cur].action = "LFS_FREE_BUFFER"]
      BY <1>s, <3>1, <3>2
    <3>4. log'[n].heap = (log[n].heap /\ work[cur].action = "LFS_FREE_BUFFER")
      BY <3>2, <3>3 DEF Records
    <3>5. QED
      BY <1>s, <3>1, <3>2, <3>4 DEF Frees
  <2>3. ASSUME NEW r \in DOMAIN log'
        PROVE  log'[r].heap <=> /\ cur' # Null /\ r = work'[cur'].request
                                /\ work'[cur'].buffer = "heap" /\ tpc' # "release"
    <3>1. log[r].heap <=> r = n /\ work[cur].buffer = "heap"
      BY <1>s, <1>n, <2>1, <2>2 DEF BufferInv
    <3>2. log'[r].heap <=> r = n /\ work[cur].buffer = "heap" /\ Frees
      BY <2>2, <3>1
    <3>3. QED
      BY <1>s, <1>n, <2>1, <3>2
  <2>4. QED
    BY <2>1, <2>3 DEF BufferInv
<1>6. CASE ThreadFreeBuffer
  <2>1. UNCHANGED <<avail, cur>> /\ tpc = "free" /\ tpc' = "release" /\ cur \in Slots
    BY <1>6, <1>s DEF ThreadFreeBuffer, GoThread
  <2>2. \A s \in Slots : s # cur => work'[s] = work[s]
    BY <1>6, <1>s DEF ThreadFreeBuffer, FreeBuffer
  <2>3. DOMAIN log' = DOMAIN log /\ \A r \in DOMAIN log : ~log'[r].heap
    <3>1. CASE work[cur].buffer = "heap"
      <4>1. log' = [log EXCEPT ![n].heap = FALSE]
        BY <1>6, <3>1 DEF ThreadFreeBuffer, FreeBuffer, n
      <4>2. \A r \in DOMAIN log : r # n => ~log[r].heap
        BY <1>n DEF BufferInv
      <4>3. QED
        BY <1>s, <4>1, <4>2 DEF Records
    <3>2. CASE work[cur].buffer # "heap"
      <4>1. log' = log
        BY <1>6, <3>2 DEF ThreadFreeBuffer, FreeBuffer
      <4>2. QED
        BY <3>2, <4>1 DEF BufferInv
    <3>3. QED
      BY <3>1, <3>2
  <2>4. QED
    BY <2>1, <2>2, <2>3 DEF BufferInv
<1>7. CASE ThreadRelease
  <2>1. /\ UNCHANGED <<work, log>> /\ tpc = "release" /\ tpc' = "loop" /\ cur' = Null
        /\ avail' = avail \cup {cur}
    BY <1>7 DEF ThreadRelease, GoThread, Returned
  <2>2. QED
    BY <2>1 DEF BufferInv
<1>8. QED
  BY <1>1, <1>2, <1>3, <1>4, <1>5, <1>6, <1>7 DEF ThreadWorks

LEMMA BufferStep ==
  ASSUME AllCallbacks, CallInv, BufferInv, [Next]_vars
  PROVE  BufferInv'
<1>1. ASSUME Pause PROVE BufferInv'
  <2>1. UNCHANGED <<avail, work, cur, log>>
    BY <1>1 DEF Pause
  <2>2. tpc' = tpc \/ (tpc' \in {"loop", "pop", "exited", "joined"} /\ cur = Null)
    BY <1>1 DEF Pause, CallInv, Typed, TypeOK
  <2>3. QED
    BY <2>1, <2>2 DEF BufferInv
<1>2. QED
  BY <1>1, BufferAlloc, BufferSubmit, BufferWorks, StepCases DEF CallInv

\* The buffer a read allocated hangs on the item the thread carries out until
\* it is freed or left to the callback's caller, and no other item in use
\* points to one (FileContext.cpp:106-111, 778-781).
THEOREM CallbackBuffersInReach ==
  ASSUME AllCallbacks
  PROVE  Spec => []BuffersInReach
<1>1. Init => BufferInv
  BY DEF Init, ControlInit, BufferInv
<1>2. CallInv /\ BufferInv /\ [Next]_vars => BufferInv'
  BY BufferStep
<1>3. CallInv /\ BufferInv => BuffersInReach
  <2> SUFFICES ASSUME CallInv, BufferInv, NEW r \in DOMAIN log
               PROVE  log[r].heap <=>
                        \E s \in Slots : /\ InUse(s, r) /\ work[s].buffer = "heap"
                                         /\ ~(tpc = "release" /\ cur = s)
    BY DEF BuffersInReach
  <2>1. cur \in Slots \cup {Null} /\ cur \notin avail /\ Null \notin Slots
    BY NullAssumption DEF CallInv, Typed, TypeOK, SlotInv, Slots
  <2>2. QED
    BY <2>1 DEF BufferInv, InUse
<1>4. QED
  BY <1>1, <1>2, <1>3, CallInvariant, PTL DEF Spec
-----------------------------------------------------------------------------
\* The processing thread submits only from a callback it runs.
InCallback == sub[Worker].pc \notin {"none", "answered"} => tpc = "called"

LEMMA InCallbackStep ==
  ASSUME TypeOK, InCallback, [Next]_vars
  PROVE  InCallback'
<1>w. sub \in [Threads -> Call] /\ Worker \in Threads /\ Clients \subseteq Threads /\ Worker \notin Clients
  BY ClientsAssumption DEF TypeOK, Call, Threads
<1>n. NotSubmitting.pc = "none" /\ Answered.pc = "answered"
  BY DEF NotSubmitting, Answered
<1>1. ASSUME sub'[Worker] = sub[Worker], tpc = "called" => tpc' = "called"
      PROVE  InCallback'
  BY <1>1 DEF InCallback
<1>2. ASSUME NEW c \in Clients, SubmitStep(c) PROVE InCallback'
  <2>1. sub'[Worker] = sub[Worker] /\ tpc' = tpc
    BY <1>w, <1>2 DEF SubmitStep, RefusedCallback, InitItem, PushItem, CorrectOp, Return, GoSub, threadVars
  <2>2. QED
    BY <1>1, <2>1
<1>3. ASSUME NEW c \in Clients, Submit(c) \/ NestedSubmit(c) PROVE InCallback'
  <2>1. PICK f, a : AllocItem(c, f, a)
    BY <1>3 DEF Submit, NestedSubmit
  <2>2. sub'[Worker] = sub[Worker] /\ tpc' = tpc
    BY <1>w, <2>1 DEF AllocItem, threadVars
  <2>3. QED
    BY <1>1, <2>2
<1>4. ASSUME NestedSubmit(Worker) PROVE InCallback'
  <2>1. tpc' = "called"
    BY <1>4 DEF NestedSubmit, AllocItem, threadVars
  <2>2. QED
    BY <2>1 DEF InCallback
<1>5. ASSUME SubmitStep(Worker) PROVE InCallback'
  <2>1. sub[Worker].pc \in {"refused", "init", "push", "correct"} /\ tpc' = tpc
    BY <1>5 DEF SubmitStep, RefusedCallback, InitItem, PushItem, CorrectOp, GoSub, threadVars
  <2>2. QED
    BY <2>1 DEF InCallback
<1>6. ASSUME Pause PROVE InCallback'
  BY <1>1, <1>6 DEF Pause
<1>7. ASSUME CallbackReturns PROVE InCallback'
  BY <1>n, <1>7 DEF CallbackReturns, Ready, InCallback
<1>8. ASSUME NEW c \in Clients, \/ Await(c) \/ SpuriousWake(c) \/ ClientFreeBuffer(c)
                                \/ ReleaseWorkItem(c) \/ AwaitTest(c)
      PROVE  InCallback'
  BY <1>1, <1>8 DEF Await, SpuriousWake, ClientFreeBuffer, ReleaseWorkItem, AwaitTest, threadVars
<1>9. ASSUME PopItem \/ FindMount \/ RunOperation \/ Complete \/ Choose \/ Callback
             \/ ThreadFreeBuffer \/ ThreadRelease \/ NotifyAll
      PROVE  InCallback'
  BY <1>1, <1>9 DEF PopItem, FindMount, RunOperation, Complete, Choose, Callback,
                    ThreadFreeBuffer, ThreadRelease, NotifyAll, GoThread
<1>10. Pausing => Pause
  BY Pauses
<1>11. ASSUME NEW c \in Clients, ClientStep(c) PROVE InCallback'
  BY <1>2, <1>6, <1>8, <1>10, <1>11 DEF ClientStep, Pausing
<1>12. ASSUME ThreadStep PROVE InCallback'
  BY <1>5, <1>6, <1>7, <1>9, <1>10, <1>12 DEF ThreadStep, Pausing
<1>13. QED
  BY <1>3, <1>4, <1>6, <1>8, <1>10, <1>11, <1>12 DEF Next, Quiescent, Pausing, Threads

\* The queue, the item in hand and the one that is pushed have a slot each.
LEMMA SlotsTaken ==
  ASSUME CallInv, InCallback, Stuck
  PROVE  Capacity + 2 <= PoolSize
<1> DEFINE n == Len(queue)
           x == sub[Worker].slot
           e == [i \in 1 .. n + 2 |-> IF i <= n THEN queue[i] ELSE IF i = n + 1 THEN cur ELSE x]
<1>1. /\ queue \in Seq(Slots) /\ n \in Nat /\ n = Capacity /\ DOMAIN queue = 1 .. n
      /\ sub[Worker].pc = "push"
  BY DEF Stuck, CallInv, Typed, TypeOK
<1>2. cur \in Slots
  <2>1. tpc = "called"
    BY <1>1 DEF InCallback
  <2>2. QED
    BY <2>1 DEF CallInv, Typed, TypeOK
<1>3. Busy(Worker) /\ Worker \in Threads /\ x \in Slots
  BY <1>1 DEF Busy, Threads, CallInv, SubInv, Prepared
<1>4. /\ x # cur
      /\ \A i \in 1 .. n : queue[i] \in Slots /\ queue[i] # cur /\ queue[i] # x
      /\ \A i, j \in 1 .. n : queue[i] = queue[j] => i = j
  BY <1>1, <1>3 DEF CallInv, SlotInv
<1> HIDE DEF x
<1>5. e \in Injection(1 .. n + 2, Slots)
  <2>1. \A i \in 1 .. n + 2 : i \in 1 .. n \/ i = n + 1 \/ i = n + 2
    BY <1>1
  <2>2. e \in [1 .. n + 2 -> Slots]
    BY <1>1, <1>2, <1>3, <1>4, <2>1
  <2>3. \A i, j \in 1 .. n + 2 : e[i] = e[j] => i = j
    BY <1>1, <1>4, <2>1
  <2>4. QED
    BY <2>2, <2>3 DEF Injection, IsInjective
<1>6. IsFiniteSet(Slots) /\ Cardinality(Slots) = PoolSize
  <2>1. 0 \in Int /\ PoolSize - 1 \in Int /\ 0 <= PoolSize - 1 + 1 /\ PoolSize \in Nat \ {0}
    BY SizeAssumption
  <2>2. QED
    BY <2>1, FS_Interval DEF Slots
<1>7. IsFiniteSet(1 .. n + 2) /\ Cardinality(1 .. n + 2) = n + 2
  <2>1. n + 2 \in Int /\ 1 \in Int /\ 1 <= n + 2 + 1
    BY <1>1
  <2>2. QED
    BY <2>1, FS_Interval
<1>8. Cardinality(1 .. n + 2) <= Cardinality(Slots)
  BY <1>5, <1>6, FS_Injection
<1>9. QED
  BY <1>1, <1>6, <1>7, <1>8

\* A callback that submits never waits for the thread it runs on where the
\* pool has at most one item more than the queue has places: the other items
\* fit.  The defaults of FileContext.h:104, 1024 items and 128 places, are far
\* from it (RingBuffer.h:42-49, FileContext.cpp:436-458, 775-776).
THEOREM CallbacksFindRoom ==
  ASSUME AllCallbacks, PoolSize <= Capacity + 1
  PROVE  Spec => []~Stuck
<1>1. Init => InCallback
  BY ClientsAssumption DEF Init, InCallback, NotSubmitting, Threads
<1>2. CallInv /\ InCallback /\ [Next]_vars => InCallback'
  BY InCallbackStep DEF CallInv, Typed
<1>3. CallInv /\ InCallback => ~Stuck
  <2>1. PoolSize \in Nat /\ Capacity \in Nat
    BY SizeAssumption
  <2>2. QED
    BY <2>1, SlotsTaken
<1>4. QED
  BY <1>1, <1>2, <1>3, CallInvariant, PTL DEF Spec
=============================================================================
