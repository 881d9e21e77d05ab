-------------------------- MODULE WaitedItemsProofs --------------------------
(***************************************************************************)
(* For any number of clients, slots and places in the queue: what becomes  *)
(* of the slots of a context whose clients submit without callbacks and    *)
(* wait for their items.                                                   *)
(***************************************************************************)
EXTENDS WorkItemsProofs, FiniteSetTheorems

\* The first method of ownership of FileContext.h:97-98.
AllWaited == \A call \in Calls : ~Entry[Function(call)].callback

-----------------------------------------------------------------------------
\* The items of a client that were queued, in that order: writeFile() has yet
\* to return the last one while it corrects the operation.
Line(c) ==
  IF sub[c].pc = "correct" THEN Append(client[c].mine, sub[c].slot) ELSE client[c].mine

\* The item the thread works on, until it completes.
Hand == IF tpc \in {"find", "device", "complete"} THEN cur ELSE Null

\* A client that submits has a slot, and one that waits for nothing no target.
Proper(c) ==
  /\ sub[c].pc \notin {"refused", "answered"}
  /\ sub[c].pc # "none" => /\ sub[c].fn \in DOMAIN Entry /\ Entry[sub[c].fn].callback = FALSE
                           /\ sub[c].slot \in Slots /\ sub[c].action \in Actions
  /\ sub[c].pc = "push" => work[sub[c].slot].completed = FALSE
  /\ client[c].pc = "idle" => client[c].target = 0

Types ==
  /\ TypeOK
  /\ sub[Worker].pc = "none"
  /\ tpc \in {"loop", "pop", "find", "device", "complete", "choose", "notify", "exited", "joined"}
  /\ \A s \in Slots : work[s].callback = FALSE
  /\ \A c \in Clients : Proper(c)

\* The pool, the clients that submit and the items they hold share the slots.
Shares ==
  /\ \A c \in Clients : \A i \in DOMAIN Line(c) : Line(c)[i] \in Slots \ avail
  /\ \A c, d \in Clients : \A i \in DOMAIN Line(c), j \in DOMAIN Line(d) :
       Line(c)[i] = Line(d)[j] => c = d /\ i = j
  /\ \A c \in Clients : Busy(c) => sub[c].slot \in Slots \ avail
  /\ \A c, d \in Clients : Busy(c) /\ Busy(d) /\ sub[c].slot = sub[d].slot => c = d
  /\ \A c, d \in Clients : \A i \in DOMAIN Line(c) : Busy(d) => Line(c)[i] # sub[d].slot
  /\ \A s \in Slots : \/ s \in avail
                      \/ \E c \in Clients : Busy(c) /\ sub[c].slot = s
                      \/ \E c \in Clients : \E i \in DOMAIN Line(c) : Line(c)[i] = s

Held(s) == \E c \in Clients : \E i \in DOMAIN Line(c) : Line(c)[i] = s

\* The items that are not completed are in the queue or the thread's hand.
Flight ==
  /\ \A p \in DOMAIN queue : /\ Held(queue[p]) /\ work[queue[p]].completed = FALSE
                             /\ queue[p] # Hand
  /\ \A p, q \in DOMAIN queue : queue[p] = queue[q] => p = q
  /\ Hand # Null => Held(Hand) /\ work[Hand].completed = FALSE
  /\ \A c \in Clients : \A i \in DOMAIN Line(c) :
       \/ work[Line(c)[i]].completed
       \/ Line(c)[i] = Hand
       \/ \E p \in DOMAIN queue : queue[p] = Line(c)[i]

\* The items of a client complete in the order it queued them.
Order ==
  \A c \in Clients : \A i, j \in DOMAIN Line(c) : i < j =>
    /\ work[Line(c)[j]].completed => work[Line(c)[i]].completed
    /\ Line(c)[j] = Hand => work[Line(c)[i]].completed
    /\ \A p, q \in DOMAIN queue : queue[p] = Line(c)[i] /\ queue[q] = Line(c)[j] => p < q

WaitInv == Types /\ Shares /\ Flight /\ Order /\ WaitForLast

-----------------------------------------------------------------------------
(* What a step does to the slots.                                          *)

\* Client d goes on as it was.
SameLine(d) ==
  /\ Line(d)' = Line(d) /\ (Busy(d)' <=> Busy(d)) /\ (Busy(d) => sub'[d].slot = sub[d].slot)

SameCompleted(s) == work'[s].completed = work[s].completed

Take(c) ==
  /\ ~Busy(c) /\ Busy(c)' /\ sub'[c].slot \in avail /\ avail' = avail \ {sub'[c].slot}
  /\ Line(c)' = Line(c) /\ \A d \in Clients \ {c} : SameLine(d)
  /\ \A s \in Slots : s # sub'[c].slot => SameCompleted(s)
  /\ UNCHANGED <<queue, Hand>>

Fill(c) ==
  /\ Busy(c) /\ \A d \in Clients : SameLine(d)
  /\ \A s \in Slots : s # sub[c].slot => SameCompleted(s)
  /\ UNCHANGED <<avail, queue, Hand>>

Hang(c) ==
  /\ sub[c].pc = "push" /\ ~Busy(c)' /\ Line(c)' = Append(Line(c), sub[c].slot)
  /\ \A d \in Clients \ {c} : SameLine(d)
  /\ queue' = Append(queue, sub[c].slot)
  /\ \A s \in Slots : SameCompleted(s)
  /\ UNCHANGED <<avail, Hand>>

Drop(c) ==
  /\ \E i \in DOMAIN Line(c) :
       /\ work[Line(c)[i]].completed
       /\ Line(c)' = RemoveAt(Line(c), i) /\ avail' = avail \cup {Line(c)[i]}
  /\ (Busy(c)' <=> Busy(c)) /\ (Busy(c) => sub'[c].slot = sub[c].slot)
  /\ \A d \in Clients \ {c} : SameLine(d)
  /\ \A s \in Slots : SameCompleted(s)
  /\ UNCHANGED <<queue, Hand>>

Still == (\A d \in Clients : SameLine(d)) /\ avail' = avail

Pick ==
  /\ Still /\ queue # <<>> /\ queue' = RemoveAt(queue, 1)
  /\ Hand = Null /\ Hand' = queue[1]
  /\ \A s \in Slots : SameCompleted(s)

Finish ==
  /\ Still /\ Hand # Null /\ Hand' = Null /\ queue' = queue
  /\ work'[Hand].completed
  /\ \A s \in Slots : s # Hand => SameCompleted(s)

Keep == Still /\ UNCHANGED <<queue, Hand>> /\ \A s \in Slots : SameCompleted(s)

-----------------------------------------------------------------------------
(* The steps such a context can take.                                      *)

WaitedAlloc(c, f, a) == Entry[f].callback = FALSE /\ AllocItem(c, f, a)

ClientSubmits(c) ==
  \/ \E f \in DOMAIN Entry, a \in Actions : WaitedAlloc(c, f, a)
  \/ InitItem(c) \/ PushItem(c) \/ CorrectOp(c)

ClientWaits(c) ==
  Await(c) \/ AwaitTest(c) \/ SpuriousWake(c) \/ ClientFreeBuffer(c) \/ ReleaseWorkItem(c)

ThreadRuns == PopItem \/ FindMount \/ RunOperation \/ Complete \/ Choose \/ NotifyAll

LEMMA WaitedCases ==
  ASSUME AllWaited, Types, [Next]_vars
  PROVE  \/ \E c \in Clients : ClientSubmits(c) \/ ClientWaits(c)
         \/ ThreadRuns \/ Pause
<1>1. ASSUME NEW c \in Clients, Submit(c) PROVE ClientSubmits(c)
  <2>1. PICK call \in Calls : \E a \in ActionsOf(Function(call)) : AllocItem(c, Function(call), a)
    BY <1>1 DEF Submit
  <2>2. Function(call) \in DOMAIN Entry /\ Entry[Function(call)].callback = FALSE
    BY EntryFacts, AllWaited DEF AllWaited
  <2>3. QED
    BY <2>1, <2>2, ActionsFacts DEF ClientSubmits, WaitedAlloc
<1>2. ASSUME NEW c \in Clients PROVE ~RefusedCallback(c)
  BY DEF Types, Proper, RefusedCallback
<1>3. ~SubmitStep(Worker)
  BY DEF Types, SubmitStep, RefusedCallback, InitItem, PushItem, CorrectOp, GoSub
<1>4. ~Callback /\ ~CallbackReturns /\ ~ThreadFreeBuffer /\ ~ThreadRelease
  BY DEF Types, Callback, CallbackReturns, ThreadFreeBuffer, ThreadRelease, GoThread
<1>5. ASSUME NEW t \in Threads PROVE ~NestedSubmit(t)
  BY DEF Types, Proper, NestedSubmit, Answered, NotSubmitting, Threads
<1>6. Pausing => Pause
  BY Pauses DEF Types
<1>7. ASSUME NEW c \in Clients, ClientStep(c) PROVE ClientSubmits(c) \/ ClientWaits(c) \/ Pause
  BY <1>2, <1>6, <1>7 DEF ClientStep, SubmitStep, ClientSubmits, ClientWaits, Pausing
<1>8. QED
  BY <1>1, <1>3, <1>4, <1>5, <1>6, <1>7
     DEF Next, ThreadStep, ThreadRuns, ClientWaits, Quiescent, Pausing

-----------------------------------------------------------------------------
(* Types.                                                                  *)

ClientState == [pc : {"idle", "await", "blocked"},
                mine : Seq(Slots), seen : 0 .. PoolSize, target : 0 .. PoolSize]

\* A sequence that may have another element at one place.
LEMMA ExceptStays ==
  ASSUME NEW S, NEW s \in Seq(S), NEW x, NEW e, x \in DOMAIN s => e \in S
  PROVE  [s EXCEPT ![x] = e] \in Seq(S) /\ Len([s EXCEPT ![x] = e]) = Len(s)
<1>1. CASE x \in DOMAIN s
  BY <1>1
<1>2. CASE x \notin DOMAIN s
  <2>1. [s EXCEPT ![x] = e] = s
    BY <1>2
  <2>2. QED
    BY <2>1
<1>3. QED
  BY <1>1, <1>2

\* No client holds more items than the pool has.
LEMMA FewItems ==
  ASSUME Types, Shares, NEW c \in Clients
  PROVE  Len(client[c].mine) \in 0 .. PoolSize
<1> DEFINE m == client[c].mine
<1>1. m \in Seq(Slots) /\ Len(m) \in Nat
  BY DEF Types, TypeOK
<1>2. \A i \in 1 .. Len(m) : i \in DOMAIN Line(c) /\ Line(c)[i] = m[i]
  BY <1>1 DEF Line, Types
<1>3. \A i, j \in 1 .. Len(m) : m[i] = m[j] => i = j
  BY <1>2 DEF Shares
<1>4. m \in Injection(1 .. Len(m), Slots)
  <2>1. m \in [1 .. Len(m) -> Slots]
    BY <1>1
  <2>2. QED
    BY <1>3, <2>1 DEF Injection, IsInjective
<1>5. IsFiniteSet(Slots) /\ Cardinality(Slots) = PoolSize
  <2>1. 0 \in Int /\ PoolSize - 1 \in Int /\ 0 <= PoolSize - 1 + 1 /\ PoolSize \in Nat \ {0}
    BY SizeAssumption
  <2>2. QED
    BY <2>1, FS_Interval DEF Slots
<1>6. IsFiniteSet(1 .. Len(m)) /\ Cardinality(1 .. Len(m)) = Len(m)
  BY <1>1, FS_Interval
<1>7. Cardinality(1 .. Len(m)) <= Cardinality(Slots)
  BY <1>4, <1>5, FS_Injection
<1>8. QED
  BY <1>1, <1>5, <1>6, <1>7, SizeAssumption

LEMMA TypeFacts ==
  ASSUME Types
  PROVE  /\ work \in [Slots -> Item] /\ sub \in [Threads -> Call] /\ client \in [Clients -> ClientState]
         /\ log \in Seq(Records) /\ Len(log) <= MaxRequests /\ MaxRequests \in Nat
         /\ queue \in Seq(Slots) /\ Len(queue) <= Capacity /\ Capacity \in Nat /\ PoolSize \in Nat
         /\ avail \subseteq Slots /\ cur \in Slots \cup {Null} /\ Null \notin Slots
         /\ (cur = Null <=> tpc \in {"loop", "pop", "exited", "joined"})
         /\ Clients \subseteq Threads /\ Worker \in Threads /\ Worker \notin Clients
         /\ \A c \in Clients : /\ {client[c].seen, client[c].target} \subseteq 0 .. Len(client[c].mine)
                               /\ Len(client[c].mine) \in Nat /\ client[c].mine \in Seq(Slots)
<1>1. \A c \in Clients : client[c] \in ClientState
  BY DEF Types, TypeOK, ClientState
<1>2. \A c \in Clients : client[c].mine \in Seq(Slots) /\ Len(client[c].mine) \in Nat
  BY <1>1 DEF ClientState
<1>3. QED
  BY <1>2, SizeAssumption, NullAssumption, ClientsAssumption
     DEF Types, TypeOK, Item, Call, ClientState, Slots, Threads

LEMMA WaitInit == Init => WaitInv
<1> SUFFICES ASSUME Init PROVE WaitInv
  OBVIOUS
<1>1. TypeOK
  BY CallInit DEF CallInv, Typed
<1>2. Types
  BY <1>1, ClientsAssumption DEF Types, Proper, Init, ControlInit, NotSubmitting, Constructed, Threads
<1>3. \A c \in Clients : ~Busy(c) /\ Line(c) = <<>> /\ DOMAIN Line(c) = {}
  <2>1. \A c \in Clients : sub[c] = NotSubmitting /\ client[c].mine = <<>>
    BY DEF Init, Threads
  <2>2. DOMAIN <<>> = {}
    OBVIOUS
  <2>3. QED
    BY <2>1, <2>2 DEF Line, Busy, NotSubmitting
<1>4. Shares
  BY <1>3 DEF Shares, Init
<1>5. Flight /\ Order
  <2>1. DOMAIN queue = {} /\ Hand = Null
    BY DEF Init, ControlInit, Hand
  <2>2. QED
    BY <1>3, <2>1 DEF Flight, Order
<1>6. WaitForLast
  BY DEF Init, WaitForLast
<1>7. QED
  BY <1>2, <1>4, <1>5, <1>6 DEF WaitInv

LEMMA TypesSubmit ==
  ASSUME Types, NEW c \in Clients, ClientSubmits(c)
  PROVE  Types'
<1>s. /\ work \in [Slots -> Item] /\ sub \in [Threads -> Call] /\ client \in [Clients -> ClientState]
      /\ log \in Seq(Records) /\ Len(log) <= MaxRequests /\ MaxRequests \in Nat
      /\ queue \in Seq(Slots) /\ Len(queue) <= Capacity /\ Capacity \in Nat /\ PoolSize \in Nat
      /\ avail \subseteq Slots /\ c \in Threads /\ c # Worker
      /\ Clients \subseteq Threads /\ Worker \in Threads
      /\ \A d \in Clients : Proper(d)
  BY TypeFacts DEF Types
<1>n. NotSubmitting \in Call /\ NotSubmitting.pc = "none"
  BY DEF NotSubmitting, Call
<1>1. ASSUME NEW f \in DOMAIN Entry, NEW a \in Actions, WaitedAlloc(c, f, a)
      PROVE  Types'
  <2> USE <1>1
  <2>1. log' \in Seq(Records) /\ Len(log') <= MaxRequests
    <3>1. [fn |-> f, refused |-> avail = {}, done |-> FALSE, called |-> 0, heap |-> FALSE] \in Records
      BY DEF Records
    <3>2. QED
      BY <1>s, <3>1 DEF WaitedAlloc, AllocItem
  <2>2. Constructed \in Item /\ Constructed.callback = FALSE /\ Constructed.completed = FALSE
    BY EntryFacts DEF Constructed, Item, Actions
  <2>3. /\ work' \in [Slots -> Item]
        /\ \A s \in Slots : work'[s] = work[s] \/ work'[s] = Constructed
    BY <1>s, <2>2 DEF WaitedAlloc, AllocItem
  <2>4. /\ sub' \in [Threads -> Call]
        /\ \A d \in Threads : d # c => sub'[d] = sub[d]
        /\ \/ sub'[c] = NotSubmitting
           \/ /\ sub'[c].pc = "init" /\ sub'[c].fn = f /\ sub'[c].action = a
              /\ sub'[c].slot \in Slots
    <3>1. Len(log) + 1 \in Requests
      BY <1>s DEF WaitedAlloc, AllocItem, Requests
    <3>2. \A s \in Slots :
            [pc |-> "init", fn |-> f, action |-> a, request |-> Len(log) + 1, slot |-> s] \in Call
      BY <3>1 DEF Call
    <3>3. \/ sub' = [sub EXCEPT ![c] = NotSubmitting]
          \/ \E s \in avail : sub' = [sub EXCEPT ![c] =
               [pc |-> "init", fn |-> f, action |-> a, request |-> Len(log) + 1, slot |-> s]]
      BY DEF WaitedAlloc, AllocItem
    <3>4. QED
      BY <1>s, <1>n, <3>2, <3>3
  <2>5. avail' \subseteq Slots /\ UNCHANGED <<queue, client, tpc, cur, asked, processing, alive, rel, aborted, releases, crashed>>
    BY <1>s DEF WaitedAlloc, AllocItem, TakeSlot, threadVars, contextVars, controlVars
  <2>6. TypeOK'
    BY <2>1, <2>3, <2>4, <2>5 DEF Types, TypeOK, Item, Call
  <2>7. ASSUME NEW d \in Clients, d # c PROVE Proper(d)'
    <3>1. sub'[d] = sub[d] /\ client' = client /\ Proper(d)
      BY <1>s, <2>4, <2>5, <2>7
    <3>2. sub[d].pc = "push" => work'[sub[d].slot].completed = FALSE
      BY <2>2, <2>3, <3>1 DEF Proper
    <3>3. QED
      BY <3>1, <3>2 DEF Proper
  <2>8. Proper(c)'
    <3>1. client' = client /\ Proper(c)
      BY <1>s, <2>5
    <3>2. QED
      BY <1>n, <2>4, <3>1 DEF Proper, WaitedAlloc
  <2>9. \A s \in Slots : work'[s].callback = FALSE
    BY <2>2, <2>3 DEF Types
  <2>10. sub'[Worker] = sub[Worker] /\ tpc' = tpc
    BY <1>s, <2>4, <2>5
  <2>11. QED
    BY <2>6, <2>7, <2>8, <2>9, <2>10 DEF Types
<1>2. CASE InitItem(c)
  <2>1. /\ sub[c].pc = "init" /\ sub[c].slot \in Slots /\ sub[c].action \in Actions
        /\ sub[c].fn \in DOMAIN Entry /\ Entry[sub[c].fn].callback = FALSE
        /\ sub[c].request \in {0} \cup Requests
    BY <1>2, <1>s DEF InitItem, GoSub, Proper, Call
  <2>2. /\ work' \in [Slots -> Item]
        /\ \A s \in Slots : s # sub[c].slot => work'[s] = work[s]
        /\ work'[sub[c].slot].completed = FALSE /\ work'[sub[c].slot].callback = FALSE
    BY <1>2, <1>s, <2>1, EntryFacts DEF InitItem, Item
  <2>3. /\ sub' \in [Threads -> Call] /\ \A d \in Threads : d # c => sub'[d] = sub[d]
        /\ sub'[c].pc = "push" /\ sub'[c].fn = sub[c].fn /\ sub'[c].slot = sub[c].slot
        /\ sub'[c].action = sub[c].action
    BY <1>2, <1>s DEF InitItem, GoSub, Call
  <2>4. UNCHANGED <<avail, queue, client, tpc, cur, asked, processing, alive, rel, aborted, releases, crashed, log>>
    BY <1>2 DEF InitItem, threadVars, contextVars, controlVars
  <2>5. TypeOK'
    BY <2>2, <2>3, <2>4 DEF Types, TypeOK, Item, Call
  <2>6. ASSUME NEW d \in Clients, d # c PROVE Proper(d)'
    <3>1. sub'[d] = sub[d] /\ client' = client /\ Proper(d)
      BY <1>s, <2>3, <2>4, <2>6
    <3>2. sub[d].pc = "push" => work'[sub[d].slot].completed = FALSE
      BY <2>2, <3>1 DEF Proper
    <3>3. QED
      BY <3>1, <3>2 DEF Proper
  <2>7. Proper(c)'
    <3>1. client' = client /\ Proper(c)
      BY <1>s, <2>4
    <3>2. QED
      BY <2>1, <2>2, <2>3, <3>1 DEF Proper
  <2>8. \A s \in Slots : work'[s].callback = FALSE
    BY <2>2 DEF Types
  <2>9. sub'[Worker] = sub[Worker] /\ tpc' = tpc
    BY <1>s, <2>3, <2>4
  <2>10. QED
    BY <2>5, <2>6, <2>7, <2>8, <2>9 DEF Types
<1>r. ASSUME Return(c), sub[c].pc # "none"
      PROVE  /\ sub' \in [Threads -> Call] /\ sub'[c].pc = "none"
             /\ \A d \in Threads : d # c => sub'[d] = sub[d]
             /\ client' \in [Clients -> ClientState]
             /\ \A d \in Clients : /\ client'[d].pc = client[d].pc /\ client'[d].seen = client[d].seen
                                   /\ client'[d].target = client[d].target
                                   /\ {client'[d].seen, client'[d].target} \subseteq 0 .. Len(client'[d].mine)
  <2>1. client' = [client EXCEPT ![c].mine = Append(@, sub[c].slot)] /\ sub[c].slot \in Slots
    BY <1>r, <1>s DEF Return, Proper
  <2>2. Append(client[c].mine, sub[c].slot) \in Seq(Slots)
        /\ Len(Append(client[c].mine, sub[c].slot)) = Len(client[c].mine) + 1
    BY <2>1, TypeFacts
  <2>3. /\ client' \in [Clients -> ClientState]
        /\ \A d \in Clients : /\ client'[d].pc = client[d].pc /\ client'[d].seen = client[d].seen
                              /\ client'[d].target = client[d].target
                              /\ d # c => client'[d].mine = client[d].mine
        /\ client'[c].mine = Append(client[c].mine, sub[c].slot)
    BY <1>s, <2>1, <2>2 DEF ClientState
  <2>4. sub' \in [Threads -> Call] /\ sub'[c].pc = "none" /\ \A d \in Threads : d # c => sub'[d] = sub[d]
    BY <1>r, <1>s, <1>n DEF Return
  <2>5. ASSUME NEW d \in Clients
        PROVE  {client'[d].seen, client'[d].target} \subseteq 0 .. Len(client'[d].mine)
    <3>1. Len(client'[d].mine) \in {Len(client[d].mine), Len(client[d].mine) + 1}
      BY <2>2, <2>3
    <3>2. /\ client[d].seen \in 0 .. Len(client[d].mine) /\ client[d].target \in 0 .. Len(client[d].mine)
          /\ Len(client[d].mine) \in Nat
      BY TypeFacts
    <3>3. 0 .. Len(client[d].mine) \subseteq 0 .. Len(client'[d].mine)
      BY <3>1, <3>2
    <3>4. client'[d].seen = client[d].seen /\ client'[d].target = client[d].target
      BY <2>3
    <3>5. QED
      BY <3>2, <3>3, <3>4
  <2>6. QED
    BY <2>3, <2>4, <2>5
<1>3. CASE PushItem(c)
  <2>1. sub[c].pc = "push" /\ sub[c].slot \in Slots
    BY <1>3, <1>s DEF PushItem, GoSub, Proper
  <2>2. queue' \in Seq(Slots) /\ Len(queue') <= Capacity
    BY <1>3, <1>s, <2>1 DEF PushItem, Room
  <2>3. UNCHANGED <<avail, work, tpc, cur, asked, processing, alive, rel, aborted, releases, crashed, log>>
    BY <1>3 DEF PushItem, threadVars, contextVars, controlVars
  <2>4. CASE GoSub(c, "push", "correct") /\ UNCHANGED client
    <3>1. /\ sub' \in [Threads -> Call] /\ \A d \in Threads : d # c => sub'[d] = sub[d]
          /\ sub'[c].pc = "correct" /\ sub'[c].fn = sub[c].fn /\ sub'[c].slot = sub[c].slot
          /\ sub'[c].action = sub[c].action
      BY <1>s, <2>4 DEF GoSub, Call
    <3>2. TypeOK'
      BY <2>2, <2>3, <2>4, <3>1 DEF Types, TypeOK, Call
    <3>3. ASSUME NEW d \in Clients PROVE Proper(d)'
      <4>1. sub'[d] = sub[d] \/ (d = c /\ sub[d].pc = "push")
        BY <1>s, <2>1, <3>1
      <4>2. work' = work /\ client' = client /\ Proper(d)
        BY <1>s, <2>3, <2>4
      <4>3. QED
        BY <3>1, <4>1, <4>2 DEF Proper
    <3>4. sub'[Worker] = sub[Worker] /\ tpc' = tpc /\ work' = work
      BY <1>s, <2>3, <3>1
    <3>5. QED
      BY <3>2, <3>3, <3>4 DEF Types
  <2>5. CASE Return(c)
    <3>1. TypeOK'
      BY <1>r, <2>1, <2>2, <2>3, <2>5 DEF Types, TypeOK, Call, ClientState
    <3>2. ASSUME NEW d \in Clients PROVE Proper(d)'
      <4>1. sub'[d] = sub[d] \/ sub'[d].pc = "none"
        BY <1>r, <1>s, <2>1, <2>5
      <4>2. /\ work' = work /\ Proper(d)
            /\ client'[d].pc = client[d].pc /\ client'[d].target = client[d].target
        BY <1>r, <1>s, <2>1, <2>3, <2>5
      <4>3. QED
        BY <4>1, <4>2 DEF Proper
    <3>3. sub'[Worker] = sub[Worker] /\ tpc' = tpc /\ work' = work
      BY <1>r, <1>s, <2>1, <2>3, <2>5
    <3>4. QED
      BY <3>1, <3>2, <3>3 DEF Types
  <2>6. QED
    BY <1>3, <2>4, <2>5 DEF PushItem
<1>4. CASE CorrectOp(c)
  <2>1. sub[c].pc = "correct" /\ sub[c].slot \in Slots
    BY <1>4, <1>s DEF CorrectOp, Proper
  <2>2. /\ work' \in [Slots -> Item]
        /\ \A s \in Slots : /\ work'[s].callback = work[s].callback
                            /\ work'[s].completed = work[s].completed
    BY <1>4, <1>s, <2>1, EntryFacts, ZenonT(30) DEF CorrectOp, Item
  <2>3. UNCHANGED <<avail, queue, tpc, cur, asked, processing, alive, rel, aborted, releases, crashed, log>>
    BY <1>4 DEF CorrectOp, threadVars, contextVars, controlVars
  <2>4. Return(c)
    BY <1>4 DEF CorrectOp
  <2>5. TypeOK'
    BY <1>r, <2>1, <2>2, <2>3, <2>4 DEF Types, TypeOK, Item, Call, ClientState
  <2>6. ASSUME NEW d \in Clients PROVE Proper(d)'
    <3>1. sub'[d] = sub[d] \/ sub'[d].pc = "none"
      BY <1>r, <1>s, <2>1, <2>4
    <3>2. /\ client'[d].pc = client[d].pc /\ client'[d].target = client[d].target
          /\ Proper(d) /\ \A s \in Slots : work'[s].completed = work[s].completed
      BY <1>r, <1>s, <2>1, <2>2, <2>4
    <3>3. QED
      BY <3>1, <3>2 DEF Proper
  <2>7. sub'[Worker] = sub[Worker] /\ tpc' = tpc /\ \A s \in Slots : work'[s].callback = FALSE
    BY <1>r, <1>s, <2>1, <2>2, <2>3, <2>4 DEF Types
  <2>8. QED
    BY <2>5, <2>6, <2>7 DEF Types
<1>5. QED
  BY <1>1, <1>2, <1>3, <1>4 DEF ClientSubmits

LEMMA TypesWait ==
  ASSUME Types, Shares, NEW c \in Clients, ClientWaits(c)
  PROVE  Types'
<1>s. /\ client \in [Clients -> ClientState] /\ c \in Threads
      /\ avail \subseteq Slots /\ PoolSize \in Nat /\ MaxReleases \in Nat
      /\ client[c].mine \in Seq(Slots) /\ Len(client[c].mine) \in 0 .. PoolSize
      /\ client[c].seen \in 0 .. Len(client[c].mine) /\ client[c].target \in 0 .. Len(client[c].mine)
      /\ client[c] \in ClientState /\ Proper(c)
      /\ {processing, alive, aborted, crashed} \subseteq BOOLEAN /\ releases \in 0 .. MaxReleases
  BY TypeFacts, FewItems, SizeAssumption DEF Types, TypeOK
<1>c. ASSUME NEW k \in ClientState, client' = [client EXCEPT ![c] = k],
             k.seen \in 0 .. Len(k.mine), k.target \in 0 .. Len(k.mine),
             k.pc = "idle" => k.target = 0,
             UNCHANGED <<work, queue, sub, tpc, cur, asked, processing, alive, rel, aborted,
                         releases, crashed, log>>,
             avail' \subseteq Slots
      PROVE  Types'
  <2>1. /\ client' \in [Clients -> ClientState] /\ client'[c] = k
        /\ \A d \in Clients : d # c => client'[d] = client[d]
    BY <1>c, <1>s
  <2>2. \A d \in Clients : {client'[d].seen, client'[d].target} \subseteq 0 .. Len(client'[d].mine)
    BY <1>c, <2>1, TypeFacts
  <2>3. \A d \in Clients : Proper(d)'
    BY <1>c, <2>1 DEF Types, Proper
  <2>4. TypeOK'
    BY <1>c, <2>1, <2>2 DEF Types, TypeOK, ClientState
  <2>5. QED
    BY <1>c, <2>3, <2>4 DEF Types
<1>1. CASE Await(c)
  <2>1. PICK i \in client[c].seen + 1 .. Len(client[c].mine) :
          client' = [client EXCEPT ![c].pc = "await", ![c].target = i]
    BY <1>1 DEF Await
  <2> DEFINE k == [client[c] EXCEPT !.pc = "await", !.target = i]
  <2>2. i \in 0 .. Len(client[c].mine) /\ i \in 0 .. PoolSize
    BY <1>s, <2>1
  <2>3. /\ k \in ClientState /\ k.seen = client[c].seen /\ k.target = i /\ k.mine = client[c].mine
        /\ k.pc = "await"
    BY <1>s, <2>2 DEF ClientState
  <2>4. client' = [client EXCEPT ![c] = k]
    BY <2>1
  <2> HIDE DEF k
  <2>5. UNCHANGED <<work, queue, sub, tpc, cur, asked, processing, alive, rel, aborted,
                    releases, crashed, log, avail>>
    BY <1>1 DEF Await, threadVars, contextVars, controlVars
  <2>6. QED
    BY <1>c, <1>s, <2>2, <2>3, <2>4, <2>5
<1>2. CASE AwaitTest(c)
  <2>0. client[c].pc = "await"
    BY <1>2 DEF AwaitTest
  <2>1. UNCHANGED <<work, queue, sub, tpc, cur, asked, processing, alive, rel, aborted,
                    releases, crashed, log, avail>>
    BY <1>2 DEF AwaitTest, threadVars, contextVars, controlVars
  <2>2. CASE client' = [client EXCEPT ![c].pc = "idle", ![c].seen = client[c].target, ![c].target = 0]
    <3> DEFINE k == [client[c] EXCEPT !.pc = "idle", !.seen = client[c].target, !.target = 0]
    <3>1. client[c].target \in 0 .. PoolSize /\ 0 \in 0 .. PoolSize /\ 0 \in 0 .. Len(client[c].mine)
      BY <1>s DEF ClientState
    <3>2. /\ k \in ClientState /\ k.seen = client[c].target /\ k.target = 0
          /\ k.mine = client[c].mine
      BY <1>s, <3>1 DEF ClientState
    <3>3. client' = [client EXCEPT ![c] = k]
      BY <2>2
    <3> HIDE DEF k
    <3>4. QED
      BY <1>c, <1>s, <2>1, <3>1, <3>2, <3>3
  <2>3. CASE client' = [client EXCEPT ![c].pc = "blocked"]
    <3> DEFINE k == [client[c] EXCEPT !.pc = "blocked"]
    <3>1. /\ k \in ClientState /\ k.seen = client[c].seen /\ k.target = client[c].target
          /\ k.mine = client[c].mine /\ k.pc = "blocked"
      BY <1>s DEF ClientState
    <3>2. client' = [client EXCEPT ![c] = k]
      BY <2>3
    <3> HIDE DEF k
    <3>3. QED
      BY <1>c, <1>s, <2>1, <3>1, <3>2
  <2>4. QED
    BY <1>2, <2>2, <2>3 DEF AwaitTest
<1>3. CASE SpuriousWake(c)
  <2> DEFINE k == [client[c] EXCEPT !.pc = "await"]
  <2>1. /\ k \in ClientState /\ k.seen = client[c].seen /\ k.target = client[c].target
        /\ k.mine = client[c].mine /\ k.pc = "await"
    BY <1>s DEF ClientState
  <2>2. client' = [client EXCEPT ![c] = k]
    BY <1>3 DEF SpuriousWake
  <2> HIDE DEF k
  <2>3. UNCHANGED <<work, queue, sub, tpc, cur, asked, processing, alive, rel, aborted,
                    releases, crashed, log, avail>>
    BY <1>3 DEF SpuriousWake, threadVars, contextVars, controlVars
  <2>4. QED
    BY <1>c, <1>s, <2>1, <2>2, <2>3
<1>4. CASE ReleaseWorkItem(c)
  <2>p. PICK i \in 1 .. client[c].seen :
          /\ client' = [client EXCEPT ![c].mine = RemoveAt(@, i), ![c].seen = @ - 1]
          /\ avail' = IF work[client[c].mine[i]].callback THEN avail
                      ELSE avail \cup {client[c].mine[i]}
    BY <1>4 DEF ReleaseWorkItem
  <2> DEFINE k == [client[c] EXCEPT !.mine = RemoveAt(@, i), !.seen = @ - 1]
  <2>0. client[c].seen > 0 /\ client[c].target = 0
    BY <1>4, <1>s DEF ReleaseWorkItem, Idle, Proper
  <2>1. i \in 1 .. Len(client[c].mine) /\ client[c].mine[i] \in Slots
    BY <1>s
  <2>2. /\ RemoveAt(client[c].mine, i) \in Seq(Slots)
        /\ Len(RemoveAt(client[c].mine, i)) = Len(client[c].mine) - 1
    BY <1>s, <2>1, RemoveAtFacts
  <2>3. client[c].seen - 1 \in 0 .. Len(client[c].mine) - 1 /\ client[c].seen - 1 \in 0 .. PoolSize
        /\ 0 \in 0 .. Len(client[c].mine) - 1
    BY <1>s, <2>0
  <2>4. /\ k \in ClientState /\ k.seen = client[c].seen - 1 /\ k.target = 0
        /\ k.mine = RemoveAt(client[c].mine, i)
    BY <1>s, <2>0, <2>2, <2>3 DEF ClientState
  <2>5. client' = [client EXCEPT ![c] = k]
    BY <2>p
  <2> HIDE DEF k
  <2>6. UNCHANGED <<work, queue, sub, tpc, cur, asked, processing, alive, rel, aborted,
                    releases, crashed, log>>
    BY <1>4 DEF ReleaseWorkItem, threadVars, contextVars, controlVars
  <2>7. avail' \subseteq Slots
    BY <1>s, <2>p, <2>1
  <2>8. QED
    BY <1>c, <1>s, <2>2, <2>3, <2>4, <2>5, <2>6, <2>7
<1>5. CASE ClientFreeBuffer(c)
  <2>p. PICK i \in 1 .. client[c].seen : FreeBuffer(client[c].mine[i])
    BY <1>5 DEF ClientFreeBuffer
  <2> DEFINE f == client[c].mine[i]
  <2>0. FreeBuffer(f) /\ UNCHANGED <<avail, queue, sub, client, tpc, cur, asked, processing, alive, rel, aborted, releases>>
    BY <1>5, <2>p DEF ClientFreeBuffer, threadVars, contextVars, controlVars
  <2>1. f \in Slots
    BY <1>s
  <2> HIDE DEF f
  <2>2. /\ work' \in [Slots -> Item]
        /\ \A s \in Slots : /\ work'[s].callback = work[s].callback
                            /\ work'[s].completed = work[s].completed
    BY <2>0, <2>1, TypeFacts, SMTT(30) DEF FreeBuffer, Freed, Item
  <2>3. log' \in Seq(Records) /\ Len(log') <= MaxRequests
    <3> DEFINE r == work[f].request
    <3>0. log \in Seq(Records) /\ Len(log) <= MaxRequests
      BY TypeFacts
    <3>1. ASSUME r \in DOMAIN log PROVE [log[r] EXCEPT !.heap = FALSE] \in Records
      <4>1. log[r] \in Records
        BY <3>0, <3>1
      <4>2. QED
        BY <4>1 DEF Records
    <3>2. log' = log \/ log' = [log EXCEPT ![r] = [log[r] EXCEPT !.heap = FALSE]]
      BY <2>0 DEF FreeBuffer
    <3> HIDE DEF r
    <3>3. QED
      <4>1. CASE log' = log
        BY <3>0, <4>1
      <4>2. CASE log' = [log EXCEPT ![r] = [log[r] EXCEPT !.heap = FALSE]]
        BY <3>0, <3>1, <4>2, ExceptStays
      <4>3. QED
        BY <3>2, <4>1, <4>2
  <2>4. crashed' \in BOOLEAN
    BY <2>0 DEF FreeBuffer
  <2>5. TypeOK'
    BY <2>0, <2>2, <2>3, <2>4 DEF Types, TypeOK, Item
  <2>6. ASSUME NEW d \in Clients PROVE Proper(d)'
    BY <2>0, <2>2 DEF Types, Proper
  <2>7. QED
    BY <2>0, <2>2, <2>5, <2>6 DEF Types
<1>6. QED
  BY <1>1, <1>2, <1>3, <1>4, <1>5 DEF ClientWaits

\* The thread does not complete an item that a client is filling in.
LEMMA HandNotBusy ==
  ASSUME Types, Shares, Flight, NEW c \in Clients, Busy(c), Hand # Null
  PROVE  sub[c].slot # Hand
<1>1. PICK d \in Clients : \E i \in DOMAIN Line(d) : Line(d)[i] = Hand
  BY DEF Flight, Held
<1>2. QED
  BY <1>1 DEF Shares

LEMMA TypesRun ==
  ASSUME Types, Shares, Flight, ThreadRuns
  PROVE  Types'
<1> DEFINE r == work[cur].request
<1>s. /\ work \in [Slots -> Item] /\ log \in Seq(Records) /\ Len(log) <= MaxRequests
      /\ queue \in Seq(Slots) /\ Len(queue) <= Capacity /\ Capacity \in Nat
      /\ cur \in Slots \cup {Null} /\ Null \notin Slots
      /\ (cur = Null <=> tpc \in {"loop", "pop", "exited", "joined"})
  BY TypeFacts
<1>o. asked \subseteq Operations
  BY DEF Types, TypeOK
<1>p. \A c \in Clients : Proper(c)
  BY DEF Types
<1>r. ASSUME NEW e, r \in DOMAIN log => e \in Records, log' = [log EXCEPT ![r] = e]
      PROVE  log' \in Seq(Records) /\ Len(log') <= MaxRequests
  <2>1. log \in Seq(Records) /\ (r \in DOMAIN log => e \in Records)
    BY <1>r, <1>s
  <2> HIDE DEF r
  <2>2. [log EXCEPT ![r] = e] \in Seq(Records) /\ Len([log EXCEPT ![r] = e]) = Len(log)
    BY <2>1, ExceptStays
  <2>3. QED
    BY <1>r, <1>s, <2>2
<1>e. r \in DOMAIN log => log[r] \in Records
  BY <1>s
<1>w. cur # Null => work[cur] \in Item
  BY <1>s
<1> HIDE DEF r
<1>1. CASE PopItem
  <2>1. queue' \in Seq(Slots) /\ Len(queue') <= Capacity /\ cur' \in Slots /\ cur' # Null
    BY <1>1, <1>s, PopFacts DEF PopItem, First
  <2>2. UNCHANGED <<avail, work, sub, client, asked, processing, alive, rel, aborted, releases, crashed, log>>
    BY <1>1 DEF PopItem, contextVars, controlVars
  <2>3. tpc' = "find"
    BY <1>1 DEF PopItem, GoThread
  <2>4. QED
    BY <2>1, <2>2, <2>3 DEF Types, TypeOK, Proper
<1>2. CASE FindMount \/ Choose
  <2>1. UNCHANGED <<avail, work, queue, sub, client, cur, processing, alive, rel, aborted, releases, crashed, log>>
    BY <1>2 DEF FindMount, Choose, contextVars, controlVars
  <2>2. cur # Null /\ tpc \in {"find", "choose"}
    BY <1>2, <1>s DEF FindMount, Choose, GoThread
  <2>3. work[cur].callback = FALSE
    BY <1>s, <2>2 DEF Types
  <2>4. tpc' \in {"device", "notify"}
    BY <1>2, <2>3 DEF FindMount, Choose, GoThread
  <2>5. asked' \subseteq Operations
    BY <1>2, <1>o, <1>w, <2>2 DEF FindMount, Choose, Item
  <2>6. QED
    BY <2>1, <2>2, <2>4, <2>5 DEF Types, TypeOK, Proper
<1>3. CASE RunOperation
  <2>1. cur # Null /\ cur \in Slots /\ tpc' = "complete"
    BY <1>3, <1>s DEF RunOperation, GoThread
  <2>2. PICK heap \in BOOLEAN :
          /\ work' = IF heap THEN [work EXCEPT ![cur].buffer = "heap"] ELSE work
          /\ log' = [log EXCEPT ![r].heap = heap]
    BY <1>3 DEF RunOperation, r
  <2>3. /\ work' \in [Slots -> Item]
        /\ \A s \in Slots : /\ work'[s].callback = work[s].callback
                            /\ work'[s].completed = work[s].completed
    BY <1>s, <2>1, <2>2 DEF Item
  <2>4. log' \in Seq(Records) /\ Len(log') <= MaxRequests
    <3>1. r \in DOMAIN log => [log[r] EXCEPT !.heap = heap] \in Records
      BY <1>e DEF Records
    <3>2. log' = [log EXCEPT ![r] = [log[r] EXCEPT !.heap = heap]]
      BY <2>2
    <3>3. QED
      BY <1>r, <3>1, <3>2
  <2>5. asked' \subseteq Operations
    BY <1>3, <1>o, <1>w, <2>1 DEF RunOperation, Item
  <2>6. UNCHANGED <<avail, queue, sub, client, cur, processing, alive, rel, aborted, releases, crashed>>
    BY <1>3 DEF RunOperation, contextVars, controlVars
  <2>7. TypeOK'
    BY <2>1, <2>3, <2>4, <2>5, <2>6 DEF Types, TypeOK, Item
  <2>8. ASSUME NEW c \in Clients PROVE Proper(c)'
    BY <1>p, <2>3, <2>6 DEF Proper
  <2>9. QED
    BY <2>1, <2>3, <2>6, <2>7, <2>8 DEF Types
<1>4. CASE Complete
  <2>1. cur # Null /\ cur \in Slots /\ tpc = "complete" /\ tpc' = "choose"
    BY <1>4, <1>s DEF Complete, GoThread
  <2>2. /\ work' \in [Slots -> Item]
        /\ \A s \in Slots : work'[s].callback = work[s].callback
        /\ \A s \in Slots : s # cur => work'[s] = work[s]
    BY <1>4, <1>s, <2>1 DEF Complete, Completes, Item
  <2>3. log' \in Seq(Records) /\ Len(log') <= MaxRequests
    <3>1. r \in DOMAIN log => [log[r] EXCEPT !.done = TRUE] \in Records
      BY <1>e DEF Records
    <3>2. log' = [log EXCEPT ![r] = [log[r] EXCEPT !.done = TRUE]]
      BY <1>4 DEF Complete, Completes, r
    <3>3. QED
      BY <1>r, <3>1, <3>2
  <2>4. UNCHANGED <<avail, queue, sub, client, cur, processing, alive, rel, aborted, releases, crashed>> /\ asked' = {}
    BY <1>4 DEF Complete, contextVars, controlVars
  <2>5. TypeOK'
    BY <2>1, <2>2, <2>3, <2>4 DEF Types, TypeOK, Item
  <2>6. ASSUME NEW c \in Clients PROVE Proper(c)'
    <3>1. sub[c].pc = "push" => sub[c].slot # cur /\ sub[c].slot \in Slots
      <4>1. Hand = cur /\ Hand # Null
        BY <2>1 DEF Hand
      <4>2. QED
        BY <1>p, <4>1, HandNotBusy DEF Busy, Proper
    <3>2. QED
      BY <1>p, <2>2, <2>4, <3>1 DEF Proper
  <2>7. QED
    BY <2>1, <2>2, <2>4, <2>5, <2>6 DEF Types
<1>5. CASE NotifyAll
  <2>1. UNCHANGED <<avail, work, queue, sub, asked, processing, alive, rel, aborted, releases, crashed, log>>
    BY <1>5 DEF NotifyAll, contextVars, controlVars
  <2>2. tpc' = "loop" /\ cur' = Null
    BY <1>5 DEF NotifyAll, GoThread
  <2>3. client \in [Clients -> ClientState]
    BY TypeFacts
  <2>4. /\ client' \in [Clients -> ClientState]
        /\ \A c \in Clients : /\ client'[c].mine = client[c].mine /\ client'[c].seen = client[c].seen
                              /\ client'[c].target = client[c].target
                              /\ client'[c].pc \in {client[c].pc, "await"}
    BY <1>5, <2>3 DEF NotifyAll, ClientState
  <2>5. TypeOK'
    BY <2>1, <2>2, <2>4 DEF Types, TypeOK, ClientState
  <2>6. ASSUME NEW c \in Clients PROVE Proper(c)'
    BY <1>p, <2>1, <2>4 DEF Proper
  <2>7. QED
    BY <2>1, <2>2, <2>5, <2>6 DEF Types
<1>6. QED
  BY <1>1, <1>2, <1>3, <1>4, <1>5 DEF ThreadRuns

LEMMA TypesStep ==
  ASSUME AllWaited, Types, Shares, Flight, [Next]_vars
  PROVE  Types'
<1>1. ASSUME Pause PROVE Types'
  <2>1. UNCHANGED <<avail, work, queue, sub, client, cur, asked, crashed, log>>
    BY <1>1 DEF Pause
  <2>2. TypeOK'
    BY <1>1, <2>1 DEF Pause, Types, TypeOK, ReleasePC
  <2>3. QED
    BY <1>1, <2>1, <2>2 DEF Pause, Types, Proper
<1>2. QED
  BY <1>1, WaitedCases, TypesSubmit, TypesWait, TypesRun

-----------------------------------------------------------------------------
LEMMA Others ==
  ASSUME NEW d \in Clients, sub'[d] = sub[d], client'[d].mine = client[d].mine
  PROVE  SameLine(d)
BY DEF SameLine, Line, Busy

LEMMA SubmitMoves ==
  ASSUME Types, NEW c \in Clients, ClientSubmits(c)
  PROVE  Take(c) \/ Fill(c) \/ Hang(c) \/ Keep
<1>s. /\ work \in [Slots -> Item] /\ sub \in [Threads -> Call] /\ client \in [Clients -> ClientState]
      /\ avail \subseteq Slots /\ c \in Threads /\ Clients \subseteq Threads /\ Proper(c)
  BY TypeFacts DEF Types
<1>n. NotSubmitting.pc = "none"
  BY DEF NotSubmitting
<1>1. ASSUME NEW f \in DOMAIN Entry, NEW a \in Actions, WaitedAlloc(c, f, a)
      PROVE  Take(c) \/ Keep
  <2>1. sub[c].pc = "none" /\ UNCHANGED <<queue, client, tpc, cur>>
    BY <1>1, <1>s DEF WaitedAlloc, AllocItem, Ready, Answered, NotSubmitting, Proper, threadVars
  <2>2. UNCHANGED Hand
    BY <2>1 DEF Hand
  <2>3. CASE avail = {} /\ sub' = [sub EXCEPT ![c] = NotSubmitting] /\ UNCHANGED <<avail, work>>
    <3>1. \A d \in Clients : SameLine(d)
      BY <1>s, <1>n, <2>1, <2>3 DEF SameLine, Line, Busy
    <3>2. QED
      BY <2>1, <2>2, <2>3, <3>1 DEF Keep, Still, SameCompleted
  <2>4. ASSUME NEW s \in avail, TakeSlot(s), work' = [work EXCEPT ![s] = Constructed],
               sub' = [sub EXCEPT ![c] = [pc |-> "init", fn |-> f, action |-> a,
                                          request |-> Len(log) + 1, slot |-> s]]
        PROVE  Take(c)
    <3>1. sub'[c].pc = "init" /\ sub'[c].slot = s /\ \A d \in Threads : d # c => sub'[d] = sub[d]
      BY <1>s, <2>4
    <3>2. \A d \in Clients \ {c} : SameLine(d)
      BY <1>s, <2>1, <3>1, Others
    <3>3. ~Busy(c) /\ Busy(c)' /\ Line(c)' = Line(c)
      BY <2>1, <3>1 DEF Busy, Line
    <3>4. avail' = avail \ {s} /\ \A x \in Slots : x # s => work'[x] = work[x]
      BY <1>s, <2>4 DEF TakeSlot
    <3>5. QED
      BY <2>1, <2>2, <2>4, <3>1, <3>2, <3>3, <3>4 DEF Take, SameCompleted
  <2>5. QED
    BY <1>1, <2>3, <2>4 DEF WaitedAlloc, AllocItem
<1>2. ASSUME InitItem(c) PROVE Fill(c)
  <2>1. /\ sub[c].pc = "init" /\ sub[c].slot \in Slots
        /\ UNCHANGED <<avail, queue, client, tpc, cur>>
    BY <1>2, <1>s DEF InitItem, GoSub, Proper, threadVars
  <2>2. \A x \in Slots : x # sub[c].slot => work'[x] = work[x]
    BY <1>2, <1>s DEF InitItem
  <2>3. /\ sub'[c].pc = "push" /\ sub'[c].slot = sub[c].slot
        /\ \A d \in Threads : d # c => sub'[d] = sub[d]
    BY <1>2, <1>s DEF InitItem, GoSub, Call
  <2>4. SameLine(c)
    BY <2>1, <2>3 DEF SameLine, Line, Busy
  <2>5. \A d \in Clients : SameLine(d)
    BY <1>s, <2>1, <2>3, <2>4, Others
  <2>6. QED
    BY <2>1, <2>2, <2>5 DEF Fill, Busy, SameCompleted, Hand
<1>3. ASSUME PushItem(c) PROVE Hang(c)
  <2>1. /\ sub[c].pc = "push" /\ sub[c].slot \in Slots /\ Entry[sub[c].fn].callback = FALSE
        /\ UNCHANGED <<avail, work, tpc, cur>> /\ queue' = Append(queue, sub[c].slot)
    BY <1>3, <1>s DEF PushItem, GoSub, Proper, threadVars
  <2>2. /\ sub'[c].pc \in {"none", "correct"}
        /\ \A d \in Threads : d # c => sub'[d] = sub[d]
        /\ \A d \in Clients : d # c => client'[d] = client[d]
        /\ Line(c)' = Append(Line(c), sub[c].slot)
    <3>1. CASE GoSub(c, "push", "correct") /\ UNCHANGED client
      <4>1. /\ sub'[c].pc = "correct" /\ sub'[c].slot = sub[c].slot
            /\ \A d \in Threads : d # c => sub'[d] = sub[d]
        BY <1>s, <3>1 DEF GoSub, Call
      <4>2. QED
        BY <2>1, <3>1, <4>1 DEF Line
    <3>2. CASE Return(c)
      <4>1. client' = [client EXCEPT ![c].mine = Append(@, sub[c].slot)]
            /\ sub' = [sub EXCEPT ![c] = NotSubmitting]
        BY <2>1, <3>2 DEF Return
      <4>2. /\ sub'[c].pc = "none" /\ \A d \in Threads : d # c => sub'[d] = sub[d]
            /\ \A d \in Clients : d # c => client'[d] = client[d]
            /\ client'[c].mine = Append(client[c].mine, sub[c].slot)
        BY <1>s, <1>n, <4>1 DEF ClientState
      <4>3. QED
        BY <2>1, <4>2 DEF Line
    <3>3. QED
      BY <1>3, <3>1, <3>2 DEF PushItem
  <2>3. \A d \in Clients \ {c} : SameLine(d)
    BY <1>s, <2>2, Others
  <2>4. ~Busy(c)'
    BY <2>2 DEF Busy
  <2>5. QED
    BY <2>1, <2>2, <2>3, <2>4 DEF Hang, SameCompleted, Hand
<1>4. ASSUME CorrectOp(c) PROVE Keep
  <2>1. /\ sub[c].pc = "correct" /\ sub[c].slot \in Slots /\ Entry[sub[c].fn].callback = FALSE
        /\ UNCHANGED <<avail, queue, tpc, cur>>
    BY <1>4, <1>s DEF CorrectOp, Proper, threadVars
  <2>2. client' = [client EXCEPT ![c].mine = Append(@, sub[c].slot)]
        /\ sub' = [sub EXCEPT ![c] = NotSubmitting]
    BY <1>4, <2>1 DEF CorrectOp, Return
  <2>3. /\ sub'[c].pc = "none" /\ \A d \in Threads : d # c => sub'[d] = sub[d]
        /\ \A d \in Clients : d # c => client'[d] = client[d]
        /\ client'[c].mine = Append(client[c].mine, sub[c].slot)
    BY <1>s, <1>n, <2>2 DEF ClientState
  <2>4. SameLine(c)
    BY <2>1, <2>3 DEF SameLine, Line, Busy
  <2>5. \A d \in Clients : SameLine(d)
    BY <1>s, <2>3, <2>4, Others
  <2>6. \A x \in Slots : work'[x].completed = work[x].completed
    BY <1>4, <1>s, <2>1 DEF CorrectOp, Item
  <2>7. QED
    BY <2>1, <2>5, <2>6 DEF Keep, Still, SameCompleted, Hand
<1>5. QED
  BY <1>1, <1>2, <1>3, <1>4 DEF ClientSubmits

LEMMA WaitMoves ==
  ASSUME Types, WaitForLast, NEW c \in Clients, ClientWaits(c)
  PROVE  Drop(c) \/ Keep
<1>s. /\ work \in [Slots -> Item] /\ client \in [Clients -> ClientState]
      /\ avail \subseteq Slots /\ Proper(c) /\ client[c].mine \in Seq(Slots)
      /\ client[c].seen \in 0 .. Len(client[c].mine) /\ Len(client[c].mine) \in Nat
  BY TypeFacts DEF Types
<1>k. ASSUME UNCHANGED <<sub, avail, queue, work>>, Hand' = Hand,
             \A d \in Clients : client'[d].mine = client[d].mine
      PROVE  Keep
  BY <1>k, Others DEF Keep, Still, SameCompleted
<1>1. CASE Await(c) \/ AwaitTest(c) \/ SpuriousWake(c)
  <2>1. UNCHANGED <<sub, avail, queue, work>>
    BY <1>1 DEF Await, AwaitTest, SpuriousWake
  <2>2. Hand' = Hand
    BY <1>1 DEF Await, AwaitTest, SpuriousWake, threadVars, Hand
  <2>3. \A d \in Clients : client'[d].mine = client[d].mine
    <3>1. CASE Await(c)
      BY <1>s, <3>1 DEF Await, ClientState
    <3>2. CASE AwaitTest(c)
      BY <1>s, <3>2 DEF AwaitTest, ClientState
    <3>3. CASE SpuriousWake(c)
      BY <1>s, <3>3 DEF SpuriousWake, ClientState
    <3>4. QED
      BY <1>1, <3>1, <3>2, <3>3
  <2>4. QED
    BY <1>k, <2>1, <2>2, <2>3
<1>2. CASE ClientFreeBuffer(c)
  <2>p. PICK i \in 1 .. client[c].seen : FreeBuffer(client[c].mine[i])
    BY <1>2 DEF ClientFreeBuffer
  <2> DEFINE f == client[c].mine[i]
  <2>1. FreeBuffer(f) /\ UNCHANGED <<avail, queue, sub, client, tpc, cur>>
    BY <1>2, <2>p DEF ClientFreeBuffer, threadVars
  <2>2. f \in Slots
    BY <1>s
  <2> HIDE DEF f
  <2>3. \A x \in Slots : work'[x].completed = work[x].completed
    BY <1>s, <2>1, <2>2 DEF FreeBuffer, Item
  <2>4. QED
    BY <2>1, <2>3, Others DEF Keep, Still, SameCompleted, Hand
<1>3. CASE ReleaseWorkItem(c)
  <2>p. PICK i \in 1 .. client[c].seen :
          /\ client' = [client EXCEPT ![c].mine = RemoveAt(@, i), ![c].seen = @ - 1]
          /\ avail' = IF work[client[c].mine[i]].callback THEN avail
                      ELSE avail \cup {client[c].mine[i]}
    BY <1>3 DEF ReleaseWorkItem
  <2> DEFINE f == client[c].mine[i]
  <2>0. sub[c].pc = "none"
    BY <1>3, <1>s DEF ReleaseWorkItem, Idle, Ready, Proper, NotSubmitting, Answered
  <2>1. /\ UNCHANGED <<work, queue, sub, tpc, cur>>
        /\ client' = [client EXCEPT ![c].mine = RemoveAt(@, i), ![c].seen = @ - 1]
        /\ avail' = IF work[f].callback THEN avail ELSE avail \cup {f}
    BY <1>3, <2>p DEF ReleaseWorkItem, threadVars
  <2>2. i \in DOMAIN client[c].mine /\ f \in Slots
    BY <1>s
  <2>3. work[f].completed
    BY DEF WaitForLast
  <2>4. avail' = avail \cup {f}
    BY <2>1, <2>2 DEF Types
  <2>5. /\ client'[c].mine = RemoveAt(client[c].mine, i)
        /\ \A d \in Clients : d # c => client'[d] = client[d]
    BY <1>s, <2>1 DEF ClientState
  <2>6. Line(c) = client[c].mine /\ Line(c)' = RemoveAt(Line(c), i)
    BY <2>0, <2>1, <2>5 DEF Line
  <2>7. \A d \in Clients \ {c} : SameLine(d)
    BY <2>1, <2>5, Others
  <2>8. Drop(c)
    BY <2>0, <2>1, <2>2, <2>3, <2>4, <2>6, <2>7 DEF Drop, SameCompleted, Busy, Hand
  <2>9. QED
    BY <2>8
<1>4. QED
  BY <1>1, <1>2, <1>3 DEF ClientWaits

LEMMA RunMoves ==
  ASSUME Types, ThreadRuns
  PROVE  Pick \/ Finish \/ Keep
<1>s. /\ work \in [Slots -> Item] /\ client \in [Clients -> ClientState]
      /\ queue \in Seq(Slots) /\ cur \in Slots \cup {Null} /\ Null \notin Slots
      /\ (cur = Null <=> tpc \in {"loop", "pop", "exited", "joined"})
  BY TypeFacts
<1>k. ASSUME UNCHANGED <<sub, avail>>, \A d \in Clients : client'[d].mine = client[d].mine
      PROVE  Still
  BY <1>k, Others DEF Still
<1>1. CASE FindMount \/ Choose
  <2>1. UNCHANGED <<sub, avail, queue, work, client>>
    BY <1>1 DEF FindMount, Choose
  <2>2. Hand' = Hand
    BY <1>1 DEF FindMount, Choose, GoThread, Hand
  <2>3. QED
    BY <1>k, <2>1, <2>2 DEF Keep, SameCompleted
<1>2. CASE PopItem
  <2>1. /\ UNCHANGED <<sub, avail, work, client>> /\ queue # <<>>
        /\ queue' = RemoveAt(queue, 1) /\ cur' = queue[1] /\ tpc = "pop" /\ tpc' = "find"
    BY <1>2 DEF PopItem, First, GoThread
  <2>2. QED
    BY <1>k, <2>1 DEF Pick, SameCompleted, Hand
<1>3. CASE RunOperation
  <2>1. /\ UNCHANGED <<sub, avail, queue, client, cur>> /\ tpc = "device" /\ tpc' = "complete"
    BY <1>3 DEF RunOperation, GoThread
  <2>2. \A x \in Slots : work'[x].completed = work[x].completed
    BY <1>3, <1>s DEF RunOperation, Item
  <2>3. QED
    BY <1>k, <2>1, <2>2 DEF Keep, SameCompleted, Hand
<1>4. CASE Complete
  <2>1. /\ UNCHANGED <<sub, avail, queue, client, cur>> /\ tpc = "complete" /\ tpc' = "choose"
    BY <1>4 DEF Complete, GoThread
  <2>2. cur # Null /\ cur \in Slots
    BY <1>s, <2>1
  <2>3. /\ work'[cur].completed = TRUE
        /\ \A x \in Slots : x # cur => work'[x].completed = work[x].completed
    BY <1>4, <1>s, <2>2 DEF Complete, Completes, Item
  <2>4. QED
    BY <1>k, <2>1, <2>2, <2>3 DEF Finish, SameCompleted, Hand
<1>5. CASE NotifyAll
  <2>1. /\ UNCHANGED <<sub, avail, queue, work>> /\ tpc = "notify" /\ tpc' = "loop"
    BY <1>5 DEF NotifyAll, GoThread
  <2>2. \A d \in Clients : client'[d].mine = client[d].mine
    BY <1>5, <1>s DEF NotifyAll, ClientState
  <2>3. QED
    BY <1>k, <2>1, <2>2 DEF Keep, SameCompleted, Hand
<1>6. QED
  BY <1>1, <1>2, <1>3, <1>4, <1>5 DEF ThreadRuns

LEMMA Moves ==
  ASSUME AllWaited, Types, WaitForLast, [Next]_vars
  PROVE  \/ \E c \in Clients : Take(c) \/ Fill(c) \/ Hang(c) \/ Drop(c)
         \/ Pick \/ Finish \/ Keep
<1>1. ASSUME Pause PROVE Keep
  <2>1. UNCHANGED <<sub, avail, queue, work, client, cur>> /\ UNCHANGED Hand
    BY <1>1 DEF Pause, Hand
  <2>2. QED
    BY <2>1, Others DEF Keep, Still, SameCompleted
<1>2. QED
  BY <1>1, WaitedCases, SubmitMoves, WaitMoves, RunMoves

-----------------------------------------------------------------------------
\* A step that leaves the lines and the queue alone, and completes nothing.
LEMMA SameFlight ==
  ASSUME Flight, Order, \A c \in Clients : Line(c)' = Line(c), queue' = queue, Hand' = Hand,
         \A s : Held(s) => SameCompleted(s)
  PROVE  Flight' /\ Order'
<1>1. \A s : Held(s)' <=> Held(s)
  BY DEF Held
<1>2. \A c \in Clients : \A i \in DOMAIN Line(c) : SameCompleted(Line(c)[i])
  BY DEF Held
<1>3. Flight'
  BY <1>1, <1>2 DEF Flight, SameCompleted
<1>4. Order'
  BY <1>2 DEF Order, SameCompleted
<1>5. QED
  BY <1>3, <1>4

LEMMA HeldSlots ==
  ASSUME Shares, NEW s, Held(s)
  PROVE  s \in Slots \ avail /\ \A c \in Clients : Busy(c) => sub[c].slot # s
BY DEF Shares, Held

LEMMA KeepMoves ==
  ASSUME Shares, Flight, Order, Keep
  PROVE  Shares' /\ Flight' /\ Order'
<1>1. Shares'
  BY DEF Shares, Keep, Still, SameLine
<1>2. Flight' /\ Order'
  BY SameFlight, HeldSlots DEF Keep, Still, SameLine
<1>3. QED
  BY <1>1, <1>2

LEMMA TakeMoves ==
  ASSUME avail \subseteq Slots, Shares, Flight, Order, NEW c \in Clients, Take(c)
  PROVE  Shares' /\ Flight' /\ Order'
<1>1. Shares'
  BY DEF Shares, Take, SameLine
<1>2. Flight' /\ Order'
  BY SameFlight, HeldSlots DEF Take, SameLine
<1>3. QED
  BY <1>1, <1>2

LEMMA FillMoves ==
  ASSUME Shares, Flight, Order, NEW c \in Clients, Fill(c)
  PROVE  Shares' /\ Flight' /\ Order'
<1>1. Shares'
  BY DEF Shares, Fill, SameLine
<1>2. Flight' /\ Order'
  BY SameFlight, HeldSlots DEF Fill, SameLine
<1>3. QED
  BY <1>1, <1>2

\* The line of client c grows by the slot it filled in.
LEMMA HangLine ==
  ASSUME Types, NEW c \in Clients, Hang(c)
  PROVE  /\ Len(Line(c)) \in Nat /\ DOMAIN Line(c) = 1 .. Len(Line(c))
         /\ DOMAIN Line(c)' = 1 .. Len(Line(c)) + 1
         /\ \A i \in 1 .. Len(Line(c)) : Line(c)'[i] = Line(c)[i]
         /\ Line(c)'[Len(Line(c)) + 1] = sub[c].slot
         /\ Len(queue) \in Nat /\ DOMAIN queue = 1 .. Len(queue)
         /\ DOMAIN queue' = 1 .. Len(queue) + 1
         /\ \A p \in 1 .. Len(queue) : queue'[p] = queue[p]
         /\ queue'[Len(queue) + 1] = sub[c].slot
         /\ sub[c].slot \in Slots /\ work[sub[c].slot].completed = FALSE /\ Busy(c)
<1>1. sub[c].pc = "push" /\ sub[c].slot \in Slots /\ work[sub[c].slot].completed = FALSE
  BY DEF Types, Proper, Hang
<1>2. Line(c) \in Seq(Slots) /\ queue \in Seq(Slots)
  BY <1>1, TypeFacts DEF Line
<1>3. ASSUME NEW q \in Seq(Slots), NEW s \in Slots
      PROVE  /\ Len(q) \in Nat /\ DOMAIN q = 1 .. Len(q)
             /\ DOMAIN Append(q, s) = 1 .. Len(q) + 1
             /\ \A i \in 1 .. Len(q) : Append(q, s)[i] = q[i]
             /\ Append(q, s)[Len(q) + 1] = s
  OBVIOUS
<1>4. Line(c)' = Append(Line(c), sub[c].slot) /\ queue' = Append(queue, sub[c].slot)
  BY DEF Hang
<1>5. QED
  BY <1>1, <1>2, <1>3, <1>4 DEF Busy

LEMMA HangMoves ==
  ASSUME Types, Shares, Flight, Order, NEW c \in Clients, Hang(c)
  PROVE  Shares' /\ Flight' /\ Order'
<1> DEFINE n == Len(Line(c)) + 1
           m == Len(queue) + 1
           x == sub[c].slot
<1>1. /\ \A d \in Clients : \A i \in DOMAIN Line(d) :
            i \in DOMAIN Line(d)' /\ Line(d)'[i] = Line(d)[i]
      /\ \A d \in Clients : \A i \in DOMAIN Line(d)' :
            \/ i \in DOMAIN Line(d) /\ Line(d)'[i] = Line(d)[i]
            \/ d = c /\ i = n /\ Line(d)'[i] = x
      /\ n \in DOMAIN Line(c)' /\ Line(c)'[n] = x
      /\ \A i \in DOMAIN Line(c) : i < n
  BY HangLine DEF Hang, SameLine
<1>2. /\ \A p \in DOMAIN queue : p \in DOMAIN queue' /\ queue'[p] = queue[p] /\ p < m
      /\ \A p \in DOMAIN queue' : \/ p \in DOMAIN queue /\ queue'[p] = queue[p]
                                  \/ p = m /\ queue'[p] = x
      /\ m \in DOMAIN queue' /\ queue'[m] = x
      /\ DOMAIN queue' \subseteq Int /\ DOMAIN Line(c)' \subseteq Int
  <2>1. /\ Len(queue) \in Nat /\ DOMAIN queue = 1 .. Len(queue) /\ DOMAIN queue' = 1 .. Len(queue) + 1
        /\ \A p \in 1 .. Len(queue) : queue'[p] = queue[p]
        /\ queue'[Len(queue) + 1] = x
    BY HangLine
  <2>2. DOMAIN Line(c)' \subseteq Int
    <3>1. Len(Line(c)) \in Nat /\ DOMAIN Line(c)' = 1 .. Len(Line(c)) + 1
      BY HangLine
    <3>2. QED
      BY <3>1
  <2> HIDE DEF x
  <2>3. QED
    BY <2>1, <2>2
<1>3. \A d \in Clients : \A i \in DOMAIN Line(d) : Line(d)[i] # x
  <2>1. Busy(c)
    BY HangLine
  <2>2. QED
    BY <2>1 DEF Shares
<1>4. \A d \in Clients : Busy(d)' => d # c /\ Busy(d) /\ sub'[d].slot = sub[d].slot
  BY DEF Hang, SameLine
<1>5. \A d \in Clients : d # c /\ Busy(d) => Busy(d)' /\ sub'[d].slot = sub[d].slot
  BY DEF Hang, SameLine
<1>6. x \in Slots \ avail /\ work[x].completed = FALSE /\ Busy(c)
  BY HangLine DEF Shares
<1>7. /\ avail' = avail /\ Hand' = Hand /\ \A s \in Slots : work'[s].completed = work[s].completed
  BY DEF Hang, SameCompleted
<1>8. \A d \in Clients : \A i \in DOMAIN Line(d) : Line(d)[i] \in Slots
  BY DEF Shares
<1>9. /\ Hand # Null => Held(Hand) /\ Hand # x
      /\ \A p \in DOMAIN queue : Held(queue[p]) /\ queue[p] # x
  BY <1>3 DEF Flight, Held
<1> HIDE DEF n, m, x
<1>10. Shares'
  <2>1. \A d \in Clients : \A i \in DOMAIN Line(d)' : Line(d)'[i] \in Slots \ avail'
    BY <1>1, <1>6, <1>7 DEF Shares
  <2>2. \A d, e \in Clients : \A i \in DOMAIN Line(d)', j \in DOMAIN Line(e)' :
          Line(d)'[i] = Line(e)'[j] => d = e /\ i = j
    BY <1>1, <1>3 DEF Shares
  <2>3. \A d \in Clients : Busy(d)' => sub'[d].slot \in Slots \ avail'
    BY <1>4, <1>7 DEF Shares
  <2>4. \A d, e \in Clients : Busy(d)' /\ Busy(e)' /\ sub'[d].slot = sub'[e].slot => d = e
    BY <1>4 DEF Shares
  <2>5. \A d, e \in Clients : \A i \in DOMAIN Line(d)' : Busy(e)' => Line(d)'[i] # sub'[e].slot
    BY <1>1, <1>4, <1>6 DEF Shares, x
  <2>6. \A s \in Slots : \/ s \in avail'
                         \/ \E d \in Clients : Busy(d)' /\ sub'[d].slot = s
                         \/ \E d \in Clients : \E i \in DOMAIN Line(d)' : Line(d)'[i] = s
    BY <1>1, <1>5, <1>7 DEF Shares, x
  <2>7. QED
    BY <2>1, <2>2, <2>3, <2>4, <2>5, <2>6 DEF Shares
<1>11. \A s : Held(s) \/ s = x => \E d \in Clients : \E i \in DOMAIN Line(d)' : Line(d)'[i] = s
  BY <1>1 DEF Held
<1>12. Flight'
  <2>1. ASSUME NEW p \in DOMAIN queue'
        PROVE  /\ \E d \in Clients : \E i \in DOMAIN Line(d)' : Line(d)'[i] = queue'[p]
               /\ work'[queue'[p]].completed = FALSE /\ queue'[p] # Hand
    <3>1. CASE p \in DOMAIN queue /\ queue'[p] = queue[p]
      <4>1. Held(queue[p]) /\ work[queue[p]].completed = FALSE /\ queue[p] # Hand
        BY <3>1 DEF Flight
      <4>2. queue[p] \in Slots
        BY <1>8, <4>1 DEF Held
      <4>3. QED
        BY <1>7, <1>11, <3>1, <4>1, <4>2
    <3>2. CASE queue'[p] = x
      <4>1. x # Hand
        BY <1>6, <1>9, NullAssumption DEF Slots
      <4>2. QED
        BY <1>6, <1>7, <1>11, <3>2, <4>1
    <3>3. QED
      BY <1>2, <3>1, <3>2
  <2>2. \A p, q \in DOMAIN queue' : queue'[p] = queue'[q] => p = q
    BY <1>2, <1>9 DEF Flight
  <2>3. ASSUME Hand # Null
        PROVE  /\ \E d \in Clients : \E i \in DOMAIN Line(d)' : Line(d)'[i] = Hand
               /\ work'[Hand].completed = FALSE
    <3>1. Held(Hand) /\ work[Hand].completed = FALSE
      BY <2>3 DEF Flight
    <3>2. Hand \in Slots
      BY <1>8, <3>1 DEF Held
    <3>3. QED
      BY <1>7, <1>11, <3>1, <3>2
  <2>4. \A d \in Clients : \A i \in DOMAIN Line(d)' :
          \/ work'[Line(d)'[i]].completed \/ Line(d)'[i] = Hand'
          \/ \E p \in DOMAIN queue' : queue'[p] = Line(d)'[i]
    BY <1>1, <1>2, <1>7, <1>8 DEF Flight
  <2>5. QED
    BY <1>7, <2>1, <2>2, <2>3, <2>4, ZenonT(30) DEF Flight, Held
<1>13. Order'
  <2>1. SUFFICES ASSUME NEW d \in Clients, NEW i \in DOMAIN Line(d)', NEW j \in DOMAIN Line(d)', i < j
                 PROVE  /\ work'[Line(d)'[j]].completed => work'[Line(d)'[i]].completed
                        /\ Line(d)'[j] = Hand' => work'[Line(d)'[i]].completed
                        /\ \A p, q \in DOMAIN queue' :
                             queue'[p] = Line(d)'[i] /\ queue'[q] = Line(d)'[j] => p < q
    BY DEF Order
  <2>2. CASE j \in DOMAIN Line(d)
    BY <1>1, <1>2, <1>3, <1>7, <1>8, <2>1, <2>2 DEF Order
  <2>3. CASE d = c /\ j = n /\ Line(d)'[j] = x
    <3>1. i \in DOMAIN Line(d) /\ Line(d)'[i] = Line(d)[i]
      BY <1>1, <1>2, <2>1, <2>3
    <3>2. x # Hand
      BY <1>9, <1>6, NullAssumption DEF Slots
    <3>3. \A p, q \in DOMAIN queue' : queue'[p] = Line(d)'[i] /\ queue'[q] = x => p < q
      BY <1>2, <1>3, <1>9, <3>1
    <3>4. QED
      BY <1>6, <1>7, <2>3, <3>2, <3>3
  <2>4. QED
    BY <1>1, <2>2, <2>3
<1>14. QED
  BY <1>10, <1>12, <1>13

LEMMA DropMoves ==
  ASSUME Types, Shares, Flight, Order, NEW c \in Clients, Drop(c)
  PROVE  Shares' /\ Flight' /\ Order'
<1>0. PICK m \in DOMAIN Line(c) : /\ work[Line(c)[m]].completed
                                   /\ Line(c)' = RemoveAt(Line(c), m)
                                   /\ avail' = avail \cup {Line(c)[m]}
  BY DEF Drop
<1> DEFINE h == Line(c)[m]
           After(i) == IF i < m THEN i ELSE i + 1
<1>1. /\ DOMAIN Line(c)' \subseteq Int /\ DOMAIN Line(c) \subseteq Int
      /\ \A i \in DOMAIN Line(c)' : /\ After(i) \in DOMAIN Line(c) /\ After(i) # m
                                    /\ Line(c)'[i] = Line(c)[After(i)]
      /\ \A j \in DOMAIN Line(c) :
           j = m \/ \E i \in DOMAIN Line(c)' : Line(c)'[i] = Line(c)[j]
  <2>1. Line(c) \in Seq(Slots)
    <3>1. client[c].mine \in Seq(Slots) /\ Proper(c)
      BY TypeFacts DEF Types
    <3>2. sub[c].pc = "correct" => sub[c].slot \in Slots
      BY <3>1 DEF Proper
    <3>3. QED
      BY <3>1, <3>2 DEF Line
  <2> DEFINE q == Line(c)
             r == RemoveAt(q, m)
  <2>2. q \in Seq(Slots) /\ m \in 1 .. Len(q) /\ Line(c)' = r /\ Len(q) \in Nat
    BY <1>0, <2>1
  <2>3. /\ r \in Seq(Slots) /\ Len(r) = Len(q) - 1
        /\ \A j \in 1 .. Len(q) - 1 : r[j] = IF j < m THEN q[j] ELSE q[j + 1]
    BY <2>2, RemoveAtFacts
  <2> HIDE DEF q, r
  <2>4. DOMAIN q = 1 .. Len(q) /\ DOMAIN r = 1 .. Len(q) - 1
    BY <2>2, <2>3
  <2>5. \A i \in DOMAIN r : After(i) \in DOMAIN q /\ After(i) # m /\ r[i] = q[After(i)]
    BY <2>2, <2>3, <2>4
  <2>6. ASSUME NEW j \in DOMAIN q, j # m
        PROVE  \E i \in DOMAIN r : r[i] = q[j]
    <3>1. CASE j < m
      BY <2>2, <2>3, <2>4, <3>1
    <3>2. CASE j > m
      <4>1. j - 1 \in DOMAIN r /\ r[j - 1] = q[(j - 1) + 1] /\ (j - 1) + 1 = j
        BY <2>2, <2>3, <2>4, <3>2
      <4>2. QED
        BY <4>1
    <3>3. QED
      BY <2>2, <2>4, <2>6, <3>1, <3>2
  <2>7. QED
    BY <2>2, <2>4, <2>5, <2>6 DEF q
<1>m. m \in Int
  BY <1>1
<1>a. ASSUME NEW i \in Int, NEW j \in Int
      PROVE  (After(i) = After(j) => i = j) /\ (i < j => After(i) < After(j))
  BY <1>m
<1> HIDE DEF After
<1>2. \A d \in Clients \ {c} : Line(d)' = Line(d)
  BY DEF Drop, SameLine
<1>3. \A d \in Clients : (Busy(d)' <=> Busy(d)) /\ (Busy(d) => sub'[d].slot = sub[d].slot)
  BY DEF Drop, SameLine
<1>4. /\ avail' = avail \cup {h} /\ queue' = queue /\ Hand' = Hand /\ work[h].completed
      /\ \A s \in Slots : work'[s].completed = work[s].completed
  BY <1>0 DEF Drop, SameCompleted
<1>5. \A d \in Clients : \A i \in DOMAIN Line(d) : Line(d)[i] \in Slots
  BY DEF Shares
<1>6. \A d \in Clients : \A i \in DOMAIN Line(d)' :
        \E j \in DOMAIN Line(d) : /\ Line(d)'[i] = Line(d)[j] /\ Line(d)[j] # h
                                  /\ j = IF d = c THEN After(i) ELSE i
  <2>1. \A d \in Clients : \A j \in DOMAIN Line(d) : Line(d)[j] = h => d = c /\ j = m
    BY DEF Shares
  <2>2. \A i \in DOMAIN Line(c)' : Line(c)[After(i)] # h
    BY <1>1, <2>1
  <2>3. ASSUME NEW d \in Clients, NEW i \in DOMAIN Line(d)', d # c
        PROVE  i \in DOMAIN Line(d) /\ Line(d)'[i] = Line(d)[i] /\ Line(d)[i] # h
    BY <1>2, <2>1, <2>3
  <2> HIDE DEF h
  <2>4. QED
    BY <1>1, <2>2, <2>3
<1>7. \A d \in Clients : \A j \in DOMAIN Line(d) :
        Line(d)[j] = h \/ \E i \in DOMAIN Line(d)' : Line(d)'[i] = Line(d)[j]
  BY <1>1, <1>2
<1>8. h \in Slots
  BY <1>5
<1>9. \A d \in Clients : Busy(d) => sub[d].slot # h
  BY DEF Shares
<1> HIDE DEF h
<1>10. Shares'
  <2>1. \A d \in Clients : \A i \in DOMAIN Line(d)' : Line(d)'[i] \in Slots \ avail'
    BY <1>4, <1>6 DEF Shares
  <2>2. \A d, e \in Clients : \A i \in DOMAIN Line(d)', j \in DOMAIN Line(e)' :
          Line(d)'[i] = Line(e)'[j] => d = e /\ i = j
    <3>1. ASSUME NEW d \in Clients, NEW e \in Clients, NEW i \in DOMAIN Line(d)',
                 NEW j \in DOMAIN Line(e)', Line(d)'[i] = Line(e)'[j]
          PROVE  d = e /\ i = j
      <4>1. PICK k \in DOMAIN Line(d) : Line(d)'[i] = Line(d)[k] /\ k = IF d = c THEN After(i) ELSE i
        BY <1>6
      <4>2. PICK l \in DOMAIN Line(e) : Line(e)'[j] = Line(e)[l] /\ l = IF e = c THEN After(j) ELSE j
        BY <1>6
      <4>3. d = e /\ k = l
        <5>1. Line(d)[k] = Line(e)[l]
          BY <3>1, <4>1, <4>2
        <5>2. QED
          BY <5>1 DEF Shares
      <4>4. CASE d = c
        <5>1. i \in Int /\ j \in Int /\ After(i) = After(j)
          BY <1>1, <4>1, <4>2, <4>3, <4>4
        <5>2. QED
          BY <1>a, <4>3, <5>1
      <4>5. QED
        BY <4>1, <4>2, <4>3, <4>4
    <3>2. QED
      BY <3>1
  <2>3. \A d \in Clients : Busy(d)' => sub'[d].slot \in Slots \ avail'
    BY <1>3, <1>4, <1>9 DEF Shares
  <2>4. \A d, e \in Clients : Busy(d)' /\ Busy(e)' /\ sub'[d].slot = sub'[e].slot => d = e
    BY <1>3 DEF Shares
  <2>5. \A d, e \in Clients : \A i \in DOMAIN Line(d)' : Busy(e)' => Line(d)'[i] # sub'[e].slot
    BY <1>3, <1>6 DEF Shares
  <2>6. \A s \in Slots : \/ s \in avail'
                         \/ \E d \in Clients : Busy(d)' /\ sub'[d].slot = s
                         \/ \E d \in Clients : \E i \in DOMAIN Line(d)' : Line(d)'[i] = s
    BY <1>3, <1>4, <1>7 DEF Shares
  <2>7. QED
    BY <2>1, <2>2, <2>3, <2>4, <2>5, <2>6 DEF Shares
<1>11. \A s : Held(s) /\ s # h => \E d \in Clients : \E i \in DOMAIN Line(d)' : Line(d)'[i] = s
  BY <1>7 DEF Held
<1>12. Flight'
  <2>1. ASSUME NEW p \in DOMAIN queue
        PROVE  /\ \E d \in Clients : \E i \in DOMAIN Line(d)' : Line(d)'[i] = queue[p]
               /\ work'[queue[p]].completed = FALSE /\ queue[p] # Hand
    <3>1. Held(queue[p]) /\ work[queue[p]].completed = FALSE /\ queue[p] # Hand
      BY DEF Flight
    <3>2. queue[p] \in Slots
      BY <1>5, <3>1 DEF Held
    <3>3. QED
      BY <1>4, <1>11, <3>1, <3>2
  <2>2. ASSUME Hand # Null
        PROVE  /\ \E d \in Clients : \E i \in DOMAIN Line(d)' : Line(d)'[i] = Hand
               /\ work'[Hand].completed = FALSE
    <3>1. Held(Hand) /\ work[Hand].completed = FALSE
      BY <2>2 DEF Flight
    <3>2. Hand \in Slots
      BY <1>5, <3>1 DEF Held
    <3>3. QED
      BY <1>4, <1>11, <3>1, <3>2
  <2>3. \A d \in Clients : \A i \in DOMAIN Line(d)' :
          \/ work'[Line(d)'[i]].completed \/ Line(d)'[i] = Hand
          \/ \E p \in DOMAIN queue : queue[p] = Line(d)'[i]
    BY <1>4, <1>5, <1>6 DEF Flight
  <2>4. \A p, q \in DOMAIN queue : queue[p] = queue[q] => p = q
    BY DEF Flight
  <2>5. queue' = queue /\ Hand' = Hand
    BY <1>4
  <2>6. \A p \in DOMAIN queue' :
          /\ \E d \in Clients : \E i \in DOMAIN Line(d)' : Line(d)'[i] = queue'[p]
          /\ work'[queue'[p]].completed = FALSE /\ queue'[p] # Hand'
    BY <2>1, <2>5
  <2>7. Hand' # Null => /\ \E d \in Clients : \E i \in DOMAIN Line(d)' : Line(d)'[i] = Hand'
                        /\ work'[Hand'].completed = FALSE
    BY <2>2, <2>5
  <2>8. /\ \A d \in Clients : \A i \in DOMAIN Line(d)' :
             \/ work'[Line(d)'[i]].completed \/ Line(d)'[i] = Hand'
             \/ \E p \in DOMAIN queue' : queue'[p] = Line(d)'[i]
        /\ \A p, q \in DOMAIN queue' : queue'[p] = queue'[q] => p = q
    BY <2>3, <2>4, <2>5
  <2>9. QED
    BY <2>6, <2>7, <2>8 DEF Flight, Held
<1>13. Order'
  <2>1. SUFFICES ASSUME NEW d \in Clients, NEW i \in DOMAIN Line(d)', NEW j \in DOMAIN Line(d)', i < j
                 PROVE  /\ work'[Line(d)'[j]].completed => work'[Line(d)'[i]].completed
                        /\ Line(d)'[j] = Hand' => work'[Line(d)'[i]].completed
                        /\ \A p, q \in DOMAIN queue' :
                             queue'[p] = Line(d)'[i] /\ queue'[q] = Line(d)'[j] => p < q
    BY DEF Order
  <2>2. PICK k \in DOMAIN Line(d) : Line(d)'[i] = Line(d)[k] /\ k = IF d = c THEN After(i) ELSE i
    BY <1>6
  <2>3. PICK l \in DOMAIN Line(d) : Line(d)'[j] = Line(d)[l] /\ l = IF d = c THEN After(j) ELSE j
    BY <1>6
  <2>4. k < l
    <3>1. CASE d = c
      <4>1. i \in Int /\ j \in Int
        BY <1>1, <3>1
      <4>2. After(i) < After(j)
        BY <1>a, <2>1, <4>1
      <4>3. QED
        BY <2>2, <2>3, <3>1, <4>2
    <3>2. QED
      BY <2>1, <2>2, <2>3, <3>1
  <2>5. /\ work[Line(d)[l]].completed => work[Line(d)[k]].completed
        /\ Line(d)[l] = Hand => work[Line(d)[k]].completed
        /\ \A p, q \in DOMAIN queue : queue[p] = Line(d)[k] /\ queue[q] = Line(d)[l] => p < q
    BY <2>4 DEF Order
  <2>6. QED
    BY <1>4, <1>5, <2>2, <2>3, <2>5
<1>14. QED
  BY <1>10, <1>12, <1>13

LEMMA PickMoves ==
  ASSUME Types, Shares, Flight, Order, Pick
  PROVE  Shares' /\ Flight' /\ Order'
<1>1. /\ \A d \in Clients : Line(d)' = Line(d)
      /\ avail' = avail /\ Hand = Null /\ Hand' = queue[1]
      /\ \A s \in Slots : work'[s].completed = work[s].completed
  BY DEF Pick, Still, SameLine, SameCompleted
<1>2. Shares'
  BY DEF Shares, Pick, Still, SameLine
<1>3. /\ 1 \in DOMAIN queue /\ DOMAIN queue \subseteq Int /\ DOMAIN queue' \subseteq Int
      /\ \A p \in DOMAIN queue' : /\ p + 1 \in DOMAIN queue /\ p + 1 # 1
                                  /\ queue'[p] = queue[p + 1]
      /\ \A p \in DOMAIN queue : /\ p >= 1
                                 /\ p = 1 \/ (p - 1 \in DOMAIN queue' /\ queue'[p - 1] = queue[p])
  <2>1. queue \in Seq(Slots) /\ queue # <<>> /\ queue' = RemoveAt(queue, 1)
    BY TypeFacts DEF Pick
  <2>2. /\ queue' \in Seq(Slots) /\ Len(queue') = Len(queue) - 1
        /\ \A i \in 1 .. Len(queue) - 1 : queue'[i] = queue[i + 1]
        /\ Len(queue) >= 1
    BY <2>1, PopFacts
  <2>3. QED
    BY <2>1, <2>2
<1>4. \A d \in Clients : \A i \in DOMAIN Line(d) : Line(d)[i] \in Slots
  BY DEF Shares
<1>5. \A p \in DOMAIN queue : queue[p] \in Slots
  BY <1>4 DEF Flight, Held
<1>6. Null \notin Slots
  BY TypeFacts
<1>7. Flight'
  <2>1. \A p, q \in DOMAIN queue' : queue'[p] = queue'[q] => p = q
    <3>1. \A p, q \in DOMAIN queue' : p + 1 = q + 1 => p = q
      BY <1>3
    <3>2. QED
      BY <1>3, <3>1 DEF Flight
  <2>2. \A p \in DOMAIN queue' : queue'[p] # queue[1]
    BY <1>3 DEF Flight
  <2>3. \A p \in DOMAIN queue' : Held(queue[p + 1]) /\ work'[queue'[p]].completed = FALSE
    BY <1>1, <1>3, <1>5 DEF Flight
  <2>4. Held(queue[1]) /\ work'[queue[1]].completed = FALSE
    BY <1>1, <1>3, <1>5 DEF Flight
  <2>5. \A d \in Clients : \A i \in DOMAIN Line(d) :
          \/ work'[Line(d)[i]].completed \/ Line(d)[i] = queue[1]
          \/ \E p \in DOMAIN queue' : queue'[p] = Line(d)[i]
    BY <1>1, <1>3, <1>4, <1>6 DEF Flight
  <2>6. QED
    BY <1>1, <1>3, <2>1, <2>2, <2>3, <2>4, <2>5 DEF Flight, Held
<1>8. Order'
  <2>1. SUFFICES ASSUME NEW d \in Clients, NEW i \in DOMAIN Line(d), NEW j \in DOMAIN Line(d), i < j
                 PROVE  /\ work'[Line(d)[j]].completed => work'[Line(d)[i]].completed
                        /\ Line(d)[j] = queue[1] => work'[Line(d)[i]].completed
                        /\ \A p, q \in DOMAIN queue' :
                             queue'[p] = Line(d)[i] /\ queue'[q] = Line(d)[j] => p < q
    BY <1>1 DEF Order
  <2>2. /\ work[Line(d)[j]].completed => work[Line(d)[i]].completed
        /\ \A p, q \in DOMAIN queue : queue[p] = Line(d)[i] /\ queue[q] = Line(d)[j] => p < q
    BY <2>1 DEF Order
  <2>3. \/ work[Line(d)[i]].completed
        \/ \E p \in DOMAIN queue : queue[p] = Line(d)[i]
    BY <1>1, <1>4, <1>6 DEF Flight
  <2>4. Line(d)[j] = queue[1] => work[Line(d)[i]].completed
    BY <1>3, <2>2, <2>3
  <2>5. \A p, q \in DOMAIN queue' : queue'[p] = Line(d)[i] /\ queue'[q] = Line(d)[j] => p < q
    <3>1. \A p, q \in DOMAIN queue' : queue[p + 1] = Line(d)[i] /\ queue[q + 1] = Line(d)[j] => p + 1 < q + 1
      BY <1>3, <2>2
    <3>2. QED
      BY <1>3, <3>1
  <2>6. QED
    BY <1>1, <1>4, <2>2, <2>4, <2>5
<1>9. QED
  BY <1>2, <1>7, <1>8

LEMMA FinishMoves ==
  ASSUME Types, Shares, Flight, Order, Finish
  PROVE  Shares' /\ Flight' /\ Order'
<1>1. /\ \A d \in Clients : Line(d)' = Line(d)
      /\ avail' = avail /\ Hand # Null /\ Hand' = Null /\ queue' = queue
      /\ work'[Hand].completed
      /\ \A s \in Slots : s # Hand => work'[s].completed = work[s].completed
  BY DEF Finish, Still, SameLine, SameCompleted
<1>2. Shares'
  BY DEF Shares, Finish, Still, SameLine
<1>3. \A d \in Clients : \A i \in DOMAIN Line(d) : Line(d)[i] \in Slots /\ Line(d)[i] # Null
  BY TypeFacts DEF Shares
<1>4. \A p \in DOMAIN queue : queue[p] \in Slots /\ queue[p] # Null /\ queue[p] # Hand
  BY <1>3 DEF Flight, Held
<1>5. Flight'
  <2>1. \A p \in DOMAIN queue : work'[queue[p]].completed = FALSE
    BY <1>1, <1>4 DEF Flight
  <2>2. \A d \in Clients : \A i \in DOMAIN Line(d) :
          work'[Line(d)[i]].completed \/ \E p \in DOMAIN queue : queue[p] = Line(d)[i]
    BY <1>1, <1>3 DEF Flight
  <2>3. QED
    BY <1>1, <1>4, <2>1, <2>2 DEF Flight, Held
<1>6. Order'
  <2>1. \A d \in Clients : \A i \in DOMAIN Line(d) :
          /\ work[Line(d)[i]].completed => work'[Line(d)[i]].completed
          /\ work'[Line(d)[i]].completed => work[Line(d)[i]].completed \/ Line(d)[i] = Hand
    BY <1>1, <1>3
  <2>2. QED
    BY <1>1, <1>3, <2>1 DEF Order
<1>7. QED
  BY <1>2, <1>5, <1>6

LEMMA MovesStep ==
  ASSUME AllWaited, Types, Shares, Flight, Order, WaitForLast, [Next]_vars
  PROVE  Shares' /\ Flight' /\ Order'
<1>1. avail \subseteq Slots
  BY TypeFacts
<1>2. QED
  BY <1>1, Moves, KeepMoves, TakeMoves, FillMoves, HangMoves, DropMoves, PickMoves, FinishMoves

-----------------------------------------------------------------------------
LEMMA StayCompleted ==
  ASSUME AllWaited, Types, Shares, WaitForLast, [Next]_vars
  PROVE  \A s : Held(s) /\ work[s].completed => work'[s].completed
<1> SUFFICES ASSUME NEW s, Held(s), work[s].completed
             PROVE  work'[s].completed
  OBVIOUS
<1>1. s \in Slots \ avail /\ \A c \in Clients : Busy(c) => sub[c].slot # s
  BY HeldSlots
<1>2. ASSUME NEW c \in Clients, Take(c) \/ Fill(c) \/ Hang(c) \/ Drop(c) PROVE SameCompleted(s)
  BY <1>1, <1>2 DEF Take, Fill, Hang, Drop
<1>3. ASSUME Pick \/ Keep PROVE SameCompleted(s)
  BY <1>1, <1>3 DEF Pick, Keep
<1>4. ASSUME Finish PROVE work'[s].completed
  BY <1>1, <1>4 DEF Finish, SameCompleted
<1>5. QED
  BY <1>2, <1>3, <1>4, Moves DEF SameCompleted

\* What client c knows to be completed after a step.
KnowsSame(c) ==
  /\ client'[c].seen = client[c].seen
  /\ \A i \in 1 .. client[c].seen : client'[c].mine[i] = client[c].mine[i]

KnowsTarget(c) ==
  /\ work[client[c].mine[client[c].target]].completed
  /\ work' = work /\ client'[c].seen = client[c].target /\ client'[c].mine = client[c].mine

KnowsRest(c) ==
  /\ client[c].seen > 0
  /\ work' = work /\ client'[c].seen = client[c].seen - 1
  /\ \E i \in 1 .. client[c].seen : client'[c].mine = RemoveAt(client[c].mine, i)

LEMMA KnowsStep ==
  ASSUME AllWaited, Types, [Next]_vars, NEW c \in Clients
  PROVE  KnowsSame(c) \/ KnowsTarget(c) \/ KnowsRest(c)
<1>s. /\ client \in [Clients -> ClientState] /\ client[c].mine \in Seq(Slots)
      /\ client[c].seen \in 0 .. Len(client[c].mine)
      /\ \A d \in Clients : Proper(d)
  BY TypeFacts DEF Types
<1>1. ASSUME client'[c].mine = client[c].mine, client'[c].seen = client[c].seen
      PROVE  KnowsSame(c)
  BY <1>1 DEF KnowsSame
<1>2. ASSUME NEW d \in Clients, ClientSubmits(d)
      PROVE  KnowsSame(c)
  <2>1. \/ client' = client
        \/ /\ sub[d].slot \in Slots
           /\ client' = [client EXCEPT ![d].mine = Append(@, sub[d].slot)]
    <3>1. CASE \E f \in DOMAIN Entry, a \in Actions : WaitedAlloc(d, f, a)
      BY <3>1 DEF WaitedAlloc, AllocItem
    <3>2. CASE InitItem(d)
      BY <3>2 DEF InitItem
    <3>3. CASE PushItem(d) \/ CorrectOp(d)
      <4>1. sub[d].pc # "none"
        BY <3>3 DEF PushItem, CorrectOp, GoSub
      <4>2. sub[d].slot \in Slots
        BY <1>s, <4>1 DEF Proper
      <4>3. QED
        BY <3>3, <4>2 DEF PushItem, CorrectOp, Return
    <3>4. QED
      BY <1>2, <3>1, <3>2, <3>3 DEF ClientSubmits
  <2>2. CASE client' = client
    BY <1>1, <2>2
  <2>3. CASE d # c /\ client' = [client EXCEPT ![d].mine = Append(@, sub[d].slot)]
    BY <1>1, <1>s, <2>3
  <2>4. ASSUME d = c, sub[d].slot \in Slots, client' = [client EXCEPT ![d].mine = Append(@, sub[d].slot)]
        PROVE  KnowsSame(c)
    <3> DEFINE x == sub[d].slot
               m == client[c].mine
    <3>1. client'[c].mine = Append(m, x) /\ client'[c].seen = client[c].seen
      BY <1>s, <2>4 DEF ClientState
    <3>2. m \in Seq(Slots) /\ x \in Slots /\ client[c].seen \in 0 .. Len(m)
      BY <1>s, <2>4
    <3> HIDE DEF x, m
    <3>3. \A i \in 1 .. Len(m) : Append(m, x)[i] = m[i]
      BY <3>2
    <3>4. \A i \in 1 .. client[c].seen : i \in 1 .. Len(m)
      BY <3>2
    <3>5. QED
      BY <3>1, <3>3, <3>4 DEF KnowsSame, m
  <2>5. QED
    BY <2>1, <2>2, <2>3, <2>4
<1>3. ASSUME NEW d \in Clients, ClientWaits(d)
      PROVE  KnowsSame(c) \/ KnowsTarget(c) \/ KnowsRest(c)
  <2>1. CASE Await(d)
    BY <1>1, <1>s, <2>1 DEF Await, ClientState
  <2>2. CASE SpuriousWake(d)
    BY <1>1, <1>s, <2>2 DEF SpuriousWake, ClientState
  <2>3. CASE ClientFreeBuffer(d)
    BY <1>1, <2>3 DEF ClientFreeBuffer
  <2>4. CASE AwaitTest(d)
    <3>1. CASE d = c /\ work[client[d].mine[client[d].target]].completed
      BY <1>s, <2>4, <3>1 DEF AwaitTest, KnowsTarget, ClientState
    <3>2. CASE ~(d = c /\ work[client[d].mine[client[d].target]].completed)
      BY <1>1, <1>s, <2>4, <3>2 DEF AwaitTest, ClientState
    <3>3. QED
      BY <3>1, <3>2
  <2>5. CASE ReleaseWorkItem(d)
    <3>1. CASE d = c
      BY <1>s, <2>5, <3>1 DEF ReleaseWorkItem, KnowsRest, ClientState
    <3>2. CASE d # c
      BY <1>1, <1>s, <2>5, <3>2 DEF ReleaseWorkItem, ClientState
    <3>3. QED
      BY <3>1, <3>2
  <2>6. QED
    BY <1>3, <2>1, <2>2, <2>3, <2>4, <2>5 DEF ClientWaits
<1>4. ASSUME ThreadRuns
      PROVE  KnowsSame(c)
  <2>1. CASE NotifyAll
    BY <1>1, <1>s, <2>1 DEF NotifyAll, ClientState
  <2>2. CASE ~NotifyAll
    BY <1>1, <1>4, <2>2 DEF ThreadRuns, PopItem, FindMount, RunOperation, Complete, Choose
  <2>3. QED
    BY <2>1, <2>2
<1>5. ASSUME Pause PROVE KnowsSame(c)
  BY <1>1, <1>5 DEF Pause
<1>6. QED
  BY <1>2, <1>3, <1>4, <1>5, WaitedCases

LEMMA WaitForLastStep ==
  ASSUME AllWaited, Types, Shares, Order, WaitForLast, [Next]_vars
  PROVE  WaitForLast'
<1> SUFFICES ASSUME NEW c \in Clients, NEW i \in 1 .. client'[c].seen
             PROVE  work'[client'[c].mine[i]].completed
  BY DEF WaitForLast
<1> DEFINE m == client[c].mine
<1>1. /\ m \in Seq(Slots) /\ Len(m) \in Nat /\ client[c].seen \in 0 .. Len(m)
      /\ client[c].target \in 0 .. Len(m)
  BY TypeFacts
<1>2. \A j \in 1 .. Len(m) : j \in DOMAIN Line(c) /\ Line(c)[j] = m[j] /\ Held(m[j])
  <2>1. \A j \in 1 .. Len(m) : j \in DOMAIN Line(c) /\ Line(c)[j] = m[j]
    BY <1>1 DEF Line, Types
  <2>2. QED
    BY <2>1 DEF Held
<1>3. \A j \in 1 .. client[c].seen : work[m[j]].completed
  BY DEF WaitForLast
<1>4. CASE KnowsSame(c)
  <2>1. i \in 1 .. client[c].seen /\ client'[c].mine[i] = m[i]
    BY <1>4 DEF KnowsSame
  <2>2. Held(m[i]) /\ work[m[i]].completed
    BY <1>1, <1>2, <1>3, <2>1
  <2>3. QED
    BY <2>1, <2>2, StayCompleted
<1>5. CASE KnowsTarget(c)
  <2> DEFINE t == client[c].target
  <2>1. work[m[t]].completed /\ i \in 1 .. t /\ work' = work /\ client'[c].mine = m
    BY <1>5 DEF KnowsTarget
  <2>2. i \in 1 .. Len(m) /\ t \in 1 .. Len(m) /\ (i < t \/ i = t)
    BY <1>1, <2>1
  <2> HIDE DEF m, t
  <2>3. i < t => work[m[i]].completed
    BY <1>2, <2>1, <2>2 DEF Order
  <2>4. QED
    BY <2>1, <2>2, <2>3
<1>6. CASE KnowsRest(c)
  <2>1. PICK k \in 1 .. client[c].seen : client'[c].mine = RemoveAt(m, k)
    BY <1>6 DEF KnowsRest, m
  <2>2. i \in 1 .. client[c].seen - 1 /\ work' = work
    BY <1>6 DEF KnowsRest
  <2> HIDE DEF m
  <2>3. k \in 1 .. Len(m) /\ i \in 1 .. Len(m) - 1
    BY <1>1, <2>2
  <2>4. RemoveAt(m, k)[i] = IF i < k THEN m[i] ELSE m[i + 1]
    BY <1>1, <2>3, RemoveAtFacts
  <2>5. i \in 1 .. client[c].seen /\ i + 1 \in 1 .. client[c].seen
    BY <1>1, <2>2
  <2>6. QED
    BY <1>3, <2>1, <2>2, <2>4, <2>5
<1>7. QED
  BY <1>4, <1>5, <1>6, KnowsStep

LEMMA WaitInvariant ==
  ASSUME AllWaited
  PROVE  Spec => []WaitInv
<1>1. WaitInv /\ [Next]_vars => WaitInv'
  <2> SUFFICES ASSUME WaitInv, [Next]_vars PROVE WaitInv'
    OBVIOUS
  <2>1. Types' /\ WaitForLast'
    BY TypesStep, WaitForLastStep DEF WaitInv
  <2>2. Shares' /\ Flight' /\ Order'
    BY MovesStep DEF WaitInv
  <2>3. QED
    BY <2>1, <2>2 DEF WaitInv
<1>2. QED
  BY <1>1, WaitInit, PTL DEF Spec

\* Every variable has its type, and the thread has an item in hand exactly
\* from the pop to the end of the pass (FileContext.cpp:670-786).
THEOREM WaitedTypesCorrect ==
  ASSUME AllWaited
  PROVE  Spec => []TypeOK
<1>1. WaitInv => TypeOK
  BY DEF WaitInv, Types
<1>2. QED
  BY <1>1, WaitInvariant, PTL

\* However many clients submit, wait and release in whatever order, and stop
\* and restart the thread meanwhile, a client that waited for its last item
\* finds the earlier ones completed: "Work items are sequential, only need to
\* wait on the last one" (tests/tests_cpp.cpp:188).
THEOREM WaitForLastHolds ==
  ASSUME AllWaited
  PROVE  Spec => []WaitForLast
<1>1. WaitInv => WaitForLast
  BY DEF WaitInv
<1>2. QED
  BY <1>1, WaitInvariant, PTL

\* The line of a client is the items it holds, and the one it has yet to get.
LEMMA LineParts ==
  ASSUME Types, NEW c \in Clients
  PROVE  /\ \A i \in DOMAIN client[c].mine : i \in DOMAIN Line(c) /\ Line(c)[i] = client[c].mine[i]
         /\ sub[c].pc = "correct" => \E i \in DOMAIN Line(c) : /\ i \notin DOMAIN client[c].mine
                                                               /\ Line(c)[i] = sub[c].slot
         /\ \A i \in DOMAIN Line(c) :
              \/ i \in DOMAIN client[c].mine /\ Line(c)[i] = client[c].mine[i]
              \/ sub[c].pc = "correct" /\ Line(c)[i] = sub[c].slot
<1> DEFINE m == client[c].mine
           x == sub[c].slot
<1>1. m \in Seq(Slots) /\ (sub[c].pc = "correct" => x \in Slots)
  <2>1. client[c].mine \in Seq(Slots) /\ Proper(c)
    BY TypeFacts DEF Types
  <2>2. QED
    BY <2>1 DEF Proper
<1>2. Line(c) = IF sub[c].pc = "correct" THEN Append(m, x) ELSE m
  BY DEF Line
<1> HIDE DEF m, x
<1>3. CASE sub[c].pc # "correct"
  BY <1>2, <1>3 DEF m
<1>4. CASE sub[c].pc = "correct"
  <2>1. /\ Len(m) \in Nat /\ DOMAIN m = 1 .. Len(m) /\ DOMAIN Append(m, x) = 1 .. Len(m) + 1
        /\ \A i \in 1 .. Len(m) : Append(m, x)[i] = m[i]
        /\ Append(m, x)[Len(m) + 1] = x
    BY <1>1, <1>4
  <2>2. /\ \A i \in DOMAIN m : i \in DOMAIN Append(m, x) /\ Append(m, x)[i] = m[i]
        /\ \E i \in DOMAIN Append(m, x) : i \notin DOMAIN m /\ Append(m, x)[i] = x
        /\ \A i \in DOMAIN Append(m, x) :
             (i \in DOMAIN m /\ Append(m, x)[i] = m[i]) \/ Append(m, x)[i] = x
    BY <2>1
  <2>3. QED
    BY <1>2, <1>4, <2>2 DEF m, x
<1>5. QED
  BY <1>3, <1>4

\* No slot of the pool is leaked, handed out or returned twice, or queued
\* while another party has it: it is in the pool, with one client that submits
\* or holds it, at one place of the queue, or with the processing thread
\* (FileContext.h:96-100; FileContext.cpp:406-417, 436-458, 775-785).
THEOREM WaitedOneHolder ==
  ASSUME AllWaited
  PROVE  Spec => []OneHolder
<1>1. ASSUME WaitInv, NEW s \in Slots PROVE \E h \in Holders(s) : Holders(s) = {h}
  <2> DEFINE pool == {<<"pool">> : x \in avail \cap {s}}
             submitting == {<<"submitting", t>> : t \in {u \in Threads : Submitting(u, s)}}
             queued == {<<"queue", i>> : i \in {j \in DOMAIN queue : queue[j] = s}}
             thread == {<<"thread">> : x \in {y \in {s} : Processing(y)}}
             mine(c) == {<<"client", c, i>> :
                           i \in {j \in DOMAIN client[c].mine : client[c].mine[j] = s /\ work[s].completed}}
             held == UNION {mine(c) : c \in Clients}
  <2>w. Types /\ Shares /\ Flight
    BY <1>1 DEF WaitInv
  <2>1. Holders(s) = pool \cup submitting \cup queued \cup thread \cup held
    BY DEF Holders
  <2>2. \A t \in Threads : Submitting(t, s) <=>
          /\ t \in Clients /\ sub[t].slot = s
          /\ Busy(t) \/ (sub[t].pc = "correct" /\ work[s].completed)
    BY <2>w DEF Types, Submitting, Busy, Threads
  <2>3. Processing(s) <=> Hand = s
    <3>1. s # Null
      BY NullAssumption DEF Slots
    <3>2. tpc = "choose" => work[s].callback = FALSE
      BY <2>w DEF Types
    <3>3. cur = s => tpc \notin {"loop", "pop", "exited", "joined"}
      BY <2>w, <3>1 DEF Types, TypeOK
    <3>4. QED
      BY <2>w, <3>1, <3>2, <3>3 DEF Types, Processing, Hand
  <2>4. \A c \in Clients : \A i \in DOMAIN client[c].mine :
          i \in DOMAIN Line(c) /\ Line(c)[i] = client[c].mine[i]
    BY <2>w, LineParts
  <2>5. \A c \in Clients : sub[c].pc = "correct" =>
          \E i \in DOMAIN Line(c) : i \notin DOMAIN client[c].mine /\ Line(c)[i] = sub[c].slot
    BY <2>w, LineParts
  <2>6. ASSUME ~Held(s)
        PROVE  /\ queued = {} /\ thread = {} /\ held = {}
               /\ \A t \in Threads : Submitting(t, s) <=> t \in Clients /\ Busy(t) /\ sub[t].slot = s
    <3>1. queued = {}
      BY <2>w, <2>6 DEF Flight
    <3>2. thread = {}
      BY <2>w, <2>3, <2>6, NullAssumption DEF Flight, Slots
    <3>3. held = {}
      BY <2>4, <2>6 DEF Held
    <3>4. \A t \in Threads : Submitting(t, s) <=> t \in Clients /\ Busy(t) /\ sub[t].slot = s
      BY <2>2, <2>5, <2>6 DEF Held
    <3>5. QED
      BY <3>1, <3>2, <3>3, <3>4
  <2>7. CASE ~Held(s) /\ s \in avail
    <3>1. submitting = {} /\ pool = {<<"pool">>}
      BY <2>w, <2>6, <2>7 DEF Shares
    <3>2. QED
      BY <2>1, <2>6, <2>7, <3>1
  <2>8. CASE ~Held(s) /\ s \notin avail
    <3>1. PICK c \in Clients : Busy(c) /\ sub[c].slot = s
      BY <2>w, <2>8 DEF Shares, Held
    <3>2. pool = {} /\ submitting = {<<"submitting", c>>}
      BY <2>w, <2>6, <2>8, <3>1 DEF Shares, Threads
    <3>3. QED
      BY <2>1, <2>6, <2>8, <3>2
  <2>9. CASE Held(s)
    <3>1. PICK c \in Clients : \E i \in DOMAIN Line(c) : Line(c)[i] = s
      BY <2>9 DEF Held
    <3>2. PICK i \in DOMAIN Line(c) : Line(c)[i] = s
      BY <3>1
    <3>3. pool = {} /\ \A d \in Clients : Busy(d) => sub[d].slot # s
      BY <2>w, <3>2 DEF Shares
    <3>4. \A d \in Clients : \A j \in DOMAIN Line(d) : Line(d)[j] = s => d = c /\ j = i
      BY <2>w, <3>2 DEF Shares
    <3>5. CASE ~work[s].completed
      <4>1. submitting = {} /\ held = {}
        BY <2>2, <3>3, <3>5
      <4>2. CASE Hand = s
        <5>1. queued = {} /\ thread = {<<"thread">>}
          BY <2>w, <2>3, <4>2 DEF Flight
        <5>2. QED
          BY <2>1, <3>3, <4>1, <5>1
      <4>3. CASE Hand # s
        <5>1. PICK p \in DOMAIN queue : queue[p] = s
          BY <2>w, <3>2, <3>5, <4>3 DEF Flight
        <5>2. queued = {<<"queue", p>>} /\ thread = {}
          BY <2>w, <2>3, <4>3, <5>1 DEF Flight
        <5>3. QED
          BY <2>1, <3>3, <4>1, <5>2
      <4>4. QED
        BY <4>2, <4>3
    <3>6. CASE work[s].completed
      <4>1. queued = {} /\ thread = {}
        BY <2>w, <2>3, <3>6, NullAssumption DEF Flight, Slots
      <4>2. CASE i \in DOMAIN client[c].mine
        <5>1. submitting = {}
          BY <2>2, <2>5, <3>3, <3>4, <4>2
        <5>2. mine(c) = {<<"client", c, i>>}
          BY <2>4, <3>2, <3>4, <3>6, <4>2
        <5>3. \A d \in Clients : d # c => mine(d) = {}
          BY <2>4, <3>4
        <5>4. held = {<<"client", c, i>>}
          BY <5>2, <5>3
        <5>5. QED
          BY <2>1, <3>3, <4>1, <5>1, <5>4
      <4>3. CASE i \notin DOMAIN client[c].mine
        <5>1. sub[c].pc = "correct" /\ sub[c].slot = s
          BY <2>w, <3>2, <4>3, LineParts
        <5>2. submitting = {<<"submitting", c>>}
          BY <2>2, <2>5, <3>3, <3>4, <3>6, <5>1 DEF Threads
        <5>3. held = {}
          BY <2>4, <3>4, <4>3
        <5>4. QED
          BY <2>1, <3>3, <4>1, <5>2, <5>3
      <4>4. QED
        BY <4>2, <4>3
    <3>7. QED
      BY <3>5, <3>6
  <2>10. QED
    BY <2>7, <2>8, <2>9
<1>2. WaitInv => OneHolder
  BY <1>1 DEF OneHolder
<1>3. QED
  BY <1>2, WaitInvariant, PTL

-----------------------------------------------------------------------------
(* The buffers that reads allocate.                                        *)

InUseSlots == Slots \ avail

\* A slot is still empty when its client fills it in, for a request of its own.
Fresh(c) ==
  sub[c].pc = "init" =>
    /\ work[sub[c].slot] = Constructed
    /\ sub[c].request \in DOMAIN log
    /\ \A s \in InUseSlots : work[s].request # sub[c].request
    /\ \A d \in Clients : sub[d].pc = "init" /\ sub[d].request = sub[c].request => c = d

\* A request is in one slot.
Requested ==
  /\ \A s \in InUseSlots : work[s].request \in {0} \cup DOMAIN log
  /\ \A s, z \in InUseSlots : work[s].request = work[z].request /\ work[s].request # 0 => s = z
  /\ \A c \in Clients : Fresh(c)

\* Reads set an allocator, and only an item with an allocator gets a buffer of
\* its own, when its operation is carried out.
Allocates ==
  /\ \A s \in InUseSlots : work[s].op = "READ" => work[s].allocator
  /\ tpc = "device" /\ asked = {"READ"} => work[cur].allocator
  /\ \A s \in InUseSlots : work[s].buffer = "heap" =>
       work[s].allocator /\ (work[s].completed \/ (tpc = "complete" /\ s = cur))

Reachable(r) == \E s \in InUseSlots : work[s].request = r /\ work[s].buffer = "heap"

Kept == \A r \in DOMAIN log : log[r].heap <=> Reachable(r)

HeapInv == Requested /\ Allocates /\ Kept


LEMMA HeapInit == Init => HeapInv
BY DEF Init, HeapInv, Requested, Fresh, Allocates, Kept, InUseSlots, NotSubmitting, Threads

\* A step that leaves the items, the pool and what is said of them alone.
LEMMA HeapSame ==
  ASSUME HeapInv, UNCHANGED <<avail, work, log>>,
         \A c \in Clients : sub'[c].pc = "init" => sub'[c] = sub[c],
         tpc' = "device" /\ asked' = {"READ"} => work[cur'].allocator,
         tpc = "complete" => tpc' = "complete" /\ cur' = cur
  PROVE  HeapInv'
<1>1. Requested'
  BY DEF HeapInv, Requested, Fresh, InUseSlots
<1>2. Allocates'
  BY DEF HeapInv, Allocates, InUseSlots
<1>3. Kept'
  BY DEF HeapInv, Kept, Reachable, InUseSlots
<1>4. QED
  BY <1>1, <1>2, <1>3 DEF HeapInv

\* The item in hand is in use, and not completed.
LEMMA HandInUse ==
  ASSUME WaitInv, tpc \in {"find", "device", "complete"}
  PROVE  cur \in InUseSlots /\ cur # Null /\ work[cur].completed = FALSE
<1>1. Hand = cur /\ cur # Null /\ cur \in Slots
  BY TypeFacts DEF WaitInv, Hand
<1>2. Held(cur) /\ work[cur].completed = FALSE
  BY <1>1 DEF WaitInv, Flight
<1>3. cur \notin avail
  BY <1>2 DEF Held, WaitInv, Shares
<1>4. QED
  BY <1>1, <1>2, <1>3 DEF InUseSlots

\* Client c makes request n, for which it takes a slot, if there is one.
Makes(c, n) ==
  /\ sub[c].pc = "none" /\ UNCHANGED <<queue, tpc, asked, cur>>
  /\ DOMAIN log' = DOMAIN log \cup {n} /\ n \notin DOMAIN log
  /\ \A r \in DOMAIN log : log'[r] = log[r]
  /\ Entry[log'[n].fn].callback = FALSE
  /\ log'[n].done = FALSE /\ log'[n].called = 0 /\ log'[n].heap = FALSE
  /\ \/ UNCHANGED <<avail, work>> /\ sub'[c].pc = "none"
     \/ \E s \in avail : /\ avail' = avail \ {s} /\ work'[s] = Constructed
                         /\ \A x \in Slots : x # s => work'[x] = work[x]
                         /\ sub'[c].pc = "init" /\ sub'[c].slot = s /\ sub'[c].request = n
                         /\ log'[n].refused = FALSE
  /\ \A d \in Clients : d # c => sub'[d] = sub[d]

LEMMA AllocMakesOne ==
  ASSUME WaitInv, NEW c \in Clients, NEW f \in DOMAIN Entry, NEW a \in Actions,
         WaitedAlloc(c, f, a)
  PROVE  \E n \in Requests : Makes(c, n)
<1>s. /\ work \in [Slots -> Item] /\ sub \in [Threads -> Call] /\ avail \subseteq Slots
      /\ log \in Seq(Records) /\ c \in Threads /\ Clients \subseteq Threads
      /\ MaxRequests \in Nat /\ Len(log) < MaxRequests
  BY TypeFacts DEF WaitInv, WaitedAlloc, AllocItem
<1>n. PICK n \in Requests : n = Len(log) + 1
  BY <1>s DEF Requests
<1>1. UNCHANGED <<queue, tpc, asked, cur>> /\ sub[c].pc = "none"
  BY DEF WaitedAlloc, AllocItem, Ready, WaitInv, Types, Proper, NotSubmitting, Answered, threadVars
<1>2. /\ DOMAIN log' = DOMAIN log \cup {n} /\ n \notin DOMAIN log
      /\ \A r \in DOMAIN log : log'[r] = log[r]
      /\ Entry[log'[n].fn].callback = FALSE /\ (log'[n].refused <=> avail = {})
      /\ log'[n].refused \in BOOLEAN
      /\ log'[n].done = FALSE /\ log'[n].called = 0 /\ log'[n].heap = FALSE
  <2> DEFINE e == [fn |-> f, refused |-> avail = {}, done |-> FALSE, called |-> 0, heap |-> FALSE]
  <2>1. log' = Append(log, e) /\ e \in Records
    BY DEF WaitedAlloc, AllocItem, Records
  <2>2. /\ Entry[e.fn].callback = FALSE /\ (e.refused <=> avail = {}) /\ e.refused \in BOOLEAN
        /\ e.done = FALSE /\ e.called = 0 /\ e.heap = FALSE
    BY DEF WaitedAlloc
  <2> HIDE DEF e
  <2>3. /\ DOMAIN log' = DOMAIN log \cup {n} /\ n \notin DOMAIN log /\ log'[n] = e
        /\ \A r \in DOMAIN log : log'[r] = log[r]
    BY <1>s, <1>n, <2>1
  <2>4. QED
    BY <2>2, <2>3
\* The slot that was taken, if any, is empty.
<1>3. \/ UNCHANGED <<avail, work>> /\ sub'[c].pc = "none"
      \/ \E s \in avail : /\ avail' = avail \ {s} /\ work'[s] = Constructed
                          /\ \A x \in Slots : x # s => work'[x] = work[x]
                          /\ sub'[c].pc = "init" /\ sub'[c].slot = s /\ sub'[c].request = n
  BY <1>s, <1>n DEF WaitedAlloc, AllocItem, TakeSlot, NotSubmitting
<1>4. \A d \in Clients : d # c => sub'[d] = sub[d]
  BY <1>s DEF WaitedAlloc, AllocItem
<1>5. Makes(c, n)
  BY <1>1, <1>2, <1>3, <1>4 DEF Makes
<1>6. QED
  BY <1>5

LEMMA HeapAlloc ==
  ASSUME WaitInv, HeapInv, NEW c \in Clients, NEW f \in DOMAIN Entry, NEW a \in Actions,
         WaitedAlloc(c, f, a)
  PROVE  HeapInv'
<1>n. PICK n \in Requests : Makes(c, n)
  BY AllocMakesOne
<1>s. log \in Seq(Records)
  BY TypeFacts DEF WaitInv
<1>1. UNCHANGED <<tpc, asked, cur>> /\ sub[c].pc = "none"
  BY <1>n DEF Makes
<1>2. /\ DOMAIN log' = DOMAIN log \cup {n} /\ n \notin DOMAIN log /\ n # 0
      /\ \A r \in DOMAIN log : log'[r] = log[r]
      /\ log'[n].heap = FALSE
  BY <1>n DEF Makes, Requests
<1>3. \/ UNCHANGED <<avail, work>> /\ sub'[c].pc = "none"
      \/ \E s \in avail : /\ avail' = avail \ {s} /\ work'[s] = Constructed
                          /\ \A x \in Slots : x # s => work'[x] = work[x]
                          /\ sub'[c].pc = "init" /\ sub'[c].slot = s /\ sub'[c].request = n
  BY <1>n DEF Makes
<1>4. \A d \in Clients : d # c => sub'[d] = sub[d]
  BY <1>n DEF Makes
<1>5. \A s \in InUseSlots' : (s \in InUseSlots /\ work'[s] = work[s]) \/ work'[s] = Constructed
  BY <1>3 DEF InUseSlots
<1>6. \A s \in InUseSlots : s \in InUseSlots' /\ work'[s] = work[s]
  BY <1>3 DEF InUseSlots
<1>7. /\ Constructed.request = 0 /\ Constructed.buffer = "null" /\ Constructed.op = "EXISTS"
  BY DEF Constructed
<1>8. \A s \in InUseSlots' : work'[s].request \in {0} \cup DOMAIN log
  BY <1>5, <1>7 DEF HeapInv, Requested
<1>9. \A s, z \in InUseSlots' : work'[s].request = work'[z].request /\ work'[s].request # 0 => s = z
  BY <1>5, <1>7 DEF HeapInv, Requested
<1>10. ASSUME NEW d \in Clients PROVE Fresh(d)'
  <2>1. CASE d = c
    <3>1. SUFFICES ASSUME sub'[c].pc = "init"
                   PROVE  /\ work'[sub'[c].slot] = Constructed
                          /\ sub'[c].request \in DOMAIN log'
                          /\ \A s \in InUseSlots' : work'[s].request # sub'[c].request
                          /\ \A b \in Clients : sub'[b].pc = "init" /\ sub'[b].request = sub'[c].request
                               => c = b
      BY <2>1 DEF Fresh
    <3>2. sub'[c].request = n /\ work'[sub'[c].slot] = Constructed
      BY <1>3, <3>1
    <3>3. \A b \in Clients : b # c /\ sub'[b].pc = "init" => sub'[b].request \in DOMAIN log
      BY <1>4 DEF HeapInv, Requested, Fresh
    <3>4. QED
      BY <1>2, <1>8, <3>2, <3>3
  <2>2. CASE d # c
    <3>1. SUFFICES ASSUME sub[d].pc = "init", sub'[d] = sub[d]
                   PROVE  /\ work'[sub[d].slot] = Constructed
                          /\ sub[d].request \in DOMAIN log'
                          /\ \A s \in InUseSlots' : work'[s].request # sub[d].request
                          /\ \A b \in Clients : sub'[b].pc = "init" /\ sub'[b].request = sub[d].request
                               => d = b
      BY <1>4, <2>2 DEF Fresh
    <3>2. /\ work[sub[d].slot] = Constructed /\ sub[d].request \in DOMAIN log
          /\ \A s \in InUseSlots : work[s].request # sub[d].request
          /\ \A b \in Clients : sub[b].pc = "init" /\ sub[b].request = sub[d].request => d = b
      BY <3>1 DEF HeapInv, Requested, Fresh
    <3>3. sub[d].slot \in InUseSlots
      BY <3>1 DEF WaitInv, Shares, Busy, InUseSlots
    <3>4. 0 \notin DOMAIN log
      BY <1>s
    <3>5. \A s \in InUseSlots' : work'[s].request # sub[d].request
      BY <1>5, <1>7, <3>2, <3>4
    <3>6. \A b \in Clients : sub'[b].pc = "init" /\ sub'[b].request = sub[d].request => d = b
      BY <1>2, <1>3, <1>4, <3>2
    <3>7. QED
      BY <1>2, <1>6, <3>2, <3>3, <3>5, <3>6
  <2>3. QED
    BY <2>1, <2>2
<1>11. Requested'
  BY <1>2, <1>8, <1>9, <1>10 DEF Requested
<1>12. Allocates'
  <2>1. tpc = "device" => work'[cur] = work[cur]
    BY <1>6, HandInUse
  <2>2. QED
    BY <1>1, <1>5, <1>7, <2>1 DEF HeapInv, Allocates
<1>13. Kept'
  <2>1. \A r \in DOMAIN log' : Reachable(r)' <=> Reachable(r)
    BY <1>5, <1>6, <1>7 DEF Reachable
  <2>2. ~Reachable(n)
    BY <1>2 DEF HeapInv, Requested, Reachable
  <2>3. QED
    BY <1>2, <2>1, <2>2 DEF HeapInv, Kept
<1>14. QED
  BY <1>11, <1>12, <1>13 DEF HeapInv

LEMMA HeapFill ==
  ASSUME WaitInv, HeapInv, NEW c \in Clients, InitItem(c)
  PROVE  HeapInv'
<1> DEFINE x == sub[c].slot
           n == sub[c].request
<1>s. /\ work \in [Slots -> Item] /\ sub \in [Threads -> Call]
      /\ log \in Seq(Records) /\ c \in Threads /\ Clients \subseteq Threads
  BY TypeFacts DEF WaitInv
<1>1. /\ UNCHANGED <<tpc, asked, cur, avail, log>> /\ sub[c].pc = "init" /\ sub'[c].pc = "push"
      /\ \A d \in Clients : d # c => sub'[d] = sub[d]
  BY <1>s DEF InitItem, GoSub, threadVars
<1>2. x \in InUseSlots /\ InUseSlots' = InUseSlots /\ x \in Slots
  BY <1>1 DEF WaitInv, Shares, Busy, InUseSlots
<1>3. /\ work[x] = Constructed /\ n \in DOMAIN log
      /\ \A s \in InUseSlots : work[s].request # n
      /\ \A d \in Clients : sub[d].pc = "init" /\ sub[d].request = n => c = d
  BY <1>1 DEF HeapInv, Requested, Fresh
<1>4. /\ \A s \in Slots : s # x => work'[s] = work[s]
      /\ work'[x].request = n /\ work'[x].buffer # "heap"
      /\ work'[x].op = "READ" => work'[x].allocator
  <2>1. work' = [work EXCEPT ![x] =
           [op |-> SubmittedOp(sub[c].fn),
            callback |-> Entry[sub[c].fn].callback,
            action |-> sub[c].action,
            allocator |-> SubmittedOp(sub[c].fn) = "READ",
            buffer |-> IF SubmittedOp(sub[c].fn) \in Writes THEN "user" ELSE "null",
            completed |-> FALSE,
            request |-> n]]
    BY DEF InitItem
  <2>2. QED
    BY <1>s, <1>2, <2>1
<1>5. \A d \in Clients : d # c /\ sub[d].pc = "init" => sub[d].slot # x /\ sub[d].slot \in Slots
  BY <1>1 DEF WaitInv, Shares, Busy
<1>6. Constructed.request = 0 /\ Constructed.buffer = "null"
  BY DEF Constructed
<1> HIDE DEF x, n
<1>7. Requested'
  <2>1. ASSUME NEW d \in Clients PROVE Fresh(d)'
    <3>1. CASE d = c
      BY <1>1, <3>1 DEF Fresh
    <3>2. CASE d # c
      BY <1>1, <1>2, <1>3, <1>4, <1>5, <3>2 DEF HeapInv, Requested, Fresh, InUseSlots
    <3>3. QED
      BY <3>1, <3>2
  <2>2. /\ \A s \in InUseSlots : work'[s].request \in {0} \cup DOMAIN log
        /\ \A s, z \in InUseSlots : work'[s].request = work'[z].request /\ work'[s].request # 0 => s = z
    BY <1>2, <1>3, <1>4 DEF HeapInv, Requested, InUseSlots
  <2>3. QED
    BY <1>1, <1>2, <2>1, <2>2 DEF Requested
<1>8. Allocates'
  <2>1. tpc = "device" => cur # x /\ cur \in Slots
    <3>1. tpc = "device" => Hand = cur /\ Hand # Null /\ cur \in Slots
      BY HandInUse DEF Hand, InUseSlots
    <3>2. QED
      BY <1>1, <3>1, HandNotBusy DEF WaitInv, Busy, x
  <2>2. QED
    BY <1>1, <1>2, <1>4, <2>1 DEF HeapInv, Allocates, InUseSlots
<1>9. Kept'
  <2>1. ASSUME NEW r \in DOMAIN log PROVE Reachable(r)' <=> Reachable(r)
    BY <1>2, <1>3, <1>4, <1>6 DEF Reachable, InUseSlots
  <2>2. QED
    BY <1>1, <2>1 DEF HeapInv, Kept
<1>10. QED
  BY <1>7, <1>8, <1>9 DEF HeapInv

LEMMA HeapSubmit ==
  ASSUME WaitInv, HeapInv, NEW c \in Clients, ClientSubmits(c)
  PROVE  HeapInv'
<1>s. /\ work \in [Slots -> Item] /\ sub \in [Threads -> Call]
      /\ c \in Threads /\ Clients \subseteq Threads /\ Proper(c)
  BY TypeFacts DEF WaitInv, Types
<1>d. tpc = "device" /\ asked = {"READ"} => work[cur].allocator
  BY DEF HeapInv, Allocates
<1>1. CASE PushItem(c)
  <2>1. UNCHANGED <<avail, work, log, tpc, cur, asked>>
    BY <1>1 DEF PushItem, threadVars
  <2>2. \A d \in Clients : sub'[d].pc = "init" => sub'[d] = sub[d]
    BY <1>1, <1>s DEF PushItem, GoSub, Return, NotSubmitting, Call
  <2>3. QED
    BY <1>d, <2>1, <2>2, HeapSame
<1>2. CASE CorrectOp(c)
  <2>1. UNCHANGED <<avail, log, tpc, cur, asked>> /\ sub[c].pc = "correct" /\ sub[c].slot \in Slots
    BY <1>2, <1>s DEF CorrectOp, threadVars, Proper
  <2>2. \A d \in Clients : sub'[d].pc = "init" => sub'[d] = sub[d] /\ d # c
    BY <1>2, <1>s DEF CorrectOp, Return, NotSubmitting, Call
  <2>3. /\ \A s \in Slots : s # sub[c].slot => work'[s] = work[s]
        /\ \A s \in Slots : /\ work'[s].request = work[s].request /\ work'[s].buffer = work[s].buffer
                            /\ work'[s].completed = work[s].completed
                            /\ work'[s].allocator = work[s].allocator
                            /\ work'[s].op \in {work[s].op, "WRITE"}
    BY <1>2, <1>s, <2>1 DEF CorrectOp, Item
  <2>4. \A d \in Clients : sub[d].pc = "init" => sub[d].slot \in Slots /\ sub[d].slot # sub[c].slot
    <3>1. \E i \in DOMAIN Line(c) : Line(c)[i] = sub[c].slot
      BY <2>1, LineParts DEF WaitInv
    <3>2. QED
      BY <3>1 DEF WaitInv, Shares, Busy
  <2>5. InUseSlots' = InUseSlots /\ InUseSlots \subseteq Slots
    BY <2>1 DEF InUseSlots
  <2>6. Requested'
    <3>1. ASSUME NEW d \in Clients PROVE Fresh(d)'
      BY <2>1, <2>2, <2>3, <2>4, <2>5 DEF HeapInv, Requested, Fresh
    <3>2. QED
      BY <2>1, <2>3, <2>5, <3>1 DEF HeapInv, Requested
  <2>7. Allocates'
    <3>1. tpc = "device" => cur \in Slots
      BY HandInUse DEF InUseSlots
    <3>2. QED
      BY <2>1, <2>3, <2>5, <3>1 DEF HeapInv, Allocates
  <2>8. Kept'
    BY <2>1, <2>3, <2>5 DEF HeapInv, Kept, Reachable
  <2>9. QED
    BY <2>6, <2>7, <2>8 DEF HeapInv
<1>3. QED
  BY <1>1, <1>2, HeapAlloc, HeapFill DEF ClientSubmits

\* The items of a client that it knows to be completed.
LEMMA KnownInUse ==
  ASSUME WaitInv, NEW c \in Clients, NEW i \in 1 .. client[c].seen
  PROVE  /\ client[c].mine[i] \in InUseSlots
         /\ work[client[c].mine[i]].completed
         /\ \A d \in Clients : sub[d].pc = "init" => sub[d].slot # client[c].mine[i]
<1>1. /\ client[c].mine \in Seq(Slots) /\ client[c].seen \in 0 .. Len(client[c].mine)
      /\ Len(client[c].mine) \in Nat
  BY TypeFacts DEF WaitInv
<1>2. i \in DOMAIN client[c].mine
  BY <1>1
<1>3. i \in DOMAIN Line(c) /\ Line(c)[i] = client[c].mine[i]
  BY <1>2, LineParts DEF WaitInv
<1>4. work[client[c].mine[i]].completed
  BY DEF WaitInv, WaitForLast
<1>5. QED
  BY <1>3, <1>4 DEF WaitInv, Shares, Busy, InUseSlots

LEMMA HeapWait ==
  ASSUME WaitInv, HeapInv, NEW c \in Clients, ClientWaits(c)
  PROVE  HeapInv'
<1>s. /\ work \in [Slots -> Item] /\ log \in Seq(Records) /\ avail \subseteq Slots
  BY TypeFacts DEF WaitInv
<1>d. tpc = "device" /\ asked = {"READ"} => work[cur].allocator
  BY DEF HeapInv, Allocates
<1>1. CASE Await(c) \/ AwaitTest(c) \/ SpuriousWake(c)
  <2>1. UNCHANGED <<avail, work, log, sub, tpc, cur, asked>>
    BY <1>1 DEF Await, AwaitTest, SpuriousWake, threadVars
  <2>2. QED
    BY <1>d, <2>1, HeapSame
<1>2. CASE ClientFreeBuffer(c)
  <2>p. PICK i \in 1 .. client[c].seen : FreeBuffer(client[c].mine[i])
    BY <1>2 DEF ClientFreeBuffer
  <2> DEFINE x == client[c].mine[i]
             n == work[x].request
  <2>1. FreeBuffer(x) /\ UNCHANGED <<avail, sub, tpc, cur, asked>>
    BY <1>2, <2>p DEF ClientFreeBuffer, threadVars
  <2>2. /\ x \in InUseSlots /\ x \in Slots /\ work[x].completed
        /\ \A d \in Clients : sub[d].pc = "init" => sub[d].slot # x
    BY KnownInUse DEF InUseSlots
  <2>n. n = work[x].request
    OBVIOUS
  <2> HIDE DEF x, n
  <2>3. log' = IF work[x].buffer = "heap" THEN [log EXCEPT ![n].heap = FALSE] ELSE log
    BY <2>1, <2>n DEF FreeBuffer
  <2>4. work' = [work EXCEPT ![x].buffer = IF work[x].allocator THEN "null" ELSE work[x].buffer]
    BY <2>1 DEF FreeBuffer, Freed
  <2>5. /\ \A s \in Slots : s # x => work'[s] = work[s]
        /\ \A s \in Slots : /\ work'[s].request = work[s].request
                            /\ work'[s].completed = work[s].completed
                            /\ work'[s].allocator = work[s].allocator /\ work'[s].op = work[s].op
        /\ work'[x].buffer = IF work[x].allocator THEN "null" ELSE work[x].buffer
    BY <1>s, <2>2, <2>4 DEF Item
  <2>6. work[x].buffer = "heap" => work[x].allocator
    BY <2>2 DEF HeapInv, Allocates
  <2>7. work'[x].buffer # "heap"
    BY <2>5, <2>6
  <2>8. InUseSlots' = InUseSlots /\ InUseSlots \subseteq Slots
    BY <2>1 DEF InUseSlots
  <2>9. /\ DOMAIN log' = DOMAIN log
        /\ \A r \in DOMAIN log : log'[r].heap <=> log[r].heap /\ ~(work[x].buffer = "heap" /\ r = n)
    <3>1. CASE work[x].buffer = "heap"
      BY <1>s, <2>3, <3>1 DEF Records
    <3>2. CASE work[x].buffer # "heap"
      BY <2>3, <3>2
    <3>3. QED
      BY <3>1, <3>2
  <2>10. Requested'
    <3>1. ASSUME NEW d \in Clients PROVE Fresh(d)'
      <4>1. sub[d].pc = "init" => sub[d].slot \in Slots
        BY DEF WaitInv, Shares, Busy
      <4>2. QED
        BY <2>1, <2>2, <2>5, <2>8, <2>9, <4>1 DEF HeapInv, Requested, Fresh
    <3>2. QED
      BY <2>5, <2>8, <2>9, <3>1 DEF HeapInv, Requested
  <2>11. Allocates'
    <3>1. tpc = "device" => cur \in Slots
      BY HandInUse DEF InUseSlots
    <3>2. \A s \in InUseSlots : work'[s].buffer = "heap" => work[s].buffer = "heap"
      BY <2>5, <2>7, <2>8
    <3>3. QED
      BY <2>1, <2>5, <2>8, <3>1, <3>2 DEF HeapInv, Allocates
  <2>12. ASSUME NEW r \in DOMAIN log PROVE log'[r].heap <=> Reachable(r)'
    <3>1. Reachable(r)' <=> \E s \in InUseSlots : s # x /\ work[s].request = r /\ work[s].buffer = "heap"
      BY <2>5, <2>7, <2>8 DEF Reachable
    <3>2. log[r].heap <=> Reachable(r)
      BY DEF HeapInv, Kept
    <3>3. CASE work[x].buffer = "heap" /\ r = n
      <4>1. \A s \in InUseSlots : s # x => work[s].request # r
        <5>1. r # 0
          BY <1>s
        <5>2. QED
          BY <2>2, <2>n, <3>3, <5>1 DEF HeapInv, Requested
      <4>2. QED
        BY <2>9, <3>1, <3>3, <4>1
    <3>4. CASE ~(work[x].buffer = "heap" /\ r = n)
      BY <2>2, <2>n, <2>9, <3>1, <3>2, <3>4 DEF Reachable
    <3>5. QED
      BY <3>3, <3>4
  <2>13. QED
    BY <2>9, <2>10, <2>11, <2>12 DEF HeapInv, Kept
<1>3. CASE ReleaseWorkItem(c)
  <2>p. PICK i \in 1 .. client[c].seen :
          LET s == client[c].mine[i]
          IN  work[s].buffer # "heap" /\ avail' = IF work[s].callback THEN avail ELSE avail \cup {s}
    BY <1>3 DEF ReleaseWorkItem
  <2> DEFINE x == client[c].mine[i]
  <2>1. /\ UNCHANGED <<work, log, sub, tpc, cur, asked>>
        /\ work[x].buffer # "heap" /\ avail' = IF work[x].callback THEN avail ELSE avail \cup {x}
    BY <1>3, <2>p DEF ReleaseWorkItem, threadVars
  <2>2. x \in InUseSlots
    BY KnownInUse
  <2> HIDE DEF x
  <2>3. InUseSlots' \subseteq InUseSlots /\ \A s \in InUseSlots : s # x => s \in InUseSlots'
    BY <2>1 DEF InUseSlots
  <2>4. Requested'
    <3>1. ASSUME NEW d \in Clients PROVE Fresh(d)'
      BY <2>1, <2>3 DEF HeapInv, Requested, Fresh
    <3>2. QED
      BY <2>1, <2>3, <3>1 DEF HeapInv, Requested
  <2>5. Allocates'
    BY <2>1, <2>3 DEF HeapInv, Allocates
  <2>6. \A r \in DOMAIN log : Reachable(r)' <=> Reachable(r)
    BY <2>1, <2>3 DEF Reachable
  <2>7. Kept'
    BY <2>1, <2>6 DEF HeapInv, Kept
  <2>8. QED
    BY <2>4, <2>5, <2>7 DEF HeapInv
<1>4. QED
  BY <1>1, <1>2, <1>3 DEF ClientWaits

LEMMA HeapRun ==
  ASSUME WaitInv, HeapInv, ThreadRuns
  PROVE  HeapInv'
<1> DEFINE n == work[cur].request
<1>s. work \in [Slots -> Item] /\ log \in Seq(Records)
  BY TypeFacts DEF WaitInv
<1>i. InUseSlots \subseteq Slots /\ (avail' = avail => InUseSlots' = InUseSlots)
  BY DEF InUseSlots
<1>n. n = work[cur].request
  OBVIOUS
<1> HIDE DEF n
\* A client that fills in an item does so in another slot.
<1>c. ASSUME tpc \in {"device", "complete"}, NEW d \in Clients, sub[d].pc = "init"
      PROVE  sub[d].slot # cur /\ sub[d].slot \in InUseSlots
  <2>1. Hand = cur /\ Hand # Null
    BY <1>c, HandInUse DEF Hand
  <2>2. QED
    BY <1>c, <2>1, HandNotBusy DEF WaitInv, Shares, Busy, InUseSlots
<1>1. CASE PopItem \/ Choose \/ NotifyAll
  <2>1. UNCHANGED <<avail, work, log, sub>> /\ tpc # "complete" /\ tpc' # "device"
    BY <1>1 DEF PopItem, Choose, NotifyAll, GoThread
  <2>2. QED
    BY <2>1, HeapSame
<1>2. CASE FindMount
  <2>1. UNCHANGED <<avail, work, log, sub, cur>> /\ tpc = "find" /\ asked' = {work[cur].op}
    BY <1>2 DEF FindMount, GoThread
  <2>2. work[cur].op = "READ" => work[cur].allocator
    BY <2>1, HandInUse DEF HeapInv, Allocates
  <2>3. asked' = {"READ"} => work[cur].op = "READ"
    BY <2>1
  <2>4. QED
    BY <2>1, <2>2, <2>3, HeapSame
<1>3. CASE RunOperation
  <2>1. PICK heap \in IF asked = {"READ"} THEN BOOLEAN ELSE {FALSE} :
          /\ work' = IF heap THEN [work EXCEPT ![cur].buffer = "heap"] ELSE work
          /\ log' = [log EXCEPT ![n].heap = heap]
    BY <1>3 DEF RunOperation, n
  <2>2. UNCHANGED <<avail, cur, sub>> /\ tpc = "device" /\ tpc' = "complete"
    BY <1>3 DEF RunOperation, GoThread
  <2>3. cur \in InUseSlots /\ work[cur].completed = FALSE /\ heap \in BOOLEAN
    BY <2>1, <2>2, HandInUse
  <2>4. heap => work[cur].allocator
    BY <2>1, <2>2 DEF HeapInv, Allocates
  <2>5. work[cur].buffer # "heap"
    BY <2>2, <2>3 DEF HeapInv, Allocates
  <2>6. /\ \A s \in Slots : s # cur => work'[s] = work[s]
        /\ \A s \in Slots : /\ work'[s].request = work[s].request
                            /\ work'[s].completed = work[s].completed
                            /\ work'[s].allocator = work[s].allocator /\ work'[s].op = work[s].op
        /\ work'[cur].buffer = "heap" <=> heap
    BY <1>s, <1>i, <2>1, <2>3, <2>5 DEF Item
  <2>7. /\ DOMAIN log' = DOMAIN log
        /\ \A r \in DOMAIN log : log'[r].heap <=> IF r = n THEN heap ELSE log[r].heap
    BY <1>s, <2>1, <2>3 DEF Records
  <2>8. Requested'
    <3>1. ASSUME NEW d \in Clients PROVE Fresh(d)'
      BY <1>c, <1>i, <2>2, <2>6, <2>7 DEF HeapInv, Requested, Fresh
    <3>2. QED
      BY <1>i, <2>2, <2>6, <2>7, <3>1 DEF HeapInv, Requested
  <2>9. Allocates'
    BY <1>i, <2>2, <2>3, <2>4, <2>6 DEF HeapInv, Allocates
  <2>10. ASSUME NEW r \in DOMAIN log PROVE log'[r].heap <=> Reachable(r)'
    <3>1. log[r].heap <=> Reachable(r)
      BY DEF HeapInv, Kept
    <3>2. r # 0
      BY <1>s
    <3>3. CASE r = n
      <4>1. \A s \in InUseSlots : s # cur => work[s].request # r
        BY <1>n, <2>3, <3>2, <3>3 DEF HeapInv, Requested
      <4>2. Reachable(r)' <=> heap
        BY <1>i, <1>n, <2>2, <2>3, <2>6, <3>3, <4>1 DEF Reachable
      <4>3. QED
        BY <2>7, <3>3, <4>2
    <3>4. CASE r # n
      <4>1. Reachable(r)' <=> Reachable(r)
        BY <1>i, <1>n, <2>2, <2>5, <2>6, <3>4 DEF Reachable
      <4>2. QED
        BY <2>7, <3>1, <3>4, <4>1
    <3>5. QED
      BY <3>3, <3>4
  <2>11. QED
    BY <2>7, <2>8, <2>9, <2>10 DEF HeapInv, Kept
<1>4. CASE Complete
  <2>1. UNCHANGED <<avail, cur, sub>> /\ tpc = "complete" /\ tpc' = "choose"
    BY <1>4 DEF Complete, GoThread
  <2>2. cur \in InUseSlots
    BY <2>1, HandInUse
  <2>3. /\ \A s \in Slots : s # cur => work'[s] = work[s]
        /\ \A s \in Slots : /\ work'[s].request = work[s].request /\ work'[s].buffer = work[s].buffer
                            /\ work'[s].allocator = work[s].allocator /\ work'[s].op = work[s].op
        /\ work'[cur].completed
    BY <1>4, <1>s, <1>i, <2>2 DEF Complete, Completes, Item
  <2>4. DOMAIN log' = DOMAIN log /\ \A r \in DOMAIN log : log'[r].heap = log[r].heap
    <3>1. log' = [log EXCEPT ![n].done = TRUE]
      BY <1>4 DEF Complete, Completes, n
    <3>2. QED
      BY <1>s, <3>1 DEF Records
  <2>5. Requested'
    <3>1. ASSUME NEW d \in Clients PROVE Fresh(d)'
      BY <1>c, <1>i, <2>1, <2>3, <2>4 DEF HeapInv, Requested, Fresh
    <3>2. QED
      BY <1>i, <2>1, <2>3, <2>4, <3>1 DEF HeapInv, Requested
  <2>6. Allocates'
    BY <1>i, <2>1, <2>2, <2>3 DEF HeapInv, Allocates
  <2>7. \A r \in DOMAIN log : Reachable(r)' <=> Reachable(r)
    BY <1>i, <2>1, <2>3 DEF Reachable
  <2>8. QED
    BY <2>4, <2>5, <2>6, <2>7 DEF HeapInv, Kept
<1>5. QED
  BY <1>1, <1>2, <1>3, <1>4 DEF ThreadRuns

LEMMA HeapStep ==
  ASSUME AllWaited, WaitInv, HeapInv, [Next]_vars
  PROVE  HeapInv'
<1>1. ASSUME Pause PROVE HeapInv'
  <2>1. /\ UNCHANGED <<avail, work, log, sub, cur, asked>>
        /\ tpc' = tpc \/ {tpc, tpc'} \subseteq {"loop", "pop", "exited", "joined"}
    BY <1>1 DEF Pause
  <2>2. tpc = "device" /\ asked = {"READ"} => work[cur].allocator
    BY DEF HeapInv, Allocates
  <2>3. QED
    BY <2>1, <2>2, HeapSame
<1>2. QED
  BY <1>1, WaitedCases, HeapSubmit, HeapWait, HeapRun DEF WaitInv

\* A buffer a read allocated hangs on the item of its request, which a client
\* has, until WorkItemFreeBuffer() frees it: no item loses its buffer when it
\* is returned or filled in again, and none keeps one that was freed
\* (FileContext.cpp:106-111, 406-417, 778-781).
THEOREM WaitedBuffersInReach ==
  ASSUME AllWaited
  PROVE  Spec => []BuffersInReach
<1>1. WaitInv /\ HeapInv /\ [Next]_vars => HeapInv'
  BY HeapStep
<1>2. WaitInv /\ HeapInv => BuffersInReach
  <2> SUFFICES ASSUME WaitInv, HeapInv PROVE BuffersInReach
    OBVIOUS
  <2>1. tpc # "release"
    BY DEF WaitInv, Types
  <2>2. QED
    BY <2>1 DEF HeapInv, Kept, Reachable, InUseSlots, BuffersInReach, InUse
<1>3. QED
  BY <1>1, <1>2, HeapInit, WaitInvariant, PTL DEF Spec

-----------------------------------------------------------------------------
(* The context implements the service.                                     *)

Filling(s) == \E c \in Clients : sub[c].pc = "init" /\ sub[c].slot = s

\* The item in slot s is the one of its request, done once it is completed.
Serves(s) ==
  LET r == work[s].request
  IN  r \in DOMAIN log /\ ~log[r].refused /\ (log[r].done => work[s].completed)

\* What has become of a request, by the place it is in.
Issued ==
  /\ \A r \in DOMAIN log : Entry[log[r].fn].callback = FALSE
  /\ \A c \in Clients : sub[c].pc = "init" =>
       ~log[sub[c].request].refused /\ ~log[sub[c].request].done
  /\ \A s \in InUseSlots : Filling(s) \/ Serves(s)

\* A step that leaves the items that are filled in and the requests alone.
SameItems ==
  /\ InUseSlots' \subseteq InUseSlots
  /\ DOMAIN log' = DOMAIN log /\ \A r \in DOMAIN log : SameFate(r)
  /\ \A d \in Clients : /\ sub'[d].pc = "init" <=> sub[d].pc = "init"
                        /\ sub[d].pc = "init" => sub'[d] = sub[d]
  /\ \A s \in Slots : /\ work'[s].request = work[s].request
                      /\ work'[s].completed = work[s].completed

LEMMA IssuedSame ==
  ASSUME HeapInv, Issued, SameItems
  PROVE  Issued'
<1>1. \A r \in DOMAIN log' : Entry[log'[r].fn].callback = FALSE
  BY DEF Issued, SameItems, SameFate
<1>2. ASSUME NEW c \in Clients, sub'[c].pc = "init"
      PROVE  ~log'[sub'[c].request].refused /\ ~log'[sub'[c].request].done
  <2>1. sub[c].pc = "init" /\ sub'[c] = sub[c]
    BY <1>2 DEF SameItems
  <2>2. sub[c].request \in DOMAIN log
    BY <2>1 DEF HeapInv, Requested, Fresh
  <2>3. QED
    BY <2>1, <2>2 DEF Issued, SameItems, SameFate
<1>3. ASSUME NEW s \in InUseSlots' PROVE Filling(s)' \/ Serves(s)'
  <2>1. s \in InUseSlots /\ s \in Slots
    BY DEF SameItems, InUseSlots
  <2>2. CASE Filling(s)
    BY <2>2 DEF Filling, SameItems
  <2>3. CASE Serves(s)
    BY <2>1, <2>3 DEF Serves, SameItems, SameFate
  <2>4. QED
    BY <2>1, <2>2, <2>3 DEF Issued
<1>4. QED
  BY <1>1, <1>2, <1>3 DEF Issued

\* The item a client fills in is not queued, in hand or returned to it yet.
LEMMA NotFilling ==
  ASSUME WaitInv, NEW s, Held(s)
  PROVE  s \in InUseSlots /\ ~Filling(s)
BY HeldSlots DEF WaitInv, Filling, Busy, InUseSlots

\* The items that are queued or in hand serve their requests.
LEMMA WaitedAsks ==
  ASSUME WaitInv, Issued
  PROVE  /\ Asks
         /\ \A i \in DOMAIN queue : queue[i] \in InUseSlots /\ Serves(queue[i])
         /\ tpc \in {"find", "device", "complete"} =>
              cur \in InUseSlots /\ cur # Null /\ Serves(cur) /\ work[cur].completed = FALSE
<1>1. \A i \in DOMAIN queue : queue[i] \in InUseSlots /\ Serves(queue[i])
  BY NotFilling DEF WaitInv, Flight, Issued
<1>2. tpc \in {"find", "device", "complete"} =>
        cur \in InUseSlots /\ cur # Null /\ Serves(cur) /\ work[cur].completed = FALSE
  <2>1. tpc \in {"find", "device", "complete"} => Hand = cur /\ Hand # Null
    BY HandInUse DEF Hand
  <2>2. QED
    BY <2>1, HandInUse, NotFilling DEF WaitInv, Flight, Issued
<1>3. Asks
  BY <1>1, <1>2, TypeFacts DEF WaitInv, Asks, Serves
<1>4. QED
  BY <1>1, <1>2, <1>3

\* A step that leaves the queue, the hand and the requests alone is none of
\* the service.
LEMMA ServesNothing ==
  ASSUME WaitInv, Issued, SameItems, queue' = queue,
         tpc \in {"find", "device", "complete"} <=> tpc' \in {"find", "device", "complete"},
         tpc \in {"find", "device", "complete"} => cur' = cur
  PROVE  UNCHANGED ServiceVars
<1>1. \A i \in DOMAIN queue : work'[queue[i]].request = work[queue[i]].request
  BY WaitedAsks DEF SameItems, InUseSlots
<1>2. InHand' = InHand
  <2>1. tpc \in {"find", "device", "complete"} => work'[cur'].request = work[cur].request
    BY WaitedAsks DEF SameItems, InUseSlots
  <2>2. QED
    BY <2>1 DEF InHand
<1>3. Pending' = Pending
  BY <1>1, <1>2, PendingKept
<1>4. UNCHANGED <<Wanting, Finished, Refused, Called>>
  BY FatesKept DEF SameItems
<1>5. QED
  BY <1>3, <1>4 DEF ServiceVars

LEMMA AllocServes ==
  ASSUME WaitInv, HeapInv, Issued, NEW c \in Clients, NEW f \in DOMAIN Entry, NEW a \in Actions,
         WaitedAlloc(c, f, a)
  PROVE  Issued' /\ \E r \in Requests : Service!Make(r)
<1>n. PICK n \in Requests : Makes(c, n)
  BY AllocMakesOne
<1>1. /\ DOMAIN log' = DOMAIN log \cup {n} /\ n \notin DOMAIN log
      /\ \A r \in DOMAIN log : log'[r] = log[r]
      /\ UNCHANGED <<queue, cur, tpc>> /\ sub[c].pc = "none"
      /\ \A d \in Clients : d # c => sub'[d] = sub[d]
  BY <1>n DEF Makes
<1>2. Entry[log'[n].fn].callback = FALSE /\ log'[n].done = FALSE /\ log'[n].called = 0
  BY <1>n DEF Makes
<1>3. \/ UNCHANGED <<avail, work>> /\ sub'[c].pc = "none"
      \/ \E s \in avail : /\ avail' = avail \ {s} /\ work'[s] = Constructed
                          /\ \A x \in Slots : x # s => work'[x] = work[x]
                          /\ sub'[c].pc = "init" /\ sub'[c].slot = s /\ sub'[c].request = n
                          /\ log'[n].refused = FALSE
  BY <1>n DEF Makes
<1>4. \A s \in InUseSlots : s \in InUseSlots' /\ work'[s] = work[s]
  BY <1>3 DEF InUseSlots
<1>5. \A s \in InUseSlots' : s \in InUseSlots \/ (sub'[c].pc = "init" /\ sub'[c].slot = s)
  BY <1>3 DEF InUseSlots
<1>6. Issued'
  <2>1. \A r \in DOMAIN log' : Entry[log'[r].fn].callback = FALSE
    BY <1>1, <1>2 DEF Issued
  <2>2. ASSUME NEW d \in Clients, sub'[d].pc = "init"
        PROVE  ~log'[sub'[d].request].refused /\ ~log'[sub'[d].request].done
    <3>1. CASE d = c
      BY <1>2, <1>3, <2>2, <3>1
    <3>2. CASE d # c
      <4>1. sub'[d] = sub[d] /\ sub[d].request \in DOMAIN log
        BY <1>1, <2>2, <3>2 DEF HeapInv, Requested, Fresh
      <4>2. QED
        BY <1>1, <2>2, <4>1 DEF Issued
    <3>3. QED
      BY <3>1, <3>2
  <2>3. ASSUME NEW s \in InUseSlots' PROVE Filling(s)' \/ Serves(s)'
    <3>1. CASE s \in InUseSlots /\ Filling(s)
      <4>1. PICK d \in Clients : sub[d].pc = "init" /\ sub[d].slot = s
        BY <3>1 DEF Filling
      <4>2. sub'[d] = sub[d]
        BY <1>1, <4>1
      <4>3. QED
        BY <4>1, <4>2 DEF Filling
    <3>2. CASE s \in InUseSlots /\ Serves(s)
      <4>1. work'[s] = work[s]
        BY <1>4, <3>2
      <4>2. QED
        BY <1>1, <3>2, <4>1 DEF Serves
    <3>3. CASE sub'[c].pc = "init" /\ sub'[c].slot = s
      BY <3>3 DEF Filling
    <3>4. QED
      BY <1>5, <3>1, <3>2, <3>3 DEF Issued
  <2>4. QED
    BY <2>1, <2>2, <2>3 DEF Issued
<1>7. n \notin ToSet(Pending) \cup Finished \cup Refused
  <2>1. n \notin ToSet(Pending)
    BY <1>1, WaitedAsks, PendingFacts DEF Asks
  <2>2. QED
    BY <1>1, <2>1 DEF Finished, Refused
<1>8. Pending' = Pending
  <2>1. InHand' = InHand
    BY <1>1, <1>4, WaitedAsks DEF InHand
  <2>2. QED
    BY <1>1, <1>4, <2>1, WaitedAsks, PendingKept
<1>9. /\ Wanting' = Wanting /\ Finished' = Finished /\ Called' = Called
      /\ Refused' \in {Refused, Refused \cup {n}}
  <2>1. Wanting' = Wanting
    BY <1>1, <1>2 DEF Wanting
  <2>2. Finished' = Finished
    BY <1>1, <1>2 DEF Finished
  <2>3. Called' = Called
    BY <1>1, <1>2 DEF Called
  <2>4. Refused' \in {Refused, Refused \cup {n}}
    BY <1>1 DEF Refused
  <2>5. QED
    BY <2>1, <2>2, <2>3, <2>4
<1>10. Service!New(n)
  BY <1>7 DEF Service!New, Service!ToSet, ToSet, Finished, Refused
<1>11. Service!Make(n)
  BY <1>8, <1>9, <1>10 DEF Service!Make, Wanting, Finished, Refused, Called
<1>12. QED
  BY <1>6, <1>11

LEMMA InitServes ==
  ASSUME WaitInv, HeapInv, Issued, NEW c \in Clients, InitItem(c)
  PROVE  Issued' /\ UNCHANGED ServiceVars
<1>x. PICK x \in Slots : x = sub[c].slot
  BY DEF InitItem, GoSub, WaitInv, Shares, Busy
<1>s. /\ work \in [Slots -> Item] /\ sub \in [Threads -> Call]
      /\ c \in Threads /\ Clients \subseteq Threads
  BY TypeFacts DEF WaitInv
<1>1. /\ UNCHANGED <<tpc, cur, avail, queue, log>> /\ sub[c].pc = "init" /\ sub'[c].pc = "push"
      /\ \A d \in Clients : d # c => sub'[d] = sub[d]
  BY <1>s DEF InitItem, GoSub, threadVars
<1>2. /\ \A s \in Slots : s # x => work'[s] = work[s]
      /\ work'[x].request = sub[c].request /\ work'[x].completed = FALSE
  BY <1>s, <1>x DEF InitItem
<1>3. \A s : Held(s) => s \in Slots /\ s # x
  BY <1>1, <1>x, NotFilling DEF Filling, InUseSlots
<1>4. /\ sub[c].request \in DOMAIN log
      /\ ~log[sub[c].request].refused /\ ~log[sub[c].request].done
  BY <1>1 DEF HeapInv, Requested, Fresh, Issued
<1>5. Issued'
  <2>1. ASSUME NEW d \in Clients, sub'[d].pc = "init" PROVE sub'[d] = sub[d]
    BY <1>1, <2>1
  <2>2. ASSUME NEW s \in InUseSlots PROVE Filling(s)' \/ Serves(s)'
    <3>1. CASE s = x
      BY <1>1, <1>2, <1>4, <3>1 DEF Serves
    <3>2. CASE s # x /\ Filling(s)
      BY <1>1, <1>x, <3>2 DEF Filling
    <3>3. CASE s # x /\ Serves(s)
      BY <1>1, <1>2, <3>3 DEF Serves, InUseSlots
    <3>4. QED
      BY <3>1, <3>2, <3>3 DEF Issued
  <2>3. InUseSlots' = InUseSlots
    BY <1>1 DEF InUseSlots
  <2>4. QED
    BY <1>1, <2>1, <2>2, <2>3 DEF Issued
<1>6. \A i \in DOMAIN queue : work'[queue[i]].request = work[queue[i]].request
  BY <1>2, <1>3 DEF WaitInv, Flight
<1>7. InHand' = InHand
  <2>1. tpc \in {"find", "device", "complete"} => Hand = cur /\ Hand # Null
    BY HandInUse DEF Hand
  <2>2. tpc \in {"find", "device", "complete"} => work'[cur].request = work[cur].request
    BY <1>2, <1>3, <2>1 DEF WaitInv, Flight
  <2>3. QED
    BY <1>1, <2>2 DEF InHand
<1>8. Pending' = Pending
  BY <1>1, <1>6, <1>7, PendingKept
<1>9. UNCHANGED <<Wanting, Finished, Refused, Called>>
  BY <1>1 DEF Wanting, Finished, Refused, Called
<1>10. QED
  BY <1>5, <1>8, <1>9 DEF ServiceVars

LEMMA PushServes ==
  ASSUME WaitInv, HeapInv, Issued, NEW c \in Clients, PushItem(c)
  PROVE  Issued' /\ \E r \in Requests : Service!Queue(r)
<1>x. PICK x \in Slots : x = sub[c].slot
  BY DEF PushItem, GoSub, WaitInv, Shares, Busy
<1>s. sub \in [Threads -> Call] /\ c \in Threads /\ Clients \subseteq Threads /\ Proper(c)
  BY TypeFacts DEF WaitInv, Types
<1>1. /\ UNCHANGED <<tpc, cur, avail, work, log>> /\ sub[c].pc = "push" /\ queue' = Append(queue, x)
  BY <1>x DEF PushItem, GoSub, threadVars
<1>2. sub'[c].pc # "init" /\ \A d \in Clients : d # c => sub'[d] = sub[d]
  <2>1. \/ sub' = [sub EXCEPT ![c].pc = "correct"]
        \/ sub' = [sub EXCEPT ![c] = NotSubmitting]
    BY DEF PushItem, GoSub, Return
  <2>2. QED
    BY <1>s, <2>1 DEF NotSubmitting, Call
<1>3. SameItems
  <2>1. \A d \in Clients : /\ sub'[d].pc = "init" <=> sub[d].pc = "init"
                           /\ sub[d].pc = "init" => sub'[d] = sub[d]
    BY <1>1, <1>2
  <2>2. /\ InUseSlots' \subseteq InUseSlots
        /\ DOMAIN log' = DOMAIN log /\ \A r \in DOMAIN log : SameFate(r)
    BY <1>1 DEF InUseSlots, SameFate
  <2>3. \A s \in Slots : /\ work'[s].request = work[s].request
                         /\ work'[s].completed = work[s].completed
    BY <1>1
  <2>4. QED
    BY <2>1, <2>2, <2>3 DEF SameItems
<1>4. x \in InUseSlots /\ ~Filling(x) /\ work[x].completed = FALSE
  <2>1. Busy(c) /\ \A d \in Clients : sub[d].pc = "init" => Busy(d) /\ d # c
    BY <1>1 DEF Busy
  <2>2. QED
    BY <1>1, <1>s, <1>x, <2>1 DEF WaitInv, Shares, Proper, Filling, InUseSlots
<1>5. Serves(x)
  BY <1>4 DEF Issued
<1>a. Asks
  BY WaitedAsks
<1>n. PICK n \in Requests : n = work[x].request
  BY <1>5, <1>a, PendingFacts DEF Serves
<1>6. n \in DOMAIN log /\ n # 0 /\ ~log[n].refused /\ ~log[n].done
  BY <1>4, <1>5, <1>n DEF Serves, Requests
\* No item that is queued or in hand is of the same request.
<1>7. ASSUME NEW s, Held(s) PROVE work[s].request # n
  <2>1. s \in InUseSlots /\ s # x
    BY <1>1, <1>x, <1>7, HeldSlots DEF WaitInv, InUseSlots, Busy
  <2>2. QED
    BY <1>4, <1>6, <1>n, <2>1 DEF HeapInv, Requested
<1>8. n \notin ToSet(Pending) \cup Finished \cup Refused
  <2>1. \A i \in DOMAIN queue : work[queue[i]].request # n
    BY <1>7 DEF WaitInv, Flight
  <2>2. tpc \in {"find", "device", "complete"} => work[cur].request # n
    <3>1. tpc \in {"find", "device", "complete"} => Hand = cur /\ Hand # Null
      BY HandInUse DEF Hand
    <3>2. QED
      BY <1>7, <3>1 DEF WaitInv, Flight
  <2>3. n \notin ToSet(Pending)
    BY <1>a, <2>1, <2>2, PendingFacts
  <2>4. QED
    BY <1>6, <2>3 DEF Finished, Refused
<1>9. Pending' = Append(Pending, n)
  <2>1. InHand' = InHand
    BY <1>1 DEF InHand
  <2>2. QED
    BY <1>1, <1>a, <1>n, <2>1, PushAppends
<1>10. UNCHANGED <<Wanting, Finished, Refused, Called>>
  BY <1>1 DEF Wanting, Finished, Refused, Called
<1>11. Service!New(n)
  BY <1>8 DEF Service!New, Service!ToSet, ToSet, Finished, Refused
<1>12. Service!Queue(n)
  BY <1>9, <1>10, <1>11 DEF Service!Queue, Wanting, Finished, Refused, Called
<1>13. QED
  BY <1>3, <1>12, IssuedSame

LEMMA CorrectServes ==
  ASSUME WaitInv, HeapInv, Issued, NEW c \in Clients, CorrectOp(c)
  PROVE  Issued' /\ UNCHANGED ServiceVars
<1>s. work \in [Slots -> Item] /\ sub \in [Threads -> Call] /\ c \in Threads /\ Clients \subseteq Threads
  BY TypeFacts DEF WaitInv
<1>1. UNCHANGED <<tpc, cur, avail, queue, log>> /\ sub[c].pc = "correct"
  BY DEF CorrectOp, threadVars
<1>2. \A d \in Clients : /\ sub'[d].pc = "init" <=> sub[d].pc = "init"
                         /\ sub[d].pc = "init" => sub'[d] = sub[d]
  BY <1>1, <1>s DEF CorrectOp, Return, NotSubmitting
<1>3. \A s \in Slots : work'[s].request = work[s].request /\ work'[s].completed = work[s].completed
  BY <1>s DEF CorrectOp, Item
<1>4. SameItems
  <2>1. /\ InUseSlots' \subseteq InUseSlots
        /\ DOMAIN log' = DOMAIN log /\ \A r \in DOMAIN log : SameFate(r)
    BY <1>1 DEF InUseSlots, SameFate
  <2>2. QED
    BY <1>2, <1>3, <2>1 DEF SameItems
<1>5. QED
  BY <1>1, <1>4, IssuedSame, ServesNothing

LEMMA WaitServes ==
  ASSUME WaitInv, HeapInv, Issued, NEW c \in Clients, ClientWaits(c)
  PROVE  Issued' /\ UNCHANGED ServiceVars
<1>s. work \in [Slots -> Item] /\ log \in Seq(Records)
  BY TypeFacts DEF WaitInv
<1>1. UNCHANGED <<queue, sub, tpc, cur>>
  BY DEF ClientWaits, Await, AwaitTest, SpuriousWake, ClientFreeBuffer, ReleaseWorkItem, threadVars
<1>2. InUseSlots' \subseteq InUseSlots
  BY DEF ClientWaits, Await, AwaitTest, SpuriousWake, ClientFreeBuffer, ReleaseWorkItem, InUseSlots
<1>3. /\ DOMAIN log' = DOMAIN log /\ \A r \in DOMAIN log : SameFate(r)
      /\ \A s \in Slots : /\ work'[s].request = work[s].request
                          /\ work'[s].completed = work[s].completed
  <2>1. CASE ClientFreeBuffer(c)
    <3>1. PICK x : FreeBuffer(x)
      BY <2>1 DEF ClientFreeBuffer
    <3>2. work' = [work EXCEPT ![x].buffer = Freed(x)]
      BY <3>1 DEF FreeBuffer
    <3>3. log' = log \/ log' = [log EXCEPT ![work[x].request].heap = FALSE]
      BY <3>1 DEF FreeBuffer
    <3>4. \A s \in Slots : /\ work'[s].request = work[s].request
                           /\ work'[s].completed = work[s].completed
      BY <1>s, <3>2 DEF Item
    <3>5. DOMAIN log' = DOMAIN log /\ \A r \in DOMAIN log : SameFate(r)
      <4>1. CASE log' = log
        BY <4>1 DEF SameFate
      <4>n. PICK n : n = work[x].request
        OBVIOUS
      <4>2. CASE log' = [log EXCEPT ![n].heap = FALSE]
        BY <1>s, <4>2 DEF SameFate, Records
      <4>3. QED
        BY <3>3, <4>1, <4>n, <4>2
    <3>6. QED
      BY <3>4, <3>5
  <2>2. CASE ~ClientFreeBuffer(c)
    <3>1. UNCHANGED <<work, log>>
      BY <2>2 DEF ClientWaits, Await, AwaitTest, SpuriousWake, ReleaseWorkItem
    <3>2. QED
      BY <3>1 DEF SameFate
  <2>3. QED
    BY <2>1, <2>2
<1>4. SameItems
  BY <1>1, <1>2, <1>3 DEF SameItems
<1>5. QED
  BY <1>1, <1>4, IssuedSame, ServesNothing

LEMMA CompleteServes ==
  ASSUME WaitInv, HeapInv, Issued, Complete
  PROVE  Issued' /\ Service!CarryOut
<1>s. work \in [Slots -> Item] /\ log \in Seq(Records) /\ cur \in Slots
  BY WaitedAsks, TypeFacts DEF WaitInv, Complete, GoThread
<1>1. /\ UNCHANGED <<avail, queue, sub, cur>> /\ tpc = "complete" /\ tpc' = "choose"
      /\ work' = [work EXCEPT ![cur].completed = TRUE]
      /\ log' = [log EXCEPT ![work[cur].request].done = TRUE]
  BY DEF Complete, GoThread, Completes
<1>2. /\ \A s \in Slots : s # cur => work'[s] = work[s]
      /\ \A s \in Slots : work'[s].request = work[s].request
      /\ work'[cur].completed
  BY <1>s, <1>1 DEF Item
<1>a. Asks /\ cur # Null /\ cur \in InUseSlots /\ Serves(cur)
  BY <1>1, WaitedAsks
<1>n. PICK n \in Requests : n = work[cur].request
  BY <1>a, PendingFacts DEF Serves
<1>3. n \in DOMAIN log /\ n # 0 /\ ~log[n].refused
  BY <1>a, <1>n DEF Serves, Requests
<1>4. /\ DOMAIN log' = DOMAIN log /\ \A r \in DOMAIN log : r # n => log'[r] = log[r]
      /\ log'[n].fn = log[n].fn /\ log'[n].refused = log[n].refused
      /\ log'[n].done = TRUE /\ log'[n].called = log[n].called
  <2>1. log' = [log EXCEPT ![n] = [log[n] EXCEPT !.done = TRUE]] /\ log[n] \in Records
    BY <1>s, <1>1, <1>n, <1>3
  <2>2. log'[n] = [log[n] EXCEPT !.done = TRUE]
    BY <1>s, <1>3, <2>1
  <2>3. QED
    BY <1>s, <2>1, <2>2 DEF Records
<1>5. Issued'
  <2>1. \A r \in DOMAIN log' : Entry[log'[r].fn].callback = FALSE
    BY <1>4 DEF Issued
  <2>2. ASSUME NEW c \in Clients, sub[c].pc = "init"
        PROVE  ~log'[sub[c].request].refused /\ ~log'[sub[c].request].done
    <3>1. sub[c].request \in DOMAIN log /\ sub[c].request # n
      BY <1>a, <1>n, <2>2 DEF HeapInv, Requested, Fresh
    <3>2. QED
      BY <1>4, <2>2, <3>1 DEF Issued
  <2>3. InUseSlots' = InUseSlots
    BY <1>1 DEF InUseSlots
  <2>4. ASSUME NEW s \in InUseSlots PROVE Filling(s)' \/ Serves(s)'
    <3>1. CASE s = cur
      BY <1>2, <1>3, <1>4, <1>n, <1>s, <3>1 DEF Serves
    <3>2. CASE Filling(s)
      BY <1>1, <3>2 DEF Filling
    <3>3. CASE s # cur /\ Serves(s)
      <4>1. work[s].request # n /\ s \in Slots
        BY <1>a, <1>3, <1>n, <3>3 DEF HeapInv, Requested, InUseSlots
      <4>2. QED
        BY <1>2, <1>4, <3>3, <4>1 DEF Serves
    <3>4. QED
      BY <3>1, <3>2, <3>3 DEF Issued
  <2>5. QED
    BY <1>1, <2>1, <2>2, <2>3, <2>4 DEF Issued
<1>6. Pending # <<>> /\ Head(Pending) = n /\ Pending' = Tail(Pending)
  <2>1. \A i \in DOMAIN queue : work'[queue[i]].request = work[queue[i]].request
    BY <1>2, WaitedAsks DEF InUseSlots
  <2>2. QED
    BY <1>1, <1>a, <1>n, <2>1, CompleteCarriesOut
<1>7. Wanting = {} /\ Wanting' = {}
  BY <1>5 DEF Wanting, Issued
<1>8. Finished' = Finished \cup {n}
  BY <1>3, <1>4 DEF Finished
<1>9. Refused' = Refused
  BY <1>4 DEF Refused
<1>10. Called' = Called
  BY <1>4 DEF Called
<1>11. Service!CarryOut
  <2>1. \A r \in Finished \cap Wanting : Called[r] = 1
    BY <1>7
  <2>2. QED
    BY <1>6, <1>7, <1>8, <1>9, <1>10, <2>1 DEF Service!CarryOut, Wanting, Finished, Refused, Called
<1>12. QED
  BY <1>5, <1>11

LEMMA RunServes ==
  ASSUME WaitInv, HeapInv, Issued, ThreadRuns
  PROVE  Issued' /\ (Service!CarryOut \/ UNCHANGED ServiceVars)
<1>s. work \in [Slots -> Item] /\ log \in Seq(Records)
  BY TypeFacts DEF WaitInv
<1>1. ASSUME ~Complete PROVE SameItems
  <2>1. UNCHANGED <<avail, sub>>
    BY <1>1 DEF ThreadRuns, PopItem, FindMount, RunOperation, Choose, NotifyAll
  <2>2. /\ DOMAIN log' = DOMAIN log /\ \A r \in DOMAIN log : SameFate(r)
        /\ \A s \in Slots : work'[s].request = work[s].request /\ work'[s].completed = work[s].completed
    <3>1. CASE RunOperation
      <4>1. PICK heap \in BOOLEAN :
              /\ work' = IF heap THEN [work EXCEPT ![cur].buffer = "heap"] ELSE work
              /\ log' = [log EXCEPT ![work[cur].request].heap = heap]
        BY <3>1 DEF RunOperation
      <4>2. \A s \in Slots : work'[s].request = work[s].request /\ work'[s].completed = work[s].completed
        BY <1>s, <4>1 DEF Item
      <4>n. PICK n : n = work[cur].request
        OBVIOUS
      <4>3. DOMAIN log' = DOMAIN log /\ \A r \in DOMAIN log : SameFate(r)
        BY <1>s, <4>1, <4>n DEF SameFate, Records
      <4>4. QED
        BY <4>2, <4>3
    <3>2. CASE ~RunOperation
      <4>1. UNCHANGED <<work, log>>
        BY <1>1, <3>2 DEF ThreadRuns, PopItem, FindMount, Choose, NotifyAll
      <4>2. QED
        BY <4>1 DEF SameFate
    <3>3. QED
      BY <3>1, <3>2
  <2>3. InUseSlots' \subseteq InUseSlots
    BY <2>1 DEF InUseSlots
  <2>4. QED
    BY <2>1, <2>2, <2>3 DEF SameItems
<1>2. CASE PopItem
  <2>1. /\ tpc = "pop" /\ tpc' = "find" /\ queue # <<>>
        /\ cur' = queue[1] /\ queue' = RemoveAt(queue, 1)
    BY <1>2 DEF PopItem, GoThread, First
  <2>2. SameItems
    BY <1>1, <2>1 DEF Complete, GoThread
  <2>3. \A i \in DOMAIN queue : work'[queue[i]].request = work[queue[i]].request
    BY <2>2, WaitedAsks DEF SameItems, InUseSlots
  <2>4. Pending' = Pending
    BY <2>1, <2>3, WaitedAsks, PopKeepsPending
  <2>5. UNCHANGED <<Wanting, Finished, Refused, Called>>
    BY <2>2, FatesKept DEF SameItems
  <2>6. QED
    BY <2>2, <2>4, <2>5, IssuedSame DEF ServiceVars
<1>3. CASE ~PopItem /\ ~Complete
  <2>1. /\ queue' = queue
        /\ tpc \in {"find", "device", "complete"} <=> tpc' \in {"find", "device", "complete"}
        /\ tpc \in {"find", "device", "complete"} => cur' = cur
    BY <1>3 DEF ThreadRuns, FindMount, RunOperation, Choose, NotifyAll, GoThread
  <2>2. QED
    BY <1>1, <1>3, <2>1, IssuedSame, ServesNothing
<1>4. QED
  BY <1>2, <1>3, CompleteServes

\* The requests of clients that wait for their items are carried out one at a
\* time in the order they were queued, each once, and none that was refused,
\* whatever the interleaving with stops and restarts of the thread
\* (FileContext.cpp:436-458, 667-786).
THEOREM WaitedServed ==
  ASSUME AllWaited
  PROVE  Spec => RequestSpec
<1>1. Init => Service!Init /\ Issued
  <2> SUFFICES ASSUME Init PROVE Service!Init /\ Issued
    OBVIOUS
  <2>1. Pending = <<>> \o <<>>
    BY DEF Init, ControlInit, Pending
  <2>2. Pending = <<>>
    BY <2>1, ConcatEmptySeq
  <2>3. Issued
    BY DEF Init, Issued, InUseSlots, NotSubmitting, Threads
  <2>4. QED
    BY <2>2, <2>3 DEF Init, Service!Init
<1>2. WaitInv /\ HeapInv /\ Issued /\ [Next]_vars => Issued' /\ [Service!Next]_(Service!vars)
  <2> SUFFICES ASSUME WaitInv, HeapInv, Issued, [Next]_vars
               PROVE  Issued' /\ (Service!Next \/ UNCHANGED Service!vars)
    OBVIOUS
  <2>1. ASSUME UNCHANGED ServiceVars PROVE UNCHANGED Service!vars
    BY <2>1 DEF ServiceVars, Service!vars, Wanting, Finished, Refused, Called
  <2>2. ASSUME Pause PROVE Issued' /\ UNCHANGED ServiceVars
    <3>1. /\ UNCHANGED <<avail, work, log, sub, cur, queue>>
          /\ tpc' = tpc \/ {tpc, tpc'} \subseteq {"loop", "pop", "exited", "joined"}
      BY <2>2 DEF Pause
    <3>2. SameItems
      BY <3>1 DEF SameItems, SameFate, InUseSlots
    <3>3. QED
      BY <3>1, <3>2, IssuedSame, ServesNothing
  <2>3. ASSUME NEW c \in Clients, ClientSubmits(c)
        PROVE  Issued' /\ (\/ \E r \in Requests : Service!Make(r) \/ Service!Queue(r)
                           \/ UNCHANGED ServiceVars)
    BY <2>3, AllocServes, InitServes, PushServes, CorrectServes DEF ClientSubmits
  <2>4. QED
    BY <2>1, <2>2, <2>3, WaitServes, RunServes, WaitedCases DEF WaitInv, Service!Next
<1>3. WaitInv /\ HeapInv /\ [Next]_vars => HeapInv'
  BY HeapStep
<1>4. QED
  BY <1>1, <1>2, <1>3, HeapInit, WaitInvariant, PTL DEF Spec, RequestSpec, Service!Spec
=============================================================================
