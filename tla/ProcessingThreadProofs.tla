----------------------- MODULE ProcessingThreadProofs -----------------------
(***************************************************************************)
(* For every capacity, the ring buffer implements BoundedFifo; and for     *)
(* every number of producers, controllers and calls: types, the absence of *)
(* lost wake-ups and of missed stops, the FIFO hand-off, and that the      *)
(* thread is controlled as ThreadControl says; and with one controller,    *)
(* that no processing thread runs while mounts are released and that no    *)
(* thread object is misused.                                               *)
(***************************************************************************)
EXTENDS ProcessingThread, SequenceTheorems, FiniteSetTheorems, TLAPS

-----------------------------------------------------------------------------
(* The ring buffer: the argument needs one inductive invariant, the types, *)
(* the meaning of the full flag, and that every held slot was written.     *)

\* The inductive invariant of the ring buffer.
RBInv == RBTypeOK /\ HeldSlotsWritten

\* What getCount() and the index arithmetic compute: the count is within
\* the capacity, decides emptiness and fullness as pop() and push() do, and
\* the k-th item lies in the array, the next free slot being _writePos.
LEMMA CountFacts ==
  ASSUME RBTypeOK
  PROVE  /\ Count \in 0 .. Capacity
         /\ HasItem <=> Count > 0
         /\ full <=> Count = Capacity
         /\ \A k \in 1 .. Capacity : SlotOf(k) \in Index
         /\ ~full => SlotOf(Count + 1) = writePos
         /\ \A k \in 1 .. Count : ~full => SlotOf(k) # writePos
         /\ SlotOf(1) = readPos
<1> USE CapacityAssumption DEF RBTypeOK, Index
<1>1. Count \in 0 .. Capacity
  BY DEF Count
<1>2. HasItem <=> Count > 0
  BY DEF Count, HasItem
<1>3. full <=> Count = Capacity
  BY DEF Count
<1>4. \A k \in 1 .. Capacity : SlotOf(k) \in Index
  BY DEF SlotOf
<1>5. ~full => SlotOf(Count + 1) = writePos
  BY DEF Count, SlotOf
<1>6. \A k \in 1 .. Count : ~full => SlotOf(k) # writePos
  BY DEF Count, SlotOf
<1>7. SlotOf(1) = readPos
  BY DEF SlotOf
<1>8. QED
  BY <1>1, <1>2, <1>3, <1>4, <1>5, <1>6, <1>7

\* push() adds one item behind the others and leaves those where they are.
LEMMA PushFacts ==
  ASSUME RBTypeOK, NEW v \in Values, Push(v)
  PROVE  /\ Count' = Count + 1
         /\ \A k \in 1 .. Count + 1 :
              buffer'[SlotOf(k)'] = IF k = Count + 1 THEN v ELSE buffer[SlotOf(k)]
<1> USE CapacityAssumption DEF RBTypeOK, Index
<1>1. Count' = Count + 1
  <2>1. CASE Advance(writePos) = readPos
    <3>1. full'
      BY <2>1 DEF Push
    <3>2. QED
      BY <2>1, <3>1 DEF Push, Count, Advance
  <2>2. CASE Advance(writePos) # readPos
    <3>1. ~full'
      BY <2>2 DEF Push
    <3>2. QED
      BY <2>2, <3>1 DEF Push, Count, Advance
  <2>3. QED
    BY <2>1, <2>2
<1>2. ASSUME NEW k \in 1 .. Count + 1
      PROVE  buffer'[SlotOf(k)'] = IF k = Count + 1 THEN v ELSE buffer[SlotOf(k)]
  <2>1. SlotOf(k)' = SlotOf(k)
    BY DEF Push, SlotOf
  <2>2. SlotOf(k) \in Index /\ (SlotOf(k) = writePos <=> k = Count + 1)
    BY CountFacts, SMTT(30) DEF Push
  <2>3. QED
    BY <2>1, <2>2 DEF Push
<1>3. QED
  BY <1>1, <1>2

\* pop() takes the oldest item, and every other moves up by one.
LEMMA PopFacts ==
  ASSUME RBTypeOK, PopItem
  PROVE  /\ Count' = Count - 1
         /\ \A k \in 1 .. Count - 1 : buffer'[SlotOf(k)'] = buffer[SlotOf(k + 1)]
         /\ item' = buffer[SlotOf(1)]
<1> USE CapacityAssumption DEF RBTypeOK, Index
<1>1. Count' = Count - 1
  BY DEF PopItem, Count, Advance, HasItem
<1>2. \A k \in 1 .. Count - 1 : SlotOf(k)' = SlotOf(k + 1)
  BY CountFacts DEF PopItem, SlotOf, Advance
<1>3. item' = buffer[SlotOf(1)]
  BY CountFacts DEF PopItem
<1>4. QED
  BY <1>1, <1>2, <1>3 DEF PopItem

\* Init establishes the invariant.
LEMMA RBInvInit == RBInit => RBInv
<1> SUFFICES ASSUME RBInit PROVE RBInv
  OBVIOUS
<1>1. RBTypeOK
  <2>1. 0 \in Index
    BY CapacityAssumption DEF Index
  <2>2. QED
    BY <2>1 DEF RBInit, RBTypeOK
<1>2. Count = 0
  BY DEF RBInit, Count
<1>3. QED
  BY <1>1, <1>2 DEF RBInv, HeldSlotsWritten

\* push() preserves the invariant.
LEMMA RBInvPush ==
  ASSUME RBInv, NEW v \in Values, Push(v)
  PROVE  RBInv'
<1>1. RBTypeOK'
  BY CapacityAssumption DEF RBInv, RBTypeOK, Index, Push, Advance
<1>2. HeldSlotsWritten'
  <2> SUFFICES ASSUME NEW k \in (1 .. Count)'
               PROVE  buffer'[SlotOf(k)'] \in Values
    BY DEF HeldSlotsWritten
  <2>1. k \in 1 .. Count \/ k = Count + 1
    BY PushFacts, CountFacts DEF RBInv
  <2>2. QED
    BY <2>1, PushFacts DEF RBInv, HeldSlotsWritten
<1>3. QED
  BY <1>1, <1>2 DEF RBInv

\* pop() preserves the invariant, whether or not it finds an item.
LEMMA RBInvPop ==
  ASSUME RBInv, PopItem \/ PopNothing
  PROVE  RBInv'
<1>1. CASE PopItem
  <2>1. item' \in Values
    BY <1>1, PopFacts, CountFacts DEF RBInv, HeldSlotsWritten, PopItem
  <2>2. RBTypeOK'
    <3>1. readPos' \in Index
      BY <1>1, CapacityAssumption DEF RBInv, RBTypeOK, Index, PopItem, Advance
    <3>2. QED
      BY <1>1, <2>1, <3>1 DEF RBInv, RBTypeOK, Index, PopItem
  <2>3. HeldSlotsWritten'
    BY <1>1, PopFacts, CountFacts DEF RBInv, HeldSlotsWritten
  <2>4. QED
    BY <2>2, <2>3 DEF RBInv
<1>2. CASE PopNothing
  BY <1>2 DEF PopNothing, RBInv, RBTypeOK, HeldSlotsWritten, Count, SlotOf, Index
<1>3. QED
  BY <1>1, <1>2

\* Nothing else touches the ring buffer.
LEMMA RBInvStutter ==
  ASSUME RBInv, UNCHANGED rbVars
  PROVE  RBInv'
BY DEF RBInv, RBTypeOK, HeldSlotsWritten, Count, SlotOf, Index, rbVars

\* Positions, flag and slots are right in every reachable state, and pop()
\* never returns a slot of the array that nothing was pushed into.
THEOREM RingBufferInvariant == RBSpec => [](RBTypeOK /\ HeldSlotsWritten)
<1>1. RBInv /\ [RBNext]_rbVars => RBInv'
  BY RBInvPush, RBInvPop, RBInvStutter DEF RBNext
<1>2. QED
  BY <1>1, RBInvInit, PTL DEF RBSpec, RBInv

\* The items held form a sequence of pushed values.
LEMMA ContentsIsSeq ==
  ASSUME RBInv
  PROVE  /\ Contents \in Seq(Values)
         /\ Len(Contents) = Count
         /\ \A k \in 1 .. Count : Contents[k] = buffer[SlotOf(k)]
<1>1. Count \in Nat
  BY CountFacts, CapacityAssumption DEF RBInv
<1>2. Contents \in [1 .. Count -> Values]
  BY DEF Contents, RBInv, HeldSlotsWritten
<1>3. QED
  BY <1>1, <1>2 DEF Contents

\* push(v) appends v to the items held; it finds room exactly when the
\* queue has room.
LEMMA PushRefines ==
  ASSUME RBInv, NEW v \in Values, Push(v)
  PROVE  Fifo!Push(v)
<1>0. RBInv' /\ Count' = Count + 1 /\ Count \in Nat
  BY RBInvPush, PushFacts, CountFacts, CapacityAssumption DEF RBInv
<1>1. Len(Contents) < Capacity
  BY <1>0, CountFacts, ContentsIsSeq, CapacityAssumption DEF RBInv, Push
<1>2. Contents' = Append(Contents, v)
  <2>1. /\ Contents' \in Seq(Values)
        /\ Len(Contents') = Count'
        /\ \A k \in 1 .. Count' : Contents'[k] = buffer'[SlotOf(k)']
    <3>1. Contents' \in [1 .. Count' -> Values]
      BY <1>0 DEF Contents, RBInv, HeldSlotsWritten
    <3>2. QED
      BY <1>0, <3>1 DEF Contents
  <2>2. Contents' = Append(Contents, v)
    BY <1>0, <2>1, ContentsIsSeq, PushFacts DEF RBInv
  <2>3. QED
    BY <2>2
<1>3. QED
  BY <1>1, <1>2 DEF Fifo!Push, Push

\* pop() on a non-empty buffer returns and removes the oldest item.
LEMMA PopRefines ==
  ASSUME RBInv, PopItem
  PROVE  Fifo!Pop
<1>0. RBInv' /\ Count' = Count - 1 /\ Count \in Nat /\ Count > 0
  <2>1. RBInv'
    BY RBInvPop
  <2>2. Count' = Count - 1
    BY PopFacts DEF RBInv
  <2>3. Count \in Nat /\ Count > 0
    BY CountFacts, CapacityAssumption DEF RBInv, PopItem
  <2>4. QED
    BY <2>1, <2>2, <2>3
<1>1. Contents # <<>> /\ item' = Head(Contents)
  BY <1>0, ContentsIsSeq, PopFacts DEF RBInv
<1>2. Contents' = Tail(Contents)
  <2>1. /\ Contents' \in Seq(Values)
        /\ Len(Contents') = Count'
        /\ \A k \in 1 .. Count' : Contents'[k] = buffer'[SlotOf(k)']
    <3>1. Contents' \in [1 .. Count' -> Values]
      BY <1>0 DEF Contents, RBInv, HeldSlotsWritten
    <3>2. QED
      BY <1>0, <3>1 DEF Contents
  <2>2. QED
    BY <1>0, <2>1, ContentsIsSeq, PopFacts DEF RBInv
<1>3. QED
  BY <1>1, <1>2 DEF Fifo!Pop

\* pop() on an empty buffer returns the default value and changes nothing.
LEMMA PopNothingRefines ==
  ASSUME RBInv, PopNothing
  PROVE  Fifo!PopEmpty
<1>1. Contents = <<>>
  BY ContentsIsSeq, CountFacts, CapacityAssumption DEF RBInv, PopNothing
<1>2. UNCHANGED Contents
  BY DEF PopNothing, Contents, Count, SlotOf
<1>3. QED
  BY <1>1, <1>2 DEF PopNothing, Fifo!PopEmpty

\* Every step of the ring buffer is a step of the queue or leaves it alone.
LEMMA RBStepRefines == RBInv /\ [RBNext]_rbVars => [Fifo!Next]_(Fifo!vars)
<1> SUFFICES ASSUME RBInv, [RBNext]_rbVars PROVE [Fifo!Next]_(Fifo!vars)
  OBVIOUS
<1>1. ASSUME NEW v \in Values, Push(v) PROVE Fifo!Next
  BY <1>1, PushRefines DEF Fifo!Next
<1>2. CASE PopItem
  BY <1>2, PopRefines DEF Fifo!Next
<1>3. CASE PopNothing
  BY <1>3, PopNothingRefines DEF Fifo!Next
<1>4. CASE UNCHANGED rbVars
  BY <1>4 DEF rbVars, Fifo!vars, Contents, Count, SlotOf
<1>5. QED
  BY <1>1, <1>2, <1>3, <1>4 DEF RBNext

\* The ring buffer starts as the empty queue.
LEMMA RBInitRefines == RBInit => Fifo!Init
<1> SUFFICES ASSUME RBInit PROVE Fifo!Init
  OBVIOUS
<1>1. Count = 0
  BY DEF RBInit, Count
<1>2. Contents = <<>>
  BY <1>1, RBInvInit, ContentsIsSeq
<1>3. QED
  BY <1>2 DEF RBInit, Fifo!Init

\* push() and pop() of RingBuffer implement the bounded FIFO queue, for
\* every capacity: no item is lost, duplicated, reordered or invented.
THEOREM RingBufferIsFifo == RBSpec => FifoSpec
<1>1. RBInv /\ [RBNext]_rbVars => RBInv'
  BY RBInvPush, RBInvPop, RBInvStutter DEF RBNext
<1>2. QED
  BY <1>1, RBInvInit, RBInitRefines, RBStepRefines, PTL
     DEF RBSpec, FifoSpec, Fifo!Spec

-----------------------------------------------------------------------------
(* The threads around it.                                                  *)

\* The calls begun that may still post a notification.
Pushing == {p \in Producers : ppc[p] \in {"spin", "lock", "post"}}
Stopping == {c \in Controllers : mpc[c] \in {"clear", "post"}}

PushDebt == Cardinality(Pushing)
StopDebt == Cardinality(Stopping)

\* Tokens and tokens to come are never more than the calls begun, so the
\* counter of the semaphore cannot wrap.
TokenBound == value + PushDebt + StopDebt <= calls + stops

\* The inductive invariant.
TypeInv ==
  /\ TypeOK
  /\ HeldSlotsWritten
  /\ TokenBound
  /\ ~joinable => tpc = "exited"

-----------------------------------------------------------------------------
\* One thread entering or leaving a set changes its size by one.
LEMMA SizeMove ==
  ASSUME NEW A, IsFiniteSet(A), NEW B, NEW x, A \ {x} = B \ {x}
  PROVE  /\ Cardinality(A) \in Nat
         /\ Cardinality(B) \in Nat
         /\ Cardinality(B) = Cardinality(A) + (IF x \in B THEN 1 ELSE 0)
                                           - (IF x \in A THEN 1 ELSE 0)
<1> DEFINE C == A \ {x}
<1>1. IsFiniteSet(C) /\ Cardinality(C) \in Nat
  BY FS_Subset, FS_CardinalityType
<1>2. x \notin C
  OBVIOUS
<1>3. (x \in A => A = C \cup {x}) /\ (x \notin A => A = C)
  OBVIOUS
<1>4. (x \in B => B = C \cup {x}) /\ (x \notin B => B = C)
  OBVIOUS
<1> HIDE DEF C
<1>5. Cardinality(C \cup {x}) = Cardinality(C) + 1
  BY <1>1, <1>2, FS_AddElement
<1>6. Cardinality(A) = Cardinality(C) + (IF x \in A THEN 1 ELSE 0)
  <2>1. CASE x \in A
    BY <1>3, <1>5, <2>1, Zenon
  <2>2. CASE x \notin A
    <3>1. Cardinality(A) = Cardinality(C)
      BY <1>3, <2>2, Zenon
    <3>2. QED
      BY <1>1, <2>2, <3>1
  <2>3. QED
    BY <2>1, <2>2
<1>7. Cardinality(B) = Cardinality(C) + (IF x \in B THEN 1 ELSE 0)
  <2>1. CASE x \in B
    BY <1>4, <1>5, <2>1, Zenon
  <2>2. CASE x \notin B
    <3>1. Cardinality(B) = Cardinality(C)
      BY <1>4, <2>2, Zenon
    <3>2. QED
      BY <1>1, <2>2, <3>1
  <2>3. QED
    BY <2>1, <2>2
<1>8. QED
  BY <1>1, <1>6, <1>7

\* A counter below the modulus is incremented without wrapping.
LEMMA ModSmall ==
  ASSUME NEW m \in Nat \ {0}, NEW x \in 0 .. m - 1
  PROVE  x % m = x
OBVIOUS

\* What a step of a producer does to the debts.
LEMMA PushDebtMove ==
  ASSUME TypeOK, NEW p \in Producers, NEW from, NEW to, GoPush(p, from, to)
  PROVE  /\ PushDebt \in Nat /\ PushDebt' \in Nat
         /\ PushDebt' = PushDebt + (IF to \in {"spin", "lock", "post"} THEN 1 ELSE 0)
              - (IF from \in {"spin", "lock", "post"} THEN 1 ELSE 0)
<1>1. IsFiniteSet(Pushing)
  BY ThreadAssumption, FS_Subset DEF Pushing
<1>2. Pushing \ {p} = Pushing' \ {p}
  BY DEF GoPush, Pushing, TypeOK
<1>3. p \in Pushing <=> from \in {"spin", "lock", "post"}
  BY DEF GoPush, Pushing
<1>4. p \in Pushing' <=> to \in {"spin", "lock", "post"}
  BY DEF GoPush, Pushing, TypeOK
<1>5. QED
  BY <1>1, <1>2, <1>3, <1>4, SizeMove DEF PushDebt

\* What a step of a controller does to the debts.
LEMMA StopDebtMove ==
  ASSUME TypeOK, NEW c \in Controllers, NEW from, NEW to, GoStop(c, from, to)
  PROVE  /\ StopDebt \in Nat /\ StopDebt' \in Nat
         /\ StopDebt' = StopDebt + (IF to \in {"clear", "post"} THEN 1 ELSE 0)
              - (IF from \in {"clear", "post"} THEN 1 ELSE 0)
<1>1. IsFiniteSet(Stopping)
  BY ThreadAssumption, FS_Subset DEF Stopping
<1>2. Stopping \ {c} = Stopping' \ {c}
  BY DEF GoStop, Stopping, TypeOK
<1>3. c \in Stopping <=> from \in {"clear", "post"}
  BY DEF GoStop, Stopping
<1>4. c \in Stopping' <=> to \in {"clear", "post"}
  BY DEF GoStop, Stopping, TypeOK
<1>5. QED
  BY <1>1, <1>2, <1>3, <1>4, SizeMove DEF StopDebt

\* The debts are numbers.
LEMMA DebtsNat == PushDebt \in Nat /\ StopDebt \in Nat
<1>1. IsFiniteSet(Pushing) /\ IsFiniteSet(Stopping)
  BY ThreadAssumption, FS_Subset DEF Pushing, Stopping
<1>2. QED
  BY <1>1, FS_CardinalityType DEF PushDebt, StopDebt

\* The constructor establishes the invariant.
LEMMA TypeInvInit == Init => TypeInv
<1> SUFFICES ASSUME Init PROVE TypeInv
  OBVIOUS
<1>1. RBInv
  BY RBInvInit DEF Init
<1>2. TypeOK
  <2>1. RBTypeOK
    BY <1>1 DEF RBInv
  <2>2. value \in 0 .. SemLimit - 1 /\ calls \in 0 .. MaxCalls /\ stops \in 0 .. MaxStops
    BY SemLimitAssumption, BoundAssumption DEF Init, SemInit
  <2>3. ppc \in [Producers -> PushPC] /\ mpc \in [Controllers -> StopPC]
    BY DEF Init, PushPC, StopPC
  <2>4. /\ arg \in [Producers -> Values \cup {Null}]
        /\ \A p \in Producers : ppc[p] \notin {"spin", "lock"}
    BY DEF Init
  <2>5. QED
    BY <2>1, <2>2, <2>3, <2>4 DEF Init, SemInit, TypeOK, ThreadPC
<1>3. PushDebt = 0 /\ StopDebt = 0
  <2>1. Pushing = {} /\ Stopping = {}
    BY DEF Init, Pushing, Stopping
  <2>2. QED
    BY <2>1, FS_EmptySet DEF PushDebt, StopDebt
<1>4. TokenBound
  BY <1>3 DEF Init, SemInit, TokenBound
<1>5. QED
  BY <1>1, <1>2, <1>4 DEF Init, TypeInv, RBInv

\* A step that leaves the ring buffer alone keeps its part of the invariant.
LEMMA SameBuffer ==
  ASSUME TypeInv, UNCHANGED rbVars
  PROVE  RBTypeOK' /\ HeldSlotsWritten'
BY RBInvStutter DEF TypeInv, TypeOK, RBInv

\* The debts depend on the labels only.
LEMMA SameDebts ==
  /\ UNCHANGED ppc => PushDebt' = PushDebt
  /\ UNCHANGED mpc => StopDebt' = StopDebt
BY DEF PushDebt, StopDebt, Pushing, Stopping

\* A notification that was begun fits into the counter.
LEMMA PostFits ==
  ASSUME TypeInv, Post, PushDebt + StopDebt > 0
  PROVE  value' = value + 1
<1>1. value + 1 \in 0 .. SemLimit - 1
  BY DebtsNat, BoundAssumption, SemLimitAssumption DEF TypeInv, TypeOK, TokenBound
<1>2. QED
  BY <1>1, ModSmall, SemLimitAssumption DEF Post

\* Every step of a push preserves the invariant.
LEMMA TypeInvPush ==
  ASSUME TypeInv, NEW p \in Producers,
         (\E v \in Values : PushCall(p, v)) \/ PushStep(p)
  PROVE  TypeInv'
<1> USE DEF PushPC
<1>1. ASSUME NEW v \in Values, PushCall(p, v) PROVE TypeInv'
  <2>1. RBTypeOK' /\ HeldSlotsWritten'
    BY <1>1, SameBuffer DEF PushCall
  <2>2. TypeOK'
    BY <1>1, <2>1, BoundAssumption DEF PushCall, GoPush, TypeInv, TypeOK, semVars, threadVars, stopVars
  <2>3. TokenBound'
    BY <1>1, PushDebtMove, SameDebts, DebtsNat, BoundAssumption
       DEF PushCall, TypeInv, TypeOK, TokenBound, semVars, stopVars
  <2>4. QED
    BY <1>1, <2>1, <2>2, <2>3 DEF PushCall, TypeInv, threadVars
<1>2. CASE PushSpin(p) \/ PushRetry(p) \/ PushSignal(p)
  <2>1. RBTypeOK' /\ HeldSlotsWritten'
    BY <1>2, SameBuffer DEF PushSpin, PushRetry, PushSignal
  <2>2. PICK to \in {"lock", "spin", "idle"} :
          /\ GoPush(p, ppc[p], to)
          /\ to \in {"lock", "spin"} <=> ppc[p] \in {"lock", "spin"}
          /\ ppc[p] # "post"
    BY <1>2 DEF PushSpin, PushRetry, PushSignal, GoPush
  <2>3. TypeOK'
    BY <1>2, <2>1, <2>2 DEF PushSpin, PushRetry, PushSignal, NotifyOne, GoPush,
         TypeInv, TypeOK, semVars, threadVars, stopVars
  <2>4. TokenBound'
    BY <1>2, <2>2, PushDebtMove, SameDebts, DebtsNat
       DEF PushSpin, PushRetry, PushSignal, NotifyOne, TypeInv, TypeOK, TokenBound,
         semVars, stopVars
  <2>5. QED
    BY <1>2, <2>1, <2>3, <2>4 DEF PushSpin, PushRetry, PushSignal, TypeInv, threadVars
<1>3. CASE PushItem(p)
  <2>1. arg[p] \in Values
    BY <1>3 DEF PushItem, GoPush, TypeInv, TypeOK
  <2>2. RBTypeOK' /\ HeldSlotsWritten'
    BY <1>3, <2>1, RBInvPush DEF PushItem, TypeInv, TypeOK, RBInv
  <2>3. PICK to \in {"post", "idle"} : GoPush(p, "lock", to)
    BY <1>3 DEF PushItem
  <2>4. TypeOK'
    BY <1>3, <2>2, <2>3 DEF PushItem, GoPush, TypeInv, TypeOK, semVars, threadVars, stopVars
  <2>5. TokenBound'
    BY <1>3, <2>3, PushDebtMove, SameDebts, DebtsNat
       DEF PushItem, TypeInv, TypeOK, TokenBound, semVars, stopVars
  <2>6. QED
    BY <1>3, <2>2, <2>4, <2>5 DEF PushItem, TypeInv, threadVars
<1>4. CASE PushPost(p)
  <2>1. RBTypeOK' /\ HeldSlotsWritten'
    BY <1>4, SameBuffer DEF PushPost
  <2>2. PushDebt > 0 /\ PushDebt' = PushDebt - 1 /\ StopDebt' = StopDebt
    BY <1>4, PushDebtMove, SameDebts DEF PushPost, TypeInv, stopVars
  <2>3. value' = value + 1
    BY <1>4, <2>2, PostFits, DebtsNat DEF PushPost
  <2>4. value' \in 0 .. SemLimit - 1
    BY <1>4, SemLimitAssumption DEF PushPost, Post, TypeInv, TypeOK
  <2>5. TypeOK'
    BY <1>4, <2>1, <2>4 DEF PushPost, Post, GoPush, TypeInv, TypeOK, threadVars, stopVars
  <2>6. TokenBound'
    BY <1>4, <2>2, <2>3, DebtsNat DEF PushPost, TypeInv, TypeOK, TokenBound, stopVars
  <2>7. QED
    BY <1>4, <2>1, <2>5, <2>6 DEF PushPost, TypeInv, threadVars
<1>5. QED
  BY <1>1, <1>2, <1>3, <1>4 DEF PushStep

\* Every step of the processing thread preserves the invariant.
LEMMA TypeInvThread ==
  ASSUME TypeInv, ThreadStep \/ ThreadWake
  PROVE  TypeInv'
<1> USE DEF ThreadPC
<1>1. PushDebt' = PushDebt /\ StopDebt' = StopDebt
  BY SameDebts DEF ThreadStep, ThreadCheck, ThreadPop, ThreadPopNothing, ThreadRun,
       ThreadTake, ThreadBlock, ThreadWake, pushVars, stopVars
<1>2. CASE ThreadPop \/ ThreadPopNothing
  <2>1. RBTypeOK' /\ HeldSlotsWritten'
    BY <1>2, RBInvPop DEF ThreadPop, ThreadPopNothing, TypeInv, TypeOK, RBInv
  <2>2. TypeOK'
    BY <1>2, <2>1 DEF ThreadPop, ThreadPopNothing, GoThread, TypeInv, TypeOK,
         semVars, pushVars, stopVars
  <2>3. QED
    BY <1>1, <1>2, <2>1, <2>2
       DEF ThreadPop, ThreadPopNothing, GoThread, TypeInv, TokenBound,
         semVars, pushVars, stopVars
<1>3. CASE ThreadCheck \/ ThreadRun
  <2>1. RBTypeOK' /\ HeldSlotsWritten'
    BY <1>3, SameBuffer DEF ThreadCheck, ThreadRun
  <2>2. TypeOK'
    BY <1>3, <2>1 DEF ThreadCheck, ThreadRun, GoThread, TypeInv, TypeOK,
         semVars, pushVars, stopVars
  <2>3. QED
    BY <1>1, <1>3, <2>1, <2>2
       DEF ThreadCheck, ThreadRun, GoThread, TypeInv, TokenBound,
         semVars, pushVars, stopVars
<1>4. CASE ThreadTake
  <2>1. RBTypeOK' /\ HeldSlotsWritten'
    BY <1>4, SameBuffer DEF ThreadTake
  <2>2. value' = value - 1 /\ value' \in 0 .. SemLimit - 1
    BY <1>4, SemLimitAssumption DEF ThreadTake, TakeToken, TypeInv, TypeOK
  <2>3. TypeOK'
    BY <1>4, <2>1, <2>2 DEF ThreadTake, TakeToken, GoThread, TypeInv, TypeOK,
         pushVars, stopVars
  <2>4. TokenBound'
    BY <1>1, <1>4, <2>2, DebtsNat DEF ThreadTake, TypeInv, TypeOK, TokenBound,
         pushVars, stopVars
  <2>5. QED
    BY <1>4, <2>1, <2>3, <2>4 DEF ThreadTake, GoThread, TypeInv
<1>5. CASE ThreadBlock \/ ThreadWake
  <2>1. RBTypeOK' /\ HeldSlotsWritten'
    BY <1>5, SameBuffer DEF ThreadBlock, ThreadWake
  <2>2. TypeOK'
    BY <1>5, <2>1 DEF ThreadBlock, ThreadWake, Block, SpuriousWake, TypeInv, TypeOK,
         threadVars, pushVars, stopVars
  <2>3. QED
    BY <1>1, <1>5, <2>1, <2>2
       DEF ThreadBlock, ThreadWake, Block, SpuriousWake, TypeInv, TokenBound,
         threadVars, pushVars, stopVars
<1>6. QED
  BY <1>2, <1>3, <1>4, <1>5 DEF ThreadStep

\* Every step of a stop or restart preserves the invariant.
LEMMA TypeInvStop ==
  ASSUME TypeInv, NEW c \in Controllers, ReleaseMount(c) \/ Destroy(c) \/ StopStep(c)
  PROVE  TypeInv'
<1> USE DEF StopPC
<1>1. RBTypeOK' /\ HeldSlotsWritten'
  BY SameBuffer DEF ReleaseMount, Destroy, StopCheck, StopStep, StopClear, StopPost,
       StopSignal, StopJoin, Release, StartCheck, StartSet, StartSpawn
<1>2. PushDebt' = PushDebt
  BY SameDebts DEF ReleaseMount, Destroy, StopCheck, StopStep, StopClear, StopPost,
       StopSignal, StopJoin, Release, StartCheck, StartSet, StartSpawn, pushVars
<1>3. CASE ReleaseMount(c) \/ Destroy(c)
  <2>1. StopCheck(c) /\ alive' \in BOOLEAN
    BY <1>3 DEF ReleaseMount, Destroy, TypeInv, TypeOK
  <2>2. PICK to \in {"clear", "release"} : GoStop(c, "idle", to)
    BY <2>1 DEF StopCheck
  <2>3. TypeOK'
    BY <1>1, <2>1, <2>2, BoundAssumption
       DEF StopCheck, GoStop, TypeInv, TypeOK, semVars, pushVars, threadVars
  <2>4. TokenBound'
    BY <1>2, <2>1, <2>2, StopDebtMove, DebtsNat, BoundAssumption
       DEF StopCheck, TypeInv, TypeOK, TokenBound, semVars, pushVars
  <2>5. QED
    BY <1>1, <2>1, <2>3, <2>4 DEF StopCheck, TypeInv, threadVars
<1>4. CASE StopPost(c)
  <2>1. StopDebt > 0 /\ StopDebt' = StopDebt - 1
    BY <1>4, StopDebtMove DEF StopPost, TypeInv
  <2>2. value' = value + 1
    BY <1>4, <2>1, PostFits, DebtsNat DEF StopPost
  <2>3. value' \in 0 .. SemLimit - 1
    BY <1>4, SemLimitAssumption DEF StopPost, Post, TypeInv, TypeOK
  <2>4. TypeOK'
    BY <1>1, <1>4, <2>3 DEF StopPost, Post, GoStop, TypeInv, TypeOK, pushVars, threadVars
  <2>5. TokenBound'
    BY <1>2, <1>4, <2>1, <2>2, DebtsNat
       DEF StopPost, TypeInv, TypeOK, TokenBound, pushVars
  <2>6. QED
    BY <1>1, <1>4, <2>4, <2>5 DEF StopPost, TypeInv, threadVars
<1>5. CASE StopClear(c) \/ StopSignal(c) \/ Release(c) \/ StartCheck(c) \/ StartSet(c)
  <2>1. PICK to \in StopPC :
          /\ GoStop(c, mpc[c], to)
          /\ mpc[c] \in {"clear", "post"} <=> to \in {"clear", "post"}
    BY <1>5 DEF StopClear, StopSignal, Release, StartCheck, StartSet, GoStop
  <2>2. TypeOK'
    BY <1>1, <1>5, <2>1
       DEF StopClear, StopSignal, NotifyOne, Release, StartCheck, StartSet, GoStop,
         TypeInv, TypeOK, semVars, pushVars, threadVars
  <2>3. TokenBound'
    BY <1>2, <1>5, <2>1, StopDebtMove, DebtsNat
       DEF StopClear, StopSignal, NotifyOne, Release, StartCheck, StartSet,
         TypeInv, TypeOK, TokenBound, semVars, pushVars
  <2>4. QED
    BY <1>1, <1>5, <2>2, <2>3
       DEF StopClear, StopSignal, Release, StartCheck, StartSet, TypeInv, threadVars
<1>6. CASE StopJoin(c) \/ StartSpawn(c)
  <2>1. PICK from \in {"join", "spawn"}, to \in {"release", "idle"} : GoStop(c, from, to)
    BY <1>6 DEF StopJoin, StartSpawn
  <2>2. /\ joinable' \in BOOLEAN /\ aborted' \in BOOLEAN /\ tpc' \in ThreadPC
        /\ ~joinable' => tpc' = "exited"
        /\ waiting' # {} => tpc' = "wait"
    BY <1>6 DEF StopJoin, StartSpawn, TypeInv, TypeOK, ThreadPC, semVars
  <2>3. TypeOK'
    BY <1>1, <1>6, <2>1, <2>2
       DEF StopJoin, StartSpawn, GoStop, TypeInv, TypeOK, semVars, pushVars
  <2>4. TokenBound'
    BY <1>2, <1>6, <2>1, StopDebtMove, DebtsNat
       DEF StopJoin, StartSpawn, TypeInv, TypeOK, TokenBound, semVars, pushVars
  <2>5. QED
    BY <1>1, <2>2, <2>3, <2>4 DEF TypeInv
<1>7. QED
  BY <1>3, <1>4, <1>5, <1>6 DEF StopStep

\* Every step preserves the invariant.
LEMMA TypeInvNext == TypeInv /\ [Next]_vars => TypeInv'
<1>1. ASSUME TypeInv, UNCHANGED vars PROVE TypeInv'
  <2>1. RBTypeOK' /\ HeldSlotsWritten'
    BY <1>1, SameBuffer DEF vars
  <2>2. TypeOK'
    BY <1>1, <2>1 DEF TypeInv, TypeOK, vars, semVars, pushVars, threadVars, stopVars
  <2>3. TokenBound'
    BY <1>1, SameDebts DEF TypeInv, TokenBound, vars, semVars, pushVars, threadVars, stopVars
  <2>4. QED
    BY <1>1, <2>1, <2>2, <2>3 DEF TypeInv, vars, threadVars
<1>2. QED
  BY <1>1, TypeInvPush, TypeInvThread, TypeInvStop DEF Next, Quiescent

\* Every variable has its type in every reachable state, for any number of
\* threads.
THEOREM TypeCorrectness == Spec => []TypeOK
<1>1. QED
  BY TypeInvInit, TypeInvNext, PTL DEF Spec, TypeInv

\* The tokens of the semaphore and those still to be posted never exceed the
\* calls of push(), releaseMount() and the destructor made so far: a call posts
\* at most once, however it retries (RingBuffer.h:61, FileContext.cpp:198).
THEOREM TokensCounted == Spec => []TokenBound
<1>1. QED
  BY TypeInvInit, TypeInvNext, PTL DEF Spec, TypeInv

-----------------------------------------------------------------------------
\* What the thread relies on when it goes to sleep.
WakeInv == NoLostWakeup /\ StopNoticed

\* A thread that moves away from another label than s leaves s pending, and
\* one that arrives at s makes it pending.
LEMMA PendingPush ==
  ASSUME TypeOK, NEW p \in Producers, NEW from, NEW to, GoPush(p, from, to),
         UNCHANGED mpc, NEW s
  PROVE  /\ from # s /\ Pending(s) => Pending(s)'
         /\ to = s => Pending(s)'
BY DEF TypeOK, GoPush, Pending

LEMMA PendingStop ==
  ASSUME TypeOK, NEW c \in Controllers, NEW from, NEW to, GoStop(c, from, to),
         UNCHANGED ppc, NEW s
  PROVE  /\ from # s /\ Pending(s) => Pending(s)'
         /\ to = s => Pending(s)'
BY DEF TypeOK, GoStop, Pending

\* The signal wakes the worker if it is blocked.
LEMMA SignalWakes ==
  ASSUME TypeOK, NotifyOne
  PROVE  waiting' = {} /\ value' = value
BY DEF TypeOK, NotifyOne

\* A push keeps every wake-up: a push onto an empty buffer, the only one the
\* thread may sleep through, has its notification pending.
LEMMA WakePush ==
  ASSUME TypeInv, WakeInv, NEW p \in Producers,
         (\E v \in Values : PushCall(p, v)) \/ PushStep(p)
  PROVE  WakeInv'
<1> USE DEF WakeInv, NoLostWakeup, StopNoticed
<1>0. TypeOK
  BY DEF TypeInv
<1>1. CASE (\E v \in Values : PushCall(p, v)) \/ PushSpin(p) \/ PushRetry(p)
  <2>1. PICK from \in {"idle", "spin", "lock"}, to \in {"spin", "lock"} : GoPush(p, from, to)
    BY <1>1 DEF PushCall, PushSpin, PushRetry
  <2>2. UNCHANGED mpc
    BY <1>1 DEF PushCall, PushSpin, PushRetry, stopVars
  <2>3. (Pending("post") => Pending("post")') /\ (Pending("signal") => Pending("signal")')
    BY <1>0, <2>1, <2>2, PendingPush
  <2>4. HasItem' = HasItem
    BY <1>1 DEF PushCall, PushSpin, PushRetry, rbVars, HasItem
  <2>5. QED
    BY <1>1, <2>3, <2>4 DEF PushCall, PushSpin, PushRetry, semVars, threadVars
<1>2. CASE PushItem(p)
  <2>1. (Pending("post") => Pending("post")') /\ (Pending("signal") => Pending("signal")')
    BY <1>0, <1>2, PendingPush DEF PushItem, stopVars
  <2>2. ~HasItem => Pending("post")'
    <3>1. SUFFICES ASSUME ~HasItem PROVE Pending("post")'
      OBVIOUS
    <3>2. GoPush(p, "lock", "post")
      BY <1>2, <3>1 DEF PushItem, HasItem
    <3>3. QED
      BY <1>0, <1>2, <3>2, PendingPush DEF PushItem, stopVars
  <2>3. QED
    BY <1>2, <2>1, <2>2 DEF PushItem, semVars, threadVars
<1>3. CASE PushPost(p)
  <2>1. PushDebt > 0
    BY <1>0, <1>3, PushDebtMove DEF PushPost
  <2>2. value' = value + 1 /\ value' > 0
    BY <1>0, <1>3, <2>1, PostFits, DebtsNat DEF PushPost, TypeOK
  <2>3. Pending("signal")'
    BY <1>0, <1>3, PendingPush DEF PushPost, stopVars
  <2>4. QED
    BY <2>2, <2>3
<1>4. CASE PushSignal(p)
  <2>1. waiting' = {} /\ value' = value
    BY <1>0, <1>4, SignalWakes DEF PushSignal
  <2>2. Pending("post") => Pending("post")'
    BY <1>0, <1>4, PendingPush DEF PushSignal, stopVars
  <2>3. HasItem' = HasItem
    BY <1>4 DEF PushSignal, rbVars, HasItem
  <2>4. QED
    BY <1>4, <2>1, <2>2, <2>3 DEF PushSignal, threadVars
<1>5. QED
  BY <1>1, <1>2, <1>3, <1>4 DEF PushStep

\* The thread goes to sleep only over an empty buffer it has seen while it
\* was not told to stop.
LEMMA WakeThread ==
  ASSUME TypeInv, WakeInv, ThreadStep \/ ThreadWake
  PROVE  WakeInv'
<1> USE DEF WakeInv, NoLostWakeup, StopNoticed
<1>1. \A s : Pending(s)' = Pending(s)
  BY DEF ThreadStep, ThreadCheck, ThreadPop, ThreadPopNothing, ThreadRun,
       ThreadTake, ThreadBlock, ThreadWake, pushVars, stopVars, Pending
<1>2. waiting = {} \/ tpc = "wait"
  BY DEF TypeInv, TypeOK
<1>3. CASE ThreadCheck \/ ThreadPop \/ ThreadRun
  BY <1>1, <1>2, <1>3 DEF ThreadCheck, ThreadPop, ThreadRun, GoThread, semVars
<1>4. CASE ThreadPopNothing
  <2>1. ~HasItem'
    BY <1>4 DEF ThreadPopNothing, PopNothing, HasItem
  <2>2. QED
    BY <1>1, <1>2, <1>4, <2>1 DEF ThreadPopNothing, GoThread, semVars
<1>5. CASE ThreadTake
  BY <1>5 DEF ThreadTake, TakeToken, GoThread, TypeInv, TypeOK
<1>6. CASE ThreadBlock \/ ThreadWake
  <2>1. HasItem' = HasItem
    BY <1>6 DEF ThreadBlock, ThreadWake, rbVars, HasItem
  <2>2. QED
    BY <1>1, <1>6, <2>1 DEF ThreadBlock, ThreadWake, Block, SpuriousWake, threadVars,
         TypeInv, TypeOK
<1>7. QED
  BY <1>3, <1>4, <1>5, <1>6 DEF ThreadStep

\* A stop clears _processing before it notifies, so the notification is
\* pending for whoever sleeps on.
LEMMA WakeStop ==
  ASSUME TypeInv, WakeInv, NEW c \in Controllers,
         ReleaseMount(c) \/ Destroy(c) \/ StopStep(c)
  PROVE  WakeInv'
<1> USE DEF WakeInv, NoLostWakeup, StopNoticed
<1>0. TypeOK
  BY DEF TypeInv
<1>1. UNCHANGED ppc /\ HasItem' = HasItem
  BY DEF ReleaseMount, Destroy, StopCheck, StopStep, StopClear, StopPost, StopSignal,
       StopJoin, Release, StartCheck, StartSet, StartSpawn, pushVars, rbVars, HasItem
<1>2. CASE StopPost(c)
  <2>1. StopDebt > 0
    BY <1>0, <1>2, StopDebtMove DEF StopPost
  <2>2. value' = value + 1 /\ value' > 0
    BY <1>0, <1>2, <2>1, PostFits, DebtsNat DEF StopPost, TypeOK
  <2>3. Pending("signal")'
    BY <1>0, <1>1, <1>2, PendingStop DEF StopPost
  <2>4. QED
    BY <2>2, <2>3
<1>3. CASE StopSignal(c)
  <2>1. waiting' = {} /\ value' = value
    BY <1>0, <1>3, SignalWakes DEF StopSignal
  <2>2. Pending("post") => Pending("post")'
    BY <1>0, <1>1, <1>3, PendingStop DEF StopSignal
  <2>3. QED
    BY <1>1, <1>3, <2>1, <2>2 DEF StopSignal, threadVars
<1>4. CASE StopClear(c)
  <2>1. Pending("post")' /\ (Pending("signal") => Pending("signal")')
    BY <1>0, <1>1, <1>4, PendingStop DEF StopClear
  <2>2. QED
    BY <1>4, <2>1 DEF StopClear, semVars
<1>5. CASE \/ ReleaseMount(c) \/ Destroy(c) \/ Release(c) \/ StartCheck(c)
           \/ StartSet(c) \/ StopJoin(c) \/ StartSpawn(c)
  <2>1. PICK from \in StopPC \ {"post", "signal"}, to \in StopPC : GoStop(c, from, to)
    BY <1>5 DEF ReleaseMount, Destroy, StopCheck, Release, StartCheck, StartSet,
         StopJoin, StartSpawn, StopPC
  <2>2. (Pending("post") => Pending("post")') /\ (Pending("signal") => Pending("signal")')
    BY <1>0, <1>1, <2>1, PendingStop
  <2>3. UNCHANGED semVars /\ tpc' \in {tpc, "check"}
    BY <1>5 DEF ReleaseMount, Destroy, StopCheck, Release, StartCheck, StartSet,
         StopJoin, StartSpawn, threadVars
  <2>4. processing' = processing \/ processing'
    BY <1>5 DEF ReleaseMount, Destroy, StopCheck, Release, StartCheck, StartSet,
         StopJoin, StartSpawn
  <2>5. QED
    BY <1>1, <2>2, <2>3, <2>4 DEF semVars
<1>6. QED
  BY <1>2, <1>3, <1>4, <1>5 DEF StopStep

LEMMA WakeInvariance == Spec => []WakeInv
<1>1. Init => WakeInv
  BY DEF Init, SemInit, WakeInv, NoLostWakeup, StopNoticed
<1>2. TypeInv /\ WakeInv /\ UNCHANGED vars => WakeInv'
  <2>1. UNCHANGED vars => HasItem' = HasItem /\ \A s : Pending(s)' = Pending(s)
    BY DEF vars, rbVars, HasItem, Pending, pushVars, stopVars
  <2>2. QED
    BY <2>1 DEF vars, semVars, threadVars, WakeInv, NoLostWakeup, StopNoticed
<1>3. TypeInv /\ WakeInv /\ [Next]_vars => WakeInv'
  BY <1>2, WakePush, WakeThread, WakeStop DEF Next, Quiescent
<1>4. QED
  BY <1>1, <1>3, TypeInvInit, TypeInvNext, PTL DEF Spec

\* No wake-up is lost, however many threads push and however many stop and
\* restart the processing thread at once: push() notifies after it has left
\* the lock, and only when the buffer was empty (RingBuffer.h:47-63).
THEOREM WakeupsKept == Spec => []NoLostWakeup
<1>1. WakeInv => NoLostWakeup
  BY DEF WakeInv
<1> QED
  BY <1>1, WakeInvariance, PTL

\* No stop is missed: a processing thread that may still go to sleep after
\* _processing was cleared finds a token, or one is on its way to it, however
\* many threads push, stop and restart (FileContext.cpp:195-201, 660).
THEOREM StopsNoticed == Spec => []StopNoticed
<1>1. WakeInv => StopNoticed
  BY DEF WakeInv
<1> QED
  BY <1>1, WakeInvariance, PTL

-----------------------------------------------------------------------------
\* One client thread releases mounts and destroys the context: the test of
\* _processing and its assignment are two steps (FileContext.cpp:189, 196).
OneController == \A c, d \in Controllers : c = d

\* What _processing and the thread object are at each label of a controller
\* that runs alone.
ControlInv ==
  /\ ~aborted
  /\ \A c \in Controllers :
       /\ mpc[c] \in {"idle", "clear"} => processing /\ joinable /\ tpc # "exited"
       /\ mpc[c] \in {"post", "signal", "join"} => ~processing /\ joinable
       /\ mpc[c] \in {"release", "start", "set", "destroyed"} => ~processing /\ ~joinable
       /\ mpc[c] = "spawn" => processing /\ ~joinable

\* A step of the controller moves it from one of these situations to another.
LEMMA ControlStop ==
  ASSUME OneController, TypeInv, ControlInv, NEW c \in Controllers,
         ReleaseMount(c) \/ Destroy(c) \/ StopStep(c)
  PROVE  ControlInv'
<1> SUFFICES /\ ~aborted'
             /\ mpc'[c] \in {"idle", "clear"} => processing' /\ joinable' /\ tpc' # "exited"
             /\ mpc'[c] \in {"post", "signal", "join"} => ~processing' /\ joinable'
             /\ mpc'[c] \in {"release", "start", "set", "destroyed"}
                  => ~processing' /\ ~joinable'
             /\ mpc'[c] = "spawn" => processing' /\ ~joinable'
  BY DEF OneController, ControlInv
<1> USE DEF ControlInv
<1>1. mpc \in [Controllers -> StopPC]
  BY DEF TypeInv, TypeOK
<1>2. CASE ReleaseMount(c) \/ Destroy(c)
  BY <1>1, <1>2 DEF ReleaseMount, Destroy, StopCheck, GoStop, threadVars
<1>3. CASE StopClear(c) \/ StopPost(c) \/ StopSignal(c)
  BY <1>1, <1>3 DEF StopClear, StopPost, StopSignal, GoStop, threadVars
<1>4. CASE StopJoin(c)
  BY <1>1, <1>4 DEF StopJoin, GoStop
<1>5. CASE Release(c) \/ StartCheck(c) \/ StartSet(c)
  BY <1>1, <1>5 DEF Release, StartCheck, StartSet, GoStop, threadVars
<1>6. CASE StartSpawn(c)
  BY <1>1, <1>6 DEF StartSpawn, GoStop
<1>7. QED
  BY <1>2, <1>3, <1>4, <1>5, <1>6 DEF StopStep

\* The other threads leave the situation alone: the processing thread exits
\* only after _processing was cleared.
LEMMA ControlOthers ==
  ASSUME TypeInv, ControlInv,
         \/ \E p \in Producers : (\E v \in Values : PushCall(p, v)) \/ PushStep(p)
         \/ ThreadStep \/ ThreadWake \/ UNCHANGED vars
  PROVE  ControlInv'
<1> USE DEF ControlInv
<1>1. ASSUME NEW p \in Producers, (\E v \in Values : PushCall(p, v)) \/ PushStep(p)
      PROVE  ControlInv'
  BY <1>1 DEF PushCall, PushStep, PushSpin, PushItem, PushRetry, PushPost, PushSignal,
       threadVars, stopVars
<1>2. CASE ThreadCheck
  BY <1>2 DEF ThreadCheck, GoThread, stopVars
<1>3. CASE ThreadStep /\ ~ThreadCheck
  BY <1>3 DEF ThreadStep, ThreadPop, ThreadPopNothing, ThreadRun, ThreadTake,
       ThreadBlock, GoThread, threadVars, stopVars
<1>4. CASE ThreadWake
  BY <1>4 DEF ThreadWake, threadVars, stopVars
<1>5. CASE UNCHANGED vars
  BY <1>5 DEF vars, threadVars, stopVars
<1>6. QED
  BY <1>1, <1>2, <1>3, <1>4, <1>5

LEMMA ControlInvariance == ASSUME OneController PROVE Spec => []ControlInv
<1>1. Init => ControlInv
  BY DEF Init, ControlInv
<1>2. TypeInv /\ ControlInv /\ [Next]_vars => ControlInv'
  BY ControlStop, ControlOthers DEF Next, Quiescent
<1>3. QED
  BY <1>1, <1>2, TypeInvInit, TypeInvNext, PTL DEF Spec

\* With one controller, no processing thread runs while a mount is erased
\* or all are freed (FileContext.cpp:169-186, 271-285).
THEOREM SingleController == OneController => (Spec => []SuspendedWhileReleasing)
<1> SUFFICES ASSUME OneController PROVE Spec => []SuspendedWhileReleasing
  OBVIOUS
<1>1. TypeInv /\ ControlInv => SuspendedWhileReleasing
  BY DEF TypeInv, ControlInv, SuspendedWhileReleasing
<1>2. QED
  BY <1>1, ControlInvariance, TypeInvInit, TypeInvNext, PTL DEF Spec

\* With one controller, the thread object is never joined twice, nor assigned
\* or destroyed while its thread can still be joined, each of which would end
\* the program (FileContext.cpp:188-201).
THEOREM ThreadObjectSafe == OneController => (Spec => []NoAbort)
<1> SUFFICES ASSUME OneController PROVE Spec => []NoAbort
  OBVIOUS
<1>1. ControlInv => NoAbort
  BY DEF ControlInv, NoAbort
<1>2. QED
  BY <1>1, ControlInvariance, PTL

-----------------------------------------------------------------------------
\* Every step of the threads is a step of the ring buffer or leaves it alone.
LEMMA StepOfBuffer == TypeInv /\ [Next]_vars => [RBNext]_rbVars
<1> SUFFICES ASSUME TypeInv, [Next]_vars PROVE [RBNext]_rbVars
  OBVIOUS
<1>1. ASSUME NEW p \in Producers, PushItem(p) PROVE RBNext
  <2>1. arg[p] \in Values
    BY <1>1 DEF PushItem, GoPush, TypeInv, TypeOK
  <2>2. QED
    BY <1>1, <2>1 DEF PushItem, RBNext
<1>2. ASSUME NEW p \in Producers,
             \/ \E v \in Values : PushCall(p, v)
             \/ PushStep(p) /\ ~PushItem(p)
      PROVE  UNCHANGED rbVars
  BY <1>2 DEF PushCall, PushStep, PushSpin, PushRetry, PushPost, PushSignal
<1>3. CASE ThreadStep \/ ThreadWake
  BY <1>3 DEF ThreadStep, ThreadCheck, ThreadPop, ThreadPopNothing, ThreadRun,
       ThreadTake, ThreadBlock, ThreadWake, RBNext
<1>4. ASSUME NEW c \in Controllers, ReleaseMount(c) \/ Destroy(c) \/ StopStep(c)
      PROVE  UNCHANGED rbVars
  BY <1>4 DEF ReleaseMount, Destroy, StopCheck, StopStep, StopClear, StopPost, StopSignal,
       StopJoin, Release, StartCheck, StartSet, StartSpawn
<1>5. CASE UNCHANGED vars
  BY <1>5 DEF vars
<1>6. QED
  BY <1>1, <1>2, <1>3, <1>4, <1>5 DEF Next, Quiescent

\* What the threads do to the ring buffer is what a FIFO queue of Capacity
\* items does: with any number of producers, and through any number of stops
\* and restarts of the consumer, no item is lost, repeated or overtaken.
THEOREM HandOffIsFifo == Spec => FifoSpec
<1>1. TypeInv => RBInv
  BY DEF TypeInv, TypeOK, RBInv
<1>2. TypeInv /\ [Next]_vars => [Fifo!Next]_(Fifo!vars)
  BY <1>1, StepOfBuffer, RBStepRefines
<1>3. Init => Fifo!Init
  BY RBInitRefines DEF Init
<1>4. QED
  BY <1>2, <1>3, TypeInvInit, TypeInvNext, PTL DEF Spec, FifoSpec, Fifo!Spec

-----------------------------------------------------------------------------
(* A stop and a restart of the thread, as a client sees them.              *)

\* The thread is there from the assignment of a new thread object until
\* processingFunc() returns; "pop" is behind its test of _processing.
Suspension == INSTANCE SuspendableThread WITH
  thread   <- IF tpc = "run" THEN "busy" ELSE IF tpc = "exited" THEN "gone" ELSE "idle",
  stopping <- ~processing \/ tpc = "exited",
  spare    <- ~processing /\ tpc = "pop",
  final    <- ~processing /\ ~alive

\* Only a controller that was not the destructor starts the thread again.
RestartInv == \A c \in Controllers : mpc[c] \in {"start", "set", "spawn"} => alive

LEMMA RestartStep ==
  ASSUME OneController, TypeInv, RestartInv, [Next]_vars
  PROVE  RestartInv'
<1>1. mpc \in [Controllers -> StopPC]
  BY DEF TypeInv, TypeOK
<1>2. ASSUME NEW c \in Controllers, ReleaseMount(c) \/ Destroy(c) \/ StopStep(c)
      PROVE  RestartInv'
  <2> SUFFICES mpc'[c] \in {"start", "set", "spawn"} => alive'
    BY <1>2 DEF OneController, RestartInv
  <2>1. CASE ReleaseMount(c) \/ Destroy(c)
    BY <1>1, <2>1 DEF ReleaseMount, Destroy, StopCheck, GoStop
  <2>2. CASE StopStep(c)
    BY <1>1, <2>2 DEF StopStep, StopClear, StopPost, StopSignal, StopJoin, Release,
         StartCheck, StartSet, StartSpawn, GoStop, RestartInv
  <2>3. QED
    BY <1>2, <2>1, <2>2
<1>3. ASSUME UNCHANGED stopVars PROVE RestartInv'
  BY <1>3 DEF RestartInv, stopVars
<1>4. ASSUME NEW p \in Producers, (\E v \in Values : PushCall(p, v)) \/ PushStep(p)
      PROVE  UNCHANGED stopVars
  BY <1>4 DEF PushCall, PushStep, PushSpin, PushItem, PushRetry, PushPost, PushSignal
<1>5. CASE ThreadStep \/ ThreadWake
  BY <1>3, <1>5 DEF ThreadStep, ThreadCheck, ThreadPop, ThreadPopNothing, ThreadRun,
       ThreadTake, ThreadBlock, ThreadWake
<1>6. QED
  BY <1>2, <1>3, <1>4, <1>5 DEF Next, Quiescent, vars

\* What a controller does is a stop or a restart, or is not seen.
LEMMA ControllerSuspends ==
  ASSUME OneController, TypeInv, ControlInv, RestartInv, NEW c \in Controllers,
         ReleaseMount(c) \/ Destroy(c) \/ StopStep(c)
  PROVE  [Suspension!Next]_(Suspension!vars)
<1>1. tpc \in ThreadPC /\ processing \in BOOLEAN /\ alive \in BOOLEAN
  BY DEF TypeInv, TypeOK
<1> USE DEF ControlInv
<1>2. CASE ReleaseMount(c)
  BY <1>2 DEF ReleaseMount, StopCheck, threadVars, Suspension!vars
<1>3. CASE Destroy(c)
  BY <1>3 DEF Destroy, StopCheck, GoStop, threadVars, Suspension!vars
<1>4. CASE StopClear(c)
  <2>1. processing /\ tpc # "exited" /\ ~processing' /\ UNCHANGED <<tpc, alive>>
    BY <1>4 DEF StopClear, GoStop, threadVars
  <2>2. Suspension!Stop
    BY <1>1, <2>1 DEF Suspension!Stop
  <2>3. QED
    BY <2>2 DEF Suspension!Next
<1>5. CASE StopPost(c) \/ StopSignal(c) \/ StopJoin(c) \/ Release(c) \/ StartCheck(c)
  BY <1>5 DEF StopPost, StopSignal, StopJoin, Release, StartCheck, threadVars, Suspension!vars
<1>6. CASE StartSet(c)
  <2>1. tpc = "exited" /\ alive
    BY <1>6 DEF StartSet, GoStop, TypeInv, RestartInv
  <2>2. QED
    BY <1>6, <2>1 DEF StartSet, threadVars, Suspension!vars
<1>7. CASE StartSpawn(c)
  <2>1. processing /\ ~joinable /\ alive /\ tpc' = "check" /\ UNCHANGED <<processing, alive>>
    BY <1>7 DEF StartSpawn, GoStop, RestartInv
  <2>2. tpc = "exited"
    BY <2>1 DEF TypeInv
  <2>3. Suspension!Restart
    BY <2>1, <2>2 DEF Suspension!Restart
  <2>4. QED
    BY <2>3 DEF Suspension!Next
<1>8. QED
  BY <1>2, <1>3, <1>4, <1>5, <1>6, <1>7 DEF StopStep

\* What the processing thread does is an item begun or finished, or its end.
LEMMA ThreadSuspends ==
  ASSUME TypeInv, ThreadStep
  PROVE  [Suspension!Next]_(Suspension!vars)
<1>1. tpc \in ThreadPC /\ processing \in BOOLEAN
  BY DEF TypeInv, TypeOK
<1>2. CASE ThreadCheck
  <2>1. /\ tpc = "check" /\ tpc' = IF processing THEN "pop" ELSE "exited"
        /\ UNCHANGED <<processing, alive>>
    BY <1>2 DEF ThreadCheck, GoThread, stopVars
  <2>2. CASE processing
    BY <2>1, <2>2 DEF Suspension!vars
  <2>3. CASE ~processing
    <3>1. Suspension!Exit
      BY <2>1, <2>3 DEF Suspension!Exit
    <3>2. QED
      BY <3>1 DEF Suspension!Next
  <2>4. QED
    BY <2>2, <2>3
<1>3. CASE ThreadPop
  <2>1. tpc = "pop" /\ tpc' = "run" /\ UNCHANGED <<processing, alive>>
    BY <1>3 DEF ThreadPop, GoThread, stopVars
  <2>2. Suspension!Take
    BY <1>1, <2>1 DEF Suspension!Take
  <2>3. QED
    BY <2>2 DEF Suspension!Next
<1>4. CASE ThreadPopNothing
  <2>1. tpc = "pop" /\ tpc' = "wait" /\ UNCHANGED <<processing, alive>>
    BY <1>4 DEF ThreadPopNothing, GoThread, stopVars
  <2>2. CASE processing
    BY <2>1, <2>2 DEF Suspension!vars
  <2>3. CASE ~processing
    <3>1. Suspension!TakeNothing
      BY <2>1, <2>3 DEF Suspension!TakeNothing
    <3>2. QED
      BY <3>1 DEF Suspension!Next
  <2>4. QED
    BY <2>2, <2>3
<1>5. CASE ThreadRun
  <2>1. tpc = "run" /\ tpc' = "check" /\ UNCHANGED <<processing, alive>>
    BY <1>5 DEF ThreadRun, GoThread, stopVars
  <2>2. Suspension!Finish
    BY <1>1, <2>1 DEF Suspension!Finish
  <2>3. QED
    BY <2>2 DEF Suspension!Next
<1>6. CASE ThreadTake \/ ThreadBlock
  BY <1>6 DEF ThreadTake, ThreadBlock, GoThread, stopVars, threadVars, Suspension!vars
<1>7. QED
  BY <1>2, <1>3, <1>4, <1>5, <1>6 DEF ThreadStep

LEMMA StepOfSuspension ==
  ASSUME OneController, TypeInv, ControlInv, RestartInv, [Next]_vars
  PROVE  [Suspension!Next]_(Suspension!vars)
<1>1. ASSUME UNCHANGED <<tpc, processing, alive>> PROVE UNCHANGED Suspension!vars
  BY <1>1 DEF Suspension!vars
<1>2. ASSUME NEW p \in Producers, (\E v \in Values : PushCall(p, v)) \/ PushStep(p)
      PROVE  UNCHANGED <<tpc, processing, alive>>
  BY <1>2 DEF PushCall, PushStep, PushSpin, PushItem, PushRetry, PushPost, PushSignal,
       threadVars, stopVars
<1>3. CASE ThreadWake \/ UNCHANGED vars
  BY <1>1, <1>3 DEF ThreadWake, vars, threadVars, stopVars
<1>4. QED
  BY <1>1, <1>2, <1>3, ControllerSuspends, ThreadSuspends DEF Next, Quiescent

\* With one controller, a stopped thread finishes the item in hand and begins
\* at most one more, and a thread is started only when the one before it is
\* gone, never for a destroyed context (FileContext.cpp:176-201, 658-669).
THEOREM ThreadIsSuspendable == OneController => (Spec => Suspension!Spec)
<1> SUFFICES ASSUME OneController PROVE Spec => Suspension!Spec
  OBVIOUS
<1>1. Init => Suspension!Init
  BY DEF Init, Suspension!Init
<1>2. Init => RestartInv
  BY DEF Init, RestartInv
<1>3. TypeInv /\ RestartInv /\ [Next]_vars => RestartInv'
  BY RestartStep
<1>4. TypeInv /\ ControlInv /\ RestartInv /\ [Next]_vars
        => [Suspension!Next]_(Suspension!vars)
  BY StepOfSuspension
<1>5. QED
  BY <1>1, <1>2, <1>3, <1>4, TypeInvInit, TypeInvNext, ControlInvariance, PTL
  DEF Spec, Suspension!Spec

-----------------------------------------------------------------------------
(* Any number of controllers, in the terms of ThreadControl.               *)

\* Where the thread is, and whether it was joined; the semaphore is not seen.
ThreadPlace ==
  IF tpc = "pop" THEN "pop"
  ELSE IF tpc = "run" THEN "item"
  ELSE IF tpc # "exited" THEN "loop"
  ELSE IF joinable THEN "exited" ELSE "joined"

\* The destructor is seen when it clears _processing.
ContextLives == alive \/ \E c \in Controllers : mpc[c] = "clear"

Place(pc) ==
  IF pc = "idle" THEN "none"
  ELSE IF pc \in {"post", "signal"} THEN "join"
  ELSE IF pc = "release" THEN "erase" ELSE pc

ReleasePlace == [c \in Controllers |-> IF alive THEN Place(mpc[c]) ELSE "none"]

Control == INSTANCE ThreadControl WITH
  Clients <- Controllers,
  tpc     <- ThreadPlace,
  alive   <- ContextLives,
  rel     <- ReleasePlace

\* Who clears _processing will find it cleared or set again, an exited thread is
\* about to be replaced when it is set, and the destructor, which is alone,
\* finds a thread to join.
RunInv ==
  /\ alive => \/ processing
              \/ \E c \in Controllers :
                   mpc[c] \in {"post", "signal", "join", "release", "start", "set"}
  /\ ~aborted /\ tpc = "exited" /\ processing => \E c \in Controllers : mpc[c] = "spawn"
  /\ ~alive => \E c \in Controllers :
       /\ \A d \in Controllers \ {c} : mpc[d] = "idle"
       /\ mpc[c] \in {"clear", "post", "signal", "join", "release", "destroyed"}
       /\ mpc[c] \in {"clear", "post", "signal", "join"} => joinable

\* Steps of producers and of the processing thread.
LEMMA RunOthers ==
  ASSUME RunInv,
         \/ \E p \in Producers : (\E v \in Values : PushCall(p, v)) \/ PushStep(p)
         \/ ThreadStep \/ ThreadWake \/ UNCHANGED vars
  PROVE  RunInv'
<1>1. UNCHANGED <<processing, joinable, mpc, alive, aborted>> /\ (tpc' = "exited" /\ processing => tpc = "exited")
  <2>1. ASSUME NEW p \in Producers, (\E v \in Values : PushCall(p, v)) \/ PushStep(p)
        PROVE  UNCHANGED <<processing, joinable, mpc, alive, aborted, tpc>>
    BY <2>1 DEF PushCall, PushStep, PushSpin, PushItem, PushRetry, PushPost, PushSignal,
         threadVars, stopVars
  <2>2. CASE ThreadStep
    BY <2>2 DEF ThreadStep, ThreadCheck, ThreadPop, ThreadPopNothing, ThreadRun, ThreadTake,
         ThreadBlock, GoThread, threadVars, stopVars
  <2>3. CASE ThreadWake \/ UNCHANGED vars
    BY <2>3 DEF ThreadWake, vars, threadVars, stopVars
  <2>4. QED
    BY <2>1, <2>2, <2>3
<1>2. QED
  BY <1>1 DEF RunInv

\* A controller that destroys the context does so alone.
LEMMA RunDestroy ==
  ASSUME TypeInv, RunInv, ~aborted, ~alive, NEW c \in Controllers, StopStep(c)
  PROVE  RunInv'
<1>1. mpc \in [Controllers -> StopPC]
  BY DEF TypeInv, TypeOK
<1>2. PICK e \in Controllers :
        /\ \A d \in Controllers \ {e} : mpc[d] = "idle"
        /\ mpc[e] \in {"clear", "post", "signal", "join", "release", "destroyed"}
        /\ mpc[e] \in {"clear", "post", "signal", "join"} => joinable
  BY DEF RunInv
<1>3. mpc[c] # "idle"
  BY DEF StopStep, StopClear, StopPost, StopSignal, StopJoin, Release, StartCheck, StartSet,
       StartSpawn, GoStop
<1>4. c = e
  BY <1>2, <1>3
<1>5. ~alive'
  BY DEF StopStep, StopClear, StopPost, StopSignal, StopJoin, Release, StartCheck, StartSet, StartSpawn
<1>6. \A d \in Controllers \ {c} : mpc'[d] = "idle"
  BY <1>1, <1>2, <1>4
  DEF StopStep, StopClear, StopPost, StopSignal, StopJoin, Release, StartCheck, StartSet, StartSpawn,
      GoStop
<1>7. /\ mpc'[c] \in {"clear", "post", "signal", "join", "release", "destroyed"}
      /\ mpc'[c] \in {"clear", "post", "signal", "join"} => joinable'
  BY <1>1, <1>2, <1>4
  DEF StopStep, StopClear, StopPost, StopSignal, StopJoin, Release, StartCheck, StartSet, StartSpawn,
      GoStop, threadVars
<1>8. ~(tpc' = "exited" /\ processing')
  <2>1. mpc[c] # "set" /\ mpc[c] # "spawn" /\ ~(tpc = "exited" /\ processing)
    BY <1>2, <1>4 DEF RunInv
  <2>2. QED
    BY <2>1
    DEF StopStep, StopClear, StopPost, StopSignal, StopJoin, Release, StartCheck, StartSet, StartSpawn,
        GoStop, threadVars
<1>9. QED
  BY <1>5, <1>6, <1>7, <1>8 DEF RunInv

\* A controller of a context that lives, beside any number of others.
LEMMA RunAlive ==
  ASSUME TypeInv, RunInv, ~aborted, alive, NEW c \in Controllers,
         ReleaseMount(c) \/ Destroy(c) \/ StopStep(c)
  PROVE  RunInv'
<1>1. mpc \in [Controllers -> StopPC] /\ (~joinable => tpc = "exited")
  BY DEF TypeInv, TypeOK
<1> DEFINE Back == {"post", "signal", "join", "release", "start", "set"}
<1>2. CASE Destroy(c)
  <2>1. /\ \A d \in Controllers : mpc[d] = "idle"
        /\ mpc' = [mpc EXCEPT ![c] = IF processing THEN "clear" ELSE "release"]
        /\ UNCHANGED <<tpc, joinable, aborted, processing>> /\ ~alive'
    BY <1>2 DEF Destroy, StopCheck, GoStop, threadVars
  <2>2. processing /\ tpc # "exited"
    BY <2>1 DEF RunInv
  <2>3. mpc'[c] = "clear" /\ \A d \in Controllers \ {c} : mpc'[d] = "idle"
    BY <1>1, <2>1, <2>2
  <2>4. QED
    BY <1>1, <2>1, <2>2, <2>3 DEF RunInv
<1>3. ASSUME NEW to \in StopPC, mpc' = [mpc EXCEPT ![c] = to], alive',
             processing' \/ to \in Back \/ (~processing /\ mpc[c] \notin Back),
             ~aborted' /\ tpc' = "exited" /\ processing' =>
               to = "spawn" \/ (tpc = "exited" /\ processing /\ mpc[c] # "spawn")
      PROVE  RunInv'
  <2>1. mpc'[c] = to /\ \A d \in Controllers \ {c} : mpc'[d] = mpc[d]
    BY <1>1, <1>3
  <2>2. processing' \/ \E d \in Controllers : mpc'[d] \in Back
    BY <1>3, <2>1 DEF RunInv
  <2>3. ~aborted' /\ tpc' = "exited" /\ processing' => \E d \in Controllers : mpc'[d] = "spawn"
    BY <1>3, <2>1 DEF RunInv
  <2>4. QED
    BY <1>3, <2>2, <2>3 DEF RunInv
<1>4. CASE ReleaseMount(c)
  BY <1>3, <1>4 DEF ReleaseMount, StopCheck, GoStop, threadVars, StopPC
<1>5. CASE StopClear(c)
  BY <1>3, <1>5 DEF StopClear, GoStop, StopPC
<1>6. CASE StopPost(c)
  BY <1>3, <1>6 DEF StopPost, GoStop, threadVars, StopPC
<1>7. CASE StopSignal(c)
  BY <1>3, <1>7 DEF StopSignal, GoStop, threadVars, StopPC
<1>8. CASE StopJoin(c)
  BY <1>3, <1>8 DEF StopJoin, GoStop, StopPC
<1>9. CASE Release(c)
  BY <1>3, <1>9 DEF Release, GoStop, threadVars, StopPC
<1>10. CASE StartCheck(c)
  BY <1>3, <1>10 DEF StartCheck, GoStop, threadVars, StopPC
<1>11. CASE StartSet(c)
  BY <1>3, <1>11 DEF StartSet, GoStop, threadVars, StopPC
<1>12. CASE StartSpawn(c)
  BY <1>3, <1>12 DEF StartSpawn, GoStop, StopPC
<1>13. QED
  BY <1>2, <1>4, <1>5, <1>6, <1>7, <1>8, <1>9, <1>10, <1>11, <1>12 DEF StopStep

LEMMA RunStep == TypeInv /\ RunInv /\ [Next]_vars => RunInv'
<1> SUFFICES ASSUME TypeInv, RunInv, [Next]_vars PROVE RunInv'
  OBVIOUS
<1>1. ASSUME ~aborted, NEW c \in Controllers, ReleaseMount(c) \/ Destroy(c) \/ StopStep(c)
      PROVE  RunInv'
  <2>1. CASE alive
    BY <1>1, <2>1, RunAlive
  <2>2. CASE ~alive
    BY <1>1, <2>2, RunDestroy DEF ReleaseMount, Destroy
  <2>3. QED
    BY <2>1, <2>2
<1>2. QED
  BY <1>1, RunOthers DEF Next, Quiescent

\* Only what the mapping looks at matters.
LEMMA ControlUnseen ==
  ASSUME UNCHANGED <<ThreadPlace, processing, ContextLives, ReleasePlace, aborted>>
  PROVE  UNCHANGED <<ThreadPlace, Control!controlVars>>
BY DEF Control!controlVars

\* A step of the processing thread.
LEMMA ThreadControlled ==
  ASSUME TypeInv, ~aborted, ThreadStep
  PROVE  [Control!ControlNext]_<<ThreadPlace, Control!controlVars>>
<1>1. UNCHANGED <<processing, mpc, alive, joinable, aborted>>
  BY DEF ThreadStep, ThreadCheck, ThreadPop, ThreadPopNothing, ThreadRun, ThreadTake, ThreadBlock,
       GoThread, threadVars, stopVars
<1>2. UNCHANGED <<ContextLives, ReleasePlace>>
  BY <1>1 DEF ContextLives, ReleasePlace
<1>3. UNCHANGED Control!controlVars
  BY <1>1, <1>2 DEF Control!controlVars
<1>4. joinable \/ tpc = "exited"
  BY DEF TypeInv
<1>5. CASE ThreadCheck
  <2>1. ThreadPlace = "loop" /\ ThreadPlace' = IF processing THEN "pop" ELSE "exited"
    BY <1>1, <1>4, <1>5 DEF ThreadCheck, GoThread, ThreadPlace
  <2>2. Control!Test
    BY <1>3, <2>1 DEF Control!Test, Control!GoThread
  <2>3. QED
    BY <2>2 DEF Control!ControlNext
<1>6. CASE ThreadPop
  <2>1. ThreadPlace = "pop" /\ ThreadPlace' = "item"
    BY <1>6 DEF ThreadPop, GoThread, ThreadPlace
  <2>2. Control!BeginItem
    BY <1>3, <2>1 DEF Control!BeginItem, Control!GoThread
  <2>3. QED
    BY <2>2 DEF Control!ControlNext
<1>7. CASE ThreadPopNothing
  <2>1. ThreadPlace = "pop" /\ ThreadPlace' = "loop"
    BY <1>7 DEF ThreadPopNothing, GoThread, ThreadPlace
  <2>2. Control!PopEmpty
    BY <1>3, <2>1 DEF Control!PopEmpty, Control!GoThread
  <2>3. QED
    BY <2>2 DEF Control!ControlNext
<1>8. CASE ThreadRun
  <2>1. ThreadPlace = "item" /\ ThreadPlace' = "loop"
    BY <1>8 DEF ThreadRun, GoThread, ThreadPlace
  <2>2. Control!EndItem
    BY <1>3, <2>1 DEF Control!EndItem, Control!GoThread
  <2>3. QED
    BY <2>2 DEF Control!ControlNext
<1>9. CASE ThreadTake \/ ThreadBlock
  <2>1. ThreadPlace' = ThreadPlace
    BY <1>9, <1>1 DEF ThreadTake, ThreadBlock, GoThread, threadVars, ThreadPlace
  <2>2. QED
    BY <1>3, <2>1
<1>10. QED
  BY <1>5, <1>6, <1>7, <1>8, <1>9 DEF ThreadStep

\* A step of the destructor.
LEMMA DestructorControlled ==
  ASSUME TypeInv, RunInv, ~aborted, NEW c \in Controllers, Destroy(c) \/ (~alive /\ StopStep(c))
  PROVE  [Control!ControlNext]_<<ThreadPlace, Control!controlVars>>
<1>1. mpc \in [Controllers -> StopPC] /\ (~joinable => tpc = "exited") /\ aborted = FALSE
  BY DEF TypeInv, TypeOK
<1>2. CASE Destroy(c)
  <2>1. /\ \A d \in Controllers : mpc[d] = "idle"
        /\ mpc' = [mpc EXCEPT ![c] = IF processing THEN "clear" ELSE "release"]
        /\ UNCHANGED <<tpc, joinable, aborted, processing>> /\ alive /\ ~alive'
    BY <1>2 DEF Destroy, StopCheck, GoStop, threadVars
  <2>2. mpc'[c] = "clear"
    BY <1>1, <2>1 DEF RunInv
  <2>3. UNCHANGED <<ThreadPlace, ContextLives, ReleasePlace>>
    BY <2>1, <2>2 DEF ThreadPlace, ContextLives, ReleasePlace, Place
  <2>4. QED
    BY <2>1, <2>3, ControlUnseen
<1>3. ASSUME ~alive, StopStep(c)
      PROVE  [Control!ControlNext]_<<ThreadPlace, Control!controlVars>>
  <2>1. PICK e \in Controllers :
          /\ \A d \in Controllers \ {e} : mpc[d] = "idle"
          /\ mpc[e] \in {"clear", "post", "signal", "join", "release", "destroyed"}
          /\ mpc[e] \in {"clear", "post", "signal", "join"} => joinable
    BY <1>3 DEF RunInv
  <2>2. mpc[c] # "idle"
    BY <1>3 DEF StopStep, StopClear, StopPost, StopSignal, StopJoin, Release, StartCheck, StartSet,
         StartSpawn, GoStop
  <2>3. c = e
    BY <2>1, <2>2
  <2>4. ~alive' /\ \A d \in Controllers \ {c} : mpc[d] = "idle" /\ mpc'[d] = "idle"
    BY <1>1, <1>3, <2>1, <2>3
    DEF StopStep, StopClear, StopPost, StopSignal, StopJoin, Release, StartCheck, StartSet,
        StartSpawn, GoStop
  <2>5. UNCHANGED ReleasePlace /\ \A d \in Controllers : ReleasePlace[d] = "none"
    BY <1>3, <2>4 DEF ReleasePlace
  <2>6. (ContextLives <=> mpc[c] = "clear") /\ (ContextLives' <=> mpc'[c] = "clear")
    BY <1>3, <2>4 DEF ContextLives
  <2>7. ContextLives \in BOOLEAN /\ ContextLives' \in BOOLEAN
    BY <1>3, <2>4 DEF ContextLives
  <2>8. CASE StopClear(c)
    <3>1. /\ mpc[c] = "clear" /\ mpc'[c] = "post" /\ processing' = FALSE
          /\ UNCHANGED <<ThreadPlace, aborted>>
      BY <1>1, <2>8 DEF StopClear, GoStop, threadVars, ThreadPlace
    <3>2. Control!DestroyClear
      BY <2>5, <2>6, <2>7, <3>1 DEF Control!DestroyClear
    <3>3. QED
      BY <3>2 DEF Control!ControlNext
  <2>9. CASE StopPost(c) \/ StopSignal(c) \/ Release(c)
    <3>1. mpc[c] # "clear" /\ mpc'[c] # "clear" /\ UNCHANGED <<ThreadPlace, processing, aborted>>
      BY <1>1, <1>3, <2>9 DEF StopPost, StopSignal, Release, GoStop, threadVars, ThreadPlace
    <3>2. QED
      BY <2>5, <2>6, <2>7, <3>1, ControlUnseen
  <2>10. CASE StopJoin(c)
    <3>1. joinable /\ mpc[c] = "join" /\ mpc'[c] = "release"
      BY <1>1, <2>1, <2>3, <2>10 DEF StopJoin, GoStop
    <3>2. ThreadPlace = "exited" /\ ThreadPlace' = "joined" /\ UNCHANGED <<processing, aborted>>
      BY <1>1, <2>10, <3>1 DEF StopJoin, ThreadPlace
    <3>3. UNCHANGED ContextLives /\ ~ContextLives
      BY <2>6, <2>7, <3>1
    <3>4. Control!DestroyJoin
      BY <2>5, <3>2, <3>3 DEF Control!DestroyJoin, Control!controlVars
    <3>5. QED
      BY <3>4 DEF Control!ControlNext
  <2>11. CASE StartCheck(c) \/ StartSet(c) \/ StartSpawn(c)
    BY <2>1, <2>3, <2>11 DEF StartCheck, StartSet, StartSpawn, GoStop
  <2>12. QED
    BY <1>3, <2>8, <2>9, <2>10, <2>11 DEF StopStep
<1>4. QED
  BY <1>2, <1>3

\* A step of releaseMount().
LEMMA ReleaseControlled ==
  ASSUME TypeInv, ~aborted, alive, NEW c \in Controllers, ReleaseMount(c) \/ StopStep(c)
  PROVE  [Control!ControlNext]_<<ThreadPlace, Control!controlVars>>
<1>1. mpc \in [Controllers -> StopPC] /\ (~joinable => tpc = "exited") /\ joinable \in BOOLEAN
  BY DEF TypeInv, TypeOK
<1>2. alive'
  BY DEF ReleaseMount, StopStep, StopClear, StopPost, StopSignal, StopJoin, Release, StartCheck,
       StartSet, StartSpawn
<1>3. ContextLives = TRUE /\ ContextLives' = TRUE
  BY <1>2 DEF ContextLives
<1>4. ASSUME NEW from, NEW to, GoStop(c, from, to)
      PROVE  ReleasePlace[c] = Place(from) /\ ReleasePlace' = [ReleasePlace EXCEPT ![c] = Place(to)]
  BY <1>1, <1>2, <1>4 DEF GoStop, ReleasePlace
<1>5. CASE ReleaseMount(c)
  <2>1. /\ GoStop(c, "idle", IF processing THEN "clear" ELSE "release")
        /\ UNCHANGED <<ThreadPlace, processing, aborted>>
    BY <1>5 DEF ReleaseMount, StopCheck, threadVars, ThreadPlace
  <2>2. /\ ReleasePlace[c] = "none"
        /\ ReleasePlace' = [ReleasePlace EXCEPT ![c] = IF processing THEN "clear" ELSE "erase"]
    BY <1>4, <2>1 DEF Place
  <2>3. Control!StopCheck(c)
    BY <1>3, <2>1, <2>2 DEF Control!StopCheck, Control!GoRelease
  <2>4. QED
    BY <2>3 DEF Control!ControlNext
<1>6. CASE StopClear(c)
  <2>1. /\ GoStop(c, "clear", "post") /\ processing' = FALSE
        /\ UNCHANGED <<ThreadPlace, aborted>>
    BY <1>6 DEF StopClear, threadVars, ThreadPlace
  <2>2. ReleasePlace[c] = "clear" /\ ReleasePlace' = [ReleasePlace EXCEPT ![c] = "join"]
    BY <1>4, <2>1 DEF Place
  <2>3. Control!StopClear(c)
    BY <1>3, <2>1, <2>2 DEF Control!StopClear, Control!GoRelease
  <2>4. QED
    BY <2>3 DEF Control!ControlNext, Control!ReleaseStep
<1>7. CASE StopPost(c) \/ StopSignal(c)
  <2>1. GoStop(c, "post", "signal") \/ GoStop(c, "signal", "join")
    BY <1>7 DEF StopPost, StopSignal
  <2>2. UNCHANGED <<ThreadPlace, processing, aborted>>
    <3>1. UNCHANGED <<tpc, joinable, aborted, processing>>
      BY <1>7, Zenon DEF StopPost, StopSignal, threadVars
    <3>2. QED
      BY <3>1 DEF ThreadPlace
  <2>3. ReleasePlace[c] = "join" /\ ReleasePlace' = [ReleasePlace EXCEPT ![c] = "join"]
    BY <1>4, <2>1 DEF Place
  <2>4. UNCHANGED ReleasePlace
    BY <2>3 DEF ReleasePlace
  <2>5. QED
    BY <1>3, <2>4, <2>2, ControlUnseen
<1>8. CASE StopJoin(c)
  <2>1. GoStop(c, "join", "release") /\ processing' = processing
    BY <1>8 DEF StopJoin
  <2>2. ReleasePlace[c] = "join" /\ ReleasePlace' = [ReleasePlace EXCEPT ![c] = "erase"]
    BY <1>4, <2>1 DEF Place
  <2>3. /\ ThreadPlace \in {"exited", "joined"} /\ ThreadPlace' = "joined"
        /\ aborted' = (ThreadPlace = "joined")
    BY <1>1, <1>8 DEF StopJoin, ThreadPlace
  <2>4. Control!StopJoin(c)
    BY <1>3, <2>1, <2>2, <2>3 DEF Control!StopJoin, Control!GoRelease
  <2>5. QED
    BY <2>4 DEF Control!ControlNext, Control!ReleaseStep
<1>9. CASE Release(c)
  <2>1. GoStop(c, "release", "start") /\ UNCHANGED <<ThreadPlace, processing, aborted>>
    BY <1>9 DEF Release, threadVars, ThreadPlace
  <2>2. ReleasePlace[c] = "erase" /\ ReleasePlace' = [ReleasePlace EXCEPT ![c] = "start"]
    BY <1>4, <2>1 DEF Place
  <2>3. Control!Erase(c)
    BY <1>3, <2>1, <2>2 DEF Control!Erase, Control!GoRelease
  <2>4. QED
    BY <2>3 DEF Control!ControlNext
<1>10. CASE StartCheck(c)
  <2>1. /\ GoStop(c, "start", IF processing THEN "idle" ELSE "set")
        /\ UNCHANGED <<ThreadPlace, processing, aborted>>
    BY <1>10 DEF StartCheck, threadVars, ThreadPlace
  <2>2. /\ ReleasePlace[c] = "start"
        /\ ReleasePlace' = [ReleasePlace EXCEPT ![c] = IF processing THEN "none" ELSE "set"]
    BY <1>4, <2>1 DEF Place
  <2>3. Control!StartCheck(c)
    BY <1>3, <2>1, <2>2 DEF Control!StartCheck, Control!GoRelease
  <2>4. QED
    BY <2>3 DEF Control!ControlNext, Control!ReleaseStep
<1>11. CASE StartSet(c)
  <2>1. GoStop(c, "set", "spawn") /\ processing' = TRUE /\ UNCHANGED <<ThreadPlace, aborted>>
    BY <1>11 DEF StartSet, threadVars, ThreadPlace
  <2>2. ReleasePlace[c] = "set" /\ ReleasePlace' = [ReleasePlace EXCEPT ![c] = "spawn"]
    BY <1>4, <2>1 DEF Place
  <2>3. Control!StartSet(c)
    BY <1>3, <2>1, <2>2 DEF Control!StartSet, Control!GoRelease
  <2>4. QED
    BY <2>3 DEF Control!ControlNext, Control!ReleaseStep
<1>12. CASE StartSpawn(c)
  <2>1. GoStop(c, "spawn", "idle") /\ processing' = processing
    BY <1>12 DEF StartSpawn
  <2>2. ReleasePlace[c] = "spawn" /\ ReleasePlace' = [ReleasePlace EXCEPT ![c] = "none"]
    BY <1>4, <2>1 DEF Place
  <2>3. /\ ThreadPlace' = IF ThreadPlace = "joined" THEN "loop" ELSE ThreadPlace
        /\ aborted' = (ThreadPlace # "joined")
    BY <1>1, <1>12 DEF StartSpawn, ThreadPlace
  <2>4. Control!StartSpawn(c)
    BY <1>3, <2>1, <2>2, <2>3 DEF Control!StartSpawn, Control!GoRelease
  <2>5. QED
    BY <2>4 DEF Control!ControlNext, Control!ReleaseStep
<1>13. QED
  BY <1>5, <1>6, <1>7, <1>8, <1>9, <1>10, <1>11, <1>12 DEF StopStep

LEMMA StepControlled ==
  ASSUME TypeInv, RunInv, [Next]_vars
  PROVE  [Control!ControlNext]_<<ThreadPlace, Control!controlVars>>
<1>1. ASSUME UNCHANGED <<tpc, joinable, mpc, alive, processing, aborted>>
      PROVE  UNCHANGED <<ThreadPlace, Control!controlVars>>
  <2>1. UNCHANGED <<ThreadPlace, ContextLives, ReleasePlace>>
    BY <1>1 DEF ThreadPlace, ContextLives, ReleasePlace
  <2>2. QED
    BY <1>1, <2>1, ControlUnseen
<1>2. ASSUME NEW p \in Producers, (\E v \in Values : PushCall(p, v)) \/ PushStep(p)
      PROVE  UNCHANGED <<tpc, joinable, mpc, alive, processing, aborted>>
  BY <1>2 DEF PushCall, PushStep, PushSpin, PushItem, PushRetry, PushPost, PushSignal,
       threadVars, stopVars
<1>3. CASE ThreadWake \/ UNCHANGED vars
  BY <1>1, <1>3 DEF ThreadWake, vars, threadVars, stopVars
<1>4. ASSUME ~aborted, NEW c \in Controllers, ReleaseMount(c) \/ Destroy(c) \/ StopStep(c)
      PROVE  [Control!ControlNext]_<<ThreadPlace, Control!controlVars>>
  <2>1. CASE Destroy(c) \/ (~alive /\ StopStep(c))
    BY <1>4, <2>1, DestructorControlled
  <2>2. CASE alive /\ (ReleaseMount(c) \/ StopStep(c))
    BY <1>4, <2>2, ReleaseControlled
  <2>3. QED
    BY <1>4, <2>1, <2>2 DEF ReleaseMount
<1>5. QED
  BY <1>1, <1>2, <1>3, <1>4, ThreadControlled DEF Next, Quiescent

\* However many clients are in releaseMount() at once, the thread and the calls
\* that stop and start it behave as ThreadControl, on which WorkItems and
\* MountTable are built, says (FileContext.cpp:165-201, 269-289, 658-669).
THEOREM ThreadIsControlled == Spec => Control!ControlSpec
<1>1. Init => Control!ControlInit
  <2>1. ASSUME Init
        PROVE  /\ ThreadPlace = "loop" /\ ContextLives = TRUE /\ processing = TRUE
               /\ ReleasePlace = [c \in Controllers |-> "none"] /\ aborted = FALSE
    BY <2>1 DEF Init, ThreadPlace, ContextLives, ReleasePlace, Place
  <2>2. QED
    BY <2>1 DEF Control!ControlInit
<1>2. Init => RunInv
  BY DEF Init, RunInv
<1>3. TypeInv /\ RunInv /\ [Next]_vars
        => [Control!ControlNext]_<<ThreadPlace, Control!controlVars>>
  BY StepControlled
<1>4. QED
  BY <1>1, <1>2, <1>3, RunStep, TypeInvInit, TypeInvNext, PTL DEF Spec, Control!ControlSpec
=============================================================================
