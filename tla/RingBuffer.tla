----------------------------- MODULE RingBuffer -----------------------------
(***************************************************************************)
(* util::RingBuffer<T> (src/util/RingBuffer.h): a fixed array with a read  *)
(* position, a write position and a flag that tells a full buffer from an  *)
(* empty one.  The actions are the sections that push() and pop() execute  *)
(* under _lock; the spinning around them is in ProcessingThread.           *)
(***************************************************************************)
EXTENDS Integers, Sequences

CONSTANTS
  Capacity,   \* the capacity given to the constructor
  Values,     \* the values clients push
  Null,       \* the defaultValue processingFunc() passes to pop()
  Uninit      \* content of a slot of the freshly allocated array

ASSUME CapacityAssumption == Capacity \in Nat \ {0}
ASSUME ValuesAssumption == Null \notin Values /\ Uninit \notin Values

VARIABLES
  buffer,     \* _buffer
  readPos,    \* _readPos
  writePos,   \* _writePos
  full,       \* _full
  item        \* the value the last pop() returned to its caller

rbVars == <<buffer, readPos, writePos, full, item>>

Index == 0 .. Capacity - 1

\* Mistake: the wrap at the capacity is forgotten.
AdvanceUnwrapped(pos) == pos + 1

\* A position is incremented and wrapped when it reaches the capacity.
Advance(pos) == IF pos + 1 = Capacity THEN 0 ELSE pos + 1

\* Mistake: an empty buffer passes the test.
HasItemOrEmpty == full \/ readPos <= writePos

\* The test pop() makes before it takes an item.
HasItem == full \/ readPos # writePos

\* getCount()
Count ==
  IF full THEN Capacity
  ELSE IF readPos <= writePos THEN writePos - readPos
  ELSE Capacity - readPos + writePos

RBInit ==
  /\ buffer = [i \in Index |-> Uninit]
  /\ readPos = 0
  /\ writePos = 0
  /\ full = FALSE
  /\ item = Null

\* Mistake: the buffer is not tested again under the lock.
PushUnchecked(v) ==
  /\ buffer' = [buffer EXCEPT ![writePos] = v]
  /\ writePos' = Advance(writePos)
  /\ full' = (Advance(writePos) = readPos)
  /\ UNCHANGED <<readPos, item>>

\* push(v), the locked section when the buffer is not full.
Push(v) ==
  /\ ~full
  /\ buffer' = [buffer EXCEPT ![writePos] = v]
  /\ writePos' = Advance(writePos)
  /\ full' = (Advance(writePos) = readPos)
  /\ UNCHANGED <<readPos, item>>

\* Mistake: the full flag is not reset.
PopItemStaysFull ==
  /\ HasItem
  /\ item' = buffer[readPos]
  /\ readPos' = Advance(readPos)
  /\ UNCHANGED <<buffer, writePos, full>>

\* pop(), when there is an item.
PopItem ==
  /\ HasItem
  /\ item' = buffer[readPos]
  /\ readPos' = Advance(readPos)
  /\ full' = FALSE
  /\ UNCHANGED <<buffer, writePos>>

\* pop(), when the buffer is empty.
PopNothing ==
  /\ ~HasItem
  /\ item' = Null
  /\ UNCHANGED <<buffer, readPos, writePos, full>>

RBNext == (\E v \in Values : Push(v)) \/ PopItem \/ PopNothing

RBSpec == RBInit /\ [][RBNext]_rbVars

-----------------------------------------------------------------------------
\* Every variable has its type: positions are array indices, and a buffer
\* flagged full has met its two positions (RingBuffer.h:53-57, 71-76).
RBTypeOK ==
  /\ buffer \in [Index -> Values \cup {Uninit}]
  /\ readPos \in Index
  /\ writePos \in Index
  /\ full \in BOOLEAN
  /\ full => readPos = writePos
  /\ item \in Values \cup {Null}

\* The array index of the k-th oldest item.
SlotOf(k) ==
  IF readPos + k - 1 < Capacity THEN readPos + k - 1
                                ELSE readPos + k - 1 - Capacity

\* The items held, oldest first.
Contents == [k \in 1 .. Count |-> buffer[SlotOf(k)]]

\* No slot that was never written is among the items held, so pop() never
\* hands out uninitialised memory (RingBuffer.h:28 allocates without
\* constructing, RingBuffer.h:78 returns the slot).
HeldSlotsWritten == \A k \in 1 .. Count : buffer[SlotOf(k)] \in Values

Fifo == INSTANCE BoundedFifo WITH queue <- Contents, out <- item

\* The ring buffer is a FIFO queue of Capacity values: wrap-around, the full
\* flag and the two positions never lose, duplicate or reorder an item.
FifoSpec == Fifo!Spec
=============================================================================
