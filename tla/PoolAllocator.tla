---------------------------- MODULE PoolAllocator ----------------------------
(***************************************************************************)
(* util::PoolAllocator<T> (src/util/PoolAllocator.h): an array of slots    *)
(* and a bit mask of the free ones, kept in words.  A word is the set of   *)
(* its bits that are 1; an action is a section executed under _mutex.      *)
(***************************************************************************)
EXTENDS Integers

CONSTANTS
  Capacity,   \* the number of slots
  Width,      \* bits in a word of the mask, 32 in the code
  None        \* nullptr

ASSUME PoolAssumption ==
  Capacity \in Nat \ {0} /\ Width \in Nat \ {0} /\ None \notin Int

VARIABLES
  bitmask,   \* _bitmask
  result     \* what the last alloc() returned

poolVars == <<bitmask, result>>

Slots == 0 .. Capacity - 1
Bits == 0 .. Width - 1

\* _bitmaskCount
BitmaskCount == Capacity \div Width + (IF Capacity % Width # 0 THEN 1 ELSE 0)
Words == 0 .. BitmaskCount - 1

\* Mistake: every word is filled, the last one too.
InitialBitsFull(i) == Bits

\* The constructor sets whole words, then the bits left over.
InitialBits(i) == IF i < Capacity \div Width THEN Bits ELSE 0 .. (Capacity % Width) - 1

PoolInit == bitmask = [i \in Words |-> InitialBits(i)] /\ result = None

\* Mistake: the bit is counted from one, as ffs() does.
AllocFromOne ==
  \E i \in Words :
    \E b \in bitmask[i] :
      /\ \A j \in 0 .. i - 1 : bitmask[j] = {}
      /\ \A c \in bitmask[i] : b <= c
      /\ result' = i * Width + b + 1
      /\ bitmask' = [bitmask EXCEPT ![i] = @ \ {b}]

\* Mistake: the words are searched from the last one.
AllocLast ==
  \E i \in Words :
    \E b \in bitmask[i] :
      /\ \A j \in i + 1 .. BitmaskCount - 1 : bitmask[j] = {}
      /\ \A c \in bitmask[i] : b <= c
      /\ result' = i * Width + b
      /\ bitmask' = [bitmask EXCEPT ![i] = @ \ {b}]

\* alloc(): the lowest bit of the first word that has one.
Alloc ==
  \E i \in Words :
    \E b \in bitmask[i] :
      /\ \A j \in 0 .. i - 1 : bitmask[j] = {}
      /\ \A c \in bitmask[i] : b <= c
      /\ result' = i * Width + b
      /\ bitmask' = [bitmask EXCEPT ![i] = @ \ {b}]

\* alloc(), when no word has a bit.
AllocNothing ==
  /\ \A i \in Words : bitmask[i] = {}
  /\ result' = None
  /\ UNCHANGED bitmask

\* free(v): a pointer to no slot of the storage is ignored.
Free(v) ==
  /\ v \in Slots
  /\ bitmask' = [bitmask EXCEPT ![v \div Width] = @ \cup {v % Width}]
  /\ UNCHANGED result

PoolNext == Alloc \/ AllocNothing \/ \E v \in Slots \cup {None} : Free(v)

PoolSpec == PoolInit /\ [][PoolNext]_poolVars
-----------------------------------------------------------------------------
\* The words hold bits, and alloc() returns a slot or nothing.
PoolTypeOK ==
  /\ bitmask \in [Words -> SUBSET Bits]
  /\ result \in Slots \cup {None}

\* The bits of the last word beyond the capacity stay 0, so no allocation
\* returns an address behind the storage (PoolAllocator.h:42-48, 70-71).
PaddingClear == \A i \in Words : \A b \in bitmask[i] : i * Width + b < Capacity

FreeSlots == {v \in Slots : v % Width \in bitmask[v \div Width]}

Pool == INSTANCE SlotPool WITH free <- FreeSlots

\* The bit mask is the set of free slots: alloc() returns the lowest and takes
\* exactly it out, free() puts exactly its slot back.
PoolIsSet == Pool!Spec
=============================================================================
