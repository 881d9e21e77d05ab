------------------------- MODULE PoolAllocatorProofs -------------------------
(***************************************************************************)
(* For every capacity and every width of a word, the bit mask implements   *)
(* the set of free slots.                                                  *)
(***************************************************************************)
EXTENDS PoolAllocator, TLAPS

\* The inductive invariant.
PoolInv == PoolTypeOK /\ PaddingClear

\* A slot number splits into a word and a bit.
LEMMA Split ==
  ASSUME NEW v \in Nat
  PROVE  /\ v \div Width \in Nat
         /\ v % Width \in Bits
         /\ v = (v \div Width) * Width + (v % Width)
BY PoolAssumption DEF Bits

\* A slot in a later word has a higher number.
LEMMA LaterWord ==
  ASSUME NEW i \in Nat, NEW j \in Nat, i < j, NEW b \in Bits, NEW c \in Bits
  PROVE  i * Width + b < j * Width + c
<1>1. (i + 1) * Width <= j * Width
  <2>1. j * Width = (i + 1) * Width + (j - (i + 1)) * Width
    BY PoolAssumption
  <2>2. (j - (i + 1)) * Width >= 0
    BY PoolAssumption
  <2>3. QED
    BY <2>1, <2>2, PoolAssumption
<1>2. QED
  BY <1>1, PoolAssumption DEF Bits

\* The split is the only one.
LEMMA Unsplit ==
  ASSUME NEW i \in Nat, NEW b \in Bits
  PROVE  /\ i * Width + b \in Nat
         /\ (i * Width + b) \div Width = i
         /\ (i * Width + b) % Width = b
<1>1. i * Width + b \in Nat
  BY PoolAssumption DEF Bits
<1> DEFINE v == i * Width + b
           j == v \div Width
           c == v % Width
<1>2. j \in Nat /\ c \in Bits /\ v = j * Width + c
  BY <1>1, Split
<1>3. ~(i < j) /\ ~(j < i)
  BY <1>2, LaterWord, PoolAssumption DEF Bits
<1>4. i = j
  BY <1>2, <1>3
<1>5. b = c
  BY <1>1, <1>2, <1>4, PoolAssumption DEF Bits
<1>6. QED
  BY <1>1, <1>4, <1>5

\* Every slot has a bit in the mask, and every bit below the capacity a slot.
LEMMA WordOfSlot ==
  ASSUME NEW v \in Slots
  PROVE  v \div Width \in Words
<1> DEFINE q == Capacity \div Width
           r == Capacity % Width
           i == v \div Width
           b == v % Width
<1>1. v \in Nat /\ Capacity \in Nat /\ v < Capacity
  BY PoolAssumption DEF Slots
<1>2. q \in Nat /\ r \in Bits /\ Capacity = q * Width + r
  BY <1>1, Split
<1>3. i \in Nat /\ b \in Bits /\ v = i * Width + b
  BY <1>1, Split
<1>4. BitmaskCount = q + (IF r # 0 THEN 1 ELSE 0)
  BY DEF BitmaskCount
<1> HIDE DEF q, r, i, b
<1>5. ~(q < i)
  BY <1>1, <1>2, <1>3, LaterWord, PoolAssumption DEF Bits
<1>6. i = q => r # 0
  BY <1>1, <1>2, <1>3, PoolAssumption DEF Bits
<1>7. i \in Words
  BY <1>2, <1>3, <1>4, <1>5, <1>6 DEF Words
<1>8. QED
  BY <1>7 DEF i

\* The free slots, seen from the mask.
LEMMA FreeSlotOfBit ==
  ASSUME PoolInv, NEW i \in Words, NEW b \in Bits
  PROVE  b \in bitmask[i] <=> i * Width + b \in FreeSlots
<1>1. i \in Nat
  BY DEF Words
<1>2. /\ i * Width + b \in Nat
      /\ (i * Width + b) \div Width = i
      /\ (i * Width + b) % Width = b
  BY <1>1, Unsplit
<1>3. b \in bitmask[i] => i * Width + b \in Slots
  BY <1>2, PoolAssumption DEF PoolInv, PaddingClear, Slots
<1>4. QED
  BY <1>2, <1>3 DEF FreeSlots

LEMMA BitOfFreeSlot ==
  ASSUME NEW v \in Slots
  PROVE  /\ v \div Width \in Words /\ v % Width \in Bits
         /\ v = (v \div Width) * Width + (v % Width)
         /\ v \in FreeSlots <=> v % Width \in bitmask[v \div Width]
BY WordOfSlot, Split DEF Slots, FreeSlots

\* The constructor sets the bits of the slots and no others.
LEMMA PoolInvInit == PoolInit => PoolInv /\ FreeSlots = Slots
<1> SUFFICES ASSUME PoolInit PROVE PoolInv /\ FreeSlots = Slots
  OBVIOUS
<1> DEFINE q == Capacity \div Width
           r == Capacity % Width
<1>1. q \in Nat /\ r \in Bits /\ Capacity = q * Width + r
  BY Split, PoolAssumption
<1>2. Words \subseteq Nat
  BY DEF Words
<1>3. \A i \in Words : bitmask[i] = IF i < q THEN Bits ELSE 0 .. r - 1
  BY DEF PoolInit, InitialBits
<1>4. BitmaskCount = q + (IF r # 0 THEN 1 ELSE 0)
  BY DEF BitmaskCount
<1> HIDE DEF q, r
<1>5. PoolTypeOK
  <2>1. 0 .. r - 1 \subseteq Bits
    BY <1>1, PoolAssumption DEF Bits
  <2>2. QED
    BY <1>3, <2>1 DEF PoolInit, PoolTypeOK
<1>6. PaddingClear
  <2> SUFFICES ASSUME NEW i \in Words, NEW b \in bitmask[i]
               PROVE  i * Width + b < Capacity
    BY DEF PaddingClear
  <2>1. CASE i < q
    <3>1. i * Width + b < q * Width + 0
      BY <1>1, <1>2, <1>3, <2>1, LaterWord, PoolAssumption DEF Bits
    <3>2. QED
      BY <1>1, <1>2, <1>3, <2>1, <3>1, PoolAssumption DEF Bits
  <2>2. CASE ~(i < q)
    <3>1. b \in 0 .. r - 1
      BY <1>3, <2>2
    <3>2. r # 0
      BY <1>1, <3>1
    <3>3. i = q
      BY <1>1, <1>2, <1>4, <2>2, <3>2 DEF Words
    <3>4. QED
      BY <1>1, <3>1, <3>3, PoolAssumption DEF Bits
  <2>3. QED
    BY <2>1, <2>2
<1>7. ASSUME NEW v \in Slots PROVE v \in FreeSlots
  <2> DEFINE i == v \div Width
             b == v % Width
  <2>1. i \in Words /\ b \in Bits /\ v = i * Width + b /\ (v \in FreeSlots <=> b \in bitmask[i])
    BY BitOfFreeSlot
  <2>2. v < Capacity
    BY PoolAssumption DEF Slots
  <2> HIDE DEF i, b
  <2>3. CASE i < q
    BY <1>3, <2>1, <2>3
  <2>4. CASE ~(i < q)
    <3>1. i = q
      BY <1>1, <1>2, <1>4, <2>1, <2>4 DEF Words
    <3>2. b < r
      BY <1>1, <2>1, <2>2, <3>1, PoolAssumption DEF Bits
    <3>3. b \in 0 .. r - 1
      BY <1>1, <2>1, <3>2, PoolAssumption DEF Bits
    <3>4. QED
      BY <1>3, <2>1, <2>4, <3>3
  <2>5. QED
    BY <2>3, <2>4
<1>8. QED
  BY <1>5, <1>6, <1>7 DEF PoolInv, FreeSlots

-----------------------------------------------------------------------------
(* Steps.                                                                  *)

\* Taking a slot out of the mask keeps the invariant.
LEMMA AllocKeepsInv ==
  ASSUME PoolInv, Alloc
  PROVE  PoolInv'
<1>1. PICK i \in Words, b \in Bits :
        /\ b \in bitmask[i]
        /\ result' = i * Width + b
        /\ bitmask' = [bitmask EXCEPT ![i] = @ \ {b}]
  BY DEF Alloc, PoolInv, PoolTypeOK
<1>2. i \in Nat /\ b \in Bits
  BY DEF Words, PoolInv, PoolTypeOK
<1>3. i * Width + b \in Slots
  BY <1>1, <1>2, FreeSlotOfBit DEF FreeSlots
<1>4. \A j \in Words : bitmask'[j] \subseteq bitmask[j]
  BY <1>1 DEF PoolInv, PoolTypeOK
<1>5. bitmask' \in [Words -> SUBSET Bits]
  BY <1>1, <1>2 DEF PoolInv, PoolTypeOK
<1>6. QED
  BY <1>1, <1>3, <1>4, <1>5 DEF PoolInv, PoolTypeOK, PaddingClear

\* Allocation takes the lowest free slot, and only that one.
LEMMA AllocRefines ==
  ASSUME PoolInv, Alloc
  PROVE  Pool!Alloc
<1>1. PICK i \in Words, b \in Bits :
        /\ b \in bitmask[i]
        /\ \A j \in 0 .. i - 1 : bitmask[j] = {}
        /\ \A c \in bitmask[i] : b <= c
        /\ result' = i * Width + b
        /\ bitmask' = [bitmask EXCEPT ![i] = @ \ {b}]
  BY DEF Alloc, PoolInv, PoolTypeOK
<1>2. i \in Nat /\ b \in Bits
  BY DEF Words, PoolInv, PoolTypeOK
<1> DEFINE s == i * Width + b
<1>3. s \in FreeSlots
  BY <1>1, <1>2, FreeSlotOfBit
<1>4. s \in Slots /\ s \div Width = i /\ s % Width = b
  BY <1>2, <1>3, Unsplit DEF FreeSlots
<1>5. ASSUME NEW t \in FreeSlots PROVE s <= t
  <2> DEFINE j == t \div Width
             c == t % Width
  <2>1. j \in Words /\ c \in Bits /\ t = j * Width + c /\ c \in bitmask[j]
    BY BitOfFreeSlot DEF FreeSlots
  <2> HIDE DEF j, c
  <2>2. j \in Nat
    BY <2>1 DEF Words
  <2>3. ~(j < i)
    BY <1>1, <1>2, <2>1, <2>2
  <2>4. CASE i < j
    BY <1>2, <2>1, <2>2, <2>4, LaterWord, PoolAssumption DEF Bits
  <2>5. CASE i = j
    BY <1>1, <1>2, <2>1, <2>5, PoolAssumption DEF Bits
  <2>6. QED
    BY <1>2, <2>2, <2>3, <2>4, <2>5
<1>6. FreeSlots' = FreeSlots \ {s}
  <2> SUFFICES ASSUME NEW t \in Slots
               PROVE  t % Width \in bitmask'[t \div Width]
                        <=> t % Width \in bitmask[t \div Width] /\ t # s
    BY DEF FreeSlots
  <2> DEFINE j == t \div Width
             c == t % Width
  <2>1. j \in Words /\ c \in Bits /\ t = j * Width + c
    BY BitOfFreeSlot
  <2>2. t = s <=> j = i /\ c = b
    BY <1>4, <2>1
  <2> HIDE DEF j, c, s
  <2>3. bitmask'[j] = IF j = i THEN bitmask[i] \ {b} ELSE bitmask[j]
    BY <1>1, <2>1 DEF PoolInv, PoolTypeOK
  <2>4. c \in bitmask'[j] <=> c \in bitmask[j] /\ t # s
    BY <2>2, <2>3
  <2>5. QED
    BY <2>4 DEF j, c
<1>7. QED
  BY <1>1, <1>3, <1>5, <1>6 DEF Pool!Alloc

\* When no word has a bit, no slot is free.
LEMMA AllocNothingRefines ==
  ASSUME PoolInv, AllocNothing
  PROVE  PoolInv' /\ Pool!AllocNothing
<1>1. FreeSlots = {}
  BY BitOfFreeSlot DEF AllocNothing, FreeSlots
<1>2. QED
  BY <1>1 DEF AllocNothing, Pool!AllocNothing, PoolInv, PoolTypeOK, PaddingClear, FreeSlots

\* A returned slot becomes free, and only that one.
LEMMA FreeRefines ==
  ASSUME PoolInv, NEW v \in Slots, Free(v)
  PROVE  PoolInv' /\ Pool!Free(v)
<1> DEFINE i == v \div Width
           b == v % Width
<1>1. i \in Words /\ b \in Bits /\ v = i * Width + b
  BY BitOfFreeSlot
<1>2. bitmask' = [bitmask EXCEPT ![i] = @ \cup {b}] /\ result' = result
  BY DEF Free
<1> HIDE DEF i, b
<1>3. \A j \in Words : bitmask'[j] = IF j = i THEN bitmask[i] \cup {b} ELSE bitmask[j]
  BY <1>1, <1>2 DEF PoolInv, PoolTypeOK
<1>4. bitmask' \in [Words -> SUBSET Bits]
  BY <1>1, <1>2 DEF PoolInv, PoolTypeOK
<1>5. i * Width + b < Capacity
  BY <1>1, PoolAssumption DEF Slots
<1>6. PoolInv'
  BY <1>2, <1>3, <1>4, <1>5 DEF PoolInv, PoolTypeOK, PaddingClear
<1>7. FreeSlots' = FreeSlots \cup {v}
  <2> SUFFICES ASSUME NEW t \in Slots
               PROVE  t % Width \in bitmask'[t \div Width]
                        <=> t % Width \in bitmask[t \div Width] \/ t = v
    BY DEF FreeSlots
  <2> DEFINE j == t \div Width
             c == t % Width
  <2>1. j \in Words /\ c \in Bits /\ t = j * Width + c
    BY BitOfFreeSlot
  <2>2. t = v <=> j = i /\ c = b
    BY <1>1, <2>1 DEF i, b
  <2> HIDE DEF j, c
  <2>3. c \in bitmask'[j] <=> c \in bitmask[j] \/ t = v
    BY <1>3, <2>1, <2>2
  <2>4. QED
    BY <2>3 DEF j, c
<1>8. QED
  BY <1>2, <1>6, <1>7 DEF Pool!Free

\* Every step of the allocator is a step of the set of free slots.
LEMMA PoolStep ==
  ASSUME PoolInv, [PoolNext]_poolVars
  PROVE  PoolInv' /\ [Pool!Next]_(Pool!vars)
<1>1. CASE Alloc
  BY <1>1, AllocKeepsInv, AllocRefines DEF Pool!Next
<1>2. CASE AllocNothing
  BY <1>2, AllocNothingRefines DEF Pool!Next
<1>3. ASSUME NEW v \in Slots \cup {None}, Free(v)
      PROVE  PoolInv' /\ [Pool!Next]_(Pool!vars)
  <2>1. v \in Slots
    BY <1>3 DEF Free
  <2>2. QED
    BY <1>3, <2>1, FreeRefines DEF Pool!Next
<1>4. CASE UNCHANGED poolVars
  BY <1>4 DEF poolVars, PoolInv, PoolTypeOK, PaddingClear, Pool!vars, FreeSlots
<1>5. QED
  BY <1>1, <1>2, <1>3, <1>4 DEF PoolNext

-----------------------------------------------------------------------------
LEMMA PoolInvariance == PoolSpec => []PoolInv
<1>1. PoolInit => PoolInv
  BY PoolInvInit
<1>2. PoolInv /\ [PoolNext]_poolVars => PoolInv'
  BY PoolStep
<1>3. QED
  BY <1>1, <1>2, PTL DEF PoolSpec

\* For every capacity and word width, alloc() returns a slot of the storage or
\* nothing, never an address behind it (PoolAllocator.h:58-80).
THEOREM PoolTypesCorrect == PoolSpec => []PoolTypeOK
<1>1. PoolInv => PoolTypeOK
  BY DEF PoolInv
<1>2. QED
  BY <1>1, PoolInvariance, PTL

\* For every capacity and word width, the padding bits of the last word never
\* become 1 (PoolAllocator.h:42-48, 58-96).
THEOREM PaddingStaysClear == PoolSpec => []PaddingClear
<1>1. PoolInv => PaddingClear
  BY DEF PoolInv
<1>2. QED
  BY <1>1, PoolInvariance, PTL

\* The bit mask in words implements the set of free slots: alloc() hands out
\* the lowest free slot and free() returns exactly its own
\* (PoolAllocator.h:58-96).
THEOREM PoolAllocatorIsSet == PoolSpec => PoolIsSet
<1>1. PoolInit => PoolInv /\ Pool!Init
  BY PoolInvInit DEF Pool!Init, PoolInit
<1>2. PoolInv /\ [PoolNext]_poolVars => PoolInv' /\ [Pool!Next]_(Pool!vars)
  BY PoolStep
<1>3. QED
  BY <1>1, <1>2, PTL DEF PoolSpec, PoolIsSet, Pool!Spec
=============================================================================
