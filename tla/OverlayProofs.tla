---------------------------- MODULE OverlayProofs ----------------------------
(***************************************************************************)
(* For every set of devices and paths, every content and every width of a  *)
(* size: the trees stay trees whatever is done to them, and what reads,    *)
(* writes and deletions report is what they did.                           *)
(***************************************************************************)
EXTENDS Overlay, FiniteSetTheorems, SequenceTheorems, WellFoundedInduction, TLAPS

Entries == [kind : {"none", "dir", "file"}, data : Seq(Bytes)]

\* An entry holds data only as a file, and not more than an off_t can measure.
Sound(e) ==
  /\ e \in Entries
  /\ e.kind # "file" => e.data = <<>>
  /\ Len(e.data) <= LargestFile

\* The entries of a device form trees.
DiskInv ==
  /\ disk \in [Devices -> [Paths -> Entries]]
  /\ \A d \in Devices, p \in Paths :
       /\ Sound(disk[d][p])
       /\ Len(p) > 1 /\ disk[d][p].kind # "none" => disk[d][Front(p)].kind = "dir"

ReadStages ==
  {"READ", "seek_end", "seek_set", "alloc", "read", "measure", "set_pointer", "read_file"}
WriteStages == {"WRITE", "seek_write", "write", "set_write_pointer", "write_file"}
Stages == ReadStages \cup WriteStages \cup
          {"EXISTS", "SIZE", "DELETE", "CREATE_DIR", "DELETE_DIR", "remove"}

Codes == {"OK", "NOT_FOUND", "GENERIC_ERROR", "PERMISSIONS_ERROR", "OUT_OF_SPACE",
          "UNSUPPORTED", "ALREADY_EXISTS"}

\* The parameters of the item at hand.
ItemOf(i) ==
  /\ i.op \in Operations /\ i.path \in Paths
  /\ i.op = "READ" => i.offset \in Sizes /\ i.max \in Sizes /\ i.terminate \in BOOLEAN
  /\ i.op = "WRITE" =>
       /\ i.mode \in {"TRUNCATE", "APPEND", "SEGMENT"}
       /\ i.offset \in Sizes /\ i.data \in Seq(Bytes)
       /\ i.mode # "SEGMENT" => i.offset = 0

\* Where the thread may be, and the types of what the functions keep.
ControlInv ==
  /\ platform \in Platforms /\ mounted \subseteq Devices
  /\ tpc \in {"idle", "item", "finish"} /\ changed \in BOOLEAN
  /\ dpc \in Stages \cup {"none", "returned"}
  /\ tpc = "item" <=> dpc # "none"
  /\ IF tpc = "idle" THEN item = NoItem ELSE ItemOf(item)
  /\ dpc \in ReadStages => item.op = "READ"
  /\ dpc \in WriteStages => item.op = "WRITE"
  /\ dpc = "remove" => item.op = "DELETE_DIR"
  /\ dpc \in {"EXISTS", "SIZE", "DELETE", "CREATE_DIR", "DELETE_DIR"} => item.op = dpc
  /\ dev \in Devices \cup {Null}
  /\ dpc \in Stages => dev \in Devices
  /\ tpc # "idle" /\ item.op \in ReadOps /\ dev = Null =>
       mounted = {} /\ result = "NOT_FOUND"
  /\ size \in Sizes /\ pos \in Nat /\ buffer \in Sizes \cup {Null}
  /\ data \in Seq(Bytes) /\ bytes \in Nat
  /\ result \in Codes \cup {Null}

\* The file or directory that the function has open stays there.
OpenInv ==
  /\ dpc \in {"seek_end", "seek_set", "alloc", "read"} => Entry.kind # "none"
  /\ dpc \in {"measure", "set_pointer", "read_file"} \cup (WriteStages \ {"WRITE"})
       => Entry.kind = "file"

Ended == dpc \in {"returned", "none"}

\* A newer device, or the one that was asked and knows nothing of the file.
PassedOver(d) == d > dev \/ (d = dev /\ Ended /\ result = "NOT_FOUND")

\* The devices a read operation has passed over so far.
SearchInv ==
  tpc # "idle" =>
    /\ tpc = "finish" /\ item.op \in ReadOps /\ result = "NOT_FOUND" =>
         \A d \in mounted : dev <= d
    /\ ~changed /\ item.op = "SIZE" =>
         \A d \in mounted : PassedOver(d) => disk[d][item.path].kind = "none"
    /\ ~changed /\ item.op = "READ" /\ platform = "posix" =>
         \A d \in mounted : PassedOver(d) => disk[d][item.path].data = <<>>

\* The buffer and what is in it, at each stage of a read.
BufferInv ==
  tpc # "idle" /\ item.op = "READ" =>
    /\ ~Ended => bytes = 0 /\ data = <<>>
    /\ dpc \notin {"read", "read_file"} /\ ~Ended => buffer = Null
    /\ dpc \in {"read", "read_file"} => buffer = Room
    /\ Ended =>
         /\ result = "OK" /\ buffer # Null => bytes = Len(data)
         /\ ~(result = "OK" /\ buffer # Null) => buffer = Null /\ bytes = 0 /\ data = <<>>
         /\ result = "OK" /\ buffer # Null
            /\ (platform = "windows" /\ item.terminate => size # 2 ^ Width - 1) =>
              bytes + (IF item.terminate THEN 1 ELSE 0) <= buffer

\* The part of a file of the given contents that item i asks for: its size,
\* where it begins, and what is in it.
PartSize(i, content) == Least((Len(content) - i.offset) % (2 ^ Width), i.max)
PartBegin(i, content) == IF i.offset < 2 ^ (Width - 1) THEN i.offset ELSE Len(content)
PartRead(i, content) ==
  SubSeq(content, i.offset + 1, Least(i.offset + i.max, Len(content)))

\* The first bytes of a part, one at least when the part has one, and on
\* Windows all of them.
Got(read, part) ==
  /\ IsPrefix(read, part)
  /\ read = <<>> => part = <<>>
  /\ platform = "windows" => read = part

\* What is read, at each stage of a read of a file nobody else changes.
PartInv ==
  tpc # "idle" /\ item.op = "READ" /\ ~changed =>
    /\ dpc \in {"seek_set", "set_pointer"} /\ Entry.kind = "file" => size = Len(Entry.data)
    /\ dpc = "seek_set" /\ Entry.kind = "file" => pos = Len(Entry.data)
    /\ dpc \in {"alloc", "read", "read_file"} /\ Entry.kind = "file" =>
         size = PartSize(item, Entry.data) /\ pos = PartBegin(item, Entry.data)
    /\ Ended /\ result = "OK" /\ buffer # Null
       /\ (platform = "windows" => data # <<>> /\ size < 2 ^ DwordWidth) =>
         Got(data, PartRead(item, Entry.data))

\* The tree at and below the path of the item is as it was.
Untouched == \A q \in Paths : IsPrefix(item.path, q) => disk[dev][q] = before[q]

WriteDone ==
  LET old == before[item.path]
      written == SubSeq(item.data, 1, bytes)
  IN  IF result = "OK"
      THEN Entry = File(CASE item.mode = "TRUNCATE" -> written
                          [] item.mode = "APPEND" -> old.data \o written
                          [] item.mode = "SEGMENT" -> Overwritten(old.data, item.offset, bytes))
      ELSE \/ Entry = old
           \/ Entry = File(<<>>) /\ (item.mode = "TRUNCATE" \/ old = Absent)

\* What a write has done, at each stage of it, to a file nobody else changes.
WriteInv ==
  tpc # "idle" /\ item.op = "WRITE" /\ dev # Null /\ ~changed =>
    /\ Sound(before[item.path])
    /\ dpc = "WRITE" => Entry = before[item.path]
    /\ dpc \in WriteStages \ {"WRITE"} =>
         /\ before[item.path].kind # "dir"
         /\ Entry = File(IF Truncates THEN <<>> ELSE before[item.path].data)
    /\ dpc = "write" => pos = item.offset
    /\ dpc = "write_file" =>
         pos = CASE item.mode = "TRUNCATE" -> 0
                 [] item.mode = "APPEND" -> Len(Entry.data)
                 [] item.mode = "SEGMENT" -> item.offset
    /\ Ended => WriteDone

DeleteDirDone ==
  LET gone == Subtree(dev, item.path) = {}
  IN  CASE result = "OK" -> gone \/ Untouched
        [] result = "NOT_FOUND" -> gone
        [] OTHER -> ~gone \/ Untouched

\* What deleteDir() has done, at each stage of it.
DeleteInv ==
  tpc # "idle" /\ item.op = "DELETE_DIR" /\ dev # Null /\ ~changed =>
    /\ dpc = "DELETE_DIR" => Untouched
    /\ dpc = "remove" => Entry.kind # "none"
    /\ Ended => DeleteDirDone

\* Between two items nothing is kept.
IdleInv == tpc = "idle" => buffer = Null /\ data = <<>> /\ ~changed

IInv ==
  /\ DiskInv /\ ControlInv /\ OpenInv /\ IdleInv
  /\ SearchInv /\ BufferInv /\ PartInv /\ WriteInv /\ DeleteInv

-----------------------------------------------------------------------------
(* Facts about the largest of some devices and about paths.                *)

\* A finite set of numbers that is not empty has a largest one.
LEMMA MaxFacts ==
  ASSUME NEW S \in SUBSET Nat, IsFiniteSet(S), S # {}
  PROVE  Max(S) \in S /\ \A y \in S : y <= Max(S)
<1> DEFINE HasMax(T) == \E x \in T : \A y \in T : x >= y
           Bad == {T \in SUBSET S : T # {} /\ ~HasMax(T)}
           sizes == {Cardinality(T) : T \in Bad}
           R == OpToRel(<, Nat)
<1>1. \A T \in SUBSET S : IsFiniteSet(T) /\ Cardinality(T) \in Nat
  BY FS_Subset, FS_CardinalityType
<1>2. ASSUME sizes # {} PROVE FALSE
  <2>1. sizes \subseteq Nat
    BY <1>1
  <2>2. PICK n \in sizes : \A m \in sizes : ~(<<m, n>> \in R)
    <3> HIDE DEF sizes, R
    <3> QED
      BY <1>2, <2>1, WFMin, NatLessThanWellFounded DEF R
  <2>3. PICK T \in Bad : n = Cardinality(T)
    BY <2>2
  <2>4. PICK x \in T : TRUE
    BY <2>3
  <2>5. Cardinality(T \ {x}) = n - 1 /\ n \in Nat /\ n - 1 \in Nat
    <3>1. IsFiniteSet(T) /\ n \in Nat /\ Cardinality(T \ {x}) \in Nat
      BY <1>1, <2>3
    <3>2. Cardinality(T \ {x}) = Cardinality(T) - 1
      BY <2>4, <3>1, FS_RemoveElement
    <3>3. QED
      BY <2>3, <3>1, <3>2
  <2>6. T \ {x} \notin Bad
    <3>1. ASSUME T \ {x} \in Bad PROVE FALSE
      <4>1. n - 1 \in sizes
        BY <2>5, <3>1
      <4>2. <<n - 1, n>> \in R
        BY <2>5 DEF OpToRel
      <4>3. QED
        BY <2>2, <4>1, <4>2
    <3>2. QED
      BY <3>1
  <2>7. CASE T \ {x} = {}
    <3>1. HasMax(T)
      BY <2>3, <2>4, <2>7
    <3>2. QED
      BY <2>3, <3>1
  <2>8. CASE T \ {x} # {}
    <3>1. PICK y \in T \ {x} : \A z \in T \ {x} : y >= z
      BY <2>3, <2>6, <2>8
    <3>2. HasMax(T)
      <4>1. T \subseteq Nat
        BY <2>3
      <4>2. CASE x >= y
        BY <2>4, <3>1, <4>1, <4>2
      <4>3. CASE ~(x >= y)
        BY <2>4, <3>1, <4>1, <4>3
      <4>4. QED
        BY <4>2, <4>3
    <3>3. QED
      BY <2>3, <3>2
  <2>9. QED
    BY <2>7, <2>8
<1>3. HasMax(S)
  BY <1>2
<1>4. QED
  BY <1>3 DEF Max

\* A path is below its parent; and what is above it and not itself is above
\* its parent.
LEMMA PathFacts ==
  ASSUME NEW p \in Paths, NEW q \in Paths
  PROVE  /\ Len(p) \in Nat /\ Len(p) >= 1 /\ IsPrefix(p, p)
         /\ Len(q) > 1 => /\ Front(q) \in Paths /\ Len(Front(q)) = Len(q) - 1
                          /\ Front(q) # q /\ IsPrefix(Front(q), q)
         /\ IsPrefix(p, q) /\ p # q => Len(q) > 1 /\ IsPrefix(p, Front(q))
<1> USE DeviceAssumption
<1>1. p \in Seq(STRING) /\ q \in Seq(STRING) /\ p # <<>> /\ q # <<>>
  OBVIOUS
<1>2. Len(p) \in Nat /\ Len(p) >= 1 /\ Len(q) \in Nat /\ Len(q) >= 1
  BY <1>1, EmptySeq
<1>3. IsPrefix(p, p)
  BY <1>2 DEF IsPrefix
<1>4. ASSUME Len(q) > 1
      PROVE  /\ Front(q) \in Paths /\ Len(Front(q)) = Len(q) - 1
             /\ Front(q) # q /\ IsPrefix(Front(q), q)
  <2>1. Front(q) \in Paths
    BY <1>4
  <2>2. Len(Front(q)) = Len(q) - 1 /\ \A i \in 1 .. Len(q) - 1 : Front(q)[i] = q[i]
    BY <1>1, <1>2, <1>4 DEF Front
  <2>3. SubSeq(Front(q), 1, Len(q) - 1) = SubSeq(q, 1, Len(q) - 1)
    BY <1>1, <1>2, <1>4, <2>1, <2>2, SubSeqFull DEF Front
  <2>4. QED
    BY <1>2, <2>1, <2>2, <2>3 DEF IsPrefix
<1>5. ASSUME IsPrefix(p, q), p # q
      PROVE  Len(q) > 1 /\ IsPrefix(p, Front(q))
  <2>1. Len(p) <= Len(q) /\ SubSeq(p, 1, Len(p)) = SubSeq(q, 1, Len(p))
    BY <1>5 DEF IsPrefix
  <2>2. SubSeq(p, 1, Len(p)) = p /\ SubSeq(q, 1, Len(q)) = q
    BY <1>1, SubSeqFull
  <2>3. Len(p) < Len(q)
    BY <1>2, <1>5, <2>1, <2>2
  <2>4. Len(Front(q)) = Len(q) - 1 /\ \A i \in 1 .. Len(q) - 1 : Front(q)[i] = q[i]
    BY <1>1, <1>2, <2>3 DEF Front
  <2>5. SubSeq(Front(q), 1, Len(p)) = SubSeq(q, 1, Len(p))
    <3>1. Front(q) \in Seq(STRING)
      BY <1>1, <1>4, <2>3, <1>2
    <3>2. \A i \in 1 .. Len(p) : Front(q)[i] = q[i]
      BY <1>2, <2>3, <2>4
    <3> DEFINE a == SubSeq(Front(q), 1, Len(p))
               b == SubSeq(q, 1, Len(p))
    <3>3. /\ a \in Seq(STRING) /\ Len(a) = Len(p)
          /\ \A i \in 1 .. Len(p) : a[i] = Front(q)[i]
      BY <1>2, <2>3, <2>4, <3>1
    <3>4. /\ b \in Seq(STRING) /\ Len(b) = Len(p)
          /\ \A i \in 1 .. Len(p) : b[i] = q[i]
      BY <1>1, <1>2, <2>3
    <3> HIDE DEF a, b
    <3>5. a = b
      BY <3>2, <3>3, <3>4, SeqEqual
    <3>6. QED
      BY <3>5 DEF a, b
  <2>6. QED
    BY <1>2, <2>1, <2>3, <2>4, <2>5 DEF IsPrefix
<1>6. QED
  BY <1>2, <1>3, <1>4, <1>5

\* Where there is no entry there is none below.
LEMMA NothingBelow ==
  ASSUME DiskInv, NEW d \in Devices, NEW p \in Paths, disk[d][p].kind = "none",
         NEW q \in Paths, IsPrefix(p, q)
  PROVE  disk[d][q].kind = "none"
<1> DEFINE Bad == {r \in Paths : IsPrefix(p, r) /\ disk[d][r].kind # "none"}
           lengths == {Len(r) : r \in Bad}
           R == OpToRel(<, Nat)
<1>1. ASSUME lengths # {} PROVE FALSE
  <2>1. lengths \subseteq Nat
    BY PathFacts
  <2>2. PICK n \in lengths : \A m \in lengths : ~(<<m, n>> \in R)
    <3> HIDE DEF lengths, R
    <3> QED
      BY <1>1, <2>1, WFMin, NatLessThanWellFounded DEF R
  <2>3. PICK r \in Bad : n = Len(r)
    BY <2>2
  <2>4. r \in Paths /\ IsPrefix(p, r) /\ r # p /\ disk[d][r].kind # "none"
    BY <2>3
  <2>5. /\ Len(r) > 1 /\ IsPrefix(p, Front(r)) /\ Front(r) \in Paths
        /\ Len(Front(r)) = Len(r) - 1
    BY <2>4, PathFacts
  <2>6. disk[d][Front(r)].kind = "dir"
    BY <2>4, <2>5 DEF DiskInv
  <2>7. n - 1 \in lengths
    BY <2>3, <2>5, <2>6
  <2>8. <<n - 1, n>> \in R
    BY <2>1, <2>2, <2>7 DEF OpToRel
  <2>9. QED
    BY <2>2, <2>7, <2>8
<1>2. QED
  BY <1>1

-----------------------------------------------------------------------------
(* Numbers and contents of files.                                          *)

\* The largest file and the largest size.
LEMMA WidthFacts ==
  /\ LargestFile \in Nat /\ LargestFile < 2 ^ (Width - 1)
  /\ 2 ^ (Width - 1) \in Nat /\ 2 ^ (Width - 1) > 0
  /\ 2 ^ Width \in Nat /\ 2 ^ Width > 0 /\ 2 ^ Width = 2 * 2 ^ (Width - 1)
  /\ LargestFile \in Sizes /\ 0 \in Sizes /\ 1 \in Sizes
  /\ Sizes \subseteq Nat /\ \A n \in Sizes : n < 2 ^ Width
<1> DEFINE h == 2 ^ (Width - 1)
           w == 2 ^ Width
<1>1. h \in Nat \ {0} /\ w = 2 * h
  BY WidthAssumption
<1>2. LargestFile = h - 1 /\ Sizes = 0 .. w - 1
  BY DEF LargestFile, Sizes
<1> HIDE DEF h, w
<1>3. QED
  <2>1. /\ h - 1 \in Nat /\ h - 1 < h /\ h \in Nat /\ h > 0
        /\ w \in Nat /\ w > 0 /\ w = 2 * h
        /\ h - 1 \in 0 .. w - 1 /\ 0 \in 0 .. w - 1 /\ 1 \in 0 .. w - 1
        /\ 0 .. w - 1 \subseteq Nat /\ \A n \in 0 .. w - 1 : n < w
    BY <1>1
  <2>2. QED
    BY <1>2, <2>1 DEF h, w

\* What is left of a number in fewer bits.
LEMMA ModFacts ==
  ASSUME NEW n \in Nat, NEW m \in Nat \ {0}
  PROVE  n % m \in 0 .. m - 1 /\ n % m <= n /\ (n < m => n % m = n)
OBVIOUS

LEMMA ModRange ==
  ASSUME NEW n \in Int, NEW m \in Nat \ {0}
  PROVE  n % m \in 0 .. m - 1
OBVIOUS

LEMMA DwordFacts ==
  ASSUME NEW n \in Nat
  PROVE  Dword(n) \in Nat /\ Dword(n) <= n /\ (n < 2 ^ DwordWidth => Dword(n) = n)
BY DwordAssumption, ModFacts DEF Dword

\* A file that was written to, and one that was appended to.
LEMMA OverwrittenFacts ==
  ASSUME item.data \in Seq(Bytes), NEW c \in Seq(Bytes), Len(c) <= LargestFile,
         NEW at \in Nat, NEW k \in 0 .. Len(item.data), at + k <= LargestFile
  PROVE  /\ Overwritten(c, at, k) \in Seq(Bytes)
         /\ Len(Overwritten(c, at, k)) <= LargestFile
         /\ at = Len(c) => Overwritten(c, at, k) = c \o SubSeq(item.data, 1, k)
<1> DEFINE n == IF k = 0 \/ at + k < Len(c) THEN Len(c) ELSE at + k
           w == SubSeq(item.data, 1, k)
<1>1. Len(c) \in Nat /\ Len(item.data) \in Nat /\ LargestFile \in Nat
  BY WidthFacts
<1>2. n \in Nat /\ n <= LargestFile
  BY <1>1
<1>3. ASSUME NEW i \in 1 .. n
      PROVE  Overwritten(c, at, k)[i] \in Bytes
             /\ Overwritten(c, at, k)[i] = (IF i \in at + 1 .. at + k THEN item.data[i - at]
                                           ELSE IF i <= Len(c) THEN c[i] ELSE Zero)
  <2>1. Overwritten(c, at, k)[i] = (IF i \in at + 1 .. at + k THEN item.data[i - at]
                                    ELSE IF i <= Len(c) THEN c[i] ELSE Zero)
    BY <1>3 DEF Overwritten
  <2>2. CASE i \in at + 1 .. at + k
    <3>1. i - at \in 1 .. Len(item.data)
      BY <1>1, <2>2
    <3>2. QED
      BY <2>1, <2>2, <3>1
  <2>3. CASE i \notin at + 1 .. at + k /\ i <= Len(c)
    <3>1. i \in 1 .. Len(c)
      BY <1>1, <1>2, <2>3
    <3>2. QED
      BY <2>1, <2>3, <3>1
  <2>4. CASE i \notin at + 1 .. at + k /\ ~(i <= Len(c))
    BY <2>1, <2>4, DeviceAssumption
  <2>5. QED
    BY <2>2, <2>3, <2>4
<1>4. DOMAIN Overwritten(c, at, k) = 1 .. n
  BY DEF Overwritten
<1>5. Overwritten(c, at, k) \in [1 .. n -> Bytes]
  <2>1. Overwritten(c, at, k) = [i \in 1 .. n |-> Overwritten(c, at, k)[i]]
    BY DEF Overwritten
  <2> HIDE DEF n
  <2>2. QED
    BY <1>3, <2>1
<1>6. Overwritten(c, at, k) \in Seq(Bytes) /\ Len(Overwritten(c, at, k)) = n
  <2> HIDE DEF n
  <2> QED
    BY <1>2, <1>4, <1>5, SeqDef
<1>7. ASSUME at = Len(c) PROVE Overwritten(c, at, k) = c \o w
  <2>1. n = Len(c) + k
    BY <1>1, <1>7
  <2>2. w \in Seq(Bytes) /\ Len(w) = k /\ \A i \in 1 .. k : w[i] = item.data[i]
    BY <1>1
  <2> HIDE DEF w, n
  <2>3. /\ c \o w \in Seq(Bytes) /\ Len(c \o w) = Len(c) + k
        /\ \A i \in 1 .. Len(c) + k : (c \o w)[i] = IF i <= Len(c) THEN c[i] ELSE w[i - Len(c)]
    BY <2>2, ConcatProperties
  <2>4. ASSUME NEW i \in 1 .. n PROVE Overwritten(c, at, k)[i] = (c \o w)[i]
    <3>1. CASE i <= Len(c)
      BY <1>1, <1>3, <1>7, <2>1, <2>3, <3>1
    <3>2. CASE ~(i <= Len(c))
      <4>1. i \in at + 1 .. at + k /\ i - Len(c) \in 1 .. k
        BY <1>1, <1>7, <2>1, <3>2
      <4>2. QED
        BY <1>3, <1>7, <2>1, <2>2, <2>3, <3>2, <4>1
    <3>3. QED
      BY <3>1, <3>2
  <2>5. QED
    BY <1>6, <2>1, <2>3, <2>4, SeqEqual
<1>8. QED
  BY <1>2, <1>6, <1>7

-----------------------------------------------------------------------------
(* The trees.                                                              *)

\* An entry may change when it is no directory, or one with nothing in it,
\* below a directory.
LEMMA EntryChange ==
  ASSUME DiskInv, NEW d \in Devices, NEW p \in Paths, NEW e \in Entries, Sound(e),
         Len(p) > 1 /\ e.kind # "none" => disk[d][Front(p)].kind = "dir",
         e.kind = "dir" \/ \A q \in Paths :
                            Len(q) > 1 /\ Front(q) = p => disk[d][q].kind = "none",
         disk' = [disk EXCEPT ![d][p] = e]
  PROVE  /\ DiskInv'
         /\ \A c \in Devices, q \in Paths :
              disk'[c][q] = IF c = d /\ q = p THEN e ELSE disk[c][q]
<1>1. \A c \in Devices, q \in Paths :
        disk'[c][q] = IF c = d /\ q = p THEN e ELSE disk[c][q]
  BY DEF DiskInv
<1>2. disk' \in [Devices -> [Paths -> Entries]]
  BY DEF DiskInv, Sound
<1>3. ASSUME NEW c \in Devices, NEW q \in Paths
      PROVE  /\ Sound(disk'[c][q])
             /\ Len(q) > 1 /\ disk'[c][q].kind # "none" => disk'[c][Front(q)].kind = "dir"
  <2>1. Sound(disk'[c][q])
    BY <1>1 DEF DiskInv
  <2>2. ASSUME Len(q) > 1, disk'[c][q].kind # "none"
        PROVE  disk'[c][Front(q)].kind = "dir"
    <3>1. Front(q) \in Paths /\ Front(q) # q
      BY <2>2, PathFacts
    <3>2. CASE c = d /\ q = p
      BY <1>1, <2>2, <3>1, <3>2
    <3>3. CASE ~(c = d /\ q = p)
      <4>1. disk[c][q].kind # "none" /\ disk[c][Front(q)].kind = "dir"
        BY <1>1, <2>2, <3>3 DEF DiskInv
      <4>2. QED
        BY <1>1, <2>2, <3>1, <4>1
    <3>4. QED
      BY <3>2, <3>3
  <2>3. QED
    BY <2>1, <2>2
<1>4. QED
  BY <1>1, <1>2, <1>3 DEF DiskInv

\* The same for the entry at the path of the item.
LEMMA ItemEntryChange ==
  ASSUME DiskInv, dev \in Devices, item.path \in Paths, NEW e \in Entries, Sound(e),
         e.kind # "none" => ParentExists \/ Entry.kind # "none",
         Entry.kind # "dir", SetEntry(e)
  PROVE  /\ DiskInv'
         /\ \A c \in Devices, q \in Paths :
              disk'[c][q] = IF c = dev /\ q = item.path THEN e ELSE disk[c][q]
<1>1. Len(item.path) > 1 /\ e.kind # "none" => disk[dev][Front(item.path)].kind = "dir"
  BY DEF DiskInv, ParentExists, Entry
<1>2. \A q \in Paths : Len(q) > 1 /\ Front(q) = item.path => disk[dev][q].kind = "none"
  BY DEF DiskInv, Entry
<1>3. disk' = [disk EXCEPT ![dev][item.path] = e]
  BY DEF SetEntry
<1>4. PICK d \in Devices, p \in Paths : d = dev /\ p = item.path
  OBVIOUS
<1>5. /\ Len(p) > 1 /\ e.kind # "none" => disk[d][Front(p)].kind = "dir"
      /\ \A q \in Paths : Len(q) > 1 /\ Front(q) = p => disk[d][q].kind = "none"
      /\ disk' = [disk EXCEPT ![d][p] = e]
  BY <1>1, <1>2, <1>3, <1>4
<1>6. /\ DiskInv'
      /\ \A c \in Devices, q \in Paths :
           disk'[c][q] = IF c = d /\ q = p THEN e ELSE disk[c][q]
  BY <1>5, EntryChange, ZenonT(30)
<1>7. QED
  BY <1>4, <1>6

LEMMA SoundEntries ==
  /\ Sound(Absent) /\ Sound(Directory) /\ Sound(File(<<>>))
  /\ \A c \in Seq(Bytes) : Len(c) <= LargestFile => Sound(File(c))
<1>1. <<>> \in Seq(Bytes) /\ Len(<<>>) = 0 /\ 0 <= LargestFile
  BY EmptySeq, WidthFacts
<1>2. QED
  BY <1>1 DEF Sound, Entries, Absent, Directory, File

\* What writeFile() leaves of a file.
LEMMA WriteSound ==
  ASSUME DiskInv, dev \in Devices, item.path \in Paths, item.data \in Seq(Bytes), pos \in Nat
  PROVE  /\ Sound(File(IF Truncates THEN <<>> ELSE Entry.data))
         /\ WritePosition \in Nat
         /\ \A k \in 0 .. Len(item.data), at \in Nat :
              at + k <= LargestFile => Sound(File(Overwritten(Entry.data, at, k)))
<1>1. Sound(Entry) /\ Entry.data \in Seq(Bytes) /\ Len(Entry.data) <= LargestFile
      /\ Len(Entry.data) \in Nat
  BY DEF DiskInv, Entry, Sound, Entries
<1>2. Sound(File(Entry.data))
  BY <1>1, SoundEntries
<1>3. \A k \in 0 .. Len(item.data), at \in Nat :
        at + k <= LargestFile => Sound(File(Overwritten(Entry.data, at, k)))
  BY <1>1, OverwrittenFacts, SoundEntries
<1>4. QED
  BY <1>1, <1>2, <1>3, SoundEntries DEF WritePosition

\* deleteDir() removes an entry that has nothing below it any more.
LEMMA RemoveChange ==
  ASSUME DiskInv, dev \in Devices, item.path \in Paths, NEW p \in Paths, Removable(p),
         disk' = [disk EXCEPT ![dev][p] = Absent]
  PROVE  /\ DiskInv'
         /\ \A c \in Devices, q \in Paths :
              disk'[c][q] = IF c = dev /\ q = p THEN Absent ELSE disk[c][q]
<1>1. ASSUME NEW q \in Paths, Len(q) > 1, Front(q) = p
      PROVE  disk[dev][q].kind = "none"
  <2>1. IsPrefix(p, q) /\ q # p
    BY <1>1, PathFacts
  <2>2. QED
    BY <2>1 DEF Removable, Subtree
<1>2. Absent.kind = "none" /\ Sound(Absent) /\ Absent \in Entries
  BY SoundEntries DEF Absent, Sound
<1>3. PICK d \in Devices, e \in Entries : d = dev /\ e = Absent
  BY <1>2
<1>4. /\ Sound(e)
      /\ Len(p) > 1 /\ e.kind # "none" => disk[d][Front(p)].kind = "dir"
      /\ \/ e.kind = "dir"
         \/ \A q \in Paths : Len(q) > 1 /\ Front(q) = p => disk[d][q].kind = "none"
      /\ disk' = [disk EXCEPT ![d][p] = e]
  BY <1>1, <1>2, <1>3
<1>5. /\ DiskInv'
      /\ \A c \in Devices, q \in Paths :
           disk'[c][q] = IF c = d /\ q = p THEN e ELSE disk[c][q]
  BY ONLY DiskInv, <1>4, EntryChange
<1>6. QED
  BY <1>3, <1>5

-----------------------------------------------------------------------------
(* A step of a function.                                                   *)

\* The result of every function is a code, and no error but that of a path
\* that does not exist is "not found".
LEMMA CodeFacts ==
  /\ \A e : ConvertError(e) \in Codes /\ ConvertError(e) # "OK"
  /\ \A e : e # "ENOENT" => ConvertError(e) # "NOT_FOUND"
  /\ \A e \in Errors : ConvertError(e) # "NOT_FOUND"
  /\ \A e : ConvertWindowsError(e) \in Codes /\ ConvertWindowsError(e) # "OK"
  /\ \A e \in WindowsErrors : ConvertWindowsError(e) # "NOT_FOUND"
  /\ ConvertWindowsError("ERROR_ACCESS_DENIED") # "NOT_FOUND"
  /\ LookupError \in {"ENOENT", "ENOTDIR"}
<1>1. \A e : ConvertError(e) \in Codes /\ ConvertError(e) # "OK"
             /\ (e # "ENOENT" => ConvertError(e) # "NOT_FOUND")
  BY DEF ConvertError, Codes
<1>2. \A e : /\ ConvertWindowsError(e) \in Codes /\ ConvertWindowsError(e) # "OK"
             /\ e \notin {"ERROR_FILE_NOT_FOUND", "ERROR_PATH_NOT_FOUND"}
                  => ConvertWindowsError(e) # "NOT_FOUND"
  BY DEF ConvertWindowsError, Codes
<1>3. QED
  BY <1>1, <1>2, DeviceAssumption, DwordAssumption DEF LookupError

\* The sizes that a read computes.
LEMMA RoomFacts ==
  ASSUME ControlInv, dpc \in ReadStages
  PROVE  /\ Part \in Sizes /\ Room \in Sizes
         /\ (Part + (IF item.terminate THEN 1 ELSE 0)) % (2 ^ Width) \in Sizes
         /\ Part <= item.max
         /\ size + (IF item.terminate THEN 1 ELSE 0) < 2 ^ Width =>
              Room = size + (IF item.terminate THEN 1 ELSE 0)
<1> DEFINE w == 2 ^ Width
<1>1. w \in Nat \ {0} /\ Sizes = 0 .. w - 1
  BY WidthFacts DEF Sizes
<1>2. item.offset \in Sizes /\ item.max \in Sizes /\ item.terminate \in BOOLEAN /\ size \in Sizes
  BY DEF ControlInv, ItemOf, ReadStages, Stages
<1>3. Part = Least((size - item.offset) % w, item.max)
  BY DEF Part
<1>4. Room = (size + (IF item.terminate THEN 1 ELSE 0)) % w
  BY DEF Room
<1> HIDE DEF w
<1>5. size - item.offset \in Int
  BY <1>1, <1>2
<1>6. (size - item.offset) % w \in 0 .. w - 1
  BY <1>1, <1>5, ModRange
<1>7. Part \in Sizes /\ Part <= item.max
  BY <1>1, <1>2, <1>3, <1>6 DEF Least
<1>8. \A n \in Sizes : /\ n + (IF item.terminate THEN 1 ELSE 0) \in Nat
                       /\ (n + (IF item.terminate THEN 1 ELSE 0)) % w \in 0 .. w - 1
  BY <1>1, <1>2, ModRange
<1>9. size + (IF item.terminate THEN 1 ELSE 0) < w => Room = size + (IF item.terminate THEN 1 ELSE 0)
  BY <1>1, <1>2, <1>4, <1>8, ModFacts
<1>10. QED
  BY <1>1, <1>2, <1>4, <1>7, <1>8, <1>9 DEF w

\* Where the thread is while it is in a function.
LEMMA StageFacts ==
  ASSUME ControlInv, Step
  PROVE  /\ dpc \in Stages /\ tpc = "item" /\ dev \in Devices /\ ItemOf(item)
         /\ UNCHANGED <<item, dev, changed, platform, mounted, tpc, items, before, foreign>>
         /\ dpc' \in Stages \cup {"returned"}
<1> USE DEF Return, Fail, ReturnSilently, Go, ErrorReturned
<1>1. /\ dpc \in Stages /\ dpc' \in Stages \cup {"returned"}
      /\ UNCHANGED <<item, dev>>
  <2>1. CASE DeviceStep
    <3>1. CASE \/ FileExists \/ FileSize \/ FileSizeFails
               \/ OpenRead \/ SeekEnd \/ SeekEndDirectory \/ SeekSet \/ AllocBuffer
               \/ ReadBytes \/ ReadFails
      BY <3>1 DEF FileExists, FileSize, FileSizeFails, OpenRead, SeekEnd, SeekEndDirectory,
           SeekSet, AllocBuffer, ReadBytes, ReadFails, Stages, ReadStages
    <3>2. CASE \/ OpenWrite \/ SeekWrite \/ WriteBytes \/ WriteFails
               \/ DeleteFile \/ CreateDir \/ OpenTree \/ RemoveEntry \/ RemoveFails
      BY <3>2 DEF OpenWrite, SeekWrite, WriteBytes, WriteFails, DeleteFile, CreateDir,
           OpenTree, RemoveEntry, RemoveFails, Stages, WriteStages
    <3>3. QED
      BY <2>1, <3>1, <3>2 DEF DeviceStep
  <2>2. CASE WindowsStep
    <3>1. CASE \/ FileExists \/ SizeOfOpened
               \/ OpenToRead \/ Measure \/ SetPointer \/ ReadOpened
      BY <3>1 DEF FileExists, SizeOfOpened, OpenToRead, Measure, SetPointer, ReadOpened,
           Stages, ReadStages
    <3>2. CASE \/ OpenToWrite \/ SetWritePointer \/ WriteOpened \/ DeleteFileW
               \/ CreateDirectoryW \/ ShellDelete \/ RemoveEntry \/ ShellDeleteFails
      BY <3>2 DEF OpenToWrite, SetWritePointer, WriteOpened, DeleteFileW, CreateDirectoryW,
           ShellDelete, RemoveEntry, ShellDeleteFails, Stages, WriteStages
    <3>3. QED
      BY <2>2, <3>1, <3>2 DEF WindowsStep
  <2>3. QED
    BY <2>1, <2>2 DEF Step
<1>2. UNCHANGED <<changed, platform, mounted, tpc, items, before, foreign>>
  BY DEF Step, mountVars, itemVars
<1>3. "none" \notin Stages
  BY DEF Stages, ReadStages, WriteStages
<1>4. QED
  BY <1>1, <1>2, <1>3 DEF ControlInv

\* The functions that each operation calls, on both platforms.
LEMMA StepsOf ==
  ASSUME ControlInv, Step
  PROVE  /\ item.op = "EXISTS" => FileExists
         /\ item.op = "SIZE" =>
              \/ platform = "posix" /\ (FileSize \/ FileSizeFails)
              \/ platform = "windows" /\ SizeOfOpened
         /\ item.op = "READ" =>
              \/ platform = "posix" /\ \/ OpenRead \/ SeekEnd \/ SeekEndDirectory \/ SeekSet
                                       \/ AllocBuffer \/ ReadBytes \/ ReadFails
              \/ platform = "windows" /\ (OpenToRead \/ Measure \/ SetPointer \/ ReadOpened)
         /\ item.op = "WRITE" =>
              \/ OpenWrite \/ SeekWrite \/ WriteBytes \/ WriteFails
              \/ OpenToWrite \/ SetWritePointer \/ WriteOpened
         /\ item.op = "DELETE" => DeleteFile \/ DeleteFileW
         /\ item.op = "CREATE_DIR" => CreateDir \/ CreateDirectoryW
         /\ item.op = "DELETE_DIR" =>
              OpenTree \/ RemoveEntry \/ RemoveFails \/ ShellDelete \/ ShellDeleteFails
<1> USE DEF Go
<1>0. platform \in {"posix", "windows"}
  BY OverlayAssumption DEF ControlInv
<1>1. /\ FileExists => item.op = "EXISTS"
      /\ FileSize \/ FileSizeFails \/ SizeOfOpened => item.op = "SIZE"
  BY DEF FileExists, FileSize, FileSizeFails, SizeOfOpened, ControlInv
<1>2. ASSUME \/ OpenRead \/ SeekEnd \/ SeekEndDirectory \/ SeekSet \/ AllocBuffer \/ ReadBytes
             \/ ReadFails \/ OpenToRead \/ Measure \/ SetPointer \/ ReadOpened
      PROVE  item.op = "READ"
  BY <1>2 DEF OpenRead, SeekEnd, SeekEndDirectory, SeekSet, AllocBuffer, ReadBytes, ReadFails,
       OpenToRead, Measure, SetPointer, ReadOpened, ControlInv, ReadStages
<1>3. ASSUME \/ OpenWrite \/ SeekWrite \/ WriteBytes \/ WriteFails
             \/ OpenToWrite \/ SetWritePointer \/ WriteOpened
      PROVE  item.op = "WRITE"
  BY <1>3 DEF OpenWrite, SeekWrite, WriteBytes, WriteFails, OpenToWrite, SetWritePointer,
       WriteOpened, ControlInv, WriteStages
<1>4. /\ DeleteFile \/ DeleteFileW => item.op = "DELETE"
      /\ CreateDir \/ CreateDirectoryW => item.op = "CREATE_DIR"
      /\ OpenTree \/ RemoveEntry \/ RemoveFails \/ ShellDelete \/ ShellDeleteFails
           => item.op = "DELETE_DIR"
  BY DEF DeleteFile, DeleteFileW, CreateDir, CreateDirectoryW, OpenTree, RemoveEntry,
       RemoveFails, ShellDelete, ShellDeleteFails, ControlInv
<1>5. CASE platform = "posix"
  <2>1. DeviceStep
    BY <1>5 DEF Step
  <2>2. \/ item.op = "EXISTS" /\ FileExists
        \/ item.op = "SIZE" /\ (FileSize \/ FileSizeFails)
        \/ item.op = "READ" /\ \/ OpenRead \/ SeekEnd \/ SeekEndDirectory \/ SeekSet
                               \/ AllocBuffer \/ ReadBytes \/ ReadFails
        \/ item.op = "WRITE" /\ (OpenWrite \/ SeekWrite \/ WriteBytes \/ WriteFails)
        \/ item.op = "DELETE" /\ DeleteFile
        \/ item.op = "CREATE_DIR" /\ CreateDir
        \/ item.op = "DELETE_DIR" /\ (OpenTree \/ RemoveEntry \/ RemoveFails)
    BY <1>1, <1>2, <1>3, <1>4, <2>1 DEF DeviceStep
  <2>3. QED
    BY ONLY <1>5, <2>2, SMT
<1>6. CASE platform = "windows"
  <2>1. WindowsStep
    BY <1>6 DEF Step
  <2>2. \/ item.op = "EXISTS" /\ FileExists
        \/ item.op = "SIZE" /\ SizeOfOpened
        \/ item.op = "READ" /\ (OpenToRead \/ Measure \/ SetPointer \/ ReadOpened)
        \/ item.op = "WRITE" /\ (OpenToWrite \/ SetWritePointer \/ WriteOpened)
        \/ item.op = "DELETE" /\ DeleteFileW
        \/ item.op = "CREATE_DIR" /\ CreateDirectoryW
        \/ item.op = "DELETE_DIR" /\ (ShellDelete \/ RemoveEntry \/ ShellDeleteFails)
    BY <1>1, <1>2, <1>3, <1>4, <2>1 DEF WindowsStep
  <2>3. QED
    BY ONLY <1>6, <2>2, SMT
<1>7. QED
  BY <1>0, <1>5, <1>6

\* One read() transfers the beginning of what there is to read.
LEMMA ReadTransfers ==
  ASSUME ReadBytes, Rest \in Seq(Bytes)
  PROVE  /\ data' \in Seq(Bytes) /\ Len(data') \in Nat /\ Len(data') <= Len(Rest)
         /\ IsPrefix(data', Rest) /\ (data' = <<>> => Rest = <<>>)
<1>1. PICK k \in Least(1, Len(Rest)) .. Len(Rest) : data' = SubSeq(Rest, 1, k)
  BY DEF ReadBytes
<1>2. PICK s \in Seq(Bytes) : s = Rest
  OBVIOUS
<1>3. Len(s) \in Nat /\ k \in Nat /\ k <= Len(s) /\ (k = 0 => Len(s) = 0)
  BY <1>1, <1>2 DEF Least
<1>4. SubSeq(s, 1, k) \in Seq(Bytes) /\ Len(SubSeq(s, 1, k)) = k
  BY <1>3
<1>5. SubSeq(SubSeq(s, 1, k), 1, k) = SubSeq(s, 1, k)
  BY <1>3, <1>4
<1>6. SubSeq(s, 1, k) = <<>> => s = <<>>
  BY <1>3, <1>4
<1>7. QED
  BY <1>1, <1>2, <1>3, <1>4, <1>5, <1>6 DEF IsPrefix

\* How the types of what the functions keep are kept.
Kept ==
  /\ size \in Sizes /\ pos \in Nat /\ buffer \in Sizes \cup {Null}
  /\ data \in Seq(Bytes) /\ bytes \in Nat /\ result \in Codes \cup {Null}

LEMMA KeptReading ==
  ASSUME DiskInv, ControlInv, Step, item.op \in ReadOps
  PROVE  Kept'
<1> USE CodeFacts DEF Return, Fail, ReturnSilently, Go, Kept
<1>1. dev \in Devices /\ item.path \in Paths /\ dpc \in Stages
  BY StageFacts DEF ItemOf
<1>2. Kept
  BY DEF ControlInv
<1>3. Entry.data \in Seq(Bytes) /\ Len(Entry.data) \in Nat /\ Len(Entry.data) \in Sizes
  <2>1. Entry.data \in Seq(Bytes) /\ Len(Entry.data) <= LargestFile
    BY <1>1 DEF DiskInv, Entry, Sound, Entries
  <2>2. QED
    BY <2>1, WidthFacts DEF Sizes
<1>4. {"OK", "NOT_FOUND", "UNSUPPORTED"} \subseteq Codes /\ 0 \in Sizes /\ 1 \in Sizes
  BY WidthFacts DEF Codes
<1>5. ASSUME item.op = "READ"
      PROVE  /\ Part \in Sizes /\ Room \in Sizes /\ item.offset \in Nat
             /\ (Part + (IF item.terminate THEN 1 ELSE 0)) % (2 ^ Width) \in Sizes
  <2>1. dpc \in ReadStages
    BY <1>1, <1>5 DEF ControlInv, Stages
  <2>2. QED
    BY <1>5, <2>1, RoomFacts, StageFacts, WidthFacts DEF ItemOf
<1>6. ASSUME NEW m \in Int, NEW n \in Int, m >= 1, n <= Len(Entry.data)
      PROVE  SubSeq(Entry.data, m, n) \in Seq(Bytes) /\ Len(SubSeq(Entry.data, m, n)) \in Nat
  <2>1. \A i \in m .. n : Entry.data[i] \in Bytes
    BY <1>3, <1>6
  <2>2. SubSeq(Entry.data, m, n) \in Seq(Bytes)
    BY <2>1, SubSeqProperties
  <2>3. QED
    BY <2>2, LenProperties
<1>7. CASE FileExists \/ FileSize \/ FileSizeFails
  BY <1>2, <1>3, <1>4, <1>7 DEF FileExists, FileSize, FileSizeFails
<1>8. CASE SizeOfOpened
  BY <1>2, <1>3, <1>4, <1>8 DEF SizeOfOpened
<1>9. CASE OpenRead \/ SeekEnd \/ SeekEndDirectory
  BY <1>2, <1>3, <1>4, <1>9 DEF OpenRead, SeekEnd, SeekEndDirectory
<1>10. CASE item.op = "READ" /\ (SeekSet \/ AllocBuffer \/ ReadFails)
  BY <1>2, <1>4, <1>5, <1>10 DEF SeekSet, AllocBuffer, ReadFails
<1>11. CASE ReadBytes
  <2>1. pos + 1 \in Int /\ pos + 1 >= 1 /\ Least(pos + size, Len(Entry.data)) \in Int
        /\ Least(pos + size, Len(Entry.data)) <= Len(Entry.data)
    BY <1>2, <1>3, WidthFacts DEF Least
  <2>2. Rest \in Seq(Bytes)
    BY <1>6, <2>1 DEF Rest
  <2>3. data' \in Seq(Bytes) /\ Len(data') \in Nat
    BY <1>11, <2>2, ReadTransfers
  <2>4. QED
    BY <1>2, <1>4, <1>11, <2>3 DEF ReadBytes
<1>12. CASE OpenToRead \/ Measure
  BY <1>2, <1>3, <1>4, <1>12 DEF OpenToRead, Measure
<1>13. CASE item.op = "READ" /\ SetPointer
  BY <1>2, <1>5, <1>13 DEF SetPointer
<1>14. CASE ReadOpened
  <2>1. Dword(size) \in Nat
    BY <1>2, WidthFacts, DwordFacts
  <2>2. pos + 1 \in Int /\ pos + 1 >= 1 /\ Least(pos + Dword(size), Len(Entry.data)) \in Int
        /\ Least(pos + Dword(size), Len(Entry.data)) <= Len(Entry.data)
    BY <1>2, <1>3, <2>1 DEF Least
  <2>3. data' \in Seq(Bytes) /\ Len(data') \in Nat
    <3>1. CASE UNCHANGED data
      BY <1>2, <3>1, LenProperties
    <3>2. CASE data' = SubSeq(Entry.data, pos + 1, Least(pos + Dword(size), Len(Entry.data)))
      BY <1>6, <2>2, <3>2
    <3>3. QED
      BY <1>14, <3>1, <3>2 DEF ReadOpened
  <2>4. QED
    BY <1>2, <1>4, <1>14, <2>3 DEF ReadOpened
<1>15. QED
  BY <1>7, <1>8, <1>9, <1>10, <1>11, <1>12, <1>13, <1>14, StepsOf DEF ReadOps

LEMMA KeptChanging ==
  ASSUME DiskInv, ControlInv, Step, item.op \notin ReadOps
  PROVE  Kept'
<1> USE CodeFacts DEF Return, Fail, ErrorReturned, Go, Kept
<1>1. dev \in Devices /\ item.path \in Paths /\ item.op \in Operations
      /\ (item.op = "WRITE" => item.offset \in Nat /\ item.data \in Seq(Bytes)
                               /\ item.mode \in {"TRUNCATE", "APPEND", "SEGMENT"})
  BY StageFacts, WidthFacts DEF ItemOf
<1>2. Kept
  BY DEF ControlInv
<1>3. {"OK", "NOT_FOUND", "GENERIC_ERROR", "PERMISSIONS_ERROR"} \subseteq Codes
  BY DEF Codes
<1>4. CASE OpenWrite \/ SeekWrite \/ WriteFails
  BY <1>1, <1>2, <1>4, StepsOf DEF OpenWrite, SeekWrite, WriteFails, ControlInv, WriteStages
<1>5. CASE WriteBytes
  BY <1>1, <1>2, <1>3, <1>5 DEF WriteBytes, ControlInv, WriteStages
<1>6. CASE OpenToWrite \/ WriteOpened
  <2>1. WriteOpened => Dword(Len(item.data)) \in Nat
    BY <1>1, DwordFacts DEF WriteOpened, ControlInv, WriteStages
  <2>2. QED
    BY <1>2, <1>3, <1>6, <2>1 DEF OpenToWrite, WriteOpened
<1>7. CASE SetWritePointer
  <2>1. Len(Entry.data) \in Nat
    BY <1>1 DEF DiskInv, Entry, Sound, Entries
  <2>2. pos' \in Nat
    BY <1>1, <1>7, <2>1 DEF SetWritePointer, ControlInv, WriteStages
  <2>3. /\ UNCHANGED <<size, buffer, data>>
        /\ Return("GENERIC_ERROR", 0) \/ Go("set_write_pointer", "write_file")
    BY <1>7 DEF SetWritePointer
  <2>4. QED
    BY <1>2, <1>3, <2>2, <2>3
<1>8. CASE DeleteFile \/ DeleteFileW \/ CreateDir \/ CreateDirectoryW
  BY <1>2, <1>3, <1>8 DEF DeleteFile, DeleteFileW, CreateDir, CreateDirectoryW
<1>9. CASE OpenTree \/ RemoveEntry \/ RemoveFails \/ ShellDelete \/ ShellDeleteFails
  BY <1>2, <1>3, <1>9 DEF OpenTree, RemoveEntry, RemoveFails, ShellDelete, ShellDeleteFails
<1>10. QED
  BY <1>1, <1>4, <1>5, <1>6, <1>7, <1>8, <1>9, StepsOf, OverlayAssumption DEF ReadOps
LEMMA ControlStep ==
  ASSUME DiskInv, ControlInv, Step
  PROVE  ControlInv'
<1>1. Kept'
  BY KeptReading, KeptChanging
<1>2. /\ tpc = "item" /\ dev \in Devices /\ ItemOf(item)
      /\ UNCHANGED <<item, dev, changed, platform, mounted, tpc>>
      /\ dpc' \in Stages \cup {"returned"}
  BY StageFacts
<1>3. /\ dpc' \in ReadStages => item.op = "READ"
      /\ dpc' \in WriteStages => item.op = "WRITE"
      /\ dpc' = "remove" => item.op = "DELETE_DIR"
      /\ dpc' \notin {"EXISTS", "SIZE", "DELETE", "CREATE_DIR", "DELETE_DIR"}
  <2> USE DEF Return, Fail, ReturnSilently, Go, ErrorReturned
  <2>1. CASE item.op \in {"EXISTS", "SIZE", "DELETE", "CREATE_DIR"}
    <3>1. dpc' = "returned"
      BY <2>1, StepsOf DEF FileExists, FileSize, FileSizeFails, SizeOfOpened, DeleteFile,
           DeleteFileW, CreateDir, CreateDirectoryW
    <3>2. QED
      BY <3>1 DEF ReadStages, WriteStages
  <2>2. CASE item.op = "READ"
    <3>1. dpc' \in (ReadStages \ {"READ"}) \cup {"returned"}
      <4>1. CASE OpenRead \/ SeekEnd \/ SeekEndDirectory \/ SeekSet \/ AllocBuffer
        BY <4>1 DEF OpenRead, SeekEnd, SeekEndDirectory, SeekSet, AllocBuffer, ReadStages
      <4>2. CASE \/ ReadBytes \/ ReadFails
                 \/ OpenToRead \/ Measure \/ SetPointer \/ ReadOpened
        BY <4>2 DEF ReadBytes, ReadFails, OpenToRead, Measure, SetPointer, ReadOpened, ReadStages
      <4>3. QED
        BY <2>2, <4>1, <4>2, StepsOf
    <3>2. QED
      BY <2>2, <3>1 DEF ReadStages, WriteStages
  <2>3. CASE item.op = "WRITE"
    <3>1. dpc' \in (WriteStages \ {"WRITE"}) \cup {"returned"}
      <4>1. CASE OpenWrite \/ SeekWrite \/ WriteBytes \/ WriteFails
        BY <4>1 DEF OpenWrite, SeekWrite, WriteBytes, WriteFails, WriteStages
      <4>2. CASE OpenToWrite \/ SetWritePointer \/ WriteOpened
        BY <4>2 DEF OpenToWrite, SetWritePointer, WriteOpened, WriteStages
      <4>3. QED
        BY <2>3, <4>1, <4>2, StepsOf
    <3>2. QED
      BY <2>3, <3>1 DEF ReadStages, WriteStages
  <2>4. CASE item.op = "DELETE_DIR"
    <3>1. dpc' \in {"remove", "returned"}
      BY <2>4, StepsOf DEF OpenTree, RemoveEntry, RemoveFails, ShellDelete, ShellDeleteFails
    <3>2. QED
      BY <2>4, <3>1 DEF ReadStages, WriteStages
  <2>5. QED
    BY <1>2, <2>1, <2>2, <2>3, <2>4, OverlayAssumption DEF ItemOf, ReadOps
<1>4. dpc' # "none" /\ item.op \in Operations
  BY <1>2 DEF Stages, ReadStages, WriteStages, ItemOf
<1>5. /\ tpc' = "item" /\ item' = item /\ dev' = dev /\ changed' = changed
      /\ platform' = platform /\ mounted' = mounted /\ ItemOf(item')
  BY <1>2
<1>6. dev' # Null
  BY <1>2, DeviceAssumption
<1>7. QED
  BY <1>1, <1>2, <1>3, <1>4, <1>5, <1>6 DEF ControlInv, Kept

\* What a step of a function does to the trees, and to what it has open.
LEMMA DiskStepReading ==
  ASSUME DiskInv, ControlInv, OpenInv, Step, item.op \in ReadOps
  PROVE  disk' = disk /\ Entry' = Entry /\ DiskInv' /\ OpenInv'
<1> USE DEF Return, Fail, ReturnSilently, Go
<1>1. disk' = disk
  <2>1. CASE item.op = "READ"
    BY <2>1, StepsOf DEF OpenRead, SeekEnd, SeekEndDirectory, SeekSet, AllocBuffer,
         ReadBytes, ReadFails, OpenToRead, Measure, SetPointer, ReadOpened
  <2>2. CASE item.op # "READ"
    BY <2>2, StepsOf DEF FileExists, FileSize, FileSizeFails, SizeOfOpened, ReadOps
  <2>3. QED
    BY <2>1, <2>2
<1>2. DiskInv'
  BY <1>1 DEF DiskInv
<1>3. Entry' = Entry
  BY <1>1, StageFacts DEF Entry
<1>4. OpenInv'
  <2>1. CASE dpc' = "returned"
    BY <2>1 DEF OpenInv, WriteStages
  <2>2. CASE dpc' # "returned" /\ item.op = "READ"
    <3>1. CASE OpenRead \/ SeekEnd \/ SeekEndDirectory \/ SeekSet \/ AllocBuffer
      BY <1>3, <2>2, <3>1 DEF OpenInv, WriteStages, OpenRead, SeekEnd, SeekEndDirectory,
           SeekSet, AllocBuffer
    <3>2. CASE \/ ReadBytes \/ ReadFails
               \/ OpenToRead \/ Measure \/ SetPointer \/ ReadOpened
      BY <1>3, <2>2, <3>2 DEF OpenInv, WriteStages, ReadBytes, ReadFails, OpenToRead,
           Measure, SetPointer, ReadOpened
    <3>3. QED
      BY <2>2, <3>1, <3>2, StepsOf
  <2>3. CASE dpc' # "returned" /\ item.op # "READ"
    BY <2>3, StepsOf DEF FileExists, FileSize, FileSizeFails, SizeOfOpened, ReadOps
  <2>4. QED
    BY <2>1, <2>2, <2>3
<1>5. QED
  BY <1>1, <1>2, <1>3, <1>4

\* A write changes the entry at its path and no other.
LEMMA DiskStepWriting ==
  ASSUME DiskInv, ControlInv, OpenInv, Step, item.op = "WRITE"
  PROVE  /\ DiskInv' /\ OpenInv'
         /\ disk' = disk \/ SetEntry(Entry')
<1>1. /\ dev \in Devices /\ item.path \in Paths /\ dpc \in Stages
      /\ UNCHANGED <<item, dev>> /\ item.data \in Seq(Bytes) /\ pos \in Nat
  BY StageFacts DEF ItemOf, ControlInv
<1> USE DEF Return, Fail, Go
<1>2. ASSUME NEW e \in Entries, Sound(e), e.kind = "file", ParentExists \/ Entry.kind # "none",
             Entry.kind # "dir", SetEntry(e),
             dpc' \in {"returned", "seek_write", "set_write_pointer"}
      PROVE  DiskInv' /\ OpenInv' /\ SetEntry(Entry')
  <2>1. DiskInv' /\ disk'[dev][item.path] = e
    BY <1>1, <1>2, ItemEntryChange
  <2>2. Entry' = e
    BY <1>1, <2>1 DEF Entry
  <2>3. OpenInv'
    BY <1>2, <2>2 DEF OpenInv, WriteStages
  <2>4. QED
    BY <1>2, <2>1, <2>2, <2>3
<1>3. ASSUME UNCHANGED disk, dpc' \in {"returned", "write", "write_file"},
             dpc' = "returned" \/ Entry.kind = "file"
      PROVE  DiskInv' /\ OpenInv' /\ disk' = disk
  <2>1. DiskInv'
    BY <1>3 DEF DiskInv
  <2>2. Entry' = Entry
    BY <1>1, <1>3 DEF Entry
  <2>3. QED
    BY <1>3, <2>1, <2>2 DEF OpenInv, WriteStages
<1>4. \A c : File(c).kind = "file" /\ (Sound(File(c)) => File(c) \in Entries)
  BY DEF File, Sound
<1>5. CASE \/ OpenWrite /\ dpc' = "seek_write"
           \/ OpenToWrite /\ dpc' = "set_write_pointer"
  <2>1. PICK e : e = File(IF Truncates THEN <<>> ELSE Entry.data)
    OBVIOUS
  <2>2. Sound(e) /\ e \in Entries /\ e.kind = "file"
    BY <1>1, <1>4, <2>1, WriteSound
  <2>3. SetEntry(e) /\ ParentExists /\ Entry.kind # "dir"
    BY <1>5, <2>1 DEF OpenWrite, OpenToWrite
  <2>4. QED
    BY <1>2, <1>5, <2>2, <2>3
<1>6. CASE \/ (OpenWrite \/ OpenToWrite) /\ dpc' = "returned"
           \/ WriteFails
  BY <1>3, <1>6 DEF OpenWrite, OpenToWrite, WriteFails
<1>7. CASE SeekWrite \/ SetWritePointer
  <2>1. UNCHANGED disk /\ Entry.kind = "file" /\ dpc' \in {"returned", "write", "write_file"}
    BY <1>7 DEF SeekWrite, SetWritePointer, OpenInv, WriteStages
  <2>2. QED
    BY <1>3, <2>1
<1>8. ASSUME NEW k \in 0 .. Len(item.data), NEW at \in Nat, at + k <= LargestFile,
             SetEntry(File(Overwritten(Entry.data, at, k))), dpc' = "returned",
             dpc \in {"write", "write_file"}
      PROVE  DiskInv' /\ OpenInv' /\ SetEntry(Entry')
  <2>1. PICK e : e = File(Overwritten(Entry.data, at, k))
    OBVIOUS
  <2>2. Sound(e) /\ e \in Entries /\ e.kind = "file"
    BY <1>1, <1>4, <1>8, <2>1, WriteSound
  <2>3. SetEntry(e)
    BY <1>8, <2>1
  <2>4. Entry.kind = "file"
    BY <1>8 DEF OpenInv, WriteStages
  <2>5. QED
    BY <1>2, <1>8, <2>2, <2>3, <2>4
<1>9. CASE WriteBytes
  <2>1. PICK k \in IF item.data = <<>> THEN {0} ELSE 1 .. Len(item.data) :
          /\ WritePosition + k <= LargestFile
          /\ SetEntry(File(Overwritten(Entry.data, WritePosition, k)))
          /\ dpc' = "returned"
    BY <1>9 DEF WriteBytes
  <2>2. k \in 0 .. Len(item.data) /\ WritePosition \in Nat
    BY <1>1, <2>1, WriteSound
  <2>3. dpc = "write"
    BY <1>9 DEF WriteBytes
  <2>4. PICK at \in Nat : at = WritePosition
    BY <2>2
  <2>5. QED
    BY <1>8, <2>1, <2>2, <2>3, <2>4
<1>10. CASE WriteOpened
  <2>1. Dword(Len(item.data)) \in 0 .. Len(item.data)
    <3>1. Len(item.data) \in Nat
      BY <1>1
    <3>2. QED
      BY <3>1, DwordFacts
  <2>2. dpc = "write_file" /\ dpc' = "returned"
    BY <1>10 DEF WriteOpened
  <2>3. CASE UNCHANGED disk
    BY <1>3, <2>2, <2>3
  <2>4. CASE ~UNCHANGED disk
    <3>1. PICK k \in 0 .. Len(item.data), at \in Nat : k = Dword(Len(item.data)) /\ at = pos
      BY <1>1, <2>1
    <3>2. at + k <= LargestFile /\ SetEntry(File(Overwritten(Entry.data, at, k)))
      BY <1>10, <2>4, <3>1 DEF WriteOpened
    <3>3. QED
      BY <1>8, <2>2, <3>2
  <2>5. QED
    BY <2>3, <2>4
<1>11. dpc' \in {"returned", "seek_write"} \/ ~OpenWrite
  BY DEF OpenWrite
<1>12. dpc' \in {"returned", "set_write_pointer"} \/ ~OpenToWrite
  BY DEF OpenToWrite
<1>13. QED
  BY <1>5, <1>6, <1>7, <1>9, <1>10, <1>11, <1>12, StepsOf

\* The other operations add or remove an entry.
LEMMA DiskStepOthers ==
  ASSUME DiskInv, ControlInv, Step, item.op \in {"DELETE", "CREATE_DIR", "DELETE_DIR"}
  PROVE  DiskInv' /\ OpenInv'
<1>1. /\ dev \in Devices /\ item.path \in Paths
  BY StageFacts DEF ItemOf
<1> USE DEF Return, Go, ErrorReturned
<1>2. /\ dpc' \in {"remove", "returned"}
      /\ \/ UNCHANGED disk
         \/ SetEntry(Absent) /\ Entry.kind = "file"
         \/ SetEntry(Directory) /\ Entry.kind = "none" /\ ParentExists
         \/ \E p \in Paths : Removable(p) /\ disk' = [disk EXCEPT ![dev][p] = Absent]
  <2>1. CASE item.op \in {"DELETE", "CREATE_DIR"}
    BY <2>1, StepsOf DEF DeleteFile, DeleteFileW, CreateDir, CreateDirectoryW
  <2>2. CASE item.op = "DELETE_DIR"
    BY <2>2, StepsOf DEF OpenTree, RemoveEntry, RemoveFails, ShellDelete, ShellDeleteFails
  <2>3. QED
    BY <2>1, <2>2
<1>3. ASSUME NEW e \in Entries, Sound(e), SetEntry(e), Entry.kind # "dir",
             e.kind # "none" => ParentExists \/ Entry.kind # "none"
      PROVE  DiskInv'
  BY <1>1, <1>3, ItemEntryChange
<1>4. /\ Sound(Absent) /\ Absent \in Entries /\ Absent.kind = "none"
      /\ Sound(Directory) /\ Directory \in Entries
  BY SoundEntries DEF Sound, Absent
<1>5. DiskInv'
  <2>1. CASE UNCHANGED disk
    BY <2>1 DEF DiskInv
  <2>2. CASE SetEntry(Absent) /\ Entry.kind = "file"
    <3>1. PICK e \in Entries : e = Absent
      BY <1>4
    <3>2. Sound(e) /\ SetEntry(e) /\ Entry.kind # "dir" /\ e.kind = "none"
      BY <1>4, <2>2, <3>1
    <3>3. QED
      BY <1>3, <3>2
  <2>3. CASE SetEntry(Directory) /\ Entry.kind = "none" /\ ParentExists
    <3>1. PICK e \in Entries : e = Directory
      BY <1>4
    <3>2. Sound(e) /\ SetEntry(e) /\ Entry.kind # "dir"
      BY <1>4, <2>3, <3>1
    <3>3. QED
      BY <1>3, <2>3, <3>2
  <2>4. CASE \E p \in Paths : Removable(p) /\ disk' = [disk EXCEPT ![dev][p] = Absent]
    BY <1>1, <2>4, RemoveChange
  <2>5. QED
    BY <1>2, <2>1, <2>2, <2>3, <2>4
<1>6. QED
  BY <1>2, <1>5 DEF OpenInv, WriteStages

LEMMA DiskStep ==
  ASSUME DiskInv, ControlInv, OpenInv, Step
  PROVE  DiskInv' /\ OpenInv'
BY DiskStepReading, DiskStepWriting, DiskStepOthers, StageFacts, OverlayAssumption
   DEF ItemOf, ReadOps

-----------------------------------------------------------------------------
(* What a step reports.                                                    *)

\* The buffer of a read.
LEMMA BufferStep ==
  ASSUME DiskInv, ControlInv, OpenInv, BufferInv, Step
  PROVE  BufferInv'
<1>1. /\ tpc = "item" /\ dev \in Devices /\ dpc \in Stages /\ item' = item
      /\ item.path \in Paths /\ platform' = platform
  BY StageFacts DEF ItemOf
<1>2. CASE item.op # "READ"
  BY <1>1, <1>2 DEF BufferInv
<1>3. CASE item.op = "READ"
  <2>1. /\ dpc \in ReadStages /\ ~Ended /\ size \in Sizes /\ pos \in Nat
        /\ item.terminate \in BOOLEAN /\ item.offset \in Sizes
    BY <1>1, <1>3, StageFacts DEF ControlInv, Stages, ReadStages, WriteStages, Ended, ItemOf
  <2>2. /\ bytes = 0 /\ data = <<>>
        /\ dpc \notin {"read", "read_file"} => buffer = Null
        /\ dpc \in {"read", "read_file"} => buffer = Room
    BY <1>1, <1>3, <2>1 DEF BufferInv
  <2>3. Room \in Sizes /\ Null \notin Sizes
    BY <2>1, RoomFacts, DeviceAssumption, WidthFacts
  <2>4. Entry.data \in Seq(Bytes) /\ Len(Entry.data) \in Nat
    BY <1>1 DEF DiskInv, Entry, Sound, Entries
  <2> USE DEF Return, Fail, ReturnSilently, Go
  <2>5. ASSUME dpc' = "returned", buffer' = Null, bytes' = 0, data' = <<>>
        PROVE  BufferInv'
    BY <2>5 DEF BufferInv, Ended
  <2>6. ASSUME dpc' \in ReadStages, bytes' = 0, data' = <<>>,
               IF dpc' \in {"read", "read_file"} THEN buffer' = Room' ELSE buffer' = Null
        PROVE  BufferInv'
    BY <2>6 DEF BufferInv, Ended, ReadStages
  <2>7. CASE OpenRead \/ SeekEnd \/ SeekEndDirectory \/ SeekSet \/ OpenToRead \/ Measure
    <3>1. /\ buffer' = Null /\ bytes' = 0 /\ data' = <<>>
          /\ dpc' \in (ReadStages \ {"read", "read_file"}) \cup {"returned"}
      BY <2>2, <2>7 DEF OpenRead, SeekEnd, SeekEndDirectory, SeekSet, OpenToRead, Measure,
           ReadStages
    <3>2. QED
      BY <2>5, <2>6, <3>1
  <2>8. CASE AllocBuffer
    <3>1. Room' = Room
      BY <1>1, <2>8 DEF AllocBuffer, Room
    <3>2. QED
      BY <2>2, <2>5, <2>6, <2>8, <3>1 DEF AllocBuffer, ReadStages
  <2>9. CASE SetPointer
    <3>1. CASE SeekRefused(item.offset)
      BY <2>2, <2>5, <2>9, <3>1 DEF SetPointer
    <3>2. CASE ~SeekRefused(item.offset)
      <4>1. size' = Part /\ buffer' = (Part + (IF item.terminate THEN 1 ELSE 0)) % (2 ^ Width)
            /\ dpc' = "read_file" /\ bytes' = 0 /\ data' = <<>>
        BY <2>2, <2>9, <3>2 DEF SetPointer
      <4>2. buffer' = Room'
        BY <1>1, <4>1 DEF Room
      <4>3. QED
        BY <2>6, <4>1, <4>2 DEF ReadStages
    <3>3. QED
      BY <3>1, <3>2
  <2>10. CASE ReadFails
    <3>1. dpc' = "returned" /\ buffer' = Null /\ bytes' = 0 /\ data' = <<>>
      BY <2>2, <2>10 DEF ReadFails
    <3>2. QED
      BY <2>5, <3>1
  <2>11. ASSUME NEW n \in Int, n <= pos + size, n <= Len(Entry.data)
         PROVE  Len(SubSeq(Entry.data, pos + 1, n)) \in Nat
                /\ Len(SubSeq(Entry.data, pos + 1, n)) <= size
    <3>1. \A i \in pos + 1 .. n : Entry.data[i] \in Bytes
      BY <2>1, <2>4, <2>11
    <3>2. Len(SubSeq(Entry.data, pos + 1, n)) = IF pos + 1 <= n THEN n - (pos + 1) + 1 ELSE 0
      BY <2>1, <2>11, <3>1, SubSeqProperties
    <3>3. QED
      BY <2>1, <2>11, <3>2, WidthFacts
  <2>12. ASSUME dpc' = "returned", result' = "OK", buffer' = buffer, size' = size,
                buffer = Room, bytes' = Len(data'), bytes' \in Nat, bytes' <= size,
                (platform = "windows" /\ item.terminate => size # 2 ^ Width - 1)
                  => size + (IF item.terminate THEN 1 ELSE 0) < 2 ^ Width
         PROVE  BufferInv'
    <3>1. buffer' # Null
      BY <2>3, <2>12
    <3>2. ASSUME platform = "windows" /\ item.terminate => size # 2 ^ Width - 1
          PROVE  bytes' + (IF item.terminate THEN 1 ELSE 0) <= buffer'
      <4>1. Room = size + (IF item.terminate THEN 1 ELSE 0)
        BY <2>1, <2>12, <3>2, RoomFacts
      <4>2. QED
        BY <2>1, <2>12, <4>1, WidthFacts
    <3>3. QED
      BY <1>1, <2>12, <3>1, <3>2 DEF BufferInv, Ended
  <2>13. CASE ReadBytes
    <3>1. /\ size < 2 ^ (Width - 1) /\ dpc = "read" /\ dpc' = "returned" /\ result' = "OK"
          /\ bytes' = Len(data') /\ buffer' = buffer /\ size' = size
      BY <2>13 DEF ReadBytes
    <3>2. Len(data') \in Nat /\ Len(data') <= size
      <4>1. Rest \in Seq(Bytes) /\ Len(Rest) <= size
        BY <2>1, <2>4, <2>11, <3>1, WidthFacts DEF Least, Rest
      <4>2. Len(data') \in Nat /\ Len(data') <= Len(Rest)
        BY <2>13, <4>1, ReadTransfers
      <4>3. QED
        BY <2>1, <4>1, <4>2, WidthFacts
    <3>3. size + (IF item.terminate THEN 1 ELSE 0) < 2 ^ Width
      BY <2>1, <3>1, WidthFacts
    <3>4. QED
      BY <2>2, <2>12, <3>1, <3>2, <3>3
  <2>14. CASE ReadOpened /\ platform = "windows"
    <3>1. /\ dpc = "read_file" /\ dpc' = "returned" /\ result' = "OK"
          /\ bytes' = Len(data') /\ buffer' = buffer /\ size' = size
      BY <2>14 DEF ReadOpened
    <3>2. Len(data') \in Nat /\ Len(data') <= size
      <4>1. CASE data' = <<>>
        BY <2>1, <4>1, WidthFacts
      <4>2. CASE data' = SubSeq(Entry.data, pos + 1, Least(pos + Dword(size), Len(Entry.data)))
        <5>1. Dword(size) \in Nat /\ Dword(size) <= size
          BY <2>1, DwordFacts, WidthFacts
        <5>2. PICK n \in Int : n = Least(pos + Dword(size), Len(Entry.data))
          BY <2>1, <2>4, <5>1 DEF Least
        <5>3. n <= pos + size /\ n <= Len(Entry.data)
          <6>1. size \in Nat
            BY <2>1, WidthFacts
          <6>2. QED
            BY <2>1, <2>4, <5>1, <5>2, <6>1 DEF Least
        <5>4. QED
          BY <2>11, <4>2, <5>2, <5>3
      <4>3. QED
        BY <2>2, <2>14, <4>1, <4>2 DEF ReadOpened
    <3>3. (platform = "windows" /\ item.terminate => size # 2 ^ Width - 1)
            => size + (IF item.terminate THEN 1 ELSE 0) < 2 ^ Width
      BY <2>1, <2>14, WidthFacts
    <3>4. QED
      BY <2>2, <2>12, <3>1, <3>2, <3>3
  <2>15. QED
    BY <1>3, <2>7, <2>8, <2>9, <2>10, <2>13, <2>14, StepsOf
<1>4. QED
  BY <1>2, <1>3

\* What is read from the position that the seek gives, in the size that the
\* unsigned arithmetic gives, is the part the item asks for.
LEMMA PartWasRead ==
  ASSUME item.offset \in Nat, item.max \in Nat, item.offset < 2 ^ Width,
         Entry.data \in Seq(Bytes), Len(Entry.data) <= LargestFile, size \in Nat, pos \in Nat,
         size = PartSize(item, Entry.data), pos = PartBegin(item, Entry.data)
  PROVE  SubSeq(Entry.data, pos + 1, Least(pos + size, Len(Entry.data)))
           = PartRead(item, Entry.data)
<1> DEFINE w == 2 ^ Width
           h == 2 ^ (Width - 1)
<1>1. PICK o \in Nat, m \in Nat, c \in Seq(Bytes), b \in Nat, n \in Nat :
        /\ o = item.offset /\ m = item.max /\ c = Entry.data /\ b = pos /\ n = size
  OBVIOUS
<1>2. Len(c) \in Nat /\ Len(c) < h /\ h \in Nat /\ w \in Nat \ {0} /\ w = 2 * h /\ o < w
  BY <1>1, WidthFacts
<1>3. b = (IF o < h THEN o ELSE Len(c)) /\ n = Least((Len(c) - o) % w, m)
  BY <1>1 DEF PartSize, PartBegin
<1> HIDE DEF w, h
<1>4. CASE o <= Len(c)
  <2>1. Len(c) - o \in Nat /\ Len(c) - o < w
    BY <1>2, <1>4
  <2>2. (Len(c) - o) % w = Len(c) - o
    BY <1>2, <2>1, ModFacts
  <2>3. b = o /\ n = Least(Len(c) - o, m)
    BY <1>2, <1>3, <1>4, <2>2
  <2>4. Least(b + n, Len(c)) = Least(o + m, Len(c))
    BY <1>2, <1>4, <2>3 DEF Least
  <2>5. QED
    BY <1>1, <2>3, <2>4 DEF PartRead
<1>5. CASE ~(o <= Len(c))
  <2>1. b >= Len(c)
    BY <1>2, <1>3, <1>5
  <2>2. SubSeq(c, b + 1, Least(b + n, Len(c))) = <<>>
    <3>1. Least(b + n, Len(c)) \in Int /\ Least(b + n, Len(c)) < b + 1
      BY <1>2, <2>1 DEF Least
    <3>2. QED
      BY <3>1, SubSeqEmpty
  <2>3. SubSeq(c, o + 1, Least(o + m, Len(c))) = <<>>
    <3>1. Least(o + m, Len(c)) \in Int /\ Least(o + m, Len(c)) < o + 1
      BY <1>2, <1>5 DEF Least
    <3>2. QED
      BY <3>1, SubSeqEmpty
  <2>4. QED
    BY <1>1, <2>2, <2>3 DEF PartRead
<1>6. QED
  BY <1>4, <1>5

LEMMA PartTyped ==
  ASSUME item.offset \in Nat, item.max \in Nat, Entry.data \in Seq(Bytes)
  PROVE  PartRead(item, Entry.data) \in Seq(Bytes)
<1>1. PICK o \in Nat, m \in Nat, c \in Seq(Bytes) :
        o = item.offset /\ m = item.max /\ c = Entry.data
  OBVIOUS
<1>2. /\ o + 1 \in Int /\ 1 <= o + 1 /\ Least(o + m, Len(c)) \in Int
      /\ Least(o + m, Len(c)) <= Len(c)
  BY DEF Least
<1>3. QED
  BY <1>1, <1>2 DEF PartRead

\* The part of a file that a read gets.
LEMMA PartStep ==
  ASSUME DiskInv, ControlInv, OpenInv, BufferInv, PartInv, Step
  PROVE  PartInv'
<1>1. /\ tpc = "item" /\ dev \in Devices /\ dpc \in Stages /\ item' = item
      /\ item.path \in Paths /\ platform' = platform /\ changed' = changed
  BY StageFacts DEF ItemOf
<1>2. CASE item.op # "READ" \/ changed
  BY <1>1, <1>2 DEF PartInv
<1>3. CASE item.op = "READ" /\ ~changed
  <2>1. /\ dpc \in ReadStages /\ ~Ended /\ size \in Sizes /\ pos \in Nat
        /\ item.offset \in Nat /\ item.offset < 2 ^ Width /\ item.max \in Nat /\ size \in Nat
    BY <1>1, <1>3, StageFacts, WidthFacts
       DEF ControlInv, Stages, ReadStages, WriteStages, Ended, ItemOf
  <2>2. data = <<>> /\ (dpc \notin {"read", "read_file"} => buffer = Null)
    BY <1>1, <1>3, <2>1 DEF BufferInv
  <2>3. Entry' = Entry
    BY <1>3, DiskStepReading DEF ReadOps
  <2>4. Entry.data \in Seq(Bytes) /\ Len(Entry.data) \in Nat /\ Len(Entry.data) <= LargestFile
    BY <1>1 DEF DiskInv, Entry, Sound, Entries
  <2> USE DEF Return, Fail, ReturnSilently, Go
  <2>5. ASSUME dpc' = "returned", buffer' = Null \/ result' # "OK" PROVE PartInv'
    BY <2>5 DEF PartInv, Ended
  <2>6. ASSUME dpc' \in {"seek_end", "measure"} PROVE PartInv'
    BY <2>6 DEF PartInv, Ended
  <2>7. ASSUME dpc' \in {"alloc", "read", "read_file"},
               Entry.kind = "file" =>
                 size' = PartSize(item, Entry.data) /\ pos' = PartBegin(item, Entry.data)
        PROVE  PartInv'
    BY <1>1, <2>3, <2>7 DEF PartInv, Ended
  <2>8. ASSUME dpc' = "returned", platform = "windows" => data' # <<>> /\ size < 2 ^ DwordWidth,
               size' = size, Got(data', PartRead(item, Entry.data))
        PROVE  PartInv'
    BY <1>1, <2>3, <2>8 DEF PartInv, Ended, Got
  <2>9. CASE OpenRead \/ OpenToRead \/ ReadFails
    <3>1. dpc' \in {"seek_end", "measure"} \/ (dpc' = "returned" /\ buffer' = Null)
      BY <2>2, <2>9 DEF OpenRead, OpenToRead, ReadFails
    <3>2. QED
      BY <2>5, <2>6, <3>1
  <2>10. CASE SeekEnd \/ SeekEndDirectory \/ Measure
    <3>1. \/ dpc' = "returned" /\ buffer' = Null
          \/ dpc' = "seek_set" /\ Entry.kind = "file" /\ size' = Len(Entry.data)
             /\ pos' = Len(Entry.data)
          \/ dpc' = "seek_set" /\ Entry.kind = "dir"
          \/ dpc' = "set_pointer" /\ size' = Len(Entry.data)
      BY <2>2, <2>10 DEF SeekEnd, SeekEndDirectory, Measure
    <3>2. CASE dpc' \in {"seek_set", "set_pointer"}
      BY <1>1, <2>3, <3>1, <3>2 DEF PartInv, Ended
    <3>3. QED
      BY <2>5, <3>1, <3>2
  <2>11. CASE SeekSet
    <3>1. dpc = "seek_set" /\ dpc' = "alloc" /\ size' = Part
          /\ pos' = IF item.offset < 2 ^ (Width - 1) THEN item.offset ELSE pos
      BY <2>11 DEF SeekSet
    <3>2. Entry.kind = "file" => size = Len(Entry.data) /\ pos = Len(Entry.data)
      BY <1>1, <1>3, <3>1 DEF PartInv
    <3>3. QED
      BY <2>7, <3>1, <3>2 DEF Part, PartSize, PartBegin
  <2>12. CASE AllocBuffer
    <3>1. dpc = "alloc" /\ size' = size /\ pos' = pos
          /\ (dpc' = "read" \/ (dpc' = "returned" /\ buffer' = Null))
      BY <2>12 DEF AllocBuffer
    <3>2. Entry.kind = "file" =>
            size = PartSize(item, Entry.data) /\ pos = PartBegin(item, Entry.data)
      BY <1>1, <1>3, <3>1 DEF PartInv
    <3>3. QED
      BY <2>5, <2>7, <3>1, <3>2
  <2>13. CASE SetPointer
    <3>1. CASE SeekRefused(item.offset)
      BY <2>2, <2>5, <2>13, <3>1 DEF SetPointer
    <3>2. CASE ~SeekRefused(item.offset)
      <4>1. /\ dpc = "set_pointer" /\ dpc' = "read_file" /\ size' = Part /\ pos' = item.offset
        BY <2>13, <3>2 DEF SetPointer
      <4>2. Entry.kind = "file" => size = Len(Entry.data)
        BY <1>1, <1>3, <4>1 DEF PartInv
      <4>3. item.offset < 2 ^ (Width - 1)
        BY <2>1, <3>2, WidthFacts DEF SeekRefused
      <4>4. QED
        BY <2>7, <4>1, <4>2, <4>3 DEF Part, PartSize, PartBegin
    <3>3. QED
      BY <3>1, <3>2
  <2>14. CASE ReadBytes /\ platform = "posix"
    <3>1. /\ dpc = "read" /\ dpc' = "returned" /\ Entry.kind = "file" /\ size' = size
          /\ size < 2 ^ (Width - 1)
      BY <2>14 DEF ReadBytes
    <3>2. size = PartSize(item, Entry.data) /\ pos = PartBegin(item, Entry.data)
      BY <1>1, <1>3, <3>1 DEF PartInv
    <3>3. Rest = PartRead(item, Entry.data) /\ Rest \in Seq(Bytes)
      BY <2>1, <2>4, <3>1, <3>2, PartWasRead, PartTyped DEF Rest
    <3>4. Got(data', PartRead(item, Entry.data))
      BY <2>14, <3>3, ReadTransfers DEF Got
    <3>5. QED
      BY <2>8, <2>14, <3>1, <3>4
  <2>15. CASE ReadOpened /\ platform = "windows"
    <3>1. /\ dpc = "read_file" /\ dpc' = "returned" /\ size' = size
          /\ Entry.kind = "file" /\ platform' = platform
          /\ \/ data' = SubSeq(Entry.data, pos + 1, Least(pos + Dword(size), Len(Entry.data)))
             \/ data' = <<>>
      BY <1>1, <2>2, <2>15 DEF ReadOpened, OpenInv
    <3>2. size = PartSize(item, Entry.data) /\ pos = PartBegin(item, Entry.data)
      BY <1>1, <1>3, <3>1 DEF PartInv
    <3>3. ASSUME data' # <<>>, size < 2 ^ DwordWidth
          PROVE  Got(data', PartRead(item, Entry.data))
      <4>1. Dword(size) = size
        BY <2>1, <3>3, DwordFacts
      <4>2. data' = PartRead(item, Entry.data)
        BY <2>1, <2>4, <3>1, <3>2, <3>3, <4>1, PartWasRead
      <4>3. QED
        BY <4>2 DEF Got, IsPrefix
    <3>4. QED
      BY <1>1, <2>3, <2>15, <3>1, <3>3 DEF PartInv, Ended, Got
  <2>16. QED
    BY <1>3, <2>9, <2>10, <2>11, <2>12, <2>13, <2>14, <2>15, StepsOf
<1>4. QED
  BY <1>2, <1>3

\* What a read operation passes over.
LEMMA SearchStep ==
  ASSUME DiskInv, ControlInv, OpenInv, SearchInv, Step
  PROVE  SearchInv'
<1>1. /\ tpc = "item" /\ dev \in Devices /\ dpc \in Stages /\ item.path \in Paths
      /\ UNCHANGED <<item, dev, changed, platform, mounted, tpc>>
      /\ dpc' \in Stages \cup {"returned"}
  BY StageFacts DEF ItemOf
<1>2. ~Ended /\ tpc' = "item" /\ (Ended' => dpc' = "returned")
  BY <1>1 DEF Ended, Stages, ReadStages, WriteStages
<1>3. Sound(Entry) /\ Entry.kind \in {"none", "dir", "file"}
  BY <1>1 DEF DiskInv, Entry, Sound, Entries
<1> USE CodeFacts DEF Return, Fail, ReturnSilently, Go
<1>4. ASSUME item.op = "SIZE", ~changed
      PROVE  \A d \in mounted : PassedOver(d)' => disk'[d][item.path].kind = "none"
  <2>1. dpc' = "returned" /\ result' = "NOT_FOUND" => Entry.kind = "none"
    <3>1. CASE FileSize
      BY <1>3, <3>1 DEF FileSize
    <3>2. CASE FileSizeFails
      BY <3>2 DEF FileSizeFails
    <3>3. CASE SizeOfOpened
      <4>1. Entry.kind = "none" \/ result' # "NOT_FOUND"
        BY <1>3, <3>3 DEF SizeOfOpened, OpenErrors
      <4>2. QED
        BY <4>1
    <3>4. QED
      BY <1>4, <3>1, <3>2, <3>3, StepsOf
  <2>2. \A d \in mounted : PassedOver(d) => disk[d][item.path].kind = "none"
    BY <1>1, <1>4 DEF SearchInv
  <2>3. disk' = disk
    BY <1>4, DiskStepReading DEF ReadOps
  <2>4. QED
    BY <1>1, <1>2, <2>1, <2>2, <2>3 DEF PassedOver, Entry
<1>5. ASSUME item.op = "READ", platform = "posix", ~changed
      PROVE  \A d \in mounted : PassedOver(d)' => disk'[d][item.path].data = <<>>
  <2>1. dpc' = "returned" /\ result' = "NOT_FOUND" => Entry.data = <<>>
    <3>1. CASE OpenRead \/ SeekEnd \/ SeekEndDirectory
      BY <1>3, <3>1 DEF OpenRead, SeekEnd, SeekEndDirectory, Sound
    <3>2. CASE SeekSet \/ AllocBuffer \/ ReadBytes
      BY <3>2 DEF SeekSet, AllocBuffer, ReadBytes
    <3>3. CASE ReadFails
      BY <3>3 DEF ReadFails, ReadErrors
    <3>4. QED
      BY <1>5, <3>1, <3>2, <3>3, StepsOf
  <2>2. \A d \in mounted : PassedOver(d) => disk[d][item.path].data = <<>>
    BY <1>1, <1>5 DEF SearchInv
  <2>3. disk' = disk
    BY <1>5, DiskStepReading DEF ReadOps
  <2>4. QED
    BY <1>1, <1>2, <2>1, <2>2, <2>3 DEF PassedOver, Entry
<1>6. QED
  BY <1>1, <1>2, <1>4, <1>5 DEF SearchInv


\* What a write has done.
LEMMA WriteStep ==
  ASSUME DiskInv, ControlInv, OpenInv, WriteInv, Step
  PROVE  WriteInv'
<1> DEFINE old == before[item.path]
           opened == IF Truncates THEN <<>> ELSE old.data
<1>1. /\ tpc = "item" /\ dev \in Devices /\ dpc \in Stages /\ item.path \in Paths
      /\ UNCHANGED <<item, dev, changed, tpc, before>> /\ ItemOf(item)
      /\ dpc' \in Stages \cup {"returned"}
  BY StageFacts DEF ItemOf
<1>2. CASE item.op # "WRITE" \/ changed
  BY <1>1, <1>2 DEF WriteInv
<1>3. CASE item.op = "WRITE" /\ ~changed
  <2>1. /\ item.data \in Seq(Bytes) /\ item.offset \in Nat /\ pos \in Nat
        /\ item.mode \in {"TRUNCATE", "APPEND", "SEGMENT"}
        /\ item.mode # "SEGMENT" => item.offset = 0
    BY <1>1, <1>3, WidthFacts DEF ItemOf, ControlInv
  <2>2. dev # Null /\ ~Ended /\ (Ended' => dpc' = "returned")
    BY <1>1, DeviceAssumption DEF Ended, Stages, ReadStages, WriteStages
  <2>3. /\ Sound(old)
        /\ dpc = "WRITE" => Entry = old
        /\ dpc \in WriteStages \ {"WRITE"} => old.kind # "dir" /\ Entry = File(opened)
        /\ dpc = "write" => pos = item.offset
        /\ dpc = "write_file" =>
             pos = CASE item.mode = "TRUNCATE" -> 0
                     [] item.mode = "APPEND" -> Len(Entry.data)
                     [] item.mode = "SEGMENT" -> item.offset
    BY <1>1, <1>3, <2>2 DEF WriteInv
  <2>4. /\ old \in Entries /\ old.data \in Seq(Bytes) /\ opened \in Seq(Bytes)
        /\ Len(opened) <= LargestFile /\ Len(opened) \in Nat
    BY <2>3, WidthFacts DEF Sound, Entries
  <2>6. \A e : SetEntry(e) => Entry' = e
    BY <1>1 DEF SetEntry, Entry, DiskInv
  <2>7. disk' = disk => Entry' = Entry
    BY <1>1 DEF Entry
  <2> USE DEF Return, Fail, Go
  \* It has failed after the file was opened.
  <2>8. ASSUME dpc \in WriteStages \ {"WRITE"}, disk' = disk, dpc' = "returned", result' # "OK"
        PROVE  WriteInv'
    <3>1. Entry' = File(opened) /\ old.kind \in {"none", "file"}
      BY <2>3, <2>4, <2>7, <2>8 DEF Entries
    <3>2. \/ Entry' = old
          \/ Entry' = File(<<>>) /\ (item.mode = "TRUNCATE" \/ old = Absent)
      <4>1. CASE Truncates
        BY <3>1, <4>1 DEF Truncates
      <4>2. CASE ~Truncates /\ old.kind = "file"
        BY <2>4, <3>1, <4>2 DEF Entries, File
      <4>3. CASE ~Truncates /\ old.kind = "none"
        BY <2>3, <2>4, <3>1, <4>3 DEF Entries, Sound, Absent, File
      <4>4. QED
        BY <3>1, <4>1, <4>2, <4>3
    <3>3. QED
      BY <1>1, <2>3, <2>8, <3>2 DEF WriteInv, WriteDone, WriteStages
  \* The file was opened, or could not be.
  <2>9. CASE OpenWrite \/ OpenToWrite
    <3>1. dpc = "WRITE" /\ Entry = old
      BY <2>3, <2>9 DEF OpenWrite, OpenToWrite
    <3>2. CASE dpc' \in {"seek_write", "set_write_pointer"}
      <4>1. Entry.kind # "dir" /\ SetEntry(File(IF Truncates THEN <<>> ELSE Entry.data))
        BY <2>9, <3>2 DEF OpenWrite, OpenToWrite
      <4>2. Entry' = File(opened) /\ old.kind # "dir"
        BY <2>6, <3>1, <4>1
      <4>3. QED
        BY <1>1, <2>3, <3>2, <4>2 DEF WriteInv, Truncates, Ended
    <3>3. CASE dpc' = "returned"
      <4>1. disk' = disk /\ result' # "OK"
        BY <2>9, <3>3, CodeFacts DEF OpenWrite, OpenToWrite
      <4>2. Entry' = old
        BY <2>7, <3>1, <4>1
      <4>3. QED
        BY <1>1, <2>3, <3>3, <4>1, <4>2 DEF WriteInv, WriteDone, WriteStages
    <3>4. QED
      BY <2>9, <3>2, <3>3 DEF OpenWrite, OpenToWrite
  <2>10. CASE SeekWrite \/ SetWritePointer \/ WriteFails
    <3>1. /\ dpc \in WriteStages \ {"WRITE"} /\ disk' = disk
          /\ \/ dpc' = "returned" /\ result' # "OK"
             \/ dpc' = "write" /\ pos' = item.offset
             \/ dpc' = "write_file" /\
                  pos' = CASE item.mode = "TRUNCATE" -> 0
                           [] item.mode = "APPEND" -> Len(Entry.data)
                           [] item.mode = "SEGMENT" -> item.offset
      BY <2>10, CodeFacts DEF SeekWrite, SetWritePointer, WriteFails, WriteStages
    <3>2. CASE dpc' # "returned"
      <4>1. Entry' = Entry /\ Entry = File(opened) /\ old.kind # "dir"
        BY <2>3, <2>7, <3>1
      <4>2. QED
        BY <1>1, <2>3, <3>1, <3>2, <4>1 DEF WriteInv, Truncates, Ended, WriteStages
    <3>3. QED
      BY <2>8, <3>1, <3>2
  \* Bytes were written.
  <2>11. ASSUME NEW k \in 0 .. Len(item.data), NEW at \in Nat, at + k <= LargestFile,
                at = (CASE item.mode = "TRUNCATE" -> 0
                        [] item.mode = "APPEND" -> Len(opened)
                        [] item.mode = "SEGMENT" -> item.offset),
                Entry' = File(Overwritten(opened, at, k)),
                dpc' = "returned", result' = "OK", bytes' = k
         PROVE  WriteInv'
    <3> DEFINE written == SubSeq(item.data, 1, k)
               new == CASE item.mode = "TRUNCATE" -> written
                        [] item.mode = "APPEND" -> old.data \o written
                        [] item.mode = "SEGMENT" -> Overwritten(old.data, item.offset, k)
    <3>1. at = Len(opened) => Overwritten(opened, at, k) = opened \o written
      BY ONLY <2>1, <2>4, <2>11, OverwrittenFacts
    <3>2. Overwritten(opened, at, k) = new
      <4>1. CASE item.mode = "TRUNCATE"
        <5>1. opened = <<>> /\ at = 0 /\ Len(opened) = 0
          BY <2>11, <4>1 DEF Truncates
        <5>2. written \in Seq(Bytes)
          <6>1. Len(item.data) \in Nat /\ k \in Nat /\ k <= Len(item.data)
            BY <2>1, <2>11
          <6>2. QED
            BY <2>1, <6>1
        <5>3. <<>> \o written = written
          BY <5>2, EmptySeq, ConcatEmptySeq
        <5>4. QED
          BY <3>1, <4>1, <5>1, <5>3
      <4>2. CASE item.mode = "APPEND"
        BY <2>11, <3>1, <4>2 DEF Truncates
      <4>3. CASE item.mode = "SEGMENT"
        BY <2>11, <4>3 DEF Truncates
      <4>4. QED
        BY <2>1, <4>1, <4>2, <4>3
    <3>3. Entry' = File(new)
      BY <2>11, <3>2
    <3> HIDE DEF opened
    <3>4. WriteDone'
      BY <1>1, <2>11, <3>3 DEF WriteDone, Overwritten
    <3>5. QED
      BY <1>1, <2>3, <2>11, <3>4 DEF WriteInv, WriteStages
  <2>12. CASE WriteBytes
    <3>1. PICK k \in IF item.data = <<>> THEN {0} ELSE 1 .. Len(item.data) :
            /\ WritePosition + k <= LargestFile
            /\ SetEntry(File(Overwritten(Entry.data, WritePosition, k)))
            /\ dpc' = "returned" /\ result' = "OK" /\ bytes' = k
      BY <2>12 DEF WriteBytes
    <3>2. k \in 0 .. Len(item.data)
      BY <2>1, <3>1
    <3>3. dpc = "write"
      BY <2>12 DEF WriteBytes
    <3>4. Entry.data = opened /\ pos = item.offset
      BY <2>3, <3>3 DEF File, WriteStages
    <3>5. /\ WritePosition \in Nat
          /\ WritePosition = (CASE item.mode = "TRUNCATE" -> 0
                                [] item.mode = "APPEND" -> Len(opened)
                                [] item.mode = "SEGMENT" -> item.offset)
      BY <2>1, <2>4, <3>4 DEF WritePosition
    <3>6. PICK at \in Nat : at = WritePosition
      BY <3>5
    <3>7. Entry' = File(Overwritten(opened, at, k))
      BY <2>6, <3>1, <3>4, <3>6
    <3>8. QED
      BY <2>11, <3>1, <3>2, <3>5, <3>6, <3>7
  <2>13. CASE WriteOpened
    <3>1. dpc = "write_file" /\ dpc' = "returned"
      BY <2>13 DEF WriteOpened
    <3>2. CASE result' # "OK"
      <4>1. disk' = disk
        BY <2>13, <3>2 DEF WriteOpened
      <4>2. QED
        BY <2>8, <3>1, <3>2, <4>1 DEF WriteStages
    <3>3. CASE result' = "OK"
      <4>1. Dword(Len(item.data)) \in 0 .. Len(item.data)
        <5>1. Len(item.data) \in Nat
          BY <2>1
        <5>2. QED
          BY <5>1, DwordFacts
      <4>2. PICK k \in 0 .. Len(item.data), at \in Nat : k = Dword(Len(item.data)) /\ at = pos
        BY <2>1, <4>1
      <4>3. /\ at + k <= LargestFile /\ SetEntry(File(Overwritten(Entry.data, at, k)))
            /\ bytes' = k
        BY <2>13, <3>3, <4>2 DEF WriteOpened
      <4>4. Entry.data = opened
        BY <2>3, <3>1 DEF File, WriteStages
      <4>5. at = (CASE item.mode = "TRUNCATE" -> 0
                    [] item.mode = "APPEND" -> Len(opened)
                    [] item.mode = "SEGMENT" -> item.offset)
        BY <2>3, <3>1, <4>2, <4>4
      <4>6. Entry' = File(Overwritten(opened, at, k))
        BY <2>6, <4>3, <4>4
      <4>7. QED
        BY <2>11, <3>1, <3>3, <4>3, <4>5, <4>6
    <3>4. QED
      BY <3>2, <3>3
  <2>14. QED
    BY <1>3, <2>9, <2>10, <2>12, <2>13, StepsOf
<1>4. QED
  BY <1>2, <1>3

\* What deleteDir() has done.
LEMMA DeleteStep ==
  ASSUME DiskInv, ControlInv, OpenInv, DeleteInv, Step
  PROVE  DeleteInv'
<1>1. /\ tpc = "item" /\ dev \in Devices /\ dpc \in Stages /\ item.path \in Paths
      /\ UNCHANGED <<item, dev, changed, tpc, before>>
      /\ dpc' \in Stages \cup {"returned"}
  BY StageFacts DEF ItemOf
<1>2. CASE item.op # "DELETE_DIR" \/ changed
  BY <1>1, <1>2 DEF DeleteInv
<1>3. CASE item.op = "DELETE_DIR" /\ ~changed
  <2>1. dev # Null
    BY <1>1, DeviceAssumption
  <2>2. dpc = "DELETE_DIR" => Untouched
    BY <1>1, <1>3, <2>1 DEF DeleteInv
  <2>3. dpc = "remove" => Entry.kind # "none"
    BY <1>1, <1>3, <2>1 DEF DeleteInv
  <2>4. Entry.kind = "none" => Subtree(dev, item.path) = {}
    BY <1>1, NothingBelow DEF Subtree, Entry
  <2>5. Entry.kind # "none" => Subtree(dev, item.path) # {}
    BY <1>1, PathFacts DEF Subtree, Entry
  <2>6. ASSUME disk' = disk
        PROVE  /\ Subtree(dev, item.path)' = Subtree(dev, item.path)
               /\ Entry' = Entry /\ (Untouched => Untouched')
    BY <1>1, <2>6 DEF Subtree, Entry, Untouched
  <2> USE DEF Return, Go
  <2>7. CASE OpenTree \/ ShellDelete
    <3>1. disk' = disk /\ dpc = "DELETE_DIR"
      BY <2>7 DEF OpenTree, ShellDelete
    <3>2. CASE dpc' = "remove"
      BY <1>1, <2>6, <2>7, <3>1, <3>2 DEF DeleteInv, Ended, OpenTree, ShellDelete
    <3>3. CASE dpc' = "returned"
      <4>1. result' = "NOT_FOUND" => Entry.kind = "none"
        BY <2>7, <3>3 DEF OpenTree, ShellDelete
      <4>2. DeleteDirDone'
        BY <1>1, <2>2, <2>4, <2>6, <3>1, <4>1 DEF DeleteDirDone
      <4>3. QED
        BY <3>3, <4>2 DEF DeleteInv
    <3>4. QED
      BY <2>7, <3>2, <3>3 DEF OpenTree, ShellDelete
  <2>8. CASE RemoveFails \/ ShellDeleteFails
    <3>1. /\ disk' = disk /\ dpc = "remove" /\ dpc' = "returned"
          /\ result' # "OK" /\ result' # "NOT_FOUND"
      BY <1>3, <2>8, CodeFacts DEF RemoveFails, ShellDeleteFails
    <3>2. DeleteDirDone'
      BY <1>1, <2>3, <2>5, <2>6, <3>1 DEF DeleteDirDone
    <3>3. QED
      BY <3>1, <3>2 DEF DeleteInv
  <2>9. CASE RemoveEntry
    <3>1. PICK p \in Paths :
            /\ Removable(p)
            /\ disk' = [disk EXCEPT ![dev][p] = Absent]
            /\ IF p = item.path THEN Return("OK", bytes) ELSE Go("remove", "remove")
      BY <2>9 DEF RemoveEntry
    <3>2. \A q \in Paths : disk'[dev][q] = IF q = p THEN Absent ELSE disk[dev][q]
      <4>1. Removable(p) /\ disk' = [disk EXCEPT ![dev][p] = Absent]
        BY <3>1
      <4>2. dev \in Devices /\ item.path \in Paths
        BY <1>1
      <4>3. \A c \in Devices, q \in Paths :
              disk'[c][q] = IF c = dev /\ q = p THEN Absent ELSE disk[c][q]
        BY ONLY DiskInv, <4>1, <4>2, RemoveChange
      <4>4. QED
        BY <4>2, <4>3
    <3>3. CASE p = item.path
      <4>1. \A q \in Paths : IsPrefix(p, q) /\ q # p => disk[dev][q].kind = "none"
        BY <3>1 DEF Removable, Subtree
      <4>2. Subtree(dev, item.path)' = {}
        BY <1>1, <3>2, <3>3, <4>1 DEF Subtree, Absent
      <4>3. DeleteDirDone' /\ dpc' = "returned"
        BY <1>1, <3>1, <3>3, <4>2 DEF DeleteDirDone
      <4>4. QED
        BY <4>3 DEF DeleteInv
    <3>4. CASE p # item.path
      <4>1. Entry' = Entry
        BY <1>1, <3>2, <3>4 DEF Entry
      <4>2. QED
        BY <2>3, <3>1, <3>4, <4>1 DEF DeleteInv, Ended
    <3>5. QED
      BY <3>3, <3>4
  <2>10. QED
    BY <1>3, <2>7, <2>8, <2>9, StepsOf
<1>4. QED
  BY <1>2, <1>3

-----------------------------------------------------------------------------
(* The inductive invariant.                                                *)

\* The parameters of a new item.
LEMMA ItemsFacts ==
  ASSUME NEW op \in Operations, NEW i \in Items(op)
  PROVE  i.op = op /\ ItemOf(i)
<1>1. i.op = op /\ i.path \in Paths
  BY DEF Items
<1>2. CASE op = "READ"
  <2>1. PICK r \in Reads : i.offset = r.offset /\ i.max = r.max /\ i.terminate = r.terminate
    BY <1>2 DEF Items
  <2>2. r \in [offset : Sizes, max : Sizes, terminate : BOOLEAN]
    BY OverlayAssumption
  <2>3. QED
    BY <1>1, <1>2, <2>1, <2>2 DEF ItemOf
<1>3. CASE op = "WRITE"
  <2>1. PICK w \in Writes : i.mode = w.mode /\ i.offset = w.offset /\ i.data = w.data
    BY <1>3 DEF Items
  <2>2. /\ w \in [mode : {"TRUNCATE", "APPEND", "SEGMENT"}, offset : Sizes, data : Seq(Bytes)]
        /\ w.mode # "SEGMENT" => w.offset = 0
    BY OverlayAssumption
  <2>3. QED
    BY <1>1, <1>3, <2>1, <2>2 DEF ItemOf
<1>4. CASE op \notin {"READ", "WRITE"}
  BY <1>1, <1>4 DEF ItemOf
<1>5. QED
  BY <1>2, <1>3, <1>4

\* The largest of some devices.
LEMMA MaxDevice ==
  ASSUME NEW S \in SUBSET Devices, S # {}
  PROVE  Max(S) \in S /\ \A d \in S : d <= Max(S)
<1>1. S \in SUBSET Nat /\ IsFiniteSet(S)
  BY DeviceAssumption, FS_Subset
<1>2. QED
  BY <1>1, MaxFacts

LEMMA StartItemInv ==
  ASSUME IInv, StartItem
  PROVE  IInv'
<1> USE DEF IInv
<1>1. PICK op \in Operations, found \in SUBSET mounted :
        /\ item' \in Items(op)
        /\ op \in ReadOps => found = mounted
        /\ dev' = IF found = {} THEN Null ELSE Max(found)
        /\ dpc' = IF found = {} THEN "returned" ELSE op
        /\ result' = IF op \in ReadOps THEN "NOT_FOUND"
                     ELSE IF found = {} THEN "UNSUPPORTED" ELSE Null
  <2>1. PICK op \in Operations :
          /\ item' \in Items(op)
          /\ LET found == IF op \in ReadOps THEN mounted ELSE mounted \cap Writable
             IN  /\ dev' = IF found = {} THEN Null ELSE Max(found)
                 /\ dpc' = IF found = {} THEN "returned" ELSE op
                 /\ result' = IF op \in ReadOps THEN "NOT_FOUND"
                              ELSE IF found = {} THEN "UNSUPPORTED" ELSE Null
    BY DEF StartItem
  <2>2. QED
    BY <2>1
<1>2. /\ tpc = "idle" /\ tpc' = "item" /\ bytes' = 0
      /\ before' = IF dev' = Null THEN Null ELSE disk[dev']
      /\ UNCHANGED <<disk, size, pos, buffer, data, changed, platform, mounted>>
  BY DEF StartItem, mountVars
<1>3. buffer = Null /\ data = <<>> /\ ~changed
  BY <1>2 DEF IdleInv
<1>4. item'.op = op /\ ItemOf(item') /\ item'.path \in Paths
  BY <1>1, ItemsFacts DEF ItemOf
<1>5. mounted \subseteq Devices /\ Null \notin Devices
  BY DeviceAssumption DEF ControlInv
<1>6. found # {} => dev' \in found /\ dev' \in Devices /\ \A d \in found : d <= dev'
  BY <1>1, <1>5, MaxDevice
<1>7. op \in {"EXISTS", "SIZE", "READ", "WRITE", "DELETE", "CREATE_DIR", "DELETE_DIR"}
  BY OverlayAssumption DEF ReadOps
<1>8. dpc' \in {"returned", op} /\ (dpc' = "returned" <=> found = {})
  BY <1>1, <1>7
<1>9. DiskInv'
  BY <1>2 DEF DiskInv
<1>10. ControlInv'
  <2>1. /\ dpc' \in Stages \cup {"returned"}
        /\ dpc' \in ReadStages => op = "READ"
        /\ dpc' \in WriteStages => op = "WRITE"
        /\ dpc' # "remove"
        /\ dpc' \in {"EXISTS", "SIZE", "DELETE", "CREATE_DIR", "DELETE_DIR"} => op = dpc'
        /\ dpc' \in Stages => found # {}
        /\ dpc' # "none"
    BY <1>7, <1>8 DEF Stages, ReadStages, WriteStages
  <2>2. result' \in Codes \cup {Null}
    BY <1>1 DEF Codes
  <2>3. /\ dev' \in Devices \cup {Null}
        /\ op \in ReadOps /\ dev' = Null => mounted = {} /\ result' = "NOT_FOUND"
    <3>1. op \in ReadOps => found = mounted /\ result' = "NOT_FOUND"
      BY <1>1
    <3>2. QED
      BY <1>1, <1>5, <1>6, <3>1
  <2>4. /\ platform \in Platforms /\ changed \in BOOLEAN /\ data \in Seq(Bytes)
        /\ size \in Sizes /\ pos \in Nat /\ buffer \in Sizes \cup {Null}
    BY DEF ControlInv
  <2>5. QED
    BY <1>2, <1>4, <1>5, <1>6, <2>1, <2>2, <2>3, <2>4 DEF ControlInv
<1>11. OpenInv' /\ IdleInv'
  BY <1>2, <1>7, <1>8 DEF OpenInv, IdleInv, WriteStages
<1>12. SearchInv'
  <2>1. ASSUME op \in ReadOps, NEW d \in mounted PROVE ~PassedOver(d)'
    <3>1. found = mounted /\ d <= dev' /\ d \in Nat /\ dev' \in Nat /\ found # {}
      BY <1>1, <1>5, <1>6, <2>1, DeviceAssumption
    <3>2. dpc' \notin {"returned", "none"}
      BY <1>7, <1>8, <3>1
    <3>3. QED
      BY <3>1, <3>2 DEF PassedOver, Ended
  <2>2. QED
    BY <1>2, <1>4, <2>1 DEF SearchInv, ReadOps
<1>13. BufferInv' /\ PartInv'
  BY <1>1, <1>2, <1>3, <1>4, <1>7, <1>8 DEF BufferInv, PartInv, Ended, ReadOps
<1>14. ASSUME dev' # Null
       PROVE  /\ Entry' = before'[item'.path] /\ Sound(before'[item'.path])
              /\ before' = disk[dev'] /\ dpc' = op
  BY <1>1, <1>2, <1>4, <1>5, <1>6, <1>14 DEF Entry, DiskInv
<1>15. WriteInv'
  BY <1>4, <1>7, <1>14 DEF WriteInv, Ended, WriteStages
<1>16. DeleteInv'
  BY <1>2, <1>4, <1>7, <1>14 DEF DeleteInv, Ended, Untouched
<1>17. QED
  BY <1>9, <1>10, <1>11, <1>12, <1>13, <1>15, <1>16

LEMMA AskOlderInv ==
  ASSUME IInv, AskOlder
  PROVE  IInv'
<1> USE DEF IInv
<1>1. /\ tpc = "item" /\ dpc = "returned" /\ item.op \in ReadOps /\ dev # Null
      /\ result = "NOT_FOUND" /\ Older # {} /\ dev' = Max(Older) /\ dpc' = item.op
      /\ UNCHANGED <<disk, item, size, pos, buffer, data, bytes, result, changed,
                     tpc, items, before, platform, mounted, foreign>>
  BY DEF AskOlder, GoesOn, itemVars, mountVars
<1>2. dev \in Devices /\ mounted \subseteq Devices /\ Devices \subseteq Nat /\ Null \notin Devices
  BY <1>1, DeviceAssumption DEF ControlInv
<1>3. dev' \in mounted /\ dev' \in Devices /\ dev' < dev /\ \A d \in mounted : d < dev => d <= dev'
  <2>1. Older \in SUBSET Devices
    BY <1>2 DEF Older
  <2>2. dev' \in Older /\ \A d \in Older : d <= dev'
    BY <1>1, <2>1, MaxDevice
  <2>3. QED
    BY <1>2, <2>2 DEF Older
<1>4. ItemOf(item)
  BY <1>1 DEF ControlInv
<1>5. DiskInv'
  BY <1>1 DEF DiskInv
<1>6. ControlInv'
  BY <1>1, <1>2, <1>3, <1>4 DEF ControlInv, Stages, ReadStages, WriteStages, ReadOps
<1>7. OpenInv' /\ IdleInv' /\ ~Ended'
  BY <1>1 DEF OpenInv, IdleInv, Ended, WriteStages, ReadOps
<1>8. SearchInv'
  <2>1. ASSUME NEW d \in mounted, PassedOver(d)' PROVE PassedOver(d)
    <3>1. d > dev'
      BY <1>7, <2>1 DEF PassedOver
    <3>2. d >= dev
      BY <1>2, <1>3, <3>1
    <3>3. QED
      BY <1>1, <1>2, <3>2 DEF PassedOver, Ended
  <2>2. QED
    BY <1>1, <2>1 DEF SearchInv
<1>9. BufferInv'
  BY <1>1, <1>7 DEF BufferInv, Ended, ReadOps
<1>10. PartInv' /\ WriteInv' /\ DeleteInv'
  BY <1>1, <1>7 DEF PartInv, WriteInv, DeleteInv, ReadOps
<1>11. QED
  BY <1>5, <1>6, <1>7, <1>8, <1>9, <1>10

LEMMA FinishInv ==
  ASSUME IInv, Finish
  PROVE  IInv'
<1> USE DEF IInv
<1>1. /\ tpc = "item" /\ tpc' = "finish" /\ dpc = "returned" /\ dpc' = "none"
      /\ item.op \in ReadOps /\ dev # Null => result # "NOT_FOUND" \/ Older = {}
      /\ UNCHANGED <<disk, item, dev, size, pos, buffer, data, bytes, result, changed,
                     before, platform, mounted>>
  BY DEF Finish, GoesOn, mountVars
<1>2. Ended /\ Ended'
  BY <1>1 DEF Ended
<1>3. DiskInv' /\ OpenInv' /\ IdleInv'
  BY <1>1 DEF DiskInv, OpenInv, IdleInv, WriteStages
<1>4. ControlInv'
  BY <1>1 DEF ControlInv, Stages, ReadStages, WriteStages
<1>5. SearchInv'
  <2>1. ASSUME item.op \in ReadOps, result = "NOT_FOUND", NEW d \in mounted PROVE dev <= d
    <3>1. dev \in Devices /\ Older = {}
      BY <1>1, <2>1 DEF ControlInv
    <3>2. d \in Nat /\ dev \in Nat
      BY <3>1, DeviceAssumption DEF ControlInv
    <3>3. QED
      BY <3>1, <3>2 DEF Older
  <2>2. \A d \in mounted : PassedOver(d)' => PassedOver(d)
    BY <1>1, <1>2 DEF PassedOver
  <2>3. QED
    BY <1>1, <2>1, <2>2 DEF SearchInv
<1>6. Entry' = Entry /\ Room' = Room
  BY <1>1 DEF Entry, Room
<1>7. BufferInv' /\ PartInv'
  BY <1>1, <1>2, <1>6 DEF BufferInv, PartInv, Got
<1>8. WriteInv'
  <2>1. WriteDone' <=> WriteDone
    BY <1>1, <1>6 DEF WriteDone, Overwritten
  <2>2. QED
    BY <1>1, <1>2, <2>1 DEF WriteInv, WriteStages
<1>9. DeleteInv'
  <2>1. DeleteDirDone' <=> DeleteDirDone
    BY <1>1 DEF DeleteDirDone, Subtree, Untouched
  <2>2. QED
    BY <1>1, <1>2, <2>1 DEF DeleteInv
<1>10. QED
  BY <1>3, <1>4, <1>5, <1>7, <1>8, <1>9

\* The item is handed back, and a device is mounted or released between two.
LEMMA IdleActionsInv ==
  ASSUME IInv, HandBack \/ CreateDevice \/ DestroyDevice
  PROVE  IInv'
<1> USE DEF IInv
<1>1. tpc' = "idle" /\ dpc' = dpc /\ disk' = disk /\ platform' = platform
  BY DEF HandBack, CreateDevice, DestroyDevice, deviceVars, itemVars, mountVars
<1>2. dpc = "none"
  BY DEF HandBack, CreateDevice, DestroyDevice, ControlInv
<1>3. DiskInv'
  BY <1>1 DEF DiskInv
<1>4. OpenInv' /\ SearchInv' /\ BufferInv' /\ PartInv' /\ WriteInv' /\ DeleteInv'
  BY <1>1, <1>2 DEF OpenInv, SearchInv, BufferInv, PartInv, WriteInv, DeleteInv, WriteStages
<1>5. ControlInv' /\ IdleInv'
  <2>1. CASE HandBack
    <3>1. <<>> \in Seq(Bytes) /\ 0 \in Sizes
      BY EmptySeq, WidthFacts
    <3>2. QED
      BY <1>1, <1>2, <2>1, <3>1 DEF HandBack, ControlInv, IdleInv, mountVars,
           Stages, ReadStages, WriteStages
  <2>2. CASE CreateDevice \/ DestroyDevice
    <3>1. mounted' \subseteq Devices /\ tpc = "idle"
      BY <2>2 DEF CreateDevice, DestroyDevice, ControlInv
    <3>2. UNCHANGED <<item, dev, size, pos, buffer, data, bytes, result, changed>>
      BY <2>2 DEF CreateDevice, DestroyDevice, deviceVars
    <3>3. QED
      BY <1>1, <1>2, <3>1, <3>2 DEF ControlInv, IdleInv, Stages, ReadStages, WriteStages
  <2>3. QED
    BY <2>1, <2>2
<1>6. QED
  BY <1>3, <1>4, <1>5

\* Another process changes a file: none that the function has open is created
\* or removed, and unless it is said none that the function is concerned with
\* changes.
LEMMA ForeignInv ==
  ASSUME IInv, Foreign
  PROVE  IInv'
<1> USE DEF IInv
<1>1. PICK d \in Devices, p \in Paths, e \in Entries :
        /\ disk[d][p].kind # "dir"
        /\ Len(p) > 1 => disk[d][Front(p)].kind = "dir"
        /\ Sound(e)
        /\ Open(d, p) => e.kind = disk[d][p].kind
        /\ disk' = [disk EXCEPT ![d][p] = e]
        /\ changed' = (changed \/ (tpc # "idle" /\ (IsPrefix(item.path, p) \/ IsPrefix(p, item.path))))
  <2>1. PICK d \in Devices, p \in Paths :
          /\ disk[d][p].kind # "dir"
          /\ Len(p) > 1 => disk[d][Front(p)].kind = "dir"
          /\ \E e \in (IF Open(d, p) THEN {disk[d][p]} ELSE {Absent}) \cup {File(c) : c \in Contents} :
               /\ Open(d, p) => e.kind = disk[d][p].kind
               /\ e # disk[d][p]
               /\ disk' = [disk EXCEPT ![d][p] = e]
          /\ changed' = (changed \/ (tpc # "idle" /\ (IsPrefix(item.path, p) \/ IsPrefix(p, item.path))))
    BY DEF Foreign
  <2>2. PICK e \in {disk[d][p], Absent} \cup {File(c) : c \in Contents} :
          /\ Open(d, p) => e.kind = disk[d][p].kind
          /\ disk' = [disk EXCEPT ![d][p] = e]
    BY <2>1
  <2>3. Sound(disk[d][p]) /\ Sound(Absent) /\ \A c \in Contents : Sound(File(c))
    BY SoundEntries, OverlayAssumption DEF DiskInv
  <2>4. Sound(e) /\ e \in Entries
    BY <2>2, <2>3 DEF Sound
  <2>5. QED
    BY <2>1, <2>2, <2>4
<1>2. UNCHANGED <<item, dev, dpc, size, pos, buffer, data, bytes, result, platform, mounted,
                  tpc, items, before>>
  BY DEF Foreign, mountVars
<1>3. /\ DiskInv'
      /\ \A c \in Devices, q \in Paths :
           disk'[c][q] = IF c = d /\ q = p THEN e ELSE disk[c][q]
  <2>1. \A q \in Paths : Len(q) > 1 /\ Front(q) = p => disk[d][q].kind = "none"
    BY <1>1 DEF DiskInv
  <2>2. /\ Sound(e)
        /\ Len(p) > 1 /\ e.kind # "none" => disk[d][Front(p)].kind = "dir"
        /\ \/ e.kind = "dir"
           \/ \A q \in Paths : Len(q) > 1 /\ Front(q) = p => disk[d][q].kind = "none"
        /\ disk' = [disk EXCEPT ![d][p] = e]
    BY <1>1, <2>1
  <2>3. QED
    BY ONLY DiskInv, <2>2, EntryChange
<1>4. changed \in BOOLEAN /\ changed' \in BOOLEAN
  BY <1>1 DEF ControlInv
<1>5. ControlInv'
  BY <1>2, <1>4 DEF ControlInv
<1>6. IdleInv'
  BY <1>1, <1>2 DEF IdleInv
<1>7. OpenInv'
  <2>1. ASSUME dpc \in Stages PROVE Entry'.kind = Entry.kind
    <3>1. dev \in Devices /\ item.path \in Paths /\ tpc = "item"
      BY <2>1 DEF ControlInv, ItemOf, Stages, ReadStages, WriteStages
    <3>2. QED
      BY <1>1, <1>2, <1>3, <3>1 DEF Entry, Open
  <2>2. QED
    BY <1>2, <2>1 DEF OpenInv, Stages, ReadStages, WriteStages
<1>8. ASSUME tpc # "idle", ~changed'
      PROVE  /\ ~changed /\ item.path \in Paths
             /\ \A c \in Devices, q \in Paths :
                  IsPrefix(item.path, q) => disk'[c][q] = disk[c][q]
             /\ \A c \in Devices : disk'[c][item.path] = disk[c][item.path]
  <2>1. item.path \in Paths
    BY <1>8 DEF ControlInv, ItemOf
  <2>2. ~changed /\ ~IsPrefix(item.path, p)
    BY <1>1, <1>8
  <2>3. IsPrefix(item.path, item.path)
    BY <2>1, PathFacts
  <2>4. QED
    BY <1>3, <2>1, <2>2, <2>3
<1>9. SearchInv'
  <2>1. mounted \subseteq Devices
    BY DEF ControlInv
  <2>2. \A c \in mounted : PassedOver(c)' = PassedOver(c)
    BY <1>2 DEF PassedOver, Ended
  <2>3. QED
    BY <1>2, <1>8, <2>1, <2>2 DEF SearchInv
<1>10. BufferInv'
  <2>1. Ended' = Ended /\ Room' = Room
    BY <1>2 DEF Ended, Room
  <2>2. QED
    BY <1>2, <2>1 DEF BufferInv
<1>11. ASSUME tpc # "idle", ~changed', dev # Null
       PROVE  /\ Entry' = Entry /\ ~changed
              /\ Subtree(dev, item.path)' = Subtree(dev, item.path)
              /\ Untouched' <=> Untouched
  <2>1. dev \in Devices
    BY <1>11 DEF ControlInv
  <2>2. QED
    BY <1>2, <1>8, <1>11, <2>1 DEF Entry, Subtree, Untouched
<1>12. PartInv'
  <2>1. CASE dev # Null
    BY <1>2, <1>11, <2>1 DEF PartInv, Ended, Got
  <2>2. CASE dev = Null
    <3>1. tpc # "idle" /\ item.op = "READ" => result = "NOT_FOUND" /\ dpc \notin Stages
      BY <2>2, DeviceAssumption DEF ControlInv, ReadOps
    <3>2. QED
      BY <1>2, <3>1 DEF PartInv, Stages, ReadStages
  <2>3. QED
    BY <2>1, <2>2
<1>13. WriteInv'
  <2>1. ASSUME Entry' = Entry PROVE WriteDone' <=> WriteDone
    BY <1>2, <2>1 DEF WriteDone, Overwritten
  <2>2. QED
    BY <1>2, <1>11, <2>1 DEF WriteInv, Ended, Truncates
<1>14. DeleteInv'
  <2>1. ASSUME Subtree(dev, item.path)' = Subtree(dev, item.path), Untouched' <=> Untouched
        PROVE  DeleteDirDone' <=> DeleteDirDone
    BY <1>2, <2>1 DEF DeleteDirDone
  <2>2. QED
    BY <1>2, <1>11, <2>1 DEF DeleteInv, Ended
<1>15. QED
  BY <1>3, <1>5, <1>6, <1>7, <1>9, <1>10, <1>12, <1>13, <1>14

LEMMA InitInv ==
  ASSUME Init
  PROVE  IInv
<1>1. DiskInv
  <2>1. \A e \in {Absent, Directory} \cup {File(c) : c \in Contents} : Sound(e) /\ e \in Entries
    BY SoundEntries, OverlayAssumption DEF Sound
  <2>2. Trees \subseteq [Paths -> Entries]
    BY <2>1 DEF Trees
  <2>3. disk \in [Devices -> [Paths -> Entries]]
    BY <2>2 DEF Init
  <2>4. ASSUME NEW d \in Devices, NEW p \in Paths
        PROVE  /\ Sound(disk[d][p])
               /\ Len(p) > 1 /\ disk[d][p].kind # "none" => disk[d][Front(p)].kind = "dir"
    <3>1. disk[d] \in Trees
      BY DEF Init
    <3>2. QED
      BY <2>1, <3>1 DEF Trees, Absent
  <2>5. QED
    BY <2>3, <2>4 DEF DiskInv
<1>2. ControlInv
  <2>1. <<>> \in Seq(Bytes) /\ 0 \in Sizes
    BY EmptySeq, WidthFacts
  <2>2. QED
    BY <2>1 DEF Init, ControlInv, Stages, ReadStages, WriteStages
<1>3. OpenInv /\ IdleInv /\ SearchInv /\ BufferInv /\ PartInv /\ WriteInv /\ DeleteInv
  BY DEF Init, OpenInv, IdleInv, SearchInv, BufferInv, PartInv, WriteInv, DeleteInv, WriteStages
<1>4. QED
  BY <1>1, <1>2, <1>3 DEF IInv

LEMMA StepInv ==
  ASSUME IInv, Step
  PROVE  IInv'
<1>1. DiskInv' /\ OpenInv' /\ ControlInv'
  BY DiskStep, ControlStep DEF IInv
<1>2. BufferInv' /\ PartInv'
  BY BufferStep, PartStep DEF IInv
<1>3. SearchInv' /\ WriteInv' /\ DeleteInv'
  BY SearchStep, WriteStep, DeleteStep DEF IInv
<1>4. IdleInv'
  BY StageFacts DEF IInv, IdleInv
<1>5. QED
  BY <1>1, <1>2, <1>3, <1>4 DEF IInv

LEMMA StutterInv ==
  ASSUME IInv, UNCHANGED vars
  PROVE  IInv'
<1> USE DEF IInv, vars, deviceVars, itemVars, mountVars
<1>1. DiskInv' /\ IdleInv'
  BY DEF DiskInv, IdleInv
<1>2. ControlInv'
  BY DEF ControlInv
<1>3. Entry' = Entry /\ Room' = Room /\ Ended' = Ended
  BY DEF Entry, Room, Ended
<1>4. OpenInv' /\ BufferInv' /\ PartInv'
  BY <1>3 DEF OpenInv, BufferInv, PartInv, Got
<1>5. SearchInv'
  BY <1>3 DEF SearchInv, PassedOver
<1>6. WriteInv'
  <2>1. WriteDone' <=> WriteDone
    BY <1>3 DEF WriteDone, Overwritten
  <2>2. QED
    BY <1>3, <2>1 DEF WriteInv, Truncates
<1>7. DeleteInv'
  BY <1>3 DEF DeleteInv, DeleteDirDone, Untouched, Subtree
<1>8. QED
  BY <1>1, <1>2, <1>4, <1>5, <1>6, <1>7

LEMMA Invariance == Spec => []IInv
<1>1. Init => IInv
  BY InitInv
<1>2. IInv /\ [Next]_vars => IInv'
  BY StartItemInv, StepInv, AskOlderInv, FinishInv, IdleActionsInv, ForeignInv, StutterInv
     DEF Next, Quiescent
<1>3. QED
  BY <1>1, <1>2, PTL DEF Spec

-----------------------------------------------------------------------------
(* What is proved of the run's invariants.                                 *)

\* Every variable keeps its type, and the entries of a device stay a tree
\* whatever readFile(), writeFile(), deleteFile(), createDir() and deleteDir()
\* and the other processes do to them (Directory.cpp:208-583).
THEOREM TypesCorrect == Spec => []TypeOK
<1>1. IInv => TypeOK
  <2> SUFFICES ASSUME IInv PROVE TypeOK
    OBVIOUS
  <2> USE DEF IInv
  <2>1. /\ disk \in [Devices -> [Paths -> Entries]]
        /\ \A d \in Devices, p \in Paths :
             Len(p) > 1 /\ disk[d][p].kind # "none" => disk[d][Front(p)].kind = "dir"
    BY DEF DiskInv
  <2>2. item.op \in Operations \cup {Null}
    BY DEF ControlInv, ItemOf, NoItem
  <2>3. dpc \in {"none", "returned", "seek_end", "seek_set", "alloc", "read", "seek_write",
                 "write", "remove", "measure", "set_pointer", "read_file", "set_write_pointer",
                 "write_file"} \cup Operations
    <3>1. dpc \in Stages => item.op \in Operations
      BY DEF ControlInv, ItemOf, Stages, ReadStages, WriteStages
    <3>2. QED
      BY <3>1 DEF ControlInv, Stages, ReadStages, WriteStages
  <2>4. QED
    BY <2>1, <2>2, <2>3 DEF ControlInv, TypeOK, Entries, Codes
<1>2. QED
  BY <1>1, Invariance, PTL

\* An error of a newer device never uncovers an older version of a file:
\* workItemReadFile() and workItemGetFileSize() go on to the next mount only
\* when the device says "not found" (FileContext.cpp:684-687, 699-702), and it
\* says so, on POSIX, of nothing but a path without a byte to read
\* (Directory.cpp:219-246, 299-350).
THEOREM SearchPassesOnlyEmpty == Spec => []PassesOnlyEmpty
<1>1. IInv => PassesOnlyEmpty
  <2> SUFFICES ASSUME IInv, ~changed, tpc = "finish" PROVE PassesOnlyEmpty
    BY DEF PassesOnlyEmpty, Finished
  <2> USE DEF IInv
  <2>1. Ended /\ mounted \subseteq Devices /\ dev \in Devices \cup {Null}
    BY DEF ControlInv, Ended, Stages
  <2>2. ASSUME item.op \in ReadOps, NEW d \in Passed PROVE PassedOver(d) /\ d \in mounted
    <3>1. d \in mounted /\ (result = "NOT_FOUND" \/ d > dev)
      BY <2>2 DEF Passed
    <3>2. CASE d > dev
      BY <3>1, <3>2 DEF PassedOver
    <3>3. CASE result = "NOT_FOUND"
      <4>1. dev <= d /\ dev \in Devices
        BY <2>1, <2>2, <3>1, <3>3 DEF SearchInv, ControlInv
      <4>2. dev \in Nat /\ d \in Nat
        BY <2>1, <3>1, <4>1, DeviceAssumption
      <4>3. QED
        BY <2>1, <3>1, <3>3, <4>1, <4>2 DEF PassedOver
    <3>4. QED
      BY <3>1, <3>2, <3>3
  <2>3. Finished("SIZE") => \A d \in Passed : disk[d][item.path].kind = "none"
    BY <2>2 DEF SearchInv, Finished, ReadOps
  <2>4. Finished("READ") /\ platform = "posix" =>
          \A d \in Passed : disk[d][item.path].data = <<>>
    BY <2>2 DEF SearchInv, Finished, ReadOps
  <2>5. QED
    BY <2>3, <2>4 DEF PassesOnlyEmpty
<1>2. QED
  BY <1>1, Invariance, PTL

\* readFile() never writes past the buffer it has allocated, with the
\* terminator and in unsigned arithmetic, although the file may grow or shrink
\* between the calls that measure and read it, and a read that failed leaves
\* no buffer behind (Directory.cpp:257-335).
THEOREM ReadBufferFits == Spec => []BufferFits
<1>1. IInv => BufferFits
  <2> SUFFICES ASSUME IInv, tpc = "finish", item.op = "READ" PROVE BufferFits
    BY DEF BufferFits, Finished
  <2>1. Ended
    BY DEF IInv, ControlInv, Ended
  <2>2. QED
    BY <2>1 DEF IInv, BufferInv, BufferFits
<1>2. QED
  BY <1>1, Invariance, PTL

\* What readFile() reads is the beginning of the part of the file it was asked
\* for, wherever that part begins and however long it is, and not empty unless
\* the part is: the subtraction that wraps and the seek that fails end in the
\* bytes of the definition of the part (Directory.cpp:257-335).  It is not all
\* of the part when the one read() comes back short (lines 315-331).
THEOREM ReadGetsPart == Spec => []ReadsPart
<1>1. IInv => ReadsPart
  <2> SUFFICES ASSUME IInv, tpc = "finish", item.op = "READ" PROVE ReadsPart
    BY DEF ReadsPart, Finished
  <2>1. Ended
    BY DEF IInv, ControlInv, Ended
  <2>2. QED
    BY <2>1 DEF IInv, PartInv, PartRead, Got, Entry, ReadsPart
<1>2. QED
  BY <1>1, Invariance, PTL

\* writeFile() reports the bytes it has put where it was told to, has left all
\* others alone, and when it fails has at most created or truncated the file
\* (Directory.cpp:360-444).
THEOREM WritesAsReported == Spec => []WriteReported
<1>1. IInv => WriteReported
  <2> SUFFICES ASSUME IInv, tpc = "finish", item.op = "WRITE", dev # Null, ~changed
               PROVE  WriteReported
    BY DEF WriteReported, Finished
  <2>1. WriteDone
    BY DEF IInv, ControlInv, WriteInv, Ended
  <2>2. QED
    BY <2>1 DEF WriteDone, Entry, WriteReported
<1>2. QED
  BY <1>1, Invariance, PTL

\* deleteDir() reports a tree it has removed a part of: when it ends well the
\* tree is gone or untouched, and when it fails the directory is still there
\* to try again (Directory.cpp:499-583).
THEOREM DeletesDirAsReported == Spec => []DeleteDirReported
<1>1. IInv => DeleteDirReported
  <2> SUFFICES ASSUME IInv, tpc = "finish", item.op = "DELETE_DIR", dev # Null, ~changed
               PROVE  DeleteDirReported
    BY DEF DeleteDirReported, Finished
  <2>1. DeleteDirDone
    BY DEF IInv, ControlInv, DeleteInv, Ended
  <2>2. QED
    BY <2>1 DEF DeleteDirDone, Untouched, DeleteDirReported
<1>2. QED
  BY <1>1, Invariance, PTL
=============================================================================
