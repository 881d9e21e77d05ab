------------------------- MODULE NormalizePathProofs -------------------------
(***************************************************************************)
(* For paths of every length, normalizePath() stays inside its buffer: no  *)
(* round reads behind the terminator, the write cursor stays behind the    *)
(* read cursor, and nothing is overwritten before it was read.  What it    *)
(* leaves is in normal form, and is the path resolved segment by segment.  *)
(***************************************************************************)
EXTENDS NormalizePath, SequenceFacts, TLAPS

\* Inductive: the cursors are kept inside the buffer by the terminator, which
\* is still where it was given because the rest of the path is.
CursorInv ==
  /\ input \in Seq(Chars)
  /\ NPTypeOK
  /\ UnreadIntact

\* The terminator has not moved.
LEMMA EndInPlace ==
  ASSUME CursorInv, pc = "scan"
  PROVE  path[Len(input)] = NUL
<1>1. Len(input) \in Nat /\ path[Len(input)] = Given(input)[Len(input)]
  BY LenProperties DEF CursorInv, NPTypeOK, UnreadIntact
<1>2. Given(input)[Len(input)] = NUL
  BY <1>1 DEF Given
<1> QED
  BY <1>1, <1>2

LEMMA CursorInvInit == NPInit => CursorInv
<1> SUFFICES ASSUME NPInit
             PROVE  CursorInv
  OBVIOUS
<1>1. PICK n \in 0 .. MaxLen : input \in [1 .. n -> Chars]
  BY DEF NPInit
<1>2. n \in Nat
  BY LengthAssumption
<1>3. input \in Seq(Chars) /\ Len(input) = n
  BY <1>1, <1>2, LenProperties
<1>4. \A i \in 1 .. n : input[i] \in Chars
  BY <1>1
<1>5. path = [i \in 0 .. n |-> IF i < n THEN input[i + 1] ELSE NUL]
  BY <1>3 DEF NPInit, Given
<1>6. path \in [0 .. n -> Chars \cup {NUL}]
  BY <1>2, <1>4, <1>5
<1>7. NPTypeOK
  BY <1>2, <1>3, <1>6 DEF NPInit, NPTypeOK
<1>8. UnreadIntact
  BY DEF NPInit, UnreadIntact
<1> QED
  BY <1>3, <1>7, <1>8 DEF CursorInv

\* In a skipped round nothing is written, and the read cursor stops
\* at the terminator at the latest.
LEMMA SkipKeeps ==
  ASSUME CursorInv, pc = "scan", pc' = pc, UNCHANGED <<input, path>>,
         readPos' \in readPos .. Len(input), writePos' \in 0 .. writePos
  PROVE  CursorInv'
<1>1. Len(input) \in Nat
  BY LenProperties DEF CursorInv
<1>2. NPTypeOK'
  BY <1>1 DEF CursorInv, NPTypeOK
<1>3. UnreadIntact'
  BY <1>1 DEF CursorInv, NPTypeOK, UnreadIntact
<1> QED
  BY <1>2, <1>3 DEF CursorInv

LEMMA CursorInvSkip == CursorInv /\ (SkipSlash \/ SkipParent \/ SkipThis) => CursorInv'
<1> SUFFICES ASSUME CursorInv, SkipSlash \/ SkipParent \/ SkipThis
             PROVE  CursorInv'
  OBVIOUS
<1> DEFINE L == Len(input)
<1>1. L \in Nat /\ readPos \in 0 .. L /\ writePos \in 0 .. readPos
  BY LenProperties DEF CursorInv, NPTypeOK
<1>2. pc = "scan"
  BY DEF SkipSlash, SkipParent, SkipThis
<1>3. path[L] = NUL
  BY <1>2, EndInPlace
<1>4. NUL # "/" /\ NUL # "."
  BY CharacterAssumption
<1>5. At(0) = "/" => readPos < L
  BY <1>1, <1>3, <1>4 DEF At
<1>6. At(0) = "/" /\ At(1) \in {"/", "."} => readPos + 1 < L
  BY <1>1, <1>3, <1>4, <1>5 DEF At
<1>7. CASE SkipSlash
  <2>1. readPos' \in readPos .. L
    BY <1>1, <1>5, <1>7 DEF SkipSlash, SlashSlash
  <2>2. writePos' \in 0 .. writePos
    BY <1>1, <1>7 DEF SkipSlash
  <2> QED
    BY <1>2, <1>7, <2>1, <2>2, SkipKeeps DEF SkipSlash
<1>8. CASE SkipParent
  <2>1. At(0) = "/" /\ At(1) = "." /\ At(2) = "."
    BY <1>8 DEF SkipParent, SlashParent
  <2>2. readPos + 1 < L
    BY <1>6, <2>1
  <2>3. readPos + 2 < L
    BY <1>1, <1>3, <1>4, <2>1, <2>2 DEF At
  <2>4. readPos' \in readPos .. L
    BY <1>1, <1>8, <2>3 DEF SkipParent
  <2>5. writePos' \in 0 .. writePos
    BY <1>1, <1>8 DEF SkipParent, BackUp
  <2> QED
    BY <1>2, <1>8, <2>4, <2>5, SkipKeeps DEF SkipParent
<1>9. CASE SkipThis
  <2>1. At(0) = "/" /\ At(1) = "."
    BY <1>9 DEF SkipThis, SlashThis
  <2>2. readPos' \in readPos .. L
    BY <1>1, <1>6, <1>9, <2>1 DEF SkipThis
  <2>3. writePos' \in 0 .. writePos
    BY <1>1, <1>9 DEF SkipThis
  <2> QED
    BY <1>2, <1>9, <2>2, <2>3, SkipKeeps DEF SkipThis
<1> QED
  BY <1>7, <1>8, <1>9

\* The character copied lands at or before the place it was read from.
LEMMA CursorInvCopy == CursorInv /\ (Copy \/ CopyEnd) => CursorInv'
<1> SUFFICES ASSUME CursorInv, Copy \/ CopyEnd
             PROVE  CursorInv'
  OBVIOUS
<1> DEFINE L == Len(input)
<1>1. /\ L \in Nat /\ readPos \in 0 .. L /\ writePos \in 0 .. readPos
      /\ path \in [0 .. L -> Chars \cup {NUL}]
  BY LenProperties DEF CursorInv, NPTypeOK
<1>2. pc = "scan"
  BY DEF Copy, CopyEnd
<1>3. path[L] = NUL
  BY <1>2, EndInPlace
<1>4. At(0) \in Chars \cup {NUL}
  BY <1>1 DEF At
<1>5. CASE Copy
  <2>1. readPos < L
    BY <1>1, <1>3, <1>5 DEF Copy, At
  <2>2. path' \in [0 .. L -> Chars \cup {NUL}]
    BY <1>1, <1>4, <1>5 DEF Copy
  <2>3. NPTypeOK'
    BY <1>1, <1>5, <2>1, <2>2 DEF Copy, NPTypeOK
  <2>4. \A i \in readPos + 1 .. L : path'[i] = path[i]
    BY <1>1, <1>5 DEF Copy
  <2>5. \A i \in readPos .. L : path[i] = Given(input)[i]
    BY <1>2 DEF CursorInv, UnreadIntact
  <2>6. UnreadIntact'
    <3>1. input' = input /\ readPos' = readPos + 1
      BY <1>5 DEF Copy
    <3>2. \A i \in readPos' .. L : path'[i] = Given(input)[i]
      BY <1>1, <2>4, <2>5, <3>1
    <3> QED
      BY <3>1, <3>2 DEF UnreadIntact
  <2> QED
    BY <1>5, <2>3, <2>6 DEF CursorInv, Copy
<1>6. CASE CopyEnd
  <2>1. path' \in [0 .. L -> Chars \cup {NUL}]
    BY <1>1, <1>6 DEF CopyEnd
  <2>2. NPTypeOK'
    BY <1>1, <1>6, <2>1 DEF CopyEnd, NPTypeOK
  <2> QED
    BY <1>6, <2>2 DEF CursorInv, CopyEnd, UnreadIntact
<1> QED
  BY <1>5, <1>6

LEMMA CursorInvTidy == CursorInv /\ Tidy => CursorInv'
<1> SUFFICES ASSUME CursorInv, Tidy
             PROVE  CursorInv'
  OBVIOUS
<1> DEFINE L == Len(input)
<1>1. /\ L \in Nat /\ readPos \in 0 .. L /\ writePos \in 0 .. readPos
      /\ path \in [0 .. L -> Chars \cup {NUL}]
  BY LenProperties DEF CursorInv, NPTypeOK
<1>2. Trimmed \in [0 .. L -> Chars \cup {NUL}]
  BY <1>1 DEF Trimmed
<1>3. "/" \in Chars
  BY DEF Chars
<1>4. path' \in [0 .. L -> Chars \cup {NUL}]
  <2>1. CASE Trimmed[0] = NUL /\ Len(input) >= 1
    BY <1>2, <1>3, <2>1 DEF Tidy
  <2>2. CASE ~(Trimmed[0] = NUL /\ Len(input) >= 1)
    BY <1>2, <2>2 DEF Tidy
  <2> QED
    BY <2>1, <2>2
<1>5. NPTypeOK'
  BY <1>1, <1>4 DEF Tidy, NPTypeOK
<1> QED
  BY <1>5 DEF CursorInv, Tidy, UnreadIntact

LEMMA CursorInvNext == CursorInv /\ [NPNext]_npVars => CursorInv'
<1> SUFFICES ASSUME CursorInv, [NPNext]_npVars
             PROVE  CursorInv'
  OBVIOUS
<1>1. CASE SkipSlash \/ SkipParent \/ SkipThis
  BY <1>1, CursorInvSkip
<1>2. CASE Copy \/ CopyEnd
  BY <1>2, CursorInvCopy
<1>3. CASE Tidy
  BY <1>3, CursorInvTidy
<1>4. CASE UNCHANGED npVars
  BY <1>4 DEF npVars, CursorInv, NPTypeOK, UnreadIntact
<1> QED
  BY <1>1, <1>2, <1>3, <1>4 DEF NPNext, Done

LEMMA CursorInvariance == NPSpec => []CursorInv
  BY CursorInvInit, CursorInvNext, PTL DEF NPSpec

\* The cursors never leave the buffer of a path, however long it is: every
\* access of normalizePath() is inside it (FileContext.cpp:352-391).
THEOREM CursorsStayInside == NPSpec => []NPTypeOK
<1>1. CursorInv => NPTypeOK
  BY DEF CursorInv
<1> QED
  BY CursorInvariance, <1>1, PTL

\* What is still to be read of a path is as it was given, although the result
\* is written over the same bytes (FileContext.cpp:352-391).
THEOREM UnreadStaysIntact == NPSpec => []UnreadIntact
<1>1. CursorInv => UnreadIntact
  BY DEF CursorInv
<1> QED
  BY CursorInvariance, <1>1, PTL

-----------------------------------------------------------------------------
(* The form of the result.                                                 *)

\* The k-th character from the read cursor on, of the path that was given.
Ahead(k) == Given(input)[readPos + k]

\* A slash that a, b, c follow begins a segment that vanishes.
Void(a, b, c) ==
  a = "/" \/ (a = "." /\ b \in {NUL, "/"}) \/ (a = "." /\ b = "." /\ c \in {NUL, "/"})

\* The path given ends with the terminator and has none before.
LEMMA GivenEnds ==
  ASSUME input \in Seq(Chars)
  PROVE  /\ \A i \in 0 .. Len(input) - 1 : Given(input)[i] \in Chars /\ Given(input)[i] # NUL
         /\ Given(input)[Len(input)] = NUL
<1>1. Len(input) \in Nat
  BY LenProperties
<1>2. \A i \in 0 .. Len(input) - 1 : Given(input)[i] = input[i + 1] /\ i + 1 \in 1 .. Len(input)
  BY <1>1 DEF Given
<1>3. \A i \in 1 .. Len(input) : input[i] \in Chars
  BY ElementOfSeq
<1>4. NUL \notin Chars
  BY CharacterAssumption DEF Chars
<1>5. QED
  BY <1>1, <1>2, <1>3, <1>4 DEF Given

\* The tests of a round ask for what was given, and do not read behind it.
LEMMA TestsAhead ==
  ASSUME CursorInv, pc = "scan"
  PROVE  /\ At(0) = Ahead(0)
         /\ Ahead(0) = NUL <=> readPos = Len(input)
         /\ Ahead(0) = "/" =>
              (SlashSlash \/ SlashThis \/ SlashParent <=> Void(Ahead(1), Ahead(2), Ahead(3)))
         /\ SlashSlash \/ SlashThis \/ SlashParent => Ahead(0) = "/"
<1> DEFINE L == Len(input)
           g == Given(input)
<1>1. /\ L \in Nat /\ readPos \in 0 .. L
      /\ \A i \in readPos .. L : path[i] = g[i]
  BY LenProperties DEF CursorInv, NPTypeOK, UnreadIntact
<1>2. /\ \A i \in 0 .. L - 1 : g[i] \in Chars
      /\ g[L] = NUL
  BY GivenEnds DEF CursorInv
<1>3. NUL \notin Chars
  BY CharacterAssumption DEF Chars
<1> HIDE DEF g, L
<1>g. g = Given(input) /\ L = Len(input)
  BY DEF g, L
<1>4. At(0) = g[readPos] /\ (g[readPos] = NUL <=> readPos = L)
  BY <1>1, <1>2, <1>3 DEF At
<1>5. g[readPos] # NUL => At(1) = g[readPos + 1] /\ readPos + 1 \in 0 .. L
  BY <1>1, <1>4 DEF At
<1>6. g[readPos] # NUL /\ g[readPos + 1] # NUL => At(2) = g[readPos + 2] /\ readPos + 2 \in 0 .. L
  BY <1>1, <1>2, <1>5 DEF At
<1>7. g[readPos] # NUL /\ g[readPos + 1] # NUL /\ g[readPos + 2] # NUL => At(3) = g[readPos + 3]
  BY <1>1, <1>2, <1>6 DEF At
<1>8. NUL # "/" /\ NUL # "."
  BY CharacterAssumption
<1>9. /\ SlashSlash <=> g[readPos] = "/" /\ g[readPos + 1] = "/"
      /\ SlashThis <=> g[readPos] = "/" /\ g[readPos + 1] = "." /\ g[readPos + 2] \in {NUL, "/"}
      /\ SlashParent <=> /\ g[readPos] = "/" /\ g[readPos + 1] = "." /\ g[readPos + 2] = "."
                         /\ g[readPos + 3] \in {NUL, "/"}
  BY <1>4, <1>5, <1>6, <1>7, <1>8 DEF SlashSlash, SlashThis, SlashParent
<1>10. /\ Ahead(0) = g[readPos] /\ Ahead(1) = g[readPos + 1] /\ Ahead(2) = g[readPos + 2]
       /\ Ahead(3) = g[readPos + 3]
  BY <1>1, <1>g DEF Ahead
<1>11. QED
  BY <1>4, <1>9, <1>10, <1>g DEF Void

\* No segment that was written vanishes, as far as it is finished.
Clean(p, w) ==
  \A i \in 0 .. w - 1 :
    /\ p[i] # NUL
    /\ p[i] = "/" /\ i + 1 < w => p[i + 1] # "/"
    /\ p[i] = "/" /\ i + 2 < w /\ p[i + 1] = "." => p[i + 2] # "/"
    /\ p[i] = "/" /\ i + 3 < w /\ p[i + 1] = "." /\ p[i + 2] = "." => p[i + 3] # "/"

\* Where the last segment written is the beginning of one that vanishes, the
\* characters x, y, z that follow go on differently.
Joins(p, w, x, y, z) ==
  /\ w > 0 /\ p[w - 1] = "/" => ~Void(x, y, z)
  /\ w > 1 /\ p[w - 2] = "/" /\ p[w - 1] = "." => ~Void(".", x, y)
  /\ w > 2 /\ p[w - 3] = "/" /\ p[w - 2] = "." /\ p[w - 1] = "." => ~Void(".", ".", x)

\* What was written before w does not depend on what lies behind.
LEMMA SameFront ==
  ASSUME NEW M \in Nat, NEW p \in [0 .. M -> Chars \cup {NUL}],
         NEW q \in [0 .. M -> Chars \cup {NUL}], NEW w \in 0 .. M + 1,
         \A i \in 0 .. w - 1 : q[i] = p[i],
         NEW x \in Chars \cup {NUL}, NEW y, NEW z
  PROVE  /\ Clean(p, w) => Clean(q, w)
         /\ Joins(p, w, x, y, z) => Joins(q, w, x, y, z)
<1>1. \A i \in 0 .. w - 1 : /\ i + 1 < w => i + 1 \in 0 .. w - 1
                            /\ i + 2 < w => i + 1 \in 0 .. w - 1 /\ i + 2 \in 0 .. w - 1
                            /\ i + 3 < w => /\ i + 1 \in 0 .. w - 1 /\ i + 2 \in 0 .. w - 1
                                            /\ i + 3 \in 0 .. w - 1
  OBVIOUS
<1>2. Clean(p, w) => Clean(q, w)
  BY <1>1 DEF Clean
<1>3. /\ w > 0 => w - 1 \in 0 .. w - 1
      /\ w > 1 => w - 1 \in 0 .. w - 1 /\ w - 2 \in 0 .. w - 1
      /\ w > 2 => w - 1 \in 0 .. w - 1 /\ w - 2 \in 0 .. w - 1 /\ w - 3 \in 0 .. w - 1
  OBVIOUS
<1>4. /\ w > 0 => q[w - 1] = p[w - 1]
      /\ w > 1 => q[w - 1] = p[w - 1] /\ q[w - 2] = p[w - 2]
      /\ w > 2 => q[w - 1] = p[w - 1] /\ q[w - 2] = p[w - 2] /\ q[w - 3] = p[w - 3]
  BY <1>3
<1>5. Joins(p, w, x, y, z) => Joins(q, w, x, y, z)
  BY <1>4 DEF Joins
<1>6. QED
  BY <1>2, <1>5

\* Before a slash that was written, the last segment is finished: anything may
\* follow it.
LEMMA BeforeSlash ==
  ASSUME NEW n \in Nat, NEW p, Clean(p, n), NEW w \in 1 .. n, p[w - 1] = "/",
         NEW x, NEW y, NEW z
  PROVE  Clean(p, w - 1) /\ Joins(p, w - 1, x, y, z)
<1>1. w - 1 > 0 => p[w - 1 - 1] # "/"
  <2>1. ASSUME w - 1 > 0 PROVE w - 1 - 1 \in 0 .. n - 1 /\ w - 1 - 1 + 1 = w - 1 /\ w - 1 < n
    BY <2>1
  <2>2. QED
    BY <2>1 DEF Clean
<1>2. w - 1 > 1 => ~(p[w - 1 - 2] = "/" /\ p[w - 1 - 1] = ".")
  <2>1. ASSUME w - 1 > 1
        PROVE  /\ w - 1 - 2 \in 0 .. n - 1 /\ w - 1 - 2 + 1 = w - 1 - 1
               /\ w - 1 - 2 + 2 = w - 1 /\ w - 1 < n
    BY <2>1
  <2>2. QED
    BY <2>1 DEF Clean
<1>3. w - 1 > 2 => ~(p[w - 1 - 3] = "/" /\ p[w - 1 - 2] = "." /\ p[w - 1 - 1] = ".")
  <2>1. ASSUME w - 1 > 2
        PROVE  /\ w - 1 - 3 \in 0 .. n - 1 /\ w - 1 - 3 + 1 = w - 1 - 2
               /\ w - 1 - 3 + 2 = w - 1 - 1 /\ w - 1 - 3 + 3 = w - 1 /\ w - 1 < n
    BY <2>1
  <2>2. QED
    BY <2>1 DEF Clean
<1>4. Clean(p, w - 1)
  <2>1. \A i \in 0 .. w - 1 - 1 : i \in 0 .. n - 1
    OBVIOUS
  <2>2. \A j \in Int : j < w - 1 => j < n
    OBVIOUS
  <2>3. QED
    BY <2>1, <2>2 DEF Clean
<1>5. QED
  BY <1>1, <1>2, <1>3, <1>4 DEF Joins

\* What was written, ended where nothing is left unfinished, is in normal form.
LEMMA EndedIsNormal ==
  ASSUME NEW M \in Nat, NEW p \in [0 .. M -> Chars \cup {NUL}], NEW e \in 0 .. M,
         p[e] = NUL, Clean(p, e), Joins(p, e, NUL, NUL, NUL),
         e > 1 => p[e - 1] # "/"
  PROVE  IsNormal(p)
<1>1. NUL # "/" /\ NUL # "."
  BY CharacterAssumption
<1>2. SUFFICES ASSUME NEW i \in 0 .. e - 1, p[i] = "/"
               PROVE  ~Vanishes(p, i) /\ (p[i + 1] = NUL => i = 0)
  BY DEF IsNormal, Clean
<1>3. \A j \in 0 .. e - 1 : p[j] # NUL
  BY DEF Clean
<1>4. p[i + 1] # "/" /\ (p[i + 1] = NUL => i = 0)
  <2>1. CASE i + 1 < e
    <3>1. i + 1 \in 0 .. e - 1
      BY <2>1
    <3>2. QED
      BY <1>2, <1>3, <2>1, <3>1 DEF Clean
  <2>2. CASE i + 1 = e
    <3>1. i = e - 1 /\ (i # 0 => e > 1)
      BY <2>2
    <3>2. QED
      BY <1>1, <1>2, <2>2, <3>1
  <2>3. QED
    BY <2>1, <2>2
<1>5. ASSUME p[i + 1] = "." PROVE p[i + 2] \notin {NUL, "/"}
  <2>1. i + 1 < e
    BY <1>1, <1>5
  <2>2. CASE i + 2 < e
    <3>1. i + 2 \in 0 .. e - 1
      BY <2>2
    <3>2. QED
      BY <1>2, <1>3, <1>5, <2>2, <3>1 DEF Clean
  <2>3. CASE i + 2 = e
    <3>1. e > 1 /\ i = e - 2 /\ i + 1 = e - 1
      BY <2>3
    <3>2. QED
      BY <1>2, <1>5, <3>1 DEF Joins, Void
  <2>4. QED
    BY <2>1, <2>2, <2>3
<1>6. ASSUME p[i + 1] = ".", p[i + 2] = "." PROVE p[i + 3] \notin {NUL, "/"}
  <2>1. i + 1 < e
    BY <1>1, <1>6
  <2>2. i + 2 < e
    BY <1>1, <1>6, <2>1
  <2>3. CASE i + 3 < e
    <3>1. i + 3 \in 0 .. e - 1
      BY <2>3
    <3>2. QED
      BY <1>2, <1>3, <1>6, <2>3, <3>1 DEF Clean
  <2>4. CASE i + 3 = e
    <3>1. e > 2 /\ i = e - 3 /\ i + 1 = e - 2 /\ i + 2 = e - 1
      BY <2>4
    <3>2. QED
      BY <1>2, <1>6, <3>1 DEF Joins, Void
  <2>5. QED
    BY <2>2, <2>3, <2>4
<1>7. QED
  BY <1>4, <1>5, <1>6 DEF Vanishes

\* A path that was given in normal form has not been touched.
Untouched ==
  IsNormal(Given(input)) =>
    /\ path = Given(input)
    /\ pc = "scan" => writePos = readPos
    /\ pc = "tidy" => writePos = Len(input)

\* Inductive: what was written so far is clean, and what is still to be read
\* does not complete a segment that vanishes.
FormInv ==
  /\ CursorInv
  /\ pc # "done" => Clean(path, writePos)
  /\ pc = "scan" => Joins(path, writePos, Ahead(0), Ahead(1), Ahead(2))
  /\ pc = "tidy" => path[writePos] = NUL /\ Joins(path, writePos, NUL, NUL, NUL)
  /\ pc = "done" => IsNormal(path)

LEMMA FormInit == NPInit => FormInv
<1> SUFFICES ASSUME NPInit
             PROVE  FormInv
  OBVIOUS
<1>1. CursorInv
  BY CursorInvInit
<1>2. Len(input) \in Nat
  BY <1>1, LenProperties DEF CursorInv
<1>3. pc = "tidy" => path[0] = NUL
  BY <1>2 DEF NPInit, Given
<1>4. writePos = 0 /\ pc \in {"scan", "tidy"}
  BY DEF NPInit
<1>5. QED
  BY <1>1, <1>3, <1>4 DEF FormInv, Clean, Joins

\* After a round that skips, the last segment is finished: the next character
\* may be anything.
LEMMA FormSkip ==
  ASSUME FormInv, SkipSlash \/ SkipParent \/ SkipThis
  PROVE  FormInv'
<1>1. /\ pc = "scan" /\ pc' = "scan" /\ UNCHANGED path
      /\ SlashSlash \/ SlashThis \/ SlashParent
  BY DEF SkipSlash, SkipParent, SkipThis
<1>2. CursorInv /\ CursorInv' /\ Clean(path, writePos)
      /\ Joins(path, writePos, Ahead(0), Ahead(1), Ahead(2))
  BY <1>1, CursorInvSkip DEF FormInv
<1>3. Ahead(0) = "/"
  BY <1>1, <1>2, TestsAhead
<1>4. writePos \in Nat
  BY <1>2 DEF CursorInv, NPTypeOK
<1>5. ASSUME NEW x, NEW y, NEW z PROVE Joins(path, writePos, x, y, z)
  <2>1. Void(Ahead(0), Ahead(1), Ahead(2)) /\ Void(".", Ahead(0), Ahead(1)) /\ Void(".", ".", Ahead(0))
    BY <1>3 DEF Void
  <2>2. QED
    BY <1>2, <2>1 DEF Joins
<1>6. CASE writePos' = writePos
  BY <1>1, <1>2, <1>5, <1>6 DEF FormInv
<1>7. CASE SkipParent
  <2>1. PICK w \in 0 .. writePos : Component(w) /\ writePos' = BackUp(w)
    BY <1>7 DEF SkipParent
  <2>2. CASE w = 0
    BY <1>1, <1>2, <2>1, <2>2 DEF FormInv, Clean, Joins, BackUp
  <2>3. CASE w # 0
    <3>1. w \in 1 .. writePos /\ path[w - 1] = "/" /\ writePos' = w - 1
      BY <1>4, <2>1, <2>3 DEF Component, BackUp
    <3>2. Clean(path, w - 1) /\ Joins(path, w - 1, Ahead(0)', Ahead(1)', Ahead(2)')
      BY <1>2, <1>4, <3>1, BeforeSlash
    <3>3. QED
      BY <1>1, <1>2, <3>1, <3>2 DEF FormInv
  <2>4. QED
    BY <2>2, <2>3
<1>8. QED
  BY <1>6, <1>7 DEF SkipSlash, SkipThis

\* What was written stays clean when a character is added that ends no segment
\* that vanishes.
LEMMA OneMore ==
  ASSUME NEW M \in Nat, NEW p \in [0 .. M -> Chars \cup {NUL}],
         NEW q \in [0 .. M -> Chars \cup {NUL}], NEW W \in 0 .. M,
         NEW c \in Chars \cup {NUL}, c # NUL,
         q[W] = c, \A i \in 0 .. W - 1 : q[i] = p[i],
         NEW x, NEW y, NEW z,
         Clean(p, W), Joins(p, W, c, x, y), c = "/" => ~Void(x, y, z)
  PROVE  Clean(q, W + 1) /\ Joins(q, W + 1, x, y, z)
<1>1. q[W] = c /\ \A i \in 0 .. W - 1 : q[i] = p[i]
  OBVIOUS
<1>2. W \in Nat /\ W - 1 \in Int
  OBVIOUS
\* The character ends no segment that vanishes.
<1>3. /\ W > 0 /\ p[W - 1] = "/" => c # "/"
      /\ W > 1 /\ p[W - 2] = "/" /\ p[W - 1] = "." => c # "/"
      /\ W > 2 /\ p[W - 3] = "/" /\ p[W - 2] = "." /\ p[W - 1] = "." => c # "/"
  BY DEF Joins, Void
<1>4. Clean(q, W + 1)
  <2>1. SUFFICES ASSUME NEW i \in 0 .. W
                 PROVE  /\ q[i] # NUL
                        /\ q[i] = "/" /\ i + 1 < W + 1 => q[i + 1] # "/"
                        /\ q[i] = "/" /\ i + 2 < W + 1 /\ q[i + 1] = "." => q[i + 2] # "/"
                        /\ q[i] = "/" /\ i + 3 < W + 1 /\ q[i + 1] = "." /\ q[i + 2] = "."
                             => q[i + 3] # "/"
    BY <1>2 DEF Clean
  <2>2. q[i] # NUL
    BY <1>1, <1>2 DEF Clean
  <2>3. ASSUME q[i] = "/", i + 1 < W + 1 PROVE q[i + 1] # "/"
    <3>1. CASE i + 1 < W
      <4>1. i \in 0 .. W - 1 /\ i + 1 \in 0 .. W - 1
        BY <1>2, <3>1
      <4>2. QED
        BY <1>1, <2>3, <3>1, <4>1 DEF Clean
    <3>2. CASE i + 1 = W
      <4>1. i \in 0 .. W - 1 /\ i = W - 1 /\ W > 0
        BY <1>2, <3>2
      <4>2. QED
        BY <1>1, <1>3, <2>3, <3>2, <4>1
    <3>3. QED
      BY <1>2, <2>3, <3>1, <3>2
  <2>4. ASSUME q[i] = "/", i + 2 < W + 1, q[i + 1] = "." PROVE q[i + 2] # "/"
    <3>1. CASE i + 2 < W
      <4>1. i \in 0 .. W - 1 /\ i + 1 \in 0 .. W - 1 /\ i + 2 \in 0 .. W - 1
        BY <1>2, <3>1
      <4>2. QED
        BY <1>1, <2>4, <3>1, <4>1 DEF Clean
    <3>2. CASE i + 2 = W
      <4>1. i \in 0 .. W - 1 /\ i + 1 \in 0 .. W - 1 /\ i = W - 2 /\ i + 1 = W - 1 /\ W > 1
        BY <1>2, <3>2
      <4>2. QED
        BY <1>1, <1>3, <2>4, <3>2, <4>1
    <3>3. QED
      BY <1>2, <2>4, <3>1, <3>2
  <2>5. ASSUME q[i] = "/", i + 3 < W + 1, q[i + 1] = ".", q[i + 2] = "."
        PROVE  q[i + 3] # "/"
    <3>1. CASE i + 3 < W
      <4>1. /\ i \in 0 .. W - 1 /\ i + 1 \in 0 .. W - 1 /\ i + 2 \in 0 .. W - 1
            /\ i + 3 \in 0 .. W - 1
        BY <1>2, <3>1
      <4>2. QED
        BY <1>1, <2>5, <3>1, <4>1 DEF Clean
    <3>2. CASE i + 3 = W
      <4>1. /\ i \in 0 .. W - 1 /\ i + 1 \in 0 .. W - 1 /\ i + 2 \in 0 .. W - 1
            /\ i = W - 3 /\ i + 1 = W - 2 /\ i + 2 = W - 1 /\ W > 2
        BY <1>2, <3>2
      <4>2. QED
        BY <1>1, <1>3, <2>5, <3>2, <4>1
    <3>3. QED
      BY <1>2, <2>5, <3>1, <3>2
  <2>6. QED
    BY <2>2, <2>3, <2>4, <2>5
<1>5. Joins(q, W + 1, x, y, z)
  <2>1. c = "/" => ~Void(x, y, z)
    BY <1>3
  <2>2. W > 0 /\ p[W - 1] = "/" /\ c = "." => ~Void(".", x, y)
    BY DEF Joins, Void
  <2>3. W > 1 /\ p[W - 2] = "/" /\ p[W - 1] = "." /\ c = "." => ~Void(".", ".", x)
    BY DEF Joins, Void
  <2>4. q[W + 1 - 1] = c
    <3>1. W + 1 - 1 = W
      BY <1>2
    <3>2. QED
      BY <1>1, <3>1
  <2>5. W + 1 > 1 => W > 0 /\ q[W + 1 - 2] = p[W - 1]
    <3>1. W + 1 > 1 => W > 0 /\ W + 1 - 2 = W - 1 /\ W - 1 \in 0 .. W - 1
      BY <1>2
    <3>2. QED
      BY <1>1, <3>1
  <2>6. W + 1 > 2 => W > 1 /\ q[W + 1 - 3] = p[W - 2]
    <3>1. W + 1 > 2 => W > 1 /\ W + 1 - 3 = W - 2 /\ W - 2 \in 0 .. W - 1
      BY <1>2
    <3>2. QED
      BY <1>1, <3>1
  <2>7. W + 1 > 2 => W + 1 > 1
    BY <1>2
  <2>8. q[W + 1 - 1] = "/" => ~Void(x, y, z)
    BY <2>1, <2>4
  <2>9. ASSUME W + 1 > 1, q[W + 1 - 2] = "/", q[W + 1 - 1] = "."
        PROVE  ~Void(".", x, y)
    BY <2>2, <2>4, <2>5, <2>9
  <2>10. ASSUME W + 1 > 2, q[W + 1 - 3] = "/", q[W + 1 - 2] = ".", q[W + 1 - 1] = "."
         PROVE  ~Void(".", ".", x)
    <3>1. W > 1 /\ p[W - 2] = "/" /\ p[W - 1] = "." /\ c = "."
      BY <2>4, <2>5, <2>6, <2>7, <2>10
    <3>2. QED
      BY <2>3, <3>1
  <2>11. QED
    BY <2>8, <2>9, <2>10 DEF Joins
<1>6. QED
  BY <1>4, <1>5

\* A character that was written after others leaves them as they are.
LEMMA FormCopy ==
  ASSUME FormInv, Copy
  PROVE  FormInv'
<1> DEFINE L == Len(input)
           W == writePos
           c == Ahead(0)
<1>1. /\ pc = "scan" /\ writePos' = W + 1 /\ readPos' = readPos + 1 /\ input' = input
      /\ ~(SlashSlash \/ SlashThis \/ SlashParent)
      /\ pc' = IF W + 1 < L THEN "scan" ELSE "tidy"
  BY DEF Copy
<1>2. CursorInv /\ CursorInv' /\ Clean(path, W) /\ Joins(path, W, Ahead(0), Ahead(1), Ahead(2))
  BY <1>1, CursorInvCopy DEF FormInv
<1>3. /\ path' = [path EXCEPT ![W] = c] /\ c # NUL /\ readPos # L
      /\ c = "/" => ~Void(Ahead(1), Ahead(2), Ahead(3))
  BY <1>1, <1>2, TestsAhead DEF Copy
<1>4. /\ L \in Nat /\ W \in 0 .. readPos /\ readPos \in 0 .. L
      /\ path \in [0 .. L -> Chars \cup {NUL}]
  BY <1>2, LenProperties DEF CursorInv, NPTypeOK
<1>5. /\ Ahead(0)' = Ahead(1) /\ Ahead(1)' = Ahead(2) /\ Ahead(2)' = Ahead(3)
  <2>1. readPos + 1 + 0 = readPos + 1 /\ readPos + 1 + 1 = readPos + 2 /\ readPos + 1 + 2 = readPos + 3
    BY <1>4
  <2>2. QED
    BY <1>1, <2>1 DEF Ahead, Given
<1> HIDE DEF c
<1>c. c = Ahead(0)
  BY DEF c
<1>6. path'[W] = c /\ \A i \in 0 .. W - 1 : path'[i] = path[i]
  BY <1>3, <1>4
<1> HIDE DEF W, L
<1>7. W \in Nat /\ W - 1 \in Int
  BY <1>4
<1>8. Clean(path', W + 1) /\ Joins(path', W + 1, Ahead(1), Ahead(2), Ahead(3))
  <2>1. path' \in [0 .. L -> Chars \cup {NUL}] /\ W \in 0 .. L
    BY <1>2, <1>3, <1>4, <1>1 DEF CursorInv, NPTypeOK, L
  <2>2. Joins(path, W, c, Ahead(1), Ahead(2))
    BY <1>2, <1>c
  <2>3. QED
    BY <1>2, <1>3, <1>4, <1>6, <2>1, <2>2, OneMore
<1>9. CASE W + 1 < L
  BY <1>1, <1>2, <1>5, <1>8, <1>9 DEF FormInv, W, L
\* As many characters were written as the path has, so none was skipped.
<1>10. CASE ~(W + 1 < L)
  <2>1. readPos + 1 = L /\ W + 1 = L /\ W \in 0 .. L
    BY <1>3, <1>4, <1>10
  <2>2. path[L] = NUL /\ Ahead(1) = NUL
    <3>1. path[L] = NUL
      BY <1>1, <1>2, EndInPlace DEF L
    <3>2. Given(input)[L] = NUL
      BY <1>4 DEF Given, L
    <3>3. QED
      BY <2>1, <3>1, <3>2 DEF Ahead
  <2>3. path'[W + 1] = NUL
    BY <1>3, <1>4, <2>1, <2>2
  <2>4. Joins(path', W + 1, NUL, NUL, NUL)
    <3>1. ~Void(NUL, NUL, NUL)
      BY CharacterAssumption DEF Void
    <3>2. Void(".", NUL, Ahead(2)) /\ Void(".", ".", NUL)
      BY DEF Void
    <3>3. QED
      BY <1>8, <2>2, <3>1, <3>2 DEF Joins
  <2>5. QED
    BY <1>1, <1>2, <1>8, <1>10, <2>3, <2>4 DEF FormInv, W, L
<1>11. QED
  BY <1>9, <1>10

\* The terminator ends no segment that vanishes.
LEMMA FormCopyEnd ==
  ASSUME FormInv, CopyEnd
  PROVE  FormInv'
<1> DEFINE W == writePos
<1>1. /\ pc = "scan" /\ writePos' = W /\ pc' = "tidy" /\ path' = [path EXCEPT ![W] = NUL]
      /\ At(0) = NUL
  BY DEF CopyEnd
<1>2. CursorInv /\ CursorInv' /\ Clean(path, W) /\ Joins(path, W, Ahead(0), Ahead(1), Ahead(2))
  BY <1>1, CursorInvCopy DEF FormInv
<1>3. /\ Len(input) \in Nat /\ W \in 0 .. Len(input)
      /\ path \in [0 .. Len(input) -> Chars \cup {NUL}]
  BY <1>2, LenProperties DEF CursorInv, NPTypeOK
<1>4. path'[W] = NUL /\ \A i \in 0 .. W - 1 : path'[i] = path[i]
  BY <1>1, <1>3
<1>5. Ahead(0) = NUL
  BY <1>1, <1>2, TestsAhead
<1> HIDE DEF W
<1>6. path' \in [0 .. Len(input) -> Chars \cup {NUL}]
  BY <1>1, <1>3
<1>7. Joins(path, W, NUL, NUL, NUL)
  <2>1. ~Void(NUL, NUL, NUL)
    BY CharacterAssumption DEF Void
  <2>2. Void(".", NUL, Ahead(1)) /\ Void(".", ".", NUL)
    BY DEF Void
  <2>3. QED
    BY <1>2, <1>5, <2>1, <2>2 DEF Joins
<1>8. Clean(path', W) /\ Joins(path', W, NUL, NUL, NUL)
  <2>1. W \in 0 .. Len(input) + 1
    BY <1>3
  <2>2. QED
    BY <1>2, <1>3, <1>4, <1>6, <1>7, <2>1, SameFront
<1>9. QED
  BY <1>1, <1>2, <1>4, <1>8 DEF FormInv, W

\* A slash at the end goes, and what remains of nothing is the root.
LEMMA FormTidy ==
  ASSUME FormInv, Tidy
  PROVE  FormInv'
<1> DEFINE L == Len(input)
           W == writePos
<1>1. pc = "tidy" /\ pc' = "done" /\ input' = input
  BY DEF Tidy
<1>2. /\ CursorInv /\ CursorInv' /\ Clean(path, W)
      /\ path[W] = NUL /\ Joins(path, W, NUL, NUL, NUL)
  BY <1>1, CursorInvTidy DEF FormInv
<1>3. /\ L \in Nat /\ W \in 0 .. L /\ path \in [0 .. L -> Chars \cup {NUL}]
      /\ path' \in [0 .. L -> Chars \cup {NUL}]
  BY <1>1, <1>2, LenProperties DEF CursorInv, NPTypeOK
<1>4. NUL # "/" /\ NUL # "." /\ NUL \in Chars \cup {NUL}
  BY CharacterAssumption
<1> HIDE DEF L, W
<1>5. ASSUME W > 1, path[W - 1] = "/" PROVE IsNormal(path')
  <2>1. Trimmed = [path EXCEPT ![W - 1] = NUL]
    BY <1>5 DEF Trimmed, W
  <2>2. W - 1 \in 1 .. L /\ W - 1 \in 0 .. L /\ W - 1 \in 0 .. L + 1 /\ W \in 1 .. W /\ W \in Nat
    BY <1>3, <1>5
  <2>3. path[0] # NUL
    BY <1>2, <2>2 DEF Clean
  <2>4. Trimmed[0] # NUL
    BY <1>3, <2>1, <2>2, <2>3
  <2>5. path' = [path EXCEPT ![W - 1] = NUL]
    BY <2>1, <2>4 DEF Tidy
  <2>6. path'[W - 1] = NUL /\ \A i \in 0 .. W - 1 - 1 : path'[i] = path[i]
    BY <1>3, <2>2, <2>5
  <2>7. Clean(path, W - 1) /\ Joins(path, W - 1, NUL, NUL, NUL)
    BY <1>2, <1>5, <2>2, BeforeSlash
  <2>8. Clean(path', W - 1) /\ Joins(path', W - 1, NUL, NUL, NUL)
    <3>1. PICK w \in 0 .. L + 1 : w = W - 1
      BY <2>2
    <3>2. (\A i \in 0 .. w - 1 : path'[i] = path[i]) /\ Clean(path, w) /\ Joins(path, w, NUL, NUL, NUL)
      BY <2>6, <2>7, <3>1
    <3>3. Clean(path', w) /\ Joins(path', w, NUL, NUL, NUL)
      BY <1>3, <1>4, <3>2, SameFront
    <3>4. QED
      BY <3>1, <3>3
  <2>9. W - 1 > 1 => path'[W - 1 - 1] # "/"
    <3>1. ASSUME W - 1 > 1
          PROVE  /\ W - 1 - 1 \in 0 .. W - 1 - 1 /\ W - 1 - 1 \in 0 .. W - 1
                 /\ W - 1 - 1 + 1 = W - 1 /\ W - 1 < W
      BY <2>2, <3>1
    <3>2. QED
      BY <1>2, <1>5, <2>6, <3>1 DEF Clean
  <2>10. QED
    BY <1>3, <2>2, <2>6, <2>8, <2>9, EndedIsNormal
<1>6. ASSUME ~(W > 1 /\ path[W - 1] = "/"), W # 0 PROVE IsNormal(path')
  <2>1. Trimmed = path
    BY <1>6 DEF Trimmed, W
  <2>2. path[0] # NUL
    BY <1>2, <1>3, <1>6 DEF Clean
  <2>3. path' = path
    BY <2>1, <2>2 DEF Tidy
  <2>4. QED
    BY <1>2, <1>3, <1>6, <2>3, EndedIsNormal
<1>7. ASSUME W = 0 PROVE IsNormal(path')
  <2>1. Trimmed = path
    BY <1>7 DEF Trimmed, W
  <2>2. CASE L >= 1
    <3>1. path' = [path EXCEPT ![0] = "/", ![1] = NUL]
      BY <1>2, <1>7, <2>1, <2>2 DEF Tidy, L
    <3>2. 1 \in 0 .. L /\ path'[0] = "/" /\ path'[1] = NUL
      BY <1>3, <2>2, <3>1
    <3>3. Clean(path', 1) /\ Joins(path', 1, NUL, NUL, NUL)
      <4>1. ~Void(NUL, NUL, NUL)
        BY <1>4 DEF Void
      <4>2. QED
        BY <1>4, <3>2, <4>1 DEF Clean, Joins
    <3>4. QED
      BY <1>3, <3>2, <3>3, EndedIsNormal
  <2>3. CASE ~(L >= 1)
    <3>1. path' = path
      BY <2>1, <2>3 DEF Tidy, L
    <3>2. QED
      BY <1>2, <1>3, <1>7, <3>1, EndedIsNormal
  <2>4. QED
    BY <2>2, <2>3
<1>8. IsNormal(path')
  BY <1>5, <1>6, <1>7
<1>9. QED
  BY <1>1, <1>2, <1>8 DEF FormInv

LEMMA FormNext == FormInv /\ [NPNext]_npVars => FormInv'
<1> SUFFICES ASSUME FormInv, [NPNext]_npVars
             PROVE  FormInv'
  OBVIOUS
<1>1. CASE SkipSlash \/ SkipParent \/ SkipThis
  BY <1>1, FormSkip
<1>2. CASE Copy
  BY <1>2, FormCopy
<1>3. CASE CopyEnd
  BY <1>3, FormCopyEnd
<1>4. CASE Tidy
  BY <1>4, FormTidy
<1>5. CASE UNCHANGED npVars
  <2>1. CursorInv'
    BY <1>5, CursorInvNext DEF FormInv
  <2>2. QED
    BY <1>5, <2>1 DEF npVars, FormInv, Ahead
<1>6. QED
  BY <1>1, <1>2, <1>3, <1>4, <1>5 DEF NPNext, Done

\* In a path in normal form no segment vanishes, up to its end.
LEMMA NormalGiven ==
  ASSUME CursorInv, IsNormal(Given(input)), NEW i \in 0 .. Len(input) - 1, Given(input)[i] = "/"
  PROVE  /\ ~Void(Given(input)[i + 1], Given(input)[i + 2], Given(input)[i + 3])
         /\ i + 1 = Len(input) => i = 0
<1>1. Len(input) \in Nat
  BY LenProperties DEF CursorInv
<1>2. /\ \A j \in 0 .. Len(input) - 1 : Given(input)[j] # NUL
      /\ Given(input)[Len(input)] = NUL
      /\ DOMAIN Given(input) = 0 .. Len(input)
  BY GivenEnds DEF CursorInv, Given
<1>3. PICK e \in DOMAIN Given(input) :
        /\ Given(input)[e] = NUL
        /\ \A j \in 0 .. e - 1 :
             Given(input)[j] = "/" =>
               ~Vanishes(Given(input), j) /\ (Given(input)[j + 1] = NUL => j = 0)
  BY DEF IsNormal
<1>4. e = Len(input)
  BY <1>1, <1>2, <1>3
<1>5. QED
  BY <1>2, <1>3, <1>4 DEF Vanishes, Void

LEMMA UntouchedInit == NPInit => Untouched
<1> SUFFICES ASSUME NPInit
             PROVE  Untouched
  OBVIOUS
<1>1. Len(input) \in Nat
  BY CursorInvInit, LenProperties DEF CursorInv
<1>2. QED
  BY <1>1 DEF NPInit, Untouched

\* No round skips in a path in normal form, and each copies in place.
LEMMA UntouchedNext == CursorInv /\ Untouched /\ [NPNext]_npVars => Untouched'
<1> SUFFICES ASSUME CursorInv, Untouched, [NPNext]_npVars
             PROVE  Untouched'
  OBVIOUS
<1>0. input' = input
  <2>1. CASE SkipSlash \/ SkipParent \/ SkipThis
    BY <2>1 DEF SkipSlash, SkipParent, SkipThis
  <2>2. CASE Copy \/ CopyEnd \/ Tidy
    BY <2>2 DEF Copy, CopyEnd, Tidy
  <2>3. CASE UNCHANGED npVars
    BY <2>3 DEF npVars
  <2>4. QED
    BY <2>1, <2>2, <2>3 DEF NPNext, Done
<1> SUFFICES ASSUME IsNormal(Given(input))
             PROVE  /\ path' = Given(input)
                    /\ pc' = "scan" => writePos' = readPos'
                    /\ pc' = "tidy" => writePos' = Len(input)
  BY <1>0 DEF Untouched
<1> DEFINE L == Len(input)
<1>1. /\ path = Given(input)
      /\ pc = "scan" => writePos = readPos
      /\ pc = "tidy" => writePos = L
  BY DEF Untouched
<1>2. /\ L \in Nat /\ readPos \in 0 .. L /\ writePos \in 0 .. readPos
      /\ path \in [0 .. L -> Chars \cup {NUL}]
  BY LenProperties DEF CursorInv, NPTypeOK
<1>3. NUL # "/"
  BY CharacterAssumption
<1>4. pc = "scan" => ~(SlashSlash \/ SlashThis \/ SlashParent)
  <2>1. SUFFICES ASSUME pc = "scan", SlashSlash \/ SlashThis \/ SlashParent
                 PROVE  FALSE
    OBVIOUS
  <2>2. /\ Ahead(0) = "/" /\ Void(Ahead(1), Ahead(2), Ahead(3)) /\ readPos # L
    BY <1>3, <2>1, TestsAhead
  <2>3. readPos \in 0 .. L - 1 /\ Given(input)[readPos] = "/"
    BY <1>2, <2>2 DEF Ahead
  <2>4. QED
    BY <2>2, <2>3, NormalGiven DEF Ahead
<1>5. CASE SkipSlash \/ SkipParent \/ SkipThis
  BY <1>4, <1>5 DEF SkipSlash, SkipParent, SkipThis
<1>6. CASE Copy
  <2>1. pc = "scan" /\ path' = [path EXCEPT ![writePos] = path[readPos]]
        /\ writePos' = writePos + 1 /\ readPos' = readPos + 1
        /\ pc' = IF writePos + 1 < L THEN "scan" ELSE "tidy"
    BY <1>2, <1>6 DEF Copy, At
  <2>2. readPos # L
    BY <1>6, <2>1, TestsAhead DEF Copy
  <2>3. path' = path
    BY <1>1, <1>2, <2>1
  <2>4. QED
    BY <1>1, <1>2, <2>1, <2>2, <2>3
<1>7. CASE CopyEnd
  <2>1. pc = "scan" /\ path' = [path EXCEPT ![writePos] = NUL] /\ writePos' = writePos
        /\ pc' = "tidy" /\ path[readPos] = NUL
    BY <1>2, <1>7 DEF CopyEnd, At
  <2>2. readPos = L
    BY <1>7, <2>1, TestsAhead DEF CopyEnd
  <2>3. path' = path
    BY <1>1, <1>2, <2>1
  <2>4. QED
    BY <1>1, <2>1, <2>2, <2>3
<1>8. CASE Tidy
  <2>1. pc = "tidy" /\ pc' = "done" /\ writePos = L
    BY <1>1, <1>8 DEF Tidy
  <2>2. ~(writePos > 1 /\ path[writePos - 1] = "/")
    <3>1. SUFFICES ASSUME L > 1, Given(input)[L - 1] = "/"
                   PROVE  FALSE
      BY <1>1, <2>1
    <3>2. L - 1 \in 0 .. L - 1 /\ L - 1 + 1 = L /\ L - 1 # 0
      BY <1>2, <3>1
    <3>3. QED
      BY <3>1, <3>2, NormalGiven
  <2>3. Trimmed = path
    BY <2>2 DEF Trimmed
  <2>4. L >= 1 => path[0] # NUL
    BY <1>1, <1>2, GivenEnds DEF CursorInv
  <2>5. path' = path
    BY <1>8, <2>3, <2>4 DEF Tidy
  <2>6. QED
    BY <1>1, <2>1, <2>5
<1>9. CASE UNCHANGED npVars
  BY <1>1, <1>9 DEF npVars
<1>10. QED
  BY <1>5, <1>6, <1>7, <1>8, <1>9 DEF NPNext, Done

\* Whatever path is given, however long, the result is in normal form: no empty,
\* "." or ".." segment and no slash at the end, the root alone excepted.  A path
\* that is in normal form already is left as it is, so normalizing twice is the
\* same as normalizing once (FileContext.h:325-327, FileContext.cpp:347-404, 425).
THEOREM ResultSettles == NPSpec => []Settled
<1>1. FormInv /\ Untouched => Settled
  BY DEF FormInv, Untouched, Settled
<1>2. NPInit => FormInv /\ Untouched
  BY FormInit, UntouchedInit
<1>3. (FormInv /\ Untouched) /\ [NPNext]_npVars => (FormInv /\ Untouched)'
  BY FormNext, UntouchedNext DEF FormInv
<1>4. QED
  BY <1>1, <1>2, <1>3, PTL DEF NPSpec

-----------------------------------------------------------------------------
(* The reference, character by character.                                  *)

\* What has been read of a path: the segments kept and the one being read.
Parses == [kept : Seq(Seq(Chars)), seg : Seq(Chars)]

LEMMA SettleType ==
  ASSUME NEW kept \in Seq(Seq(Chars)), NEW seg \in Seq(Chars)
  PROVE  Settle(kept, seg) \in Seq(Seq(Chars))
<1>1. CASE seg = <<"/", ".", ".">> /\ kept # <<>>
  <2>1. Front(kept) \in Seq(Seq(Chars))
    BY <1>1, FrontAndLast
  <2>2. Settle(kept, seg) \in {kept, Front(kept)}
    BY <1>1 DEF Settle
  <2>3. QED
    BY <2>1, <2>2
<1>2. CASE ~(seg = <<"/", ".", ".">> /\ kept # <<>>)
  <2>1. Settle(kept, seg) \in {kept, Append(kept, seg)}
    BY <1>2 DEF Settle
  <2>2. Append(kept, seg) \in Seq(Seq(Chars))
    OBVIOUS
  <2>3. QED
    BY <2>1, <2>2
<1>3. QED
  BY <1>1, <1>2

LEMMA ReadType ==
  ASSUME NEW p \in Parses, NEW c \in Chars
  PROVE  Read(p, c) \in Parses
<1>1. p.kept \in Seq(Seq(Chars)) /\ p.seg \in Seq(Chars)
  BY DEF Parses
<1>2. Settle(p.kept, p.seg) \in Seq(Seq(Chars)) /\ Append(p.seg, c) \in Seq(Chars)
  BY <1>1, SettleType, AppendProperties
<1>3. <<"/">> \in Seq(Chars)
  BY DEF Chars
<1>4. QED
  BY <1>1, <1>2, <1>3 DEF Read, Parses

\* A path is read character by character: the recursion is well-defined.
LEMMA ParsedSteps ==
  ASSUME NEW s \in Seq(Chars)
  PROVE  /\ Parsed(s)[0] = [kept |-> <<>>, seg |-> <<>>]
         /\ \A k \in 1 .. Len(s) : Parsed(s)[k] = Read(Parsed(s)[k - 1], s[k])
<1> DEFINE n == Len(s)
           start == [kept |-> <<>>, seg |-> <<>>]
           step == [k \in 0 .. n |-> [p \in Parses |-> IF k = 0 THEN p ELSE Read(p, s[k])]]
<1>1. n \in Nat /\ \A k \in 1 .. n : s[k] \in Chars
  OBVIOUS
<1>2. start \in Parses
  BY DEF Parses
<1>3. step \in [0 .. n -> [Parses -> Parses]]
  <2>1. ASSUME NEW k \in 0 .. n, NEW p \in Parses
        PROVE  (IF k = 0 THEN p ELSE Read(p, s[k])) \in Parses
    <3>1. CASE k = 0
      BY <3>1
    <3>2. CASE k # 0
      <4>1. s[k] \in Chars
        BY <1>1, <3>2
      <4>2. QED
        BY <3>2, <4>1, ReadType
    <3>3. QED
      BY <3>1, <3>2
  <2>2. QED
    BY <2>1
<1> HIDE DEF n, start, step
<1>4. PICK f \in [0 .. n -> Parses] : Stepwise(f, n, start, step)
  BY <1>1, <1>2, <1>3, StepwiseExists
<1>5. f[0] = start /\ \A k \in 1 .. n : f[k] = Read(f[k - 1], s[k])
  <2>1. ASSUME NEW k \in 1 .. n PROVE step[k][f[k - 1]] = Read(f[k - 1], s[k])
    <3>1. k \in 0 .. n /\ k # 0 /\ k - 1 \in 0 .. n
      BY <1>1
    <3>2. f[k - 1] \in Parses
      BY <3>1
    <3>3. QED
      BY <3>1, <3>2 DEF step
  <2>2. QED
    BY <1>4, <2>1 DEF Stepwise
<1> DEFINE g == CHOOSE g : g = [k \in 0 .. n |-> IF k = 0 THEN start ELSE Read(g[k - 1], s[k])]
<1>6. f = [k \in 0 .. n |-> IF k = 0 THEN start ELSE Read(f[k - 1], s[k])]
  <2> DEFINE h == [k \in 0 .. n |-> IF k = 0 THEN start ELSE Read(f[k - 1], s[k])]
  <2>1. ASSUME NEW k \in 0 .. n PROVE f[k] = h[k]
    <3>1. k = 0 \/ k \in 1 .. n
      BY <1>1
    <3>2. QED
      BY <1>5, <3>1
  <2>2. f = [k \in 0 .. n |-> f[k]] /\ h = [k \in 0 .. n |-> h[k]]
    OBVIOUS
  <2>3. QED
    BY <2>1, <2>2
<1>7. g = [k \in 0 .. n |-> IF k = 0 THEN start ELSE Read(g[k - 1], s[k])]
  <2>1. \E z : z = [k \in 0 .. n |-> IF k = 0 THEN start ELSE Read(z[k - 1], s[k])]
    BY <1>6
  <2>2. QED
    BY <2>1
<1>8. Parsed(s) = g
  BY DEF Parsed, n, start
<1> HIDE DEF g
<1>9. g[0] = start /\ \A k \in 1 .. n : g[k] = Read(g[k - 1], s[k])
  <2>1. 0 \in 0 .. n /\ \A k \in 1 .. n : k \in 0 .. n /\ k # 0
    BY <1>1
  <2>2. \A k \in 0 .. n : g[k] = IF k = 0 THEN start ELSE Read(g[k - 1], s[k])
    BY <1>7
  <2>3. QED
    BY <2>1, <2>2
<1>10. QED
  BY <1>8, <1>9 DEF n, start

\* No slash after the first character.
Plain(seg) == \A j \in 2 .. Len(seg) : seg[j] # "/"

\* A segment that is kept has a name, and only the head may lack the slash.
WellKept(kept) ==
  /\ kept \in Seq(Seq(Chars))
  /\ \A i \in 1 .. Len(kept) :
       kept[i] \notin {<<>>, <<"/">>} /\ Plain(kept[i]) /\ (i > 1 => kept[i][1] = "/")

WellParsed(p) ==
  /\ p \in Parses /\ WellKept(p.kept) /\ Plain(p.seg)
  /\ p.kept # <<>> => p.seg # <<>> /\ p.seg[1] = "/"

\* The characters of the segments kept, with the one that is being read, and
\* with what that one comes to.
Text(p) == FlattenSeq(p.kept) \o p.seg
Final(p) == FlattenSeq(Settle(p.kept, p.seg))

LEMMA SettleWell ==
  ASSUME NEW p, WellParsed(p)
  PROVE  WellKept(Settle(p.kept, p.seg))
<1> DEFINE kept == p.kept
           seg == p.seg
           r == Settle(kept, seg)
<1>1. /\ kept \in Seq(Seq(Chars)) /\ seg \in Seq(Chars) /\ WellKept(kept) /\ Plain(seg)
      /\ kept # <<>> => seg # <<>> /\ seg[1] = "/"
  BY DEF WellParsed, Parses
<1>2. r \in Seq(Seq(Chars))
  BY <1>1, SettleType
<1> HIDE DEF kept, seg
<1>3. CASE r = kept
  BY <1>1, <1>3 DEF kept, seg
<1>4. CASE kept # <<>> /\ r = Front(kept)
  <2>1. /\ Len(r) = Len(kept) - 1 /\ Len(kept) \in Nat
        /\ \A i \in 1 .. Len(r) : i \in 1 .. Len(kept) /\ r[i] = kept[i]
    <3>1. /\ Len(Front(kept)) = Len(kept) - 1
          /\ \A i \in 1 .. Len(kept) - 1 : Front(kept)[i] = kept[i]
      BY <1>1, <1>4, FrontAndLast
    <3>2. Len(kept) \in Nat
      BY <1>1
    <3> HIDE DEF r
    <3>3. QED
      BY <1>4, <3>1, <3>2
  <2>2. WellKept(r)
    BY <1>1, <1>2, <2>1 DEF WellKept
  <2>3. QED
    BY <2>2 DEF kept, seg
<1>5. CASE r = Append(kept, seg) /\ seg \notin {<<>>, <<"/">>}
  <2>1. /\ Len(kept) \in Nat /\ Len(r) = Len(kept) + 1 /\ r[Len(kept) + 1] = seg
        /\ \A i \in 1 .. Len(kept) : r[i] = kept[i]
    BY <1>1, <1>5
  <2>2. ASSUME NEW i \in 1 .. Len(r)
        PROVE  r[i] \notin {<<>>, <<"/">>} /\ Plain(r[i]) /\ (i > 1 => r[i][1] = "/")
    <3>1. CASE i \in 1 .. Len(kept)
      BY <1>1, <2>1, <3>1 DEF WellKept
    <3>2. CASE i = Len(kept) + 1
      <4>1. r[i] = seg /\ (i > 1 => kept # <<>>)
        BY <1>1, <2>1, <3>2
      <4>2. QED
        BY <1>1, <1>5, <4>1
    <3>3. QED
      BY <2>1, <3>1, <3>2
  <2>3. WellKept(r)
    BY <1>2, <2>2 DEF WellKept
  <2>4. QED
    BY <2>3 DEF kept, seg
<1>6. \/ r = kept
      \/ kept # <<>> /\ r = Front(kept)
      \/ r = Append(kept, seg) /\ seg \notin {<<>>, <<"/">>}
  BY DEF Settle
<1>7. QED
  BY <1>3, <1>4, <1>5, <1>6

\* Reading on keeps the form, and adds the character to the text.
LEMMA ReadWell ==
  ASSUME NEW p, WellParsed(p), NEW c \in Chars
  PROVE  /\ WellParsed(Read(p, c))
         /\ Text(p) \in Seq(Chars) /\ Final(p) \in Seq(Chars)
         /\ c # "/" => Text(Read(p, c)) = Append(Text(p), c)
         /\ c = "/" => Text(Read(p, c)) = Append(Final(p), c)
<1> DEFINE r == Settle(p.kept, p.seg)
<1>1. /\ p \in Parses /\ p.kept \in Seq(Seq(Chars)) /\ p.seg \in Seq(Chars)
      /\ WellKept(p.kept) /\ Plain(p.seg)
      /\ p.kept # <<>> => p.seg # <<>> /\ p.seg[1] = "/"
  BY DEF WellParsed, Parses
<1>2. r \in Seq(Seq(Chars)) /\ WellKept(r)
  BY <1>1, SettleType, SettleWell
<1>3. FlattenSeq(p.kept) \in Seq(Chars) /\ FlattenSeq(r) \in Seq(Chars)
  <2> HIDE DEF r
  <2>1. <<>> \in Seq(Chars)
    OBVIOUS
  <2>2. QED
    BY <1>1, <1>2, <2>1, FlattenAppend
<1>4. Text(p) \in Seq(Chars) /\ Final(p) \in Seq(Chars)
  BY <1>1, <1>3, ConcatProperties DEF Text, Final
<1>5. Read(p, c) \in Parses
  BY <1>1, ReadType
<1>6. CASE c = "/"
  <2>1. Read(p, c).kept = r /\ Read(p, c).seg = <<"/">>
    BY <1>6 DEF Read
  <2>2. Plain(<<"/">>)
    BY DEF Plain
  <2>3. WellParsed(Read(p, c))
    BY <1>2, <1>5, <2>1, <2>2 DEF WellParsed
  <2>4. Text(Read(p, c)) = FlattenSeq(r) \o <<c>>
    BY <1>6, <2>1 DEF Text
  <2>5. FlattenSeq(r) \o <<c>> = Append(FlattenSeq(r), c)
    BY <1>3
  <2>6. QED
    BY <1>4, <1>6, <2>3, <2>4, <2>5 DEF Final
<1>7. CASE c # "/"
  <2>1. Read(p, c).kept = p.kept /\ Read(p, c).seg = Append(p.seg, c)
    BY <1>7 DEF Read
  <2>2. Plain(Append(p.seg, c))
    <3>1. \A j \in 2 .. Len(Append(p.seg, c)) : j \in 2 .. Len(p.seg) \/ j = Len(p.seg) + 1
      BY <1>1
    <3>2. QED
      BY <1>1, <1>7, <3>1, AppendProperties DEF Plain
  <2>3. p.kept # <<>> => Append(p.seg, c) # <<>> /\ Append(p.seg, c)[1] = "/"
    <3> DEFINE u == p.seg
    <3>1. u \in Seq(Chars) /\ (p.kept # <<>> => u # <<>> /\ u[1] = "/")
      BY <1>1
    <3> HIDE DEF u
    <3>2. Append(u, c) # <<>> /\ \A i \in 1 .. Len(u) : Append(u, c)[i] = u[i]
      BY <3>1, AppendProperties
    <3>3. u # <<>> => 1 \in 1 .. Len(u)
      BY <3>1
    <3>4. p.kept # <<>> => Append(u, c) # <<>> /\ Append(u, c)[1] = "/"
      BY <3>1, <3>2, <3>3
    <3>5. QED
      BY <3>4 DEF u
  <2>4. WellParsed(Read(p, c))
    BY <1>1, <1>5, <2>1, <2>2, <2>3 DEF WellParsed
  <2>5. FlattenSeq(p.kept) \o Append(p.seg, c) = Append(FlattenSeq(p.kept) \o p.seg, c)
    <3> DEFINE t == FlattenSeq(p.kept)
               u == p.seg
    <3>1. t \in Seq(Chars) /\ u \in Seq(Chars)
      BY <1>1, <1>3
    <3> HIDE DEF t, u
    <3>2. t \o Append(u, c) = Append(t \o u, c)
      BY <3>1
    <3>3. QED
      BY <3>2 DEF t, u
  <2>6. QED
    BY <1>4, <1>7, <2>1, <2>4, <2>5 DEF Text
<1>8. QED
  BY <1>6, <1>7

\* The characters of the last segment come last.
LEMMA LastSegment ==
  ASSUME NEW kept, WellKept(kept), kept # <<>>
  PROVE  /\ FlattenSeq(Front(kept)) \in Seq(Chars) /\ Last(kept) \in Seq(Chars)
         /\ FlattenSeq(kept) = FlattenSeq(Front(kept)) \o Last(kept)
         /\ Last(kept) \notin {<<>>, <<"/">>} /\ Plain(Last(kept))
         /\ Last(kept)[1] = "/" \/ FlattenSeq(Front(kept)) = <<>>
<1> DEFINE f == Front(kept)
           l == Last(kept)
<1>1. kept \in Seq(Seq(Chars)) /\ Len(kept) \in Nat /\ Len(kept) >= 1
  BY DEF WellKept
<1>2. /\ f \in Seq(Seq(Chars)) /\ l \in Seq(Chars) /\ kept = Append(f, l)
      /\ Len(f) = Len(kept) - 1
  BY <1>1, FrontAndLast
<1>3. l = kept[Len(kept)] /\ Len(kept) \in 1 .. Len(kept)
  BY <1>1 DEF Last
<1>4. l \notin {<<>>, <<"/">>} /\ Plain(l) /\ (Len(kept) > 1 => l[1] = "/")
  BY <1>3 DEF WellKept
<1> HIDE DEF f, l
<1>5. FlattenSeq(f) \in Seq(Chars) /\ FlattenSeq(Append(f, l)) = FlattenSeq(f) \o l
  BY <1>2, FlattenAppend
<1>6. ~(Len(kept) > 1) => FlattenSeq(f) = <<>>
  <2>1. ASSUME ~(Len(kept) > 1) PROVE f = <<>>
    BY <1>1, <1>2, <2>1
  <2>2. QED
    BY <2>1 DEF FlattenSeq
<1>7. QED
  BY <1>2, <1>4, <1>5, <1>6 DEF f, l

\* The characters that were written before w.
Written(p, w) == [i \in 1 .. w |-> p[i - 1]]

LEMMA WrittenFacts ==
  ASSUME NEW p, NEW w \in Nat, NEW t \in Seq(Chars), Written(p, w) = t
  PROVE  Len(t) = w /\ \A i \in 0 .. w - 1 : p[i] = t[i + 1]
<1>1. DOMAIN t = 1 .. w /\ Len(t) \in Nat /\ DOMAIN t = 1 .. Len(t)
  BY DEF Written
<1>2. Len(t) = w
  BY <1>1
<1>3. ASSUME NEW i \in 0 .. w - 1 PROVE p[i] = t[i + 1]
  <2>1. PICK j \in 1 .. w : j = i + 1
    OBVIOUS
  <2>2. t[j] = p[j - 1] /\ j - 1 = i
    BY <2>1 DEF Written
  <2>3. QED
    BY <2>1, <2>2
<1>4. QED
  BY <1>2, <1>3

LEMMA WrittenNothing ==
  ASSUME NEW p, NEW w \in Nat, Written(p, w) = <<>>
  PROVE  w = 0
<1>1. Len(<<>>) = w
  <2>1. <<>> \in Seq(Chars)
    OBVIOUS
  <2>2. QED
    BY <2>1, WrittenFacts
<1>2. QED
  BY <1>1

\* Two buffers that agree before w hold the same there.
LEMMA WrittenIs ==
  ASSUME NEW p, NEW w \in Nat, NEW t \in Seq(Chars), Len(t) = w,
         \A i \in 0 .. w - 1 : p[i] = t[i + 1]
  PROVE  Written(p, w) = t
<1>1. ASSUME NEW j \in 1 .. w PROVE p[j - 1] = t[j]
  <2>1. j - 1 \in 0 .. w - 1 /\ j - 1 + 1 = j
    OBVIOUS
  <2>2. QED
    BY <2>1
<1>2. t = [j \in 1 .. w |-> t[j]]
  OBVIOUS
<1>3. QED
  BY <1>1, <1>2 DEF Written

\* The characters l are those from n on.
Lies(b, n, l) == \A j \in 0 .. Len(l) - 1 : b[n + j] = l[j + 1]

\* Sequences F and l, in this order, are what was written.
Parts(b, W, F, l) == W = Len(F) + Len(l) /\ Lies(b, 0, F) /\ Lies(b, Len(F), l)

\* Where the two parts of what was written lie in the buffer.
LEMMA WrittenParts ==
  ASSUME NEW b, NEW W \in Nat, NEW F \in Seq(Chars), NEW l \in Seq(Chars), Written(b, W) = F \o l
  PROVE  Parts(b, W, F, l)
<1> DEFINE n == Len(F)
           m == Len(l)
           t == F \o l
<1>1. /\ n \in Nat /\ m \in Nat /\ t \in Seq(Chars) /\ Len(t) = n + m
      /\ \A j \in 1 .. n : t[j] = F[j]
      /\ \A j \in 1 .. m : t[n + j] = l[j]
  OBVIOUS
<1> HIDE DEF t, n, m
<1>2. W = n + m /\ \A i \in 0 .. W - 1 : b[i] = t[i + 1]
  BY <1>1, WrittenFacts DEF t
<1>3. ASSUME NEW j \in 0 .. m - 1 PROVE b[n + j] = l[j + 1]
  <2>1. n + j \in 0 .. W - 1 /\ n + j + 1 = n + (j + 1) /\ j + 1 \in 1 .. m
    BY <1>1, <1>2
  <2>2. QED
    BY <1>1, <1>2, <2>1
<1>4. ASSUME NEW i \in 0 .. n - 1 PROVE b[0 + i] = F[i + 1]
  <2>1. i \in 0 .. W - 1 /\ i + 1 \in 1 .. n /\ 0 + i = i
    BY <1>1, <1>2
  <2>2. QED
    BY <1>1, <1>2, <2>1
<1>5. QED
  BY <1>2, <1>3, <1>4 DEF Parts, Lies, n, m

\* No kept segment ends with a slash.
LEMMA EndsWithoutSlash ==
  ASSUME NEW kept, WellKept(kept), FlattenSeq(kept) # <<>>
  PROVE  /\ FlattenSeq(kept) \in Seq(Chars)
         /\ FlattenSeq(kept)[Len(FlattenSeq(kept))] # "/"
<1> DEFINE F == FlattenSeq(Front(kept))
           l == Last(kept)
<1>1. kept # <<>>
  BY DEF FlattenSeq
<1>2. /\ F \in Seq(Chars) /\ l \in Seq(Chars) /\ FlattenSeq(kept) = F \o l
      /\ l \notin {<<>>, <<"/">>} /\ Plain(l)
  BY <1>1, LastSegment
<1> HIDE DEF F, l
<1>3. /\ Len(l) \in Nat /\ Len(l) >= 1 /\ Len(F) \in Nat
      /\ Len(F \o l) = Len(F) + Len(l) /\ (F \o l)[Len(F) + Len(l)] = l[Len(l)]
      /\ F \o l \in Seq(Chars)
  BY <1>2
<1>4. l[Len(l)] # "/"
  <2>1. PICK m \in Nat : m = Len(l) /\ m >= 1
    BY <1>3
  <2>2. CASE m = 1
    <3>1. Len(l) = 1
      BY <2>1, <2>2
    <3>2. QED
      BY <1>2, <3>1
  <2>3. CASE m # 1
    <3>1. m \in 2 .. m
      BY <2>1, <2>3
    <3>2. \A j \in 2 .. m : l[j] # "/"
      BY <1>2, <2>1 DEF Plain
    <3>3. QED
      BY <2>1, <3>1, <3>2
  <2>4. QED
    BY <2>2, <2>3
<1>5. QED
  BY <1>2, <1>3, <1>4

\* The write cursor backs up to where the last segment kept begins.
LEMMA BackedUp ==
  ASSUME NEW kept, WellKept(kept), NEW b, NEW W \in Nat, Written(b, W) = FlattenSeq(kept),
         NEW w \in 0 .. W, w > 0 => b[w - 1] = "/", \A i \in w .. W - 1 : b[i] # "/"
  PROVE  Written(b, BackUp(w)) = FlattenSeq(IF kept = <<>> THEN kept ELSE Front(kept))
<1>1. CASE kept = <<>>
  <2>1. FlattenSeq(kept) = <<>> /\ <<>> \in Seq(Chars)
    BY <1>1 DEF FlattenSeq
  <2>2. W = 0
    <3>1. Written(b, W) = <<>>
      BY <2>1
    <3>2. QED
      BY <3>1, WrittenNothing
  <2>3. w = 0 /\ BackUp(w) = 0
    BY <2>2 DEF BackUp
  <2>4. QED
    BY <1>1, <2>2, <2>3
<1>2. CASE kept # <<>>
  <2> DEFINE F == FlattenSeq(Front(kept))
             l == Last(kept)
             n == Len(F)
  <2>1. /\ F \in Seq(Chars) /\ l \in Seq(Chars) /\ Written(b, W) = F \o l
        /\ l \notin {<<>>, <<"/">>} /\ Plain(l) /\ (l[1] = "/" \/ F = <<>>)
    BY <1>2, LastSegment
  <2> HIDE DEF F, l
  <2>2. n \in Nat /\ Len(l) \in Nat /\ Len(l) >= 1
    BY <2>1
  <2> HIDE DEF n
  <2>3. W = Len(F) + Len(l) /\ Lies(b, 0, F) /\ Lies(b, Len(F), l)
    <3>1. Parts(b, W, F, l)
      BY <2>1, WrittenParts
    <3>2. QED
      BY <3>1 DEF Parts
  <2>4. W = n + Len(l) /\ Lies(b, 0, F) /\ Lies(b, n, l)
    BY <2>3 DEF n
  \* Behind the first character of the last segment there is no slash.
  <2>5. \A i \in n + 1 .. W - 1 : b[i] # "/"
    <3>1. ASSUME NEW i \in n + 1 .. W - 1 PROVE b[i] # "/"
      <4>1. PICK j \in 0 .. Len(l) - 1 : j = i - n
        BY <2>2, <2>4
      <4>2. n + j = i /\ j + 1 \in 2 .. Len(l)
        BY <2>2, <4>1
      <4>3. b[n + j] = l[j + 1]
        BY <2>4 DEF Lies
      <4>4. QED
        BY <2>1, <4>2, <4>3 DEF Plain
    <3>2. QED
      BY <3>1
  <2>6. b[n] = l[1] /\ n \in 0 .. W - 1
    <3>1. n + 0 = n /\ 0 + 1 = 1 /\ 0 \in 0 .. Len(l) - 1
      BY <2>2
    <3>2. b[n + 0] = l[0 + 1]
      BY <2>4, <3>1 DEF Lies
    <3>3. QED
      BY <2>2, <2>4, <3>1, <3>2
  <2>7. BackUp(w) = n
    <3>1. CASE l[1] = "/"
      <4>1. w > n
        BY <2>2, <2>6, <3>1
      <4>2. b[w - 1] = "/" /\ w - 1 \in n .. W - 1
        BY <2>2, <4>1
      <4>3. w - 1 = n
        BY <2>2, <2>5, <4>2
      <4>4. QED
        BY <2>2, <4>1, <4>3 DEF BackUp
    <3>2. CASE l[1] # "/"
      <4>1. n = 0
        BY <2>1, <3>2 DEF n
      <4>2. \A i \in 0 .. W - 1 : b[i] # "/"
        BY <2>5, <2>6, <3>2, <4>1
      <4>3. w = 0
        BY <4>2
      <4>4. QED
        BY <4>1, <4>3 DEF BackUp
    <3>3. QED
      BY <3>1, <3>2
  <2>8. Written(b, n) = F
    <3>1. \A i \in 0 .. n - 1 : b[i] = F[i + 1]
      <4>1. \A i \in 0 .. n - 1 : 0 + i = i
        BY <2>2
      <4>2. QED
        BY <2>4, <4>1 DEF Lies, n
    <3>2. Len(F) = n
      BY DEF n
    <3>3. QED
      BY <2>1, <2>2, <3>1, <3>2, WrittenIs
  <2>9. QED
    BY <1>2, <2>7, <2>8 DEF F
<1>3. QED
  BY <1>1, <1>2

\* At the end of a segment that is not about to vanish, the segment stays; a
\* slash alone may be left before the terminator.
LEMMA MidSettles ==
  ASSUME NEW p, WellParsed(p), NEW b, NEW W \in Nat, Written(b, W) = Text(p),
         NEW x \in {"/", NUL}, NEW y, NEW z, Joins(b, W, x, y, z)
  PROVE  Text(p) = Final(p) \/ (x = NUL /\ p.seg = <<"/">>)
<1> DEFINE K == FlattenSeq(p.kept)
           seg == p.seg
           n == Len(K)
<1>1. p.kept \in Seq(Seq(Chars)) /\ seg \in Seq(Chars)
  BY DEF WellParsed, Parses
<1>2. K \in Seq(Chars) /\ FlattenSeq(Append(p.kept, seg)) = K \o seg
  BY <1>1, FlattenAppend
<1>3. Text(p) = K \o seg /\ Final(p) = FlattenSeq(Settle(p.kept, seg))
  BY DEF Text, Final
<1> HIDE DEF K, seg
<1>4. n \in Nat /\ W = n + Len(seg) /\ Lies(b, n, seg)
  <2>1. Written(b, W) = K \o seg
    BY <1>3
  <2>2. Parts(b, W, K, seg)
    BY <1>1, <1>2, <2>1, WrittenParts
  <2>3. QED
    BY <1>2, <2>2 DEF Parts
<1> HIDE DEF n
<1>5. CASE seg = <<>>
  <2>1. Settle(p.kept, seg) = p.kept
    BY <1>5 DEF Settle
  <2>2. K \o seg = K
    BY <1>2, <1>5
  <2>3. QED
    BY <1>3, <2>1, <2>2 DEF K
<1>6. CASE seg = <<"/">>
  <2>1. W = n + 1 /\ W > 0 /\ W - 1 = n + 0
    BY <1>4, <1>6
  <2>2. b[n + 0] = "/"
    BY <1>4, <1>6 DEF Lies
  <2>3. x # "/"
    BY <2>1, <2>2 DEF Joins, Void
  <2>4. QED
    BY <1>6, <2>3 DEF seg
<1>7. CASE seg = <<"/", ".">>
  <2>1. W = n + 2 /\ W > 1 /\ W - 2 = n + 0 /\ W - 1 = n + 1
    BY <1>4, <1>7
  <2>2. b[n + 0] = "/" /\ b[n + 1] = "."
    BY <1>4, <1>7 DEF Lies
  <2>3. FALSE
    BY <2>1, <2>2 DEF Joins, Void
  <2>4. QED
    BY <2>3
<1>8. CASE seg = <<"/", ".", ".">>
  <2>1. W = n + 3 /\ W > 2 /\ W - 3 = n + 0 /\ W - 2 = n + 1 /\ W - 1 = n + 2
    BY <1>4, <1>8
  <2>2. b[n + 0] = "/" /\ b[n + 1] = "." /\ b[n + 2] = "."
    BY <1>4, <1>8 DEF Lies
  <2>3. FALSE
    BY <2>1, <2>2 DEF Joins, Void
  <2>4. QED
    BY <2>3
<1>9. CASE seg \notin {<<>>, <<"/">>, <<"/", ".">>, <<"/", ".", ".">>}
  <2>1. Settle(p.kept, seg) = Append(p.kept, seg)
    BY <1>9 DEF Settle
  <2>2. QED
    BY <1>2, <1>3, <2>1
<1>10. QED
  BY <1>5, <1>6, <1>7, <1>8, <1>9

LEMMA DotAppended ==
  /\ Append(<<"/">>, ".") = <<"/", ".">>
  /\ Append(<<"/", ".">>, ".") = <<"/", ".", ".">>
<1> DEFINE s == <<"/">>
           t == <<"/", ".">>
           u == <<"/", ".", ".">>
<1>1. /\ s \in Seq(Chars) /\ t \in Seq(Chars) /\ u \in Seq(Chars) /\ "." \in Chars
      /\ Len(s) = 1 /\ Len(t) = Len(s) + 1 /\ Len(u) = Len(t) + 1
      /\ t[Len(s) + 1] = "." /\ \A i \in 1 .. Len(s) : t[i] = s[i]
      /\ u[Len(t) + 1] = "." /\ \A i \in 1 .. Len(t) : u[i] = t[i]
  BY DEF Chars
<1> HIDE DEF s, t, u
<1>2. Append(s, ".") = t /\ Append(t, ".") = u
  BY <1>1, AppendIs
<1>3. QED
  BY <1>2 DEF s, t, u

\* What comes of a path when a slash, and one or two dots behind it, are read.
LEMMA SkippedParses ==
  ASSUME NEW p, WellParsed(p), NEW p1, NEW p2, NEW p3,
         p1 = Read(p, "/"), p2 = Read(p1, "."), p3 = Read(p2, ".")
  PROVE  /\ WellParsed(p1) /\ Final(p1) = Final(p)
         /\ WellParsed(p2) /\ Final(p2) = Final(p)
         /\ WellParsed(p3) /\ Final(p3) = FlattenSeq(IF Settle(p.kept, p.seg) = <<>>
                                                     THEN Settle(p.kept, p.seg)
                                                     ELSE Front(Settle(p.kept, p.seg)))
<1> DEFINE kept == Settle(p.kept, p.seg)
<1>1. "/" \in Chars /\ "." \in Chars
  BY DEF Chars
<1>2. WellParsed(p1) /\ WellParsed(p2) /\ WellParsed(p3)
  BY <1>1, ReadWell
<1> HIDE DEF kept
<1>3. p1.kept = kept /\ p1.seg = <<"/">>
  BY DEF Read, kept
<1>4. p2.kept = kept /\ p2.seg = <<"/", ".">>
  <2>1. p2 = [kept |-> p1.kept, seg |-> Append(p1.seg, ".")]
    BY DEF Read
  <2>2. Append(<<"/">>, ".") = <<"/", ".">>
    BY DotAppended
  <2>3. QED
    BY <1>3, <2>1, <2>2
<1>5. p3.kept = kept /\ p3.seg = <<"/", ".", ".">>
  <2>1. p3 = [kept |-> p2.kept, seg |-> Append(p2.seg, ".")]
    BY DEF Read
  <2>2. Append(<<"/", ".">>, ".") = <<"/", ".", ".">>
    BY DotAppended
  <2>3. p3.kept = p2.kept /\ p3.seg = Append(p2.seg, ".")
    BY <2>1
  <2>4. QED
    BY <1>4, <2>2, <2>3
<1>6. Final(p1) = FlattenSeq(kept) /\ Final(p2) = FlattenSeq(kept)
  <2>1. Settle(kept, <<"/">>) = kept /\ Settle(kept, <<"/", ".">>) = kept
    BY DEF Settle
  <2>2. QED
    BY <1>3, <1>4, <2>1 DEF Final
<1>7. Final(p3) = FlattenSeq(IF kept = <<>> THEN kept ELSE Front(kept))
  <2>1. Settle(kept, <<"/", ".", ".">>) = IF kept = <<>> THEN kept ELSE Front(kept)
    BY DEF Settle
  <2>2. QED
    BY <1>5, <2>1 DEF Final
<1>8. Final(p) = FlattenSeq(kept)
  BY DEF Final, kept
<1>9. QED
  BY <1>2, <1>6, <1>7, <1>8 DEF kept

\* At least what was read is accounted for: with the segment that is being read
\* as it stands or, before a slash or the terminator, with what it comes to.
Accounts(b, w, p, x) ==
  /\ WellParsed(p)
  /\ Written(b, w) = Text(p) \/ (x \in {"/", NUL} /\ Written(b, w) = Final(p))

\* All was read; a slash may be left at the end.
AccountsForAll(b, w, p) ==
  /\ WellParsed(p)
  /\ Written(b, w) = Final(p) \/ (p.seg = <<"/">> /\ Written(b, w) = Text(p))

\* Inductive: what was written is what the reference makes of what was read.
ParseInv ==
  /\ FormInv
  /\ pc = "scan" => Accounts(path, writePos, Parsed(input)[readPos], Ahead(0))
  /\ pc = "tidy" => AccountsForAll(path, writePos, Parsed(input)[Len(input)])
  /\ MatchesReference

\* Before a slash that was not read yet, the segment has come to its end.
LEMMA BeforeNext ==
  ASSUME NEW b, NEW W \in Nat, NEW p, NEW x \in {"/", NUL}, NEW y, NEW z,
         Accounts(b, W, p, x), Joins(b, W, x, y, z)
  PROVE  AccountsForAll(b, W, p) /\ (x = "/" => Written(b, W) = Final(p))
<1>1. NUL # "/"
  BY CharacterAssumption
<1>2. CASE Written(b, W) = Text(p)
  <2>1. Text(p) = Final(p) \/ (x = NUL /\ p.seg = <<"/">>)
    BY <1>2, MidSettles DEF Accounts
  <2>2. QED
    BY <1>1, <1>2, <2>1 DEF Accounts, AccountsForAll
<1>3. CASE Written(b, W) = Final(p)
  BY <1>3 DEF Accounts, AccountsForAll
<1>4. QED
  BY <1>2, <1>3 DEF Accounts

\* The next character is read.
LEMMA ReadNext ==
  ASSUME input \in Seq(Chars), NEW k \in 0 .. Len(input) - 1
  PROVE  /\ Parsed(input)[k + 1] = Read(Parsed(input)[k], Given(input)[k])
         /\ Given(input)[k] \in Chars
<1>1. Len(input) \in Nat
  BY LenProperties
<1>2. PICK j \in 1 .. Len(input) : j = k + 1 /\ j - 1 = k
  BY <1>1
<1>3. Parsed(input)[j] = Read(Parsed(input)[j - 1], input[j])
  BY ParsedSteps
<1>4. k \in 0 .. Len(input) /\ k < Len(input)
  BY <1>1
<1>5. Given(input)[k] = input[k + 1]
  BY <1>4 DEF Given
<1>6. QED
  BY <1>2, <1>3, <1>5, GivenEnds

LEMMA ParseInit == NPInit => ParseInv
<1> SUFFICES ASSUME NPInit
             PROVE  ParseInv
  OBVIOUS
<1>1. FormInv /\ CursorInv
  BY FormInit, CursorInvInit
<1>2. Len(input) \in Nat /\ input \in Seq(Chars)
  BY <1>1, LenProperties DEF CursorInv
<1>3. Parsed(input)[0] = [kept |-> <<>>, seg |-> <<>>]
  BY <1>2, ParsedSteps
<1> DEFINE p == Parsed(input)[0]
<1>4. p.kept = <<>> /\ p.seg = <<>> /\ p \in Parses
  BY <1>3 DEF Parses
<1> HIDE DEF p
<1>5. WellParsed(p)
  BY <1>4 DEF WellParsed, WellKept, Plain
<1>6. FlattenSeq(<<>>) = <<>> /\ <<>> \o <<>> = <<>>
  <2>1. FlattenSeq(<<>>) = <<>>
    BY DEF FlattenSeq
  <2>2. <<>> \in Seq(Chars)
    OBVIOUS
  <2>3. QED
    BY <2>1, <2>2, ConcatEmptySeq
<1>7. Text(p) = <<>> /\ Final(p) = <<>>
  BY <1>4, <1>6 DEF Text, Final, Settle
<1>8. Written(path, writePos) = <<>>
  <2>1. writePos = 0
    BY DEF NPInit
  <2>2. QED
    BY <2>1 DEF Written
<1>9. pc = "tidy" => Len(input) = 0
  BY <1>2 DEF NPInit
<1>10. readPos = 0 /\ pc \in {"scan", "tidy"}
  BY DEF NPInit
<1>11. QED
  BY <1>1, <1>5, <1>7, <1>8, <1>9, <1>10
  DEF ParseInv, Accounts, AccountsForAll, MatchesReference, p

\* A test that stays in the path asks for what was given.
LEMMA AtAhead ==
  ASSUME CursorInv, pc = "scan", NEW k \in Nat, readPos + k <= Len(input)
  PROVE  At(k) = Ahead(k)
<1>1. Len(input) \in Nat /\ readPos \in 0 .. Len(input)
  BY LenProperties DEF CursorInv, NPTypeOK
<1>2. PICK i \in readPos .. Len(input) : i = readPos + k
  BY <1>1
<1>3. path[i] = Given(input)[i]
  BY DEF CursorInv, UnreadIntact
<1>4. QED
  BY <1>2, <1>3 DEF At, Ahead

\* A round that skips leaves what was read accounted for.
LEMMA ParseSkip ==
  ASSUME ParseInv, SkipSlash \/ SkipParent \/ SkipThis
  PROVE  ParseInv'
<1> DEFINE L == Len(input)
           r == readPos
           W == writePos
           q == Parsed(input)
           g == Given(input)
<1>1. /\ pc = "scan" /\ pc' = "scan" /\ input' = input /\ path' = path
      /\ SlashSlash \/ SlashThis \/ SlashParent
  BY DEF SkipSlash, SkipParent, SkipThis
<1>2. /\ CursorInv /\ FormInv' /\ input \in Seq(Chars)
      /\ Accounts(path, W, q[r], Ahead(0))
      /\ Joins(path, W, Ahead(0), Ahead(1), Ahead(2))
  BY <1>1, FormSkip DEF ParseInv, FormInv, CursorInv
<1>3. L \in Nat /\ r \in 0 .. L /\ W \in Nat
  BY <1>2, LenProperties DEF CursorInv, NPTypeOK
<1>4. Ahead(0) = "/" /\ r # L
  <2>1. Ahead(0) = "/" /\ (Ahead(0) = NUL <=> r = L)
    BY <1>1, <1>2, TestsAhead
  <2>2. QED
    BY <2>1, CharacterAssumption
<1>5. Written(path, W) = Final(q[r]) /\ WellParsed(q[r])
  BY <1>2, <1>3, <1>4, BeforeNext DEF Accounts
<1>6. \A i \in 0 .. L : g[i] # NUL => i < L
  BY <1>2, <1>3, GivenEnds
<1>7. \A k \in 0 .. L - 1 : q[k + 1] = Read(q[k], g[k])
  BY <1>2, ReadNext
<1>8. NUL # "."
  BY CharacterAssumption
<1>9. g[r] = "/" /\ At(1) = g[r + 1] /\ r + 1 \in 0 .. L
  <2>1. r + 1 <= L /\ r + 0 = r
    BY <1>3, <1>4
  <2>2. QED
    BY <1>1, <1>2, <1>3, <1>4, <2>1, AtAhead DEF Ahead
<1>10. \A n \in Int : readPos' = r + n => Ahead(0)' = g[r + n]
  <2>1. \A n \in Int : r + n + 0 = r + n
    BY <1>3
  <2>2. QED
    BY <1>1, <2>1 DEF Ahead
<1>11. Read(q[r], "/") = q[r + 1]
  <2>1. r \in 0 .. L - 1
    BY <1>3, <1>9
  <2>2. QED
    BY <1>7, <1>9, <2>1
<1> SUFFICES Accounts(path, writePos', q[readPos'], Ahead(0)')
  BY <1>1, <1>2 DEF ParseInv, MatchesReference
<1> DEFINE p1 == Read(q[r], "/")
           p2 == Read(p1, ".")
           p3 == Read(p2, ".")
<1>12. /\ WellParsed(p1) /\ Final(p1) = Final(q[r])
       /\ WellParsed(p2) /\ Final(p2) = Final(q[r])
       /\ WellParsed(p3)
       /\ Final(p3) = FlattenSeq(IF Settle(q[r].kept, q[r].seg) = <<>>
                                 THEN Settle(q[r].kept, q[r].seg)
                                 ELSE Front(Settle(q[r].kept, q[r].seg)))
  <2> HIDE DEF q, r
  <2>1. \A x : x = p2 => x = Read(p1, ".")
    OBVIOUS
  <2>2. QED
    BY <1>5, SkippedParses
<1>13. g[r + 1] = "." => At(2) = g[r + 2] /\ q[r + 2] = p2 /\ r + 2 \in 0 .. L
  <2>1. SUFFICES ASSUME g[r + 1] = "."
                 PROVE  At(2) = g[r + 2] /\ q[r + 2] = p2 /\ r + 2 \in 0 .. L
    OBVIOUS
  <2>2. r + 1 \in 0 .. L - 1 /\ r + 1 + 1 = r + 2 /\ r + 2 <= L
    BY <1>3, <1>6, <1>8, <1>9, <2>1
  <2>3. q[r + 2] = p2
    BY <1>7, <1>11, <2>1, <2>2
  <2>4. At(2) = g[r + 2]
    BY <1>1, <1>2, <2>2, AtAhead DEF Ahead
  <2>5. QED
    BY <1>3, <2>2, <2>3, <2>4
<1>14. CASE SkipSlash
  <2>1. readPos' = r + 1 /\ writePos' = W /\ g[r + 1] = "/"
    BY <1>9, <1>14 DEF SkipSlash, SlashSlash
  <2>2. Ahead(0)' = "/"
    BY <1>10, <2>1
  <2>3. QED
    BY <1>5, <1>11, <1>12, <2>1, <2>2 DEF Accounts
<1>15. CASE SkipThis
  <2>1. readPos' = r + 2 /\ writePos' = W /\ g[r + 1] = "." /\ At(2) \in {NUL, "/"}
    BY <1>9, <1>15 DEF SkipThis, SlashThis
  <2>2. Ahead(0)' \in {NUL, "/"} /\ q[r + 2] = p2
    BY <1>10, <1>13, <2>1
  <2>3. QED
    BY <1>5, <1>12, <2>1, <2>2 DEF Accounts
<1>16. CASE SkipParent
  <2>1. /\ readPos' = r + 3 /\ g[r + 1] = "." /\ At(2) = "." /\ At(3) \in {NUL, "/"}
    BY <1>9, <1>16 DEF SkipParent, SlashParent
  <2>2. PICK w \in 0 .. W : Component(w) /\ writePos' = BackUp(w)
    BY <1>16 DEF SkipParent
  <2>3. g[r + 2] = "." /\ q[r + 2] = p2 /\ r + 2 \in 0 .. L
    BY <1>13, <2>1
  <2>4. r + 2 \in 0 .. L - 1 /\ r + 2 + 1 = r + 3 /\ r + 3 <= L
    BY <1>3, <1>6, <1>8, <2>3
  <2>5. q[r + 3] = p3
    BY <1>7, <2>3, <2>4
  <2>6. Ahead(0)' \in {NUL, "/"}
    <3>1. At(3) = g[r + 3]
      BY <1>1, <1>2, <2>4, AtAhead DEF Ahead
    <3>2. QED
      BY <1>10, <2>1, <3>1
  <2>7. Written(path, BackUp(w)) = Final(p3)
    <3> DEFINE kept == Settle(q[r].kept, q[r].seg)
    <3>1. WellKept(kept)
      BY <1>5, SettleWell
    <3>2. Written(path, W) = FlattenSeq(kept)
      BY <1>5 DEF Final
    <3>3. /\ w > 0 => path[w - 1] = "/"
          /\ \A i \in w .. W - 1 : path[i] # "/"
      BY <2>2 DEF Component
    <3> HIDE DEF kept
    <3>4. Written(path, BackUp(w)) = FlattenSeq(IF kept = <<>> THEN kept ELSE Front(kept))
      BY <1>3, <3>1, <3>2, <3>3, BackedUp
    <3>5. QED
      BY <1>12, <3>4 DEF kept
  <2>8. QED
    BY <1>12, <2>1, <2>2, <2>5, <2>6, <2>7 DEF Accounts
<1>17. QED
  BY <1>14, <1>15, <1>16

LEMMA WrittenMore ==
  ASSUME NEW b, NEW d, NEW W \in Nat, NEW t \in Seq(Chars), NEW c \in Chars,
         Written(b, W) = t, d[W] = c, \A i \in 0 .. W - 1 : d[i] = b[i]
  PROVE  Written(d, W + 1) = Append(t, c)
<1> DEFINE u == Append(t, c)
<1>1. /\ u \in Seq(Chars) /\ Len(u) = Len(t) + 1 /\ u[Len(t) + 1] = c
      /\ \A i \in 1 .. Len(t) : u[i] = t[i]
  OBVIOUS
<1>2. Len(t) = W /\ \A i \in 0 .. W - 1 : b[i] = t[i + 1]
  BY WrittenFacts
<1> HIDE DEF u
<1>3. ASSUME NEW i \in 0 .. W + 1 - 1 PROVE d[i] = u[i + 1]
  <2>1. CASE i = W
    BY <1>1, <1>2, <2>1
  <2>2. CASE i # W
    <3>1. i \in 0 .. W - 1 /\ i + 1 \in 1 .. W
      BY <2>2
    <3>2. QED
      BY <1>1, <1>2, <3>1
  <2>3. QED
    BY <2>1, <2>2
<1>4. W + 1 \in Nat /\ Len(u) = W + 1
  BY <1>1, <1>2
<1>5. Written(d, W + 1) = u
  BY <1>1, <1>3, <1>4, WrittenIs
<1>6. QED
  BY <1>5 DEF u

\* The character copied is the one that the reference reads.
LEMMA ParseCopy ==
  ASSUME ParseInv, Copy
  PROVE  ParseInv'
<1> DEFINE L == Len(input)
           r == readPos
           W == writePos
           p == Parsed(input)[r]
           c == Given(input)[r]
           n == Parsed(input)[r + 1]
<1>1. /\ pc = "scan" /\ writePos' = W + 1 /\ readPos' = r + 1 /\ input' = input
      /\ path' = [path EXCEPT ![W] = At(0)] /\ At(0) # NUL
      /\ pc' = IF W + 1 < L THEN "scan" ELSE "tidy"
  BY DEF Copy
<1>2. /\ CursorInv /\ FormInv' /\ input \in Seq(Chars)
      /\ Accounts(path, W, p, Ahead(0))
      /\ Joins(path, W, Ahead(0), Ahead(1), Ahead(2))
  BY <1>1, FormCopy DEF ParseInv, FormInv, CursorInv
<1>3. /\ L \in Nat /\ r \in 0 .. L /\ W \in 0 .. r /\ path \in [0 .. L -> Chars \cup {NUL}]
  BY <1>2, LenProperties DEF CursorInv, NPTypeOK
<1>4. At(0) = c /\ Ahead(0) = c /\ r # L
  <2>1. r + 0 = r
    BY <1>3
  <2>2. QED
    BY <1>1, <1>2, <2>1, TestsAhead DEF Ahead
<1>5. n = Read(p, c) /\ c \in Chars
  <2>1. r \in 0 .. L - 1
    BY <1>3, <1>4
  <2>2. QED
    BY <1>2, <2>1, ReadNext
<1>6. path'[W] = c /\ \A i \in 0 .. W - 1 : path'[i] = path[i]
  BY <1>1, <1>3, <1>4
<1>7. WellParsed(p) /\ Text(p) \in Seq(Chars) /\ Final(p) \in Seq(Chars) /\ W \in Nat
  BY <1>2, <1>3, <1>5, ReadWell DEF Accounts
<1> HIDE DEF p, c, n
<1>8. WellParsed(n)
  BY <1>5, <1>7, ReadWell
<1>9. Written(path', W + 1) = Text(n)
  <2>1. ASSUME NEW t \in Seq(Chars), Written(path, W) = t
        PROVE  Written(path', W + 1) = Append(t, c)
    <3> HIDE DEF W
    <3>1. QED
      BY <1>5, <1>6, <1>7, <2>1, WrittenMore
  <2>2. CASE c = "/"
    <3>1. Written(path, W) = Final(p)
      BY <1>2, <1>4, <1>7, <2>2, BeforeNext
    <3>2. QED
      BY <1>5, <1>7, <2>1, <2>2, <3>1, ReadWell
  <2>3. CASE c # "/"
    <3>1. Written(path, W) = Text(p)
      BY <1>1, <1>2, <1>4, <2>3 DEF Accounts
    <3>2. QED
      BY <1>5, <1>7, <2>1, <2>3, <3>1, ReadWell
  <2>4. QED
    BY <2>2, <2>3
<1>10. CASE W + 1 < L
  <2>1. Accounts(path', W + 1, n, Ahead(0)')
    BY <1>8, <1>9 DEF Accounts
  <2>2. QED
    BY <1>1, <1>2, <1>10, <2>1 DEF ParseInv, MatchesReference, n
\* As many characters were written as the path has, so none was skipped.
<1>11. CASE ~(W + 1 < L)
  <2>1. r + 1 = L /\ pc' = "tidy" /\ W + 1 \in Nat
    BY <1>1, <1>3, <1>4, <1>11
  <2>2. Joins(path', W + 1, NUL, NUL, NUL)
    BY <1>1, <1>2, <2>1 DEF FormInv
  <2>3. Accounts(path', W + 1, n, NUL)
    BY <1>8, <1>9 DEF Accounts
  <2>4. AccountsForAll(path', W + 1, n)
    BY <2>1, <2>2, <2>3, BeforeNext
  <2>5. n = Parsed(input)[L]
    BY <2>1 DEF n
  <2>6. QED
    BY <1>1, <1>2, <2>1, <2>4, <2>5 DEF ParseInv, MatchesReference
<1>12. QED
  BY <1>10, <1>11

\* The terminator ends the last segment.
LEMMA ParseCopyEnd ==
  ASSUME ParseInv, CopyEnd
  PROVE  ParseInv'
<1> DEFINE L == Len(input)
           W == writePos
           p == Parsed(input)[L]
<1>1. /\ pc = "scan" /\ pc' = "tidy" /\ writePos' = W /\ input' = input
      /\ path' = [path EXCEPT ![W] = NUL] /\ At(0) = NUL
  BY DEF CopyEnd
<1>2. /\ CursorInv /\ FormInv' /\ input \in Seq(Chars)
      /\ Accounts(path, W, Parsed(input)[readPos], Ahead(0))
      /\ Joins(path, W, Ahead(0), Ahead(1), Ahead(2))
  BY <1>1, FormCopyEnd DEF ParseInv, FormInv, CursorInv
<1>3. L \in Nat /\ W \in 0 .. L /\ W \in Nat /\ path \in [0 .. L -> Chars \cup {NUL}]
  BY <1>2, LenProperties DEF CursorInv, NPTypeOK
<1>4. readPos = L /\ Ahead(0) = NUL
  BY <1>1, <1>2, TestsAhead
<1>5. AccountsForAll(path, W, p)
  <2> HIDE DEF W
  <2>1. QED
    BY <1>2, <1>3, <1>4, BeforeNext
<1>6. Written(path', W) = Written(path, W)
  <2>1. ASSUME NEW i \in 1 .. W PROVE path'[i - 1] = path[i - 1]
    BY <1>1, <1>3
  <2>2. QED
    BY <2>1 DEF Written
<1>7. AccountsForAll(path', W, p)
  BY <1>5, <1>6 DEF AccountsForAll
<1>8. QED
  BY <1>1, <1>2, <1>7 DEF ParseInv, MatchesReference

\* The string in a buffer ends at its first terminator.
LEMMA StringEnds ==
  ASSUME NEW M \in Nat, NEW b \in [0 .. M -> Chars \cup {NUL}], NEW e \in 0 .. M,
         b[e] = NUL, \A i \in 0 .. e - 1 : b[i] # NUL
  PROVE  Min({i \in DOMAIN b : b[i] = NUL}) = e
<1> DEFINE S == {i \in DOMAIN b : b[i] = NUL}
<1>1. e \in S /\ \A y \in S : e <= y
  OBVIOUS
<1>2. \A x \in S : (\A y \in S : x <= y) => x = e
  <2>1. S \subseteq Int
    OBVIOUS
  <2>2. QED
    BY <1>1, <2>1
<1> HIDE DEF S
<1>3. Min(S) = e
  BY <1>1, <1>2 DEF Min
<1>4. QED
  BY <1>3 DEF S

\* A slash left at the end goes, and nothing becomes the root: so does the
\* reference.
LEMMA ParseTidy ==
  ASSUME ParseInv, Tidy
  PROVE  ParseInv'
<1> DEFINE L == Len(input)
           W == writePos
           p == Parsed(input)[L]
           K == FlattenSeq(Settle(p.kept, p.seg))
           t == Written(path, W)
<1>1. pc = "tidy" /\ pc' = "done" /\ input' = input
  BY DEF Tidy
<1>2. /\ CursorInv /\ CursorInv' /\ FormInv' /\ input \in Seq(Chars)
      /\ AccountsForAll(path, W, p) /\ path[W] = NUL
  BY <1>1, FormTidy DEF ParseInv, FormInv, CursorInv
<1>3. /\ L \in Nat /\ W \in 0 .. L /\ W \in Nat /\ path \in [0 .. L -> Chars \cup {NUL}]
      /\ path' \in [0 .. L -> Chars \cup {NUL}]
  BY <1>1, <1>2, LenProperties DEF CursorInv, NPTypeOK
<1>4. /\ WellParsed(p) /\ Text(p) \in Seq(Chars) /\ K \in Seq(Chars)
      /\ t = K \/ (p.seg = <<"/">> /\ t = Text(p))
  <2>1. "/" \in Chars
    BY DEF Chars
  <2>2. QED
    BY <1>2, <2>1, ReadWell DEF AccountsForAll, Final
<1>5. NUL \notin Chars /\ NUL # "/" /\ "/" \in Chars
  BY CharacterAssumption DEF Chars
<1>6. input = <<>> <=> L = 0
  BY <1>2
<1> SUFFICES Result' = IF K = <<>> /\ L # 0 THEN <<"/">> ELSE K
  BY <1>1, <1>2, <1>6 DEF ParseInv, MatchesReference, Normal
<1> HIDE DEF p, K, t, L, W
<1>7. /\ t \in Seq(Chars) /\ Len(t) = W
      /\ \A i \in 0 .. W - 1 : path[i] = t[i + 1] /\ path[i] \in Chars
  <2>1. t \in Seq(Chars)
    BY <1>4
  <2>2. Len(t) = W /\ \A i \in 0 .. W - 1 : path[i] = t[i + 1]
    BY <1>3, <2>1, WrittenFacts DEF t
  <2>3. \A i \in 0 .. W - 1 : i + 1 \in 1 .. Len(t)
    BY <1>3, <2>2
  <2>4. QED
    BY <2>1, <2>2, <2>3, ElementOfSeq
\* The result is what lies before the first terminator.
<1>8. ASSUME NEW e \in 0 .. L, path'[e] = NUL, \A i \in 0 .. e - 1 : path'[i] \in Chars
      PROVE  Result' = Written(path', e)
  <2>1. Min({i \in DOMAIN path' : path'[i] = NUL}) = e
    BY <1>3, <1>5, <1>8, StringEnds
  <2>2. QED
    BY <2>1 DEF Result, Written
\* The path becomes the root.
<1>9. ASSUME W = 0, L # 0 PROVE Result' = <<"/">>
  <2>1. Trimmed = path /\ path[0] = NUL
    BY <1>2, <1>9 DEF Trimmed, W
  <2>2. path' = [path EXCEPT ![0] = "/", ![1] = NUL]
    BY <1>3, <1>9, <2>1 DEF Tidy, L
  <2>3. 1 \in 0 .. L /\ path'[0] = "/" /\ path'[1] = NUL
    BY <1>3, <1>9, <2>2
  <2>4. Result' = Written(path', 1)
    BY <1>5, <1>8, <2>3
  <2>5. <<"/">> \in Seq(Chars) /\ Len(<<"/">>) = 1 /\ 1 \in Nat
    BY <1>5
  <2>6. \A i \in 0 .. 1 - 1 : path'[i] = <<"/">>[i + 1]
    BY <2>3
  <2>7. QED
    BY <2>4, <2>5, <2>6, WrittenIs
\* The path stays as it was written.
<1>10. ASSUME ~(W > 1 /\ path[W - 1] = "/"), W # 0 \/ L = 0 PROVE Result' = t
  <2>1. Trimmed = path
    BY <1>10 DEF Trimmed, W
  <2>2. W # 0 => path[0] # NUL
    BY <1>3, <1>5, <1>7
  <2>3. path' = path
    BY <1>3, <1>10, <2>1, <2>2 DEF Tidy, L
  <2>4. QED
    BY <1>2, <1>3, <1>7, <1>8, <2>3 DEF t
\* The slash at the end goes.
<1>11. ASSUME W > 1, path[W - 1] = "/" PROVE Result' = Written(path, W - 1)
  <2>1. Trimmed = [path EXCEPT ![W - 1] = NUL]
    BY <1>11 DEF Trimmed, W
  <2>2. W - 1 \in 1 .. L /\ W - 1 \in 0 .. L /\ 0 \in 0 .. W - 1 /\ 0 # W - 1
    BY <1>3, <1>11
  <2>3. Trimmed[0] # NUL
    BY <1>3, <1>5, <1>7, <2>1, <2>2
  <2>4. path' = [path EXCEPT ![W - 1] = NUL]
    BY <2>1, <2>3 DEF Tidy
  <2>5. path'[W - 1] = NUL /\ \A i \in 0 .. W - 1 - 1 : path'[i] = path[i] /\ path'[i] \in Chars
    BY <1>3, <1>7, <2>2, <2>4
  <2>6. Result' = Written(path', W - 1)
    BY <1>8, <2>2, <2>5
  <2>7. \A i \in 1 .. W - 1 : i - 1 \in 0 .. W - 1 - 1
    BY <1>3
  <2>8. QED
    BY <2>5, <2>6, <2>7 DEF Written
<1>12. CASE t = K
  <2>1. W = 0 <=> K = <<>>
    BY <1>7, <1>12
  <2>2. ~(W > 1 /\ path[W - 1] = "/")
    <3>1. SUFFICES ASSUME W > 1, path[W - 1] = "/"
                   PROVE  FALSE
      OBVIOUS
    <3>2. W - 1 \in 0 .. W - 1 /\ W - 1 + 1 = W
      BY <1>3, <3>1
    <3>3. t[W] = "/"
      BY <1>7, <3>1, <3>2
    <3>4. t # <<>> /\ t = FlattenSeq(Settle(p.kept, p.seg))
      BY <1>12, <2>1, <3>1 DEF K
    <3>5. WellKept(Settle(p.kept, p.seg))
      BY <1>4, SettleWell
    <3>6. QED
      BY <1>7, <3>3, <3>4, <3>5, EndsWithoutSlash
  <2>3. QED
    BY <1>9, <1>10, <1>12, <2>1, <2>2
<1>13. CASE p.seg = <<"/">> /\ t = Text(p)
  <2>1. Settle(p.kept, p.seg) = p.kept
    BY <1>13 DEF Settle
  <2>2. t = K \o <<"/">>
    BY <1>13, <2>1 DEF Text, K
  <2>3. W = Len(K) + 1 /\ Lies(path, Len(K), <<"/">>) /\ Lies(path, 0, K) /\ Len(K) \in Nat
    <3> DEFINE s == <<"/">>
    <3>1. s \in Seq(Chars) /\ Len(s) = 1 /\ Len(K) \in Nat
      BY <1>4, <1>5
    <3>2. Written(path, W) = K \o s
      BY <2>2 DEF t
    <3> HIDE DEF s
    <3>3. W = Len(K) + Len(s) /\ Lies(path, 0, K) /\ Lies(path, Len(K), s)
      <4>1. Parts(path, W, K, s)
        BY <1>3, <1>4, <3>1, <3>2, WrittenParts
      <4>2. QED
        BY <4>1 DEF Parts
    <3>4. QED
      BY <3>1, <3>3 DEF s
  <2>4. path[W - 1] = "/" /\ W - 1 = Len(K)
    <3>1. Len(K) + 0 = W - 1 /\ 0 + 1 = 1 /\ 0 \in 0 .. Len(<<"/">>) - 1
      BY <2>3
    <3>2. path[Len(K) + 0] = <<"/">>[0 + 1]
      BY <2>3, <3>1 DEF Lies
    <3>3. QED
      BY <2>3, <3>1, <3>2
  <2>5. CASE W > 1
    <3>1. Written(path, W - 1) = K
      <4>1. \A i \in 0 .. Len(K) - 1 : 0 + i = i
        BY <2>3
      <4>2. \A i \in 0 .. Len(K) - 1 : path[i] = K[i + 1]
        BY <2>3, <4>1 DEF Lies
      <4>3. Written(path, Len(K)) = K
        BY <1>4, <2>3, <4>2, WrittenIs
      <4>4. QED
        BY <2>4, <4>3
    <3>2. K # <<>>
      BY <2>3, <2>5
    <3>3. QED
      BY <1>11, <2>4, <2>5, <3>1, <3>2
  <2>6. CASE ~(W > 1)
    <3>1. W = 1 /\ K = <<>> /\ L # 0
      BY <1>3, <1>4, <2>3, <2>6
    <3>2. t = <<"/">>
      BY <1>5, <2>2, <3>1, ConcatEmptySeq
    <3>3. QED
      BY <1>10, <3>1, <3>2
  <2>7. QED
    BY <2>5, <2>6
<1>14. QED
  BY <1>4, <1>12, <1>13

LEMMA ParseNext == ParseInv /\ [NPNext]_npVars => ParseInv'
<1> SUFFICES ASSUME ParseInv, [NPNext]_npVars
             PROVE  ParseInv'
  OBVIOUS
<1>1. CASE SkipSlash \/ SkipParent \/ SkipThis
  BY <1>1, ParseSkip
<1>2. CASE Copy
  BY <1>2, ParseCopy
<1>3. CASE CopyEnd
  BY <1>3, ParseCopyEnd
<1>4. CASE Tidy
  BY <1>4, ParseTidy
<1>5. CASE UNCHANGED npVars
  <2>1. FormInv'
    BY <1>5, FormNext DEF ParseInv
  <2>2. QED
    BY <1>5, <2>1 DEF npVars, ParseInv, Ahead, MatchesReference, Result
<1>6. QED
  BY <1>1, <1>2, <1>3, <1>4, <1>5 DEF NPNext, Done

\* Whatever path is given, however long, the result is the path resolved segment
\* by segment: the segments without a name and "." left out, and for every ".."
\* the one before it (FileContext.cpp:347-404).
THEOREM ResultMatches == NPSpec => []MatchesReference
<1>1. ParseInv => MatchesReference
  BY DEF ParseInv
<1>2. QED
  BY ParseInit, ParseNext, <1>1, PTL DEF NPSpec
=============================================================================
