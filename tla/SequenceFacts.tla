---------------------------- MODULE SequenceFacts ----------------------------
(***************************************************************************)
(* Facts about sequences that the proofs about mounts, work items and      *)
(* paths use.                                                              *)
(***************************************************************************)
EXTENDS Integers, Sequences, SequencesExt, SequenceTheorems, WellFoundedInduction, TLAPS

\* What is left of a sequence without its i-th element.
LEMMA RemoveAtFacts ==
  ASSUME NEW S, NEW s \in Seq(S), NEW i \in 1 .. Len(s)
  PROVE  /\ RemoveAt(s, i) \in Seq(S)
         /\ Len(RemoveAt(s, i)) = Len(s) - 1
         /\ \A j \in 1 .. Len(s) - 1 : RemoveAt(s, i)[j] = IF j < i THEN s[j] ELSE s[j + 1]
<1> DEFINE a == SubSeq(s, 1, i - 1)
           b == SubSeq(s, i + 1, Len(s))
<1>0. Len(s) \in Nat /\ i \in Int /\ 1 <= i /\ i <= Len(s)
  OBVIOUS
<1>1. /\ a \in Seq(S) /\ Len(a) = i - 1
      /\ \A j \in 1 .. i - 1 : a[j] = s[j]
  BY <1>0
<1>2. /\ b \in Seq(S) /\ Len(b) = Len(s) - i
      /\ \A j \in 1 .. Len(s) - i : b[j] = s[i + j]
  BY <1>0
<1>3. RemoveAt(s, i) = a \o b
  BY DEF RemoveAt
<1> HIDE DEF a, b
<1>4. /\ a \o b \in Seq(S) /\ Len(a \o b) = Len(a) + Len(b)
      /\ \A j \in 1 .. Len(a) + Len(b) :
           (a \o b)[j] = IF j <= Len(a) THEN a[j] ELSE b[j - Len(a)]
  BY <1>1, <1>2, ConcatProperties
<1>5. Len(a) + Len(b) = Len(s) - 1
  BY <1>0, <1>1, <1>2
<1>6. ASSUME NEW j \in 1 .. Len(s) - 1
      PROVE  (a \o b)[j] = IF j < i THEN s[j] ELSE s[j + 1]
  <2>1. (a \o b)[j] = IF j <= i - 1 THEN a[j] ELSE b[j - (i - 1)]
    BY <1>1, <1>4, <1>5
  <2>2. CASE j < i
    BY <1>1, <2>1, <2>2
  <2>3. CASE ~(j < i)
    <3>1. j - (i - 1) \in 1 .. Len(s) - i /\ i + (j - (i - 1)) = j + 1
      BY <2>3
    <3>2. QED
      BY <1>2, <2>1, <2>3, <3>1
  <2>4. QED
    BY <2>2, <2>3
<1>7. QED
  BY <1>3, <1>4, <1>5, <1>6

\* What is left without the first element.
LEMMA PopFacts ==
  ASSUME NEW S, NEW s \in Seq(S), s # <<>>
  PROVE  /\ RemoveAt(s, 1) \in Seq(S) /\ Len(RemoveAt(s, 1)) = Len(s) - 1
         /\ \A i \in 1 .. Len(s) - 1 : RemoveAt(s, 1)[i] = s[i + 1]
         /\ s[1] \in S /\ Len(s) >= 1
<1>1. Len(s) \in Nat /\ Len(s) >= 1 /\ 1 \in 1 .. Len(s) /\ s[1] \in S
  OBVIOUS
<1>2. QED
  BY <1>1, RemoveAtFacts

\* A sequence with another element at one place.
LEMMA UpdateFacts ==
  ASSUME NEW S, NEW s \in Seq(S), NEW i \in DOMAIN s, NEW e \in S
  PROVE  /\ [s EXCEPT ![i] = e] \in Seq(S) /\ Len([s EXCEPT ![i] = e]) = Len(s)
         /\ DOMAIN [s EXCEPT ![i] = e] = DOMAIN s
         /\ [s EXCEPT ![i] = e][i] = e
         /\ \A j \in DOMAIN s : j # i => [s EXCEPT ![i] = e][j] = s[j]
OBVIOUS

\* Induction over a set: what holds of 0 and goes on from each number to the
\* next holds up to N.
LEMMA CountUp ==
  ASSUME NEW N \in Nat, NEW T, 0 \in T, \A n \in 0 .. N - 1 : n \in T => n + 1 \in T
  PROVE  \A n \in 0 .. N : n \in T
<1> DEFINE missing == {n \in 0 .. N : n \notin T}
           R == OpToRel(<, Nat)
<1>1. ASSUME missing # {} PROVE FALSE
  <2>1. missing \subseteq Nat
    OBVIOUS
  <2>2. PICK n \in missing : \A m \in missing : ~(<<m, n>> \in R)
    <3> HIDE DEF missing, R
    <3> QED
      BY <1>1, <2>1, WFMin, NatLessThanWellFounded DEF R
  <2>3. n \in 0 .. N /\ n \notin T /\ n # 0
    BY <2>2
  <2>4. n - 1 \in 0 .. N - 1 /\ n - 1 + 1 = n
    BY <2>3
  <2>5. n - 1 \notin T
    BY <2>3, <2>4
  <2>6. n - 1 \in missing /\ <<n - 1, n>> \in R
    BY <2>4, <2>5 DEF OpToRel
  <2>7. QED
    BY <2>2, <2>6
<1>2. QED
  BY <1>1

\* Up to n, f begins with b and goes on by steps.
Stepwise(f, n, b, step) == f[0] = b /\ \A k \in 1 .. n : f[k] = step[k][f[k - 1]]

\* There is a function that begins with a value and goes on by steps.
LEMMA StepwiseExists ==
  ASSUME NEW N \in Nat, NEW D, NEW b \in D, NEW step \in [0 .. N -> [D -> D]]
  PROVE  \E f \in [0 .. N -> D] : Stepwise(f, N, b, step)
<1> DEFINE Upto(n, f) == Stepwise(f, n, b, step)
           T == {n \in 0 .. N : \E f \in [0 .. n -> D] : Upto(n, f)}
<1>1. 0 \in T
  <2> DEFINE z == [k \in 0 .. 0 |-> b]
  <2>1. z \in [0 .. 0 -> D] /\ z[0] = b /\ 0 \in 0 .. N
    OBVIOUS
  <2> HIDE DEF z
  <2>2. Upto(0, z)
    BY <2>1 DEF Stepwise
  <2>3. QED
    BY <2>1, <2>2
<1>2. ASSUME NEW n \in 0 .. N - 1, n \in T PROVE n + 1 \in T
  <2>1. PICK f \in [0 .. n -> D] : Upto(n, f)
    BY <1>2
  <2> DEFINE g == [k \in 0 .. n + 1 |-> IF k = n + 1 THEN step[n + 1][f[n]] ELSE f[k]]
  <2>2. n + 1 \in 0 .. N /\ n \in 0 .. n /\ f[n] \in D
    OBVIOUS
  <2>3. step[n + 1][f[n]] \in D
    BY <2>2
  <2>4. g \in [0 .. n + 1 -> D]
    BY <2>3
  <2>5. g[0] = b
    BY <2>1 DEF Stepwise
  <2>6. ASSUME NEW k \in 1 .. n + 1 PROVE g[k] = step[k][g[k - 1]]
    <3>1. CASE k = n + 1
      <4>1. g[k - 1] = f[n] /\ g[k] = step[n + 1][f[n]]
        BY <3>1
      <4>2. QED
        BY <3>1, <4>1
    <3>2. CASE k # n + 1
      <4>1. k \in 1 .. n /\ g[k] = f[k] /\ g[k - 1] = f[k - 1]
        BY <3>2
      <4>2. QED
        BY <2>1, <4>1 DEF Stepwise
    <3>3. QED
      BY <3>1, <3>2
  <2> HIDE DEF g
  <2>7. Upto(n + 1, g)
    BY <2>5, <2>6 DEF Stepwise
  <2>8. QED
    BY <2>2, <2>4, <2>7
<1>3. N \in T
  <2> HIDE DEF T
  <2>1. \A n \in 0 .. N : n \in T
    BY <1>1, <1>2, CountUp
  <2>2. QED
    BY <2>1
<1>4. QED
  BY <1>3

\* What the concatenation of a sequence of sequences is made of.
LEMMA FlattenSteps ==
  ASSUME NEW S, NEW seqs \in Seq(Seq(S)), seqs # <<>>
  PROVE  \E f \in [1 .. Len(seqs) -> Seq(S)] :
           /\ f[1] = seqs[1]
           /\ \A i \in 2 .. Len(seqs) : f[i] = f[i - 1] \o seqs[i]
           /\ FlattenSeq(seqs) = f[Len(seqs)]
<1> DEFINE n == Len(seqs)
           step == [k \in 0 .. n |-> [t \in Seq(S) |-> IF k = 0 THEN t ELSE t \o seqs[k]]]
<1>1. n \in Nat /\ n >= 1 /\ \A i \in 1 .. n : seqs[i] \in Seq(S)
  OBVIOUS
<1>2. step \in [0 .. n -> [Seq(S) -> Seq(S)]]
  <2>1. ASSUME NEW k \in 0 .. n, NEW t \in Seq(S)
        PROVE  (IF k = 0 THEN t ELSE t \o seqs[k]) \in Seq(S)
    <3>1. CASE k = 0
      BY <3>1
    <3>2. CASE k # 0
      <4>1. seqs[k] \in Seq(S)
        BY <1>1, <3>2
      <4>2. QED
        BY <3>2, <4>1, ConcatProperties
    <3>3. QED
      BY <3>1, <3>2
  <2>2. QED
    BY <2>1
<1> HIDE DEF step, n
<1>3. PICK h \in [0 .. n -> Seq(S)] : h[0] = <<>> /\ \A k \in 1 .. n : h[k] = step[k][h[k - 1]]
  <2> DEFINE D == Seq(S)
             b == <<>>
  <2>1. b \in D /\ step \in [0 .. n -> [D -> D]] /\ n \in Nat
    BY <1>1, <1>2
  <2> HIDE DEF b, D
  <2>2. \E h \in [0 .. n -> D] : Stepwise(h, n, b, step)
    BY <2>1, StepwiseExists
  <2>3. QED
    BY <2>2 DEF b, D, Stepwise
<1> DEFINE f == [i \in 1 .. n |-> h[i]]
<1>4. f \in [1 .. n -> Seq(S)]
  OBVIOUS
<1>5. \A k \in 1 .. n : h[k] = h[k - 1] \o seqs[k]
  <2>1. ASSUME NEW k \in 1 .. n PROVE h[k] = h[k - 1] \o seqs[k]
    <3>1. k \in 0 .. n /\ k - 1 \in 0 .. n /\ k # 0
      BY <1>1
    <3>2. h[k - 1] \in Seq(S)
      BY <3>1
    <3>3. step[k][h[k - 1]] = h[k - 1] \o seqs[k]
      BY <3>1, <3>2 DEF step
    <3>4. QED
      BY <1>3, <3>3
  <2>2. QED
    BY <2>1
<1>6. f[1] = seqs[1]
  <2>1. PICK k \in 1 .. n : k = 1
    BY <1>1
  <2>2. k - 1 = 0 /\ f[1] = h[k] /\ seqs[1] \in Seq(S)
    BY <1>1, <2>1
  <2>3. f[1] = <<>> \o seqs[1]
    BY <1>3, <1>5, <2>1, <2>2
  <2>4. QED
    BY <2>2, <2>3, ConcatEmptySeq
<1>7. \A i \in 2 .. n : f[i] = f[i - 1] \o seqs[i]
  <2>1. ASSUME NEW i \in 2 .. n PROVE f[i] = f[i - 1] \o seqs[i]
    <3>1. i \in 1 .. n /\ i - 1 \in 1 .. n
      BY <1>1
    <3>2. f[i] = h[i] /\ f[i - 1] = h[i - 1]
      BY <3>1
    <3>3. QED
      BY <1>5, <3>1, <3>2
  <2>2. QED
    BY <2>1
<1> DEFINE flat == [i \in 1 .. n |-> IF i = 1 THEN seqs[i] ELSE f[i - 1] \o seqs[i]]
<1>8. f = flat
  <2>1. ASSUME NEW i \in 1 .. n PROVE f[i] = flat[i]
    <3>1. i = 1 \/ i \in 2 .. n
      OBVIOUS
    <3>2. QED
      BY <1>6, <1>7, <3>1
  <2>2. DOMAIN f = 1 .. n /\ DOMAIN flat = 1 .. n
    OBVIOUS
  <2>3. f = [i \in 1 .. n |-> f[i]] /\ flat = [i \in 1 .. n |-> flat[i]]
    OBVIOUS
  <2>4. QED
    BY <2>1, <2>3
<1> DEFINE g == CHOOSE g : g = [i \in 1 .. n |-> IF i = 1 THEN seqs[i] ELSE g[i - 1] \o seqs[i]]
<1>9. g = [i \in 1 .. n |-> IF i = 1 THEN seqs[i] ELSE g[i - 1] \o seqs[i]]
  <2>1. \E z : z = [i \in 1 .. n |-> IF i = 1 THEN seqs[i] ELSE z[i - 1] \o seqs[i]]
    <3> HIDE DEF f
    <3> QED
      BY <1>8
  <2>2. QED
    BY <2>1
<1>10. FlattenSeq(seqs) = g[n]
  BY <1>1 DEF FlattenSeq, n
<1> HIDE DEF g, f, n, flat
<1>11. /\ \A i \in 1 .. n : g[i] = IF i = 1 THEN seqs[i] ELSE g[i - 1] \o seqs[i]
       /\ \A i \in 1 .. n : f[i] = IF i = 1 THEN seqs[i] ELSE f[i - 1] \o seqs[i]
  BY <1>8, <1>9 DEF flat
<1>12. \A m \in 0 .. n : m \in {k \in 0 .. n : k >= 1 => g[k] = f[k]}
  <2> DEFINE T == {k \in 0 .. n : k >= 1 => g[k] = f[k]}
  <2>1. 0 \in T
    BY <1>1
  <2>2. ASSUME NEW k \in 0 .. n - 1, k \in T PROVE k + 1 \in T
    <3>1. k + 1 \in 1 .. n /\ k + 1 - 1 = k /\ (k + 1 = 1 <=> k = 0)
      BY <1>1
    <3>2. PICK j \in 1 .. n : j = k + 1
      BY <3>1
    <3>3. g[j] = f[j]
      BY <1>11, <2>2, <3>1, <3>2
    <3>4. QED
      BY <1>1, <3>1, <3>2, <3>3
  <2> HIDE DEF T
  <2>3. QED
    BY <1>1, <2>1, <2>2, CountUp DEF T
<1>13. g[n] = f[n]
  BY <1>1, <1>12
<1>14. QED
  BY <1>4, <1>6, <1>7, <1>10, <1>13 DEF n

\* One more sequence goes to the end of the concatenation.
LEMMA FlattenAppend ==
  ASSUME NEW S, NEW seqs \in Seq(Seq(S)), NEW t \in Seq(S)
  PROVE  /\ FlattenSeq(seqs) \in Seq(S)
         /\ FlattenSeq(Append(seqs, t)) = FlattenSeq(seqs) \o t
<1> DEFINE n == Len(seqs)
           more == Append(seqs, t)
<1>1. /\ n \in Nat /\ more \in Seq(Seq(S)) /\ Len(more) = n + 1 /\ more # <<>>
      /\ more[n + 1] = t /\ \A i \in 1 .. n : more[i] = seqs[i]
  BY AppendProperties
<1> HIDE DEF more
<1>2. PICK g \in [1 .. n + 1 -> Seq(S)] :
        /\ g[1] = more[1]
        /\ \A i \in 2 .. n + 1 : g[i] = g[i - 1] \o more[i]
        /\ FlattenSeq(more) = g[n + 1]
  <2>1. \E g \in [1 .. Len(more) -> Seq(S)] :
          /\ g[1] = more[1]
          /\ \A i \in 2 .. Len(more) : g[i] = g[i - 1] \o more[i]
          /\ FlattenSeq(more) = g[Len(more)]
    BY <1>1, FlattenSteps
  <2>2. Len(more) = n + 1
    BY <1>1
  <2> HIDE DEF n
  <2>3. QED
    BY <2>1, <2>2
<1>3. CASE seqs = <<>>
  <2>1. n = 0 /\ FlattenSeq(seqs) = <<>>
    BY <1>3 DEF FlattenSeq
  <2>2. FlattenSeq(more) = t
    BY <1>1, <1>2, <2>1
  <2>3. QED
    BY <2>1, <2>2, ConcatEmptySeq DEF more
<1>4. CASE seqs # <<>>
  <2>1. PICK f \in [1 .. n -> Seq(S)] :
          /\ f[1] = seqs[1]
          /\ \A i \in 2 .. n : f[i] = f[i - 1] \o seqs[i]
          /\ FlattenSeq(seqs) = f[n]
    BY <1>4, FlattenSteps
  <2>2. n >= 1
    BY <1>1, <1>4
  <2> HIDE DEF n
  <2> DEFINE T == {k \in 0 .. n : k >= 1 => g[k] = f[k]}
  <2>3. 0 \in T
    BY <1>1
  <2>4. ASSUME NEW k \in 0 .. n - 1, k \in T PROVE k + 1 \in T
    <3>1. PICK j \in 1 .. n : j = k + 1
      BY <1>1
    <3>2. j - 1 = k /\ (j = 1 <=> k = 0) /\ (k # 0 => j \in 2 .. n /\ j \in 2 .. n + 1 /\ k >= 1)
      BY <1>1, <3>1
    <3>3. g[j] = f[j]
      <4>1. CASE k = 0
        BY <1>1, <1>2, <2>1, <3>1, <3>2, <4>1
      <4>2. CASE k # 0
        <5>1. g[j] = g[k] \o more[j] /\ f[j] = f[k] \o seqs[j] /\ g[k] = f[k]
          BY <1>2, <2>1, <2>4, <3>2, <4>2
        <5>2. QED
          BY <1>1, <3>1, <5>1
      <4>3. QED
        BY <4>1, <4>2
    <3>4. QED
      BY <3>1, <3>3
  <2>5. g[n] = f[n]
    <3> HIDE DEF T
    <3>1. \A k \in 0 .. n : k \in T
      BY <1>1, <2>3, <2>4, CountUp
    <3>2. QED
      BY <1>1, <2>2, <3>1 DEF T
  <2>6. g[n + 1] = g[n] \o t
    <3>1. PICK j \in 2 .. n + 1 : j = n + 1
      BY <1>1, <2>2
    <3>2. j - 1 = n
      BY <1>1, <3>1
    <3>3. QED
      BY <1>1, <1>2, <3>1, <3>2
  <2>7. f[n] \in Seq(S)
    BY <1>1, <2>2
  <2>8. QED
    BY <1>2, <2>1, <2>5, <2>6, <2>7 DEF more
<1>5. QED
  BY <1>3, <1>4

\* A sequence is its front and its last element.
LEMMA FrontAndLast ==
  ASSUME NEW S, NEW s \in Seq(S), s # <<>>
  PROVE  /\ Front(s) \in Seq(S) /\ Len(Front(s)) = Len(s) - 1
         /\ \A i \in 1 .. Len(s) - 1 : Front(s)[i] = s[i]
         /\ Last(s) \in S /\ s = Append(Front(s), Last(s))
<1>1. Len(s) \in Nat /\ Len(s) >= 1
  OBVIOUS
<1>2. /\ Front(s) \in Seq(S) /\ Len(Front(s)) = Len(s) - 1
      /\ \A i \in 1 .. Len(s) - 1 : Front(s)[i] = s[i]
  <2>1. PICK m \in Nat : m = Len(s) - 1
    BY <1>1
  <2>2. /\ SubSeq(s, 1, m) \in Seq(S) /\ Len(SubSeq(s, 1, m)) = m
        /\ \A i \in 1 .. m : SubSeq(s, 1, m)[i] = s[i]
    BY <1>1, <2>1
  <2>3. QED
    BY <2>1, <2>2 DEF Front
<1>3. Last(s) \in S
  BY <1>1 DEF Last
<1>4. s = Append(Front(s), Last(s))
  BY <1>1, <1>2, <1>3 DEF Last
<1>5. QED
  BY <1>2, <1>3, <1>4
\* A sequence that goes on from another by one element.
LEMMA AppendIs ==
  ASSUME NEW S, NEW s \in Seq(S), NEW e \in S, NEW t \in Seq(S), Len(t) = Len(s) + 1,
         t[Len(s) + 1] = e, \A i \in 1 .. Len(s) : t[i] = s[i]
  PROVE  Append(s, e) = t
<1> DEFINE u == Append(s, e)
<1>1. /\ u \in Seq(S) /\ Len(u) = Len(s) + 1 /\ u[Len(s) + 1] = e
      /\ \A i \in 1 .. Len(s) : u[i] = s[i]
  OBVIOUS
<1> HIDE DEF u
<1>2. Len(s) \in Nat
  OBVIOUS
<1>3. \A i \in 1 .. Len(u) : u[i] = t[i]
  BY <1>1, <1>2
<1>4. u = t
  BY <1>1, <1>3, SeqEqual
<1>5. QED
  BY <1>4 DEF u
=============================================================================
