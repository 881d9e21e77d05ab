---------------------------- MODULE NormalizePath ----------------------------
(***************************************************************************)
(* FileContext::normalizePath() rewrites a path in place: a read cursor    *)
(* runs ahead and skips "//", "/." and "/..", a write cursor follows and   *)
(* backs up over the component that a "/.." cancels.  An action is one     *)
(* round of the inner loop.  A path is its sequence of characters.         *)
(***************************************************************************)
EXTENDS Integers, Sequences, SequencesExt, FiniteSetsExt

CONSTANTS
  Names,     \* characters other than "/" and "."
  NUL,       \* the terminator
  MaxLen     \* bound of the model: the length of a path

ASSUME CharacterAssumption ==
  "/" \notin Names /\ "." \notin Names /\ NUL \notin Names \cup {"/", "."}

ASSUME LengthAssumption == MaxLen \in Nat

VARIABLES
  input,     \* history: the path given
  path,      \* the characters of the buffer, the terminator included
  readPos,
  writePos,
  pc         \* "scan" in the loop, "tidy" behind it, "done"

npVars == <<input, path, readPos, writePos, pc>>

Chars == Names \cup {"/", "."}

\* The path given, as it lies in the buffer.
Given(s) == [i \in 0 .. Len(s) |-> IF i < Len(s) THEN s[i + 1] ELSE NUL]

NPInit ==
  /\ input \in UNION {[1 .. n -> Chars] : n \in 0 .. MaxLen}
  /\ path = Given(input)
  /\ readPos = 0 /\ writePos = 0
  /\ pc = IF Len(input) > 0 THEN "scan" ELSE "tidy"

At(k) == path[readPos + k]

SlashSlash == At(0) = "/" /\ At(1) = "/"
SlashParent == At(0) = "/" /\ At(1) = "." /\ At(2) = "." /\ At(3) \in {NUL, "/"}
SlashThis == At(0) = "/" /\ At(1) = "." /\ At(2) \in {NUL, "/"}

SkipSlash ==
  /\ pc = "scan" /\ SlashSlash
  /\ readPos' = readPos + 1
  /\ UNCHANGED <<input, path, writePos, pc>>

\* The last component written begins at w.
Component(w) ==
  /\ w > 0 => path[w - 1] = "/"
  /\ \A i \in w .. writePos - 1 : path[i] # "/"

\* Mistake: the slash before the component stays.
BackUpKeepsSlash(w) == w

\* Mistake: the write cursor leaves the buffer at the root.
BackUpBelowRoot(w) == w - 1

\* The write cursor backs up over a component and the slash before it.
BackUp(w) == IF w = 0 THEN 0 ELSE w - 1

SkipParent ==
  /\ pc = "scan" /\ SlashParent
  /\ readPos' = readPos + 3
  /\ \E w \in 0 .. writePos : Component(w) /\ writePos' = BackUp(w)
  /\ UNCHANGED <<input, path, pc>>

SkipThis ==
  /\ pc = "scan" /\ SlashThis
  /\ readPos' = readPos + 2
  /\ UNCHANGED <<input, path, writePos, pc>>

\* Mistake: the write cursor runs ahead by one.
CopyAhead ==
  /\ pc = "scan" /\ ~SlashSlash /\ ~SlashParent /\ ~SlashThis
  /\ At(0) # NUL
  /\ path' = [path EXCEPT ![writePos + 1] = At(0)]
  /\ readPos' = readPos + 1 /\ writePos' = writePos + 1
  /\ pc' = IF writePos + 1 < Len(input) THEN "scan" ELSE "tidy"
  /\ UNCHANGED input

Copy ==
  /\ pc = "scan" /\ ~SlashSlash /\ ~SlashParent /\ ~SlashThis
  /\ At(0) # NUL
  /\ path' = [path EXCEPT ![writePos] = At(0)]
  /\ readPos' = readPos + 1 /\ writePos' = writePos + 1
  /\ pc' = IF writePos + 1 < Len(input) THEN "scan" ELSE "tidy"
  /\ UNCHANGED input

CopyEnd ==
  /\ pc = "scan" /\ At(0) = NUL
  /\ path' = [path EXCEPT ![writePos] = NUL]
  /\ pc' = "tidy"
  /\ UNCHANGED <<input, readPos, writePos>>

\* Mistake: the trailing slash stays.
TrimmedNot == path

\* The path without a trailing slash.
Trimmed ==
  IF writePos > 1 /\ path[writePos - 1] = "/"
  THEN [path EXCEPT ![writePos - 1] = NUL] ELSE path

\* An empty path becomes the root, unless it was given empty.
Tidy ==
  /\ pc = "tidy" /\ pc' = "done"
  /\ path' = IF Trimmed[0] = NUL /\ Len(input) >= 1
             THEN [Trimmed EXCEPT ![0] = "/", ![1] = NUL] ELSE Trimmed
  /\ UNCHANGED <<input, readPos, writePos>>

Done == pc = "done" /\ UNCHANGED npVars

NPNext == SkipSlash \/ SkipParent \/ SkipThis \/ Copy \/ CopyEnd \/ Tidy \/ Done

NPSpec == NPInit /\ [][NPNext]_npVars
-----------------------------------------------------------------------------
(* The reference: a path is a head and segments that begin with a slash.   *)

\* Empty and "." segments vanish, ".." takes away the one before it.
Settle(kept, seg) ==
  CASE seg \in {<<>>, <<"/">>, <<"/", ".">>} -> kept
    [] seg = <<"/", ".", ".">> -> IF kept = <<>> THEN kept ELSE Front(kept)
    [] OTHER -> Append(kept, seg)

\* A slash begins a segment and settles the one before it.
Read(p, c) ==
  IF c = "/" THEN [kept |-> Settle(p.kept, p.seg), seg |-> <<"/">>]
  ELSE [kept |-> p.kept, seg |-> Append(p.seg, c)]

\* What the first k characters of a path come to: the segments kept, and the
\* one that is being read.
Parsed(s) ==
  LET parsed[k \in 0 .. Len(s)] ==
        IF k = 0 THEN [kept |-> <<>>, seg |-> <<>>] ELSE Read(parsed[k - 1], s[k])
  IN  parsed

Normal(s) ==
  LET p == Parsed(s)[Len(s)]
      text == FlattenSeq(Settle(p.kept, p.seg))
  IN  IF text = <<>> /\ s # <<>> THEN <<"/">> ELSE text

\* The string in the buffer.
Result ==
  LET length == Min({i \in DOMAIN path : path[i] = NUL})
  IN  [i \in 1 .. length |-> path[i - 1]]
-----------------------------------------------------------------------------
\* The cursors stay in the buffer, and the write cursor behind the other.
NPTypeOK ==
  /\ path \in [0 .. Len(input) -> Chars \cup {NUL}]
  /\ writePos \in 0 .. readPos /\ readPos \in 0 .. Len(input)
  /\ pc \in {"scan", "tidy", "done"}

\* What is still to be read is as it was given, although the path is rewritten
\* in place and the write cursor moves back and forth
\* (FileContext.cpp:364-373, 383).
UnreadIntact == pc = "scan" => \A i \in readPos .. Len(input) : path[i] = Given(input)[i]

\* The rewriting yields the resolved path (FileContext.cpp:347-404).
MatchesReference == pc = "done" => Result = Normal(input)

\* The segment that begins with the slash at i is empty, "." or "..".
Vanishes(p, i) ==
  \/ p[i + 1] = "/"
  \/ p[i + 1] = "." /\ p[i + 2] \in {NUL, "/"}
  \/ p[i + 1] = "." /\ p[i + 2] = "." /\ p[i + 3] \in {NUL, "/"}

\* No segment of the string in buffer p vanishes, and none but the root is a
\* slash alone.
IsNormal(p) ==
  \E e \in DOMAIN p :
    /\ p[e] = NUL
    /\ \A i \in 0 .. e - 1 :
         /\ p[i] # NUL
         /\ p[i] = "/" => ~Vanishes(p, i) /\ (p[i + 1] = NUL => i = 0)

\* The result is in normal form, and a path in normal form is left as it is:
\* clients may pass paths that were normalized before (FileContext.h:325-327,
\* FileContext.cpp:425).
Settled ==
  pc = "done" => IsNormal(path) /\ (IsNormal(Given(input)) => path = Given(input))
=============================================================================
